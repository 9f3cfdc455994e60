------------------------------ MODULE VideoDecoder ------------------------------
(***************************************************************************)
(* Core/Shared/Video/VideoDecoder: the place for one frame between the     *)
(* thread that emulates and the decode thread, _frameChanged saying that   *)
(* it is taken.  UpdateFrame waits for the place at normal speed and drops *)
(* the frame at high speed; a frame of a rewind or of a loaded state is    *)
(* decoded by the thread that brings it.  StopThread and StartThread end   *)
(* and start the decode thread when a game is loaded.                      *)
(*                                                                         *)
(* The emulation draws alternately into the two buffers of its PPU and     *)
(* hands over a pointer.  The user's thread works between two frames, with *)
(* the run lock, which module EmulatorLoop models.  The filters, run-ahead *)
(* frames and the frame the debugger sends in a pause are left out.        *)
(***************************************************************************)
EXTENDS Naturals

CONSTANTS
  Ops,       (* What the user does.                                        *)
  MaxFrames, (* Bounds the frames, those of loaded states included.        *)
  MaxOps     (* Bounds the user's calls.                                   *)

(* "load" is SaveStateManager::LoadState, "record" the start or the end of *)
(* the recording of an HD pack, "power" a power cycle; "rewind" starts or  *)
(* ends rewinding, and "speed" changes the speed.                          *)
AllOps == {"load", "record", "power", "rewind", "speed"}

ASSUME ConstantsAssumption ==
  Ops \subseteq AllOps /\ MaxFrames \in Nat /\ MaxOps \in Nat

VARIABLES
  emu, decoder, user, (* where each thread is                              *)
  ops,                (* the user's calls so far                           *)
  frameChanged,       (* _frameChanged                                     *)
  frame,              (* _frame: its number, its buffer, and whether it was *)
                      (* sent for a rewind                                 *)
  stopFlag, running,  (* _stopFlag, and whether there is a _decodeThread   *)
  signaled,           (* _waitForFrame                                     *)
  fast, rewinding,    (* the speed is 0 or above 100; rewinding            *)
  drawn,              (* the buffer the PPU draws into                     *)
  content,            (* the frame that was last drawn into each buffer    *)
  frames,             (* frames drawn or loaded so far                     *)
  shown,              (* the last frame sent to the RewindManager          *)
  skipped,            (* a frame was dropped since _frame was set          *)
  gap                 (* a frame of this rewind was dropped after another  *)
                      (* one had been decoded                              *)

threads == <<emu, decoder, user>>
place   == <<frameChanged, frame, skipped>>
life    == <<stopFlag, running>>
speed   == <<fast, rewinding>>
ppu     == <<drawn, content, frames>>
vars == <<threads, ops, place, life, signaled, speed, ppu, shown, gap>>

Buffers == {"a", "b"}
Other(b) == IF b = "a" THEN "b" ELSE "a"

(* Init: the threads have been started and a game is loaded.               *)
Init ==
  /\ emu = "frame" /\ decoder = "test" /\ user = "idle"
  /\ ops = 0
  /\ frameChanged = FALSE /\ skipped = FALSE
  /\ frame = [no |-> 0, buffer |-> "freed", rewind |-> FALSE]
  /\ stopFlag = FALSE /\ running = TRUE /\ signaled = FALSE
  /\ fast = FALSE /\ rewinding = FALSE
  /\ drawn = "a" /\ content = [b \in Buffers |-> 0] /\ frames = 0
  /\ shown = 0 /\ gap = FALSE

-----------------------------------------------------------------------------
(***************************************************************************)
(* UpdateFrame, on the thread that brings frame f.                         *)
(***************************************************************************)
(* The place is taken, and the frame is dropped.                           *)
Dropped ==
  /\ skipped' = TRUE
  /\ gap' = (gap \/ (rewinding /\ frame.rewind))
  /\ UNCHANGED <<frameChanged, frame, life, signaled, speed, drawn, content, shown>>

(* The frame is put in the place.                                          *)
Accepted(f, sync) ==
  /\ frame' = f /\ skipped' = FALSE
  /\ frameChanged' = (frameChanged \/ ~sync)
  /\ signaled' = (signaled \/ ~sync)
  /\ UNCHANGED <<life, speed, drawn, content, shown, gap>>

(* The end of DecodeFrame: the picture is sent, and the place is free.     *)
SendFrame ==
  /\ shown' = frame.no
  /\ UNCHANGED <<ops, place, life, signaled, speed, ppu, gap>>

Free ==
  /\ frameChanged' = FALSE
  /\ UNCHANGED <<ops, frame, skipped, life, signaled, speed, ppu, shown, gap>>

(***************************************************************************)
(* The emulation thread.                                                   *)
(***************************************************************************)
EmuGoto(from, to) == emu = from /\ emu' = to /\ UNCHANGED <<decoder, user>>

(* The first and the last pixel of a frame.                                *)
DrawBegin ==
  /\ EmuGoto("frame", "draw") /\ user = "idle" /\ frames < MaxFrames
  /\ frames' = frames + 1 /\ content' = [content EXCEPT ![drawn] = frames']
  /\ UNCHANGED <<ops, place, life, signaled, speed, drawn, shown, gap>>

DrawEnd ==
  /\ EmuGoto("draw", "update")
  /\ UNCHANGED <<ops, place, life, signaled, speed, ppu, shown, gap>>

Drawn == [no |-> content[drawn], buffer |-> drawn, rewind |-> rewinding]

(* Mutant: the frame of a rewind is left to the decode thread.             *)
EmuAcceptsAsync ==
  /\ ~frameChanged /\ emu \in {"update", "spin"}
  /\ EmuGoto(emu, "sent")
  /\ Accepted(Drawn, FALSE) /\ UNCHANGED <<ops, frames>>

EmuAccepts ==
  /\ ~frameChanged /\ emu \in {"update", "spin"}
  /\ EmuGoto(emu, IF rewinding THEN "decode" ELSE "sent")
  /\ Accepted(Drawn, rewinding) /\ UNCHANGED <<ops, frames>>

(* The place is taken: the speed is read once, before the spin.            *)
EmuDrops ==
  /\ EmuGoto("update", "sent") /\ frameChanged /\ fast
  /\ Dropped /\ UNCHANGED <<ops, frames>>

EmuSpins ==
  /\ EmuGoto("update", "spin") /\ frameChanged /\ ~fast
  /\ UNCHANGED <<ops, place, life, signaled, speed, ppu, shown, gap>>

EmuDecodes ==
  \/ EmuGoto("decode", "free") /\ SendFrame
  \/ EmuGoto("free", "sent") /\ Free

(* The PPU turns to the other buffer, whatever became of the frame.        *)
NextBuffer ==
  /\ EmuGoto("sent", "frame") /\ drawn' = Other(drawn)
  /\ UNCHANGED <<ops, place, life, signaled, speed, content, frames, shown, gap>>

-----------------------------------------------------------------------------
(***************************************************************************)
(* The decode thread: DecodeThread, DecodeFrame and AutoResetEvent::Wait.  *)
(***************************************************************************)
DecoderGoto(from, to) == decoder = from /\ decoder' = to /\ UNCHANGED <<emu, user>>

(* A step that only reads what it tests.                                   *)
DecoderTests(from, to) ==
  /\ DecoderGoto(from, to)
  /\ UNCHANGED <<ops, place, life, signaled, speed, ppu, shown, gap>>

TestStop == DecoderTests("test", IF stopFlag THEN "ended" ELSE "look")

LookForFrame == DecoderTests("look", IF frameChanged THEN "decode" ELSE "wait")

Wait ==
  /\ DecoderGoto("wait", "woken") /\ signaled
  /\ signaled' = FALSE
  /\ UNCHANGED <<ops, place, life, speed, ppu, shown, gap>>

Woken == DecoderTests("woken", IF stopFlag THEN "ended" ELSE "look")

DecoderDecodes ==
  \/ DecoderGoto("decode", "free") /\ SendFrame
  \/ DecoderGoto("free", "test") /\ Free

-----------------------------------------------------------------------------
(***************************************************************************)
(* The user, between two frames.                                           *)
(***************************************************************************)
UserGoto(from, to) == user = from /\ user' = to /\ UNCHANGED <<emu, decoder>>

UserBegin(o) ==
  /\ UserGoto("idle", o) /\ emu = "frame"
  /\ o \in Ops \ {"speed"} /\ ops < MaxOps /\ (o = "load" => frames < MaxFrames)
  /\ ops' = ops + 1
  /\ UNCHANGED <<place, life, signaled, speed, ppu, shown, gap>>

(* A shortcut changes the speed at any time.                               *)
Speed ==
  /\ "speed" \in Ops /\ ops < MaxOps /\ ops' = ops + 1
  /\ fast' = ~fast
  /\ UNCHANGED <<threads, place, life, signaled, rewinding, ppu, shown, gap>>

(* RewindManager's Start sets MaximumSpeed, which takes effect at once.    *)
Rewind ==
  /\ UserGoto("rewind", "idle")
  /\ rewinding' = ~rewinding /\ fast' = ~rewinding
  /\ frame' = [frame EXCEPT !.rewind = FALSE] /\ gap' = FALSE
  /\ UNCHANGED <<ops, frameChanged, skipped, life, signaled, ppu, shown>>

(* LoadState: UpdateFrame for the frame of the state, whose buffer is a    *)
(* local variable of LoadState, and back to idle when it returns.          *)
Loaded == [no |-> frames', buffer |-> "local", rewind |-> FALSE]

LoadAccepts ==
  /\ user \in {"load", "spin"} /\ UserGoto(user, "decode")
  /\ ~frameChanged
  /\ frames' = frames + 1 /\ Accepted(Loaded, TRUE)
  /\ UNCHANGED ops

LoadDrops ==
  /\ UserGoto("load", "returns") /\ frameChanged /\ fast
  /\ frames' = frames + 1 /\ Dropped
  /\ UNCHANGED ops

LoadSpins ==
  /\ UserGoto("load", "spin") /\ frameChanged /\ ~fast
  /\ UNCHANGED <<ops, place, life, signaled, speed, ppu, shown, gap>>

LoadDecodes ==
  \/ UserGoto("decode", "free") /\ SendFrame
  \/ UserGoto("free", "returns") /\ Free

(* What goes out of scope: a local frame buffer, or a PPU's two.           *)
Freed(bs) == frame' = [frame EXCEPT !.buffer = IF @ \in bs THEN "freed" ELSE @]

LoadReturns ==
  /\ UserGoto("returns", "idle") /\ Freed({"local"})
  /\ UNCHANGED <<ops, frameChanged, skipped, life, signaled, speed, ppu, shown, gap>>

(* A PPU is made, with buffers of its own.                                 *)
NewPpu ==
  /\ Freed(Buffers) /\ drawn' = "a" /\ content' = [b \in Buffers |-> 0]

(* Mutant: WaitForAsyncFrameDecode is left out.                            *)
RecordAtOnce ==
  /\ UserGoto("record", "idle")
  /\ NewPpu
  /\ UNCHANGED <<ops, frameChanged, skipped, life, signaled, speed, frames, shown, gap>>

(* StartRecordingHdPack and StopRecordingHdPack: WaitForAsyncFrameDecode,  *)
(* then a PPU of another kind.                                             *)
Record ==
  /\ UserGoto("record", "idle")
  /\ ~frameChanged
  /\ NewPpu
  /\ UNCHANGED <<ops, frameChanged, skipped, life, signaled, speed, frames, shown, gap>>

(* StopThread: the flag, the signal, and the wait for the thread's end.    *)
StopFlag ==
  /\ UserGoto("power", "signal") /\ stopFlag' = TRUE
  /\ UNCHANGED <<ops, place, running, signaled, speed, ppu, shown, gap>>

(* Mutant: StopThread does not signal.                                     *)
StopSignalNot ==
  /\ UserGoto("signal", "join")
  /\ UNCHANGED <<ops, place, life, signaled, speed, ppu, shown, gap>>

StopSignal ==
  /\ UserGoto("signal", "join") /\ signaled' = TRUE
  /\ UNCHANGED <<ops, place, life, speed, ppu, shown, gap>>

Join ==
  /\ UserGoto("join", "init") /\ decoder = "ended"
  /\ running' = FALSE
  /\ UNCHANGED <<ops, place, stopFlag, signaled, speed, ppu, shown, gap>>

(* InitConsole: the old console goes, with its PPU.                        *)
InitConsole ==
  /\ UserGoto("init", "start") /\ NewPpu
  /\ UNCHANGED <<ops, frameChanged, skipped, life, signaled, speed, frames, shown, gap>>

StartThread ==
  /\ user = "start" /\ user' = "idle" /\ UNCHANGED emu
  /\ ~running /\ running' = TRUE /\ decoder' = "test"
  /\ stopFlag' = FALSE /\ frameChanged' = FALSE /\ signaled' = FALSE
  /\ UNCHANGED <<ops, frame, skipped, speed, ppu, shown, gap>>

-----------------------------------------------------------------------------
EmuStep ==
  \/ DrawBegin \/ DrawEnd \/ EmuAccepts \/ EmuDrops \/ EmuSpins \/ EmuDecodes
  \/ NextBuffer

DecoderStep == TestStop \/ LookForFrame \/ Wait \/ Woken \/ DecoderDecodes

(* What the user's thread does once it has begun.                          *)
UserStep ==
  \/ Rewind \/ Record
  \/ LoadAccepts \/ LoadDrops \/ LoadSpins \/ LoadDecodes \/ LoadReturns
  \/ StopFlag \/ StopSignal \/ Join \/ InitConsole \/ StartThread

Next == EmuStep \/ DecoderStep \/ UserStep \/ Speed \/ \E o \in Ops : UserBegin(o)

Spec == Init /\ [][Next]_vars

(* Every thread is scheduled; nobody has to call anything.                 *)
FairSpec == Spec /\ WF_vars(EmuStep) /\ WF_vars(DecoderStep) /\ WF_vars(UserStep)

-----------------------------------------------------------------------------
(***************************************************************************)
(* Safety.                                                                 *)
(***************************************************************************)
(* Every variable has its type, a waiting frame was sent by the emulation, *)
(* and a decode thread that has ended is being replaced.                   *)
TypeOK ==
  /\ emu \in {"frame", "draw", "update", "spin", "decode", "free", "sent"}
  /\ decoder \in {"test", "look", "wait", "woken", "decode", "free", "ended"}
  /\ user \in {"idle", "load", "record", "power", "rewind", "spin", "decode", "free",
               "returns", "signal", "join", "init", "start"}
  /\ ops \in 0..MaxOps
  /\ {frameChanged, skipped, stopFlag, running, signaled, fast, rewinding, gap}
       \subseteq BOOLEAN
  /\ frame \in [no : 0..MaxFrames, buffer : Buffers \cup {"local", "freed"},
                rewind : BOOLEAN]
  /\ drawn \in Buffers /\ content \in [Buffers -> 0..MaxFrames]
  /\ frames \in 0..MaxFrames /\ shown \in 0..MaxFrames
  /\ frameChanged => frame.buffer # "local" /\ ~frame.rewind
  /\ decoder = "ended" => user \in {"signal", "join", "init", "start"}

(* Who reads _frame: the three threads, each in its own DecodeFrame.       *)
Reading == emu = "decode" \/ decoder = "decode" \/ user = "decode"

(* What is decoded is whole: the buffer still exists, and the PPU has not  *)
(* begun another frame in it -- unless a frame was dropped meanwhile: the  *)
(* PPU has then used both its buffers and is back in the one being read.   *)
(* No two threads decode at once.                                          *)
WholeFrames ==
  /\ Reading => /\ frame.buffer # "freed"
                /\ frame.buffer \in Buffers
                     => content[frame.buffer] = frame.no \/ skipped
  /\ decoder \in {"decode", "free"}
       => emu \notin {"decode", "free"} /\ user \notin {"decode", "free"}

(* ProcessFrame counts the frames of a rewind to know when a block is      *)
(* complete.  Only frames at the start of a rewind can be dropped, for a   *)
(* frame from before it that is still being decoded: never one in between. *)
RewindGapless == ~gap

(***************************************************************************)
(* Liveness.                                                               *)
(***************************************************************************)
(* No thread waits for ever: a frame that was put in the place is decoded  *)
(* or given up with the decode thread, so that UpdateFrame and             *)
(* WaitForAsyncFrameDecode return, and StopThread's join does.             *)
CallsEnd ==
  /\ frameChanged ~> ~frameChanged
  /\ user # "idle" ~> user = "idle"
  /\ emu = "spin" ~> emu # "spin"

-----------------------------------------------------------------------------
(* Violated (see MCVideoLoad.cfg).  SaveStateManager.cpp:414: "Always push *)
(* the saved frame to the renderer after a successful state load", so that *)
(* a game that is paused shows the state's frame: when LoadState returns,  *)
(* the last frame sent is the state's.                                     *)
LoadedFrameShown == user = "returns" => shown = frames
===============================================================================
