---------------------------- MODULE RewindManager ----------------------------
(***************************************************************************)
(* Core/Shared/RewindManager and RewindData: blocks of recorded frames,    *)
(* each with the machine's state before them and the input of every frame, *)
(* and the rewinding that replays them block by block, last block first.   *)
(*                                                                         *)
(* A frame of the emulation thread is three steps: RunFrame, which polls   *)
(* the input and ends with the notification PpuFrameDone, SendFrame, which *)
(* hands the picture to ProcessFrame, and ProcessEndOfFrame.  The shortcut *)
(* thread rewinds, loads and changes the speed under the run lock, that is *)
(* between two frames; only Stop looks at the state before it has the lock.*)
(*                                                                         *)
(* The machine is deterministic: its state is the sequence of the inputs   *)
(* it was given, and each live input is a number never used before.  A     *)
(* load polls once outside a frame; an input that a replay gives to the    *)
(* machine in another place than it was recorded in is written 0.          *)
(* Resets, which poll outside a frame as well, rewinding for the debugger, *)
(* audio and the RewindBufferSize of 0 that disables the recording are not *)
(* modelled.                                                               *)
(***************************************************************************)
EXTENDS Integers, Sequences, SequencesExt

CONSTANTS
  BufferSize,  (* Frames in a block at normal speed (30 in the source).    *)
  FullEvery,   (* A state at such a position is not XORed (30).            *)
  FastFactor,  (* The high EmulationSpeed is 100 times this (at most 50).  *)
  FullSize,    (* GetStateSize of a full state,                            *)
  DeltaSize,   (* and of a XORed one.                                      *)
  MaxBytes,    (* RewindBufferSize in bytes.                               *)
  Seconds,     (* The numbers of blocks RewindSeconds may go back.         *)
  Ops,         (* What the user does.                                      *)
  MaxInputs,   (* Bounds the live inputs.                                  *)
  MaxTotal     (* The user calls nothing when the total is above this.     *)

ASSUME SizesAssumption ==
  /\ BufferSize \in Nat \ {0} /\ FullEvery \in Nat \ {0} /\ FastFactor \in Nat \ {0}
  /\ FullSize \in Nat \ {0} /\ DeltaSize \in Nat \ {0} /\ MaxBytes \in Nat
  /\ Seconds \subseteq Nat \ {0} /\ MaxInputs \in Nat \ {0} /\ MaxTotal \in Nat

AllOps == {"rewind", "seconds", "load", "speed", "reload"}
ASSUME OpsAssumption == Ops \subseteq AllOps

VARIABLES
  machine,             (* the emulated machine                             *)
  inputs,              (* the live inputs polled so far                    *)
  phase,               (* where the emulation thread is in a frame         *)
  asked,               (* the user has passed Stop's test of the state     *)
  history,             (* _history                                         *)
  historyBackup,       (* _historyBackup                                   *)
  currentHistory,      (* _currentHistory                                  *)
  rewindState,         (* _rewindState                                     *)
  framesToFastForward, (* _framesToFastForward                             *)
  videoHistory,        (* _videoHistory, a frame being the machine it shows*)
  videoHistoryBuilder, (* _videoHistoryBuilder                             *)
  totalMemoryUsage,    (* _totalMemoryUsage                                *)
  maximumSpeed,        (* EmulationFlags::MaximumSpeed                     *)
  fast,                (* EmulationSpeed is the high one, or else 100      *)
  shown,               (* the frame on the screen                          *)
  exact,               (* nothing loaded so far was wrong (see StopAt,     *)
                       (* PopBlock)                                        *)
  torn                 (* a block was ended that was being replayed        *)

blocks   == <<history, historyBackup, currentHistory>>
rewinds  == <<rewindState, framesToFastForward, maximumSpeed>>
video    == <<videoHistory, videoHistoryBuilder>>
vars == <<machine, inputs, phase, asked, blocks, rewinds, video, totalMemoryUsage,
          fast, shown, exact, torn>>

-----------------------------------------------------------------------------
(***************************************************************************)
(* RewindData.  "xor" holds the full state the data was XORed with, if any *)
(* was found; "orphan" marks a block that AddHistoryBlock kept when it had *)
(* removed every block before it, "boot" the one that a load began.        *)
(***************************************************************************)
Blocks == [state : Seq(0..MaxInputs), count : Nat, log : Seq(1..MaxInputs),
           full : BOOLEAN, xor : SUBSET Seq(0..MaxInputs),
           seg : BOOLEAN, orphan : BOOLEAN, boot : BOOLEAN]

(* The full state ProcessXorState finds, going back from the end of h.     *)
LastFull(h) ==
  LET i == SelectLastInSeq(h, LAMBDA b : b.full)
  IN  IF i = 0 THEN {} ELSE {h[i].state}

SaveState(s, h) ==
  LET full == Len(h) % FullEvery = 0
  IN  [state |-> s, count |-> 0, log |-> <<>>, full |-> full,
       xor |-> IF full THEN {} ELSE LastFull(h), seg |-> FALSE, orphan |-> FALSE,
       boot |-> FALSE]

(* The block that a load begins, after the poll that follows InitHistory   *)
(* outside a frame: RecordInput has recorded it.                           *)
BootBlock(input) == [SaveState(<<>>, <<>>) EXCEPT !.log = <<input>>, !.boot = TRUE]

Decodes(b, h) == b.full \/ b.xor = LastFull(h)

(* What a XOR with the wrong state leaves of the machine.                  *)
Corrupt == <<0>>

LoadState(b, h) == machine' = IF Decodes(b, h) THEN b.state ELSE Corrupt

Size(b) == IF b.full THEN FullSize ELSE DeltaSize

(* The sum of f[1] to f[n], and the sums over the first n blocks of h.     *)
SumTo(f, n) ==
  LET sum[i \in Nat] == IF i = 0 THEN 0 ELSE sum[i - 1] + f[i]
  IN  sum[n]

SizeOf(h, n) == SumTo([i \in DOMAIN h |-> Size(h[i])], n)
CountOf(h, n) == SumTo([i \in DOMAIN h |-> h[i].count], n)

-----------------------------------------------------------------------------
(* A game was loaded: InitHistory, with its first AddHistoryBlock, and     *)
(* then the poll of the load.                                              *)
Init ==
  /\ machine = <<1>> /\ inputs = 1 /\ phase = "frame" /\ asked = FALSE
  /\ history = <<>> /\ historyBackup = <<>>
  /\ currentHistory = BootBlock(1)
  /\ rewindState = "Stopped" /\ framesToFastForward = 0
  /\ videoHistory = <<>> /\ videoHistoryBuilder = <<>>
  /\ totalMemoryUsage = FullSize
  /\ maximumSpeed = FALSE /\ fast = FALSE
  /\ shown = <<>> /\ exact = TRUE /\ torn = FALSE

(***************************************************************************)
(* AddHistoryBlock.  Blocks are removed from the front, a full state with  *)
(* all that follow it until the next one, while the total is above the     *)
(* maximum; Cuts has the numbers of blocks the two loops can have removed. *)
(***************************************************************************)
(* Mutant: the inner loop is left out.                                     *)
CutsAnywhere(h) == 0..Len(h)

Cuts(h) == {n \in 0..Len(h) : n \in {0, Len(h)} \/ h[n + 1].full}

Trimmed(h) ==
  Min({n \in Cuts(h) : n = Len(h) \/ totalMemoryUsage - SizeOf(h, n) <= MaxBytes})

(* Mutant: the total is started again when blocks are removed.             *)
AddHistoryBlockReset(h, c, s) ==
  LET n    == Trimmed(h)
      kept == SubSeq(h, n + 1, Len(h))
      h1   == IF c.count > 0 THEN Append(kept, c) ELSE kept
      new  == SaveState(s, h1)
  IN  /\ history' = h1
      /\ currentHistory' = new
      /\ totalMemoryUsage' = (IF n > 0 THEN 0 ELSE totalMemoryUsage)
                             + (IF c.count > 0 THEN Size(c) ELSE 0) + Size(new)

AddHistoryBlock(h, c, s) ==
  LET n    == Trimmed(h)
      kept == SubSeq(h, n + 1, Len(h))
      lost == n > 0 /\ kept = <<>> /\ c.xor # {}
      h1   == IF c.count > 0 THEN Append(kept, [c EXCEPT !.orphan = @ \/ lost]) ELSE kept
      new  == SaveState(s, h1)
  IN  /\ history' = h1
      /\ currentHistory' = new
      /\ totalMemoryUsage' = totalMemoryUsage - SizeOf(h, n)
                             + (IF c.count > 0 THEN Size(c) ELSE 0) + Size(new)

(* Mutant: fast forwards also when there is no frame to run.               *)
StopAtOrOn(h, backup, c, frames) ==
  /\ history' = h
  /\ LoadState(c, h)
  /\ exact' = (exact /\ Decodes(c, h) /\ frames \in 1..Len(c.log))
  /\ framesToFastForward' = frames
  /\ IF frames >= 0
     THEN /\ rewindState' = "Stopping"
          /\ currentHistory' = [c EXCEPT !.count = 0]
          /\ historyBackup' = backup
          /\ maximumSpeed' = TRUE
     ELSE /\ rewindState' = "Stopped"
          /\ currentHistory' = c
          /\ historyBackup' = <<>>
          /\ maximumSpeed' = FALSE
  /\ videoHistory' = <<>> /\ videoHistoryBuilder' = <<>>

(***************************************************************************)
(* The end of Stop, once c is the block to go back to.  "exact" tells that *)
(* it could be loaded and that the frames to fast forward are in it: they  *)
(* are not when it is shorter than the frames still to be shown, and when  *)
(* none are left the block keeps the inputs it will record a second time.  *)
(***************************************************************************)
StopAt(h, backup, c, frames) ==
  /\ history' = h
  /\ LoadState(c, h)
  /\ exact' = (exact /\ Decodes(c, h) /\ frames \in 1..Len(c.log))
  /\ framesToFastForward' = frames
  /\ IF frames > 0
     THEN /\ rewindState' = "Stopping"
          /\ currentHistory' = [c EXCEPT !.count = 0]
          /\ historyBackup' = backup
          /\ maximumSpeed' = TRUE
     ELSE /\ rewindState' = "Stopped"
          /\ currentHistory' = c
          /\ historyBackup' = <<>>
          /\ maximumSpeed' = FALSE
  /\ videoHistory' = <<>> /\ videoHistoryBuilder' = <<>>

(* The blocks before the k-th of the backup go back to the history.        *)
StopInBackup(k, frames) ==
  StopAt(history \o SubSeq(historyBackup, 1, k - 1),
         SubSeq(historyBackup, k, Len(historyBackup)), historyBackup[k], frames)

(* The frames between the start of the k-th block and the shown frame.     *)
FramesLeft(k) ==
  Len(videoHistory) + historyBackup[1].count - CountOf(historyBackup, k - 1)

(* Mutant: the loop does not end with the last block of the backup but one.*)
StopStartedFar ==
  /\ rewindState = "Started"
  /\ StopInBackup(Len(historyBackup), historyBackup[Len(historyBackup)].count)

StopStarted ==
  /\ rewindState = "Started"
  /\ IF Len(historyBackup) > 1
     THEN LET Ends == {k \in 2..Len(historyBackup) :
                         k = Len(historyBackup) \/ FramesLeft(k) <= BufferSize}
          IN  StopInBackup(Min(Ends), FramesLeft(Min(Ends)))
     ELSE StopAt(history, historyBackup, currentHistory, framesToFastForward)

(* "didn't actually visually rewind anything yet"                          *)
StopOther ==
  /\ rewindState # "Started" /\ historyBackup # <<>>
  /\ StopInBackup(Len(historyBackup), historyBackup[Len(historyBackup)].count)

Stop == StopStarted \/ StopOther

(***************************************************************************)
(* PopHistory.  "backup" is the backup it adds to: InternalStart has just  *)
(* emptied it.  The block that a load began is not replayed right: its     *)
(* first frame is given the input of the poll before it, the next frame    *)
(* the input of the first, and so on.                                      *)
(***************************************************************************)
PopBlock(backup) ==
  LET more == currentHistory.count <= 0
      b    == IF more THEN Last(history) ELSE currentHistory
      h    == IF more THEN Front(history) ELSE history
  IN  /\ history' = h
      /\ historyBackup' = <<b>> \o backup
      /\ currentHistory' = b
      /\ LoadState(b, h)
      /\ exact' = (exact /\ Decodes(b, h) /\ ~ b.boot)

NothingLeft == history = <<>> /\ currentHistory.count <= 0

PopHistory ==
  \/ NothingLeft /\ Stop
  \/ /\ ~ NothingLeft /\ PopBlock(historyBackup)
     /\ UNCHANGED <<rewinds, video>>

-----------------------------------------------------------------------------
(***************************************************************************)
(* A frame.  SetInput gives the machine the recorded input while there is  *)
(* one, and RecordInput records the live input when nothing is rewound.    *)
(* The end of the action is the notification PpuFrameDone.                 *)
(***************************************************************************)
Rewinding == rewindState \in {"Starting", "Started"}

Recorded == rewindState # "Stopped" /\ currentHistory.log # <<>>

(* The input of the poll of a load is given to a frame.                    *)
Misplaced == currentHistory.boot /\ Len(currentHistory.log) = Len(historyBackup[1].log)

Poll ==
  /\ phase = "frame" /\ phase' = "send"
  /\ IF Recorded
     THEN /\ inputs' = inputs
          /\ machine' = Append(machine, IF Misplaced THEN 0 ELSE Head(currentHistory.log))
     ELSE /\ inputs < MaxInputs
          /\ inputs' = inputs + 1 /\ machine' = Append(machine, inputs')
  /\ UNCHANGED <<asked, history, videoHistory, videoHistoryBuilder, totalMemoryUsage,
                 fast, shown, exact, torn>>

LogLeft == IF Recorded THEN Tail(currentHistory.log) ELSE currentHistory.log

RunFrameStopped ==
  /\ rewindState = "Stopped"
  /\ Poll
  /\ currentHistory' = [currentHistory EXCEPT !.count = @ + 1, !.log = Append(@, inputs')]
  /\ UNCHANGED <<historyBackup, rewinds>>

RunFrameRewinding ==
  /\ Rewinding
  /\ Poll
  /\ currentHistory' = [currentHistory EXCEPT !.count = @ - 1, !.log = LogLeft]
  /\ UNCHANGED <<historyBackup, rewinds>>

(* Mutant: the inputs that were replayed are not recorded again.           *)
RunFrameStoppingLost ==
  /\ rewindState = "Stopping"
  /\ Poll
  /\ framesToFastForward' = framesToFastForward - 1
  /\ currentHistory' = [currentHistory EXCEPT !.count = @ + 1, !.log = LogLeft]
  /\ IF framesToFastForward' = 0
     THEN historyBackup' = <<>> /\ rewindState' = "Stopped" /\ maximumSpeed' = FALSE
     ELSE UNCHANGED <<historyBackup, rewindState, maximumSpeed>>

(* At the last frame the block gets its inputs back, without those that    *)
(* have not been replayed.                                                 *)
RunFrameStopping ==
  /\ rewindState = "Stopping"
  /\ Poll
  /\ framesToFastForward' = framesToFastForward - 1
  /\ LET all      == historyBackup[1].log
         replayed == SubSeq(all, 1, Len(all) - Len(LogLeft))
         last     == framesToFastForward' = 0
     IN  /\ currentHistory' = [currentHistory EXCEPT
                                 !.count = @ + 1,
                                 !.log = IF last THEN replayed ELSE LogLeft]
         /\ IF last
            THEN historyBackup' = <<>> /\ rewindState' = "Stopped" /\ maximumSpeed' = FALSE
            ELSE UNCHANGED <<historyBackup, rewindState, maximumSpeed>>

(***************************************************************************)
(* ProcessFrame.  The replayed frames of a block are collected until the   *)
(* block is complete; when enough frames are there, each one that is added *)
(* shows one, the last first.                                              *)
(***************************************************************************)
(* Mutant: the block's frames are put behind those of the block after it.  *)
SendFrameBehind ==
  /\ Rewinding
  /\ phase = "send" /\ phase' = "end"
  /\ LET builder  == Append(videoHistoryBuilder, machine)
         complete == Len(builder) = historyBackup[1].count
         all      == IF complete THEN videoHistory \o builder ELSE videoHistory
         started  == rewindState = "Started" \/ Len(all) >= BufferSize
     IN  /\ videoHistoryBuilder' = IF complete THEN <<>> ELSE builder
         /\ rewindState' = IF started THEN "Started" ELSE rewindState
         /\ maximumSpeed' = (maximumSpeed /\ ~ started)
         /\ videoHistory' = IF started /\ all # <<>> THEN Front(all) ELSE all
         /\ shown' = IF started /\ all # <<>> THEN Last(all) ELSE shown
  /\ UNCHANGED <<machine, inputs, asked, blocks, framesToFastForward, totalMemoryUsage,
                 fast, exact, torn>>

SendFrameRewinding ==
  /\ Rewinding
  /\ phase = "send" /\ phase' = "end"
  /\ LET builder  == Append(videoHistoryBuilder, machine)
         complete == Len(builder) = historyBackup[1].count
         all      == IF complete THEN builder \o videoHistory ELSE videoHistory
         started  == rewindState = "Started" \/ Len(all) >= BufferSize
     IN  /\ videoHistoryBuilder' = IF complete THEN <<>> ELSE builder
         /\ rewindState' = IF started THEN "Started" ELSE rewindState
         /\ maximumSpeed' = (maximumSpeed /\ ~ started)
         /\ videoHistory' = IF started /\ all # <<>> THEN Front(all) ELSE all
         /\ shown' = IF started /\ all # <<>> THEN Last(all) ELSE shown
  /\ UNCHANGED <<machine, inputs, asked, blocks, framesToFastForward, totalMemoryUsage,
                 fast, exact, torn>>

(* Nothing is shown while the machine catches up.                          *)
SendFrame ==
  /\ ~ Rewinding
  /\ phase = "send" /\ phase' = "end"
  /\ shown' = IF rewindState = "Stopped" THEN machine ELSE shown
  /\ UNCHANGED <<machine, inputs, asked, blocks, rewinds, video, totalMemoryUsage,
                 fast, exact, torn>>

(***************************************************************************)
(* ProcessEndOfFrame                                                       *)
(***************************************************************************)
Threshold == IF maximumSpeed THEN 10 * BufferSize
             ELSE IF fast THEN FastFactor * BufferSize ELSE BufferSize

EndOfRewound ==
  /\ phase = "end" /\ phase' = "frame"
  /\ Rewinding /\ currentHistory.count <= 0
  /\ PopHistory
  /\ UNCHANGED <<inputs, asked, totalMemoryUsage, fast, shown, torn>>

(* Also while a block is replayed, when it is longer than the threshold at *)
(* maximum speed: then it is recorded a second time, in part.              *)
EndOfBlock ==
  /\ phase = "end" /\ phase' = "frame"
  /\ ~ Rewinding /\ currentHistory.count >= Threshold
  /\ AddHistoryBlock(history, currentHistory, machine)
  /\ torn' = (torn \/ rewindState = "Stopping")
  /\ UNCHANGED <<machine, inputs, asked, historyBackup, rewinds, video, fast, shown, exact>>

EndOfFrame ==
  /\ phase = "end" /\ phase' = "frame"
  /\ IF Rewinding THEN currentHistory.count > 0 ELSE currentHistory.count < Threshold
  /\ UNCHANGED <<machine, inputs, asked, blocks, rewinds, video, totalMemoryUsage,
                 fast, shown, exact, torn>>

-----------------------------------------------------------------------------
(***************************************************************************)
(* The shortcut thread: one call at a time, with the run lock.             *)
(***************************************************************************)
UserCalls(o) ==
  o \in Ops /\ phase = "frame" /\ ~ asked /\ totalMemoryUsage <= MaxTotal

(* StartRewinding                                                          *)
Start ==
  /\ UserCalls("rewind")
  /\ rewindState = "Stopped" /\ ~ NothingLeft
  /\ rewindState' = "Starting" /\ maximumSpeed' = TRUE
  /\ PopBlock(<<>>)
  /\ videoHistory' = <<>> /\ videoHistoryBuilder' = <<>>
  /\ UNCHANGED <<inputs, phase, asked, framesToFastForward, totalMemoryUsage, fast, shown, torn>>

(* StopRewinding: the state is tested anywhere in a frame ...              *)
StopTest ==
  /\ "rewind" \in Ops /\ ~ asked
  /\ Rewinding
  /\ asked' = TRUE
  /\ UNCHANGED <<machine, inputs, phase, blocks, rewinds, video, totalMemoryUsage,
                 fast, shown, exact, torn>>

(* ... and the lock is granted between two frames.                         *)
StopLocked ==
  /\ asked /\ asked' = FALSE
  /\ phase = "frame"
  /\ Stop
  /\ UNCHANGED <<inputs, phase, totalMemoryUsage, fast, shown, torn>>

(* "_historyBackup.front()" of an empty deque: nothing is known from there *)
(* on, and the model ends.                                                 *)
StopUndefined ==
  /\ asked /\ asked' = FALSE
  /\ phase = "frame" /\ phase' = "undefined"
  /\ rewindState # "Started" /\ historyBackup = <<>>
  /\ UNCHANGED <<machine, inputs, blocks, rewinds, video, totalMemoryUsage,
                 fast, shown, exact, torn>>

(***************************************************************************)
(* RewindSeconds goes n blocks back and loads a state, which makes the     *)
(* manager mark the block it has gone back to, keep it and begin a new one.*)
(***************************************************************************)
RewindSeconds(n) ==
  /\ UserCalls("seconds")
  /\ rewindState = "Stopped"
  /\ LET left == IF n < Len(history) THEN Len(history) - n ELSE 0
         c    == IF history = <<>> THEN currentHistory ELSE history[left + 1]
         h    == SubSeq(history, 1, left)
     IN  /\ LoadState(c, h)
         /\ exact' = (exact /\ Decodes(c, h))
         /\ AddHistoryBlock(h, [c EXCEPT !.seg = TRUE], machine')
  /\ UNCHANGED <<inputs, phase, asked, historyBackup, rewinds, video, fast, shown, torn>>

(* The user loads a state of an earlier use, with none of these inputs:    *)
(* StateLoaded.                                                            *)
StateLoaded ==
  /\ UserCalls("load")
  /\ rewindState = "Stopped"
  /\ machine' = <<>>
  /\ AddHistoryBlock(history, [currentHistory EXCEPT !.seg = TRUE], <<>>)
  /\ UNCHANGED <<inputs, phase, asked, historyBackup, rewinds, video, fast, shown, exact, torn>>

(* While a block is replayed the notification is ignored.                  *)
StateLoadedIgnored ==
  /\ UserCalls("load")
  /\ rewindState # "Stopped"
  /\ machine' = <<>>
  /\ exact' = FALSE
  /\ UNCHANGED <<inputs, phase, asked, blocks, rewinds, video, totalMemoryUsage, fast, shown, torn>>

SetSpeed ==
  /\ UserCalls("speed")
  /\ fast' = ~ fast
  /\ UNCHANGED <<machine, inputs, phase, asked, blocks, rewinds, video, totalMemoryUsage,
                 shown, exact, torn>>

(* A game is loaded or reloaded: InitHistory and the poll of the load.     *)
InitHistory ==
  /\ UserCalls("reload") /\ inputs < MaxInputs
  /\ inputs' = inputs + 1 /\ machine' = <<inputs'>>
  /\ history' = <<>> /\ historyBackup' = <<>>
  /\ currentHistory' = BootBlock(inputs')
  /\ rewindState' = "Stopped" /\ framesToFastForward' = 0
  /\ videoHistory' = <<>> /\ videoHistoryBuilder' = <<>>
  /\ totalMemoryUsage' = FullSize
  /\ maximumSpeed' = FALSE
  /\ shown' = <<>> /\ exact' = TRUE /\ torn' = FALSE
  /\ UNCHANGED <<phase, asked, fast>>

RunFrame == RunFrameStopped \/ RunFrameRewinding \/ RunFrameStopping

Next ==
  \/ RunFrame \/ SendFrameRewinding \/ SendFrame
  \/ EndOfRewound \/ EndOfBlock \/ EndOfFrame
  \/ Start \/ StopTest \/ StopLocked \/ StopUndefined
  \/ \E n \in Seconds : RewindSeconds(n)
  \/ StateLoaded \/ StateLoadedIgnored \/ SetSpeed \/ InitHistory

Spec == Init /\ [][Next]_vars

-----------------------------------------------------------------------------
(* Every block there is, in the order in which they were recorded.         *)
Timeline ==
  history \o (IF historyBackup = <<>> THEN <<currentHistory>> ELSE historyBackup)

Before(i) == SubSeq(Timeline, 1, i - 1)

TypeOK ==
  /\ machine \in Seq(0..MaxInputs) /\ inputs \in 0..MaxInputs
  /\ phase \in {"frame", "send", "end", "undefined"} /\ asked \in BOOLEAN
  /\ history \in Seq(Blocks) /\ historyBackup \in Seq(Blocks)
  /\ currentHistory \in Blocks
  /\ rewindState \in {"Stopped", "Stopping", "Starting", "Started"}
  /\ framesToFastForward \in Int
  /\ rewindState = "Stopping" => framesToFastForward > 0
  /\ rewindState # "Stopped" => historyBackup # <<>>
  /\ videoHistory \in Seq(Seq(0..MaxInputs))
  /\ videoHistoryBuilder \in Seq(Seq(0..MaxInputs))
  /\ totalMemoryUsage \in Nat
  /\ maximumSpeed \in BOOLEAN /\ fast \in BOOLEAN
  /\ shown \in Seq(0..MaxInputs) /\ exact \in BOOLEAN /\ torn \in BOOLEAN

(* A stored block that is a difference finds the full state it was made    *)
(* with, wherever recording, trimming, rewinding and stopping have put it, *)
(* unless it was the block being recorded when everything was trimmed, or  *)
(* a block was ended that was being replayed.                              *)
Decodable ==
  ~ torn => \A i \in DOMAIN Timeline : Timeline[i].orphan \/ Decodes(Timeline[i], Before(i))

(* As long as nothing wrong was loaded, the blocks are a recording of the  *)
(* game: each has one input for each of its frames, and one more if a load *)
(* began it; unless it ends a segment, it leads to the state the next one  *)
(* begins with; and the machine is where the recording says, also in the   *)
(* middle of a replayed block.  Going back into the block that a load      *)
(* began is loading something wrong.                                       *)
FramePerfect ==
  exact =>
    /\ \A i \in DOMAIN Timeline :
         LET b == Timeline[i]
         IN  /\ Len(b.log) = b.count + (IF b.boot THEN 1 ELSE 0)
             /\ i < Len(Timeline) =>
                  \/ b.seg \/ Timeline[i + 1].state = <<>>
                  \/ Timeline[i + 1].state = b.state \o b.log
    /\ IF rewindState = "Stopped"
       THEN machine = currentHistory.state \o currentHistory.log
       ELSE machine \o currentHistory.log = historyBackup[1].state \o historyBackup[1].log

(* The total never falls below what the stored blocks take, so that it     *)
(* never wraps around when blocks are removed.                             *)
MemoryCovered == totalMemoryUsage >= SizeOf(Timeline, Len(Timeline))

Seamless == \A i \in DOMAIN Timeline :
              ~ Timeline[i].seg /\ (i > 1 => Timeline[i].state # <<>>)

(* While it rewinds the screen goes back one frame at a time.              *)
RewindsOneFrame ==
  [][exact /\ Seamless /\ rewindState' = "Started" /\ shown' # shown
       => shown' = Front(shown)]_vars

(* When the user stops rewinding, the frames that are fast forwarded lead  *)
(* to the frame before the one on the screen, the next to be shown.        *)
StopsAtShown ==
  [][exact' /\ Seamless /\ phase = "frame"
       /\ rewindState = "Started" /\ rewindState' = "Stopping"
     => Front(shown) = currentHistory'.state
                       \o SubSeq(currentHistory'.log, 1, framesToFastForward')]_vars

-----------------------------------------------------------------------------
(* "Remove until next full state (deltas need their base)"                 *)
(* (RewindManager.cpp)                                                     *)
BasesKept == \A i \in DOMAIN Timeline : Decodes(Timeline[i], Before(i))

(* "Stores compressed savestate and input logs for frame-perfect replay."  *)
(* (RewindData.h)                                                          *)
ReplayLeadsHere ==
  rewindState = "Stopped" => machine = currentHistory.state \o currentHistory.log

(* The same, once the block that the load began was trimmed away.          *)
LaterReplayLeadsHere ==
  (\A i \in DOMAIN Timeline : ~ Timeline[i].boot) => ReplayLeadsHere

(* "We started rewinding, but didn't actually visually rewind anything     *)
(* yet": what Stop assumes of the state when it is not Started.            *)
OnlyStartedStops ==
  asked /\ phase = "frame" => Rewinding
=============================================================================
