-------------------------- MODULE VideoDecoderProof --------------------------
(***************************************************************************)
(* Proofs about VideoDecoder, for any number of frames and of calls.       *)
(***************************************************************************)
EXTENDS VideoDecoder, TLAPS

USE ConstantsAssumption DEF AllOps, Buffers

(***************************************************************************)
(* The inductive invariant.                                                *)
(***************************************************************************)
(* The user works between two frames; the decode thread has ended when its *)
(* successor is started, and it is told to end by nobody else.             *)
Turns ==
  /\ user # "idle" => emu = "frame"
  /\ user \in {"load", "spin"} => frames < MaxFrames
  /\ stopFlag => user \in {"signal", "join", "init", "start"}
  /\ user \in {"init", "start"} => decoder = "ended"

(* Who may be in DecodeFrame, and with which frame.                        *)
Decoding ==
  /\ decoder \in {"decode", "free"} => frameChanged
  /\ emu \in {"decode", "free"} \/ user \in {"decode", "free"} => ~frameChanged
  /\ emu = "decode" => frame.buffer = drawn /\ content[drawn] = frame.no
  /\ user = "decode" => frame.buffer = "local"

(* The frame in the place is one of the emulation's, in the buffer that is *)
(* not drawn into, until one is dropped or the PPU goes.                   *)
Waiting ==
  frameChanged /\ user # "start" =>
    /\ frame.buffer \in Buffers
    /\ \/ skipped
       \/ content[frame.buffer] = frame.no /\ (frame.buffer = drawn <=> emu = "sent")

PlaceInv == TypeOK /\ Turns /\ Decoding /\ Waiting /\ RewindGapless

-----------------------------------------------------------------------------
(* The place is free when the threads start.                               *)
LEMMA InitPlaceInv == Init => PlaceInv
<1> SUFFICES ASSUME Init PROVE PlaceInv
  OBVIOUS
<1>1. frame \in [no : 0..MaxFrames, buffer : Buffers \cup {"local", "freed"},
                 rewind : BOOLEAN]
  BY DEF Init
<1>2. {frameChanged, skipped, stopFlag, running, signaled, fast, rewinding, gap}
        \subseteq BOOLEAN
  BY DEF Init
<1>3. TypeOK
  BY <1>1, <1>2 DEF Init, TypeOK
<1>4. Turns /\ Decoding /\ Waiting /\ RewindGapless
  BY DEF Init, Turns, Decoding, Waiting, RewindGapless
<1> QED
  BY <1>3, <1>4 DEF PlaceInv

-----------------------------------------------------------------------------
(***************************************************************************)
(* The emulation thread.  DrawBegin does not touch the frame in the place: *)
(* Waiting says that it is in the other buffer.                            *)
(***************************************************************************)
LEMMA EmuStepInv ==
  ASSUME PlaceInv, EmuStep
  PROVE  PlaceInv'
<1> USE DEF PlaceInv, TypeOK, Turns, Decoding, Waiting, RewindGapless, EmuGoto,
            threads, place, life, speed, ppu
<1>1. CASE DrawBegin
  BY <1>1 DEF DrawBegin
<1>2. CASE DrawEnd
  BY <1>2 DEF DrawEnd
<1>3. CASE EmuAccepts
  <2>1. TypeOK'
    BY <1>3 DEF EmuAccepts, Accepted, Drawn
  <2>2. Turns' /\ RewindGapless'
    BY <1>3 DEF EmuAccepts, Accepted
  <2>3. Decoding'
    BY <1>3 DEF EmuAccepts, Accepted, Drawn
  <2>4. Waiting'
    BY <1>3 DEF EmuAccepts, Accepted, Drawn
  <2> QED
    BY <2>1, <2>2, <2>3, <2>4
<1>4. CASE EmuDrops
  BY <1>4 DEF EmuDrops, Dropped
<1>5. CASE EmuSpins
  BY <1>5 DEF EmuSpins
<1>6. CASE EmuGoto("decode", "free") /\ SendFrame
  BY <1>6 DEF SendFrame
<1>7. CASE EmuGoto("free", "sent") /\ Free
  BY <1>7 DEF Free
<1>8. CASE NextBuffer
  BY <1>8 DEF NextBuffer, Other
<1> QED
  BY <1>1, <1>2, <1>3, <1>4, <1>5, <1>6, <1>7, <1>8 DEF EmuStep, EmuDecodes

(* The decode thread, which is the only one to decode while the place is   *)
(* taken.                                                                  *)
LEMMA DecoderStepInv ==
  ASSUME PlaceInv, DecoderStep
  PROVE  PlaceInv'
<1> USE DEF PlaceInv, TypeOK, Turns, Decoding, Waiting, RewindGapless, DecoderGoto,
            DecoderTests, threads, place, life, speed, ppu
<1>1. CASE TestStop
  BY <1>1 DEF TestStop
<1>2. CASE LookForFrame
  BY <1>2 DEF LookForFrame
<1>3. CASE Wait
  <2>1. TypeOK'
    BY <1>3 DEF Wait
  <2>2. Turns' /\ Decoding' /\ RewindGapless'
    BY <1>3 DEF Wait
  <2>3. Waiting'
    BY <1>3 DEF Wait
  <2> QED
    BY <2>1, <2>2, <2>3
<1>4. CASE Woken
  BY <1>4 DEF Woken
<1>5. CASE DecoderGoto("decode", "free") /\ SendFrame
  BY <1>5 DEF SendFrame
<1>6. CASE DecoderGoto("free", "test") /\ Free
  BY <1>6 DEF Free
<1> QED
  BY <1>1, <1>2, <1>3, <1>4, <1>5, <1>6 DEF DecoderStep, DecoderDecodes

-----------------------------------------------------------------------------
(* The user's calls begin between two frames.                              *)
LEMMA UserBeginInv ==
  ASSUME PlaceInv, NEW o \in Ops, UserBegin(o)
  PROVE  PlaceInv'
BY DEF PlaceInv, TypeOK, Turns, Decoding, Waiting, RewindGapless, UserBegin, UserGoto,
       threads, place, life, speed, ppu

LEMMA SpeedInv ==
  ASSUME PlaceInv, Speed
  PROVE  PlaceInv'
BY DEF PlaceInv, TypeOK, Turns, Decoding, Waiting, RewindGapless, Speed,
       threads, place, life, speed, ppu

(* A state is loaded.                                                      *)
LEMMA LoadInv ==
  ASSUME PlaceInv, LoadAccepts \/ LoadDrops \/ LoadSpins \/ LoadDecodes \/ LoadReturns
  PROVE  PlaceInv'
<1> USE DEF PlaceInv, TypeOK, Turns, Decoding, Waiting, RewindGapless, UserGoto,
            threads, place, life, speed, ppu
<1>1. CASE LoadAccepts
  <2> USE <1>1 DEF LoadAccepts, Accepted
  <2>1. frames + 1 \in 0..MaxFrames
    OBVIOUS
  <2>2. frame' \in [no : 0..MaxFrames, buffer : Buffers \cup {"local", "freed"},
                    rewind : BOOLEAN]
    BY <2>1 DEF Loaded
  <2>3. {frameChanged', skipped', stopFlag', running', signaled', fast', rewinding', gap'}
          \subseteq BOOLEAN
    OBVIOUS
  <2>4. ~frameChanged'
    OBVIOUS
  <2>5. decoder' = "ended" => user' \in {"signal", "join", "init", "start"}
    OBVIOUS
  <2>6. TypeOK'
    BY <2>1, <2>2, <2>3, <2>4, <2>5
  <2>7. Turns' /\ RewindGapless'
    OBVIOUS
  <2>8. Decoding'
    BY <2>4 DEF Loaded
  <2>9. Waiting'
    BY <2>4
  <2> QED
    BY <2>6, <2>7, <2>8, <2>9
<1>2. CASE LoadDrops
  BY <1>2 DEF LoadDrops, Dropped
<1>3. CASE LoadSpins
  BY <1>3 DEF LoadSpins
<1>4. CASE UserGoto("decode", "free") /\ SendFrame
  BY <1>4 DEF SendFrame
<1>5. CASE UserGoto("free", "returns") /\ Free
  BY <1>5 DEF Free
<1>6. CASE LoadReturns
  BY <1>6 DEF LoadReturns, Freed
<1> QED
  BY <1>1, <1>2, <1>3, <1>4, <1>5, <1>6 DEF LoadDecodes

(* Rewinding starts or ends, a PPU is replaced, the decode thread is       *)
(* stopped and started.                                                    *)
LEMMA ControlInv ==
  ASSUME PlaceInv,
         Rewind \/ Record \/ StopFlag \/ StopSignal \/ Join \/ InitConsole \/ StartThread
  PROVE  PlaceInv'
<1> USE DEF PlaceInv, TypeOK, Turns, Decoding, Waiting, RewindGapless, UserGoto,
            threads, place, life, speed, ppu
<1>1. CASE Rewind
  <2>1. TypeOK'
    BY <1>1 DEF Rewind
  <2>2. Turns' /\ RewindGapless'
    BY <1>1 DEF Rewind
  <2>3. Decoding'
    BY <1>1 DEF Rewind
  <2>4. Waiting'
    BY <1>1 DEF Rewind
  <2> QED
    BY <2>1, <2>2, <2>3, <2>4
<1>2. CASE Record
  BY <1>2 DEF Record, NewPpu, Freed
<1>3. CASE StopFlag
  BY <1>3 DEF StopFlag
<1>4. CASE StopSignal
  BY <1>4 DEF StopSignal
<1>5. CASE Join
  <2>1. TypeOK'
    BY <1>5 DEF Join
  <2>2. Turns' /\ Decoding' /\ RewindGapless'
    BY <1>5 DEF Join
  <2>3. Waiting'
    BY <1>5 DEF Join
  <2> QED
    BY <2>1, <2>2, <2>3
<1>6. CASE InitConsole
  BY <1>6 DEF InitConsole, NewPpu, Freed
<1>7. CASE StartThread
  <2>1. TypeOK'
    BY <1>7 DEF StartThread
  <2>2. Turns' /\ Decoding' /\ RewindGapless'
    BY <1>7 DEF StartThread
  <2>3. Waiting'
    BY <1>7 DEF StartThread
  <2> QED
    BY <2>1, <2>2, <2>3
<1> QED
  BY <1>1, <1>2, <1>3, <1>4, <1>5, <1>6, <1>7

-----------------------------------------------------------------------------
(* The place is used as the invariant says, however the emulation, the     *)
(* decode thread and the user take turns.                                  *)
THEOREM PlaceInvariant == Spec => []PlaceInv
<1>1. Init => PlaceInv
  BY InitPlaceInv
<1>2. PlaceInv /\ [Next]_vars => PlaceInv'
  <2> SUFFICES ASSUME PlaceInv, [Next]_vars PROVE PlaceInv'
    OBVIOUS
  <2>1. CASE EmuStep
    BY <2>1, EmuStepInv
  <2>2. CASE DecoderStep
    BY <2>2, DecoderStepInv
  <2>3. CASE UserStep
    BY <2>3, LoadInv, ControlInv DEF UserStep
  <2>4. CASE Speed
    BY <2>4, SpeedInv
  <2>5. CASE \E o \in Ops : UserBegin(o)
    BY <2>5, UserBeginInv
  <2>6. CASE UNCHANGED vars
    BY <2>6 DEF vars, threads, place, life, speed, ppu, PlaceInv, TypeOK, Turns, Decoding,
                Waiting, RewindGapless
  <2> QED
    BY <2>1, <2>2, <2>3, <2>4, <2>5, <2>6 DEF Next
<1> QED
  BY <1>1, <1>2, PTL DEF Spec

(* Type correctness; a waiting frame is one of the emulation's, and the    *)
(* decode thread ends only in a power cycle.                               *)
THEOREM TypeCorrect == Spec => []TypeOK
<1>1. PlaceInv => TypeOK
  BY DEF PlaceInv
<1> QED
  BY <1>1, PlaceInvariant, PTL

(* VideoDecoder.cpp:87-168: what is decoded still exists and is   *)
(* the frame that was handed over, unless one was dropped meanwhile, and   *)
(* no two threads are in DecodeFrame.                                      *)
THEOREM DecodesWholeFrames == Spec => []WholeFrames
<1>1. PlaceInv => WholeFrames
  <2> SUFFICES ASSUME PlaceInv PROVE WholeFrames
    OBVIOUS
  <2> USE DEF PlaceInv, TypeOK, Turns, Decoding, Waiting
  <2>1. CASE decoder \in {"decode", "free"}
    BY <2>1 DEF WholeFrames, Reading
  <2>2. CASE decoder \notin {"decode", "free"}
    BY <2>2 DEF WholeFrames, Reading
  <2> QED
    BY <2>1, <2>2
<1> QED
  BY <1>1, PlaceInvariant, PTL

(* VideoDecoder.cpp:174-195: no frame of a rewind is dropped once one of   *)
(* it was decoded, so that RewindManager counts all of a block.            *)
THEOREM NoGapInRewind == Spec => []RewindGapless
<1>1. PlaceInv => RewindGapless
  BY DEF PlaceInv
<1> QED
  BY <1>1, PlaceInvariant, PTL
===============================================================================
