--------------------------- MODULE DebuggerBreakProof ---------------------------
(***************************************************************************)
(* Proofs about DebuggerBreak, for any finite set of users and any choice  *)
(* of their calls, any length of a frame and any number of calls.          *)
(***************************************************************************)
EXTENDS DebuggerBreak, FiniteSetTheorems, TLAPS

USE ConstantsAssumption

-----------------------------------------------------------------------------
(***************************************************************************)
(* The inductive invariant.                                                *)
(***************************************************************************)
(* An instruction is about to begin only where the frame has one left.     *)
Asleep == {"sleep", "sleepable", "notify", "asleep", "resumed", "awake"}

Room ==
  emu \in {"hook", "exec"} \/ (emu \in Asleep /\ site = "between") => executed < FrameSize

(* Which steps belong to which call.                                       *)
CallStep(u) ==
  /\ pc[u] \in {"request", "spin", "inspect"} => call[u] \in {"tool", "state"}
  /\ pc[u] \in {"retry", "nap"} => call[u] = "state"
  /\ pc[u] \in {"step", "spinStep", "stepped", "unstep"} => call[u] \in {"pause", "frame", "state"}
  /\ pc[u] \in {"count", "acquire", "decrement", "release", "uncount"} => call[u] = "lock"
  /\ pc[u] = "inside" => call[u] \in {"tool", "state", "lock"}
  /\ pc[u] \in {"run", "reset"} => call[u] = pc[u]
  /\ pc[u] = "suspend" => call[u] \in {"lock", "reset"}

CallSteps == \A u \in Users : CallStep(u)

(* Who has the run lock.                                                   *)
InLock(u) == pc[u] \in {"decrement", "release"} \/ (pc[u] = "inside" /\ call[u] = "lock")

LockOwned ==
  /\ runLock = Emu <=> emu \notin {"park", "parked", "parkedBreak", "unpark", "retake"}
  /\ \A u \in Users : InLock(u) => runLock = u

(* The callers that the lock counter counts.                               *)
Counted == {u \in Users : call[u] = "lock"
                            /\ pc[u] \in {"acquire", "inside", "decrement", "release", "uncount"}}

(* The suspensions that are still to be taken back, and were not erased.   *)
Suspenders ==
  {u \in Users : call[u] = "lock" /\ pc[u] \in {"count", "acquire", "inside", "decrement"}}

Balanced ==
  /\ breakRequestCount = Cardinality(Outer) + Cardinality(Inner)
  /\ lockCounter = Cardinality(Counted)
  /\ Cardinality(Suspenders \ erased) <= suspendRequestCount
  /\ \A u \in Users : pc[u] = "decrement" => suspendRequestCount > 0

(* Once an instruction has begun, the emulation thread does not begin      *)
(* another before it has looked at the break requests.                     *)
Overrun ==
  \A u \in LetIn : u \in suspended \/ overrun[u] = 0
                     \/ (overrun[u] = 1 /\ emu \notin {"exec", "awake"})

BreakInv == TypeOK /\ Room /\ CallSteps /\ LockOwned /\ Balanced /\ Overrun


-----------------------------------------------------------------------------
(***************************************************************************)
(* Counting.                                                               *)
(***************************************************************************)
One(b) == IF b THEN 1 ELSE 0

(* Two sets that differ in at most one element.                            *)
LEMMA DifferInOne ==
  ASSUME NEW S, NEW T, NEW u, IsFiniteSet(S),
         \A v : v # u => (v \in S <=> v \in T)
  PROVE  Cardinality(T) = Cardinality(S) + One(u \in T) - One(u \in S)
<1>1. Cardinality(S) \in Nat
  BY FS_CardinalityType
<1>2. CASE u \in S /\ u \in T
  <2>1. S = T
    BY <1>2
  <2> QED
    BY <2>1, <1>2, <1>1 DEF One
<1>3. CASE u \notin S /\ u \notin T
  <2>1. S = T
    BY <1>3
  <2> QED
    BY <2>1, <1>3, <1>1 DEF One
<1>4. CASE u \notin S /\ u \in T
  <2>1. T = S \cup {u}
    BY <1>4
  <2>2. Cardinality(T) = Cardinality(S) + 1
    BY <2>1, <1>4, FS_AddElement
  <2> QED
    BY <2>2, <1>4, <1>1 DEF One
<1>5. CASE u \in S /\ u \notin T
  <2>1. T = S \ {u}
    BY <1>5
  <2>2. Cardinality(T) = Cardinality(S) - 1
    BY <2>1, <1>5, FS_RemoveElement
  <2> QED
    BY <2>2, <1>5, <1>1 DEF One
<1> QED
  BY <1>2, <1>3, <1>4, <1>5

LEMMA SomebodyCounts ==
  ASSUME NEW S, IsFiniteSet(S), NEW u \in S
  PROVE  Cardinality(S) \in Nat /\ Cardinality(S) > 0
<1>1. Cardinality(S) \in Nat
  BY FS_CardinalityType
<1>2. Cardinality(S) # 0
  BY FS_EmptySet
<1> QED
  BY <1>1, <1>2

LEMMA Finite ==
  /\ IsFiniteSet(Outer) /\ IsFiniteSet(Inner) /\ IsFiniteSet(Counted)
  /\ IsFiniteSet(Suspenders \ erased)
  /\ Cardinality(Outer) \in Nat /\ Cardinality(Inner) \in Nat
  /\ Cardinality(Counted) \in Nat /\ Cardinality(Suspenders \ erased) \in Nat
<1>1. IsFiniteSet(Users)
  BY DEF ConstantsAssumption
<1>2. /\ Outer \subseteq Users /\ Inner \subseteq Users /\ Counted \subseteq Users
      /\ Suspenders \ erased \subseteq Users
  BY DEF Outer, Inner, Counted, Suspenders
<1>3. /\ IsFiniteSet(Outer) /\ IsFiniteSet(Inner) /\ IsFiniteSet(Counted)
      /\ IsFiniteSet(Suspenders \ erased)
  BY <1>1, <1>2, FS_Subset
<1> QED
  BY <1>3, FS_CardinalityType

(* Only u goes on in its call: what that does to the four counts.          *)
OnlyMoves(u) ==
  \A v \in Users : v # u => pc'[v] = pc[v] /\ call'[v] = call[v]

LEMMA Recount ==
  ASSUME NEW u \in Users, OnlyMoves(u)
  PROVE  /\ Cardinality(Outer') = Cardinality(Outer) + One(u \in Outer') - One(u \in Outer)
         /\ Cardinality(Inner') = Cardinality(Inner) + One(u \in Inner') - One(u \in Inner)
         /\ Cardinality(Counted')
              = Cardinality(Counted) + One(u \in Counted') - One(u \in Counted)
         /\ (\A v : v # u => (v \in erased' <=> v \in erased)) =>
              Cardinality(Suspenders' \ erased')
                = Cardinality(Suspenders \ erased) + One(u \in Suspenders' \ erased')
                    - One(u \in Suspenders \ erased)
<1>1. \A v : v # u => /\ v \in Outer <=> v \in Outer'
                      /\ v \in Inner <=> v \in Inner'
                      /\ v \in Counted <=> v \in Counted'
                      /\ v \in Suspenders <=> v \in Suspenders'
  BY DEF OnlyMoves, Outer, Inner, Counted, Suspenders
<1>2. Cardinality(Outer') = Cardinality(Outer) + One(u \in Outer') - One(u \in Outer)
  BY <1>1, Finite, DifferInOne
<1>3. Cardinality(Inner') = Cardinality(Inner) + One(u \in Inner') - One(u \in Inner)
  BY <1>1, Finite, DifferInOne
<1>4. Cardinality(Counted')
        = Cardinality(Counted) + One(u \in Counted') - One(u \in Counted)
  BY <1>1, Finite, DifferInOne
<1>5. ASSUME \A v : v # u => (v \in erased' <=> v \in erased)
      PROVE  Cardinality(Suspenders' \ erased')
               = Cardinality(Suspenders \ erased) + One(u \in Suspenders' \ erased')
                   - One(u \in Suspenders \ erased)
  <2>1. \A v : v # u => (v \in Suspenders \ erased <=> v \in Suspenders' \ erased')
    BY <1>1, <1>5
  <2> QED
    BY <2>1, Finite, DifferInOne
<1> QED
  BY <1>2, <1>3, <1>4, <1>5

LEMMA InitInv == Init => BreakInv
<1> SUFFICES ASSUME Init PROVE BreakInv
  OBVIOUS
<1>1. TypeOK
  <2>1. NoStep \in StepRequests
    BY ZenonT(30) DEF NoStep, StepRequests, Sources
  <2>2. /\ pc \in [Users -> {"idle", "request", "spin", "inspect", "inside", "retry", "nap", "step",
                            "spinStep", "stepped", "unstep", "run", "reset", "suspend",
                            "count", "acquire", "decrement", "release", "uncount"}]
        /\ call \in [Users -> AllCalls \cup {"none"}] /\ overrun \in [Users -> 0..2]
    BY DEF Init
  <2>3. executed \in 0..FrameSize /\ calls \in 0..MaxCalls
    BY DEF Init, ConstantsAssumption
  <2>4. emu = "frame" /\ site = "between" /\ runLock = Emu /\ step \in StepRequests
    BY <2>1 DEF Init
  <2>5. /\ executionStopped \in BOOLEAN /\ waitForBreakResume \in BOOLEAN
        /\ threadPaused \in BOOLEAN /\ needReset \in BOOLEAN /\ pressed \in BOOLEAN
        /\ late \in BOOLEAN /\ asked \in BOOLEAN
    BY Zenon DEF Init
  <2>6. /\ suspended \subseteq Users /\ erased \subseteq Users
        /\ breakRequestCount \in Nat /\ suspendRequestCount \in Nat /\ lockCounter \in Nat
    BY DEF Init
  <2> QED
    BY <2>2, <2>3, <2>4, <2>5, <2>6 DEF TypeOK
<1>2. CallSteps /\ LockOwned /\ Overrun /\ Room
  BY DEF Init, Room, Asleep, CallSteps, CallStep, LockOwned, InLock, Overrun, LetIn,
         ConstantsAssumption
<1>3. Outer = {} /\ Inner = {} /\ Counted = {} /\ Suspenders \ erased = {}
  BY DEF Init, Outer, Inner, Counted, Suspenders
<1>4. Balanced
  <2>1. Cardinality({}) = 0
    BY FS_EmptySet
  <2>2. breakRequestCount = Cardinality(Outer) + Cardinality(Inner)
    BY <1>3, <2>1 DEF Init
  <2>3. lockCounter = Cardinality(Counted)
    BY <1>3, <2>1 DEF Init
  <2>4. Cardinality(Suspenders \ erased) <= suspendRequestCount
    BY <1>3, <2>1 DEF Init
  <2>5. \A u \in Users : pc[u] = "decrement" => suspendRequestCount > 0
    BY DEF Init
  <2> QED
    BY <2>2, <2>3, <2>4, <2>5 DEF Balanced
<1> QED
  BY <1>1, <1>2, <1>4 DEF BreakInv

-----------------------------------------------------------------------------
(***************************************************************************)
(* The emulation thread.                                                   *)
(***************************************************************************)
LEMMA StepTypes ==
  /\ NoStep \in StepRequests
  /\ \A r \in StepRequests, b \in BOOLEAN :
       [r EXCEPT !.count = 0, !.needed = b] \in StepRequests
  /\ TypeOK => \A u \in Users : StepFor(u) \in StepRequests
<1>1. NoStep \in StepRequests
  BY ZenonT(30) DEF NoStep, StepRequests, Sources
<1>2. ASSUME NEW r \in StepRequests, NEW b \in BOOLEAN
      PROVE  [r EXCEPT !.count = 0, !.needed = b] \in StepRequests
  BY DEF StepRequests
<1>3. ASSUME TypeOK, NEW u \in Users
      PROVE  StepFor(u) \in StepRequests
  <2>1. waitForBreakResume \in BOOLEAN
    BY <1>3 DEF TypeOK
  <2>2. [NoStep EXCEPT !.count = 1, !.source = "Pause", !.user = TRUE] \in StepRequests
    BY DEF NoStep, StepRequests, Sources
  <2>3. [NoStep EXCEPT !.scanline = TRUE, !.source = "PpuStep", !.user = TRUE]
          \in StepRequests
    BY DEF NoStep, StepRequests, Sources
  <2>4. [NoStep EXCEPT !.count = 1, !.source = "InternalOperation",
                       !.user = waitForBreakResume] \in StepRequests
    BY <2>1 DEF NoStep, StepRequests, Sources
  <2> QED
    BY <2>2, <2>3, <2>4 DEF StepFor
<1> QED
  BY <1>1, <1>2, <1>3

LEMMA EmuTypes ==
  ASSUME TypeOK, Room, EmuStep
  PROVE  TypeOK'
<1> USE DEF TypeOK, EmuGoto, EmuTests, SleepReturn, stopping, counts, runlock, reset, users,
            history
<1>1. CASE FrameBegin
  BY <1>1 DEF FrameBegin
<1>2. CASE ProcessInstruction
  <2>1. step' \in StepRequests
    <3> DEFINE due == step.needed \/ step.count = 1
    <3>1. step \in StepRequests /\ due \in BOOLEAN
      OBVIOUS
    <3>2. step' = [step EXCEPT !.count = 0, !.needed = due]
      BY <1>2 DEF ProcessInstruction
    <3> QED
      BY <3>1, <3>2, StepTypes
  <2>2. asked' \in BOOLEAN
    BY <1>2 DEF ProcessInstruction
  <2> QED
    BY <1>2, <2>1, <2>2 DEF ProcessInstruction
<1>3. CASE Exec
  BY <1>3 DEF Exec, Room
<1>4. CASE Break
  BY <1>4 DEF Break
<1>5. CASE BreakAgain
  BY <1>5 DEF BreakAgain
<1>6. CASE NoBreak
  BY <1>6 DEF NoBreak
<1>7. CASE InstructionEnd
  BY <1>7 DEF InstructionEnd
<1>8. CASE SleepSuspended
  BY <1>8 DEF SleepSuspended, LetIn
<1>9. CASE SleepTest
  BY <1>9 DEF SleepTest
<1>10. CASE SleepWrongPlace
  BY <1>10 DEF SleepWrongPlace
<1>11. CASE SleepBegin
  BY <1>11 DEF SleepBegin
<1>12. CASE CodeBreak
  BY <1>12 DEF CodeBreak
<1>13. CASE NoCodeBreak
  BY <1>13 DEF NoCodeBreak
<1>14. CASE Resumed
  BY <1>14 DEF Resumed
<1>15. CASE StillRequested
  BY <1>15 DEF StillRequested
<1>16. CASE WakeUp
  BY <1>16 DEF WakeUp
<1>17. CASE SleepEnd
  BY <1>17 DEF SleepEnd
<1>18. CASE NoReset
  BY <1>18 DEF NoReset
<1>19. CASE Reset
  BY <1>19 DEF Reset
<1>20. CASE ResetSuspendCounter
  BY <1>20 DEF ResetSuspendCounter, Suspending
<1>21. CASE NobodyWaits
  BY <1>21 DEF NobodyWaits
<1>22. CASE GiveUpLock
  BY <1>22 DEF GiveUpLock
<1>23. CASE Park
  BY <1>23 DEF Park
<1>24. CASE NobodyLocks
  BY <1>24 DEF NobodyLocks
<1>25. CASE NobodyBreaks
  BY <1>25 DEF NobodyBreaks
<1>26. CASE Unpark
  BY <1>26 DEF Unpark
<1>27. CASE Retake
  BY <1>27 DEF Retake
<1> QED
  BY <1>1, <1>2, <1>3, <1>4, <1>5, <1>6, <1>7, <1>8, <1>9, <1>10, <1>11, <1>12, <1>13, <1>14,
     <1>15, <1>16, <1>17, <1>18, <1>19, <1>20, <1>21, <1>22, <1>23, <1>24, <1>25, <1>26, <1>27
     DEF EmuStep

(* What the emulation thread leaves to the users, and what it does to the  *)
(* run lock and to a user that was let in.                                 *)
LEMMA EmuLeaves ==
  ASSUME BreakInv, EmuStep
  PROVE  /\ pc' = pc /\ call' = call /\ breakRequestCount' = breakRequestCount
         /\ lockCounter' = lockCounter
         /\ (suspendRequestCount' = suspendRequestCount /\ erased' = erased)
              \/ ResetSuspendCounter
BY DEF
         EmuStep, FrameBegin, ProcessInstruction, Exec, Break, BreakAgain, NoBreak,
         InstructionEnd, SleepSuspended, SleepTest, SleepWrongPlace, SleepBegin, CodeBreak,
         NoCodeBreak, Resumed, StillRequested, WakeUp, SleepEnd, NoReset, Reset,
         ResetSuspendCounter, NobodyWaits, GiveUpLock, Park, NobodyLocks, NobodyBreaks, Unpark,
         Retake, EmuGoto, EmuTests, SleepReturn, stopping, counts, runlock, reset, users, history

LEMMA EmuRoom ==
  ASSUME BreakInv, EmuStep
  PROVE  Room'
BY DEF BreakInv, TypeOK, Room, Asleep, ConstantsAssumption,
         EmuStep, FrameBegin, ProcessInstruction, Exec, Break, BreakAgain, NoBreak,
         InstructionEnd, SleepSuspended, SleepTest, SleepWrongPlace, SleepBegin, CodeBreak,
         NoCodeBreak, Resumed, StillRequested, WakeUp, SleepEnd, NoReset, Reset,
         ResetSuspendCounter, NobodyWaits, GiveUpLock, Park, NobodyLocks, NobodyBreaks, Unpark,
         Retake, EmuGoto, EmuTests, SleepReturn, stopping, counts, runlock, reset, users, history

LEMMA EmuLocks ==
  ASSUME BreakInv, EmuStep
  PROVE  LockOwned'
<1> USE DEF BreakInv, LockOwned, InLock
<1>1. pc' = pc /\ call' = call
  BY EmuLeaves
<1>2. CASE runLock' = runLock
  <2>1. /\ emu \in {"park", "parked", "parkedBreak", "unpark", "retake"}
             <=> emu' \in {"park", "parked", "parkedBreak", "unpark", "retake"}
    BY <1>2 DEF Emu,
         EmuStep, FrameBegin, ProcessInstruction, Exec, Break, BreakAgain, NoBreak,
         InstructionEnd, SleepSuspended, SleepTest, SleepWrongPlace, SleepBegin, CodeBreak,
         NoCodeBreak, Resumed, StillRequested, WakeUp, SleepEnd, NoReset, Reset,
         ResetSuspendCounter, NobodyWaits, GiveUpLock, Park, NobodyLocks, NobodyBreaks, Unpark,
         Retake, EmuGoto, EmuTests, SleepReturn, stopping, counts, runlock, reset, users, history
  <2> QED
    BY <1>1, <1>2, <2>1
<1>3. CASE runLock' # runLock
  <2>1. GiveUpLock \/ Retake
    BY <1>3 DEF
         EmuStep, FrameBegin, ProcessInstruction, Exec, Break, BreakAgain, NoBreak,
         InstructionEnd, SleepSuspended, SleepTest, SleepWrongPlace, SleepBegin, CodeBreak,
         NoCodeBreak, Resumed, StillRequested, WakeUp, SleepEnd, NoReset, Reset,
         ResetSuspendCounter, NobodyWaits, GiveUpLock, Park, NobodyLocks, NobodyBreaks, Unpark,
         Retake, EmuGoto, EmuTests, SleepReturn, stopping, counts, runlock, reset, users, history
  <2>2. \A u \in Users : ~InLock(u)
    BY <2>1 DEF GiveUpLock, Retake, EmuGoto, ConstantsAssumption
  <2>3. /\ runLock' = Emu
             <=> emu' \notin {"park", "parked", "parkedBreak", "unpark", "retake"}
    BY <2>1 DEF GiveUpLock, Retake, EmuGoto, ConstantsAssumption, Emu
  <2> QED
    BY <1>1, <2>2, <2>3
<1> QED
  BY <1>2, <1>3

LEMMA EmuBalance ==
  ASSUME BreakInv, EmuStep
  PROVE  Balanced'
<1>1. Outer' = Outer /\ Inner' = Inner /\ Counted' = Counted /\ Suspenders' = Suspenders
  BY EmuLeaves DEF Outer, Inner, Counted, Suspenders
<1>2. CASE suspendRequestCount' = suspendRequestCount /\ erased' = erased
  BY <1>1, <1>2, EmuLeaves DEF BreakInv, Balanced
<1>3. CASE ResetSuspendCounter
  <2>1. \A u \in Users : ~InLock(u)
    BY <1>3 DEF ResetSuspendCounter, EmuGoto, BreakInv, LockOwned, ConstantsAssumption
  <2>2. Suspenders' \ erased' = {}
    BY <1>1, <1>3, <2>1 DEF ResetSuspendCounter, InLock, Suspenders, Suspending
  <2>3. Cardinality(Suspenders' \ erased') <= suspendRequestCount'
    BY <2>2, <1>3, FS_EmptySet DEF ResetSuspendCounter
  <2>4. \A u \in Users : pc'[u] # "decrement"
    BY <2>1, EmuLeaves DEF InLock
  <2> QED
    BY <1>1, <2>3, <2>4, EmuLeaves DEF BreakInv, Balanced
<1> QED
  BY <1>2, <1>3, EmuLeaves

LEMMA EmuOverrun ==
  ASSUME BreakInv, EmuStep
  PROVE  Overrun'
<1>1. LetIn' = LetIn
  BY EmuLeaves DEF LetIn
<1>2. LetIn # {} => breakRequestCount > 0
  <2> SUFFICES ASSUME NEW u \in LetIn PROVE breakRequestCount > 0
    OBVIOUS
  <2>1. u \in Outer
    BY DEF LetIn, Outer
  <2> QED
    BY <2>1, Finite, SomebodyCounts DEF BreakInv, Balanced
<1>3. CASE Exec
  BY <1>1, <1>3 DEF Exec, EmuGoto, BreakInv, Overrun, history, LetIn
<1>4. CASE ~Exec
  <2>1. overrun' = overrun /\ suspended \subseteq suspended'
    BY <1>4 DEF
         EmuStep, FrameBegin, ProcessInstruction, Exec, Break, BreakAgain, NoBreak,
         InstructionEnd, SleepSuspended, SleepTest, SleepWrongPlace, SleepBegin, CodeBreak,
         NoCodeBreak, Resumed, StillRequested, WakeUp, SleepEnd, NoReset, Reset,
         ResetSuspendCounter, NobodyWaits, GiveUpLock, Park, NobodyLocks, NobodyBreaks, Unpark,
         Retake, EmuGoto, EmuTests, SleepReturn, stopping, counts, runlock, reset, users, history
  <2>2. LetIn = {} \/ emu' \notin {"exec", "awake"} \/ LetIn \subseteq suspended'
           \/ emu = "awake"
    BY <1>2, <1>4 DEF
         EmuStep, FrameBegin, ProcessInstruction, Exec, Break, BreakAgain, NoBreak,
         InstructionEnd, SleepSuspended, SleepTest, SleepWrongPlace, SleepBegin, CodeBreak,
         NoCodeBreak, Resumed, StillRequested, WakeUp, SleepEnd, NoReset, Reset,
         ResetSuspendCounter, NobodyWaits, GiveUpLock, Park, NobodyLocks, NobodyBreaks, Unpark,
         Retake, EmuGoto, EmuTests, SleepReturn, stopping, counts, runlock, reset, users, history
  <2> QED
    BY <1>1, <2>1, <2>2 DEF BreakInv, Overrun
<1> QED
  BY <1>3, <1>4

LEMMA EmuPreserves ==
  ASSUME BreakInv, EmuStep
  PROVE  BreakInv'
<1>1. CallSteps'
  BY EmuLeaves DEF BreakInv, CallSteps, CallStep
<1>2. TypeOK'
  BY EmuTypes DEF BreakInv
<1> QED
  BY <1>1, <1>2, EmuRoom, EmuLocks, EmuBalance, EmuOverrun DEF BreakInv

-----------------------------------------------------------------------------
(***************************************************************************)
(* The users.                                                              *)
(***************************************************************************)
(* A step of u, or the beginning of its next call.                         *)
UserMove(u) == UserStep(u) \/ \E c \in Calls[u] : Begin(u, c)

(* A step of u keeps the counters in step with the four sets.              *)
Accounted(u) ==
  /\ breakRequestCount' = breakRequestCount + (One(u \in Outer') - One(u \in Outer))
                             + (One(u \in Inner') - One(u \in Inner))
  /\ lockCounter' = lockCounter + (One(u \in Counted') - One(u \in Counted))
  /\ suspendRequestCount' >= suspendRequestCount + (One(u \in Suspenders' \ erased')
                                                     - One(u \in Suspenders \ erased))
  /\ suspendRequestCount' >= suspendRequestCount /\ suspendRequestCount' \in Nat
  /\ pc'[u] = "decrement" => suspendRequestCount' > 0
  /\ \A v : v # u => (v \in erased' <=> v \in erased)

LEMMA UserMoves ==
  ASSUME TypeOK, NEW u \in Users, UserMove(u)
  PROVE  OnlyMoves(u) /\ emu' = emu /\ site' = site /\ executed' = executed
<1> USE DEF OnlyMoves, TypeOK, Goto
<1>1. CASE BreakRequest(u, "request", "spin", 1)
  BY <1>1 DEF BreakRequest
<1>2. CASE Spin(u, "spin", "inspect")
  BY <1>2 DEF Spin
<1>3. CASE EnterTool(u)
  BY <1>3 DEF EnterTool, LetInNow
<1>4. CASE EnterState(u)
  BY <1>4 DEF EnterState, LetInNow
<1>5. CASE StepFurther(u)
  BY <1>5 DEF StepFurther
<1>6. CASE BreakRequest(u, "step", "spinStep", 1)
  BY <1>6 DEF BreakRequest
<1>7. CASE Spin(u, "spinStep", "stepped")
  BY <1>7 DEF Spin
<1>8. CASE SetStep(u)
  BY <1>8 DEF SetStep
<1>9. CASE BreakRequest(u, "unstep", AfterStep(u), -1)
  BY <1>9 DEF BreakRequest, AfterStep
<1>10. CASE BreakRequest(u, "retry", "nap", -1)
  BY <1>10 DEF BreakRequest
<1>11. CASE NapEnd(u)
  BY <1>11 DEF NapEnd
<1>12. CASE call[u] \in {"tool", "state"} /\ BreakRequest(u, "inside", "idle", -1)
  BY <1>12 DEF BreakRequest
<1>13. CASE Run(u)
  BY <1>13 DEF Run
<1>14. CASE ResetRequest(u)
  BY <1>14 DEF ResetRequest
<1>15. CASE Suspend(u)
  BY <1>15 DEF Suspend
<1>16. CASE Count(u)
  BY <1>16 DEF Count
<1>17. CASE Acquire(u)
  BY <1>17 DEF Acquire
<1>18. CASE UnsuspendTest(u)
  BY <1>18 DEF UnsuspendTest
<1>19. CASE Unsuspend(u)
  BY <1>19 DEF Unsuspend
<1>20. CASE Release(u)
  BY <1>20 DEF Release
<1>21. CASE Uncount(u)
  BY <1>21 DEF Uncount
<1>22. CASE \E c \in Calls[u] : Begin(u, c)
  BY <1>22 DEF Begin, FirstStep
<1> QED
  BY <1>1, <1>2, <1>3, <1>4, <1>5, <1>6, <1>7, <1>8, <1>9, <1>10, <1>11, <1>12, <1>13, <1>14,
     <1>15, <1>16, <1>17, <1>18, <1>19, <1>20, <1>21, <1>22
     DEF UserMove, UserStep

LEMMA UserAccounts ==
  ASSUME BreakInv, NEW u \in Users, UserMove(u), ~Unsuspend(u)
  PROVE  Accounted(u)
<1> USE DEF Accounted, BreakInv, TypeOK, CallSteps, CallStep, Goto, One, Outer, Inner, Counted,
            Suspenders, counts, stopping, runlock, history, AllCalls
<1>1. CASE BreakRequest(u, "request", "spin", 1)
  BY <1>1 DEF BreakRequest
<1>2. CASE Spin(u, "spin", "inspect")
  BY <1>2 DEF Spin
<1>3. CASE EnterTool(u)
  BY <1>3 DEF EnterTool, LetInNow
<1>4. CASE EnterState(u)
  BY <1>4 DEF EnterState, LetInNow
<1>5. CASE StepFurther(u)
  BY <1>5 DEF StepFurther
<1>6. CASE BreakRequest(u, "step", "spinStep", 1)
  BY <1>6 DEF BreakRequest
<1>7. CASE Spin(u, "spinStep", "stepped")
  BY <1>7 DEF Spin
<1>8. CASE SetStep(u)
  BY <1>8 DEF SetStep
<1>9. CASE BreakRequest(u, "unstep", AfterStep(u), -1)
  BY <1>9 DEF BreakRequest, AfterStep
<1>10. CASE BreakRequest(u, "retry", "nap", -1)
  BY <1>10 DEF BreakRequest
<1>11. CASE NapEnd(u)
  BY <1>11 DEF NapEnd
<1>12. CASE call[u] \in {"tool", "state"} /\ BreakRequest(u, "inside", "idle", -1)
  BY <1>12 DEF BreakRequest
<1>13. CASE Run(u)
  BY <1>13 DEF Run
<1>14. CASE ResetRequest(u)
  BY <1>14 DEF ResetRequest
<1>15. CASE Suspend(u)
  BY <1>15 DEF Suspend
<1>16. CASE Count(u)
  BY <1>16 DEF Count
<1>17. CASE Acquire(u)
  BY <1>17 DEF Acquire
<1>18. CASE UnsuspendTest(u)
  BY <1>18 DEF UnsuspendTest
<1>19. ~Unsuspend(u)
  OBVIOUS
<1>20. CASE Release(u)
  BY <1>20 DEF Release
<1>21. CASE Uncount(u)
  BY <1>21 DEF Uncount
<1>22. CASE \E c \in Calls[u] : Begin(u, c)
  BY <1>22 DEF Begin, FirstStep
<1> QED
  BY <1>1, <1>2, <1>3, <1>4, <1>5, <1>6, <1>7, <1>8, <1>9, <1>10, <1>11, <1>12, <1>13, <1>14,
     <1>15, <1>16, <1>17, <1>18, <1>19, <1>20, <1>21, <1>22
     DEF UserMove, UserStep

LEMMA UserBalance ==
  ASSUME BreakInv, NEW u \in Users, UserMove(u)
  PROVE  Balanced'
<1>1. OnlyMoves(u)
  BY UserMoves DEF BreakInv
<1>2. CASE ~Unsuspend(u)
  <2> DEFINE S == Suspenders \ erased
             b == Cardinality(Outer)
             n == Cardinality(Inner)
             k == Cardinality(Counted)
             s == Cardinality(S)
  <2>1. /\ breakRequestCount = b + n /\ lockCounter = k /\ s <= suspendRequestCount
        /\ b \in Nat /\ n \in Nat /\ k \in Nat /\ s \in Nat /\ suspendRequestCount \in Nat
    BY Finite DEF BreakInv, Balanced, TypeOK
  <2>2. Accounted(u)
    BY <1>2, UserAccounts
  <2>3. /\ Cardinality(Outer') = b + One(u \in Outer') - One(u \in Outer)
        /\ Cardinality(Inner') = n + One(u \in Inner') - One(u \in Inner)
        /\ Cardinality(Counted') = k + One(u \in Counted') - One(u \in Counted)
        /\ Cardinality(Suspenders' \ erased')
             = s + One(u \in Suspenders' \ erased') - One(u \in S)
    BY <1>1, <2>2, Recount DEF Accounted
  <2>4. \A x : One(x) \in {0, 1}
    BY DEF One
  <2> HIDE DEF S, b, n, k, s
  <2>5. /\ breakRequestCount' = Cardinality(Outer') + Cardinality(Inner')
        /\ lockCounter' = Cardinality(Counted')
    BY <2>1, <2>2, <2>3, <2>4 DEF Accounted
  <2>6. Cardinality(Suspenders' \ erased') <= suspendRequestCount'
    BY <2>1, <2>2, <2>3, <2>4 DEF Accounted, S
  <2>7. \A v \in Users : pc'[v] = "decrement" => suspendRequestCount' > 0
    BY <1>1, <2>1, <2>2 DEF OnlyMoves, Accounted, BreakInv, Balanced
  <2> QED
    BY <2>5, <2>6, <2>7 DEF Balanced
<1>3. CASE Unsuspend(u)
  <2>1. /\ pc[u] = "decrement" /\ pc'[u] = "release" /\ call' = call /\ call[u] = "lock"
        /\ breakRequestCount' = breakRequestCount /\ lockCounter' = lockCounter
        /\ suspendRequestCount' = suspendRequestCount - 1
        /\ erased' = IF u \in erased THEN erased \cup Suspending ELSE erased
    BY <1>3 DEF Unsuspend, Goto, runlock, BreakInv, TypeOK, CallSteps, CallStep
  <2>2. suspendRequestCount \in Nat /\ suspendRequestCount > 0
    BY <2>1 DEF BreakInv, Balanced, TypeOK
  <2>3. Outer' = Outer /\ Inner' = Inner /\ Counted' = Counted
    BY <1>1, <2>1 DEF OnlyMoves, Outer, Inner, Counted
  <2>4. \A v \in Users : pc'[v] # "decrement"
    BY <1>1, <2>1 DEF OnlyMoves, BreakInv, LockOwned, InLock
  <2>5. Cardinality(Suspenders' \ erased') <= suspendRequestCount'
    <3> DEFINE S == Suspenders \ erased
    <3>1. CASE u \in erased
      <4>1. Suspenders' \ erased' = {}
        BY <1>1, <2>1, <2>4, <3>1 DEF OnlyMoves, Suspenders, Suspending
      <4> QED
        BY <4>1, <2>1, <2>2, FS_EmptySet
    <3>2. CASE u \notin erased
      <4>1. Suspenders' \ erased' = (Suspenders \ erased) \ {u} /\ u \in Suspenders \ erased
        BY <1>1, <2>1, <3>2 DEF OnlyMoves, Suspenders
      <4>2. Cardinality(Suspenders' \ erased') = Cardinality(Suspenders \ erased) - 1
        <5>1. IsFiniteSet(S) /\ u \in S
          BY <4>1, Finite
        <5>2. Cardinality(S \ {u}) = Cardinality(S) - 1
          <6> HIDE DEF S
          <6> QED
            BY <5>1, FS_RemoveElement
        <5> QED
          BY <4>1, <5>2
      <4> QED
        BY <4>2, <2>1, <2>2, Finite DEF BreakInv, Balanced
    <3> QED
      BY <3>1, <3>2
  <2> QED
    BY <2>1, <2>3, <2>4, <2>5 DEF BreakInv, Balanced
<1> QED
  BY <1>2, <1>3

(* The counters stay natural numbers, being the sizes of sets.             *)
LEMMA UserCounts ==
  ASSUME BreakInv, NEW u \in Users, UserMove(u)
  PROVE  /\ breakRequestCount' \in Nat /\ lockCounter' \in Nat
         /\ suspendRequestCount' \in Nat
<1>1. IsFiniteSet(Users)
  BY DEF ConstantsAssumption
<1>2. Outer' \subseteq Users /\ Inner' \subseteq Users /\ Counted' \subseteq Users
  BY DEF Outer, Inner, Counted
<1>3. /\ Cardinality(Outer') \in Nat /\ Cardinality(Inner') \in Nat
      /\ Cardinality(Counted') \in Nat
  BY <1>1, <1>2, FS_Subset, FS_CardinalityType
<1>4. breakRequestCount' \in Nat /\ lockCounter' \in Nat
  BY <1>3, UserBalance DEF Balanced
<1>5. suspendRequestCount' \in Nat
  <2>1. CASE ~Unsuspend(u)
    BY <2>1, UserAccounts DEF Accounted
  <2>2. CASE Unsuspend(u)
    BY <2>2 DEF Unsuspend, Goto, BreakInv, Balanced, TypeOK
  <2> QED
    BY <2>1, <2>2
<1> QED
  BY <1>4, <1>5

LEMMA UserTypes ==
  ASSUME BreakInv, NEW u \in Users, UserMove(u)
  PROVE  TypeOK'
<1>1. TypeOK
  BY DEF BreakInv
<1>2. /\ breakRequestCount' \in Nat /\ lockCounter' \in Nat
      /\ suspendRequestCount' \in Nat
  BY UserCounts
<1>3. NoStep \in StepRequests /\ StepFor(u) \in StepRequests
  BY <1>1, StepTypes
<1> USE <1>1, <1>2 DEF TypeOK, Goto, stopping, counts, runlock, history, AllCalls, reset
<1>4. CASE BreakRequest(u, "request", "spin", 1)
  BY <1>4 DEF BreakRequest
<1>5. CASE Spin(u, "spin", "inspect")
  BY <1>5 DEF Spin
<1>6. CASE EnterTool(u)
  BY <1>6 DEF EnterTool, LetInNow
<1>7. CASE EnterState(u)
  BY <1>7 DEF EnterState, LetInNow
<1>8. CASE StepFurther(u)
  BY <1>8 DEF StepFurther
<1>9. CASE BreakRequest(u, "step", "spinStep", 1)
  BY <1>9 DEF BreakRequest
<1>10. CASE Spin(u, "spinStep", "stepped")
  BY <1>10 DEF Spin
<1>11. CASE SetStep(u)
  <2>1. step' \in StepRequests
    BY <1>11, <1>3 DEF SetStep
  <2>2. waitForBreakResume' \in BOOLEAN
    BY Zenon, <1>11 DEF SetStep
  <2> QED
    BY <1>11, <2>1, <2>2 DEF SetStep
<1>12. CASE BreakRequest(u, "unstep", AfterStep(u), -1)
  BY <1>12 DEF BreakRequest, AfterStep
<1>13. CASE BreakRequest(u, "retry", "nap", -1)
  BY <1>13 DEF BreakRequest
<1>14. CASE NapEnd(u)
  BY <1>14 DEF NapEnd
<1>15. CASE call[u] \in {"tool", "state"} /\ BreakRequest(u, "inside", "idle", -1)
  BY <1>15 DEF BreakRequest
<1>16. CASE Run(u)
  <2>1. step' \in StepRequests
    BY <1>16, <1>3 DEF Run
  <2>2. waitForBreakResume' \in BOOLEAN
    BY Zenon, <1>16 DEF Run
  <2> QED
    BY <1>16, <2>1, <2>2 DEF Run
<1>17. CASE ResetRequest(u)
  BY <1>17 DEF ResetRequest
<1>18. CASE Suspend(u)
  BY <1>18 DEF Suspend
<1>19. CASE Count(u)
  BY <1>19 DEF Count
<1>20. CASE Acquire(u)
  BY <1>20 DEF Acquire
<1>21. CASE UnsuspendTest(u)
  BY <1>21 DEF UnsuspendTest
<1>22. CASE Unsuspend(u)
  BY <1>22 DEF Unsuspend, Suspending
<1>23. CASE Release(u)
  BY <1>23 DEF Release
<1>24. CASE Uncount(u)
  BY <1>24 DEF Uncount
<1>25. CASE \E c \in Calls[u] : Begin(u, c)
  BY <1>25 DEF Begin, FirstStep, ConstantsAssumption
<1> QED
  BY <1>4, <1>5, <1>6, <1>7, <1>8, <1>9, <1>10, <1>11, <1>12, <1>13, <1>14, <1>15, <1>16, <1>17,
     <1>18, <1>19, <1>20, <1>21, <1>22, <1>23, <1>24, <1>25
     DEF UserMove, UserStep

LEMMA UserSteps ==
  ASSUME BreakInv, NEW u \in Users, UserMove(u)
  PROVE  CallSteps'
<1>1. \A v \in Users : v # u => CallStep(v)'
  BY UserMoves DEF OnlyMoves, BreakInv, CallSteps, CallStep
<1>2. CallStep(u)'
  <2> USE DEF BreakInv, TypeOK, CallSteps, CallStep, Goto
  <2>1. CASE BreakRequest(u, "request", "spin", 1)
    BY <2>1 DEF BreakRequest
  <2>2. CASE Spin(u, "spin", "inspect")
    BY <2>2 DEF Spin
  <2>3. CASE EnterTool(u)
    BY <2>3 DEF EnterTool, LetInNow
  <2>4. CASE EnterState(u)
    BY <2>4 DEF EnterState, LetInNow
  <2>5. CASE StepFurther(u)
    BY <2>5 DEF StepFurther
  <2>6. CASE BreakRequest(u, "step", "spinStep", 1)
    BY <2>6 DEF BreakRequest
  <2>7. CASE Spin(u, "spinStep", "stepped")
    BY <2>7 DEF Spin
  <2>8. CASE SetStep(u)
    BY <2>8 DEF SetStep
  <2>9. CASE BreakRequest(u, "unstep", AfterStep(u), -1)
    BY <2>9 DEF BreakRequest, AfterStep
  <2>10. CASE BreakRequest(u, "retry", "nap", -1)
    BY <2>10 DEF BreakRequest
  <2>11. CASE NapEnd(u)
    BY <2>11 DEF NapEnd
  <2>12. CASE call[u] \in {"tool", "state"} /\ BreakRequest(u, "inside", "idle", -1)
    BY <2>12 DEF BreakRequest
  <2>13. CASE Run(u)
    BY <2>13 DEF Run
  <2>14. CASE ResetRequest(u)
    BY <2>14 DEF ResetRequest
  <2>15. CASE Suspend(u)
    BY <2>15 DEF Suspend
  <2>16. CASE Count(u)
    BY <2>16 DEF Count
  <2>17. CASE Acquire(u)
    BY <2>17 DEF Acquire
  <2>18. CASE UnsuspendTest(u)
    BY <2>18 DEF UnsuspendTest
  <2>19. CASE Unsuspend(u)
    BY <2>19 DEF Unsuspend
  <2>20. CASE Release(u)
    BY <2>20 DEF Release
  <2>21. CASE Uncount(u)
    BY <2>21 DEF Uncount
  <2>22. CASE \E c \in Calls[u] : Begin(u, c)
    BY <2>22 DEF Begin, FirstStep, AllCalls, ConstantsAssumption
  <2> QED
    BY <2>1, <2>2, <2>3, <2>4, <2>5, <2>6, <2>7, <2>8, <2>9, <2>10, <2>11, <2>12, <2>13, <2>14,
       <2>15, <2>16, <2>17, <2>18, <2>19, <2>20, <2>21, <2>22
       DEF UserMove, UserStep
<1> QED
  BY <1>1, <1>2 DEF CallSteps

LEMMA UserLocks ==
  ASSUME BreakInv, NEW u \in Users, UserMove(u)
  PROVE  LockOwned'
<1>1. OnlyMoves(u) /\ emu' = emu
  BY UserMoves DEF BreakInv
<1>2. Emu # u /\ Emu # "free" /\ "free" \notin Users
  BY DEF ConstantsAssumption, Emu
<1>3. CASE ~Acquire(u) /\ ~Release(u)
  <2>1. runLock' = runLock
    BY <1>3 DEF Acquire, AfterStep, Begin, BreakRequest, Count, EnterState, EnterTool, FirstStep,
           LetInNow, NapEnd, Release, ResetRequest, Run, SetStep, Spin, StepFurther, Suspend,
           Uncount, Unsuspend, UnsuspendTest, UserMove, UserStep, Goto, stopping, counts,
           runlock, history
  <2>2. InLock(u)' => InLock(u)
    BY <1>3 DEF Acquire, AfterStep, Begin, BreakRequest, Count, EnterState, EnterTool, FirstStep,
           LetInNow, NapEnd, Release, ResetRequest, Run, SetStep, Spin, StepFurther, Suspend,
           Uncount, Unsuspend, UnsuspendTest, UserMove, UserStep, Goto, InLock, BreakInv, TypeOK,
           CallSteps, CallStep, AllCalls
  <2> QED
    BY <1>1, <2>1, <2>2 DEF OnlyMoves, BreakInv, LockOwned, InLock
<1>4. CASE Acquire(u)
  BY <1>1, <1>2, <1>4 DEF Acquire, OnlyMoves, BreakInv, LockOwned, InLock
<1>5. CASE Release(u)
  BY <1>1, <1>2, <1>5 DEF Release, Goto, OnlyMoves, BreakInv, TypeOK, LockOwned, InLock
<1> QED
  BY <1>3, <1>4, <1>5

LEMMA UserOverrun ==
  ASSUME BreakInv, NEW u \in Users, UserMove(u)
  PROVE  Overrun'
<1>1. OnlyMoves(u) /\ emu' = emu
  BY UserMoves DEF BreakInv
<1>2. CASE ~EnterTool(u) /\ ~EnterState(u)
  <2>1. overrun' = overrun /\ suspended' = suspended
    BY <1>2 DEF Acquire, AfterStep, Begin, BreakRequest, Count, EnterState, EnterTool, FirstStep,
           LetInNow, NapEnd, Release, ResetRequest, Run, SetStep, Spin, StepFurther, Suspend,
           Uncount, Unsuspend, UnsuspendTest, UserMove, UserStep, Goto, history
  <2>2. u \in LetIn' => u \in LetIn
    BY <1>2 DEF Acquire, AfterStep, Begin, BreakRequest, Count, EnterState, EnterTool, FirstStep,
           LetInNow, NapEnd, Release, ResetRequest, Run, SetStep, Spin, StepFurther, Suspend,
           Uncount, Unsuspend, UnsuspendTest, UserMove, UserStep, Goto, LetIn, BreakInv, TypeOK,
           CallSteps, CallStep, AllCalls
  <2> QED
    BY <1>1, <2>1, <2>2 DEF OnlyMoves, BreakInv, Overrun, LetIn
<1>3. CASE EnterTool(u) \/ EnterState(u)
  BY <1>1, <1>3 DEF EnterTool, EnterState, LetInNow, OnlyMoves, BreakInv, TypeOK, Overrun, LetIn
<1> QED
  BY <1>2, <1>3

LEMMA UserPreserves ==
  ASSUME BreakInv, NEW u \in Users, UserMove(u)
  PROVE  BreakInv'
<1>1. Room'
  BY UserMoves DEF BreakInv, Room, Asleep
<1> QED
  BY <1>1, UserTypes, UserSteps, UserLocks, UserBalance, UserOverrun DEF BreakInv

-----------------------------------------------------------------------------
(***************************************************************************)
(* The theorems.                                                           *)
(***************************************************************************)
(* The inductive invariant: every step of the emulation thread and of a    *)
(* user, whatever calls the users make, keeps the counters equal to the    *)
(* sizes of the sets of users they stand for.                              *)
THEOREM BreakInvariant == Spec => []BreakInv
<1>1. BreakInv /\ [Next]_vars => BreakInv'
  <2> SUFFICES ASSUME BreakInv, [Next]_vars PROVE BreakInv'
    OBVIOUS
  <2>1. CASE EmuStep
    BY <2>1, EmuPreserves
  <2>2. CASE \E u \in Users : UserMove(u)
    BY <2>2, UserPreserves
  <2>3. CASE UNCHANGED vars
    BY <2>3 DEF vars, stopping, counts, runlock, reset, users, history, BreakInv, TypeOK, Room,
                Asleep, CallSteps, CallStep, LockOwned, InLock, Balanced, Outer, Inner,
                Counted, Suspenders, Overrun, LetIn
  <2> QED
    BY <2>1, <2>2, <2>3 DEF Next, UserMove
<1> QED
  BY InitInv, <1>1, PTL DEF Spec

(* The types of the members of Debugger and Emulator; in particular        *)
(* BreakRequest(true) and Unlock never take a counter below zero.          *)
THEOREM TypeCorrect == Spec => []TypeOK
<1>1. BreakInv => TypeOK
  BY DEF BreakInv
<1> QED
  BY BreakInvariant, <1>1, PTL

(* Break requests are balanced, and a suspension that no reset has erased  *)
(* holds (DebugBreakHelper, SuspendDebugger).                              *)
THEOREM RequestsBalanced == Spec => []RequestsCounted
<1>1. BreakInv => RequestsCounted
  <2> SUFFICES ASSUME BreakInv, NEW u \in Suspending, u \notin erased
               PROVE  suspendRequestCount > 0
    BY DEF BreakInv, Balanced, RequestsCounted
  <2>1. u \in Suspenders \ erased
    BY DEF Suspending, Suspenders
  <2>2. Cardinality(Suspenders \ erased) > 0
    BY <2>1, Finite, SomebodyCounts
  <2> QED
    BY <2>2, Finite DEF BreakInv, Balanced, TypeOK
<1> QED
  BY BreakInvariant, <1>1, PTL

(* A debugging tool that was let in while the execution is stopped sees at *)
(* most the instruction that was about to run, unless an emulator lock     *)
(* suspended the debugger meanwhile (SleepUntilResume).                    *)
THEOREM StoppedForTools == Spec => []OneInstructionOverrun
<1>1. BreakInv => OneInstructionOverrun
  BY DEF BreakInv, TypeOK, Overrun, OneInstructionOverrun, LetIn
<1> QED
  BY BreakInvariant, <1>1, PTL
=============================================================================
