--------------------------- MODULE EmulatorLoopProof ---------------------------
(***************************************************************************)
(* Proofs about EmulatorLoop, for any finite set of users and any choice of*)
(* the calls they make.                                                    *)
(***************************************************************************)
EXTENDS EmulatorLoop, FiniteSetTheorems, TLAPS

USE UsersAssumption, OpsAssumption

(* The callers that the lock counter counts are finitely many.             *)
LEMMA CountedFinite == IsFiniteSet(Counted) /\ Cardinality(Counted) \in Nat
<1>1. Counted \subseteq Users
  BY DEF Counted
<1> QED
  BY <1>1, FS_Subset, FS_CardinalityType

(* A caller waiting for the run lock is counted.                           *)
LEMMA CountedWaits ==
  ASSUME LockCounted, NEW u \in Users, pc[u] = "acquire"
  PROVE  lockCounter > 0
<1>1. u \in Counted
  BY DEF Counted
<1>2. Cardinality(Counted) # 0
  BY <1>1, CountedFinite, FS_EmptySet
<1> QED
  BY <1>2, CountedFinite DEF LockCounted

LEMMA InitEmuInv == Init => EmuInv
<1> SUFFICES ASSUME Init PROVE EmuInv
  OBVIOUS
<1>1. TypeOK
  <2>1. pc \in [Threads -> EmuSteps \cup UserSteps]
    BY DEF Init, Threads, EmuSteps, UserSteps
  <2>2. pc[Emu] \in EmuSteps /\ \A u \in Users : pc[u] \in UserSteps
    BY DEF Init, Threads, EmuSteps, UserSteps
  <2>3. depth \in [Threads -> Nat]
    BY DEF Init, RunLock!Init
  <2>4. op \in [Users -> {"lock", "load", "stop"}] /\ overrun \in [Users -> 0..2]
    BY DEF Init
  <2> QED
    BY <2>1, <2>2, <2>3, <2>4 DEF Init, TypeOK, RunLock!TypeOK, SystemActions
<1>2. RunLock!MutualExclusion /\ EmuDepth /\ UserDepth
  BY DEF Init, RunLock!Init, RunLock!MutualExclusion, RunLock!Holds, EmuDepth,
         UserDepth, Inside, Threads
<1>3. Lifecycle /\ OverrunOnce
  BY DEF Init, Lifecycle, OverrunOnce, Threads
<1>4. LockCounted
  <2>1. Counted = {}
    BY DEF Init, Counted, Inside, Threads
  <2> QED
    BY <2>1, FS_EmptySet DEF Init, LockCounted, Threads
<1> QED
  BY <1>1, <1>2, <1>3, <1>4 DEF EmuInv

(* The emulation thread changes nothing of what its users are doing.       *)
LEMMA EmuKeepsUsers ==
  ASSUME EmuInv, EmuStep
  PROVE  /\ \A u \in Users : pc'[u] = pc[u] /\ depth'[u] = depth[u]
         /\ op' = op
         /\ UserDepth'
         /\ Counted' = Counted
<1>1. \A u \in Users : pc'[u] = pc[u]
  BY DEF EmuStep, Goto, EmuInv, TypeOK, Threads, 
         RunTakeLock, RunGiveUp, RunClearStop, LoopEnd, FrameBegin, FrameEnd,
         FrameThrow, NoAction, Reset, PowerCycleBegin, PowerCycleEnd,
         PowerCycleFail, NobodyWaits, GiveUpLock, Park, SpinEnd, Unpark,
         UnparkStopped, Retake, CheckPause, SetPaused, TestPause,
         UnlockPause, Wake, WakeTest, WakeTake, WakeTimeOut, RunExit
<1>2. \A u \in Users : depth'[u] = depth[u]
  BY DEF EmuStep, EmuInv, TypeOK, RunLock!TypeOK, Threads, lockVars,
         RunLock!Acquire, RunLock!Release, 
         RunTakeLock, RunGiveUp, RunClearStop, LoopEnd, FrameBegin, FrameEnd,
         FrameThrow, NoAction, Reset, PowerCycleBegin, PowerCycleEnd,
         PowerCycleFail, NobodyWaits, GiveUpLock, Park, SpinEnd, Unpark,
         UnparkStopped, Retake, CheckPause, SetPaused, TestPause,
         UnlockPause, Wake, WakeTest, WakeTake, WakeTimeOut, RunExit
<1>3. op' = op
  BY DEF EmuStep, 
         RunTakeLock, RunGiveUp, RunClearStop, LoopEnd, FrameBegin, FrameEnd,
         FrameThrow, NoAction, Reset, PowerCycleBegin, PowerCycleEnd,
         PowerCycleFail, NobodyWaits, GiveUpLock, Park, SpinEnd, Unpark,
         UnparkStopped, Retake, CheckPause, SetPaused, TestPause,
         UnlockPause, Wake, WakeTest, WakeTake, WakeTimeOut, RunExit
<1> QED
  BY <1>1, <1>2, <1>3 DEF EmuInv, UserDepth, Counted, Inside

(* Every step of the emulation thread preserves the invariant.             *)
LEMMA EmuStepInv ==
  ASSUME EmuInv, EmuStep
  PROVE  EmuInv'
<1> USE DEF EmuInv
<1>0. /\ \A u \in Users : pc'[u] = pc[u] /\ depth'[u] = depth[u]
      /\ op' = op
      /\ UserDepth'
      /\ Counted' = Counted
  BY EmuKeepsUsers
<1>1. CASE RunTakeLock
  <2>1. TypeOK'
    BY <1>1 DEF RunTakeLock, Goto, RunLock!Acquire, RunLock!FreeFor,
        RunLock!Holds, TypeOK, RunLock!TypeOK, Threads, EmuSteps,
        lockVars, flags, game, actions
  <2>2. EmuDepth' /\ RunLock!MutualExclusion'
    BY <1>1 DEF RunTakeLock, Goto, RunLock!Acquire, RunLock!FreeFor,
        RunLock!Holds, RunLock!MutualExclusion, EmuDepth, TypeOK,
        RunLock!TypeOK, Threads, EmuSteps, lockVars, flags, game, actions
  <2>3. Lifecycle' /\ LockCounted' /\ OverrunOnce'
    BY <1>1, <1>0, CountedWaits, CountedFinite DEF RunTakeLock, Goto,
        Lifecycle, LockCounted, OverrunOnce, TypeOK, Threads, lockVars,
        flags, game, actions
  <2> QED
    BY <1>0, <2>1, <2>2, <2>3
<1>2. CASE RunGiveUp
  <2>1. TypeOK'
    BY <1>2 DEF RunGiveUp, Goto, TypeOK, RunLock!TypeOK, Threads,
        EmuSteps, lockVars, flags, game, actions
  <2>2. EmuDepth'
    BY <1>2 DEF RunGiveUp, Goto, EmuDepth, TypeOK, Threads, lockVars,
        flags, game, actions
  <2>3. RunLock!MutualExclusion' /\ Lifecycle' /\ LockCounted' /\ OverrunOnce'
    BY <1>2, <1>0, CountedWaits DEF RunGiveUp, Goto,
        RunLock!MutualExclusion, RunLock!Holds, Lifecycle, LockCounted,
        OverrunOnce, TypeOK, Threads, lockVars, flags, game, actions
  <2> QED
    BY <1>0, <2>1, <2>2, <2>3
<1>3. CASE RunClearStop
  <2>1. TypeOK'
    BY <1>3 DEF RunClearStop, Goto, TypeOK, RunLock!TypeOK, Threads,
        EmuSteps, lockVars, flags, game, actions
  <2>2. EmuDepth'
    BY <1>3 DEF RunClearStop, Goto, EmuDepth, TypeOK, Threads, lockVars,
        flags, game, actions
  <2>3. RunLock!MutualExclusion' /\ Lifecycle' /\ LockCounted' /\ OverrunOnce'
    BY <1>3, <1>0, CountedWaits DEF RunClearStop, Goto,
        RunLock!MutualExclusion, RunLock!Holds, Lifecycle, LockCounted,
        OverrunOnce, TypeOK, Threads, lockVars, flags, game, actions
  <2> QED
    BY <1>0, <2>1, <2>2, <2>3
<1>4. CASE LoopEnd
  <2>1. TypeOK'
    BY <1>4 DEF LoopEnd, Goto, TypeOK, RunLock!TypeOK, Threads, EmuSteps,
        lockVars, flags, game, actions
  <2>2. EmuDepth'
    BY <1>4 DEF LoopEnd, Goto, EmuDepth, TypeOK, Threads, lockVars, flags,
        game, actions
  <2>3. RunLock!MutualExclusion' /\ Lifecycle' /\ LockCounted' /\ OverrunOnce'
    BY <1>4, <1>0, CountedWaits DEF LoopEnd, Goto,
        RunLock!MutualExclusion, RunLock!Holds, Lifecycle, LockCounted,
        OverrunOnce, TypeOK, Threads, lockVars, flags, game, actions
  <2> QED
    BY <1>0, <2>1, <2>2, <2>3
<1>5. CASE FrameBegin
  <2>1. TypeOK'
    BY <1>5 DEF FrameBegin, Goto, TypeOK, RunLock!TypeOK, Threads,
        EmuSteps, lockVars, flags, game, actions
  <2>2. EmuDepth'
    BY <1>5 DEF FrameBegin, Goto, EmuDepth, TypeOK, Threads, lockVars,
        flags, game, actions
  <2>3. RunLock!MutualExclusion' /\ Lifecycle' /\ LockCounted' /\ OverrunOnce'
    BY <1>5, <1>0, CountedWaits DEF FrameBegin, Goto,
        RunLock!MutualExclusion, RunLock!Holds, Lifecycle, LockCounted,
        OverrunOnce, TypeOK, Threads, lockVars, flags, game, actions
  <2> QED
    BY <1>0, <2>1, <2>2, <2>3
<1>6. CASE FrameEnd
  <2>1. TypeOK'
    BY <1>6 DEF FrameEnd, Goto, TypeOK, RunLock!TypeOK, Threads, EmuSteps,
        lockVars, flags, game, actions, SystemActions
  <2>2. EmuDepth'
    BY <1>6 DEF FrameEnd, Goto, EmuDepth, TypeOK, Threads, lockVars,
        flags, game, actions
  <2>3. RunLock!MutualExclusion' /\ Lifecycle' /\ LockCounted' /\ OverrunOnce'
    BY <1>6, <1>0, CountedWaits DEF FrameEnd, Goto,
        RunLock!MutualExclusion, RunLock!Holds, Lifecycle, LockCounted,
        OverrunOnce, TypeOK, Threads, lockVars, flags, game, actions
  <2> QED
    BY <1>0, <2>1, <2>2, <2>3
<1>7. CASE FrameThrow
  <2>1. TypeOK'
    BY <1>7 DEF FrameThrow, Goto, TypeOK, RunLock!TypeOK, Threads,
        EmuSteps, lockVars, flags, game, actions
  <2>2. EmuDepth'
    BY <1>7 DEF FrameThrow, Goto, EmuDepth, TypeOK, Threads, lockVars,
        flags, game, actions
  <2>3. RunLock!MutualExclusion' /\ Lifecycle' /\ LockCounted' /\ OverrunOnce'
    BY <1>7, <1>0, CountedWaits DEF FrameThrow, Goto,
        RunLock!MutualExclusion, RunLock!Holds, Lifecycle, LockCounted,
        OverrunOnce, TypeOK, Threads, lockVars, flags, game, actions
  <2> QED
    BY <1>0, <2>1, <2>2, <2>3
<1>8. CASE NoAction
  <2>1. TypeOK'
    BY <1>8 DEF NoAction, Goto, TypeOK, RunLock!TypeOK, Threads, EmuSteps,
        lockVars, flags, game, actions
  <2>2. EmuDepth'
    BY <1>8 DEF NoAction, Goto, EmuDepth, TypeOK, Threads, lockVars,
        flags, game, actions
  <2>3. RunLock!MutualExclusion' /\ Lifecycle' /\ LockCounted' /\ OverrunOnce'
    BY <1>8, <1>0, CountedWaits DEF NoAction, Goto,
        RunLock!MutualExclusion, RunLock!Holds, Lifecycle, LockCounted,
        OverrunOnce, TypeOK, Threads, lockVars, flags, game, actions
  <2> QED
    BY <1>0, <2>1, <2>2, <2>3
<1>9. CASE Reset
  <2>1. TypeOK'
    BY <1>9 DEF Reset, Goto, ResetState, TypeOK, RunLock!TypeOK, Threads,
        EmuSteps, lockVars, flags, game, actions, SystemActions
  <2>2. EmuDepth'
    BY <1>9 DEF Reset, Goto, ResetState, EmuDepth, TypeOK, Threads,
        lockVars, flags, game, actions
  <2>3. RunLock!MutualExclusion' /\ Lifecycle' /\ LockCounted' /\ OverrunOnce'
    BY <1>9, <1>0, CountedWaits DEF Reset, Goto, ResetState,
        RunLock!MutualExclusion, RunLock!Holds, Lifecycle, LockCounted,
        OverrunOnce, TypeOK, Threads, lockVars, flags, game, actions
  <2> QED
    BY <1>0, <2>1, <2>2, <2>3
<1>10. CASE PowerCycleBegin
  <2>1. TypeOK'
    BY <1>10 DEF PowerCycleBegin, Goto, RunLock!Acquire, RunLock!FreeFor,
        RunLock!Holds, TypeOK, RunLock!TypeOK, Threads, EmuSteps,
        lockVars, flags, game, actions
  <2>2. EmuDepth' /\ RunLock!MutualExclusion'
    BY <1>10 DEF PowerCycleBegin, Goto, RunLock!Acquire, RunLock!FreeFor,
        RunLock!Holds, RunLock!MutualExclusion, EmuDepth, TypeOK,
        RunLock!TypeOK, Threads, EmuSteps, lockVars, flags, game, actions
  <2>3. Lifecycle' /\ LockCounted' /\ OverrunOnce'
    BY <1>10, <1>0, CountedWaits, CountedFinite DEF PowerCycleBegin, Goto,
        Lifecycle, LockCounted, OverrunOnce, TypeOK, Threads, lockVars,
        flags, game, actions
  <2> QED
    BY <1>0, <2>1, <2>2, <2>3
<1>11. CASE PowerCycleEnd
  <2>0. lockCounter - 1 \in Nat
    BY <1>11, CountedFinite DEF PowerCycleEnd, Goto, LockCounted
  <2>1. TypeOK'
    <3>1. RunLock!TypeOK'
      BY <1>11 DEF PowerCycleEnd, TypeOK, RunLock!TypeOK, RunLock!Release, RunLock!Holds, Threads
    <3>2. pc' \in [Threads -> EmuSteps \cup UserSteps] /\ pc'[Emu] \in EmuSteps
      BY <1>11 DEF PowerCycleEnd, Goto, TypeOK, Threads, EmuSteps
    <3> QED
      BY <1>0, <1>11, <2>0, <3>1, <3>2 DEF PowerCycleEnd, ResetState, TypeOK, flags, game
  <2>2. EmuDepth' /\ RunLock!MutualExclusion'
    BY <1>11 DEF PowerCycleEnd, Goto, ResetState, RunLock!Release,
        RunLock!Holds, RunLock!MutualExclusion, EmuDepth, TypeOK,
        RunLock!TypeOK, Threads, EmuSteps, lockVars, flags, game, actions
  <2>3. Lifecycle' /\ LockCounted' /\ OverrunOnce'
    BY <1>11, <1>0, CountedWaits, CountedFinite DEF PowerCycleEnd, Goto,
        ResetState, Lifecycle, LockCounted, OverrunOnce, TypeOK, Threads,
        lockVars, flags, game, actions
  <2> QED
    BY <1>0, <2>1, <2>2, <2>3
<1>12. CASE PowerCycleFail
  <2>0. lockCounter - 1 \in Nat
    BY <1>12, CountedFinite DEF PowerCycleFail, Goto, LockCounted
  <2>1. TypeOK'
    <3>1. RunLock!TypeOK'
      BY <1>12 DEF PowerCycleFail, TypeOK, RunLock!TypeOK, RunLock!Release, RunLock!Holds, Threads
    <3>2. pc' \in [Threads -> EmuSteps \cup UserSteps] /\ pc'[Emu] \in EmuSteps
      BY <1>12 DEF PowerCycleFail, Goto, TypeOK, Threads, EmuSteps
    <3> QED
      BY <1>0, <1>12, <2>0, <3>1, <3>2 DEF PowerCycleFail, ResetState, TypeOK, flags, game
  <2>2. EmuDepth' /\ RunLock!MutualExclusion'
    BY <1>12 DEF PowerCycleFail, Goto, ResetState, RunLock!Release,
        RunLock!Holds, RunLock!MutualExclusion, EmuDepth, TypeOK,
        RunLock!TypeOK, Threads, EmuSteps, lockVars, flags, game, actions
  <2>3. Lifecycle' /\ LockCounted' /\ OverrunOnce'
    BY <1>12, <1>0, CountedWaits, CountedFinite DEF PowerCycleFail, Goto,
        ResetState, Lifecycle, LockCounted, OverrunOnce, TypeOK, Threads,
        lockVars, flags, game, actions
  <2> QED
    BY <1>0, <2>1, <2>2, <2>3
<1>13. CASE NobodyWaits
  <2>1. TypeOK'
    BY <1>13 DEF NobodyWaits, Goto, TypeOK, RunLock!TypeOK, Threads,
        EmuSteps, lockVars, flags, game, actions
  <2>2. EmuDepth'
    BY <1>13 DEF NobodyWaits, Goto, EmuDepth, TypeOK, Threads, lockVars,
        flags, game, actions
  <2>3. RunLock!MutualExclusion' /\ Lifecycle' /\ LockCounted' /\ OverrunOnce'
    BY <1>13, <1>0, CountedWaits DEF NobodyWaits, Goto,
        RunLock!MutualExclusion, RunLock!Holds, Lifecycle, LockCounted,
        OverrunOnce, TypeOK, Threads, lockVars, flags, game, actions
  <2> QED
    BY <1>0, <2>1, <2>2, <2>3
<1>14. CASE GiveUpLock
  <2>1. TypeOK'
    BY <1>14 DEF GiveUpLock, Goto, RunLock!Release, RunLock!Holds, TypeOK,
        RunLock!TypeOK, Threads, EmuSteps, lockVars, flags, game, actions
  <2>2. EmuDepth' /\ RunLock!MutualExclusion'
    BY <1>14 DEF GiveUpLock, Goto, RunLock!Release, RunLock!Holds,
        RunLock!MutualExclusion, EmuDepth, TypeOK, RunLock!TypeOK,
        Threads, EmuSteps, lockVars, flags, game, actions
  <2>3. Lifecycle' /\ LockCounted' /\ OverrunOnce'
    BY <1>14, <1>0, CountedWaits, CountedFinite DEF GiveUpLock, Goto,
        Lifecycle, LockCounted, OverrunOnce, TypeOK, Threads, lockVars,
        flags, game, actions
  <2> QED
    BY <1>0, <2>1, <2>2, <2>3
<1>15. CASE Park
  <2>1. TypeOK'
    BY <1>15 DEF Park, Goto, TypeOK, RunLock!TypeOK, Threads, EmuSteps,
        lockVars, flags, game, actions
  <2>2. EmuDepth'
    BY <1>15 DEF Park, Goto, EmuDepth, TypeOK, Threads, lockVars, flags,
        game, actions
  <2>3. RunLock!MutualExclusion' /\ Lifecycle' /\ LockCounted' /\ OverrunOnce'
    BY <1>15, <1>0, CountedWaits DEF Park, Goto, RunLock!MutualExclusion,
        RunLock!Holds, Lifecycle, LockCounted, OverrunOnce, TypeOK,
        Threads, lockVars, flags, game, actions
  <2> QED
    BY <1>0, <2>1, <2>2, <2>3
<1>16. CASE SpinEnd
  <2>1. TypeOK'
    BY <1>16 DEF SpinEnd, Goto, TypeOK, RunLock!TypeOK, Threads, EmuSteps,
        lockVars, flags, game, actions
  <2>2. EmuDepth'
    BY <1>16 DEF SpinEnd, Goto, EmuDepth, TypeOK, Threads, lockVars,
        flags, game, actions
  <2>3. RunLock!MutualExclusion' /\ Lifecycle' /\ LockCounted' /\ OverrunOnce'
    BY <1>16, <1>0, CountedWaits DEF SpinEnd, Goto,
        RunLock!MutualExclusion, RunLock!Holds, Lifecycle, LockCounted,
        OverrunOnce, TypeOK, Threads, lockVars, flags, game, actions
  <2> QED
    BY <1>0, <2>1, <2>2, <2>3
<1>17. CASE Unpark
  <2>1. TypeOK'
    BY <1>17 DEF Unpark, Goto, TypeOK, RunLock!TypeOK, Threads, EmuSteps,
        lockVars, flags, game, actions
  <2>2. EmuDepth'
    BY <1>17 DEF Unpark, Goto, EmuDepth, TypeOK, Threads, lockVars, flags,
        game, actions
  <2>3. RunLock!MutualExclusion' /\ Lifecycle' /\ LockCounted' /\ OverrunOnce'
    BY <1>17, <1>0, CountedWaits DEF Unpark, Goto,
        RunLock!MutualExclusion, RunLock!Holds, Lifecycle, LockCounted,
        OverrunOnce, TypeOK, Threads, lockVars, flags, game, actions
  <2> QED
    BY <1>0, <2>1, <2>2, <2>3
<1>18. CASE UnparkStopped
  <2>1. TypeOK'
    BY <1>18 DEF UnparkStopped, Goto, TypeOK, RunLock!TypeOK, Threads,
        EmuSteps, lockVars, flags, game, actions
  <2>2. EmuDepth'
    BY <1>18 DEF UnparkStopped, Goto, EmuDepth, TypeOK, Threads, lockVars,
        flags, game, actions
  <2>3. RunLock!MutualExclusion' /\ Lifecycle' /\ LockCounted' /\ OverrunOnce'
    BY <1>18, <1>0, CountedWaits DEF UnparkStopped, Goto,
        RunLock!MutualExclusion, RunLock!Holds, Lifecycle, LockCounted,
        OverrunOnce, TypeOK, Threads, lockVars, flags, game, actions
  <2> QED
    BY <1>0, <2>1, <2>2, <2>3
<1>19. CASE Retake
  <2>1. TypeOK'
    BY <1>19 DEF Retake, Goto, RunLock!Acquire, RunLock!FreeFor,
        RunLock!Holds, TypeOK, RunLock!TypeOK, Threads, EmuSteps,
        lockVars, flags, game, actions
  <2>2. EmuDepth' /\ RunLock!MutualExclusion'
    BY <1>19 DEF Retake, Goto, RunLock!Acquire, RunLock!FreeFor,
        RunLock!Holds, RunLock!MutualExclusion, EmuDepth, TypeOK,
        RunLock!TypeOK, Threads, EmuSteps, lockVars, flags, game, actions
  <2>3. Lifecycle' /\ LockCounted' /\ OverrunOnce'
    BY <1>19, <1>0, CountedWaits, CountedFinite DEF Retake, Goto,
        Lifecycle, LockCounted, OverrunOnce, TypeOK, Threads, lockVars,
        flags, game, actions
  <2> QED
    BY <1>0, <2>1, <2>2, <2>3
<1>20. CASE CheckPause
  <2>1. TypeOK'
    BY <1>20 DEF CheckPause, Goto, TypeOK, RunLock!TypeOK, Threads,
        EmuSteps, lockVars, flags, game, actions
  <2>2. EmuDepth'
    BY <1>20 DEF CheckPause, Goto, EmuDepth, TypeOK, Threads, lockVars,
        flags, game, actions
  <2>3. RunLock!MutualExclusion' /\ Lifecycle' /\ LockCounted' /\ OverrunOnce'
    BY <1>20, <1>0, CountedWaits DEF CheckPause, Goto,
        RunLock!MutualExclusion, RunLock!Holds, Lifecycle, LockCounted,
        OverrunOnce, TypeOK, Threads, lockVars, flags, game, actions
  <2> QED
    BY <1>0, <2>1, <2>2, <2>3
<1>21. CASE SetPaused
  <2>1. TypeOK'
    BY <1>21 DEF SetPaused, Goto, TypeOK, RunLock!TypeOK, Threads,
        EmuSteps, lockVars, flags, game, actions
  <2>2. EmuDepth'
    BY <1>21 DEF SetPaused, Goto, EmuDepth, TypeOK, Threads, lockVars,
        flags, game, actions
  <2>3. RunLock!MutualExclusion' /\ Lifecycle' /\ LockCounted' /\ OverrunOnce'
    BY <1>21, <1>0, CountedWaits DEF SetPaused, Goto,
        RunLock!MutualExclusion, RunLock!Holds, Lifecycle, LockCounted,
        OverrunOnce, TypeOK, Threads, lockVars, flags, game, actions
  <2> QED
    BY <1>0, <2>1, <2>2, <2>3
<1>22. CASE TestPause
  <2>1. TypeOK'
    BY <1>22 DEF TestPause, Goto, TypeOK, RunLock!TypeOK, Threads,
        EmuSteps, lockVars, flags, game, actions
  <2>2. EmuDepth'
    BY <1>22 DEF TestPause, Goto, EmuDepth, TypeOK, Threads, lockVars,
        flags, game, actions
  <2>3. RunLock!MutualExclusion' /\ Lifecycle' /\ LockCounted' /\ OverrunOnce'
    BY <1>22, <1>0, CountedWaits DEF TestPause, Goto,
        RunLock!MutualExclusion, RunLock!Holds, Lifecycle, LockCounted,
        OverrunOnce, TypeOK, Threads, lockVars, flags, game, actions
  <2> QED
    BY <1>0, <2>1, <2>2, <2>3
<1>23. CASE UnlockPause
  <2>1. TypeOK'
    BY <1>23 DEF UnlockPause, Goto, RunLock!Release, RunLock!Holds,
        TypeOK, RunLock!TypeOK, Threads, EmuSteps, lockVars, flags, game,
        actions
  <2>2. EmuDepth' /\ RunLock!MutualExclusion'
    BY <1>23 DEF UnlockPause, Goto, RunLock!Release, RunLock!Holds,
        RunLock!MutualExclusion, EmuDepth, TypeOK, RunLock!TypeOK,
        Threads, EmuSteps, lockVars, flags, game, actions
  <2>3. Lifecycle' /\ LockCounted' /\ OverrunOnce'
    BY <1>23, <1>0, CountedWaits, CountedFinite DEF UnlockPause, Goto,
        Lifecycle, LockCounted, OverrunOnce, TypeOK, Threads, lockVars,
        flags, game, actions
  <2> QED
    BY <1>0, <2>1, <2>2, <2>3
<1>24. CASE Wake
  <2>1. TypeOK'
    BY <1>24 DEF Wake, Goto, TypeOK, RunLock!TypeOK, Threads, EmuSteps,
        lockVars, flags, game, actions
  <2>2. EmuDepth'
    BY <1>24 DEF Wake, Goto, EmuDepth, TypeOK, Threads, lockVars, flags,
        game, actions
  <2>3. RunLock!MutualExclusion' /\ Lifecycle' /\ LockCounted' /\ OverrunOnce'
    BY <1>24, <1>0, CountedWaits DEF Wake, Goto, RunLock!MutualExclusion,
        RunLock!Holds, Lifecycle, LockCounted, OverrunOnce, TypeOK,
        Threads, lockVars, flags, game, actions
  <2> QED
    BY <1>0, <2>1, <2>2, <2>3
<1>25. CASE WakeTest
  <2>1. TypeOK'
    BY <1>25 DEF WakeTest, Goto, TypeOK, RunLock!TypeOK, Threads,
        EmuSteps, lockVars, flags, game, actions
  <2>2. EmuDepth'
    BY <1>25 DEF WakeTest, Goto, EmuDepth, TypeOK, Threads, lockVars,
        flags, game, actions
  <2>3. RunLock!MutualExclusion' /\ Lifecycle' /\ LockCounted' /\ OverrunOnce'
    BY <1>25, <1>0, CountedWaits DEF WakeTest, Goto,
        RunLock!MutualExclusion, RunLock!Holds, Lifecycle, LockCounted,
        OverrunOnce, TypeOK, Threads, lockVars, flags, game, actions
  <2> QED
    BY <1>0, <2>1, <2>2, <2>3
<1>26. CASE WakeTake
  <2>1. TypeOK'
    BY <1>26 DEF WakeTake, Goto, RunLock!Acquire, RunLock!FreeFor,
        RunLock!Holds, TypeOK, RunLock!TypeOK, Threads, EmuSteps,
        lockVars, flags, game, actions
  <2>2. EmuDepth' /\ RunLock!MutualExclusion'
    BY <1>26 DEF WakeTake, Goto, RunLock!Acquire, RunLock!FreeFor,
        RunLock!Holds, RunLock!MutualExclusion, EmuDepth, TypeOK,
        RunLock!TypeOK, Threads, EmuSteps, lockVars, flags, game, actions
  <2>3. Lifecycle' /\ LockCounted' /\ OverrunOnce'
    BY <1>26, <1>0, CountedWaits, CountedFinite DEF WakeTake, Goto,
        Lifecycle, LockCounted, OverrunOnce, TypeOK, Threads, lockVars,
        flags, game, actions
  <2> QED
    BY <1>0, <2>1, <2>2, <2>3
<1>27. CASE WakeTimeOut
  <2>1. TypeOK'
    BY <1>27 DEF WakeTimeOut, Goto, TypeOK, RunLock!TypeOK, Threads,
        EmuSteps, lockVars, flags, game, actions
  <2>2. EmuDepth'
    BY <1>27 DEF WakeTimeOut, Goto, EmuDepth, TypeOK, Threads, lockVars,
        flags, game, actions
  <2>3. RunLock!MutualExclusion' /\ Lifecycle' /\ LockCounted' /\ OverrunOnce'
    BY <1>27, <1>0, CountedWaits DEF WakeTimeOut, Goto,
        RunLock!MutualExclusion, RunLock!Holds, Lifecycle, LockCounted,
        OverrunOnce, TypeOK, Threads, lockVars, flags, game, actions
  <2> QED
    BY <1>0, <2>1, <2>2, <2>3
<1>28. CASE RunExit
  <2>1. TypeOK'
    BY <1>28 DEF RunExit, Goto, RunLock!Release, RunLock!Holds, TypeOK,
        RunLock!TypeOK, Threads, EmuSteps, lockVars, flags, game, actions
  <2>2. EmuDepth' /\ RunLock!MutualExclusion'
    BY <1>28 DEF RunExit, Goto, RunLock!Release, RunLock!Holds,
        RunLock!MutualExclusion, EmuDepth, TypeOK, RunLock!TypeOK,
        Threads, EmuSteps, lockVars, flags, game, actions
  <2>3. Lifecycle' /\ LockCounted' /\ OverrunOnce'
    BY <1>28, <1>0, CountedWaits, CountedFinite DEF RunExit, Goto,
        Lifecycle, LockCounted, OverrunOnce, TypeOK, Threads, lockVars,
        flags, game, actions
  <2> QED
    BY <1>0, <2>1, <2>2, <2>3
<1> QED
  BY <1>1, <1>2, <1>3, <1>4, <1>5, <1>6, <1>7, <1>8, <1>9, <1>10, <1>11,
      <1>12, <1>13, <1>14, <1>15, <1>16, <1>17, <1>18, <1>19, <1>20, <1>21,
      <1>22, <1>23, <1>24, <1>25, <1>26, <1>27, <1>28 DEF EmuStep

(* Every step of a user preserves the invariant.                           *)
LEMMA UserStepInv ==
  ASSUME EmuInv, NEW u \in Users, UserStep(u)
  PROVE  EmuInv'
<1> USE DEF EmuInv
<1>1. CASE LockRequest(u)
  <2>1. TypeOK'
    BY <1>1 DEF LockRequest, Goto, TypeOK, RunLock!TypeOK, Threads,
        EmuSteps, UserSteps, lockVars, flags, game, actions
  <2>2. EmuDepth' /\ UserDepth' /\ RunLock!MutualExclusion'
    BY <1>1 DEF LockRequest, Goto, RunLock!MutualExclusion, RunLock!Holds,
        EmuDepth, UserDepth, Inside, TypeOK, RunLock!TypeOK, Threads,
        Lifecycle, lockVars, flags, game, actions
  <2>3. Lifecycle' /\ OverrunOnce'
    BY <1>1 DEF LockRequest, Goto, Lifecycle, OverrunOnce, TypeOK,
        Threads, EmuSteps, lockVars, flags, game, actions
  <2>4. LockCounted'
    <3>1. u \notin Counted /\ Counted' = Counted \cup {u}
      BY <1>1 DEF LockRequest, Goto, Counted, Inside, TypeOK, Threads
    <3>2. Cardinality(Counted') = Cardinality(Counted) + 1
      BY <3>1, CountedFinite, FS_AddElement
    <3> QED
      BY <1>1, <3>2, CountedFinite DEF LockRequest, Goto, LockCounted,
          TypeOK, Threads
  <2> QED
    BY <2>1, <2>2, <2>3, <2>4
<1>2. CASE LockTake(u)
  <2>1. TypeOK'
    BY <1>2 DEF LockTake, Goto, RunLock!Acquire, RunLock!FreeFor,
        RunLock!Holds, TypeOK, RunLock!TypeOK, Threads, EmuSteps,
        UserSteps, lockVars, flags, game, actions
  <2>2. EmuDepth' /\ UserDepth' /\ RunLock!MutualExclusion'
    BY <1>2 DEF LockTake, Goto, RunLock!Acquire, RunLock!FreeFor,
        RunLock!MutualExclusion, RunLock!Holds, EmuDepth, UserDepth,
        Inside, TypeOK, RunLock!TypeOK, Threads, Lifecycle, lockVars,
        flags, game, actions
  <2>3. Lifecycle' /\ OverrunOnce'
    BY <1>2 DEF LockTake, Goto, Lifecycle, OverrunOnce, TypeOK, Threads,
        EmuSteps, lockVars, flags, game, actions
  <2>4. LockCounted'
    <3>1. Counted' = Counted
      BY <1>2 DEF LockTake, Goto, Counted, Inside, TypeOK, Threads,
          Lifecycle
    <3> QED
      BY <1>2, <3>1 DEF LockTake, Goto, LockCounted, TypeOK, Threads,
          Lifecycle, lockVars, flags, game, actions
  <2> QED
    BY <2>1, <2>2, <2>3, <2>4
<1>3. CASE Unlock(u)
  <2>1. TypeOK'
    BY <1>3 DEF Unlock, Goto, RunLock!Release, RunLock!Holds, TypeOK,
        RunLock!TypeOK, Threads, EmuSteps, UserSteps, lockVars, flags,
        game, actions
  <2>2. EmuDepth' /\ UserDepth' /\ RunLock!MutualExclusion'
    BY <1>3 DEF Unlock, Goto, RunLock!Release, RunLock!MutualExclusion,
        RunLock!Holds, EmuDepth, UserDepth, Inside, TypeOK,
        RunLock!TypeOK, Threads, Lifecycle, lockVars, flags, game, actions
  <2>3. Lifecycle' /\ OverrunOnce'
    BY <1>3 DEF Unlock, Goto, Lifecycle, OverrunOnce, TypeOK, Threads,
        EmuSteps, lockVars, flags, game, actions
  <2>4. LockCounted'
    <3>1. Counted' = Counted
      BY <1>3 DEF Unlock, Goto, Counted, Inside, TypeOK, Threads,
          Lifecycle
    <3> QED
      BY <1>3, <3>1 DEF Unlock, Goto, LockCounted, TypeOK, Threads,
          Lifecycle, lockVars, flags, game, actions
  <2> QED
    BY <2>1, <2>2, <2>3, <2>4
<1>4. CASE UnlockCount(u)
  <2>0. u \in Counted /\ Cardinality(Counted) \in Nat \ {0}
    <3>1. u \in Counted
      BY <1>4 DEF UnlockCount, Goto, Counted
    <3> QED
      BY <3>1, CountedFinite, FS_EmptySet
  <2>1. TypeOK'
    BY <1>4, <2>0 DEF UnlockCount, Goto, TypeOK, RunLock!TypeOK, Threads,
        EmuSteps, UserSteps, lockVars, flags, game, actions, LockCounted
  <2>2. EmuDepth' /\ UserDepth' /\ RunLock!MutualExclusion'
    BY <1>4 DEF UnlockCount, Goto, RunLock!MutualExclusion, RunLock!Holds,
        EmuDepth, UserDepth, Inside, TypeOK, RunLock!TypeOK, Threads,
        Lifecycle, lockVars, flags, game, actions
  <2>3. Lifecycle' /\ OverrunOnce'
    BY <1>4 DEF UnlockCount, Goto, Lifecycle, OverrunOnce, TypeOK,
        Threads, EmuSteps, lockVars, flags, game, actions
  <2>4. LockCounted'
    <3>1. Counted' = Counted \ {u}
      BY <1>4 DEF UnlockCount, Goto, Counted, Inside, TypeOK, Threads
    <3>2. Cardinality(Counted') = Cardinality(Counted) - 1
      BY <2>0, <3>1, CountedFinite, FS_RemoveElement
    <3> QED
      BY <1>4, <3>2, CountedFinite DEF UnlockCount, Goto, LockCounted,
          TypeOK, Threads
  <2> QED
    BY <2>1, <2>2, <2>3, <2>4
<1>5. CASE Pause(u)
  <2>1. TypeOK'
    BY <1>5 DEF Pause, Goto, TypeOK, RunLock!TypeOK, Threads, EmuSteps,
        UserSteps, lockVars, flags, game, actions
  <2>2. EmuDepth' /\ UserDepth' /\ RunLock!MutualExclusion'
    BY <1>5 DEF Pause, Goto, RunLock!MutualExclusion, RunLock!Holds,
        EmuDepth, UserDepth, Inside, TypeOK, RunLock!TypeOK, Threads,
        Lifecycle, lockVars, flags, game, actions
  <2>3. Lifecycle' /\ OverrunOnce'
    BY <1>5 DEF Pause, Goto, Lifecycle, OverrunOnce, TypeOK, Threads,
        EmuSteps, lockVars, flags, game, actions
  <2>4. LockCounted'
    <3>1. Counted' = Counted
      BY <1>5 DEF Pause, Goto, Counted, Inside, TypeOK, Threads,
          Lifecycle
    <3> QED
      BY <1>5, <3>1 DEF Pause, Goto, LockCounted, TypeOK, Threads,
          Lifecycle, lockVars, flags, game, actions
  <2> QED
    BY <2>1, <2>2, <2>3, <2>4
<1>6. CASE Resume(u)
  <2>1. TypeOK'
    BY <1>6 DEF Resume, Goto, TypeOK, RunLock!TypeOK, Threads, EmuSteps,
        UserSteps, lockVars, flags, game, actions
  <2>2. EmuDepth' /\ UserDepth' /\ RunLock!MutualExclusion'
    BY <1>6 DEF Resume, Goto, RunLock!MutualExclusion, RunLock!Holds,
        EmuDepth, UserDepth, Inside, TypeOK, RunLock!TypeOK, Threads,
        Lifecycle, lockVars, flags, game, actions
  <2>3. Lifecycle' /\ OverrunOnce'
    BY <1>6 DEF Resume, Goto, Lifecycle, OverrunOnce, TypeOK, Threads,
        EmuSteps, lockVars, flags, game, actions
  <2>4. LockCounted'
    <3>1. Counted' = Counted
      BY <1>6 DEF Resume, Goto, Counted, Inside, TypeOK, Threads,
          Lifecycle
    <3> QED
      BY <1>6, <3>1 DEF Resume, Goto, LockCounted, TypeOK, Threads,
          Lifecycle, lockVars, flags, game, actions
  <2> QED
    BY <2>1, <2>2, <2>3, <2>4
<1>7. CASE PauseOnNextFrame(u)
  <2>1. TypeOK'
    BY <1>7 DEF PauseOnNextFrame, Goto, TypeOK, RunLock!TypeOK, Threads,
        EmuSteps, UserSteps, lockVars, flags, game, actions
  <2>2. EmuDepth' /\ UserDepth' /\ RunLock!MutualExclusion'
    BY <1>7 DEF PauseOnNextFrame, Goto, RunLock!MutualExclusion,
        RunLock!Holds, EmuDepth, UserDepth, Inside, TypeOK,
        RunLock!TypeOK, Threads, Lifecycle, lockVars, flags, game, actions
  <2>3. Lifecycle' /\ OverrunOnce'
    BY <1>7 DEF PauseOnNextFrame, Goto, Lifecycle, OverrunOnce, TypeOK,
        Threads, EmuSteps, lockVars, flags, game, actions
  <2>4. LockCounted'
    <3>1. Counted' = Counted
      BY <1>7 DEF PauseOnNextFrame, Goto, Counted, Inside, TypeOK,
          Threads, Lifecycle
    <3> QED
      BY <1>7, <3>1 DEF PauseOnNextFrame, Goto, LockCounted, TypeOK,
          Threads, Lifecycle, lockVars, flags, game, actions
  <2> QED
    BY <2>1, <2>2, <2>3, <2>4
<1>8. CASE UnpauseForFrame(u)
  <2>1. TypeOK'
    BY <1>8 DEF UnpauseForFrame, Goto, TypeOK, RunLock!TypeOK, Threads,
        EmuSteps, UserSteps, lockVars, flags, game, actions
  <2>2. EmuDepth' /\ UserDepth' /\ RunLock!MutualExclusion'
    BY <1>8 DEF UnpauseForFrame, Goto, RunLock!MutualExclusion,
        RunLock!Holds, EmuDepth, UserDepth, Inside, TypeOK,
        RunLock!TypeOK, Threads, Lifecycle, lockVars, flags, game, actions
  <2>3. Lifecycle' /\ OverrunOnce'
    BY <1>8 DEF UnpauseForFrame, Goto, Lifecycle, OverrunOnce, TypeOK,
        Threads, EmuSteps, lockVars, flags, game, actions
  <2>4. LockCounted'
    <3>1. Counted' = Counted
      BY <1>8 DEF UnpauseForFrame, Goto, Counted, Inside, TypeOK,
          Threads, Lifecycle
    <3> QED
      BY <1>8, <3>1 DEF UnpauseForFrame, Goto, LockCounted, TypeOK,
          Threads, Lifecycle, lockVars, flags, game, actions
  <2> QED
    BY <2>1, <2>2, <2>3, <2>4
<1>9. CASE PressAction(u)
  <2>1. TypeOK'
    BY <1>9 DEF PressAction, Goto, TypeOK, RunLock!TypeOK, Threads,
        EmuSteps, UserSteps, lockVars, flags, game, actions, SystemActions
  <2>2. EmuDepth' /\ UserDepth' /\ RunLock!MutualExclusion'
    BY <1>9 DEF PressAction, Goto, RunLock!MutualExclusion, RunLock!Holds,
        EmuDepth, UserDepth, Inside, TypeOK, RunLock!TypeOK, Threads,
        Lifecycle, lockVars, flags, game, actions
  <2>3. Lifecycle' /\ OverrunOnce'
    BY <1>9 DEF PressAction, Goto, Lifecycle, OverrunOnce, TypeOK,
        Threads, EmuSteps, lockVars, flags, game, actions
  <2>4. LockCounted'
    <3>1. Counted' = Counted
      BY <1>9 DEF PressAction, Goto, Counted, Inside, TypeOK, Threads,
          Lifecycle
    <3> QED
      BY <1>9, <3>1 DEF PressAction, Goto, LockCounted, TypeOK, Threads,
          Lifecycle, lockVars, flags, game, actions
  <2> QED
    BY <2>1, <2>2, <2>3, <2>4
<1>10. CASE StopBegin(u)
  <2>1. TypeOK'
    BY <1>10 DEF StopBegin, Goto, TypeOK, RunLock!TypeOK, Threads,
        EmuSteps, UserSteps, lockVars, flags, game, actions
  <2>2. EmuDepth' /\ UserDepth' /\ RunLock!MutualExclusion'
    BY <1>10 DEF StopBegin, Goto, RunLock!MutualExclusion, RunLock!Holds,
        EmuDepth, UserDepth, Inside, TypeOK, RunLock!TypeOK, Threads,
        Lifecycle, lockVars, flags, game, actions
  <2>3. Lifecycle' /\ OverrunOnce'
    BY <1>10 DEF StopBegin, Goto, Lifecycle, OverrunOnce, TypeOK, Threads,
        EmuSteps, lockVars, flags, game, actions
  <2>4. LockCounted'
    <3>1. Counted' = Counted
      BY <1>10 DEF StopBegin, Goto, Counted, Inside, TypeOK, Threads,
          Lifecycle
    <3> QED
      BY <1>10, <3>1 DEF StopBegin, Goto, LockCounted, TypeOK, Threads,
          Lifecycle, lockVars, flags, game, actions
  <2> QED
    BY <2>1, <2>2, <2>3, <2>4
<1>11. CASE LoadStop(u)
  <2>1. TypeOK'
    BY <1>11 DEF LoadStop, Goto, TypeOK, RunLock!TypeOK, Threads,
        EmuSteps, UserSteps, lockVars, flags, game, actions
  <2>2. EmuDepth' /\ UserDepth' /\ RunLock!MutualExclusion'
    BY <1>11 DEF LoadStop, Goto, RunLock!MutualExclusion, RunLock!Holds,
        EmuDepth, UserDepth, Inside, TypeOK, RunLock!TypeOK, Threads,
        Lifecycle, lockVars, flags, game, actions
  <2>3. Lifecycle' /\ OverrunOnce'
    BY <1>11 DEF LoadStop, Goto, Lifecycle, OverrunOnce, TypeOK, Threads,
        EmuSteps, lockVars, flags, game, actions
  <2>4. LockCounted'
    <3>1. Counted' = Counted
      BY <1>11 DEF LoadStop, Goto, Counted, Inside, TypeOK, Threads,
          Lifecycle
    <3> QED
      BY <1>11, <3>1 DEF LoadStop, Goto, LockCounted, TypeOK, Threads,
          Lifecycle, lockVars, flags, game, actions
  <2> QED
    BY <2>1, <2>2, <2>3, <2>4
<1>12. CASE Join(u)
  <2>1. TypeOK'
    BY <1>12 DEF Join, TypeOK, RunLock!TypeOK, Threads, EmuSteps,
        UserSteps, lockVars, flags, game, actions
  <2>2. EmuDepth' /\ UserDepth' /\ RunLock!MutualExclusion'
    BY <1>12 DEF Join, RunLock!MutualExclusion, RunLock!Holds, EmuDepth,
        UserDepth, Inside, TypeOK, RunLock!TypeOK, Threads, Lifecycle,
        lockVars, flags, game, actions
  <2>3. Lifecycle' /\ OverrunOnce'
    BY <1>12 DEF Join, Lifecycle, OverrunOnce, TypeOK, Threads, EmuSteps,
        lockVars, flags, game, actions
  <2>4. LockCounted'
    <3>1. Counted' = Counted
      BY <1>12 DEF Join, Counted, Inside, TypeOK, Threads, Lifecycle
    <3> QED
      BY <1>12, <3>1 DEF Join, LockCounted, TypeOK, Threads, Lifecycle,
          lockVars, flags, game, actions
  <2> QED
    BY <2>1, <2>2, <2>3, <2>4
<1>13. CASE Destroy(u)
  <2>1. TypeOK'
    BY <1>13 DEF Destroy, Goto, TypeOK, RunLock!TypeOK, Threads, EmuSteps,
        UserSteps, lockVars, flags, game, actions
  <2>2. EmuDepth' /\ UserDepth' /\ RunLock!MutualExclusion'
    BY <1>13 DEF Destroy, Goto, RunLock!MutualExclusion, RunLock!Holds,
        EmuDepth, UserDepth, Inside, TypeOK, RunLock!TypeOK, Threads,
        Lifecycle, lockVars, flags, game, actions
  <2>3. Lifecycle' /\ OverrunOnce'
    BY <1>13 DEF Destroy, Goto, Lifecycle, OverrunOnce, TypeOK, Threads,
        EmuSteps, lockVars, flags, game, actions
  <2>4. LockCounted'
    <3>1. Counted' = Counted
      BY <1>13 DEF Destroy, Goto, Counted, Inside, TypeOK, Threads,
          Lifecycle
    <3> QED
      BY <1>13, <3>1 DEF Destroy, Goto, LockCounted, TypeOK, Threads,
          Lifecycle, lockVars, flags, game, actions
  <2> QED
    BY <2>1, <2>2, <2>3, <2>4
<1>14. CASE LoadInit(u)
  <2>1. TypeOK'
    BY <1>14 DEF LoadInit, Goto, ResetState, TypeOK, RunLock!TypeOK,
        Threads, EmuSteps, UserSteps, lockVars, flags, game, actions,
        SystemActions
  <2>2. EmuDepth' /\ UserDepth' /\ RunLock!MutualExclusion'
    BY <1>14 DEF LoadInit, Goto, ResetState, RunLock!MutualExclusion,
        RunLock!Holds, EmuDepth, UserDepth, Inside, TypeOK,
        RunLock!TypeOK, Threads, Lifecycle, lockVars, flags, game, actions
  <2>3. Lifecycle' /\ OverrunOnce'
    BY <1>14 DEF LoadInit, Goto, ResetState, Lifecycle, OverrunOnce,
        TypeOK, Threads, EmuSteps, lockVars, flags, game, actions
  <2>4. LockCounted'
    <3>1. Counted' = Counted
      BY <1>14 DEF LoadInit, Goto, ResetState, Counted, Inside, TypeOK,
          Threads, Lifecycle
    <3> QED
      BY <1>14, <3>1 DEF LoadInit, Goto, ResetState, LockCounted,
          TypeOK, Threads, Lifecycle, lockVars, flags, game, actions
  <2> QED
    BY <2>1, <2>2, <2>3, <2>4
<1>15. CASE LoadLaunch(u)
  <2>1. TypeOK'
    <3>1. overrun' \in [Users -> 0..2] /\ op' \in [Users -> {"lock", "load", "stop"}]
      BY <1>15 DEF LoadLaunch, TypeOK
    <3>2. pc' \in [Threads -> EmuSteps \cup UserSteps]
      BY <1>15 DEF LoadLaunch, TypeOK, EmuSteps, UserSteps
    <3>3. pc'[Emu] \in EmuSteps /\ \A v \in Users : pc'[v] \in UserSteps
      BY <1>15 DEF LoadLaunch, TypeOK, EmuSteps, UserSteps, Threads
    <3> QED
      BY <1>15, <3>1, <3>2, <3>3 DEF LoadLaunch, TypeOK, RunLock!TypeOK,
          lockVars, flags, game, actions
  <2>2. EmuDepth' /\ UserDepth' /\ RunLock!MutualExclusion'
    BY <1>15 DEF LoadLaunch, RunLock!MutualExclusion, RunLock!Holds,
        EmuDepth, UserDepth, Inside, TypeOK, RunLock!TypeOK, Threads,
        Lifecycle, lockVars, flags, game, actions
  <2>3. Lifecycle' /\ OverrunOnce'
    BY <1>15 DEF LoadLaunch, Lifecycle, OverrunOnce, TypeOK, Threads,
        EmuSteps, lockVars, flags, game, actions
  <2>4. LockCounted'
    <3>1. Counted' = Counted
      BY <1>15 DEF LoadLaunch, Counted, Inside, TypeOK, Threads,
          Lifecycle
    <3> QED
      BY <1>15, <3>1 DEF LoadLaunch, LockCounted, TypeOK, Threads,
          Lifecycle, lockVars, flags, game, actions
  <2> QED
    BY <2>1, <2>2, <2>3, <2>4
<1> QED
  BY <1>1, <1>2, <1>3, <1>4, <1>5, <1>6, <1>7, <1>8, <1>9, <1>10, <1>11,
      <1>12, <1>13, <1>14, <1>15 DEF UserStep, UserStarts, UserGoesOn

(* The invariant ties the run lock, its counter, the flags and the life of *)
(* the emulation thread together, whatever the interleaving.               *)
THEOREM EmuInvariance == Spec => []EmuInv
<1>1. EmuInv /\ [Next]_vars => EmuInv'
  <2> SUFFICES ASSUME EmuInv, [Next]_vars PROVE EmuInv'
    OBVIOUS
  <2>1. CASE EmuStep
    BY <2>1, EmuStepInv
  <2>2. CASE \E u \in Users : UserStep(u)
    BY <2>2, UserStepInv
  <2>3. CASE UNCHANGED vars
    <3>1. Counted' = Counted
      BY <2>3 DEF vars, Counted, Inside
    <3>2. (TypeOK /\ RunLock!MutualExclusion)' /\ EmuDepth' /\ UserDepth'
      BY <2>3 DEF vars, lockVars, flags, game, actions, EmuInv, TypeOK, RunLock!TypeOK,
                  RunLock!MutualExclusion, RunLock!Holds, EmuDepth, UserDepth, Inside
    <3>3. Lifecycle' /\ LockCounted' /\ OverrunOnce'
      BY <2>3, <3>1 DEF vars, lockVars, flags, game, actions, EmuInv, Lifecycle,
                        LockCounted, OverrunOnce
    <3> QED
      BY <3>2, <3>3 DEF EmuInv
  <2> QED
    BY <2>1, <2>2, <2>3 DEF Next
<1> QED
  BY <1>1, InitEmuInv, PTL DEF Spec

(* No frame runs while a user is inside the run lock.                      *)
THEOREM ExclusionSafe == Spec => []UsersExcludeFrames
<1>1. EmuInv => UsersExcludeFrames
  BY DEF EmuInv, EmuDepth, UserDepth, TypeOK, RunLock!TypeOK, RunLock!MutualExclusion,
         RunLock!Holds, UsersExcludeFrames, FrameSteps, Threads
<1> QED
  BY <1>1, EmuInvariance, PTL

(* The emulation thread releases the run lock only when it holds it, and   *)
(* does not keep it when it ends.                                          *)
THEOREM ReleaseSafe == Spec => []ReleasesHeldLock
<1>1. EmuInv => ReleasesHeldLock
  BY DEF EmuInv, EmuDepth, TypeOK, RunLock!TypeOK, RunLock!Holds, ReleasesHeldLock, Threads
<1> QED
  BY <1>1, EmuInvariance, PTL

(* Frames run only while there is a console to run them on.                *)
THEOREM ConsoleSafe == Spec => []FrameHasConsole
<1>1. EmuInv => FrameHasConsole
  BY DEF EmuInv, Lifecycle, FrameHasConsole
<1> QED
  BY <1>1, EmuInvariance, PTL

(* Whoever asks for the run lock sees at most one more frame begin, and    *)
(* one for each load that is let in before it.                             *)
THEOREM OverrunSafe == Spec => []FramesOverrun
<1>1. EmuInv => FramesOverrun
  BY DEF EmuInv, OverrunOnce, FramesOverrun, TypeOK
<1> QED
  BY <1>1, EmuInvariance, PTL

(* The lock counter never drifts from the calls it counts.                 *)
THEOREM CounterSafe == Spec => []LockCounted
<1>1. EmuInv => LockCounted
  BY DEF EmuInv
<1> QED
  BY <1>1, EmuInvariance, PTL
=============================================================================
