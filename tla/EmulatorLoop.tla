----------------------------- MODULE EmulatorLoop -----------------------------
(***************************************************************************)
(* Core/Shared/Emulator: the emulation thread (Run, WaitForLock,           *)
(* WaitForPauseEnd, ProcessSystemActions) and the threads that call the    *)
(* emulator (Lock and Unlock, Pause, Resume, PauseOnNextFrame, LoadRom,    *)
(* Stop), with no debugger attached.  The emulation thread owns the run    *)
(* lock while it runs frames and gives it up between two frames when the   *)
(* lock counter says that somebody wants it, when emulation is paused and  *)
(* when it ends.                                                           *)
(*                                                                         *)
(* One action is one access to a shared member, together with the accesses *)
(* around it that no other thread can tell apart.  Nested acquisitions by  *)
(* the holder of the run lock (ResetDebugger inside LoadRom, Reset on the  *)
(* emulation thread) change nothing another thread can see and are part of *)
(* the action around them.                                                 *)
(***************************************************************************)
EXTENDS Naturals, FiniteSets

CONSTANTS
  Users,      (* The threads that call the emulator.                       *)
  Frontend,   (* The one of them that loads games and stops emulation.     *)
  Emu,        (* The emulation thread: the frontend starts one at a time.  *)
  Ops         (* The calls the users make.                                 *)

AllOps == {"lock", "load", "stop", "pause", "resume", "advance", "action"}

ASSUME UsersAssumption == IsFiniteSet(Users) /\ Frontend \in Users /\ Emu \notin Users
ASSUME OpsAssumption == Ops \subseteq AllOps

VARIABLES
  depth,            (* _runLock: how often each thread holds it.           *)
  lockCounter,      (* _lockCounter                                        *)
  stopFlag,         (* _stopFlag                                           *)
  paused,           (* _paused                                             *)
  pauseOnNextFrame, (* _pauseOnNextFrame                                   *)
  threadPaused,     (* _threadPaused                                       *)
  emuThread,        (* _emuThread is not null                              *)
  console,          (* _console is not null                                *)
  pending,          (* SystemActionManager's _needReset, _needPowerCycle   *)
  pressed,          (* its buttons, as the frame that ended polled them    *)
  pc,               (* what each thread does next                          *)
  op,               (* the call each user is in                            *)
  overrun           (* frames begun since a user asked for the lock, less  *)
                    (* the emulation threads started since                 *)

flags    == <<stopFlag, paused, pauseOnNextFrame, threadPaused>>
game     == <<emuThread, console>>
actions  == <<pending, pressed>>
lockVars == <<depth, lockCounter>>
vars == <<lockVars, flags, game, actions, pc, op, overrun>>

Threads == Users \cup {Emu}

RunLock == INSTANCE ReentrantLock

SystemActions == {"reset", "power"}

EmuSteps == {"off", "start", "clear", "loop", "frame", "actions", "cycle",
             "wait", "park", "spin", "unpark", "retake",
             "checkPause", "setPaused", "testPause",
             "unlockPause", "sleep", "wake", "wakeTry", "exit", "done"}

UserSteps == {"idle", "request", "acquire", "held", "uncount", "unpause",
              "join", "destroy", "init", "launch"}

TypeOK ==
  /\ RunLock!TypeOK
  /\ lockCounter \in Nat
  /\ stopFlag \in BOOLEAN /\ paused \in BOOLEAN
  /\ pauseOnNextFrame \in BOOLEAN /\ threadPaused \in BOOLEAN
  /\ emuThread \in BOOLEAN /\ console \in BOOLEAN
  /\ pending \subseteq SystemActions /\ pressed \subseteq SystemActions
  /\ pc \in [Threads -> EmuSteps \cup UserSteps]
  /\ pc[Emu] \in EmuSteps /\ \A u \in Users : pc[u] \in UserSteps
  /\ op \in [Users -> {"lock", "load", "stop"}]
  /\ overrun \in [Users -> 0..2]

Goto(t, from, to) ==
  /\ pc[t] = from
  /\ pc' = [pc EXCEPT ![t] = to]

(* Before the first game: the members as the constructor leaves them.      *)
Init ==
  /\ RunLock!Init
  /\ lockCounter = 0
  /\ stopFlag = FALSE /\ paused = FALSE
  /\ pauseOnNextFrame = FALSE /\ threadPaused = FALSE
  /\ emuThread = FALSE /\ console = FALSE
  /\ pending = {} /\ pressed = {}
  /\ pc = [t \in Threads |-> IF t = Emu THEN "off" ELSE "idle"]
  /\ op = [u \in Users |-> "lock"]
  /\ overrun = [u \in Users |-> 0]

(***************************************************************************)
(* The emulation thread: Run.  (Its early return for a null _console is    *)
(* not taken: FrameHasConsole.)                                            *)
(***************************************************************************)
RunTakeLock ==
  /\ Goto(Emu, "start", "clear")
  /\ RunLock!Acquire(Emu)
  /\ UNCHANGED <<lockCounter, flags, game, actions, op, overrun>>

(* TryAcquire(50) timed out, and emulation is being stopped.               *)
RunGiveUp ==
  /\ Goto(Emu, "start", "done")
  /\ ~ RunLock!FreeFor(Emu)
  /\ stopFlag
  /\ UNCHANGED <<lockVars, flags, game, actions, op, overrun>>

RunClearStop ==
  /\ Goto(Emu, "clear", "loop")
  /\ stopFlag' = FALSE
  /\ UNCHANGED <<lockVars, paused, pauseOnNextFrame, threadPaused, game, actions,
                 op, overrun>>

LoopEnd ==
  /\ Goto(Emu, "loop", "exit")
  /\ stopFlag
  /\ UNCHANGED <<lockVars, flags, game, actions, op, overrun>>

(* A frame begins.  "overrun" counts it for every user waiting for the run *)
(* lock; it only serves the property FramesOverrun, and stops at 2.        *)
FrameBegin ==
  /\ Goto(Emu, "loop", "frame")
  /\ ~ stopFlag
  /\ overrun' = [u \in Users |-> IF pc[u] = "acquire" /\ overrun[u] < 2
                                 THEN overrun[u] + 1 ELSE overrun[u]]
  /\ UNCHANGED <<lockVars, flags, game, actions, op>>

(* The frame polls the reset and power buttons.                            *)
FrameEnd ==
  /\ Goto(Emu, "frame", "actions")
  /\ pressed' = pending
  /\ UNCHANGED <<lockVars, flags, game, pending, op, overrun>>

(* The console threw: Run's catch blocks.                                  *)
FrameThrow ==
  /\ Goto(Emu, "frame", "loop")
  /\ stopFlag' = TRUE
  /\ UNCHANGED <<lockVars, paused, pauseOnNextFrame, threadPaused, game, actions,
                 op, overrun>>

(* SystemActionManager::ResetState                                         *)
ResetState == pending' = {} /\ pressed' = {}

(* ProcessSystemActions: nothing was pressed, or Reset, under a nested lock*)
NoAction ==
  /\ Goto(Emu, "actions", "wait")
  /\ pressed = {}
  /\ UNCHANGED <<lockVars, flags, game, actions, op, overrun>>

Reset ==
  /\ Goto(Emu, "actions", "wait")
  /\ "reset" \in pressed
  /\ ResetState
  /\ UNCHANGED <<lockVars, flags, game, op, overrun>>

(* PowerCycle: InternalLoadRom on the emulation thread, which neither stops*)
(* the thread nor loses the run lock.                                      *)
PowerCycleBegin ==
  /\ Goto(Emu, "actions", "cycle")
  /\ pressed = {"power"}
  /\ threadPaused' = TRUE
  /\ lockCounter' = lockCounter + 1
  /\ RunLock!Acquire(Emu)
  /\ UNCHANGED <<stopFlag, paused, pauseOnNextFrame, game, actions, op, overrun>>

PowerCycleEnd ==
  /\ Goto(Emu, "cycle", "wait")
  /\ threadPaused' = FALSE
  /\ lockCounter' = lockCounter - 1
  /\ RunLock!Release(Emu)
  /\ ResetState
  /\ UNCHANGED <<stopFlag, paused, pauseOnNextFrame, game, op, overrun>>

(* Mutants: an early return that keeps the lock counted, and one that      *)
(* leaves the buttons pressed.                                             *)
PowerCycleFailCounted ==
  /\ Goto(Emu, "cycle", "wait")
  /\ RunLock!Release(Emu)
  /\ ResetState
  /\ UNCHANGED <<lockCounter, flags, game, op, overrun>>

PowerCycleFailPressed ==
  /\ Goto(Emu, "cycle", "wait")
  /\ lockCounter' = lockCounter - 1
  /\ RunLock!Release(Emu)
  /\ UNCHANGED <<flags, game, actions, op, overrun>>

(* The file cannot be read any more: the early returns of InternalLoadRom  *)
(* leave _threadPaused as it is.                                           *)
PowerCycleFail ==
  /\ Goto(Emu, "cycle", "wait")
  /\ lockCounter' = lockCounter - 1
  /\ RunLock!Release(Emu)
  /\ ResetState
  /\ UNCHANGED <<flags, game, op, overrun>>

(***************************************************************************)
(* WaitForLock                                                             *)
(***************************************************************************)
(* Mutant: one caller that wants the lock does not count.                  *)
OneMayWait ==
  /\ Goto(Emu, "wait", "checkPause")
  /\ lockCounter <= 1
  /\ UNCHANGED <<lockVars, flags, game, actions, op, overrun>>

NobodyWaits ==
  /\ Goto(Emu, "wait", "checkPause")
  /\ lockCounter = 0
  /\ UNCHANGED <<lockVars, flags, game, actions, op, overrun>>

(* Mutant: the thread waits without giving up the lock.                    *)
KeepLock ==
  /\ Goto(Emu, "wait", "park")
  /\ lockCounter > 0
  /\ UNCHANGED <<lockVars, flags, game, actions, op, overrun>>

GiveUpLock ==
  /\ Goto(Emu, "wait", "park")
  /\ lockCounter > 0
  /\ RunLock!Release(Emu)
  /\ UNCHANGED <<lockCounter, flags, game, actions, op, overrun>>

Park ==
  /\ Goto(Emu, "park", "spin")
  /\ threadPaused' = TRUE
  /\ UNCHANGED <<lockVars, stopFlag, paused, pauseOnNextFrame, game, actions, op, overrun>>

SpinEnd ==
  /\ Goto(Emu, "spin", "unpark")
  /\ lockCounter = 0 \/ stopFlag
  /\ UNCHANGED <<lockVars, flags, game, actions, op, overrun>>

(* Mutant: the thread goes on without taking the lock again.               *)
UnparkUnlocked ==
  /\ Goto(Emu, "unpark", "checkPause")
  /\ ~ stopFlag
  /\ threadPaused' = FALSE
  /\ UNCHANGED <<lockVars, stopFlag, paused, pauseOnNextFrame, game, actions, op, overrun>>

Unpark ==
  /\ Goto(Emu, "unpark", "retake")
  /\ ~ stopFlag
  /\ threadPaused' = FALSE
  /\ UNCHANGED <<lockVars, stopFlag, paused, pauseOnNextFrame, game, actions, op, overrun>>

(* Emulation is being stopped: go on without the lock.                     *)
UnparkStopped ==
  /\ Goto(Emu, "unpark", "checkPause")
  /\ stopFlag
  /\ UNCHANGED <<lockVars, flags, game, actions, op, overrun>>

Retake ==
  /\ Goto(Emu, "retake", "checkPause")
  /\ RunLock!Acquire(Emu)
  /\ UNCHANGED <<lockCounter, flags, game, actions, op, overrun>>

(***************************************************************************)
(* The rest of an iteration of Run, and WaitForPauseEnd.                   *)
(***************************************************************************)
CheckPause ==
  /\ Goto(Emu, "checkPause", IF pauseOnNextFrame THEN "setPaused" ELSE "testPause")
  /\ pauseOnNextFrame' = FALSE
  /\ UNCHANGED <<lockVars, stopFlag, paused, threadPaused, game, actions, op, overrun>>

SetPaused ==
  /\ Goto(Emu, "setPaused", "testPause")
  /\ paused' = TRUE
  /\ UNCHANGED <<lockVars, stopFlag, pauseOnNextFrame, threadPaused, game, actions,
                 op, overrun>>

(* Mutant: the pause is not skipped when emulation is being stopped.       *)
TestPauseOnly ==
  /\ Goto(Emu, "testPause", IF paused THEN "unlockPause" ELSE "loop")
  /\ UNCHANGED <<lockVars, flags, game, actions, op, overrun>>

TestPause ==
  /\ Goto(Emu, "testPause", IF paused /\ ~ stopFlag THEN "unlockPause" ELSE "loop")
  /\ UNCHANGED <<lockVars, flags, game, actions, op, overrun>>

UnlockPause ==
  /\ Goto(Emu, "unlockPause", "sleep")
  /\ RunLock!Release(Emu)
  /\ UNCHANGED <<lockCounter, flags, game, actions, op, overrun>>

(* Mutant: the thread sleeps through the end of the pause.                 *)
WakeForAction ==
  /\ Goto(Emu, "sleep", "wake")
  /\ stopFlag \/ pending # {}
  /\ UNCHANGED <<lockVars, flags, game, actions, op, overrun>>

Wake ==
  /\ Goto(Emu, "sleep", "wake")
  /\ ~ paused \/ stopFlag \/ pending # {}
  /\ UNCHANGED <<lockVars, flags, game, actions, op, overrun>>

(* "while (!_stopFlag && !_runLock.TryAcquire(50))"                        *)
WakeTest ==
  /\ Goto(Emu, "wake", IF stopFlag THEN "loop" ELSE "wakeTry")
  /\ UNCHANGED <<lockVars, flags, game, actions, op, overrun>>

WakeTake ==
  /\ Goto(Emu, "wakeTry", "loop")
  /\ RunLock!Acquire(Emu)
  /\ UNCHANGED <<lockCounter, flags, game, actions, op, overrun>>

WakeTimeOut ==
  /\ Goto(Emu, "wakeTry", "wake")
  /\ ~ RunLock!FreeFor(Emu)
  /\ UNCHANGED <<lockVars, flags, game, actions, op, overrun>>

(* The end of Run: the lock may not be held if a stop interrupted a wait.  *)
RunExit ==
  /\ Goto(Emu, "exit", "done")
  /\ IF RunLock!Holds(Emu) THEN RunLock!Release(Emu) ELSE UNCHANGED depth
  /\ UNCHANGED <<lockCounter, flags, game, actions, op, overrun>>

(***************************************************************************)
(* Lock and Unlock, called through EmulatorLock by save states, cheats,    *)
(* netplay and so on, and by the first half of LoadRom and Stop.           *)
(***************************************************************************)
LockRequest(u) ==
  /\ \/ "lock" \in Ops /\ Goto(u, "idle", "acquire") /\ op' = [op EXCEPT ![u] = "lock"]
     \/ /\ "load" \in Ops /\ u = Frontend
        /\ Goto(u, "idle", "acquire") /\ op' = [op EXCEPT ![u] = "load"]
     \/ Goto(u, "request", "acquire") /\ UNCHANGED op
  /\ lockCounter' = lockCounter + 1
  /\ overrun' = [overrun EXCEPT ![u] = 0]
  /\ UNCHANGED <<depth, flags, game, actions>>

LockTake(u) ==
  /\ Goto(u, "acquire", "held")
  /\ RunLock!Acquire(u)
  /\ UNCHANGED <<lockCounter, flags, game, actions, op, overrun>>

(* Unlock, after whatever the caller did; LoadRom gets here without        *)
(* touching anything if it cannot load the file.                           *)
Unlock(u) ==
  /\ Goto(u, "held", "uncount")
  /\ RunLock!Release(u)
  /\ UNCHANGED <<lockCounter, flags, game, actions, op, overrun>>

UnlockCount(u) ==
  /\ Goto(u, "uncount", IF op[u] = "stop" THEN "join" ELSE "idle")
  /\ lockCounter' = lockCounter - 1
  /\ UNCHANGED <<depth, flags, game, actions, op, overrun>>

(***************************************************************************)
(* Pause, Resume, PauseOnNextFrame; SystemActionManager's Reset and        *)
(* PowerCycle.                                                             *)
(***************************************************************************)
Pause(u) ==
  /\ "pause" \in Ops
  /\ Goto(u, "idle", "idle")
  /\ paused' = TRUE
  /\ UNCHANGED <<lockVars, stopFlag, pauseOnNextFrame, threadPaused, game, actions,
                 op, overrun>>

Resume(u) ==
  /\ "resume" \in Ops
  /\ Goto(u, "idle", "idle")
  /\ paused' = FALSE
  /\ UNCHANGED <<lockVars, stopFlag, pauseOnNextFrame, threadPaused, game, actions,
                 op, overrun>>

PauseOnNextFrame(u) ==
  /\ "advance" \in Ops
  /\ Goto(u, "idle", "unpause")
  /\ pauseOnNextFrame' = TRUE
  /\ UNCHANGED <<lockVars, stopFlag, paused, threadPaused, game, actions, op, overrun>>

UnpauseForFrame(u) ==
  /\ Goto(u, "unpause", "idle")
  /\ paused' = FALSE
  /\ UNCHANGED <<lockVars, stopFlag, pauseOnNextFrame, threadPaused, game, actions,
                 op, overrun>>

PressAction(u) ==
  /\ "action" \in Ops
  /\ Goto(u, "idle", "idle")
  /\ \E a \in SystemActions \ pending : pending' = pending \cup {a}
  /\ UNCHANGED <<lockVars, flags, game, pressed, op, overrun>>

(***************************************************************************)
(* Stop and LoadRom.  Stop(true) sets the flag, takes and returns the lock *)
(* once (ResetDebugger) and joins the emulation thread without it; LoadRom *)
(* holds the lock throughout, and calls Stop itself.                       *)
(***************************************************************************)
StopBegin(u) ==
  /\ "stop" \in Ops /\ u = Frontend
  /\ Goto(u, "idle", "request")
  /\ op' = [op EXCEPT ![u] = "stop"]
  /\ stopFlag' = TRUE
  /\ UNCHANGED <<lockVars, paused, pauseOnNextFrame, threadPaused, game, actions, overrun>>

LoadStop(u) ==
  /\ op[u] = "load"
  /\ Goto(u, "held", "join")
  /\ stopFlag' = TRUE
  /\ UNCHANGED <<lockVars, paused, pauseOnNextFrame, threadPaused, game, actions,
                 op, overrun>>

(* Mutant: the thread is abandoned instead of joined.                      *)
Detach(u) ==
  /\ Goto(u, "join", "destroy")
  /\ emuThread' = FALSE
  /\ UNCHANGED <<lockVars, flags, console, actions, op, overrun>>

(* "if (_emuThread) { _emuThread->join(); _emuThread.release(); }"         *)
Join(u) ==
  /\ pc[u] = "join"
  /\ pc[Emu] \in {"off", "done"}
  /\ pc' = [pc EXCEPT ![u] = "destroy", ![Emu] = "off"]
  /\ emuThread' = FALSE
  /\ UNCHANGED <<lockVars, flags, console, actions, op, overrun>>

Destroy(u) ==
  /\ Goto(u, "destroy", IF op[u] = "load" THEN "init" ELSE "idle")
  /\ console' = FALSE
  /\ UNCHANGED <<lockVars, flags, emuThread, actions, op, overrun>>

(* InitConsole up to the GameLoaded notification.                          *)
LoadInit(u) ==
  /\ Goto(u, "init", "launch")
  /\ console' = TRUE
  /\ threadPaused' = TRUE
  /\ ResetState
  /\ UNCHANGED <<lockVars, stopFlag, paused, pauseOnNextFrame, emuThread, op, overrun>>

(* The notification returned: a new emulation thread is started, which     *)
(* does not look at the lock counter before its first frame.               *)
LoadLaunch(u) ==
  /\ pc[u] = "launch"
  /\ pc' = [pc EXCEPT ![u] = "held", ![Emu] = "start"]
  /\ threadPaused' = FALSE
  /\ stopFlag' = FALSE
  /\ emuThread' = TRUE
  /\ op' = [op EXCEPT ![u] = "lock"]
  /\ overrun' = [v \in Users |-> IF overrun[v] > 0 THEN overrun[v] - 1 ELSE 0]
  /\ UNCHANGED <<lockVars, paused, pauseOnNextFrame, console, actions>>

-----------------------------------------------------------------------------
EmuStep ==
  \/ RunTakeLock \/ RunGiveUp \/ RunClearStop \/ LoopEnd
  \/ FrameBegin \/ FrameEnd \/ FrameThrow
  \/ NoAction \/ Reset \/ PowerCycleBegin \/ PowerCycleEnd \/ PowerCycleFail
  \/ NobodyWaits \/ GiveUpLock \/ Park \/ SpinEnd \/ Unpark \/ UnparkStopped \/ Retake
  \/ CheckPause \/ SetPaused \/ TestPause \/ UnlockPause
  \/ Wake \/ WakeTest \/ WakeTake \/ WakeTimeOut \/ RunExit

(* What a user does on its own account, and what follows from it.          *)
UserStarts(u) ==
  \/ Pause(u) \/ Resume(u) \/ PauseOnNextFrame(u) \/ PressAction(u) \/ StopBegin(u)

UserGoesOn(u) ==
  \/ LockTake(u) \/ Unlock(u) \/ UnlockCount(u) \/ UnpauseForFrame(u)
  \/ LoadStop(u) \/ Join(u) \/ Destroy(u) \/ LoadInit(u) \/ LoadLaunch(u)

UserStep(u) == LockRequest(u) \/ UserStarts(u) \/ UserGoesOn(u)

Next == EmuStep \/ \E u \in Users : UserStep(u)

Spec == Init /\ [][Next]_vars

(* Threads are scheduled: the emulation thread keeps running, and a user   *)
(* finishes the call it is in, though it need not start another.           *)
Fairness ==
  /\ WF_vars(EmuStep)
  /\ \A u \in Users : WF_vars(UserGoesOn(u) \/ (pc[u] = "request" /\ LockRequest(u)))

FairSpec == Spec /\ Fairness

(* The state a successful LoadRom leaves behind, for runs without one.     *)
RunningInit ==
  /\ RunLock!Init
  /\ lockCounter = 0
  /\ stopFlag = FALSE /\ paused = FALSE
  /\ pauseOnNextFrame = FALSE /\ threadPaused = FALSE
  /\ emuThread = TRUE /\ console = TRUE
  /\ pending = {} /\ pressed = {}
  /\ pc = [t \in Threads |-> IF t = Emu THEN "start" ELSE "idle"]
  /\ op = [u \in Users |-> "lock"]
  /\ overrun = [u \in Users |-> 0]

RunningSpec == RunningInit /\ [][Next]_vars /\ Fairness

-----------------------------------------------------------------------------
(***************************************************************************)
(* Safety.                                                                 *)
(***************************************************************************)
FrameSteps == {"frame", "actions", "cycle"}

(* t is between Lock's acquisition of the run lock and Unlock's release.   *)
Inside(u) ==
  \/ pc[u] = "held"
  \/ pc[u] \in {"join", "destroy", "init", "launch"} /\ op[u] = "load"

(* While a user is inside the lock, no frame runs, no reset or power cycle *)
(* is processed, and no other user is inside: what EmulatorLock is for.    *)
UsersExcludeFrames ==
  \A u \in Users : Inside(u) =>
    /\ pc[Emu] \notin FrameSteps
    /\ \A v \in Users \ {u} : ~ Inside(v)

(* WaitForLock and WaitForPauseEnd release the run lock without looking,   *)
(* and SimpleLock::Release asserts that the caller holds it.  It does,     *)
(* although a stop lets the thread go on without the lock.                 *)
ReleasesHeldLock ==
  /\ pc[Emu] \in {"wait", "unlockPause"} => RunLock!Holds(Emu)
  /\ pc[Emu] \in {"off", "done"} => ~ RunLock!Holds(Emu)

(* A frame runs on a console, and only in the thread _emuThread stands for:*)
(* Stop and LoadRom destroy the console after the thread has ended.        *)
FrameHasConsole == pc[Emu] \notin {"off", "done"} => console /\ emuThread

(* A user that asked for the run lock sees at most one frame begin before  *)
(* it gets it, AcquireLock's "pause the emulation at the end of the next   *)
(* frame", and one more for each load that was let in before it: Run of    *)
(* the new emulation thread begins a frame before it looks at the counter. *)
FramesOverrun == \A u \in Users : pc[u] = "acquire" => overrun[u] <= 1

(* The lock counter is the number of calls that want or have the run lock. *)
Counted == {u \in Users : pc[u] \in {"acquire", "uncount"} \/ Inside(u)}

LockCounted ==
  lockCounter = Cardinality(Counted) + (IF pc[Emu] = "cycle" THEN 1 ELSE 0)

(***************************************************************************)
(* The inductive invariant.                                                *)
(***************************************************************************)
EmuDepth ==
  depth[Emu] \in
    CASE pc[Emu] = "cycle" -> {2}
      [] pc[Emu] \in {"clear", "frame", "actions", "wait", "unlockPause"} -> {1}
      [] pc[Emu] \in {"checkPause", "setPaused", "testPause", "loop", "exit"} ->
           IF stopFlag THEN {0, 1} ELSE {1}
      [] OTHER -> {0}

UserDepth == \A u \in Users : depth[u] = IF Inside(u) THEN 1 ELSE 0

(* Only the frontend starts and ends emulation threads.                    *)
Lifecycle ==
  /\ \A u \in Users :
       /\ op[u] # "lock" => u = Frontend
       /\ pc[u] = "request" => op[u] = "stop"
       /\ pc[u] \in {"join", "destroy"} => op[u] # "lock"
       /\ pc[u] \in {"init", "launch"} => op[u] = "load"
       /\ pc[u] \in {"destroy", "init", "launch"} => pc[Emu] = "off"
       /\ pc[u] = "launch" => console
  /\ emuThread <=> pc[Emu] # "off"
  /\ emuThread => console

(* Who has been overrun once will not be again: the thread is on its way   *)
(* to giving up the lock, or to its end.                                   *)
OverrunOnce ==
  \A u \in Users : pc[u] = "acquire" /\ overrun[u] > 0 =>
    /\ overrun[u] = 1
    /\ pc[Emu] \in {"off", "frame", "actions", "cycle", "wait", "park", "spin",
                     "unpark", "checkPause", "setPaused", "testPause", "loop",
                     "exit", "done"}
    /\ pc[Emu] \in {"unpark", "checkPause", "setPaused", "testPause", "loop"} => stopFlag

EmuInv ==
  /\ TypeOK
  /\ RunLock!MutualExclusion
  /\ EmuDepth
  /\ UserDepth
  /\ Lifecycle
  /\ LockCounted
  /\ OverrunOnce

(* IsThreadPaused: "Check if emulation thread currently paused"            *)
(* (Emulator.h:288), on which a debugger relies to read the console.       *)
ThreadPausedTruly == threadPaused /\ emuThread => pc[Emu] \notin {"frame", "actions"}

(* AcquireLock: "Acquire RAII emulator lock for safe state access"         *)
(* (Emulator.h:276): nobody else destroys the console inside the lock.     *)
ConsoleStaysInside ==
  [][\A u \in Users : (Inside(u) /\ ~ Destroy(u)) => (console => console')]_vars

(***************************************************************************)
(* Liveness.                                                               *)
(***************************************************************************)
(* As long as somebody waits for the run lock, somebody gets it: the       *)
(* emulation thread cannot keep its users out (one of two users can keep   *)
(* out the other, SimpleLock is not fair).                                 *)
LockGranted ==
  (\E u \in Users : pc[u] = "acquire") ~> (\E u \in Users : pc[u] = "held")

(* Once the users are quiet, a pause takes effect for good and a thread    *)
(* that is not paused runs frames: Run and WaitForPauseEnd miss no flag,   *)
(* and no reset or power cycle is attempted on every frame.                *)
UsersGoQuiet == <>[][EmuStep]_vars
Ended == pc[Emu] \in {"off", "done"}

PauseTakesEffect ==
  UsersGoQuiet => <>[](paused => pc[Emu] = "sleep" \/ Ended)

ResumeTakesEffect ==
  UsersGoQuiet => (~ paused ~> (pc[Emu] = "frame" \/ paused \/ Ended))

(* "4. Stop() - Stop emulation, destroy console" (Emulator.h:84): the call *)
(* comes back.                                                             *)
StopReturns ==
  \A u \in Users : pc[u] = "join" ~> pc[u] # "join"
=============================================================================
