---------------------------- MODULE DebuggerRequests ----------------------------
(***************************************************************************)
(* How the debugger comes and goes while other threads use it:             *)
(* Emulator's GetDebugger, InitDebugger, StopDebugger, ResetDebugger and   *)
(* BlockDebuggerRequests, DebuggerRequest, EmulatorLock, DebugBreakHelper, *)
(* and LoadRom and Stop as far as they replace the debugger.               *)
(*                                                                         *)
(* These calls nest, on any thread: todo[t] is what thread t still has to  *)
(* do, a sequence of steps that names of calls are expanded into, and      *)
(* held[t] what its destructors will give back, the last taken first.      *)
(*                                                                         *)
(* The emulation thread is as coarse as this allows: it stops between      *)
(* instructions for a break request and parks after a frame for the run    *)
(* lock.  DebuggerBreak has the stopping in detail, without the coming and *)
(* going, and EmulatorLoop the run lock and the races of a stop, which are *)
(* left out here: a thread that waits for the run lock sees _stopFlag.     *)
(***************************************************************************)
EXTENDS Integers, Sequences

CONSTANTS
  Users,    (* Threads other than the emulation thread.                    *)
  Calls,    (* The calls each thread makes, the emulation thread too.      *)
  Overlap,  (* Whether the debugger may be started or stopped while a game *)
            (* is loaded: see CallsEnd.                                    *)
  MaxCalls  (* Bounds the number of calls.                                 *)

(* "tool" is a call of the debugging tools, "state" an AcquireLock, and    *)
(* "nested" one within another; "init" is InitDebugger, "stop"             *)
(* StopDebugger, "load" LoadRom, and "power" the emulation thread's.       *)
AllCalls == {"tool", "state", "nested", "init", "stop", "load"}

Emu == "emulation thread"
Threads == Users \cup {Emu}

ASSUME ConstantsAssumption ==
  /\ Emu \notin Users /\ "free" \notin Users
  /\ Calls \in [Threads -> SUBSET (AllCalls \cup {"power"})]
  /\ Calls[Emu] \subseteq {"power"} /\ \A u \in Users : Calls[u] \subseteq AllCalls
  /\ Overlap \in BOOLEAN /\ MaxCalls \in Nat

VARIABLES
  emu,          (* where the emulation thread is                           *)
  seen,         (* the debugger WaitForLock has got                        *)
  todo, held,   (* see above                                               *)
  call, calls,  (* the call of each thread, and how many there were        *)
  debugger,     (* _debugger: 0 or its number                              *)
  made,         (* debuggers made so far                                   *)
  kept,         (* LoadRom's reference to the debugger it has unset        *)
  breakRequestCount, suspendRequestCount, (* the counts of that debugger   *)
  debugRequestCount,                      (* _debugRequestCount            *)
  blockDebuggerRequestCount,              (* _blockDebuggerRequestCount    *)
  debuggerLock, runLock,                  (* owner and depth               *)
  lockCounter, threadPaused, stopFlag,    (* as in Emulator                *)
  running,      (* there is a _console                                     *)
  thrown        (* loads that threw                                        *)

work     == <<todo, held, call, calls>>
counts   == <<breakRequestCount, suspendRequestCount>>
requests == <<debugRequestCount, blockDebuggerRequestCount>>
objects  == <<debugger, made, kept>>
flags    == <<threadPaused, stopFlag, running, thrown>>
locks    == <<debuggerLock, runLock, lockCounter>>
vars == <<emu, seen, work, counts, requests, objects, flags, locks>>

-----------------------------------------------------------------------------
(***************************************************************************)
(* The calls, as sequences of steps.                                       *)
(***************************************************************************)
StepNames ==
  {"dlock", "dunlock", "raise", "drain", "unblock", "test", "request", "autoRequest",
   "ifNone", "ifAny", "create", "remove", "suspend", "unset", "new", "acquire", "choose",
   "toolBreak", "break", "stopped", "lock", "take", "release", "lower", "keep", "outcome",
   "unsuspend", "decrement", "stopFlag", "join", "console", "gameLoaded", "loaded", "start"}

Block == <<"dlock", "raise", "drain", "dunlock">>

(* Mutant: the emulation goes on meanwhile.                                *)
ResetDebuggerRunning(t, new) == <<"suspend", new>>

ResetDebugger(t, new) ==
  IF t = Emu THEN <<"suspend", new>> ELSE <<"suspend", "acquire", new, "release">>

InitDebugger == <<"ifNone", "dlock", "create", "dunlock">>

GetDebugger(request) == <<"test", "dlock", request, "dunlock">>

BreakHelper == <<"break", "stopped">>

Lock == <<"lock", "take">>

StopDebugger == <<"ifAny", "dlock", "remove", "dunlock">>

Stop(t) == Block \o <<"stopFlag">> \o ResetDebugger(t, "unset")
                 \o <<"join", "unblock">>

LoadRom(t) ==
  Block \o <<"acquire", "dlock", "keep">> \o ResetDebugger(t, "unset") \o <<"outcome">>

Loads == {"load", "power"}

Steps(t, c) ==
  CASE c = "tool"   -> GetDebugger("autoRequest") \o <<"toolBreak", "release">>
    [] c = "state"  -> <<"acquire", "release">>
    [] c = "nested" -> <<"acquire", "acquire", "release", "release">>
    [] c = "init"   -> InitDebugger
    [] c = "stop"   -> StopDebugger
    [] OTHER        -> LoadRom(t)

Free == [owner |-> "free", depth |-> 0]

(* Init: a game runs, and no debugger or the first one has been made.      *)
Init ==
  /\ emu = "run" /\ seen = 0
  /\ todo = [t \in Threads |-> <<>>] /\ held = [t \in Threads |-> <<>>]
  /\ call = [t \in Threads |-> "none"] /\ calls = 0
  /\ debugger \in {0, 1} /\ made = debugger /\ kept = [t \in Threads |-> 0]
  /\ breakRequestCount = 0 /\ suspendRequestCount = 0
  /\ debugRequestCount = 0 /\ blockDebuggerRequestCount = 0
  /\ debuggerLock = Free /\ runLock = [owner |-> Emu, depth |-> 1] /\ lockCounter = 0
  /\ threadPaused = FALSE /\ stopFlag = FALSE /\ running = TRUE /\ thrown = 0

-----------------------------------------------------------------------------
(***************************************************************************)
(* A thread takes its next step s and goes on with the steps next, which   *)
(* go before the n-th of those that are left.                              *)
(***************************************************************************)
At(t, s) == todo[t] # <<>> /\ Head(todo[t]) = s

Continue(t, next, n) ==
  todo' = [todo EXCEPT ![t] = next \o SubSeq(@, n + 1, Len(@))]

Step(t, s) ==
  /\ At(t, s) /\ Continue(t, <<>>, 1)
  /\ UNCHANGED <<emu, seen, call, calls>>

(* A step that changes nothing but what is left to do.                     *)
Chooses(t, s, next, n) ==
  /\ At(t, s) /\ Continue(t, next, n)
  /\ UNCHANGED <<emu, seen, call, calls, held, counts, requests, objects, flags, locks>>

Hold(t, entry) == held' = [held EXCEPT ![t] = <<entry>> \o @]
GiveBack(t)    == held' = [held EXCEPT ![t] = Tail(@)]
NoRequest      == [kind |-> "none", debugger |-> 0]

Taken(lock, t) == [owner |-> t, depth |-> lock.depth + 1]
Given(lock) == IF lock.depth = 1 THEN Free ELSE [lock EXCEPT !.depth = @ - 1]
CanTake(lock, t) == lock.owner \in {"free", t}

Suspended == IF debugger # 0 THEN suspendRequestCount + 1 ELSE suspendRequestCount

(* SuspendDebugger(true)'s test; what it then lowers may be zero by that   *)
(* time (see Raise).  The count is unsigned: below zero stands for that    *)
(* number modulo 2^32, so that its "> 0" is "# 0" here.  The thread that   *)
(* tests has the run lock, and nobody else replaces the debugger.          *)
CountedAbove == debugger # 0 /\ suspendRequestCount # 0

(***************************************************************************)
(* BlockDebuggerRequests.                                                  *)
(***************************************************************************)
DLock(t) ==
  /\ Step(t, "dlock") /\ CanTake(debuggerLock, t)
  /\ debuggerLock' = Taken(debuggerLock, t)
  /\ UNCHANGED <<held, counts, requests, objects, flags, runLock, lockCounter>>

DUnlock(t) ==
  /\ Step(t, "dunlock")
  /\ debuggerLock' = Given(debuggerLock)
  /\ UNCHANGED <<held, counts, requests, objects, flags, runLock, lockCounter>>

(* The count, and ResetSuspendCounter.                                     *)
Raise(t) ==
  /\ Step(t, "raise")
  /\ blockDebuggerRequestCount' = blockDebuggerRequestCount + 1
  /\ suspendRequestCount' = IF debugger # 0 THEN 0 ELSE suspendRequestCount
  /\ UNCHANGED <<held, breakRequestCount, debugRequestCount, objects, flags, locks>>

(* Mutant: the pending requests are not waited for.                        *)
DrainNot(t) == Chooses(t, "drain", <<>>, 1)

Drain(t) == Chooses(t, "drain", <<>>, 1) /\ debugRequestCount = 0

Unblock(t) ==
  /\ Step(t, "unblock")
  /\ blockDebuggerRequestCount' = blockDebuggerRequestCount - 1
  /\ UNCHANGED <<held, counts, debugRequestCount, objects, flags, locks>>

(***************************************************************************)
(* GetDebugger and DebuggerRequest: both tests, InitDebugger for a tool,   *)
(* and the request, which counts even when there is no debugger.           *)
(***************************************************************************)
Answers == running /\ blockDebuggerRequestCount = 0

Refuses(t, n) ==
  /\ ~Answers /\ Continue(t, <<>>, n) /\ Hold(t, NoRequest)
  /\ UNCHANGED <<emu, seen, call, calls, counts, requests, objects, flags, locks>>

Test(t) ==
  \/ Answers /\ Chooses(t, "test", <<>>, 1)
  \/ At(t, "test") /\ Refuses(t, 4)

Request(t) ==
  \E s \in {"request", "autoRequest"} :
     \/ At(t, s) /\ Refuses(t, 1)
     \/ /\ Answers /\ debugger = 0 /\ s = "autoRequest"
        /\ Chooses(t, s, InitDebugger, 0)
     \/ /\ Answers /\ Step(t, s) /\ (debugger # 0 \/ s = "request")
        /\ Hold(t, [kind |-> "request", debugger |-> debugger])
        /\ debugRequestCount' = debugRequestCount + 1
        /\ UNCHANGED <<counts, blockDebuggerRequestCount, objects, flags, locks>>

(***************************************************************************)
(* InitDebugger and StopDebugger: a test, the lock, the test again, and    *)
(* ResetDebugger with all requests blocked.                                *)
(***************************************************************************)
IfNone(t) == Chooses(t, "ifNone", <<>>, IF debugger = 0 THEN 1 ELSE 4)
IfAny(t)  == Chooses(t, "ifAny", <<>>, IF debugger # 0 THEN 1 ELSE 4)

Replace(t, new) == Block \o ResetDebugger(t, new) \o <<"unblock">>

Create(t) == Chooses(t, "create", IF debugger = 0 THEN Replace(t, "new") ELSE <<>>, 1)
Remove(t) == Chooses(t, "remove", IF debugger # 0 THEN Replace(t, "unset") ELSE <<>>, 1)

(* ResetDebugger's SuspendDebugger for the debugger that goes, and the     *)
(* assignment.                                                             *)
Suspend(t) ==
  /\ Step(t, "suspend") /\ suspendRequestCount' = Suspended
  /\ UNCHANGED <<held, breakRequestCount, requests, objects, flags, locks>>

SetDebugger(t) ==
  \/ /\ Step(t, "unset") /\ debugger' = 0
     /\ UNCHANGED <<held, counts, requests, made, kept, flags, locks>>
  \/ /\ Step(t, "new") /\ debugger' = made + 1 /\ made' = made + 1
     /\ breakRequestCount' = 0 /\ suspendRequestCount' = 0
     /\ UNCHANGED <<held, requests, kept, flags, locks>>

(***************************************************************************)
(* EmulatorLock and DebugBreakHelper.                                      *)
(***************************************************************************)
Acquire(t) ==
  Chooses(t, "acquire",
          IF runLock.owner = t THEN Lock ELSE GetDebugger("request") \o <<"choose">>, 1)

(* Break when there is a debugger to do it, or else Lock.                  *)
Choose(t) ==
  /\ At(t, "choose")
  /\ LET got == Head(held[t])
     IN  IF got.debugger # 0
         THEN Chooses(t, "choose", BreakHelper, 1)
         ELSE /\ Continue(t, Lock, 1) /\ GiveBack(t)
              /\ debugRequestCount' = IF got.kind = "request" THEN debugRequestCount - 1
                                                              ELSE debugRequestCount
              /\ UNCHANGED <<emu, seen, call, calls, counts, blockDebuggerRequestCount,
                             objects, flags, locks>>

ToolBreak(t) ==
  Chooses(t, "toolBreak", IF Head(held[t]).debugger # 0 THEN BreakHelper ELSE <<>>, 1)

Break(t) ==
  /\ Step(t, "break") /\ breakRequestCount' = breakRequestCount + 1
  /\ UNCHANGED <<held, suspendRequestCount, requests, objects, flags, locks>>

IsExecutionStopped == emu \in {"stopped", "none"} \/ threadPaused

Stopped(t) == Chooses(t, "stopped", <<>>, 1) /\ (t = Emu \/ IsExecutionStopped)

(* Emulator::Lock.                                                         *)
LockCount(t) ==
  /\ Step(t, "lock")
  /\ suspendRequestCount' = Suspended /\ lockCounter' = lockCounter + 1
  /\ UNCHANGED <<held, breakRequestCount, requests, objects, flags, debuggerLock, runLock>>

Take(t) ==
  /\ Step(t, "take") /\ CanTake(runLock, t)
  /\ runLock' = Taken(runLock, t) /\ Hold(t, [kind |-> "lock", debugger |-> 0])
  /\ UNCHANGED <<counts, requests, objects, flags, debuggerLock, lockCounter>>

(* Mutant: a lock that was a break is unlocked, too.                       *)
GivesBackUnlocks(t, suspended) ==
  LET got == Head(held[t])
  IN  /\ GiveBack(t)
      /\ breakRequestCount' =
           IF got.debugger # 0 THEN breakRequestCount - 1 ELSE breakRequestCount
      /\ debugRequestCount' =
           IF got.kind = "request" THEN debugRequestCount - 1 ELSE debugRequestCount
      /\ suspendRequestCount' = suspended
      /\ runLock' = (IF got.kind = "lock" THEN Given(runLock) ELSE runLock)
      /\ lockCounter' = lockCounter - 1
      /\ UNCHANGED <<blockDebuggerRequestCount, objects, flags, debuggerLock>>

(* The destructors of DebugBreakHelper and DebuggerRequest, or Unlock.     *)
GivesBack(t, suspended) ==
  LET got == Head(held[t])
  IN  /\ GiveBack(t)
      /\ breakRequestCount' =
           IF got.debugger # 0 THEN breakRequestCount - 1 ELSE breakRequestCount
      /\ debugRequestCount' =
           IF got.kind = "request" THEN debugRequestCount - 1 ELSE debugRequestCount
      /\ suspendRequestCount' = suspended
      /\ runLock' = (IF got.kind = "lock" THEN Given(runLock) ELSE runLock)
      /\ lockCounter' = IF got.kind = "lock" THEN lockCounter - 1 ELSE lockCounter
      /\ UNCHANGED <<blockDebuggerRequestCount, objects, flags, debuggerLock>>

Lowers(t) == Head(held[t]).kind = "lock" /\ CountedAbove

(* Unlock unsuspends the debugger first, in two steps.                     *)
Release(t) ==
  \/ Chooses(t, "release", <<"lower">>, 1) /\ Lowers(t)
  \/ Step(t, "release") /\ ~Lowers(t) /\ GivesBack(t, suspendRequestCount)

Lower(t) == Step(t, "lower") /\ GivesBack(t, suspendRequestCount - 1)

Busy(t) == todo[t] # <<>>

(* What a call may overlap with (see Overlap); "listener" is one that a     *)
(* listener of GameLoaded makes.                                           *)
Allowed(t, c) ==
  LET others(cs) == \E o \in Threads \ {t} : Busy(o) /\ call[o] \in cs
  IN  Overlap \/ /\ c \in {"stop", "init"} => ~others(Loads)
                 /\ c = "tool" => ~others({"power"}) /\ (debugger # 0 \/ ~others({"load"}))
                 /\ c \in Loads => ~others({"stop", "init"})
                 /\ c = "power" => ~others({"tool"})
                 /\ c = "listener" => debugger # 0 \/ ~others({"tool"})

(***************************************************************************)
(* InternalLoadRom, with the run lock and the debugger lock.               *)
(***************************************************************************)
Keep(t) ==
  /\ Step(t, "keep") /\ kept' = [kept EXCEPT ![t] = debugger]
  /\ UNCHANGED <<held, counts, requests, debugger, made, flags, locks>>

(* Mutant: the early return forgets to unblock the requests.               *)
LoadFailsBlocked(t) ==
  /\ At(t, "outcome")
  /\ Continue(t, <<"dunlock", "release">>, 1)
  /\ debugger' = kept[t] /\ kept' = [kept EXCEPT ![t] = 0]
  /\ suspendRequestCount' = IF kept[t] # 0 THEN 0 ELSE suspendRequestCount
  /\ UNCHANGED <<emu, seen, call, calls, held, breakRequestCount, requests, made, flags,
                 locks>>

(* The old debugger is restored; after a power cycle, also unsuspended.    *)
LoadFails(t) ==
  /\ At(t, "outcome")
  /\ Continue(t, <<"unblock", "dunlock", "release">>
                 \o (IF t = Emu THEN <<"unsuspend">> ELSE <<>>), 1)
  /\ debugger' = kept[t] /\ kept' = [kept EXCEPT ![t] = 0]
  /\ suspendRequestCount' = IF kept[t] # 0 THEN 0 ELSE suspendRequestCount
  /\ UNCHANGED <<emu, seen, call, calls, held, breakRequestCount, requests, made, flags,
                 locks>>

Unsuspend(t) ==
  \/ Chooses(t, "unsuspend", IF CountedAbove THEN <<"decrement">> ELSE <<>>, 1)
  \/ /\ Step(t, "decrement") /\ suspendRequestCount' = suspendRequestCount - 1
     /\ UNCHANGED <<held, breakRequestCount, requests, objects, flags, locks>>

(* The old debugger goes; a game that was running is stopped first, except *)
(* by a power cycle.                                                       *)
LoadSucceeds(t) ==
  /\ At(t, "outcome")
  /\ Continue(t, (IF t = Emu THEN <<>> ELSE Stop(t)) \o <<"console">>
                 \o (IF kept[t] # 0 THEN InitDebugger ELSE <<>>)
                 \o <<"unblock", "dunlock", "gameLoaded", "loaded">>
                 \o (IF t = Emu THEN <<>> ELSE <<"start">>) \o <<"release">>, 1)
  /\ kept' = [kept EXCEPT ![t] = 0]
  /\ UNCHANGED <<emu, seen, call, calls, held, counts, requests, debugger, made, flags,
                 locks>>

(* LoadRom's catch: what is held is released, and the emulator is stopped. *)
(* On the emulation thread the stop would join itself: not modelled.       *)
LoadThrows(t) ==
  /\ At(t, "outcome") /\ t # Emu
  /\ Continue(t, <<"dunlock", "release">> \o Stop(t), 1)
  /\ kept' = [kept EXCEPT ![t] = 0] /\ thrown' = thrown + 1
  /\ UNCHANGED <<emu, seen, call, calls, held, counts, requests, debugger, made,
                 threadPaused, stopFlag, running, locks>>

StopFlag(t) ==
  /\ Step(t, "stopFlag") /\ stopFlag' = TRUE
  /\ UNCHANGED <<held, counts, requests, objects, threadPaused, running, thrown, locks>>

(* The emulation thread is joined, and the console goes.                   *)
Join(t) ==
  /\ At(t, "join") /\ Continue(t, <<>>, 1)
  /\ emu \in {"ended", "none"} /\ emu' = "none" /\ running' = FALSE
  /\ UNCHANGED <<seen, call, calls, held, counts, requests, objects, threadPaused, stopFlag,
                 thrown, locks>>

InitConsole(t) ==
  /\ Step(t, "console") /\ running' = TRUE
  /\ UNCHANGED <<held, counts, requests, objects, threadPaused, stopFlag, thrown, locks>>

(* Mutant: _threadPaused is not set before the notification.               *)
GameLoadedRunning(t) ==
  /\ At(t, "gameLoaded")
  /\ Continue(t, Steps(t, "tool"), 1)
  /\ UNCHANGED <<emu, seen, call, calls, held, counts, requests, objects, threadPaused,
                 stopFlag, running, thrown, locks>>

(* The notification GameLoaded, whose listeners may use the debugger.      *)
GameLoaded(t) ==
  /\ At(t, "gameLoaded")
  /\ \/ Continue(t, <<>>, 1)
     \/ Continue(t, Steps(t, "tool"), 1) /\ Allowed(t, "listener")
  /\ threadPaused' = TRUE
  /\ UNCHANGED <<emu, seen, call, calls, held, counts, requests, objects, stopFlag, running,
                 thrown, locks>>

Loaded(t) ==
  /\ Step(t, "loaded") /\ threadPaused' = FALSE
  /\ UNCHANGED <<held, counts, requests, objects, stopFlag, running, thrown, locks>>

Start(t) ==
  /\ At(t, "start") /\ Continue(t, <<>>, 1)
  /\ emu' = "start" /\ stopFlag' = FALSE
  /\ UNCHANGED <<seen, call, calls, held, counts, requests, objects, threadPaused, running,
                 thrown, locks>>

ThreadStep(t) ==
  \/ DLock(t) \/ DUnlock(t) \/ Raise(t) \/ Drain(t) \/ Unblock(t)
  \/ Test(t) \/ Request(t)
  \/ IfNone(t) \/ IfAny(t) \/ Create(t) \/ Remove(t) \/ Suspend(t) \/ SetDebugger(t)
  \/ Acquire(t) \/ Choose(t) \/ ToolBreak(t) \/ Break(t) \/ Stopped(t)
  \/ LockCount(t) \/ Take(t) \/ Release(t) \/ Lower(t)
  \/ Keep(t) \/ LoadFails(t) \/ Unsuspend(t) \/ LoadSucceeds(t) \/ LoadThrows(t)
  \/ StopFlag(t) \/ Join(t) \/ InitConsole(t) \/ GameLoaded(t) \/ Loaded(t) \/ Start(t)

Begin(t, c) ==
  /\ ~Busy(t) /\ calls < MaxCalls /\ Allowed(t, c)
  /\ calls' = calls + 1 /\ call' = [call EXCEPT ![t] = c]
  /\ Continue(t, Steps(t, c), 0)

Call(u, c) ==
  /\ c \in Calls[u] /\ Begin(u, c)
  /\ UNCHANGED <<emu, seen, held, counts, requests, objects, flags, locks>>

-----------------------------------------------------------------------------
(***************************************************************************)
(* The emulation thread.                                                   *)
(***************************************************************************)
EmuGoto(from, to) == emu = from /\ emu' = to

EmuStart ==
  \/ /\ EmuGoto("start", "run") /\ ~stopFlag
     /\ CanTake(runLock, Emu) /\ runLock' = Taken(runLock, Emu)
     /\ UNCHANGED <<seen, work, counts, requests, objects, flags, debuggerLock, lockCounter>>
  \/ /\ EmuGoto("start", "ended") /\ stopFlag
     /\ UNCHANGED <<seen, work, counts, requests, objects, flags, locks>>

BreakDue == debugger # 0 /\ breakRequestCount > 0 /\ suspendRequestCount = 0

(* Between two instructions: SleepUntilResume, or on to the frame's end.   *)
EmuRuns ==
  /\ EmuGoto("run", IF BreakDue THEN "stopped" ELSE "actions")
  /\ UNCHANGED <<seen, work, counts, requests, objects, flags, locks>>

EmuResumes ==
  /\ EmuGoto("stopped", "run") /\ breakRequestCount = 0
  /\ UNCHANGED <<seen, work, counts, requests, objects, flags, locks>>

(* ProcessSystemActions: a power cycle, which says it is paused.           *)
PowerCycle ==
  /\ EmuGoto("actions", "actions") /\ "power" \in Calls[Emu] /\ Begin(Emu, "power")
  /\ threadPaused' = TRUE
  /\ UNCHANGED <<seen, held, counts, requests, objects, stopFlag, running, thrown, locks>>

(* WaitForLock: nobody waits, or the run lock is released.                 *)
EmuGoesOn ==
  /\ EmuGoto("actions", IF stopFlag THEN "ended" ELSE "run")
  /\ ~Busy(Emu) /\ lockCounter = 0
  /\ runLock' = IF stopFlag THEN Given(runLock) ELSE runLock
  /\ UNCHANGED <<seen, work, counts, requests, objects, flags, debuggerLock, lockCounter>>

EmuParks ==
  /\ EmuGoto("actions", "parked") /\ ~Busy(Emu) /\ lockCounter > 0
  /\ runLock' = Given(runLock) /\ threadPaused' = TRUE
  /\ UNCHANGED <<seen, work, counts, requests, objects, stopFlag, running, thrown,
                 debuggerLock, lockCounter>>

(* The first loop is left, and _debugger is read.                          *)
EmuWakes ==
  /\ EmuGoto("parked", "waked") /\ (lockCounter = 0 \/ stopFlag)
  /\ seen' = debugger
  /\ UNCHANGED <<work, counts, requests, objects, flags, locks>>

(* The second loop is left: the run lock is taken, or the thread ends.     *)
EmuReturns ==
  \/ /\ EmuGoto("waked", "run") /\ ~stopFlag
     /\ seen \in {0, debugger} => seen = 0 \/ breakRequestCount = 0
     /\ CanTake(runLock, Emu) /\ runLock' = Taken(runLock, Emu)
     /\ threadPaused' = FALSE /\ seen' = 0
     /\ UNCHANGED <<work, counts, requests, objects, stopFlag, running, thrown,
                    debuggerLock, lockCounter>>
  \/ /\ EmuGoto("waked", "ended") /\ stopFlag /\ seen' = 0
     /\ UNCHANGED <<work, counts, requests, objects, flags, locks>>

EmuStep ==
  EmuStart \/ EmuRuns \/ EmuResumes \/ EmuGoesOn \/ EmuParks \/ EmuWakes \/ EmuReturns

Next ==
  \/ EmuStep \/ PowerCycle
  \/ \E t \in Threads : ThreadStep(t)
  \/ \E u \in Users : \E c \in Calls[u] : Call(u, c)

Spec == Init /\ [][Next]_vars

(* Every thread is scheduled; nobody has to call anything.                 *)
FairSpec ==
  /\ Spec /\ WF_vars(EmuStep) /\ \A t \in Threads : WF_vars(ThreadStep(t))

-----------------------------------------------------------------------------
(***************************************************************************)
(* Safety.                                                                 *)
(***************************************************************************)
LockType == [owner : Threads \cup {"free"}, depth : Nat]

(* Every variable has its type; no count falls below zero but that of the  *)
(* suspensions (see NotWrapped); a lock is free or held with some depth,   *)
(* and what a thread holds says who holds the run lock.                    *)
TypeOK ==
  /\ emu \in {"start", "run", "stopped", "actions", "parked", "waked", "ended", "none"}
  /\ seen \in 0..made /\ debugger \in 0..made /\ made \in Nat
  /\ todo \in [Threads -> Seq(StepNames)] /\ calls \in 0..MaxCalls
  /\ call \in [Threads -> AllCalls \cup {"power", "none"}]
  /\ kept \in [Threads -> 0..made]
  /\ \A t \in Threads : \A i \in DOMAIN held[t] :
        held[t][i] \in [kind : {"none", "request", "lock"}, debugger : 0..made]
  /\ {breakRequestCount, debugRequestCount, blockDebuggerRequestCount,
      lockCounter, thrown} \subseteq Nat
  /\ suspendRequestCount \in Int
  /\ {debuggerLock, runLock} \subseteq LockType
  /\ \A lock \in {debuggerLock, runLock} : lock.owner = "free" <=> lock.depth = 0
  /\ {threadPaused, stopFlag, running} \subseteq BOOLEAN
  /\ \A u \in Users :
        (\E i \in DOMAIN held[u] : held[u][i].kind = "lock") <=> runLock.owner = u

(* The debugger of a DebuggerRequest is the emulator's for as long as the  *)
(* request lives: no tool works on a debugger that has been replaced.      *)
RequestsKeepDebugger ==
  \A t \in Threads : \A i \in DOMAIN held[t] :
     held[t][i].kind = "request" => held[t][i].debugger = debugger

(* The emulation thread uses _debugger in each instruction without a lock: *)
(* it only changes while that thread is between frames, or is the one that *)
(* changes it.                                                             *)
DebuggerChangedParked ==
  [][debugger' # debugger =>
       emu \in {"start", "parked", "waked", "ended", "none"} \/ (emu = "actions" /\ Busy(Emu))]_vars

(* On every path, failures included, the counts and the locks come back:   *)
(* when nobody is in a call, no request is counted, none is blocked -- but *)
(* for each load that threw -- and the debugger is not suspended, also     *)
(* when its count has been below zero (see NotWrapped).                    *)
CountsReturn ==
  (\A t \in Threads : ~Busy(t)) =>
     /\ debugRequestCount = 0 /\ blockDebuggerRequestCount = thrown
     /\ lockCounter = 0 /\ debuggerLock = Free /\ runLock.owner \in {"free", Emu}
     /\ debugger # 0 => breakRequestCount = 0 /\ suspendRequestCount = 0

(***************************************************************************)
(* Liveness.                                                               *)
(***************************************************************************)
(* Every call comes back: no thread waits for the run lock, the debugger   *)
(* lock, a break or the end of the requests for ever.  It takes callers    *)
(* that do not lock twice, and Overlap = FALSE: LoadRom takes the debugger *)
(* lock when it has the run lock -- a power cycle, for BlockDebugger-      *)
(* Requests already -- and StopDebugger and InitDebugger, which the first  *)
(* tool calls, take the run lock when they have the debugger lock.         *)
CallsEnd == \A t \in Threads : Busy(t) ~> ~Busy(t)

-----------------------------------------------------------------------------
(* Violated with nested calls (see MCDebuggerNested.cfg).  Emulator.cpp:   *)
(* 1093, in BlockDebuggerRequests: "Ensure any thread waiting on           *)
(* DebugBreakHelper is allowed to resume/finish (prevent deadlock)": who   *)
(* waits or is inside when requests are blocked gets out again.            *)
RequestsFinish ==
  \A t \in Threads :
     (blockDebuggerRequestCount > 0 /\ held[t] # <<>> /\ held[t][Len(held[t])].kind = "request")
       ~> held[t] = <<>>

(* Violated (see MCDebuggerSerialized.cfg).  EmulatorLock.h:33: "Thread    *)
(* safety: Ensures serialized access to emulator state."                   *)
LocksSerialized ==
  \A t, u \in Threads :
     /\ call[t] = "state" /\ todo[t] = <<"release">>
     /\ call[u] = "state" /\ todo[u] = <<"release">>
     => t = u

(* Violated (see MCDebuggerWrap.cfg): between the test and the decrement   *)
(* of SuspendDebugger(true), whose "unexpected debugger suspend::release   *)
(* call" (Debugger.cpp:1038) is to keep the count from going below zero,   *)
(* another thread resets it.  CountsReturn says that this passes: whoever  *)
(* resets it goes on to replace the debugger, or to reset it again.        *)
NotWrapped == suspendRequestCount >= 0
===============================================================================
