----------------------------- MODULE DebuggerBreak -----------------------------
(***************************************************************************)
(* Core/Debugger/Debugger and DebugBreakHelper, Core/Shared/EmulatorLock:  *)
(* how other threads stop an emulation that has a debugger.  A call of a   *)
(* debugging tool raises _breakRequestCount and spins until the execution  *)
(* is stopped between two instructions; Emulator::Lock suspends the        *)
(* debugger, so that a stopped emulation runs on to the end of its frame,  *)
(* and takes the run lock there; the user pauses, steps and resumes.       *)
(*                                                                         *)
(* The emulation thread runs frames of FrameSize instructions, with the    *)
(* hook ProcessInstruction before each of them and WaitForLock after the   *)
(* frame.  One main CPU and one debugger, which stays; breakpoints, which  *)
(* stop like the scanline that is stepped to, and stepping back are left   *)
(* out.                                                                    *)
(***************************************************************************)
EXTENDS Integers, FiniteSets

CONSTANTS
  Users,      (* Threads other than the emulation thread.                  *)
  FrameSize,  (* Instructions of a frame.                                  *)
  Calls,      (* The calls each user makes.                                *)
  MaxCalls    (* Bounds the number of calls.                               *)

(* "tool" is a DebugBreakHelper, "state" an EmulatorLock that allows the   *)
(* debugger lock, "lock" one that does not; "pause" and "frame" are Step   *)
(* for one instruction and to a scanline, "run" is Run and "reset" is     *)
(* SystemActionManager::Reset.                                             *)
AllCalls == {"tool", "state", "lock", "pause", "frame", "run", "reset"}

Emu == "emulation thread"

ASSUME ConstantsAssumption ==
  /\ IsFiniteSet(Users) /\ FrameSize \in Nat \ {0} /\ MaxCalls \in Nat
  /\ Calls \in [Users -> SUBSET AllCalls]
  /\ Emu \notin Users /\ "free" \notin Users

VARIABLES
  emu,                 (* where the emulation thread is                    *)
  site,                (* what called SleepUntilResume: the hook between   *)
                       (* instructions, an access or a break in one        *)
  executed,            (* instructions begun in this frame                 *)
  executionStopped,    (* _executionStopped                                *)
  waitForBreakResume,  (* _waitForBreakResume                              *)
  breakRequestCount,   (* _breakRequestCount                               *)
  suspendRequestCount, (* _suspendRequestCount                             *)
  step,                (* the StepRequest of the main CPU                  *)
  threadPaused, lockCounter, runLock,          (* those of Emulator        *)
  needReset,           (* _needReset                                       *)
  pressed,             (* the reset button, as polled in this frame        *)
  pc, call,            (* where each user is in which call                 *)
  calls,               (* calls begun                                      *)
  overrun,             (* instructions begun since a user was let in, up   *)
                       (* to 2                                             *)
  suspended,           (* users let in, and then stopping was refused      *)
  erased,              (* users whose suspension a reset has taken away    *)
  late,                (* a reset request suspended after its reset        *)
  asked                (* the last stop was one the user asked for         *)

stopping == <<executionStopped, waitForBreakResume, step>>
counts   == <<breakRequestCount, suspendRequestCount>>
runlock  == <<threadPaused, lockCounter, runLock>>
reset    == <<needReset, pressed>>
users    == <<pc, call, calls>>
history  == <<overrun, suspended, erased, late>>
vars == <<emu, site, executed, stopping, counts, runlock, reset, users, history, asked>>

-----------------------------------------------------------------------------
(***************************************************************************)
(* StepRequest: count is StepCount (0 when there is none), scanline that   *)
(* BreakScanline is set, needed BreakNeeded, source is Source; user tells  *)
(* whether the user asked for the step.                                    *)
(***************************************************************************)
Sources == {"Unspecified", "Pause", "PpuStep", "InternalOperation"}
StepRequests == [count : {0, 1}, scanline : BOOLEAN, needed : BOOLEAN,
                 source : Sources, user : BOOLEAN]

NoStep == [count |-> 0, scanline |-> FALSE, needed |-> FALSE,
           source |-> "Unspecified", user |-> FALSE]

StepFor(u) ==
  CASE call[u] = "pause" ->
         [NoStep EXCEPT !.count = 1, !.source = "Pause", !.user = TRUE]
    [] call[u] = "frame" ->
         [NoStep EXCEPT !.scanline = TRUE, !.source = "PpuStep", !.user = TRUE]
    [] OTHER ->
         [NoStep EXCEPT !.count = 1, !.source = "InternalOperation",
                        !.user = waitForBreakResume]

Init ==
  /\ emu = "frame" /\ site = "between" /\ executed = 0
  /\ executionStopped = FALSE /\ waitForBreakResume = FALSE /\ step = NoStep
  /\ breakRequestCount = 0 /\ suspendRequestCount = 0
  /\ threadPaused = FALSE /\ lockCounter = 0 /\ runLock = Emu
  /\ needReset = FALSE /\ pressed = FALSE
  /\ pc = [u \in Users |-> "idle"] /\ call = [u \in Users |-> "none"] /\ calls = 0
  /\ overrun = [u \in Users |-> 0] /\ suspended = {} /\ erased = {}
  /\ late = FALSE /\ asked = TRUE

-----------------------------------------------------------------------------
(***************************************************************************)
(* The emulation thread.                                                   *)
(***************************************************************************)
EmuGoto(from, to) == emu = from /\ emu' = to

(* A step that only reads what it tests.                                   *)
EmuTests(from, to) ==
  /\ EmuGoto(from, to)
  /\ UNCHANGED <<site, executed, stopping, counts, runlock, reset, users, history, asked>>

(* The users that are let in while the emulation is stopped.               *)
LetIn == {u \in Users : pc[u] = "inside" /\ call[u] \in {"tool", "state"}}

(* A frame begins and its input is polled.                                 *)
FrameBegin ==
  /\ EmuGoto("frame", "hook")
  /\ executed' = 0 /\ pressed' = needReset
  /\ UNCHANGED <<site, stopping, counts, runlock, needReset, users, history, asked>>

(* Mutant: the break requests are not looked at.                           *)
ProcessInstructionUnbroken ==
  LET due == step.needed \/ step.count = 1
  IN  /\ emu = "hook"
      /\ step' = [step EXCEPT !.count = 0, !.needed = due]
      /\ site' = "between"
      /\ asked' = ((due /\ step.user) \/ waitForBreakResume)
      /\ emu' = IF waitForBreakResume \/ due THEN "sleep" ELSE "exec"
      /\ UNCHANGED <<executed, executionStopped, waitForBreakResume, counts, runlock,
                     reset, users, history>>

(* The hook: StepRequest::ProcessCpuExec, then ProcessBreakConditions.     *)
ProcessInstruction ==
  LET due == step.needed \/ step.count = 1
  IN  /\ emu = "hook"
      /\ step' = [step EXCEPT !.count = 0, !.needed = due]
      /\ site' = "between"
      /\ asked' = ((due /\ step.user) \/ waitForBreakResume)
      /\ emu' = IF breakRequestCount > 0 \/ waitForBreakResume \/ due
                THEN "sleep" ELSE "exec"
      /\ UNCHANGED <<executed, executionStopped, waitForBreakResume, counts, runlock,
                     reset, users, history>>

(* The instruction begins.                                                 *)
Exec ==
  /\ EmuGoto("exec", "mid")
  /\ executed' = executed + 1
  /\ overrun' = [u \in Users |-> IF u \in LetIn /\ overrun[u] < 2 THEN overrun[u] + 1
                                                               ELSE overrun[u]]
  /\ UNCHANGED <<site, stopping, counts, runlock, reset, users, suspended, erased, late,
                 asked>>

(* Inside the last instruction of a frame the scanline is reached.         *)
ScanlineReached == step.scanline /\ executed = FrameSize

(* The scanline that is stepped to stops the instruction; so would a       *)
(* breakpoint.                                                             *)
Break ==
  /\ EmuGoto("mid", "sleep")
  /\ ScanlineReached
  /\ site' = "break" /\ asked' = TRUE
  /\ UNCHANGED <<executed, stopping, counts, runlock, reset, users, history>>

(* A memory access of the instruction calls ProcessBreakConditions again.  *)
BreakAgain ==
  /\ EmuGoto("mid", "sleep")
  /\ breakRequestCount > 0 \/ waitForBreakResume \/ step.needed
  /\ site' = "access" /\ asked' = ((step.needed /\ step.user) \/ waitForBreakResume)
  /\ UNCHANGED <<executed, stopping, counts, runlock, reset, users, history>>

NoBreak == EmuTests("mid", "end") /\ ~ScanlineReached

InstructionEnd ==
  /\ emu = "end"
  /\ emu' = IF executed < FrameSize THEN "hook" ELSE "actions"
  /\ UNCHANGED <<site, executed, stopping, counts, runlock, reset, users, history, asked>>

(* SleepUntilResume and its two early returns.                             *)
SleepReturn == emu' = IF site = "between" THEN "exec" ELSE "end"

SleepSuspended ==
  /\ emu = "sleep" /\ suspendRequestCount > 0
  /\ SleepReturn
  /\ suspended' = suspended \cup LetIn
  /\ UNCHANGED <<site, executed, stopping, counts, runlock, reset, users, overrun,
                 erased, late, asked>>

SleepTest == EmuTests("sleep", "sleepable") /\ suspendRequestCount = 0

SleepWrongPlace ==
  /\ emu = "sleepable" /\ breakRequestCount > 0 /\ site # "between"
  /\ SleepReturn
  /\ UNCHANGED <<site, executed, stopping, counts, runlock, reset, users, history, asked>>

SleepBegin ==
  /\ EmuGoto("sleepable", "notify")
  /\ breakRequestCount = 0 \/ site = "between"
  /\ executionStopped' = TRUE
  /\ UNCHANGED <<site, executed, waitForBreakResume, step, counts, runlock, reset,
                 users, history, asked>>

(* The source of the break is not Unspecified.                             *)
HasSource == site = "break" \/ step.source # "Unspecified"

CodeBreak ==
  /\ EmuGoto("notify", "asleep")
  /\ HasSource \/ breakRequestCount = 0
  /\ waitForBreakResume' = TRUE
  /\ UNCHANGED <<site, executed, executionStopped, step, counts, runlock, reset, users,
                 history, asked>>

NoCodeBreak == EmuTests("notify", "asleep") /\ ~HasSource /\ breakRequestCount > 0

(* Mutant: the suspension is not looked at.                                *)
ResumedUnsuspended == EmuTests("asleep", "resumed") /\ ~waitForBreakResume

(* The loop's condition: its first half, then _breakRequestCount.          *)
Resumed ==
  /\ EmuTests("asleep", "resumed")
  /\ ~waitForBreakResume \/ suspendRequestCount > 0


StillRequested == EmuTests("resumed", "asleep") /\ breakRequestCount > 0

(* Mutant: the loop ends in spite of a break request.                      *)
WakeUpAnyway == EmuTests("resumed", "awake")

WakeUp == EmuTests("resumed", "awake") /\ breakRequestCount = 0

SleepEnd ==
  /\ emu = "awake"
  /\ executionStopped' = FALSE
  /\ SleepReturn
  /\ UNCHANGED <<site, executed, waitForBreakResume, step, counts, runlock, reset,
                 users, history, asked>>

(***************************************************************************)
(* After the frame: ProcessSystemActions, where Reset locks and unlocks    *)
(* the emulator on its own thread, and WaitForLock.                        *)
(***************************************************************************)
NoReset == EmuTests("actions", "waitlock") /\ ~pressed

Reset ==
  /\ EmuGoto("actions", "resetted")
  /\ pressed
  /\ needReset' = FALSE /\ pressed' = FALSE
  /\ UNCHANGED <<site, executed, stopping, counts, runlock, users, history, asked>>

(* The users between the two halves of a suspension.                       *)
Suspending == {u \in Users : call[u] = "lock" /\ pc[u] \in {"count", "acquire", "inside"}}

ResetSuspendCounter ==
  /\ EmuGoto("resetted", "waitlock")
  /\ suspendRequestCount' = 0
  /\ erased' = erased \cup Suspending /\ late' = FALSE
  /\ UNCHANGED <<site, executed, stopping, breakRequestCount, runlock, reset, users,
                 overrun, suspended, asked>>

NobodyWaits == EmuTests("waitlock", "frame") /\ lockCounter = 0

GiveUpLock ==
  /\ EmuGoto("waitlock", "park")
  /\ lockCounter > 0
  /\ runLock' = "free"
  /\ UNCHANGED <<site, executed, stopping, counts, threadPaused, lockCounter, reset,
                 users, history, asked>>

Park ==
  /\ EmuGoto("park", "parked")
  /\ threadPaused' = TRUE
  /\ UNCHANGED <<site, executed, stopping, counts, lockCounter, runLock, reset, users,
                 history, asked>>

NobodyLocks == EmuTests("parked", "parkedBreak") /\ lockCounter = 0

NobodyBreaks == EmuTests("parkedBreak", "unpark") /\ breakRequestCount = 0

Unpark ==
  /\ EmuGoto("unpark", "retake")
  /\ threadPaused' = FALSE
  /\ UNCHANGED <<site, executed, stopping, counts, lockCounter, runLock, reset, users,
                 history, asked>>

Retake ==
  /\ EmuGoto("retake", "frame")
  /\ runLock = "free" /\ runLock' = Emu
  /\ UNCHANGED <<site, executed, stopping, counts, threadPaused, lockCounter, reset,
                 users, history, asked>>

EmuStep ==
  \/ FrameBegin \/ ProcessInstruction \/ Exec \/ Break \/ BreakAgain \/ NoBreak \/ InstructionEnd
  \/ SleepSuspended \/ SleepTest \/ SleepWrongPlace \/ SleepBegin \/ CodeBreak
  \/ NoCodeBreak \/ Resumed \/ StillRequested \/ WakeUp \/ SleepEnd
  \/ NoReset \/ Reset \/ ResetSuspendCounter
  \/ NobodyWaits \/ GiveUpLock \/ Park \/ NobodyLocks \/ NobodyBreaks \/ Unpark \/ Retake

-----------------------------------------------------------------------------
(***************************************************************************)
(* The users.                                                              *)
(***************************************************************************)
Goto(u, from, to) ==
  /\ pc[u] = from
  /\ pc' = [pc EXCEPT ![u] = to]
  /\ UNCHANGED <<emu, site, executed, call, reset, calls, asked>>

FirstStep(c) ==
  CASE c \in {"tool", "state"}  -> "request"
    [] c \in {"pause", "frame"} -> "step"
    [] c = "lock"               -> "suspend"
    [] OTHER                    -> c

Begin(u, c) ==
  /\ pc[u] = "idle" /\ calls < MaxCalls
  /\ pc' = [pc EXCEPT ![u] = FirstStep(c)]
  /\ call' = [call EXCEPT ![u] = c]
  /\ calls' = calls + 1
  /\ erased' = erased \ {u}
  /\ UNCHANGED <<emu, site, executed, stopping, counts, runlock, reset, overrun,
                 suspended, late, asked>>

(* BreakRequest, by DebugBreakHelper's constructor and destructor.         *)
BreakRequest(u, from, to, n) ==
  /\ Goto(u, from, to)
  /\ breakRequestCount' = breakRequestCount + n
  /\ UNCHANGED <<stopping, suspendRequestCount, runlock, history>>

IsExecutionStopped == executionStopped \/ threadPaused

Spin(u, from, to) ==
  /\ Goto(u, from, to)
  /\ IsExecutionStopped
  /\ UNCHANGED <<stopping, counts, runlock, history>>

(* GetDebuggerFeatures().ChangeProgramCounter: the hook has set and not    *)
(* yet cleared AllowChangeProgramCounter.                                  *)
ChangeProgramCounter ==
  \/ emu = "hook"
  \/ emu \in {"sleep", "sleepable", "notify", "asleep", "resumed", "awake"}
     /\ site = "between"

LetInNow(u) ==
  /\ overrun' = [overrun EXCEPT ![u] = 0]
  /\ suspended' = suspended \ {u}
  /\ UNCHANGED <<stopping, counts, runlock, erased, late>>

EnterTool(u) ==
  /\ call[u] = "tool" /\ Goto(u, "inspect", "inside")
  /\ LetInNow(u)

EnterState(u) ==
  /\ call[u] = "state" /\ Goto(u, "inspect", "inside")
  /\ ChangeProgramCounter
  /\ LetInNow(u)

(* Stopped inside an instruction: step to its end and try again.           *)
StepFurther(u) ==
  /\ call[u] = "state" /\ Goto(u, "inspect", "step")
  /\ ~ChangeProgramCounter
  /\ UNCHANGED <<stopping, counts, runlock, history>>

(* Step, under its own DebugBreakHelper.                                   *)
SetStep(u) ==
  /\ Goto(u, "stepped", "unstep")
  /\ step' = StepFor(u)
  /\ waitForBreakResume' = FALSE
  /\ UNCHANGED <<executionStopped, counts, runlock, history>>

(* The nap of 15 ms is longer than the 10 ms after which SleepUntilResume  *)
(* tests its loop again, so that the emulation thread goes on if it may.   *)
NapEnd(u) ==
  /\ Goto(u, "nap", "request")
  /\ \/ ~IsExecutionStopped \/ breakRequestCount > 0
     \/ executionStopped /\ waitForBreakResume /\ suspendRequestCount = 0
     \/ threadPaused /\ lockCounter > 0
  /\ UNCHANGED <<stopping, counts, runlock, history>>

(* Mutant: the request of before the step is not released.                 *)
AfterStepKeep(u) == IF call[u] = "state" THEN "nap" ELSE "idle"

AfterStep(u) == IF call[u] = "state" THEN "retry" ELSE "idle"

(* Run, which waits for nothing.                                           *)
Run(u) ==
  /\ Goto(u, "run", "idle")
  /\ step' = NoStep
  /\ waitForBreakResume' = FALSE
  /\ UNCHANGED <<executionStopped, counts, runlock, history>>

(* SystemActionManager::Reset.                                             *)
ResetRequest(u) ==
  /\ pc[u] = "reset"
  /\ pc' = [pc EXCEPT ![u] = IF needReset THEN "idle" ELSE "suspend"]
  /\ needReset' = TRUE
  /\ UNCHANGED <<emu, site, executed, stopping, counts, runlock, pressed, call, calls,
                 history, asked>>

(* Emulator::Lock and Unlock, with SuspendDebugger.                        *)
Suspend(u) ==
  /\ Goto(u, "suspend", IF call[u] = "lock" THEN "count" ELSE "idle")
  /\ suspendRequestCount' = suspendRequestCount + 1
  /\ late' = (late \/ (call[u] = "reset" /\ ~needReset /\ emu # "resetted"))
  /\ UNCHANGED <<stopping, breakRequestCount, runlock, overrun, suspended, erased>>

Count(u) ==
  /\ Goto(u, "count", "acquire")
  /\ lockCounter' = lockCounter + 1
  /\ UNCHANGED <<stopping, counts, threadPaused, runLock, history>>

Acquire(u) ==
  /\ call[u] = "lock" /\ Goto(u, "acquire", "inside")
  /\ runLock = "free" /\ runLock' = u
  /\ UNCHANGED <<stopping, counts, threadPaused, lockCounter, history>>

UnsuspendTest(u) ==
  /\ call[u] = "lock"
  /\ Goto(u, "inside", IF suspendRequestCount > 0 THEN "decrement" ELSE "release")
  /\ UNCHANGED <<stopping, counts, runlock, history>>

(* A user whose suspension was erased takes back that of another.          *)
Unsuspend(u) ==
  /\ Goto(u, "decrement", "release")
  /\ suspendRequestCount' = suspendRequestCount - 1
  /\ erased' = IF u \in erased THEN erased \cup Suspending ELSE erased
  /\ UNCHANGED <<stopping, breakRequestCount, runlock, overrun, suspended, late>>

Release(u) ==
  /\ Goto(u, "release", "uncount")
  /\ runLock' = "free"
  /\ UNCHANGED <<stopping, counts, threadPaused, lockCounter, history>>

Uncount(u) ==
  /\ Goto(u, "uncount", "idle")
  /\ lockCounter' = lockCounter - 1
  /\ UNCHANGED <<stopping, counts, threadPaused, runLock, history>>

UserStep(u) ==
  \/ BreakRequest(u, "request", "spin", 1) \/ Spin(u, "spin", "inspect")
  \/ EnterTool(u) \/ EnterState(u) \/ StepFurther(u)
  \/ BreakRequest(u, "step", "spinStep", 1) \/ Spin(u, "spinStep", "stepped")
  \/ SetStep(u) \/ BreakRequest(u, "unstep", AfterStep(u), -1)
  \/ BreakRequest(u, "retry", "nap", -1) \/ NapEnd(u)
  \/ call[u] \in {"tool", "state"} /\ BreakRequest(u, "inside", "idle", -1)
  \/ Run(u) \/ ResetRequest(u)
  \/ Suspend(u) \/ Count(u) \/ Acquire(u) \/ UnsuspendTest(u) \/ Unsuspend(u)
  \/ Release(u) \/ Uncount(u)

Next ==
  \/ EmuStep
  \/ \E u \in Users : UserStep(u) \/ \E c \in Calls[u] : Begin(u, c)

Spec == Init /\ [][Next]_vars

(* Each thread is scheduled, and a call that was let in comes to its end.  *)
FairSpec == Spec /\ WF_vars(EmuStep) /\ \A u \in Users : WF_vars(UserStep(u))

-----------------------------------------------------------------------------
(***************************************************************************)
(* Safety.                                                                 *)
(***************************************************************************)
(* The types of the variables (the members of Emulator and Debugger).      *)
TypeOK ==
  /\ emu \in {"frame", "hook", "exec", "mid", "end", "sleep", "sleepable", "notify",
              "asleep", "resumed", "awake", "actions", "resetted", "waitlock", "park",
              "parked", "parkedBreak", "unpark", "retake"}
  /\ site \in {"between", "access", "break"} /\ executed \in 0..FrameSize
  /\ executionStopped \in BOOLEAN /\ waitForBreakResume \in BOOLEAN
  /\ step \in StepRequests
  /\ breakRequestCount \in Nat /\ suspendRequestCount \in Nat /\ lockCounter \in Nat
  /\ threadPaused \in BOOLEAN /\ runLock \in Users \cup {Emu, "free"}
  /\ needReset \in BOOLEAN /\ pressed \in BOOLEAN
  /\ pc \in [Users -> {"idle", "request", "spin", "inspect", "inside", "retry", "nap", "step",
                       "spinStep", "stepped", "unstep", "run", "reset", "suspend",
                       "count", "acquire", "decrement", "release", "uncount"}]
  /\ call \in [Users -> AllCalls \cup {"none"}] /\ calls \in 0..MaxCalls
  /\ overrun \in [Users -> 0..2]
  /\ suspended \subseteq Users /\ erased \subseteq Users
  /\ late \in BOOLEAN /\ asked \in BOOLEAN

(* The break requests of the users under way; "state" has two within Step. *)
Outer == {u \in Users : call[u] \in {"tool", "state"}
                       /\ pc[u] \notin {"idle", "request", "nap"}}
Inner == {u \in Users : pc[u] \in {"spinStep", "stepped", "unstep"}}

(* BreakRequest is balanced, and SuspendDebugger as far as a reset lets it *)
(* be: no request is left over when nobody is in a call, and a thread that *)
(* is in Emulator::Lock has the debugger suspended.                        *)
RequestsCounted ==
  /\ breakRequestCount = Cardinality(Outer) + Cardinality(Inner)
  /\ \A u \in Suspending : u \in erased \/ suspendRequestCount > 0

(* A thread that DebugBreakHelper has let in sees at most one instruction  *)
(* begin, the one the emulation thread was about to run, unless the        *)
(* debugger was suspended: the emulation thread goes back to sleep at its  *)
(* next hook, or does not leave WaitForLock.                               *)
OneInstructionOverrun == \A u \in LetIn : overrun[u] <= 1 \/ u \in suspended

(* A comment of SleepUntilResume: only trigger code break event if the     *)
(* pause was caused by user action.                                        *)
CodeBreakAsked == [][waitForBreakResume' /\ ~waitForBreakResume => asked]_vars

-----------------------------------------------------------------------------
(***************************************************************************)
(* Liveness.                                                               *)
(***************************************************************************)
(* A thread in Emulator::Lock gets the run lock, even when the emulation   *)
(* is stopped in the debugger, unless its suspension was taken away.       *)
LockGranted ==
  \A u \in Users : pc[u] = "acquire" ~> (pc[u] # "acquire" \/ u \in erased)

(* A thread that spins in DebugBreakHelper is let in, and an EmulatorLock  *)
(* that finds the emulation inside an instruction gets to its end; two of  *)
(* them may keep it there for each other, with their retries, and a late   *)
(* suspension keeps it running (see SuspensionEnds).                       *)
Retrying == {u \in Users : pc[u] \in {"step", "spinStep", "stepped", "unstep", "retry", "nap"}
                          /\ call[u] = "state"}

ToolsLetIn ==
  \A u \in Users :
    pc[u] \in {"spin", "spinStep"} ~> (pc[u] \in {"inside", "idle"} \/ Retrying \ {u} # {} \/ late)

(* Debugger.h: _suspendRequestCount: Temporary suspension.                 *)
SuspensionEnds == suspendRequestCount > 0 ~> suspendRequestCount = 0
=============================================================================
