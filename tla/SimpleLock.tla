------------------------------ MODULE SimpleLock ------------------------------
(***************************************************************************)
(* Utilities/SimpleLock: a re-entrant spin lock made of an atomic flag, the*)
(* identity of its holder and a count.  Only the flag is atomic: holder    *)
(* and count are plain members that Acquire, TryAcquire, Release and       *)
(* IsLockedByCurrentThread read without owning the lock.  One action is    *)
(* one access to one of the three, so that every interleaving of the       *)
(* accesses of two threads is a behaviour.                                 *)
(***************************************************************************)
EXTENDS Naturals, ThreadIds

CONSTANT
  MaxDepth    (* Bounds how often a thread takes the lock before releasing *)

ASSUME MaxDepthAssumption == MaxDepth \in Nat \ {0}

VARIABLES
  flag,       (* _lock: the atomic_flag.                                   *)
  holder,     (* _holderThreadID.                                          *)
  count,      (* _lockCount.                                               *)
  pc,         (* The access each thread makes next.                        *)
  call,       (* The member function each thread is in.                    *)
  taken       (* What each caller knows: its acquisitions not yet released.*)

lockVars == <<flag, holder, count, pc, call, taken>>

Calls == {"Acquire", "TryAcquire", "Release", "IsLockedByCurrentThread"}
Steps == {"idle", "readCount", "readHolder", "spin", "setHolder", "setCount",
          "reenter", "decrement", "clearHolder", "clearFlag",
          "true", "false", "assertFailed"}

LockTypeOK ==
  /\ flag \in BOOLEAN
  /\ holder \in Threads \cup {NoThread}
  /\ count \in 0..MaxDepth
  /\ pc \in [Threads -> Steps]
  /\ call \in [Threads -> Calls]
  /\ taken \in [Threads -> 0..MaxDepth]

Goto(t, from, to) ==
  /\ pc[t] = from
  /\ pc' = [pc EXCEPT ![t] = to]

(***************************************************************************)
(* The unsynchronised reads.  A thread reads its own last write of the     *)
(* holder; what it reads of a field another thread is writing is any value *)
(* that thread may have written (both fields fit in a machine word).       *)
(***************************************************************************)
CountSeenBy(t) == IF holder = t THEN {count} ELSE 0..MaxDepth

HolderSeenBy(t) ==
  IF holder = t THEN {t} ELSE (Threads \cup {NoThread}) \ {t}

LockInit ==
  /\ flag = FALSE
  /\ holder = NoThread
  /\ count = 0
  /\ pc = [t \in Threads |-> "idle"]
  /\ call = [t \in Threads |-> "Acquire"]
  /\ taken = [t \in Threads |-> 0]

(***************************************************************************)
(* A caller starts a member function.  It releases only what it took: its  *)
(* calls are paired by LockHandler and EmulatorLock.                       *)
(***************************************************************************)
Call(t, op) ==
  /\ op \in {"Acquire", "TryAcquire"} => taken[t] < MaxDepth
  /\ op = "Release" => taken[t] > 0
  /\ Goto(t, "idle", "readCount")
  /\ call' = [call EXCEPT ![t] = op]
  /\ UNCHANGED <<flag, holder, count, taken>>

(* "_lockCount == 0 || ..." in Acquire, "_lockCount > 0 && ..." in the     *)
(* test of Release and in IsLockedByCurrentThread.                         *)
OnFree(t) ==
  CASE call[t] \in {"Acquire", "TryAcquire"} -> "spin"
    [] call[t] = "Release"                   -> "assertFailed"
    [] OTHER                                 -> "false"

OnOwned(t) ==
  CASE call[t] \in {"Acquire", "TryAcquire"} -> "reenter"
    [] call[t] = "Release"                   -> "decrement"
    [] OTHER                                 -> "true"

(* Mutant: the holder is not compared, a non-zero count is enough.         *)
ReadCountOnly(t) ==
  /\ \E c \in CountSeenBy(t) : Goto(t, "readCount", IF c = 0 THEN OnFree(t) ELSE OnOwned(t))
  /\ UNCHANGED <<flag, holder, count, call, taken>>

ReadCount(t) ==
  /\ \E c \in CountSeenBy(t) :
       Goto(t, "readCount", IF c = 0 THEN OnFree(t) ELSE "readHolder")
  /\ UNCHANGED <<flag, holder, count, call, taken>>

ReadHolder(t) ==
  /\ \E h \in HolderSeenBy(t) :
       Goto(t, "readHolder", IF h = t THEN OnOwned(t) ELSE OnFree(t))
  /\ UNCHANGED <<flag, holder, count, call, taken>>

(* WaitForAcquire: test_and_set found the flag clear.                      *)
TestAndSet(t) ==
  /\ ~ flag
  /\ Goto(t, "spin", "setHolder")
  /\ flag' = TRUE
  /\ UNCHANGED <<holder, count, call, taken>>

(* WaitForAcquire: TryAcquire's msTimeout elapsed before the flag cleared. *)
TimeOut(t) ==
  /\ call[t] = "TryAcquire"
  /\ flag
  /\ Goto(t, "spin", "idle")
  /\ UNCHANGED <<flag, holder, count, call, taken>>

SetHolder(t) ==
  /\ Goto(t, "setHolder", "setCount")
  /\ holder' = t
  /\ UNCHANGED <<flag, count, call, taken>>

(* Mutant: the second field is left as the last holder left it.            *)
KeepCount(t) ==
  /\ Goto(t, "setCount", "idle")
  /\ taken' = [taken EXCEPT ![t] = @ + 1]
  /\ UNCHANGED <<flag, holder, count, call>>

SetCount(t) ==
  /\ Goto(t, "setCount", "idle")
  /\ count' = 1
  /\ taken' = [taken EXCEPT ![t] = @ + 1]
  /\ UNCHANGED <<flag, holder, call>>

Reenter(t) ==
  /\ Goto(t, "reenter", "idle")
  /\ count' = count + 1
  /\ taken' = [taken EXCEPT ![t] = @ + 1]
  /\ UNCHANGED <<flag, holder, call>>

(* Mutant: a release gives the lock up, however often it was taken.        *)
DecrementOnce(t) ==
  /\ Goto(t, "decrement", "clearHolder")
  /\ count' = count - 1
  /\ taken' = [taken EXCEPT ![t] = @ - 1]
  /\ UNCHANGED <<flag, holder, call>>

(* Release counts down, and gives the lock up with its last count.         *)
Decrement(t) ==
  /\ Goto(t, "decrement", IF count = 1 THEN "clearHolder" ELSE "idle")
  /\ count' = count - 1
  /\ taken' = [taken EXCEPT ![t] = @ - 1]
  /\ UNCHANGED <<flag, holder, call>>

ClearHolder(t) ==
  /\ Goto(t, "clearHolder", "clearFlag")
  /\ holder' = NoThread
  /\ UNCHANGED <<flag, count, call, taken>>

ClearFlag(t) ==
  /\ Goto(t, "clearFlag", "idle")
  /\ flag' = FALSE
  /\ UNCHANGED <<holder, count, call, taken>>

(* IsLockedByCurrentThread returns its answer.                             *)
Answer(t) ==
  /\ Goto(t, "true", "idle") \/ Goto(t, "false", "idle")
  /\ UNCHANGED <<flag, holder, count, call, taken>>

Step(t) ==
  \/ \E op \in Calls : Call(t, op)
  \/ ReadCount(t)
  \/ ReadHolder(t)
  \/ TestAndSet(t)
  \/ TimeOut(t)
  \/ SetHolder(t)
  \/ SetCount(t)
  \/ Reenter(t)
  \/ Decrement(t)
  \/ ClearHolder(t)
  \/ ClearFlag(t)
  \/ Answer(t)

LockNext == \E t \in Threads : Step(t)

LockSpec == LockInit /\ [][LockNext]_lockVars

-----------------------------------------------------------------------------
(* Acquisitions and releases, as their callers count them, are those of a  *)
(* re-entrant lock: whatever a thread reads of the other threads' writes   *)
(* in SimpleLock::Acquire, TryAcquire and Release, it never takes the lock *)
(* while another holds it, and never gives up a lock that it still holds.  *)
Lock == INSTANCE ReentrantLock WITH depth <- taken

ImplementsReentrantLock == Lock!Spec

(* SimpleLock::Release ends in assert(false) when it finds that another    *)
(* thread holds the lock: a thread that took the lock never gets there,    *)
(* although it decides from two fields that others write.                  *)
ReleaseNeverAsserts == \A t \in Threads : pc[t] # "assertFailed"

(* IsLockedByCurrentThread, on which EmulatorLock and Emulator::Run base   *)
(* what they do, is right in both directions although it takes no lock.    *)
AnswersTruly ==
  \A t \in Threads : /\ pc[t] = "true"  => taken[t] > 0
                     /\ pc[t] = "false" => taken[t] = 0

(***************************************************************************)
(* The inductive invariant.                                                *)
(***************************************************************************)
Taking(t) == pc[t] \in {"setHolder", "setCount"}
Giving(t) == pc[t] \in {"clearHolder", "clearFlag"}

(* t set the flag, and has not cleared it.                                 *)
HasFlag(t) == Taking(t) \/ Giving(t) \/ taken[t] > 0

FlagOwned ==
  /\ \A t \in Threads : HasFlag(t) => flag
  /\ \A t, u \in Threads : HasFlag(t) /\ HasFlag(u) => t = u

HolderRecorded ==
  \A t \in Threads :
    holder = t <=> (taken[t] > 0 \/ pc[t] \in {"setCount", "clearHolder"})

CountRecorded ==
  \A t \in Threads : taken[t] > 0 => count = taken[t]

(* What a thread has found out, at each step of a call.                    *)
StepKnows(t) ==
  /\ Taking(t) \/ Giving(t) \/ pc[t] \in {"spin", "false"} => taken[t] = 0
  /\ pc[t] \in {"reenter", "decrement", "true"} => taken[t] > 0
  /\ pc[t] = "spin" => call[t] \in {"Acquire", "TryAcquire"}
  /\ pc[t] = "reenter" => taken[t] < MaxDepth
  /\ pc[t] \in {"readCount", "readHolder"} =>
       /\ call[t] \in {"Acquire", "TryAcquire"} => taken[t] < MaxDepth
       /\ call[t] = "Release" => taken[t] > 0
  /\ pc[t] # "assertFailed"

LockInv ==
  /\ LockTypeOK
  /\ FlagOwned
  /\ HolderRecorded
  /\ CountRecorded
  /\ \A t \in Threads : StepKnows(t)
=============================================================================
