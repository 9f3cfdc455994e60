---------------------------- MODULE ReentrantLock ----------------------------
(***************************************************************************)
(* What a re-entrant lock promises to the threads that use it: a thread    *)
(* may take it again while it holds it, must release it as often as it     *)
(* took it, and no two threads hold it at the same time.  The emulator's   *)
(* SimpleLock implements it (module SimpleLock); the modules of the        *)
(* emulation thread use it for the run lock, the load lock and so on.      *)
(***************************************************************************)
EXTENDS Naturals

CONSTANT Threads    (* The threads that share the lock.                    *)

VARIABLE depth      (* How often each thread took it and not yet released. *)

TypeOK == depth \in [Threads -> Nat]

Holds(t) == depth[t] > 0

(* No thread other than t holds the lock: an acquisition by t succeeds.    *)
FreeFor(t) == \A u \in Threads \ {t} : ~ Holds(u)

Init == depth = [t \in Threads |-> 0]

Acquire(t) ==
  /\ FreeFor(t)
  /\ depth' = [depth EXCEPT ![t] = @ + 1]

Release(t) ==
  /\ Holds(t)
  /\ depth' = [depth EXCEPT ![t] = @ - 1]

Next == \E t \in Threads : Acquire(t) \/ Release(t)

Spec == Init /\ [][Next]_depth

MutualExclusion == \A t, u \in Threads : Holds(t) /\ Holds(u) => t = u
=============================================================================
