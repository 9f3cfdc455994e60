------------------------- MODULE NotificationManager -------------------------
(***************************************************************************)
(* Core/Shared/NotificationManager: listeners held by weak references, and *)
(* a broadcast that copies the live ones into a vector under the lock and  *)
(* calls them outside it.  The vector is a member of the manager           *)
(* (_snapshot), shared by every broadcast: those of different threads (the *)
(* emulation thread's PpuFrameDone, the decoder's ResolutionChanged, the   *)
(* frontend's CheatsChanged...) and those a listener makes in its callback.*)
(***************************************************************************)
EXTENDS Naturals, Sequences, SequencesExt, ThreadIds

CONSTANTS
  Listeners,   (* The objects that listen.                                 *)
  NoListener,  (* An element of the vector's storage never written.        *)
  MaxNesting   (* Bounds the broadcasts a thread is in at the same time.   *)

ASSUME ListenersAssumption == IsFiniteSet(Listeners) /\ NoListener \notin Listeners
ASSUME MaxNestingAssumption == MaxNesting \in Nat \ {0}

VARIABLES
  lock,       (* Who holds _lock.                                          *)
  listeners,  (* _listeners                                                *)
  storage,    (* _snapshot: its allocated elements,                        *)
  size,       (* and how many of them are in use.                          *)
  owned,      (* The listeners to which somebody else has a shared_ptr.    *)
  frames      (* The SendNotification calls each thread is in.             *)

vars == <<lock, listeners, storage, size, owned, frames>>

Slots == 1..Cardinality(Listeners)

(***************************************************************************)
(* A call of SendNotification: where it is, its loop index, the live       *)
(* listeners it found under the lock, the ones it has called, and whether  *)
(* no other call was under way at any time since it began.                 *)
(***************************************************************************)
Frames == [step   : {"fill", "test", "fetch", "callback", "clear"},
           at     : 1..(Cardinality(Listeners) + 1),
           kept   : Seq(Listeners),
           called : Seq(Listeners),
           alone  : BOOLEAN]

(* The types; and a listener is registered once, however registrations,    *)
(* broadcasts and the pruning they do interleave.                          *)
TypeOK ==
  /\ lock \in Threads \cup {NoThread}
  /\ listeners \in Seq(Listeners) /\ IsInjective(listeners)
  /\ storage \in [Slots -> Listeners \cup {NoListener}]
  /\ size \in 0..Cardinality(Listeners)
  /\ owned \subseteq Listeners
  /\ frames \in [Threads -> Seq(Frames)]
  /\ \A t \in Threads : Len(frames[t]) <= MaxNesting

InSnapshot == {storage[k] : k \in 1..size}

(* A weak_ptr to l can be locked: a shared_ptr to l exists.                *)
Alive(l) == l \in owned \cup InSnapshot

Top(t) == Last(frames[t])
In(t, step) == frames[t] # <<>> /\ Top(t).step = step

(* The thread runs code of its own: outside the manager or in a callback.  *)
Free(t) == frames[t] = <<>> \/ In(t, "callback")

Update(t, f) == frames' = [frames EXCEPT ![t] = Front(@) \o <<f>>]

NobodySends == \A t \in Threads : frames[t] = <<>>

Init ==
  /\ lock = NoThread
  /\ listeners = <<>>
  /\ storage = [k \in Slots |-> NoListener]
  /\ size = 0
  /\ owned = Listeners
  /\ frames = [t \in Threads |-> <<>>]

(* What erase_if leaves of a list: the listeners that are alive, in order. *)
Keep(kept, l) == IF Alive(l) THEN Append(kept, l) ELSE kept

Unexpired(s) ==
  LET live[n \in 0..Len(s)] == IF n = 0 THEN <<>> ELSE Keep(live[n - 1], s[n])
  IN  live[Len(s)]

(***************************************************************************)
(* RegisterNotificationListener, all of it under the lock.                 *)
(***************************************************************************)
(* Mutant: no test for a listener that is registered already.              *)
RegisterAgain(t, l) ==
  /\ Free(t) /\ lock = NoThread
  /\ l \in owned
  /\ Len(listeners) < Cardinality(Listeners)
  /\ listeners' = Append(Unexpired(listeners), l)
  /\ UNCHANGED <<lock, storage, size, owned, frames>>

Register(t, l) ==
  /\ Free(t) /\ lock = NoThread
  /\ l \in owned
  /\ LET live == Unexpired(listeners)
     IN  listeners' = IF l \in ToSet(live) THEN live ELSE Append(live, l)
  /\ UNCHANGED <<lock, storage, size, owned, frames>>

(* The last owner of a listener lets go of it.                             *)
Drop(l) ==
  /\ l \in owned
  /\ owned' = owned \ {l}
  /\ UNCHANGED <<lock, listeners, storage, size, frames>>

(***************************************************************************)
(* SendNotification                                                        *)
(***************************************************************************)
(* Mutant: the vector is not emptied first.                                *)
SendBeginKeep(t) ==
  /\ Free(t) /\ lock = NoThread
  /\ Len(frames[t]) < MaxNesting
  /\ lock' = t
  /\ frames' = [frames EXCEPT ![t] =
                  Append(@, [step |-> "fill", at |-> 1, kept |-> <<>>, called |-> <<>>,
                             alone |-> FALSE])]
  /\ UNCHANGED <<listeners, storage, size, owned>>

(* Takes the lock and empties the vector, whoever is reading it.           *)
SendBegin(t) ==
  /\ Free(t) /\ lock = NoThread
  /\ Len(frames[t]) < MaxNesting
  /\ lock' = t
  /\ size' = 0
  /\ LET overlapped == [u \in Threads |->
                          [k \in DOMAIN frames[u] |-> [frames[u][k] EXCEPT !.alone = FALSE]]]
         new == [step |-> "fill", at |-> 1, kept |-> <<>>, called |-> <<>>,
                 alone |-> NobodySends]
     IN  frames' = [overlapped EXCEPT ![t] = Append(@, new)]
  /\ UNCHANGED <<listeners, storage, owned>>

(* One round of the loop over _listeners: a live one is kept and pushed.   *)
SendFill(t) ==
  /\ In(t, "fill") /\ Top(t).at <= Len(listeners)
  /\ LET l == listeners[Top(t).at]
     IN  IF Alive(l)
         THEN /\ Update(t, [Top(t) EXCEPT !.at = @ + 1, !.kept = Append(@, l)])
              /\ storage' = [storage EXCEPT ![size + 1] = l]
              /\ size' = size + 1
         ELSE /\ Update(t, [Top(t) EXCEPT !.at = @ + 1])
              /\ UNCHANGED <<storage, size>>
  /\ UNCHANGED <<lock, listeners, owned>>

(* Mutant: the erase begins one element early.                             *)
SendUnlockShort(t) ==
  /\ In(t, "fill") /\ Top(t).at > Len(listeners)
  /\ listeners' = IF Top(t).kept = <<>> THEN <<>> ELSE Front(Top(t).kept)
  /\ lock' = NoThread
  /\ Update(t, [Top(t) EXCEPT !.step = "test", !.at = 1])
  /\ UNCHANGED <<storage, size, owned>>

(* The expired listeners are erased and the lock is released.              *)
SendUnlock(t) ==
  /\ In(t, "fill") /\ Top(t).at > Len(listeners)
  /\ listeners' = Top(t).kept
  /\ lock' = NoThread
  /\ Update(t, [Top(t) EXCEPT !.step = "test", !.at = 1])
  /\ UNCHANGED <<storage, size, owned>>

(* Mutant: the loop ends one element early.                                *)
SendTestShort(t) ==
  /\ In(t, "test")
  /\ Update(t, [Top(t) EXCEPT !.step = IF Top(t).at < size
                                       THEN "fetch" ELSE "clear"])
  /\ UNCHANGED <<lock, listeners, storage, size, owned>>

(* "i < _snapshot.size()"                                                  *)
SendTest(t) ==
  /\ In(t, "test")
  /\ Update(t, [Top(t) EXCEPT !.step = IF Top(t).at <= size
                                       THEN "fetch" ELSE "clear"])
  /\ UNCHANGED <<lock, listeners, storage, size, owned>>

(* Mutant: the reference is let go of before the call.                     *)
SendCallRelease(t) ==
  /\ In(t, "fetch")
  /\ Update(t, [Top(t) EXCEPT !.step = "callback",
                              !.called = Append(@, storage[Top(t).at])])
  /\ storage' = [storage EXCEPT ![Top(t).at] = NoListener]
  /\ UNCHANGED <<lock, listeners, size, owned>>

(* "_snapshot[i]->ProcessNotification(...)": the element is read wherever  *)
(* the vector now ends, its storage is not given back when it is emptied.  *)
SendCall(t) ==
  /\ In(t, "fetch")
  /\ Update(t, [Top(t) EXCEPT !.step = "callback",
                              !.called = Append(@, storage[Top(t).at])])
  /\ UNCHANGED <<lock, listeners, storage, size, owned>>

(* The callback returns.                                                   *)
SendNext(t) ==
  /\ In(t, "callback")
  /\ Update(t, [Top(t) EXCEPT !.step = "test", !.at = @ + 1])
  /\ UNCHANGED <<lock, listeners, storage, size, owned>>

(* The references are let go of, without the lock.                         *)
SendEnd(t) ==
  /\ In(t, "clear")
  /\ size' = 0
  /\ frames' = [frames EXCEPT ![t] = Front(@)]
  /\ UNCHANGED <<lock, listeners, storage, owned>>

Send(t) ==
  \/ SendBegin(t) \/ SendFill(t) \/ SendUnlock(t)
  \/ SendTest(t) \/ SendCall(t) \/ SendNext(t) \/ SendEnd(t)

Next ==
  \/ \E t \in Threads : Send(t)
  \/ \E t \in Threads, l \in Listeners : Register(t, l)
  \/ \E l \in Listeners : Drop(l)

Spec == Init /\ [][Next]_vars

-----------------------------------------------------------------------------
(* A broadcast during which no other one was under way calls every listener*)
(* that was registered and alive when it took the lock, once and in order, *)
(* whatever is registered, pruned or dropped meanwhile.                    *)
LoneSendDelivers ==
  \A t \in Threads : In(t, "clear") /\ Top(t).alone => Top(t).called = Top(t).kept

(* In such a broadcast a listener is not destroyed before its callback has *)
(* returned ("Safe to destroy listeners without unregistering").           *)
LoneCallbackAlive ==
  \A t \in Threads : In(t, "callback") /\ Top(t).alone => Alive(Last(Top(t).called))

(* However registrations, broadcasts and the pruning they do interleave, a *)
(* live listener stays registered.                                         *)
RegistrationKept ==
  [][\A l \in owned' : l \in ToSet(listeners) => l \in ToSet(listeners')]_vars

(***************************************************************************)
(* The inductive invariant.                                                *)
(***************************************************************************)
(* A call in which the thread has made another one is in a callback, and   *)
(* the element a call is about to read has been written.                   *)
FramesInOrder ==
  \A t \in Threads : \A k \in DOMAIN frames[t] :
    LET f == frames[t][k]
    IN  /\ k < Len(frames[t]) => f.step = "callback"
        /\ f.step \in {"fetch", "callback"} => f.at \in Slots
        /\ f.step = "fetch" => storage[f.at] # NoListener

SnapshotWritten == \A k \in 1..size : storage[k] # NoListener

(* Whoever fills the vector has the lock, and has kept those of the        *)
(* listeners it has passed that are alive.                                 *)
Filling ==
  \A t \in Threads : In(t, "fill") =>
    LET f == Top(t)
    IN  /\ lock = t
        /\ f.at <= Len(listeners) + 1
        /\ size <= Len(f.kept) /\ Len(f.kept) < f.at
        /\ IsInjective(f.kept)
        /\ ToSet(f.kept) \subseteq {listeners[i] : i \in 1..(f.at - 1)}
        /\ {listeners[i] : i \in 1..(f.at - 1)} \cap owned \subseteq ToSet(f.kept)

(* How many listeners a call has begun to call.                            *)
Begun(f) == CASE f.step = "fill" -> 0 [] f.step = "callback" -> f.at
              [] f.step \in {"test", "fetch"} -> f.at - 1 [] OTHER -> Len(f.kept)

(* f has called the first of the listeners it has kept, which are the n    *)
(* first elements of s.                                                    *)
Delivering(f, n, s) ==
  /\ Len(f.kept) = n
  /\ \A i \in 1..n : s[i] = f.kept[i]
  /\ Begun(f) <= n /\ (f.step = "fetch" => f.at <= n)
  /\ Len(f.called) = Begun(f)
  /\ \A i \in 1..Len(f.called) : f.called[i] = f.kept[i]

(* A lone call is the only one, and the vector is its own.                 *)
Lone ==
  \A t \in Threads : \A k \in DOMAIN frames[t] : frames[t][k].alone =>
    /\ Len(frames[t]) = 1
    /\ \A u \in Threads \ {t} : frames[u] = <<>>
    /\ Delivering(frames[t][k], size, storage)

SendInv == TypeOK /\ FramesInOrder /\ SnapshotWritten /\ Filling /\ Lone

(* SendNotification "Calls ProcessNotification() on each live listener. ...*)
(* Thread-safe - can be called from any thread." (NotificationManager.h)   *)
SendDelivers ==
  \A t \in Threads : In(t, "clear") => ToSet(Top(t).kept) \subseteq ToSet(Top(t).called)
=============================================================================
