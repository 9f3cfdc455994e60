---------------------------- MODULE LockingProof ----------------------------
(***************************************************************************)
(* Proofs about SimpleLock, and about NotificationManager, whose lists such*)
(* a lock guards, for any set of threads, any depth of the lock, any finite*)
(* set of listeners and any nesting of broadcasts.                         *)
(***************************************************************************)
EXTENDS SimpleLock, NotificationManager, FiniteSetTheorems, SequenceTheorems,
        WellFoundedInduction, TLAPS

-----------------------------------------------------------------------------
(***************************************************************************)
(* NotificationManager.                                                    *)
(***************************************************************************)
(* The natural numbers are well ordered.                                   *)
LEMMA NatMin ==
  ASSUME NEW S \in SUBSET Nat, S # {}
  PROVE  \E m \in S : \A n \in S : m <= n
<1>1. PICK m \in S : \A n \in S : <<n, m>> \notin OpToRel(<, Nat)
  BY NatLessThanWellFounded, WFMin
<1>2. \A n \in S : ~ (n < m)
  BY <1>1 DEF OpToRel
<1>3. QED
  BY <1>2

(* Induction up to n, for a set of numbers.                                *)
LEMMA UpTo ==
  ASSUME NEW n \in Nat, NEW S, 0 \in S, \A i \in 0..n : i \in S /\ i < n => i + 1 \in S
  PROVE  0..n \subseteq S
<1>1. SUFFICES ASSUME (0..n) \ S # {} PROVE FALSE
  OBVIOUS
<1>2. PICK m \in (0..n) \ S : \A i \in (0..n) \ S : m <= i
  <2>1. (0..n) \ S \in SUBSET Nat
    OBVIOUS
  <2>2. QED
    BY <1>1, <2>1, NatMin
<1>3. m - 1 \in 0..n /\ m - 1 \in S
  BY <1>2
<1>4. QED
  BY <1>2, <1>3

(* A table of what is left of the first elements of s is left.             *)
IsUnexpired(g, s, n) ==
  g = [i \in 0..n |-> IF i = 0 THEN <<>> ELSE Keep(g[i - 1], s[i])]

(* There is such a table, of any length.                                   *)
LEMMA UnexpiredExists ==
  ASSUME NEW s, NEW n \in Nat
  PROVE  \E g : IsUnexpired(g, s, n)
<1> DEFINE S == {m \in Nat : \E g : IsUnexpired(g, s, m)}
<1>1. 0 \in S
  <2>1. IsUnexpired([i \in 0..0 |-> <<>>], s, 0)
    BY DEF IsUnexpired
  <2>2. QED
    BY <2>1
<1>2. ASSUME NEW m \in 0..n, m \in S PROVE m + 1 \in S
  <2>1. PICK g : IsUnexpired(g, s, m)
    BY <1>2
  <2> DEFINE h == [i \in 0..(m + 1) |->
                     IF i = 0 THEN <<>> ELSE Keep(g[i - 1], s[i])]
  <2>2. \A i \in 0..m : h[i] = g[i]
    BY <2>1 DEF IsUnexpired
  <2>3. \A i \in 1..(m + 1) : i - 1 \in 0..m
    OBVIOUS
  <2>4. \A i \in 0..(m + 1) :
          h[i] = IF i = 0 THEN <<>> ELSE Keep(h[i - 1], s[i])
    <3>1. TAKE i \in 0..(m + 1)
    <3>2. CASE i = 0
      BY <3>2
    <3>3. CASE i # 0
      <4>1. i - 1 \in 0..m
        BY <3>3
      <4>2. h[i - 1] = g[i - 1]
        BY <2>2, <4>1
      <4>3. h[i] = Keep(g[i - 1], s[i])
        BY <3>3
      <4>4. QED
        BY <3>3, <4>2, <4>3
    <3>4. QED
      BY <3>2, <3>3
  <2>5. DOMAIN h = 0..(m + 1) /\ h = [i \in DOMAIN h |-> h[i]]
    OBVIOUS
  <2> HIDE DEF h
  <2>6. IsUnexpired(h, s, m + 1)
    BY <2>4, <2>5 DEF IsUnexpired
  <2>7. QED
    BY <2>6
<1>3. QED
  <2>1. 0..n \subseteq S
    <3> HIDE DEF S
    <3>1. QED
      BY <1>1, <1>2, UpTo
  <2>2. QED
    BY <2>1

(* Unexpired keeps exactly the live elements of a list, each once.         *)
LEMMA UnexpiredKeeps ==
  ASSUME NEW s \in Seq(Listeners), IsInjective(s)
  PROVE  /\ Unexpired(s) \in Seq(Listeners)
         /\ IsInjective(Unexpired(s))
         /\ ToSet(Unexpired(s)) = {l \in ToSet(s) : Alive(l)}
<1> DEFINE N == Len(s)
           P(i) == {s[j] : j \in {k \in 1..i : Alive(s[k])}}
           g == CHOOSE h : IsUnexpired(h, s, N)
           S == {i \in 0..N : /\ g[i] \in Seq(Listeners) /\ IsInjective(g[i])
                              /\ ToSet(g[i]) = P(i)}
<1>1. N \in Nat /\ \A i \in 1..N : s[i] \in Listeners
  BY ElementOfSeq, LenProperties
<1>2. IsUnexpired(g, s, N)
  BY <1>1, UnexpiredExists
<1>3. Unexpired(s) = g[N]
  BY DEF Unexpired, IsUnexpired
<1> HIDE DEF g
<1>4. 0 \in S
  <2>1. g[0] = <<>>
    BY <1>1, <1>2 DEF IsUnexpired
  <2>2. <<>> \in Seq(Listeners) /\ IsInjective(<<>>) /\ ToSet(<<>>) = {}
    BY EmptySeq DEF ToSet, IsInjective
  <2>3. P(0) = {}
    <3>1. {k \in 1..0 : Alive(s[k])} = {}
      OBVIOUS
    <3>2. QED
      BY <3>1
  <2> HIDE DEF P
  <2>4. 0 \in 0..N
    BY <1>1
  <2>5. g[0] \in Seq(Listeners) /\ IsInjective(g[0]) /\ ToSet(g[0]) = P(0)
    BY <2>1, <2>2, <2>3, Zenon
  <2>6. QED
    BY <2>4, <2>5
<1>5. ASSUME NEW i \in 0..N, i \in S, i < N PROVE i + 1 \in S
  <2>1. i + 1 \in 1..N /\ i + 1 - 1 = i
    BY <1>1, <1>5
  <2>2. g[i + 1] = Keep(g[i], s[i + 1])
    BY <1>1, <1>2, <2>1 DEF IsUnexpired
  <2>3. CASE Alive(s[i + 1])
    <3> DEFINE a == g[i]
               e == s[i + 1]
               b == Append(a, e)
    <3>1. a \in Seq(Listeners) /\ IsInjective(a) /\ e \in Listeners
      BY <1>1, <1>5, <2>1
    <3>2. e \notin ToSet(a)
      <4>1. \A j \in 1..i : s[j] # s[i + 1]
        BY <1>1, <2>1, LenProperties DEF IsInjective
      <4>2. ToSet(a) = P(i)
        BY <1>5
      <4>3. QED
        BY <4>1, <4>2
    <3>3. /\ b \in Seq(Listeners) /\ Len(b) = Len(a) + 1 /\ Len(a) \in Nat
          /\ b[Len(a) + 1] = e /\ \A j \in 1..Len(a) : b[j] = a[j]
          /\ DOMAIN b = 1..(Len(a) + 1) /\ DOMAIN a = 1..Len(a)
      BY <3>1, AppendProperties, LenProperties
    <3>4. ToSet(b) = ToSet(a) \cup {e}
      BY <3>3, SMTT(30) DEF ToSet
    <3>5. IsInjective(b)
      <4> HIDE DEF a, b, e
      <4>1. \A j \in 1..Len(a) : a[j] \in ToSet(a)
        BY <3>3 DEF ToSet
      <4>2. SUFFICES ASSUME NEW j \in DOMAIN b, NEW k \in DOMAIN b, b[j] = b[k] PROVE j = k
        BY DEF IsInjective
      <4>3. (j \in 1..Len(a) \/ j = Len(a) + 1) /\ (k \in 1..Len(a) \/ k = Len(a) + 1)
        BY <3>3
      <4>4. QED
        BY <3>1, <3>2, <3>3, <4>1, <4>2, <4>3 DEF IsInjective
    <3>6. P(i + 1) = P(i) \cup {e}
      <4>1. {k \in 1..(i + 1) : Alive(s[k])} = {k \in 1..i : Alive(s[k])} \cup {i + 1}
        BY <1>5, <2>3
      <4>2. QED
        BY <4>1
    <3>7. g[i + 1] = b
      BY <2>2, <2>3 DEF Keep
    <3>8. ToSet(a) = P(i)
      BY <1>5
    <3>9. ToSet(b) = P(i + 1)
      BY <3>4, <3>6, <3>8, Zenon
    <3>10. g[i + 1] \in Seq(Listeners) /\ IsInjective(g[i + 1]) /\ ToSet(g[i + 1]) = P(i + 1)
      BY <3>3, <3>5, <3>7, <3>9, Zenon
    <3>11. i + 1 \in 0..N
      BY <1>1, <2>1
    <3>12. QED
      BY <3>10, <3>11
  <2>4. CASE ~ Alive(s[i + 1])
    <3>1. P(i + 1) = P(i)
      <4>1. {k \in 1..(i + 1) : Alive(s[k])} = {k \in 1..i : Alive(s[k])}
        BY <1>5, <2>4
      <4>2. QED
        BY <4>1
    <3>2. g[i + 1] = g[i]
      BY <2>2, <2>4 DEF Keep
    <3>3. g[i] \in Seq(Listeners) /\ IsInjective(g[i]) /\ ToSet(g[i]) = P(i)
      BY <1>5
    <3>4. g[i + 1] \in Seq(Listeners) /\ IsInjective(g[i + 1]) /\ ToSet(g[i + 1]) = P(i + 1)
      BY <3>1, <3>2, <3>3, Zenon
    <3>5. i + 1 \in 0..N
      BY <1>1, <2>1
    <3>6. QED
      BY <3>4, <3>5
  <2>5. QED
    BY <2>3, <2>4
<1>6. N \in S
  <2>1. 0..N \subseteq S
    <3> HIDE DEF S
    <3>1. QED
      BY <1>1, <1>4, <1>5, UpTo
  <2>2. N \in 0..N
    BY <1>1
  <2>3. QED
    <3> HIDE DEF S, N
    <3>1. QED
      BY <2>1, <2>2
<1>7. {s[j] : j \in {k \in 1..N : Alive(s[k])}} = {l \in ToSet(s) : Alive(l)}
  BY <1>1, LenProperties DEF ToSet
<1>8. QED
  BY <1>3, <1>6, <1>7

(* A list without repetitions is no longer than the set of the listeners.  *)
LEMMA ListenersBound ==
  ASSUME NEW s \in Seq(Listeners), IsInjective(s)
  PROVE  Cardinality(Listeners) \in Nat /\ Len(s) \in 0..Cardinality(Listeners)
<1>1. Len(s) \in Nat /\ s \in [1..Len(s) -> Listeners]
  BY LenProperties
<1>2. s \in Injection(1..Len(s), Listeners)
  BY <1>1 DEF Injection
<1>3. Cardinality(1..Len(s)) = Len(s)
  BY <1>1, FS_Interval, SMTT(30)
<1>4. Cardinality(Listeners) \in Nat
  BY ListenersAssumption, FS_CardinalityType
<1>5. Cardinality(1..Len(s)) <= Cardinality(Listeners)
  BY <1>2, ListenersAssumption, FS_Injection
<1>6. QED
  BY <1>1, <1>3, <1>4, <1>5

-----------------------------------------------------------------------------
(***************************************************************************)
(* The calls a thread is in.                                               *)
(***************************************************************************)
(* The call a thread is in now is the last one.                            *)
LEMMA TopProperties ==
  ASSUME TypeOK, NEW t \in Threads, frames[t] # <<>>
  PROVE  /\ frames[t] \in Seq(Frames) /\ Len(frames[t]) \in Nat \ {0}
         /\ DOMAIN frames[t] = 1..Len(frames[t]) /\ Len(frames[t]) \in DOMAIN frames[t]
         /\ Top(t) = frames[t][Len(frames[t])] /\ Top(t) \in Frames
<1>1. frames[t] \in Seq(Frames)
  BY DEF TypeOK
<1>2. Len(frames[t]) \in Nat \ {0} /\ DOMAIN frames[t] = 1..Len(frames[t])
  BY <1>1, EmptySeq, LenProperties
<1>3. QED
  BY <1>1, <1>2, ElementOfSeq DEF Top, Last

(* Update changes the last call of one thread.                             *)
LEMMA UpdateFrames ==
  ASSUME TypeOK, NEW t \in Threads, frames[t] # <<>>, NEW f \in Frames, Update(t, f)
  PROVE  /\ frames' \in [Threads -> Seq(Frames)]
         /\ \A u \in Threads \ {t} : frames'[u] = frames[u]
         /\ Len(frames'[t]) = Len(frames[t]) /\ frames'[t] # <<>>
         /\ DOMAIN frames'[t] = 1..Len(frames[t])
         /\ frames'[t][Len(frames[t])] = f
         /\ \A k \in 1..(Len(frames[t]) - 1) : frames'[t][k] = frames[t][k]
<1> DEFINE s == frames[t]
           r == Front(s) \o <<f>>
<1>1. s \in Seq(Frames) /\ Len(s) \in Nat \ {0}
  BY TopProperties
<1>2. Front(s) \in Seq(Frames) /\ Len(Front(s)) = Len(s) - 1
      /\ \A k \in 1..(Len(s) - 1) : Front(s)[k] = s[k]
  BY <1>1, SubSeqProperties DEF Front
<1>3. r \in Seq(Frames) /\ Len(r) = Len(s) /\ r[Len(s)] = f
      /\ \A k \in 1..(Len(s) - 1) : r[k] = s[k]
  <2>1. <<f>> \in Seq(Frames) /\ Len(<<f>>) = 1 /\ <<f>>[1] = f
    OBVIOUS
  <2> HIDE DEF s
  <2>2. QED
    BY <1>1, <1>2, <2>1, ConcatProperties
<1>4. frames' = [frames EXCEPT ![t] = r] /\ frames \in [Threads -> Seq(Frames)]
  BY DEF Update, TypeOK
<1>5. frames'[t] = r
  BY <1>4
<1>6. DOMAIN r = 1..Len(s)
  BY <1>1, <1>3, LenProperties
<1>7. frames' \in [Threads -> Seq(Frames)] /\ \A u \in Threads \ {t} : frames'[u] = frames[u]
  <2> HIDE DEF r
  <2>1. QED
    BY <1>3, <1>4
<1> HIDE DEF r
<1>8. r # <<>>
  BY <1>1, <1>3, EmptySeq
<1>9. QED
  BY <1>3, <1>5, <1>6, <1>7, <1>8

(* The types after such a step.                                            *)
LEMMA UpdateTypes ==
  ASSUME TypeOK, NEW t \in Threads, frames[t] # <<>>, NEW f \in Frames, Update(t, f),
         lock' \in Threads \cup {NoThread}, listeners' \in Seq(Listeners),
         IsInjective(listeners'), storage' \in [Slots -> Listeners \cup {NoListener}],
         size' \in 0..Cardinality(Listeners), owned' \subseteq Listeners
  PROVE  TypeOK'
<1>1. \A u \in Threads : Len(frames'[u]) <= MaxNesting
  BY UpdateFrames DEF TypeOK
<1>2. frames' \in [Threads -> Seq(Frames)]
  BY UpdateFrames
<1>3. QED
  BY <1>1, <1>2 DEF TypeOK

(* What such a step must see to for FramesInOrder,                         *)
LEMMA UpdateOrder ==
  ASSUME TypeOK, FramesInOrder, NEW t \in Threads, frames[t] # <<>>,
         NEW f \in Frames, Update(t, f),
         f.step \in {"fetch", "callback"} => f.at \in Slots,
         f.step = "fetch" => storage'[f.at] # NoListener,
         \A k \in Slots : storage[k] # NoListener => storage'[k] # NoListener
  PROVE  FramesInOrder'
<1> SUFFICES ASSUME NEW u \in Threads, NEW k \in DOMAIN frames'[u]
             PROVE  LET g == frames'[u][k]
                    IN  /\ k < Len(frames'[u]) => g.step = "callback"
                        /\ g.step \in {"fetch", "callback"} => g.at \in Slots
                        /\ g.step = "fetch" => storage'[g.at] # NoListener
  BY DEF FramesInOrder
<1>1. CASE u # t
  BY <1>1, UpdateFrames DEF FramesInOrder
<1>2. CASE u = t
  <2>1. k \in 1..Len(frames[t]) /\ Len(frames'[t]) = Len(frames[t]) /\ k \in DOMAIN frames[t]
    BY <1>2, UpdateFrames, TopProperties
  <2>2. CASE k = Len(frames[t])
    BY <1>2, <2>1, <2>2, UpdateFrames, TopProperties
  <2>3. CASE k # Len(frames[t])
    <3>1. k \in 1..(Len(frames[t]) - 1)
      BY <2>1, <2>3, TopProperties
    <3>2. frames'[t][k] = frames[t][k]
      BY <3>1, UpdateFrames
    <3>3. QED
      BY <1>2, <2>1, <3>2 DEF FramesInOrder
  <2>4. QED
    BY <2>2, <2>3
<1>3. QED
  BY <1>1, <1>2

(* for Lone,                                                               *)
LEMMA UpdateLone ==
  ASSUME TypeOK, Lone, NEW t \in Threads, frames[t] # <<>>,
         NEW f \in Frames, Update(t, f), f.alone = Top(t).alone,
         f.alone => Delivering(f, size', storage')
  PROVE  Lone'
<1> SUFFICES ASSUME NEW u \in Threads, NEW k \in DOMAIN frames'[u], frames'[u][k].alone
             PROVE  /\ Len(frames'[u]) = 1
                    /\ \A v \in Threads \ {u} : frames'[v] = <<>>
                    /\ Delivering(frames'[u][k], size', storage')
  BY DEF Lone
<1>1. u = t
  <2>1. SUFFICES ASSUME u # t PROVE FALSE
    OBVIOUS
  <2>2. frames'[u] = frames[u]
    BY <2>1, UpdateFrames
  <2>3. QED
    BY <2>1, <2>2 DEF Lone
<1>2. k \in 1..Len(frames[t]) /\ k \in DOMAIN frames[t]
  BY <1>1, UpdateFrames, TopProperties
<1>3. k = Len(frames[t])
  <2>1. SUFFICES ASSUME k # Len(frames[t]) PROVE FALSE
    OBVIOUS
  <2>2. k \in 1..(Len(frames[t]) - 1)
    BY <1>2, <2>1, TopProperties
  <2>3. frames'[t][k] = frames[t][k]
    BY <2>2, UpdateFrames
  <2>4. frames[t][k].alone
    BY <1>1, <2>3
  <2>5. Len(frames[t]) = 1
    BY <1>2, <2>4 DEF Lone
  <2>6. QED
    BY <2>2, <2>5
<1>4. frames'[t][k] = f
  BY <1>3, UpdateFrames
<1>5. Top(t) = frames[t][k] /\ frames[t][k].alone
  BY <1>1, <1>3, <1>4, TopProperties
<1>6. Len(frames[t]) = 1 /\ \A v \in Threads \ {t} : frames[v] = <<>>
  BY <1>2, <1>5 DEF Lone
<1>7. QED
  BY <1>1, <1>4, <1>6, UpdateFrames

(* and, when it fills nothing, for Filling.                                *)
LEMMA UpdateFilling ==
  ASSUME TypeOK, Filling, NEW t \in Threads, frames[t] # <<>>,
         NEW f \in Frames, Update(t, f), f.step # "fill",
         UNCHANGED <<lock, listeners, owned>>, size' <= size, size' \in Nat
  PROVE  Filling'
<1> SUFFICES ASSUME NEW u \in Threads, In(u, "fill")'
             PROVE  LET g == Top(u)'
                    IN  /\ lock' = u
                        /\ g.at <= Len(listeners') + 1
                        /\ size' <= Len(g.kept) /\ Len(g.kept) < g.at
                        /\ IsInjective(g.kept)
                        /\ ToSet(g.kept) \subseteq {listeners'[i] : i \in 1..(g.at - 1)}
                        /\ {listeners'[i] : i \in 1..(g.at - 1)} \cap owned'
                             \subseteq ToSet(g.kept)
  BY DEF Filling
<1>1. u # t
  BY UpdateFrames DEF In, Top, Last
<1>2. frames'[u] = frames[u]
  BY <1>1, UpdateFrames
<1>3. Top(u)' = Top(u) /\ In(u, "fill")
  BY <1>2 DEF In, Top
<1>4. Top(u) \in Frames
  BY <1>3, TopProperties DEF In
<1>5. Len(Top(u).kept) \in Nat /\ size \in Nat
  <2>1. size \in 0..Cardinality(Listeners) /\ Top(u).kept \in Seq(Listeners)
    BY <1>4 DEF Frames, TypeOK
  <2>2. Cardinality(Listeners) \in Nat
    BY ListenersAssumption, FS_CardinalityType
  <2>3. QED
    BY <2>1, <2>2, LenProperties
<1>6. LET g == Top(u)
      IN  /\ lock = u
          /\ g.at <= Len(listeners) + 1
          /\ size <= Len(g.kept) /\ Len(g.kept) < g.at
          /\ IsInjective(g.kept)
          /\ ToSet(g.kept) \subseteq {listeners[i] : i \in 1..(g.at - 1)}
          /\ {listeners[i] : i \in 1..(g.at - 1)} \cap owned \subseteq ToSet(g.kept)
  BY <1>3 DEF Filling
<1>7. QED
  BY <1>3, <1>5, <1>6

(* A step that leaves the calls, the lock, the listeners and the vector    *)
(* alone, and owners no more than there were.                              *)
LEMMA OwnersFewer ==
  ASSUME SendInv, UNCHANGED <<lock, listeners, storage, size, frames>>, owned' \subseteq owned
  PROVE  SendInv'
<1>1. TypeOK'
  BY DEF SendInv, TypeOK
<1>2. FramesInOrder' /\ SnapshotWritten'
  BY DEF SendInv, FramesInOrder, SnapshotWritten
<1>3. Filling'
  BY DEF SendInv, Filling, In, Top
<1>4. Lone'
  BY DEF SendInv, Lone
<1>5. QED
  BY <1>1, <1>2, <1>3, <1>4 DEF SendInv

LEMMA InitSendInv == Init => SendInv
<1> SUFFICES ASSUME Init PROVE SendInv
  OBVIOUS
<1>1. TypeOK
  <2>1. Cardinality(Listeners) \in Nat
    BY ListenersAssumption, FS_CardinalityType
  <2>2. <<>> \in Seq(Listeners) /\ IsInjective(<<>>) /\ <<>> \in Seq(Frames) /\ Len(<<>>) = 0
    BY EmptySeq DEF IsInjective
  <2>3. QED
    BY <2>1, <2>2, MaxNestingAssumption DEF Init, TypeOK, Slots
<1>2. FramesInOrder /\ SnapshotWritten /\ Filling /\ Lone
  BY DEF Init, FramesInOrder, SnapshotWritten, Filling, Lone, In
<1>3. QED
  BY <1>1, <1>2 DEF SendInv

(* A registration prunes the list, and adds to it at most one live listener*)
(* that is not in it.                                                      *)
LEMMA RegisterList ==
  ASSUME TypeOK, NEW t \in Threads, NEW l \in Listeners, Register(t, l)
  PROVE  /\ listeners' \in Seq(Listeners) /\ IsInjective(listeners')
         /\ {k \in ToSet(listeners) : Alive(k)} \subseteq ToSet(listeners')
<1> DEFINE a == Unexpired(listeners)
           b == Append(a, l)
<1>1. /\ a \in Seq(Listeners) /\ IsInjective(a)
      /\ ToSet(a) = {k \in ToSet(listeners) : Alive(k)}
  BY UnexpiredKeeps DEF TypeOK
<1>2. listeners' = IF l \in ToSet(a) THEN a ELSE b
  BY DEF Register
<1> HIDE DEF a
<1>3. CASE l \in ToSet(a)
  BY <1>1, <1>2, <1>3
<1>4. CASE l \notin ToSet(a)
  <2>1. /\ b \in Seq(Listeners) /\ Len(b) = Len(a) + 1 /\ Len(a) \in Nat
        /\ b[Len(a) + 1] = l /\ \A j \in 1..Len(a) : b[j] = a[j]
        /\ DOMAIN b = 1..(Len(a) + 1) /\ DOMAIN a = 1..Len(a)
    BY <1>1, AppendProperties, LenProperties
  <2> HIDE DEF b
  <2>2. \A j \in 1..Len(a) : a[j] \in ToSet(a)
    BY <2>1 DEF ToSet
  <2>3. ToSet(a) \subseteq ToSet(b)
    BY <2>1 DEF ToSet
  <2>4. IsInjective(b)
    <3>1. SUFFICES ASSUME NEW j \in DOMAIN b, NEW k \in DOMAIN b, b[j] = b[k] PROVE j = k
      BY DEF IsInjective
    <3>2. (j \in 1..Len(a) \/ j = Len(a) + 1) /\ (k \in 1..Len(a) \/ k = Len(a) + 1)
      BY <2>1
    <3>3. QED
      BY <1>1, <1>4, <2>1, <2>2, <3>1, <3>2 DEF IsInjective
  <2>5. listeners' = b
    BY <1>2, <1>4
  <2>6. QED
    BY <1>1, <2>1, <2>3, <2>4, <2>5
<1>5. QED
  BY <1>3, <1>4

(* Nobody fills the vector while the lock is free.                         *)
LEMMA FreeLock ==
  ASSUME Filling, lock = NoThread
  PROVE  \A t \in Threads : ~ In(t, "fill")
BY NoThreadAssumption DEF Filling

LEMMA RegisterSendInv ==
  ASSUME SendInv, NEW t \in Threads, NEW l \in Listeners, Register(t, l)
  PROVE  SendInv'
<1> USE DEF SendInv
<1>1. TypeOK'
  BY RegisterList DEF Register, TypeOK
<1>2. FramesInOrder' /\ SnapshotWritten' /\ Lone'
  BY DEF Register, FramesInOrder, SnapshotWritten, Lone
<1>3. Filling'
  BY FreeLock DEF Register, Filling, In, Top
<1>4. QED
  BY <1>1, <1>2, <1>3

-----------------------------------------------------------------------------
(***************************************************************************)
(* SendNotification, step by step.                                         *)
(***************************************************************************)
(* The fields of a frame.                                                  *)
LEMMA FrameFields ==
  ASSUME NEW f \in Frames
  PROVE  /\ Cardinality(Listeners) \in Nat
         /\ f.step \in {"fill", "test", "fetch", "callback", "clear"}
         /\ f.at \in 1..(Cardinality(Listeners) + 1)
         /\ f.kept \in Seq(Listeners) /\ Len(f.kept) \in Nat
         /\ f.called \in Seq(Listeners) /\ Len(f.called) \in Nat
         /\ f.alone \in BOOLEAN
<1>1. f.kept \in Seq(Listeners) /\ f.called \in Seq(Listeners)
  BY DEF Frames
<1>2. QED
  BY <1>1, ListenersAssumption, FS_CardinalityType, LenProperties DEF Frames

(* The call a thread is in knows what Lone says of it.                     *)
LEMMA TopDelivering ==
  ASSUME TypeOK, Lone, NEW t \in Threads, frames[t] # <<>>, Top(t).alone
  PROVE  Delivering(Top(t), size, storage)
BY TopProperties DEF Lone

LEMMA TestSendInv ==
  ASSUME SendInv, NEW t \in Threads, SendTest(t)
  PROVE  SendInv'
<1> USE DEF SendInv
<1> DEFINE g == Top(t)
           f == [g EXCEPT !.step = IF g.at <= size THEN "fetch" ELSE "clear"]
<1>1. frames[t] # <<>> /\ g \in Frames /\ g.step = "test" /\ Update(t, f)
  BY TopProperties DEF SendTest, In
<1>2. f \in Frames
  BY <1>1 DEF Frames
<1>3. size \in Nat /\ g.at \in Nat \ {0} /\ Cardinality(Listeners) \in Nat
      /\ size <= Cardinality(Listeners)
  BY <1>1, FrameFields DEF TypeOK
<1>4. TypeOK'
  <2> HIDE DEF f
  <2>1. QED
    BY <1>1, <1>2, UpdateTypes DEF SendTest, TypeOK
<1>5. f.step \in {"fetch", "callback"} => f.at \in 1..size
  BY <1>1, <1>3 DEF Frames
<1>6. f.step # "fill" /\ f.alone = g.alone /\ f.at = g.at /\ f.kept = g.kept
      /\ f.called = g.called /\ f.step \in {"fetch", "clear"}
      /\ (f.step = "clear" => g.at > size)
  BY <1>1, <1>3 DEF Frames
<1>7. f.alone => Delivering(f, size', storage')
  <2>1. SUFFICES ASSUME g.alone PROVE Delivering(f, size, storage)
    BY <1>6 DEF SendTest
  <2>2. Delivering(g, size, storage)
    BY <1>1, <2>1, TopDelivering
  <2>3. Begun(g) = g.at - 1
    BY <1>1 DEF Begun
  <2>4. Begun(f) = g.at - 1
    BY <1>3, <1>6, <2>2, <2>3 DEF Begun, Delivering
  <2> HIDE DEF f, g
  <2>5. QED
    BY <1>5, <1>6, <2>2, <2>3, <2>4 DEF Delivering
<1> HIDE DEF f
<1>8. FramesInOrder'
  <2>1. f.step \in {"fetch", "callback"} => f.at \in Slots /\ storage[f.at] # NoListener
    BY <1>3, <1>5 DEF Slots, SnapshotWritten
  <2>2. storage' = storage
    BY DEF SendTest
  <2>3. QED
    BY <1>1, <1>2, <2>1, <2>2, UpdateOrder
<1>9. SnapshotWritten'
  BY DEF SendTest, SnapshotWritten
<1>10. Lone'
  BY <1>1, <1>2, <1>6, <1>7, UpdateLone
<1>11. Filling'
  BY <1>1, <1>2, <1>3, <1>6, UpdateFilling DEF SendTest
<1>12. QED
  BY <1>4, <1>8, <1>9, <1>10, <1>11

LEMMA CallSendInv ==
  ASSUME SendInv, NEW t \in Threads, SendCall(t)
  PROVE  SendInv'
<1> USE DEF SendInv
<1> DEFINE g == Top(t)
           e == storage[g.at]
           f == [g EXCEPT !.step = "callback", !.called = Append(@, e)]
<1>1. frames[t] # <<>> /\ g \in Frames /\ g.step = "fetch" /\ Update(t, f)
  BY TopProperties DEF SendCall, In
<1>2. g.at \in Slots /\ e \in Listeners
  <2>1. g.at \in Slots /\ e # NoListener
    BY <1>1, TopProperties DEF FramesInOrder
  <2>2. QED
    BY <2>1 DEF TypeOK
<1>3. /\ Append(g.called, e) \in Seq(Listeners)
      /\ Len(Append(g.called, e)) = Len(g.called) + 1
      /\ Append(g.called, e)[Len(g.called) + 1] = e
      /\ \A i \in 1..Len(g.called) : Append(g.called, e)[i] = g.called[i]
  BY <1>1, <1>2, FrameFields, AppendProperties
<1>4. f \in Frames
  BY <1>1, <1>3 DEF Frames
<1>5. /\ f.step = "callback" /\ f.alone = g.alone /\ f.at = g.at /\ f.kept = g.kept
      /\ f.called = Append(g.called, e)
  BY <1>1 DEF Frames
<1>6. TypeOK'
  <2> HIDE DEF f
  <2>1. QED
    BY <1>1, <1>4, UpdateTypes DEF SendCall, TypeOK
<1>7. f.alone => Delivering(f, size', storage')
  <2>1. SUFFICES ASSUME g.alone PROVE Delivering(f, size, storage)
    BY <1>5 DEF SendCall
  <2>2. Delivering(g, size, storage)
    BY <1>1, <2>1, TopDelivering
  <2>3. Begun(g) = g.at - 1 /\ Begun(f) = g.at
    BY <1>1, <1>5 DEF Begun
  <2>4. g.at \in Nat \ {0} /\ Len(g.called) \in Nat
    BY <1>1, FrameFields
  <2> HIDE DEF f, g
  <2>5. Len(f.called) = g.at /\ g.at <= size /\ Len(g.called) = g.at - 1
    BY <1>1, <1>3, <1>5, <2>2, <2>3, <2>4 DEF Delivering
  <2>6. \A i \in 1..Len(f.called) : f.called[i] = f.kept[i]
    <3>1. TAKE i \in 1..Len(f.called)
    <3>2. CASE i = g.at
      <4>1. f.called[i] = e /\ e = g.kept[i]
        BY <1>3, <1>5, <2>2, <2>4, <2>5, <3>2 DEF Delivering
      <4>2. QED
        BY <1>5, <4>1
    <3>3. CASE i # g.at
      <4>1. i \in 1..Len(g.called)
        BY <2>4, <2>5, <3>3
      <4>2. QED
        BY <1>3, <1>5, <2>2, <4>1 DEF Delivering
    <3>4. QED
      BY <3>2, <3>3
  <2>7. QED
    BY <1>5, <2>2, <2>3, <2>5, <2>6 DEF Delivering
<1> HIDE DEF f
<1>8. FramesInOrder'
  <2>1. storage' = storage
    BY DEF SendCall
  <2>2. QED
    BY <1>1, <1>2, <1>4, <1>5, <2>1, UpdateOrder
<1>9. SnapshotWritten'
  BY DEF SendCall, SnapshotWritten
<1>10. Lone'
  BY <1>1, <1>4, <1>5, <1>7, UpdateLone
<1>11. Filling'
  <2>1. size \in Nat
    BY <1>1, FrameFields DEF TypeOK
  <2>2. QED
    BY <1>1, <1>4, <1>5, <2>1, UpdateFilling DEF SendCall
<1>12. QED
  BY <1>6, <1>8, <1>9, <1>10, <1>11

LEMMA NextSendInv ==
  ASSUME SendInv, NEW t \in Threads, SendNext(t)
  PROVE  SendInv'
<1> USE DEF SendInv
<1> DEFINE g == Top(t)
           f == [g EXCEPT !.step = "test", !.at = @ + 1]
<1>1. frames[t] # <<>> /\ g \in Frames /\ g.step = "callback" /\ Update(t, f)
  BY TopProperties DEF SendNext, In
<1>2. g.at \in 1..Cardinality(Listeners) /\ Cardinality(Listeners) \in Nat
  BY <1>1, TopProperties, FrameFields DEF FramesInOrder, Slots
<1>3. f \in Frames
  <2>1. g.at + 1 \in 1..(Cardinality(Listeners) + 1)
    BY <1>2
  <2>2. QED
    BY <1>1, <2>1 DEF Frames
<1>4. /\ f.step = "test" /\ f.alone = g.alone /\ f.at = g.at + 1 /\ f.kept = g.kept
      /\ f.called = g.called
  BY <1>1 DEF Frames
<1>5. TypeOK'
  <2> HIDE DEF f
  <2>1. QED
    BY <1>1, <1>3, UpdateTypes DEF SendNext, TypeOK
<1>6. f.alone => Delivering(f, size', storage')
  <2>1. SUFFICES ASSUME g.alone PROVE Delivering(f, size, storage)
    BY <1>4 DEF SendNext
  <2>2. Delivering(g, size, storage)
    BY <1>1, <2>1, TopDelivering
  <2>3. Begun(g) = g.at /\ Begun(f) = g.at
    BY <1>1, <1>2, <1>4 DEF Begun
  <2> HIDE DEF f, g
  <2>4. QED
    BY <1>4, <2>2, <2>3 DEF Delivering
<1> HIDE DEF f
<1>7. FramesInOrder'
  <2>1. storage' = storage
    BY DEF SendNext
  <2>2. QED
    BY <1>1, <1>3, <1>4, <2>1, UpdateOrder
<1>8. SnapshotWritten'
  BY DEF SendNext, SnapshotWritten
<1>9. Lone'
  BY <1>1, <1>3, <1>4, <1>6, UpdateLone
<1>10. Filling'
  <2>1. size \in Nat
    BY <1>2 DEF TypeOK
  <2>2. QED
    BY <1>1, <1>3, <1>4, <2>1, UpdateFilling DEF SendNext
<1>11. QED
  BY <1>5, <1>7, <1>8, <1>9, <1>10

LEMMA FillSendInv ==
  ASSUME SendInv, NEW t \in Threads, SendFill(t)
  PROVE  SendInv'
<1> USE DEF SendInv
<1> DEFINE g == Top(t)
           l == listeners[g.at]
           N == Cardinality(Listeners)
           Passed(n) == {listeners[i] : i \in 1..n}
<1>1. frames[t] # <<>> /\ g \in Frames /\ g.step = "fill" /\ In(t, "fill")
  BY TopProperties DEF SendFill, In
<1>2. /\ lock = t /\ size <= Len(g.kept) /\ Len(g.kept) < g.at /\ IsInjective(g.kept)
      /\ ToSet(g.kept) \subseteq Passed(g.at - 1)
      /\ Passed(g.at - 1) \cap owned \subseteq ToSet(g.kept)
  BY <1>1 DEF Filling
<1>3. Len(listeners) \in 0..N /\ N \in Nat /\ g.at \in 1..Len(listeners)
      /\ Len(g.kept) \in Nat /\ size \in Nat
  BY <1>1, FrameFields, ListenersBound DEF SendFill, TypeOK
<1>4. l \in Listeners /\ l \notin Passed(g.at - 1) /\ Passed(g.at) = Passed(g.at - 1) \cup {l}
  <2>1. l \in Listeners
    BY <1>3, ElementOfSeq DEF TypeOK
  <2>2. \A i \in 1..(g.at - 1) : listeners[i] # l
    BY <1>3, LenProperties DEF TypeOK, IsInjective
  <2>3. 1..g.at = (1..(g.at - 1)) \cup {g.at}
    BY <1>3
  <2>4. QED
    BY <2>1, <2>2, <2>3
<1>5. \A u \in Threads : In(u, "fill") => u = t
  BY <1>2 DEF Filling
<1>6. CASE Alive(l)
  <2> DEFINE a == Append(g.kept, l)
             f == [g EXCEPT !.at = @ + 1, !.kept = a]
  <2>1. /\ Update(t, f) /\ size' = size + 1 /\ storage' = [storage EXCEPT ![size + 1] = l]
        /\ UNCHANGED <<lock, listeners, owned>>
    BY <1>6 DEF SendFill
  <2>2. /\ a \in Seq(Listeners) /\ Len(a) = Len(g.kept) + 1 /\ a[Len(g.kept) + 1] = l
        /\ \A i \in 1..Len(g.kept) : a[i] = g.kept[i]
        /\ DOMAIN a = 1..(Len(g.kept) + 1) /\ DOMAIN g.kept = 1..Len(g.kept)
    BY <1>1, <1>4, FrameFields, AppendProperties, LenProperties
  <2>3. IsInjective(a) /\ ToSet(a) = ToSet(g.kept) \cup {l}
    <3> HIDE DEF a
    <3>1. \A j \in 1..Len(g.kept) : g.kept[j] \in ToSet(g.kept) /\ g.kept[j] # l
      BY <1>2, <1>4, <2>2 DEF ToSet
    <3>2. IsInjective(a)
      <4>1. SUFFICES ASSUME NEW j \in DOMAIN a, NEW k \in DOMAIN a, a[j] = a[k] PROVE j = k
        BY DEF IsInjective
      <4>2. /\ j \in 1..Len(g.kept) \/ j = Len(g.kept) + 1
            /\ k \in 1..Len(g.kept) \/ k = Len(g.kept) + 1
        BY <1>3, <2>2
      <4>3. QED
        BY <1>2, <2>2, <3>1, <4>1, <4>2 DEF IsInjective
    <3>3. ToSet(a) = ToSet(g.kept) \cup {l}
      <4>1. DOMAIN a = DOMAIN g.kept \cup {Len(g.kept) + 1}
        BY <1>3, <2>2
      <4>2. QED
        BY <2>2, <4>1 DEF ToSet
    <3>4. QED
      BY <3>2, <3>3
  <2>4. /\ f.step = "fill" /\ f.at = g.at + 1 /\ f.kept = a /\ f.called = g.called
        /\ f.alone = g.alone
    BY <1>1 DEF Frames
  <2>5. f \in Frames
    <3>1. g.at + 1 \in 1..(N + 1)
      BY <1>3
    <3> HIDE DEF a
    <3>2. QED
      BY <1>1, <2>2, <3>1 DEF Frames
  <2>6. size + 1 \in Slots /\ size + 1 \in 0..N
    BY <1>2, <1>3 DEF Slots
  <2>7. /\ storage' \in [Slots -> Listeners \cup {NoListener}] /\ storage'[size + 1] = l
        /\ \A k \in Slots : k # size + 1 => storage'[k] = storage[k]
    BY <1>4, <2>1, <2>6 DEF TypeOK
  <2> HIDE DEF a, f
  <2>8. TypeOK'
    BY <1>1, <2>1, <2>5, <2>6, <2>7, UpdateTypes DEF TypeOK
  <2>9. l # NoListener
    BY <1>4, ListenersAssumption
  <2>10. FramesInOrder'
    BY <1>1, <2>1, <2>4, <2>5, <2>7, <2>9, UpdateOrder
  <2>11. SnapshotWritten'
    <3>1. SUFFICES ASSUME NEW k \in 1..(size + 1) PROVE storage'[k] # NoListener
      BY <2>1 DEF SnapshotWritten
    <3>2. k \in Slots
      BY <1>3, <2>6, <3>1 DEF Slots
    <3>3. k \in 1..size \/ k = size + 1
      BY <1>3, <3>1
    <3>4. QED
      BY <2>7, <2>9, <3>2, <3>3 DEF SnapshotWritten
  <2>12. f.alone => Delivering(f, size', storage')
    <3>1. SUFFICES ASSUME g.alone PROVE Delivering(f, size + 1, storage')
      BY <2>1, <2>4
    <3>2. Delivering(g, size, storage)
      BY <1>1, <3>1, TopDelivering
    <3>3. Begun(g) = 0 /\ Begun(f) = 0
      BY <1>1, <2>4 DEF Begun
    <3>4. Len(g.kept) = size /\ Len(g.called) = 0 /\ \A i \in 1..size : storage[i] = g.kept[i]
      BY <3>2, <3>3 DEF Delivering
    <3>5. \A i \in 1..(size + 1) : storage'[i] = a[i]
      <4>1. TAKE i \in 1..(size + 1)
      <4>2. i \in Slots /\ (i \in 1..size \/ i = size + 1)
        BY <1>3, <2>6 DEF Slots
      <4>3. QED
        BY <1>3, <2>2, <2>7, <3>4, <4>2
    <3>6. QED
      BY <1>3, <2>2, <2>4, <3>3, <3>4, <3>5 DEF Delivering
  <2>13. Lone'
    BY <1>1, <2>1, <2>4, <2>5, <2>12, UpdateLone
  <2>14. Filling'
    <3>1. SUFFICES ASSUME NEW u \in Threads, In(u, "fill")'
                   PROVE  LET h == Top(u)'
                          IN  /\ lock = u
                              /\ h.at <= Len(listeners) + 1
                              /\ size + 1 <= Len(h.kept) /\ Len(h.kept) < h.at
                              /\ IsInjective(h.kept)
                              /\ ToSet(h.kept) \subseteq Passed(h.at - 1)
                              /\ Passed(h.at - 1) \cap owned \subseteq ToSet(h.kept)
      BY <2>1 DEF Filling
    <3>2. u = t
      <4>1. SUFFICES ASSUME u # t PROVE FALSE
        OBVIOUS
      <4>2. frames'[u] = frames[u]
        BY <1>1, <2>1, <2>5, <4>1, UpdateFrames
      <4>3. In(u, "fill")
        BY <3>1, <4>2 DEF In, Top
      <4>4. QED
        BY <1>5, <4>1, <4>3
    <3>3. Top(u)' = f
      BY <1>1, <2>1, <2>5, <3>2, UpdateFrames DEF Top, Last
    <3>4. f.at - 1 = g.at
      BY <1>3, <2>4
    <3>5. QED
      <4>1. ToSet(a) \subseteq Passed(g.at) /\ Passed(g.at) \cap owned \subseteq ToSet(a)
        BY <1>2, <1>4, <2>3
      <4>2. /\ g.at + 1 <= Len(listeners) + 1 /\ size + 1 <= Len(a) /\ Len(a) < g.at + 1
        BY <1>2, <1>3, <2>2
      <4> HIDE DEF Passed
      <4>3. QED
        BY <1>2, <2>3, <2>4, <3>2, <3>3, <3>4, <4>1, <4>2
  <2>15. QED
    BY <2>8, <2>10, <2>11, <2>13, <2>14
<1>7. CASE ~ Alive(l)
  <2> DEFINE f == [g EXCEPT !.at = @ + 1]
  <2>1. Update(t, f) /\ UNCHANGED <<lock, listeners, owned, size, storage>>
    BY <1>7 DEF SendFill
  <2>2. /\ f.step = "fill" /\ f.at = g.at + 1 /\ f.kept = g.kept /\ f.called = g.called
        /\ f.alone = g.alone
    BY <1>1 DEF Frames
  <2>3. f \in Frames
    <3>1. g.at + 1 \in 1..(N + 1)
      BY <1>3
    <3>2. QED
      BY <1>1, <3>1 DEF Frames
  <2> HIDE DEF f
  <2>4. TypeOK'
    BY <1>1, <2>1, <2>3, UpdateTypes DEF TypeOK
  <2>5. FramesInOrder'
    BY <1>1, <2>1, <2>2, <2>3, UpdateOrder
  <2>6. SnapshotWritten'
    BY <2>1 DEF SnapshotWritten
  <2>7. f.alone => Delivering(f, size', storage')
    <3>1. SUFFICES ASSUME g.alone PROVE Delivering(f, size, storage)
      BY <2>1, <2>2
    <3>2. Delivering(g, size, storage)
      BY <1>1, <3>1, TopDelivering
    <3>3. Begun(g) = 0 /\ Begun(f) = 0
      BY <1>1, <2>2 DEF Begun
    <3>4. QED
      BY <1>3, <2>2, <3>2, <3>3 DEF Delivering
  <2>8. Lone'
    BY <1>1, <2>1, <2>2, <2>3, <2>7, UpdateLone
  <2>9. Filling'
    <3>1. SUFFICES ASSUME NEW u \in Threads, In(u, "fill")'
                   PROVE  LET h == Top(u)'
                          IN  /\ lock = u
                              /\ h.at <= Len(listeners) + 1
                              /\ size <= Len(h.kept) /\ Len(h.kept) < h.at
                              /\ IsInjective(h.kept)
                              /\ ToSet(h.kept) \subseteq Passed(h.at - 1)
                              /\ Passed(h.at - 1) \cap owned \subseteq ToSet(h.kept)
      BY <2>1 DEF Filling
    <3>2. u = t
      <4>1. SUFFICES ASSUME u # t PROVE FALSE
        OBVIOUS
      <4>2. frames'[u] = frames[u]
        BY <1>1, <2>1, <2>3, <4>1, UpdateFrames
      <4>3. In(u, "fill")
        BY <3>1, <4>2 DEF In, Top
      <4>4. QED
        BY <1>5, <4>1, <4>3
    <3>3. Top(u)' = f
      BY <1>1, <2>1, <2>3, <3>2, UpdateFrames DEF Top, Last
    <3>4. f.at - 1 = g.at
      BY <1>3, <2>2
    <3>5. l \notin owned
      BY <1>7 DEF Alive
    <3>6. ToSet(g.kept) \subseteq Passed(g.at) /\ Passed(g.at) \cap owned \subseteq ToSet(g.kept)
      BY <1>2, <1>4, <3>5
    <3>7. g.at + 1 <= Len(listeners) + 1 /\ Len(g.kept) < g.at + 1
      BY <1>2, <1>3
    <3> HIDE DEF Passed
    <3>8. QED
      BY <1>2, <2>2, <3>2, <3>3, <3>4, <3>6, <3>7
  <2>10. QED
    BY <2>4, <2>5, <2>6, <2>8, <2>9
<1>8. QED
  BY <1>6, <1>7

(* What SendUnlock leaves of the list.                                     *)
LEMMA UnlockList ==
  ASSUME SendInv, NEW t \in Threads, SendUnlock(t)
  PROVE  /\ frames[t] # <<>> /\ Top(t) \in Frames /\ Top(t).step = "fill" /\ lock = t
         /\ listeners' = Top(t).kept /\ listeners' \in Seq(Listeners) /\ IsInjective(listeners')
         /\ ToSet(listeners) \cap owned \subseteq ToSet(listeners')
<1> DEFINE g == Top(t)
<1>1. frames[t] # <<>> /\ g \in Frames /\ g.step = "fill" /\ In(t, "fill")
  BY TopProperties DEF SendUnlock, In, SendInv
<1>2. /\ lock = t /\ IsInjective(g.kept) /\ g.at <= Len(listeners) + 1
      /\ {listeners[i] : i \in 1..(g.at - 1)} \cap owned \subseteq ToSet(g.kept)
  BY <1>1 DEF Filling, SendInv
<1>3. Len(listeners) \in Nat /\ DOMAIN listeners = 1..Len(listeners)
  BY LenProperties DEF SendInv, TypeOK
<1>4. g.at - 1 = Len(listeners)
  BY <1>1, <1>2, <1>3, FrameFields DEF SendUnlock
<1>5. ToSet(listeners) = {listeners[i] : i \in 1..(g.at - 1)}
  BY <1>3, <1>4 DEF ToSet
<1>6. QED
  BY <1>1, <1>2, <1>5, FrameFields DEF SendUnlock

LEMMA UnlockSendInv ==
  ASSUME SendInv, NEW t \in Threads, SendUnlock(t)
  PROVE  SendInv'
<1> DEFINE g == Top(t)
           f == [g EXCEPT !.step = "test", !.at = 1]
<1>1. /\ frames[t] # <<>> /\ g \in Frames /\ g.step = "fill" /\ lock = t
      /\ listeners' \in Seq(Listeners) /\ IsInjective(listeners')
  BY UnlockList
<1> USE DEF SendInv
<1>2. Update(t, f) /\ lock' = NoThread /\ UNCHANGED <<storage, size, owned>>
  BY DEF SendUnlock
<1>3. /\ f.step = "test" /\ f.alone = g.alone /\ f.at = 1 /\ f.kept = g.kept
      /\ f.called = g.called
  BY <1>1 DEF Frames
<1>4. f \in Frames
  <2>1. 1 \in 1..(Cardinality(Listeners) + 1)
    BY <1>1, FrameFields
  <2>2. QED
    BY <1>1, <2>1 DEF Frames
<1> HIDE DEF f
<1>5. TypeOK'
  BY <1>1, <1>2, <1>4, UpdateTypes DEF TypeOK
<1>6. FramesInOrder'
  BY <1>1, <1>2, <1>3, <1>4, UpdateOrder
<1>7. SnapshotWritten'
  BY <1>2 DEF SnapshotWritten
<1>8. f.alone => Delivering(f, size', storage')
  <2>1. SUFFICES ASSUME g.alone PROVE Delivering(f, size, storage)
    BY <1>2, <1>3
  <2>2. Delivering(g, size, storage)
    BY <1>1, <2>1, TopDelivering
  <2>3. Begun(g) = 0 /\ Begun(f) = 0
    BY <1>1, <1>3 DEF Begun
  <2>4. QED
    BY <1>3, <2>2, <2>3 DEF Delivering
<1>9. Lone'
  BY <1>1, <1>2, <1>3, <1>4, <1>8, UpdateLone
<1>10. Filling'
  <2>1. SUFFICES ASSUME NEW u \in Threads, In(u, "fill")' PROVE FALSE
    BY DEF Filling
  <2>2. CASE u = t
    BY <1>1, <1>2, <1>3, <1>4, <2>1, <2>2, UpdateFrames DEF In, Top, Last
  <2>3. CASE u # t
    <3>1. frames'[u] = frames[u]
      BY <1>1, <1>2, <1>4, <2>3, UpdateFrames
    <3>2. In(u, "fill")
      BY <2>1, <3>1 DEF In, Top
    <3>3. QED
      BY <1>1, <2>3, <3>2 DEF Filling
  <2>4. QED
    BY <2>2, <2>3
<1>11. QED
  BY <1>5, <1>6, <1>7, <1>9, <1>10

(* A call that ends leaves the thread in the callback it was made from.    *)
LEMMA EndSendInv ==
  ASSUME SendInv, NEW t \in Threads, SendEnd(t)
  PROVE  SendInv'
<1> USE DEF SendInv
<1> DEFINE s == frames[t]
           r == Front(s)
<1>1. s # <<>> /\ s \in Seq(Frames) /\ Len(s) \in Nat \ {0} /\ DOMAIN s = 1..Len(s)
  BY TopProperties DEF SendEnd, In
<1>2. /\ r \in Seq(Frames) /\ Len(r) = Len(s) - 1 /\ DOMAIN r = 1..(Len(s) - 1)
      /\ \A k \in 1..(Len(s) - 1) : r[k] = s[k]
  BY <1>1, SubSeqProperties, LenProperties DEF Front
<1>3. /\ frames' = [frames EXCEPT ![t] = r] /\ size' = 0
      /\ UNCHANGED <<lock, listeners, storage, owned>>
  BY DEF SendEnd
<1>4. frames \in [Threads -> Seq(Frames)] /\ \A u \in Threads : Len(frames[u]) <= MaxNesting
  BY DEF TypeOK
<1>5. frames'[t] = r /\ \A u \in Threads \ {t} : frames'[u] = frames[u]
  <2> HIDE DEF r
  <2>1. QED
    BY <1>3, <1>4
<1>6. TypeOK'
  <2>1. Cardinality(Listeners) \in Nat
    BY ListenersAssumption, FS_CardinalityType
  <2>2. Len(r) <= MaxNesting
    BY <1>1, <1>2, <1>4, MaxNestingAssumption
  <2>3. frames' \in [Threads -> Seq(Frames)]
    <3> HIDE DEF r
    <3>1. QED
      BY <1>2, <1>3, <1>4
  <2> HIDE DEF r
  <2>4. \A u \in Threads : Len(frames'[u]) <= MaxNesting
    BY <1>4, <1>5, <2>2
  <2>5. QED
    BY <1>3, <2>1, <2>3, <2>4 DEF TypeOK
<1> HIDE DEF r
<1>7. FramesInOrder'
  <2>1. SUFFICES ASSUME NEW u \in Threads, NEW k \in DOMAIN frames'[u]
                 PROVE  LET f == frames'[u][k]
                        IN  /\ k < Len(frames'[u]) => f.step = "callback"
                            /\ f.step \in {"fetch", "callback"} => f.at \in Slots
                            /\ f.step = "fetch" => storage'[f.at] # NoListener
    BY DEF FramesInOrder
  <2>2. CASE u = t
    <3>1. k \in 1..(Len(s) - 1) /\ k \in DOMAIN s /\ k < Len(s) /\ frames'[u][k] = s[k]
      BY <1>1, <1>2, <1>5, <2>1, <2>2
    <3>2. s[k].step = "callback" /\ s[k].at \in Slots
      BY <3>1 DEF FramesInOrder
    <3>3. QED
      BY <3>1, <3>2
  <2>3. CASE u # t
    BY <1>3, <1>5, <2>1, <2>3 DEF FramesInOrder
  <2>4. QED
    BY <2>2, <2>3
<1>8. SnapshotWritten'
  BY <1>3 DEF SnapshotWritten
<1>9. Filling'
  <2>1. SUFFICES ASSUME NEW u \in Threads, In(u, "fill")'
                 PROVE  LET h == Top(u)'
                        IN  /\ lock = u
                            /\ h.at <= Len(listeners) + 1
                            /\ 0 <= Len(h.kept) /\ Len(h.kept) < h.at
                            /\ IsInjective(h.kept)
                            /\ ToSet(h.kept) \subseteq {listeners[i] : i \in 1..(h.at - 1)}
                            /\ {listeners[i] : i \in 1..(h.at - 1)} \cap owned
                                 \subseteq ToSet(h.kept)
    BY <1>3 DEF Filling
  <2>2. u # t
    <3>1. SUFFICES ASSUME u = t PROVE FALSE
      OBVIOUS
    <3>2. r # <<>> /\ r[Len(r)].step = "fill"
      BY <1>5, <2>1, <3>1 DEF In, Top, Last
    <3>3. Len(r) \in 1..(Len(s) - 1)
      BY <1>1, <1>2, <3>2, EmptySeq, LenProperties
    <3>4. Len(r) \in DOMAIN s /\ Len(r) < Len(s)
      BY <1>1, <3>3
    <3>5. s[Len(r)].step = "callback"
      BY <3>4 DEF FramesInOrder
    <3>6. QED
      BY <1>2, <3>2, <3>3, <3>5
  <2>3. Top(u)' = Top(u) /\ In(u, "fill")
    BY <1>5, <2>1, <2>2 DEF In, Top
  <2>4. Len(Top(u).kept) \in Nat
    BY <2>3, TopProperties, FrameFields DEF In
  <2>5. LET h == Top(u)
        IN  /\ lock = u
            /\ h.at <= Len(listeners) + 1
            /\ Len(h.kept) < h.at
            /\ IsInjective(h.kept)
            /\ ToSet(h.kept) \subseteq {listeners[i] : i \in 1..(h.at - 1)}
            /\ {listeners[i] : i \in 1..(h.at - 1)} \cap owned \subseteq ToSet(h.kept)
    BY <2>3 DEF Filling
  <2>6. QED
    BY <2>3, <2>4, <2>5
<1>10. Lone'
  <2>1. SUFFICES ASSUME NEW u \in Threads, NEW k \in DOMAIN frames'[u], frames'[u][k].alone
                 PROVE  FALSE
    BY DEF Lone
  <2>2. CASE u = t
    <3>1. k \in 1..(Len(s) - 1) /\ k \in DOMAIN s /\ frames'[u][k] = s[k]
      BY <1>1, <1>2, <1>5, <2>1, <2>2
    <3>2. s[k].alone
      BY <2>1, <3>1
    <3>3. Len(s) = 1
      BY <3>1, <3>2 DEF Lone
    <3>4. QED
      BY <3>1, <3>3
  <2>3. CASE u # t
    <3>1. frames'[u] = frames[u]
      BY <1>5, <2>3
    <3>2. frames[t] = <<>>
      BY <2>1, <2>3, <3>1 DEF Lone
    <3>3. QED
      BY <1>1, <3>2
  <2>4. QED
    BY <2>2, <2>3
<1>11. QED
  BY <1>6, <1>7, <1>8, <1>9, <1>10

(* The calls of a thread when another one begins: none of them is alone.   *)
Overlapped(q) == [k \in DOMAIN q |-> [q[k] EXCEPT !.alone = FALSE]]

LEMMA OverlappedCall ==
  ASSUME NEW f \in Frames
  PROVE  LET d == [f EXCEPT !.alone = FALSE]
         IN  /\ d \in Frames /\ d.step = f.step /\ d.at = f.at /\ d.kept = f.kept
             /\ d.alone = FALSE
BY DEF Frames

LEMMA OverlappedCalls ==
  ASSUME NEW q \in Seq(Frames)
  PROVE  /\ Overlapped(q) \in Seq(Frames) /\ Len(Overlapped(q)) = Len(q)
         /\ DOMAIN Overlapped(q) = 1..Len(q)
         /\ \A k \in 1..Len(q) :
              /\ Overlapped(q)[k].step = q[k].step /\ Overlapped(q)[k].at = q[k].at
              /\ Overlapped(q)[k].kept = q[k].kept /\ Overlapped(q)[k].alone = FALSE
<1>1. Len(q) \in Nat /\ DOMAIN q = 1..Len(q) /\ \A k \in 1..Len(q) : q[k] \in Frames
  BY LenProperties, ElementOfSeq
<1>2. \A k \in 1..Len(q) : Overlapped(q)[k] = [q[k] EXCEPT !.alone = FALSE]
  BY <1>1 DEF Overlapped
<1>3. DOMAIN Overlapped(q) = 1..Len(q)
  BY <1>1 DEF Overlapped
<1>4. ASSUME NEW k \in 1..Len(q)
      PROVE  /\ Overlapped(q)[k] \in Frames
             /\ Overlapped(q)[k].step = q[k].step /\ Overlapped(q)[k].at = q[k].at
             /\ Overlapped(q)[k].kept = q[k].kept /\ Overlapped(q)[k].alone = FALSE
  <2>1. q[k] \in Frames /\ Overlapped(q)[k] = [q[k] EXCEPT !.alone = FALSE]
    BY <1>1, <1>2
  <2>2. QED
    BY <2>1, OverlappedCall
<1>5. Overlapped(q) \in [1..Len(q) -> Frames]
  <2>1. Overlapped(q) = [k \in 1..Len(q) |-> Overlapped(q)[k]]
    BY <1>3 DEF Overlapped
  <2>2. QED
    BY <1>4, <2>1
<1>6. Overlapped(q) \in Seq(Frames) /\ Len(Overlapped(q)) = Len(q)
  BY <1>1, <1>5, IsASeq, LenProperties
<1>7. QED
  BY <1>3, <1>4, <1>6

(* A new call empties the vector, and no call under way is alone any more. *)
LEMMA BeginSendInv ==
  ASSUME SendInv, NEW t \in Threads, SendBegin(t)
  PROVE  SendInv'
<1> USE DEF SendInv
<1> DEFINE s == frames[t]
           new == [step |-> "fill", at |-> 1, kept |-> <<>>, called |-> <<>>,
                   alone |-> NobodySends]
           r == Append(Overlapped(s), new)
<1>1. \A u \in Threads : /\ frames[u] \in Seq(Frames) /\ Len(frames[u]) \in Nat
                         /\ DOMAIN frames[u] = 1..Len(frames[u])
                         /\ \A k \in DOMAIN frames[u] : frames[u][k] \in Frames
  BY LenProperties, ElementOfSeq DEF TypeOK
<1>2. ASSUME NEW u \in Threads
      PROVE  /\ Overlapped(frames[u]) \in Seq(Frames)
             /\ Len(Overlapped(frames[u])) = Len(frames[u])
             /\ DOMAIN Overlapped(frames[u]) = 1..Len(frames[u])
             /\ \A k \in 1..Len(frames[u]) :
                  /\ Overlapped(frames[u])[k].step = frames[u][k].step
                  /\ Overlapped(frames[u])[k].at = frames[u][k].at
                  /\ Overlapped(frames[u])[k].kept = frames[u][k].kept
                  /\ Overlapped(frames[u])[k].alone = FALSE
  BY <1>1, OverlappedCalls
<1>3. new \in Frames
  <2>1. Cardinality(Listeners) \in Nat /\ <<>> \in Seq(Listeners)
    BY ListenersAssumption, FS_CardinalityType, EmptySeq
  <2>2. 1 \in 1..(Cardinality(Listeners) + 1)
    BY <2>1
  <2>3. NobodySends \in BOOLEAN
    BY DEF NobodySends
  <2>4. QED
    BY <2>1, <2>2, <2>3 DEF Frames
<1>4. /\ lock = NoThread /\ lock' = t /\ size' = 0 /\ Len(s) < MaxNesting
      /\ UNCHANGED <<listeners, storage, owned>>
      /\ frames' = [[u \in Threads |-> Overlapped(frames[u])]
                      EXCEPT ![t] = Append(@, new)]
  BY DEF SendBegin, Overlapped
<1>5. /\ new.step = "fill" /\ new.at = 1 /\ new.kept = <<>> /\ new.called = <<>>
      /\ new.alone = NobodySends
  OBVIOUS
<1>6. frames'[t] = r /\ \A u \in Threads \ {t} : frames'[u] = Overlapped(frames[u])
  BY <1>4
<1> HIDE DEF new, s
<1>15. /\ r \in Seq(Frames) /\ Len(r) = Len(s) + 1 /\ r[Len(s) + 1] = new
       /\ \A k \in 1..Len(s) : r[k] = Overlapped(s)[k]
       /\ DOMAIN r = 1..(Len(s) + 1)
  <2>1. /\ Overlapped(s) \in Seq(Frames) /\ Len(Overlapped(s)) = Len(s) /\ Len(s) \in Nat
    BY <1>1, <1>2 DEF s
  <2>2. QED
    BY <1>3, <2>1, AppendProperties, LenProperties
<1> USE DEF s
<1> HIDE DEF r
<1>7. TypeOK'
  <2>1. Cardinality(Listeners) \in Nat
    BY ListenersAssumption, FS_CardinalityType
  <2>2. frames' \in [Threads -> Seq(Frames)]
    <3>1. DOMAIN frames' = Threads /\ frames' = [u \in DOMAIN frames' |-> frames'[u]]
      BY <1>4
    <3>2. \A u \in Threads : frames'[u] \in Seq(Frames)
      BY <1>2, <1>15, <1>6
    <3>3. QED
      BY <3>1, <3>2
  <2>3. \A u \in Threads : Len(frames'[u]) <= MaxNesting
    <3>1. Len(r) <= MaxNesting
      BY <1>1, <1>15, <1>4, MaxNestingAssumption
    <3>2. \A u \in Threads : Len(Overlapped(frames[u])) <= MaxNesting
      BY <1>2 DEF TypeOK
    <3>3. QED
      BY <1>6, <3>1, <3>2
  <2>4. QED
    BY <1>4, <2>1, <2>2, <2>3 DEF TypeOK
<1>9. \A k \in 1..Len(s) : s[k].step = "callback" /\ s[k].at \in Slots
  <2>1. TAKE k \in 1..Len(s)
  <2>2. k \in DOMAIN s /\ s # <<>>
    BY <1>1, EmptySeq
  <2>3. s[k].step = "callback"
    <3>1. CASE k < Len(s)
      BY <2>2, <3>1 DEF FramesInOrder
    <3>2. CASE k = Len(s)
      BY <2>2, <3>2, TopProperties DEF SendBegin, Free, In
    <3>3. QED
      BY <1>1, <3>1, <3>2
  <2>4. QED
    BY <2>2, <2>3 DEF FramesInOrder
<1>10. FramesInOrder'
  <2>1. SUFFICES ASSUME NEW u \in Threads, NEW k \in DOMAIN frames'[u]
                 PROVE  LET f == frames'[u][k]
                        IN  /\ k < Len(frames'[u]) => f.step = "callback"
                            /\ f.step \in {"fetch", "callback"} => f.at \in Slots
                            /\ f.step = "fetch" => storage[f.at] # NoListener
    BY <1>4 DEF FramesInOrder
  <2>2. CASE u = t
    <3>1. CASE k \in 1..Len(s)
      <4>1. frames'[u][k] = Overlapped(s)[k]
        BY <1>15, <1>6, <2>2, <3>1
      <4>2. Overlapped(s)[k].step = "callback" /\ Overlapped(s)[k].at \in Slots
        BY <1>2, <1>9, <3>1
      <4>3. QED
        BY <4>1, <4>2
    <3>2. CASE k = Len(s) + 1
      BY <1>1, <1>15, <1>6, <1>5, <2>2, <3>2
    <3>3. k \in 1..Len(s) \/ k = Len(s) + 1
      BY <1>1, <1>15, <1>6, <2>2
    <3>4. QED
      BY <3>1, <3>2, <3>3
  <2>3. CASE u # t
    <3>1. frames'[u] = Overlapped(frames[u])
      BY <1>6, <2>3
    <3>2. k \in 1..Len(frames[u]) /\ k \in DOMAIN frames[u] /\ Len(frames'[u]) = Len(frames[u])
      BY <1>1, <1>2, <2>1, <3>1, LenProperties
    <3>3. frames'[u][k].step = frames[u][k].step /\ frames'[u][k].at = frames[u][k].at
      BY <1>2, <3>1, <3>2
    <3>4. QED
      BY <3>2, <3>3 DEF FramesInOrder
  <2>4. QED
    BY <2>2, <2>3
<1>11. SnapshotWritten'
  BY <1>4 DEF SnapshotWritten
<1>12. Filling'
  <2>1. SUFFICES ASSUME NEW u \in Threads, In(u, "fill")'
                 PROVE  LET h == Top(u)'
                        IN  /\ t = u
                            /\ h.at <= Len(listeners) + 1
                            /\ 0 <= Len(h.kept) /\ Len(h.kept) < h.at
                            /\ IsInjective(h.kept)
                            /\ ToSet(h.kept) \subseteq {listeners[i] : i \in 1..(h.at - 1)}
                            /\ {listeners[i] : i \in 1..(h.at - 1)} \cap owned
                                 \subseteq ToSet(h.kept)
    BY <1>4 DEF Filling
  <2>2. u = t
    <3>1. SUFFICES ASSUME u # t PROVE FALSE
      OBVIOUS
    <3>2. frames'[u] = Overlapped(frames[u])
      BY <1>6, <3>1
    <3>3. frames'[u] # <<>> /\ frames'[u][Len(frames'[u])].step = "fill"
      BY <2>1 DEF In, Top, Last
    <3>4. Len(frames'[u]) = Len(frames[u]) /\ Len(frames[u]) \in 1..Len(frames[u])
      <4>1. frames'[u] \in Seq(Frames) /\ Len(frames'[u]) = Len(frames[u])
        BY <1>2, <3>2
      <4>2. Len(frames'[u]) # 0
        BY <3>3, <4>1, EmptySeq
      <4>3. QED
        BY <1>1, <4>1, <4>2
    <3>5. frames[u][Len(frames[u])].step = "fill"
      BY <1>2, <3>2, <3>3, <3>4
    <3>6. frames[u] # <<>>
      BY <3>4, EmptySeq
    <3>7. In(u, "fill")
      BY <3>5, <3>6 DEF In, Top, Last
    <3>8. QED
      BY <1>4, <3>7, FreeLock
  <2>3. Top(u)' = new
    BY <1>15, <1>6, <2>2 DEF Top, Last
  <2>4. Len(listeners) \in Nat
    BY LenProperties DEF TypeOK
  <2>5. ToSet(<<>>) = {} /\ IsInjective(<<>>) /\ Len(<<>>) = 0
    BY EmptySeq DEF ToSet, IsInjective
  <2>6. {listeners[i] : i \in 1..(1 - 1)} = {}
    OBVIOUS
  <2>7. QED
    BY <1>5, <2>2, <2>3, <2>4, <2>5, <2>6
<1>13. Lone'
  <2>1. SUFFICES ASSUME NEW u \in Threads, NEW k \in DOMAIN frames'[u], frames'[u][k].alone
                 PROVE  /\ Len(frames'[u]) = 1
                        /\ \A v \in Threads \ {u} : frames'[v] = <<>>
                        /\ Delivering(frames'[u][k], 0, storage)
    BY <1>4 DEF Lone
  <2>2. u = t
    <3>1. SUFFICES ASSUME u # t PROVE FALSE
      OBVIOUS
    <3>2. frames'[u] = Overlapped(frames[u])
      BY <1>6, <3>1
    <3>3. k \in 1..Len(frames[u])
      BY <1>1, <1>2, <2>1, <3>2, LenProperties
    <3>4. QED
      BY <1>2, <2>1, <3>2, <3>3
  <2>3. k = Len(s) + 1
    <3>1. k \in 1..(Len(s) + 1)
      BY <1>15, <1>6, <2>2
    <3>2. k \notin 1..Len(s)
      BY <1>2, <1>15, <1>6, <2>1, <2>2
    <3>3. QED
      BY <1>1, <3>1, <3>2
  <2>4. frames'[u][k] = new /\ NobodySends
    BY <1>15, <1>6, <1>5, <2>1, <2>2, <2>3
  <2>5. Len(s) = 0 /\ \A v \in Threads \ {t} : frames'[v] = <<>>
    <3>1. \A v \in Threads : frames[v] = <<>> /\ Len(frames[v]) = 0
      BY <2>4, EmptySeq DEF NobodySends
    <3>2. ASSUME NEW v \in Threads PROVE Overlapped(frames[v]) = <<>>
      <4>1. Overlapped(frames[v]) \in Seq(Frames) /\ Len(Overlapped(frames[v])) = 0
        BY <1>2, <3>1
      <4>2. QED
        BY <4>1, EmptySeq
    <3>3. QED
      BY <1>6, <3>1, <3>2
  <2>6. Delivering(new, 0, storage)
    <3>1. Len(<<>>) = 0 /\ Begun(new) = 0
      BY <1>5, EmptySeq DEF Begun
    <3>2. QED
      BY <1>5, <3>1 DEF Delivering
  <2>7. QED
    BY <1>15, <1>6, <2>2, <2>4, <2>5, <2>6
<1>14. QED
  BY <1>7, <1>10, <1>11, <1>12, <1>13

-----------------------------------------------------------------------------
(***************************************************************************)
(* Theorems.                                                               *)
(***************************************************************************)
(* Every step of a registration, a broadcast or an owner keeps the         *)
(* invariant.                                                              *)
LEMMA NextSendInvariant == SendInv /\ [Next]_vars => SendInv'
<1> SUFFICES ASSUME SendInv, [Next]_vars PROVE SendInv'
  OBVIOUS
<1>1. ASSUME NEW t \in Threads, Send(t) PROVE SendInv'
  BY <1>1, BeginSendInv, FillSendInv, UnlockSendInv, TestSendInv, CallSendInv, NextSendInv,
     EndSendInv DEF Send
<1>2. ASSUME NEW t \in Threads, NEW l \in Listeners, Register(t, l) PROVE SendInv'
  BY <1>2, RegisterSendInv
<1>3. ASSUME NEW l \in Listeners, Drop(l) PROVE SendInv'
  BY <1>3, OwnersFewer DEF Drop
<1>4. CASE UNCHANGED vars
  BY <1>4, OwnersFewer DEF vars
<1>5. QED
  BY <1>1, <1>2, <1>3, <1>4 DEF Next

(* The list, the vector and the calls always agree.                        *)
THEOREM SendInvariant == Spec => []SendInv
BY InitSendInv, NextSendInvariant, PTL DEF Spec

(* The types; and a listener is registered once.                           *)
THEOREM RegisteredOnce == Spec => []TypeOK
<1>1. SendInv => TypeOK
  BY DEF SendInv
<1> QED
  BY <1>1, SendInvariant, PTL

(* A lone broadcast calls every live listener, once and in order.          *)
THEOREM DeliverySafe == Spec => []LoneSendDelivers
<1>1. SendInv => LoneSendDelivers
  <2>1. SUFFICES ASSUME SendInv, NEW t \in Threads, In(t, "clear"), Top(t).alone
                 PROVE  Top(t).called = Top(t).kept
    BY DEF LoneSendDelivers
  <2> DEFINE f == Top(t)
  <2>2. frames[t] # <<>> /\ f.step = "clear" /\ f \in Frames
    BY <2>1, TopProperties DEF In, SendInv
  <2>3. Delivering(f, size, storage)
    BY <2>1, <2>2, TopDelivering DEF SendInv
  <2>4. Begun(f) = Len(f.kept)
    BY <2>2 DEF Begun
  <2>5. f.kept \in Seq(Listeners) /\ f.called \in Seq(Listeners)
    BY <2>2, FrameFields
  <2> HIDE DEF f
  <2>6. Len(f.called) = Len(f.kept) /\ \A i \in 1..Len(f.called) : f.called[i] = f.kept[i]
    BY <2>3, <2>4 DEF Delivering
  <2>7. f.called = f.kept
    BY <2>5, <2>6, SeqEqual
  <2>8. QED
    BY <2>7 DEF f
<1> QED
  BY <1>1, SendInvariant, PTL

(* In it a listener outlives its callback.                                 *)
THEOREM CallbackSafe == Spec => []LoneCallbackAlive
<1>1. SendInv => LoneCallbackAlive
  <2>1. SUFFICES ASSUME SendInv, NEW t \in Threads, In(t, "callback"), Top(t).alone
                 PROVE  Last(Top(t).called) \in InSnapshot
    BY DEF LoneCallbackAlive, Alive
  <2> DEFINE f == Top(t)
  <2>2. frames[t] # <<>> /\ f.step = "callback" /\ f \in Frames /\ f.at \in Slots
    BY <2>1, TopProperties DEF In, SendInv, FramesInOrder
  <2>3. Delivering(f, size, storage) /\ Begun(f) = f.at
    BY <2>1, <2>2, TopDelivering DEF SendInv, Begun
  <2>3a. Cardinality(Listeners) \in Nat
    BY ListenersAssumption, FS_CardinalityType
  <2> HIDE DEF f
  <2>4. f.at \in Nat \ {0} /\ size \in Nat
    <3>1. f.at \in 1..Cardinality(Listeners)
      BY <2>2 DEF Slots, f
    <3>2. size \in 0..Cardinality(Listeners)
      BY <2>1 DEF SendInv, TypeOK
    <3>3. QED
      BY <2>3a, <3>1, <3>2
  <2>5. Len(f.called) = f.at /\ f.at \in 1..size /\ f.called[f.at] = storage[f.at]
    BY <2>3, <2>4 DEF Delivering
  <2>6. QED
    BY <2>5 DEF InSnapshot, Last, f
<1> QED
  BY <1>1, SendInvariant, PTL

(* A live listener stays registered.                                       *)
THEOREM RegistrationSafe == Spec => RegistrationKept
<1> DEFINE Kept == \A l \in owned' : l \in ToSet(listeners) => l \in ToSet(listeners')
<1>1. SendInv /\ [Next]_vars => Kept
  <2>1. SUFFICES ASSUME SendInv, [Next]_vars PROVE Kept
    OBVIOUS
  <2>2. CASE UNCHANGED listeners
    BY <2>2
  <2>3. ASSUME NEW t \in Threads, NEW l \in Listeners, Register(t, l) PROVE Kept
    <3>1. owned' = owned /\ {k \in ToSet(listeners) : Alive(k)} \subseteq ToSet(listeners')
      BY <2>1, <2>3, RegisterList DEF Register, SendInv
    <3>2. QED
      BY <3>1 DEF Alive
  <2>4. ASSUME NEW t \in Threads, SendUnlock(t) PROVE Kept
    <3>1. owned' = owned
      BY <2>4 DEF SendUnlock
    <3>2. ToSet(listeners) \cap owned \subseteq ToSet(listeners')
      BY <2>1, <2>4, UnlockList
    <3>3. QED
      BY <3>1, <3>2
  <2>5. QED
    BY <2>1, <2>2, <2>3, <2>4 DEF Next, vars, Send, SendBegin, SendFill, SendTest, SendCall,
       SendNext, SendEnd, Drop
<1> QED
  BY <1>1, SendInvariant, PTL DEF Spec, RegistrationKept

-----------------------------------------------------------------------------
(***************************************************************************)
(* SimpleLock.                                                             *)
(***************************************************************************)
USE NoThreadAssumption, MaxDepthAssumption

(* Nothing is held or under way when the lock is constructed.              *)
LEMMA InitLockInv == LockInit => LockInv
<1> SUFFICES ASSUME LockInit PROVE LockInv
  OBVIOUS
<1>1. LockTypeOK
  <2>1. 0 \in 0..MaxDepth
    OBVIOUS
  <2>2. pc \in [Threads -> Steps]
    BY DEF LockInit, Steps
  <2>3. call \in [Threads -> Calls]
    BY DEF LockInit, Calls
  <2> QED
    BY <2>1, <2>2, <2>3 DEF LockInit, LockTypeOK
<1>2. FlagOwned /\ HolderRecorded /\ CountRecorded
  BY DEF LockInit, FlagOwned, HolderRecorded, CountRecorded, HasFlag, Taking, Giving
<1>3. \A t \in Threads : StepKnows(t)
  BY DEF LockInit, StepKnows, Taking, Giving
<1> QED
  BY <1>1, <1>2, <1>3 DEF LockInv

(* Every access of the lock's members preserves the invariant.             *)
LEMMA StepLockInv ==
  ASSUME LockInv, NEW t \in Threads, Step(t)
  PROVE  LockInv'
<1> USE DEF LockInv
<1>1. ASSUME NEW op \in Calls, Call(t, op) PROVE LockInv'
  <2>1. LockTypeOK'
    BY <1>1 DEF Call, Goto, LockTypeOK, Steps, Calls
  <2>2. FlagOwned' /\ HolderRecorded' /\ CountRecorded'
    BY <1>1 DEF Call, Goto, LockTypeOK, FlagOwned, HolderRecorded, CountRecorded,
                HasFlag, Taking, Giving
  <2>3. \A u \in Threads : StepKnows(u)'
    BY <1>1 DEF Call, Goto, LockTypeOK, StepKnows, Taking, Giving, Calls
  <2> QED
    BY <2>1, <2>2, <2>3
<1>2. CASE ReadCount(t)
  <2> PICK c \in CountSeenBy(t) :
        Goto(t, "readCount", IF c = 0 THEN OnFree(t) ELSE "readHolder")
    BY <1>2 DEF ReadCount
  <2>1. LockTypeOK'
    BY <1>2 DEF ReadCount, Goto, LockTypeOK, Steps, OnFree
  <2>2. FlagOwned' /\ HolderRecorded' /\ CountRecorded'
    BY <1>2 DEF ReadCount, Goto, LockTypeOK, FlagOwned, HolderRecorded, CountRecorded,
                HasFlag, Taking, Giving, OnFree
  <2>3. taken[t] > 0 => c > 0
    BY DEF CountSeenBy, HolderRecorded, CountRecorded, LockTypeOK
  <2>4. \A u \in Threads : StepKnows(u)'
    BY <1>2, <2>3 DEF ReadCount, Goto, LockTypeOK, StepKnows, Taking, Giving, OnFree, Calls
  <2> QED
    BY <2>1, <2>2, <2>4
<1>3. CASE ReadHolder(t)
  <2> PICK h \in HolderSeenBy(t) :
        Goto(t, "readHolder", IF h = t THEN OnOwned(t) ELSE OnFree(t))
    BY <1>3 DEF ReadHolder
  <2>1. LockTypeOK'
    BY <1>3 DEF ReadHolder, Goto, LockTypeOK, Steps, OnFree, OnOwned
  <2>2. FlagOwned' /\ HolderRecorded' /\ CountRecorded'
    BY <1>3 DEF ReadHolder, Goto, LockTypeOK, FlagOwned, HolderRecorded, CountRecorded,
                HasFlag, Taking, Giving, OnFree, OnOwned
  <2>3. h = t <=> taken[t] > 0
    BY DEF HolderSeenBy, HolderRecorded, Goto
  <2>4. \A u \in Threads : StepKnows(u)'
    BY <1>3, <2>3 DEF ReadHolder, Goto, LockTypeOK, StepKnows, Taking, Giving,
                      OnFree, OnOwned, Calls
  <2> QED
    BY <2>1, <2>2, <2>4
<1>4. CASE TestAndSet(t)
  <2>1. LockTypeOK'
    BY <1>4 DEF TestAndSet, Goto, LockTypeOK, Steps
  <2>2. FlagOwned'
    BY <1>4 DEF TestAndSet, Goto, LockTypeOK, FlagOwned, HasFlag, Taking, Giving
  <2>3. HolderRecorded' /\ CountRecorded'
    BY <1>4 DEF TestAndSet, Goto, LockTypeOK, HolderRecorded, CountRecorded
  <2>4. \A u \in Threads : StepKnows(u)'
    BY <1>4 DEF TestAndSet, Goto, LockTypeOK, StepKnows, Taking, Giving
  <2> QED
    BY <2>1, <2>2, <2>3, <2>4
<1>5. CASE TimeOut(t)
  <2>1. LockTypeOK'
    BY <1>5 DEF TimeOut, Goto, LockTypeOK, Steps
  <2>2. FlagOwned' /\ HolderRecorded' /\ CountRecorded'
    BY <1>5 DEF TimeOut, Goto, LockTypeOK, FlagOwned, HolderRecorded, CountRecorded,
                HasFlag, Taking, Giving
  <2>3. \A u \in Threads : StepKnows(u)'
    BY <1>5 DEF TimeOut, Goto, LockTypeOK, StepKnows, Taking, Giving
  <2> QED
    BY <2>1, <2>2, <2>3
<1>6. CASE SetHolder(t)
  <2>1. LockTypeOK'
    BY <1>6 DEF SetHolder, Goto, LockTypeOK, Steps
  <2>2. FlagOwned' /\ CountRecorded'
    BY <1>6 DEF SetHolder, Goto, LockTypeOK, FlagOwned, CountRecorded, HasFlag, Taking, Giving
  <2>3. HolderRecorded'
    BY <1>6 DEF SetHolder, Goto, LockTypeOK, HolderRecorded, FlagOwned, HasFlag, Taking, Giving
  <2>4. \A u \in Threads : StepKnows(u)'
    BY <1>6 DEF SetHolder, Goto, LockTypeOK, StepKnows, Taking, Giving
  <2> QED
    BY <2>1, <2>2, <2>3, <2>4
<1>7. CASE SetCount(t)
  <2>1. LockTypeOK'
    BY <1>7 DEF SetCount, Goto, LockTypeOK, Steps, StepKnows, Taking
  <2>2. FlagOwned' /\ HolderRecorded'
    BY <1>7 DEF SetCount, Goto, LockTypeOK, FlagOwned, HolderRecorded, HasFlag, Taking, Giving
  <2>3. CountRecorded'
    BY <1>7 DEF SetCount, Goto, LockTypeOK, CountRecorded, FlagOwned, HasFlag, Taking,
                StepKnows
  <2>4. \A u \in Threads : StepKnows(u)'
    BY <1>7 DEF SetCount, Goto, LockTypeOK, StepKnows, Taking, Giving
  <2> QED
    BY <2>1, <2>2, <2>3, <2>4
<1>8. CASE Reenter(t)
  <2>1. LockTypeOK'
    BY <1>8 DEF Reenter, Goto, LockTypeOK, Steps, StepKnows, CountRecorded
  <2>2. FlagOwned' /\ HolderRecorded'
    BY <1>8 DEF Reenter, Goto, LockTypeOK, FlagOwned, HolderRecorded, HasFlag, Taking, Giving,
                StepKnows
  <2>3. CountRecorded'
    BY <1>8 DEF Reenter, Goto, LockTypeOK, CountRecorded, FlagOwned, HasFlag, StepKnows
  <2>4. \A u \in Threads : StepKnows(u)'
    BY <1>8 DEF Reenter, Goto, LockTypeOK, StepKnows, Taking, Giving
  <2> QED
    BY <2>1, <2>2, <2>3, <2>4
<1>9. CASE Decrement(t)
  <2>0. count = taken[t] /\ taken[t] \in 1..MaxDepth
    BY <1>9 DEF Decrement, Goto, LockTypeOK, CountRecorded, StepKnows
  <2>1. LockTypeOK'
    BY <1>9, <2>0 DEF Decrement, Goto, LockTypeOK, Steps
  <2>2. FlagOwned' /\ HolderRecorded'
    BY <1>9, <2>0 DEF Decrement, Goto, LockTypeOK, FlagOwned, HolderRecorded,
                      HasFlag, Taking, Giving
  <2>3. CountRecorded'
    BY <1>9, <2>0 DEF Decrement, Goto, LockTypeOK, CountRecorded, FlagOwned, HasFlag
  <2>4. \A u \in Threads : StepKnows(u)'
    BY <1>9, <2>0 DEF Decrement, Goto, LockTypeOK, StepKnows, Taking, Giving
  <2> QED
    BY <2>1, <2>2, <2>3, <2>4
<1>10. CASE ClearHolder(t)
  <2>1. LockTypeOK'
    BY <1>10 DEF ClearHolder, Goto, LockTypeOK, Steps
  <2>2. FlagOwned' /\ CountRecorded'
    BY <1>10 DEF ClearHolder, Goto, LockTypeOK, FlagOwned, CountRecorded, HasFlag, Taking, Giving
  <2>3. HolderRecorded'
    BY <1>10 DEF ClearHolder, Goto, LockTypeOK, HolderRecorded, FlagOwned, HasFlag,
                 Taking, Giving, StepKnows
  <2>4. \A u \in Threads : StepKnows(u)'
    BY <1>10 DEF ClearHolder, Goto, LockTypeOK, StepKnows, Taking, Giving
  <2> QED
    BY <2>1, <2>2, <2>3, <2>4
<1>11. CASE ClearFlag(t)
  <2>1. LockTypeOK'
    BY <1>11 DEF ClearFlag, Goto, LockTypeOK, Steps
  <2>2. FlagOwned'
    BY <1>11 DEF ClearFlag, Goto, LockTypeOK, FlagOwned, HasFlag, Taking, Giving, StepKnows
  <2>3. HolderRecorded' /\ CountRecorded'
    BY <1>11 DEF ClearFlag, Goto, LockTypeOK, HolderRecorded, CountRecorded
  <2>4. \A u \in Threads : StepKnows(u)'
    BY <1>11 DEF ClearFlag, Goto, LockTypeOK, StepKnows, Taking, Giving
  <2> QED
    BY <2>1, <2>2, <2>3, <2>4
<1>12. CASE Answer(t)
  <2>1. LockTypeOK'
    BY <1>12 DEF Answer, Goto, LockTypeOK, Steps
  <2>2. FlagOwned' /\ HolderRecorded' /\ CountRecorded'
    BY <1>12 DEF Answer, Goto, LockTypeOK, FlagOwned, HolderRecorded, CountRecorded,
                 HasFlag, Taking, Giving
  <2>3. \A u \in Threads : StepKnows(u)'
    BY <1>12 DEF Answer, Goto, LockTypeOK, StepKnows, Taking, Giving
  <2> QED
    BY <2>1, <2>2, <2>3
<1> QED
  BY <1>1, <1>2, <1>3, <1>4, <1>5, <1>6, <1>7, <1>8, <1>9, <1>10, <1>11, <1>12 DEF Step

(* The members of the lock and the steps of its callers always agree.      *)
THEOREM LockInvariance == LockSpec => []LockInv
<1>1. LockInv /\ [LockNext]_lockVars => LockInv'
  <2> SUFFICES ASSUME LockInv, [LockNext]_lockVars PROVE LockInv'
    OBVIOUS
  <2>1. CASE LockNext
    BY <2>1, StepLockInv DEF LockNext
  <2>2. CASE UNCHANGED lockVars
    BY <2>2 DEF lockVars, LockInv, LockTypeOK, FlagOwned, HolderRecorded, CountRecorded,
                StepKnows, HasFlag, Taking, Giving
  <2> QED
    BY <2>1, <2>2
<1> QED
  BY <1>1, InitLockInv, PTL DEF LockSpec

(* Release never reaches its assert(false).                                *)
THEOREM ReleaseSafe == LockSpec => []ReleaseNeverAsserts
<1>1. LockInv => ReleaseNeverAsserts
  BY DEF LockInv, StepKnows, ReleaseNeverAsserts
<1> QED
  BY <1>1, LockInvariance, PTL

(* The accesses of SimpleLock's members implement a re-entrant lock: a     *)
(* thread's tally goes up only while every other tally is zero, one at a   *)
(* time, and comes down one at a time.                                     *)
THEOREM Implements == LockSpec => ImplementsReentrantLock
<1>1. LockInit => Lock!Init
  BY DEF LockInit, Lock!Init
<1>2. LockInv /\ [LockNext]_lockVars => [Lock!Next]_taken
  <2> SUFFICES ASSUME LockInv, NEW t \in Threads, Step(t)
               PROVE  Lock!Next \/ UNCHANGED taken
    BY DEF LockNext, lockVars
  <2>1. CASE SetCount(t)
    <3>1. Lock!FreeFor(t)
      BY <2>1 DEF SetCount, Goto, LockInv, FlagOwned, HasFlag, Taking, LockTypeOK,
                  Lock!FreeFor, Lock!Holds
    <3> QED
      BY <2>1, <3>1 DEF SetCount, Lock!Next, Lock!Acquire
  <2>2. CASE Reenter(t)
    <3>1. Lock!FreeFor(t)
      BY <2>2 DEF Reenter, Goto, LockInv, FlagOwned, HasFlag, StepKnows, LockTypeOK,
                  Lock!FreeFor, Lock!Holds
    <3> QED
      BY <2>2, <3>1 DEF Reenter, Lock!Next, Lock!Acquire
  <2>3. CASE Decrement(t)
    <3>1. Lock!Holds(t)
      BY <2>3 DEF Decrement, Goto, LockInv, StepKnows, Lock!Holds
    <3> QED
      BY <2>3, <3>1 DEF Decrement, Lock!Next, Lock!Release
  <2> QED
    BY <2>1, <2>2, <2>3 DEF Step, Call, ReadCount, ReadHolder, TestAndSet, TimeOut,
                            SetHolder, ClearHolder, ClearFlag, Answer
<1> QED
  BY <1>1, <1>2, LockInvariance, PTL DEF LockSpec, Lock!Spec, ImplementsReentrantLock

(* IsLockedByCurrentThread answers truly.                                  *)
THEOREM AnswersSafe == LockSpec => []AnswersTruly
<1>1. LockInv => AnswersTruly
  BY DEF LockInv, StepKnows, AnswersTruly
<1> QED
  BY <1>1, LockInvariance, PTL
=============================================================================
