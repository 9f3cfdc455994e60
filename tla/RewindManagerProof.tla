-------------------------- MODULE RewindManagerProof --------------------------
(***************************************************************************)
(* Proofs about RewindManager, for any sizes, bounds and calls: its type   *)
(* invariant, that the memory total covers the blocks, that every          *)
(* difference finds its full state, that the recording is frame perfect,   *)
(* and that the screen goes back one frame at a time and stops where it    *)
(* is.  Safe, DecodeInv, FrameInv and ScreenInv are the inductive          *)
(* invariant, in four layers: each needs the ones before it.               *)
(*                                                                         *)
(* Sums over blocks are recursive functions.  Their values are proved by   *)
(* induction on a set of numbers (NatInd), from the well-foundedness of    *)
(* the natural numbers.                                                    *)
(***************************************************************************)
EXTENDS RewindManager, TLAPS, WellFoundedInduction, SequenceTheorems

-----------------------------------------------------------------------------
(***************************************************************************)
(* Induction and sums.                                                     *)
(***************************************************************************)
(* The natural numbers are well ordered.                                   *)
LEMMA NatMin ==
  ASSUME NEW S \in SUBSET Nat, S # {}
  PROVE  \E m \in S : \A n \in S : m <= n
<1>1. PICK m \in S : \A n \in S : <<n, m>> \notin OpToRel(<, Nat)
  BY NatLessThanWellFounded, WFMin
<1>2. \A n \in S : ~ (n < m)
  BY <1>1 DEF OpToRel
<1>3. QED
  BY <1>2

(* Induction, for a set of numbers.                                        *)
LEMMA NatInd ==
  ASSUME NEW S \in SUBSET Nat, 0 \in S, \A n \in S : n + 1 \in S
  PROVE  S = Nat
<1>1. SUFFICES ASSUME Nat \ S # {} PROVE FALSE
  OBVIOUS
<1>2. PICK m \in Nat \ S : \A n \in Nat \ S : m <= n
  BY <1>1, NatMin
<1>3. m # 0 /\ m - 1 \in Nat /\ m - 1 \in S
  BY <1>2
<1>4. QED
  BY <1>2, <1>3

(* The greatest element.                                                   *)
LEMMA NatMax ==
  ASSUME NEW N \in Nat, NEW S \in SUBSET (0..N), S # {}
  PROVE  \E m \in S : \A n \in S : n <= m
<1> DEFINE B == {b \in Nat : \A n \in S : n <= b}
<1>1. N \in B
  OBVIOUS
<1>2. PICK m \in B : \A b \in B : m <= b
  BY <1>1, NatMin
<1>3. CASE m \in S
  BY <1>2, <1>3
<1>4. CASE m \notin S
  <2>1. m # 0
    <3>1. PICK n \in S : TRUE
      OBVIOUS
    <3>2. n \in Nat /\ n <= m /\ n # m
      BY <1>4, <3>1
    <3>3. QED
      BY <3>2
  <2>2. m - 1 \in B
    BY <1>2, <1>4, <2>1
  <2>3. QED
    BY <1>2, <2>2
<1>5. QED
  BY <1>3, <1>4

IsSumTo(g, f, n) == g = [i \in 0..n |-> IF i = 0 THEN 0 ELSE g[i - 1] + f[i]]

(* There is a table of the sums up to any n,                               *)
LEMMA SumExists ==
  ASSUME NEW f, NEW n \in Nat
  PROVE  \E g : IsSumTo(g, f, n)
<1> DEFINE S == {m \in Nat : \E g : IsSumTo(g, f, m)}
<1>1. 0 \in S
  <2>1. IsSumTo([i \in 0..0 |-> 0], f, 0)
    BY DEF IsSumTo
  <2>2. QED
    BY <2>1
<1>2. ASSUME NEW m \in S PROVE m + 1 \in S
  <2>1. PICK g : IsSumTo(g, f, m)
    OBVIOUS
  <2> DEFINE h == [i \in 0..(m + 1) |-> IF i = 0 THEN 0 ELSE g[i - 1] + f[i]]
  <2>2. \A i \in 0..m : h[i] = g[i]
    BY <2>1 DEF IsSumTo
  <2>3. \A i \in 1..(m + 1) : i - 1 \in 0..m
    OBVIOUS
  <2>4. h = [i \in 0..(m + 1) |-> IF i = 0 THEN 0 ELSE h[i - 1] + f[i]]
    <3>1. ASSUME NEW i \in 0..(m + 1)
          PROVE  h[i] = IF i = 0 THEN 0 ELSE h[i - 1] + f[i]
      BY <2>2, <2>3
    <3> HIDE DEF h
    <3>2. DOMAIN h = 0..(m + 1) /\ h = [i \in DOMAIN h |-> h[i]]
      BY DEF h
    <3>3. QED
      BY <3>1, <3>2
  <2>5. IsSumTo(h, f, m + 1)
    BY <2>4 DEF IsSumTo
  <2>6. QED
    BY <2>5
<1>3. S = Nat
  BY <1>1, <1>2, NatInd
<1>4. QED
  BY <1>3

(* and two such tables agree where both are defined.                       *)
LEMMA SumUnique ==
  ASSUME NEW f, NEW m \in Nat, NEW n \in Nat, NEW g, NEW h,
         IsSumTo(g, f, m), IsSumTo(h, f, n)
  PROVE  \A i \in Nat : i <= m /\ i <= n => g[i] = h[i]
<1> DEFINE S == {i \in Nat : i <= m /\ i <= n => g[i] = h[i]}
<1>1. 0 \in S
  BY DEF IsSumTo
<1>2. ASSUME NEW i \in S PROVE i + 1 \in S
  <2>1. SUFFICES ASSUME i + 1 <= m, i + 1 <= n PROVE g[i + 1] = h[i + 1]
    OBVIOUS
  <2>2. g[i + 1] = g[i] + f[i + 1] /\ h[i + 1] = h[i] + f[i + 1]
    BY <2>1 DEF IsSumTo
  <2>3. QED
    BY <2>1, <2>2
<1>3. S = Nat
  BY <1>1, <1>2, NatInd
<1>4. QED
  BY <1>3

(* The equation that defines SumTo.                                        *)
LEMMA SumToDef ==
  ASSUME NEW f, NEW n \in Nat
  PROVE  SumTo(f, 0) = 0 /\ SumTo(f, n + 1) = SumTo(f, n) + f[n + 1]
<1> DEFINE G(m) == CHOOSE g : IsSumTo(g, f, m)
           s == [i \in Nat |-> G(i)[i]]
<1>1. \A m \in Nat : IsSumTo(G(m), f, m)
  BY SumExists
<1>2. \A m \in Nat : G(m + 1)[m] = G(m)[m]
  <2>1. TAKE m \in Nat
  <2>2. m + 1 \in Nat /\ IsSumTo(G(m), f, m) /\ IsSumTo(G(m + 1), f, m + 1)
    BY <1>1
  <2> HIDE DEF G
  <2>3. QED
    BY <2>2, SumUnique
<1>3. G(0)[0] = 0
  <2>1. IsSumTo(G(0), f, 0)
    BY <1>1
  <2> HIDE DEF G
  <2>2. QED
    BY <2>1 DEF IsSumTo
<1>4. \A m \in Nat : G(m + 1)[m + 1] = G(m)[m] + f[m + 1]
  <2>1. TAKE m \in Nat
  <2>2. IsSumTo(G(m + 1), f, m + 1)
    BY <1>1
  <2> HIDE DEF G
  <2>3. G(m + 1)[m + 1] = G(m + 1)[m] + f[m + 1]
    BY <2>2 DEF IsSumTo
  <2>4. QED
    BY <2>3, <1>2
<1> HIDE DEF G
<1>5. s = [i \in Nat |-> IF i = 0 THEN 0 ELSE s[i - 1] + f[i]]
  <2>1. ASSUME NEW i \in Nat PROVE s[i] = IF i = 0 THEN 0 ELSE s[i - 1] + f[i]
    <3>1. CASE i = 0
      BY <3>1, <1>3
    <3>2. CASE i # 0
      <4>1. i - 1 \in Nat /\ (i - 1) + 1 = i
        BY <3>2
      <4>2. QED
        BY <4>1, <3>2, <1>4
    <3>3. QED
      BY <3>1, <3>2
  <2>2. QED
    BY <2>1
<1> DEFINE sum == CHOOSE t : t = [i \in Nat |-> IF i = 0 THEN 0 ELSE t[i - 1] + f[i]]
<1> HIDE DEF s
<1>6. sum = [i \in Nat |-> IF i = 0 THEN 0 ELSE sum[i - 1] + f[i]]
  BY <1>5
<1>7. \A i \in Nat : SumTo(f, i) = sum[i]
  BY DEF SumTo
<1> HIDE DEF sum
<1>8. sum[0] = 0 /\ sum[n + 1] = sum[n] + f[n + 1]
  BY <1>6
<1>9. QED
  BY <1>7, <1>8

(* A sum of natural numbers is one,                                        *)
LEMMA SumToNat ==
  ASSUME NEW f, NEW n \in Nat, \A i \in 1..n : f[i] \in Nat
  PROVE  SumTo(f, n) \in Nat
<1> DEFINE S == {i \in Nat : i <= n => SumTo(f, i) \in Nat}
<1>1. 0 \in S
  BY SumToDef
<1>2. ASSUME NEW i \in S PROVE i + 1 \in S
  BY SumToDef
<1>3. S = Nat
  BY <1>1, <1>2, NatInd
<1>4. QED
  BY <1>3

(* and depends on no more than what is added.                              *)
LEMMA SumToSame ==
  ASSUME NEW f, NEW g, NEW n \in Nat, \A i \in 1..n : f[i] = g[i]
  PROVE  SumTo(f, n) = SumTo(g, n)
<1> DEFINE S == {i \in Nat : i <= n => SumTo(f, i) = SumTo(g, i)}
<1>1. 0 \in S
  BY SumToDef
<1>2. ASSUME NEW i \in S PROVE i + 1 \in S
  <2>1. SUFFICES ASSUME i + 1 <= n PROVE SumTo(f, i + 1) = SumTo(g, i + 1)
    OBVIOUS
  <2>2. f[i + 1] = g[i + 1] /\ SumTo(f, i) = SumTo(g, i)
    BY <2>1
  <2>3. QED
    BY <2>2, SumToDef
<1>3. S = Nat
  BY <1>1, <1>2, NatInd
<1>4. QED
  BY <1>3

(* A sum is that of its first terms and that of the others.                *)
LEMMA SumToSplit ==
  ASSUME NEW f, NEW g, NEW m \in Nat, NEW n \in Nat, NEW k, k = m + n,
         \A i \in 1..k : f[i] \in Nat, \A i \in 1..n : g[i] = f[m + i]
  PROVE  SumTo(f, k) = SumTo(f, m) + SumTo(g, n)
<1>1. SumTo(f, m) \in Nat
  BY SumToNat
<1> DEFINE S == {i \in Nat : i <= n => /\ SumTo(g, i) \in Nat
                                      /\ SumTo(f, m + i) = SumTo(f, m) + SumTo(g, i)}
<1>2. 0 \in S
  BY <1>1, SumToDef
<1>3. ASSUME NEW i \in S PROVE i + 1 \in S
  <2>1. SUFFICES ASSUME i + 1 <= n
                 PROVE  /\ SumTo(g, i + 1) \in Nat
                        /\ SumTo(f, m + i + 1) = SumTo(f, m) + SumTo(g, i + 1)
    OBVIOUS
  <2>2. g[i + 1] = f[m + i + 1] /\ f[m + i + 1] \in Nat
    BY <2>1
  <2>3. /\ SumTo(f, m + i + 1) = SumTo(f, m + i) + f[m + i + 1]
        /\ SumTo(g, i + 1) = SumTo(g, i) + g[i + 1]
    BY SumToDef
  <2>4. SumTo(g, i) \in Nat /\ SumTo(f, m + i) = SumTo(f, m) + SumTo(g, i)
    BY <2>1
  <2>5. QED
    BY <1>1, <2>2, <2>3, <2>4
<1>4. S = Nat
  BY <1>2, <1>3, NatInd
<1>5. QED
  BY <1>4

-----------------------------------------------------------------------------
(***************************************************************************)
(* Sequences of blocks.                                                    *)
(***************************************************************************)
Whole(h) == SizeOf(h, Len(h))

(* What a block takes, and the blocks of a history.                        *)
LEMMA SizeType ==
  ASSUME NEW b \in Blocks
  PROVE  Size(b) \in Nat
BY SizesAssumption DEF Size, Blocks

(* The sums over the first n blocks of a history.                          *)
LEMMA SizeOfType ==
  ASSUME NEW h \in Seq(Blocks), NEW n \in 0..Len(h)
  PROVE  SizeOf(h, n) \in Nat /\ CountOf(h, n) \in Nat
<1>1. \A i \in 1..n : h[i] \in Blocks /\ i \in DOMAIN h
  BY LenProperties, ElementOfSeq
<1>2. \A i \in 1..n : Size(h[i]) \in Nat /\ h[i].count \in Nat
  BY <1>1, SizeType DEF Blocks
<1>3. n \in Nat
  BY LenProperties
<1>4. QED
  BY <1>1, <1>2, <1>3, SumToNat DEF SizeOf, CountOf

(* The size of a history is that of any two parts of it.                   *)
LEMMA WholeConcat ==
  ASSUME NEW g \in Seq(Blocks), NEW h \in Seq(Blocks)
  PROVE  Whole(g \o h) = Whole(g) + Whole(h) /\ SizeOf(g \o h, Len(g)) = Whole(g)
<1>0. PICK f, fg, fh : /\ f = [i \in DOMAIN (g \o h) |-> Size((g \o h)[i])]
                       /\ fg = [i \in DOMAIN g |-> Size(g[i])]
                       /\ fh = [i \in DOMAIN h |-> Size(h[i])]
  OBVIOUS
<1>1. /\ Len(g) \in Nat /\ Len(h) \in Nat /\ g \o h \in Seq(Blocks)
      /\ Len(g \o h) = Len(g) + Len(h)
      /\ DOMAIN g = 1..Len(g) /\ DOMAIN h = 1..Len(h)
      /\ DOMAIN (g \o h) = 1..(Len(g) + Len(h))
      /\ \A i \in 1..Len(g) : (g \o h)[i] = g[i]
      /\ \A i \in 1..Len(h) : (g \o h)[Len(g) + i] = h[i]
  BY LenProperties, ConcatProperties
<1>2. \A i \in 1..(Len(g) + Len(h)) : f[i] \in Nat
  BY <1>0, <1>1, ElementOfSeq, SizeType
<1>3. \A i \in 1..Len(g) : f[i] = fg[i]
  BY <1>0, <1>1
<1>4. \A i \in 1..Len(h) : fh[i] = f[Len(g) + i]
  BY <1>0, <1>1
<1>5. Whole(g \o h) = SumTo(f, Len(g) + Len(h)) /\ Whole(g) = SumTo(fg, Len(g))
      /\ Whole(h) = SumTo(fh, Len(h)) /\ SizeOf(g \o h, Len(g)) = SumTo(f, Len(g))
  BY <1>0, <1>1 DEF Whole, SizeOf
<1>6. SumTo(f, Len(g)) = SumTo(fg, Len(g))
  BY <1>1, <1>3, SumToSame
<1>7. SumTo(f, Len(g) + Len(h)) = SumTo(f, Len(g)) + SumTo(fh, Len(h))
  <2>1. Len(g) \in Nat /\ Len(h) \in Nat
    BY <1>1
  <2>2. QED
    BY <2>1, <1>2, <1>4, SumToSplit, SMTT(30)
<1>8. QED
  BY <1>5, <1>6, <1>7

(* What one block takes, and none.                                         *)
LEMMA WholeSingle ==
  ASSUME NEW b \in Blocks
  PROVE  Whole(<<b>>) = Size(b) /\ Whole(<<>>) = 0
<1> DEFINE f == [i \in {1} |-> Size(b)]
<1>1. SumTo(f, 0) = 0 /\ SumTo(f, 0 + 1) = SumTo(f, 0) + f[0 + 1]
  BY SumToDef
<1>2. Whole(<<b>>) = SumTo(f, 1)
  <2>1. Len(<<b>>) = 1 /\ DOMAIN <<b>> = {1} /\ <<b>>[1] = b
    OBVIOUS
  <2>2. [i \in DOMAIN <<b>> |-> Size(<<b>>[i])] = f
    BY <2>1
  <2>3. QED
    BY <2>1, <2>2 DEF Whole, SizeOf
<1>3. Whole(<<>>) = 0
  BY SumToDef DEF Whole, SizeOf
<1>4. QED
  BY <1>1, <1>2, <1>3, SizeType

(* What all the blocks of a history take.                                  *)
LEMMA WholeType ==
  ASSUME NEW h \in Seq(Blocks)
  PROVE  Whole(h) \in Nat
BY SizeOfType, LenProperties DEF Whole

(* A sequence, cut in two.                                                 *)
LEMMA Parts ==
  ASSUME NEW S, NEW h \in Seq(S), NEW n \in 0..Len(h)
  PROVE  /\ SubSeq(h, 1, n) \in Seq(S) /\ SubSeq(h, n + 1, Len(h)) \in Seq(S)
         /\ h = SubSeq(h, 1, n) \o SubSeq(h, n + 1, Len(h))
         /\ Len(SubSeq(h, 1, n)) = n /\ Len(SubSeq(h, n + 1, Len(h))) = Len(h) - n
<1>1. Len(h) \in Nat /\ n \in Nat
  BY LenProperties
<1>2. \A i \in 1..Len(h) : h[i] \in S
  BY ElementOfSeq
<1>3. /\ SubSeq(h, 1, n) \in Seq(S) /\ SubSeq(h, n + 1, Len(h)) \in Seq(S)
      /\ Len(SubSeq(h, 1, n)) = n /\ Len(SubSeq(h, n + 1, Len(h))) = Len(h) - n
  BY <1>1, <1>2, SubSeqProperties
<1>4. SubSeq(h, 1, n) \o SubSeq(h, n + 1, Len(h)) = SubSeq(h, 1, Len(h))
  <2>1. 1 \in 1..(Len(h) + 1) /\ n \in (1 - 1)..Len(h) /\ Len(h) \in n..Len(h)
    BY <1>1
  <2>2. QED
    BY <2>1, ConcatAdjacentSubSeq
<1>5. QED
  BY <1>3, <1>4, SubSeqFull

(* What a history takes, cut in two.                                       *)
LEMMA WholeParts ==
  ASSUME NEW h \in Seq(Blocks), NEW n \in 0..Len(h)
  PROVE  /\ Whole(h) = Whole(SubSeq(h, 1, n)) + Whole(SubSeq(h, n + 1, Len(h)))
         /\ SizeOf(h, n) = Whole(SubSeq(h, 1, n))
<1>1. ASSUME NEW g \in Seq(Blocks), NEW t \in Seq(Blocks), h = g \o t, Len(g) = n
      PROVE  Whole(h) = Whole(g) + Whole(t) /\ SizeOf(h, n) = Whole(g)
  BY <1>1, WholeConcat
<1>2. PICK g, t : g = SubSeq(h, 1, n) /\ t = SubSeq(h, n + 1, Len(h))
  OBVIOUS
<1>3. g \in Seq(Blocks) /\ t \in Seq(Blocks) /\ h = g \o t /\ Len(g) = n
  BY <1>2, Parts
<1>4. Whole(h) = Whole(g) + Whole(t) /\ SizeOf(h, n) = Whole(g)
  BY <1>1, <1>3
<1>5. QED
  BY <1>2, <1>4

(* A prefix of two sequences joined, within the first one.                 *)
LEMMA Prefix ==
  ASSUME NEW S, NEW g \in Seq(S), NEW t \in Seq(S), NEW n \in 0..Len(g)
  PROVE  SubSeq(g \o t, 1, n) = SubSeq(g, 1, n)
<1>1. Len(g) \in Nat
  BY LenProperties
<1>2. CASE n = 0
  BY <1>2, SubSeqEmpty
<1>3. CASE n # 0
  <2>1. 1 \in 1..Len(g) /\ n \in 1..Len(g)
    BY <1>1, <1>3
  <2>2. QED
    BY <2>1, SubSeqOfConcat1
<1>4. QED
  BY <1>2, <1>3

(* LastFull: the state of the last full block.                             *)
LEMMA LastFullIs ==
  ASSUME NEW h \in Seq(Blocks)
  PROVE  /\ (\A i \in 1..Len(h) : ~ h[i].full) => LastFull(h) = {}
         /\ \A m \in 1..Len(h) :
              h[m].full /\ (\A i \in (m + 1)..Len(h) : ~ h[i].full) => LastFull(h) = {h[m].state}
<1> DEFINE I == {i \in 1..Len(h) : h[i].full}
           sel == SelectLastInSeq(h, LAMBDA b : b.full)
<1>1. Len(h) \in Nat
  BY LenProperties
<1>2. sel = IF I # {} THEN Max(I) ELSE 0
  BY DEF SelectLastInSeq
<1>3. LastFull(h) = IF sel = 0 THEN {} ELSE {h[sel].state}
  BY DEF LastFull
<1>4. ASSUME \A i \in 1..Len(h) : ~ h[i].full PROVE LastFull(h) = {}
  <2>1. I = {}
    BY <1>4
  <2> HIDE DEF sel
  <2>2. QED
    BY <2>1, <1>2, <1>3
<1>5. ASSUME NEW m \in 1..Len(h), h[m].full, \A i \in (m + 1)..Len(h) : ~ h[i].full
      PROVE  LastFull(h) = {h[m].state}
  <2>1. m \in I /\ \A i \in I : m >= i
    BY <1>1, <1>5
  <2>2. Max(I) \in I /\ \A i \in I : Max(I) >= i
    BY <2>1 DEF Max
  <2> HIDE DEF sel
  <2>3. Max(I) = m
    BY <1>1, <2>1, <2>2
  <2>4. QED
    BY <1>1, <1>2, <1>3, <2>1, <2>3
<1>6. QED
  BY <1>4, <1>5

(* Without any full block, or with a last one.                             *)
LEMMA LastFullCases ==
  ASSUME NEW h \in Seq(Blocks)
  PROVE  \/ \A i \in 1..Len(h) : ~ h[i].full
         \/ \E m \in 1..Len(h) : h[m].full /\ \A i \in (m + 1)..Len(h) : ~ h[i].full
<1> DEFINE I == {i \in 1..Len(h) : h[i].full}
<1>1. Len(h) \in Nat
  BY LenProperties
<1>2. SUFFICES ASSUME I # {}
               PROVE  \E m \in 1..Len(h) : h[m].full /\ \A i \in (m + 1)..Len(h) : ~ h[i].full
  OBVIOUS
<1>3. I \in SUBSET (0..Len(h))
  BY <1>1
<1>4. PICK m \in I : \A n \in I : n <= m
  BY <1>1, <1>2, <1>3, NatMax
<1>5. QED
  BY <1>1, <1>4

(* The full state that is found, if any.                                   *)
LEMMA LastFullType ==
  ASSUME NEW h \in Seq(Blocks)
  PROVE  LastFull(h) \in SUBSET Seq(0..MaxInputs)
<1>1. \A i \in 1..Len(h) : h[i].state \in Seq(0..MaxInputs)
  <2>1. \A i \in 1..Len(h) : h[i] \in Blocks
    BY ElementOfSeq
  <2>2. QED
    BY <2>1 DEF Blocks
<1>2. CASE \A i \in 1..Len(h) : ~ h[i].full
  BY <1>2, LastFullIs
<1>3. CASE \E m \in 1..Len(h) : h[m].full /\ \A i \in (m + 1)..Len(h) : ~ h[i].full
  BY <1>1, <1>3, LastFullIs
<1>4. QED
  BY <1>2, <1>3, LastFullCases

(* What is before a full block does not matter to what comes after it.     *)
LEMMA LastFullRest ==
  ASSUME NEW h \in Seq(Blocks), NEW n \in Nat, n < Len(h), h[n + 1].full
  PROVE  LastFull(SubSeq(h, n + 1, Len(h))) = LastFull(h)
<1>1. PICK t : t = SubSeq(h, n + 1, Len(h))
  OBVIOUS
<1>2. Len(h) \in Nat /\ \A i \in 1..Len(h) : h[i] \in Blocks
  BY LenProperties, ElementOfSeq
<1>3. /\ t \in Seq(Blocks) /\ Len(t) = Len(h) - n
      /\ \A i \in 1..(Len(h) - n) : t[i] = h[n + i]
  BY <1>1, <1>2, SubSeqProperties
<1>4. PICK m \in 1..Len(h) : h[m].full /\ \A i \in (m + 1)..Len(h) : ~ h[i].full
  BY <1>2, LastFullCases
<1>5. m >= n + 1
  BY <1>2, <1>4
<1>6. PICK k : k = m - n
  OBVIOUS
<1>7. k \in 1..Len(t) /\ t[k] = h[m]
  BY <1>2, <1>3, <1>5, <1>6
<1>8. \A i \in (k + 1)..Len(t) : ~ t[i].full
  <2>1. TAKE i \in (k + 1)..Len(t)
  <2>2. n + i \in (m + 1)..Len(h) /\ t[i] = h[n + i]
    BY <1>2, <1>3, <1>5, <1>6
  <2>3. QED
    BY <2>2, <1>4
<1>9. LastFull(t) = {h[m].state}
  <2>1. t[k].full
    BY <1>4, <1>7
  <2>2. LastFull(t) = {t[k].state}
    BY <1>3, <1>7, <1>8, <2>1, LastFullIs
  <2>3. QED
    BY <1>7, <2>2
<1>10. LastFull(h) = {h[m].state}
  BY <1>4, LastFullIs
<1>11. QED
  BY <1>1, <1>9, <1>10

(***************************************************************************)
(* Stored blocks that find their full state.                               *)
(***************************************************************************)
Finds(b, h) == b.orphan \/ Decodes(b, h)

Good(h) == \A i \in 1..Len(h) : Finds(h[i], SubSeq(h, 1, i - 1))

(* A beginning of a history whose blocks find their full state.            *)
LEMMA GoodConcat ==
  ASSUME NEW g \in Seq(Blocks), NEW t \in Seq(Blocks), Good(g \o t)
  PROVE  Good(g)
<1>1. /\ Len(g) \in Nat /\ Len(t) \in Nat /\ Len(g \o t) = Len(g) + Len(t)
      /\ \A i \in 1..Len(g) : (g \o t)[i] = g[i]
  BY LenProperties, ConcatProperties
<1>2. SUFFICES ASSUME NEW i \in 1..Len(g) PROVE Finds(g[i], SubSeq(g, 1, i - 1))
  BY DEF Good
<1>3. i \in 1..Len(g \o t) /\ i - 1 \in 0..Len(g) /\ (g \o t)[i] = g[i]
  BY <1>1
<1>4. SubSeq(g \o t, 1, i - 1) = SubSeq(g, 1, i - 1)
  BY <1>3, Prefix
<1>5. Finds((g \o t)[i], SubSeq(g \o t, 1, i - 1))
  BY <1>3 DEF Good
<1>6. QED
  BY <1>3, <1>4, <1>5

(* One more block that finds its full state.                               *)
LEMMA GoodAppend ==
  ASSUME NEW h \in Seq(Blocks), NEW b \in Blocks
  PROVE  Good(Append(h, b)) <=> Good(h) /\ Finds(b, h)
<1>1. PICK t : t = Append(h, b)
  OBVIOUS
<1>2. /\ t = h \o <<b>> /\ <<b>> \in Seq(Blocks) /\ t \in Seq(Blocks)
      /\ Len(h) \in Nat /\ Len(t) = Len(h) + 1 /\ t[Len(h) + 1] = b
      /\ \A i \in 1..Len(h) : t[i] = h[i]
  BY <1>1, AppendIsConcat, AppendProperties, LenProperties
<1>3. \A n \in 0..Len(h) : SubSeq(t, 1, n) = SubSeq(h, 1, n)
  BY <1>2, Prefix
<1>4. SubSeq(t, 1, (Len(h) + 1) - 1) = h
  <2>1. (Len(h) + 1) - 1 = Len(h) /\ Len(h) \in 0..Len(h)
    BY <1>2
  <2>2. QED
    BY <2>1, <1>3, SubSeqFull
<1>5. ASSUME Good(t) PROVE Good(h) /\ Finds(b, h)
  <2>1. Good(h)
    BY <1>2, <1>5, GoodConcat
  <2>2. Len(h) + 1 \in 1..Len(t)
    BY <1>2
  <2>3. Finds(t[Len(h) + 1], SubSeq(t, 1, (Len(h) + 1) - 1))
    BY <1>5, <2>2 DEF Good
  <2>4. QED
    BY <2>1, <2>3, <1>2, <1>4
<1>6. ASSUME Good(h), Finds(b, h) PROVE Good(t)
  <2>1. SUFFICES ASSUME NEW i \in 1..Len(t) PROVE Finds(t[i], SubSeq(t, 1, i - 1))
    BY DEF Good
  <2>2. CASE i = Len(h) + 1
    BY <2>2, <1>2, <1>4, <1>6
  <2>3. CASE i # Len(h) + 1
    <3>1. i \in 1..Len(h) /\ i - 1 \in 0..Len(h)
      BY <2>3, <1>2
    <3>2. t[i] = h[i] /\ SubSeq(t, 1, i - 1) = SubSeq(h, 1, i - 1)
      BY <3>1, <1>2, <1>3
    <3>3. QED
      BY <3>1, <3>2, <1>6 DEF Good
  <2>4. QED
    BY <2>2, <2>3
<1>7. QED
  BY <1>1, <1>5, <1>6

(* Removing everything before a full block.                                *)
LEMMA GoodRest ==
  ASSUME NEW h \in Seq(Blocks), NEW n \in Nat, n < Len(h), h[n + 1].full, Good(h)
  PROVE  Good(SubSeq(h, n + 1, Len(h)))
<1>1. PICK t : t = SubSeq(h, n + 1, Len(h))
  OBVIOUS
<1>2. Len(h) \in Nat /\ \A i \in 1..Len(h) : h[i] \in Blocks
  BY LenProperties, ElementOfSeq
<1>3. /\ t \in Seq(Blocks) /\ Len(t) = Len(h) - n
      /\ \A i \in 1..(Len(h) - n) : t[i] = h[n + i]
  BY <1>1, <1>2, SubSeqProperties
<1>4. SUFFICES ASSUME NEW i \in 1..Len(t) PROVE Finds(t[i], SubSeq(t, 1, i - 1))
  BY <1>1 DEF Good
<1>5. t[i] = h[n + i]
  BY <1>3
<1>6. CASE i = 1
  BY <1>5, <1>6 DEF Finds, Decodes
<1>7. CASE i # 1
  <2>1. PICK p, q : p = SubSeq(h, 1, n + i - 1) /\ q = SubSeq(t, 1, i - 1)
    OBVIOUS
  <2>2. /\ n + i - 1 \in 1..Len(h) /\ n + i \in 1..Len(h) /\ i - 1 \in 1..Len(t)
        /\ n < n + i - 1
    BY <1>2, <1>3, <1>7
  <2>3. /\ p \in Seq(Blocks) /\ Len(p) = n + i - 1
        /\ \A j \in 1..(n + i - 1) : p[j] = h[j]
    BY <1>2, <2>1, <2>2, SubSeqProperties
  <2>4. /\ q \in Seq(Blocks) /\ Len(q) = i - 1
        /\ \A j \in 1..(i - 1) : q[j] = t[j]
    <3>1. \A j \in 1..(i - 1) : t[j] \in Blocks
      BY <1>3, ElementOfSeq
    <3>2. QED
      BY <1>3, <2>1, <2>2, <3>1, SubSeqProperties
  <2>5. q = SubSeq(p, n + 1, Len(p))
    <3>1. PICK r : r = SubSeq(p, n + 1, Len(p))
      OBVIOUS
    <3>2. /\ r \in Seq(Blocks) /\ Len(r) = i - 1
          /\ \A j \in 1..(i - 1) : r[j] = p[n + j]
      <4>1. \A j \in (n + 1)..(n + i - 1) : p[j] \in Blocks
        BY <1>2, <2>2, <2>3
      <4>2. QED
        BY <2>2, <2>3, <3>1, <4>1, SubSeqProperties
    <3>3. \A j \in 1..(i - 1) : q[j] = r[j]
      <4>1. TAKE j \in 1..(i - 1)
      <4>2. n + j \in 1..(n + i - 1) /\ j \in 1..(Len(h) - n)
        BY <1>2, <1>3
      <4>3. QED
        BY <4>2, <1>3, <2>3, <2>4, <3>2
    <3>4. QED
      BY <2>4, <3>1, <3>2, <3>3, SeqEqual
  <2>6. p[n + 1].full
    BY <2>2, <2>3
  <2>7. LastFull(q) = LastFull(p)
    BY <2>2, <2>3, <2>5, <2>6, LastFullRest
  <2>8. Finds(h[n + i], p)
    BY <2>1, <2>2 DEF Good
  <2>9. QED
    BY <1>5, <2>1, <2>7, <2>8 DEF Finds, Decodes
<1>8. QED
  BY <1>6, <1>7

(***************************************************************************)
(* A recording: one input for each frame, and the one of a load, no block  *)
(* longer than may be, and each block leads to the next.                   *)
(***************************************************************************)
Longest == FastFactor * BufferSize

LoadPolls(b) == IF b.boot THEN 1 ELSE 0

Sound(b) == Len(b.log) = b.count + LoadPolls(b) /\ b.count <= Longest

(* None of the blocks was begun by a load.                                 *)
Later(h) == \A i \in 1..Len(h) : ~ h[i].boot

Leads(b, state) == b.seg \/ state = <<>> \/ state = b.state \o b.log

Linked(h) ==
  /\ \A i \in 1..Len(h) : Sound(h[i])
  /\ \A i \in 1..Len(h) : i < Len(h) => Leads(h[i], h[i + 1].state)

(* The next block of h begins with state.                                  *)
EndsIn(h, state) == h # <<>> => Leads(h[Len(h)], state)

(* A beginning of a recording, and one more block of it.                   *)
LEMMA LinkedConcat ==
  ASSUME NEW g \in Seq(Blocks), NEW t \in Seq(Blocks), Linked(g \o t)
  PROVE  Linked(g)
<1>1. /\ Len(g) \in Nat /\ Len(t) \in Nat /\ Len(g \o t) = Len(g) + Len(t)
      /\ \A i \in 1..Len(g) : (g \o t)[i] = g[i]
  BY LenProperties, ConcatProperties
<1>2. \A i \in 1..Len(g) : Sound(g[i])
  BY <1>1 DEF Linked
<1>3. ASSUME NEW i \in 1..Len(g), i < Len(g) PROVE Leads(g[i], g[i + 1].state)
  <2>1. /\ i \in 1..Len(g \o t) /\ i < Len(g \o t) /\ i + 1 \in 1..Len(g)
        /\ (g \o t)[i] = g[i] /\ (g \o t)[i + 1] = g[i + 1]
    BY <1>1, <1>3
  <2>2. Leads((g \o t)[i], (g \o t)[i + 1].state)
    BY <2>1 DEF Linked
  <2>3. QED
    BY <2>1, <2>2
<1>4. QED
  BY <1>2, <1>3 DEF Linked

(* A recording goes on where its last block ends.                          *)
LEMMA LinkedAppend ==
  ASSUME NEW h \in Seq(Blocks), NEW b \in Blocks
  PROVE  Linked(Append(h, b)) <=> Linked(h) /\ Sound(b) /\ EndsIn(h, b.state)
<1>1. PICK t : t = Append(h, b)
  OBVIOUS
<1>2. /\ Len(h) \in Nat /\ Len(t) = Len(h) + 1 /\ t[Len(h) + 1] = b
      /\ \A i \in 1..Len(h) : t[i] = h[i]
  BY <1>1, AppendProperties, LenProperties
<1>3. ASSUME Linked(t) PROVE Linked(h) /\ Sound(b) /\ EndsIn(h, b.state)
  <2>1. Linked(h) /\ Sound(b)
    BY <1>2, <1>3 DEF Linked
  <2>2. ASSUME h # <<>> PROVE Leads(h[Len(h)], b.state)
    <3>1. Len(h) \in 1..Len(t) /\ Len(h) < Len(t) /\ t[Len(h)] = h[Len(h)]
      BY <1>2, <2>2
    <3>2. QED
      BY <1>2, <1>3, <3>1 DEF Linked
  <2>3. QED
    BY <2>1, <2>2 DEF EndsIn
<1>4. ASSUME Linked(h), Sound(b), EndsIn(h, b.state) PROVE Linked(t)
  <2>1. \A i \in 1..Len(t) : Sound(t[i])
    BY <1>2, <1>4 DEF Linked
  <2>2. ASSUME NEW i \in 1..Len(t), i < Len(t) PROVE Leads(t[i], t[i + 1].state)
    <3>1. CASE i = Len(h)
      BY <1>2, <1>4, <2>2, <3>1 DEF EndsIn
    <3>2. CASE i # Len(h)
      <4>1. i \in 1..Len(h) /\ i + 1 \in 1..Len(h) /\ i < Len(h)
        BY <1>2, <2>2, <3>2
      <4>2. QED
        BY <1>2, <1>4, <4>1 DEF Linked
    <3>3. QED
      BY <3>1, <3>2
  <2>3. QED
    BY <2>1, <2>2 DEF Linked
<1>5. QED
  BY <1>1, <1>3, <1>4

(* Trimming leaves a recording.                                            *)
LEMMA LinkedRest ==
  ASSUME NEW h \in Seq(Blocks), NEW n \in 0..Len(h), Linked(h)
  PROVE  /\ Linked(SubSeq(h, n + 1, Len(h)))
         /\ \A state : EndsIn(h, state) => EndsIn(SubSeq(h, n + 1, Len(h)), state)
<1>1. PICK t : t = SubSeq(h, n + 1, Len(h))
  OBVIOUS
<1>2. Len(h) \in Nat /\ \A i \in 1..Len(h) : h[i] \in Blocks
  BY LenProperties, ElementOfSeq
<1>3. /\ t \in Seq(Blocks) /\ Len(t) = Len(h) - n
      /\ \A i \in 1..(Len(h) - n) : t[i] = h[n + i]
  BY <1>1, <1>2, SubSeqProperties
<1>4. \A i \in 1..Len(t) : n + i \in 1..Len(h) /\ t[i] = h[n + i]
  BY <1>2, <1>3
<1>5. \A i \in 1..Len(t) : Sound(t[i])
  BY <1>4 DEF Linked
<1>6. ASSUME NEW i \in 1..Len(t), i < Len(t) PROVE Leads(t[i], t[i + 1].state)
  <2>1. n + i \in 1..Len(h) /\ n + i < Len(h) /\ t[i] = h[n + i] /\ t[i + 1] = h[(n + i) + 1]
    BY <1>2, <1>3, <1>6
  <2>2. QED
    BY <2>1 DEF Linked
<1>7. ASSUME NEW state, EndsIn(h, state), t # <<>> PROVE Leads(t[Len(t)], state)
  <2>1. Len(t) \in 1..Len(t) /\ h # <<>> /\ n + Len(t) = Len(h)
    BY <1>2, <1>3, <1>7
  <2>2. QED
    BY <1>4, <1>7, <2>1 DEF EndsIn
<1>8. QED
  BY <1>1, <1>5, <1>6, <1>7 DEF Linked, EndsIn

-----------------------------------------------------------------------------
(***************************************************************************)
(* AddHistoryBlock: what it leaves of a history h, with the block c.       *)
(***************************************************************************)
Kept(h) == SubSeq(h, Trimmed(h) + 1, Len(h))

Closed(h, c) ==
  [c EXCEPT !.orphan = @ \/ (Trimmed(h) > 0 /\ Kept(h) = <<>> /\ c.xor # {})]

NewHistory(h, c) == IF c.count > 0 THEN Append(Kept(h), Closed(h, c)) ELSE Kept(h)

(* AddHistoryBlock, in terms of the history it leaves.                     *)
LEMMA AddIs ==
  ASSUME NEW h, NEW c, NEW s, AddHistoryBlock(h, c, s)
  PROVE  /\ history' = NewHistory(h, c)
         /\ currentHistory' = SaveState(s, NewHistory(h, c))
         /\ totalMemoryUsage' = totalMemoryUsage - SizeOf(h, Trimmed(h))
                                 + (IF c.count > 0 THEN Size(c) ELSE 0)
                                 + Size(SaveState(s, NewHistory(h, c)))
BY DEF AddHistoryBlock, NewHistory, Closed, Kept

(* It cuts before a full state, or removes nothing or everything.          *)
LEMMA TrimmedCut ==
  ASSUME NEW h \in Seq(Blocks)
  PROVE  /\ Trimmed(h) \in 0..Len(h)
         /\ Trimmed(h) = 0 \/ Trimmed(h) = Len(h) \/ h[Trimmed(h) + 1].full
<1> DEFINE S == {n \in Cuts(h) : n = Len(h) \/ totalMemoryUsage - SizeOf(h, n) <= MaxBytes}
<1>1. Len(h) \in Nat
  BY LenProperties
<1>2. Len(h) \in S /\ S \in SUBSET Nat
  BY <1>1 DEF Cuts
<1>3. \E m \in S : \A n \in S : m <= n
  BY <1>2, NatMin
<1>4. Min(S) \in S
  BY <1>3 DEF Min
<1>5. Trimmed(h) \in S
  BY <1>4 DEF Trimmed
<1>6. QED
  BY <1>1, <1>5 DEF Cuts

(* The types of what AddHistoryBlock keeps.                                *)
LEMMA KeptType ==
  ASSUME NEW h \in Seq(Blocks), NEW c \in Blocks
  PROVE  /\ Kept(h) \in Seq(Blocks) /\ Closed(h, c) \in Blocks
         /\ NewHistory(h, c) \in Seq(Blocks)
         /\ Len(Kept(h)) = Len(h) - Trimmed(h)
<1>1. Kept(h) \in Seq(Blocks) /\ Len(Kept(h)) = Len(h) - Trimmed(h)
  BY TrimmedCut, Parts DEF Kept
<1>2. Closed(h, c) \in Blocks
  BY DEF Closed, Blocks
<1>3. QED
  BY <1>1, <1>2, AppendProperties DEF NewHistory

(* The block it ends is the one recorded, perhaps marked an orphan.        *)
LEMMA ClosedIs ==
  ASSUME NEW h, NEW c \in Blocks
  PROVE  /\ Closed(h, c).state = c.state /\ Closed(h, c).count = c.count
         /\ Closed(h, c).log = c.log /\ Closed(h, c).full = c.full
         /\ Closed(h, c).xor = c.xor /\ Closed(h, c).seg = c.seg
         /\ Closed(h, c).boot = c.boot
         /\ Closed(h, c).orphan = (c.orphan \/ (Trimmed(h) > 0 /\ Kept(h) = <<>> /\ c.xor # {}))
BY DEF Closed, Blocks

(* What AddHistoryBlock keeps finds its full states,                       *)
LEMMA NewHistoryGood ==
  ASSUME NEW h \in Seq(Blocks), NEW c \in Blocks, Good(h), Finds(c, h)
  PROVE  Good(NewHistory(h, c))
<1> DEFINE n == Trimmed(h)
<1>1. Len(h) \in Nat
  BY LenProperties
<1>2. /\ n \in 0..Len(h) /\ Kept(h) \in Seq(Blocks) /\ Closed(h, c) \in Blocks
      /\ Len(Kept(h)) = Len(h) - n
  BY TrimmedCut, KeptType
<1>3. Finds(c, Kept(h)) => Finds(Closed(h, c), Kept(h))
  <2>1. PICK b, k : b = Closed(h, c) /\ k = Kept(h)
    OBVIOUS
  <2>2. b.full = c.full /\ b.xor = c.xor /\ (c.orphan => b.orphan)
    BY <2>1, ClosedIs
  <2>3. Finds(c, k) => Finds(b, k)
    BY <2>2 DEF Finds, Decodes
  <2>4. QED
    BY <2>1, <2>3
<1>4. Good(Kept(h)) /\ Finds(Closed(h, c), Kept(h))
  <2>1. CASE n = 0
    <3>1. Kept(h) = h
      BY <2>1, SubSeqFull DEF Kept
    <3>2. Finds(c, Kept(h))
      BY <3>1
    <3>3. QED
      BY <3>1, <3>2, <1>3
  <2>2. CASE n > 0 /\ n = Len(h)
    <3>1. Kept(h) = <<>> /\ Len(Kept(h)) = 0
      BY <1>1, <1>2, <2>2, SubSeqEmpty DEF Kept
    <3>2. Good(Kept(h))
      BY <3>1 DEF Good
    <3>3. \A i \in 1..Len(Kept(h)) : ~ Kept(h)[i].full
      BY <3>1
    <3>4. LastFull(Kept(h)) = {}
      BY <1>2, <3>3, LastFullIs
    <3>5. PICK k, b : k = Kept(h) /\ b = Closed(h, c)
      OBVIOUS
    <3>6. b.xor = c.xor /\ (c.xor # {} => b.orphan)
      <4>1. /\ b.xor = c.xor
            /\ b.orphan = (c.orphan \/ (Trimmed(h) > 0 /\ Kept(h) = <<>> /\ c.xor # {}))
        BY <3>5, ClosedIs
      <4>2. QED
        BY <2>2, <3>1, <4>1
    <3>7. Finds(b, k)
      BY <3>4, <3>5, <3>6 DEF Finds, Decodes
    <3>8. QED
      BY <3>2, <3>5, <3>7
  <2>3. CASE n > 0 /\ n # Len(h)
    <3>1. n \in Nat /\ n < Len(h) /\ h[n + 1].full
      BY <1>1, <1>2, <2>3, TrimmedCut
    <3>2. Good(Kept(h)) /\ LastFull(Kept(h)) = LastFull(h)
      BY <3>1, GoodRest, LastFullRest DEF Kept
    <3>3. Finds(c, Kept(h))
      BY <3>2 DEF Finds, Decodes
    <3>4. QED
      BY <3>2, <3>3, <1>3
  <2>4. QED
    BY <1>2, <2>1, <2>2, <2>3
<1>5. QED
  BY <1>2, <1>4, GoodAppend DEF NewHistory

(* is a recording that leads to the state of the new block,                *)
LEMMA NewHistoryLinked ==
  ASSUME NEW h \in Seq(Blocks), NEW c \in Blocks, NEW s,
         Linked(h), Sound(c), EndsIn(h, c.state),
         IF c.count > 0 THEN Leads(c, s) ELSE EndsIn(h, s)
  PROVE  Linked(NewHistory(h, c)) /\ EndsIn(NewHistory(h, c), s)
<1>1. /\ Trimmed(h) \in 0..Len(h) /\ Kept(h) \in Seq(Blocks) /\ Closed(h, c) \in Blocks
  BY TrimmedCut, KeptType
<1>2. /\ Linked(Kept(h)) /\ \A state : EndsIn(h, state) => EndsIn(Kept(h), state)
  BY <1>1, LinkedRest DEF Kept
<1>3. CASE c.count > 0
  <2>1. PICK b : b = Closed(h, c)
    OBVIOUS
  <2>2. Sound(b) /\ EndsIn(Kept(h), b.state) /\ Leads(b, s)
    <3>1. /\ b.state = c.state /\ b.count = c.count /\ b.log = c.log /\ b.seg = c.seg
          /\ b.boot = c.boot
      BY <2>1, ClosedIs
    <3>2. LoadPolls(b) = LoadPolls(c)
      BY <3>1 DEF LoadPolls
    <3>3. Sound(b) /\ Leads(b, s)
      BY <1>3, <3>1, <3>2 DEF Sound, Leads
    <3>4. EndsIn(Kept(h), b.state)
      BY <1>2, <3>1
    <3>5. QED
      BY <3>3, <3>4
  <2>3. NewHistory(h, c) = Append(Kept(h), b)
    BY <1>3, <2>1 DEF NewHistory
  <2>4. Linked(NewHistory(h, c))
    BY <1>1, <1>2, <2>1, <2>2, <2>3, LinkedAppend
  <2>5. /\ Len(NewHistory(h, c)) = Len(Kept(h)) + 1
        /\ NewHistory(h, c)[Len(Kept(h)) + 1] = b
    BY <1>1, <2>1, <2>3, AppendProperties
  <2>6. QED
    BY <2>2, <2>4, <2>5 DEF EndsIn
<1>4. CASE ~ (c.count > 0)
  BY <1>2, <1>4 DEF NewHistory
<1>5. QED
  BY <1>3, <1>4

(* and takes what the total is changed by.                                 *)
LEMMA NewHistorySize ==
  ASSUME NEW h \in Seq(Blocks), NEW c \in Blocks
  PROVE  Whole(NewHistory(h, c)) = Whole(h) - SizeOf(h, Trimmed(h))
                                   + (IF c.count > 0 THEN Size(c) ELSE 0)
<1>1. /\ Trimmed(h) \in 0..Len(h) /\ Kept(h) \in Seq(Blocks) /\ Closed(h, c) \in Blocks
  BY TrimmedCut, KeptType
<1>2. /\ Whole(h) = Whole(SubSeq(h, 1, Trimmed(h))) + Whole(Kept(h))
      /\ SizeOf(h, Trimmed(h)) = Whole(SubSeq(h, 1, Trimmed(h)))
  BY <1>1, WholeParts DEF Kept
<1>3. /\ Whole(h) \in Nat /\ Whole(Kept(h)) \in Nat /\ SizeOf(h, Trimmed(h)) \in Nat
  BY <1>1, WholeType, SizeOfType
<1>4. Size(c) \in Nat /\ Size(Closed(h, c)) = Size(c)
  BY SizeType, ClosedIs DEF Size
<1>5. CASE c.count > 0
  <2>1. <<Closed(h, c)>> \in Seq(Blocks) /\ NewHistory(h, c) = Kept(h) \o <<Closed(h, c)>>
    BY <1>1, <1>5, AppendIsConcat DEF NewHistory
  <2>2. PICK g, t : g = Kept(h) /\ t = <<Closed(h, c)>>
    OBVIOUS
  <2>3. Whole(g \o t) = Whole(g) + Whole(t)
    BY <1>1, <2>1, <2>2, WholeConcat
  <2>4. Whole(t) = Size(c)
    BY <1>1, <1>4, <2>2, WholeSingle
  <2>5. Whole(NewHistory(h, c)) = Whole(Kept(h)) + Size(c)
    BY <2>1, <2>2, <2>3, <2>4
  <2>6. QED
    BY <1>2, <1>3, <1>4, <1>5, <2>5
<1>6. CASE ~ (c.count > 0)
  BY <1>2, <1>3, <1>6 DEF NewHistory
<1>7. QED
  BY <1>5, <1>6

(* A new block is empty, begins with the state, and finds its full one.    *)
LEMMA SavedState ==
  ASSUME NEW h \in Seq(Blocks), NEW s \in Seq(0..MaxInputs)
  PROVE  /\ SaveState(s, h) \in Blocks /\ Finds(SaveState(s, h), h)
         /\ SaveState(s, h).state = s /\ SaveState(s, h).count = 0 /\ SaveState(s, h).log = <<>>
         /\ ~ SaveState(s, h).boot
<1>1. LastFull(h) \in SUBSET Seq(0..MaxInputs)
  BY LastFullType
<1>2. <<>> \in Seq(1..MaxInputs)
  BY EmptySeq
<1>3. QED
  BY <1>1, <1>2 DEF SaveState, Blocks, Finds, Decodes

(* The block that a load begins, with the input of its poll.               *)
LEMMA BootBlockIs ==
  ASSUME NEW n \in 1..MaxInputs
  PROVE  /\ BootBlock(n) \in Blocks /\ Finds(BootBlock(n), <<>>)
         /\ BootBlock(n).state = <<>> /\ BootBlock(n).count = 0 /\ BootBlock(n).log = <<n>>
         /\ BootBlock(n).boot /\ Size(BootBlock(n)) = FullSize
<1>1. PICK b, c, l : b = SaveState(<<>>, <<>>) /\ c = BootBlock(n) /\ l = <<n>>
  OBVIOUS
<1>2. b \in Blocks /\ b.state = <<>> /\ b.count = 0
  BY <1>1, SavedState, EmptySeq
<1>3. b.full
  <2>1. Len(<<>>) % FullEvery = 0
    BY SizesAssumption
  <2>2. PICK f : f = (Len(<<>>) % FullEvery = 0)
    OBVIOUS
  <2>3. f = TRUE
    BY <2>1, <2>2
  <2>4. b.full = f
    BY <1>1, <2>2, Zenon DEF SaveState
  <2>5. QED
    BY <2>3, <2>4
<1>4. l \in Seq(1..MaxInputs)
  BY <1>1
<1>5. c = [b EXCEPT !.log = l, !.boot = TRUE]
  BY <1>1 DEF BootBlock
<1>6. /\ c \in Blocks /\ c.state = <<>> /\ c.count = 0 /\ c.log = l /\ c.boot /\ c.full
  BY <1>2, <1>3, <1>4, <1>5 DEF Blocks
<1>7. Finds(c, <<>>) /\ Size(c) = FullSize
  BY <1>6 DEF Finds, Decodes, Size
<1>8. QED
  BY <1>1, <1>6, <1>7
-----------------------------------------------------------------------------
(***************************************************************************)
(* The inductive invariant.                                                *)
(***************************************************************************)
(* The state and what goes with it; no stored block is empty, and there is *)
(* a frame left to replay whenever one is about to be.                     *)
StateInv ==
  /\ rewindState = "Stopped" <=> historyBackup = <<>>
  /\ rewindState = "Stopping" <=> framesToFastForward > 0
  /\ maximumSpeed <=> rewindState \in {"Starting", "Stopping"}
  /\ \A i \in 1..Len(history) : history[i].count > 0
  /\ \A i \in 1..Len(historyBackup) : historyBackup[i].count > 0
  /\ Rewinding /\ phase = "frame" => currentHistory.count > 0

(* The total covers the blocks of either end of the recording.             *)
MemoryInv ==
  /\ totalMemoryUsage >= Whole(history) + Whole(historyBackup)
  /\ totalMemoryUsage >= Whole(history) + Size(currentHistory)

(* What a block that is replayed keeps of the one it is a copy of.         *)
SameData(b, c) ==
  /\ b.state = c.state /\ b.full = c.full /\ b.xor = c.xor
  /\ b.seg = c.seg /\ b.orphan = c.orphan /\ b.boot = c.boot

DecodeInv ==
  ~ torn => /\ Good(Timeline)
            /\ historyBackup # <<>> => SameData(currentHistory, historyBackup[1])

(* Where the copy that is replayed, or recorded, is in its block.          *)
ReplayInv ==
  /\ rewindState = "Stopped" => /\ machine = currentHistory.state \o currentHistory.log
                                /\ phase = "frame" => currentHistory.count < Longest
  /\ rewindState = "Stopping" =>
       /\ currentHistory.count + Len(currentHistory.log) = Len(historyBackup[1].log)
       /\ framesToFastForward <= Len(currentHistory.log)
  /\ Rewinding => Len(currentHistory.log) = currentHistory.count
  /\ rewindState # "Stopped" =>
       /\ machine \o currentHistory.log = historyBackup[1].state \o historyBackup[1].log
       /\ ~ currentHistory.boot /\ Later(historyBackup)

FrameInv == exact => ~ torn /\ Linked(Timeline) /\ ReplayInv

(***************************************************************************)
(* What the actions do with the blocks.                                    *)
(***************************************************************************)
Safe == TypeOK /\ StateInv /\ MemoryInv

(* A beginning of a sequence, that may be empty.                           *)
LEMMA Beginning ==
  ASSUME NEW S, NEW h \in Seq(S), NEW n \in Int, n <= Len(h)
  PROVE  SubSeq(h, 1, n) \in Seq(S) /\ (n \in Nat => Len(SubSeq(h, 1, n)) = n)
<1>1. CASE n \in Nat
  <2>1. n \in 0..Len(h)
    BY <1>1, LenProperties
  <2>2. QED
    BY <2>1, Parts
<1>2. CASE n \notin Nat
  BY <1>2, SubSeqEmpty, EmptySeq
<1>3. QED
  BY <1>1, <1>2

(* The k-th block of h begins what is left of it from there.               *)
LEMMA PartsFrom ==
  ASSUME NEW S, NEW h \in Seq(S), NEW k \in 1..Len(h)
  PROVE  /\ SubSeq(h, 1, k - 1) \in Seq(S) /\ SubSeq(h, k, Len(h)) \in Seq(S)
         /\ h = SubSeq(h, 1, k - 1) \o SubSeq(h, k, Len(h))
         /\ SubSeq(h, k, Len(h)) # <<>> /\ SubSeq(h, k, Len(h))[1] = h[k] /\ h[k] \in S
         /\ Len(SubSeq(h, 1, k - 1)) = k - 1
<1>1. Len(h) \in Nat /\ k - 1 \in 0..Len(h) /\ (k - 1) + 1 = k /\ h[k] \in S
  BY LenProperties, ElementOfSeq
<1>2. PICK g, t : g = SubSeq(h, 1, k - 1) /\ t = SubSeq(h, (k - 1) + 1, Len(h))
  OBVIOUS
<1>3. /\ g \in Seq(S) /\ t \in Seq(S) /\ h = g \o t /\ Len(g) = k - 1
      /\ Len(t) = Len(h) - (k - 1)
  BY <1>1, <1>2, Parts
<1>4. t # <<>> /\ t[1] = h[k]
  <2>1. Len(t) # 0 /\ 1 \in 1..Len(t)
    BY <1>1, <1>3
  <2>2. (g \o t)[Len(g) + 1] = t[1]
    BY <1>3, <2>1, ConcatProperties
  <2>3. QED
    BY <1>3, <2>1, <2>2
<1>5. QED
  BY <1>1, <1>2, <1>3, <1>4

(* Poll: a recorded input leaves the log, and a live one is in range.      *)
LEMMA PollIs ==
  ASSUME TypeOK, Poll
  PROVE  /\ phase = "frame" /\ phase' = "send"
         /\ machine' \in Seq(0..MaxInputs) /\ inputs' \in 0..MaxInputs
         /\ LogLeft \in Seq(1..MaxInputs)
         /\ Recorded => /\ Len(LogLeft) = Len(currentHistory.log) - 1
                        /\ ~ currentHistory.boot =>
                             machine' \o LogLeft = machine \o currentHistory.log
         /\ ~ Recorded => /\ inputs' \in 1..MaxInputs /\ machine' = Append(machine, inputs')
                          /\ LogLeft = currentHistory.log
<1>1. PICK s : s = currentHistory.log
  OBVIOUS
<1>2. /\ s \in Seq(1..MaxInputs) /\ machine \in Seq(0..MaxInputs) /\ inputs \in 0..MaxInputs
      /\ MaxInputs \in Nat
  BY <1>1, SizesAssumption DEF TypeOK, Blocks
<1>3. CASE Recorded
  <2>1. s # <<>>
    BY <1>1, <1>3 DEF Recorded
  <2>2. /\ Head(s) \in 1..MaxInputs /\ Tail(s) \in Seq(1..MaxInputs)
        /\ Len(Tail(s)) = Len(s) - 1 /\ s = <<Head(s)>> \o Tail(s)
    BY <1>2, <2>1, HeadTailProperties, ConcatProperties
  <2>3. Head(s) \in 0..MaxInputs
    BY <1>2, <2>2
  <2>4. /\ machine' = Append(machine, IF Misplaced THEN 0 ELSE Head(s))
        /\ inputs' = inputs /\ LogLeft = Tail(s)
    BY <1>1, <1>3 DEF Poll, LogLeft
  <2>5. ASSUME ~ currentHistory.boot PROVE machine' \o Tail(s) = machine \o s
    <3>1. PICK e, r : e = Head(s) /\ r = Tail(s)
      OBVIOUS
    <3>2. r \in Seq(0..MaxInputs) /\ <<e>> \in Seq(0..MaxInputs) /\ s = <<e>> \o r
      BY <1>2, <2>2, <2>3, <3>1
    <3>3. machine' = machine \o <<e>>
      <4>1. ~ Misplaced
        BY <2>5 DEF Misplaced
      <4>2. machine' = Append(machine, e)
        BY <2>4, <3>1, <4>1
      <4>3. QED
        BY <1>2, <2>3, <3>1, <4>2, AppendIsConcat
    <3>4. (machine \o <<e>>) \o r = machine \o (<<e>> \o r)
      BY <1>2, <3>2, ConcatAssociative, SMTT(30)
    <3>5. QED
      BY <3>1, <3>2, <3>3, <3>4
  <2>6. machine' \in Seq(0..MaxInputs)
    <3>1. PICK e : e = IF Misplaced THEN 0 ELSE Head(s)
      OBVIOUS
    <3>2. e \in 0..MaxInputs
      BY <1>2, <2>3, <3>1
    <3>3. QED
      BY <1>2, <2>4, <3>1, <3>2, AppendProperties
  <2>7. QED
    BY <1>1, <1>2, <1>3, <2>2, <2>4, <2>5, <2>6 DEF Poll
<1>4. CASE ~ Recorded
  <2>1. inputs < MaxInputs /\ inputs' = inputs + 1 /\ machine' = Append(machine, inputs')
        /\ LogLeft = s
    BY <1>1, <1>4 DEF Poll, LogLeft
  <2>2. inputs' \in 1..MaxInputs /\ inputs' \in 0..MaxInputs
    BY <1>2, <2>1
  <2>3. machine' \in Seq(0..MaxInputs)
    BY <1>2, <2>1, <2>2, AppendProperties
  <2>4. QED
    BY <1>1, <1>2, <1>4, <2>1, <2>2, <2>3 DEF Poll
<1>5. QED
  BY <1>3, <1>4

(* Loading a block gives its state, when the full one is found.            *)
LEMMA LoadStateType ==
  ASSUME NEW b \in Blocks, NEW h, LoadState(b, h)
  PROVE  machine' \in Seq(0..MaxInputs) /\ (Decodes(b, h) => machine' = b.state)
<1>1. <<0>> \in Seq(0..MaxInputs)
  BY SizesAssumption
<1>2. QED
  BY <1>1 DEF LoadState, Corrupt, Blocks

(* Stop puts the blocks before one of the backup back to the history, and  *)
(* goes on from that one, or, when nothing is left to fast forward, from   *)
(* the copy it was replaying.                                              *)
LEMMA StopIs ==
  ASSUME TypeOK, StateInv, Stop
  PROVE  \E g \in Seq(Blocks), t \in Seq(Blocks), c \in Blocks, frames \in Int :
           /\ historyBackup = g \o t /\ t # <<>>
           /\ \/ c = t[1] /\ c.count > 0
              \/ c = currentHistory /\ g = <<>> /\ frames <= 0
           /\ StopAt(history \o g, t, c, frames)
<1>1. /\ historyBackup \in Seq(Blocks) /\ Len(historyBackup) \in Nat
      /\ history \in Seq(Blocks) /\ currentHistory \in Blocks
      /\ framesToFastForward \in Int /\ videoHistory \in Seq(Seq(0..MaxInputs))
  BY LenProperties DEF TypeOK
<1>2. Len(historyBackup) > 0
  BY <1>1 DEF Stop, StopStarted, StopOther, TypeOK
<1>3. ASSUME NEW k \in 1..Len(historyBackup), NEW frames \in Int, StopInBackup(k, frames)
      PROVE  \E g \in Seq(Blocks), t \in Seq(Blocks), c \in Blocks :
               /\ historyBackup = g \o t /\ t # <<>> /\ c = t[1] /\ c.count > 0
               /\ StopAt(history \o g, t, c, frames)
  <2>1. PICK g, t, c : /\ g = SubSeq(historyBackup, 1, k - 1)
                       /\ t = SubSeq(historyBackup, k, Len(historyBackup))
                       /\ c = historyBackup[k]
    OBVIOUS
  <2>2. /\ g \in Seq(Blocks) /\ t \in Seq(Blocks) /\ historyBackup = g \o t
        /\ t # <<>> /\ c = t[1] /\ c \in Blocks
    BY <1>1, <2>1, PartsFrom
  <2>3. StopAt(history \o g, t, c, frames)
    BY <1>3, <2>1 DEF StopInBackup
  <2>4. c.count > 0
    BY <2>1 DEF StateInv
  <2>5. QED
    BY <2>2, <2>3, <2>4
<1>4. CASE StopOther
  <2>1. PICK k : k = Len(historyBackup)
    OBVIOUS
  <2>2. k \in 1..Len(historyBackup) /\ historyBackup[k] \in Blocks
    BY <1>1, <1>2, <2>1, ElementOfSeq
  <2>3. historyBackup[k].count \in Int
    BY <2>2 DEF Blocks
  <2>4. StopInBackup(k, historyBackup[k].count)
    BY <1>4, <2>1 DEF StopOther
  <2>5. QED
    BY <1>3, <2>2, <2>3, <2>4
<1>5. CASE StopStarted /\ Len(historyBackup) > 1
  <2> DEFINE Ends == {k \in 2..Len(historyBackup) :
                        k = Len(historyBackup) \/ FramesLeft(k) <= BufferSize}
             k == Min(Ends)
  <2>1. Ends \in SUBSET Nat /\ Len(historyBackup) \in Ends
    BY <1>1, <1>5
  <2>2. \E m \in Ends : \A n \in Ends : m <= n
    BY <2>1, NatMin
  <2>3. k \in Ends
    BY <2>2 DEF Min
  <2>4. StopInBackup(k, FramesLeft(k))
    BY <1>5 DEF StopStarted
  <2> HIDE DEF k
  <2>5. k \in 1..Len(historyBackup) /\ k - 1 \in 0..Len(historyBackup)
    BY <1>1, <2>3
  <2>6. FramesLeft(k) \in Int
    <3>1. CountOf(historyBackup, k - 1) \in Nat
      BY <1>1, <2>5, SizeOfType
    <3>2. historyBackup[1] \in Blocks
      BY <1>1, <1>2, ElementOfSeq
    <3>3. historyBackup[1].count \in Nat
      BY <3>2 DEF Blocks
    <3>4. Len(videoHistory) \in Nat
      BY <1>1, LenProperties
    <3>5. QED
      BY <3>1, <3>3, <3>4 DEF FramesLeft
  <2>7. QED
    BY <1>3, <2>4, <2>5, <2>6
<1>6. CASE StopStarted /\ ~ (Len(historyBackup) > 1)
  <2>1. StopAt(history, historyBackup, currentHistory, framesToFastForward)
    BY <1>6 DEF StopStarted
  <2>2. framesToFastForward <= 0
    BY <1>1, <1>6 DEF StateInv, StopStarted
  <2>3. <<>> \in Seq(Blocks) /\ history \o <<>> = history /\ <<>> \o historyBackup = historyBackup
    BY <1>1, EmptySeq, ConcatEmptySeq
  <2>4. historyBackup # <<>>
    BY <1>2
  <2>5. QED
    BY <1>1, <2>1, <2>2, <2>3, <2>4
<1>7. QED
  BY <1>4, <1>5, <1>6 DEF Stop

(* PopBlock takes the last block that has a frame.                         *)
LEMMA PopIs ==
  ASSUME TypeOK, StateInv, ~ NothingLeft, NEW backup, PopBlock(backup)
  PROVE  \E b \in Blocks, h \in Seq(Blocks) :
           /\ b.count > 0 /\ \A i \in 1..Len(h) : h[i].count > 0
           /\ history' = h /\ historyBackup' = <<b>> \o backup /\ currentHistory' = b
           /\ LoadState(b, h) /\ exact' = (exact /\ Decodes(b, h) /\ ~ b.boot)
           /\ \/ currentHistory.count = 0 /\ history = Append(h, b)
              \/ currentHistory.count > 0 /\ history = h /\ b = currentHistory
<1>1. /\ history \in Seq(Blocks) /\ Len(history) \in Nat /\ currentHistory \in Blocks
      /\ currentHistory.count \in Nat
  BY LenProperties DEF TypeOK, Blocks
<1>2. CASE currentHistory.count > 0
  <2>1. /\ history' = history /\ historyBackup' = <<currentHistory>> \o backup
        /\ currentHistory' = currentHistory /\ LoadState(currentHistory, history)
        /\ exact' = (exact /\ Decodes(currentHistory, history) /\ ~ currentHistory.boot)
    BY <1>1, <1>2 DEF PopBlock
  <2>2. \A i \in 1..Len(history) : history[i].count > 0
    BY DEF StateInv
  <2>3. QED
    BY <1>1, <1>2, <2>1, <2>2
<1>3. CASE currentHistory.count = 0
  <2>1. PICK b, h : b = Last(history) /\ h = Front(history)
    OBVIOUS
  <2>2. history # <<>> /\ Len(history) \in 1..Len(history) /\ Len(history) - 1 \in 0..Len(history)
    BY <1>1, <1>3 DEF NothingLeft
  <2>3. b = history[Len(history)] /\ b \in Blocks
    BY <1>1, <2>1, <2>2, ElementOfSeq DEF Last
  <2>4. h = SubSeq(history, 1, Len(history) - 1)
    BY <2>1 DEF Front
  <2>5. h \in Seq(Blocks) /\ Len(h) = Len(history) - 1
    BY <1>1, <2>2, <2>4, Parts
  <2>6. \A i \in 1..Len(h) : h[i] = history[i]
    <3>1. \A i \in 1..(Len(history) - 1) : history[i] \in Blocks
      BY <1>1, ElementOfSeq
    <3>2. QED
      BY <1>1, <2>2, <2>4, <2>5, <3>1, SubSeqProperties
  <2>7. history = Append(h, b)
    <3>1. PICK r : r = Append(h, b)
      OBVIOUS
    <3>2. /\ r \in Seq(Blocks) /\ Len(r) = Len(h) + 1 /\ r[Len(h) + 1] = b
          /\ \A i \in 1..Len(h) : r[i] = h[i]
      BY <2>3, <2>5, <3>1, AppendProperties
    <3>3. \A i \in 1..Len(history) : history[i] = r[i]
      BY <1>1, <2>3, <2>5, <2>6, <3>2
    <3>4. Len(history) = Len(r)
      BY <1>1, <2>5, <3>2
    <3>5. QED
      BY <1>1, <3>1, <3>2, <3>3, <3>4, SeqEqual
  <2>8. \A i \in 1..Len(history) : history[i].count > 0
    BY DEF StateInv
  <2>9. b.count > 0 /\ \A i \in 1..Len(h) : h[i].count > 0
    BY <1>1, <2>2, <2>3, <2>5, <2>6, <2>8
  <2>10. /\ history' = h /\ historyBackup' = <<b>> \o backup /\ currentHistory' = b
         /\ LoadState(b, h) /\ exact' = (exact /\ Decodes(b, h) /\ ~ b.boot)
    BY <1>1, <1>3, <2>1 DEF PopBlock
  <2>11. QED
    BY <1>3, <2>3, <2>5, <2>7, <2>9, <2>10
<1>4. currentHistory.count > 0 \/ currentHistory.count = 0
  BY <1>1
<1>5. QED
  BY <1>2, <1>3, <1>4

(* How the total and what it counts change together.                       *)
LEMMA Balance ==
  ASSUME NEW t \in Nat, NEW w \in Nat, NEW s \in Nat, NEW a \in Nat, NEW z \in Nat,
         NEW g, NEW u, g = w - s + a, u = t - s + a + z, w <= t, g \in Nat
  PROVE  u = g + z + (t - w) /\ u \in Nat
OBVIOUS

(* AddHistoryBlock adds to the total what it adds to the blocks, and       *)
(* subtracts no more than was in it.                                       *)
LEMMA AddSafe ==
  ASSUME NEW h \in Seq(Blocks), NEW c \in Blocks, NEW s \in Seq(0..MaxInputs),
         totalMemoryUsage \in Nat, Whole(h) <= totalMemoryUsage,
         \A i \in 1..Len(h) : h[i].count > 0,
         AddHistoryBlock(h, c, s)
  PROVE  /\ history' \in Seq(Blocks) /\ currentHistory' \in Blocks
         /\ totalMemoryUsage' \in Nat
         /\ totalMemoryUsage' = Whole(history') + Size(currentHistory')
                                + (totalMemoryUsage - Whole(h))
         /\ currentHistory'.count = 0
         /\ \A i \in 1..Len(history') : history'[i].count > 0
<1>1. PICK g, new, n, added : /\ g = NewHistory(h, c) /\ new = SaveState(s, g)
                              /\ n = Trimmed(h)
                              /\ added = IF c.count > 0 THEN Size(c) ELSE 0
  OBVIOUS
<1>2. /\ history' = g /\ currentHistory' = new
      /\ totalMemoryUsage' = totalMemoryUsage - SizeOf(h, n) + added + Size(new)
  BY <1>1, AddIs
<1>3. g \in Seq(Blocks)
  BY <1>1, KeptType
<1>4. new \in Blocks /\ new.count = 0
  BY <1>1, <1>3, SavedState
<1>5. Whole(g) = Whole(h) - SizeOf(h, n) + added
  BY <1>1, NewHistorySize
<1>6. /\ Whole(g) \in Nat /\ Whole(h) \in Nat /\ added \in Nat /\ Size(new) \in Nat
      /\ SizeOf(h, n) \in Nat
  BY <1>1, <1>3, <1>4, WholeType, SizeType, SizeOfType, TrimmedCut
<1>7. /\ totalMemoryUsage' = Whole(g) + Size(new) + (totalMemoryUsage - Whole(h))
      /\ totalMemoryUsage' \in Nat
  <2>1. PICK t, w, x, y, z, u : /\ t = totalMemoryUsage /\ w = Whole(h) /\ x = SizeOf(h, n)
                                /\ y = Whole(g) /\ z = Size(new) /\ u = totalMemoryUsage'
    OBVIOUS
  <2>2. /\ t \in Nat /\ w \in Nat /\ x \in Nat /\ added \in Nat /\ z \in Nat /\ y \in Nat
        /\ w <= t
    BY <1>6, <2>1
  <2>3. y = w - x + added /\ u = t - x + added + z
    BY <1>2, <1>5, <2>1
  <2>4. u = y + z + (t - w) /\ u \in Nat
    BY <2>2, <2>3, Balance
  <2>5. QED
    BY <2>1, <2>4
<1>8. \A i \in 1..Len(g) : g[i].count > 0
  <2>1. PICK k : k = Kept(h)
    OBVIOUS
  <2>2. k \in Seq(Blocks) /\ Len(k) = Len(h) - n /\ n \in 0..Len(h)
        /\ Len(h) \in Nat /\ Closed(h, c) \in Blocks
    BY <1>1, <2>1, KeptType, TrimmedCut, LenProperties
  <2>3. \A i \in 1..Len(k) : k[i].count > 0
    <3>1. \A i \in 1..Len(h) : h[i] \in Blocks
      BY ElementOfSeq
    <3>2. k = SubSeq(h, n + 1, Len(h))
      BY <1>1, <2>1 DEF Kept
    <3>3. \A i \in 1..Len(k) : k[i] = h[n + i]
      BY <2>2, <3>1, <3>2, SubSeqProperties
    <3>4. \A i \in 1..Len(k) : n + i \in 1..Len(h)
      BY <2>2
    <3>5. QED
      BY <3>3, <3>4
  <2>4. CASE ~ (c.count > 0)
    BY <1>1, <2>1, <2>3, <2>4 DEF NewHistory
  <2>5. CASE c.count > 0
    <3>1. PICK b : b = Closed(h, c)
      OBVIOUS
    <3>2. b.count > 0
      BY <2>5, <3>1, ClosedIs
    <3>3. g = Append(k, b)
      BY <1>1, <2>1, <2>5, <3>1 DEF NewHistory
    <3>4. /\ Len(g) = Len(k) + 1 /\ g[Len(k) + 1] = b /\ Len(k) \in Nat
          /\ \A i \in 1..Len(k) : g[i] = k[i]
      BY <2>2, <3>1, <3>3, AppendProperties, LenProperties
    <3>5. SUFFICES ASSUME NEW i \in 1..Len(g) PROVE g[i].count > 0
      OBVIOUS
    <3>6. CASE i = Len(k) + 1
      BY <3>2, <3>4, <3>6
    <3>7. CASE i # Len(k) + 1
      <4>1. i \in 1..Len(k)
        BY <3>4, <3>7
      <4>2. QED
        BY <2>3, <3>4, <4>1
    <3>8. QED
      BY <3>6, <3>7
  <2>6. QED
    BY <2>4, <2>5
<1>9. QED
  BY <1>2, <1>3, <1>4, <1>6, <1>7, <1>8

-----------------------------------------------------------------------------
(***************************************************************************)
(* Types, the state and the total.                                         *)
(***************************************************************************)
(* Every block of two sequences joined is one of theirs.                   *)
LEMMA CountsConcat ==
  ASSUME NEW g \in Seq(Blocks), NEW t \in Seq(Blocks)
  PROVE  (\A i \in 1..Len(g \o t) : (g \o t)[i].count > 0)
           <=> /\ \A i \in 1..Len(g) : g[i].count > 0
               /\ \A i \in 1..Len(t) : t[i].count > 0
<1>1. PICK h : h = g \o t
  OBVIOUS
<1>2. /\ Len(g) \in Nat /\ Len(t) \in Nat /\ Len(h) = Len(g) + Len(t)
      /\ \A i \in 1..Len(g) : h[i] = g[i]
      /\ \A i \in 1..Len(t) : h[Len(g) + i] = t[i]
  BY <1>1, LenProperties, ConcatProperties
<1>3. ASSUME \A i \in 1..Len(h) : h[i].count > 0
      PROVE  /\ \A i \in 1..Len(g) : g[i].count > 0
             /\ \A i \in 1..Len(t) : t[i].count > 0
  <2>1. \A i \in 1..Len(g) : i \in 1..Len(h)
    BY <1>2
  <2>2. \A i \in 1..Len(t) : Len(g) + i \in 1..Len(h)
    BY <1>2
  <2>3. QED
    BY <1>2, <1>3, <2>1, <2>2
<1>4. ASSUME \A i \in 1..Len(g) : g[i].count > 0, \A i \in 1..Len(t) : t[i].count > 0,
             NEW i \in 1..Len(h)
      PROVE  h[i].count > 0
  <2>1. CASE i <= Len(g)
    BY <1>2, <1>4, <2>1
  <2>2. CASE ~ (i <= Len(g))
    <3>1. PICK j : j = i - Len(g)
      OBVIOUS
    <3>2. j \in 1..Len(t) /\ h[i] = t[j]
      BY <1>2, <2>2, <3>1
    <3>3. QED
      BY <1>4, <3>2
  <2>3. QED
    BY <2>1, <2>2
<1>5. QED
  BY <1>1, <1>3, <1>4


(* Stop, whatever it was called for, leaves the state and total fit.       *)
LEMMA StopSafe ==
  ASSUME Safe, Stop
  PROVE  /\ machine' \in Seq(0..MaxInputs) /\ exact' \in BOOLEAN
         /\ history' \in Seq(Blocks) /\ historyBackup' \in Seq(Blocks)
         /\ currentHistory' \in Blocks /\ framesToFastForward' \in Int
         /\ videoHistory' = <<>> /\ videoHistoryBuilder' = <<>>
         /\ rewindState' \in {"Stopped", "Stopping"}
         /\ rewindState' = "Stopped" <=> historyBackup' = <<>>
         /\ rewindState' = "Stopping" <=> framesToFastForward' > 0
         /\ maximumSpeed' = (rewindState' = "Stopping")
         /\ \A i \in 1..Len(history') : history'[i].count > 0
         /\ \A i \in 1..Len(historyBackup') : historyBackup'[i].count > 0
         /\ totalMemoryUsage >= Whole(history') + Whole(historyBackup')
         /\ totalMemoryUsage >= Whole(history') + Size(currentHistory')
<1>1. TypeOK /\ StateInv /\ MemoryInv
  BY DEF Safe
<1>2. PICK g \in Seq(Blocks), t \in Seq(Blocks), c \in Blocks, frames \in Int :
        /\ historyBackup = g \o t /\ t # <<>>
        /\ \/ c = t[1] /\ c.count > 0
           \/ c = currentHistory /\ g = <<>> /\ frames <= 0
        /\ StopAt(history \o g, t, c, frames)
  BY <1>1, StopIs
<1>3. PICK h : h = history \o g
  OBVIOUS
<1>4. /\ history \in Seq(Blocks) /\ historyBackup \in Seq(Blocks)
      /\ currentHistory \in Blocks /\ totalMemoryUsage \in Nat /\ exact \in BOOLEAN
  BY <1>1 DEF TypeOK
<1>5. h \in Seq(Blocks)
  BY <1>3, <1>4, ConcatProperties
<1>6. /\ history' = h /\ LoadState(c, h) /\ framesToFastForward' = frames
      /\ exact' = (exact /\ Decodes(c, h) /\ frames \in 1..Len(c.log))
      /\ videoHistory' = <<>> /\ videoHistoryBuilder' = <<>>
  BY <1>2, <1>3 DEF StopAt
<1>7. machine' \in Seq(0..MaxInputs) /\ exact' \in BOOLEAN
  BY <1>6, LoadStateType
<1>8. /\ \A i \in 1..Len(h) : h[i].count > 0
      /\ \A i \in 1..Len(t) : t[i].count > 0
  <2>1. /\ \A i \in 1..Len(history) : history[i].count > 0
        /\ \A i \in 1..Len(historyBackup) : historyBackup[i].count > 0
    BY <1>1 DEF StateInv
  <2>2. /\ \A i \in 1..Len(g) : g[i].count > 0
        /\ \A i \in 1..Len(t) : t[i].count > 0
    BY <1>2, <2>1, CountsConcat
  <2>3. QED
    BY <1>3, <1>4, <2>1, <2>2, CountsConcat
<1>9. /\ Whole(h) = Whole(history) + Whole(g) /\ Whole(historyBackup) = Whole(g) + Whole(t)
      /\ Whole(history) \in Nat /\ Whole(g) \in Nat /\ Whole(t) \in Nat
  BY <1>2, <1>3, <1>4, WholeConcat, WholeType
<1>10. totalMemoryUsage >= Whole(h) + Whole(t) /\ totalMemoryUsage >= Whole(h)
  <2>1. totalMemoryUsage >= Whole(history) + Whole(historyBackup)
    BY <1>1 DEF MemoryInv
  <2>2. PICK a, b, d, m : a = Whole(history) /\ b = Whole(g) /\ d = Whole(t) /\ m = totalMemoryUsage
    OBVIOUS
  <2>3. /\ a \in Nat /\ b \in Nat /\ d \in Nat /\ m \in Nat
        /\ m >= a + (b + d) /\ Whole(h) = a + b
    BY <1>4, <1>9, <2>1, <2>2
  <2>4. m >= (a + b) + d /\ m >= a + b
    BY <2>3
  <2>5. QED
    BY <2>2, <2>3, <2>4
<1>11. totalMemoryUsage >= Whole(h) + Size(c)
  <2>1. CASE c = t[1]
    <3>1. Whole(t) >= Size(c)
      <4>1. PICK r : r = SubSeq(t, 1 + 1, Len(t))
        OBVIOUS
      <4>2. 1 \in 0..Len(t)
        BY <1>2, LenProperties
      <4>3. SubSeq(t, 1, 1) = <<c>>
        <5>1. Len(t) >= 1
          BY <4>2
        <5>2. \A i \in 1..Len(t) : t[i] \in Blocks
          BY ElementOfSeq
        <5>3. PICK q : q = SubSeq(t, 1, 1)
          OBVIOUS
        <5>4. q \in Seq(Blocks) /\ Len(q) = 1 /\ q[1] = c
          BY <2>1, <5>1, <5>2, <5>3, SubSeqProperties
        <5>5. <<c>> \in Seq(Blocks) /\ Len(<<c>>) = 1 /\ <<c>>[1] = c
          OBVIOUS
        <5>6. q = <<c>>
          BY <5>4, <5>5, SeqEqual
        <5>7. QED
          BY <5>3, <5>6
      <4>4. r \in Seq(Blocks) /\ Whole(t) = Whole(<<c>>) + Whole(r)
        BY <4>1, <4>2, <4>3, Parts, WholeParts
      <4>5. Whole(<<c>>) = Size(c) /\ Size(c) \in Nat /\ Whole(r) \in Nat
        BY <4>4, WholeSingle, SizeType, WholeType
      <4>6. QED
        BY <4>4, <4>5
    <3>2. PICK a, d, z, m : a = Whole(h) /\ d = Whole(t) /\ z = Size(c) /\ m = totalMemoryUsage
      OBVIOUS
    <3>3. a \in Nat /\ d \in Nat /\ z \in Nat /\ m \in Nat /\ m >= a + d /\ d >= z
      BY <1>4, <1>5, <1>9, <1>10, <3>1, <3>2, SizeType, WholeType
    <3>4. m >= a + z
      BY <3>3
    <3>5. QED
      BY <3>2, <3>4
  <2>2. CASE c = currentHistory /\ g = <<>>
    <3>1. Whole(g) = 0
      BY <1>4, <2>2, WholeSingle
    <3>2. totalMemoryUsage >= Whole(history) + Size(currentHistory)
      BY <1>1 DEF MemoryInv
    <3>3. QED
      BY <1>9, <2>2, <3>1, <3>2
  <2>3. QED
    BY <1>2, <2>1, <2>2
<1>12. CASE frames > 0
  <2>1. /\ rewindState' = "Stopping" /\ currentHistory' = [c EXCEPT !.count = 0]
        /\ historyBackup' = t /\ maximumSpeed' = TRUE
    BY <1>2, <1>12 DEF StopAt
  <2>2. currentHistory' \in Blocks /\ Size(currentHistory') = Size(c)
    BY <2>1 DEF Blocks, Size
  <2>3. QED
    BY <1>2, <1>5, <1>6, <1>7, <1>8, <1>10, <1>11, <1>12, <2>1, <2>2
<1>13. CASE ~ (frames > 0)
  <2>1. /\ rewindState' = "Stopped" /\ currentHistory' = c
        /\ historyBackup' = <<>> /\ maximumSpeed' = FALSE
    BY <1>2, <1>13 DEF StopAt
  <2>2. Whole(<<>>) = 0 /\ <<>> \in Seq(Blocks)
    BY WholeSingle, EmptySeq
  <2>3. totalMemoryUsage >= Whole(h) + Whole(<<>>)
    BY <1>4, <1>5, <1>10, <2>2, WholeType
  <2>4. \A i \in 1..Len(<<>>) : historyBackup'[i].count > 0
    OBVIOUS
  <2>5. QED
    BY <1>5, <1>6, <1>7, <1>8, <1>11, <1>13, <2>1, <2>2, <2>3, <2>4
<1>14. QED
  BY <1>12, <1>13

(* So does PopHistory with a block left.                                   *)
LEMMA PopSafe ==
  ASSUME Safe, ~ NothingLeft, NEW backup \in Seq(Blocks),
         \/ backup = historyBackup /\ currentHistory.count <= 0
         \/ backup = <<>> /\ historyBackup = <<>>,
         PopBlock(backup)
  PROVE  /\ machine' \in Seq(0..MaxInputs) /\ exact' \in BOOLEAN
         /\ history' \in Seq(Blocks) /\ historyBackup' \in Seq(Blocks)
         /\ currentHistory' \in Blocks
         /\ historyBackup' # <<>> /\ currentHistory'.count > 0
         /\ \A i \in 1..Len(history') : history'[i].count > 0
         /\ \A i \in 1..Len(historyBackup') : historyBackup'[i].count > 0
         /\ totalMemoryUsage >= Whole(history') + Whole(historyBackup')
         /\ totalMemoryUsage >= Whole(history') + Size(currentHistory')
<1>1. TypeOK /\ StateInv /\ MemoryInv
  BY DEF Safe
<1>2. /\ history \in Seq(Blocks) /\ historyBackup \in Seq(Blocks)
      /\ currentHistory \in Blocks /\ totalMemoryUsage \in Nat /\ exact \in BOOLEAN
      /\ currentHistory.count \in Nat
  BY <1>1 DEF TypeOK, Blocks
<1>3. PICK b \in Blocks, h \in Seq(Blocks) :
        /\ b.count > 0 /\ \A i \in 1..Len(h) : h[i].count > 0
        /\ history' = h /\ historyBackup' = <<b>> \o backup /\ currentHistory' = b
        /\ LoadState(b, h) /\ exact' = (exact /\ Decodes(b, h) /\ ~ b.boot)
        /\ \/ currentHistory.count = 0 /\ history = Append(h, b)
           \/ currentHistory.count > 0 /\ history = h /\ b = currentHistory
  BY <1>1, PopIs
<1>4. machine' \in Seq(0..MaxInputs) /\ exact' \in BOOLEAN
  BY <1>3, LoadStateType
<1>5. PICK s, t : s = <<b>> /\ t = s \o backup
  OBVIOUS
<1>6. /\ s \in Seq(Blocks) /\ t \in Seq(Blocks) /\ t # <<>>
      /\ \A i \in 1..Len(s) : s[i].count > 0
  BY <1>3, <1>5, ConcatProperties
<1>7. \A i \in 1..Len(t) : t[i].count > 0
  <2>1. \A i \in 1..Len(historyBackup) : historyBackup[i].count > 0
    BY <1>1 DEF StateInv
  <2>2. \A i \in 1..Len(backup) : backup[i].count > 0
    BY <2>1
  <2>3. QED
    BY <1>5, <1>6, <2>2, CountsConcat
<1>8. /\ Whole(t) = Size(b) + Whole(backup) /\ Whole(backup) = Whole(historyBackup)
      /\ Size(b) \in Nat /\ Whole(h) \in Nat /\ Whole(backup) \in Nat /\ Whole(<<>>) = 0
  <2>1. Whole(t) = Whole(s) + Whole(backup)
    BY <1>5, <1>6, WholeConcat
  <2>2. Whole(s) = Size(b) /\ Whole(<<>>) = 0
    BY <1>5, WholeSingle
  <2>3. QED
    BY <2>1, <2>2, SizeType, WholeType
<1>9. /\ totalMemoryUsage >= Whole(h) + (Size(b) + Whole(backup))
      /\ totalMemoryUsage >= Whole(h) + Size(b)
  <2>1. /\ totalMemoryUsage >= Whole(history) + Whole(historyBackup)
        /\ totalMemoryUsage >= Whole(history) + Size(currentHistory)
    BY <1>1 DEF MemoryInv
  <2>2. CASE history = Append(h, b)
    <3>1. history = h \o s
      BY <1>3, <1>5, <2>2, AppendIsConcat
    <3>2. Whole(history) = Whole(h) + Whole(s) /\ Whole(s) = Size(b)
      BY <1>5, <1>6, <3>1, WholeConcat, WholeSingle
    <3>3. PICK a, d, z, m : /\ a = Whole(h) /\ d = Whole(backup) /\ z = Size(b)
                            /\ m = totalMemoryUsage
      OBVIOUS
    <3>4. a \in Nat /\ d \in Nat /\ z \in Nat /\ m \in Nat /\ m >= (a + z) + d
      BY <1>2, <1>8, <2>1, <3>2, <3>3
    <3>5. m >= a + (z + d) /\ m >= a + z
      BY <3>4
    <3>6. QED
      BY <3>3, <3>5
  <2>3. CASE currentHistory.count > 0 /\ history = h /\ b = currentHistory
    <3>1. Whole(backup) = 0
      BY <1>2, <1>8, <2>3
    <3>2. QED
      BY <1>2, <1>8, <2>1, <2>3, <3>1
  <2>4. QED
    BY <1>3, <2>2, <2>3
<1>10. history' = h /\ historyBackup' = t /\ currentHistory' = b
  BY <1>3, <1>5
<1>11. QED
  BY <1>3, <1>4, <1>6, <1>7, <1>8, <1>9, <1>10

(* The block being replayed.                                               *)
LEMMA BackupFirst ==
  ASSUME TypeOK, historyBackup # <<>>
  PROVE  /\ historyBackup[1] \in Blocks
         /\ historyBackup[1].log \in Seq(1..MaxInputs)
         /\ 1 \in 1..Len(historyBackup)
<1>1. historyBackup \in Seq(Blocks)
  BY DEF TypeOK
<1>2. 1 \in 1..Len(historyBackup)
  BY <1>1, LenProperties
<1>3. historyBackup[1] \in Blocks
  BY <1>1, <1>2, ElementOfSeq
<1>4. QED
  BY <1>2, <1>3 DEF Blocks

(* A block after a frame.                                                  *)
With(b, n, l) == [b EXCEPT !.count = n, !.log = l]

(* A block with other frames is a block with the same data.                *)
LEMMA BlockWith ==
  ASSUME NEW b \in Blocks, NEW n \in Nat, NEW l \in Seq(1..MaxInputs)
  PROVE  /\ With(b, n, l) \in Blocks /\ Size(With(b, n, l)) = Size(b)
         /\ With(b, n, l).count = n /\ With(b, n, l).log = l /\ SameData(With(b, n, l), b)
<1>1. PICK c : c = With(b, n, l)
  OBVIOUS
<1>2. /\ c.state = b.state /\ c.full = b.full /\ c.xor = b.xor /\ c.seg = b.seg
      /\ c.orphan = b.orphan /\ c.boot = b.boot /\ c.count = n /\ c.log = l
  BY <1>1 DEF Blocks, With
<1>3. c \in Blocks
  BY <1>1 DEF Blocks, With
<1>4. QED
  BY <1>1, <1>2, <1>3 DEF Size, SameData

(* The game that was loaded.                                               *)
LEMMA InitSafe == Init => Safe
<1> SUFFICES ASSUME Init PROVE Safe
  OBVIOUS
<1>1. <<>> \in Seq(0..MaxInputs) /\ <<>> \in Seq(Blocks) /\ <<>> \in Seq(Seq(0..MaxInputs))
  BY EmptySeq
<1>2. 1 \in 1..MaxInputs /\ 1 \in 0..MaxInputs /\ <<1>> \in Seq(0..MaxInputs)
  BY SizesAssumption
<1>3. BootBlock(1) \in Blocks /\ Size(BootBlock(1)) = FullSize
  BY <1>2, BootBlockIs
<1>4. Whole(<<>>) = 0
  BY <1>3, WholeSingle
<1>5. TypeOK
  <2>1. /\ FullSize \in Nat /\ 0 \in Int
    BY SizesAssumption
  <2>2. QED
    BY <1>1, <1>2, <1>3, <2>1 DEF Init, TypeOK
<1>6. StateInv
  BY DEF Init, StateInv, Rewinding
<1>7. MemoryInv
  BY <1>3, <1>4, SizesAssumption DEF Init, MemoryInv
<1>8. QED
  BY <1>5, <1>6, <1>7 DEF Safe

(* Each kind of step leaves the state and the total fit: a frame's poll,   *)
LEMMA RunFrameSafe == Safe /\ RunFrame => Safe'
<1> SUFFICES ASSUME Safe, RunFrame PROVE Safe'
  OBVIOUS
<1>1. TypeOK /\ StateInv /\ MemoryInv
  BY DEF Safe
<1>2. Poll
  BY DEF RunFrame, RunFrameStopped, RunFrameRewinding, RunFrameStopping
<1>3. /\ phase = "frame" /\ phase' = "send"
      /\ machine' \in Seq(0..MaxInputs) /\ inputs' \in 0..MaxInputs
      /\ LogLeft \in Seq(1..MaxInputs)
      /\ ~ Recorded => inputs' \in 1..MaxInputs
  BY <1>1, <1>2, PollIs
<1>4. UNCHANGED <<asked, history, video, totalMemoryUsage, fast, shown, exact, torn>>
  BY <1>2 DEF Poll, video
<1>5. /\ currentHistory \in Blocks /\ historyBackup \in Seq(Blocks)
      /\ currentHistory.count \in Nat /\ currentHistory.count + 1 \in Nat
  BY <1>1, SMTT(30) DEF TypeOK, Blocks
<1>6. CASE RunFrameStopped
  <2>1. PICK log : log = Append(currentHistory.log, inputs')
    OBVIOUS
  <2>2. log \in Seq(1..MaxInputs)
    <3>1. inputs' \in 1..MaxInputs
      BY <1>3, <1>6 DEF Recorded, RunFrameStopped
    <3>2. QED
      BY <1>5, <2>1, <3>1, AppendProperties DEF Blocks
  <2>3. currentHistory' = With(currentHistory, currentHistory.count + 1, log)
    BY <1>6, <2>1 DEF RunFrameStopped, With
  <2>4. currentHistory' \in Blocks /\ Size(currentHistory') = Size(currentHistory)
    BY <1>5, <2>2, <2>3, BlockWith
  <2>5. UNCHANGED <<historyBackup, rewinds>>
    BY <1>6 DEF RunFrameStopped
  <2>6. TypeOK' /\ StateInv' /\ MemoryInv'
    BY <1>1, <1>3, <1>4, <2>4, <2>5
      DEF TypeOK, StateInv, MemoryInv, Rewinding, video, rewinds
  <2>7. QED
    BY <2>6 DEF Safe
<1>7. CASE RunFrameRewinding
  <2>1. currentHistory' = With(currentHistory, currentHistory.count - 1, LogLeft)
    BY <1>7 DEF RunFrameRewinding, With
  <2>2. currentHistory.count > 0
    BY <1>1, <1>3, <1>7 DEF StateInv, RunFrameRewinding
  <2>3. currentHistory' \in Blocks /\ Size(currentHistory') = Size(currentHistory)
    <3>1. currentHistory.count - 1 \in Nat
      BY <1>5, <2>2
    <3>2. QED
      BY <1>3, <1>5, <2>1, <3>1, BlockWith
  <2>4. UNCHANGED <<historyBackup, rewinds>>
    BY <1>7 DEF RunFrameRewinding
  <2>5. TypeOK' /\ StateInv' /\ MemoryInv'
    BY <1>1, <1>3, <1>4, <2>3, <2>4
      DEF TypeOK, StateInv, MemoryInv, Rewinding, video, rewinds
  <2>6. QED
    BY <2>5 DEF Safe
<1>8. CASE RunFrameStopping
  <2>1. PICK all, replayed : /\ all = historyBackup[1].log
                             /\ replayed = SubSeq(all, 1, Len(all) - Len(LogLeft))
    OBVIOUS
  <2>2. /\ rewindState = "Stopping" /\ historyBackup # <<>>
        /\ framesToFastForward \in Int /\ framesToFastForward > 0
        /\ maximumSpeed = TRUE
    BY <1>1, <1>8 DEF StateInv, TypeOK, RunFrameStopping
  <2>3. replayed \in Seq(1..MaxInputs)
    <3>1. all \in Seq(1..MaxInputs) /\ Len(all) \in Nat /\ Len(LogLeft) \in Nat
      BY <1>1, <1>3, <2>1, <2>2, BackupFirst, LenProperties
    <3>2. Len(all) - Len(LogLeft) \in Int /\ Len(all) - Len(LogLeft) <= Len(all)
      BY <3>1
    <3>3. QED
      BY <2>1, <3>1, <3>2, Beginning
  <2>4. framesToFastForward' = framesToFastForward - 1
    BY <1>8 DEF RunFrameStopping
  <2>5. CASE framesToFastForward' = 0
    <3>1. /\ currentHistory' = With(currentHistory, currentHistory.count + 1, replayed)
          /\ historyBackup' = <<>> /\ rewindState' = "Stopped" /\ maximumSpeed' = FALSE
      BY <1>8, <2>1, <2>5 DEF RunFrameStopping, With
    <3>2. currentHistory' \in Blocks /\ Size(currentHistory') = Size(currentHistory)
      BY <1>5, <2>3, <3>1, BlockWith
    <3>3. TypeOK'
      <4>1. /\ historyBackup' \in Seq(Blocks) /\ framesToFastForward' \in Int
            /\ rewindState' = "Stopped" /\ maximumSpeed' \in BOOLEAN
        <5>1. <<>> \in Seq(Blocks) /\ 0 \in Int
          BY EmptySeq
        <5>2. QED
          BY <2>5, <3>1, <5>1
      <4>2. QED
        BY <1>1, <1>3, <1>4, <3>2, <4>1 DEF TypeOK, video
    <3>4. StateInv'
      BY <1>1, <1>3, <1>4, <2>5, <3>1 DEF StateInv, Rewinding
    <3>5. MemoryInv'
      <4>1. Whole(<<>>) = 0 /\ Size(currentHistory) \in Nat /\ Whole(history) \in Nat
        BY <1>1, <1>5, WholeSingle, SizeType, WholeType DEF TypeOK
      <4>2. /\ totalMemoryUsage' = totalMemoryUsage /\ history' = history
            /\ totalMemoryUsage \in Nat
        BY <1>1, <1>4 DEF TypeOK
      <4>3. totalMemoryUsage >= Whole(history) + Size(currentHistory)
        BY <1>1 DEF MemoryInv
      <4>4. totalMemoryUsage >= Whole(history) + Whole(<<>>)
        BY <4>1, <4>2, <4>3
      <4>5. QED
        BY <3>1, <3>2, <4>2, <4>3, <4>4 DEF MemoryInv
    <3>6. QED
      BY <3>3, <3>4, <3>5 DEF Safe
  <2>6. CASE framesToFastForward' # 0
    <3>1. /\ currentHistory' = With(currentHistory, currentHistory.count + 1, LogLeft)
          /\ UNCHANGED <<historyBackup, rewindState, maximumSpeed>>
      BY <1>8, <2>6 DEF RunFrameStopping, With
    <3>2. currentHistory' \in Blocks /\ Size(currentHistory') = Size(currentHistory)
      BY <1>3, <1>5, <3>1, BlockWith
    <3>3. framesToFastForward' > 0 /\ framesToFastForward' \in Int
      BY <2>2, <2>4, <2>6
    <3>4. TypeOK' /\ StateInv' /\ MemoryInv'
      BY <1>1, <1>3, <1>4, <2>2, <3>1, <3>2, <3>3
        DEF TypeOK, StateInv, MemoryInv, Rewinding, video
    <3>5. QED
      BY <3>4 DEF Safe
  <2>7. QED
    BY <2>5, <2>6
<1>9. QED
  BY <1>6, <1>7, <1>8 DEF RunFrame

(* its picture,                                                            *)
LEMMA SendFrameSafe == Safe /\ (SendFrameRewinding \/ SendFrame) => Safe'
<1> SUFFICES ASSUME Safe, SendFrameRewinding \/ SendFrame PROVE Safe'
  OBVIOUS
<1>1. TypeOK /\ StateInv /\ MemoryInv
  BY DEF Safe
<1>2. CASE SendFrame
  <2>1. TypeOK' /\ StateInv' /\ MemoryInv'
    BY <1>1, <1>2 DEF SendFrame, TypeOK, StateInv, MemoryInv, Rewinding, blocks, rewinds, video
  <2>2. QED
    BY <2>1 DEF Safe
<1>3. CASE SendFrameRewinding
  <2>1. PICK builder, all, started :
          /\ builder = Append(videoHistoryBuilder, machine)
          /\ all = (IF Len(builder) = historyBackup[1].count THEN builder \o videoHistory
                    ELSE videoHistory)
          /\ started = (rewindState = "Started" \/ Len(all) >= BufferSize)
    OBVIOUS
  <2>2. /\ videoHistoryBuilder' = (IF Len(builder) = historyBackup[1].count THEN <<>>
                                   ELSE builder)
        /\ rewindState' = (IF started THEN "Started" ELSE rewindState)
        /\ maximumSpeed' = (maximumSpeed /\ ~ started)
        /\ videoHistory' = (IF started /\ all # <<>> THEN Front(all) ELSE all)
        /\ shown' = (IF started /\ all # <<>> THEN Last(all) ELSE shown)
        /\ phase' = "end" /\ Rewinding
    BY <1>3, <2>1 DEF SendFrameRewinding
  <2>3. PICK S : S = Seq(0..MaxInputs)
    OBVIOUS
  <2>4. machine \in S /\ videoHistory \in Seq(S) /\ videoHistoryBuilder \in Seq(S) /\ shown \in S
    BY <1>1, <2>3 DEF TypeOK
  <2>5. builder \in Seq(S) /\ all \in Seq(S)
    BY <2>1, <2>4, AppendProperties, ConcatProperties
  <2>6. all # <<>> => Front(all) \in Seq(S) /\ Last(all) \in S
    <3>1. SUFFICES ASSUME all # <<>> PROVE Front(all) \in Seq(S) /\ Last(all) \in S
      OBVIOUS
    <3>2. Len(all) \in Nat /\ Len(all) \in 1..Len(all) /\ Len(all) - 1 \in 0..Len(all)
      BY <2>5, <3>1, LenProperties
    <3>3. QED
      BY <2>5, <3>2, ElementOfSeq, Parts DEF Front, Last
  <2>7. videoHistory' \in Seq(S) /\ videoHistoryBuilder' \in Seq(S) /\ shown' \in S
    BY <2>2, <2>4, <2>5, <2>6, EmptySeq
  <2>8. UNCHANGED <<machine, inputs, asked, blocks, framesToFastForward, totalMemoryUsage,
                    fast, exact, torn>>
    BY <1>3 DEF SendFrameRewinding
  <2>9. started \in BOOLEAN /\ rewindState \in {"Starting", "Started"}
        /\ rewindState' \in {"Starting", "Started"}
    BY <2>1, <2>2 DEF Rewinding
  <2>10. TypeOK'
    BY <1>1, <2>2, <2>3, <2>7, <2>8, <2>9 DEF TypeOK, blocks
  <2>11. StateInv'
    <3>1. maximumSpeed' <=> rewindState' \in {"Starting", "Stopping"}
      BY <1>1, <2>1, <2>2, <2>9 DEF StateInv, TypeOK
    <3>2. QED
      BY <1>1, <2>2, <2>8, <2>9, <3>1 DEF StateInv, blocks
  <2>12. MemoryInv'
    BY <1>1, <2>8 DEF MemoryInv, blocks
  <2>13. QED
    BY <2>10, <2>11, <2>12 DEF Safe
<1>4. QED
  BY <1>2, <1>3

(* the end of a block that was rewound,                                    *)
LEMMA EndOfRewoundSafe == Safe /\ EndOfRewound => Safe'
<1> SUFFICES ASSUME Safe, EndOfRewound PROVE Safe'
  OBVIOUS
<1>1. TypeOK /\ StateInv /\ MemoryInv
  BY DEF Safe
<1>2. /\ phase' = "frame" /\ Rewinding /\ currentHistory.count <= 0 /\ PopHistory
      /\ UNCHANGED <<inputs, asked, totalMemoryUsage, fast, shown, torn>>
  BY DEF EndOfRewound
<1>3. CASE Stop
  <2>1. TypeOK'
    BY <1>1, <1>2, <1>3, StopSafe, EmptySeq DEF TypeOK
  <2>2. StateInv' /\ MemoryInv'
    BY <1>2, <1>3, StopSafe DEF StateInv, MemoryInv, Rewinding
  <2>3. QED
    BY <2>1, <2>2 DEF Safe
<1>4. CASE /\ ~ NothingLeft /\ PopBlock(historyBackup)
           /\ UNCHANGED <<rewinds, video>>
  <2>1. historyBackup \in Seq(Blocks)
    BY <1>1 DEF TypeOK
  <2>2. /\ machine' \in Seq(0..MaxInputs) /\ exact' \in BOOLEAN
        /\ history' \in Seq(Blocks) /\ historyBackup' \in Seq(Blocks)
        /\ currentHistory' \in Blocks
        /\ historyBackup' # <<>> /\ currentHistory'.count > 0
        /\ \A i \in 1..Len(history') : history'[i].count > 0
        /\ \A i \in 1..Len(historyBackup') : historyBackup'[i].count > 0
        /\ totalMemoryUsage >= Whole(history') + Whole(historyBackup')
        /\ totalMemoryUsage >= Whole(history') + Size(currentHistory')
    BY <1>2, <1>4, <2>1, PopSafe
  <2>3. TypeOK'
    BY <1>1, <1>2, <1>4, <2>2 DEF TypeOK, rewinds, video
  <2>4. StateInv'
    BY <1>1, <1>2, <1>4, <2>2 DEF StateInv, Rewinding, rewinds
  <2>5. MemoryInv'
    BY <1>2, <2>2 DEF MemoryInv
  <2>6. QED
    BY <2>3, <2>4, <2>5 DEF Safe
<1>5. QED
  BY <1>2, <1>3, <1>4 DEF PopHistory

(* the start of a rewind,                                                  *)
LEMMA StartSafe == Safe /\ Start => Safe'
<1> SUFFICES ASSUME Safe, Start PROVE Safe'
  OBVIOUS
<1>1. TypeOK /\ StateInv /\ MemoryInv
  BY DEF Safe
<1>2. /\ rewindState = "Stopped" /\ ~ NothingLeft /\ PopBlock(<<>>)
      /\ rewindState' = "Starting" /\ maximumSpeed' = TRUE
      /\ videoHistory' = <<>> /\ videoHistoryBuilder' = <<>>
      /\ UNCHANGED <<inputs, phase, asked, framesToFastForward, totalMemoryUsage, fast,
                     shown, torn>>
  BY DEF Start
<1>3. historyBackup = <<>> /\ <<>> \in Seq(Blocks) /\ <<>> \in Seq(Seq(0..MaxInputs))
  BY <1>1, <1>2, EmptySeq DEF StateInv
<1>4. /\ machine' \in Seq(0..MaxInputs) /\ exact' \in BOOLEAN
      /\ history' \in Seq(Blocks) /\ historyBackup' \in Seq(Blocks)
      /\ currentHistory' \in Blocks
      /\ historyBackup' # <<>> /\ currentHistory'.count > 0
      /\ \A i \in 1..Len(history') : history'[i].count > 0
      /\ \A i \in 1..Len(historyBackup') : historyBackup'[i].count > 0
      /\ totalMemoryUsage >= Whole(history') + Whole(historyBackup')
      /\ totalMemoryUsage >= Whole(history') + Size(currentHistory')
  BY <1>2, <1>3, PopSafe
<1>5. TypeOK'
  BY <1>1, <1>2, <1>3, <1>4 DEF TypeOK
<1>6. StateInv'
  BY <1>1, <1>2, <1>4 DEF StateInv, Rewinding
<1>7. MemoryInv'
  BY <1>2, <1>4 DEF MemoryInv
<1>8. QED
  BY <1>5, <1>6, <1>7 DEF Safe

(* its end,                                                                *)
LEMMA StopLockedSafe == Safe /\ StopLocked => Safe'
<1> SUFFICES ASSUME Safe, StopLocked PROVE Safe'
  OBVIOUS
<1>1. TypeOK /\ StateInv /\ MemoryInv
  BY DEF Safe
<1>2. /\ asked' = FALSE /\ Stop
      /\ UNCHANGED <<inputs, phase, totalMemoryUsage, fast, shown, torn>>
  BY DEF StopLocked
<1>3. TypeOK'
  BY <1>1, <1>2, StopSafe, EmptySeq DEF TypeOK
<1>4. StateInv' /\ MemoryInv'
  BY <1>2, StopSafe DEF StateInv, MemoryInv, Rewinding
<1>5. QED
  BY <1>3, <1>4 DEF Safe

(* What AddHistoryBlock is given by the actions that call it.              *)
LEMMA AddActionSafe ==
  ASSUME Safe,
         NEW h \in Seq(Blocks), NEW c \in Blocks, NEW s \in Seq(0..MaxInputs),
         \E r \in Seq(Blocks) : history = h \o r,
         AddHistoryBlock(h, c, s),
         machine' \in Seq(0..MaxInputs), exact' \in BOOLEAN, torn' \in BOOLEAN,
         phase' = "frame", ~ Rewinding,
         UNCHANGED <<inputs, asked, historyBackup, rewinds, video, fast, shown>>
  PROVE  Safe'
<1>1. TypeOK /\ StateInv /\ MemoryInv
  BY DEF Safe
<1>2. PICK r \in Seq(Blocks) : history = h \o r
  OBVIOUS
<1>3. /\ Whole(history) = Whole(h) + Whole(r) /\ Whole(h) \in Nat /\ Whole(r) \in Nat
      /\ Whole(historyBackup) \in Nat /\ totalMemoryUsage \in Nat
      /\ totalMemoryUsage >= Whole(history) + Whole(historyBackup)
  BY <1>1, <1>2, WholeConcat, WholeType DEF TypeOK, MemoryInv
<1>4. PICK a, b, d, m : /\ a = Whole(h) /\ b = Whole(r) /\ d = Whole(historyBackup)
                        /\ m = totalMemoryUsage
  OBVIOUS
<1>5. a \in Nat /\ b \in Nat /\ d \in Nat /\ m \in Nat /\ m >= (a + b) + d
  BY <1>3, <1>4
<1>6. a <= m /\ m - a >= d
  BY <1>5
<1>7. \A i \in 1..Len(h) : h[i].count > 0
  <2>1. \A i \in 1..Len(history) : history[i].count > 0
    BY <1>1 DEF StateInv
  <2>2. QED
    BY <1>2, <2>1, CountsConcat
<1>8. /\ history' \in Seq(Blocks) /\ currentHistory' \in Blocks
      /\ totalMemoryUsage' \in Nat
      /\ totalMemoryUsage' = Whole(history') + Size(currentHistory')
                             + (totalMemoryUsage - Whole(h))
      /\ \A i \in 1..Len(history') : history'[i].count > 0
  BY <1>3, <1>4, <1>6, <1>7, AddSafe
<1>9. MemoryInv'
  <2>1. PICK e, z, u : e = Whole(history') /\ z = Size(currentHistory') /\ u = totalMemoryUsage'
    OBVIOUS
  <2>2. e \in Nat /\ z \in Nat /\ u = e + z + (m - a)
    BY <1>4, <1>8, <2>1, WholeType, SizeType
  <2>3. u >= e + d /\ u >= e + z
    BY <1>5, <1>6, <2>2
  <2>4. QED
    BY <1>4, <2>1, <2>3 DEF MemoryInv
<1>10. TypeOK'
  BY <1>1, <1>8 DEF TypeOK, rewinds, video
<1>11. StateInv'
  BY <1>1, <1>8 DEF StateInv, rewinds, Rewinding
<1>12. QED
  BY <1>9, <1>10, <1>11 DEF Safe

(* What holds of all the elements of two parts.                            *)
LEMMA AllOf ==
  ASSUME NEW S, NEW h \in Seq(S)
  PROVE  \E r \in Seq(S) : h = h \o r
<1>1. <<>> \in Seq(S) /\ h \o <<>> = h
  BY EmptySeq, ConcatEmptySeq
<1>2. QED
  BY <1>1

(* the end of a block that was recorded,                                   *)
LEMMA EndOfBlockSafe == Safe /\ EndOfBlock => Safe'
<1> SUFFICES ASSUME Safe, EndOfBlock PROVE Safe'
  OBVIOUS
<1>1. /\ phase' = "frame" /\ ~ Rewinding
      /\ AddHistoryBlock(history, currentHistory, machine)
      /\ torn' = (torn \/ rewindState = "Stopping")
      /\ UNCHANGED <<machine, inputs, asked, historyBackup, rewinds, video, fast, shown, exact>>
  BY DEF EndOfBlock
<1>2. /\ history \in Seq(Blocks) /\ currentHistory \in Blocks
      /\ machine \in Seq(0..MaxInputs) /\ exact \in BOOLEAN /\ torn \in BOOLEAN
  BY DEF Safe, TypeOK
<1>3. \E r \in Seq(Blocks) : history = history \o r
  BY <1>2, AllOf
<1>4. machine' \in Seq(0..MaxInputs) /\ exact' \in BOOLEAN /\ torn' \in BOOLEAN
  BY <1>1, <1>2
<1>5. QED
  BY <1>1, <1>2, <1>3, <1>4, AddActionSafe

(* A block that is marked as the end of a segment.                         *)
LEMMA SegmentType ==
  ASSUME NEW b \in Blocks
  PROVE  /\ [b EXCEPT !.seg = TRUE] \in Blocks
         /\ [b EXCEPT !.seg = TRUE].seg
         /\ [b EXCEPT !.seg = TRUE].state = b.state /\ [b EXCEPT !.seg = TRUE].count = b.count
         /\ [b EXCEPT !.seg = TRUE].log = b.log /\ [b EXCEPT !.seg = TRUE].full = b.full
         /\ [b EXCEPT !.seg = TRUE].xor = b.xor /\ [b EXCEPT !.seg = TRUE].orphan = b.orphan
         /\ [b EXCEPT !.seg = TRUE].boot = b.boot
BY DEF Blocks

(* The block RewindSeconds goes back to, and the history before it.        *)
LEMMA SecondsIs ==
  ASSUME TypeOK, NEW n \in Seconds, RewindSeconds(n)
  PROVE  \E h \in Seq(Blocks), r \in Seq(Blocks), c \in Blocks :
           /\ history = h \o r
           /\ \/ history = <<>> /\ c = currentHistory
              \/ r # <<>> /\ c = r[1]
           /\ LoadState(c, h) /\ exact' = (exact /\ Decodes(c, h))
           /\ AddHistoryBlock(h, [c EXCEPT !.seg = TRUE], machine')
<1>1. history \in Seq(Blocks) /\ currentHistory \in Blocks /\ Len(history) \in Nat /\ n \in Nat
  BY SizesAssumption, LenProperties DEF TypeOK
<1>2. PICK left, c, h : /\ left = (IF n < Len(history) THEN Len(history) - n ELSE 0)
                        /\ c = (IF history = <<>> THEN currentHistory ELSE history[left + 1])
                        /\ h = SubSeq(history, 1, left)
  OBVIOUS
<1>3. /\ LoadState(c, h) /\ exact' = (exact /\ Decodes(c, h))
      /\ AddHistoryBlock(h, [c EXCEPT !.seg = TRUE], machine')
  BY <1>2 DEF RewindSeconds
<1>4. CASE history = <<>>
  <2>1. left = 0 /\ c = currentHistory
    BY <1>1, <1>2, <1>4
  <2>2. h = <<>>
    BY <1>2, <2>1, SubSeqEmpty
  <2>3. <<>> \in Seq(Blocks) /\ <<>> \o <<>> = <<>>
    BY EmptySeq
  <2>4. QED
    BY <1>1, <1>3, <1>4, <2>1, <2>2, <2>3
<1>5. CASE history # <<>>
  <2>1. n # 0 /\ left \in Nat /\ left + 1 \in 1..Len(history) /\ (left + 1) - 1 = left
    BY <1>1, <1>2, <1>5, SizesAssumption
  <2>2. PICK k, r : k = left + 1 /\ r = SubSeq(history, k, Len(history))
    OBVIOUS
  <2>3. h = SubSeq(history, 1, k - 1) /\ k \in 1..Len(history) /\ c = history[k]
    BY <1>2, <1>5, <2>1, <2>2
  <2>4. /\ h \in Seq(Blocks) /\ r \in Seq(Blocks) /\ history = h \o r /\ r # <<>> /\ c = r[1]
        /\ c \in Blocks
    <3>1. history \in Seq(Blocks) /\ k \in 1..Len(history)
      BY <1>1, <2>3
    <3>2. /\ SubSeq(history, 1, k - 1) \in Seq(Blocks)
          /\ SubSeq(history, k, Len(history)) \in Seq(Blocks)
          /\ history = SubSeq(history, 1, k - 1) \o SubSeq(history, k, Len(history))
          /\ SubSeq(history, k, Len(history)) # <<>>
          /\ SubSeq(history, k, Len(history))[1] = history[k] /\ history[k] \in Blocks
      BY <3>1, PartsFrom
    <3>3. QED
      BY <2>2, <2>3, <3>2
  <2>5. QED
    BY <1>3, <2>4
<1>6. QED
  BY <1>4, <1>5

(* going back by blocks,                                                   *)
LEMMA RewindSecondsSafe == \A n \in Seconds : Safe /\ RewindSeconds(n) => Safe'
<1> SUFFICES ASSUME NEW n \in Seconds, Safe, RewindSeconds(n) PROVE Safe'
  OBVIOUS
<1>1. TypeOK
  BY DEF Safe
<1>2. PICK h \in Seq(Blocks), r \in Seq(Blocks), c \in Blocks :
        /\ history = h \o r
        /\ LoadState(c, h) /\ exact' = (exact /\ Decodes(c, h))
        /\ AddHistoryBlock(h, [c EXCEPT !.seg = TRUE], machine')
  BY <1>1, SecondsIs
<1>3. PICK d : d = [c EXCEPT !.seg = TRUE]
  OBVIOUS
<1>4. d \in Blocks /\ AddHistoryBlock(h, d, machine')
  BY <1>2, <1>3, SegmentType
<1>5. machine' \in Seq(0..MaxInputs)
  BY <1>2, LoadStateType
<1>6. /\ phase = "frame" /\ rewindState = "Stopped"
      /\ UNCHANGED <<inputs, phase, asked, historyBackup, rewinds, video, fast, shown, torn>>
  BY DEF RewindSeconds, UserCalls
<1>7. exact' \in BOOLEAN /\ torn' \in BOOLEAN
  BY <1>1, <1>2, <1>6 DEF TypeOK
<1>8. \E q \in Seq(Blocks) : history = h \o q
  BY <1>2
<1>9. QED
  BY <1>4, <1>5, <1>6, <1>7, <1>8, AddActionSafe DEF Rewinding

(* the user's load of a state,                                             *)
LEMMA StateLoadedSafe == Safe /\ StateLoaded => Safe'
<1> SUFFICES ASSUME Safe, StateLoaded PROVE Safe'
  OBVIOUS
<1>1. PICK d, s : d = [currentHistory EXCEPT !.seg = TRUE] /\ s = <<>>
  OBVIOUS
<1>2. /\ phase = "frame" /\ rewindState = "Stopped" /\ machine' = s
      /\ AddHistoryBlock(history, d, s)
      /\ UNCHANGED <<inputs, phase, asked, historyBackup, rewinds, video, fast, shown, exact, torn>>
  BY <1>1 DEF StateLoaded, UserCalls
<1>3. /\ history \in Seq(Blocks) /\ currentHistory \in Blocks
      /\ exact \in BOOLEAN /\ torn \in BOOLEAN
  BY DEF Safe, TypeOK
<1>4. d \in Blocks /\ s \in Seq(0..MaxInputs)
  BY <1>1, <1>3, SegmentType, EmptySeq
<1>5. \E r \in Seq(Blocks) : history = history \o r
  BY <1>3, AllOf
<1>6. QED
  BY <1>2, <1>3, <1>4, <1>5, AddActionSafe DEF Rewinding

(* and a game that is loaded.                                              *)
LEMMA InitHistorySafe == Safe /\ InitHistory => Safe'
<1> SUFFICES ASSUME Safe, InitHistory PROVE Safe'
  OBVIOUS
<1>1. <<>> \in Seq(0..MaxInputs) /\ <<>> \in Seq(Blocks) /\ <<>> \in Seq(Seq(0..MaxInputs))
  BY EmptySeq
<1>2. PICK n, b : n = inputs' /\ b = BootBlock(n)
  OBVIOUS
<1>3. n \in 1..MaxInputs /\ n \in 0..MaxInputs /\ <<n>> \in Seq(0..MaxInputs)
  BY <1>2, SizesAssumption DEF InitHistory, Safe, TypeOK
<1>4. b \in Blocks /\ b.count = 0 /\ Size(b) = FullSize
  BY <1>2, <1>3, BootBlockIs
<1>5. Whole(<<>>) = 0
  BY <1>4, WholeSingle
<1>6. /\ machine' = <<n>> /\ inputs' = n
      /\ history' = <<>> /\ historyBackup' = <<>> /\ currentHistory' = b
      /\ rewindState' = "Stopped" /\ framesToFastForward' = 0
      /\ videoHistory' = <<>> /\ videoHistoryBuilder' = <<>> /\ totalMemoryUsage' = FullSize
      /\ maximumSpeed' = FALSE /\ shown' = <<>> /\ exact' = TRUE /\ torn' = FALSE
      /\ UNCHANGED <<phase, asked, fast>>
  BY <1>2 DEF InitHistory
<1>7. TypeOK'
  <2>1. FullSize \in Nat /\ 0 \in Int
    BY SizesAssumption
  <2>2. TypeOK
    BY DEF Safe
  <2>3. QED
    BY <1>1, <1>3, <1>4, <1>6, <2>1, <2>2 DEF TypeOK
<1>8. StateInv'
  BY <1>6 DEF StateInv, Rewinding
<1>9. MemoryInv'
  BY <1>4, <1>5, <1>6, SizesAssumption DEF MemoryInv
<1>10. QED
  BY <1>7, <1>8, <1>9 DEF Safe

(* The other actions leave the blocks alone.                               *)
Others ==
  \/ EndOfFrame \/ StopTest \/ StopUndefined \/ StateLoadedIgnored \/ SetSpeed
  \/ UNCHANGED vars

(* The steps that leave the blocks alone, and what they change.            *)
LEMMA OthersKeep ==
  ASSUME Others
  PROVE  /\ UNCHANGED <<blocks, rewinds, video, totalMemoryUsage, torn, shown, inputs>>
         /\ \/ UNCHANGED <<machine, exact>> \/ (machine' = <<>> /\ exact' = FALSE)
         /\ \/ UNCHANGED phase \/ phase' = "undefined"
            \/ phase' = "frame" /\ Rewinding /\ currentHistory.count > 0
            \/ phase' = "frame" /\ ~ Rewinding /\ currentHistory.count < Threshold
<1>1. CASE EndOfFrame
  BY <1>1 DEF EndOfFrame
<1>2. CASE StopTest
  BY <1>2 DEF StopTest
<1>3. CASE StopUndefined
  BY <1>3 DEF StopUndefined
<1>4. CASE StateLoadedIgnored
  BY <1>4 DEF StateLoadedIgnored
<1>5. CASE SetSpeed
  BY <1>5 DEF SetSpeed
<1>6. CASE UNCHANGED vars
  BY <1>6 DEF vars
<1>7. QED
  BY <1>1, <1>2, <1>3, <1>4, <1>5, <1>6 DEF Others

(* They leave the state and the total fit.                                 *)
LEMMA OthersSafe == Safe /\ Others => Safe'
<1> SUFFICES ASSUME Safe, Others PROVE Safe'
  OBVIOUS
<1>1. TypeOK /\ StateInv /\ MemoryInv
  BY DEF Safe
<1>2. /\ UNCHANGED <<blocks, rewinds, video, totalMemoryUsage, torn, shown, inputs>>
      /\ \/ UNCHANGED <<machine, exact>> \/ (machine' = <<>> /\ exact' = FALSE)
      /\ \/ UNCHANGED phase \/ phase' = "undefined"
         \/ phase' = "frame" /\ Rewinding /\ currentHistory.count > 0
         \/ phase' = "frame" /\ ~ Rewinding /\ currentHistory.count < Threshold
  BY OthersKeep
<1>3. asked' \in BOOLEAN /\ fast' \in BOOLEAN
  BY <1>1 DEF Others, TypeOK, vars, EndOfFrame, StopTest, StopUndefined, StateLoadedIgnored, SetSpeed
<1>4. <<>> \in Seq(0..MaxInputs)
  BY EmptySeq
<1>5. machine' \in Seq(0..MaxInputs) /\ exact' \in BOOLEAN
  BY <1>1, <1>2, <1>4 DEF TypeOK
<1>6. phase' \in {"frame", "send", "end", "undefined"}
  BY <1>1, <1>2 DEF TypeOK
<1>7. TypeOK'
  BY <1>1, <1>2, <1>3, <1>5, <1>6 DEF TypeOK, blocks, rewinds, video
<1>8. StateInv'
  BY <1>1, <1>2 DEF StateInv, Rewinding, blocks, rewinds
<1>9. MemoryInv'
  BY <1>1, <1>2 DEF MemoryInv, blocks
<1>10. QED
  BY <1>7, <1>8, <1>9 DEF Safe

(* The steps there are.                                                    *)
LEMMA Steps ==
  ASSUME [Next]_vars
  PROVE  \/ RunFrame \/ (SendFrameRewinding \/ SendFrame) \/ EndOfRewound \/ EndOfBlock
         \/ Start \/ StopLocked \/ (\E n \in Seconds : RewindSeconds(n))
         \/ StateLoaded \/ InitHistory \/ Others
BY DEF Next, Others

(* The state, the blocks and the total fit, whatever the user does.        *)
LEMMA SafeNext == Safe /\ [Next]_vars => Safe'
<1> SUFFICES ASSUME Safe, [Next]_vars PROVE Safe'
  OBVIOUS
<1>1. QED
  BY Steps, RunFrameSafe, SendFrameSafe, EndOfRewoundSafe, EndOfBlockSafe, StartSafe,
     StopLockedSafe, RewindSecondsSafe, StateLoadedSafe, InitHistorySafe, OthersSafe

(* The part of the inductive invariant that needs no assumption: types;    *)
(* which of the containers are in use in each state of the rewind; that no *)
(* stored block is empty; and that the total covers both ends of the       *)
(* recording.                                                              *)
THEOREM SafeInvariant == Spec => []Safe
BY InitSafe, SafeNext, PTL DEF Spec

(* The types: no Stop, PopHistory or ProcessEndOfFrame takes a block from  *)
(* an empty container while a rewind is under way, for any sizes, numbers  *)
(* of inputs and calls by the user.                                        *)
THEOREM TypeCorrect == Spec => []TypeOK
<1>1. Safe => TypeOK
  BY DEF Safe
<1>2. QED
  BY SafeInvariant, <1>1, PTL

(* _totalMemoryUsage never falls below what the stored blocks take, so     *)
(* that the subtraction at trimming (AddHistoryBlock) does not wrap        *)
(* around.                                                                 *)
THEOREM MemorySafe == Spec => []MemoryCovered
<1>1. Safe => MemoryCovered
  <2> SUFFICES ASSUME Safe PROVE MemoryCovered
    OBVIOUS
  <2>1. TypeOK /\ MemoryInv
    BY DEF Safe
  <2>2. PICK t : t = (IF historyBackup = <<>> THEN <<currentHistory>> ELSE historyBackup)
    OBVIOUS
  <2>3. /\ t \in Seq(Blocks) /\ history \in Seq(Blocks) /\ currentHistory \in Blocks
        /\ historyBackup \in Seq(Blocks)
    BY <2>1, <2>2 DEF TypeOK
  <2>4. Whole(t) = (IF historyBackup = <<>> THEN Size(currentHistory) ELSE Whole(historyBackup))
    BY <2>2, <2>3, WholeSingle
  <2>5. totalMemoryUsage >= Whole(history) + Whole(t)
    BY <2>1, <2>4 DEF MemoryInv
  <2>6. Whole(history \o t) = Whole(history) + Whole(t)
    BY <2>3, WholeConcat
  <2>7. Timeline = history \o t
    BY <2>2 DEF Timeline
  <2>8. SizeOf(Timeline, Len(Timeline)) = Whole(history) + Whole(t)
    BY <2>6, <2>7 DEF Whole
  <2>9. QED
    BY <2>5, <2>8 DEF MemoryCovered
<1>2. QED
  BY SafeInvariant, <1>1, PTL

-----------------------------------------------------------------------------
(***************************************************************************)
(* The timeline, and what the actions do to it.                            *)
(***************************************************************************)
Line(h, backup, c) == IF backup = <<>> THEN Append(h, c) ELSE h \o backup

(* The timeline, in terms of its ends,                                     *)
LEMMA TimelineIs ==
  ASSUME TypeOK
  PROVE  Timeline = Line(history, historyBackup, currentHistory)
<1>1. history \in Seq(Blocks) /\ currentHistory \in Blocks
  BY DEF TypeOK
<1>2. CASE historyBackup = <<>>
  BY <1>1, <1>2, AppendIsConcat DEF Timeline, Line
<1>3. CASE historyBackup # <<>>
  BY <1>3 DEF Timeline, Line
<1>4. QED
  BY <1>2, <1>3

(* its type,                                                               *)
LEMMA TimelineType ==
  ASSUME TypeOK
  PROVE  Timeline \in Seq(Blocks)
<1>1. /\ history \in Seq(Blocks) /\ currentHistory \in Blocks
      /\ historyBackup \in Seq(Blocks)
  BY DEF TypeOK
<1>2. Append(history, currentHistory) \in Seq(Blocks) /\ history \o historyBackup \in Seq(Blocks)
  BY <1>1, AppendProperties, ConcatProperties
<1>3. QED
  BY <1>2, TimelineIs DEF Line

(* and the timeline of the next state.                                     *)
LEMMA TimelineNext ==
  ASSUME TypeOK'
  PROVE  Timeline' = Line(history', historyBackup', currentHistory')
<1>1. history' \in Seq(Blocks) /\ currentHistory' \in Blocks
  BY DEF TypeOK
<1>2. CASE historyBackup' = <<>>
  BY <1>1, <1>2, AppendIsConcat DEF Timeline, Line
<1>3. CASE historyBackup' # <<>>
  BY <1>3 DEF Timeline, Line
<1>4. QED
  BY <1>2, <1>3

(* A sequence after another one begins with its first element.             *)
LEMMA FirstRest ==
  ASSUME NEW h \in Seq(Blocks), NEW t \in Seq(Blocks), t # <<>>
  PROVE  t[1] \in Blocks /\ \E r \in Seq(Blocks) : h \o t = Append(h, t[1]) \o r
<1>1. 1 \in 1..Len(t) /\ t[1] \in Blocks
  BY LenProperties, ElementOfSeq
<1>2. PICK b, r : b = t[1] /\ r = Tail(t)
  OBVIOUS
<1>3. r \in Seq(Blocks) /\ <<b>> \in Seq(Blocks) /\ b \in Blocks
  BY <1>1, <1>2, HeadTailProperties
<1>4. t = <<b>> \o r
  <2>1. PICK q : q = <<b>> \o r
    OBVIOUS
  <2>2. /\ q \in Seq(Blocks) /\ Len(q) = 1 + Len(r) /\ q[1] = b /\ Len(r) \in Nat
        /\ \A i \in 1..Len(r) : q[1 + i] = r[i]
    BY <1>3, <2>1, ConcatProperties, LenProperties
  <2>3. Len(r) = Len(t) - 1 /\ \A i \in 1..Len(r) : r[i] = t[i + 1]
    BY <1>2, HeadTailProperties
  <2>4. Len(q) = Len(t) /\ Len(t) \in Nat
    BY <2>2, <2>3, LenProperties
  <2>5. ASSUME NEW i \in 1..Len(t) PROVE t[i] = q[i]
    <3>1. CASE i = 1
      BY <1>2, <2>2, <3>1
    <3>2. CASE i # 1
      <4>1. PICK j : j = i - 1
        OBVIOUS
      <4>2. j \in 1..Len(r) /\ i = j + 1 /\ i = 1 + j
        BY <2>3, <2>4, <3>2, <4>1
      <4>3. QED
        BY <2>2, <2>3, <4>2
    <3>3. QED
      BY <3>1, <3>2
  <2>6. t = q
    BY <2>2, <2>4, <2>5, SeqEqual
  <2>7. QED
    BY <2>1, <2>6
<1>5. h \o t = Append(h, b) \o r
  <2>1. (h \o <<b>>) \o r = h \o (<<b>> \o r)
    BY <1>3, ConcatAssociative
  <2>2. Append(h, b) = h \o <<b>>
    BY <1>3, AppendIsConcat
  <2>3. QED
    BY <1>4, <2>1, <2>2
<1>6. QED
  BY <1>2, <1>3, <1>5

(* Stop leaves the timeline as it is when it will fast forward, and drops  *)
(* what follows the block it goes back to when it will not.                *)
LEMMA StopLine ==
  ASSUME Safe, Stop
  PROVE  \E t \in Seq(Blocks), c \in Blocks, h \in Seq(Blocks), frames \in Int :
           /\ t # <<>> /\ historyBackup # <<>>
           /\ \E g \in Seq(Blocks) : historyBackup = g \o t
           /\ Line(history, historyBackup, currentHistory) = h \o t
           /\ \/ c = t[1]
              \/ c = currentHistory /\ t[1] = historyBackup[1] /\ frames <= 0
           /\ StopAt(h, t, c, frames)
           /\ Line(history', historyBackup', currentHistory')
                = IF frames > 0 THEN h \o t ELSE Append(h, c)
<1>1. TypeOK /\ StateInv
  BY DEF Safe
<1>2. PICK g \in Seq(Blocks), t \in Seq(Blocks), c \in Blocks, frames \in Int :
        /\ historyBackup = g \o t /\ t # <<>>
        /\ \/ c = t[1] /\ c.count > 0
           \/ c = currentHistory /\ g = <<>> /\ frames <= 0
        /\ StopAt(history \o g, t, c, frames)
  BY <1>1, StopIs
<1>3. PICK h : h = history \o g
  OBVIOUS
<1>4. history \in Seq(Blocks) /\ h \in Seq(Blocks)
  BY <1>1, <1>3, ConcatProperties DEF TypeOK
<1>5. historyBackup # <<>>
  <2>1. Len(g \o t) = Len(g) + Len(t) /\ Len(g) \in Nat /\ Len(t) \in Nat /\ Len(t) # 0
    BY <1>2, ConcatProperties, LenProperties
  <2>2. QED
    BY <1>2, <2>1
<1>6. Line(history, historyBackup, currentHistory) = h \o t
  <2>1. (history \o g) \o t = history \o (g \o t)
    <3>1. history \in Seq(Blocks) /\ g \in Seq(Blocks) /\ t \in Seq(Blocks)
      BY <1>2, <1>4
    <3>2. QED
      BY <3>1, ConcatAssociative, SMTT(30)
  <2>2. QED
    BY <1>2, <1>3, <1>5, <2>1 DEF Line
<1>7. \/ c = t[1]
      \/ c = currentHistory /\ t[1] = historyBackup[1] /\ frames <= 0
  <2>1. g = <<>> => g \o t = t
    BY ConcatEmptySeq
  <2>2. QED
    BY <1>2, <2>1
<1>8. history' = h /\ historyBackup' = (IF frames > 0 THEN t ELSE <<>>)
      /\ (~ (frames > 0) => currentHistory' = c)
  BY <1>2, <1>3 DEF StopAt
<1>9. Line(history', historyBackup', currentHistory')
        = IF frames > 0 THEN h \o t ELSE Append(h, c)
  BY <1>2, <1>8 DEF Line
<1>10. QED
  BY <1>2, <1>3, <1>4, <1>5, <1>6, <1>7, <1>9

(* Popping a block leaves it as it is, or without the block that is being  *)
(* recorded, which is empty.                                               *)
LEMMA PopLine ==
  ASSUME Safe, ~ NothingLeft, NEW backup \in Seq(Blocks),
         \/ backup = historyBackup /\ currentHistory.count <= 0 /\ historyBackup # <<>>
         \/ backup = <<>> /\ historyBackup = <<>>,
         PopBlock(backup)
  PROVE  \E b \in Blocks, h \in Seq(Blocks), l \in Seq(Blocks) :
           /\ Line(history', historyBackup', currentHistory') = l
           /\ \/ Line(history, historyBackup, currentHistory) = l
              \/ Line(history, historyBackup, currentHistory) = Append(l, currentHistory)
           /\ historyBackup' = <<b>> \o backup /\ currentHistory' = b
           /\ LoadState(b, h) /\ exact' = (exact /\ Decodes(b, h) /\ ~ b.boot)
           /\ l = h \o (<<b>> \o backup)
<1>1. TypeOK /\ StateInv
  BY DEF Safe
<1>2. /\ history \in Seq(Blocks) /\ currentHistory \in Blocks /\ currentHistory.count \in Nat
  BY <1>1 DEF TypeOK, Blocks
<1>3. PICK b \in Blocks, h \in Seq(Blocks) :
        /\ b.count > 0
        /\ history' = h /\ historyBackup' = <<b>> \o backup /\ currentHistory' = b
        /\ LoadState(b, h) /\ exact' = (exact /\ Decodes(b, h) /\ ~ b.boot)
        /\ \/ currentHistory.count = 0 /\ history = Append(h, b)
           \/ currentHistory.count > 0 /\ history = h /\ b = currentHistory
  BY <1>1, PopIs
<1>4. PICK s, l : s = <<b>> /\ l = h \o (s \o backup)
  OBVIOUS
<1>5. /\ s \in Seq(Blocks) /\ s \o backup \in Seq(Blocks) /\ l \in Seq(Blocks)
      /\ s \o backup # <<>> /\ Append(h, b) = h \o s
      /\ (h \o s) \o backup = l /\ s \o <<>> = s
  <2>1. s \in Seq(Blocks) /\ Len(s) = 1
    BY <1>4
  <2>2. s \o backup \in Seq(Blocks) /\ Len(s \o backup) = 1 + Len(backup)
    <3>1. s \o backup \in Seq(Blocks) /\ Len(s \o backup) = Len(s) + Len(backup)
      BY <2>1, ConcatProperties
    <3>2. QED
      BY <2>1, <3>1
  <2>3. s \o backup # <<>>
    BY <2>2, LenProperties
  <2>4. (h \o s) \o backup = h \o (s \o backup) /\ s \o <<>> = s
    BY <2>1, ConcatAssociative, ConcatEmptySeq, SMTT(30)
  <2>5. Append(h, b) = h \o s
    BY <1>4, AppendIsConcat
  <2>6. l \in Seq(Blocks)
    BY <1>4, <2>2, ConcatProperties
  <2>7. QED
    BY <1>4, <2>1, <2>2, <2>3, <2>4, <2>5, <2>6
<1>6. Line(history', historyBackup', currentHistory') = l
  BY <1>3, <1>4, <1>5 DEF Line
<1>7. \/ Line(history, historyBackup, currentHistory) = l
      \/ Line(history, historyBackup, currentHistory) = Append(l, currentHistory)
  <2>1. CASE backup = historyBackup /\ currentHistory.count <= 0 /\ historyBackup # <<>>
    <3>1. ~ (currentHistory.count > 0)
      BY <1>2, <2>1
    <3>2. history = h \o s
      BY <1>3, <1>5, <3>1
    <3>3. QED
      BY <1>5, <2>1, <3>2 DEF Line
  <2>2. CASE backup = <<>> /\ historyBackup = <<>>
    <3>1. l = Append(h, b)
      BY <1>4, <1>5, <2>2
    <3>2. Line(history, historyBackup, currentHistory) = Append(history, currentHistory)
      BY <2>2 DEF Line
    <3>3. QED
      BY <1>3, <3>1, <3>2
  <2>3. QED
    BY <2>1, <2>2
<1>8. QED
  BY <1>3, <1>4, <1>5, <1>6, <1>7

-----------------------------------------------------------------------------
(***************************************************************************)
(* Every block finds its full state.                                       *)
(***************************************************************************)
LEMMA FindsSame ==
  ASSUME NEW b, NEW c, NEW h, SameData(b, c)
  PROVE  Finds(b, h) <=> Finds(c, h)
BY DEF SameData, Finds, Decodes

(* In the middle of a timeline whose blocks find their full state.         *)
LEMMA GoodFirst ==
  ASSUME NEW h \in Seq(Blocks), NEW t \in Seq(Blocks), t # <<>>, Good(h \o t)
  PROVE  Good(h) /\ Finds(t[1], h)
<1>1. t[1] \in Blocks /\ \E r \in Seq(Blocks) : h \o t = Append(h, t[1]) \o r
  BY FirstRest
<1>2. PICK b \in Blocks, r \in Seq(Blocks) : b = t[1] /\ h \o t = Append(h, b) \o r
  BY <1>1
<1>3. Append(h, b) \in Seq(Blocks)
  BY AppendProperties
<1>4. Good(Append(h, b))
  BY <1>2, <1>3, GoodConcat
<1>5. QED
  BY <1>2, <1>4, GoodAppend

LineGood == Good(Line(history, historyBackup, currentHistory))

(* The invariant in terms of the timeline's ends,                          *)
LEMMA LineGoodIs ==
  ASSUME TypeOK
  PROVE  DecodeInv <=> (~ torn => /\ LineGood
                                  /\ historyBackup # <<>> =>
                                       SameData(currentHistory, historyBackup[1]))
BY TimelineIs DEF DecodeInv, LineGood

(* in the next state.                                                      *)
LEMMA LineGoodNext ==
  ASSUME TypeOK'
  PROVE  DecodeInv' <=> (~ torn' => /\ LineGood'
                                    /\ historyBackup' # <<>> =>
                                         SameData(currentHistory', historyBackup'[1]))
<1>1. Timeline' = Line(history', historyBackup', currentHistory')
  BY TimelineNext
<1>2. QED
  BY <1>1 DEF DecodeInv, LineGood

DecodeStep ==
  LineGood' /\ (historyBackup' # <<>> => SameData(currentHistory', historyBackup'[1]))

(* After Stop,                                                             *)
LEMMA DecodeStop ==
  ASSUME Safe, Stop, LineGood,
         historyBackup # <<>> => SameData(currentHistory, historyBackup[1])
  PROVE  DecodeStep
<1>1. PICK t \in Seq(Blocks), c \in Blocks, h \in Seq(Blocks), frames \in Int :
           /\ t # <<>> /\ historyBackup # <<>>
           /\ \E g \in Seq(Blocks) : historyBackup = g \o t
           /\ Line(history, historyBackup, currentHistory) = h \o t
           /\ \/ c = t[1]
              \/ c = currentHistory /\ t[1] = historyBackup[1] /\ frames <= 0
           /\ StopAt(h, t, c, frames)
           /\ Line(history', historyBackup', currentHistory')
                = IF frames > 0 THEN h \o t ELSE Append(h, c)
  BY StopLine
<1>2. Good(h \o t)
  BY <1>1 DEF LineGood
<1>3. Good(h) /\ Finds(t[1], h)
  BY <1>1, <1>2, GoodFirst
<1>4. Finds(c, h)
  BY <1>1, <1>3, FindsSame
<1>5. Good(Append(h, c))
  BY <1>3, <1>4, GoodAppend
<1>6. LineGood'
  BY <1>1, <1>2, <1>5 DEF LineGood
<1>7. ASSUME historyBackup' # <<>> PROVE SameData(currentHistory', historyBackup'[1])
  <2>1. frames > 0 /\ historyBackup' = t /\ currentHistory' = [c EXCEPT !.count = 0]
    BY <1>1, <1>7 DEF StopAt
  <2>2. c = t[1]
    BY <1>1, <2>1
  <2>3. SameData(currentHistory', c)
    BY <2>1 DEF SameData, Blocks
  <2>4. QED
    BY <2>1, <2>2, <2>3
<1>8. QED
  BY <1>6, <1>7 DEF DecodeStep

(* after PopHistory with a block left,                                     *)
LEMMA DecodePop ==
  ASSUME Safe, ~ NothingLeft, LineGood, NEW backup \in Seq(Blocks),
         \/ backup = historyBackup /\ currentHistory.count <= 0 /\ historyBackup # <<>>
         \/ backup = <<>> /\ historyBackup = <<>>,
         PopBlock(backup)
  PROVE  DecodeStep
<1>1. PICK b \in Blocks, h \in Seq(Blocks), l \in Seq(Blocks) :
           /\ Line(history', historyBackup', currentHistory') = l
           /\ \/ Line(history, historyBackup, currentHistory) = l
              \/ Line(history, historyBackup, currentHistory) = Append(l, currentHistory)
           /\ historyBackup' = <<b>> \o backup /\ currentHistory' = b
  BY PopLine
<1>2. currentHistory \in Blocks
  BY DEF Safe, TypeOK
<1>3. Good(l)
  BY <1>1, <1>2, GoodAppend, ZenonT(40) DEF LineGood
<1>4. historyBackup'[1] = b
  <2>1. <<b>> \in Seq(Blocks) /\ Len(<<b>>) = 1 /\ <<b>>[1] = b
    BY <1>1
  <2>2. QED
    BY <1>1, <2>1, ConcatProperties
<1>5. QED
  BY <1>1, <1>3, <1>4 DEF DecodeStep, LineGood, SameData

(* When AddHistoryBlock is called for a history and the block after it.    *)
LEMMA DecodeAdd ==
  ASSUME NEW h \in Seq(Blocks), NEW c \in Blocks, NEW s \in Seq(0..MaxInputs),
         Good(h), Finds(c, h), AddHistoryBlock(h, c, s), historyBackup' = <<>>
  PROVE  DecodeStep
<1>1. PICK g, new : g = NewHistory(h, c) /\ new = SaveState(s, g)
  OBVIOUS
<1>2. history' = g /\ currentHistory' = new
  BY <1>1, AddIs
<1>3. g \in Seq(Blocks) /\ Good(g)
  BY <1>1, KeptType, NewHistoryGood
<1>4. new \in Blocks /\ Finds(new, g)
  BY <1>1, <1>3, SavedState
<1>5. Good(Append(g, new))
  BY <1>3, <1>4, GoodAppend
<1>6. QED
  BY <1>2, <1>5 DEF DecodeStep, LineGood, Line

(* at the start,                                                           *)
LEMMA DecodeInit == Init => DecodeInv
<1> SUFFICES ASSUME Init PROVE DecodeInv
  OBVIOUS
<1>1. TypeOK
  BY InitSafe DEF Safe
<1>2. PICK e, b : e = <<>> /\ b = BootBlock(1)
  OBVIOUS
<1>3. e \in Seq(Blocks) /\ 1 \in 1..MaxInputs
  BY <1>2, EmptySeq, SizesAssumption
<1>4. b \in Blocks /\ Finds(b, e)
  BY <1>2, <1>3, BootBlockIs
<1>5. Good(e)
  BY <1>2 DEF Good
<1>6. Good(Append(e, b))
  BY <1>3, <1>4, <1>5, GoodAppend
<1>7. LineGood /\ historyBackup = <<>>
  BY <1>2, <1>6 DEF LineGood, Line, Init
<1>8. QED
  BY <1>1, <1>7, LineGoodIs

(* after a frame,                                                          *)
LEMMA DecodeRunFrame ==
  ASSUME Safe, RunFrame, LineGood,
         historyBackup # <<>> => SameData(currentHistory, historyBackup[1])
  PROVE  DecodeStep
<1>1. /\ TypeOK /\ StateInv /\ Poll
  BY DEF Safe, RunFrame, RunFrameStopped, RunFrameRewinding, RunFrameStopping
<1>2. /\ LogLeft \in Seq(1..MaxInputs) /\ phase = "frame"
      /\ ~ Recorded => inputs' \in 1..MaxInputs
      /\ history' = history
  BY <1>1, PollIs DEF Poll
<1>3. /\ currentHistory \in Blocks /\ historyBackup \in Seq(Blocks) /\ history \in Seq(Blocks)
      /\ currentHistory.count \in Nat /\ currentHistory.log \in Seq(1..MaxInputs)
  BY <1>1 DEF TypeOK, Blocks
<1>4. \E n, l : currentHistory' = With(currentHistory, n, l)
  <2>1. CASE RunFrameStopped
    <3>1. currentHistory' = With(currentHistory, currentHistory.count + 1,
                                 Append(currentHistory.log, inputs'))
      BY <2>1 DEF RunFrameStopped, With
    <3>2. QED
      BY <3>1
  <2>2. CASE RunFrameRewinding
    <3>1. currentHistory' = With(currentHistory, currentHistory.count - 1, LogLeft)
      BY <2>2 DEF RunFrameRewinding, With
    <3>2. QED
      BY <3>1
  <2>3. CASE RunFrameStopping
    <3>1. PICK all : all = historyBackup[1].log
      OBVIOUS
    <3>2. PICK l : l = (IF framesToFastForward' = 0
                        THEN SubSeq(all, 1, Len(all) - Len(LogLeft)) ELSE LogLeft)
      OBVIOUS
    <3>3. currentHistory' = With(currentHistory, currentHistory.count + 1, l)
      BY <2>3, <3>1, <3>2 DEF RunFrameStopping, With
    <3>4. QED
      BY <3>3
  <2>4. QED
    BY <2>1, <2>2, <2>3 DEF RunFrame
<1>5. SameData(currentHistory', currentHistory)
  <2>1. PICK n, l : currentHistory' = With(currentHistory, n, l)
    BY <1>4
  <2>2. QED
    BY <1>3, <2>1 DEF SameData, Blocks, With
<1>6. currentHistory' \in Blocks
  BY RunFrameSafe DEF Safe, TypeOK
<1>7. CASE historyBackup' = historyBackup /\ historyBackup # <<>>
  <2>1. LineGood'
    BY <1>2, <1>7 DEF LineGood, Line
  <2>2. SameData(currentHistory', historyBackup'[1])
    BY <1>5, <1>7 DEF SameData
  <2>3. QED
    BY <2>1, <2>2 DEF DecodeStep
<1>8. CASE historyBackup' = <<>>
  <2>1. Good(history) /\ Finds(currentHistory, history)
    <3>1. CASE historyBackup = <<>>
      BY <1>3, <3>1, GoodAppend DEF LineGood, Line
    <3>2. CASE historyBackup # <<>>
      <4>1. Good(history \o historyBackup)
        BY <3>2 DEF LineGood, Line
      <4>2. Good(history) /\ Finds(historyBackup[1], history)
        BY <1>3, <3>2, <4>1, GoodFirst
      <4>3. QED
        BY <3>2, <4>2, FindsSame
    <3>3. QED
      BY <3>1, <3>2
  <2>2. Finds(currentHistory', history)
    BY <1>5, <2>1, FindsSame
  <2>3. Good(Append(history, currentHistory'))
    BY <1>3, <1>6, <2>1, <2>2, GoodAppend
  <2>4. QED
    BY <1>2, <1>8, <2>3 DEF DecodeStep, LineGood, Line
<1>9. \/ historyBackup' = <<>>
      \/ historyBackup' = historyBackup /\ historyBackup # <<>>
  BY DEF RunFrame, RunFrameStopped, RunFrameRewinding, RunFrameStopping
<1>10. QED
  BY <1>7, <1>8, <1>9

(* after going back by blocks,                                             *)
LEMMA DecodeRewindSeconds ==
  ASSUME Safe, NEW n \in Seconds, RewindSeconds(n), LineGood
  PROVE  DecodeStep
<1>1. TypeOK /\ StateInv
  BY DEF Safe
<1>2. PICK h \in Seq(Blocks), r \in Seq(Blocks), c \in Blocks :
        /\ history = h \o r
        /\ \/ history = <<>> /\ c = currentHistory
           \/ r # <<>> /\ c = r[1]
        /\ LoadState(c, h)
        /\ AddHistoryBlock(h, [c EXCEPT !.seg = TRUE], machine')
  BY <1>1, SecondsIs
<1>3. historyBackup = <<>> /\ historyBackup' = <<>>
  BY <1>1 DEF StateInv, RewindSeconds
<1>4. currentHistory \in Blocks /\ history \in Seq(Blocks)
  BY <1>1 DEF TypeOK
<1>5. Good(history) /\ Finds(currentHistory, history)
  BY <1>3, <1>4, GoodAppend DEF LineGood, Line
<1>6. Good(h) /\ Finds(c, h)
  <2>1. CASE history = <<>> /\ c = currentHistory
    <3>1. h = <<>>
      <4>1. Len(h \o r) = Len(h) + Len(r) /\ Len(h) \in Nat /\ Len(r) \in Nat
        BY ConcatProperties, LenProperties
      <4>2. Len(h) = 0
        BY <1>2, <2>1, <4>1
      <4>3. QED
        BY <4>2
    <3>2. QED
      BY <1>5, <2>1, <3>1
  <2>2. CASE r # <<>> /\ c = r[1]
    BY <1>2, <1>5, <2>2, GoodFirst
  <2>3. QED
    BY <1>2, <2>1, <2>2
<1>7. PICK d : d = [c EXCEPT !.seg = TRUE]
  OBVIOUS
<1>8. d \in Blocks /\ d.orphan = c.orphan /\ d.full = c.full /\ d.xor = c.xor
  BY <1>7, SegmentType
<1>9. Finds(d, h)
  BY <1>6, <1>8 DEF Finds, Decodes
<1>10. machine' \in Seq(0..MaxInputs)
  BY <1>2, LoadStateType
<1>11. QED
  BY <1>2, <1>3, <1>6, <1>7, <1>8, <1>9, <1>10, DecodeAdd

(* after the user's load of a state,                                       *)
LEMMA DecodeStateLoaded ==
  ASSUME Safe, StateLoaded, LineGood
  PROVE  DecodeStep
<1>1. TypeOK /\ StateInv
  BY DEF Safe
<1>2. PICK d, s : d = [currentHistory EXCEPT !.seg = TRUE] /\ s = <<>>
  OBVIOUS
<1>3. AddHistoryBlock(history, d, s) /\ historyBackup = <<>> /\ historyBackup' = <<>>
  BY <1>1, <1>2 DEF StateInv, StateLoaded
<1>4. currentHistory \in Blocks /\ history \in Seq(Blocks)
  BY <1>1 DEF TypeOK
<1>5. Good(history) /\ Finds(currentHistory, history)
  BY <1>3, <1>4, GoodAppend DEF LineGood, Line
<1>6. /\ d \in Blocks /\ d.orphan = currentHistory.orphan /\ d.full = currentHistory.full
      /\ d.xor = currentHistory.xor /\ s \in Seq(0..MaxInputs)
  BY <1>2, <1>4, SegmentType, EmptySeq
<1>7. Finds(d, history)
  BY <1>5, <1>6 DEF Finds, Decodes
<1>8. QED
  BY <1>3, <1>4, <1>5, <1>6, <1>7, DecodeAdd

(* and so after every step, each block finds its full state.               *)
LEMMA DecodeInductive == Safe /\ DecodeInv /\ [Next]_vars => DecodeInv'
<1> SUFFICES ASSUME Safe, DecodeInv, [Next]_vars PROVE DecodeInv'
  OBVIOUS
<1>1. TypeOK /\ StateInv /\ Safe' /\ TypeOK'
  BY SafeNext DEF Safe
<1>2. SUFFICES ASSUME ~ torn' PROVE DecodeStep
  BY <1>1, LineGoodNext DEF DecodeStep
<1>3. CASE InitHistory
  <2>1. PICK e, b : e = <<>> /\ b = BootBlock(inputs')
    OBVIOUS
  <2>2. e \in Seq(Blocks) /\ inputs' \in 1..MaxInputs
    BY <1>1, <1>3, <2>1, EmptySeq, SizesAssumption DEF InitHistory, TypeOK
  <2>3. b \in Blocks /\ Finds(b, e)
    BY <2>1, <2>2, BootBlockIs
  <2>4. Good(e)
    BY <2>1 DEF Good
  <2>5. Good(Append(e, b))
    BY <2>2, <2>3, <2>4, GoodAppend
  <2>6. history' = e /\ currentHistory' = b /\ historyBackup' = <<>>
    BY <1>3, <2>1 DEF InitHistory
  <2>7. QED
    BY <2>5, <2>6 DEF DecodeStep, LineGood, Line
<1>4. CASE ~ InitHistory
  <2>1. ~ torn
    BY <1>1, <1>2, <1>4, Steps, OthersKeep
      DEF RunFrame, RunFrameStopped, RunFrameRewinding, RunFrameStopping, Poll,
          SendFrameRewinding, SendFrame, EndOfRewound, EndOfBlock, Start, StopLocked,
          RewindSeconds, StateLoaded
  <2>2. /\ LineGood
        /\ historyBackup # <<>> => SameData(currentHistory, historyBackup[1])
    BY <1>1, <2>1, LineGoodIs
  <2>3. CASE UNCHANGED blocks
    BY <2>2, <2>3 DEF DecodeStep, LineGood, blocks
  <2>4. CASE RunFrame
    BY <2>2, <2>4, DecodeRunFrame
  <2>5. CASE SendFrameRewinding \/ SendFrame
    BY <2>3, <2>5 DEF SendFrameRewinding, SendFrame
  <2>6. CASE EndOfRewound
    <3>1. Rewinding /\ currentHistory.count <= 0 /\ PopHistory
      BY <2>6 DEF EndOfRewound
    <3>2. CASE Stop
      BY <2>2, <3>2, DecodeStop
    <3>3. CASE ~ NothingLeft /\ PopBlock(historyBackup)
      <4>1. historyBackup \in Seq(Blocks) /\ historyBackup # <<>>
        BY <1>1, <3>1 DEF TypeOK, StateInv, Rewinding
      <4>2. QED
        BY <2>2, <3>1, <3>3, <4>1, DecodePop
    <3>4. QED
      BY <3>1, <3>2, <3>3 DEF PopHistory
  <2>7. CASE EndOfBlock
    <3>1. /\ AddHistoryBlock(history, currentHistory, machine)
          /\ rewindState = "Stopped" /\ historyBackup' = historyBackup
      BY <1>1, <1>2, <2>7 DEF EndOfBlock, TypeOK, Rewinding
    <3>2. historyBackup = <<>>
      BY <1>1, <3>1 DEF StateInv
    <3>3. history \in Seq(Blocks) /\ currentHistory \in Blocks /\ machine \in Seq(0..MaxInputs)
      BY <1>1 DEF TypeOK
    <3>4. Good(history) /\ Finds(currentHistory, history)
      BY <2>2, <3>2, <3>3, GoodAppend DEF LineGood, Line
    <3>5. QED
      BY <3>1, <3>2, <3>3, <3>4, DecodeAdd
  <2>8. CASE Start
    <3>1. ~ NothingLeft /\ PopBlock(<<>>) /\ historyBackup = <<>>
      BY <1>1, <2>8 DEF Start, StateInv
    <3>2. <<>> \in Seq(Blocks)
      BY EmptySeq
    <3>3. QED
      BY <2>2, <3>1, <3>2, DecodePop
  <2>9. CASE StopLocked
    BY <2>2, <2>9, DecodeStop DEF StopLocked
  <2>10. CASE \E n \in Seconds : RewindSeconds(n)
    BY <2>2, <2>10, DecodeRewindSeconds
  <2>11. CASE StateLoaded
    BY <2>2, <2>11, DecodeStateLoaded
  <2>12. CASE Others
    BY <2>3, <2>12, OthersKeep
  <2>13. QED
    BY <1>4, <2>4, <2>5, <2>6, <2>7, <2>8, <2>9, <2>10, <2>11, <2>12, Steps
<1>5. QED
  BY <1>3, <1>4

(* Every stored block that is a difference finds the full state            *)
(* ProcessXorState made it with, wherever recording, trimming, rewinding   *)
(* and stopping have put it; the cases in which it does not are named in   *)
(* Decodable.                                                              *)
THEOREM DecodesSafe == Spec => []Decodable
<1>1. Safe /\ DecodeInv => Decodable
  <2> SUFFICES ASSUME Safe, DecodeInv, ~ torn, NEW i \in DOMAIN Timeline
               PROVE  Timeline[i].orphan \/ Decodes(Timeline[i], Before(i))
    BY DEF Decodable
  <2>1. Timeline \in Seq(Blocks)
    BY TimelineType DEF Safe
  <2>2. i \in 1..Len(Timeline)
    BY <2>1, LenProperties
  <2>3. Good(Timeline)
    BY DEF DecodeInv
  <2>4. QED
    BY <2>2, <2>3 DEF Good, Finds, Before
<1>2. QED
  BY InitSafe, DecodeInit, DecodeInductive, SafeNext, <1>1, PTL DEF Spec

-----------------------------------------------------------------------------
(***************************************************************************)
(* The recording leads to where the machine is.                            *)
(***************************************************************************)
LEMMA LinkedFirst ==
  ASSUME NEW h \in Seq(Blocks), NEW t \in Seq(Blocks), t # <<>>, Linked(h \o t)
  PROVE  Linked(h) /\ Sound(t[1]) /\ EndsIn(h, t[1].state)
<1>1. t[1] \in Blocks /\ \E r \in Seq(Blocks) : h \o t = Append(h, t[1]) \o r
  BY FirstRest
<1>2. PICK b \in Blocks, r \in Seq(Blocks) : b = t[1] /\ h \o t = Append(h, b) \o r
  BY <1>1
<1>3. Append(h, b) \in Seq(Blocks)
  BY AppendProperties
<1>4. Linked(Append(h, b))
  BY <1>2, <1>3, LinkedConcat
<1>5. QED
  BY <1>2, <1>4, LinkedAppend

(* Two ways to cut a sequence, with as much after the cut.                 *)
LEMMA SameCut ==
  ASSUME NEW S, NEW a \in Seq(S), NEW b \in Seq(S), NEW c \in Seq(S), NEW d \in Seq(S)
  PROVE  a \o b = c \o d /\ Len(b) = Len(d) => a = c
<1>1. /\ Len(a) \in Nat /\ Len(b) \in Nat /\ Len(c) \in Nat /\ Len(d) \in Nat
      /\ Len(a \o b) = Len(a) + Len(b) /\ Len(c \o d) = Len(c) + Len(d)
      /\ \A i \in 1..Len(a) : (a \o b)[i] = a[i]
      /\ \A i \in 1..Len(c) : (c \o d)[i] = c[i]
  <2>1. Len(a) \in Nat /\ Len(b) \in Nat /\ Len(c) \in Nat /\ Len(d) \in Nat
    BY LenProperties
  <2>2. Len(a \o b) = Len(a) + Len(b) /\ \A i \in 1..Len(a) : (a \o b)[i] = a[i]
    BY ConcatProperties
  <2>3. Len(c \o d) = Len(c) + Len(d) /\ \A i \in 1..Len(c) : (c \o d)[i] = c[i]
    BY ConcatProperties
  <2>4. QED
    BY <2>1, <2>2, <2>3
<1>2. SUFFICES ASSUME a \o b = c \o d, Len(b) = Len(d) PROVE a = c
  OBVIOUS
<1>3. Len(a) = Len(c)
  BY <1>1, <1>2
<1>4. \A i \in 1..Len(a) : a[i] = c[i]
  BY <1>1, <1>2, <1>3
<1>5. QED
  BY <1>3, <1>4, SeqEqual

LineLinked == Linked(Line(history, historyBackup, currentHistory))

(* Both parts of blocks that no load began.                                *)
LEMMA LaterConcat ==
  ASSUME NEW g \in Seq(Blocks), NEW t \in Seq(Blocks)
  PROVE  Later(g \o t) <=> Later(g) /\ Later(t)
<1>1. /\ Len(g) \in Nat /\ Len(t) \in Nat /\ Len(g \o t) = Len(g) + Len(t)
      /\ \A i \in 1..(Len(g) + Len(t)) :
           (g \o t)[i] = IF i <= Len(g) THEN g[i] ELSE t[i - Len(g)]
  BY ConcatProperties, LenProperties
<1>2. ASSUME Later(g \o t) PROVE Later(g) /\ Later(t)
  <2>1. \A i \in 1..Len(g) : i \in 1..Len(g \o t) /\ (g \o t)[i] = g[i]
    BY <1>1
  <2>2. \A i \in 1..Len(t) : Len(g) + i \in 1..Len(g \o t) /\ (g \o t)[Len(g) + i] = t[i]
    BY <1>1
  <2>3. QED
    BY <1>2, <2>1, <2>2 DEF Later
<1>3. ASSUME Later(g), Later(t), NEW i \in 1..Len(g \o t) PROVE ~ (g \o t)[i].boot
  <2>1. CASE i <= Len(g)
    BY <1>1, <1>3, <2>1 DEF Later
  <2>2. CASE ~ (i <= Len(g))
    <3>1. i - Len(g) \in 1..Len(t) /\ (g \o t)[i] = t[i - Len(g)]
      BY <1>1, <2>2
    <3>2. QED
      BY <1>3, <3>1 DEF Later
  <2>3. QED
    BY <2>1, <2>2
<1>4. QED
  BY <1>2, <1>3 DEF Later

FrameState == LineLinked /\ ReplayInv

(* The invariant in terms of the timeline's ends,                          *)
LEMMA FrameIs ==
  ASSUME TypeOK
  PROVE  FrameInv <=> (exact => ~ torn /\ FrameState)
BY TimelineIs DEF FrameInv, FrameState, LineLinked

(* in the next state.                                                      *)
LEMMA FrameNext ==
  ASSUME TypeOK'
  PROVE  FrameInv' <=> (exact' => ~ torn' /\ FrameState')
<1>1. Timeline' = Line(history', historyBackup', currentHistory')
  BY TimelineNext
<1>2. QED
  BY <1>1 DEF FrameInv, FrameState, LineLinked

(* The longest block there can be.                                         *)
LEMMA LongestIs == Longest \in Nat /\ Longest > 0
<1>1. \A f \in Nat \ {0}, b \in Nat \ {0} : f * b \in Nat /\ f * b > 0
  OBVIOUS
<1>2. QED
  BY <1>1, SizesAssumption DEF Longest

(* A block ends before it is too long, also at high speed,                 *)
LEMMA ThresholdIs ==
  ASSUME FastFactor <= 10, maximumSpeed \in BOOLEAN, fast \in BOOLEAN
  PROVE  /\ Threshold \in Nat /\ Threshold > 0
         /\ maximumSpeed => Threshold >= Longest
         /\ ~ maximumSpeed => Threshold <= Longest
<1>1. \A f \in 1..10, b \in Nat \ {0} : /\ f * b \in Nat /\ b > 0 /\ 10 * b > 0 /\ f * b > 0
                                        /\ f * b <= 10 * b /\ b <= f * b
  <2>1. TAKE f \in 1..10, b \in Nat \ {0}
  <2>2. f = 1 \/ f = 2 \/ f = 3 \/ f = 4 \/ f = 5 \/ f = 6 \/ f = 7 \/ f = 8 \/ f = 9 \/ f = 10
    OBVIOUS
  <2>3. QED
    BY <2>2
<1>2. FastFactor \in 1..10 /\ BufferSize \in Nat \ {0}
  BY SizesAssumption
<1>3. QED
  BY <1>1, <1>2 DEF Threshold, Longest

(* After Stop, when what it goes back to was found,                        *)
LEMMA FrameStop ==
  ASSUME Safe, Stop, FrameState, exact'
  PROVE  FrameState'
<1>1. PICK t \in Seq(Blocks), c \in Blocks, h \in Seq(Blocks), frames \in Int :
           /\ t # <<>> /\ historyBackup # <<>>
           /\ \E g \in Seq(Blocks) : historyBackup = g \o t
           /\ Line(history, historyBackup, currentHistory) = h \o t
           /\ \/ c = t[1]
              \/ c = currentHistory /\ t[1] = historyBackup[1] /\ frames <= 0
           /\ StopAt(h, t, c, frames)
           /\ Line(history', historyBackup', currentHistory')
                = IF frames > 0 THEN h \o t ELSE Append(h, c)
  BY StopLine
<1>2. frames \in 1..Len(c.log) /\ Decodes(c, h) /\ LoadState(c, h)
  BY <1>1 DEF StopAt
<1>3. c.log \in Seq(1..MaxInputs) /\ Len(c.log) \in Nat /\ frames > 0 /\ c = t[1]
  BY <1>1, <1>2, LenProperties DEF Blocks
<1>4. /\ rewindState' = "Stopping" /\ currentHistory' = [c EXCEPT !.count = 0]
      /\ historyBackup' = t /\ framesToFastForward' = frames /\ machine' = c.state
  BY <1>1, <1>2, <1>3, LoadStateType DEF StopAt
<1>5. currentHistory'.count = 0 /\ currentHistory'.log = c.log
  BY <1>4 DEF Blocks
<1>6. ReplayInv'
  <2>1. historyBackup'[1] = c
    BY <1>3, <1>4
  <2>2. 0 + Len(c.log) = Len(c.log) /\ frames <= Len(c.log)
    BY <1>2, <1>3
  <2>3. Later(historyBackup)
    BY <1>1 DEF FrameState, ReplayInv, Safe, StateInv
  <2>4. Later(t)
    BY <1>1, <2>3, LaterConcat
  <2>5. ~ currentHistory'.boot
    <3>1. 1 \in 1..Len(t)
      BY <1>1, LenProperties
    <3>2. ~ c.boot
      BY <1>3, <2>4, <3>1 DEF Later
    <3>3. QED
      BY <1>4, <3>2 DEF Blocks
  <2>6. QED
    BY <1>4, <1>5, <2>1, <2>2, <2>4, <2>5 DEF ReplayInv, Rewinding
<1>7. LineLinked'
  BY <1>1, <1>3 DEF LineLinked, FrameState
<1>8. QED
  BY <1>6, <1>7 DEF FrameState

(* after PopHistory with a block left,                                     *)
LEMMA FramePop ==
  ASSUME Safe, ~ NothingLeft, FrameState, NEW backup \in Seq(Blocks),
         \/ backup = historyBackup /\ currentHistory.count <= 0 /\ historyBackup # <<>>
         \/ backup = <<>> /\ historyBackup = <<>>,
         PopBlock(backup), rewindState' \in {"Starting", "Started"}, exact'
  PROVE  FrameState'
<1>1. PICK b \in Blocks, h \in Seq(Blocks), l \in Seq(Blocks) :
           /\ Line(history', historyBackup', currentHistory') = l
           /\ \/ Line(history, historyBackup, currentHistory) = l
              \/ Line(history, historyBackup, currentHistory) = Append(l, currentHistory)
           /\ historyBackup' = <<b>> \o backup /\ currentHistory' = b
           /\ LoadState(b, h) /\ exact' = (exact /\ Decodes(b, h) /\ ~ b.boot)
           /\ l = h \o (<<b>> \o backup)
  BY PopLine
<1>2. currentHistory \in Blocks
  BY DEF Safe, TypeOK
<1>3. Linked(l)
  BY <1>1, <1>2, LinkedAppend DEF LineLinked, FrameState
<1>4. PICK t : t = <<b>> \o backup
  OBVIOUS
<1>5. t \in Seq(Blocks) /\ t # <<>> /\ t[1] = b
  <2>1. <<b>> \in Seq(Blocks) /\ Len(<<b>>) = 1 /\ <<b>>[1] = b
    BY <1>1
  <2>2. t \in Seq(Blocks) /\ Len(t) = Len(<<b>>) + Len(backup) /\ t[1] = <<b>>[1]
    BY <1>4, <2>1, ConcatProperties
  <2>3. Len(backup) \in Nat
    BY LenProperties
  <2>4. QED
    BY <2>1, <2>2, <2>3
<1>6. Sound(b)
  <2>1. Linked(h \o t)
    BY <1>1, <1>3, <1>4
  <2>2. Sound(t[1])
    BY <1>5, <2>1, LinkedFirst
  <2>3. QED
    BY <1>5, <2>2
<1>7. machine' = b.state
  BY <1>1, LoadStateType
<1>8. historyBackup' = t /\ currentHistory' = b
  BY <1>1, <1>4
<1>9. ~ b.boot /\ Later(t)
  <2>1. ~ b.boot
    BY <1>1
  <2>2. Later(<<b>>)
    BY <2>1 DEF Later
  <2>3. Later(backup)
    <3>1. CASE backup = historyBackup /\ historyBackup # <<>>
      BY <3>1 DEF FrameState, ReplayInv, Safe, StateInv
    <3>2. CASE backup = <<>>
      BY <3>2 DEF Later
    <3>3. QED
      BY <3>1, <3>2
  <2>4. <<b>> \in Seq(Blocks)
    OBVIOUS
  <2>5. QED
    BY <1>4, <2>1, <2>2, <2>3, <2>4, LaterConcat
<1>10. Len(b.log) = b.count
  BY <1>6, <1>9 DEF Sound, LoadPolls, Blocks
<1>11. ReplayInv'
  BY <1>5, <1>7, <1>8, <1>9, <1>10 DEF ReplayInv
<1>12. QED
  BY <1>1, <1>3, <1>11 DEF FrameState, LineLinked

(* after AddHistoryBlock of a recorded block,                              *)
LEMMA FrameAdd ==
  ASSUME NEW h \in Seq(Blocks), NEW c \in Blocks, NEW s \in Seq(0..MaxInputs),
         Linked(h), Sound(c), EndsIn(h, c.state),
         IF c.count > 0 THEN Leads(c, s) ELSE EndsIn(h, s),
         AddHistoryBlock(h, c, s), historyBackup' = <<>>, machine' = s, rewindState' = "Stopped"
  PROVE  FrameState'
<1>1. PICK g, new : g = NewHistory(h, c) /\ new = SaveState(s, g)
  OBVIOUS
<1>2. history' = g /\ currentHistory' = new
  BY <1>1, AddIs
<1>3. g \in Seq(Blocks) /\ Linked(g) /\ EndsIn(g, s)
  BY <1>1, KeptType, NewHistoryLinked
<1>4. new \in Blocks /\ new.state = s /\ new.count = 0 /\ new.log = <<>> /\ ~ new.boot
  BY <1>1, <1>3, SavedState
<1>5. Sound(new)
  BY <1>4, LongestIs DEF Sound, LoadPolls
<1>6. Linked(Append(g, new))
  BY <1>3, <1>4, <1>5, LinkedAppend
<1>7. s \o <<>> = s
  BY ConcatEmptySeq
<1>8. ReplayInv'
  BY <1>2, <1>4, <1>7, LongestIs DEF ReplayInv, Rewinding
<1>9. QED
  BY <1>2, <1>6, <1>8 DEF FrameState, LineLinked, Line

(* Recorded inputs are inputs.                                             *)
LEMMA Widen ==
  ASSUME NEW s \in Seq(1..MaxInputs)
  PROVE  s \in Seq(0..MaxInputs)
BY SizesAssumption

(* A live input is recorded, and no block gets longer than it may be.      *)
LEMMA FrameStopped ==
  ASSUME Safe, RunFrameStopped, FrameState
  PROVE  FrameState'
<1>1. TypeOK /\ StateInv /\ Poll /\ rewindState = "Stopped"
  BY DEF Safe, RunFrameStopped
<1>2. PICK b, n, log : /\ b = currentHistory /\ n = b.count + 1
                       /\ log = Append(b.log, inputs')
  OBVIOUS
<1>3. /\ phase = "frame" /\ phase' = "send" /\ ~ Recorded
      /\ inputs' \in 1..MaxInputs /\ machine' = Append(machine, inputs')
  BY <1>1, PollIs DEF Recorded
<1>4. /\ b \in Blocks /\ b.log \in Seq(1..MaxInputs) /\ b.state \in Seq(0..MaxInputs)
      /\ b.count \in Nat /\ history \in Seq(Blocks)
  BY <1>1, <1>2 DEF TypeOK, Blocks
<1>5. log \in Seq(1..MaxInputs) /\ Len(log) = Len(b.log) + 1 /\ n \in Nat
  BY <1>2, <1>3, <1>4, AppendProperties
<1>6. /\ currentHistory' = With(b, n, log) /\ historyBackup' = <<>> /\ historyBackup = <<>>
      /\ history' = history /\ rewindState' = "Stopped"
  BY <1>1, <1>2 DEF RunFrameStopped, Poll, With, StateInv, rewinds
<1>7. PICK c : c = With(b, n, log)
  OBVIOUS
<1>8. c \in Blocks /\ c.count = n /\ c.log = log /\ c.state = b.state /\ c.boot = b.boot
  BY <1>4, <1>5, <1>7, BlockWith DEF SameData
<1>9. Linked(history) /\ Sound(b) /\ EndsIn(history, b.state)
  BY <1>2, <1>4, <1>6, LinkedAppend DEF FrameState, LineLinked, Line
<1>10. b.count < Longest /\ machine = b.state \o b.log
  BY <1>1, <1>2, <1>3 DEF FrameState, ReplayInv
<1>11. Sound(c)
  <2>1. PICK x, y, k, e, z : /\ x = Len(b.log) /\ y = b.count /\ k = LoadPolls(b)
                             /\ e = LoadPolls(c) /\ z = Longest
    OBVIOUS
  <2>2. x = y + k /\ e = k /\ k \in Nat
    BY <1>8, <1>9, <2>1 DEF Sound, LoadPolls
  <2>3. /\ y \in Nat /\ z \in Nat /\ y < z /\ n = y + 1
        /\ Len(log) = x + 1
    BY <1>2, <1>4, <1>5, <1>10, <2>1, LongestIs
  <2>4. Len(log) = n + e /\ n <= z
    BY <2>2, <2>3
  <2>5. QED
    BY <1>8, <2>1, <2>4 DEF Sound
<1>12. LineLinked'
  <2>1. Linked(Append(history, c))
    BY <1>4, <1>8, <1>9, <1>11, LinkedAppend
  <2>2. QED
    BY <1>6, <1>7, <2>1 DEF LineLinked, Line
<1>13. machine' = b.state \o log
  <2>1. PICK s, l, e : s = b.state /\ l = b.log /\ e = <<inputs'>>
    OBVIOUS
  <2>2. /\ s \in Seq(0..MaxInputs) /\ l \in Seq(0..MaxInputs) /\ e \in Seq(0..MaxInputs)
        /\ inputs' \in 0..MaxInputs /\ inputs' \in 1..MaxInputs
    BY <1>3, <1>4, <2>1, SizesAssumption
  <2>3. s \o l \in Seq(0..MaxInputs)
    BY <2>2, ConcatProperties
  <2>4. Append(s \o l, inputs') = (s \o l) \o e
    BY <2>1, <2>2, <2>3, AppendIsConcat
  <2>5. Append(l, inputs') = l \o e
    BY <2>1, <2>2, AppendIsConcat
  <2>6. (s \o l) \o e = s \o (l \o e)
    BY <2>2, ConcatAssociative, SMTT(30)
  <2>7. QED
    BY <1>2, <1>3, <1>10, <2>1, <2>4, <2>5, <2>6
<1>14. ReplayInv'
  BY <1>3, <1>6, <1>7, <1>8, <1>13 DEF ReplayInv, Rewinding
<1>15. QED
  BY <1>12, <1>14 DEF FrameState

(* A frame of a block that is rewound.                                     *)
LEMMA FrameRewinding ==
  ASSUME Safe, RunFrameRewinding, FrameState
  PROVE  FrameState'
<1>1. TypeOK /\ StateInv /\ Poll /\ Rewinding
  BY DEF Safe, RunFrameRewinding
<1>2. PICK b : b = currentHistory
  OBVIOUS
<1>3. /\ b \in Blocks /\ b.log \in Seq(1..MaxInputs) /\ Len(b.log) \in Nat /\ b.count \in Nat
  BY <1>1, <1>2, LenProperties DEF TypeOK, Blocks
<1>4. phase = "frame"
  BY <1>1, PollIs
<1>5. b.count > 0 /\ Len(b.log) = b.count
  BY <1>1, <1>2, <1>4 DEF StateInv, FrameState, ReplayInv
<1>6. Recorded
  BY <1>1, <1>2, <1>3, <1>5 DEF Recorded, Rewinding
<1>6a. ~ b.boot /\ Later(historyBackup)
  BY <1>1, <1>2 DEF FrameState, ReplayInv, Rewinding
<1>7. /\ LogLeft \in Seq(1..MaxInputs) /\ Len(LogLeft) = Len(b.log) - 1
      /\ machine' \o LogLeft = machine \o b.log
  BY <1>1, <1>2, <1>6, <1>6a, PollIs
<1>8. /\ currentHistory' = With(b, b.count - 1, LogLeft)
      /\ UNCHANGED <<history, historyBackup, rewindState, framesToFastForward>>
  BY <1>1, <1>2 DEF RunFrameRewinding, Poll, With, rewinds
<1>9. PICK c, n : n = b.count - 1 /\ c = With(b, n, LogLeft)
  OBVIOUS
<1>10. n \in Nat /\ c.count = n /\ c.log = LogLeft /\ currentHistory' = c /\ c.boot = b.boot
  <2>1. n \in Nat
    BY <1>3, <1>5, <1>9
  <2>2. /\ With(b, n, LogLeft).count = n /\ With(b, n, LogLeft).log = LogLeft
        /\ With(b, n, LogLeft).boot = b.boot
    <3>1. b \in Blocks /\ n \in Nat /\ LogLeft \in Seq(1..MaxInputs)
      BY <1>3, <1>7, <2>1
    <3>2. QED
      BY <3>1, BlockWith DEF SameData
  <2>3. QED
    BY <1>8, <1>9, <2>1, <2>2
<1>11. historyBackup # <<>>
  BY <1>1 DEF StateInv, Rewinding
<1>12. LineLinked'
  BY <1>8, <1>11 DEF FrameState, LineLinked, Line
<1>13. machine \o b.log = historyBackup[1].state \o historyBackup[1].log
  BY <1>1, <1>2 DEF FrameState, ReplayInv, Rewinding
<1>14. ReplayInv'
  <2>1. Len(LogLeft) = n
    BY <1>5, <1>7, <1>9
  <2>2. rewindState' \in {"Starting", "Started"}
    BY <1>1, <1>8 DEF Rewinding
  <2>3. QED
    BY <1>7, <1>8, <1>10, <1>13, <1>6a, <2>1, <2>2 DEF ReplayInv
<1>15. QED
  BY <1>12, <1>14 DEF FrameState

(* With the last frame that is fast forwarded the block has the inputs     *)
(* that lead to where the machine is.                                      *)
LEMMA FrameStopping ==
  ASSUME Safe, DecodeInv, ~ torn, RunFrameStopping, FrameState
  PROVE  FrameState'
<1>1. TypeOK /\ StateInv /\ Poll /\ rewindState = "Stopping"
  BY DEF Safe, RunFrameStopping
<1>2. PICK b, first, all : b = currentHistory /\ first = historyBackup[1] /\ all = first.log
  OBVIOUS
<1>3. historyBackup # <<>> /\ historyBackup \in Seq(Blocks) /\ history \in Seq(Blocks)
  BY <1>1 DEF StateInv, TypeOK
<1>4. /\ b \in Blocks /\ b.log \in Seq(1..MaxInputs) /\ Len(b.log) \in Nat /\ b.count \in Nat
      /\ b.state \in Seq(0..MaxInputs)
      /\ framesToFastForward \in Int
  BY <1>1, <1>2, LenProperties DEF TypeOK, Blocks
<1>5. first \in Blocks /\ all \in Seq(1..MaxInputs) /\ Len(all) \in Nat
      /\ first.state \in Seq(0..MaxInputs)
  BY <1>1, <1>2, <1>3, BackupFirst, LenProperties DEF Blocks
<1>6. /\ b.count + Len(b.log) = Len(all) /\ framesToFastForward <= Len(b.log)
      /\ machine \o b.log = first.state \o all /\ framesToFastForward > 0
  BY <1>1, <1>2 DEF FrameState, ReplayInv, StateInv
<1>7. Recorded
  BY <1>1, <1>2, <1>4, <1>6 DEF Recorded
<1>7a. ~ b.boot /\ Later(historyBackup)
  BY <1>1, <1>2 DEF FrameState, ReplayInv
<1>8. /\ phase = "frame" /\ phase' = "send" /\ machine' \in Seq(0..MaxInputs)
      /\ LogLeft \in Seq(1..MaxInputs) /\ Len(LogLeft) = Len(b.log) - 1
      /\ machine' \o LogLeft = machine \o b.log
  BY <1>1, <1>2, <1>7, <1>7a, PollIs
<1>9. PICK left, n, count : left = LogLeft /\ n = Len(all) - Len(left) /\ count = b.count + 1
  OBVIOUS
<1>10. /\ n \in 0..Len(all) /\ n = count /\ count \in Nat /\ Len(left) \in Nat
       /\ count + Len(left) = Len(all) /\ framesToFastForward - 1 <= Len(left)
  <2>1. PICK x, y, z, k, f : /\ x = Len(all) /\ y = Len(b.log) /\ z = Len(left) /\ k = b.count
                             /\ f = framesToFastForward
    OBVIOUS
  <2>2. /\ x \in Nat /\ y \in Nat /\ k \in Nat /\ f \in Int /\ k + y = x /\ f <= y /\ f > 0
        /\ z = y - 1 /\ n = x - z /\ count = k + 1
    BY <1>4, <1>5, <1>6, <1>8, <1>9, <2>1
  <2>3. /\ n \in 0..x /\ n = count /\ count \in Nat /\ z \in Nat /\ count + z = x /\ f - 1 <= z
    BY <2>2
  <2>4. QED
    BY <2>1, <2>3
<1>11. SameData(b, first)
  <2>1. historyBackup # <<>> => SameData(currentHistory, historyBackup[1])
    BY <1>1, LineGoodIs
  <2>2. QED
    BY <1>2, <1>3, <2>1
<1>12. history' = history /\ framesToFastForward' = framesToFastForward - 1
  BY DEF RunFrameStopping, Poll
<1>13. CASE framesToFastForward' # 0
  <2>1. /\ currentHistory' = With(b, count, left)
        /\ UNCHANGED <<historyBackup, rewindState>>
    BY <1>2, <1>9, <1>13 DEF RunFrameStopping, With
  <2>2. PICK c : c = With(b, count, left)
    OBVIOUS
  <2>3. c.count = count /\ c.log = left /\ ~ c.boot
    <3>1. b \in Blocks /\ count \in Nat /\ left \in Seq(1..MaxInputs)
      BY <1>4, <1>8, <1>9, <1>10
    <3>2. /\ With(b, count, left).count = count /\ With(b, count, left).log = left
          /\ With(b, count, left).boot = b.boot
      BY <3>1, BlockWith DEF SameData
    <3>3. QED
      BY <1>7a, <2>2, <3>2
  <2>4. LineLinked'
    BY <1>3, <1>12, <2>1 DEF FrameState, LineLinked, Line
  <2>5. count + Len(left) = Len(all) /\ framesToFastForward' <= Len(left)
    BY <1>10, <1>12
  <2>6. machine' \o left = first.state \o all
    BY <1>6, <1>8, <1>9
  <2>7. ReplayInv'
    BY <1>1, <1>2, <1>7a, <2>1, <2>2, <2>3, <2>5, <2>6 DEF ReplayInv, Rewinding
  <2>8. QED
    BY <2>4, <2>7 DEF FrameState
<1>14. CASE framesToFastForward' = 0
  <2>1. PICK replayed, rest : /\ replayed = SubSeq(all, 1, n)
                              /\ rest = SubSeq(all, n + 1, Len(all))
    OBVIOUS
  <2>2. /\ replayed \in Seq(1..MaxInputs) /\ rest \in Seq(1..MaxInputs)
        /\ all = replayed \o rest /\ Len(replayed) = n /\ Len(rest) = Len(all) - n
    BY <1>5, <1>10, <2>1, Parts
  <2>3. /\ currentHistory' = With(b, count, replayed)
        /\ historyBackup' = <<>> /\ rewindState' = "Stopped"
    BY <1>2, <1>9, <1>14, <2>1 DEF RunFrameStopping, With
  <2>4. PICK c : c = With(b, count, replayed)
    OBVIOUS
  <2>5. /\ c \in Blocks /\ c.count = count /\ c.log = replayed /\ c.state = first.state
        /\ ~ c.boot /\ ~ first.boot
    <3>1. c \in Blocks /\ c.count = count /\ c.log = replayed /\ SameData(c, b)
      <4>1. b \in Blocks /\ count \in Nat /\ replayed \in Seq(1..MaxInputs)
        BY <1>4, <1>10, <2>2
      <4>2. QED
        BY <2>4, <4>1, BlockWith
    <3>2. c.state = b.state /\ c.boot = b.boot /\ b.state = first.state /\ b.boot = first.boot
      BY <1>11, <3>1 DEF SameData
    <3>3. QED
      BY <1>7a, <3>1, <3>2
  <2>6. Linked(history) /\ Sound(first) /\ EndsIn(history, first.state)
    <3>1. Linked(history \o historyBackup)
      BY <1>3 DEF FrameState, LineLinked, Line
    <3>2. Linked(history) /\ Sound(historyBackup[1]) /\ EndsIn(history, historyBackup[1].state)
      BY <1>3, <3>1, LinkedFirst
    <3>3. QED
      BY <1>2, <3>2
  <2>7. Sound(c)
    <3>1. Len(all) = first.count /\ first.count <= Longest
      BY <1>2, <2>5, <2>6, <1>5 DEF Sound, LoadPolls, Blocks
    <3>2. count <= Longest
      BY <1>5, <1>10, <3>1, LongestIs
    <3>3. QED
      BY <1>10, <2>2, <2>5, <3>2 DEF Sound, LoadPolls
  <2>8. LineLinked'
    <3>1. Linked(Append(history, c))
      BY <1>3, <2>5, <2>6, <2>7, LinkedAppend
    <3>2. QED
      BY <1>12, <2>3, <2>4, <3>1 DEF LineLinked, Line
  <2>9. machine' = first.state \o replayed
    <3>1. PICK s : s = first.state
      OBVIOUS
    <3>2. /\ s \in Seq(0..MaxInputs) /\ replayed \in Seq(0..MaxInputs)
          /\ rest \in Seq(0..MaxInputs) /\ left \in Seq(0..MaxInputs)
          /\ machine' \in Seq(0..MaxInputs)
      <4>1. left \in Seq(1..MaxInputs)
        BY <1>8, <1>9
      <4>2. QED
        BY <1>5, <1>8, <2>2, <3>1, <4>1, Widen
    <3>3. s \o replayed \in Seq(0..MaxInputs)
      BY <3>2, ConcatProperties
    <3>4. (s \o replayed) \o rest = s \o (replayed \o rest)
      BY <3>2, ConcatAssociative, SMTT(30)
    <3>5. machine' \o left = (s \o replayed) \o rest
      BY <1>6, <1>8, <1>9, <2>2, <3>1, <3>4
    <3>6. Len(left) = Len(rest)
      <4>1. PICK x, z : x = Len(all) /\ z = Len(left)
        OBVIOUS
      <4>2. x \in Nat /\ z \in Nat /\ n = x - z /\ Len(rest) = x - n
        BY <1>5, <1>9, <1>10, <2>2, <4>1
      <4>3. Len(rest) = z
        BY <4>2
      <4>4. QED
        BY <4>1, <4>3
    <3>7. machine' = s \o replayed
      BY <3>2, <3>3, <3>5, <3>6, SameCut
    <3>8. QED
      BY <3>1, <3>7
  <2>10. ReplayInv'
    BY <1>8, <2>3, <2>4, <2>5, <2>9 DEF ReplayInv, Rewinding
  <2>11. QED
    BY <2>8, <2>10 DEF FrameState
<1>15. QED
  BY <1>13, <1>14

(* Going back by blocks.                                                   *)
LEMMA FrameRewindSeconds ==
  ASSUME Safe, NEW n \in Seconds, RewindSeconds(n), LineLinked, exact'
  PROVE  FrameState'
<1>1. TypeOK /\ StateInv
  BY DEF Safe
<1>2. PICK h \in Seq(Blocks), r \in Seq(Blocks), c \in Blocks :
        /\ history = h \o r
        /\ \/ history = <<>> /\ c = currentHistory
           \/ r # <<>> /\ c = r[1]
        /\ LoadState(c, h) /\ exact' = (exact /\ Decodes(c, h))
        /\ AddHistoryBlock(h, [c EXCEPT !.seg = TRUE], machine')
  BY <1>1, SecondsIs
<1>3. historyBackup = <<>> /\ historyBackup' = <<>> /\ rewindState' = "Stopped"
  BY <1>1 DEF StateInv, RewindSeconds, rewinds
<1>4. currentHistory \in Blocks /\ history \in Seq(Blocks)
  BY <1>1 DEF TypeOK
<1>5. Linked(history) /\ Sound(currentHistory) /\ EndsIn(history, currentHistory.state)
  BY <1>3, <1>4, LinkedAppend DEF LineLinked, Line
<1>6. Linked(h) /\ Sound(c) /\ EndsIn(h, c.state)
  <2>1. CASE history = <<>> /\ c = currentHistory
    <3>1. h = <<>>
      <4>1. Len(h \o r) = Len(h) + Len(r) /\ Len(h) \in Nat /\ Len(r) \in Nat
        BY ConcatProperties, LenProperties
      <4>2. Len(h) = 0
        BY <1>2, <2>1, <4>1
      <4>3. QED
        BY <4>2
    <3>2. QED
      BY <1>5, <2>1, <3>1
  <2>2. CASE r # <<>> /\ c = r[1]
    <3>1. Linked(h \o r)
      BY <1>2, <1>5
    <3>2. QED
      BY <2>2, <3>1, LinkedFirst
  <2>3. QED
    BY <1>2, <2>1, <2>2
<1>7. PICK d, s : d = [c EXCEPT !.seg = TRUE] /\ s = machine'
  OBVIOUS
<1>8. d \in Blocks /\ d.state = c.state /\ d.count = c.count /\ d.log = c.log /\ d.seg
      /\ d.boot = c.boot
  BY <1>7, SegmentType
<1>9. s \in Seq(0..MaxInputs) /\ s = c.state
  BY <1>2, <1>7, LoadStateType
<1>10. Sound(d) /\ EndsIn(h, d.state)
  BY <1>6, <1>8 DEF Sound, LoadPolls
<1>11. IF d.count > 0 THEN Leads(d, s) ELSE EndsIn(h, s)
  BY <1>6, <1>8, <1>9 DEF Leads
<1>12. AddHistoryBlock(h, d, s)
  BY <1>2, <1>7
<1>13. QED
  BY <1>3, <1>6, <1>7, <1>8, <1>9, <1>10, <1>11, <1>12, FrameAdd

(* The user's load of a state.                                             *)
LEMMA FrameStateLoaded ==
  ASSUME Safe, StateLoaded, LineLinked
  PROVE  FrameState'
<1>1. TypeOK /\ StateInv
  BY DEF Safe
<1>2. PICK d, s : d = [currentHistory EXCEPT !.seg = TRUE] /\ s = <<>>
  OBVIOUS
<1>3. /\ AddHistoryBlock(history, d, s) /\ historyBackup = <<>> /\ historyBackup' = <<>>
      /\ machine' = s /\ rewindState' = "Stopped"
  BY <1>1, <1>2 DEF StateInv, StateLoaded, rewinds
<1>4. currentHistory \in Blocks /\ history \in Seq(Blocks)
  BY <1>1 DEF TypeOK
<1>5. Linked(history) /\ Sound(currentHistory) /\ EndsIn(history, currentHistory.state)
  BY <1>3, <1>4, LinkedAppend DEF LineLinked, Line
<1>6. /\ d \in Blocks /\ d.state = currentHistory.state /\ d.count = currentHistory.count
      /\ d.log = currentHistory.log /\ d.boot = currentHistory.boot /\ d.seg
      /\ s \in Seq(0..MaxInputs)
  BY <1>2, <1>4, SegmentType, EmptySeq
<1>7. Sound(d) /\ EndsIn(history, d.state)
  BY <1>5, <1>6 DEF Sound, LoadPolls
<1>8. Leads(d, s) /\ EndsIn(history, s)
  BY <1>2, <1>6 DEF Leads, EndsIn
<1>9. QED
  BY <1>3, <1>4, <1>5, <1>6, <1>7, <1>8, FrameAdd

(* The block of a game that was just loaded.                               *)
LEMMA FrameFirst ==
  ASSUME NEW n \in 1..MaxInputs, NEW b, b = BootBlock(n)
  PROVE  /\ Linked(Append(<<>>, b)) /\ b.state = <<>> /\ b.log = <<n>> /\ b.count = 0
         /\ <<n>> = b.state \o b.log
<1>1. PICK e : e = <<>>
  OBVIOUS
<1>2. e \in Seq(Blocks)
  BY <1>1, EmptySeq
<1>3. b \in Blocks /\ b.state = <<>> /\ b.count = 0 /\ b.log = <<n>> /\ b.boot
  BY BootBlockIs
<1>4. Sound(b)
  <2>1. Len(<<n>>) = 1
    OBVIOUS
  <2>2. LoadPolls(b) = 1
    BY <1>3 DEF LoadPolls
  <2>3. QED
    BY <1>3, <2>1, <2>2, LongestIs DEF Sound
<1>5. Linked(e) /\ EndsIn(e, b.state)
  BY <1>1 DEF Linked, EndsIn
<1>6. Linked(Append(e, b))
  BY <1>2, <1>3, <1>4, <1>5, LinkedAppend
<1>7. <<>> \o <<n>> = <<n>>
  <2>1. <<n>> \in Seq(1..MaxInputs)
    OBVIOUS
  <2>2. QED
    BY <2>1, ConcatEmptySeq
<1>8. QED
  BY <1>1, <1>3, <1>6, <1>7

(* The recording of a game that was just loaded.                           *)
LEMMA FrameInit == Init => FrameInv
<1> SUFFICES ASSUME Init PROVE FrameInv
  OBVIOUS
<1>1. TypeOK
  BY InitSafe DEF Safe
<1>2. PICK b : b = BootBlock(1)
  OBVIOUS
<1>3. /\ Linked(Append(<<>>, b)) /\ b.state = <<>> /\ b.log = <<1>> /\ b.count = 0
      /\ <<1>> = b.state \o b.log
  <2>1. 1 \in 1..MaxInputs
    BY SizesAssumption
  <2>2. QED
    BY <1>2, <2>1, FrameFirst
<1>4. LineLinked /\ ~ torn
  BY <1>2, <1>3 DEF LineLinked, Line, Init
<1>5. ReplayInv
  <2>1. /\ rewindState = "Stopped" /\ machine = <<1>> /\ currentHistory = b
    BY <1>2 DEF Init
  <2>2. QED
    BY <1>3, <2>1, LongestIs DEF ReplayInv, Rewinding
<1>6. QED
  BY <1>1, <1>4, <1>5, FrameIs DEF FrameState

(* Sending a picture changes nothing of it.                                *)
LEMMA FrameSend ==
  ASSUME Safe, SendFrameRewinding \/ SendFrame, FrameState
  PROVE  FrameState'
<1>1. TypeOK /\ StateInv
  BY DEF Safe
<1>2. UNCHANGED <<machine, blocks, framesToFastForward>> /\ phase' = "end"
  BY DEF SendFrameRewinding, SendFrame, rewinds
<1>3. LineLinked'
  BY <1>2 DEF FrameState, LineLinked, blocks
<1>4. \/ UNCHANGED rewindState
      \/ Rewinding /\ rewindState' = "Started"
  BY DEF SendFrameRewinding, SendFrame, rewinds
<1>5. ReplayInv'
  BY <1>2, <1>4 DEF FrameState, ReplayInv, Rewinding, blocks
<1>6. QED
  BY <1>3, <1>5 DEF FrameState

(* A block is never ended that is being replayed: at maximum speed the     *)
(* threshold is as long as the longest block.                              *)
LEMMA FrameEndOfBlock ==
  ASSUME FastFactor <= 10, Safe, EndOfBlock, FrameState
  PROVE  FrameState' /\ rewindState = "Stopped"
<1>1. TypeOK /\ StateInv /\ ReplayInv /\ LineLinked
  BY DEF Safe, FrameState
<1>2. /\ ~ Rewinding /\ currentHistory.count >= Threshold
      /\ AddHistoryBlock(history, currentHistory, machine)
      /\ UNCHANGED <<machine, historyBackup, rewindState>>
  BY DEF EndOfBlock, rewinds
<1>3. PICK b : b = currentHistory
  OBVIOUS
<1>4. /\ b \in Blocks /\ b.count \in Nat /\ b.log \in Seq(1..MaxInputs) /\ Len(b.log) \in Nat
      /\ b.state \in Seq(0..MaxInputs) /\ machine \in Seq(0..MaxInputs)
      /\ history \in Seq(Blocks) /\ historyBackup \in Seq(Blocks)
      /\ maximumSpeed \in BOOLEAN /\ fast \in BOOLEAN
  BY <1>1, <1>3, LenProperties DEF TypeOK, Blocks
<1>5. /\ Threshold \in Nat /\ Threshold > 0
      /\ maximumSpeed => Threshold >= Longest
  BY <1>4, ThresholdIs
<1>6. ASSUME rewindState = "Stopping" PROVE FALSE
  <2>1. historyBackup # <<>> /\ maximumSpeed /\ framesToFastForward > 0
    BY <1>1, <1>6 DEF StateInv
  <2>2. PICK first : first = historyBackup[1]
    OBVIOUS
  <2>3. Sound(first)
    <3>1. Linked(history \o historyBackup)
      BY <1>1, <2>1 DEF LineLinked, Line
    <3>2. Sound(historyBackup[1])
      BY <1>4, <2>1, <3>1, LinkedFirst
    <3>3. QED
      BY <2>2, <3>2
  <2>4. first \in Blocks
    BY <1>1, <2>1, <2>2, BackupFirst
  <2>5. /\ b.count + Len(b.log) = Len(first.log)
        /\ framesToFastForward <= Len(b.log)
    BY <1>1, <1>3, <1>6, <2>2 DEF ReplayInv
  <2>6. Len(first.log) <= Longest
    <3>1. Later(historyBackup)
      BY <1>1, <1>6 DEF ReplayInv
    <3>2. ~ first.boot
      BY <1>1, <2>1, <2>2, <3>1, BackupFirst DEF Later
    <3>3. Len(first.log) = first.count /\ first.count <= Longest
      BY <2>3, <2>4, <3>2 DEF Sound, LoadPolls, Blocks
    <3>4. QED
      BY <3>3
  <2>7. framesToFastForward \in Int
    BY <1>1 DEF TypeOK
  <2>8. PICK x, y, z, f, t, l : /\ x = b.count /\ y = Len(b.log) /\ z = Len(first.log)
                                /\ f = framesToFastForward /\ t = Threshold /\ l = Longest
    OBVIOUS
  <2>9. /\ x \in Nat /\ y \in Nat /\ t \in Nat /\ l \in Nat /\ f \in Int
        /\ x + y = z /\ f <= y /\ f > 0 /\ z <= l /\ t >= l /\ x >= t
    BY <1>2, <1>3, <1>4, <1>5, <2>1, <2>5, <2>6, <2>7, <2>8, LongestIs
  <2>10. QED
    BY <2>9
<1>7. rewindState = "Stopped"
  BY <1>1, <1>2, <1>6 DEF TypeOK, Rewinding
<1>8. historyBackup = <<>> /\ historyBackup' = <<>>
  BY <1>1, <1>2, <1>7 DEF StateInv
<1>9. Linked(history) /\ Sound(b) /\ EndsIn(history, b.state)
  BY <1>1, <1>3, <1>4, <1>8, LinkedAppend DEF LineLinked, Line
<1>10. PICK s : s = machine
  OBVIOUS
<1>11. Leads(b, s)
  BY <1>1, <1>3, <1>7, <1>10 DEF ReplayInv, Leads
<1>12. b.count > 0
  <2>1. PICK x, t : x = b.count /\ t = Threshold
    OBVIOUS
  <2>2. x \in Nat /\ t \in Nat /\ t > 0 /\ x >= t
    BY <1>2, <1>3, <1>4, <1>5, <2>1
  <2>3. x > 0
    BY <2>2
  <2>4. QED
    BY <2>1, <2>3
<1>13. s \in Seq(0..MaxInputs) /\ AddHistoryBlock(history, b, s) /\ machine' = s
       /\ rewindState' = "Stopped"
  BY <1>2, <1>3, <1>4, <1>7, <1>10
<1>14. FrameState'
  BY <1>4, <1>8, <1>9, <1>11, <1>12, <1>13, FrameAdd
<1>15. QED
  BY <1>7, <1>14

(* The end of a frame bounds the block that is being recorded.             *)
LEMMA FrameOthers ==
  ASSUME FastFactor <= 10, Safe, Others, FrameState, exact'
  PROVE  FrameState'
<1>1. TypeOK /\ StateInv /\ ReplayInv /\ LineLinked
  BY DEF Safe, FrameState
<1>2. /\ UNCHANGED <<blocks, rewinds, machine>>
      /\ \/ UNCHANGED phase \/ phase' = "undefined"
         \/ phase' = "frame" /\ Rewinding /\ currentHistory.count > 0
         \/ phase' = "frame" /\ ~ Rewinding /\ currentHistory.count < Threshold
  BY OthersKeep
<1>3. /\ UNCHANGED <<history, historyBackup, currentHistory, machine, rewindState>>
      /\ UNCHANGED framesToFastForward
  BY <1>2 DEF blocks, rewinds
<1>4. LineLinked'
  BY <1>1, <1>3 DEF LineLinked
<1>5. ASSUME rewindState = "Stopped", phase' = "frame" PROVE currentHistory.count < Longest
  <2>1. ~ Rewinding /\ ~ maximumSpeed
    BY <1>1, <1>5 DEF StateInv, Rewinding
  <2>2. maximumSpeed \in BOOLEAN /\ fast \in BOOLEAN /\ currentHistory.count \in Nat
    BY <1>1 DEF TypeOK, Blocks
  <2>3. Threshold \in Nat /\ Threshold <= Longest /\ Longest \in Nat
    BY <2>1, <2>2, ThresholdIs, LongestIs
  <2>4. CASE currentHistory.count < Threshold
    BY <2>2, <2>3, <2>4
  <2>5. CASE phase = "frame"
    BY <1>1, <1>5, <2>5 DEF ReplayInv
  <2>6. QED
    BY <1>2, <1>5, <2>1, <2>4, <2>5
<1>6. ReplayInv'
  BY <1>1, <1>3, <1>5 DEF ReplayInv, Rewinding
<1>7. QED
  BY <1>4, <1>6 DEF FrameState

(* A step after which nothing wrong was loaded.                            *)
LEMMA ExactBefore ==
  ASSUME [Next]_vars, exact', ~ InitHistory
  PROVE  exact
BY Steps, OthersKeep
   DEF RunFrame, RunFrameStopped, RunFrameRewinding, RunFrameStopping, Poll,
       SendFrameRewinding, SendFrame, EndOfRewound, EndOfBlock, Start, StopLocked,
       RewindSeconds, StateLoaded, PopHistory, PopBlock, Stop, StopStarted, StopOther,
       StopInBackup, StopAt

(* After every step the recording leads to where the machine is.           *)
LEMMA FrameInductive ==
  ASSUME FastFactor <= 10, Safe, DecodeInv, FrameInv, [Next]_vars
  PROVE  FrameInv'
<1>1. TypeOK /\ StateInv /\ Safe' /\ TypeOK'
  BY SafeNext DEF Safe
<1>2. SUFFICES ASSUME exact' PROVE ~ torn' /\ FrameState'
  BY <1>1, FrameNext
<1>3. CASE InitHistory
  <2>1. PICK n, b : n = inputs' /\ b = BootBlock(n)
    OBVIOUS
  <2>2. /\ Linked(Append(<<>>, b)) /\ b.state = <<>> /\ b.log = <<n>> /\ b.count = 0
        /\ <<n>> = b.state \o b.log
    <3>1. n \in 1..MaxInputs
      BY <1>1, <1>3, <2>1, SizesAssumption DEF InitHistory, TypeOK
    <3>2. QED
      BY <2>1, <3>1, FrameFirst
  <2>3. /\ history' = <<>> /\ currentHistory' = b /\ historyBackup' = <<>> /\ machine' = <<n>>
        /\ rewindState' = "Stopped" /\ torn' = FALSE
    BY <1>3, <2>1 DEF InitHistory
  <2>4. LineLinked'
    BY <2>2, <2>3 DEF LineLinked, Line
  <2>6. ReplayInv'
    BY <2>2, <2>3, LongestIs DEF ReplayInv, Rewinding
  <2>7. ~ torn'
    BY <2>3
  <2>8. QED
    BY <2>4, <2>6, <2>7 DEF FrameState
<1>4. CASE ~ InitHistory
  <2>1. exact
    BY <1>2, <1>4, ExactBefore
  <2>2. ~ torn /\ FrameState /\ LineLinked
    BY <1>1, <2>1, FrameIs DEF FrameState
  <2>3. CASE RunFrame
    <3>1. torn' = torn
      BY <2>3 DEF RunFrame, RunFrameStopped, RunFrameRewinding, RunFrameStopping, Poll
    <3>2. FrameState'
      BY <2>2, <2>3, FrameStopped, FrameRewinding, FrameStopping DEF RunFrame
    <3>3. QED
      BY <2>2, <3>1, <3>2
  <2>4. CASE SendFrameRewinding \/ SendFrame
    BY <2>2, <2>4, FrameSend DEF SendFrameRewinding, SendFrame
  <2>5. CASE EndOfRewound
    <3>1. Rewinding /\ currentHistory.count <= 0 /\ PopHistory /\ torn' = torn
      BY <2>5 DEF EndOfRewound
    <3>2. CASE Stop
      BY <1>2, <2>2, <3>1, <3>2, FrameStop
    <3>3. CASE ~ NothingLeft /\ PopBlock(historyBackup) /\ UNCHANGED rewinds
      <4>1. historyBackup \in Seq(Blocks) /\ historyBackup # <<>>
        BY <1>1, <3>1 DEF TypeOK, StateInv, Rewinding
      <4>2. rewindState' \in {"Starting", "Started"}
        BY <3>1, <3>3 DEF rewinds, Rewinding
      <4>3. QED
        BY <1>2, <2>2, <3>1, <3>3, <4>1, <4>2, FramePop
    <3>4. QED
      BY <3>1, <3>2, <3>3 DEF PopHistory
  <2>6. CASE EndOfBlock
    <3>1. FrameState' /\ rewindState = "Stopped"
      BY <2>2, <2>6, FrameEndOfBlock
    <3>2. torn' = (torn \/ rewindState = "Stopping") /\ ~ torn
      BY <2>2, <2>6 DEF EndOfBlock
    <3>3. ~ torn'
      BY <3>1, <3>2
    <3>4. QED
      BY <3>1, <3>3
  <2>7. CASE Start
    <3>1. /\ ~ NothingLeft /\ PopBlock(<<>>) /\ historyBackup = <<>> /\ torn' = torn
          /\ rewindState' = "Starting"
      BY <1>1, <2>7 DEF Start, StateInv
    <3>2. <<>> \in Seq(Blocks)
      BY EmptySeq
    <3>3. QED
      BY <1>2, <2>2, <3>1, <3>2, FramePop
  <2>8. CASE StopLocked
    BY <1>2, <2>2, <2>8, FrameStop DEF StopLocked
  <2>9. CASE \E n \in Seconds : RewindSeconds(n)
    <3>1. PICK n \in Seconds : RewindSeconds(n)
      BY <2>9
    <3>2. torn' = torn
      BY <3>1 DEF RewindSeconds
    <3>3. FrameState'
      BY <1>2, <2>2, <3>1, FrameRewindSeconds
    <3>4. QED
      BY <2>2, <3>2, <3>3
  <2>10. CASE StateLoaded
    BY <2>2, <2>10, FrameStateLoaded DEF StateLoaded
  <2>11. CASE Others
    BY <1>2, <2>2, <2>11, FrameOthers, OthersKeep
  <2>12. QED
    BY <1>4, <2>3, <2>4, <2>5, <2>6, <2>7, <2>8, <2>9, <2>10, <2>11, Steps
<1>5. QED
  BY <1>3, <1>4

(* As long as nothing wrong was loaded the blocks are a frame-perfect      *)
(* recording and the machine is where they lead, also in the middle of a   *)
(* replayed block.  The block that a load began has an input more, that of *)
(* the poll of the load, and going back into it counts as loading          *)
(* something wrong (MCRewindBoot.cfg).  The assumption is needed: at an    *)
(* EmulationSpeed above 1000 a block can be longer than the threshold of   *)
(* ProcessEndOfFrame while it is replayed at maximum speed, and            *)
(* MCRewindSpeed.cfg shows what follows.                                   *)
THEOREM FramesPerfect ==
  ASSUME FastFactor <= 10
  PROVE  Spec => []FramePerfect
<1>1. ASSUME Safe, FrameInv PROVE FramePerfect
  <2>1. SUFFICES ASSUME exact PROVE
      /\ \A i \in DOMAIN Timeline :
           /\ Len(Timeline[i].log) = Timeline[i].count + LoadPolls(Timeline[i])
           /\ i < Len(Timeline) => Leads(Timeline[i], Timeline[i + 1].state)
      /\ IF rewindState = "Stopped"
         THEN machine = currentHistory.state \o currentHistory.log
         ELSE machine \o currentHistory.log = historyBackup[1].state \o historyBackup[1].log
    BY DEF FramePerfect, Leads, LoadPolls
  <2>2. Linked(Timeline) /\ ReplayInv
    BY <1>1, <2>1 DEF FrameInv
  <2>3. Timeline \in Seq(Blocks)
    BY <1>1, TimelineType DEF Safe
  <2>4. DOMAIN Timeline = 1..Len(Timeline)
    BY <2>3, LenProperties
  <2>5. QED
    BY <2>2, <2>4 DEF Linked, Sound, ReplayInv
<1>2. ASSUME Safe, DecodeInv, FrameInv, [Next]_vars PROVE Safe' /\ DecodeInv' /\ FrameInv'
  BY <1>2, SafeNext, DecodeInductive, FrameInductive
<1>3. Safe /\ DecodeInv /\ FrameInv /\ [Next]_vars => Safe' /\ DecodeInv' /\ FrameInv'
  BY <1>2
<1>4. Safe /\ FrameInv => FramePerfect
  BY <1>1
<1>5. QED
  BY InitSafe, DecodeInit, FrameInit, <1>3, <1>4, PTL DEF Spec
-----------------------------------------------------------------------------
(***************************************************************************)
(* What the screen shows.                                                  *)
(***************************************************************************)
(* f is how s begins.                                                      *)
Begins(f, s) == Len(f) <= Len(s) /\ \A i \in 1..Len(f) : f[i] = s[i]

(* The pictures of v are those of the machine on its way to s, from the    *)
(* one after n inputs on.                                                  *)
Pictures(v, n, s) == \A m \in 1..Len(v) : Len(v[m]) = n + m /\ Begins(v[m], s)

(* Where a block leads.                                                    *)
End(b) == b.state \o b.log

(* The blocks of h are a way to s.                                         *)
Way(h, s) ==
  \A i \in 1..Len(h) : /\ Begins(End(h[i]), s)
                       /\ Len(h[i].state) = Len(h[1].state) + CountOf(h, i - 1)

Machines == Seq(0..MaxInputs)

LEMMA BeginsTrans ==
  ASSUME NEW S, NEW f \in Seq(S), NEW g \in Seq(S), NEW s \in Seq(S), Begins(f, g), Begins(g, s)
  PROVE  Begins(f, s)
<1>1. Len(f) \in Nat /\ Len(g) \in Nat /\ Len(s) \in Nat
  BY LenProperties
<1>2. QED
  BY <1>1 DEF Begins

LEMMA BeginsSame ==
  ASSUME NEW S, NEW f \in Seq(S), NEW g \in Seq(S), NEW s, Begins(f, s), Begins(g, s),
         Len(f) = Len(g)
  PROVE  f = g
<1>1. \A i \in 1..Len(f) : f[i] = g[i]
  BY DEF Begins
<1>2. QED
  BY <1>1, SeqEqual

LEMMA BeginsConcat ==
  ASSUME NEW S, NEW f \in Seq(S), NEW r \in Seq(S)
  PROVE  /\ Begins(f, f \o r) /\ f \o r \in Seq(S) /\ Len(f \o r) = Len(f) + Len(r)
         /\ Len(f) \in Nat /\ Len(r) \in Nat
<1>1. Len(f) \in Nat /\ Len(r) \in Nat
  BY LenProperties
<1>2. /\ f \o r \in Seq(S) /\ Len(f \o r) = Len(f) + Len(r)
      /\ \A i \in 1..(Len(f) + Len(r)) : (f \o r)[i] = IF i <= Len(f) THEN f[i] ELSE r[i - Len(f)]
  BY ConcatProperties
<1>3. QED
  BY <1>1, <1>2 DEF Begins

(* All but the last element, and the last.                                 *)
LEMMA FrontLast ==
  ASSUME NEW S, NEW s \in Seq(S), s # <<>>
  PROVE  /\ Front(s) \in Seq(S) /\ Len(Front(s)) = Len(s) - 1 /\ Begins(Front(s), s)
         /\ Len(s) \in Nat \ {0} /\ Last(s) = s[Len(s)] /\ Last(s) \in S
<1>1. Len(s) \in Nat \ {0} /\ Len(s) - 1 \in 0..Len(s) /\ Len(s) \in 1..Len(s)
  BY EmptySeq
<1>2. PICK f : f = SubSeq(s, 1, Len(s) - 1)
  OBVIOUS
<1>3. f \in Seq(S) /\ Len(f) = Len(s) - 1
  BY <1>1, <1>2, Parts
<1>4. \A i \in 1..(Len(s) - 1) : s[i] \in S
  BY <1>1, ElementOfSeq
<1>5. \A i \in 1..Len(f) : f[i] = s[i]
  BY <1>1, <1>2, <1>3, <1>4, SubSeqProperties
<1>6. Front(s) = f
  BY <1>2 DEF Front
<1>7. Last(s) = s[Len(s)] /\ Last(s) \in S
  BY <1>1, ElementOfSeq DEF Last
<1>8. QED
  BY <1>1, <1>3, <1>5, <1>6, <1>7 DEF Begins

(* The machine after some of a block's inputs.                             *)
LEMMA BeginsInBlock ==
  ASSUME NEW S, NEW s \in Seq(S), NEW l \in Seq(S), NEW n \in 0..Len(l)
  PROVE  /\ s \o SubSeq(l, 1, n) \in Seq(S) /\ Begins(s \o SubSeq(l, 1, n), s \o l)
         /\ Len(s \o SubSeq(l, 1, n)) = Len(s) + n
<1>1. PICK a, b : a = SubSeq(l, 1, n) /\ b = SubSeq(l, n + 1, Len(l))
  OBVIOUS
<1>2. a \in Seq(S) /\ b \in Seq(S) /\ l = a \o b /\ Len(a) = n
  BY <1>1, Parts
<1>3. s \o l = (s \o a) \o b
  BY <1>2, ConcatAssociative, SMTT(30)
<1>4. s \o a \in Seq(S) /\ Len(s \o a) = Len(s) + n
  BY <1>2, BeginsConcat
<1>5. Begins(s \o a, (s \o a) \o b)
  BY <1>2, <1>4, BeginsConcat
<1>6. QED
  BY <1>1, <1>3, <1>4, <1>5

(* Pictures, joined                                                        *)
LEMMA PicturesConcat ==
  ASSUME NEW v \in Seq(Machines), NEW w \in Seq(Machines), NEW n \in Nat, NEW k, NEW s,
         Pictures(v, n, s), k = n + Len(v), Pictures(w, k, s)
  PROVE  v \o w \in Seq(Machines) /\ Pictures(v \o w, n, s) /\ Len(v \o w) = Len(v) + Len(w)
<1>1. Len(v) \in Nat /\ Len(w) \in Nat
  BY LenProperties
<1>2. PICK a : a = v \o w
  OBVIOUS
<1>3. /\ a \in Seq(Machines) /\ Len(a) = Len(v) + Len(w)
      /\ \A i \in 1..(Len(v) + Len(w)) : a[i] = IF i <= Len(v) THEN v[i] ELSE w[i - Len(v)]
  BY <1>2, ConcatProperties
<1>4. ASSUME NEW m \in 1..Len(a) PROVE Len(a[m]) = n + m /\ Begins(a[m], s)
  <2>1. CASE m <= Len(v)
    BY <1>1, <1>3, <1>4, <2>1 DEF Pictures
  <2>2. CASE ~ (m <= Len(v))
    <3>1. PICK j : j = m - Len(v)
      OBVIOUS
    <3>2. j \in 1..Len(w) /\ a[m] = w[j] /\ k + j = n + m
      BY <1>1, <1>3, <1>4, <2>2, <3>1
    <3>3. QED
      BY <3>2 DEF Pictures
  <2>3. QED
    BY <2>1, <2>2
<1>5. QED
  BY <1>2, <1>3, <1>4 DEF Pictures

(* and with one more.                                                      *)
LEMMA PicturesAppend ==
  ASSUME NEW v \in Seq(Machines), NEW f \in Machines, NEW n \in Nat, NEW s,
         Pictures(v, n, s), Len(f) = n + Len(v) + 1, Begins(f, s)
  PROVE  /\ Append(v, f) \in Seq(Machines) /\ Pictures(Append(v, f), n, s)
         /\ Len(Append(v, f)) = Len(v) + 1
<1>1. PICK a : a = Append(v, f)
  OBVIOUS
<1>2. /\ a \in Seq(Machines) /\ Len(a) = Len(v) + 1 /\ a[Len(v) + 1] = f
      /\ \A i \in 1..Len(v) : a[i] = v[i]
  BY <1>1, AppendProperties
<1>3. Len(v) \in Nat
  BY LenProperties
<1>4. ASSUME NEW m \in 1..Len(a) PROVE Len(a[m]) = n + m /\ Begins(a[m], s)
  <2>1. CASE m = Len(v) + 1
    BY <1>2, <1>3, <2>1
  <2>2. CASE m # Len(v) + 1
    <3>1. m \in 1..Len(v)
      BY <1>2, <1>3, <2>2
    <3>2. QED
      BY <1>2, <3>1 DEF Pictures
  <2>3. QED
    BY <2>1, <2>2
<1>5. QED
  BY <1>1, <1>2, <1>4 DEF Pictures

(* The last picture, and those before it.                                  *)
LEMMA PicturesFront ==
  ASSUME NEW v \in Seq(Machines), v # <<>>, NEW n \in Nat, NEW s, Pictures(v, n, s)
  PROVE  /\ Front(v) \in Seq(Machines) /\ Pictures(Front(v), n, s)
         /\ Len(Front(v)) = Len(v) - 1
         /\ Last(v) \in Machines /\ Begins(Last(v), s) /\ Len(Last(v)) = n + Len(v)
<1>1. PICK w : w = Front(v)
  OBVIOUS
<1>2. /\ w \in Seq(Machines) /\ Len(w) = Len(v) - 1 /\ Begins(w, v)
      /\ Len(v) \in Nat \ {0} /\ Last(v) = v[Len(v)] /\ Last(v) \in Machines
  BY <1>1, FrontLast
<1>3. \A m \in 1..Len(w) : m \in 1..Len(v) /\ w[m] = v[m]
  BY <1>2 DEF Begins
<1>4. QED
  BY <1>1, <1>2, <1>3 DEF Pictures

LEMMA PicturesNone ==
  ASSUME NEW n, NEW s
  PROVE  <<>> \in Seq(Machines) /\ Len(<<>>) = 0 /\ Pictures(<<>>, n, s)
BY EmptySeq DEF Pictures

(* The types of a block's ends.                                            *)
LEMMA EndType ==
  ASSUME NEW b \in Blocks
  PROVE  /\ End(b) \in Machines /\ b.state \in Machines /\ b.log \in Seq(0..MaxInputs)
         /\ b.log \in Seq(1..MaxInputs)
         /\ Len(End(b)) = Len(b.state) + Len(b.log) /\ Begins(b.state, End(b))
         /\ Len(b.state) \in Nat /\ Len(b.log) \in Nat /\ b.count \in Nat /\ b.seg \in BOOLEAN
<1>1. b.state \in Seq(0..MaxInputs) /\ b.log \in Seq(1..MaxInputs) /\ b.count \in Nat
      /\ b.seg \in BOOLEAN
  BY DEF Blocks
<1>2. b.log \in Seq(0..MaxInputs)
  BY <1>1, Widen
<1>3. QED
  BY <1>1, <1>2, BeginsConcat DEF End, Machines

(* A sum, without its first term.                                          *)
LEMMA SumToFirst ==
  ASSUME NEW f, NEW g, NEW n \in Nat, \A i \in 1..(n + 1) : f[i] \in Nat,
         \A i \in 1..n : g[i] = f[1 + i]
  PROVE  SumTo(f, n + 1) = SumTo(f, 1) + SumTo(g, n)
BY SumToSplit

(* The frames before a block, when there is one more block.                *)
LEMMA CountOfNext ==
  ASSUME NEW b \in Blocks, NEW h \in Seq(Blocks), NEW n \in 0..Len(h)
  PROVE  /\ CountOf(<<b>> \o h, n + 1) = b.count + CountOf(h, n)
         /\ CountOf(<<b>> \o h, 0) = 0 /\ CountOf(h, n) \in Nat
<1>0. PICK t, f, g : /\ t = <<b>> \o h /\ f = [i \in DOMAIN t |-> t[i].count]
                     /\ g = [i \in DOMAIN h |-> h[i].count]
  OBVIOUS
<1>1. /\ Len(h) \in Nat /\ n \in Nat /\ DOMAIN h = 1..Len(h)
      /\ \A i \in 1..Len(h) : h[i] \in Blocks
  BY LenProperties, ElementOfSeq
<1>2. /\ t \in Seq(Blocks) /\ Len(t) = Len(h) + 1 /\ t[1] = b
      /\ \A i \in 1..Len(h) : t[i + 1] = h[i]
  <2>1. <<b>> \in Seq(Blocks) /\ Len(<<b>>) = 1 /\ <<b>>[1] = b
    OBVIOUS
  <2>2. /\ t \in Seq(Blocks) /\ Len(t) = 1 + Len(h)
        /\ \A i \in 1..(1 + Len(h)) : t[i] = IF i <= 1 THEN <<b>>[i] ELSE h[i - 1]
    BY <1>0, <2>1, ConcatProperties
  <2>3. QED
    BY <1>1, <2>1, <2>2
<1>3. DOMAIN t = 1..(Len(h) + 1) /\ \A i \in 1..(Len(h) + 1) : t[i] \in Blocks
  BY <1>2, LenProperties, ElementOfSeq
<1>4. f[1] = b.count /\ b.count \in Nat
  BY <1>0, <1>1, <1>2, <1>3 DEF Blocks
<1>5. \A i \in 1..(n + 1) : f[i] \in Nat
  BY <1>0, <1>1, <1>3 DEF Blocks
<1>6. \A i \in 1..n : g[i] = f[1 + i]
  BY <1>0, <1>1, <1>2, <1>3
<1>7. SumTo(f, 0) = 0 /\ SumTo(f, 1) = b.count
  <2>1. SumTo(f, 0) = 0 /\ SumTo(f, 0 + 1) = SumTo(f, 0) + f[0 + 1]
    BY SumToDef
  <2>2. QED
    BY <1>4, <2>1
<1>8. SumTo(f, n + 1) = SumTo(f, 1) + SumTo(g, n)
  BY <1>1, <1>5, <1>6, SumToFirst
<1>9. CountOf(t, n + 1) = SumTo(f, n + 1) /\ CountOf(t, 0) = SumTo(f, 0)
      /\ CountOf(h, n) = SumTo(g, n)
  BY <1>0 DEF CountOf
<1>10. CountOf(h, n) \in Nat
  BY SizeOfType
<1>11. CountOf(t, n + 1) = b.count + CountOf(h, n) /\ CountOf(t, 0) = 0
  BY <1>7, <1>8, <1>9
<1>12. QED
  BY <1>0, <1>10, <1>11

-----------------------------------------------------------------------------
(* All frames of the first block have been collected.                      *)
Complete == phase = "end" /\ currentHistory.count = 0

(* How many of them are in the builder before that.                        *)
Collected ==
  Len(historyBackup[1].log) - Len(currentHistory.log) - (IF phase = "send" THEN 1 ELSE 0)

(* How many inputs lead to the first frame in the video history.           *)
Since ==
  IF Complete THEN Len(historyBackup[1].state) ELSE Len(End(historyBackup[1]))

Target == End(historyBackup[Len(historyBackup)])

(* The blocks in the backup are a way to the end of the last one.          *)
WayInv == Way(historyBackup, Target)

(* The collected frames and the one on the screen are the last part of     *)
(* that way, the shown one being the next, or not yet shown a first time.  *)
RewoundInv ==
  /\ WayInv
  /\ Pictures(videoHistory, Since, Target)
  /\ Begins(shown, Target)
  /\ Since + Len(videoHistory) = Len(shown) - (IF rewindState = "Started" THEN 1 ELSE 0)
  /\ Pictures(videoHistoryBuilder, Len(historyBackup[1].state), Target)
  /\ Len(videoHistoryBuilder) = IF Complete THEN 0 ELSE Collected
  /\ rewindState = "Starting" => Len(videoHistory) < BufferSize

(* Between two frames the screen shows where the recording has led.        *)
StoppedInv ==
  rewindState = "Stopped" =>
    /\ phase \in {"send", "end"} => currentHistory.count > 0
    /\ phase \in {"frame", "end"} /\ currentHistory.count > 0 => shown = machine
    /\ phase = "frame" /\ currentHistory.count = 0 /\ history # <<>> =>
         Last(history).seg \/ shown = End(Last(history))

ScreenInv == exact => StoppedInv /\ (Rewinding /\ Seamless => RewoundInv)

(* What is known of the block that is replayed.                            *)
LEMMA ReplayedBlock ==
  ASSUME Safe, FrameState, Rewinding
  PROVE  \E b \in Blocks, c \in Blocks, last \in Blocks :
           /\ b = historyBackup[1] /\ c = currentHistory
           /\ last = historyBackup[Len(historyBackup)] /\ Target = End(last)
           /\ historyBackup # <<>> /\ historyBackup \in Seq(Blocks)
           /\ Len(historyBackup) \in Nat \ {0}
           /\ Len(b.log) = b.count /\ Len(c.log) = c.count /\ c.count \in Nat
           /\ machine \in Machines /\ Begins(machine, End(b))
           /\ Len(machine) = Len(End(b)) - c.count
<1>1. /\ historyBackup # <<>> /\ historyBackup \in Seq(Blocks) /\ history \in Seq(Blocks)
      /\ currentHistory \in Blocks /\ machine \in Machines
  BY DEF Safe, TypeOK, StateInv, Rewinding, Machines
<1>2. /\ Len(historyBackup) \in Nat \ {0} /\ historyBackup[1] \in Blocks
      /\ historyBackup[Len(historyBackup)] \in Blocks
  <2>1. Len(historyBackup) \in Nat \ {0}
    BY <1>1, EmptySeq
  <2>2. QED
    BY <1>1, <2>1, ElementOfSeq
<1>3. PICK b \in Blocks, c \in Blocks, last \in Blocks :
        b = historyBackup[1] /\ c = currentHistory /\ last = historyBackup[Len(historyBackup)]
  BY <1>1, <1>2
<1>4. Sound(b)
  <2>1. Linked(history \o historyBackup)
    BY <1>1 DEF FrameState, LineLinked, Line
  <2>2. QED
    BY <1>1, <1>3, <2>1, LinkedFirst
<1>5. Len(c.log) = c.count /\ machine \o c.log = End(b)
  BY <1>3 DEF FrameState, ReplayInv, End, Rewinding
<1>6. /\ Begins(machine, machine \o c.log) /\ Len(machine) \in Nat
      /\ Len(machine \o c.log) = Len(machine) + Len(c.log)
  BY <1>1, EndType, BeginsConcat DEF Machines
<1>7. Len(machine) = Len(End(b)) - c.count
  BY <1>5, <1>6, EndType
<1>8. Len(b.log) = b.count
  <2>1. Later(historyBackup) /\ 1 \in 1..Len(historyBackup)
    <3>1. rewindState # "Stopped"
      BY DEF Rewinding
    <3>2. QED
      BY <1>2, <3>1 DEF FrameState, ReplayInv
  <2>2. ~ b.boot
    BY <1>3, <2>1 DEF Later
  <2>3. QED
    BY <1>4, <2>2 DEF Sound, LoadPolls, Blocks
<1>9. QED
  BY <1>1, <1>2, <1>3, <1>5, <1>6, <1>7, <1>8, EndType DEF Target

(***************************************************************************)
(* Each step.                                                              *)
(***************************************************************************)
(* A frame of a block that is rewound.                                     *)
LEMMA ScreenRewinding ==
  ASSUME Safe, FrameState, RunFrameRewinding, RewoundInv
  PROVE  RewoundInv'
<1>1. Rewinding /\ Poll /\ TypeOK /\ phase = "frame" /\ phase' = "send"
  BY DEF RunFrameRewinding, Safe, Poll
<1>2. /\ UNCHANGED <<historyBackup, rewindState, videoHistory, videoHistoryBuilder, shown>>
      /\ currentHistory' = [currentHistory EXCEPT !.count = @ - 1, !.log = LogLeft]
  BY DEF RunFrameRewinding, Poll, rewinds
<1>3. PICK b \in Blocks, c \in Blocks, last \in Blocks :
           /\ b = historyBackup[1] /\ c = currentHistory
           /\ Len(c.log) = c.count /\ c.count \in Nat
  BY <1>1, ReplayedBlock
<1>4. c.count > 0
  BY <1>1, <1>3 DEF Safe, StateInv
<1>5. Recorded
  BY <1>1, <1>3, <1>4, EmptySeq DEF Recorded, Rewinding
<1>6. Len(LogLeft) = Len(c.log) - 1
  BY <1>1, <1>3, <1>5, PollIs
<1>7. currentHistory'.log = LogLeft
  BY <1>2, <1>3 DEF Blocks
<1>8. Collected' = Collected
  BY <1>1, <1>2, <1>3, <1>6, <1>7, EndType DEF Collected
<1>9. ~ Complete /\ ~ Complete'
  BY <1>1 DEF Complete
<1>10. Since' = Since /\ Target' = Target
  BY <1>2, <1>9 DEF Since, Target
<1>11. WayInv'
  BY <1>2, <1>10 DEF RewoundInv, WayInv
<1>12. QED
  BY <1>2, <1>8, <1>9, <1>10, <1>11 DEF RewoundInv

(* A picture is collected, and perhaps one shown.                          *)
LEMMA ScreenSendRewinding ==
  ASSUME Safe, FrameState, SendFrameRewinding, RewoundInv
  PROVE  /\ RewoundInv'
         /\ rewindState' = "Started" /\ shown' # shown => shown' = Front(shown)
<1> DEFINE builder == Append(videoHistoryBuilder, machine)
           complete == Len(builder) = historyBackup[1].count
           all == IF complete THEN builder \o videoHistory ELSE videoHistory
           started == rewindState = "Started" \/ Len(all) >= BufferSize
<1>1. Rewinding /\ TypeOK /\ phase = "send" /\ phase' = "end"
  BY DEF SendFrameRewinding, Safe
<1>2. /\ UNCHANGED <<historyBackup, currentHistory, machine>>
      /\ videoHistoryBuilder' = IF complete THEN <<>> ELSE builder
      /\ rewindState' = IF started THEN "Started" ELSE rewindState
      /\ videoHistory' = IF started /\ all # <<>> THEN Front(all) ELSE all
      /\ shown' = IF started /\ all # <<>> THEN Last(all) ELSE shown
  BY DEF SendFrameRewinding, blocks
<1>3. PICK b \in Blocks, c \in Blocks, last \in Blocks :
           /\ b = historyBackup[1] /\ c = currentHistory
           /\ last = historyBackup[Len(historyBackup)] /\ Target = End(last)
           /\ historyBackup # <<>> /\ historyBackup \in Seq(Blocks)
           /\ Len(historyBackup) \in Nat \ {0}
           /\ Len(b.log) = b.count /\ Len(c.log) = c.count /\ c.count \in Nat
           /\ machine \in Machines /\ Begins(machine, End(b))
           /\ Len(machine) = Len(End(b)) - c.count
  BY <1>1, ReplayedBlock
<1>4. /\ Target \in Machines /\ End(b) \in Machines /\ Begins(End(b), Target)
      /\ Begins(machine, Target)
  <2>1. 1 \in 1..Len(historyBackup)
    BY <1>3
  <2>2. Begins(End(b), Target)
    BY <1>3, <2>1 DEF RewoundInv, WayInv, Way
  <2>3. QED
    BY <1>3, <2>2, EndType, BeginsTrans DEF Machines
<1>5. PICK n, e, x : n = Len(b.state) /\ e = Len(End(b)) /\ x = c.count
  OBVIOUS
<1>6. n \in Nat /\ x \in Nat /\ e = n + b.count /\ b.count \in Nat
  BY <1>3, <1>5, EndType
<1>7. /\ videoHistory \in Seq(Machines) /\ videoHistoryBuilder \in Seq(Machines)
      /\ shown \in Machines /\ Len(videoHistory) \in Nat /\ Len(shown) \in Nat
      /\ BufferSize \in Nat \ {0}
  BY <1>1, SizesAssumption, LenProperties DEF TypeOK, Machines
<1>8. ~ Complete /\ Since = e /\ Collected = b.count - x - 1
  BY <1>1, <1>3, <1>5 DEF Complete, Since, Collected
<1>9. /\ Len(videoHistoryBuilder) = b.count - x - 1
      /\ Pictures(videoHistoryBuilder, n, Target) /\ Pictures(videoHistory, e, Target)
      /\ Begins(shown, Target) /\ (rewindState = "Starting" => Len(videoHistory) < BufferSize)
      /\ e + Len(videoHistory) = Len(shown) - (IF rewindState = "Started" THEN 1 ELSE 0)
  BY <1>3, <1>5, <1>8 DEF RewoundInv
<1>10. /\ builder \in Seq(Machines) /\ Pictures(builder, n, Target)
       /\ Len(builder) = b.count - x
  <2>1. Len(machine) = n + Len(videoHistoryBuilder) + 1
    <3>1. Len(machine) = e - x
      BY <1>3, <1>5
    <3>2. Len(videoHistoryBuilder) = b.count - x - 1
      BY <1>9
    <3>3. QED
      BY <1>6, <3>1, <3>2, SMTT(30)
  <2>2. /\ builder \in Seq(Machines) /\ Pictures(builder, n, Target)
        /\ Len(builder) = Len(videoHistoryBuilder) + 1
    BY <1>3, <1>4, <1>6, <1>7, <1>9, <2>1, PicturesAppend
  <2>3. QED
    BY <1>6, <1>9, <2>2, SMTT(30)
<1> HIDE DEF builder
<1>11. complete <=> x = 0
  BY <1>3, <1>6, <1>10, SMTT(30)
<1>12. Complete' <=> complete
  BY <1>1, <1>2, <1>3, <1>5, <1>11 DEF Complete
<1>13. PICK since : since = IF complete THEN n ELSE e
  OBVIOUS
<1>14. /\ all \in Seq(Machines) /\ Pictures(all, since, Target) /\ since \in Nat
       /\ since + Len(all) = e + Len(videoHistory) /\ Len(all) \in Nat
       /\ (~ complete => Len(all) = Len(videoHistory))
  <2>1. CASE complete
    <3>1. e = n + Len(builder) /\ Len(builder) \in Nat
      BY <1>6, <1>10, <1>11, <2>1
    <3>2. /\ builder \o videoHistory \in Seq(Machines)
          /\ Pictures(builder \o videoHistory, n, Target)
          /\ Len(builder \o videoHistory) = Len(builder) + Len(videoHistory)
      BY <1>6, <1>7, <1>9, <1>10, <3>1, PicturesConcat
    <3>3. all = builder \o videoHistory /\ since = n
      BY <1>13, <2>1
    <3> HIDE DEF all, complete
    <3>4. QED
      BY <1>6, <1>7, <2>1, <3>1, <3>2, <3>3
  <2>2. CASE ~ complete
    <3>1. all = videoHistory /\ since = e
      BY <1>13, <2>2
    <3>2. e \in Nat
      BY <1>6
    <3>3. QED
      BY <1>7, <1>9, <2>2, <3>1, <3>2
  <2>3. QED
    BY <2>1, <2>2
<1>15. all # <<>> => Len(all) > 0
  BY <1>14, EmptySeq
<1> HIDE DEF complete
<1>16. Since' = since /\ Target' = Target /\ WayInv'
  <2>1. Target' = Target
    BY <1>2 DEF Target
  <2>2. Since' = since
    BY <1>2, <1>3, <1>5, <1>12, <1>13 DEF Since
  <2>3. WayInv'
    BY <1>2, <2>1 DEF RewoundInv, WayInv
  <2>4. QED
    BY <2>1, <2>2, <2>3
<1>17. /\ Pictures(videoHistoryBuilder', n, Target)
       /\ Len(videoHistoryBuilder') = IF Complete' THEN 0 ELSE Collected'
  <2>1. CASE complete
    BY <1>2, <1>12, <2>1, PicturesNone
  <2>2. CASE ~ complete
    <3>1. Collected' = b.count - x
      BY <1>1, <1>2, <1>3, <1>5, <1>6 DEF Collected
    <3>2. QED
      BY <1>2, <1>10, <1>12, <2>2, <3>1
  <2>3. QED
    BY <2>1, <2>2
<1>18. /\ Pictures(videoHistory', since, Target) /\ Begins(shown', Target)
       /\ since + Len(videoHistory')
            = Len(shown') - (IF rewindState' = "Started" THEN 1 ELSE 0)
       /\ rewindState' = "Starting" => Len(videoHistory') < BufferSize
       /\ rewindState' = "Started" /\ shown' # shown => shown' = Front(shown)
  <2>1. CASE started /\ all # <<>>
    <3>1. /\ Pictures(Front(all), since, Target) /\ Len(Front(all)) = Len(all) - 1
          /\ Last(all) \in Machines /\ Begins(Last(all), Target)
          /\ Len(Last(all)) = since + Len(all)
      <4> HIDE DEF all
      <4>1. QED
        BY <1>14, <2>1, PicturesFront
    <3>2. videoHistory' = Front(all) /\ shown' = Last(all) /\ rewindState' = "Started"
      BY <1>2, <2>1
    <3> HIDE DEF all, started
    <3>3. since + Len(videoHistory') = Len(shown') - 1
      BY <1>14, <3>1, <3>2
    <3>4. Len(shown') = Len(shown) - (IF rewindState = "Started" THEN 1 ELSE 0)
      BY <1>9, <1>14, <3>1, <3>2
    <3>5. shown' # shown => shown' = Front(shown)
      <4>1. CASE rewindState = "Started"
        <5>1. shown # <<>>
          <6>1. Len(shown) # 0
            BY <1>7, <3>1, <3>2, <3>4, <4>1, <1>14
          <6>2. QED
            BY <6>1, EmptySeq
        <5>2. /\ Front(shown) \in Machines /\ Len(Front(shown)) = Len(shown) - 1
              /\ Begins(Front(shown), shown)
          BY <1>7, <5>1, FrontLast DEF Machines
        <5>3. Begins(Front(shown), Target)
          BY <1>4, <1>7, <1>9, <5>2, BeginsTrans DEF Machines
        <5>4. QED
          BY <3>1, <3>2, <3>4, <4>1, <5>2, <5>3, BeginsSame DEF Machines
      <4>2. CASE rewindState # "Started"
        <5>1. Len(shown') = Len(shown)
          BY <1>7, <3>4, <4>2
        <5>2. shown' = shown
          BY <1>7, <1>9, <3>1, <3>2, <5>1, BeginsSame DEF Machines
        <5>3. QED
          BY <5>2
      <4>3. QED
        BY <4>1, <4>2
    <3>6. QED
      BY <3>1, <3>2, <3>3, <3>5
  <2>2. CASE started /\ all = <<>>
    <3>1. Len(all) = 0
      BY <2>2, EmptySeq
    <3>2. rewindState = "Started" /\ rewindState' = "Started" /\ videoHistory' = all
          /\ shown' = shown
      BY <1>2, <1>7, <2>2, <3>1
    <3>3. QED
      BY <1>9, <1>14, <3>2
  <2>3. CASE ~ started
    <3>1. rewindState = "Starting" /\ rewindState' = "Starting" /\ videoHistory' = all
          /\ shown' = shown /\ Len(all) < BufferSize
      <4>1. ~ (Len(all) >= BufferSize) /\ rewindState # "Started"
        BY <2>3
      <4>2. Len(all) < BufferSize
        BY <1>7, <1>14, <4>1
      <4>3. QED
        BY <1>1, <1>2, <2>3, <4>1, <4>2 DEF Rewinding
    <3>2. QED
      BY <1>9, <1>14, <3>1
  <2>4. QED
    BY <2>1, <2>2, <2>3
<1>19. Len(historyBackup'[1].state) = n
  BY <1>2, <1>3, <1>5
<1>20. RewoundInv'
  BY <1>16, <1>17, <1>18, <1>19 DEF RewoundInv
<1>21. QED
  BY <1>18, <1>20

(* Seamless, in terms of what is stored.                                   *)
LEMMA SeamlessBackup ==
  ASSUME Safe, Linked(Timeline), Seamless, historyBackup # <<>>
  PROVE  /\ \A i \in 1..Len(historyBackup) : ~ historyBackup[i].seg
         /\ history # <<>> => /\ ~ Last(history).seg
                              /\ End(Last(history)) = historyBackup[1].state
<1>1. /\ history \in Seq(Blocks) /\ historyBackup \in Seq(Blocks) /\ Len(history) \in Nat
      /\ Len(historyBackup) \in Nat \ {0}
  BY EmptySeq, LenProperties DEF Safe, TypeOK
<1>2. PICK t : t = Timeline
  OBVIOUS
<1>3. t = history \o historyBackup
  BY <1>2 DEF Timeline
<1>4. /\ Len(t) = Len(history) + Len(historyBackup) /\ DOMAIN t = 1..Len(t)
      /\ \A i \in 1..Len(t) :
           t[i] = IF i <= Len(history) THEN history[i] ELSE historyBackup[i - Len(history)]
  <2>1. t \in Seq(Blocks)
    BY <1>1, <1>3, ConcatProperties
  <2>2. DOMAIN t = 1..Len(t)
    BY <2>1, LenProperties
  <2>3. QED
    BY <1>1, <1>3, <2>2, ConcatProperties
<1>5. /\ \A i \in 1..Len(t) : ~ t[i].seg /\ (i > 1 => t[i].state # <<>>)
      /\ \A i \in 1..Len(t) : i < Len(t) => Leads(t[i], t[i + 1].state)
  BY <1>2, <1>4 DEF Seamless, Linked
<1>6. ASSUME NEW i \in 1..Len(historyBackup) PROVE ~ historyBackup[i].seg
  <2>1. PICK j : j = Len(history) + i
    OBVIOUS
  <2>2. j \in 1..Len(t) /\ t[j] = historyBackup[i]
    BY <1>1, <1>4, <2>1
  <2>3. QED
    BY <1>5, <2>2
<1>7. ASSUME history # <<>> PROVE ~ Last(history).seg
                                  /\ End(Last(history)) = historyBackup[1].state
  <2>1. PICK n : n = Len(history)
    OBVIOUS
  <2>2. n \in Nat \ {0} /\ Last(history) = history[n]
    BY <1>1, <1>7, <2>1, EmptySeq DEF Last
  <2>3. /\ n \in 1..Len(t) /\ n + 1 \in 1..Len(t) /\ n < Len(t) /\ n + 1 > 1
        /\ t[n] = history[n] /\ t[n + 1] = historyBackup[1]
    BY <1>1, <1>4, <2>1, <2>2
  <2>4. ~ t[n].seg /\ t[n + 1].state # <<>> /\ Leads(t[n], t[n + 1].state)
    BY <1>5, <2>3
  <2>5. QED
    BY <2>2, <2>3, <2>4 DEF Leads, End
<1>8. QED
  BY <1>6, <1>7

(* One more block before a sequence of them.                               *)
LEMMA BlockBefore ==
  ASSUME NEW b \in Blocks, NEW h \in Seq(Blocks)
  PROVE  /\ <<b>> \o h \in Seq(Blocks) /\ Len(<<b>> \o h) = Len(h) + 1
         /\ (<<b>> \o h)[1] = b /\ Len(h) \in Nat
         /\ \A i \in 1..Len(h) : (<<b>> \o h)[i + 1] = h[i]
<1>1. <<b>> \in Seq(Blocks) /\ Len(<<b>>) = 1 /\ <<b>>[1] = b /\ Len(h) \in Nat
  BY LenProperties
<1>2. PICK t : t = <<b>> \o h
  OBVIOUS
<1>3. /\ t \in Seq(Blocks) /\ Len(t) = 1 + Len(h)
      /\ \A i \in 1..(1 + Len(h)) : t[i] = IF i <= 1 THEN <<b>>[i] ELSE h[i - 1]
  BY <1>1, <1>2, ConcatProperties
<1>4. t[1] = b /\ \A i \in 1..Len(h) : t[i + 1] = h[i]
  BY <1>1, <1>3
<1>5. QED
  BY <1>1, <1>2, <1>3, <1>4

(* The next block back joins the way.                                      *)
LEMMA WayPop ==
  ASSUME NEW b \in Blocks, NEW t \in Seq(Blocks), t # <<>>, NEW e \in Machines,
         Len(b.log) = b.count, End(b) = t[1].state,
         Way(t, e)
  PROVE  Way(<<b>> \o t, e)
<1>1. PICK r : r = <<b>> \o t
  OBVIOUS
<1>2. /\ Len(r) = Len(t) + 1 /\ r[1] = b /\ Len(t) \in Nat \ {0}
      /\ \A i \in 1..Len(t) : r[i + 1] = t[i]
  BY <1>1, BlockBefore, EmptySeq
<1>3. SUFFICES ASSUME NEW i \in 1..Len(r)
               PROVE  /\ Begins(End(r[i]), e)
                      /\ Len(r[i].state) = Len(r[1].state) + CountOf(r, i - 1)
  BY <1>1 DEF Way
<1>4. CASE i = 1
  <2>1. t[1] \in Blocks /\ Begins(End(t[1]), e)
    BY <1>2, ElementOfSeq DEF Way
  <2>2. Begins(End(b), e)
    <3>1. PICK f, g : f = t[1].state /\ g = End(t[1])
      OBVIOUS
    <3>2. f \in Machines /\ g \in Machines /\ Begins(f, g) /\ Begins(g, e)
      BY <2>1, <3>1, EndType
    <3>3. Begins(f, e)
      BY <3>2, BeginsTrans DEF Machines
    <3>4. QED
      BY <3>1, <3>3
  <2>3. 0 \in 0..Len(t)
    BY <1>2
  <2>4. CountOf(r, 0) = 0
    BY <1>1, <2>3, CountOfNext
  <2>5. Len(b.state) \in Nat
    BY EndType
  <2>6. QED
    BY <1>2, <1>4, <2>2, <2>4, <2>5
<1>5. CASE i # 1
  <2>1. PICK j : j = i - 1
    OBVIOUS
  <2>2. j \in 1..Len(t) /\ i = j + 1 /\ j - 1 \in 0..Len(t) /\ (j - 1) + 1 = j
    BY <1>2, <1>3, <1>5, <2>1
  <2>3. r[i] = t[j]
    BY <1>2, <2>2
  <2>4. CountOf(r, j) = b.count + CountOf(t, j - 1) /\ CountOf(t, j - 1) \in Nat
    BY <1>1, <2>2, CountOfNext
  <2>5. Len(t[1].state) = Len(b.state) + b.count /\ Len(b.state) \in Nat /\ b.count \in Nat
    BY EndType
  <2>6. Len(t[j].state) = Len(t[1].state) + CountOf(t, j - 1) /\ Begins(End(t[j]), e)
    BY <2>2 DEF Way
  <2>7. Len(t[j].state) = Len(b.state) + CountOf(r, j)
    BY <2>4, <2>5, <2>6
  <2>8. QED
    BY <1>2, <2>1, <2>3, <2>6, <2>7
<1>6. QED
  BY <1>4, <1>5

(* The next block back is replayed.                                        *)
LEMMA ScreenPop ==
  ASSUME Safe, FrameState, RewoundInv, Seamless, Rewinding, phase = "end", phase' = "frame",
         currentHistory.count <= 0, ~ NothingLeft, PopBlock(historyBackup), exact',
         UNCHANGED <<rewindState, videoHistory, videoHistoryBuilder, shown>>
  PROVE  RewoundInv'
<1>1. TypeOK /\ StateInv
  BY DEF Safe
<1>2. PICK b \in Blocks, h \in Seq(Blocks) :
        /\ historyBackup' = <<b>> \o historyBackup /\ currentHistory' = b /\ ~ b.boot
        /\ \/ currentHistory.count = 0 /\ history = Append(h, b)
           \/ currentHistory.count > 0 /\ history = h /\ b = currentHistory
  BY <1>1, PopIs
<1>3. currentHistory.count = 0 /\ history = Append(h, b)
  <2>1. currentHistory.count \in Nat
    BY <1>1 DEF TypeOK, Blocks
  <2>2. QED
    BY <1>2, <2>1
<1>4. PICK t \in Seq(Blocks), e \in Machines, first \in Blocks :
        /\ t = historyBackup /\ t # <<>> /\ e = Target /\ first = t[1]
        /\ Len(t) \in Nat \ {0}
  BY ReplayedBlock, EndType
<1>5. /\ history # <<>> /\ Last(history) = b
      /\ Len(history) = Len(h) + 1 /\ Len(h) \in Nat
  <2>1. /\ Len(Append(h, b)) = Len(h) + 1 /\ Append(h, b)[Len(h) + 1] = b /\ Len(h) \in Nat
    BY AppendProperties, LenProperties
  <2>2. history # <<>>
    BY <1>3, <2>1, EmptySeq
  <2>3. QED
    BY <1>3, <2>1, <2>2 DEF Last
<1>6. Linked(Timeline) /\ Sound(b)
  <2>1. Linked(history \o t)
    BY <1>4 DEF FrameState, LineLinked, Line
  <2>2. Linked(Append(h, b))
    BY <1>1, <1>3, <1>4, <2>1, LinkedConcat DEF TypeOK
  <2>3. QED
    BY <1>1, <2>2, LinkedAppend, TimelineIs DEF FrameState, LineLinked
<1>7. ~ b.seg /\ End(b) = t[1].state
  BY <1>4, <1>5, <1>6, SeamlessBackup
<1>8. PICK r : r = <<b>> \o t
  OBVIOUS
<1>9. historyBackup' = r /\ Len(r) = Len(t) + 1 /\ r[1] = b /\ r[Len(t) + 1] = t[Len(t)]
  <2>1. Len(t) \in 1..Len(t)
    BY <1>4
  <2>2. QED
    BY <1>2, <1>4, <1>8, <2>1, BlockBefore
<1>10. Target' = e
  BY <1>4, <1>9 DEF Target
<1>11. WayInv'
  <2>1. Way(t, e)
    BY <1>4 DEF RewoundInv, WayInv
  <2>2. Way(r, e)
    <3>1. Len(b.log) = b.count
      BY <1>2, <1>6 DEF Sound, LoadPolls, Blocks
    <3>2. QED
      BY <1>4, <1>7, <1>8, <2>1, <3>1, WayPop
  <2>3. QED
    BY <1>9, <1>10, <2>2 DEF WayInv
<1>12. Complete /\ ~ Complete'
  BY <1>3 DEF Complete
<1>13. Since' = Since
  <2>1. Since = Len(first.state)
    BY <1>4, <1>12 DEF Since
  <2>2. Since' = Len(End(b))
    BY <1>9, <1>12 DEF Since
  <2>3. QED
    BY <1>4, <1>7, <2>1, <2>2
<1>14. Collected' = 0
  BY <1>2, <1>9, EndType DEF Collected
<1>15. videoHistoryBuilder' = <<>>
  <2>1. Len(videoHistoryBuilder) = 0 /\ videoHistoryBuilder \in Seq(Machines)
    BY <1>1, <1>12 DEF RewoundInv, TypeOK, Machines
  <2>2. QED
    BY <2>1, EmptySeq
<1>16. /\ Pictures(videoHistoryBuilder', Len(historyBackup'[1].state), Target')
       /\ Len(videoHistoryBuilder') = 0
  BY <1>15, PicturesNone
<1>17. QED
  BY <1>4, <1>10, <1>11, <1>12, <1>13, <1>14, <1>16 DEF RewoundInv

(* The timeline, when there is a backup, and when the next block joins it. *)
LEMMA TimelinePop ==
  ASSUME NEW h \in Seq(Blocks), NEW b \in Blocks, NEW t \in Seq(Blocks)
  PROVE  Append(h, b) \o t = h \o (<<b>> \o t) /\ <<b>> \o t # <<>>
<1>1. <<b>> \in Seq(Blocks) /\ Append(h, b) = h \o <<b>>
  BY AppendIsConcat
<1>2. (h \o <<b>>) \o t = h \o (<<b>> \o t)
  BY <1>1, ConcatAssociative
<1>3. <<b>> \o t # <<>>
  <2>1. Len(<<b>> \o t) = Len(t) + 1 /\ Len(t) \in Nat
    BY BlockBefore
  <2>2. QED
    BY <2>1, EmptySeq
<1>4. QED
  BY <1>1, <1>2, <1>3

(* Rewinding begins where the screen is.                                   *)
LEMMA ScreenStart ==
  ASSUME Safe, FrameState, StoppedInv, Start, Seamless'
  PROVE  RewoundInv'
<1>1. TypeOK /\ StateInv /\ ReplayInv /\ LineLinked
  BY DEF Safe, FrameState
<1>2. /\ rewindState = "Stopped" /\ historyBackup = <<>> /\ phase = "frame" /\ phase' = "frame"
      /\ ~ NothingLeft /\ PopBlock(<<>>) /\ rewindState' = "Starting"
      /\ videoHistory' = <<>> /\ videoHistoryBuilder' = <<>> /\ shown' = shown
  BY <1>1 DEF Start, StateInv, UserCalls
<1>3. currentHistory \in Blocks /\ currentHistory.count \in Nat /\ history \in Seq(Blocks)
  BY <1>1 DEF TypeOK, Blocks
<1>4. PICK b \in Blocks, h \in Seq(Blocks) :
        /\ history' = h /\ historyBackup' = <<b>> \o <<>> /\ currentHistory' = b
        /\ \/ currentHistory.count = 0 /\ history = Append(h, b)
           \/ currentHistory.count > 0 /\ history = h /\ b = currentHistory
  BY <1>1, <1>2, PopIs
<1>5. /\ historyBackup' = <<b>> /\ Len(<<b>>) = 1 /\ <<b>>[1] = b /\ <<b>> \in Seq(Blocks)
  <2>1. <<b>> \in Seq(Blocks)
    OBVIOUS
  <2>2. <<b>> \o <<>> = <<b>>
    BY <2>1, ConcatEmptySeq
  <2>3. QED
    BY <1>4, <2>1, <2>2
<1>6. shown = End(b)
  <2>1. CASE currentHistory.count > 0
    <3>1. b = currentHistory
      BY <1>4, <2>1
    <3>2. QED
      BY <1>1, <1>2, <2>1, <3>1 DEF StoppedInv, ReplayInv, End
  <2>2. CASE ~ (currentHistory.count > 0)
    <3>1. history = Append(h, b)
      BY <1>4, <2>2
    <3>2. /\ Len(Append(h, b)) = Len(h) + 1 /\ Append(h, b)[Len(h) + 1] = b /\ Len(h) \in Nat
      BY AppendProperties, LenProperties
    <3>3. history # <<>> /\ Last(history) = b
      BY <3>1, <3>2, EmptySeq DEF Last
    <3>4. ~ b.seg
      <4>1. Timeline' = h \o <<b>>
        BY <1>4, <1>5 DEF Timeline
      <4>2. h \o <<b>> = Append(h, b)
        BY AppendIsConcat
      <4>3. Len(h) + 1 \in DOMAIN Timeline'
        <5>1. Append(h, b) \in Seq(Blocks)
          BY AppendProperties
        <5>2. DOMAIN Append(h, b) = 1..Len(Append(h, b))
          BY <5>1, LenProperties
        <5>3. QED
          BY <3>2, <4>1, <4>2, <5>2
      <4>4. QED
        BY <3>2, <4>1, <4>2, <4>3 DEF Seamless
    <3>5. currentHistory.count = 0
      BY <1>3, <2>2
    <3>6. QED
      BY <1>2, <3>3, <3>4, <3>5 DEF StoppedInv
  <2>3. QED
    BY <2>1, <2>2
<1>7. Target' = End(b) /\ End(b) \in Machines
  BY <1>5, EndType DEF Target
<1>8. Begins(End(b), End(b)) /\ Len(End(b)) \in Nat /\ Len(b.state) \in Nat
  BY EndType, LenProperties DEF Begins, Machines
<1>9. WayInv'
  <2>1. CountOf(<<b>>, 0) = 0
    <3>1. <<>> \in Seq(Blocks) /\ 0 \in 0..Len(<<>>) /\ <<b>> \o <<>> = <<b>>
      BY <1>4, <1>5, EmptySeq
    <3>2. QED
      BY <3>1, CountOfNext
  <2>2. \A i \in 1..Len(<<b>>) : i = 1
    BY <1>5
  <2>3. QED
    BY <1>5, <1>7, <1>8, <2>1, <2>2 DEF WayInv, Way
<1>10. ~ Complete'
  BY <1>2 DEF Complete
<1>11. Since' = Len(End(b))
  BY <1>5, <1>10 DEF Since
<1>12. Collected' = 0
  BY <1>2, <1>4, <1>5, EndType DEF Collected
<1>13. 0 < BufferSize
  BY SizesAssumption
<1>14. /\ Pictures(<<>>, Since', Target') /\ Len(<<>>) = 0
       /\ Pictures(<<>>, Len(historyBackup'[1].state), Target')
  BY PicturesNone
<1>15. QED
  BY <1>2, <1>6, <1>7, <1>8, <1>9, <1>10, <1>11, <1>12, <1>13, <1>14 DEF RewoundInv

(* The last block after AddHistoryBlock.                                   *)
LEMMA NewHistoryLast ==
  ASSUME NEW h \in Seq(Blocks), NEW c \in Blocks, NewHistory(h, c) # <<>>
  PROVE  IF c.count > 0 THEN /\ Last(NewHistory(h, c)).seg = c.seg
                             /\ End(Last(NewHistory(h, c))) = End(c)
                        ELSE h # <<>> /\ Last(NewHistory(h, c)) = Last(h)
<1>1. PICK k, d, n : k = Kept(h) /\ d = Closed(h, c) /\ n = Trimmed(h)
  OBVIOUS
<1>2. k \in Seq(Blocks) /\ d \in Blocks /\ Len(k) = Len(h) - n /\ n \in 0..Len(h)
      /\ Len(h) \in Nat
  BY <1>1, KeptType, TrimmedCut, LenProperties
<1>3. CASE c.count > 0
  <2>1. Len(k) \in Nat /\ Len(Append(k, d)) = Len(k) + 1 /\ Append(k, d)[Len(k) + 1] = d
    BY <1>2, AppendProperties, LenProperties
  <2>2. NewHistory(h, c) = Append(k, d)
    BY <1>1, <1>3 DEF NewHistory
  <2>3. Last(NewHistory(h, c)) = d
    BY <2>1, <2>2 DEF Last
  <2>4. d.seg = c.seg /\ d.state = c.state /\ d.log = c.log
    BY <1>1, ClosedIs
  <2>5. QED
    BY <1>3, <2>3, <2>4 DEF End
<1>4. CASE ~ (c.count > 0)
  <2>1. NewHistory(h, c) = k /\ k = SubSeq(h, n + 1, Len(h))
    BY <1>1, <1>4 DEF NewHistory, Kept
  <2>2. Len(k) > 0
    BY <1>2, <2>1, EmptySeq
  <2>3. h # <<>>
    BY <1>2, <2>2, EmptySeq
  <2>4. k[Len(k)] = h[Len(h)]
    <3>1. n + Len(k) = Len(h) /\ Len(k) \in 1..Len(k) /\ n + 1 \in 1..Len(h)
      BY <1>2, <2>2
    <3>2. \A i \in (n + 1)..Len(h) : h[i] \in Blocks
      BY <1>2, ElementOfSeq
    <3>3. \A i \in 1..(Len(h) - (n + 1) + 1) : k[i] = h[n + 1 + i - 1]
      BY <1>2, <2>1, <3>1, <3>2, SubSeqProperties
    <3>4. Len(h) - (n + 1) + 1 = Len(k) /\ n + 1 + Len(k) - 1 = Len(h)
      BY <1>2, <3>1
    <3>5. QED
      BY <3>1, <3>3, <3>4
  <2>5. QED
    BY <1>4, <2>1, <2>3, <2>4 DEF Last
<1>5. QED
  BY <1>3, <1>4

(* Between two frames, after AddHistoryBlock.                              *)
LEMMA StoppedAdd ==
  ASSUME NEW h \in Seq(Blocks), NEW c \in Blocks, NEW s \in Seq(0..MaxInputs),
         AddHistoryBlock(h, c, s), phase' = "frame",
         IF c.count > 0 THEN c.seg \/ shown' = End(c)
                        ELSE h # <<>> => Last(h).seg \/ shown' = End(Last(h))
  PROVE  StoppedInv'
<1>1. PICK g : g = NewHistory(h, c)
  OBVIOUS
<1>2. history' = g /\ currentHistory' = SaveState(s, g) /\ g \in Seq(Blocks)
  BY <1>1, AddIs, KeptType
<1>3. currentHistory'.count = 0
  BY <1>2, SavedState
<1>4. g # <<>> => Last(g).seg \/ shown' = End(Last(g))
  BY <1>1, NewHistoryLast
<1>5. QED
  BY <1>2, <1>3, <1>4 DEF StoppedInv

(* Going back a number of blocks ends a segment,                           *)
LEMMA StoppedRewindSeconds ==
  ASSUME Safe, NEW n \in Seconds, RewindSeconds(n)
  PROVE  StoppedInv'
<1>1. TypeOK /\ StateInv
  BY DEF Safe
<1>2. PICK h \in Seq(Blocks), r \in Seq(Blocks), c \in Blocks :
        /\ history = h \o r
        /\ \/ history = <<>> /\ c = currentHistory
           \/ r # <<>> /\ c = r[1]
        /\ LoadState(c, h)
        /\ AddHistoryBlock(h, [c EXCEPT !.seg = TRUE], machine')
  BY <1>1, SecondsIs
<1>3. PICK d, s : d = [c EXCEPT !.seg = TRUE] /\ s = machine'
  OBVIOUS
<1>4. d \in Blocks /\ d.seg /\ d.count = c.count
  BY <1>3, SegmentType
<1>5. s \in Seq(0..MaxInputs) /\ AddHistoryBlock(h, d, s)
  BY <1>2, <1>3, LoadStateType
<1>6. c.count > 0 \/ h = <<>>
  <2>1. CASE history = <<>>
    <3>1. Len(h \o r) = Len(h) + Len(r) /\ Len(h) \in Nat /\ Len(r) \in Nat
      BY ConcatProperties, LenProperties
    <3>2. Len(h) = 0
      BY <1>2, <2>1, <3>1
    <3>3. QED
      BY <3>2
  <2>2. CASE r # <<>> /\ c = r[1]
    <3>1. 1 \in 1..Len(r)
      BY <2>2, EmptySeq
    <3>2. \A i \in 1..Len(r) : r[i].count > 0
      BY <1>1, <1>2, CountsConcat DEF StateInv
    <3>3. QED
      BY <2>2, <3>1, <3>2
  <2>3. QED
    BY <1>2, <2>1, <2>2
<1>7. phase' = "frame"
  BY DEF RewindSeconds, UserCalls
<1>8. QED
  BY <1>4, <1>5, <1>6, <1>7, StoppedAdd

(* and so does loading a state.                                            *)
LEMMA StoppedStateLoaded ==
  ASSUME Safe, StateLoaded, StoppedInv
  PROVE  StoppedInv'
<1>1. TypeOK
  BY DEF Safe
<1>2. PICK d, s : d = [currentHistory EXCEPT !.seg = TRUE] /\ s = <<>>
  OBVIOUS
<1>3. /\ AddHistoryBlock(history, d, s) /\ rewindState = "Stopped"
      /\ phase = "frame" /\ phase' = "frame" /\ shown' = shown
  BY <1>2 DEF StateLoaded, UserCalls
<1>4. /\ currentHistory \in Blocks /\ history \in Seq(Blocks) /\ currentHistory.count \in Nat
  BY <1>1 DEF TypeOK, Blocks
<1>5. d \in Blocks /\ d.seg /\ d.count = currentHistory.count /\ s \in Seq(0..MaxInputs)
  BY <1>2, <1>4, SegmentType, EmptySeq
<1>6. d.count > 0 \/ d.count = 0
  BY <1>4, <1>5
<1>7. d.count = 0 /\ history # <<>> => Last(history).seg \/ shown' = End(Last(history))
  BY <1>3, <1>5 DEF StoppedInv
<1>8. QED
  BY <1>3, <1>4, <1>5, <1>6, <1>7, StoppedAdd

(* The end of a block is on the screen.                                    *)
LEMMA StoppedEndOfBlock ==
  ASSUME FastFactor <= 10, Safe, EndOfBlock, FrameState, StoppedInv
  PROVE  StoppedInv'
<1>1. TypeOK /\ ReplayInv
  BY DEF Safe, FrameState
<1>2. rewindState = "Stopped"
  BY FrameEndOfBlock
<1>3. PICK c, s : c = currentHistory /\ s = machine
  OBVIOUS
<1>4. /\ c \in Blocks /\ history \in Seq(Blocks) /\ s \in Seq(0..MaxInputs)
  BY <1>1, <1>3 DEF TypeOK
<1>5. /\ AddHistoryBlock(history, c, s) /\ phase = "end" /\ phase' = "frame" /\ shown' = shown
  BY <1>3 DEF EndOfBlock
<1>6. c.count > 0 /\ shown = End(c)
  BY <1>1, <1>2, <1>3, <1>5 DEF StoppedInv, ReplayInv, End
<1>7. QED
  BY <1>4, <1>5, <1>6, StoppedAdd

(* Such a stop fast forwards.                                              *)
LEMMA StopForwards ==
  ASSUME Safe, Stop, exact'
  PROVE  rewindState' = "Stopping"
<1>1. PICK g \in Seq(Blocks), t \in Seq(Blocks), c \in Blocks, frames \in Int :
        StopAt(history \o g, t, c, frames)
  BY StopIs DEF Safe
<1>2. frames \in 1..Len(c.log)
  BY <1>1 DEF StopAt
<1>3. frames > 0
  BY <1>2
<1>4. QED
  BY <1>1, <1>3 DEF StopAt

(* The timeline does not change while a block is replayed,                 *)
LEMMA SeamlessKept ==
  ASSUME historyBackup # <<>>, UNCHANGED <<history, historyBackup>>
  PROVE  Seamless' <=> Seamless
BY DEF Seamless, Timeline

(* nor when the next one is.                                               *)
LEMMA SeamlessPop ==
  ASSUME Safe, Rewinding, currentHistory.count <= 0, ~ NothingLeft, PopBlock(historyBackup)
  PROVE  Seamless' <=> Seamless
<1>1. TypeOK /\ StateInv
  BY DEF Safe
<1>2. historyBackup # <<>> /\ historyBackup \in Seq(Blocks) /\ currentHistory.count \in Nat
  BY <1>1 DEF TypeOK, Blocks, Rewinding
<1>3. PICK b \in Blocks, h \in Seq(Blocks) :
        /\ history' = h /\ historyBackup' = <<b>> \o historyBackup
        /\ \/ currentHistory.count = 0 /\ history = Append(h, b)
           \/ currentHistory.count > 0 /\ history = h /\ b = currentHistory
  BY <1>1, PopIs
<1>4. history = Append(h, b)
  BY <1>2, <1>3
<1>5. /\ Append(h, b) \o historyBackup = h \o (<<b>> \o historyBackup)
      /\ <<b>> \o historyBackup # <<>>
  BY <1>2, TimelinePop
<1>6. Timeline' = Timeline
  BY <1>2, <1>3, <1>4, <1>5 DEF Timeline
<1>7. QED
  BY <1>6 DEF Seamless

(* Where the other actions leave the emulation thread.                     *)
LEMMA OthersPhase ==
  ASSUME Others
  PROVE  \/ UNCHANGED phase
         \/ phase = "frame" /\ phase' = "undefined"
         \/ phase = "end" /\ phase' = "frame" /\ (Rewinding => currentHistory.count > 0)
BY DEF Others, EndOfFrame, StopTest, StopUndefined, StateLoadedIgnored, UserCalls, SetSpeed, vars

(* They change nothing of what is collected and shown.                     *)
LEMMA ScreenOthers ==
  ASSUME Safe, Others, exact', StoppedInv, Rewinding /\ Seamless => RewoundInv
  PROVE  StoppedInv' /\ (Rewinding' /\ Seamless' => RewoundInv')
<1>1. /\ UNCHANGED <<history, historyBackup, currentHistory, rewindState, videoHistory>>
      /\ UNCHANGED <<videoHistoryBuilder, shown, machine>>
  BY OthersKeep DEF blocks, rewinds, video
<1>2. StoppedInv'
  BY <1>1, OthersPhase DEF StoppedInv
<1>3. ASSUME Rewinding', Seamless' PROVE RewoundInv'
  <2>1. Rewinding /\ historyBackup # <<>> /\ currentHistory.count \in Nat
    BY <1>1, <1>3 DEF Rewinding, Safe, TypeOK, Blocks
  <2>2. RewoundInv
    BY <1>1, <1>3, <2>1, SeamlessKept
  <2>3. Complete' <=> Complete
    BY <1>1, <2>1, OthersPhase DEF Complete
  <2>4. (phase' = "send") <=> (phase = "send")
    BY OthersPhase
  <2>5. Since' = Since /\ Target' = Target /\ Collected' = Collected
    BY <1>1, <2>3, <2>4 DEF Since, Target, Collected
  <2>6. QED
    BY <1>1, <2>2, <2>3, <2>5 DEF RewoundInv, WayInv
<1>4. QED
  BY <1>2, <1>3

(* The first picture.                                                      *)
LEMMA ScreenInit == Init => ScreenInv
<1>1. SUFFICES ASSUME Init PROVE ScreenInv
  OBVIOUS
<1>2. PICK b : b = BootBlock(1)
  OBVIOUS
<1>3. b.count = 0
  <2>1. 1 \in 1..MaxInputs
    BY SizesAssumption
  <2>2. QED
    BY <1>2, <2>1, FrameFirst
<1>4. /\ rewindState = "Stopped" /\ phase = "frame" /\ history = <<>> /\ currentHistory = b
  BY <1>1, <1>2 DEF Init
<1>5. QED
  BY <1>3, <1>4 DEF ScreenInv, StoppedInv, Rewinding

(* A frame.                                                                *)
LEMMA ScreenRunFrame ==
  ASSUME Safe, FrameState, RunFrame, StoppedInv, Rewinding /\ Seamless => RewoundInv
  PROVE  StoppedInv' /\ (Rewinding' /\ Seamless' => RewoundInv')
<1>1. TypeOK /\ StateInv /\ currentHistory \in Blocks /\ currentHistory.count \in Nat
  BY DEF Safe, TypeOK, Blocks
<1>2. CASE RunFrameRewinding
  <2>1. /\ Rewinding /\ historyBackup # <<>> /\ rewindState' = rewindState
        /\ UNCHANGED <<history, historyBackup>>
    BY <1>1, <1>2 DEF RunFrameRewinding, Rewinding, TypeOK, Poll, rewinds
  <2>2. StoppedInv'
    BY <2>1 DEF StoppedInv, Rewinding
  <2>3. Seamless' => RewoundInv'
    BY <1>2, <2>1, SeamlessKept, ScreenRewinding
  <2>4. QED
    BY <2>2, <2>3
<1>3. CASE RunFrameStopped \/ RunFrameStopping
  <2>1. phase' = "send" /\ rewindState' \in {"Stopped", "Stopping"}
    BY <1>3 DEF RunFrameStopped, RunFrameStopping, Poll, rewinds
  <2>2. currentHistory'.count = currentHistory.count + 1
    BY <1>1, <1>3 DEF RunFrameStopped, RunFrameStopping, Blocks
  <2>3. StoppedInv' /\ ~ Rewinding'
    BY <1>1, <2>1, <2>2 DEF StoppedInv, Rewinding
  <2>4. QED
    BY <2>3
<1>4. QED
  BY <1>2, <1>3 DEF RunFrame

(* A picture.                                                              *)
LEMMA ScreenSend ==
  ASSUME Safe, FrameState, SendFrameRewinding \/ SendFrame, StoppedInv,
         Rewinding /\ Seamless => RewoundInv
  PROVE  StoppedInv' /\ (Rewinding' /\ Seamless' => RewoundInv')
<1>1. CASE SendFrameRewinding
  <2>1. /\ Rewinding /\ historyBackup # <<>> /\ UNCHANGED <<history, historyBackup>>
    BY <1>1 DEF SendFrameRewinding, Safe, Rewinding, TypeOK, blocks
  <2>2. Rewinding'
    BY <1>1, <2>1 DEF SendFrameRewinding, Rewinding
  <2>3. StoppedInv'
    BY <2>2 DEF StoppedInv, Rewinding
  <2>4. Seamless' => RewoundInv'
    BY <1>1, <2>1, SeamlessKept, ScreenSendRewinding
  <2>5. QED
    BY <2>3, <2>4
<1>2. CASE SendFrame
  <2>1. /\ ~ Rewinding /\ phase = "send" /\ phase' = "end"
        /\ UNCHANGED <<rewindState, currentHistory, machine>>
        /\ rewindState = "Stopped" => shown' = machine
    BY <1>2 DEF SendFrame, blocks, rewinds
  <2>2. StoppedInv' /\ ~ Rewinding'
    BY <2>1 DEF StoppedInv, Rewinding
  <2>3. QED
    BY <2>2
<1>3. QED
  BY <1>1, <1>2

(* The end of a rewound block.                                             *)
LEMMA ScreenEndOfRewound ==
  ASSUME Safe, FrameState, EndOfRewound, exact', Rewinding /\ Seamless => RewoundInv
  PROVE  StoppedInv' /\ (Rewinding' /\ Seamless' => RewoundInv')
<1>1. /\ Rewinding /\ currentHistory.count <= 0 /\ PopHistory /\ shown' = shown
      /\ phase = "end" /\ phase' = "frame"
  BY DEF EndOfRewound
<1>2. CASE Stop
  BY <1>2, StopForwards DEF StoppedInv, Rewinding
<1>3. CASE ~ NothingLeft /\ PopBlock(historyBackup) /\ UNCHANGED <<rewinds, video>>
  <2>1. rewindState' = rewindState /\ UNCHANGED <<videoHistory, videoHistoryBuilder>>
    BY <1>3 DEF rewinds, video
  <2>2. StoppedInv'
    BY <1>1, <2>1 DEF StoppedInv, Rewinding
  <2>3. Seamless' => RewoundInv'
    BY <1>1, <1>3, <2>1, SeamlessPop, ScreenPop
  <2>4. QED
    BY <2>2, <2>3
<1>4. QED
  BY <1>1, <1>2, <1>3 DEF PopHistory

(* After every step the screen and the collected pictures belong together. *)
LEMMA ScreenInductive ==
  ASSUME FastFactor <= 10, Safe, FrameInv, ScreenInv, [Next]_vars
  PROVE  ScreenInv'
<1>1. TypeOK /\ StateInv
  BY DEF Safe
<1>2. SUFFICES ASSUME exact' PROVE StoppedInv' /\ (Rewinding' /\ Seamless' => RewoundInv')
  BY DEF ScreenInv
<1>3. CASE InitHistory
  <2>1. PICK b : b = BootBlock(inputs')
    OBVIOUS
  <2>2. b.count = 0
    <3>1. inputs' \in 1..MaxInputs
      BY <1>1, <1>3, SizesAssumption DEF InitHistory, TypeOK
    <3>2. QED
      BY <2>1, <3>1, FrameFirst
  <2>3. /\ rewindState' = "Stopped" /\ phase' = "frame" /\ history' = <<>>
        /\ currentHistory' = b
    BY <1>3, <2>1 DEF InitHistory, UserCalls
  <2>4. QED
    BY <2>2, <2>3 DEF StoppedInv, Rewinding
<1>4. CASE ~ InitHistory
  <2>1. exact
    BY <1>2, <1>4, ExactBefore
  <2>2. FrameState /\ StoppedInv /\ (Rewinding /\ Seamless => RewoundInv)
    BY <1>1, <2>1, FrameIs DEF ScreenInv
  <2>3. CASE RunFrame
    BY <2>2, <2>3, ScreenRunFrame
  <2>4. CASE SendFrameRewinding \/ SendFrame
    BY <2>2, <2>4, ScreenSend
  <2>5. CASE EndOfRewound
    BY <1>2, <2>2, <2>5, ScreenEndOfRewound
  <2>6. CASE EndOfBlock
    <3>1. rewindState' = "Stopped"
      BY <2>2, <2>6, FrameEndOfBlock DEF EndOfBlock, rewinds
    <3>2. StoppedInv'
      BY <2>2, <2>6, StoppedEndOfBlock
    <3>3. QED
      BY <3>1, <3>2 DEF Rewinding
  <2>7. CASE Start
    <3>1. rewindState' = "Starting"
      BY <2>7 DEF Start
    <3>2. Seamless' => RewoundInv'
      BY <2>2, <2>7, ScreenStart
    <3>3. QED
      BY <3>1, <3>2 DEF StoppedInv
  <2>8. CASE StopLocked
    <3>1. rewindState' = "Stopping"
      BY <1>2, <2>8, StopForwards DEF StopLocked
    <3>2. QED
      BY <3>1 DEF StoppedInv, Rewinding
  <2>9. CASE \E n \in Seconds : RewindSeconds(n)
    <3>1. PICK n \in Seconds : RewindSeconds(n)
      BY <2>9
    <3>2. rewindState' = "Stopped"
      BY <3>1 DEF RewindSeconds, rewinds
    <3>3. StoppedInv'
      BY <3>1, StoppedRewindSeconds
    <3>4. QED
      BY <3>2, <3>3 DEF Rewinding
  <2>10. CASE StateLoaded
    <3>1. rewindState' = "Stopped"
      BY <2>10 DEF StateLoaded, rewinds
    <3>2. StoppedInv'
      BY <2>2, <2>10, StoppedStateLoaded
    <3>3. QED
      BY <3>1, <3>2 DEF Rewinding
  <2>11. CASE Others
    BY <1>2, <2>2, <2>11, ScreenOthers
  <2>12. QED
    BY <1>4, <2>3, <2>4, <2>5, <2>6, <2>7, <2>8, <2>9, <2>10, <2>11, Steps
<1>5. QED
  BY <1>3, <1>4

-----------------------------------------------------------------------------
(* A step that shows an earlier frame.                                     *)
LEMMA RewindStep ==
  ASSUME Safe, FrameInv, ScreenInv, [Next]_vars, exact, Seamless, rewindState' = "Started",
         shown' # shown
  PROVE  shown' = Front(shown)
<1>1. FrameState /\ (Rewinding => RewoundInv)
  BY FrameIs DEF Safe, ScreenInv
<1>2. CASE SendFrameRewinding
  <2>1. Rewinding
    BY <1>2 DEF SendFrameRewinding
  <2>2. QED
    BY <1>1, <1>2, <2>1, ScreenSendRewinding
<1>3. ~ SendFrame
  BY DEF SendFrame, rewinds, Rewinding
<1>4. ~ InitHistory
  BY DEF InitHistory
<1>5. CASE ~ SendFrameRewinding
  BY <1>3, <1>4, <1>5, Steps, OthersKeep
     DEF RunFrame, RunFrameStopped, RunFrameRewinding, RunFrameStopping, Poll, EndOfRewound,
         EndOfBlock, Start, StopLocked, RewindSeconds, StateLoaded
<1>6. QED
  BY <1>2, <1>5

(* Where a stop goes that fast forwards from a frame that was shown.       *)
LEMMA StopStartedIs ==
  ASSUME Safe, StopStarted, rewindState' = "Stopping"
  PROVE  \E k \in 2..Len(historyBackup) :
           StopAt(history \o SubSeq(historyBackup, 1, k - 1),
                  SubSeq(historyBackup, k, Len(historyBackup)), historyBackup[k], FramesLeft(k))
<1>1. TypeOK /\ StateInv /\ rewindState = "Started"
  BY DEF Safe, StopStarted
<1>2. historyBackup \in Seq(Blocks) /\ Len(historyBackup) \in Nat
  BY <1>1, LenProperties DEF TypeOK
<1>3. Len(historyBackup) > 1
  <2>1. SUFFICES ASSUME ~ (Len(historyBackup) > 1) PROVE FALSE
    OBVIOUS
  <2>2. StopAt(history, historyBackup, currentHistory, framesToFastForward)
    BY <2>1 DEF StopStarted
  <2>3. framesToFastForward > 0
    BY <2>2 DEF StopAt
  <2>4. QED
    BY <1>1, <2>3 DEF StateInv
<1> DEFINE Ends == {k \in 2..Len(historyBackup) :
                      k = Len(historyBackup) \/ FramesLeft(k) <= BufferSize}
           k == Min(Ends)
<1>4. Ends \in SUBSET Nat /\ Len(historyBackup) \in Ends
  BY <1>2, <1>3
<1>5. \E m \in Ends : \A n \in Ends : m <= n
  BY <1>4, NatMin
<1>6. k \in Ends
  BY <1>5 DEF Min
<1>7. StopInBackup(k, FramesLeft(k))
  BY <1>3 DEF StopStarted
<1> HIDE DEF k
<1>8. QED
  BY <1>6, <1>7 DEF StopInBackup

(* A step that stops rewinding.                                            *)
LEMMA StopStep ==
  ASSUME Safe, FrameInv, ScreenInv, [Next]_vars, exact', Seamless, phase = "frame",
         rewindState = "Started", rewindState' = "Stopping"
  PROVE  Front(shown) = currentHistory'.state
                        \o SubSeq(currentHistory'.log, 1, framesToFastForward')
<1>1. TypeOK /\ StateInv /\ Rewinding
  BY DEF Safe, Rewinding
<1>2. exact
  <2>1. ~ InitHistory
    BY DEF InitHistory
  <2>2. QED
    BY <2>1, ExactBefore
<1>3. FrameState /\ RewoundInv
  BY <1>1, <1>2, FrameIs DEF ScreenInv
<1>4. StopStarted
  BY <1>1, Steps, OthersKeep
     DEF RunFrame, RunFrameStopped, RunFrameRewinding, RunFrameStopping, SendFrameRewinding,
         SendFrame, EndOfRewound, EndOfBlock, Start, StopLocked, Stop, StopOther,
         RewindSeconds, StateLoaded, InitHistory, rewinds
<1>5. PICK k \in 2..Len(historyBackup) :
           StopAt(history \o SubSeq(historyBackup, 1, k - 1),
                  SubSeq(historyBackup, k, Len(historyBackup)), historyBackup[k], FramesLeft(k))
  BY <1>4, StopStartedIs
<1>6. PICK t \in Seq(Blocks), b \in Blocks, first \in Blocks :
        /\ t = historyBackup /\ b = t[k] /\ first = t[1]
        /\ Len(first.log) = first.count /\ Target \in Machines
  <2>1. historyBackup \in Seq(Blocks) /\ Len(historyBackup) \in Nat
    BY <1>1, LenProperties DEF TypeOK
  <2>2. historyBackup[k] \in Blocks
    BY <2>1, ElementOfSeq
  <2>3. QED
    BY <1>1, <1>3, <2>1, <2>2, ReplayedBlock, EndType
<1> DEFINE n == FramesLeft(k)
<1>7. n \in 1..Len(b.log) /\ Len(b.log) \in Nat
  BY <1>5, <1>6, EndType DEF StopAt
<1>8. /\ currentHistory'.state = b.state /\ currentHistory'.log = b.log
      /\ framesToFastForward' = n
  <2>1. n > 0
    BY <1>7
  <2>2. currentHistory' = [b EXCEPT !.count = 0] /\ framesToFastForward' = n
    BY <1>5, <1>6, <2>1 DEF StopAt
  <2>3. QED
    BY <2>2 DEF Blocks
<1>9. PICK f : f = b.state \o SubSeq(b.log, 1, n)
  OBVIOUS
<1>10. f \in Machines /\ Begins(f, End(b)) /\ Len(f) = Len(b.state) + n
  <2>1. b.state \in Machines /\ b.log \in Seq(0..MaxInputs)
    BY EndType
  <2>2. n \in 0..Len(b.log)
    BY <1>7
  <2>3. QED
    BY <1>9, <2>1, <2>2, BeginsInBlock DEF Machines, End
<1>11. PICK before : before = CountOf(t, k - 1)
  OBVIOUS
<1>12. before \in Nat /\ Begins(End(b), Target) /\ Len(b.state) = Len(first.state) + before
  <2>1. k \in 1..Len(t) /\ k - 1 \in 0..Len(t)
    <3>1. Len(t) \in Nat
      BY LenProperties
    <3>2. QED
      BY <1>6, <3>1
  <2>2. before \in Nat
    BY <1>11, <2>1, SizeOfType
  <2>3. QED
    BY <1>3, <1>6, <1>11, <2>1, <2>2 DEF RewoundInv, WayInv, Way
<1>13. PICK v : v = Len(videoHistory)
  OBVIOUS
<1>14. v \in Nat /\ n = v + first.count - before
  BY <1>1, <1>6, <1>11, <1>13, LenProperties DEF FramesLeft, TypeOK
<1> HIDE DEF n
<1>15. Len(End(first)) + v = Len(shown) - 1 /\ Begins(shown, Target)
  <2>1. Since = Len(End(first))
    BY <1>6 DEF Since, Complete
  <2>2. QED
    BY <1>3, <1>13, <2>1 DEF RewoundInv
<1>16. shown \in Machines /\ Len(shown) \in Nat
  BY <1>1, LenProperties DEF TypeOK, Machines
<1>17. /\ Len(End(first)) = Len(first.state) + first.count
       /\ Len(first.state) \in Nat /\ first.count \in Nat
  BY <1>6, EndType
<1>18. Len(f) = Len(shown) - 1
  <2>1. PICK x, y : x = Len(first.state) /\ y = first.count
    OBVIOUS
  <2>2. /\ x \in Nat /\ y \in Nat /\ Len(f) = x + before + n /\ n = v + y - before
        /\ x + y + v = Len(shown) - 1
    BY <1>10, <1>12, <1>14, <1>15, <1>17, <2>1
  <2>3. QED
    BY <1>12, <1>14, <1>16, <2>2, SMTT(30)
<1>19. Begins(f, Target)
  <2>1. End(b) \in Machines
    BY EndType
  <2>2. QED
    BY <1>6, <1>10, <1>12, <2>1, BeginsTrans DEF Machines
<1>20. /\ Front(shown) \in Machines /\ Len(Front(shown)) = Len(shown) - 1
       /\ Begins(Front(shown), Target)
  <2>1. shown # <<>>
    <3>1. Len(shown) # 0
      BY <1>14, <1>15, <1>16, <1>17
    <3>2. QED
      BY <3>1, EmptySeq
  <2>2. /\ Front(shown) \in Machines /\ Len(Front(shown)) = Len(shown) - 1
        /\ Begins(Front(shown), shown)
    BY <1>16, <2>1, FrontLast DEF Machines
  <2>3. QED
    BY <1>6, <1>15, <1>16, <2>2, BeginsTrans DEF Machines
<1>21. Front(shown) = f
  BY <1>10, <1>18, <1>19, <1>20, BeginsSame DEF Machines
<1>22. QED
  BY <1>8, <1>9, <1>21

(* The four layers hold together.                                          *)
LEMMA ScreenNext ==
  ASSUME FastFactor <= 10, Safe, DecodeInv, FrameInv, ScreenInv, [Next]_vars
  PROVE  Safe' /\ DecodeInv' /\ FrameInv' /\ ScreenInv'
BY SafeNext, DecodeInductive, FrameInductive, ScreenInductive

(* While it rewinds, the screen goes back one frame at a time, through the *)
(* frames of each block and from the first of a block to the last of the   *)
(* block before it, whatever the sizes of the blocks and of the buffer.    *)
THEOREM RewindsSafe ==
  ASSUME FastFactor <= 10
  PROVE  Spec => RewindsOneFrame
<1>1. Safe /\ DecodeInv /\ FrameInv /\ ScreenInv /\ [Next]_vars
        => Safe' /\ DecodeInv' /\ FrameInv' /\ ScreenInv'
  BY ScreenNext
<1>2. Safe /\ FrameInv /\ ScreenInv /\ [Next]_vars
        => [exact /\ Seamless /\ rewindState' = "Started" /\ shown' # shown
              => shown' = Front(shown)]_vars
  BY RewindStep
<1>3. QED
  BY InitSafe, DecodeInit, FrameInit, ScreenInit, <1>1, <1>2, PTL DEF Spec, RewindsOneFrame

(* When the user stops rewinding, what is fast forwarded leads to the      *)
(* frame before the one on the screen, in whichever block that frame is.   *)
THEOREM StopsSafe ==
  ASSUME FastFactor <= 10
  PROVE  Spec => StopsAtShown
<1>1. Safe /\ DecodeInv /\ FrameInv /\ ScreenInv /\ [Next]_vars
        => Safe' /\ DecodeInv' /\ FrameInv' /\ ScreenInv'
  BY ScreenNext
<1>2. Safe /\ FrameInv /\ ScreenInv /\ [Next]_vars
        => [exact' /\ Seamless /\ phase = "frame"
              /\ rewindState = "Started" /\ rewindState' = "Stopping"
            => Front(shown) = currentHistory'.state
                              \o SubSeq(currentHistory'.log, 1, framesToFastForward')]_vars
  BY StopStep
<1>3. QED
  BY InitSafe, DecodeInit, FrameInit, ScreenInit, <1>1, <1>2, PTL DEF Spec, StopsAtShown
=============================================================================
