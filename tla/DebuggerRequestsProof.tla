-------------------------- MODULE DebuggerRequestsProof --------------------------
(***************************************************************************)
(* Proofs about DebuggerRequests, for any threads, calls and bounds: its   *)
(* type invariant, with who has the run lock (TypeCorrect), that no        *)
(* request outlives its debugger (RequestsSafe), that every count and lock *)
(* comes back (CountsSafe), and that the debugger is not replaced under    *)
(* the emulation thread (ParkedSafe).                                      *)
(*                                                                         *)
(* What a thread still has to do is a sequence of steps, and the invariant *)
(* reads it from the end: Expect says what these steps expect of the state *)
(* they begin in, and the thread is in such a state (Fit).  The counts     *)
(* then count what all threads together hold and expect (Counts).          *)
(***************************************************************************)
EXTENDS DebuggerRequests, FiniteSetTheorems, SequenceTheorems, TLAPS, WellFoundedInduction

(***************************************************************************)
(* What the steps that are left expect of the state they begin in.         *)
(***************************************************************************)
(* Of thread t, before it goes on: it has h entries in held, k levels of   *)
(* the debugger lock, and b blocks of debugger requests to take back;      *)
(* requests may be counted or, when they have been drained, not; the last  *)
(* entry has not asked for a break yet when it is "new" or, for one with a *)
(* debugger, "real"; the thread will have reset the suspend count of the    *)
(* debugger it replaces next and suspend it ("will"), or may have done so  *)
(* already ("yes"); the entries whose number is in locks are the run       *)
(* lock's; first to third are the next steps; and the steps fit together.  *)
Idle ==
  [h |-> 0, k |-> 0, b |-> 0, requests |-> "any", last |-> "used", suspends |-> "no",
   locks |-> {}, first |-> "none", second |-> "none", third |-> "none", fit |-> "yes"]

(* Step s of thread t may come before steps that expect e.                 *)
Fits(t, s, e) ==
  /\ s \in StepNames /\ e.fit = "yes"
  /\ s \in {"acquire", "take", "request", "autoRequest", "choose", "toolBreak", "break"}
       => e.h >= 1
  /\ s = "dlock" => e.k >= 1
  /\ s = "raise" => e.b >= 1 /\ e.requests = "any" /\ e.suspends = "will"
  /\ s \in {"unset", "new"} => e.b >= 1 /\ e.suspends = "no"
  /\ e.last # "real"
  /\ e.last = "new" => s \in {"dunlock", "request", "autoRequest"}
  /\ s \in {"request", "autoRequest"} => e.first = "dunlock" /\ e.last = "new"
  /\ e.first = "take" <=> s = "lock"
  /\ e.first \notin {"lower", "decrement"}
  /\ s \in {"request", "autoRequest", "toolBreak", "break"} => e.h \notin e.locks
  /\ s \in {"acquire", "choose"} => (e.h \in e.locks => e.requests = "none")
  /\ s \in {"unset", "new", "start"} /\ t # Emu => e.h >= 1
  /\ s \in {"ifNone", "ifAny", "test"} => e.first = "dlock" /\ e.third = "dunlock"
  /\ s = "ifNone" => e.second = "create"
  /\ s = "ifAny" => e.second = "remove"
  /\ s = "test" => e.second \in {"request", "autoRequest"}
  /\ s \in {"autoRequest", "create", "remove", "outcome", "gameLoaded"} => e.suspends = "no"
  /\ s = "suspend" => e.suspends = "yes"
  /\ s \in {"start", "join", "stopFlag"} => t # Emu
  /\ s \in {"unsuspend", "decrement"} => t = Emu

Before(t, s, e) ==
  [h |-> IF s \in {"release", "lower", "outcome"} THEN e.h + 1
         ELSE IF s \in {"acquire", "take", "request", "autoRequest"} THEN e.h - 1 ELSE e.h,
   k |-> IF s \in {"dunlock", "outcome"} THEN e.k + 1
         ELSE IF s = "dlock" THEN e.k - 1 ELSE e.k,
   b |-> IF s \in {"unblock", "outcome"} THEN e.b + 1
         ELSE IF s = "raise" THEN e.b - 1 ELSE e.b,
   requests |-> IF s \in {"unset", "new", "outcome"} THEN "none"
                ELSE IF s = "drain" THEN "any" ELSE e.requests,
   last |-> IF s = "break" THEN "real"
            ELSE IF s \in {"choose", "toolBreak"} THEN "new"
            ELSE IF s = "dunlock" THEN e.last ELSE "used",
   suspends |-> IF s \in {"unset", "new"} THEN "yes"
                ELSE IF s = "suspend" THEN "will"
                ELSE IF s = "raise" THEN "no" ELSE e.suspends,
   locks |-> IF s \in {"unset", "new", "start"} /\ t # Emu THEN e.locks \cup {e.h}
             ELSE IF s = "outcome" /\ t # Emu THEN e.locks \cup {e.h + 1}
             ELSE IF s \in {"acquire", "take", "choose"} THEN e.locks \ {e.h}
             ELSE e.locks,
   first |-> s, second |-> e.first, third |-> e.second,
   fit |-> IF Fits(t, s, e) THEN "yes" ELSE "no"]

(* What thread t's steps expect, from the last one to the first.           *)
Expect(t, steps) ==
  LET After[i \in 0 .. Len(steps)] ==
        IF i = 0 THEN Idle ELSE Before(t, steps[Len(steps) + 1 - i], After[i - 1])
  IN  After[Len(steps)]

Due(t) == Expect(t, todo[t])

(* What threads hold: the entries in held, by their thread and their       *)
(* number, the first taken being number 1.                                 *)
Entries  == [kind : {"none", "request", "lock"}, debugger : Nat]
Requests == {x \in Entries : x.kind = "request"}
RunLocks == {x \in Entries : x.kind = "lock"}
Breakers == {x \in Entries : x.debugger # 0}

EntryOf(s, i) == s[Len(s) + 1 - i]
Heights(s, X) == {i \in 1 .. Len(s) : EntryOf(s, i) \in X}
Places == Threads \X Nat
Marked(hs, X) == {p \in Places : p[2] \in Heights(hs[p[1]], X)}

(* Blocks to take back; entries that have asked for a break; threads that  *)
(* are counted as waiting for the run lock, that may have suspended the    *)
(* debugger.                                                               *)
Pending    == {p \in Places : p[2] \in 1 .. Due(p[1]).b}
Broken     == {p \in Marked(held, Breakers) :
                 p[2] = Len(held[p[1]]) => Due(p[1]).last = "used"}
Waiting    == {t \in Threads : Due(t).first = "take"}
Suspending == {t \in Threads : Due(t).suspends = "yes"}

(* A thread holds what its steps expect.                                   *)
Fit(t) ==
  /\ Due(t).fit = "yes" /\ Due(t).h = Len(held[t])
  /\ Due(t).last # "used" => held[t] # <<>> /\ Head(held[t]) \notin RunLocks
  /\ Due(t).last = "real" => Head(held[t]).debugger # 0
  /\ \A i \in Due(t).locks : EntryOf(held[t], i) \in RunLocks
  /\ Due(t).k = IF debuggerLock.owner = t THEN debuggerLock.depth ELSE 0

(* Who has the run lock, and how often.                                    *)
RunLocked ==
  /\ \A t \in Threads :
       Cardinality(Heights(held[t], RunLocks))
         = IF runLock.owner # t THEN 0
           ELSE IF t = Emu THEN runLock.depth - 1 ELSE runLock.depth
  /\ runLock.owner = Emu <=> emu \in {"run", "stopped", "actions"}
  /\ Busy(Emu) => emu = "actions"

Finite ==
  /\ IsFiniteSet(Marked(held, Requests)) /\ IsFiniteSet(Marked(held, RunLocks))
  /\ IsFiniteSet(Broken) /\ IsFiniteSet(Pending)
  /\ IsFiniteSet(Waiting) /\ IsFiniteSet(Suspending)

(* What the counts count.                                                  *)
Counts ==
  /\ debugRequestCount = Cardinality(Marked(held, Requests))
  /\ blockDebuggerRequestCount = thrown + Cardinality(Pending)
  /\ breakRequestCount = Cardinality(Broken)
  /\ lockCounter = Cardinality(Marked(held, RunLocks)) + Cardinality(Waiting)
  /\ debugger # 0 => suspendRequestCount <= lockCounter + Cardinality(Suspending)

(* No request is counted between the end of Drain and the assignment.      *)
Drained == \A t \in Threads : Due(t).requests = "none" => debugRequestCount = 0

(* Only a request has a debugger, and that is the emulator's.              *)
Current ==
  \A t \in Threads : \A i \in 1 .. Len(held[t]) :
     held[t][i].debugger = IF held[t][i].kind = "request" THEN debugger ELSE 0

(* A thread that has found the suspend count above zero, and will lower it *)
(* in its next step, has the run lock.  Until the count is reset for a     *)
(* debugger that goes, nothing else lowers it, so that it has not fallen   *)
(* below zero.                                                             *)
Lowering(t) == Due(t).first \in {"lower", "decrement"}

Lowered ==
  /\ \A t \in Threads : Lowering(t) => runLock.owner = t
  /\ debugger # 0 /\ (\A t \in Threads : Due(t).suspends = "no")
       => /\ suspendRequestCount >= 0
          /\ \A t \in Threads : Lowering(t) => suspendRequestCount >= 1

(* The types of the state, with held, which TypeOK gives element by element.*)
Typed ==
  /\ emu \in {"start", "run", "stopped", "actions", "parked", "waked", "ended", "none"}
  /\ made \in Nat /\ seen \in 0 .. made /\ debugger \in 0 .. made
  /\ todo \in [Threads -> Seq(StepNames)] /\ held \in [Threads -> Seq(Entries)]
  /\ call \in [Threads -> AllCalls \cup {"power", "none"}] /\ calls \in 0 .. MaxCalls
  /\ kept \in [Threads -> 0 .. made]
  /\ breakRequestCount \in Nat /\ suspendRequestCount \in Int
  /\ debugRequestCount \in Nat /\ blockDebuggerRequestCount \in Nat
  /\ lockCounter \in Nat /\ thrown \in Nat
  /\ debuggerLock \in LockType /\ runLock \in LockType
  /\ debuggerLock.owner = "free" <=> debuggerLock.depth = 0
  /\ runLock.owner = "free" <=> runLock.depth = 0
  /\ threadPaused \in BOOLEAN /\ stopFlag \in BOOLEAN /\ running \in BOOLEAN

RequestsInv ==
  /\ Typed /\ (\A t \in Threads : Fit(t)) /\ RunLocked
  /\ Finite /\ Counts /\ Drained /\ Current /\ Lowered

-----------------------------------------------------------------------------
(***************************************************************************)
(* Expect is a recursive function; what it returns is proved by induction  *)
(* on a set of numbers.                                                    *)
(***************************************************************************)
(* The natural numbers are well ordered.                                   *)
LEMMA NatMin ==
  ASSUME NEW S \in SUBSET Nat, S # {}
  PROVE  \E m \in S : \A n \in S : m <= n
<1>1. PICK m \in S : \A n \in S : <<n, m>> \notin OpToRel(<, Nat)
  BY NatLessThanWellFounded, WFMin
<1>2. \A n \in S : ~ (n < m)
  BY <1>1 DEF OpToRel
<1> QED
  BY <1>2

(* Induction, for a set of numbers.                                        *)
LEMMA NatInd ==
  ASSUME NEW S \in SUBSET Nat, 0 \in S, \A n \in S : n + 1 \in S
  PROVE  S = Nat
<1>1. SUFFICES ASSUME Nat \ S # {} PROVE FALSE
  OBVIOUS
<1>2. PICK m \in Nat \ S : \A n \in Nat \ S : m <= n
  BY <1>1, NatMin
<1>3. m # 0 /\ m - 1 \in Nat /\ m - 1 \in S
  BY <1>2
<1> QED
  BY <1>2, <1>3

(* The i-th step from the end, and the table of Expect.                    *)
FromEnd(steps, i) == steps[Len(steps) + 1 - i]

IsTable(g, t, steps, n) ==
  g = [i \in 0 .. n |-> IF i = 0 THEN Idle ELSE Before(t, FromEnd(steps, i), g[i - 1])]

(* There is a table,                                                       *)
LEMMA TableExists ==
  ASSUME NEW t, NEW steps, NEW n \in Nat
  PROVE  \E g : IsTable(g, t, steps, n)
<1> DEFINE S == {m \in Nat : \E g : IsTable(g, t, steps, m)}
<1>1. 0 \in S
  <2>1. IsTable([i \in 0 .. 0 |-> Idle], t, steps, 0)
    BY DEF IsTable
  <2> QED
    BY <2>1
<1>2. ASSUME NEW m \in S PROVE m + 1 \in S
  <2>1. PICK g : IsTable(g, t, steps, m)
    OBVIOUS
  <2> DEFINE h == [i \in 0 .. (m + 1) |->
                     IF i = 0 THEN Idle ELSE Before(t, FromEnd(steps, i), g[i - 1])]
  <2>2. \A i \in 0 .. m : h[i] = g[i]
    BY <2>1 DEF IsTable
  <2>3. ASSUME NEW i \in 0 .. (m + 1)
        PROVE  h[i] = IF i = 0 THEN Idle ELSE Before(t, FromEnd(steps, i), h[i - 1])
    <3>1. CASE i = 0
      BY <3>1
    <3>2. CASE i # 0
      <4>1. i - 1 \in 0 .. m /\ h[i] = Before(t, FromEnd(steps, i), g[i - 1])
        BY <3>2
      <4>2. h[i - 1] = g[i - 1]
        BY <2>2, <4>1
      <4> HIDE DEF h
      <4> QED
        BY <3>2, <4>1, <4>2
    <3> QED
      BY <3>1, <3>2
  <2>4. DOMAIN h = 0 .. (m + 1) /\ h = [i \in DOMAIN h |-> h[i]]
    OBVIOUS
  <2> HIDE DEF h
  <2>5. IsTable(h, t, steps, m + 1)
    BY <2>3, <2>4 DEF IsTable
  <2> QED
    BY <2>5
<1> HIDE DEF S
<1>3. S = Nat
  <2>1. S \in SUBSET Nat
    BY DEF S
  <2> QED
    BY <1>1, <1>2, <2>1, NatInd
<1> QED
  BY <1>3 DEF S

(* and Expect is its last entry.                                           *)
LEMMA ExpectTable ==
  ASSUME NEW t, NEW steps, Len(steps) \in Nat
  PROVE  \E g : IsTable(g, t, steps, Len(steps)) /\ Expect(t, steps) = g[Len(steps)]
<1> DEFINE G == CHOOSE g : IsTable(g, t, steps, Len(steps))
<1>1. IsTable(G, t, steps, Len(steps))
  BY TableExists
<1>2. Expect(t, steps) = G[Len(steps)]
  BY DEF Expect, IsTable, FromEnd
<1> QED
  BY <1>1, <1>2

(* Tables of steps that end alike agree.                                   *)
LEMMA TableUnique ==
  ASSUME NEW t, NEW s, NEW r, NEW m \in Nat, NEW n \in Nat, NEW g, NEW h,
         IsTable(g, t, s, m), IsTable(h, t, r, n), m <= n,
         \A i \in 1 .. m : FromEnd(s, i) = FromEnd(r, i)
  PROVE  g[m] = h[m]
<1> DEFINE S == {i \in Nat : i <= m => g[i] = h[i]}
<1>1. 0 \in S
  BY DEF IsTable
<1>2. ASSUME NEW i \in S PROVE i + 1 \in S
  <2>1. SUFFICES ASSUME i + 1 <= m PROVE g[i + 1] = h[i + 1]
    OBVIOUS
  <2>2. /\ g[i + 1] = Before(t, FromEnd(s, i + 1), g[i])
        /\ h[i + 1] = Before(t, FromEnd(r, i + 1), h[i])
    BY <2>1 DEF IsTable
  <2>3. FromEnd(s, i + 1) = FromEnd(r, i + 1) /\ g[i] = h[i]
    BY <2>1
  <2> QED
    BY <2>2, <2>3
<1>3. S = Nat
  BY <1>1, <1>2, NatInd
<1>4. m \in S
  BY <1>3
<1> QED
  BY <1>4

(* One step more.                                                          *)
LEMMA ExpectCons ==
  ASSUME NEW t, NEW S, NEW x \in S, NEW r \in Seq(S)
  PROVE  Expect(t, <<x>> \o r) = Before(t, x, Expect(t, r))
<1>1. PICK s : s = <<x>> \o r
  OBVIOUS
<1>2. PICK n \in Nat : n = Len(r)
  BY LenProperties
<1>3. PICK m \in Nat : m = n + 1
  OBVIOUS
<1>4. s \in Seq(S) /\ Len(s) = m /\ s[1] = x
  BY <1>1, <1>2, <1>3
<1>5. ASSUME NEW i \in 1 .. n PROVE FromEnd(r, i) = FromEnd(s, i)
  <2>1. s[m + 1 - i] = r[n + 1 - i]
    BY <1>1, <1>2, <1>3
  <2> QED
    BY <1>2, <1>4, <2>1 DEF FromEnd
<1>6. PICK g : IsTable(g, t, r, n) /\ Expect(t, r) = g[n]
  BY <1>2, ExpectTable
<1>7. PICK h : IsTable(h, t, s, m) /\ Expect(t, s) = h[m]
  BY <1>4, ExpectTable
<1>8. g[n] = h[n]
  BY <1>3, <1>5, <1>6, <1>7, TableUnique
<1>9. FromEnd(s, m) = x
  BY <1>4 DEF FromEnd
<1>10. h[m] = Before(t, FromEnd(s, m), h[n])
  BY <1>3, <1>7 DEF IsTable
<1> QED
  BY <1>1, <1>6, <1>7, <1>8, <1>9, <1>10

(* Nothing left to do.                                                     *)
LEMMA ExpectNil ==
  ASSUME NEW t
  PROVE  Expect(t, <<>>) = Idle
<1>1. PICK g : IsTable(g, t, <<>>, 0) /\ Expect(t, <<>>) = g[0]
  BY ExpectTable
<1> QED
  BY <1>1 DEF IsTable

(* The first of the steps that are left.                                   *)
LEMMA ExpectHead ==
  ASSUME NEW t, NEW S, NEW s \in Seq(S), s # <<>>
  PROVE  /\ Expect(t, s) = Before(t, Head(s), Expect(t, Tail(s)))
         /\ Head(s) \in S /\ Tail(s) \in Seq(S) /\ s = <<Head(s)>> \o Tail(s)
<1>1. Head(s) \in S /\ Tail(s) \in Seq(S) /\ s = <<Head(s)>> \o Tail(s)
  OBVIOUS
<1>2. Expect(t, <<Head(s)>> \o Tail(s)) = Before(t, Head(s), Expect(t, Tail(s)))
  BY <1>1, ExpectCons
<1> QED
  BY <1>1, <1>2

-----------------------------------------------------------------------------
(***************************************************************************)
(* What steps that fit together expect.                                    *)
(***************************************************************************)
Good(e) ==
  /\ e.h \in Nat /\ e.k \in Nat /\ e.b \in Nat
  /\ e.requests \in {"any", "none"} /\ (e.requests = "none" => e.b >= 1)
  /\ e.last \in {"used", "new", "real"} /\ e.suspends \in {"yes", "no", "will"}
  /\ e.locks \subseteq 1 .. e.h

(* The fields of Before, one by one.                                       *)
IsBefore(d, t, s, e) ==
  /\ d.h = IF s \in {"release", "lower", "outcome"} THEN e.h + 1
           ELSE IF s \in {"acquire", "take", "request", "autoRequest"} THEN e.h - 1
           ELSE e.h
  /\ d.k = IF s \in {"dunlock", "outcome"} THEN e.k + 1
           ELSE IF s = "dlock" THEN e.k - 1 ELSE e.k
  /\ d.b = IF s \in {"unblock", "outcome"} THEN e.b + 1
           ELSE IF s = "raise" THEN e.b - 1 ELSE e.b
  /\ d.requests = IF s \in {"unset", "new", "outcome"} THEN "none"
                  ELSE IF s = "drain" THEN "any" ELSE e.requests
  /\ d.last = IF s = "break" THEN "real"
              ELSE IF s \in {"choose", "toolBreak"} THEN "new"
              ELSE IF s = "dunlock" THEN e.last ELSE "used"
  /\ d.suspends = IF s \in {"unset", "new"} THEN "yes"
                  ELSE IF s = "suspend" THEN "will"
                  ELSE IF s = "raise" THEN "no" ELSE e.suspends
  /\ d.locks = IF s \in {"unset", "new", "start"} /\ t # Emu THEN e.locks \cup {e.h}
               ELSE IF s = "outcome" /\ t # Emu THEN e.locks \cup {e.h + 1}
               ELSE IF s \in {"acquire", "take", "choose"} THEN e.locks \ {e.h}
               ELSE e.locks
  /\ d.first = s /\ d.second = e.first /\ d.third = e.second

(* Before has these fields, and fits when the step does.                   *)
LEMMA BeforeFields ==
  ASSUME NEW t, NEW s, NEW e
  PROVE  /\ IsBefore(Before(t, s, e), t, s, e)
         /\ Before(t, s, e).fit = "yes" <=> Fits(t, s, e)
<1>1. Before(t, s, e).fit = IF Fits(t, s, e) THEN "yes" ELSE "no"
  BY DEF Before
<1>2. IsBefore(Before(t, s, e), t, s, e)
  BY DEF Before, IsBefore
<1> QED
  BY <1>1, <1>2

(* A step that fits leads from what is expected after it to what is        *)
(* expected before it, with numbers that are not negative.                 *)
LEMMA BeforeGood ==
  ASSUME NEW t, NEW s, NEW e, Good(e), Fits(t, s, e), NEW d, IsBefore(d, t, s, e)
  PROVE  Good(d)
<1>1. /\ d.h \in Nat /\ d.k \in Nat /\ d.b \in Nat
      /\ d.requests \in {"any", "none"} /\ (d.requests = "none" => d.b >= 1)
      /\ d.last \in {"used", "new", "real"} /\ d.suspends \in {"yes", "no", "will"}
  BY DEF Good, Fits, IsBefore
<1>2. ASSUME NEW i \in d.locks PROVE i \in 1 .. d.h
  BY <1>2 DEF Good, Fits, IsBefore
<1> QED
  BY <1>1, <1>2 DEF Good

(* By induction on the number of steps.                                    *)
LEMMA ExpectGood ==
  ASSUME NEW t, NEW s \in Seq(StepNames), Expect(t, s).fit = "yes"
  PROVE  Good(Expect(t, s))
<1> DEFINE P(n) == \A q \in Seq(StepNames) :
                     Len(q) = n /\ Expect(t, q).fit = "yes" => Good(Expect(t, q))
           S == {n \in Nat : P(n)}
<1>1. P(0)
  <2>1. Good(Idle)
    BY DEF Good, Idle
  <2>2. \A q \in Seq(StepNames) : Len(q) = 0 => q = <<>>
    OBVIOUS
  <2> QED
    BY <2>1, <2>2, ExpectNil
<1>2. ASSUME NEW n \in Nat, P(n) PROVE P(n + 1)
  <2>1. SUFFICES ASSUME NEW q \in Seq(StepNames), Len(q) = n + 1, Expect(t, q).fit = "yes"
                 PROVE  Good(Expect(t, q))
    OBVIOUS
  <2>2. q # <<>> /\ Tail(q) \in Seq(StepNames) /\ Len(Tail(q)) = n
    BY <2>1
  <2>3. Expect(t, q) = Before(t, Head(q), Expect(t, Tail(q)))
    BY <2>2, ExpectHead
  <2>4. /\ Fits(t, Head(q), Expect(t, Tail(q)))
        /\ IsBefore(Expect(t, q), t, Head(q), Expect(t, Tail(q)))
    <3>1. PICK d : d = Expect(t, q) /\ d.fit = "yes"
      BY <2>1
    <3>2. PICK e : e = Expect(t, Tail(q))
      OBVIOUS
    <3> QED
      BY <2>3, <3>1, <3>2, BeforeFields
  <2>5. Expect(t, Tail(q)).fit = "yes"
    BY <2>4 DEF Fits
  <2>6. Good(Expect(t, Tail(q)))
    BY <1>2, <2>2, <2>5
  <2> QED
    BY <2>4, <2>6, BeforeGood
<1> HIDE DEF P
<1>3. 0 \in S /\ \A n \in S : n + 1 \in S
  BY <1>1, <1>2
<1>6. S = Nat
  BY <1>3, NatInd
<1>4. PICK n \in Nat : n = Len(s)
  OBVIOUS
<1>5. P(n)
  BY <1>6
<1> QED
  BY <1>4, <1>5 DEF P

(* A thread at step s: what it expects, and what it does afterwards.       *)
LEMMA AtStep ==
  ASSUME NEW t, NEW q \in Seq(StepNames), q # <<>>, Expect(t, q).fit = "yes"
  PROVE  LET e == Expect(t, Tail(q))
         IN  /\ IsBefore(Expect(t, q), t, Head(q), e) /\ Fits(t, Head(q), e) /\ Good(e)
             /\ e.fit = "yes" /\ Good(Expect(t, q)) /\ Tail(q) \in Seq(StepNames)
<1>1. PICK e : e = Expect(t, Tail(q))
  OBVIOUS
<1>2. Expect(t, q) = Before(t, Head(q), e) /\ Tail(q) \in Seq(StepNames)
  BY <1>1, ExpectHead
<1>3. Fits(t, Head(q), e) /\ IsBefore(Expect(t, q), t, Head(q), e)
  <2>1. PICK d : d = Expect(t, q) /\ d.fit = "yes"
    OBVIOUS
  <2> QED
    BY <1>2, <2>1, BeforeFields
<1>4. e.fit = "yes"
  BY <1>3 DEF Fits
<1>5. Good(e)
  BY <1>1, <1>2, <1>4, ExpectGood
<1>6. Good(Expect(t, q))
  BY ExpectGood
<1> QED
  BY <1>1, <1>2, <1>3, <1>4, <1>5, <1>6

(* Two sequences in one.                                                   *)
LEMMA Pair ==
  ASSUME NEW S, NEW x \in S, NEW y \in S
  PROVE  /\ <<x>> \in Seq(S) /\ <<y>> \in Seq(S) /\ <<x, y>> \in Seq(S)
         /\ <<x, y>> = <<x>> \o <<y>>
<1>1. PICK a, b, c : a = <<x>> /\ b = <<y>> /\ c = <<x, y>>
  OBVIOUS
<1>2. /\ a \in Seq(S) /\ Len(a) = 1 /\ a[1] = x
      /\ b \in Seq(S) /\ Len(b) = 1 /\ b[1] = y
      /\ c \in Seq(S) /\ Len(c) = 2 /\ c[1] = x /\ c[2] = y
  BY <1>1
<1>3. /\ a \o b \in Seq(S) /\ Len(a \o b) = Len(a) + Len(b)
      /\ \A i \in 1 .. Len(a) + Len(b) :
            (a \o b)[i] = IF i <= Len(a) THEN a[i] ELSE b[i - Len(a)]
  BY <1>2, ConcatProperties
<1>4. Len(c) = Len(a \o b) /\ \A i \in 1 .. Len(c) : c[i] = (a \o b)[i]
  BY <1>2, <1>3
<1>5. c = a \o b
  BY <1>2, <1>3, <1>4, SeqEqual
<1> QED
  BY <1>1, <1>2, <1>5

(* Several steps more.                                                     *)
LEMMA Expect2 ==
  ASSUME NEW t, NEW x \in StepNames, NEW y \in StepNames, NEW r \in Seq(StepNames)
  PROVE  /\ Expect(t, <<x, y>> \o r) = Before(t, x, Before(t, y, Expect(t, r)))
         /\ <<x, y>> \o r \in Seq(StepNames)
<1>1. PICK a, b, c : a = <<x>> /\ b = <<y>> /\ c = <<x, y>>
  OBVIOUS
<1>2. a \in Seq(StepNames) /\ b \in Seq(StepNames) /\ c \in Seq(StepNames) /\ c = a \o b
  BY <1>1, Pair
<1>3. c \o r = a \o (b \o r) /\ b \o r \in Seq(StepNames) /\ c \o r \in Seq(StepNames)
  BY <1>2, ConcatAssociative, ConcatProperties
<1>4. Expect(t, b \o r) = Before(t, y, Expect(t, r))
  BY <1>1, ExpectCons
<1>5. Expect(t, a \o (b \o r)) = Before(t, x, Expect(t, b \o r))
  BY <1>1, <1>3, ExpectCons
<1> QED
  BY <1>1, <1>3, <1>4, <1>5

(* What four steps in front of others expect.                              *)
LEMMA Expect4 ==
  ASSUME NEW t, NEW x \in StepNames, NEW y \in StepNames, NEW z \in StepNames,
         NEW w \in StepNames, NEW r \in Seq(StepNames)
  PROVE  /\ Expect(t, <<x, y, z, w>> \o r)
              = Before(t, x, Before(t, y, Before(t, z, Before(t, w, Expect(t, r)))))
         /\ <<x, y, z, w>> \o r \in Seq(StepNames)
<1>1. PICK a, b, c : a = <<x, y>> /\ b = <<z, w>> /\ c = <<x, y, z, w>>
  OBVIOUS
<1>2. /\ a \in Seq(StepNames) /\ Len(a) = 2 /\ a[1] = x /\ a[2] = y
      /\ b \in Seq(StepNames) /\ Len(b) = 2 /\ b[1] = z /\ b[2] = w
  BY <1>1
<1>3. c \in Seq(StepNames) /\ Len(c) = 4 /\ c[1] = x /\ c[2] = y /\ c[3] = z /\ c[4] = w
  BY <1>1
<1>4. /\ a \o b \in Seq(StepNames) /\ Len(a \o b) = Len(a) + Len(b)
      /\ \A i \in 1 .. Len(a) + Len(b) :
            (a \o b)[i] = IF i <= Len(a) THEN a[i] ELSE b[i - Len(a)]
  BY <1>2, ConcatProperties
<1>5. Len(c) = Len(a \o b) /\ \A i \in 1 .. Len(c) : c[i] = (a \o b)[i]
  BY <1>2, <1>3, <1>4
<1>6. c = a \o b
  BY <1>3, <1>4, <1>5, SeqEqual
<1>7. b \o r \in Seq(StepNames) /\ c \o r \in Seq(StepNames)
  BY <1>2, <1>3, ConcatProperties
<1>8. c \o r = a \o (b \o r)
  <2>1. (a \o b) \o r = a \o (b \o r)
    BY <1>2, ConcatAssociative
  <2> QED
    BY <1>6, <2>1
<1>9. Expect(t, b \o r) = Before(t, z, Before(t, w, Expect(t, r)))
  BY <1>1, Expect2
<1>10. Expect(t, a \o (b \o r)) = Before(t, x, Before(t, y, Expect(t, b \o r)))
  BY <1>1, <1>7, Expect2
<1> QED
  BY <1>1, <1>7, <1>8, <1>9, <1>10

(* What three steps in front of others expect.                             *)
LEMMA Expect3 ==
  ASSUME NEW t, NEW x \in StepNames, NEW y \in StepNames, NEW z \in StepNames,
         NEW r \in Seq(StepNames)
  PROVE  /\ Expect(t, <<x, y, z>> \o r)
              = Before(t, x, Before(t, y, Before(t, z, Expect(t, r))))
         /\ <<x, y, z>> \o r \in Seq(StepNames)
<1>1. PICK a, b, c : a = <<x, y>> /\ b = <<z>> /\ c = <<x, y, z>>
  OBVIOUS
<1>2. /\ a \in Seq(StepNames) /\ Len(a) = 2 /\ a[1] = x /\ a[2] = y
      /\ b \in Seq(StepNames) /\ Len(b) = 1 /\ b[1] = z
  BY <1>1
<1>3. c \in Seq(StepNames) /\ Len(c) = 3 /\ c[1] = x /\ c[2] = y /\ c[3] = z
  BY <1>1
<1>4. /\ a \o b \in Seq(StepNames) /\ Len(a \o b) = Len(a) + Len(b)
      /\ \A i \in 1 .. Len(a) + Len(b) :
            (a \o b)[i] = IF i <= Len(a) THEN a[i] ELSE b[i - Len(a)]
  BY <1>2, ConcatProperties
<1>5. Len(c) = Len(a \o b) /\ \A i \in 1 .. Len(c) : c[i] = (a \o b)[i]
  BY <1>2, <1>3, <1>4
<1>6. c = a \o b
  BY <1>3, <1>4, <1>5, SeqEqual
<1>7. b \o r \in Seq(StepNames) /\ c \o r \in Seq(StepNames)
  BY <1>2, <1>3, ConcatProperties
<1>8. c \o r = a \o (b \o r)
  BY <1>2, <1>6, ConcatAssociative
<1>9. Expect(t, b \o r) = Before(t, z, Expect(t, r))
  BY <1>1, ExpectCons
<1>10. Expect(t, a \o (b \o r)) = Before(t, x, Before(t, y, Expect(t, b \o r)))
  BY <1>1, <1>7, Expect2
<1> QED
  BY <1>1, <1>7, <1>8, <1>9, <1>10

-----------------------------------------------------------------------------
(***************************************************************************)
(* The calls: what each expects, if it is followed by steps that expect e. *)
(***************************************************************************)
(* Steps before which there may be an ordinary step.                       *)
Ready(e) ==
  /\ Good(e) /\ e.fit = "yes" /\ e.last = "used"
  /\ e.first \notin {"take", "lower", "decrement"}

CanRequest(e) ==
  /\ Good(e) /\ e.fit = "yes" /\ e.last = "new"
  /\ e.first \notin {"take", "lower", "decrement"}
  /\ e.h >= 1 /\ e.h \notin e.locks

(* As e, but for h entries, k levels and b blocks more, and perhaps for    *)
(* the suspending.                                                         *)
Near(d, e, h, k, b) ==
  /\ Good(d) /\ d.fit = "yes" /\ d.h = e.h + h /\ d.k = e.k + k /\ d.b = e.b + b
  /\ d.last = "used" /\ d.first \notin {"take", "lower", "decrement"}

Like(d, e, h, k, b) == Near(d, e, h, k, b) /\ d.suspends = e.suspends

(* Requests are blocked and drained.                                       *)
LEMMA BlockExpects ==
  ASSUME NEW t, NEW r \in Seq(StepNames),
         Ready(Expect(t, r)), Expect(t, r).b >= 1, Expect(t, r).suspends = "will"
  PROVE  LET e == Expect(t, r)
             d == Expect(t, Block \o r)
         IN  /\ Block \o r \in Seq(StepNames)
             /\ Near(d, e, 0, 0, -1) /\ d.suspends = "no"
             /\ d.requests = "any" /\ d.locks = e.locks
<1> DEFINE e == Expect(t, r)
<1>1. Ready(e) /\ e.b >= 1 /\ e.suspends = "will"
  OBVIOUS
<1> HIDE DEF e
<1>2. Fits(t, "dunlock", e)
  BY <1>1 DEF Fits, StepNames, IsBefore, Good, Ready
<1>3. PICK d4 : /\ d4 = Before(t, "dunlock", e) /\ d4.fit = "yes"
                /\ IsBefore(d4, t, "dunlock", e)
  BY <1>2, BeforeFields
<1>4. Fits(t, "drain", d4)
  BY <1>1, <1>3 DEF Fits, StepNames, IsBefore, Good, Ready
<1>5. PICK d3 : /\ d3 = Before(t, "drain", d4) /\ d3.fit = "yes"
                /\ IsBefore(d3, t, "drain", d4)
  BY <1>4, BeforeFields
<1>6. Fits(t, "raise", d3)
  BY <1>1, <1>3, <1>5 DEF Fits, StepNames, IsBefore, Good, Ready
<1>7. PICK d2 : /\ d2 = Before(t, "raise", d3) /\ d2.fit = "yes"
                /\ IsBefore(d2, t, "raise", d3)
  BY <1>6, BeforeFields
<1>8. Fits(t, "dlock", d2)
  BY <1>1, <1>3, <1>5, <1>7 DEF Fits, StepNames, IsBefore, Good, Ready
<1>9. PICK d1 : /\ d1 = Before(t, "dlock", d2) /\ d1.fit = "yes"
                /\ IsBefore(d1, t, "dlock", d2)
  BY <1>8, BeforeFields
<1>10. /\ "dlock" \in StepNames /\ "raise" \in StepNames /\ "drain" \in StepNames
       /\ "dunlock" \in StepNames
  BY DEF StepNames
<1>11. /\ Expect(t, <<"dlock", "raise", "drain", "dunlock">> \o r)
         = Before(t, "dlock", Before(t, "raise", Before(t, "drain", Before(t, "dunlock", Expect(t, r)))))
      /\ <<"dlock", "raise", "drain", "dunlock">> \o r \in Seq(StepNames)
  BY <1>10, Expect4
<1>12. d1 = Expect(t, Block \o r) /\ Block \o r \in Seq(StepNames)
  BY <1>3, <1>5, <1>7, <1>9, <1>11 DEF Block, e
<1>13. Good(d1)
  BY <1>12, <1>9, ExpectGood
<1>14. Near(d1, e, 0, 0, -1) /\ d1.suspends = "no"
  BY <1>1, <1>13, <1>3, <1>5, <1>7, <1>9, SMTT(30) DEF IsBefore, Like, Near, Good, Ready
<1>15. d1.requests = "any" /\ d1.locks = e.locks
  BY <1>1, <1>13, <1>3, <1>5, <1>7, <1>9 DEF IsBefore, Like, Near, Good, Ready
<1> QED
  BY <1>12, <1>14, <1>15 DEF e

(* A debugger is made, or goes, if it is not or there.                     *)
LEMMA InitExpects ==
  ASSUME NEW t, NEW r \in Seq(StepNames),
         Ready(Expect(t, r)), Expect(t, r).suspends = "no"
  PROVE  LET e == Expect(t, r)
             d == Expect(t, InitDebugger \o r)
         IN  /\ InitDebugger \o r \in Seq(StepNames)
             /\ Like(d, e, 0, 0, 0)
             /\ d.requests = e.requests /\ d.locks = e.locks
<1> DEFINE e == Expect(t, r)
<1>1. Ready(e) /\ e.suspends = "no"
  OBVIOUS
<1> HIDE DEF e
<1>2. Fits(t, "dunlock", e)
  BY <1>1 DEF Fits, StepNames, IsBefore, Good, Ready
<1>3. PICK d4 : /\ d4 = Before(t, "dunlock", e) /\ d4.fit = "yes"
                /\ IsBefore(d4, t, "dunlock", e)
  BY <1>2, BeforeFields
<1>4. Fits(t, "create", d4)
  BY <1>1, <1>3 DEF Fits, StepNames, IsBefore, Good, Ready
<1>5. PICK d3 : /\ d3 = Before(t, "create", d4) /\ d3.fit = "yes"
                /\ IsBefore(d3, t, "create", d4)
  BY <1>4, BeforeFields
<1>6. Fits(t, "dlock", d3)
  BY <1>1, <1>3, <1>5 DEF Fits, StepNames, IsBefore, Good, Ready
<1>7. PICK d2 : /\ d2 = Before(t, "dlock", d3) /\ d2.fit = "yes"
                /\ IsBefore(d2, t, "dlock", d3)
  BY <1>6, BeforeFields
<1>8. Fits(t, "ifNone", d2)
  BY <1>1, <1>3, <1>5, <1>7 DEF Fits, StepNames, IsBefore, Good, Ready
<1>9. PICK d1 : /\ d1 = Before(t, "ifNone", d2) /\ d1.fit = "yes"
                /\ IsBefore(d1, t, "ifNone", d2)
  BY <1>8, BeforeFields
<1>10. /\ "ifNone" \in StepNames /\ "dlock" \in StepNames /\ "create" \in StepNames
       /\ "dunlock" \in StepNames
  BY DEF StepNames
<1>11. /\ Expect(t, <<"ifNone", "dlock", "create", "dunlock">> \o r)
         = Before(t, "ifNone", Before(t, "dlock", Before(t, "create", Before(t, "dunlock", Expect(t, r)))))
      /\ <<"ifNone", "dlock", "create", "dunlock">> \o r \in Seq(StepNames)
  BY <1>10, Expect4
<1>12. d1 = Expect(t, InitDebugger \o r) /\ InitDebugger \o r \in Seq(StepNames)
  BY <1>3, <1>5, <1>7, <1>9, <1>11 DEF InitDebugger, e
<1>13. Good(d1)
  BY <1>12, <1>9, ExpectGood
<1>14. Like(d1, e, 0, 0, 0)
  BY <1>1, <1>13, <1>3, <1>5, <1>7, <1>9, SMTT(30) DEF IsBefore, Like, Near, Good, Ready
<1>15. d1.requests = e.requests /\ d1.locks = e.locks
  BY <1>1, <1>13, <1>3, <1>5, <1>7, <1>9 DEF IsBefore, Like, Near, Good, Ready
<1> QED
  BY <1>12, <1>14, <1>15 DEF e

(* So does StopDebugger.                                                   *)
LEMMA StopDebuggerExpects ==
  ASSUME NEW t, NEW r \in Seq(StepNames),
         Ready(Expect(t, r)), Expect(t, r).suspends = "no"
  PROVE  LET e == Expect(t, r)
             d == Expect(t, StopDebugger \o r)
         IN  /\ StopDebugger \o r \in Seq(StepNames)
             /\ Like(d, e, 0, 0, 0)
             /\ d.requests = e.requests /\ d.locks = e.locks
<1> DEFINE e == Expect(t, r)
<1>1. Ready(e) /\ e.suspends = "no"
  OBVIOUS
<1> HIDE DEF e
<1>2. Fits(t, "dunlock", e)
  BY <1>1 DEF Fits, StepNames, IsBefore, Good, Ready
<1>3. PICK d4 : /\ d4 = Before(t, "dunlock", e) /\ d4.fit = "yes"
                /\ IsBefore(d4, t, "dunlock", e)
  BY <1>2, BeforeFields
<1>4. Fits(t, "remove", d4)
  BY <1>1, <1>3 DEF Fits, StepNames, IsBefore, Good, Ready
<1>5. PICK d3 : /\ d3 = Before(t, "remove", d4) /\ d3.fit = "yes"
                /\ IsBefore(d3, t, "remove", d4)
  BY <1>4, BeforeFields
<1>6. Fits(t, "dlock", d3)
  BY <1>1, <1>3, <1>5 DEF Fits, StepNames, IsBefore, Good, Ready
<1>7. PICK d2 : /\ d2 = Before(t, "dlock", d3) /\ d2.fit = "yes"
                /\ IsBefore(d2, t, "dlock", d3)
  BY <1>6, BeforeFields
<1>8. Fits(t, "ifAny", d2)
  BY <1>1, <1>3, <1>5, <1>7 DEF Fits, StepNames, IsBefore, Good, Ready
<1>9. PICK d1 : /\ d1 = Before(t, "ifAny", d2) /\ d1.fit = "yes"
                /\ IsBefore(d1, t, "ifAny", d2)
  BY <1>8, BeforeFields
<1>10. /\ "ifAny" \in StepNames /\ "dlock" \in StepNames /\ "remove" \in StepNames
       /\ "dunlock" \in StepNames
  BY DEF StepNames
<1>11. /\ Expect(t, <<"ifAny", "dlock", "remove", "dunlock">> \o r)
         = Before(t, "ifAny", Before(t, "dlock", Before(t, "remove", Before(t, "dunlock", Expect(t, r)))))
      /\ <<"ifAny", "dlock", "remove", "dunlock">> \o r \in Seq(StepNames)
  BY <1>10, Expect4
<1>12. d1 = Expect(t, StopDebugger \o r) /\ StopDebugger \o r \in Seq(StepNames)
  BY <1>3, <1>5, <1>7, <1>9, <1>11 DEF StopDebugger, e
<1>13. Good(d1)
  BY <1>12, <1>9, ExpectGood
<1>14. Like(d1, e, 0, 0, 0)
  BY <1>1, <1>13, <1>3, <1>5, <1>7, <1>9, SMTT(30) DEF IsBefore, Like, Near, Good, Ready
<1>15. d1.requests = e.requests /\ d1.locks = e.locks
  BY <1>1, <1>13, <1>3, <1>5, <1>7, <1>9 DEF IsBefore, Like, Near, Good, Ready
<1> QED
  BY <1>12, <1>14, <1>15 DEF e

(* A request for a debugger, which will be the last entry.                 *)
LEMMA GetExpects ==
  ASSUME NEW t, NEW r \in Seq(StepNames), NEW x \in {"request", "autoRequest"},
         CanRequest(Expect(t, r)), x = "autoRequest" => Expect(t, r).suspends = "no"
  PROVE  LET e == Expect(t, r)
             d == Expect(t, GetDebugger(x) \o r)
         IN  /\ GetDebugger(x) \o r \in Seq(StepNames)
             /\ Like(d, e, -1, 0, 0)
             /\ d.requests = e.requests /\ d.locks = e.locks
<1> DEFINE e == Expect(t, r)
<1>1. CanRequest(e) /\ (x = "autoRequest" => e.suspends = "no")
  OBVIOUS
<1> HIDE DEF e
<1>2. Fits(t, "dunlock", e)
  BY <1>1 DEF Fits, StepNames, IsBefore, Good, Ready, CanRequest
<1>3. PICK d4 : /\ d4 = Before(t, "dunlock", e) /\ d4.fit = "yes"
                /\ IsBefore(d4, t, "dunlock", e)
  BY <1>2, BeforeFields
<1>4. Fits(t, x, d4)
  BY <1>1, <1>3 DEF Fits, StepNames, IsBefore, Good, Ready, CanRequest
<1>5. PICK d3 : d3 = Before(t, x, d4) /\ d3.fit = "yes" /\ IsBefore(d3, t, x, d4)
  BY <1>4, BeforeFields
<1>6. Fits(t, "dlock", d3)
  BY <1>1, <1>3, <1>5 DEF Fits, StepNames, IsBefore, Good, Ready, CanRequest
<1>7. PICK d2 : /\ d2 = Before(t, "dlock", d3) /\ d2.fit = "yes"
                /\ IsBefore(d2, t, "dlock", d3)
  BY <1>6, BeforeFields
<1>8. Fits(t, "test", d2)
  BY <1>1, <1>3, <1>5, <1>7 DEF Fits, StepNames, IsBefore, Good, Ready, CanRequest
<1>9. PICK d1 : d1 = Before(t, "test", d2) /\ d1.fit = "yes" /\ IsBefore(d1, t, "test", d2)
  BY <1>8, BeforeFields
<1>10. /\ "test" \in StepNames /\ "dlock" \in StepNames /\ x \in StepNames
       /\ "dunlock" \in StepNames
  BY DEF StepNames
<1>11. /\ Expect(t, <<"test", "dlock", x, "dunlock">> \o r)
         = Before(t, "test", Before(t, "dlock", Before(t, x, Before(t, "dunlock", Expect(t, r)))))
      /\ <<"test", "dlock", x, "dunlock">> \o r \in Seq(StepNames)
  BY <1>10, Expect4
<1>12. d1 = Expect(t, GetDebugger(x) \o r) /\ GetDebugger(x) \o r \in Seq(StepNames)
  BY <1>3, <1>5, <1>7, <1>9, <1>11 DEF GetDebugger, e
<1>13. Good(d1)
  BY <1>12, <1>9, ExpectGood
<1>14. Like(d1, e, -1, 0, 0)
  <2>1. /\ d1.h = e.h + (-1) /\ d1.k = e.k + 0 /\ d1.b = e.b + 0
        /\ d1.suspends = e.suspends
    <3>1. e.h \in Nat /\ e.k \in Nat /\ e.b \in Nat
      BY <1>1 DEF Good, CanRequest
    <3>2. d4.h = e.h /\ d4.k = e.k + 1 /\ d4.b = e.b /\ d4.suspends = e.suspends
      BY <1>3 DEF IsBefore
    <3>3. d3.h = d4.h - 1 /\ d3.k = d4.k /\ d3.b = d4.b /\ d3.suspends = d4.suspends
      BY <1>5 DEF IsBefore
    <3>4. d2.h = d3.h /\ d2.k = d3.k - 1 /\ d2.b = d3.b /\ d2.suspends = d3.suspends
      BY <1>7 DEF IsBefore
    <3>5. d1.h = d2.h /\ d1.k = d2.k /\ d1.b = d2.b /\ d1.suspends = d2.suspends
      BY <1>9 DEF IsBefore
    <3> QED
      BY <3>1, <3>2, <3>3, <3>4, <3>5
  <2>2. d1.fit = "yes" /\ d1.last = "used" /\ d1.first = "test"
    BY <1>9 DEF IsBefore
  <2> QED
    BY <1>13, <2>1, <2>2 DEF Like, Near
<1>15. d1.requests = e.requests /\ d1.locks = e.locks
  BY <1>1, <1>13, <1>3, <1>5, <1>7, <1>9 DEF IsBefore, Like, Near, Good, Ready, CanRequest
<1> QED
  BY <1>12, <1>14, <1>15 DEF e

(* A break, for the request that is the last entry.                        *)
LEMMA BreakExpects ==
  ASSUME NEW t, NEW r \in Seq(StepNames),
         Ready(Expect(t, r)), Expect(t, r).h >= 1, Expect(t, r).h \notin Expect(t, r).locks
  PROVE  LET e == Expect(t, r)
             d == Expect(t, BreakHelper \o r)
         IN  /\ BreakHelper \o r \in Seq(StepNames)
             /\ Good(d) /\ d.fit = "yes" /\ d.h = e.h /\ d.k = e.k /\ d.b = e.b
             /\ d.suspends = e.suspends
             /\ d.last = "real" /\ d.first = "break" /\ d.requests = e.requests
             /\ d.locks = e.locks
<1> DEFINE e == Expect(t, r)
<1>1. Ready(e) /\ e.h >= 1 /\ e.h \notin e.locks
  OBVIOUS
<1> HIDE DEF e
<1>2. Fits(t, "stopped", e)
  BY <1>1 DEF Fits, StepNames, IsBefore, Good, Ready
<1>3. PICK d2 : /\ d2 = Before(t, "stopped", e) /\ d2.fit = "yes"
                /\ IsBefore(d2, t, "stopped", e)
  BY <1>2, BeforeFields
<1>4. Fits(t, "break", d2)
  BY <1>1, <1>3 DEF Fits, StepNames, IsBefore, Good, Ready
<1>5. PICK d1 : /\ d1 = Before(t, "break", d2) /\ d1.fit = "yes"
                /\ IsBefore(d1, t, "break", d2)
  BY <1>4, BeforeFields
<1>6. "break" \in StepNames /\ "stopped" \in StepNames
  BY DEF StepNames
<1>7. /\ Expect(t, <<"break", "stopped">> \o r)
         = Before(t, "break", Before(t, "stopped", Expect(t, r)))
      /\ <<"break", "stopped">> \o r \in Seq(StepNames)
  BY <1>6, Expect2
<1>8. d1 = Expect(t, BreakHelper \o r) /\ BreakHelper \o r \in Seq(StepNames)
  BY <1>3, <1>5, <1>7 DEF BreakHelper, e
<1>9. Good(d1)
  BY <1>8, <1>5, ExpectGood
<1>10. /\ Good(d1) /\ d1.fit = "yes" /\ d1.h = e.h /\ d1.k = e.k /\ d1.b = e.b
       /\ d1.suspends = e.suspends
  BY <1>1, <1>9, <1>3, <1>5 DEF IsBefore, Like, Near, Good, Ready
<1>11. /\ d1.last = "real" /\ d1.first = "break" /\ d1.requests = e.requests
       /\ d1.locks = e.locks
  BY <1>1, <1>9, <1>3, <1>5 DEF IsBefore, Like, Near, Good, Ready
<1> QED
  BY <1>8, <1>10, <1>11 DEF e

(* The run lock.                                                           *)
LEMMA LockExpects ==
  ASSUME NEW t, NEW r \in Seq(StepNames),
         Ready(Expect(t, r)), Expect(t, r).h >= 1
  PROVE  LET e == Expect(t, r)
             d == Expect(t, Lock \o r)
         IN  /\ Lock \o r \in Seq(StepNames)
             /\ Like(d, e, -1, 0, 0)
             /\ d.requests = e.requests /\ d.locks = e.locks \ {e.h}
<1> DEFINE e == Expect(t, r)
<1>1. Ready(e) /\ e.h >= 1
  OBVIOUS
<1> HIDE DEF e
<1>2. Fits(t, "take", e)
  BY <1>1 DEF Fits, StepNames, IsBefore, Good, Ready
<1>3. PICK d2 : d2 = Before(t, "take", e) /\ d2.fit = "yes" /\ IsBefore(d2, t, "take", e)
  BY <1>2, BeforeFields
<1>4. Fits(t, "lock", d2)
  BY <1>1, <1>3 DEF Fits, StepNames, IsBefore, Good, Ready
<1>5. PICK d1 : d1 = Before(t, "lock", d2) /\ d1.fit = "yes" /\ IsBefore(d1, t, "lock", d2)
  BY <1>4, BeforeFields
<1>6. "lock" \in StepNames /\ "take" \in StepNames
  BY DEF StepNames
<1>7. /\ Expect(t, <<"lock", "take">> \o r)
         = Before(t, "lock", Before(t, "take", Expect(t, r)))
      /\ <<"lock", "take">> \o r \in Seq(StepNames)
  BY <1>6, Expect2
<1>8. d1 = Expect(t, Lock \o r) /\ Lock \o r \in Seq(StepNames)
  BY <1>3, <1>5, <1>7 DEF Lock, e
<1>9. Good(d1)
  BY <1>8, <1>5, ExpectGood
<1>10. Like(d1, e, -1, 0, 0)
  BY <1>1, <1>9, <1>3, <1>5 DEF IsBefore, Like, Near, Good, Ready
<1>11. d1.requests = e.requests /\ d1.locks = e.locks \ {e.h}
  BY <1>1, <1>9, <1>3, <1>5 DEF IsBefore, Like, Near, Good, Ready
<1> QED
  BY <1>8, <1>10, <1>11 DEF e

(* A change of debugger, on the emulation thread and on others.            *)
LEMMA ResetEmuExpects ==
  ASSUME NEW t, NEW r \in Seq(StepNames), NEW x \in {"unset", "new"}, t = Emu,
         Ready(Expect(t, r)), Expect(t, r).b >= 1, Expect(t, r).suspends = "no"
  PROVE  LET e == Expect(t, r)
             d == Expect(t, ResetDebugger(t, x) \o r)
         IN  /\ ResetDebugger(t, x) \o r \in Seq(StepNames)
             /\ Near(d, e, 0, 0, 0) /\ d.suspends = "will"
             /\ d.requests = "none"
             /\ d.locks = e.locks
<1> DEFINE e == Expect(t, r)
<1>1. Ready(e) /\ e.b >= 1 /\ e.suspends = "no"
  OBVIOUS
<1> HIDE DEF e
<1>2. Fits(t, x, e)
  BY <1>1 DEF Fits, StepNames, IsBefore, Good, Ready
<1>3. PICK d2 : d2 = Before(t, x, e) /\ d2.fit = "yes" /\ IsBefore(d2, t, x, e)
  BY <1>2, BeforeFields
<1>4. Fits(t, "suspend", d2)
  BY <1>1, <1>3 DEF Fits, StepNames, IsBefore, Good, Ready
<1>5. PICK d1 : /\ d1 = Before(t, "suspend", d2) /\ d1.fit = "yes"
                /\ IsBefore(d1, t, "suspend", d2)
  BY <1>4, BeforeFields
<1>6. "suspend" \in StepNames /\ x \in StepNames
  BY DEF StepNames
<1>7. /\ Expect(t, <<"suspend", x>> \o r)
         = Before(t, "suspend", Before(t, x, Expect(t, r)))
      /\ <<"suspend", x>> \o r \in Seq(StepNames)
  BY <1>6, Expect2
<1>8. /\ d1 = Expect(t, ResetDebugger(t, x) \o r)
      /\ ResetDebugger(t, x) \o r \in Seq(StepNames)
  BY <1>3, <1>5, <1>7 DEF ResetDebugger, e
<1>9. Good(d1)
  BY <1>8, <1>5, ExpectGood
<1>10. Near(d1, e, 0, 0, 0) /\ d1.suspends = "will"
  BY <1>1, <1>9, <1>3, <1>5 DEF IsBefore, Like, Near, Good, Ready
<1>11. d1.requests = "none"
  BY <1>1, <1>9, <1>3, <1>5 DEF IsBefore, Like, Near, Good, Ready
<1>12. d1.locks = e.locks
  BY <1>1, <1>9, <1>3, <1>5 DEF IsBefore, Like, Near, Good, Ready
<1> QED
  BY <1>8, <1>10, <1>11, <1>12 DEF e

(* ResetDebugger on another thread, which needs the run lock for it.       *)
LEMMA ResetUserExpects ==
  ASSUME NEW t, NEW r \in Seq(StepNames), NEW x \in {"unset", "new"}, t # Emu,
         Ready(Expect(t, r)), Expect(t, r).b >= 1, Expect(t, r).suspends = "no"
  PROVE  LET e == Expect(t, r)
             d == Expect(t, ResetDebugger(t, x) \o r)
         IN  /\ ResetDebugger(t, x) \o r \in Seq(StepNames)
             /\ Near(d, e, 0, 0, 0) /\ d.suspends = "will"
             /\ d.requests = "none"
             /\ d.locks = e.locks
<1> DEFINE e == Expect(t, r)
<1>1. Ready(e) /\ e.b >= 1 /\ e.suspends = "no"
  OBVIOUS
<1> HIDE DEF e
<1>2. Fits(t, "release", e)
  BY <1>1 DEF Fits, StepNames, IsBefore, Good, Ready
<1>3. PICK d4 : /\ d4 = Before(t, "release", e) /\ d4.fit = "yes"
                /\ IsBefore(d4, t, "release", e)
  BY <1>2, BeforeFields
<1>4. Fits(t, x, d4)
  BY <1>1, <1>3 DEF Fits, StepNames, IsBefore, Good, Ready
<1>5. PICK d3 : d3 = Before(t, x, d4) /\ d3.fit = "yes" /\ IsBefore(d3, t, x, d4)
  BY <1>4, BeforeFields
<1>6. Fits(t, "acquire", d3)
  BY <1>1, <1>3, <1>5 DEF Fits, StepNames, IsBefore, Good, Ready
<1>7. PICK d2 : /\ d2 = Before(t, "acquire", d3) /\ d2.fit = "yes"
                /\ IsBefore(d2, t, "acquire", d3)
  BY <1>6, BeforeFields
<1>8. Fits(t, "suspend", d2)
  BY <1>1, <1>3, <1>5, <1>7 DEF Fits, StepNames, IsBefore, Good, Ready
<1>9. PICK d1 : /\ d1 = Before(t, "suspend", d2) /\ d1.fit = "yes"
                /\ IsBefore(d1, t, "suspend", d2)
  BY <1>8, BeforeFields
<1>10. /\ "suspend" \in StepNames /\ "acquire" \in StepNames /\ x \in StepNames
       /\ "release" \in StepNames
  BY DEF StepNames
<1>11. /\ Expect(t, <<"suspend", "acquire", x, "release">> \o r)
         = Before(t, "suspend", Before(t, "acquire", Before(t, x, Before(t, "release", Expect(t, r)))))
      /\ <<"suspend", "acquire", x, "release">> \o r \in Seq(StepNames)
  BY <1>10, Expect4
<1>12. /\ d1 = Expect(t, ResetDebugger(t, x) \o r)
       /\ ResetDebugger(t, x) \o r \in Seq(StepNames)
  BY <1>3, <1>5, <1>7, <1>9, <1>11 DEF ResetDebugger, e
<1>13. Good(d1)
  BY <1>12, <1>9, ExpectGood
<1>14. Near(d1, e, 0, 0, 0) /\ d1.suspends = "will"
  BY <1>1, <1>13, <1>3, <1>5, <1>7, <1>9, SMTT(30) DEF IsBefore, Like, Near, Good, Ready
<1>15. d1.requests = "none"
  BY <1>1, <1>13, <1>3, <1>5, <1>7, <1>9 DEF IsBefore, Like, Near, Good, Ready
<1>16. d1.locks = e.locks
  <2>1. e.h + 1 \notin e.locks
    BY <1>1 DEF Good, Ready
  <2>2. d1.locks = (e.locks \cup {e.h + 1}) \ {e.h + 1}
    BY <1>1, <1>3, <1>5, <1>7, <1>9, SMTT(30) DEF IsBefore, Good, Ready
  <2> QED
    BY <2>1, <2>2
<1> QED
  BY <1>12, <1>14, <1>15, <1>16 DEF e


(* The parts of a call, one after the other.                               *)
LEMMA Joined ==
  ASSUME NEW a \in Seq(StepNames), NEW b \in Seq(StepNames)
  PROVE  a \o b \in Seq(StepNames)
  BY ConcatProperties

Regroups(a, b, r) == (a \o b) \o r = a \o (b \o r)

(* Sequences of steps are joined in any grouping: two in front of the      *)
(* rest,                                                                   *)
LEMMA Joined2 ==
  ASSUME NEW a \in Seq(StepNames), NEW b \in Seq(StepNames), NEW r \in Seq(StepNames)
  PROVE  Regroups(a, b, r)
  BY ConcatAssociative DEF Regroups

Regroups3(a, b, c, r) == (a \o b \o c) \o r = a \o (b \o (c \o r))

(* three in front of the rest,                                             *)
LEMMA Joined3 ==
  ASSUME NEW a \in Seq(StepNames), NEW b \in Seq(StepNames), NEW c \in Seq(StepNames),
         NEW r \in Seq(StepNames)
  PROVE  Regroups3(a, b, c, r)
<1>1. PICK p \in Seq(StepNames) : p = a \o b
  BY Joined
<1>2. PICK q \in Seq(StepNames) : q = c \o r
  BY Joined
<1>3. Regroups(p, c, r) /\ Regroups(a, b, q)
  BY Joined2
<1> QED
  BY <1>1, <1>2, <1>3 DEF Regroups, Regroups3

Regroups4(a, b, c, d, r) == (a \o b \o c \o d) \o r = a \o (b \o (c \o (d \o r)))

(* and four in front of the rest.                                          *)
LEMMA Joined4 ==
  ASSUME NEW a \in Seq(StepNames), NEW b \in Seq(StepNames), NEW c \in Seq(StepNames),
         NEW d \in Seq(StepNames), NEW r \in Seq(StepNames)
  PROVE  Regroups4(a, b, c, d, r)
<1>1. PICK p \in Seq(StepNames) : p = a \o b
  BY Joined
<1>2. PICK q \in Seq(StepNames) : q = d \o r
  BY Joined
<1>3. PICK s \in Seq(StepNames) : s = c \o q
  BY Joined
<1>4. Regroups3(p, c, d, r) /\ Regroups(a, b, s)
  BY Joined2, Joined3
<1> QED
  BY <1>1, <1>2, <1>3, <1>4 DEF Regroups, Regroups3, Regroups4

(* Nothing, before some steps.                                             *)
LEMMA JoinNothing ==
  ASSUME NEW r \in Seq(StepNames)
  PROVE  <<>> \o r = r /\ r \o <<>> = r /\ <<>> \in Seq(StepNames)
  OBVIOUS

(* The parts that calls are made of are sequences of steps.                *)
LEMMA PartsTyped ==
  /\ Block \in Seq(StepNames) /\ InitDebugger \in Seq(StepNames)
  /\ BreakHelper \in Seq(StepNames) /\ Lock \in Seq(StepNames)
  /\ \A t : \A x \in {"unset", "new"} : ResetDebugger(t, x) \in Seq(StepNames)
  /\ \A x \in {"request", "autoRequest"} : GetDebugger(x) \in Seq(StepNames)
  /\ \A x \in StepNames : <<x>> \in Seq(StepNames)
<1>1. ASSUME NEW x \in StepNames, NEW y \in StepNames, NEW z \in StepNames, NEW w \in StepNames
      PROVE  /\ <<x>> \in Seq(StepNames) /\ <<x, y>> \in Seq(StepNames)
             /\ <<x, y, z, w>> \in Seq(StepNames)
  OBVIOUS
<1>2. /\ {"dlock", "dunlock", "raise", "drain", "ifNone", "create", "break", "stopped", "lock",
          "take", "suspend", "acquire", "unset", "new", "release", "test", "request",
          "autoRequest"} \subseteq StepNames
  BY DEF StepNames
<1>3. Block \in Seq(StepNames) /\ InitDebugger \in Seq(StepNames)
  BY <1>1, <1>2 DEF Block, InitDebugger
<1>4. BreakHelper \in Seq(StepNames) /\ Lock \in Seq(StepNames)
  BY <1>1, <1>2 DEF BreakHelper, Lock
<1>5. ASSUME NEW t, NEW x \in {"unset", "new"} PROVE ResetDebugger(t, x) \in Seq(StepNames)
  <2>1. x \in StepNames /\ <<"suspend", x>> \in Seq(StepNames)
    BY <1>1, <1>2
  <2>2. <<"suspend", "acquire", x, "release">> \in Seq(StepNames)
    BY <1>1, <1>2, <2>1
  <2> QED
    BY <2>1, <2>2 DEF ResetDebugger
<1>6. ASSUME NEW x \in {"request", "autoRequest"} PROVE GetDebugger(x) \in Seq(StepNames)
  BY <1>1, <1>2 DEF GetDebugger
<1>7. \A x \in StepNames : <<x>> \in Seq(StepNames)
  BY <1>1
<1> QED
  BY <1>3, <1>4, <1>5, <1>6, <1>7

(* ResetDebugger on any thread: the requests are drained before it.        *)
LEMMA ResetExpects ==
  ASSUME NEW t, NEW r \in Seq(StepNames), NEW x \in {"unset", "new"},
         Ready(Expect(t, r)), Expect(t, r).b >= 1, Expect(t, r).suspends = "no"
  PROVE  LET e == Expect(t, r)
             d == Expect(t, ResetDebugger(t, x) \o r)
         IN  /\ ResetDebugger(t, x) \o r \in Seq(StepNames)
             /\ Near(d, e, 0, 0, 0) /\ d.suspends = "will" /\ d.requests = "none" /\ d.locks = e.locks
<1>1. CASE t = Emu
  BY <1>1, ResetEmuExpects
<1>2. CASE t # Emu
  BY <1>2, ResetUserExpects
<1> QED
  BY <1>1, <1>2

(* After Like, Ready again.                                                *)
LEMMA LikeReady ==
  ASSUME NEW d, NEW e, NEW h, NEW k, NEW b, Like(d, e, h, k, b)
  PROVE  Ready(d)
  BY DEF Like, Near, Ready

LEMMA NearReady ==
  ASSUME NEW d, NEW e, NEW h, NEW k, NEW b, Near(d, e, h, k, b)
  PROVE  Ready(d)
  BY DEF Near, Ready

(* Without a difference, the numbers are the same.                         *)
LEMMA LikeSame ==
  ASSUME NEW d, NEW e, Like(d, e, 0, 0, 0), Ready(e)
  PROVE  /\ Ready(d) /\ d.h = e.h /\ d.k = e.k /\ d.b = e.b
         /\ d.suspends = e.suspends
  BY DEF Like, Near, Ready, Good

LEMMA NearSame ==
  ASSUME NEW d, NEW e, Near(d, e, 0, 0, 0), Ready(e)
  PROVE  Ready(d) /\ d.h = e.h /\ d.k = e.k /\ d.b = e.b
  BY DEF Near, Ready, Good

(* The debugger is replaced, with all requests blocked.                    *)
LEMMA UnblockExpects ==
  ASSUME NEW t, NEW r \in Seq(StepNames),
         Ready(Expect(t, r))
  PROVE  LET e == Expect(t, r)
             d == Expect(t, <<"unblock">> \o r)
         IN  /\ <<"unblock">> \o r \in Seq(StepNames)
             /\ Like(d, e, 0, 0, 1)
             /\ d.requests = e.requests /\ d.locks = e.locks
<1> DEFINE e == Expect(t, r)
<1>1. Ready(e)
  OBVIOUS
<1> HIDE DEF e
<1>2. Fits(t, "unblock", e)
  BY <1>1 DEF Fits, StepNames, IsBefore, Good, Ready
<1>3. PICK d1 : /\ d1 = Before(t, "unblock", e) /\ d1.fit = "yes"
                /\ IsBefore(d1, t, "unblock", e)
  BY <1>2, BeforeFields
<1>4. "unblock" \in StepNames
  BY DEF StepNames
<1>5. /\ Expect(t, <<"unblock">> \o r)
         = Before(t, "unblock", Expect(t, r))
      /\ <<"unblock">> \o r \in Seq(StepNames)
  BY <1>4, ExpectCons
<1>6. d1 = Expect(t, <<"unblock">> \o r) /\ <<"unblock">> \o r \in Seq(StepNames)
  BY <1>3, <1>5 DEF e
<1>7. Good(d1)
  BY <1>6, <1>3, ExpectGood
<1>8. Like(d1, e, 0, 0, 1)
  BY <1>1, <1>7, <1>3 DEF IsBefore, Like, Near, Good, Ready
<1>9. d1.requests = e.requests /\ d1.locks = e.locks
  BY <1>1, <1>7, <1>3 DEF IsBefore, Like, Near, Good, Ready
<1> QED
  BY <1>6, <1>8, <1>9 DEF e

(* Replace brings back everything that it takes.                           *)
LEMMA ReplaceExpects ==
  ASSUME NEW t, NEW r \in Seq(StepNames), NEW x \in {"unset", "new"},
         Ready(Expect(t, r)), Expect(t, r).suspends = "no"
  PROVE  LET e == Expect(t, r)
             d == Expect(t, Replace(t, x) \o r)
         IN  /\ Replace(t, x) \o r \in Seq(StepNames)
             /\ Like(d, e, 0, 0, 0) /\ d.requests = "any" /\ d.locks = e.locks
<1>1. PICK e : e = Expect(t, r) /\ Ready(e) /\ e.suspends = "no"
  OBVIOUS
<1>2. PICK q1 \in Seq(StepNames) : q1 = <<"unblock">> \o r
  BY UnblockExpects
<1>3. PICK e1 : e1 = Expect(t, q1) /\ Like(e1, e, 0, 0, 1) /\ e1.locks = e.locks
  BY <1>1, <1>2, UnblockExpects
<1>4. Ready(e1) /\ e1.b >= 1 /\ e1.suspends = "no"
  BY <1>1, <1>3, LikeReady DEF Like, Near, Ready, Good
<1>5. PICK q2 \in Seq(StepNames) : q2 = ResetDebugger(t, x) \o q1
  BY <1>3, <1>4, ResetExpects
<1>6. PICK e2 : /\ e2 = Expect(t, q2) /\ Near(e2, e1, 0, 0, 0) /\ e2.suspends = "will"
                /\ e2.locks = e1.locks
  BY <1>3, <1>4, <1>5, ResetExpects
<1>7. Ready(e2) /\ e2.b >= 1
  BY <1>4, <1>6, NearSame
<1>8. PICK q3 \in Seq(StepNames) : q3 = Block \o q2
  BY <1>6, <1>7, BlockExpects
<1>9. PICK d : /\ d = Expect(t, q3) /\ Near(d, e2, 0, 0, -1) /\ d.suspends = "no"
               /\ d.requests = "any" /\ d.locks = e2.locks
  BY <1>6, <1>7, <1>8, BlockExpects
<1>10. Replace(t, x) \o r = q3
  <2>1. PICK a, b, c \in Seq(StepNames) :
          a = Block /\ b = ResetDebugger(t, x) /\ c = <<"unblock">>
    BY PartsTyped DEF StepNames
  <2>2. Regroups3(a, b, c, r)
    BY Joined3
  <2> QED
    BY <1>2, <1>5, <1>8, <2>1, <2>2 DEF Replace, Regroups3
<1>11. Like(d, e, 0, 0, 0) /\ d.locks = e.locks
  <2>1. e.h \in Nat /\ e.k \in Nat /\ e.b \in Nat
    BY <1>1 DEF Ready, Good
  <2>2. e1.h = e.h + 0 /\ e1.k = e.k + 0 /\ e1.b = e.b + 1 /\ e1.suspends = e.suspends
    BY <1>3 DEF Like, Near
  <2>3. e2.h = e1.h /\ e2.k = e1.k /\ e2.b = e1.b
    BY <1>4, <1>6, NearSame
  <2>4. /\ d.h = e2.h + 0 /\ d.k = e2.k + 0 /\ d.b = e2.b + (-1)
        /\ Good(d) /\ d.fit = "yes" /\ d.last = "used"
        /\ d.first \notin {"take", "lower", "decrement"}
    BY <1>9 DEF Near
  <2>5. d.h = e.h + 0 /\ d.k = e.k + 0 /\ d.b = e.b + 0 /\ d.suspends = e.suspends
    BY <1>1, <1>9, <2>1, <2>2, <2>3, <2>4
  <2> QED
    BY <1>3, <1>6, <1>9, <2>4, <2>5 DEF Like, Near
<1> QED
  BY <1>1, <1>9, <1>10, <1>11

(* A stop, by a thread of the interface.                                   *)
LEMMA JoinExpects ==
  ASSUME NEW t, NEW r \in Seq(StepNames),
         Ready(Expect(t, r)), t # Emu
  PROVE  LET e == Expect(t, r)
             d == Expect(t, <<"join", "unblock">> \o r)
         IN  /\ <<"join", "unblock">> \o r \in Seq(StepNames)
             /\ Like(d, e, 0, 0, 1)
             /\ d.locks = e.locks
<1> DEFINE e == Expect(t, r)
<1>1. Ready(e)
  OBVIOUS
<1> HIDE DEF e
<1>2. Fits(t, "unblock", e)
  BY <1>1 DEF Fits, StepNames, IsBefore, Good, Ready
<1>3. PICK d2 : /\ d2 = Before(t, "unblock", e) /\ d2.fit = "yes"
                /\ IsBefore(d2, t, "unblock", e)
  BY <1>2, BeforeFields
<1>4. Fits(t, "join", d2)
  BY <1>1, <1>3 DEF Fits, StepNames, IsBefore, Good, Ready
<1>5. PICK d1 : d1 = Before(t, "join", d2) /\ d1.fit = "yes" /\ IsBefore(d1, t, "join", d2)
  BY <1>4, BeforeFields
<1>6. "join" \in StepNames /\ "unblock" \in StepNames
  BY DEF StepNames
<1>7. /\ Expect(t, <<"join", "unblock">> \o r)
         = Before(t, "join", Before(t, "unblock", Expect(t, r)))
      /\ <<"join", "unblock">> \o r \in Seq(StepNames)
  BY <1>6, Expect2
<1>8. /\ d1 = Expect(t, <<"join", "unblock">> \o r)
      /\ <<"join", "unblock">> \o r \in Seq(StepNames)
  BY <1>3, <1>5, <1>7 DEF e
<1>9. Good(d1)
  BY <1>8, <1>5, ExpectGood
<1>10. Like(d1, e, 0, 0, 1)
  BY <1>1, <1>9, <1>3, <1>5 DEF IsBefore, Like, Near, Good, Ready
<1>11. d1.locks = e.locks
  BY <1>1, <1>9, <1>3, <1>5 DEF IsBefore, Like, Near, Good, Ready
<1> QED
  BY <1>8, <1>10, <1>11 DEF e

(* The stop flag is set by a thread other than the emulation thread.       *)
LEMMA StopFlagExpects ==
  ASSUME NEW t, NEW r \in Seq(StepNames),
         Ready(Expect(t, r)), t # Emu
  PROVE  LET e == Expect(t, r)
             d == Expect(t, <<"stopFlag">> \o r)
         IN  /\ <<"stopFlag">> \o r \in Seq(StepNames)
             /\ Like(d, e, 0, 0, 0)
             /\ d.locks = e.locks
<1> DEFINE e == Expect(t, r)
<1>1. Ready(e)
  OBVIOUS
<1> HIDE DEF e
<1>2. Fits(t, "stopFlag", e)
  BY <1>1 DEF Fits, StepNames, IsBefore, Good, Ready
<1>3. PICK d1 : /\ d1 = Before(t, "stopFlag", e) /\ d1.fit = "yes"
                /\ IsBefore(d1, t, "stopFlag", e)
  BY <1>2, BeforeFields
<1>4. "stopFlag" \in StepNames
  BY DEF StepNames
<1>5. /\ Expect(t, <<"stopFlag">> \o r)
         = Before(t, "stopFlag", Expect(t, r))
      /\ <<"stopFlag">> \o r \in Seq(StepNames)
  BY <1>4, ExpectCons
<1>6. d1 = Expect(t, <<"stopFlag">> \o r) /\ <<"stopFlag">> \o r \in Seq(StepNames)
  BY <1>3, <1>5 DEF e
<1>7. Good(d1)
  BY <1>6, <1>3, ExpectGood
<1>8. Like(d1, e, 0, 0, 0)
  BY <1>1, <1>7, <1>3 DEF IsBefore, Like, Near, Good, Ready
<1>9. d1.locks = e.locks
  BY <1>1, <1>7, <1>3 DEF IsBefore, Like, Near, Good, Ready
<1> QED
  BY <1>6, <1>8, <1>9 DEF e

(* Stop brings back everything that it takes.                              *)
LEMMA StopExpects ==
  ASSUME NEW t, NEW r \in Seq(StepNames), t # Emu,
         Ready(Expect(t, r)), Expect(t, r).suspends = "no"
  PROVE  LET e == Expect(t, r)
             d == Expect(t, Stop(t) \o r)
         IN  /\ Stop(t) \o r \in Seq(StepNames) /\ Stop(t) \in Seq(StepNames)
             /\ Like(d, e, 0, 0, 0) /\ d.requests = "any" /\ d.locks = e.locks
<1>1. PICK e : e = Expect(t, r) /\ Ready(e) /\ e.suspends = "no"
  OBVIOUS
<1>2. PICK q1 \in Seq(StepNames) : q1 = <<"join", "unblock">> \o r
  BY JoinExpects
<1>3. PICK e1 : e1 = Expect(t, q1) /\ Like(e1, e, 0, 0, 1) /\ e1.locks = e.locks
  BY <1>1, <1>2, JoinExpects
<1>4. Ready(e1) /\ e1.b >= 1 /\ e1.suspends = "no"
  BY <1>1, <1>3, LikeReady DEF Like, Near, Ready, Good
<1>5. PICK q2 \in Seq(StepNames) : q2 = ResetDebugger(t, "unset") \o q1
  BY <1>3, <1>4, ResetExpects
<1>6. PICK e2 : /\ e2 = Expect(t, q2) /\ Near(e2, e1, 0, 0, 0) /\ e2.suspends = "will"
                /\ e2.locks = e1.locks
  BY <1>3, <1>4, <1>5, ResetExpects
<1>7. Ready(e2) /\ e2.b >= 1
  BY <1>4, <1>6, NearSame
<1>8. PICK q3 \in Seq(StepNames) : q3 = <<"stopFlag">> \o q2
  BY <1>6, <1>7, StopFlagExpects
<1>9. PICK e3 : e3 = Expect(t, q3) /\ Like(e3, e2, 0, 0, 0) /\ e3.locks = e2.locks
  BY <1>6, <1>7, <1>8, StopFlagExpects
<1>10. Ready(e3) /\ e3.b >= 1 /\ e3.suspends = "will"
  BY <1>6, <1>7, <1>9, LikeSame
<1>11. PICK q4 \in Seq(StepNames) : q4 = Block \o q3
  BY <1>9, <1>10, BlockExpects
<1>12. PICK d : /\ d = Expect(t, q4) /\ Near(d, e3, 0, 0, -1) /\ d.suspends = "no"
                /\ d.requests = "any" /\ d.locks = e3.locks
  BY <1>9, <1>10, <1>11, BlockExpects
<1>13. Stop(t) \o r = q4 /\ Stop(t) \in Seq(StepNames)
  <2>1. "stopFlag" \in StepNames /\ "join" \in StepNames /\ "unblock" \in StepNames
    BY DEF StepNames
  <2>2. PICK a, b, c \in Seq(StepNames) :
          a = Block /\ b = <<"stopFlag">> /\ c = ResetDebugger(t, "unset")
    BY <2>1, PartsTyped
  <2>3. PICK g \in Seq(StepNames) : g = <<"join", "unblock">>
    BY <2>1, Pair
  <2>4. Regroups4(a, b, c, g, r)
    BY Joined4
  <2>5. PICK a1 \in Seq(StepNames) : a1 = a \o b
    BY Joined
  <2>6. PICK a2 \in Seq(StepNames) : a2 = a1 \o c
    BY Joined
  <2>7. a \o b \o c \o g \in Seq(StepNames)
    BY <2>5, <2>6, Joined
  <2> QED
    BY <1>2, <1>5, <1>8, <1>11, <2>2, <2>3, <2>4, <2>7 DEF Stop, Regroups4
<1>14. Like(d, e, 0, 0, 0)
  <2>1. Near(e2, e, 0, 0, 1)
    BY <1>1, <1>3, <1>6 DEF Like, Near, Ready, Good
  <2>2. Near(e3, e, 0, 0, 1)
    BY <1>1, <1>9, <2>1 DEF Like, Near, Ready, Good
  <2>3. /\ d.h = e3.h + 0 /\ d.k = e3.k + 0 /\ d.b = e3.b - 1
        /\ Good(d) /\ d.fit = "yes" /\ d.last = "used"
        /\ d.first \notin {"take", "lower", "decrement"}
        /\ d.suspends = e.suspends
    BY <1>1, <1>12 DEF Near
  <2>4. /\ e3.h = e.h + 0 /\ e3.k = e.k + 0 /\ e3.b = e.b + 1
        /\ e.h \in Nat /\ e.k \in Nat /\ e.b \in Nat
    BY <1>1, <2>2 DEF Near, Ready, Good
  <2> QED
    BY <2>3, <2>4 DEF Like, Near
<1>15. d.locks = e.locks
  BY <1>3, <1>6, <1>9, <1>12
<1> QED
  BY <1>1, <1>12, <1>13, <1>14, <1>15

-----------------------------------------------------------------------------
(* A call of the debugging tools: the request, and what comes after it.    *)
LEMMA ToolUseExpects ==
  ASSUME NEW t, NEW r \in Seq(StepNames),
         Ready(Expect(t, r))
  PROVE  LET e == Expect(t, r)
             d == Expect(t, <<"toolBreak", "release">> \o r)
         IN  /\ <<"toolBreak", "release">> \o r \in Seq(StepNames)
             /\ CanRequest(d) /\ d.h = e.h + 1 /\ d.k = e.k /\ d.b = e.b
             /\ d.suspends = e.suspends /\ d.requests = e.requests /\ d.locks = e.locks
<1> DEFINE e == Expect(t, r)
<1>1. Ready(e)
  OBVIOUS
<1> HIDE DEF e
<1>2. Fits(t, "release", e)
  BY <1>1 DEF Fits, StepNames, IsBefore, Good, Ready
<1>3. PICK d2 : /\ d2 = Before(t, "release", e) /\ d2.fit = "yes"
                /\ IsBefore(d2, t, "release", e)
  BY <1>2, BeforeFields
<1>4. Fits(t, "toolBreak", d2)
  BY <1>1, <1>3 DEF Fits, StepNames, IsBefore, Good, Ready
<1>5. PICK d1 : /\ d1 = Before(t, "toolBreak", d2) /\ d1.fit = "yes"
                /\ IsBefore(d1, t, "toolBreak", d2)
  BY <1>4, BeforeFields
<1>6. "toolBreak" \in StepNames /\ "release" \in StepNames
  BY DEF StepNames
<1>7. /\ Expect(t, <<"toolBreak", "release">> \o r)
         = Before(t, "toolBreak", Before(t, "release", Expect(t, r)))
      /\ <<"toolBreak", "release">> \o r \in Seq(StepNames)
  BY <1>6, Expect2
<1>8. /\ d1 = Expect(t, <<"toolBreak", "release">> \o r)
      /\ <<"toolBreak", "release">> \o r \in Seq(StepNames)
  BY <1>3, <1>5, <1>7 DEF e
<1>9. Good(d1)
  BY <1>8, <1>5, ExpectGood
<1>10. CanRequest(d1) /\ d1.h = e.h + 1 /\ d1.k = e.k /\ d1.b = e.b
  BY <1>1, <1>9, <1>3, <1>5 DEF IsBefore, Like, Near, Good, Ready, CanRequest
<1>11. d1.suspends = e.suspends /\ d1.requests = e.requests /\ d1.locks = e.locks
  BY <1>1, <1>9, <1>3, <1>5 DEF IsBefore, Like, Near, Good, Ready, CanRequest
<1> QED
  BY <1>8, <1>10, <1>11 DEF e

(* A tool brings back everything that it takes.                            *)
LEMMA ToolExpects ==
  ASSUME NEW t, NEW r \in Seq(StepNames), Ready(Expect(t, r)), Expect(t, r).suspends = "no"
  PROVE  LET e == Expect(t, r)
             d == Expect(t, Steps(t, "tool") \o r)
         IN  /\ Steps(t, "tool") \o r \in Seq(StepNames)
             /\ Like(d, e, 0, 0, 0) /\ d.requests = e.requests /\ d.locks = e.locks
<1>1. PICK e : e = Expect(t, r) /\ Ready(e) /\ e.suspends = "no"
  OBVIOUS
<1>2. PICK q1 \in Seq(StepNames) : q1 = <<"toolBreak", "release">> \o r
  BY ToolUseExpects
<1>3. PICK e1 : /\ e1 = Expect(t, q1) /\ CanRequest(e1)
                /\ e1.h = e.h + 1 /\ e1.k = e.k /\ e1.b = e.b
                /\ e1.suspends = e.suspends /\ e1.requests = e.requests
                /\ e1.locks = e.locks
  BY <1>1, <1>2, ToolUseExpects
<1>4. PICK q2 \in Seq(StepNames) : q2 = GetDebugger("autoRequest") \o q1
  BY <1>1, <1>3, GetExpects
<1>5. PICK d : /\ d = Expect(t, q2) /\ Like(d, e1, -1, 0, 0)
               /\ d.requests = e1.requests /\ d.locks = e1.locks
  BY <1>1, <1>3, <1>4, GetExpects
<1>6. Like(d, e, 0, 0, 0)
  BY <1>1, <1>3, <1>5 DEF Like, Near, Ready, Good
<1>7. Steps(t, "tool") \o r = q2
  <2>1. PICK a \in Seq(StepNames) : a = GetDebugger("autoRequest")
    BY PartsTyped
  <2>2. PICK b \in Seq(StepNames) : b = <<"toolBreak", "release">>
    <3>1. "toolBreak" \in StepNames /\ "release" \in StepNames
      BY DEF StepNames
    <3> QED
      BY <3>1, Pair
  <2>3. Regroups(a, b, r)
    BY Joined2
  <2>4. Steps(t, "tool") = a \o b
    BY <2>1, <2>2 DEF Steps
  <2> QED
    BY <1>2, <1>4, <2>1, <2>2, <2>3, <2>4 DEF Regroups
<1> QED
  BY <1>1, <1>3, <1>5, <1>6, <1>7

(* An EmulatorLock, and one within another.                                *)
LEMMA StateExpects ==
  ASSUME NEW t, NEW r \in Seq(StepNames),
         Ready(Expect(t, r))
  PROVE  LET e == Expect(t, r)
             d == Expect(t, <<"acquire", "release">> \o r)
         IN  /\ <<"acquire", "release">> \o r \in Seq(StepNames)
             /\ Like(d, e, 0, 0, 0)
<1> DEFINE e == Expect(t, r)
<1>1. Ready(e)
  OBVIOUS
<1> HIDE DEF e
<1>2. Fits(t, "release", e)
  BY <1>1 DEF Fits, StepNames, IsBefore, Good, Ready
<1>3. PICK d2 : /\ d2 = Before(t, "release", e) /\ d2.fit = "yes"
                /\ IsBefore(d2, t, "release", e)
  BY <1>2, BeforeFields
<1>4. Fits(t, "acquire", d2)
  BY <1>1, <1>3 DEF Fits, StepNames, IsBefore, Good, Ready
<1>5. PICK d1 : /\ d1 = Before(t, "acquire", d2) /\ d1.fit = "yes"
                /\ IsBefore(d1, t, "acquire", d2)
  BY <1>4, BeforeFields
<1>6. "acquire" \in StepNames /\ "release" \in StepNames
  BY DEF StepNames
<1>7. /\ Expect(t, <<"acquire", "release">> \o r)
         = Before(t, "acquire", Before(t, "release", Expect(t, r)))
      /\ <<"acquire", "release">> \o r \in Seq(StepNames)
  BY <1>6, Expect2
<1>8. /\ d1 = Expect(t, <<"acquire", "release">> \o r)
      /\ <<"acquire", "release">> \o r \in Seq(StepNames)
  BY <1>3, <1>5, <1>7 DEF e
<1>9. Good(d1)
  BY <1>8, <1>5, ExpectGood
<1>10. Like(d1, e, 0, 0, 0)
  BY <1>1, <1>9, <1>3, <1>5 DEF IsBefore, Like, Near, Good, Ready
<1> QED
  BY <1>8, <1>10 DEF e

(* So does an AcquireLock within another.                                  *)
LEMMA NestedExpects ==
  ASSUME NEW t, NEW r \in Seq(StepNames),
         Ready(Expect(t, r))
  PROVE  LET e == Expect(t, r)
             d == Expect(t, <<"acquire", "acquire", "release", "release">> \o r)
         IN  /\ <<"acquire", "acquire", "release", "release">> \o r \in Seq(StepNames)
             /\ Like(d, e, 0, 0, 0)
<1> DEFINE e == Expect(t, r)
<1>1. Ready(e)
  OBVIOUS
<1> HIDE DEF e
<1>2. Fits(t, "release", e)
  BY <1>1 DEF Fits, StepNames, IsBefore, Good, Ready
<1>3. PICK d4 : /\ d4 = Before(t, "release", e) /\ d4.fit = "yes"
                /\ IsBefore(d4, t, "release", e)
  BY <1>2, BeforeFields
<1>4. Fits(t, "release", d4)
  BY <1>1, <1>3 DEF Fits, StepNames, IsBefore, Good, Ready
<1>5. PICK d3 : /\ d3 = Before(t, "release", d4) /\ d3.fit = "yes"
                /\ IsBefore(d3, t, "release", d4)
  BY <1>4, BeforeFields
<1>6. Fits(t, "acquire", d3)
  BY <1>1, <1>3, <1>5 DEF Fits, StepNames, IsBefore, Good, Ready
<1>7. PICK d2 : /\ d2 = Before(t, "acquire", d3) /\ d2.fit = "yes"
                /\ IsBefore(d2, t, "acquire", d3)
  BY <1>6, BeforeFields
<1>8. Fits(t, "acquire", d2)
  <2>1. d2.h = e.h + 1 /\ d2.locks \subseteq e.locks
    BY <1>1, <1>3, <1>5, <1>7 DEF IsBefore, Good, Ready
  <2>2. d2.h \notin d2.locks
    BY <1>1, <2>1 DEF Good, Ready
  <2>3. d2.first = "acquire" /\ d2.last = "used" /\ d2.h >= 1
    BY <1>1, <1>7, <2>1 DEF IsBefore, Good, Ready
  <2> QED
    BY <1>7, <2>2, <2>3 DEF Fits, StepNames
<1>9. PICK d1 : /\ d1 = Before(t, "acquire", d2) /\ d1.fit = "yes"
                /\ IsBefore(d1, t, "acquire", d2)
  BY <1>8, BeforeFields
<1>10. "acquire" \in StepNames /\ "release" \in StepNames
  BY DEF StepNames
<1>11. /\ Expect(t, <<"acquire", "acquire", "release", "release">> \o r)
         = Before(t, "acquire", Before(t, "acquire", Before(t, "release", Before(t, "release", Expect(t, r)))))
      /\ <<"acquire", "acquire", "release", "release">> \o r \in Seq(StepNames)
  BY <1>10, Expect4
<1>12. /\ d1 = Expect(t, <<"acquire", "acquire", "release", "release">> \o r)
       /\ <<"acquire", "acquire", "release", "release">> \o r \in Seq(StepNames)
  BY <1>3, <1>5, <1>7, <1>9, <1>11 DEF e
<1>13. Good(d1)
  BY <1>12, <1>9, ExpectGood
<1>14. Like(d1, e, 0, 0, 0)
  <2>1. d3.h = e.h + 2 /\ d3.k = e.k /\ d3.b = e.b /\ d3.suspends = e.suspends
    BY <1>1, <1>3, <1>5 DEF IsBefore, Good, Ready
  <2>2. d1.h = e.h /\ d1.k = e.k /\ d1.b = e.b /\ d1.suspends = e.suspends
    BY <1>1, <1>7, <1>9, <2>1 DEF IsBefore, Good, Ready
  <2> QED
    BY <1>1, <1>13, <1>9, <2>2 DEF Like, Near, IsBefore, Good, Ready
<1> QED
  BY <1>12, <1>14 DEF e

(* A load, up to its outcome.                                              *)
LEMMA OutcomeExpects ==
  ASSUME NEW t, NEW r \in Seq(StepNames),
         Ready(Expect(t, r)), Expect(t, r).suspends = "no"
  PROVE  LET e == Expect(t, r)
             d == Expect(t, <<"outcome">> \o r)
         IN  /\ <<"outcome">> \o r \in Seq(StepNames)
             /\ Like(d, e, 1, 1, 1)
             /\ d.requests = "none" /\ (t = Emu => d.locks = e.locks)
             /\ t # Emu => d.locks = e.locks \cup {e.h + 1}
<1> DEFINE e == Expect(t, r)
<1>1. Ready(e) /\ e.suspends = "no"
  OBVIOUS
<1> HIDE DEF e
<1>2. Fits(t, "outcome", e)
  BY <1>1 DEF Fits, StepNames, IsBefore, Good, Ready
<1>3. PICK d1 : /\ d1 = Before(t, "outcome", e) /\ d1.fit = "yes"
                /\ IsBefore(d1, t, "outcome", e)
  BY <1>2, BeforeFields
<1>4. "outcome" \in StepNames
  BY DEF StepNames
<1>5. /\ Expect(t, <<"outcome">> \o r)
         = Before(t, "outcome", Expect(t, r))
      /\ <<"outcome">> \o r \in Seq(StepNames)
  BY <1>4, ExpectCons
<1>6. d1 = Expect(t, <<"outcome">> \o r) /\ <<"outcome">> \o r \in Seq(StepNames)
  BY <1>3, <1>5 DEF e
<1>7. Good(d1)
  BY <1>6, <1>3, ExpectGood
<1>8. Like(d1, e, 1, 1, 1)
  BY <1>1, <1>7, <1>3 DEF IsBefore, Like, Near, Good, Ready
<1>9. d1.requests = "none" /\ (t = Emu => d1.locks = e.locks)
  BY <1>1, <1>7, <1>3 DEF IsBefore, Like, Near, Good, Ready
<1>10. t # Emu => d1.locks = e.locks \cup {e.h + 1}
  BY <1>1, <1>7, <1>3 DEF IsBefore, Like, Near, Good, Ready
<1> QED
  BY <1>6, <1>8, <1>9, <1>10 DEF e

(* LoadRom's locks, and its reference to the old debugger.                 *)
LEMMA KeepExpects ==
  ASSUME NEW t, NEW r \in Seq(StepNames),
         Ready(Expect(t, r)), Expect(t, r).h >= 1, Expect(t, r).k >= 1,
         Expect(t, r).requests = "none"
  PROVE  LET e == Expect(t, r)
             d == Expect(t, <<"acquire", "dlock", "keep">> \o r)
         IN  /\ <<"acquire", "dlock", "keep">> \o r \in Seq(StepNames)
             /\ Like(d, e, -1, -1, 0)
             /\ d.requests = "none" /\ d.locks = e.locks \ {e.h}
<1> DEFINE e == Expect(t, r)
<1>1. Ready(e) /\ e.h >= 1 /\ e.k >= 1 /\ e.requests = "none"
  OBVIOUS
<1> HIDE DEF e
<1>2. Fits(t, "keep", e)
  BY <1>1 DEF Fits, StepNames, IsBefore, Good, Ready
<1>3. PICK d3 : d3 = Before(t, "keep", e) /\ d3.fit = "yes" /\ IsBefore(d3, t, "keep", e)
  BY <1>2, BeforeFields
<1>4. Fits(t, "dlock", d3)
  BY <1>1, <1>3 DEF Fits, StepNames, IsBefore, Good, Ready
<1>5. PICK d2 : /\ d2 = Before(t, "dlock", d3) /\ d2.fit = "yes"
                /\ IsBefore(d2, t, "dlock", d3)
  BY <1>4, BeforeFields
<1>6. Fits(t, "acquire", d2)
  BY <1>1, <1>3, <1>5 DEF Fits, StepNames, IsBefore, Good, Ready
<1>7. PICK d1 : /\ d1 = Before(t, "acquire", d2) /\ d1.fit = "yes"
                /\ IsBefore(d1, t, "acquire", d2)
  BY <1>6, BeforeFields
<1>8. "acquire" \in StepNames /\ "dlock" \in StepNames /\ "keep" \in StepNames
  BY DEF StepNames
<1>9. /\ Expect(t, <<"acquire", "dlock", "keep">> \o r)
         = Before(t, "acquire", Before(t, "dlock", Before(t, "keep", Expect(t, r))))
      /\ <<"acquire", "dlock", "keep">> \o r \in Seq(StepNames)
  BY <1>8, Expect3
<1>10. /\ d1 = Expect(t, <<"acquire", "dlock", "keep">> \o r)
       /\ <<"acquire", "dlock", "keep">> \o r \in Seq(StepNames)
  BY <1>3, <1>5, <1>7, <1>9 DEF e
<1>11. Good(d1)
  BY <1>10, <1>7, ExpectGood
<1>12. Like(d1, e, -1, -1, 0)
  BY <1>1, <1>11, <1>3, <1>5, <1>7, SMTT(30) DEF IsBefore, Like, Near, Good, Ready
<1>13. d1.requests = "none" /\ d1.locks = e.locks \ {e.h}
  BY <1>1, <1>11, <1>3, <1>5, <1>7 DEF IsBefore, Like, Near, Good, Ready
<1> QED
  BY <1>10, <1>12, <1>13 DEF e

(* LoadRom brings back everything that it takes.                           *)
LEMMA LoadRomExpects ==
  ASSUME NEW t, NEW r \in Seq(StepNames), Ready(Expect(t, r)), Expect(t, r).suspends = "no"
  PROVE  LET e == Expect(t, r)
             d == Expect(t, LoadRom(t) \o r)
         IN  LoadRom(t) \o r \in Seq(StepNames) /\ Like(d, e, 0, 0, 0)
<1>1. PICK e : e = Expect(t, r) /\ Ready(e) /\ e.suspends = "no"
  OBVIOUS
<1>2. PICK q1 \in Seq(StepNames) : q1 = <<"outcome">> \o r
  BY OutcomeExpects
<1>3. PICK e1 : e1 = Expect(t, q1) /\ Like(e1, e, 1, 1, 1) /\ e1.requests = "none"
  BY <1>1, <1>2, OutcomeExpects
<1>4. Ready(e1) /\ e1.h >= 1 /\ e1.k >= 1 /\ e1.b >= 1 /\ e1.suspends = "no"
  BY <1>1, <1>3, LikeReady DEF Like, Near, Ready, Good
<1>5. PICK q2 \in Seq(StepNames) : q2 = ResetDebugger(t, "unset") \o q1
  BY <1>3, <1>4, ResetExpects
<1>6. PICK e2 : /\ e2 = Expect(t, q2) /\ Near(e2, e1, 0, 0, 0) /\ e2.requests = "none"
                /\ e2.suspends = "will"
  BY <1>3, <1>4, <1>5, ResetExpects
<1>7. Ready(e2) /\ e2.h >= 1 /\ e2.k >= 1 /\ e2.b >= 1
  BY <1>4, <1>6, NearSame
<1>8. PICK q3 \in Seq(StepNames) : q3 = <<"acquire", "dlock", "keep">> \o q2
  BY <1>6, <1>7, KeepExpects
<1>9. PICK e3 : e3 = Expect(t, q3) /\ Like(e3, e2, -1, -1, 0)
  BY <1>6, <1>7, <1>8, KeepExpects
<1>10. Ready(e3) /\ e3.b >= 1 /\ e3.suspends = "will"
  BY <1>6, <1>7, <1>9, LikeReady, SMTT(30) DEF Like, Near, Ready, Good
<1>11. PICK q4 \in Seq(StepNames) : q4 = Block \o q3
  BY <1>9, <1>10, BlockExpects
<1>12. PICK d : d = Expect(t, q4) /\ Near(d, e3, 0, 0, -1) /\ d.suspends = "no"
  BY <1>9, <1>10, <1>11, BlockExpects
<1>13. LoadRom(t) \o r = q4
  <2>1. PICK a, b, c, g : /\ a = Block /\ b = <<"acquire", "dlock", "keep">>
                          /\ c = ResetDebugger(t, "unset") /\ g = <<"outcome">>
    OBVIOUS
  <2>2. a \in Seq(StepNames) /\ c \in Seq(StepNames) /\ g \in Seq(StepNames)
    BY <2>1, PartsTyped DEF StepNames
  <2>3. b \in Seq(StepNames)
    <3>1. "acquire" \in StepNames /\ "dlock" \in StepNames /\ "keep" \in StepNames
      BY DEF StepNames
    <3> QED
      BY <2>1, <3>1
  <2>4. Regroups4(a, b, c, g, r)
    BY <2>2, <2>3, Joined4
  <2> QED
    BY <1>2, <1>5, <1>8, <1>11, <2>1, <2>4 DEF LoadRom, Regroups4
<1>14. Like(d, e, 0, 0, 0)
  <2>1. Near(e2, e, 1, 1, 1)
    BY <1>1, <1>3, <1>6, SMTT(30) DEF Like, Near, Ready, Good
  <2>2. e3.h = e.h /\ e3.k = e.k /\ e3.b = e.b + 1
    <3>1. e.h \in Nat /\ e.k \in Nat /\ e.b \in Nat
      BY <1>1 DEF Ready, Good
    <3>2. /\ e3.h = (e.h + 1) + (-1) /\ e3.k = (e.k + 1) + (-1) /\ e3.b = (e.b + 1) + 0
      BY <1>9, <2>1 DEF Like, Near
    <3> QED
      BY <3>1, <3>2
  <2>3. /\ d.h = e3.h + 0 /\ d.k = e3.k + 0 /\ d.b = e3.b - 1
        /\ Good(d) /\ d.fit = "yes" /\ d.last = "used"
        /\ d.first \notin {"take", "lower", "decrement"}
        /\ d.suspends = e.suspends
    BY <1>1, <1>12 DEF Near
  <2>4. e.h \in Nat /\ e.k \in Nat /\ e.b \in Nat
    BY <1>1 DEF Ready, Good
  <2> QED
    BY <2>2, <2>3, <2>4 DEF Like, Near
<1> QED
  BY <1>1, <1>11, <1>12, <1>13, <1>14

(* Any call, by a thread with nothing else to do.                          *)
LEMMA CallExpects ==
  ASSUME NEW t, NEW c \in AllCalls \cup {"power"}
  PROVE  /\ Steps(t, c) \o <<>> \in Seq(StepNames)
         /\ Like(Expect(t, Steps(t, c) \o <<>>), Idle, 0, 0, 0)
<1>1. PICK r \in Seq(StepNames) : r = <<>>
  BY EmptySeq
<1>2. Expect(t, r) = Idle /\ Ready(Idle) /\ Idle.suspends = "no"
  <2>1. Ready(Idle) /\ Idle.suspends = "no"
    BY DEF Ready, Good, Idle
  <2> QED
    BY <1>1, <2>1, ExpectNil
<1>3. PICK q : q = Steps(t, c)
  OBVIOUS
<1>4. q \o r \in Seq(StepNames) /\ Like(Expect(t, q \o r), Idle, 0, 0, 0)
  <2>1. CASE c = "tool"
    <3>1. Steps(t, "tool") \o r \in Seq(StepNames)
      BY <1>2, ToolExpects
    <3>2. Like(Expect(t, Steps(t, "tool") \o r), Idle, 0, 0, 0)
      BY <1>2, ToolExpects
    <3> QED
      BY <1>3, <2>1, <3>1, <3>2
  <2>2. CASE c = "state"
    <3>1. q = <<"acquire", "release">>
      BY <1>3, <2>2 DEF Steps
    <3> QED
      BY <1>2, <3>1, StateExpects
  <2>3. CASE c = "nested"
    <3>1. q = <<"acquire", "acquire", "release", "release">>
      BY <1>3, <2>3 DEF Steps
    <3> QED
      BY <1>2, <3>1, NestedExpects
  <2>4. CASE c = "init"
    <3>1. q = InitDebugger
      BY <1>3, <2>4 DEF Steps
    <3> QED
      BY <1>2, <3>1, InitExpects
  <2>5. CASE c = "stop"
    <3>1. q = StopDebugger
      BY <1>3, <2>5 DEF Steps
    <3> QED
      BY <1>2, <3>1, StopDebuggerExpects
  <2>6. CASE c \in {"load", "power"}
    <3>1. q = LoadRom(t)
      BY <1>3, <2>6 DEF Steps
    <3> QED
      BY <1>2, <3>1, LoadRomExpects
  <2> QED
    BY <2>1, <2>2, <2>3, <2>4, <2>5, <2>6 DEF AllCalls
<1> QED
  BY <1>1, <1>3, <1>4

-----------------------------------------------------------------------------
(***************************************************************************)
(* The outcomes of a load.                                                 *)
(***************************************************************************)
(* It fails.                                                               *)
LEMMA UnsuspendExpects ==
  ASSUME NEW t, t = Emu, NEW r \in Seq(StepNames), Ready(Expect(t, r))
  PROVE  LET e == Expect(t, r)
             d == Expect(t, <<"unsuspend">> \o r)
         IN  /\ <<"unsuspend">> \o r \in Seq(StepNames)
             /\ Like(d, e, 0, 0, 0)
             /\ d.requests = e.requests /\ d.locks = e.locks
<1> DEFINE e == Expect(t, r)
<1>1. Ready(e)
  OBVIOUS
<1> HIDE DEF e
<1>2. Fits(t, "unsuspend", e)
  BY <1>1 DEF Fits, StepNames, IsBefore, Good, Ready
<1>3. PICK d1 : /\ d1 = Before(t, "unsuspend", e) /\ d1.fit = "yes"
                /\ IsBefore(d1, t, "unsuspend", e)
  BY <1>2, BeforeFields
<1>4. "unsuspend" \in StepNames
  BY DEF StepNames
<1>5. /\ Expect(t, <<"unsuspend">> \o r)
         = Before(t, "unsuspend", Expect(t, r))
      /\ <<"unsuspend">> \o r \in Seq(StepNames)
  BY <1>4, ExpectCons
<1>6. d1 = Expect(t, <<"unsuspend">> \o r) /\ <<"unsuspend">> \o r \in Seq(StepNames)
  BY <1>3, <1>5 DEF e
<1>7. Good(d1)
  BY <1>6, <1>3, ExpectGood
<1>8. Like(d1, e, 0, 0, 0)
  BY <1>1, <1>7, <1>3 DEF IsBefore, Like, Near, Good, Ready
<1>9. d1.requests = e.requests /\ d1.locks = e.locks
  BY <1>1, <1>7, <1>3 DEF IsBefore, Like, Near, Good, Ready
<1> QED
  BY <1>6, <1>8, <1>9 DEF e

(* What a load that fails gives back.                                      *)
LEMMA FailExpects ==
  ASSUME NEW t, NEW r \in Seq(StepNames),
         Ready(Expect(t, r))
  PROVE  LET e == Expect(t, r)
             d == Expect(t, <<"unblock", "dunlock", "release">> \o r)
         IN  /\ <<"unblock", "dunlock", "release">> \o r \in Seq(StepNames)
             /\ Like(d, e, 1, 1, 1)
             /\ d.requests = e.requests /\ d.locks = e.locks
<1> DEFINE e == Expect(t, r)
<1>1. Ready(e)
  OBVIOUS
<1> HIDE DEF e
<1>2. Fits(t, "release", e)
  BY <1>1 DEF Fits, StepNames, IsBefore, Good, Ready
<1>3. PICK d3 : /\ d3 = Before(t, "release", e) /\ d3.fit = "yes"
                /\ IsBefore(d3, t, "release", e)
  BY <1>2, BeforeFields
<1>4. Fits(t, "dunlock", d3)
  BY <1>1, <1>3 DEF Fits, StepNames, IsBefore, Good, Ready
<1>5. PICK d2 : /\ d2 = Before(t, "dunlock", d3) /\ d2.fit = "yes"
                /\ IsBefore(d2, t, "dunlock", d3)
  BY <1>4, BeforeFields
<1>6. Fits(t, "unblock", d2)
  BY <1>1, <1>3, <1>5 DEF Fits, StepNames, IsBefore, Good, Ready
<1>7. PICK d1 : /\ d1 = Before(t, "unblock", d2) /\ d1.fit = "yes"
                /\ IsBefore(d1, t, "unblock", d2)
  BY <1>6, BeforeFields
<1>8. "unblock" \in StepNames /\ "dunlock" \in StepNames /\ "release" \in StepNames
  BY DEF StepNames
<1>9. /\ Expect(t, <<"unblock", "dunlock", "release">> \o r)
         = Before(t, "unblock", Before(t, "dunlock", Before(t, "release", Expect(t, r))))
      /\ <<"unblock", "dunlock", "release">> \o r \in Seq(StepNames)
  BY <1>8, Expect3
<1>10. /\ d1 = Expect(t, <<"unblock", "dunlock", "release">> \o r)
       /\ <<"unblock", "dunlock", "release">> \o r \in Seq(StepNames)
  BY <1>3, <1>5, <1>7, <1>9 DEF e
<1>11. Good(d1)
  BY <1>10, <1>7, ExpectGood
<1>12. Like(d1, e, 1, 1, 1)
  BY <1>1, <1>11, <1>3, <1>5, <1>7, SMTT(30) DEF IsBefore, Like, Near, Good, Ready
<1>13. d1.requests = e.requests /\ d1.locks = e.locks
  BY <1>1, <1>11, <1>3, <1>5, <1>7 DEF IsBefore, Like, Near, Good, Ready
<1> QED
  BY <1>10, <1>12, <1>13 DEF e

Failure(t) ==
  <<"unblock", "dunlock", "release">> \o (IF t = Emu THEN <<"unsuspend">> ELSE <<>>)

(* With the unsuspending after a power cycle.                              *)
LEMMA FailureExpects ==
  ASSUME NEW t, NEW r \in Seq(StepNames), Ready(Expect(t, r))
  PROVE  LET e == Expect(t, r)
             d == Expect(t, Failure(t) \o r)
         IN  /\ Failure(t) \o r \in Seq(StepNames)
             /\ Like(d, e, 1, 1, 1) /\ d.requests = e.requests /\ d.locks = e.locks
<1>1. PICK e : e = Expect(t, r) /\ Ready(e)
  OBVIOUS
<1>2. PICK b : b = IF t = Emu THEN <<"unsuspend">> ELSE <<>>
  OBVIOUS
<1>3. b \in Seq(StepNames)
  BY <1>2, PartsTyped, EmptySeq DEF StepNames
<1>4. PICK q1 \in Seq(StepNames) : q1 = b \o r
  BY <1>3, Joined
<1>5. PICK e1 : /\ e1 = Expect(t, q1) /\ Ready(e1)
                /\ e1.h = e.h /\ e1.k = e.k /\ e1.b = e.b /\ e1.suspends = e.suspends
                /\ e1.requests = e.requests /\ e1.locks = e.locks
  <2>1. CASE t = Emu
    <3>1. q1 = <<"unsuspend">> \o r
      BY <1>2, <1>4, <2>1
    <3>2. PICK e1 : /\ e1 = Expect(t, q1) /\ Like(e1, e, 0, 0, 0)
                    /\ e1.requests = e.requests /\ e1.locks = e.locks
      BY <1>1, <2>1, <3>1, UnsuspendExpects
    <3>3. Ready(e1)
      BY <3>2, LikeReady
    <3> QED
      BY <1>1, <3>2, <3>3 DEF Like, Near, Ready, Good
  <2>2. CASE t # Emu
    <3>1. q1 = r
      BY <1>2, <1>4, <2>2, JoinNothing
    <3> QED
      BY <1>1, <3>1
  <2> QED
    BY <2>1, <2>2
<1>6. PICK q2 \in Seq(StepNames) : q2 = <<"unblock", "dunlock", "release">> \o q1
  BY <1>5, FailExpects
<1>7. PICK d : /\ d = Expect(t, q2) /\ Like(d, e1, 1, 1, 1)
               /\ d.requests = e1.requests /\ d.locks = e1.locks
  BY <1>5, <1>6, FailExpects
<1>8. Failure(t) \o r = q2
  <2>1. PICK a \in Seq(StepNames) : a = <<"unblock", "dunlock", "release">>
    <3>1. "unblock" \in StepNames /\ "dunlock" \in StepNames /\ "release" \in StepNames
      BY DEF StepNames
    <3>2. <<"unblock", "dunlock", "release">> \in Seq(StepNames)
      BY <3>1
    <3> QED
      BY <3>2
  <2>2. Regroups(a, b, r)
    BY <1>3, Joined2
  <2>3. Failure(t) = a \o b
    BY <1>2, <2>1 DEF Failure
  <2> QED
    BY <1>4, <1>6, <2>1, <2>2, <2>3 DEF Regroups
<1>9. Like(d, e, 1, 1, 1)
  BY <1>5, <1>7 DEF Like, Near
<1> QED
  BY <1>1, <1>5, <1>7, <1>8, <1>9

(* It throws.                                                              *)
LEMMA ThrowExpects ==
  ASSUME NEW t, NEW r \in Seq(StepNames),
         Ready(Expect(t, r))
  PROVE  LET e == Expect(t, r)
             d == Expect(t, <<"dunlock", "release">> \o r)
         IN  /\ <<"dunlock", "release">> \o r \in Seq(StepNames)
             /\ Like(d, e, 1, 1, 0)
             /\ d.requests = e.requests /\ d.locks = e.locks
<1> DEFINE e == Expect(t, r)
<1>1. Ready(e)
  OBVIOUS
<1> HIDE DEF e
<1>2. Fits(t, "release", e)
  BY <1>1 DEF Fits, StepNames, IsBefore, Good, Ready
<1>3. PICK d2 : /\ d2 = Before(t, "release", e) /\ d2.fit = "yes"
                /\ IsBefore(d2, t, "release", e)
  BY <1>2, BeforeFields
<1>4. Fits(t, "dunlock", d2)
  BY <1>1, <1>3 DEF Fits, StepNames, IsBefore, Good, Ready
<1>5. PICK d1 : /\ d1 = Before(t, "dunlock", d2) /\ d1.fit = "yes"
                /\ IsBefore(d1, t, "dunlock", d2)
  BY <1>4, BeforeFields
<1>6. "dunlock" \in StepNames /\ "release" \in StepNames
  BY DEF StepNames
<1>7. /\ Expect(t, <<"dunlock", "release">> \o r)
         = Before(t, "dunlock", Before(t, "release", Expect(t, r)))
      /\ <<"dunlock", "release">> \o r \in Seq(StepNames)
  BY <1>6, Expect2
<1>8. /\ d1 = Expect(t, <<"dunlock", "release">> \o r)
      /\ <<"dunlock", "release">> \o r \in Seq(StepNames)
  BY <1>3, <1>5, <1>7 DEF e
<1>9. Good(d1)
  BY <1>8, <1>5, ExpectGood
<1>10. Like(d1, e, 1, 1, 0)
  BY <1>1, <1>9, <1>3, <1>5 DEF IsBefore, Like, Near, Good, Ready
<1>11. d1.requests = e.requests /\ d1.locks = e.locks
  BY <1>1, <1>9, <1>3, <1>5 DEF IsBefore, Like, Near, Good, Ready
<1> QED
  BY <1>8, <1>10, <1>11 DEF e

(* A load that throws leaves its block behind, and stops the emulator.     *)
LEMMA ThrowsExpects ==
  ASSUME NEW t, NEW r \in Seq(StepNames), t # Emu,
         Ready(Expect(t, r)), Expect(t, r).suspends = "no"
  PROVE  LET e == Expect(t, r)
             p == <<"dunlock", "release">> \o Stop(t)
             d == Expect(t, p \o r)
         IN  /\ p \o r \in Seq(StepNames) /\ Like(d, e, 1, 1, 0)
             /\ d.requests = "any" /\ d.locks = e.locks
<1>1. PICK e : e = Expect(t, r) /\ Ready(e) /\ e.suspends = "no"
  OBVIOUS
<1>2. PICK q1 \in Seq(StepNames) : q1 = Stop(t) \o r
  BY StopExpects
<1>3. PICK e1 : /\ e1 = Expect(t, q1) /\ Like(e1, e, 0, 0, 0)
                /\ e1.requests = "any" /\ e1.locks = e.locks
  BY <1>1, <1>2, StopExpects
<1>4. Ready(e1)
  BY <1>3, LikeReady
<1>5. PICK q2 \in Seq(StepNames) : q2 = <<"dunlock", "release">> \o q1
  BY <1>3, <1>4, ThrowExpects
<1>6. PICK d : /\ d = Expect(t, q2) /\ Like(d, e1, 1, 1, 0)
               /\ d.requests = e1.requests /\ d.locks = e1.locks
  BY <1>3, <1>4, <1>5, ThrowExpects
<1>7. (<<"dunlock", "release">> \o Stop(t)) \o r = q2
  <2>1. PICK a \in Seq(StepNames) : a = <<"dunlock", "release">>
    <3>1. "dunlock" \in StepNames /\ "release" \in StepNames
      BY DEF StepNames
    <3> QED
      BY <3>1, Pair
  <2>2. PICK b \in Seq(StepNames) : b = Stop(t)
    BY StopExpects
  <2>3. Regroups(a, b, r)
    BY Joined2
  <2> QED
    BY <1>2, <1>5, <2>1, <2>2, <2>3 DEF Regroups
<1>8. Like(d, e, 1, 1, 0)
  BY <1>1, <1>3, <1>6 DEF Like, Near, Ready, Good
<1> QED
  BY <1>1, <1>3, <1>6, <1>7, <1>8

(* It succeeds.                                                            *)
LEMMA ReleaseExpects ==
  ASSUME NEW t, NEW r \in Seq(StepNames),
         Ready(Expect(t, r))
  PROVE  LET e == Expect(t, r)
             d == Expect(t, <<"release">> \o r)
         IN  /\ <<"release">> \o r \in Seq(StepNames)
             /\ Like(d, e, 1, 0, 0)
             /\ d.requests = e.requests /\ d.locks = e.locks
<1> DEFINE e == Expect(t, r)
<1>1. Ready(e)
  OBVIOUS
<1> HIDE DEF e
<1>2. Fits(t, "release", e)
  BY <1>1 DEF Fits, StepNames, IsBefore, Good, Ready
<1>3. PICK d1 : /\ d1 = Before(t, "release", e) /\ d1.fit = "yes"
                /\ IsBefore(d1, t, "release", e)
  BY <1>2, BeforeFields
<1>4. "release" \in StepNames
  BY DEF StepNames
<1>5. /\ Expect(t, <<"release">> \o r)
         = Before(t, "release", Expect(t, r))
      /\ <<"release">> \o r \in Seq(StepNames)
  BY <1>4, ExpectCons
<1>6. d1 = Expect(t, <<"release">> \o r) /\ <<"release">> \o r \in Seq(StepNames)
  BY <1>3, <1>5 DEF e
<1>7. Good(d1)
  BY <1>6, <1>3, ExpectGood
<1>8. Like(d1, e, 1, 0, 0)
  BY <1>1, <1>7, <1>3 DEF IsBefore, Like, Near, Good, Ready
<1>9. d1.requests = e.requests /\ d1.locks = e.locks
  BY <1>1, <1>7, <1>3 DEF IsBefore, Like, Near, Good, Ready
<1> QED
  BY <1>6, <1>8, <1>9 DEF e

(* The emulation thread is started by the owner of the run lock.           *)
LEMMA StartExpects ==
  ASSUME NEW t, NEW r \in Seq(StepNames),
         Ready(Expect(t, r)), Expect(t, r).h >= 1, t # Emu
  PROVE  LET e == Expect(t, r)
             d == Expect(t, <<"start">> \o r)
         IN  /\ <<"start">> \o r \in Seq(StepNames)
             /\ Like(d, e, 0, 0, 0)
             /\ d.requests = e.requests /\ d.locks = e.locks \cup {e.h}
<1> DEFINE e == Expect(t, r)
<1>1. Ready(e) /\ e.h >= 1
  OBVIOUS
<1> HIDE DEF e
<1>2. Fits(t, "start", e)
  BY <1>1 DEF Fits, StepNames, IsBefore, Good, Ready
<1>3. PICK d1 : d1 = Before(t, "start", e) /\ d1.fit = "yes" /\ IsBefore(d1, t, "start", e)
  BY <1>2, BeforeFields
<1>4. "start" \in StepNames
  BY DEF StepNames
<1>5. /\ Expect(t, <<"start">> \o r)
         = Before(t, "start", Expect(t, r))
      /\ <<"start">> \o r \in Seq(StepNames)
  BY <1>4, ExpectCons
<1>6. d1 = Expect(t, <<"start">> \o r) /\ <<"start">> \o r \in Seq(StepNames)
  BY <1>3, <1>5 DEF e
<1>7. Good(d1)
  BY <1>6, <1>3, ExpectGood
<1>8. Like(d1, e, 0, 0, 0)
  BY <1>1, <1>7, <1>3 DEF IsBefore, Like, Near, Good, Ready
<1>9. d1.requests = e.requests /\ d1.locks = e.locks \cup {e.h}
  BY <1>1, <1>7, <1>3 DEF IsBefore, Like, Near, Good, Ready
<1> QED
  BY <1>6, <1>8, <1>9 DEF e

(* The end of a load that succeeds.                                        *)
LEMMA LoadedExpects ==
  ASSUME NEW t, NEW r \in Seq(StepNames),
         Ready(Expect(t, r)), Expect(t, r).suspends = "no"
  PROVE  LET e == Expect(t, r)
             d == Expect(t, <<"unblock", "dunlock", "gameLoaded", "loaded">> \o r)
         IN  /\ <<"unblock", "dunlock", "gameLoaded", "loaded">> \o r \in Seq(StepNames)
             /\ Like(d, e, 0, 1, 1)
             /\ d.requests = e.requests /\ d.locks = e.locks
<1> DEFINE e == Expect(t, r)
<1>1. Ready(e) /\ e.suspends = "no"
  OBVIOUS
<1> HIDE DEF e
<1>2. Fits(t, "loaded", e)
  BY <1>1 DEF Fits, StepNames, IsBefore, Good, Ready
<1>3. PICK d4 : /\ d4 = Before(t, "loaded", e) /\ d4.fit = "yes"
                /\ IsBefore(d4, t, "loaded", e)
  BY <1>2, BeforeFields
<1>4. Fits(t, "gameLoaded", d4)
  BY <1>1, <1>3 DEF Fits, StepNames, IsBefore, Good, Ready
<1>5. PICK d3 : /\ d3 = Before(t, "gameLoaded", d4) /\ d3.fit = "yes"
                /\ IsBefore(d3, t, "gameLoaded", d4)
  BY <1>4, BeforeFields
<1>6. Fits(t, "dunlock", d3)
  BY <1>1, <1>3, <1>5 DEF Fits, StepNames, IsBefore, Good, Ready
<1>7. PICK d2 : /\ d2 = Before(t, "dunlock", d3) /\ d2.fit = "yes"
                /\ IsBefore(d2, t, "dunlock", d3)
  BY <1>6, BeforeFields
<1>8. Fits(t, "unblock", d2)
  BY <1>1, <1>3, <1>5, <1>7 DEF Fits, StepNames, IsBefore, Good, Ready
<1>9. PICK d1 : /\ d1 = Before(t, "unblock", d2) /\ d1.fit = "yes"
                /\ IsBefore(d1, t, "unblock", d2)
  BY <1>8, BeforeFields
<1>10. /\ "unblock" \in StepNames /\ "dunlock" \in StepNames /\ "gameLoaded" \in StepNames
       /\ "loaded" \in StepNames
  BY DEF StepNames
<1>11. /\ Expect(t, <<"unblock", "dunlock", "gameLoaded", "loaded">> \o r)
         = Before(t, "unblock", Before(t, "dunlock", Before(t, "gameLoaded", Before(t, "loaded", Expect(t, r)))))
      /\ <<"unblock", "dunlock", "gameLoaded", "loaded">> \o r \in Seq(StepNames)
  BY <1>10, Expect4
<1>12. /\ d1 = Expect(t, <<"unblock", "dunlock", "gameLoaded", "loaded">> \o r)
       /\ <<"unblock", "dunlock", "gameLoaded", "loaded">> \o r \in Seq(StepNames)
  BY <1>3, <1>5, <1>7, <1>9, <1>11 DEF e
<1>13. Good(d1)
  BY <1>12, <1>9, ExpectGood
<1>14. Like(d1, e, 0, 1, 1)
  BY <1>1, <1>13, <1>3, <1>5, <1>7, <1>9 DEF IsBefore, Like, Near, Good, Ready
<1>15. d1.requests = e.requests /\ d1.locks = e.locks
  BY <1>1, <1>13, <1>3, <1>5, <1>7, <1>9 DEF IsBefore, Like, Near, Good, Ready
<1> QED
  BY <1>12, <1>14, <1>15 DEF e

(* The new console takes and gives back nothing.                           *)
LEMMA ConsoleExpects ==
  ASSUME NEW t, NEW r \in Seq(StepNames),
         Ready(Expect(t, r))
  PROVE  LET e == Expect(t, r)
             d == Expect(t, <<"console">> \o r)
         IN  /\ <<"console">> \o r \in Seq(StepNames)
             /\ Like(d, e, 0, 0, 0)
             /\ d.requests = e.requests /\ d.locks = e.locks
<1> DEFINE e == Expect(t, r)
<1>1. Ready(e)
  OBVIOUS
<1> HIDE DEF e
<1>2. Fits(t, "console", e)
  BY <1>1 DEF Fits, StepNames, IsBefore, Good, Ready
<1>3. PICK d1 : /\ d1 = Before(t, "console", e) /\ d1.fit = "yes"
                /\ IsBefore(d1, t, "console", e)
  BY <1>2, BeforeFields
<1>4. "console" \in StepNames
  BY DEF StepNames
<1>5. /\ Expect(t, <<"console">> \o r)
         = Before(t, "console", Expect(t, r))
      /\ <<"console">> \o r \in Seq(StepNames)
  BY <1>4, ExpectCons
<1>6. d1 = Expect(t, <<"console">> \o r) /\ <<"console">> \o r \in Seq(StepNames)
  BY <1>3, <1>5 DEF e
<1>7. Good(d1)
  BY <1>6, <1>3, ExpectGood
<1>8. Like(d1, e, 0, 0, 0)
  BY <1>1, <1>7, <1>3 DEF IsBefore, Like, Near, Good, Ready
<1>9. d1.requests = e.requests /\ d1.locks = e.locks
  BY <1>1, <1>7, <1>3 DEF IsBefore, Like, Near, Good, Ready
<1> QED
  BY <1>6, <1>8, <1>9 DEF e

Success(t, old) ==
  (IF t = Emu THEN <<>> ELSE Stop(t)) \o <<"console">>
    \o (IF old # 0 THEN InitDebugger ELSE <<>>)
    \o <<"unblock", "dunlock", "gameLoaded", "loaded">>
    \o (IF t = Emu THEN <<>> ELSE <<"start">>) \o <<"release">>

(* A load that succeeds gives back what LoadRom took, whether or not it    *)
(* restarts the debugger and the emulation thread.                         *)
LEMMA SuccessExpects ==
  ASSUME NEW t, NEW r \in Seq(StepNames), NEW old,
         Ready(Expect(t, r)), Expect(t, r).suspends = "no"
  PROVE  LET e == Expect(t, r)
             d == Expect(t, Success(t, old) \o r)
         IN  /\ Success(t, old) \o r \in Seq(StepNames) /\ Like(d, e, 1, 1, 1)
             /\ d.requests \in {"any", e.requests}
             /\ t = Emu => d.locks = e.locks
             /\ t # Emu => d.locks = e.locks \cup {e.h + 1}
<1> DEFINE Same(d, e) == /\ Ready(d) /\ d.h = e.h /\ d.k = e.k /\ d.b = e.b
                         /\ d.suspends = e.suspends
<1>1. PICK e : e = Expect(t, r) /\ Ready(e) /\ e.suspends = "no"
  OBVIOUS
<1>2. PICK q1 \in Seq(StepNames) : q1 = <<"release">> \o r
  BY <1>1, ReleaseExpects
<1>3. PICK e1 : /\ e1 = Expect(t, q1) /\ Like(e1, e, 1, 0, 0)
                /\ e1.requests = e.requests /\ e1.locks = e.locks
  BY <1>1, <1>2, ReleaseExpects
<1>4. Ready(e1) /\ e1.h >= 1 /\ e1.suspends = "no"
  BY <1>1, <1>3, LikeReady DEF Like, Near, Ready, Good
<1>5. PICK a, c, s \in Seq(StepNames) :
        /\ a = IF t = Emu THEN <<>> ELSE Stop(t)
        /\ c = IF old # 0 THEN InitDebugger ELSE <<>>
        /\ s = IF t = Emu THEN <<>> ELSE <<"start">>
  <2>1. t # Emu => Stop(t) \in Seq(StepNames)
    BY <1>1, StopExpects
  <2>2. /\ <<>> \in Seq(StepNames) /\ <<"start">> \in Seq(StepNames)
        /\ InitDebugger \in Seq(StepNames)
    BY PartsTyped, EmptySeq DEF StepNames
  <2> QED
    BY <2>1, <2>2
<1>6. PICK q2 \in Seq(StepNames) : q2 = s \o q1
  BY <1>5, Joined
<1>7. PICK e2 : /\ e2 = Expect(t, q2) /\ Same(e2, e1) /\ e2.requests = e1.requests
                /\ e2.locks = IF t = Emu THEN e1.locks ELSE e1.locks \cup {e1.h}
  <2>1. CASE t = Emu
    <3>1. q2 = q1
      BY <1>5, <1>6, <2>1, JoinNothing
    <3> QED
      BY <1>3, <1>4, <2>1, <3>1
  <2>2. CASE t # Emu
    <3>1. q2 = <<"start">> \o q1
      BY <1>5, <1>6, <2>2
    <3>2. PICK e2 : /\ e2 = Expect(t, q2) /\ Like(e2, e1, 0, 0, 0)
                    /\ e2.requests = e1.requests /\ e2.locks = e1.locks \cup {e1.h}
      BY <1>3, <1>4, <2>2, <3>1, StartExpects
    <3>3. Same(e2, e1)
      BY <1>4, <3>2, LikeSame
    <3> QED
      BY <2>2, <3>2, <3>3
  <2> QED
    BY <2>1, <2>2
<1>8. PICK q3 \in Seq(StepNames) : q3 = <<"unblock", "dunlock", "gameLoaded", "loaded">> \o q2
  BY <1>4, <1>7, LoadedExpects
<1>9. PICK e3 : /\ e3 = Expect(t, q3) /\ Like(e3, e2, 0, 1, 1)
                /\ e3.requests = e2.requests /\ e3.locks = e2.locks
  BY <1>4, <1>7, <1>8, LoadedExpects
<1>10. Ready(e3) /\ e3.suspends = "no"
  <2>1. Ready(e3)
    BY <1>9, LikeReady
  <2> QED
    BY <1>4, <1>7, <1>9, <2>1 DEF Like, Near
<1>11. PICK q4 \in Seq(StepNames) : q4 = c \o q3
  BY <1>5, Joined
<1>12. PICK e4 : /\ e4 = Expect(t, q4) /\ Same(e4, e3)
                 /\ e4.requests = e3.requests /\ e4.locks = e3.locks
  <2>1. CASE old = 0
    <3>1. q4 = q3
      BY <1>5, <1>11, <2>1, JoinNothing
    <3> QED
      BY <1>9, <1>10, <3>1
  <2>2. CASE old # 0
    <3>1. q4 = InitDebugger \o q3
      BY <1>5, <1>11, <2>2
    <3>2. PICK e4 : /\ e4 = Expect(t, q4) /\ Like(e4, e3, 0, 0, 0)
                    /\ e4.requests = e3.requests /\ e4.locks = e3.locks
      BY <1>9, <1>10, <3>1, InitExpects
    <3>3. Same(e4, e3)
      BY <1>10, <3>2, LikeSame
    <3> QED
      BY <3>2, <3>3
  <2> QED
    BY <2>1, <2>2
<1>13. PICK q5 \in Seq(StepNames) : q5 = <<"console">> \o q4
  BY <1>12, ConsoleExpects
<1>14. PICK e5 : /\ e5 = Expect(t, q5) /\ Like(e5, e4, 0, 0, 0)
                 /\ e5.requests = e4.requests /\ e5.locks = e4.locks
  BY <1>12, <1>13, ConsoleExpects
<1>15. Ready(e5) /\ e5.suspends = "no"
  BY <1>10, <1>12, <1>14, LikeReady DEF Like, Near
<1>16. PICK q6 \in Seq(StepNames) : q6 = a \o q5
  BY <1>5, Joined
<1>17. PICK d : /\ d = Expect(t, q6) /\ Same(d, e5)
                /\ d.requests \in {"any", e5.requests} /\ d.locks = e5.locks
  <2>1. CASE t = Emu
    <3>1. q6 = q5
      BY <1>5, <1>16, <2>1, JoinNothing
    <3> QED
      BY <1>14, <1>15, <3>1
  <2>2. CASE t # Emu
    <3>1. q6 = Stop(t) \o q5
      BY <1>5, <1>16, <2>2
    <3>2. PICK d : /\ d = Expect(t, q6) /\ Like(d, e5, 0, 0, 0)
                   /\ d.requests = "any" /\ d.locks = e5.locks
      BY <1>14, <1>15, <2>2, <3>1, StopExpects
    <3>3. Same(d, e5)
      BY <1>15, <3>2, LikeSame
    <3> QED
      BY <3>2, <3>3
  <2> QED
    BY <2>1, <2>2
<1>18. Success(t, old) \o r = q6
  <2>1. PICK b, g, f \in Seq(StepNames) :
          /\ b = <<"console">> /\ f = <<"release">>
          /\ g = <<"unblock", "dunlock", "gameLoaded", "loaded">>
    <3>1. /\ "unblock" \in StepNames /\ "dunlock" \in StepNames
          /\ "gameLoaded" \in StepNames
          /\ "loaded" \in StepNames /\ "console" \in StepNames /\ "release" \in StepNames
      BY DEF StepNames
    <3>2. <<"unblock", "dunlock", "gameLoaded", "loaded">> \in Seq(StepNames)
      BY <3>1
    <3> QED
      BY <3>1, <3>2, PartsTyped
  <2>2. PICK p0 \in Seq(StepNames) : p0 = a \o b
    BY <1>5, <2>1, Joined
  <2>3. PICK p \in Seq(StepNames) : p = p0 \o c
    BY <1>5, <2>2, Joined
  <2>4. Regroups4(p, g, s, f, r)
    BY <1>5, <2>1, <2>3, Joined4
  <2>5. Regroups3(a, b, c, q3)
    BY <1>5, <1>8, <2>1, Joined3
  <2>6. Success(t, old) = p \o g \o s \o f
    BY <1>5, <2>1, <2>2, <2>3 DEF Success
  <2>7. (p \o g \o s \o f) \o r = p \o q3
    BY <1>2, <1>6, <1>8, <2>1, <2>4 DEF Regroups4
  <2>8. p \o q3 = q6
    BY <1>11, <1>13, <1>16, <2>1, <2>2, <2>3, <2>5 DEF Regroups3
  <2> QED
    BY <2>6, <2>7, <2>8
<1>19. Like(d, e, 1, 1, 1)
  <2>1. e.h \in Nat /\ e.k \in Nat /\ e.b \in Nat
    BY <1>1 DEF Ready, Good
  <2>2. e2.h = e.h + 1 /\ e2.k = e.k /\ e2.b = e.b /\ e2.suspends = e.suspends
    BY <1>3, <1>7, <2>1 DEF Like, Near
  <2>3. e4.h = e.h + 1 /\ e4.k = e.k + 1 /\ e4.b = e.b + 1 /\ e4.suspends = e.suspends
    BY <1>9, <1>12, <2>1, <2>2 DEF Like, Near
  <2>4. d.h = e.h + 1 /\ d.k = e.k + 1 /\ d.b = e.b + 1 /\ d.suspends = e.suspends
    <3>1. e5.h = e4.h + 0 /\ e5.k = e4.k + 0 /\ e5.b = e4.b + 0 /\ e5.suspends = e4.suspends
      BY <1>14 DEF Like, Near
    <3>2. e5.h = e.h + 1 /\ e5.k = e.k + 1 /\ e5.b = e.b + 1 /\ e5.suspends = e.suspends
      BY <2>1, <2>3, <3>1, SMTT(30)
    <3> QED
      BY <1>17, <3>2
  <2> QED
    BY <1>17, <2>4 DEF Like, Near, Ready
<1>20. d.requests \in {"any", e.requests}
  BY <1>3, <1>7, <1>9, <1>12, <1>14, <1>17
<1>21. d.locks = IF t = Emu THEN e.locks ELSE e.locks \cup {e.h + 1}
  BY <1>1, <1>3, <1>7, <1>9, <1>12, <1>14, <1>17 DEF Like, Near, Ready, Good
<1> QED
  BY <1>1, <1>17, <1>18, <1>19, <1>20, <1>21
-----------------------------------------------------------------------------
(***************************************************************************)
(* What a step changes in the sets that are counted.                       *)
(***************************************************************************)
N(p) == IF p THEN 1 ELSE 0

(* Two sets that agree but for one element.                                *)
LEMMA OnePoint ==
  ASSUME NEW S, NEW R, NEW p, IsFiniteSet(S), \A q : q # p => (q \in R <=> q \in S)
  PROVE  /\ IsFiniteSet(R) /\ Cardinality(S) \in Nat /\ Cardinality(R) \in Nat
         /\ Cardinality(R) = Cardinality(S) + N(p \in R) - N(p \in S)
<1> DEFINE T == S \ {p}
<1>1. IsFiniteSet(T) /\ p \notin T /\ Cardinality(T) \in Nat
  BY FS_Subset, FS_CardinalityType
<1>2. ASSUME NEW U, U = T \/ U = T \cup {p}
      PROVE  /\ IsFiniteSet(U) /\ Cardinality(U) \in Nat
             /\ Cardinality(U) = Cardinality(T) + N(p \in U)
  <2>1. CASE U = T
    BY <1>1, <2>1 DEF N
  <2>2. CASE U = T \cup {p}
    <3>1. IsFiniteSet(U) /\ Cardinality(U) = Cardinality(T) + 1
      BY <1>1, <2>2, FS_AddElement
    <3> QED
      BY <1>1, <2>2, <3>1 DEF N
  <2> QED
    BY <1>2, <2>1, <2>2
<1>3. (S = T \/ S = T \cup {p}) /\ (R = T \/ R = T \cup {p})
  OBVIOUS
<1> HIDE DEF T
<1>4. Cardinality(S) = Cardinality(T) + N(p \in S) /\ Cardinality(S) \in Nat
  BY <1>2, <1>3
<1>5. /\ IsFiniteSet(R) /\ Cardinality(R) \in Nat
      /\ Cardinality(R) = Cardinality(T) + N(p \in R)
  BY <1>2, <1>3
<1>6. N(p \in S) \in {0, 1} /\ N(p \in R) \in {0, 1}
  BY DEF N
<1> QED
  BY <1>1, <1>4, <1>5, <1>6

(* A set with an element that was counted.                                 *)
LEMMA Counted ==
  ASSUME NEW S, IsFiniteSet(S), NEW p \in S
  PROVE  Cardinality(S) \in Nat \ {0}
  BY FS_CardinalityType, FS_EmptySet

(* An entry more, in front of the others.                                  *)
Longer(r, x, s) == r = <<x>> \o s

(* Its number is one more than theirs, which stay.                         *)
LEMMA EntryMore ==
  ASSUME NEW s \in Seq(Entries), NEW x \in Entries, NEW r, Longer(r, x, s),
         NEW n \in Nat, n = Len(s)
  PROVE  /\ r \in Seq(Entries) /\ Len(r) = n + 1 /\ r # <<>>
         /\ Head(r) = x /\ Tail(r) = s
         /\ \A i \in 1 .. n : EntryOf(r, i) = EntryOf(s, i)
         /\ EntryOf(r, n + 1) = x
<1>1. /\ r \in Seq(Entries) /\ Len(r) = n + 1 /\ r[1] = x
      /\ \A i \in 2 .. n + 1 : r[i] = s[i - 1]
  <2>1. <<x>> \in Seq(Entries) /\ Len(<<x>>) = 1 /\ <<x>>[1] = x
    OBVIOUS
  <2> QED
    BY <2>1, ConcatProperties DEF Longer
<1>2. r # <<>> /\ Head(r) = x /\ Tail(r) \in Seq(Entries) /\ Len(Tail(r)) = n
  BY <1>1
<1>3. Tail(r) = s
  <2>1. \A i \in 1 .. n : Tail(r)[i] = s[i]
    BY <1>1
  <2> QED
    BY <1>2, <2>1, SeqEqual
<1>4. ASSUME NEW i \in 1 .. n PROVE EntryOf(r, i) = EntryOf(s, i)
  <2>1. r[n + 2 - i] = s[n + 1 - i]
    BY <1>1
  <2> QED
    BY <1>1, <2>1 DEF EntryOf
<1>5. EntryOf(r, n + 1) = x
  <2>1. Len(r) + 1 - (n + 1) = 1
    BY <1>1
  <2> QED
    BY <1>1, <2>1 DEF EntryOf
<1> QED
  BY <1>1, <1>2, <1>3, <1>4, <1>5

(* So do the numbers of the entries of a kind.                             *)
LEMMA EntryFirst ==
  ASSUME NEW s \in Seq(Entries), NEW x \in Entries, NEW r, r = <<x>> \o s
  PROVE  /\ r \in Seq(Entries) /\ Len(r) = Len(s) + 1 /\ r # <<>>
         /\ Head(r) = x /\ Tail(r) = s
         /\ \A i \in 1 .. Len(s) : EntryOf(r, i) = EntryOf(s, i)
         /\ EntryOf(r, Len(s) + 1) = x
         /\ \A X : \A i \in 1 .. Len(s) : i \in Heights(r, X) <=> i \in Heights(s, X)
         /\ \A X : \A i : i # Len(s) + 1 => (i \in Heights(r, X) <=> i \in Heights(s, X))
         /\ \A X : (Len(s) + 1 \in Heights(r, X)) <=> x \in X
         /\ \A X : Len(s) + 1 \notin Heights(s, X)
<1>1. PICK n \in Nat : n = Len(s)
  OBVIOUS
<1>2. /\ r \in Seq(Entries) /\ Len(r) = n + 1 /\ r # <<>>
      /\ Head(r) = x /\ Tail(r) = s
      /\ \A i \in 1 .. n : EntryOf(r, i) = EntryOf(s, i)
      /\ EntryOf(r, n + 1) = x
  <2>1. Longer(r, x, s)
    BY DEF Longer
  <2> QED
    BY <1>1, <2>1, EntryMore
<1>3. ASSUME NEW X, NEW i, i # n + 1 PROVE i \in Heights(r, X) <=> i \in Heights(s, X)
  <2>1. i \in 1 .. n + 1 <=> i \in 1 .. n
    BY <1>3
  <2> QED
    BY <1>1, <1>2, <2>1 DEF Heights
<1>4. ASSUME NEW X PROVE (n + 1 \in Heights(r, X) <=> x \in X) /\ n + 1 \notin Heights(s, X)
  BY <1>1, <1>2 DEF Heights
<1> QED
  BY <1>1, <1>2, <1>3, <1>4

(* The entries of one thread are finitely many.                            *)
LEMMA HeightsFinite ==
  ASSUME NEW s \in Seq(Entries), NEW X
  PROVE  IsFiniteSet(Heights(s, X)) /\ Heights(s, X) \subseteq 1 .. Len(s)
<1>1. IsFiniteSet(1 .. Len(s))
  BY FS_Interval
<1>2. Heights(s, X) \subseteq 1 .. Len(s)
  BY DEF Heights
<1> QED
  BY <1>1, <1>2, FS_Subset

(* The entries of all threads, gs being hs with entry x of thread t more.  *)
Adds(gs, hs, t, x) ==
  /\ gs[t] = <<x>> \o hs[t] /\ \A u \in Threads \ {t} : gs[u] = hs[u]

(* Then the marked places are the same but for the new one.                *)
LEMMA MarkedAdd ==
  ASSUME NEW t \in Threads, NEW hs \in [Threads -> Seq(Entries)], NEW x \in Entries,
         NEW gs, Adds(gs, hs, t, x), NEW X
  PROVE  LET p == <<t, Len(hs[t]) + 1>>
         IN  /\ \A q : q # p => (q \in Marked(gs, X) <=> q \in Marked(hs, X))
             /\ p \in Marked(gs, X) <=> x \in X
             /\ p \notin Marked(hs, X)
<1>1. PICK n \in Nat : n = Len(hs[t])
  OBVIOUS
<1>2. PICK p : p = <<t, n + 1>>
  OBVIOUS
<1>3. p \in Places /\ p[1] = t /\ p[2] = n + 1
  BY <1>2 DEF Places
<1>4. /\ \A i : i # n + 1 => (i \in Heights(gs[t], X) <=> i \in Heights(hs[t], X))
      /\ n + 1 \in Heights(gs[t], X) <=> x \in X
      /\ n + 1 \notin Heights(hs[t], X)
  BY <1>1, EntryFirst DEF Adds
<1>5. ASSUME NEW q, q # p PROVE q \in Marked(gs, X) <=> q \in Marked(hs, X)
  <2>1. SUFFICES ASSUME q \in Places
                 PROVE  q[2] \in Heights(gs[q[1]], X) <=> q[2] \in Heights(hs[q[1]], X)
    BY DEF Marked
  <2>2. q[1] \in Threads /\ q = <<q[1], q[2]>>
    BY <2>1 DEF Places
  <2>3. CASE q[1] = t
    BY <1>2, <1>4, <1>5, <2>2, <2>3
  <2>4. CASE q[1] # t
    BY <2>2, <2>4 DEF Adds
  <2> QED
    BY <2>3, <2>4
<1>6. (p \in Marked(gs, X) <=> x \in X) /\ p \notin Marked(hs, X)
  BY <1>3, <1>4 DEF Marked
<1> QED
  BY <1>1, <1>2, <1>5, <1>6
-----------------------------------------------------------------------------
(***************************************************************************)
(* What a step of thread t changes.                                        *)
(***************************************************************************)
(* Everything a step of t leaves alone in other threads.                   *)
Others(t) ==
  /\ \A u \in Threads \ {t} : todo'[u] = todo[u] /\ held'[u] = held[u]
  /\ \/ debuggerLock' = debuggerLock
     \/ debuggerLock.owner \in {"free", t} /\ debuggerLock'.owner \in {"free", t}

(* Nothing is expected of the other threads that was not expected before.  *)
LEMMA DueOthers ==
  ASSUME NEW t, Others(t), NEW u \in Threads \ {t}
  PROVE  Due(u)' = Due(u) /\ held'[u] = held[u]
  BY DEF Others, Due

(* What fits is in range.                                                  *)
LEMMA DueGood ==
  ASSUME NEW t \in Threads, todo \in [Threads -> Seq(StepNames)], Due(t).fit = "yes"
  PROVE  Good(Due(t))
<1>1. todo[t] \in Seq(StepNames)
  OBVIOUS
<1> QED
  BY <1>1, ExpectGood DEF Due

(* The other threads hold what their steps expect.                         *)
LEMMA FitOthers ==
  ASSUME NEW t \in Threads, Others(t), NEW u \in Threads \ {t}, Fit(u)
  PROVE  Fit(u)'
<1>1. Due(u)' = Due(u) /\ held'[u] = held[u]
  BY DueOthers
<1>2. (IF debuggerLock'.owner = u THEN debuggerLock'.depth ELSE 0)
        = IF debuggerLock.owner = u THEN debuggerLock.depth ELSE 0
  <2>1. CASE debuggerLock' = debuggerLock
    BY <2>1
  <2>2. CASE debuggerLock.owner \in {"free", t} /\ debuggerLock'.owner \in {"free", t}
    <3>1. u # "free" /\ u # t
      BY ConstantsAssumption DEF Threads, Emu
    <3> QED
      BY <2>2, <3>1
  <2> QED
    BY <2>1, <2>2 DEF Others
<1> QED
  BY <1>1, <1>2 DEF Fit

(* Blocks to take back.                                                    *)
LEMMA PendingStep ==
  ASSUME NEW t \in Threads, Others(t), Good(Due(t)), Good(Due(t)'), IsFiniteSet(Pending),
         Due(t)'.b \in {Due(t).b - 1, Due(t).b, Due(t).b + 1}
  PROVE  /\ IsFiniteSet(Pending') /\ Cardinality(Pending) \in Nat
         /\ Cardinality(Pending') \in Nat
         /\ Cardinality(Pending') = Cardinality(Pending) + Due(t)'.b - Due(t).b
<1>1. PICK m \in Nat, n \in Nat : m = Due(t).b /\ n = Due(t)'.b /\ n \in {m - 1, m, m + 1}
  BY DEF Good
<1>2. PICK p : p = <<t, IF n > m THEN n ELSE m>>
  OBVIOUS
<1>3. ASSUME NEW q, q # p PROVE q \in Pending' <=> q \in Pending
  <2>1. SUFFICES ASSUME q \in Places
                 PROVE  q[2] \in 1 .. Due(q[1])'.b <=> q[2] \in 1 .. Due(q[1]).b
    BY DEF Pending
  <2>2. q[1] \in Threads /\ q[2] \in Nat /\ q = <<q[1], q[2]>>
    BY <2>1 DEF Places
  <2>3. CASE q[1] = t
    <3>1. q[2] # IF n > m THEN n ELSE m
      BY <1>2, <1>3, <2>2, <2>3
    <3>2. q[2] \in 1 .. n <=> q[2] \in 1 .. m
      BY <1>1, <2>2, <3>1
    <3> QED
      BY <1>1, <2>3, <3>2
  <2>4. CASE q[1] # t
    BY <2>2, <2>4, DueOthers
  <2> QED
    BY <2>3, <2>4
<1>4. p \in Places /\ p[1] = t /\ p[2] = IF n > m THEN n ELSE m
  BY <1>1, <1>2 DEF Places
<1>5. (p \in Pending' <=> p[2] \in 1 .. n) /\ (p \in Pending <=> p[2] \in 1 .. m)
  BY <1>1, <1>4 DEF Pending
<1>6. /\ IsFiniteSet(Pending') /\ Cardinality(Pending) \in Nat
      /\ Cardinality(Pending') \in Nat
      /\ Cardinality(Pending') = Cardinality(Pending) + N(p \in Pending') - N(p \in Pending)
  BY <1>3, OnePoint
<1>7. CASE n = m
  <2>1. p \in Pending' <=> p \in Pending
    BY <1>5, <1>7
  <2> QED
    BY <1>1, <1>6, <1>7, <2>1 DEF N
<1>8. CASE n = m + 1
  <2>1. p \in Pending' /\ p \notin Pending
    BY <1>1, <1>4, <1>5, <1>8
  <2> QED
    BY <1>1, <1>6, <1>8, <2>1 DEF N
<1>9. CASE n = m - 1
  <2>1. p \notin Pending' /\ p \in Pending
    BY <1>1, <1>4, <1>5, <1>9
  <2> QED
    BY <1>1, <1>6, <1>9, <2>1 DEF N
<1> QED
  BY <1>1, <1>7, <1>8, <1>9

(* Threads that wait for the run lock, that may have suspended the debugger. *)
LEMMA WaitingStep ==
  ASSUME NEW t \in Threads, Others(t), IsFiniteSet(Waiting), IsFiniteSet(Suspending)
  PROVE  /\ IsFiniteSet(Waiting') /\ Cardinality(Waiting) \in Nat
         /\ Cardinality(Waiting') \in Nat
         /\ Cardinality(Waiting') = Cardinality(Waiting)
                + N(Due(t)'.first = "take") - N(Due(t).first = "take")
         /\ IsFiniteSet(Suspending')
         /\ Cardinality(Suspending) \in Nat /\ Cardinality(Suspending') \in Nat
         /\ Cardinality(Suspending') = Cardinality(Suspending)
                + N(Due(t)'.suspends = "yes") - N(Due(t).suspends = "yes")
<1>1. \A u : u # t => (u \in Waiting' <=> u \in Waiting)
  BY DueOthers DEF Waiting
<1>2. \A u : u # t => (u \in Suspending' <=> u \in Suspending)
  BY DueOthers DEF Suspending
<1>3. /\ t \in Waiting' <=> Due(t)'.first = "take"
      /\ t \in Waiting <=> Due(t).first = "take"
      /\ t \in Suspending' <=> Due(t)'.suspends = "yes"
      /\ t \in Suspending <=> Due(t).suspends = "yes"
  BY DEF Waiting, Suspending
<1>4. /\ IsFiniteSet(Waiting') /\ Cardinality(Waiting) \in Nat
      /\ Cardinality(Waiting') \in Nat
      /\ Cardinality(Waiting') = Cardinality(Waiting) + N(t \in Waiting') - N(t \in Waiting)
  BY <1>1, OnePoint
<1>5. /\ IsFiniteSet(Suspending')
      /\ Cardinality(Suspending) \in Nat /\ Cardinality(Suspending') \in Nat
      /\ Cardinality(Suspending')
           = Cardinality(Suspending) + N(t \in Suspending') - N(t \in Suspending)
  BY <1>2, OnePoint
<1> QED
  BY <1>3, <1>4, <1>5 DEF N

(***************************************************************************)
(* What a thread holds: nothing changes, an entry is taken, or one is      *)
(* given back.                                                             *)
(***************************************************************************)
LEMMA HoldAdds ==
  ASSUME NEW t \in Threads, held \in [Threads -> Seq(Entries)], NEW x \in Entries,
         Hold(t, x)
  PROVE  /\ Adds(held', held, t, x) /\ held' \in [Threads -> Seq(Entries)]
         /\ held'[t] = <<x>> \o held[t]
<1>1. <<x>> \o held[t] \in Seq(Entries)
  BY EntryFirst
<1> QED
  BY <1>1 DEF Hold, Adds

(* A thread that gives an entry back had one more before.                  *)
LEMMA GiveBackAdds ==
  ASSUME NEW t \in Threads, held \in [Threads -> Seq(Entries)], held[t] # <<>>, GiveBack(t)
  PROVE  /\ Adds(held, held', t, Head(held[t])) /\ held' \in [Threads -> Seq(Entries)]
         /\ held'[t] = Tail(held[t]) /\ Head(held[t]) \in Entries
<1>1. PICK s \in Seq(Entries) : s = held[t] /\ s # <<>>
  OBVIOUS
<1>2. Tail(s) \in Seq(Entries) /\ Head(s) \in Entries /\ s = <<Head(s)>> \o Tail(s)
  BY <1>1, ExpectHead
<1>3. held' \in [Threads -> Seq(Entries)] /\ held'[t] = Tail(s)
  BY <1>1, <1>2 DEF GiveBack
<1>4. \A u \in Threads \ {t} : held[u] = held'[u]
  BY DEF GiveBack
<1>5. held[t] = <<Head(held[t])>> \o held'[t]
  BY <1>1, <1>2, <1>3
<1> QED
  BY <1>1, <1>2, <1>3, <1>4, <1>5 DEF Adds

(* The entries of a kind.                                                  *)
LEMMA MarkedHold ==
  ASSUME NEW t \in Threads, held \in [Threads -> Seq(Entries)], NEW x \in Entries,
         Hold(t, x),
         NEW X, IsFiniteSet(Marked(held, X))
  PROVE  /\ IsFiniteSet(Marked(held', X))
         /\ Cardinality(Marked(held, X)) \in Nat /\ Cardinality(Marked(held', X)) \in Nat
         /\ Cardinality(Marked(held', X)) = Cardinality(Marked(held, X)) + N(x \in X)
<1>1. PICK p : p = <<t, Len(held[t]) + 1>>
  OBVIOUS
<1>2. /\ \A q : q # p => (q \in Marked(held', X) <=> q \in Marked(held, X))
      /\ p \in Marked(held', X) <=> x \in X
      /\ p \notin Marked(held, X)
  <2>1. Adds(held', held, t, x)
    BY HoldAdds
  <2> QED
    BY <1>1, <2>1, MarkedAdd
<1>3. /\ IsFiniteSet(Marked(held', X))
      /\ Cardinality(Marked(held, X)) \in Nat /\ Cardinality(Marked(held', X)) \in Nat
      /\ Cardinality(Marked(held', X)) = Cardinality(Marked(held, X))
           + N(p \in Marked(held', X)) - N(p \in Marked(held, X))
  BY <1>2, OnePoint
<1> QED
  BY <1>2, <1>3 DEF N

(* The count of marked places after an entry is given back.                *)
LEMMA MarkedGiveBack ==
  ASSUME NEW t \in Threads, held \in [Threads -> Seq(Entries)], held[t] # <<>>, GiveBack(t),
         NEW X, IsFiniteSet(Marked(held, X))
  PROVE  /\ IsFiniteSet(Marked(held', X))
         /\ Cardinality(Marked(held, X)) \in Nat /\ Cardinality(Marked(held', X)) \in Nat
         /\ Cardinality(Marked(held', X)) = Cardinality(Marked(held, X)) - N(Head(held[t]) \in X)
<1>1. PICK p : p = <<t, Len(held'[t]) + 1>>
  OBVIOUS
<1>2. /\ \A q : q # p => (q \in Marked(held, X) <=> q \in Marked(held', X))
      /\ p \in Marked(held, X) <=> Head(held[t]) \in X
      /\ p \notin Marked(held', X)
  <2>1. /\ Adds(held, held', t, Head(held[t])) /\ held' \in [Threads -> Seq(Entries)]
        /\ Head(held[t]) \in Entries
    BY GiveBackAdds
  <2>2. PICK hs \in [Threads -> Seq(Entries)], x \in Entries : /\ hs = held'
                                                               /\ x = Head(held[t])
    BY <2>1
  <2>3. PICK gs : gs = held /\ Adds(gs, hs, t, x)
    BY <2>1, <2>2
  <2>4. /\ \A q : q # p => (q \in Marked(gs, X) <=> q \in Marked(hs, X))
        /\ p \in Marked(gs, X) <=> x \in X
        /\ p \notin Marked(hs, X)
    <3>1. p = <<t, Len(hs[t]) + 1>>
      BY <1>1, <2>2
    <3> QED
      BY <2>3, <3>1, MarkedAdd
  <2> QED
    BY <2>2, <2>3, <2>4
<1>3. /\ IsFiniteSet(Marked(held', X))
      /\ Cardinality(Marked(held, X)) \in Nat /\ Cardinality(Marked(held', X)) \in Nat
      /\ Cardinality(Marked(held', X)) = Cardinality(Marked(held, X))
           + N(p \in Marked(held', X)) - N(p \in Marked(held, X))
  <2>1. \A q : q # p => (q \in Marked(held', X) <=> q \in Marked(held, X))
    BY <1>2
  <2> QED
    BY <2>1, OnePoint
<1>4. /\ N(p \in Marked(held', X)) = 0 /\ N(p \in Marked(held, X)) \in {0, 1}
      /\ N(p \in Marked(held, X)) = N(Head(held[t]) \in X)
  BY <1>2 DEF N
<1> QED
  BY <1>3, <1>4

(* The last entry of t has asked for a break.                              *)
Asked(t) == held[t] # <<>> /\ Head(held[t]) \in Breakers /\ Due(t).last = "used"

(* The last entry has the highest number.                                  *)
LEMMA EntryLast ==
  ASSUME NEW s \in Seq(Entries), NEW X
  PROVE  Len(s) \in Heights(s, X) <=> s # <<>> /\ Head(s) \in X
<1>1. PICK n \in Nat : n = Len(s)
  OBVIOUS
<1>2. CASE n = 0
  <2>1. s = <<>>
    BY <1>1, <1>2, EmptySeq
  <2> QED
    BY <1>1, <1>2, <2>1 DEF Heights
<1>3. CASE n # 0
  <2>1. s # <<>> /\ n \in 1 .. n /\ n + 1 - n = 1 /\ Head(s) = s[1]
    BY <1>1, <1>3
  <2>2. EntryOf(s, n) = Head(s)
    BY <1>1, <2>1 DEF EntryOf
  <2>3. n \in Heights(s, X) <=> EntryOf(s, n) \in X
    BY <1>1, <2>1 DEF Heights
  <2> QED
    BY <1>1, <2>1, <2>2, <2>3
<1> QED
  BY <1>2, <1>3

(* Whether the last entry is marked.                                       *)
LEMMA MarkedTop ==
  ASSUME NEW t \in Threads, NEW hs \in [Threads -> Seq(Entries)], NEW X
  PROVE  <<t, Len(hs[t])>> \in Marked(hs, X) <=> hs[t] # <<>> /\ Head(hs[t]) \in X
<1>1. PICK s \in Seq(Entries), n \in Nat : s = hs[t] /\ n = Len(s)
  OBVIOUS
<1>2. PICK p : p = <<t, n>>
  OBVIOUS
<1>3. p \in Places /\ p[1] = t /\ p[2] = n
  BY <1>2 DEF Places
<1>4. p \in Marked(hs, X) <=> n \in Heights(s, X)
  BY <1>1, <1>3 DEF Marked
<1> QED
  BY <1>1, <1>2, <1>4, EntryLast

(* The entries that have asked for a break: when only what is expected of  *)
(* the last one changes,                                                   *)
LEMMA BrokenSame ==
  ASSUME NEW t \in Threads, held \in [Threads -> Seq(Entries)], Others(t), held' = held,
         IsFiniteSet(Broken)
  PROVE  /\ IsFiniteSet(Broken') /\ Cardinality(Broken) \in Nat
         /\ Cardinality(Broken') \in Nat
         /\ Cardinality(Broken') = Cardinality(Broken) + N(Asked(t)') - N(Asked(t))
<1>1. PICK p : p = <<t, Len(held[t])>>
  OBVIOUS
<1>2. (p \in Broken <=> Asked(t)) /\ (p \in Broken' <=> Asked(t)')
  <2>1. p \in Marked(held, Breakers) <=> held[t] # <<>> /\ Head(held[t]) \in Breakers
    BY <1>1, MarkedTop
  <2>2. p[1] = t /\ p[2] = Len(held[t])
    BY <1>1
  <2>3. p \in Broken <=> Asked(t)
    BY <2>1, <2>2 DEF Broken, Asked
  <2>4. p \in Broken' <=> Asked(t)'
    BY <2>1, <2>2 DEF Broken, Asked
  <2> QED
    BY <2>3, <2>4
<1>3. ASSUME NEW q, q # p PROVE q \in Broken' <=> q \in Broken
  <2>1. SUFFICES ASSUME q \in Places
                 PROVE  (q[2] = Len(held[q[1]]) => Due(q[1])'.last = "used")
                          <=> (q[2] = Len(held[q[1]]) => Due(q[1]).last = "used")
    BY DEF Broken, Marked
  <2>2. q[1] \in Threads /\ q = <<q[1], q[2]>>
    BY <2>1 DEF Places
  <2>3. CASE q[1] = t
    BY <1>1, <1>3, <2>2, <2>3
  <2>4. CASE q[1] # t
    BY <2>2, <2>4, DueOthers
  <2> QED
    BY <2>3, <2>4
<1>4. /\ IsFiniteSet(Broken') /\ Cardinality(Broken) \in Nat /\ Cardinality(Broken') \in Nat
      /\ Cardinality(Broken') = Cardinality(Broken) + N(p \in Broken') - N(p \in Broken)
  BY <1>3, OnePoint
<1> QED
  BY <1>2, <1>4 DEF N
(* when an entry is taken,                                                 *)
LEMMA BrokenHold ==
  ASSUME NEW t \in Threads, held \in [Threads -> Seq(Entries)], NEW x \in Entries,
         Hold(t, x),
         Others(t), IsFiniteSet(Broken), Due(t).last = "used"
  PROVE  /\ IsFiniteSet(Broken') /\ Cardinality(Broken) \in Nat
         /\ Cardinality(Broken') \in Nat
         /\ Cardinality(Broken') = Cardinality(Broken) + N(Asked(t)')
<1>1. PICK n \in Nat : n = Len(held[t])
  OBVIOUS
<1>2. PICK p : p = <<t, n + 1>> /\ p[1] = t /\ p[2] = n + 1
  <2>1. <<t, n + 1>>[1] = t /\ <<t, n + 1>>[2] = n + 1
    OBVIOUS
  <2> QED
    BY <2>1
<1>3. Adds(held', held, t, x) /\ held'[t] = <<x>> \o held[t]
  BY HoldAdds
<1>4. /\ \A q : q # p => (q \in Marked(held', Breakers) <=> q \in Marked(held, Breakers))
      /\ p \in Marked(held', Breakers) <=> x \in Breakers
      /\ p \notin Marked(held, Breakers)
  BY <1>1, <1>2, <1>3, MarkedAdd
<1>5. Len(held'[t]) = n + 1 /\ held'[t] # <<>> /\ Head(held'[t]) = x
  BY <1>1, <1>3, EntryFirst
<1>6. p \notin Broken /\ (p \in Broken' <=> Asked(t)')
  BY <1>2, <1>4, <1>5 DEF Broken, Asked
<1>7. ASSUME NEW q, q # p PROVE q \in Broken' <=> q \in Broken
  <2>1. SUFFICES ASSUME q \in Marked(held, Breakers)
                 PROVE  (q[2] = Len(held'[q[1]]) => Due(q[1])'.last = "used")
                          <=> (q[2] = Len(held[q[1]]) => Due(q[1]).last = "used")
    BY <1>4, <1>7 DEF Broken
  <2>2. q[1] \in Threads /\ q = <<q[1], q[2]>>
    BY <2>1 DEF Marked, Places
  <2>3. CASE q[1] = t
    BY <1>2, <1>5, <1>7, <2>2, <2>3
  <2>4. CASE q[1] # t
    BY <2>2, <2>4, DueOthers
  <2> QED
    BY <2>3, <2>4
<1>8. /\ IsFiniteSet(Broken') /\ Cardinality(Broken) \in Nat /\ Cardinality(Broken') \in Nat
      /\ Cardinality(Broken') = Cardinality(Broken) + N(p \in Broken') - N(p \in Broken)
  BY <1>7, OnePoint
<1>9. /\ N(p \in Broken) = 0 /\ N(p \in Broken') \in {0, 1}
      /\ N(p \in Broken') = N(Asked(t)')
  BY <1>6 DEF N
<1> QED
  BY <1>8, <1>9

(* and when one is given back.                                             *)
LEMMA BrokenGiveBack ==
  ASSUME NEW t \in Threads, held \in [Threads -> Seq(Entries)], held[t] # <<>>, GiveBack(t),
         Others(t), IsFiniteSet(Broken), Due(t)'.last = "used"
  PROVE  /\ IsFiniteSet(Broken') /\ Cardinality(Broken) \in Nat
         /\ Cardinality(Broken') \in Nat
         /\ Cardinality(Broken') = Cardinality(Broken) - N(Asked(t))
<1>1. PICK hs \in [Threads -> Seq(Entries)], x \in Entries :
         /\ hs = held' /\ x = Head(held[t]) /\ Adds(held, hs, t, x)
  BY GiveBackAdds
<1>2. PICK n \in Nat : n = Len(hs[t])
  OBVIOUS
<1>3. PICK p : p = <<t, n + 1>> /\ p[1] = t /\ p[2] = n + 1
  <2>1. <<t, n + 1>>[1] = t /\ <<t, n + 1>>[2] = n + 1
    OBVIOUS
  <2> QED
    BY <2>1
<1>4. /\ \A q : q # p => (q \in Marked(held, Breakers) <=> q \in Marked(held', Breakers))
      /\ p \in Marked(held, Breakers) <=> x \in Breakers
      /\ p \notin Marked(held', Breakers)
  <2>1. PICK gs : gs = held
    OBVIOUS
  <2>2. Adds(gs, hs, t, x)
    BY <1>1, <2>1
  <2> QED
    BY <1>1, <1>2, <1>3, <2>1, <2>2, MarkedAdd, SMTT(30)
<1>5. Len(held[t]) = n + 1
  BY <1>1, <1>2, EntryFirst DEF Adds
<1>6. p \notin Broken' /\ (p \in Broken <=> Asked(t))
  BY <1>1, <1>3, <1>4, <1>5 DEF Broken, Asked
<1>7. ASSUME NEW q, q # p PROVE q \in Broken' <=> q \in Broken
  <2>1. SUFFICES ASSUME q \in Marked(held, Breakers)
                 PROVE  (q[2] = Len(held'[q[1]]) => Due(q[1])'.last = "used")
                          <=> (q[2] = Len(held[q[1]]) => Due(q[1]).last = "used")
    BY <1>4, <1>7 DEF Broken
  <2>2. q[1] \in Threads /\ q = <<q[1], q[2]>>
    BY <2>1 DEF Marked, Places
  <2>3. CASE q[1] = t
    BY <1>3, <1>5, <1>7, <2>2, <2>3
  <2>4. CASE q[1] # t
    BY <2>2, <2>4, DueOthers
  <2> QED
    BY <2>3, <2>4
<1>8. /\ IsFiniteSet(Broken') /\ Cardinality(Broken) \in Nat /\ Cardinality(Broken') \in Nat
      /\ Cardinality(Broken') = Cardinality(Broken) + N(p \in Broken') - N(p \in Broken)
  BY <1>7, OnePoint
<1>9. /\ N(p \in Broken') = 0 /\ N(p \in Broken) \in {0, 1}
      /\ N(p \in Broken) = N(Asked(t))
  BY <1>6 DEF N
<1> QED
  BY <1>8, <1>9
-----------------------------------------------------------------------------
(***************************************************************************)
(* The invariant after a step that takes and gives back nothing.           *)
(***************************************************************************)
(* Thread t's next steps fit what it holds, which is the same.             *)
LEMMA FitSame ==
  ASSUME NEW t \in Threads, Fit(t), held' = held, Due(t)'.fit = "yes", Due(t)'.h = Due(t).h,
         Due(t)'.last # "used" => Due(t).last # "used",
         Due(t)'.last = "real" => Head(held[t]).debugger # 0,
         Due(t)'.locks \subseteq Due(t).locks,
         Due(t)'.k = IF debuggerLock'.owner = t THEN debuggerLock'.depth ELSE 0
  PROVE  Fit(t)'
<1>1. Due(t)'.h = Len(held'[t])
  BY DEF Fit
<1>2. Due(t)'.last # "used" => held'[t] # <<>> /\ Head(held'[t]) \notin RunLocks
  BY DEF Fit
<1>3. \A i \in Due(t)'.locks : EntryOf(held'[t], i) \in RunLocks
  BY DEF Fit
<1> QED
  BY <1>1, <1>2, <1>3 DEF Fit

(* So every thread does, when the one that goes on does.                   *)
LEMMA FitAll ==
  ASSUME NEW t \in Threads, Others(t), \A u \in Threads : Fit(u), Fit(t)'
  PROVE  \A u \in Threads : Fit(u)'
<1>1. \A u \in Threads \ {t} : Fit(u)'
  BY FitOthers
<1> QED
  BY <1>1

(* No request is counted: no entry has a debugger.                         *)
LEMMA NoRequests ==
  ASSUME RequestsInv, debugRequestCount = 0, NEW u \in Threads, NEW i \in 1 .. Len(held[u])
  PROVE  held[u][i].kind # "request" /\ held[u][i].debugger = 0
<1>1. PICK s \in Seq(Entries), n \in Nat : s = held[u] /\ n = Len(s)
  BY DEF RequestsInv, Typed
<1>2. s[i] \in Entries /\ i \in 1 .. n
  BY <1>1
<1>3. SUFFICES ASSUME s[i].kind = "request" PROVE FALSE
  BY <1>1, <1>2 DEF RequestsInv, Current
<1>4. n + 1 - i \in 1 .. n /\ n + 1 - (n + 1 - i) = i
  BY <1>2
<1>5. EntryOf(s, n + 1 - i) \in Requests
  BY <1>1, <1>2, <1>3, <1>4 DEF EntryOf, Requests
<1>6. PICK p : p = <<u, n + 1 - i>>
  OBVIOUS
<1>7. p \in Marked(held, Requests)
  BY <1>1, <1>4, <1>5, <1>6 DEF Marked, Places, Heights
<1>8. Cardinality(Marked(held, Requests)) # 0
  BY <1>7, Counted DEF RequestsInv, Finite
<1> QED
  BY <1>8 DEF RequestsInv, Counts

(* The entries keep their debugger when it does not change.                *)
LEMMA CurrentSame ==
  ASSUME RequestsInv, held' = held, debugger' = debugger \/ debugRequestCount = 0
  PROVE  Current'
<1>1. CASE debugger' = debugger
  BY <1>1 DEF RequestsInv, Current
<1>2. CASE debugRequestCount = 0
  BY <1>2, NoRequests DEF Current
<1> QED
  BY <1>1, <1>2

(* What was drained stays drained: nobody counts a request meanwhile.      *)
LEMMA DrainedStep ==
  ASSUME NEW t \in Threads, Others(t), Drained,
         debugRequestCount' = debugRequestCount \/ \A u \in Threads : Due(u).requests # "none",
         Due(t)'.requests = "none" => debugRequestCount' = 0
  PROVE  Drained'
<1>1. ASSUME NEW u \in Threads, Due(u)'.requests = "none" PROVE debugRequestCount' = 0
  <2>1. CASE u = t
    BY <1>1, <2>1
  <2>2. CASE u # t
    BY <1>1, <2>2, DueOthers DEF Drained
  <2> QED
    BY <2>1, <2>2
<1> QED
  BY <1>1 DEF Drained

(* What the step does to the suspend count: a thread with the run lock     *)
(* starts it anew, or it is the one to lower it, or it does not fall.      *)
LowersStep(t) ==
  /\ Lowering(t)' => runLock'.owner = t
  /\ \A u \in Threads \ {t} : runLock.owner = u => runLock'.owner = u
  /\ debugger' # 0 /\ Due(t)'.suspends = "no" =>
       \/ suspendRequestCount' = 0 /\ runLock.owner = t /\ ~Lowering(t)'
       \/ /\ debugger # 0 /\ Due(t).suspends = "no"
          /\ \/ /\ suspendRequestCount' >= suspendRequestCount
                /\ Lowering(t)' => suspendRequestCount' # 0
             \/ /\ Lowering(t) /\ ~Lowering(t)'
                /\ suspendRequestCount' = suspendRequestCount - 1

(* Then it is not lowered too often.                                       *)
LEMMA LoweredStep ==
  ASSUME Lowered, NEW t \in Threads, \A u \in Threads \ {t} : todo'[u] = todo[u],
         suspendRequestCount \in Int, suspendRequestCount' \in Int, LowersStep(t)
  PROVE  Lowered'
<1>1. ASSUME NEW u \in Threads \ {t}
      PROVE  /\ Lowering(u)' <=> Lowering(u)
             /\ Due(u)'.suspends = Due(u).suspends
             /\ Lowering(u) => runLock.owner = u /\ runLock'.owner = u
  <2>1. Due(u)' = Due(u)
    BY DEF Due
  <2> QED
    BY <2>1 DEF Lowering, Lowered, LowersStep
<1>2. \A u \in Threads : Lowering(u)' => runLock'.owner = u
  BY <1>1 DEF LowersStep
<1>3. ASSUME debugger' # 0, \A u \in Threads : Due(u)'.suspends = "no"
      PROVE  /\ suspendRequestCount' >= 0
             /\ \A u \in Threads : Lowering(u)' => suspendRequestCount' >= 1
  <2>1. CASE suspendRequestCount' = 0 /\ runLock.owner = t /\ ~Lowering(t)'
    BY <1>1, <2>1
  <2>2. CASE /\ debugger # 0 /\ Due(t).suspends = "no"
             /\ \/ /\ suspendRequestCount' >= suspendRequestCount
                   /\ Lowering(t)' => suspendRequestCount' # 0
                \/ /\ Lowering(t) /\ ~Lowering(t)'
                   /\ suspendRequestCount' = suspendRequestCount - 1
    <3>1. \A u \in Threads : Due(u).suspends = "no"
      BY <1>1, <1>3, <2>2
    <3>2. /\ suspendRequestCount >= 0
          /\ \A u \in Threads : Lowering(u) => suspendRequestCount >= 1
      BY <2>2, <3>1 DEF Lowered
    <3>3. CASE /\ suspendRequestCount' >= suspendRequestCount
               /\ Lowering(t)' => suspendRequestCount' # 0
      <4>1. \A u \in Threads \ {t} : Lowering(u)' => suspendRequestCount' >= 1
        BY <1>1, <3>2, <3>3
      <4> QED
        BY <3>2, <3>3, <4>1
    <3>4. CASE /\ Lowering(t) /\ ~Lowering(t)'
               /\ suspendRequestCount' = suspendRequestCount - 1
      <4>1. runLock.owner = t
        BY <3>4 DEF Lowered
      <4>2. \A u \in Threads : ~Lowering(u)'
        BY <1>1, <3>4, <4>1
      <4> QED
        BY <3>2, <3>4, <4>2
    <3> QED
      BY <2>2, <3>3, <3>4
  <2> QED
    BY <1>3, <2>1, <2>2 DEF LowersStep
<1> QED
  BY <1>2, <1>3 DEF Lowered

(* What the step does to the counts is what it does to the sets.           *)
CountsStep(t) ==
  /\ Due(t)'.b \in {Due(t).b - 1, Due(t).b, Due(t).b + 1}
  /\ blockDebuggerRequestCount' - thrown'
       = blockDebuggerRequestCount - thrown + Due(t)'.b - Due(t).b
  /\ debugger' # 0 =>
       \/ suspendRequestCount' = 0
       \/ /\ debugger # 0
          /\ suspendRequestCount' - lockCounter' - N(Due(t)'.suspends = "yes")
               <= suspendRequestCount - lockCounter - N(Due(t).suspends = "yes")

(* What is expected changes for one thread: the blocks, the waiting        *)
(* threads and the suspensions are counted on.                             *)
LEMMA BlocksStep ==
  ASSUME RequestsInv, NEW t \in Threads, Typed', Others(t), Due(t)'.fit = "yes",
         CountsStep(t)
  PROVE  /\ IsFiniteSet(Pending') /\ IsFiniteSet(Waiting') /\ IsFiniteSet(Suspending')
         /\ blockDebuggerRequestCount' = thrown' + Cardinality(Pending')
         /\ debugger' # 0 => suspendRequestCount' <= lockCounter' + Cardinality(Suspending')
         /\ Cardinality(Waiting) \in Nat /\ Cardinality(Waiting') \in Nat
         /\ Cardinality(Waiting') = Cardinality(Waiting)
                + N(Due(t)'.first = "take") - N(Due(t).first = "take")
<1>1. Good(Due(t)) /\ Good(Due(t)')
  <2>1. Good(Due(t))
    BY DueGood DEF RequestsInv, Typed, Fit
  <2>2. todo'[t] \in Seq(StepNames) /\ Expect(t, todo'[t]).fit = "yes"
    BY DEF Typed, Due
  <2>3. Good(Expect(t, todo'[t]))
    BY <2>2, ExpectGood
  <2> QED
    BY <2>1, <2>3 DEF Due
<1>2. /\ IsFiniteSet(Pending') /\ Cardinality(Pending) \in Nat
      /\ Cardinality(Pending') \in Nat
      /\ Cardinality(Pending') = Cardinality(Pending) + Due(t)'.b - Due(t).b
  BY <1>1, PendingStep DEF RequestsInv, Finite, CountsStep
<1>3. /\ IsFiniteSet(Waiting') /\ Cardinality(Waiting) \in Nat
      /\ Cardinality(Waiting') \in Nat
      /\ Cardinality(Waiting') = Cardinality(Waiting)
             + N(Due(t)'.first = "take") - N(Due(t).first = "take")
      /\ IsFiniteSet(Suspending')
      /\ Cardinality(Suspending) \in Nat /\ Cardinality(Suspending') \in Nat
      /\ Cardinality(Suspending') = Cardinality(Suspending)
             + N(Due(t)'.suspends = "yes") - N(Due(t).suspends = "yes")
  BY WaitingStep DEF RequestsInv, Finite
<1>4. /\ blockDebuggerRequestCount \in Nat /\ blockDebuggerRequestCount' \in Nat
      /\ thrown \in Nat /\ thrown' \in Nat
      /\ suspendRequestCount \in Int /\ suspendRequestCount' \in Int
      /\ lockCounter \in Nat /\ lockCounter' \in Nat
  BY DEF RequestsInv, Typed
<1>5. blockDebuggerRequestCount' = thrown' + Cardinality(Pending')
  <2>1. blockDebuggerRequestCount = thrown + Cardinality(Pending)
    BY DEF RequestsInv, Counts
  <2> QED
    BY <1>1, <1>2, <1>4, <2>1 DEF CountsStep, Good
<1>6. ASSUME debugger' # 0 PROVE suspendRequestCount' <= lockCounter' + Cardinality(Suspending')
  <2>1. CASE suspendRequestCount' = 0
    BY <1>3, <1>4, <2>1
  <2>2. CASE debugger # 0 /\ suspendRequestCount' # 0
    <3>1. suspendRequestCount <= lockCounter + Cardinality(Suspending)
      BY <2>2 DEF RequestsInv, Counts
    <3>2. N(Due(t)'.suspends = "yes") \in {0, 1} /\ N(Due(t).suspends = "yes") \in {0, 1}
      BY DEF N
    <3> QED
      BY <1>3, <1>4, <1>6, <2>2, <3>1, <3>2 DEF CountsStep
  <2> QED
    BY <1>6, <2>1, <2>2 DEF CountsStep
<1> QED
  BY <1>2, <1>3, <1>5, <1>6

(* Everything together.                                                    *)
LEMMA HeldSame ==
  ASSUME RequestsInv, NEW t \in Threads, Typed', Others(t), held' = held, Fit(t)',
         CountsStep(t), LowersStep(t),
         debugRequestCount' = debugRequestCount,
         breakRequestCount' = breakRequestCount + N(Asked(t)') - N(Asked(t)),
         lockCounter' = lockCounter + N(Due(t)'.first = "take") - N(Due(t).first = "take"),
         Due(t)'.requests = "none" => debugRequestCount = 0,
         debugger' = debugger \/ debugRequestCount = 0,
         runLock' = runLock, runLock.owner = Emu <=> emu' \in {"run", "stopped", "actions"},
         Busy(Emu)' => emu' = "actions"
  PROVE  RequestsInv'
<1>1. held \in [Threads -> Seq(Entries)]
  BY DEF RequestsInv, Typed
<1>2. \A u \in Threads : Fit(u)'
  BY FitAll DEF RequestsInv
<1>3. RunLocked'
  BY DEF RequestsInv, RunLocked
<1>4. Current' /\ Drained'
  BY CurrentSame, DrainedStep DEF RequestsInv
<1>5. /\ Marked(held, Requests)' = Marked(held, Requests)
      /\ Marked(held, RunLocks)' = Marked(held, RunLocks)
  BY DEF Marked, Requests, RunLocks, Entries, Heights, EntryOf
<1>6. /\ IsFiniteSet(Broken') /\ Cardinality(Broken) \in Nat /\ Cardinality(Broken') \in Nat
      /\ Cardinality(Broken') = Cardinality(Broken) + N(Asked(t)') - N(Asked(t))
  BY <1>1, BrokenSame DEF RequestsInv, Finite
<1>7. Due(t)'.fit = "yes"
  BY DEF Fit
<1>8. /\ IsFiniteSet(Pending') /\ IsFiniteSet(Waiting') /\ IsFiniteSet(Suspending')
      /\ blockDebuggerRequestCount' = thrown' + Cardinality(Pending')
      /\ debugger' # 0 => suspendRequestCount' <= lockCounter' + Cardinality(Suspending')
      /\ Cardinality(Waiting) \in Nat /\ Cardinality(Waiting') \in Nat
      /\ Cardinality(Waiting') = Cardinality(Waiting)
             + N(Due(t)'.first = "take") - N(Due(t).first = "take")
  BY <1>7, BlocksStep
<1>9. Finite'
  BY <1>5, <1>6, <1>8 DEF RequestsInv, Finite
<1>10. breakRequestCount' = Cardinality(Broken')
  BY <1>6 DEF RequestsInv, Counts
<1>11. lockCounter' = Cardinality(Marked(held, RunLocks)) + Cardinality(Waiting')
  <2>1. lockCounter = Cardinality(Marked(held, RunLocks)) + Cardinality(Waiting)
    BY DEF RequestsInv, Counts
  <2>2. Cardinality(Marked(held, RunLocks)) \in Nat
    BY FS_CardinalityType DEF RequestsInv, Finite
  <2>3. N(Due(t)'.first = "take") \in {0, 1} /\ N(Due(t).first = "take") \in {0, 1}
    BY DEF N
  <2> QED
    BY <1>8, <2>1, <2>2, <2>3
<1>12. Counts'
  BY <1>5, <1>8, <1>10, <1>11 DEF RequestsInv, Counts
<1>20. Lowered'
  BY LoweredStep DEF RequestsInv, Typed, Others
<1> QED
  BY <1>2, <1>3, <1>4, <1>9, <1>12, <1>20 DEF RequestsInv
(***************************************************************************)
(* The invariant after an entry is taken, or given back.                   *)
(***************************************************************************)
LEMMA HeightsFirst ==
  ASSUME NEW s \in Seq(Entries), NEW x \in Entries, NEW r, r = <<x>> \o s, NEW X
  PROVE  /\ Cardinality(Heights(s, X)) \in Nat /\ Cardinality(Heights(r, X)) \in Nat
         /\ Cardinality(Heights(r, X)) = Cardinality(Heights(s, X)) + N(x \in X)
<1>1. PICK n : n = Len(s) + 1
  OBVIOUS
<1>2. /\ \A i : i # n => (i \in Heights(r, X) <=> i \in Heights(s, X))
      /\ (n \in Heights(r, X) <=> x \in X) /\ n \notin Heights(s, X)
  BY <1>1, EntryFirst
<1>3. IsFiniteSet(Heights(s, X))
  BY HeightsFinite
<1>4. /\ Cardinality(Heights(s, X)) \in Nat /\ Cardinality(Heights(r, X)) \in Nat
      /\ Cardinality(Heights(r, X)) = Cardinality(Heights(s, X))
           + N(n \in Heights(r, X)) - N(n \in Heights(s, X))
  BY <1>2, <1>3, OnePoint
<1> QED
  BY <1>2, <1>4 DEF N

(* Who has the run lock, and how often.                                    *)
LocksOf(lock, u) ==
  IF lock.owner # u THEN 0 ELSE IF u = Emu THEN lock.depth - 1 ELSE lock.depth

(* The run lock goes on as what threads hold does.                         *)
LEMMA RunLockedStep ==
  ASSUME NEW t \in Threads, Others(t), RunLocked,
         Cardinality(Heights(held'[t], RunLocks)) = LocksOf(runLock', t),
         \A u \in Threads \ {t} : LocksOf(runLock', u) = LocksOf(runLock, u),
         runLock'.owner = Emu <=> emu' \in {"run", "stopped", "actions"},
         Busy(Emu)' => emu' = "actions"
  PROVE  RunLocked'
<1>1. ASSUME NEW u \in Threads
      PROVE  Cardinality(Heights(held'[u], RunLocks)) = LocksOf(runLock', u)
  <2>1. CASE u = t
    BY <2>1
  <2>2. CASE u # t
    <3>1. Cardinality(Heights(held[u], RunLocks)) = LocksOf(runLock, u)
      BY DEF RunLocked, LocksOf
    <3>2. held'[u] = held[u] /\ LocksOf(runLock', u) = LocksOf(runLock, u)
      BY <2>2 DEF Others
    <3> QED
      BY <3>1, <3>2
  <2> QED
    BY <2>1, <2>2
<1>2. RunLocks' = RunLocks
  BY DEF RunLocks, Entries
<1>3. \A u \in Threads : Cardinality(Heights(held[u], RunLocks))' = LocksOf(runLock', u)
  BY <1>1, <1>2 DEF Heights, EntryOf, RunLocks, Entries
<1> QED
  BY <1>3 DEF RunLocked, LocksOf

(* An entry is taken, and the run lock with it,                            *)
LEMMA TakenRunLock ==
  ASSUME RequestsInv, NEW t \in Threads, Others(t), NEW x \in Entries, Hold(t, x), Busy(t),
         IF x \in RunLocks THEN CanTake(runLock, t) /\ runLock' = Taken(runLock, t)
                           ELSE runLock' = runLock,
         emu' = emu, Busy(t)' => Busy(t)
  PROVE  RunLocked'
<1>1. /\ held[t] \in Seq(Entries) /\ runLock \in LockType /\ runLock.depth \in Nat
      /\ runLock.owner = "free" <=> runLock.depth = 0
  BY DEF RequestsInv, Typed, LockType
<1>2. held'[t] = <<x>> \o held[t]
  BY HoldAdds DEF RequestsInv, Typed
<1>3. Cardinality(Heights(held'[t], RunLocks)) = LocksOf(runLock, t) + N(x \in RunLocks)
  <2>1. Cardinality(Heights(held[t], RunLocks)) = LocksOf(runLock, t)
    BY DEF RequestsInv, RunLocked, LocksOf
  <2>2. PICK s \in Seq(Entries) : s = held[t]
    BY <1>1
  <2>3. PICK r, X : r = held'[t] /\ r = <<x>> \o s /\ X = RunLocks
    BY <1>2, <2>2
  <2>4. Cardinality(Heights(r, X)) = Cardinality(Heights(s, X)) + N(x \in X)
    BY <2>3, HeightsFirst
  <2> QED
    BY <2>1, <2>2, <2>3, <2>4
<1>4. t = Emu => runLock.owner = Emu /\ emu = "actions"
  BY DEF RequestsInv, RunLocked
<1>5. Busy(Emu)' => emu' = "actions"
  <2>1. CASE t = Emu
    BY <1>4, <2>1
  <2>2. CASE t # Emu
    BY <2>2 DEF Others, Busy, RequestsInv, RunLocked, Threads
  <2> QED
    BY <2>1, <2>2
<1>6. t # "free" /\ Emu # "free"
  BY ConstantsAssumption DEF Threads, Emu
<1>7. CASE x \in RunLocks
  <2>1. /\ runLock.owner \in {"free", t}
        /\ runLock' = [owner |-> t, depth |-> runLock.depth + 1]
    BY <1>7 DEF CanTake, Taken
  <2>2. N(x \in RunLocks) = 1
    BY <1>7 DEF N
  <2>3. Cardinality(Heights(held'[t], RunLocks)) = LocksOf(runLock', t)
    BY <1>1, <1>3, <1>4, <1>6, <2>1, <2>2 DEF LocksOf
  <2>4. \A u \in Threads \ {t} : LocksOf(runLock', u) = LocksOf(runLock, u)
    <3>1. \A u \in Threads \ {t} : u # "free"
      BY ConstantsAssumption DEF Threads, Emu
    <3> QED
      BY <2>1, <3>1 DEF LocksOf
  <2>5. runLock'.owner = Emu <=> emu' \in {"run", "stopped", "actions"}
    <3>1. runLock'.owner = t
      BY <2>1
    <3>2. runLock.owner = Emu <=> t = Emu
      BY <1>4, <1>6, <2>1
    <3> QED
      BY <3>1, <3>2 DEF RequestsInv, RunLocked
  <2> QED
    BY <1>5, <2>3, <2>4, <2>5, RunLockedStep DEF RequestsInv
<1>8. CASE x \notin RunLocks
  <2>1. runLock' = runLock /\ N(x \in RunLocks) = 0
    BY <1>8 DEF N
  <2>2. Cardinality(Heights(held'[t], RunLocks)) = LocksOf(runLock', t)
    BY <1>1, <1>3, <2>1 DEF LocksOf
  <2>3. runLock'.owner = Emu <=> emu' \in {"run", "stopped", "actions"}
    BY <2>1 DEF RequestsInv, RunLocked
  <2> QED
    BY <1>5, <2>1, <2>2, <2>3, RunLockedStep DEF RequestsInv
<1> QED
  BY <1>7, <1>8

(* or given back.                                                          *)
LEMMA GivenRunLock ==
  ASSUME RequestsInv, NEW t \in Threads, Others(t), held[t] # <<>>, GiveBack(t), Busy(t),
         runLock' = IF Head(held[t]) \in RunLocks THEN Given(runLock) ELSE runLock,
         emu' = emu, Busy(t)' => Busy(t)
  PROVE  RunLocked'
<1>1. /\ held[t] \in Seq(Entries) /\ runLock \in LockType /\ runLock.depth \in Nat
      /\ runLock.owner = "free" <=> runLock.depth = 0
  BY DEF RequestsInv, Typed, LockType
<1>2. PICK x \in Entries, s \in Seq(Entries) :
         x = Head(held[t]) /\ s = held'[t] /\ held[t] = <<x>> \o s
  BY GiveBackAdds DEF RequestsInv, Typed, Adds
<1>3. /\ Cardinality(Heights(held'[t], RunLocks)) \in Nat
      /\ Cardinality(Heights(held'[t], RunLocks)) + N(x \in RunLocks) = LocksOf(runLock, t)
  <2>1. Cardinality(Heights(held[t], RunLocks)) = LocksOf(runLock, t)
    BY DEF RequestsInv, RunLocked, LocksOf
  <2>2. /\ Cardinality(Heights(s, RunLocks)) \in Nat
        /\ Cardinality(Heights(held[t], RunLocks))
             = Cardinality(Heights(s, RunLocks)) + N(x \in RunLocks)
    <3>1. PICK r, X : r = held[t] /\ r = <<x>> \o s /\ X = RunLocks
      BY <1>2
    <3>2. /\ Cardinality(Heights(s, X)) \in Nat
          /\ Cardinality(Heights(r, X)) = Cardinality(Heights(s, X)) + N(x \in X)
      BY <3>1, HeightsFirst
    <3> QED
      BY <3>1, <3>2
  <2> QED
    BY <1>2, <2>1, <2>2
<1>4. t = Emu => runLock.owner = Emu /\ emu = "actions"
  BY DEF RequestsInv, RunLocked
<1>5. Busy(Emu)' => emu' = "actions"
  <2>1. CASE t = Emu
    BY <1>4, <2>1
  <2>2. CASE t # Emu
    BY <2>2 DEF Others, Busy, RequestsInv, RunLocked, Threads
  <2> QED
    BY <2>1, <2>2
<1>6. t # "free" /\ Emu # "free" /\ \A u \in Threads \ {t} : u # "free"
  BY ConstantsAssumption DEF Threads, Emu
<1>7. CASE x \in RunLocks
  <2>1. N(x \in RunLocks) = 1 /\ runLock' = Given(runLock)
    BY <1>2, <1>7 DEF N
  <2>2. runLock.owner = t /\ LocksOf(runLock, t) >= 1
    BY <1>1, <1>3, <2>1 DEF LocksOf
  <2>3. CASE runLock.depth = 1
    <3>1. t # Emu
      BY <1>1, <2>2, <2>3 DEF LocksOf
    <3>2. runLock'.owner = "free"
      BY <2>1, <2>3 DEF Given, Free
    <3>3. Cardinality(Heights(held'[t], RunLocks)) = LocksOf(runLock', t)
      BY <1>1, <1>3, <1>6, <2>1, <2>2, <2>3, <3>1, <3>2 DEF LocksOf
    <3>4. \A u \in Threads \ {t} : LocksOf(runLock', u) = LocksOf(runLock, u)
      BY <1>6, <2>2, <3>2 DEF LocksOf
    <3>5. runLock'.owner = Emu <=> emu' \in {"run", "stopped", "actions"}
      BY <1>6, <2>2, <3>1, <3>2 DEF RequestsInv, RunLocked
    <3> QED
      BY <1>5, <3>3, <3>4, <3>5, RunLockedStep DEF RequestsInv
  <2>4. CASE runLock.depth # 1
    <3>1. runLock'.owner = t /\ runLock'.depth = runLock.depth - 1
      BY <1>1, <2>1, <2>2, <2>4 DEF Given, LockType
    <3>2. Cardinality(Heights(held'[t], RunLocks)) = LocksOf(runLock', t)
      BY <1>1, <1>3, <2>1, <2>2, <3>1 DEF LocksOf
    <3>3. \A u \in Threads \ {t} : LocksOf(runLock', u) = LocksOf(runLock, u)
      BY <2>2, <3>1 DEF LocksOf
    <3>4. runLock'.owner = Emu <=> emu' \in {"run", "stopped", "actions"}
      BY <2>2, <3>1 DEF RequestsInv, RunLocked
    <3> QED
      BY <1>5, <3>2, <3>3, <3>4, RunLockedStep DEF RequestsInv
  <2> QED
    BY <2>3, <2>4
<1>8. CASE x \notin RunLocks
  <2>1. runLock' = runLock /\ N(x \in RunLocks) = 0
    BY <1>2, <1>8 DEF N
  <2>2. Cardinality(Heights(held'[t], RunLocks)) = LocksOf(runLock', t)
    BY <1>1, <1>3, <2>1 DEF LocksOf
  <2>3. runLock'.owner = Emu <=> emu' \in {"run", "stopped", "actions"}
    BY <2>1 DEF RequestsInv, RunLocked
  <2> QED
    BY <1>5, <2>1, <2>2, <2>3, RunLockedStep DEF RequestsInv
<1> QED
  BY <1>7, <1>8
(* A step that takes an entry keeps the invariant.                         *)
LEMMA HeldMore ==
  ASSUME RequestsInv, NEW t \in Threads, Typed', Others(t), NEW x \in Entries, Hold(t, x),
         Fit(t)', CountsStep(t), LowersStep(t), RunLocked', Current',
         debugRequestCount' = debugRequestCount + N(x \in Requests),
         breakRequestCount' = breakRequestCount, Due(t).last = "used", ~ Asked(t)',
         lockCounter' = lockCounter + N(x \in RunLocks)
                          + N(Due(t)'.first = "take") - N(Due(t).first = "take"),
         debugRequestCount' = debugRequestCount \/ \A u \in Threads : Due(u).requests # "none",
         Due(t)'.requests = "none" => debugRequestCount' = 0
  PROVE  RequestsInv'
<1>1. held \in [Threads -> Seq(Entries)]
  BY DEF RequestsInv, Typed
<1>2. \A u \in Threads : Fit(u)'
  BY FitAll DEF RequestsInv
<1>3. Drained'
  BY DrainedStep DEF RequestsInv
<1>4. /\ Marked(held, Requests)' = Marked(held', Requests)
      /\ Marked(held, RunLocks)' = Marked(held', RunLocks)
  BY DEF Marked, Requests, RunLocks, Entries, Heights, EntryOf
<1>5. /\ IsFiniteSet(Marked(held', Requests))
      /\ Cardinality(Marked(held, Requests)) \in Nat
      /\ Cardinality(Marked(held', Requests)) \in Nat
      /\ Cardinality(Marked(held', Requests))
           = Cardinality(Marked(held, Requests)) + N(x \in Requests)
  <2>1. PICK X : X = Requests
    OBVIOUS
  <2>2. IsFiniteSet(Marked(held, X))
    BY <2>1 DEF RequestsInv, Finite
  <2>3. /\ IsFiniteSet(Marked(held', X))
        /\ Cardinality(Marked(held, X)) \in Nat /\ Cardinality(Marked(held', X)) \in Nat
        /\ Cardinality(Marked(held', X))
             = Cardinality(Marked(held, X)) + N(x \in X)
    BY <1>1, <2>2, MarkedHold
  <2> QED
    BY <2>1, <2>3
<1>6. /\ IsFiniteSet(Marked(held', RunLocks))
      /\ Cardinality(Marked(held, RunLocks)) \in Nat
      /\ Cardinality(Marked(held', RunLocks)) \in Nat
      /\ Cardinality(Marked(held', RunLocks))
           = Cardinality(Marked(held, RunLocks)) + N(x \in RunLocks)
  <2>1. PICK X : X = RunLocks
    OBVIOUS
  <2>2. IsFiniteSet(Marked(held, X))
    BY <2>1 DEF RequestsInv, Finite
  <2>3. /\ IsFiniteSet(Marked(held', X))
        /\ Cardinality(Marked(held, X)) \in Nat /\ Cardinality(Marked(held', X)) \in Nat
        /\ Cardinality(Marked(held', X))
             = Cardinality(Marked(held, X)) + N(x \in X)
    BY <1>1, <2>2, MarkedHold
  <2> QED
    BY <2>1, <2>3
<1>7. /\ IsFiniteSet(Broken') /\ Cardinality(Broken) \in Nat /\ Cardinality(Broken') \in Nat
      /\ Cardinality(Broken') = Cardinality(Broken) + N(Asked(t)')
  BY <1>1, BrokenHold DEF RequestsInv, Finite
<1>8. Due(t)'.fit = "yes"
  BY DEF Fit
<1>9. /\ IsFiniteSet(Pending') /\ IsFiniteSet(Waiting') /\ IsFiniteSet(Suspending')
      /\ blockDebuggerRequestCount' = thrown' + Cardinality(Pending')
      /\ debugger' # 0 => suspendRequestCount' <= lockCounter' + Cardinality(Suspending')
      /\ Cardinality(Waiting) \in Nat /\ Cardinality(Waiting') \in Nat
      /\ Cardinality(Waiting') = Cardinality(Waiting)
             + N(Due(t)'.first = "take") - N(Due(t).first = "take")
  BY <1>8, BlocksStep
<1>10. Finite'
  BY <1>4, <1>5, <1>6, <1>7, <1>9 DEF Finite
<1>11. breakRequestCount' = Cardinality(Broken')
  <2>1. breakRequestCount = Cardinality(Broken)
    BY DEF RequestsInv, Counts
  <2> QED
    BY <1>7, <2>1 DEF N
<1>12. debugRequestCount' = Cardinality(Marked(held', Requests))
  <2>1. debugRequestCount = Cardinality(Marked(held, Requests))
    BY DEF RequestsInv, Counts
  <2> QED
    BY <1>5, <2>1
<1>13. lockCounter' = Cardinality(Marked(held', RunLocks)) + Cardinality(Waiting')
  <2>1. lockCounter = Cardinality(Marked(held, RunLocks)) + Cardinality(Waiting)
    BY DEF RequestsInv, Counts
  <2>2. /\ N(Due(t)'.first = "take") \in {0, 1} /\ N(Due(t).first = "take") \in {0, 1}
        /\ N(x \in RunLocks) \in {0, 1}
    BY DEF N
  <2> QED
    BY <1>6, <1>9, <2>1, <2>2
<1>14. Counts'
  BY <1>4, <1>9, <1>11, <1>12, <1>13 DEF Counts
<1>20. Lowered'
  BY LoweredStep DEF RequestsInv, Typed, Others
<1> QED
  BY <1>2, <1>3, <1>10, <1>14, <1>20 DEF RequestsInv

(* A step that gives an entry back keeps the invariant.                    *)
LEMMA HeldLess ==
  ASSUME RequestsInv, NEW t \in Threads, Typed', Others(t), NEW x, x = Head(held[t]),
         held[t] # <<>>, GiveBack(t),
         Fit(t)', CountsStep(t), LowersStep(t), RunLocked', Current',
         debugRequestCount' = debugRequestCount - N(x \in Requests),
         breakRequestCount' = breakRequestCount - N(Asked(t)), Due(t)'.last = "used",
         lockCounter' = lockCounter - N(x \in RunLocks)
                          + N(Due(t)'.first = "take") - N(Due(t).first = "take"),
         debugRequestCount' = debugRequestCount \/ \A u \in Threads : Due(u).requests # "none",
         Due(t)'.requests = "none" => debugRequestCount' = 0
  PROVE  RequestsInv'
<1>1. held \in [Threads -> Seq(Entries)]
  BY DEF RequestsInv, Typed
<1>2. \A u \in Threads : Fit(u)'
  BY FitAll DEF RequestsInv
<1>3. Drained'
  BY DrainedStep DEF RequestsInv
<1>4. /\ Marked(held, Requests)' = Marked(held', Requests)
      /\ Marked(held, RunLocks)' = Marked(held', RunLocks)
  BY DEF Marked, Requests, RunLocks, Entries, Heights, EntryOf
<1>5. /\ IsFiniteSet(Marked(held', Requests))
      /\ Cardinality(Marked(held, Requests)) \in Nat
      /\ Cardinality(Marked(held', Requests)) \in Nat
      /\ Cardinality(Marked(held', Requests))
           = Cardinality(Marked(held, Requests)) - N(x \in Requests)
  <2>1. PICK X : X = Requests
    OBVIOUS
  <2>2. IsFiniteSet(Marked(held, X))
    BY <2>1 DEF RequestsInv, Finite
  <2>3. /\ IsFiniteSet(Marked(held', X))
        /\ Cardinality(Marked(held, X)) \in Nat /\ Cardinality(Marked(held', X)) \in Nat
        /\ Cardinality(Marked(held', X))
             = Cardinality(Marked(held, X)) - N(x \in X)
    BY <1>1, <2>2, MarkedGiveBack
  <2> QED
    BY <2>1, <2>3
<1>6. /\ IsFiniteSet(Marked(held', RunLocks))
      /\ Cardinality(Marked(held, RunLocks)) \in Nat
      /\ Cardinality(Marked(held', RunLocks)) \in Nat
      /\ Cardinality(Marked(held', RunLocks))
           = Cardinality(Marked(held, RunLocks)) - N(x \in RunLocks)
  <2>1. PICK X : X = RunLocks
    OBVIOUS
  <2>2. IsFiniteSet(Marked(held, X))
    BY <2>1 DEF RequestsInv, Finite
  <2>3. /\ IsFiniteSet(Marked(held', X))
        /\ Cardinality(Marked(held, X)) \in Nat /\ Cardinality(Marked(held', X)) \in Nat
        /\ Cardinality(Marked(held', X))
             = Cardinality(Marked(held, X)) - N(x \in X)
    BY <1>1, <2>2, MarkedGiveBack
  <2> QED
    BY <2>1, <2>3
<1>7. /\ IsFiniteSet(Broken') /\ Cardinality(Broken) \in Nat /\ Cardinality(Broken') \in Nat
      /\ Cardinality(Broken') = Cardinality(Broken) - N(Asked(t))
  BY <1>1, BrokenGiveBack DEF RequestsInv, Finite
<1>8. Due(t)'.fit = "yes"
  BY DEF Fit
<1>9. /\ IsFiniteSet(Pending') /\ IsFiniteSet(Waiting') /\ IsFiniteSet(Suspending')
      /\ blockDebuggerRequestCount' = thrown' + Cardinality(Pending')
      /\ debugger' # 0 => suspendRequestCount' <= lockCounter' + Cardinality(Suspending')
      /\ Cardinality(Waiting) \in Nat /\ Cardinality(Waiting') \in Nat
      /\ Cardinality(Waiting') = Cardinality(Waiting)
             + N(Due(t)'.first = "take") - N(Due(t).first = "take")
  BY <1>8, BlocksStep
<1>10. Finite'
  BY <1>4, <1>5, <1>6, <1>7, <1>9 DEF Finite
<1>11. breakRequestCount' = Cardinality(Broken')
  <2>1. breakRequestCount = Cardinality(Broken)
    BY DEF RequestsInv, Counts
  <2> QED
    BY <1>7, <2>1 DEF N
<1>12. debugRequestCount' = Cardinality(Marked(held', Requests))
  <2>1. debugRequestCount = Cardinality(Marked(held, Requests))
    BY DEF RequestsInv, Counts
  <2> QED
    BY <1>5, <2>1
<1>13. lockCounter' = Cardinality(Marked(held', RunLocks)) + Cardinality(Waiting')
  <2>1. lockCounter = Cardinality(Marked(held, RunLocks)) + Cardinality(Waiting)
    BY DEF RequestsInv, Counts
  <2>2. PICK n \in {0, 1}, n1 \in {0, 1}, l \in {0, 1} :
          /\ n = N(Due(t).first = "take") /\ n1 = N(Due(t)'.first = "take")
          /\ l = N(x \in RunLocks)
    BY DEF N
  <2>3. lockCounter' = lockCounter - l + n1 - n
    BY <2>2
  <2>4. /\ Cardinality(Marked(held', RunLocks)) = Cardinality(Marked(held, RunLocks)) - l
        /\ Cardinality(Waiting') = Cardinality(Waiting) + n1 - n
    BY <1>6, <1>9, <2>2
  <2> QED
    BY <1>6, <1>9, <2>1, <2>3, <2>4
<1>14. Counts'
  BY <1>4, <1>9, <1>11, <1>12, <1>13 DEF Counts
<1>20. Lowered'
  BY LoweredStep DEF RequestsInv, Typed, Others
<1> QED
  BY <1>2, <1>3, <1>10, <1>14, <1>20 DEF RequestsInv

-----------------------------------------------------------------------------
(***************************************************************************)
(* A thread at a step, and after it.                                       *)
(***************************************************************************)
(* What follows from step s of thread t being next; e is what is expected  *)
(* after it.                                                               *)
AtStepOf(t, s, e) ==
  /\ IsBefore(Due(t), t, s, e) /\ Fits(t, s, e) /\ Good(e) /\ Good(Due(t))
  /\ Due(t).fit = "yes" /\ Fit(t) /\ Busy(t)
  /\ todo \in [Threads -> Seq(StepNames)] /\ held \in [Threads -> Seq(Entries)]
  /\ todo[t] # <<>> /\ Tail(todo[t]) \in Seq(StepNames)
  /\ t = Emu => emu = "actions" /\ runLock.owner = Emu
  /\ (Due(t).requests = "none" => debugRequestCount = 0)
  /\ runLock.owner = Emu <=> emu \in {"run", "stopped", "actions"}

(* The step that is next fits what is expected after it.                   *)
LEMMA AtDue ==
  ASSUME RequestsInv, NEW t \in Threads, NEW s, At(t, s)
  PROVE  AtStepOf(t, s, Expect(t, Tail(todo[t])))
<1>1. /\ todo \in [Threads -> Seq(StepNames)] /\ held \in [Threads -> Seq(Entries)]
      /\ todo[t] \in Seq(StepNames) /\ todo[t] # <<>> /\ Head(todo[t]) = s
  BY DEF RequestsInv, Typed, At
<1>2. Fit(t) /\ Due(t).fit = "yes" /\ Busy(t)
  BY <1>1 DEF RequestsInv, Fit, Busy
<1>3. PICK q, e :
         /\ q \in Seq(StepNames) /\ q = todo[t] /\ q # <<>> /\ Head(q) = s
         /\ e = Expect(t, Tail(q))
         /\ Expect(t, q).fit = "yes"
  BY <1>1, <1>2 DEF Due
<1>4. /\ IsBefore(Expect(t, q), t, s, e) /\ Fits(t, s, e) /\ Good(e) /\ Good(Expect(t, q))
      /\ Tail(q) \in Seq(StepNames)
  BY <1>3, AtStep
<1>5. IsBefore(Due(t), t, s, e) /\ Good(Due(t)) /\ Tail(todo[t]) \in Seq(StepNames)
  BY <1>3, <1>4 DEF Due
<1>6. t = Emu => emu = "actions" /\ runLock.owner = Emu
  BY <1>2 DEF RequestsInv, RunLocked
<1>7. /\ (Due(t).requests = "none" => debugRequestCount = 0)
      /\ runLock.owner = Emu <=> emu \in {"run", "stopped", "actions"}
  BY DEF RequestsInv, RunLocked, Drained
<1> QED
  BY <1>1, <1>2, <1>3, <1>4, <1>5, <1>6, <1>7 DEF AtStepOf

(* What is expected after a step is replaced by others,                    *)
LEMMA Continues ==
  ASSUME NEW t \in Threads, todo \in [Threads -> Seq(StepNames)], todo[t] # <<>>,
         NEW p, p \o Tail(todo[t]) \in Seq(StepNames), Continue(t, p, 1)
  PROVE  /\ todo' \in [Threads -> Seq(StepNames)]
         /\ Due(t)' = Expect(t, p \o Tail(todo[t]))
         /\ \A u \in Threads \ {t} : todo'[u] = todo[u]
<1>1. PICK q \in Seq(StepNames) : q = todo[t] /\ q # <<>>
  OBVIOUS
<1>2. SubSeq(q, 1 + 1, Len(q)) = Tail(q)
  BY <1>1
<1>3. todo' = [todo EXCEPT ![t] = p \o Tail(todo[t])]
  BY <1>1, <1>2 DEF Continue
<1> QED
  BY <1>3 DEF Due

(* or is done.                                                             *)
LEMMA Goes ==
  ASSUME NEW t \in Threads, todo \in [Threads -> Seq(StepNames)], todo[t] # <<>>,
         Continue(t, <<>>, 1)
  PROVE  /\ todo' \in [Threads -> Seq(StepNames)]
         /\ Due(t)' = Expect(t, Tail(todo[t]))
         /\ \A u \in Threads \ {t} : todo'[u] = todo[u]
<1>1. PICK q \in Seq(StepNames), r \in Seq(StepNames) : q = todo[t] /\ r = Tail(q)
  <2>1. PICK q \in Seq(StepNames) : q = todo[t] /\ q # <<>>
    OBVIOUS
  <2>2. Tail(q) \in Seq(StepNames)
    BY <2>1
  <2> QED
    BY <2>1, <2>2
<1>2. <<>> \o r = r
  BY JoinNothing
<1> QED
  BY <1>1, <1>2, Continues

(* The emulation thread is between frames when it is busy.                 *)
LEMMA EmuBusy ==
  ASSUME RequestsInv, NEW t \in Threads, \A u \in Threads \ {t} : todo'[u] = todo[u],
         t = Emu \/ emu' = emu \/ runLock.owner # Emu, t = Emu => emu' = "actions"
  PROVE  Busy(Emu)' => emu' = "actions"
<1>1. CASE t = Emu
  BY <1>1
<1>2. CASE t # Emu
  BY <1>2 DEF Busy, RequestsInv, RunLocked, Threads
<1> QED
  BY <1>1, <1>2

(* A step that changes nothing that is counted.                            *)
Steady ==
  UNCHANGED <<held, breakRequestCount, suspendRequestCount, debugRequestCount,
              blockDebuggerRequestCount, debugger, thrown, debuggerLock, runLock,
         lockCounter>>

(* From the expectation e to d, without a lock or an entry.                *)
Alike(e, d) ==
  /\ d.fit = "yes" /\ d.h = e.h /\ d.k = e.k /\ d.b = e.b /\ d.suspends = e.suspends
  /\ d.first # "take" /\ e.first # "take" /\ d.locks \subseteq e.locks

Same(e, d) == Alike(e, d) /\ d.first \notin {"lower", "decrement"}

(* Then the invariant is kept, also after the test whether to lower the    *)
(* suspend count.                                                          *)
LEMMA QuietTest ==
  ASSUME RequestsInv, NEW t \in Threads, Typed',
         \A u \in Threads \ {t} : todo'[u] = todo[u],
         Steady, Alike(Due(t), Due(t)'),
         Lowering(t)' => runLock.owner = t /\ (debugger # 0 => suspendRequestCount # 0),
         \/ Due(t)'.last = Due(t).last
         \/ Due(t).last = "new" /\ Due(t)'.last = "real" /\ Head(held[t]).debugger # 0
         \/ Due(t).last = "new" /\ Due(t)'.last = "used" /\ Head(held[t]).debugger = 0,
         Due(t)'.requests = "none" => Due(t).requests = "none" \/ debugRequestCount = 0,
         runLock.owner = Emu <=> emu' \in {"run", "stopped", "actions"},
         Busy(Emu)' => emu' = "actions"
  PROVE  RequestsInv'
<1>1. Others(t)
  BY DEF Others, Steady
<1>2. Fit(t)'
  <2>1. Fit(t)
    BY DEF RequestsInv
  <2>2. Due(t)'.last = "real" => Head(held[t]).debugger # 0
    BY <2>1 DEF Fit
  <2>3. Due(t)'.k = IF debuggerLock'.owner = t THEN debuggerLock'.depth ELSE 0
    BY <2>1 DEF Fit, Alike, Steady
  <2> QED
    BY <2>1, <2>2, <2>3, FitSame DEF Alike, Steady
<1>3. N(Asked(t)') = N(Asked(t)) /\ N(Asked(t)) \in {0, 1}
  <2>1. Asked(t)' <=> Asked(t)
    BY DEF Asked, Steady, Breakers, Entries
  <2> QED
    BY <2>1 DEF N
<1>4. /\ breakRequestCount \in Nat /\ blockDebuggerRequestCount \in Nat
      /\ suspendRequestCount \in Int /\ lockCounter \in Nat /\ thrown \in Nat
  BY DEF RequestsInv, Typed
<1>5. breakRequestCount' = breakRequestCount + N(Asked(t)') - N(Asked(t))
  BY <1>3, <1>4 DEF Steady
<1>6. lockCounter' = lockCounter + N(Due(t)'.first = "take") - N(Due(t).first = "take")
  BY <1>4 DEF Steady, Alike, N
<1>7. CountsStep(t)
  <2>1. Due(t).b \in Nat
    BY DueGood DEF RequestsInv, Typed, Fit, Good
  <2>2. N(Due(t).suspends = "yes") \in {0, 1}
    BY DEF N
  <2> QED
    BY <1>4, <2>1, <2>2 DEF CountsStep, Steady, Alike
<1>8. Due(t)'.requests = "none" => debugRequestCount = 0
  BY DEF RequestsInv, Drained
<1>9. LowersStep(t)
  <2>1. suspendRequestCount' >= suspendRequestCount
    BY <1>4 DEF Steady
  <2> QED
    BY <2>1 DEF LowersStep, Steady, Alike
<1> QED
  BY <1>1, <1>2, <1>5, <1>6, <1>7, <1>8, <1>9, HeldSame DEF Steady

(* And after any other step.                                               *)
LEMMA Quiet ==
  ASSUME RequestsInv, NEW t \in Threads, Typed',
         \A u \in Threads \ {t} : todo'[u] = todo[u],
         Steady, Same(Due(t), Due(t)'),
         \/ Due(t)'.last = Due(t).last
         \/ Due(t).last = "new" /\ Due(t)'.last = "real" /\ Head(held[t]).debugger # 0
         \/ Due(t).last = "new" /\ Due(t)'.last = "used" /\ Head(held[t]).debugger = 0,
         Due(t)'.requests = "none" => Due(t).requests = "none" \/ debugRequestCount = 0,
         runLock.owner = Emu <=> emu' \in {"run", "stopped", "actions"},
         Busy(Emu)' => emu' = "actions"
  PROVE  RequestsInv'
<1>1. Alike(Due(t), Due(t)') /\ ~Lowering(t)'
  BY DEF Same, Alike, Lowering
<1> QED
  BY <1>1, QuietTest

(***************************************************************************)
(* The steps that change nothing that is counted.                          *)
(***************************************************************************)
(* One that is done, and the next one is expected.                         *)
PlainSteps ==
  {"drain", "test", "ifNone", "ifAny", "create", "remove", "stopped", "keep", "stopFlag",
   "join", "console", "gameLoaded", "loaded", "start"}

(* It keeps the invariant.                                                 *)
LEMMA PlainStep ==
  ASSUME RequestsInv, NEW t \in Threads, NEW s \in PlainSteps,
         At(t, s), Continue(t, <<>>, 1), Typed', Steady,
         s = "drain" => debugRequestCount = 0,
         \/ emu' = emu
         \/ runLock.owner # Emu /\ emu' \notin {"run", "stopped", "actions"}
  PROVE  RequestsInv'
<1>1. PICK e : e = Expect(t, Tail(todo[t])) /\ AtStepOf(t, s, e)
  BY AtDue
<1>2. Due(t)' = e /\ \A u \in Threads \ {t} : todo'[u] = todo[u]
  BY <1>1, Goes DEF AtStepOf
<1>3. Same(Due(t), e) /\ Due(t).last = e.last
  BY <1>1 DEF AtStepOf, Same, Alike, IsBefore, Fits, Good, PlainSteps
<1>4. e.requests = "none" => Due(t).requests = "none" \/ debugRequestCount = 0
  BY <1>1 DEF AtStepOf, IsBefore, PlainSteps
<1>5. runLock.owner = Emu <=> emu' \in {"run", "stopped", "actions"}
  BY <1>1 DEF AtStepOf
<1>6. Busy(Emu)' => emu' = "actions"
  BY <1>1, <1>2, EmuBusy DEF AtStepOf
<1> QED
  BY <1>2, <1>3, <1>4, <1>5, <1>6, Quiet

(* One that other steps take the place of.                                 *)
LEMMA ExpandStep ==
  ASSUME RequestsInv, NEW t \in Threads, NEW s, At(t, s), NEW p,
         p \o Tail(todo[t]) \in Seq(StepNames), Continue(t, p, 1), Typed', Steady,
         emu' = emu,
         Same(Due(t), Expect(t, p \o Tail(todo[t]))),
         LET d == Expect(t, p \o Tail(todo[t]))
         IN  /\ \/ d.last = Due(t).last
                \/ Due(t).last = "new" /\ d.last = "real" /\ Head(held[t]).debugger # 0
             /\ d.requests = "none" => Due(t).requests = "none"
  PROVE  RequestsInv'
<1>1. PICK d : d = Expect(t, p \o Tail(todo[t]))
  OBVIOUS
<1>2. todo \in [Threads -> Seq(StepNames)] /\ todo[t] # <<>>
  BY AtDue DEF AtStepOf
<1>3. Due(t)' = d /\ \A u \in Threads \ {t} : todo'[u] = todo[u]
  BY <1>1, <1>2, Continues
<1>4. /\ runLock.owner = Emu <=> emu' \in {"run", "stopped", "actions"}
      /\ t = Emu => emu' = "actions"
  BY AtDue DEF AtStepOf
<1>5. Busy(Emu)' => emu' = "actions"
  BY <1>3, <1>4, EmuBusy
<1>6. /\ Same(Due(t), Due(t)')
      /\ \/ Due(t)'.last = Due(t).last
         \/ Due(t).last = "new" /\ Due(t)'.last = "real" /\ Head(held[t]).debugger # 0
      /\ Due(t)'.requests = "none" => Due(t).requests = "none"
  BY <1>1, <1>3
<1> QED
  BY <1>3, <1>4, <1>5, <1>6, Quiet

(* The types, after a step that changes only what is left to do.           *)
Remains == UNCHANGED <<emu, seen, call, calls, held, counts, requests, objects, flags, locks>>

(* Nothing else changes,                                                   *)
LEMMA RemainsTyped ==
  ASSUME RequestsInv, todo' \in [Threads -> Seq(StepNames)], Remains
  PROVE  Typed' /\ Steady /\ emu' = emu
<1>1. Steady /\ emu' = emu
  BY DEF Remains, Steady, counts, requests, objects, flags, locks
<1>2. Typed'
  BY DEF Remains, RequestsInv, Typed, counts, requests, objects, flags, locks, LockType
<1> QED
  BY <1>1, <1>2

(* or only flags do.                                                       *)
LEMMA SteadyTyped ==
  ASSUME RequestsInv, todo' \in [Threads -> Seq(StepNames)], Steady, seen' = seen,
         made' = made,
         emu' \in {"start", "run", "stopped", "actions", "parked", "waked", "ended",
         "none"},
         call' \in [Threads -> AllCalls \cup {"power", "none"}], calls' \in 0 .. MaxCalls,
         kept' \in [Threads -> 0 .. made],
         threadPaused' \in BOOLEAN, stopFlag' \in BOOLEAN, running' \in BOOLEAN
  PROVE  Typed'
<1>1. /\ held' = held /\ debugger' = debugger /\ thrown' = thrown
      /\ debuggerLock' = debuggerLock /\ runLock' = runLock /\ lockCounter' = lockCounter
      /\ breakRequestCount' = breakRequestCount
      /\ suspendRequestCount' = suspendRequestCount
      /\ debugRequestCount' = debugRequestCount
      /\ blockDebuggerRequestCount' = blockDebuggerRequestCount
  BY DEF Steady
<1> QED
  BY <1>1 DEF RequestsInv, Typed, LockType
(* The first of the steps that are left is known.                          *)
LEMMA FirstStep ==
  ASSUME NEW t, NEW q \in Seq(StepNames), Expect(t, q).fit = "yes", NEW s, s # "none",
         Expect(t, q).first = s
  PROVE  LET e == Expect(t, Tail(q))
         IN  /\ q # <<>> /\ Head(q) = s /\ Tail(q) \in Seq(StepNames)
             /\ IsBefore(Expect(t, q), t, s, e) /\ Fits(t, s, e) /\ Good(e) /\ e.fit = "yes"
<1>1. q # <<>>
  <2>1. Expect(t, <<>>).first = "none"
    BY ExpectNil DEF Idle
  <2> QED
    BY <2>1
<1>2. PICK e : e = Expect(t, Tail(q))
  OBVIOUS
<1>3. /\ IsBefore(Expect(t, q), t, Head(q), e) /\ Fits(t, Head(q), e) /\ Good(e)
      /\ e.fit = "yes"
      /\ Tail(q) \in Seq(StepNames)
  BY <1>1, <1>2, AtStep
<1>4. Head(q) = s
  BY <1>3 DEF IsBefore
<1> QED
  BY <1>1, <1>2, <1>3, <1>4

(* The three steps after a test, which the test may skip.                  *)
LEMMA Skips ==
  ASSUME NEW t, NEW q \in Seq(StepNames), q # <<>>, NEW e, e = Expect(t, Tail(q)),
         e.fit = "yes", NEW x \in StepNames,
         e.first = "dlock", e.second = x, e.third = "dunlock"
  PROVE  \E e1, e2, e3 :
            /\ IsBefore(e, t, "dlock", e1) /\ Fits(t, "dlock", e1) /\ Good(e1)
            /\ IsBefore(e1, t, x, e2) /\ Fits(t, x, e2) /\ Good(e2)
            /\ IsBefore(e2, t, "dunlock", e3) /\ Fits(t, "dunlock", e3) /\ Good(e3)
            /\ SubSeq(q, 5, Len(q)) \in Seq(StepNames)
            /\ e3 = Expect(t, SubSeq(q, 5, Len(q))) /\ e3.fit = "yes"
<1>1. PICK q1 \in Seq(StepNames) : q1 = Tail(q) /\ Expect(t, q1) = e
  <2>1. Tail(q) \in Seq(StepNames)
    OBVIOUS
  <2> QED
    BY <2>1
<1>2. PICK e1 : /\ e1 = Expect(t, Tail(q1)) /\ e1.fit = "yes" /\ q1 # <<>>
                /\ IsBefore(e, t, "dlock", e1) /\ Fits(t, "dlock", e1) /\ Good(e1)
  BY <1>1, FirstStep
<1>3. PICK q2 \in Seq(StepNames) : q2 = Tail(q1) /\ Expect(t, q2) = e1
  <2>1. Tail(q1) \in Seq(StepNames)
    BY <1>2
  <2> QED
    BY <1>2, <2>1
<1>4. e1.first = x /\ e1.second = "dunlock" /\ x # "none"
  BY <1>2 DEF IsBefore, StepNames
<1>5. PICK e2 : /\ e2 = Expect(t, Tail(q2)) /\ e2.fit = "yes" /\ q2 # <<>>
                /\ IsBefore(e1, t, x, e2) /\ Fits(t, x, e2) /\ Good(e2)
  <2>1. Expect(t, q2).fit = "yes" /\ Expect(t, q2).first = x /\ x # "none"
    BY <1>2, <1>3, <1>4
  <2>2. PICK d : d = Expect(t, Tail(q2))
    OBVIOUS
  <2>3. /\ q2 # <<>> /\ IsBefore(Expect(t, q2), t, x, d) /\ Fits(t, x, d) /\ Good(d)
        /\ d.fit = "yes"
    BY <2>1, <2>2, FirstStep
  <2> QED
    BY <1>3, <2>2, <2>3
<1>6. PICK q3 \in Seq(StepNames) : q3 = Tail(q2) /\ Expect(t, q3) = e2
  <2>1. Tail(q2) \in Seq(StepNames)
    BY <1>5
  <2> QED
    BY <1>5, <2>1
<1>7. e2.first = "dunlock"
  BY <1>4, <1>5 DEF IsBefore
<1>8. PICK e3 : /\ e3 = Expect(t, Tail(q3)) /\ e3.fit = "yes" /\ q3 # <<>>
                /\ IsBefore(e2, t, "dunlock", e3) /\ Fits(t, "dunlock", e3) /\ Good(e3)
  <2>1. Expect(t, q3).fit = "yes" /\ Expect(t, q3).first = "dunlock"
    BY <1>5, <1>6, <1>7
  <2>2. PICK d : d = Expect(t, Tail(q3))
    OBVIOUS
  <2>3. /\ q3 # <<>> /\ IsBefore(Expect(t, q3), t, "dunlock", d) /\ Fits(t, "dunlock", d)
        /\ Good(d) /\ d.fit = "yes"
    BY <2>1, <2>2, FirstStep
  <2> QED
    BY <1>6, <2>2, <2>3
<1>9. PICK q4 \in Seq(StepNames) : q4 = Tail(q3) /\ Expect(t, q4) = e3
  <2>1. Tail(q3) \in Seq(StepNames)
    BY <1>8
  <2> QED
    BY <1>8, <2>1
<1>10. SubSeq(q, 5, Len(q)) = q4
  <2>1. PICK n \in Nat : n = Len(q)
    OBVIOUS
  <2>2. /\ n >= 1 /\ Len(q1) = n - 1 /\ \A i \in 1 .. n - 1 : q1[i] = q[i + 1]
    BY <1>1, <2>1
  <2>3. /\ n >= 2 /\ Len(q2) = n - 2 /\ \A i \in 1 .. n - 2 : q2[i] = q1[i + 1]
    BY <1>2, <1>3, <2>1, <2>2
  <2>4. /\ n >= 3 /\ Len(q3) = n - 3 /\ \A i \in 1 .. n - 3 : q3[i] = q2[i + 1]
    BY <1>5, <1>6, <2>1, <2>3
  <2>5. /\ n >= 4 /\ Len(q4) = n - 4 /\ \A i \in 1 .. n - 4 : q4[i] = q3[i + 1]
    BY <1>8, <1>9, <2>1, <2>4
  <2>6. \A i \in 1 .. n - 4 : q4[i] = q[i + 4]
    <3>1. \A i \in 1 .. n - 4 : i + 1 \in 1 .. n - 3 /\ i + 2 \in 1 .. n - 2 /\ i + 3 \in 1 .. n - 1
      BY <2>1
    <3> QED
      BY <2>1, <2>2, <2>3, <2>4, <2>5, <3>1
  <2>7. PICK r : r = SubSeq(q, 5, Len(q))
    OBVIOUS
  <2>8. r \in Seq(StepNames) /\ Len(r) = n - 4 /\ \A i \in 1 .. n - 4 : r[i] = q[i + 4]
    BY <2>1, <2>5, <2>7
  <2>9. r = q4
    BY <2>5, <2>6, <2>8, SeqEqual
  <2> QED
    BY <2>7, <2>9
<1> QED
  BY <1>2, <1>5, <1>8, <1>9, <1>10

(* What is expected after four steps are skipped.                          *)
LEMMA ContinuesAfter ==
  ASSUME NEW t \in Threads, todo \in [Threads -> Seq(StepNames)],
         SubSeq(todo[t], 5, Len(todo[t])) \in Seq(StepNames), Continue(t, <<>>, 4)
  PROVE  /\ todo' \in [Threads -> Seq(StepNames)]
         /\ Due(t)' = Expect(t, SubSeq(todo[t], 5, Len(todo[t])))
         /\ \A u \in Threads \ {t} : todo'[u] = todo[u]
<1>1. PICK r \in Seq(StepNames) : r = SubSeq(todo[t], 5, Len(todo[t]))
  OBVIOUS
<1>2. <<>> \o r = r
  BY JoinNothing
<1>3. todo' = [todo EXCEPT ![t] = r]
  BY <1>1, <1>2 DEF Continue
<1> QED
  BY <1>1, <1>3 DEF Due

(* InitDebugger and StopDebugger skip what need not be done.               *)
LEMMA SkipStep ==
  ASSUME RequestsInv, NEW t \in Threads, NEW s \in {"ifNone", "ifAny"}, At(t, s),
         Continue(t, <<>>, 4), Remains
  PROVE  RequestsInv'
<1>1. PICK e : e = Expect(t, Tail(todo[t])) /\ AtStepOf(t, s, e)
  BY AtDue
<1>2. PICK x \in StepNames :
        /\ x \in {"create", "remove"} /\ e.first = "dlock" /\ e.second = x
        /\ e.third = "dunlock"
  <2>1. {"create", "remove"} \subseteq StepNames
    BY DEF StepNames
  <2> QED
    BY <1>1, <2>1 DEF AtStepOf, Fits
<1>3. PICK q \in Seq(StepNames) : q = todo[t] /\ q # <<>>
  BY <1>1 DEF AtStepOf
<1>4. PICK e1, e2, e3 :
            /\ IsBefore(e, t, "dlock", e1) /\ Fits(t, "dlock", e1) /\ Good(e1)
            /\ IsBefore(e1, t, x, e2) /\ Fits(t, x, e2) /\ Good(e2)
            /\ IsBefore(e2, t, "dunlock", e3) /\ Fits(t, "dunlock", e3) /\ Good(e3)
            /\ SubSeq(q, 5, Len(q)) \in Seq(StepNames)
            /\ e3 = Expect(t, SubSeq(q, 5, Len(q))) /\ e3.fit = "yes"
  <2>1. e.fit = "yes" /\ e = Expect(t, Tail(q))
    BY <1>1, <1>3 DEF AtStepOf, Fits
  <2> QED
    BY <1>2, <1>3, <2>1, Skips
<1>5. /\ Due(t)' = e3 /\ todo' \in [Threads -> Seq(StepNames)]
      /\ \A u \in Threads \ {t} : todo'[u] = todo[u]
  BY <1>1, <1>3, <1>4, ContinuesAfter DEF AtStepOf
<1>6. Typed' /\ Steady /\ emu' = emu
  BY <1>5, RemainsTyped
<1>7. e2.h = e3.h /\ e2.k = e3.k + 1 /\ e2.b = e3.b /\ e2.suspends = e3.suspends
      /\ e2.locks = e3.locks /\ e2.last = e3.last /\ e2.requests = e3.requests
      /\ e3.first \notin {"take", "lower", "decrement"}
  BY <1>4 DEF IsBefore, Fits
<1>8. e1.h = e2.h /\ e1.k = e2.k /\ e1.b = e2.b /\ e1.suspends = e2.suspends
      /\ e1.locks = e2.locks /\ e2.last = "used" /\ e1.requests = e2.requests
  BY <1>2, <1>4 DEF IsBefore, Fits, Good
<1>9. e.h = e1.h /\ e.k = e1.k - 1 /\ e.b = e1.b /\ e.suspends = e1.suspends
      /\ e.locks = e1.locks /\ e.requests = e1.requests
  BY <1>4 DEF IsBefore
<1>10. /\ Due(t).h = e.h /\ Due(t).k = e.k /\ Due(t).b = e.b /\ Due(t).suspends = e.suspends
       /\ Due(t).locks = e.locks /\ Due(t).requests = e.requests /\ Due(t).last = "used"
       /\ Due(t).first # "take"
  BY <1>1 DEF AtStepOf, IsBefore
<1>11. Same(Due(t), e3) /\ e3.last = Due(t).last /\ e3.requests = Due(t).requests
  BY <1>4, <1>7, <1>8, <1>9, <1>10 DEF Same, Alike, Good
<1>12. Busy(Emu)' => emu' = "actions"
  BY <1>1, <1>5, <1>6, EmuBusy DEF AtStepOf
<1>13. runLock.owner = Emu <=> emu' \in {"run", "stopped", "actions"}
  BY <1>1, <1>6 DEF AtStepOf
<1> QED
  BY <1>5, <1>6, <1>11, <1>12, <1>13, Quiet
(* After step s, when it expects nothing special: Ready for what follows.  *)
LEMMA AfterReady ==
  ASSUME NEW t, NEW s, NEW e, AtStepOf(t, s, e),
         s \notin {"dunlock", "request", "autoRequest", "lock", "take"}
  PROVE  Ready(e) /\ Due(t).first # "take"
  BY DEF AtStepOf, Fits, Good, Ready, IsBefore

(* The requests are drained when none is counted.                          *)
LEMMA DrainKeeps ==
  ASSUME RequestsInv, NEW t \in Threads, Drain(t)
  PROVE  RequestsInv'
<1>1. At(t, "drain") /\ Continue(t, <<>>, 1) /\ Remains /\ debugRequestCount = 0
  BY DEF Drain, Chooses, Remains
<1>2. todo' \in [Threads -> Seq(StepNames)]
  BY <1>1, AtDue, Goes DEF AtStepOf
<1>3. Typed' /\ Steady /\ emu' = emu
  BY <1>1, <1>2, RemainsTyped
<1>4. "drain" \in PlainSteps
  BY DEF PlainSteps
<1> QED
  BY <1>1, <1>3, <1>4, PlainStep

(* A step that only goes on keeps the invariant.                           *)
LEMMA ChoosesNothing ==
  ASSUME RequestsInv, NEW t \in Threads,
         NEW s \in {"test", "ifNone", "ifAny", "create", "remove", "stopped"},
         Chooses(t, s, <<>>, 1)
  PROVE  RequestsInv'
<1>1. At(t, s) /\ Continue(t, <<>>, 1) /\ Remains
  BY DEF Chooses, Remains
<1>2. todo' \in [Threads -> Seq(StepNames)]
  BY <1>1, AtDue, Goes DEF AtStepOf
<1>3. Typed' /\ Steady /\ emu' = emu
  BY <1>1, <1>2, RemainsTyped
<1>4. s \in PlainSteps /\ s # "drain"
  BY DEF PlainSteps
<1> QED
  BY <1>1, <1>3, <1>4, PlainStep

(* A test of the debugger: the rest of its branch is skipped, or done.     *)
LEMMA IfKeeps ==
  ASSUME RequestsInv, NEW t \in Threads, IfNone(t) \/ IfAny(t)
  PROVE  RequestsInv'
<1>1. PICK s \in {"ifNone", "ifAny"}, n \in {1, 4} : Chooses(t, s, <<>>, n)
  BY DEF IfNone, IfAny
<1>2. CASE n = 1
  BY <1>1, <1>2, ChoosesNothing
<1>3. CASE n = 4
  <2>1. At(t, s) /\ Continue(t, <<>>, 4) /\ Remains
    BY <1>1, <1>3 DEF Chooses, Remains
  <2> QED
    BY <2>1, SkipStep
<1> QED
  BY <1>2, <1>3

(* The steps p take the place of s: they expect d.                         *)
LEMMA ChoosesSteps ==
  ASSUME RequestsInv, NEW t \in Threads, NEW s, NEW p, Chooses(t, s, p, 1),
         p \o Tail(todo[t]) \in Seq(StepNames),
         NEW d, d = Expect(t, p \o Tail(todo[t])), Same(Due(t), d),
         \/ d.last = Due(t).last
         \/ Due(t).last = "new" /\ d.last = "real" /\ Head(held[t]).debugger # 0,
         d.requests = "none" => Due(t).requests = "none"
  PROVE  RequestsInv'
<1>1. At(t, s) /\ Continue(t, p, 1) /\ Remains
  BY DEF Chooses, Remains
<1>2. todo \in [Threads -> Seq(StepNames)] /\ todo[t] # <<>>
  BY <1>1, AtDue DEF AtStepOf
<1>3. todo' \in [Threads -> Seq(StepNames)]
  BY <1>1, <1>2, Continues
<1>4. Typed' /\ Steady /\ emu' = emu
  BY <1>1, <1>3, RemainsTyped
<1> QED
  BY <1>1, <1>4, ExpandStep

(* Create and Remove: the debugger is replaced, or there is nothing to do. *)
LEMMA ReplaceKeeps ==
  ASSUME RequestsInv, NEW t \in Threads, Create(t) \/ Remove(t)
  PROVE  RequestsInv'
<1>1. PICK s \in {"create", "remove"}, x \in {"unset", "new"} :
         Chooses(t, s, <<>>, 1) \/ Chooses(t, s, Replace(t, x), 1)
  BY DEF Create, Remove
<1>2. CASE Chooses(t, s, <<>>, 1)
  BY <1>2, ChoosesNothing
<1>3. CASE Chooses(t, s, Replace(t, x), 1)
  <2>1. At(t, s)
    BY <1>3 DEF Chooses
  <2>2. PICK r, e :
           /\ r \in Seq(StepNames) /\ r = Tail(todo[t]) /\ e = Expect(t, r)
           /\ AtStepOf(t, s, e)
    BY <2>1, AtDue DEF AtStepOf
  <2>3. Ready(e) /\ e.suspends = "no" /\ Due(t).first # "take"
    <3>1. AtStepOf(t, s, e) /\ Fits(t, s, e)
      BY <2>2 DEF AtStepOf
    <3>2. e.suspends = "no"
      BY <3>1 DEF Fits
    <3> QED
      BY <3>1, <3>2, AfterReady
  <2>4. PICK d : /\ d = Expect(t, Replace(t, x) \o r)
                 /\ Replace(t, x) \o r \in Seq(StepNames)
                 /\ Like(d, e, 0, 0, 0) /\ d.requests = "any" /\ d.locks = e.locks
    BY <2>2, <2>3, ReplaceExpects, ZenonT(40)
  <2>5. Same(Due(t), d) /\ d.last = Due(t).last
    BY <2>2, <2>3, <2>4, SMTT(30) DEF AtStepOf, Same, Alike, Like, Near, IsBefore, Good
  <2> QED
    BY <1>3, <2>2, <2>4, <2>5, ChoosesSteps
<1> QED
  BY <1>1, <1>2, <1>3

(* An EmulatorLock on a thread that does not have the run lock.            *)
LEMMA ChooseExpects ==
  ASSUME NEW t, NEW r \in Seq(StepNames), Ready(Expect(t, r)), Expect(t, r).h >= 1,
         Expect(t, r).h \in Expect(t, r).locks => Expect(t, r).requests = "none"
  PROVE  LET e == Expect(t, r)
             d == Expect(t, GetDebugger("request") \o <<"choose">> \o r)
         IN  /\ GetDebugger("request") \o <<"choose">> \o r \in Seq(StepNames)
             /\ Like(d, e, -1, 0, 0) /\ d.requests = e.requests /\ d.locks = e.locks \ {e.h}
<1>1. PICK e : e = Expect(t, r) /\ Ready(e) /\ e.h >= 1
               /\ (e.h \in e.locks => e.requests = "none")
  OBVIOUS
<1>2. Fits(t, "choose", e)
  BY <1>1 DEF Fits, StepNames, Ready, Good
<1>3. PICK e1 : /\ e1 = Before(t, "choose", e) /\ e1.fit = "yes"
                /\ IsBefore(e1, t, "choose", e)
  BY <1>2, BeforeFields
<1>4. PICK q \in Seq(StepNames) : q = <<"choose">> \o r /\ Expect(t, q) = e1
  <2>1. "choose" \in StepNames
    BY DEF StepNames
  <2>2. <<"choose">> \o r \in Seq(StepNames)
    BY <2>1
  <2>3. Expect(t, <<"choose">> \o r) = Before(t, "choose", Expect(t, r))
    BY <2>1, ExpectCons
  <2> QED
    BY <1>1, <1>3, <2>2, <2>3
<1>5. Good(e1)
  BY <1>3, <1>4, ExpectGood
<1>6. CanRequest(e1)
  BY <1>1, <1>3, <1>5 DEF CanRequest, IsBefore
<1>7. PICK d : /\ d = Expect(t, GetDebugger("request") \o q)
               /\ GetDebugger("request") \o q \in Seq(StepNames)
               /\ Like(d, e1, -1, 0, 0) /\ d.requests = e1.requests /\ d.locks = e1.locks
  BY <1>4, <1>6, GetExpects
<1>8. Like(d, e, -1, 0, 0) /\ d.requests = e.requests /\ d.locks = e.locks \ {e.h}
  BY <1>1, <1>3, <1>7 DEF Like, Near, IsBefore, Good, Ready
<1>9. Regroups(GetDebugger("request"), <<"choose">>, r)
  <2>1. PICK a \in Seq(StepNames), b \in Seq(StepNames) :
           a = GetDebugger("request") /\ b = <<"choose">>
    BY PartsTyped DEF StepNames
  <2>2. Regroups(a, b, r)
    BY Joined2
  <2> QED
    BY <2>1, <2>2
<1> QED
  BY <1>1, <1>4, <1>7, <1>8, <1>9 DEF Regroups

(* An EmulatorLock keeps the invariant, with or without the run lock.      *)
LEMMA AcquireKeeps ==
  ASSUME RequestsInv, NEW t \in Threads, Acquire(t)
  PROVE  RequestsInv'
<1>1. PICK p : /\ Chooses(t, "acquire", p, 1)
               /\ p \in {Lock, GetDebugger("request") \o <<"choose">>}
  BY DEF Acquire
<1>2. At(t, "acquire")
  BY <1>1 DEF Chooses
<1>3. PICK r, e :
         /\ r \in Seq(StepNames) /\ r = Tail(todo[t]) /\ e = Expect(t, r)
         /\ AtStepOf(t, "acquire", e)
  BY <1>2, AtDue DEF AtStepOf
<1>4. /\ Ready(e) /\ Due(t).first # "take" /\ e.h >= 1
      /\ e.h \in e.locks => e.requests = "none"
  <2>1. Ready(e) /\ Due(t).first # "take"
    BY <1>3, AfterReady
  <2>2. e.h >= 1 /\ (e.h \in e.locks => e.requests = "none")
    BY <1>3 DEF AtStepOf, Fits
  <2>3. QED
    BY <2>1, <2>2
<1>5. PICK d : /\ d = Expect(t, p \o r) /\ p \o r \in Seq(StepNames)
               /\ Like(d, e, -1, 0, 0) /\ d.requests = e.requests
               /\ d.locks = e.locks \ {e.h}
  <2>1. CASE p = Lock
    BY <1>3, <1>4, <2>1, LockExpects, ZenonT(40)
  <2>2. CASE p = GetDebugger("request") \o <<"choose">>
    BY <1>3, <1>4, <2>2, ChooseExpects, ZenonT(40)
  <2> QED
    BY <1>1, <2>1, <2>2
<1>6. Same(Due(t), d) /\ d.last = Due(t).last /\ d.requests = Due(t).requests
  BY <1>3, <1>4, <1>5 DEF AtStepOf, Same, Alike, Like, Near, IsBefore, Good
<1> QED
  BY <1>1, <1>3, <1>5, <1>6, ChoosesSteps

(* DebugBreakHelper, of a request with a debugger.                         *)
LEMMA HeldHead ==
  ASSUME NEW t \in Threads, held \in [Threads -> Seq(Entries)], held[t] # <<>>
  PROVE  /\ Head(held[t]) \in Entries /\ Head(held[t]) = held[t][1]
         /\ 1 \in 1 .. Len(held[t])
         /\ EntryOf(held[t], Len(held[t])) = Head(held[t])
<1>1. PICK s \in Seq(Entries) : s = held[t] /\ s # <<>>
  OBVIOUS
<1>2. /\ Head(s) \in Entries /\ Head(s) = s[1] /\ 1 \in 1 .. Len(s)
      /\ Len(s) + 1 - Len(s) = 1
  BY <1>1
<1> QED
  BY <1>1, <1>2 DEF EntryOf

(* A request with a debugger becomes a break.                              *)
LEMMA BreakKeeps ==
  ASSUME RequestsInv, NEW t \in Threads, NEW s \in {"choose", "toolBreak"},
         Chooses(t, s, BreakHelper, 1), Head(held[t]).debugger # 0
  PROVE  RequestsInv'
<1>1. At(t, s)
  BY DEF Chooses
<1>2. PICK r, e :
         r \in Seq(StepNames) /\ r = Tail(todo[t]) /\ e = Expect(t, r) /\ AtStepOf(t, s, e)
  BY <1>1, AtDue DEF AtStepOf
<1>3. Ready(e) /\ Due(t).first # "take" /\ e.h >= 1 /\ Due(t).last = "new"
  <2>1. Ready(e) /\ Due(t).first # "take"
    BY <1>2, AfterReady
  <2> QED
    BY <1>2, <2>1 DEF AtStepOf, Fits, IsBefore
<1>4. e.h \notin e.locks
  <2>1. CASE s = "toolBreak"
    BY <1>2, <2>1 DEF AtStepOf, Fits
  <2>2. CASE s = "choose"
    <3>1. SUFFICES ASSUME e.h \in e.locks PROVE FALSE
      OBVIOUS
    <3>2. debugRequestCount = 0
      BY <1>2, <2>2, <3>1 DEF AtStepOf, Fits, IsBefore
    <3>3. held[t] # <<>>
      BY <1>2, <1>3 DEF AtStepOf, Fit
    <3>4. Head(held[t]) = held[t][1] /\ 1 \in 1 .. Len(held[t])
      BY <1>2, <3>3, HeldHead DEF AtStepOf
    <3> QED
      BY <3>2, <3>4, NoRequests
  <2> QED
    BY <2>1, <2>2
<1>5. PICK d : /\ d = Expect(t, BreakHelper \o r) /\ BreakHelper \o r \in Seq(StepNames)
               /\ d.fit = "yes" /\ d.h = e.h /\ d.k = e.k /\ d.b = e.b
               /\ d.suspends = e.suspends /\ d.last = "real" /\ d.first = "break"
               /\ d.requests = e.requests /\ d.locks = e.locks
  <2>1. /\ Ready(Expect(t, r)) /\ Expect(t, r).h >= 1
        /\ Expect(t, r).h \notin Expect(t, r).locks
    BY <1>2, <1>3, <1>4
  <2>2. PICK q, b : q \in Seq(StepNames) /\ q = r /\ b = Expect(t, q)
    BY <1>2
  <2>3. PICK d : d = Expect(t, BreakHelper \o q)
    OBVIOUS
  <2>4. /\ BreakHelper \o q \in Seq(StepNames)
        /\ d.fit = "yes" /\ d.h = b.h /\ d.k = b.k /\ d.b = b.b
        /\ d.suspends = b.suspends /\ d.last = "real" /\ d.first = "break"
        /\ d.requests = b.requests /\ d.locks = b.locks
    BY <2>1, <2>2, <2>3, BreakExpects
  <2> QED
    BY <1>2, <2>2, <2>3, <2>4
<1>6. Same(Due(t), d) /\ d.requests = Due(t).requests
  BY <1>2, <1>3, <1>4, <1>5 DEF AtStepOf, Same, Alike, IsBefore
<1> QED
  BY <1>2, <1>3, <1>5, <1>6, ChoosesSteps

(* A tool breaks the emulation when there is a debugger.                   *)
LEMMA ToolBreakKeeps ==
  ASSUME RequestsInv, NEW t \in Threads, ToolBreak(t)
  PROVE  RequestsInv'
<1>1. CASE Head(held[t]).debugger # 0
  BY <1>1, BreakKeeps DEF ToolBreak
<1>2. CASE Head(held[t]).debugger = 0
  <2>1. At(t, "toolBreak") /\ Continue(t, <<>>, 1) /\ Remains
    BY <1>2 DEF ToolBreak, Chooses, Remains
  <2>2. PICK e : e = Expect(t, Tail(todo[t])) /\ AtStepOf(t, "toolBreak", e)
    BY <2>1, AtDue
  <2>3. /\ Due(t)' = e /\ todo' \in [Threads -> Seq(StepNames)]
        /\ \A u \in Threads \ {t} : todo'[u] = todo[u]
    BY <2>1, <2>2, Goes DEF AtStepOf
  <2>4. Typed' /\ Steady /\ emu' = emu
    BY <2>1, <2>3, RemainsTyped
  <2>5. Ready(e) /\ Due(t).first # "take" /\ Due(t).last = "new"
    BY <2>2, AfterReady DEF AtStepOf, IsBefore
  <2>6. Same(Due(t), e) /\ e.requests = Due(t).requests /\ e.last = "used"
    BY <2>2, <2>5 DEF AtStepOf, Same, Alike, IsBefore, Ready
  <2>7. Busy(Emu)' => emu' = "actions"
    BY <2>2, <2>3, <2>4, EmuBusy DEF AtStepOf
  <2>8. runLock.owner = Emu <=> emu' \in {"run", "stopped", "actions"}
    BY <2>2, <2>4 DEF AtStepOf
  <2> QED
    BY <1>2, <2>3, <2>4, <2>5, <2>6, <2>7, <2>8, Quiet
<1> QED
  BY <1>1, <1>2

(* The emulation has stopped.                                              *)
LEMMA StoppedKeeps ==
  ASSUME RequestsInv, NEW t \in Threads, Stopped(t)
  PROVE  RequestsInv'
  BY ChoosesNothing DEF Stopped

(* The steps that change flags.                                            *)
FlagStep(t) ==
  \/ Keep(t) \/ StopFlag(t) \/ Join(t) \/ InitConsole(t) \/ Loaded(t) \/ Start(t)

(* A thread that starts the emulation thread has the run lock.             *)
LEMMA OwnsRunLock ==
  ASSUME RequestsInv, NEW t \in Threads, NEW i \in Due(t).locks, Good(Due(t))
  PROVE  runLock.owner = t
<1>1. PICK s \in Seq(Entries) : s = held[t]
  BY DEF RequestsInv, Typed
<1>2. Fit(t)
  BY DEF RequestsInv
<1>3. i \in 1 .. Len(s)
  BY <1>1, <1>2 DEF Fit, Good
<1>4. i \in Heights(s, RunLocks)
  BY <1>1, <1>2, <1>3 DEF Heights, Fit
<1>5. IsFiniteSet(Heights(s, RunLocks))
  BY HeightsFinite
<1>6. Cardinality(Heights(s, RunLocks)) # 0
  BY <1>4, <1>5, Counted
<1> QED
  BY <1>1, <1>6 DEF RequestsInv, RunLocked

(* These steps keep the invariant.                                         *)
LEMMA FlagKeeps ==
  ASSUME RequestsInv, NEW t \in Threads, FlagStep(t)
  PROVE  RequestsInv'
<1>1. PICK s \in PlainSteps :
         /\ s \in {"keep", "stopFlag", "join", "console", "loaded", "start"}
         /\ At(t, s) /\ Continue(t, <<>>, 1)
  <2>1. {"keep", "stopFlag", "join", "console", "loaded", "start"} \subseteq PlainSteps
    BY DEF PlainSteps
  <2> QED
    BY <2>1 DEF FlagStep, Keep, StopFlag, Join, InitConsole, Loaded, Start, Step
<1>2. Steady /\ call' = call /\ calls' = calls /\ seen' = seen /\ made' = made
  <2>1. CASE Keep(t)
    BY <2>1 DEF Keep, Step, Steady, counts, requests, locks, flags
  <2>2. CASE StopFlag(t) \/ InitConsole(t) \/ Loaded(t)
    BY <2>2 DEF StopFlag, InitConsole, Loaded, Step, Steady, counts, requests, locks,
       objects
  <2>3. CASE Join(t) \/ Start(t)
    BY <2>3 DEF Join, Start, Steady, counts, requests, locks, objects
  <2> QED
    BY <2>1, <2>2, <2>3 DEF FlagStep
<1>3. /\ kept' = kept \/ kept' = [kept EXCEPT ![t] = debugger]
      /\ threadPaused' \in {threadPaused, FALSE} /\ stopFlag' \in {stopFlag, TRUE, FALSE}
      /\ running' \in {running, TRUE, FALSE}
      /\ emu' \in {emu, "none", "start"}
  BY DEF FlagStep, Keep, StopFlag, Join, InitConsole, Loaded, Start, Step, objects, flags
<1>4. AtStepOf(t, s, Expect(t, Tail(todo[t])))
  BY <1>1, AtDue
<1>5. todo' \in [Threads -> Seq(StepNames)]
  BY <1>1, <1>4, Goes DEF AtStepOf
<1>6. Typed'
  <2>1. kept' \in [Threads -> 0 .. made]
    BY <1>3 DEF RequestsInv, Typed
  <2>2. /\ emu' \in {"start", "run", "stopped", "actions", "parked", "waked", "ended", "none"}
        /\ threadPaused' \in BOOLEAN /\ stopFlag' \in BOOLEAN /\ running' \in BOOLEAN
        /\ call' \in [Threads -> AllCalls \cup {"power", "none"}]
        /\ calls' \in 0 .. MaxCalls
    BY <1>2, <1>3 DEF RequestsInv, Typed
  <2> QED
    BY <1>2, <1>5, <2>1, <2>2, SteadyTyped
<1>7. \/ emu' = emu
      \/ runLock.owner # Emu /\ emu' \notin {"run", "stopped", "actions"}
  <2>1. CASE Join(t)
    <3>1. emu \in {"ended", "none"} /\ emu' = "none"
      BY <2>1 DEF Join
    <3> QED
      BY <1>4, <3>1 DEF AtStepOf
  <2>2. CASE Start(t)
    <3>1. emu' = "start" /\ At(t, "start")
      BY <2>2 DEF Start
    <3>2. PICK e : e = Expect(t, Tail(todo[t])) /\ AtStepOf(t, "start", e)
      BY <3>1, AtDue
    <3>3. t # Emu /\ e.h \in Due(t).locks /\ Good(Due(t))
      BY <3>2 DEF AtStepOf, Fits, IsBefore
    <3>4. runLock.owner = t
      BY <3>3, OwnsRunLock
    <3> QED
      BY <3>1, <3>3, <3>4
  <2>3. CASE Keep(t) \/ StopFlag(t) \/ InitConsole(t) \/ Loaded(t)
    BY <2>3 DEF Keep, StopFlag, InitConsole, Loaded, Step
  <2> QED
    BY <2>1, <2>2, <2>3 DEF FlagStep
<1>8. s # "drain"
  BY <1>1
<1> QED
  BY <1>1, <1>2, <1>6, <1>7, <1>8, PlainStep

(* The listeners of GameLoaded.                                            *)
LEMMA GameLoadedKeeps ==
  ASSUME RequestsInv, NEW t \in Threads, GameLoaded(t)
  PROVE  RequestsInv'
<1>1. /\ At(t, "gameLoaded") /\ Steady /\ emu' = emu /\ seen' = seen /\ made' = made
      /\ call' = call /\ calls' = calls /\ kept' = kept
      /\ threadPaused' = TRUE /\ stopFlag' = stopFlag /\ running' = running
  BY DEF GameLoaded, Steady, counts, requests, objects, locks
<1>2. PICK r, e : /\ r \in Seq(StepNames) /\ r = Tail(todo[t]) /\ e = Expect(t, r)
                  /\ AtStepOf(t, "gameLoaded", e)
  BY <1>1, AtDue DEF AtStepOf
<1>3. Ready(e) /\ e.suspends = "no" /\ Due(t).first # "take"
  <2>1. Ready(e) /\ Due(t).first # "take"
    BY <1>2, AfterReady
  <2> QED
    BY <1>2, <2>1 DEF AtStepOf, Fits
<1>4. ASSUME todo' \in [Threads -> Seq(StepNames)] PROVE Typed'
  BY <1>1, <1>4, SteadyTyped DEF RequestsInv, Typed
<1>5. CASE Continue(t, <<>>, 1)
  <2>1. todo' \in [Threads -> Seq(StepNames)]
    BY <1>2, <1>5, Goes DEF AtStepOf
  <2>2. "gameLoaded" \in PlainSteps
    BY DEF PlainSteps
  <2> QED
    BY <1>1, <1>4, <1>5, <2>1, <2>2, PlainStep
<1>6. CASE Continue(t, Steps(t, "tool"), 1)
  <2>1. PICK p, d : p = Steps(t, "tool") /\ d = Expect(t, p \o r)
    OBVIOUS
  <2>2. /\ p \o r \in Seq(StepNames)
        /\ Like(d, e, 0, 0, 0) /\ d.requests = e.requests /\ d.locks = e.locks
    BY <1>2, <1>3, <2>1, ToolExpects
  <2>3. todo' \in [Threads -> Seq(StepNames)]
    BY <1>2, <1>6, <2>1, <2>2, Continues DEF AtStepOf
  <2>4. Same(Due(t), d) /\ d.last = Due(t).last /\ d.requests = Due(t).requests
    BY <1>2, <1>3, <2>2 DEF AtStepOf, Same, Alike, Like, Near, IsBefore, Good
  <2> QED
    BY <1>1, <1>2, <1>4, <1>6, <2>1, <2>2, <2>3, <2>4, ExpandStep
<1> QED
  BY <1>5, <1>6 DEF GameLoaded

(* A load that succeeds.                                                   *)
LEMMA SucceedsKeeps ==
  ASSUME RequestsInv, NEW t \in Threads, LoadSucceeds(t)
  PROVE  RequestsInv'
<1>1. PICK p : p = Success(t, kept[t]) /\ Continue(t, p, 1)
  BY DEF LoadSucceeds, Success
<1>2. /\ At(t, "outcome") /\ Steady /\ emu' = emu /\ seen' = seen /\ made' = made
      /\ call' = call /\ calls' = calls /\ kept' = [kept EXCEPT ![t] = 0]
      /\ threadPaused' = threadPaused /\ stopFlag' = stopFlag /\ running' = running
  BY DEF LoadSucceeds, Steady, counts, requests, flags, locks
<1>3. PICK r, e : /\ r \in Seq(StepNames) /\ r = Tail(todo[t]) /\ e = Expect(t, r)
                  /\ AtStepOf(t, "outcome", e)
  BY <1>2, AtDue DEF AtStepOf
<1>4. Ready(e) /\ e.suspends = "no" /\ Due(t).first # "take"
  <2>1. Ready(e) /\ Due(t).first # "take"
    BY <1>3, AfterReady
  <2> QED
    BY <1>3, <2>1 DEF AtStepOf, Fits
<1>5. PICK d : d = Expect(t, p \o r)
  OBVIOUS
<1>6. /\ p \o r \in Seq(StepNames) /\ Like(d, e, 1, 1, 1)
      /\ (t = Emu => d.locks = e.locks) /\ (t # Emu => d.locks = e.locks \cup {e.h + 1})
  <2>1. PICK old : p = Success(t, old)
    BY <1>1
  <2>2. PICK q, b : /\ q \in Seq(StepNames) /\ q = r /\ b = Expect(t, q)
                    /\ Ready(b) /\ b.suspends = "no"
    BY <1>3, <1>4
  <2>3. PICK c : c = Expect(t, Success(t, old) \o q)
    OBVIOUS
  <2>4. /\ Success(t, old) \o q \in Seq(StepNames) /\ Like(c, b, 1, 1, 1)
        /\ (t = Emu => c.locks = b.locks) /\ (t # Emu => c.locks = b.locks \cup {b.h + 1})
    BY <2>2, <2>3, SuccessExpects
  <2> QED
    BY <1>3, <1>5, <2>1, <2>2, <2>3, <2>4
<1>7. todo' \in [Threads -> Seq(StepNames)]
  BY <1>1, <1>3, <1>6, Continues DEF AtStepOf
<1>8. Typed'
  <2>1. kept' \in [Threads -> 0 .. made]
    BY <1>2 DEF RequestsInv, Typed
  <2> QED
    BY <1>2, <1>7, <2>1, SteadyTyped DEF RequestsInv, Typed
<1>9. Same(Due(t), d) /\ d.last = Due(t).last /\ Due(t).requests = "none"
  BY <1>3, <1>4, <1>6 DEF AtStepOf, Same, Alike, Like, Near, IsBefore, Good
<1> QED
  BY <1>1, <1>2, <1>3, <1>5, <1>6, <1>8, <1>9, ExpandStep

(* Steps that go before all that is left.                                  *)
LEMMA Prepends ==
  ASSUME NEW t \in Threads, todo \in [Threads -> Seq(StepNames)],
         NEW p, p \o todo[t] \in Seq(StepNames), Continue(t, p, 0)
  PROVE  /\ todo' \in [Threads -> Seq(StepNames)]
         /\ Due(t)' = Expect(t, p \o todo[t])
         /\ \A u \in Threads \ {t} : todo'[u] = todo[u]
<1>1. PICK q \in Seq(StepNames) : q = todo[t]
  OBVIOUS
<1>2. SubSeq(q, 0 + 1, Len(q)) = q
  BY <1>1
<1>3. todo' = [todo EXCEPT ![t] = p \o todo[t]]
  BY <1>1, <1>2 DEF Continue
<1> QED
  BY <1>3 DEF Due

(* A call in front of what is left brings back everything.                 *)
LEMMA PrependStep ==
  ASSUME RequestsInv, NEW t \in Threads, NEW p, p \o todo[t] \in Seq(StepNames),
         Continue(t, p, 0), Typed', Steady, emu' = emu, t = Emu => emu = "actions",
         NEW d, d = Expect(t, p \o todo[t]), Like(d, Due(t), 0, 0, 0), Ready(Due(t)),
         d.locks \subseteq Due(t).locks, d.requests = "none" => Due(t).requests = "none"
  PROVE  RequestsInv'
<1>1. Due(t)' = d /\ \A u \in Threads \ {t} : todo'[u] = todo[u]
  BY Prepends DEF RequestsInv, Typed
<1>2. Same(Due(t), d) /\ d.last = Due(t).last
  BY DEF Same, Alike, Like, Near, Ready, Good
<1>3. Busy(Emu)' => emu' = "actions"
  BY <1>1, EmuBusy
<1>4. runLock.owner = Emu <=> emu' \in {"run", "stopped", "actions"}
  BY DEF RequestsInv, RunLocked
<1> QED
  BY <1>1, <1>2, <1>3, <1>4, Quiet

(* GetDebugger makes the debugger first.                                   *)
LEMMA RequestInits ==
  ASSUME RequestsInv, NEW t \in Threads, NEW s, s = "autoRequest",
         Chooses(t, s, InitDebugger, 0)
  PROVE  RequestsInv'
<1>1. At(t, s) /\ Continue(t, InitDebugger, 0) /\ Remains
  BY DEF Chooses, Remains
<1>2. PICK e : e = Expect(t, Tail(todo[t])) /\ AtStepOf(t, s, e)
  BY <1>1, AtDue
<1>3. PICK q \in Seq(StepNames) : q = todo[t] /\ Expect(t, q) = Due(t)
  BY <1>2 DEF AtStepOf, Due
<1>4. Ready(Due(t)) /\ Due(t).suspends = "no"
  BY <1>2 DEF AtStepOf, IsBefore, Fits, Ready
<1>5. PICK d : d = Expect(t, InitDebugger \o q)
  OBVIOUS
<1>6. /\ InitDebugger \o q \in Seq(StepNames) /\ Like(d, Due(t), 0, 0, 0)
      /\ d.requests = Due(t).requests /\ d.locks = Due(t).locks
  BY <1>3, <1>4, <1>5, InitExpects
<1>7. todo' \in [Threads -> Seq(StepNames)]
  BY <1>1, <1>2, <1>3, <1>6, Prepends DEF AtStepOf
<1>8. Typed' /\ Steady /\ emu' = emu
  BY <1>1, <1>7, RemainsTyped
<1>9. t = Emu => emu = "actions"
  BY <1>2 DEF AtStepOf
<1> QED
  BY <1>1, <1>3, <1>4, <1>5, <1>6, <1>8, <1>9, PrependStep

(* A call begins.                                                          *)
LEMMA BeginKeeps ==
  ASSUME RequestsInv, NEW t \in Threads, NEW c \in AllCalls \cup {"power"}, Begin(t, c),
         Steady, seen' = seen, made' = made, kept' = kept, stopFlag' = stopFlag,
         running' = running, threadPaused' \in BOOLEAN, emu' = emu,
         t = Emu => emu = "actions"
  PROVE  RequestsInv'
<1>1. /\ Continue(t, Steps(t, c), 0) /\ ~ Busy(t) /\ calls' = calls + 1 /\ calls < MaxCalls
      /\ call' = [call EXCEPT ![t] = c]
  BY DEF Begin
<1>2. todo[t] = <<>> /\ Due(t) = Idle
  BY <1>1, ExpectNil DEF Busy, Due
<1>3. PICK d : d = Expect(t, Steps(t, c) \o todo[t])
  OBVIOUS
<1>4. Steps(t, c) \o todo[t] \in Seq(StepNames) /\ Like(d, Idle, 0, 0, 0)
  BY <1>2, <1>3, CallExpects
<1>5. Ready(Due(t))
  BY <1>2 DEF Ready, Good, Idle
<1>6. d.locks \subseteq Due(t).locks
  <2>1. d.h = 0 /\ d.locks \subseteq 1 .. d.h
    BY <1>4 DEF Like, Near, Good, Idle
  <2> QED
    BY <2>1
<1>7. d.requests = "any"
  <2>1. d.b = 0 /\ (d.requests = "none" => d.b >= 1) /\ d.requests \in {"any", "none"}
    BY <1>4 DEF Like, Near, Good, Idle
  <2> QED
    BY <2>1
<1>8. todo' \in [Threads -> Seq(StepNames)]
  BY <1>1, <1>4, Prepends DEF RequestsInv, Typed
<1>9. Typed'
  <2>1. call' \in [Threads -> AllCalls \cup {"power", "none"}] /\ calls' \in 0 .. MaxCalls
    BY <1>1, ConstantsAssumption DEF RequestsInv, Typed
  <2> QED
    BY <1>8, <2>1, SteadyTyped DEF RequestsInv, Typed
<1> QED
  BY <1>1, <1>2, <1>3, <1>4, <1>5, <1>6, <1>7, <1>9, PrependStep

(* A call begins.                                                          *)
LEMMA CallKeeps ==
  ASSUME RequestsInv, NEW u \in Users, NEW c \in Calls[u], Call(u, c)
  PROVE  RequestsInv'
<1>1. u \in Threads /\ u # Emu /\ c \in AllCalls \cup {"power"}
  BY ConstantsAssumption DEF Threads
<1>2. /\ Begin(u, c) /\ Steady /\ seen' = seen /\ made' = made /\ kept' = kept
      /\ stopFlag' = stopFlag /\ running' = running /\ threadPaused' = threadPaused
      /\ emu' = emu
  BY DEF Call, Steady, counts, requests, objects, flags, locks
<1>3. threadPaused' \in BOOLEAN
  BY <1>2 DEF RequestsInv, Typed
<1> QED
  BY <1>1, <1>2, <1>3, BeginKeeps

(* A power cycle begins.                                                   *)
LEMMA PowerCycleKeeps ==
  ASSUME RequestsInv, PowerCycle
  PROVE  RequestsInv'
<1>1. Emu \in Threads /\ "power" \in AllCalls \cup {"power"}
  BY DEF Threads
<1>2. /\ Begin(Emu, "power") /\ Steady /\ seen' = seen /\ made' = made /\ kept' = kept
      /\ stopFlag' = stopFlag /\ running' = running /\ threadPaused' = TRUE
      /\ emu' = emu /\ emu = "actions"
  BY DEF PowerCycle, EmuGoto, Steady, counts, requests, objects, locks
<1> QED
  BY <1>1, <1>2, BeginKeeps

-----------------------------------------------------------------------------
(***************************************************************************)
(* The steps of the emulation thread.                                      *)
(***************************************************************************)
(* One that does not take or give back the run lock.                       *)
LEMMA EmuQuiet ==
  ASSUME RequestsInv, ~ Busy(Emu), todo' = todo, Steady, Typed',
         runLock.owner = Emu <=> emu' \in {"run", "stopped", "actions"}
  PROVE  RequestsInv'
<1>1. Emu \in Threads
  BY DEF Threads
<1>2. Due(Emu) = Idle /\ Due(Emu)' = Idle
  <2>1. todo[Emu] = <<>> /\ todo'[Emu] = <<>>
    BY DEF Busy
  <2> QED
    BY <2>1, ExpectNil DEF Due
<1>3. Same(Due(Emu), Due(Emu)') /\ Due(Emu)'.last = Due(Emu).last /\ Idle.requests = "any"
  BY <1>2 DEF Same, Alike, Idle
<1>4. Busy(Emu)' => emu' = "actions"
  BY DEF Busy
<1> QED
  BY <1>1, <1>2, <1>3, <1>4, Quiet

(* One that does.                                                          *)
LEMMA EmuLocks ==
  ASSUME RequestsInv, ~ Busy(Emu), todo' = todo, held' = held, Typed',
         debuggerLock' = debuggerLock,
         breakRequestCount' = breakRequestCount, suspendRequestCount' = suspendRequestCount,
         debugRequestCount' = debugRequestCount, lockCounter' = lockCounter,
         thrown' = thrown,
         blockDebuggerRequestCount' = blockDebuggerRequestCount, debugger' = debugger,
         \/ /\ CanTake(runLock, Emu) /\ runLock' = Taken(runLock, Emu)
            /\ emu \notin {"run", "stopped", "actions"} /\ emu' = "run"
         \/ /\ runLock' = Given(runLock) /\ emu = "actions"
            /\ emu' \notin {"run", "stopped", "actions"}
  PROVE  RequestsInv'
<1>1. Emu \in Threads /\ Emu # "free"
  BY ConstantsAssumption DEF Threads, Emu
<1>2. todo[Emu] = <<>> /\ Due(Emu) = Idle
  BY ExpectNil DEF Due, Busy
<1>3. held[Emu] = <<>>
  <2>1. Len(held[Emu]) = 0 /\ held[Emu] \in Seq(Entries)
    BY <1>1, <1>2 DEF RequestsInv, Fit, Idle, Typed
  <2> QED
    BY <2>1, EmptySeq
<1>4. Cardinality(Heights(held[Emu], RunLocks)) = 0
  <2>1. Heights(held[Emu], RunLocks) = {}
    BY <1>3 DEF Heights
  <2> QED
    BY <2>1, FS_EmptySet
<1>5. runLock \in LockType /\ (runLock.owner = "free" <=> runLock.depth = 0)
  BY DEF RequestsInv, Typed
<1>6. Others(Emu)
  BY DEF Others
<1>7. RunLocked'
  <2>1. /\ Cardinality(Heights(held'[Emu], RunLocks)) = LocksOf(runLock', Emu)
        /\ \A u \in Threads \ {Emu} : LocksOf(runLock', u) = LocksOf(runLock, u)
        /\ runLock'.owner = Emu <=> emu' \in {"run", "stopped", "actions"}
    <3>0. \A u \in Threads \ {Emu} : u # "free" /\ u # Emu
      BY ConstantsAssumption DEF Threads, Emu
    <3>1. CASE /\ CanTake(runLock, Emu) /\ runLock' = Taken(runLock, Emu)
               /\ emu \notin {"run", "stopped", "actions"} /\ emu' = "run"
      <4>1. runLock.owner = "free" /\ runLock.depth = 0
        BY <1>5, <3>1 DEF CanTake, RequestsInv, RunLocked
      <4>2. runLock'.owner = Emu /\ runLock'.depth = 1
        BY <3>1, <4>1 DEF Taken
      <4> QED
        BY <1>1, <1>4, <3>0, <3>1, <4>1, <4>2 DEF LocksOf
    <3>2. CASE /\ runLock' = Given(runLock) /\ emu = "actions"
               /\ emu' \notin {"run", "stopped", "actions"}
      <4>1. runLock.owner = Emu
        BY <3>2 DEF RequestsInv, RunLocked
      <4>2. runLock.depth = 1
        <5>1. Cardinality(Heights(held[Emu], RunLocks)) = runLock.depth - 1
          BY <1>1, <4>1 DEF RequestsInv, RunLocked
        <5> QED
          BY <1>4, <1>5, <5>1 DEF LockType
      <4>3. runLock'.owner = "free" /\ runLock'.depth = 0
        BY <3>2, <4>2 DEF Given, Free
      <4> QED
        BY <1>1, <1>4, <3>0, <3>2, <4>1, <4>3 DEF LocksOf
    <3> QED
      BY <3>1, <3>2
  <2>2. Busy(Emu)' => emu' = "actions"
    BY DEF Busy
  <2> QED
    BY <1>1, <1>6, <2>1, <2>2, RunLockedStep DEF RequestsInv
<1>8. \A u : Due(u)' = Due(u)
  BY DEF Due
<1>9. \A u \in Threads : Fit(u)'
  BY <1>8 DEF RequestsInv, Fit, RunLocks, Entries, EntryOf
<1>10. Current'
  BY DEF RequestsInv, Current
<1>11. /\ Marked(held, Requests)' = Marked(held, Requests)
       /\ Marked(held, RunLocks)' = Marked(held, RunLocks)
       /\ Marked(held, Breakers)' = Marked(held, Breakers)
  BY DEF Marked, Requests, RunLocks, Breakers, Entries, Heights, EntryOf
<1>12. /\ Broken' = Broken /\ Pending' = Pending /\ Waiting' = Waiting
       /\ Suspending' = Suspending
  BY <1>8, <1>11 DEF Broken, Pending, Waiting, Suspending
<1>13. Finite' /\ Counts' /\ Drained'
  BY <1>8, <1>11, <1>12 DEF RequestsInv, Finite, Counts, Drained
<1>14. Lowered'
  <2>1. /\ runLock.owner # Emu => runLock.owner = "free"
        /\ \A u \in Threads \ {Emu} : u # "free"
    BY <1>5, ConstantsAssumption DEF CanTake, RequestsInv, RunLocked, Threads
  <2>2. ~Lowering(Emu)' /\ Due(Emu).suspends = "no"
    BY <1>2, <1>8 DEF Lowering, Idle
  <2>3. suspendRequestCount \in Int /\ suspendRequestCount' >= suspendRequestCount
    BY DEF RequestsInv, Typed
  <2>4. LowersStep(Emu)
    BY <1>8, <2>1, <2>2, <2>3 DEF LowersStep
  <2> QED
    BY <1>1, <2>3, <2>4, LoweredStep DEF RequestsInv
<1> QED
  BY <1>7, <1>9, <1>10, <1>13, <1>14 DEF RequestsInv

(* A lock that is given back has its type.                                 *)
LEMMA GivenTyped ==
  ASSUME NEW lock \in LockType, lock.owner # "free", lock.depth # 0
  PROVE  Given(lock) \in LockType /\ (Given(lock).owner = "free" <=> Given(lock).depth = 0)
<1>1. CASE lock.depth = 1
  BY <1>1 DEF Given, Free, LockType
<1>2. CASE lock.depth # 1
  <2>1. Given(lock) = [owner |-> lock.owner, depth |-> lock.depth - 1]
    BY <1>2 DEF Given, LockType
  <2>2. lock.depth - 1 \in Nat \ {0}
    BY <1>2 DEF LockType
  <2> QED
    BY <2>1, <2>2 DEF LockType
<1> QED
  BY <1>1, <1>2

(* The steps of the emulation thread keep the invariant.                   *)
LEMMA EmuStepKeeps ==
  ASSUME RequestsInv, EmuStep
  PROVE  RequestsInv'
<1>1. ASSUME emu # "actions" \/ ~ Busy(Emu) PROVE ~ Busy(Emu)
  BY <1>1 DEF RequestsInv, RunLocked
<1>2. /\ todo' = todo /\ held' = held /\ call' = call /\ calls' = calls /\ kept' = kept
      /\ breakRequestCount' = breakRequestCount
      /\ suspendRequestCount' = suspendRequestCount
      /\ debugRequestCount' = debugRequestCount /\ lockCounter' = lockCounter
      /\ blockDebuggerRequestCount' = blockDebuggerRequestCount /\ thrown' = thrown
      /\ debugger' = debugger /\ made' = made /\ debuggerLock' = debuggerLock
      /\ stopFlag' = stopFlag /\ running' = running
  <2>1. CASE EmuStart \/ EmuRuns \/ EmuResumes
    BY <2>1 DEF EmuStart, EmuRuns, EmuResumes, work, counts, requests, objects, flags, locks
  <2>2. CASE EmuGoesOn \/ EmuParks
    BY <2>2 DEF EmuGoesOn, EmuParks, work, counts, requests, objects, flags, locks
  <2>3. CASE EmuWakes \/ EmuReturns
    BY <2>3 DEF EmuWakes, EmuReturns, work, counts, requests, objects, flags, locks
  <2> QED
    BY <2>1, <2>2, <2>3 DEF EmuStep
<1>3. /\ emu' \in {"start", "run", "stopped", "actions", "parked", "waked", "ended", "none"}
      /\ threadPaused' \in BOOLEAN /\ seen' \in 0 .. made
  <2>1. /\ threadPaused \in BOOLEAN /\ seen \in 0 .. made /\ debugger \in 0 .. made
        /\ 0 \in 0 .. made
    BY DEF RequestsInv, Typed
  <2>2. CASE EmuStart \/ EmuRuns \/ EmuResumes
    BY <2>1, <2>2 DEF EmuStart, EmuRuns, EmuResumes, EmuGoto, flags
  <2>3. CASE EmuGoesOn \/ EmuParks
    BY <2>1, <2>3 DEF EmuGoesOn, EmuParks, EmuGoto, flags
  <2>4. CASE EmuWakes \/ EmuReturns
    BY <2>1, <2>4 DEF EmuWakes, EmuReturns, EmuGoto, flags
  <2> QED
    BY <2>2, <2>3, <2>4 DEF EmuStep
<1>4. ASSUME runLock' \in LockType, runLock'.owner = "free" <=> runLock'.depth = 0
      PROVE  Typed'
  BY <1>2, <1>3, <1>4 DEF RequestsInv, Typed, LockType
<1>5. \/ /\ runLock' = runLock
         /\ emu' \in {"run", "stopped", "actions"} <=> emu \in {"run", "stopped", "actions"}
      \/ /\ CanTake(runLock, Emu) /\ runLock' = Taken(runLock, Emu)
         /\ emu \notin {"run", "stopped", "actions"} /\ emu' = "run"
      \/ /\ runLock' = Given(runLock) /\ emu = "actions"
         /\ emu' \notin {"run", "stopped", "actions"}
  <2>1. CASE EmuStart
    BY <2>1 DEF EmuStart, EmuGoto, locks
  <2>2. CASE EmuRuns \/ EmuResumes \/ EmuWakes
    BY <2>2 DEF EmuRuns, EmuResumes, EmuWakes, EmuGoto, locks
  <2>3. CASE EmuGoesOn \/ EmuParks
    BY <2>3 DEF EmuGoesOn, EmuParks, EmuGoto
  <2>4. CASE EmuReturns
    BY <2>4 DEF EmuReturns, EmuGoto, locks
  <2> QED
    BY <2>1, <2>2, <2>3, <2>4 DEF EmuStep
<1>6. ~ Busy(Emu)
  BY <1>1 DEF EmuStep, EmuStart, EmuRuns, EmuResumes, EmuGoesOn, EmuParks, EmuWakes,
              EmuReturns, EmuGoto
<1>7. /\ runLock \in LockType /\ (runLock.owner = "free" <=> runLock.depth = 0)
      /\ runLock.depth \in Nat /\ Emu # "free" /\ Emu \in Threads
  BY ConstantsAssumption DEF RequestsInv, Typed, LockType, Emu, Threads
<1>8. CASE /\ runLock' = runLock
           /\ emu' \in {"run", "stopped", "actions"} <=> emu \in {"run", "stopped", "actions"}
  <2>1. Typed'
    BY <1>4, <1>7, <1>8
  <2>2. Steady
    BY <1>2, <1>8 DEF Steady
  <2>3. runLock.owner = Emu <=> emu' \in {"run", "stopped", "actions"}
    BY <1>8 DEF RequestsInv, RunLocked
  <2> QED
    BY <1>2, <1>6, <2>1, <2>2, <2>3, EmuQuiet
<1>9. CASE /\ CanTake(runLock, Emu) /\ runLock' = Taken(runLock, Emu)
           /\ emu \notin {"run", "stopped", "actions"} /\ emu' = "run"
  <2>1. runLock' = [owner |-> Emu, depth |-> runLock.depth + 1]
    BY <1>9 DEF Taken
  <2>2. runLock' \in LockType /\ (runLock'.owner = "free" <=> runLock'.depth = 0)
    BY <1>7, <2>1 DEF LockType
  <2>3. Typed'
    BY <1>4, <2>2
  <2> QED
    BY <1>2, <1>6, <1>9, <2>3, EmuLocks
<1>10. CASE /\ runLock' = Given(runLock) /\ emu = "actions"
            /\ emu' \notin {"run", "stopped", "actions"}
  <2>1. runLock.owner = Emu
    BY <1>10 DEF RequestsInv, RunLocked
  <2>2. runLock' \in LockType /\ (runLock'.owner = "free" <=> runLock'.depth = 0)
    BY <1>7, <1>10, <2>1, GivenTyped
  <2>3. Typed'
    BY <1>4, <2>2
  <2> QED
    BY <1>2, <1>6, <1>10, <2>3, EmuLocks
<1> QED
  BY <1>5, <1>8, <1>9, <1>10

-----------------------------------------------------------------------------
(***************************************************************************)
(* The steps that count.                                                   *)
(***************************************************************************)
CountSteps ==
  {"dlock", "dunlock", "raise", "unblock", "suspend", "decrement", "unset", "new", "break", "lock"}

(* Such a step, when the counts follow what is expected.                   *)
LEMMA CountStep ==
  ASSUME RequestsInv, NEW t \in Threads, NEW s \in CountSteps, NEW e, AtStepOf(t, s, e),
         e = Expect(t, Tail(todo[t])), Continue(t, <<>>, 1), Typed',
         held' = held, emu' = emu, runLock' = runLock,
         debugRequestCount' = debugRequestCount,
         \/ debuggerLock' = debuggerLock
         \/ debuggerLock.owner \in {"free", t} /\ debuggerLock'.owner \in {"free", t},
         e.k = IF debuggerLock'.owner = t THEN debuggerLock'.depth ELSE 0,
         blockDebuggerRequestCount' = blockDebuggerRequestCount + e.b - Due(t).b,
         thrown' = thrown,
         breakRequestCount' = IF s = "break" THEN breakRequestCount + 1 ELSE breakRequestCount,
         lockCounter' = IF s = "lock" THEN lockCounter + 1 ELSE lockCounter,
         debugger' = debugger \/ debugRequestCount = 0,
         debugger' # 0 =>
           \/ suspendRequestCount' = 0
           \/ /\ debugger # 0
              /\ suspendRequestCount' - lockCounter' - N(e.suspends = "yes")
                   <= suspendRequestCount - lockCounter - N(Due(t).suspends = "yes"),
         debugger' # 0 /\ e.suspends = "no" =>
           \/ suspendRequestCount' = 0 /\ runLock.owner = t
           \/ /\ debugger # 0 /\ Due(t).suspends = "no"
              /\ \/ suspendRequestCount' >= suspendRequestCount
                 \/ s = "decrement" /\ suspendRequestCount' = suspendRequestCount - 1
  PROVE  RequestsInv'
<1>1. Due(t)' = e /\ Others(t)
  BY Goes DEF AtStepOf, Others
<1>2. /\ Due(t).h = e.h /\ e.locks \subseteq Due(t).locks /\ e.fit = "yes"
      /\ Due(t).b \in {e.b - 1, e.b, e.b + 1} /\ Due(t).b \in Nat /\ e.b \in Nat
      /\ e.requests = "none" => Due(t).requests = "none"
      /\ Due(t).first = s
      /\ e.first = "take" <=> s = "lock"
  BY DEF AtStepOf, IsBefore, Fits, Good, CountSteps
<1>3. /\ e.last # "real" /\ (s # "dunlock" => e.last = "used")
      /\ Due(t).last = IF s = "break" THEN "real" ELSE e.last
  BY DEF AtStepOf, IsBefore, Fits, Good, CountSteps
<1>4. Fit(t)'
  <2>1. Fit(t)
    BY DEF AtStepOf
  <2>2. e.last # "used" => Due(t).last # "used"
    BY <1>3
  <2> QED
    BY <1>1, <1>2, <1>3, <2>1, <2>2, FitSame
<1>5. /\ breakRequestCount \in Nat /\ blockDebuggerRequestCount \in Nat
      /\ suspendRequestCount \in Int /\ lockCounter \in Nat /\ thrown \in Nat
  BY DEF RequestsInv, Typed
<1>6. breakRequestCount' = breakRequestCount + N(Asked(t)') - N(Asked(t))
  <2>1. CASE s = "break"
    <3>1. ~ Asked(t)
      BY <1>3, <2>1 DEF Asked
    <3>2. held[t] # <<>> /\ Head(held[t]).debugger # 0
      BY <1>3, <2>1 DEF AtStepOf, Fit
    <3>3. Head(held[t]) \in Breakers
      BY <3>2, HeldHead DEF AtStepOf, Breakers
    <3>4. Asked(t)'
      BY <1>1, <1>3, <2>1, <3>2, <3>3 DEF Asked, Breakers, Entries
    <3> QED
      BY <1>5, <2>1, <3>1, <3>4 DEF N
  <2>2. CASE s # "break"
    <3>1. Asked(t)' <=> Asked(t)
      BY <1>1, <1>3, <2>2 DEF Asked, Breakers, Entries
    <3> QED
      BY <1>5, <2>2, <3>1 DEF N
  <2> QED
    BY <2>1, <2>2
<1>7. lockCounter' = lockCounter + N(Due(t)'.first = "take") - N(Due(t).first = "take")
  <2>1. Due(t).first # "take"
    BY <1>2 DEF CountSteps
  <2>2. N(Due(t)'.first = "take") = IF s = "lock" THEN 1 ELSE 0
    BY <1>1, <1>2 DEF N
  <2>3. N(Due(t).first = "take") = 0
    BY <2>1 DEF N
  <2> QED
    BY <1>5, <2>2, <2>3
<1>8. CountsStep(t)
  <2>1. e.b \in {Due(t).b - 1, Due(t).b, Due(t).b + 1}
    BY <1>2
  <2>2. blockDebuggerRequestCount' - thrown' = blockDebuggerRequestCount - thrown + e.b - Due(t).b
    BY <1>2, <1>5
  <2> QED
    BY <1>1, <2>1, <2>2 DEF CountsStep
<1>9. Busy(Emu)' => emu' = "actions"
  BY <1>1, EmuBusy DEF AtStepOf, Others
<1>10. Due(t)'.requests = "none" => debugRequestCount = 0
  BY <1>1, <1>2 DEF AtStepOf
<1>11. runLock.owner = Emu <=> emu' \in {"run", "stopped", "actions"}
  BY DEF AtStepOf
<1>12. LowersStep(t)
  <2>1. ~Lowering(t)'
    BY <1>1 DEF Lowering, AtStepOf, Fits
  <2>2. s = "decrement" => Lowering(t)
    BY <1>2 DEF Lowering
  <2> QED
    BY <1>1, <2>1, <2>2 DEF LowersStep
<1> QED
  BY <1>1, <1>4, <1>6, <1>7, <1>8, <1>9, <1>10, <1>11, <1>12, HeldSame

(* What all these steps leave alone, and what they may change.             *)
LEMMA CountTyped ==
  ASSUME RequestsInv, todo' \in [Threads -> Seq(StepNames)],
         UNCHANGED <<emu, seen, call, calls>>,
         held' \in [Threads -> Seq(Entries)], UNCHANGED flags,
         made' \in Nat, made' >= made, debugger' \in 0 .. made',
         kept' \in [Threads -> 0 .. made'],
         breakRequestCount' \in Nat, suspendRequestCount' \in Int,
         debugRequestCount' \in Nat,
         blockDebuggerRequestCount' \in Nat, lockCounter' \in Nat,
         debuggerLock' \in LockType,
         debuggerLock'.owner = "free" <=> debuggerLock'.depth = 0,
         runLock' \in LockType, runLock'.owner = "free" <=> runLock'.depth = 0
  PROVE  Typed'
<1>1. seen' \in 0 .. made'
  BY DEF RequestsInv, Typed
<1>2. LockType' = LockType
  BY DEF LockType
<1> QED
  BY <1>1, <1>2 DEF RequestsInv, Typed, flags

(* A lock that is taken has its type.                                      *)
LEMMA TakenTyped ==
  ASSUME NEW t \in Threads, NEW lock \in LockType, lock.owner = "free" <=> lock.depth = 0
  PROVE  Taken(lock, t) \in LockType /\ (Taken(lock, t).owner = "free" <=> Taken(lock, t).depth = 0)
<1>1. t # "free"
  BY ConstantsAssumption DEF Threads, Emu
<1>2. PICK n \in Nat : n = lock.depth
  BY DEF LockType
<1>3. n + 1 \in Nat /\ n + 1 # 0 /\ Taken(lock, t) = [owner |-> t, depth |-> n + 1]
  BY <1>2 DEF Taken
<1> QED
  BY <1>1, <1>3 DEF LockType

(* The debugger lock is taken,                                             *)
LEMMA DLockKeeps ==
  ASSUME RequestsInv, NEW t \in Threads, DLock(t)
  PROVE  RequestsInv'
<1>1. /\ At(t, "dlock") /\ Continue(t, <<>>, 1) /\ UNCHANGED <<emu, seen, call, calls>>
      /\ CanTake(debuggerLock, t) /\ debuggerLock' = Taken(debuggerLock, t)
      /\ UNCHANGED <<held, counts, requests, objects, flags, runLock, lockCounter>>
  BY DEF DLock, Step
<1>2. PICK e : e = Expect(t, Tail(todo[t])) /\ AtStepOf(t, "dlock", e)
  BY <1>1, AtDue
<1>3. todo' \in [Threads -> Seq(StepNames)]
  BY <1>1, <1>2, Goes DEF AtStepOf
<1>4. /\ debuggerLock \in LockType /\ (debuggerLock.owner = "free" <=> debuggerLock.depth = 0)
      /\ debuggerLock.depth \in Nat
  BY DEF RequestsInv, Typed, LockType
<1>5. /\ debuggerLock' \in LockType /\ (debuggerLock'.owner = "free" <=> debuggerLock'.depth = 0)
      /\ debuggerLock'.owner = t /\ debuggerLock'.depth = debuggerLock.depth + 1
  BY <1>1, <1>4, TakenTyped DEF Taken
<1>6. Typed'
  BY <1>1, <1>3, <1>5, CountTyped DEF RequestsInv, Typed, counts, requests, objects
<1>7. Due(t).k = e.k - 1 /\ e.k \in Nat /\ Due(t).b = e.b /\ e.b \in Nat
      /\ Due(t).suspends = e.suspends
  BY <1>2 DEF AtStepOf, IsBefore, Good
<1>8. Due(t).k = debuggerLock.depth
  BY <1>1, <1>2, <1>4 DEF AtStepOf, Fit, CanTake
<1>9. e.k = debuggerLock.depth + 1
  BY <1>4, <1>7, <1>8
<1>10. "dlock" \in CountSteps
  BY DEF CountSteps
<1>11. /\ held' = held /\ emu' = emu /\ runLock' = runLock
       /\ debugRequestCount' = debugRequestCount
       /\ breakRequestCount' = breakRequestCount
       /\ suspendRequestCount' = suspendRequestCount
       /\ blockDebuggerRequestCount' = blockDebuggerRequestCount /\ thrown' = thrown
       /\ lockCounter' = lockCounter /\ debugger' = debugger
       /\ blockDebuggerRequestCount \in Nat /\ suspendRequestCount \in Int
       /\ lockCounter \in Nat
  BY <1>1 DEF counts, requests, objects, flags, RequestsInv, Typed
<1>12. blockDebuggerRequestCount' = blockDebuggerRequestCount + e.b - Due(t).b
  BY <1>7, <1>11
<1>13. suspendRequestCount' - lockCounter' - N(e.suspends = "yes")
         <= suspendRequestCount - lockCounter - N(Due(t).suspends = "yes")
  <2>1. N(e.suspends = "yes") \in {0, 1}
    BY DEF N
  <2> QED
    BY <1>7, <1>11, <2>1
<1>14. e.k = IF debuggerLock'.owner = t THEN debuggerLock'.depth ELSE 0
  BY <1>5, <1>9
<1>15. debuggerLock.owner \in {"free", t} /\ debuggerLock'.owner \in {"free", t}
  BY <1>1, <1>5 DEF CanTake
<1>16. e.suspends = "no" => Due(t).suspends = "no" /\ suspendRequestCount' >= suspendRequestCount
  BY <1>7, <1>11
<1> QED
  BY <1>1, <1>2, <1>6, <1>10, <1>11, <1>12, <1>13, <1>14, <1>15, <1>16, CountStep
(* What is known at each of these steps.                                   *)
LEMMA CountStart ==
  ASSUME RequestsInv, NEW t \in Threads, NEW s, Step(t, s)
  PROVE  \E e :
            /\ e = Expect(t, Tail(todo[t])) /\ AtStepOf(t, s, e)
            /\ Continue(t, <<>>, 1) /\ UNCHANGED <<emu, seen, call, calls>>
            /\ todo' \in [Threads -> Seq(StepNames)] /\ held \in [Threads -> Seq(Entries)]
            /\ IsBefore(Due(t), t, s, e) /\ Fits(t, s, e)
            /\ e.k \in Nat /\ e.b \in Nat /\ Due(t).b \in Nat
            /\ e.suspends \in {"yes", "no", "will"} /\ Due(t).suspends \in {"yes", "no", "will"}
            /\ Due(t).k = IF debuggerLock.owner = t THEN debuggerLock.depth ELSE 0
<1>1. At(t, s) /\ Continue(t, <<>>, 1) /\ UNCHANGED <<emu, seen, call, calls>>
  BY DEF Step
<1>2. PICK e : e = Expect(t, Tail(todo[t])) /\ AtStepOf(t, s, e)
  BY <1>1, AtDue
<1>3. todo' \in [Threads -> Seq(StepNames)]
  BY <1>1, <1>2, Goes DEF AtStepOf
<1> QED
  BY <1>1, <1>2, <1>3 DEF AtStepOf, Good, Fit

(* The types that the steps need.                                          *)
LEMMA CountTypes ==
  ASSUME RequestsInv
  PROVE  /\ breakRequestCount \in Nat /\ suspendRequestCount \in Int
         /\ debugRequestCount \in Nat /\ blockDebuggerRequestCount \in Nat
         /\ lockCounter \in Nat /\ made \in Nat /\ debugger \in 0 .. made
         /\ kept \in [Threads -> 0 .. made] /\ held \in [Threads -> Seq(Entries)]
         /\ debuggerLock \in LockType /\ (debuggerLock.owner = "free" <=> debuggerLock.depth = 0)
         /\ runLock \in LockType /\ (runLock.owner = "free" <=> runLock.depth = 0)
         /\ Suspended \in Int /\ Suspended >= suspendRequestCount
         /\ Suspended <= suspendRequestCount + 1
<1>1. suspendRequestCount \in Int
  BY DEF RequestsInv, Typed
<1>2. /\ Suspended \in Int /\ Suspended >= suspendRequestCount
      /\ Suspended <= suspendRequestCount + 1
  BY <1>1 DEF Suspended
<1> QED
  BY <1>2 DEF RequestsInv, Typed

(* and given back.                                                         *)
LEMMA DUnlockKeeps ==
  ASSUME RequestsInv, NEW t \in Threads, DUnlock(t)
  PROVE  RequestsInv'
<1>1. /\ Step(t, "dunlock") /\ debuggerLock' = Given(debuggerLock)
      /\ UNCHANGED <<held, counts, requests, objects, flags, runLock, lockCounter>>
  BY DEF DUnlock
<1>2. PICK e :
         /\ e = Expect(t, Tail(todo[t])) /\ AtStepOf(t, "dunlock", e)
         /\ Continue(t, <<>>, 1) /\ UNCHANGED <<emu, seen, call, calls>>
         /\ todo' \in [Threads -> Seq(StepNames)] /\ held \in [Threads -> Seq(Entries)]
         /\ IsBefore(Due(t), t, "dunlock", e)
         /\ e.k \in Nat /\ e.b \in Nat /\ Due(t).b \in Nat
         /\ Due(t).k = IF debuggerLock.owner = t THEN debuggerLock.depth ELSE 0
  BY <1>1, CountStart
<1>3. Due(t).k = e.k + 1 /\ Due(t).b = e.b /\ Due(t).suspends = e.suspends
  BY <1>2 DEF IsBefore
<1>4. t # "free"
  BY ConstantsAssumption DEF Threads, Emu
<1>5. debuggerLock.owner = t /\ debuggerLock.depth = e.k + 1
  BY <1>2, <1>3
<1>6. /\ debuggerLock \in LockType /\ debuggerLock.depth # 0
      /\ debuggerLock.owner # "free"
  BY <1>2, <1>4, <1>5, CountTypes
<1>7. debuggerLock' \in LockType /\ (debuggerLock'.owner = "free" <=> debuggerLock'.depth = 0)
  BY <1>1, <1>6, GivenTyped
<1>8. /\ debuggerLock'.owner \in {"free", t}
      /\ e.k = IF debuggerLock'.owner = t THEN debuggerLock'.depth ELSE 0
  <2>1. CASE e.k = 0
    <3>1. debuggerLock' = Free
      BY <1>1, <1>5, <2>1 DEF Given
    <3> QED
      BY <1>4, <2>1, <3>1 DEF Free
  <2>2. CASE e.k # 0
    <3>1. debuggerLock.depth # 1 /\ debuggerLock.depth - 1 = e.k
      <4>1. PICK n \in Nat : n = e.k /\ n # 0 /\ debuggerLock.depth = n + 1
        BY <1>2, <1>5, <2>2
      <4>2. n + 1 # 1 /\ n + 1 - 1 = n
        BY <4>1
      <4> QED
        BY <4>1, <4>2
    <3>2. debuggerLock'.owner = t /\ debuggerLock'.depth = e.k
      BY <1>1, <1>5, <1>6, <3>1 DEF Given, LockType
    <3> QED
      BY <3>2
  <2> QED
    BY <2>1, <2>2
<1>9. Typed'
  BY <1>1, <1>2, <1>7, CountTyped, CountTypes DEF counts, requests, objects
<1>10. "dunlock" \in CountSteps
  BY DEF CountSteps
<1>11. /\ held' = held /\ emu' = emu /\ runLock' = runLock
       /\ debugRequestCount' = debugRequestCount
       /\ breakRequestCount' = breakRequestCount
       /\ suspendRequestCount' = suspendRequestCount
       /\ blockDebuggerRequestCount' = blockDebuggerRequestCount /\ thrown' = thrown
       /\ lockCounter' = lockCounter /\ debugger' = debugger
  BY <1>1, <1>2 DEF counts, requests, objects, flags
<1>12. blockDebuggerRequestCount' = blockDebuggerRequestCount + e.b - Due(t).b
  BY <1>2, <1>3, <1>11, CountTypes
<1>13. suspendRequestCount' - lockCounter' - N(e.suspends = "yes")
         <= suspendRequestCount - lockCounter - N(Due(t).suspends = "yes")
  <2>1. N(e.suspends = "yes") \in {0, 1}
    BY DEF N
  <2> QED
    BY <1>3, <1>11, <2>1, CountTypes
<1>14. e.suspends = "no" => Due(t).suspends = "no" /\ suspendRequestCount' >= suspendRequestCount
  BY <1>3, <1>11, CountTypes
<1> QED
  BY <1>2, <1>5, <1>8, <1>9, <1>10, <1>11, <1>12, <1>13, <1>14, CountStep

(* The debugger lock stays as it is.                                       *)
LEMMA CountStepUnlocked ==
  ASSUME RequestsInv, NEW t \in Threads, NEW s \in CountSteps \ {"dlock", "dunlock"},
         Step(t, s),
         UNCHANGED <<held, debugRequestCount, kept, flags, debuggerLock, runLock>>,
         made' \in {made, made + 1}, debugger' \in 0 .. made',
         breakRequestCount' \in Nat, suspendRequestCount' \in Int,
         blockDebuggerRequestCount' =
           IF s = "raise" THEN blockDebuggerRequestCount + 1
           ELSE IF s = "unblock" THEN blockDebuggerRequestCount - 1
           ELSE blockDebuggerRequestCount,
         s = "unblock" => blockDebuggerRequestCount # 0,
         breakRequestCount' = IF s = "break" THEN breakRequestCount + 1 ELSE breakRequestCount,
         lockCounter' = IF s = "lock" THEN lockCounter + 1 ELSE lockCounter,
         debugger' = debugger \/ debugRequestCount = 0,
         debugger' # 0 =>
           \/ s = "raise" /\ suspendRequestCount' = 0
           \/ s = "new" /\ suspendRequestCount' = 0 /\ runLock.owner = t
           \/ /\ debugger # 0 /\ s \notin {"unset", "new", "raise"}
              /\ suspendRequestCount' <= suspendRequestCount
                   + IF s \in {"lock", "suspend"} THEN 1 ELSE 0
              /\ \/ suspendRequestCount' >= suspendRequestCount
                 \/ s = "decrement" /\ suspendRequestCount' = suspendRequestCount - 1
  PROVE  RequestsInv'
<1>1. PICK e :
         /\ e = Expect(t, Tail(todo[t])) /\ AtStepOf(t, s, e)
         /\ Continue(t, <<>>, 1) /\ UNCHANGED <<emu, seen, call, calls>>
         /\ todo' \in [Threads -> Seq(StepNames)]
         /\ IsBefore(Due(t), t, s, e) /\ Fits(t, s, e)
         /\ e.k \in Nat /\ e.b \in Nat /\ Due(t).b \in Nat
         /\ e.suspends \in {"yes", "no", "will"} /\ Due(t).suspends \in {"yes", "no", "will"}
         /\ Due(t).k = IF debuggerLock.owner = t THEN debuggerLock.depth ELSE 0
  BY CountStart
<1>0. /\ suspendRequestCount \in Int /\ blockDebuggerRequestCount \in Nat
      /\ lockCounter \in Nat /\ made \in Nat
  BY CountTypes
<1>2. Due(t).k = e.k
  BY <1>1 DEF IsBefore, CountSteps
<1>3. e.k = IF debuggerLock'.owner = t THEN debuggerLock'.depth ELSE 0
  BY <1>1, <1>2
<1>4. blockDebuggerRequestCount' = blockDebuggerRequestCount + e.b - Due(t).b
  <2>1. Due(t).b = IF s = "unblock" THEN e.b + 1 ELSE IF s = "raise" THEN e.b - 1 ELSE e.b
    BY <1>1 DEF IsBefore, CountSteps
  <2> QED
    BY <1>0, <1>1, <2>1
<1>5. blockDebuggerRequestCount' \in Nat /\ lockCounter' \in Nat
  BY <1>0
<1>6. kept' \in [Threads -> 0 .. made'] /\ made' \in Nat /\ made' >= made
  <2>1. 0 .. made \subseteq 0 .. made' /\ made' \in Nat /\ made' >= made
    BY <1>0
  <2> QED
    BY <2>1, CountTypes
<1>7. /\ debuggerLock' \in LockType /\ (debuggerLock'.owner = "free" <=> debuggerLock'.depth = 0)
      /\ runLock' \in LockType /\ (runLock'.owner = "free" <=> runLock'.depth = 0)
      /\ held' \in [Threads -> Seq(Entries)] /\ debugRequestCount' \in Nat
  BY CountTypes
<1>8. Typed'
  BY <1>1, <1>5, <1>6, <1>7, CountTyped
<1>9. debugger' # 0 =>
        \/ suspendRequestCount' = 0
        \/ /\ debugger # 0
           /\ suspendRequestCount' - lockCounter' - N(e.suspends = "yes")
                <= suspendRequestCount - lockCounter - N(Due(t).suspends = "yes")
  <2>1. SUFFICES ASSUME debugger # 0, s \notin {"unset", "new", "raise"},
                        suspendRequestCount' <= suspendRequestCount
                          + IF s \in {"lock", "suspend"} THEN 1 ELSE 0
                 PROVE  suspendRequestCount' - lockCounter' - N(e.suspends = "yes")
                          <= suspendRequestCount - lockCounter - N(Due(t).suspends = "yes")
    OBVIOUS
  <2>2. CASE s = "suspend"
    <3>1. e.suspends = "yes" /\ Due(t).suspends = "will"
      BY <1>1, <2>2 DEF Fits, IsBefore
    <3>2. N(e.suspends = "yes") = 1 /\ N(Due(t).suspends = "yes") = 0
      BY <3>1 DEF N
    <3> QED
      BY <1>0, <2>1, <2>2, <3>2
  <2>3. CASE s # "suspend"
    <3>1. e.suspends = Due(t).suspends
      BY <1>1, <2>1, <2>3 DEF IsBefore
    <3>2. N(e.suspends = "yes") \in {0, 1}
      BY DEF N
    <3> QED
      BY <1>0, <2>1, <2>3, <3>1, <3>2
  <2> QED
    BY <2>2, <2>3
<1>11. debugger' # 0 /\ e.suspends = "no" =>
         \/ suspendRequestCount' = 0 /\ runLock.owner = t
         \/ /\ debugger # 0 /\ Due(t).suspends = "no"
            /\ \/ suspendRequestCount' >= suspendRequestCount
               \/ s = "decrement" /\ suspendRequestCount' = suspendRequestCount - 1
  <2>1. s \notin {"unset", "new", "raise", "suspend"} => Due(t).suspends = e.suspends
    BY <1>1 DEF IsBefore
  <2>2. e.suspends = "no" => s \notin {"raise", "suspend"}
    BY <1>1 DEF Fits
  <2> QED
    BY <2>1, <2>2
<1>10. /\ held' = held /\ emu' = emu /\ runLock' = runLock
       /\ debugRequestCount' = debugRequestCount
       /\ thrown' = thrown /\ debuggerLock' = debuggerLock
  BY <1>1 DEF flags
<1> QED
  BY <1>1, <1>3, <1>4, <1>8, <1>9, <1>10, <1>11, CountStep
(* Without a request, nobody asks for a break.                             *)
LEMMA NoBreaks ==
  ASSUME RequestsInv, debugRequestCount = 0
  PROVE  breakRequestCount = 0
<1>1. ASSUME NEW p \in Broken PROVE FALSE
  <2>1. PICK u, i : /\ u \in Threads /\ u = p[1] /\ i = p[2]
                    /\ i \in Heights(held[u], Breakers)
    BY <1>1 DEF Broken, Marked, Places
  <2>2. PICK s \in Seq(Entries), n \in Nat : s = held[u] /\ n = Len(s)
    <3>1. held \in [Threads -> Seq(Entries)]
      BY CountTypes
    <3>2. PICK s \in Seq(Entries) : s = held[u]
      BY <2>1, <3>1
    <3> QED
      BY <3>2
  <2>3. i \in 1 .. n /\ s[n + 1 - i].debugger # 0
    BY <2>1, <2>2 DEF Heights, EntryOf, Breakers
  <2>4. PICK j \in 1 .. n : j = n + 1 - i
    BY <2>3
  <2>5. j \in 1 .. Len(held[u]) /\ u \in Threads
    BY <2>1, <2>2
  <2>6. held[u][j].debugger = 0
    BY <2>5, NoRequests
  <2> QED
    BY <2>2, <2>3, <2>4, <2>6
<1>2. Broken = {}
  BY <1>1
<1> QED
  BY <1>2, FS_EmptySet DEF RequestsInv, Counts

(* Requests that have been drained are blocked.                            *)
LEMMA SetDebuggerDrained ==
  ASSUME RequestsInv, NEW t \in Threads, NEW s \in {"unset", "new", "outcome"}, At(t, s)
  PROVE  debugRequestCount = 0
<1>1. PICK e : AtStepOf(t, s, e)
  BY AtDue
<1> QED
  BY <1>1 DEF AtStepOf, IsBefore

(* Requests are blocked, and the suspensions of the debugger forgotten.    *)
LEMMA RaiseKeeps ==
  ASSUME RequestsInv, NEW t \in Threads, Raise(t)
  PROVE  RequestsInv'
<1>1. Step(t, "raise") /\ "raise" \in CountSteps \ {"dlock", "dunlock"}
  BY DEF Raise, CountSteps
<1>2. /\ UNCHANGED <<held, debugRequestCount, kept, flags, debuggerLock, runLock>>
      /\ made' = made /\ debugger' = debugger /\ breakRequestCount' = breakRequestCount
      /\ lockCounter' = lockCounter
      /\ blockDebuggerRequestCount' = blockDebuggerRequestCount + 1
      /\ suspendRequestCount' = IF debugger # 0 THEN 0 ELSE suspendRequestCount
  BY DEF Raise, objects, locks
<1>3. /\ made' \in {made, made + 1} /\ debugger' \in 0 .. made'
      /\ breakRequestCount' \in Nat
      /\ suspendRequestCount' \in Int
  BY <1>2, CountTypes
<1> QED
  BY <1>1, <1>2, <1>3, CountStepUnlocked

(* A thread that unblocks has blocked.                                     *)
LEMMA UnblockKeeps ==
  ASSUME RequestsInv, NEW t \in Threads, Unblock(t)
  PROVE  RequestsInv'
<1>1. Step(t, "unblock") /\ "unblock" \in CountSteps \ {"dlock", "dunlock"}
  BY DEF Unblock, CountSteps
<1>2. /\ UNCHANGED <<held, debugRequestCount, kept, flags, debuggerLock, runLock>>
      /\ made' = made /\ debugger' = debugger /\ breakRequestCount' = breakRequestCount
      /\ lockCounter' = lockCounter /\ suspendRequestCount' = suspendRequestCount
      /\ blockDebuggerRequestCount' = blockDebuggerRequestCount - 1
  BY DEF Unblock, objects, locks, counts
<1>3. /\ made' \in {made, made + 1} /\ debugger' \in 0 .. made'
      /\ breakRequestCount' \in Nat
      /\ suspendRequestCount' \in Int /\ suspendRequestCount' <= suspendRequestCount + 0
      /\ suspendRequestCount' >= suspendRequestCount
  BY <1>2, CountTypes
<1>4. blockDebuggerRequestCount # 0
  <2>1. PICK e : IsBefore(Due(t), t, "unblock", e) /\ e.b \in Nat
    BY <1>1, CountStart
  <2>2. PICK n \in Nat \ {0} : n = Due(t).b
    BY <2>1 DEF IsBefore
  <2>3. PICK p : p = <<t, n>> /\ p[1] = t /\ p[2] = n
    <3>1. PICK p : p = <<t, n>>
      OBVIOUS
    <3> QED
      BY <3>1
  <2>4. p \in Pending
    BY <2>2, <2>3 DEF Pending, Places
  <2>5. Cardinality(Pending) \in Nat \ {0}
    BY <2>4, Counted DEF RequestsInv, Finite
  <2>6. blockDebuggerRequestCount = thrown + Cardinality(Pending) /\ thrown \in Nat
    BY DEF RequestsInv, Counts, Typed
  <2> QED
    BY <2>5, <2>6
<1> QED
  BY <1>1, <1>2, <1>3, <1>4, CountStepUnlocked

(* The debugger is suspended, or unsuspended after the test.               *)
LEMMA SuspendKeeps ==
  ASSUME RequestsInv, NEW t \in Threads, NEW s \in {"suspend", "decrement"}, Step(t, s),
         suspendRequestCount' =
           IF s = "suspend" THEN Suspended ELSE suspendRequestCount - 1,
         UNCHANGED <<held, breakRequestCount, requests, objects, flags, locks>>
  PROVE  RequestsInv'
<1>2. s \in CountSteps \ {"dlock", "dunlock"} /\ s \notin {"unset", "new", "raise", "unblock"}
  BY DEF CountSteps
<1>3. /\ UNCHANGED <<held, debugRequestCount, kept, flags, debuggerLock, runLock>>
      /\ made' = made /\ debugger' = debugger /\ breakRequestCount' = breakRequestCount
      /\ lockCounter' = lockCounter
      /\ blockDebuggerRequestCount' = blockDebuggerRequestCount
  BY DEF objects, locks, requests
<1>4. /\ made' \in {made, made + 1} /\ debugger' \in 0 .. made'
      /\ breakRequestCount' \in Nat
      /\ suspendRequestCount' \in Int
  BY <1>3, CountTypes
<1>5. /\ suspendRequestCount' <= suspendRequestCount + IF s \in {"lock", "suspend"} THEN 1 ELSE 0
      /\ \/ suspendRequestCount' >= suspendRequestCount
         \/ s = "decrement" /\ suspendRequestCount' = suspendRequestCount - 1
  BY CountTypes
<1> QED
  BY <1>2, <1>3, <1>4, <1>5, CountStepUnlocked

(* SuspendDebugger(true) at the end of a power cycle that fails.           *)
LEMMA UnsuspendKeeps ==
  ASSUME RequestsInv, NEW t \in Threads, Unsuspend(t)
  PROVE  RequestsInv'
<1>1. CASE /\ Step(t, "decrement") /\ suspendRequestCount' = suspendRequestCount - 1
           /\ UNCHANGED <<held, breakRequestCount, requests, objects, flags, locks>>
  BY <1>1, SuspendKeeps
<1>2. CASE Chooses(t, "unsuspend", IF CountedAbove THEN <<"decrement">> ELSE <<>>, 1)
  <2>1. PICK p : /\ p = IF CountedAbove THEN <<"decrement">> ELSE <<>>
                 /\ At(t, "unsuspend") /\ Continue(t, p, 1)
                 /\ UNCHANGED <<emu, seen, call, calls, held, counts, requests, objects,
                                flags, locks>>
    BY <1>2 DEF Chooses
  <2>2. PICK r, e : /\ r \in Seq(StepNames) /\ r = Tail(todo[t]) /\ e = Expect(t, r)
                    /\ AtStepOf(t, "unsuspend", e)
    BY <2>1, AtDue DEF AtStepOf
  <2>3. /\ IsBefore(Due(t), t, "unsuspend", e) /\ Fits(t, "unsuspend", e) /\ Good(e)
        /\ t = Emu /\ runLock.owner = t
    BY <2>2 DEF AtStepOf, Fits
  <2>4. PICK d : d = Expect(t, p \o r)
    OBVIOUS
  <2>5. /\ p \o r \in Seq(StepNames)
        /\ p = <<>> => d = e
        /\ p = <<"decrement">> => d = Before(t, "decrement", e)
    <3>1. CASE p = <<>>
      BY <2>2, <2>4, <3>1, JoinNothing
    <3>2. CASE p = <<"decrement">>
      <4>1. "decrement" \in StepNames
        BY DEF StepNames
      <4>2. <<"decrement">> \o r \in Seq(StepNames) /\ p # <<>>
        BY <2>2, <3>2, <4>1
      <4> QED
        BY <2>2, <2>4, <3>2, <4>1, <4>2, ExpectCons
    <3> QED
      BY <2>1, <3>1, <3>2
  <2>6. /\ d.fit = "yes" /\ d.h = e.h /\ d.k = e.k /\ d.b = e.b /\ d.last = e.last
        /\ d.suspends = e.suspends /\ d.requests = e.requests /\ d.locks = e.locks
        /\ d.first # "take" /\ e.last = "used"
        /\ d.first \in {"lower", "decrement"} => CountedAbove
    <3>1. e.fit = "yes" /\ e.last = "used" /\ e.first \notin {"take", "lower", "decrement"}
      BY <2>3 DEF Fits, Good
    <3>2. CASE p = <<>>
      BY <2>5, <3>1, <3>2
    <3>3. CASE p = <<"decrement">>
      <4>1. Fits(t, "decrement", e)
        BY <2>3, <3>1 DEF Fits, StepNames
      <4>2. CountedAbove
        <5>1. <<"decrement">> # <<>>
          OBVIOUS
        <5> QED
          BY <2>1, <3>3, <5>1
      <4>3. d.fit = "yes" /\ IsBefore(d, t, "decrement", e)
        BY <2>5, <3>3, <4>1, BeforeFields
      <4> QED
        BY <3>1, <4>2, <4>3 DEF IsBefore
    <3> QED
      BY <2>1, <3>2, <3>3
  <2>7. /\ Due(t).h = e.h /\ Due(t).k = e.k /\ Due(t).b = e.b /\ Due(t).last = "used"
        /\ Due(t).suspends = e.suspends /\ Due(t).requests = e.requests
        /\ Due(t).locks = e.locks /\ Due(t).first = "unsuspend"
    BY <2>3 DEF IsBefore
  <2>8. Due(t)' = d /\ \A u \in Threads \ {t} : todo'[u] = todo[u]
    BY <2>1, <2>2, <2>4, <2>5, Continues DEF AtStepOf
  <2>9. todo' \in [Threads -> Seq(StepNames)]
    BY <2>1, <2>2, <2>5, Continues DEF AtStepOf
  <2>10. Typed' /\ Steady /\ emu' = emu
    BY <2>1, <2>9, RemainsTyped DEF Remains
  <2>12. Alike(Due(t), Due(t)')
    BY <2>6, <2>7, <2>8 DEF Alike
  <2>13. Lowering(t)' => runLock.owner = t /\ (debugger # 0 => suspendRequestCount # 0)
    BY <2>3, <2>6, <2>8 DEF Lowering, CountedAbove
  <2>14. Busy(Emu)' => emu' = "actions"
    BY <2>2, <2>8, <2>10, EmuBusy DEF AtStepOf
  <2>15. runLock.owner = Emu <=> emu' \in {"run", "stopped", "actions"}
    BY <2>2, <2>10 DEF AtStepOf
  <2> QED
    BY <2>6, <2>7, <2>8, <2>10, <2>12, <2>13, <2>14, <2>15, QuietTest
<1> QED
  BY <1>1, <1>2 DEF Unsuspend

(* Who assigns the debugger has the run lock.                              *)
LEMMA OwnsToAssign ==
  ASSUME RequestsInv, NEW t \in Threads, NEW s \in {"unset", "new", "outcome"}, At(t, s)
  PROVE  runLock.owner = t
<1>1. PICK e : AtStepOf(t, s, e)
  BY AtDue
<1>2. CASE t = Emu
  BY <1>1, <1>2 DEF AtStepOf
<1>3. CASE t # Emu
  <2>1. Due(t).locks # {} /\ Good(Due(t))
    BY <1>1, <1>3 DEF AtStepOf, IsBefore
  <2> QED
    BY <2>1, OwnsRunLock
<1> QED
  BY <1>2, <1>3

(* The debugger is replaced while no request is counted.                   *)
LEMMA SetDebuggerKeeps ==
  ASSUME RequestsInv, NEW t \in Threads, SetDebugger(t)
  PROVE  RequestsInv'
<1>1. PICK s \in {"unset", "new"} :
         /\ Step(t, s)
         /\ \/ s = "unset" /\ debugger' = 0 /\ UNCHANGED <<counts, made>>
            \/ /\ s = "new" /\ debugger' = made + 1 /\ made' = made + 1
               /\ breakRequestCount' = 0 /\ suspendRequestCount' = 0
  BY DEF SetDebugger
<1>2. s \in CountSteps \ {"dlock", "dunlock"}
  BY DEF CountSteps
<1>3. /\ UNCHANGED <<held, debugRequestCount, kept, flags, debuggerLock, runLock>>
      /\ lockCounter' = lockCounter
      /\ blockDebuggerRequestCount' = blockDebuggerRequestCount
  BY DEF SetDebugger, objects, locks, requests
<1>4. debugRequestCount = 0 /\ breakRequestCount = 0
  BY <1>1, SetDebuggerDrained, NoBreaks DEF Step
<1>5. /\ made' \in {made, made + 1} /\ debugger' \in 0 .. made' /\ breakRequestCount' = 0
      /\ suspendRequestCount' \in Int
      /\ debugger' # 0 => s = "new" /\ suspendRequestCount' = 0
  <2>1. made \in Nat /\ suspendRequestCount \in Int
    BY CountTypes
  <2> QED
    BY <1>1, <1>4, <2>1 DEF counts
<1>6. runLock.owner = t
  BY <1>1, OwnsToAssign DEF Step
<1> QED
  BY <1>1, <1>2, <1>3, <1>4, <1>5, <1>6, CountStepUnlocked

(* A break is counted.                                                     *)
LEMMA BreakCountKeeps ==
  ASSUME RequestsInv, NEW t \in Threads, Break(t)
  PROVE  RequestsInv'
<1>1. Step(t, "break") /\ "break" \in CountSteps \ {"dlock", "dunlock"}
  BY DEF Break, CountSteps
<1>2. /\ UNCHANGED <<held, debugRequestCount, kept, flags, debuggerLock, runLock>>
      /\ made' = made /\ debugger' = debugger /\ breakRequestCount' = breakRequestCount + 1
      /\ lockCounter' = lockCounter /\ suspendRequestCount' = suspendRequestCount
      /\ blockDebuggerRequestCount' = blockDebuggerRequestCount
  BY DEF Break, objects, locks, requests
<1>3. /\ made' \in {made, made + 1} /\ debugger' \in 0 .. made'
      /\ breakRequestCount' \in Nat
      /\ suspendRequestCount' \in Int /\ suspendRequestCount' <= suspendRequestCount + 0
      /\ suspendRequestCount' >= suspendRequestCount
  BY <1>2, CountTypes
<1> QED
  BY <1>1, <1>2, <1>3, CountStepUnlocked

(* A thread that waits for the run lock is counted.                        *)
LEMMA LockCountKeeps ==
  ASSUME RequestsInv, NEW t \in Threads, LockCount(t)
  PROVE  RequestsInv'
<1>1. Step(t, "lock") /\ "lock" \in CountSteps \ {"dlock", "dunlock"}
  BY DEF LockCount, CountSteps
<1>2. /\ UNCHANGED <<held, debugRequestCount, kept, flags, debuggerLock, runLock>>
      /\ made' = made /\ debugger' = debugger /\ breakRequestCount' = breakRequestCount
      /\ lockCounter' = lockCounter + 1 /\ suspendRequestCount' = Suspended
      /\ blockDebuggerRequestCount' = blockDebuggerRequestCount
  BY DEF LockCount, objects, requests
<1>3. /\ made' \in {made, made + 1} /\ debugger' \in 0 .. made'
      /\ breakRequestCount' \in Nat
      /\ suspendRequestCount' \in Int /\ suspendRequestCount' <= suspendRequestCount + 1
      /\ suspendRequestCount' >= suspendRequestCount
  BY <1>2, CountTypes
<1> QED
  BY <1>1, <1>2, <1>3, CountStepUnlocked

-----------------------------------------------------------------------------
(***************************************************************************)
(* How a load that does not succeed goes on.                               *)
(***************************************************************************)
(* The debugger changes, or the load throws, while the requests are        *)
(* blocked; steps p take the place of "outcome".                           *)
LEMMA OutcomeStep ==
  ASSUME RequestsInv, NEW t \in Threads, At(t, "outcome"), NEW p, Continue(t, p, 1),
         NEW r, NEW e, NEW d, r = Tail(todo[t]), e = Expect(t, r), d = Expect(t, p \o r),
         p \o r \in Seq(StepNames), NEW n \in {0, 1}, Like(d, e, 1, 1, n),
         d.locks = e.locks, Typed',
         thrown' = thrown + 1 - n, debugger' # 0 => suspendRequestCount' = 0 \/
                                     (debugger # 0 /\ suspendRequestCount' = suspendRequestCount),
         UNCHANGED <<emu, held, breakRequestCount, requests, debuggerLock, runLock, lockCounter>>
  PROVE  RequestsInv'
<1>1. AtStepOf(t, "outcome", e)
  BY AtDue
<1>2. Ready(e) /\ e.suspends = "no" /\ Due(t).first # "take"
  <2>1. Ready(e) /\ Due(t).first # "take"
    BY <1>1, AfterReady
  <2> QED
    BY <1>1, <2>1 DEF AtStepOf, Fits
<1>3. Due(t)' = d /\ \A u \in Threads \ {t} : todo'[u] = todo[u]
  BY <1>1, Continues DEF AtStepOf
<1>4. Others(t) /\ held' = held /\ runLock' = runLock
  BY <1>3 DEF Others
<1>5. /\ d.fit = "yes" /\ d.h = Due(t).h /\ d.k = Due(t).k /\ d.last = "used"
      /\ Due(t).last = "used" /\ d.locks \subseteq Due(t).locks
      /\ d.first \notin {"take", "lower", "decrement"}
      /\ d.suspends = Due(t).suspends /\ Due(t).b \in Nat /\ d.b \in Nat
      /\ d.b = Due(t).b - 1 + n
  BY <1>1, <1>2, SMTT(30) DEF AtStepOf, Like, Near, IsBefore, Good
<1>6. Fit(t)'
  <2>1. Fit(t)
    BY <1>1 DEF AtStepOf
  <2>2. Due(t)'.k = IF debuggerLock'.owner = t THEN debuggerLock'.depth ELSE 0
    BY <1>3, <1>5, <2>1 DEF Fit
  <2> QED
    BY <1>3, <1>4, <1>5, <2>1, <2>2, FitSame
<1>7. debugRequestCount = 0 /\ debugRequestCount' = debugRequestCount
  BY SetDebuggerDrained DEF requests
<1>8. CountsStep(t)
  <2>1. d.b \in {Due(t).b - 1, Due(t).b, Due(t).b + 1}
    BY <1>5
  <2>2. blockDebuggerRequestCount' - thrown' = blockDebuggerRequestCount - thrown + d.b - Due(t).b
    <3>1. blockDebuggerRequestCount' = blockDebuggerRequestCount
      BY DEF requests
    <3>2. thrown \in Nat /\ blockDebuggerRequestCount \in Nat
      BY DEF RequestsInv, Typed
    <3> QED
      BY <1>5, <3>1, <3>2
  <2>3. suspendRequestCount' = suspendRequestCount =>
          suspendRequestCount' - lockCounter' - N(Due(t)'.suspends = "yes")
            <= suspendRequestCount - lockCounter - N(Due(t).suspends = "yes")
    <3>1. N(Due(t).suspends = "yes") \in {0, 1}
      BY DEF N
    <3>2. suspendRequestCount \in Int /\ lockCounter \in Nat
      BY CountTypes
    <3> QED
      BY <1>3, <1>5, <3>1, <3>2
  <2> QED
    BY <1>3, <2>1, <2>2, <2>3 DEF CountsStep
<1>9. breakRequestCount' = breakRequestCount + N(Asked(t)') - N(Asked(t))
  <2>1. Asked(t)' <=> Asked(t)
    BY <1>3, <1>4, <1>5 DEF Asked, Breakers, Entries
  <2>2. N(Asked(t)) \in {0, 1} /\ N(Asked(t)') = N(Asked(t))
    BY <2>1 DEF N
  <2> QED
    BY <2>2, CountTypes
<1>10. lockCounter' = lockCounter + N(Due(t)'.first = "take") - N(Due(t).first = "take")
  <2>1. N(Due(t)'.first = "take") = 0 /\ N(Due(t).first = "take") = 0
    BY <1>2, <1>3, <1>5 DEF N
  <2> QED
    BY <2>1, CountTypes
<1>11. Busy(Emu)' => emu' = "actions"
  BY <1>1, <1>3, EmuBusy DEF AtStepOf
<1>12. runLock.owner = Emu <=> emu' \in {"run", "stopped", "actions"}
  BY <1>1 DEF AtStepOf
<1>13. LowersStep(t)
  <2>1. runLock.owner = t /\ suspendRequestCount \in Int
    BY OwnsToAssign, CountTypes
  <2>2. ~Lowering(t)' /\ Due(t)'.suspends = Due(t).suspends
    BY <1>3, <1>5 DEF Lowering
  <2> QED
    BY <1>4, <2>1, <2>2 DEF LowersStep
<1> QED
  BY <1>4, <1>6, <1>7, <1>8, <1>9, <1>10, <1>11, <1>12, <1>13, HeldSame

(* A load fails: the old debugger is back, as no request is counted.       *)
LEMMA FailsKeeps ==
  ASSUME RequestsInv, NEW t \in Threads, LoadFails(t)
  PROVE  RequestsInv'
<1>1. PICK p : p = Failure(t) /\ Continue(t, p, 1)
  BY DEF LoadFails, Failure
<1>2. /\ At(t, "outcome") /\ debugger' = kept[t] /\ kept' = [kept EXCEPT ![t] = 0]
      /\ suspendRequestCount' = IF kept[t] # 0 THEN 0 ELSE suspendRequestCount
      /\ UNCHANGED <<emu, seen, call, calls, held, breakRequestCount, requests, made, flags,
                     locks>>
  BY DEF LoadFails
<1>3. PICK r, e : /\ r \in Seq(StepNames) /\ r = Tail(todo[t]) /\ e = Expect(t, r)
                  /\ AtStepOf(t, "outcome", e)
  BY <1>2, AtDue DEF AtStepOf
<1>4. Ready(e)
  BY <1>3, AfterReady
<1>5. PICK d : d = Expect(t, p \o r)
  OBVIOUS
<1>6. p \o r \in Seq(StepNames) /\ Like(d, e, 1, 1, 1) /\ d.locks = e.locks
  BY <1>1, <1>3, <1>4, <1>5, FailureExpects
<1>7. todo' \in [Threads -> Seq(StepNames)]
  BY <1>1, <1>3, <1>6, Continues DEF AtStepOf
<1>8. Typed'
  <2>1. /\ kept' \in [Threads -> 0 .. made'] /\ debugger' \in 0 .. made' /\ made' \in Nat
        /\ made' >= made /\ breakRequestCount' \in Nat /\ suspendRequestCount' \in Int
    BY <1>2, CountTypes
  <2>2. /\ debugRequestCount' \in Nat /\ blockDebuggerRequestCount' \in Nat
        /\ lockCounter' \in Nat
        /\ held' \in [Threads -> Seq(Entries)]
        /\ debuggerLock' \in LockType /\ (debuggerLock'.owner = "free" <=> debuggerLock'.depth = 0)
        /\ runLock' \in LockType /\ (runLock'.owner = "free" <=> runLock'.depth = 0)
    BY <1>2, CountTypes DEF requests, locks
  <2> QED
    BY <1>2, <1>7, <2>1, <2>2, CountTyped
<1>9. thrown' = thrown + 1 - 1
  BY <1>2 DEF flags, RequestsInv, Typed
<1>10. /\ debugger' # 0 => suspendRequestCount' = 0
       /\ UNCHANGED <<emu, held, breakRequestCount, requests, debuggerLock, runLock, lockCounter>>
  BY <1>2 DEF locks
<1>11. PICK n \in {0, 1} : n = 1
  OBVIOUS
<1> QED
  BY <1>1, <1>2, <1>3, <1>5, <1>6, <1>8, <1>9, <1>10, <1>11, OutcomeStep

(* A load throws.                                                          *)
LEMMA ThrowsKeeps ==
  ASSUME RequestsInv, NEW t \in Threads, LoadThrows(t)
  PROVE  RequestsInv'
<1>1. PICK p : p = <<"dunlock", "release">> \o Stop(t) /\ Continue(t, p, 1)
  BY DEF LoadThrows
<1>2. /\ At(t, "outcome") /\ t # Emu /\ kept' = [kept EXCEPT ![t] = 0]
      /\ thrown' = thrown + 1
      /\ UNCHANGED <<emu, seen, call, calls, held, counts, requests, debugger, made,
                     threadPaused, stopFlag, running, locks>>
  BY DEF LoadThrows
<1>3. PICK r, e : /\ r \in Seq(StepNames) /\ r = Tail(todo[t]) /\ e = Expect(t, r)
                  /\ AtStepOf(t, "outcome", e)
  BY <1>2, AtDue DEF AtStepOf
<1>4. Ready(e) /\ e.suspends = "no"
  <2>1. Ready(e)
    BY <1>3, AfterReady
  <2> QED
    BY <1>3, <2>1 DEF AtStepOf, Fits
<1>5. PICK d : d = Expect(t, p \o r)
  OBVIOUS
<1>6. p \o r \in Seq(StepNames) /\ Like(d, e, 1, 1, 0) /\ d.locks = e.locks
  <2>1. PICK q, b : /\ q \in Seq(StepNames) /\ q = r /\ b = Expect(t, q)
                    /\ Ready(b) /\ b.suspends = "no"
    BY <1>3, <1>4
  <2>2. PICK c : c = Expect(t, (<<"dunlock", "release">> \o Stop(t)) \o q)
    OBVIOUS
  <2>3. /\ (<<"dunlock", "release">> \o Stop(t)) \o q \in Seq(StepNames)
        /\ Like(c, b, 1, 1, 0)
        /\ c.locks = b.locks
    BY <1>2, <2>1, <2>2, ThrowsExpects
  <2> QED
    BY <1>1, <1>3, <1>5, <2>1, <2>2, <2>3
<1>7. todo' \in [Threads -> Seq(StepNames)]
  BY <1>1, <1>3, <1>6, Continues DEF AtStepOf
<1>8. /\ held' = held /\ breakRequestCount' = breakRequestCount /\ emu' = emu
      /\ suspendRequestCount' = suspendRequestCount
      /\ debugRequestCount' = debugRequestCount
      /\ blockDebuggerRequestCount' = blockDebuggerRequestCount
      /\ lockCounter' = lockCounter
      /\ debuggerLock' = debuggerLock /\ runLock' = runLock /\ debugger' = debugger
      /\ made' = made
      /\ thrown' \in Nat /\ kept' \in [Threads -> 0 .. made]
  BY <1>2 DEF counts, requests, locks, RequestsInv, Typed
<1>9. Typed'
  BY <1>2, <1>7, <1>8 DEF RequestsInv, Typed, LockType
<1>10. UNCHANGED <<emu, held, breakRequestCount, requests, debuggerLock, runLock, lockCounter>>
  BY <1>8 DEF requests
<1>11. thrown' = thrown + 1 - 0
  BY <1>2 DEF RequestsInv, Typed
<1>12. PICK n \in {0, 1} : n = 0
  OBVIOUS
<1> QED
  BY <1>1, <1>2, <1>3, <1>5, <1>6, <1>8, <1>9, <1>10, <1>11, <1>12, OutcomeStep

-----------------------------------------------------------------------------
(***************************************************************************)
(* The steps that take an entry, or give one back.                         *)
(***************************************************************************)
LEMMA FitMore ==
  ASSUME NEW t \in Threads, Fit(t), held \in [Threads -> Seq(Entries)], NEW x \in Entries,
         Hold(t, x), Good(Due(t)), Good(Due(t)'), Due(t)'.fit = "yes",
         Due(t)'.h = Due(t).h + 1, Due(t)'.last # "real",
         Due(t)'.last = "new" => x \notin RunLocks,
         Due(t)'.locks \subseteq Due(t).locks \cup (IF x \in RunLocks THEN {Due(t)'.h} ELSE {}),
         Due(t)'.k = Due(t).k, debuggerLock' = debuggerLock
  PROVE  Fit(t)'
<1>1. PICK s \in Seq(Entries), n \in Nat : s = held[t] /\ n = Len(s)
  OBVIOUS
<1>2. PICK r : r = held'[t] /\ r = <<x>> \o s
  BY <1>1, HoldAdds
<1>3. /\ r \in Seq(Entries) /\ Len(r) = n + 1 /\ r # <<>> /\ Head(r) = x
      /\ \A i \in 1 .. n : EntryOf(r, i) = EntryOf(s, i)
      /\ EntryOf(r, n + 1) = x
  BY <1>1, <1>2, EntryFirst
<1>4. Due(t)'.h = n + 1 /\ Due(t).h = n
  BY <1>1 DEF Fit
<1>5. ASSUME NEW i \in Due(t)'.locks PROVE EntryOf(r, i) \in RunLocks
  <2>1. CASE i \in Due(t).locks
    <3>1. i \in 1 .. n /\ EntryOf(s, i) \in RunLocks
      BY <1>1, <1>4, <2>1 DEF Good, Fit
    <3> QED
      BY <1>3, <3>1
  <2>2. CASE i \notin Due(t).locks
    <3>1. x \in RunLocks /\ i = n + 1
      BY <1>4, <2>2
    <3> QED
      BY <1>3, <3>1
  <2> QED
    BY <2>1, <2>2
<1>6. Due(t)'.last \in {"used", "new"}
  BY DEF Good
<1>7. /\ Due(t)'.h = Len(held'[t])
      /\ Due(t)'.last # "used" => held'[t] # <<>> /\ Head(held'[t]) \notin RunLocks
  BY <1>2, <1>3, <1>4, <1>6
<1>8. \A i \in Due(t)'.locks : EntryOf(held'[t], i) \in RunLocks
  BY <1>2, <1>5
<1>9. Due(t)'.k = IF debuggerLock'.owner = t THEN debuggerLock'.depth ELSE 0
  BY DEF Fit
<1> QED
  BY <1>6, <1>7, <1>8, <1>9 DEF Fit

(* and an entry less.                                                      *)
LEMMA FitLess ==
  ASSUME NEW t \in Threads, Fit(t), held \in [Threads -> Seq(Entries)], held[t] # <<>>,
         GiveBack(t), Good(Due(t)), Good(Due(t)'), Due(t)'.fit = "yes",
         Due(t)'.h = Due(t).h - 1, Due(t)'.last = "used",
         Due(t)'.locks \subseteq Due(t).locks,
         Due(t)'.k = Due(t).k, debuggerLock' = debuggerLock
  PROVE  Fit(t)'
<1>1. PICK x \in Entries, s \in Seq(Entries) : s = held'[t] /\ held[t] = <<x>> \o s
  BY GiveBackAdds DEF Adds
<1>2. PICK n \in Nat : n = Len(s)
  BY <1>1
<1>3. PICK r : r = held[t] /\ r = <<x>> \o s
  BY <1>1
<1>4. /\ r \in Seq(Entries) /\ Len(r) = n + 1 /\ r # <<>> /\ Head(r) = x
      /\ \A i \in 1 .. n : EntryOf(r, i) = EntryOf(s, i)
      /\ EntryOf(r, n + 1) = x
  <2>1. Longer(r, x, s)
    BY <1>3 DEF Longer
  <2> QED
    BY <1>1, <1>2, <2>1, EntryMore
<1>5. Due(t)'.h = n
  BY <1>2, <1>3, <1>4 DEF Fit
<1>6. ASSUME NEW i \in Due(t)'.locks PROVE EntryOf(s, i) \in RunLocks
  <2>1. i \in 1 .. n /\ EntryOf(r, i) \in RunLocks
    BY <1>3, <1>5 DEF Good, Fit
  <2> QED
    BY <1>4, <2>1
<1>7. Due(t)'.h = Len(held'[t])
  BY <1>1, <1>2, <1>5
<1>8. \A i \in Due(t)'.locks : EntryOf(held'[t], i) \in RunLocks
  BY <1>1, <1>6
<1>9. Due(t)'.k = IF debuggerLock'.owner = t THEN debuggerLock'.depth ELSE 0
  BY DEF Fit
<1> QED
  BY <1>7, <1>8, <1>9 DEF Fit

(* An entry more keeps the debugger of the others,                         *)
LEMMA CurrentMore ==
  ASSUME NEW t \in Threads, held \in [Threads -> Seq(Entries)], Current, NEW x \in Entries,
         Hold(t, x), debugger' = debugger,
         x.debugger = IF x.kind = "request" THEN debugger ELSE 0
  PROVE  Current'
<1>1. PICK s \in Seq(Entries), n \in Nat : s = held[t] /\ n = Len(s)
  OBVIOUS
<1>2. PICK r : r = held'[t] /\ r = <<x>> \o s
  BY <1>1, HoldAdds
<1>3. Len(r) = n + 1 /\ r[1] = x /\ \A i \in 1 .. n + 1 : i # 1 => r[i] = s[i - 1]
  BY <1>1, <1>2
<1>4. ASSUME NEW i \in 1 .. n + 1
      PROVE  r[i].debugger = IF r[i].kind = "request" THEN debugger' ELSE 0
  <2>1. CASE i = 1
    BY <1>3, <2>1
  <2>2. CASE i # 1
    <3>1. PICK j \in 1 .. n : j = i - 1
      BY <1>1, <2>2
    <3>2. s[j].debugger = IF s[j].kind = "request" THEN debugger ELSE 0
      BY <1>1, <3>1 DEF Current
    <3> QED
      BY <1>3, <2>2, <3>1, <3>2
  <2> QED
    BY <2>1, <2>2
<1>5. ASSUME NEW u \in Threads, NEW i \in 1 .. Len(held'[u])
      PROVE  held'[u][i].debugger = IF held'[u][i].kind = "request" THEN debugger' ELSE 0
  <2>1. CASE u = t
    BY <1>2, <1>3, <1>4, <2>1
  <2>2. CASE u # t
    <3>1. held'[u] = held[u]
      BY <2>2 DEF Hold
    <3> QED
      BY <3>1 DEF Current
  <2> QED
    BY <2>1, <2>2
<1> QED
  BY <1>5 DEF Current

(* and so does an entry less.                                              *)
LEMMA CurrentLess ==
  ASSUME NEW t \in Threads, held \in [Threads -> Seq(Entries)], Current, held[t] # <<>>,
         GiveBack(t), debugger' = debugger
  PROVE  Current'
<1>1. PICK s \in Seq(Entries), n \in Nat : s = held[t] /\ n = Len(s) /\ s # <<>>
  OBVIOUS
<1>2. held'[t] = Tail(s)
  BY <1>1 DEF GiveBack
<1>3. Len(Tail(s)) = n - 1 /\ n >= 1 /\ \A i \in 1 .. n - 1 : Tail(s)[i] = s[i + 1]
  BY <1>1
<1>4. ASSUME NEW u \in Threads, NEW i \in 1 .. Len(held'[u])
      PROVE  held'[u][i].debugger = IF held'[u][i].kind = "request" THEN debugger' ELSE 0
  <2>1. CASE u = t
    <3>1. PICK j \in 1 .. n : j = i + 1 /\ held'[t][i] = s[j]
      BY <1>1, <1>2, <1>3, <2>1
    <3>2. s[j].debugger = IF s[j].kind = "request" THEN debugger ELSE 0
      BY <1>1, <3>1 DEF Current
    <3> QED
      BY <2>1, <3>1, <3>2
  <2>2. CASE u # t
    <3>1. held'[u] = held[u]
      BY <2>2 DEF GiveBack
    <3> QED
      BY <3>1 DEF Current
  <2> QED
    BY <2>1, <2>2
<1> QED
  BY <1>4 DEF Current

(* The run lock is that of the thread whose last entry is a lock.          *)
LEMMA TopLock ==
  ASSUME RequestsInv, NEW t \in Threads, held[t] # <<>>, Head(held[t]) \in RunLocks
  PROVE  runLock.owner = t /\ runLock.depth # 0
<1>1. PICK s \in Seq(Entries) : s = held[t] /\ s # <<>>
  BY DEF RequestsInv, Typed
<1>2. PICK X : X = RunLocks
  OBVIOUS
<1>3. Len(s) \in Heights(s, X)
  BY <1>1, <1>2, EntryLast
<1>4. Cardinality(Heights(s, X)) # 0
  BY <1>3, HeightsFinite, Counted
<1>5. runLock.owner = t
  BY <1>1, <1>2, <1>4 DEF RequestsInv, RunLocked
<1>6. t # "free"
  BY ConstantsAssumption DEF Threads, Emu
<1> QED
  BY <1>5, <1>6, CountTypes

(* A step that takes entry x, and makes the next steps expect it.          *)
LEMMA MoreStep ==
  ASSUME RequestsInv, NEW t \in Threads, NEW x \in Entries, Hold(t, x), Busy(t),
         todo' \in [Threads -> Seq(StepNames)], \A u \in Threads \ {t} : todo'[u] = todo[u],
         Good(Due(t)), Good(Due(t)'), Due(t)'.fit = "yes", Due(t)'.h = Due(t).h + 1,
         Due(t)'.k = Due(t).k, Due(t)'.b = Due(t).b, Due(t)'.suspends = Due(t).suspends,
         Due(t)'.first \notin {"take", "lower", "decrement"}, Due(t).last = "used", Due(t)'.last # "real",
         Due(t)'.last = "used" => x.debugger = 0, Due(t)'.last = "new" => x \notin RunLocks,
         Due(t)'.locks \subseteq Due(t).locks \cup (IF x \in RunLocks THEN {Due(t)'.h} ELSE {}),
         Due(t).first = "take" <=> x \in RunLocks,
         Due(t)'.requests = "none" => Due(t).requests = "none",
         x.debugger = IF x.kind = "request" THEN debugger ELSE 0,
         x \in Requests => \A u \in Threads : Due(u).requests # "none",
         UNCHANGED <<emu, seen, call, calls, counts, blockDebuggerRequestCount, objects, flags,
                     debuggerLock, lockCounter>>,
         debugRequestCount' = debugRequestCount + N(x \in Requests),
         IF x \in RunLocks THEN CanTake(runLock, t) /\ runLock' = Taken(runLock, t)
                           ELSE runLock' = runLock
  PROVE  RequestsInv'
<1>1. /\ held \in [Threads -> Seq(Entries)] /\ held' \in [Threads -> Seq(Entries)]
      /\ held'[t] = <<x>> \o held[t] /\ \A u \in Threads \ {t} : held'[u] = held[u]
  <2>1. held \in [Threads -> Seq(Entries)]
    BY CountTypes
  <2> QED
    BY <2>1, HoldAdds DEF Adds
<1>2. /\ emu' = emu /\ debuggerLock' = debuggerLock /\ lockCounter' = lockCounter
      /\ breakRequestCount' = breakRequestCount
      /\ suspendRequestCount' = suspendRequestCount
      /\ debugger' = debugger /\ made' = made /\ kept' = kept /\ thrown' = thrown
      /\ blockDebuggerRequestCount' = blockDebuggerRequestCount
  BY DEF counts, objects, flags
<1>3. Others(t)
  BY <1>1, <1>2 DEF Others
<1>4. N(x \in Requests) \in {0, 1} /\ N(x \in RunLocks) \in {0, 1}
  BY DEF N
<1>5. /\ breakRequestCount \in Nat /\ suspendRequestCount \in Int
      /\ debugRequestCount \in Nat /\ blockDebuggerRequestCount \in Nat
      /\ lockCounter \in Nat /\ made \in Nat /\ debugger \in 0 .. made
      /\ kept \in [Threads -> 0 .. made] /\ thrown \in Nat
      /\ debuggerLock \in LockType /\ (debuggerLock.owner = "free" <=> debuggerLock.depth = 0)
      /\ runLock \in LockType /\ (runLock.owner = "free" <=> runLock.depth = 0)
  BY CountTypes DEF RequestsInv, Typed
<1>6. Typed'
  <2>1. runLock' \in LockType /\ (runLock'.owner = "free" <=> runLock'.depth = 0)
    BY <1>5, TakenTyped
  <2>2. debugRequestCount' \in Nat
    BY <1>4, <1>5
  <2>3. made' >= made
    BY <1>2, <1>5
  <2> QED
    BY <1>1, <1>2, <1>5, <2>1, <2>2, <2>3, CountTyped
<1>7. Fit(t)'
  BY <1>1, <1>2, FitMore DEF RequestsInv
<1>8. RunLocked'
  BY <1>2, <1>3, TakenRunLock
<1>9. Current'
  BY <1>1, <1>2, CurrentMore DEF RequestsInv
<1>10. CountsStep(t)
  <2>1. Due(t).b \in Nat
    BY DEF Good
  <2>2. N(Due(t).suspends = "yes") \in {0, 1}
    BY DEF N
  <2> QED
    BY <1>2, <1>5, <2>1, <2>2 DEF CountsStep
<1>11. ~ Asked(t)'
  <2>1. SUFFICES ASSUME Asked(t)' PROVE FALSE
    OBVIOUS
  <2>2. Due(t)'.last = "used" /\ Head(held'[t]).debugger # 0
    BY <2>1 DEF Asked, Breakers
  <2>3. Head(held'[t]) = x
    BY <1>1
  <2> QED
    BY <2>2, <2>3
<1>12. lockCounter' = lockCounter + N(x \in RunLocks)
                        + N(Due(t)'.first = "take") - N(Due(t).first = "take")
  <2>1. N(Due(t)'.first = "take") = 0 /\ N(Due(t).first = "take") = N(x \in RunLocks)
    BY DEF N
  <2> QED
    BY <1>2, <1>4, <1>5, <2>1
<1>13. debugRequestCount' = debugRequestCount \/ \A u \in Threads : Due(u).requests # "none"
  <2>1. x \notin Requests => N(x \in Requests) = 0
    BY DEF N
  <2> QED
    BY <1>5, <2>1
<1>14. Due(t)'.requests = "none" => debugRequestCount' = 0
  BY <1>13 DEF RequestsInv, Drained
<1>15. LowersStep(t)
  <2>1. \A u \in Threads \ {t} : runLock.owner = u => runLock'.owner = u
    BY ConstantsAssumption DEF CanTake, Threads, Emu
  <2>2. ~Lowering(t)' /\ Due(t)'.suspends = Due(t).suspends
    BY DEF Lowering
  <2> QED
    BY <1>2, <1>5, <2>1, <2>2 DEF LowersStep
<1> QED
  BY <1>2, <1>3, <1>6, <1>7, <1>8, <1>9, <1>10, <1>11, <1>12, <1>13, <1>14, <1>15, HeldMore

(* A step that gives back entry x, the last one.                           *)
LEMMA LessStep ==
  ASSUME RequestsInv, NEW t \in Threads, held[t] # <<>>, GiveBack(t), Busy(t),
         NEW x, x = Head(held[t]),
         todo' \in [Threads -> Seq(StepNames)], \A u \in Threads \ {t} : todo'[u] = todo[u],
         Good(Due(t)), Good(Due(t)'), Due(t)'.fit = "yes", Due(t)'.h = Due(t).h - 1,
         Due(t)'.k = Due(t).k, Due(t)'.b = Due(t).b, Due(t)'.suspends = Due(t).suspends,
         Due(t)'.first \notin {"take", "lower", "decrement"}, Due(t).first # "take", Due(t)'.last = "used",
         Due(t)'.locks \subseteq Due(t).locks,
         Due(t)'.requests = "none" => Due(t).requests = "none",
         UNCHANGED <<emu, seen, call, calls, blockDebuggerRequestCount, objects, flags,
                     debuggerLock>>,
         breakRequestCount' = breakRequestCount - N(Asked(t)),
         debugRequestCount' = debugRequestCount - N(x \in Requests),
         lockCounter' = lockCounter - N(x \in RunLocks),
         \/ /\ suspendRequestCount' = suspendRequestCount
            /\ x \in RunLocks /\ debugger # 0 => suspendRequestCount = 0
         \/ Lowering(t) /\ suspendRequestCount' = suspendRequestCount - 1,
         runLock' = IF x \in RunLocks THEN Given(runLock) ELSE runLock
  PROVE  RequestsInv'
<1>1. /\ held \in [Threads -> Seq(Entries)] /\ held' \in [Threads -> Seq(Entries)]
      /\ \A u \in Threads \ {t} : held'[u] = held[u] /\ x \in Entries
  <2>1. held \in [Threads -> Seq(Entries)]
    BY CountTypes
  <2> QED
    BY <2>1, GiveBackAdds DEF Adds
<1>2. /\ emu' = emu /\ debuggerLock' = debuggerLock
      /\ debugger' = debugger /\ made' = made /\ kept' = kept /\ thrown' = thrown
      /\ blockDebuggerRequestCount' = blockDebuggerRequestCount
  BY DEF objects, flags
<1>3. Others(t)
  BY <1>1, <1>2 DEF Others
<1>4. /\ N(x \in Requests) \in {0, 1} /\ N(x \in RunLocks) \in {0, 1}
  BY DEF N
<1>5. /\ breakRequestCount \in Nat /\ suspendRequestCount \in Int
      /\ debugRequestCount \in Nat /\ blockDebuggerRequestCount \in Nat
      /\ lockCounter \in Nat /\ made \in Nat /\ debugger \in 0 .. made
      /\ kept \in [Threads -> 0 .. made] /\ thrown \in Nat
      /\ debuggerLock \in LockType /\ (debuggerLock.owner = "free" <=> debuggerLock.depth = 0)
      /\ runLock \in LockType /\ (runLock.owner = "free" <=> runLock.depth = 0)
  BY CountTypes DEF RequestsInv, Typed
<1>6. debugRequestCount' \in Nat /\ lockCounter' \in Nat
  <2>1. ASSUME NEW X, IsFiniteSet(Marked(held, X))
        PROVE  Cardinality(Marked(held, X)) - N(x \in X) \in Nat
    BY <1>1, <2>1, MarkedGiveBack
  <2>2. PICK X, Y : X = Requests /\ Y = RunLocks
    OBVIOUS
  <2>3. /\ Cardinality(Marked(held, X)) - N(x \in X) \in Nat
        /\ Cardinality(Marked(held, Y)) - N(x \in Y) \in Nat
        /\ Cardinality(Marked(held, Y)) \in Nat
    BY <2>1, <2>2, FS_CardinalityType DEF RequestsInv, Finite
  <2>4. Cardinality(Waiting) \in Nat
    BY FS_CardinalityType DEF RequestsInv, Finite
  <2>5. /\ debugRequestCount = Cardinality(Marked(held, X))
        /\ lockCounter = Cardinality(Marked(held, Y)) + Cardinality(Waiting)
    BY <2>2 DEF RequestsInv, Counts
  <2> QED
    BY <1>4, <2>2, <2>3, <2>4, <2>5
<1>7. breakRequestCount' \in Nat /\ N(Asked(t)) \in {0, 1}
  <2>1. IsFiniteSet(Broken) /\ breakRequestCount = Cardinality(Broken)
    BY DEF RequestsInv, Finite, Counts
  <2>2. /\ Cardinality(Broken') \in Nat
        /\ Cardinality(Broken') = Cardinality(Broken) - N(Asked(t))
    BY <1>1, <1>3, <2>1, BrokenGiveBack
  <2> QED
    BY <2>1, <2>2 DEF N
<1>8. Typed'
  <2>1. runLock' \in LockType /\ (runLock'.owner = "free" <=> runLock'.depth = 0)
    <3>1. CASE x \in RunLocks
      <4>1. runLock.owner = t /\ runLock.depth # 0 /\ t # "free"
        BY <3>1, TopLock, ConstantsAssumption DEF Threads, Emu
      <4> QED
        BY <1>5, <3>1, <4>1, GivenTyped
    <3>2. CASE x \notin RunLocks
      BY <1>5, <3>2
    <3> QED
      BY <3>1, <3>2
  <2>2. suspendRequestCount' \in Int
    BY <1>5
  <2>3. made' >= made
    BY <1>2, <1>5
  <2> QED
    BY <1>1, <1>2, <1>5, <1>6, <1>7, <2>1, <2>2, <2>3, CountTyped
<1>9. Fit(t)'
  BY <1>1, <1>2, FitLess DEF RequestsInv
<1>10. RunLocked'
  BY <1>2, <1>3, GivenRunLock
<1>11. Current'
  BY <1>1, <1>2, CurrentLess DEF RequestsInv
<1>12. CountsStep(t)
  <2>1. Due(t).b \in Nat
    BY DEF Good
  <2>2. N(Due(t).suspends = "yes") \in {0, 1}
    BY DEF N
  <2>3. debugger # 0 =>
          \/ suspendRequestCount' = 0
          \/ suspendRequestCount' - lockCounter' <= suspendRequestCount - lockCounter
    <3>1. CASE x \in RunLocks
      <4>1. N(x \in RunLocks) = 1
        BY <3>1 DEF N
      <4> QED
        BY <1>2, <1>5, <3>1, <4>1
    <3>2. CASE x \notin RunLocks
      <4>1. N(x \in RunLocks) = 0
        BY <3>2 DEF N
      <4> QED
        BY <1>5, <3>2, <4>1
    <3> QED
      BY <3>1, <3>2
  <2>4. /\ Due(t)'.b \in {Due(t).b - 1, Due(t).b, Due(t).b + 1}
        /\ blockDebuggerRequestCount' - thrown'
             = blockDebuggerRequestCount - thrown + Due(t)'.b - Due(t).b
    BY <1>2, <1>5, <2>1
  <2>5. suspendRequestCount' \in Int
    BY <1>8 DEF Typed
  <2>6. suspendRequestCount' - lockCounter' <= suspendRequestCount - lockCounter =>
          suspendRequestCount' - lockCounter' - N(Due(t)'.suspends = "yes")
            <= suspendRequestCount - lockCounter - N(Due(t).suspends = "yes")
    BY <1>5, <1>6, <2>2, <2>5
  <2> QED
    BY <1>2, <2>3, <2>4, <2>6 DEF CountsStep
<1>13. lockCounter' = lockCounter - N(x \in RunLocks)
                        + N(Due(t)'.first = "take") - N(Due(t).first = "take")
  <2>1. N(Due(t)'.first = "take") = 0 /\ N(Due(t).first = "take") = 0
    BY DEF N
  <2> QED
    BY <1>4, <1>5, <2>1
<1>14. debugRequestCount' = debugRequestCount \/ \A u \in Threads : Due(u).requests # "none"
  <2>1. CASE x \in Requests
    <3>1. debugRequestCount # 0
      <4>1. N(x \in Requests) = 1
        BY <2>1 DEF N
      <4> QED
        BY <1>5, <1>6, <4>1
    <3> QED
      BY <3>1 DEF RequestsInv, Drained
  <2>2. CASE x \notin Requests
    <3>1. N(x \in Requests) = 0
      BY <2>2 DEF N
    <3> QED
      BY <1>5, <3>1
  <2> QED
    BY <2>1, <2>2
<1>15. Due(t)'.requests = "none" => debugRequestCount' = 0
  BY <1>14 DEF RequestsInv, Drained
<1>16. LowersStep(t)
  <2>1. \A u \in Threads \ {t} : runLock.owner = u => runLock'.owner = u
    BY TopLock
  <2>2. ~Lowering(t)' /\ Due(t)'.suspends = Due(t).suspends
    BY DEF Lowering
  <2> QED
    BY <1>2, <1>5, <2>1, <2>2 DEF LowersStep
<1> QED
  BY <1>3, <1>8, <1>9, <1>10, <1>11, <1>12, <1>13, <1>14, <1>15, <1>16, HeldLess

(* A request that is refused.                                              *)
LEMMA NoRequestIs ==
  /\ NoRequest \in Entries /\ NoRequest.debugger = 0 /\ NoRequest.kind = "none"
  /\ NoRequest \notin Requests /\ NoRequest \notin RunLocks /\ N(NoRequest \in Requests) = 0
<1>1. NoRequest \in Entries /\ NoRequest.debugger = 0 /\ NoRequest.kind = "none"
  BY DEF NoRequest, Entries
<1>2. NoRequest \notin Requests /\ NoRequest \notin RunLocks
  BY <1>1 DEF Requests, RunLocks
<1> QED
  BY <1>1, <1>2 DEF N

(* A request that is refused is an entry without a debugger.               *)
LEMMA RefusesSteps ==
  ASSUME RequestsInv, NEW t \in Threads, NEW n, Refuses(t, n), Busy(t),
         todo' \in [Threads -> Seq(StepNames)], \A u \in Threads \ {t} : todo'[u] = todo[u],
         Good(Due(t)), Good(Due(t)'), Due(t)'.fit = "yes", Due(t)'.h = Due(t).h + 1,
         Due(t)'.k = Due(t).k, Due(t)'.b = Due(t).b, Due(t)'.suspends = Due(t).suspends,
         Due(t)'.first \notin {"take", "lower", "decrement"}, Due(t).last = "used", Due(t)'.last = "new",
         Due(t)'.locks \subseteq Due(t).locks, Due(t).first # "take",
         Due(t)'.requests = "none" => Due(t).requests = "none"
  PROVE  RequestsInv'
<1>1. PICK x \in Entries : x = NoRequest
  BY NoRequestIs
<1>2. /\ Hold(t, x) /\ x.debugger = 0 /\ x.kind = "none" /\ x \notin Requests
      /\ x \notin RunLocks
      /\ N(x \in Requests) = 0
  BY <1>1, NoRequestIs DEF Refuses
<1>3. /\ UNCHANGED <<emu, seen, call, calls, counts, blockDebuggerRequestCount, objects, flags,
                     debuggerLock, lockCounter>>
      /\ debugRequestCount' = debugRequestCount /\ runLock' = runLock
  BY DEF Refuses, requests, locks
<1>4. debugRequestCount' = debugRequestCount + N(x \in Requests)
  BY <1>2, <1>3, CountTypes
<1> QED
  BY <1>2, <1>3, <1>4, MoreStep

(* The first test of the blocks.                                           *)
LEMMA TestKeeps ==
  ASSUME RequestsInv, NEW t \in Threads, Test(t)
  PROVE  RequestsInv'
<1>1. CASE Chooses(t, "test", <<>>, 1)
  BY <1>1, ChoosesNothing
<1>2. CASE At(t, "test") /\ Refuses(t, 4)
  <2>1. PICK e : e = Expect(t, Tail(todo[t])) /\ AtStepOf(t, "test", e)
    BY <1>2, AtDue
  <2>2. PICK x \in StepNames : /\ x \in {"request", "autoRequest"} /\ e.first = "dlock"
                               /\ e.second = x /\ e.third = "dunlock"
    <3>1. {"request", "autoRequest"} \subseteq StepNames
      BY DEF StepNames
    <3> QED
      BY <2>1, <3>1 DEF AtStepOf, Fits
  <2>3. PICK q \in Seq(StepNames) : q = todo[t] /\ q # <<>>
    BY <2>1 DEF AtStepOf
  <2>4. PICK e1, e2, e3 :
              /\ IsBefore(e, t, "dlock", e1) /\ Fits(t, "dlock", e1) /\ Good(e1)
              /\ IsBefore(e1, t, x, e2) /\ Fits(t, x, e2) /\ Good(e2)
              /\ IsBefore(e2, t, "dunlock", e3) /\ Fits(t, "dunlock", e3) /\ Good(e3)
              /\ SubSeq(q, 5, Len(q)) \in Seq(StepNames)
              /\ e3 = Expect(t, SubSeq(q, 5, Len(q))) /\ e3.fit = "yes"
    <3>1. e.fit = "yes" /\ e = Expect(t, Tail(q))
      BY <2>1, <2>3 DEF AtStepOf, Fits
    <3> QED
      BY <2>2, <2>3, <3>1, Skips
  <2>5. Continue(t, <<>>, 4)
    BY <1>2 DEF Refuses
  <2>6. /\ Due(t)' = e3 /\ todo' \in [Threads -> Seq(StepNames)]
        /\ \A u \in Threads \ {t} : todo'[u] = todo[u]
    BY <2>1, <2>3, <2>4, <2>5, ContinuesAfter DEF AtStepOf
  <2>7. e2.h = e3.h /\ e2.k = e3.k + 1 /\ e2.b = e3.b /\ e2.suspends = e3.suspends
        /\ e2.locks = e3.locks /\ e2.last = e3.last /\ e2.requests = e3.requests
        /\ e3.first \notin {"take", "lower", "decrement"}
    BY <2>4 DEF IsBefore, Fits
  <2>8. e1.h = e2.h - 1 /\ e1.k = e2.k /\ e1.b = e2.b /\ e1.suspends = e2.suspends
        /\ e1.locks = e2.locks /\ e2.last = "new" /\ e1.requests = e2.requests
    BY <2>2, <2>4 DEF IsBefore, Fits
  <2>9. e.h = e1.h /\ e.k = e1.k - 1 /\ e.b = e1.b /\ e.suspends = e1.suspends
        /\ e.locks = e1.locks /\ e.requests = e1.requests
    BY <2>4 DEF IsBefore
  <2>10. /\ Due(t).h = e.h /\ Due(t).k = e.k /\ Due(t).b = e.b
         /\ Due(t).suspends = e.suspends
         /\ Due(t).locks = e.locks /\ Due(t).requests = e.requests /\ Due(t).last = "used"
         /\ Due(t).first # "take" /\ Good(Due(t)) /\ Busy(t)
    BY <2>1 DEF AtStepOf, IsBefore
  <2>11. e3.h = Due(t).h + 1 /\ e3.k = Due(t).k
    <3>1. e3.h \in Nat /\ e3.k \in Nat
      BY <2>4 DEF Good
    <3> QED
      BY <2>7, <2>8, <2>9, <2>10, <3>1
  <2>12. /\ e3.b = Due(t).b /\ e3.suspends = Due(t).suspends /\ e3.locks = Due(t).locks
         /\ e3.requests = Due(t).requests /\ e3.last = "new"
    BY <2>7, <2>8, <2>9, <2>10
  <2> QED
    BY <1>2, <2>4, <2>6, <2>7, <2>10, <2>11, <2>12, RefusesSteps
<1> QED
  BY <1>1, <1>2 DEF Test

(* While a request is answered, none is blocked, and none drained.         *)
LEMMA AnswersAll ==
  ASSUME RequestsInv, Answers
  PROVE  \A u \in Threads : Due(u).requests # "none"
<1>1. SUFFICES ASSUME NEW u \in Threads, Due(u).requests = "none" PROVE FALSE
  OBVIOUS
<1>2. Good(Due(u))
  BY DueGood DEF RequestsInv, Typed, Fit
<1>3. PICK n \in Nat \ {0} : n = Due(u).b
  BY <1>1, <1>2 DEF Good
<1>4. PICK p : p = <<u, n>>
  OBVIOUS
<1>5. p[1] = u /\ p[2] = n
  BY <1>4
<1>6. p \in Pending
  BY <1>3, <1>4, <1>5 DEF Pending, Places
<1>7. Cardinality(Pending) \in Nat \ {0}
  BY <1>6, Counted DEF RequestsInv, Finite
<1> QED
  BY <1>7 DEF RequestsInv, Counts, Typed, Answers

(* GetDebugger returns.                                                    *)
LEMMA RequestKeeps ==
  ASSUME RequestsInv, NEW t \in Threads, Request(t)
  PROVE  RequestsInv'
<1>1. PICK s \in {"request", "autoRequest"} :
        \/ At(t, s) /\ Refuses(t, 1)
        \/ s = "autoRequest" /\ Chooses(t, s, InitDebugger, 0)
        \/ /\ Answers /\ Step(t, s)
           /\ Hold(t, [kind |-> "request", debugger |-> debugger])
           /\ debugRequestCount' = debugRequestCount + 1
           /\ UNCHANGED <<counts, blockDebuggerRequestCount, objects, flags, locks>>
  BY DEF Request
<1>2. CASE s = "autoRequest" /\ Chooses(t, s, InitDebugger, 0)
  BY <1>2, RequestInits
<1>3. CASE At(t, s) /\ Continue(t, <<>>, 1)
  <2>1. PICK e : e = Expect(t, Tail(todo[t])) /\ AtStepOf(t, s, e)
    BY <1>3, AtDue
  <2>2. /\ Due(t)' = e /\ todo' \in [Threads -> Seq(StepNames)]
        /\ \A u \in Threads \ {t} : todo'[u] = todo[u]
    BY <1>3, <2>1, Goes DEF AtStepOf
  <2>3. /\ Good(e) /\ e.fit = "yes" /\ Good(Due(t)) /\ Busy(t) /\ e.last = "new"
        /\ Due(t).last = "used" /\ Due(t).first # "take" /\ e.first \notin {"take", "lower", "decrement"}
        /\ e.k = Due(t).k /\ e.b = Due(t).b /\ e.suspends = Due(t).suspends
        /\ e.locks = Due(t).locks /\ e.requests = Due(t).requests
    BY <2>1 DEF AtStepOf, IsBefore, Fits
  <2>4. e.h = Due(t).h + 1
    <3>1. Due(t).h = e.h - 1 /\ e.h \in Nat
      BY <2>1 DEF AtStepOf, IsBefore, Good
    <3> QED
      BY <3>1
  <2>5. CASE Refuses(t, 1)
    BY <2>2, <2>3, <2>4, <2>5, RefusesSteps
  <2>6. CASE /\ Answers /\ Step(t, s)
             /\ Hold(t, [kind |-> "request", debugger |-> debugger])
             /\ debugRequestCount' = debugRequestCount + 1
             /\ UNCHANGED <<counts, blockDebuggerRequestCount, objects, flags, locks>>
    <3>1. debugger \in Nat
      BY CountTypes
    <3>2. PICK x \in Entries : x = [kind |-> "request", debugger |-> debugger]
      BY <3>1 DEF Entries
    <3>3. x.kind = "request" /\ x.debugger = debugger /\ x \in Requests /\ x \notin RunLocks
      BY <3>2 DEF Requests, RunLocks
    <3>4. debugRequestCount' = debugRequestCount + N(x \in Requests)
      BY <2>6, <3>3 DEF N
    <3>5. \A u \in Threads : Due(u).requests # "none"
      BY <2>6, AnswersAll
    <3>6. /\ UNCHANGED <<emu, seen, call, calls, counts, blockDebuggerRequestCount, objects, flags,
                         debuggerLock, lockCounter>>
          /\ runLock' = runLock /\ Hold(t, x)
      BY <2>6, <3>2 DEF Step, locks
    <3> QED
      BY <2>2, <2>3, <2>4, <3>3, <3>4, <3>5, <3>6, MoreStep
  <2> QED
    BY <1>1, <1>2, <2>5, <2>6
<1> QED
  BY <1>1, <1>2, <1>3 DEF Refuses, Step

(* Lock has waited for the run lock.                                       *)
LEMMA TakeKeeps ==
  ASSUME RequestsInv, NEW t \in Threads, Take(t)
  PROVE  RequestsInv'
<1>1. /\ Step(t, "take") /\ CanTake(runLock, t) /\ runLock' = Taken(runLock, t)
      /\ Hold(t, [kind |-> "lock", debugger |-> 0])
      /\ UNCHANGED <<counts, requests, objects, flags, debuggerLock, lockCounter>>
  BY DEF Take
<1>2. At(t, "take") /\ Continue(t, <<>>, 1) /\ UNCHANGED <<emu, seen, call, calls>>
  BY <1>1 DEF Step
<1>3. PICK e : e = Expect(t, Tail(todo[t])) /\ AtStepOf(t, "take", e)
  BY <1>2, AtDue
<1>4. /\ Due(t)' = e /\ todo' \in [Threads -> Seq(StepNames)]
      /\ \A u \in Threads \ {t} : todo'[u] = todo[u]
  BY <1>2, <1>3, Goes DEF AtStepOf
<1>5. /\ Good(e) /\ e.fit = "yes" /\ Good(Due(t)) /\ Busy(t) /\ e.last = "used"
      /\ Due(t).last = "used" /\ Due(t).first = "take" /\ e.first \notin {"take", "lower", "decrement"}
      /\ e.k = Due(t).k /\ e.b = Due(t).b /\ e.suspends = Due(t).suspends
      /\ Due(t).locks = e.locks \ {e.h} /\ e.requests = Due(t).requests
  BY <1>3 DEF AtStepOf, IsBefore, Fits, Good
<1>6. e.h = Due(t).h + 1
  <2>1. Due(t).h = e.h - 1 /\ e.h \in Nat
    BY <1>3 DEF AtStepOf, IsBefore, Good
  <2> QED
    BY <2>1
<1>7. PICK x \in Entries : x = [kind |-> "lock", debugger |-> 0]
  BY DEF Entries
<1>8. x.kind = "lock" /\ x.debugger = 0 /\ x \notin Requests /\ x \in RunLocks
  BY <1>7 DEF Requests, RunLocks
<1>9. debugRequestCount' = debugRequestCount + N(x \in Requests)
  <2>1. N(x \in Requests) = 0
    BY <1>8 DEF N
  <2> QED
    BY <1>1, <2>1, CountTypes DEF requests
<1>10. /\ UNCHANGED <<emu, seen, call, calls, counts, blockDebuggerRequestCount, objects, flags,
                      debuggerLock, lockCounter>>
       /\ Hold(t, x)
  BY <1>1, <1>2, <1>7 DEF requests
<1>11. e.locks \subseteq Due(t).locks \cup (IF x \in RunLocks THEN {e.h} ELSE {})
  BY <1>5, <1>8
<1> QED
  BY <1>1, <1>4, <1>5, <1>6, <1>8, <1>9, <1>10, <1>11, MoreStep

(* An EmulatorLock without a debugger takes the run lock.                  *)
LEMMA ChooseKeeps ==
  ASSUME RequestsInv, NEW t \in Threads, Choose(t)
  PROVE  RequestsInv'
<1>1. CASE Head(held[t]).debugger # 0
  BY <1>1, BreakKeeps DEF Choose
<1>2. CASE Head(held[t]).debugger = 0
  <2>1. PICK x : x = Head(held[t]) /\ x.debugger = 0
    BY <1>2
  <2>2. /\ At(t, "choose") /\ Continue(t, Lock, 1) /\ GiveBack(t)
        /\ debugRequestCount' = IF x.kind = "request" THEN debugRequestCount - 1
                                                      ELSE debugRequestCount
        /\ UNCHANGED <<emu, seen, call, calls, counts, blockDebuggerRequestCount,
                       objects, flags, locks>>
    BY <2>1 DEF Choose
  <2>3. PICK r, e : /\ r \in Seq(StepNames) /\ r = Tail(todo[t]) /\ e = Expect(t, r)
                    /\ AtStepOf(t, "choose", e)
    BY <2>2, AtDue DEF AtStepOf
  <2>4. Ready(e) /\ Due(t).first # "take" /\ e.h >= 1 /\ Due(t).last = "new"
    <3>1. Ready(e) /\ Due(t).first # "take"
      BY <2>3, AfterReady
    <3> QED
      BY <2>3, <3>1 DEF AtStepOf, Fits, IsBefore
  <2>5. PICK d : /\ d = Expect(t, Lock \o r) /\ Lock \o r \in Seq(StepNames)
                 /\ Like(d, e, -1, 0, 0) /\ d.requests = e.requests
                 /\ d.locks = e.locks \ {e.h}
    BY <2>3, <2>4, LockExpects
  <2>6. /\ Due(t)' = d /\ todo' \in [Threads -> Seq(StepNames)]
        /\ \A u \in Threads \ {t} : todo'[u] = todo[u]
    BY <2>2, <2>3, <2>5, Continues DEF AtStepOf
  <2>7. /\ Good(d) /\ d.fit = "yes" /\ Good(Due(t)) /\ Busy(t) /\ d.last = "used"
        /\ d.first \notin {"take", "lower", "decrement"} /\ d.k = Due(t).k /\ d.b = Due(t).b
        /\ d.suspends = Due(t).suspends
        /\ d.locks = Due(t).locks /\ d.requests = Due(t).requests
    BY <2>3, <2>5 DEF AtStepOf, Like, Near, IsBefore, Good
  <2>8. d.h = Due(t).h - 1
    <3>1. d.h = e.h + (-1) /\ Due(t).h = e.h /\ e.h \in Nat
      BY <2>3, <2>5 DEF AtStepOf, Like, Near, IsBefore, Good
    <3> QED
      BY <3>1
  <2>9. held[t] # <<>> /\ x \notin RunLocks /\ x \in Entries
    <3>1. held[t] # <<>> /\ Head(held[t]) \notin RunLocks
      BY <2>3, <2>4 DEF AtStepOf, Fit
    <3> QED
      BY <2>1, <2>3, <3>1, HeldHead DEF AtStepOf
  <2>10. ~ Asked(t) /\ N(Asked(t)) = 0 /\ N(x \in RunLocks) = 0
    BY <2>4, <2>9 DEF Asked, N
  <2>11. debugRequestCount' = debugRequestCount - N(x \in Requests)
    <3>1. x \in Requests <=> x.kind = "request"
      BY <2>9 DEF Requests
    <3> QED
      BY <2>2, <3>1, CountTypes DEF N
  <2>12. /\ UNCHANGED <<emu, seen, call, calls, blockDebuggerRequestCount, objects, flags,
                        debuggerLock>>
         /\ suspendRequestCount' = suspendRequestCount /\ runLock' = runLock
         /\ breakRequestCount' = breakRequestCount - N(Asked(t))
         /\ lockCounter' = lockCounter - N(x \in RunLocks)
    BY <2>2, <2>10, CountTypes DEF counts, locks
  <2> QED
    BY <2>1, <2>2, <2>4, <2>6, <2>7, <2>8, <2>9, <2>11, <2>12, LessStep
<1> QED
  BY <1>1, <1>2

(* The destructors keep the invariant.                                     *)
LEMMA GivesBackKeeps ==
  ASSUME RequestsInv, NEW t \in Threads, NEW s \in {"release", "lower"}, Step(t, s),
         GivesBack(t, IF s = "lower" THEN suspendRequestCount - 1 ELSE suspendRequestCount),
         s = "release" => ~Lowers(t)
  PROVE  RequestsInv'
<1>1. PICK x : x = Head(held[t])
  OBVIOUS
<1>2. /\ GiveBack(t)
      /\ breakRequestCount' = IF x.debugger # 0 THEN breakRequestCount - 1 ELSE breakRequestCount
      /\ debugRequestCount' =
           IF x.kind = "request" THEN debugRequestCount - 1 ELSE debugRequestCount
      /\ suspendRequestCount' =
           IF s = "lower" THEN suspendRequestCount - 1 ELSE suspendRequestCount
      /\ runLock' = (IF x.kind = "lock" THEN Given(runLock) ELSE runLock)
      /\ lockCounter' = IF x.kind = "lock" THEN lockCounter - 1 ELSE lockCounter
      /\ UNCHANGED <<blockDebuggerRequestCount, objects, flags, debuggerLock>>
  BY <1>1 DEF GivesBack
<1>3. At(t, s) /\ Continue(t, <<>>, 1) /\ UNCHANGED <<emu, seen, call, calls>>
  BY DEF Step
<1>4. PICK e : e = Expect(t, Tail(todo[t])) /\ AtStepOf(t, s, e)
  BY <1>3, AtDue
<1>5. /\ Due(t)' = e /\ todo' \in [Threads -> Seq(StepNames)]
      /\ \A u \in Threads \ {t} : todo'[u] = todo[u]
  BY <1>3, <1>4, Goes DEF AtStepOf
<1>6. /\ Good(e) /\ e.fit = "yes" /\ Good(Due(t)) /\ Busy(t) /\ e.last = "used"
      /\ Due(t).last = "used" /\ Due(t).first = s
      /\ e.first \notin {"take", "lower", "decrement"}
      /\ e.k = Due(t).k /\ e.b = Due(t).b /\ e.suspends = Due(t).suspends
      /\ Due(t).locks = e.locks /\ e.requests = Due(t).requests
  BY <1>4 DEF AtStepOf, IsBefore, Fits, Good
<1>7. e.h = Due(t).h - 1 /\ held[t] # <<>>
  <2>1. Due(t).h = e.h + 1 /\ e.h \in Nat /\ Due(t).h = Len(held[t])
    BY <1>4 DEF AtStepOf, IsBefore, Good, Fit
  <2>2. held[t] = <<>> => Len(held[t]) = 0
    OBVIOUS
  <2> QED
    BY <2>1, <2>2
<1>8. x \in Entries
  BY <1>1, <1>4, <1>7, HeldHead DEF AtStepOf
<1>9. (x.kind = "request" <=> x \in Requests) /\ (x.kind = "lock" <=> x \in RunLocks)
  BY <1>8 DEF Requests, RunLocks
<1>10. x.debugger # 0 <=> Asked(t)
  BY <1>1, <1>6, <1>7, <1>8 DEF Asked, Breakers
<1>11. breakRequestCount' = breakRequestCount - N(Asked(t))
  BY <1>2, <1>10, CountTypes DEF N
<1>12. debugRequestCount' = debugRequestCount - N(x \in Requests)
  BY <1>2, <1>9, CountTypes DEF N
<1>13. lockCounter' = lockCounter - N(x \in RunLocks)
  BY <1>2, <1>9, CountTypes DEF N
<1>14. /\ \/ /\ suspendRequestCount' = suspendRequestCount
             /\ x \in RunLocks /\ debugger # 0 => suspendRequestCount = 0
          \/ Lowering(t) /\ suspendRequestCount' = suspendRequestCount - 1
  <2>1. CASE s = "lower"
    BY <1>2, <1>6, <2>1 DEF Lowering
  <2>2. CASE s = "release"
    BY <1>1, <1>2, <1>9, <2>2 DEF Lowers, CountedAbove
  <2> QED
    BY <2>1, <2>2
<1>15. /\ runLock' = IF x \in RunLocks THEN Given(runLock) ELSE runLock
       /\ UNCHANGED <<emu, seen, call, calls, blockDebuggerRequestCount, objects, flags,
                      debuggerLock>>
  BY <1>2, <1>3, <1>9
<1> QED
  BY <1>1, <1>2, <1>5, <1>6, <1>7, <1>11, <1>12, <1>13, <1>14, <1>15, LessStep

(* Unlock tests the suspend count first.                                   *)
LEMMA ReleaseKeeps ==
  ASSUME RequestsInv, NEW t \in Threads, Release(t) \/ Lower(t)
  PROVE  RequestsInv'
<1>1. CASE Lower(t)
  BY <1>1, GivesBackKeeps DEF Lower
<1>2. CASE Step(t, "release") /\ ~Lowers(t) /\ GivesBack(t, suspendRequestCount)
  BY <1>2, GivesBackKeeps
<1>3. CASE Chooses(t, "release", <<"lower">>, 1) /\ Lowers(t)
  <2>1. /\ At(t, "release") /\ Continue(t, <<"lower">>, 1)
        /\ UNCHANGED <<emu, seen, call, calls, held, counts, requests, objects, flags, locks>>
    BY <1>3 DEF Chooses
  <2>2. PICK r, e : /\ r \in Seq(StepNames) /\ r = Tail(todo[t]) /\ e = Expect(t, r)
                    /\ AtStepOf(t, "release", e)
    BY <2>1, AtDue DEF AtStepOf
  <2>3. /\ IsBefore(Due(t), t, "release", e) /\ Fits(t, "release", e) /\ Good(e)
        /\ Fit(t) /\ held \in [Threads -> Seq(Entries)]
    BY <2>2 DEF AtStepOf
  <2>4. PICK d : d = Expect(t, <<"lower">> \o r)
    OBVIOUS
  <2>5. "lower" \in StepNames /\ <<"lower">> \o r \in Seq(StepNames)
    <3>1. "lower" \in StepNames
      BY DEF StepNames
    <3> QED
      BY <2>2, <3>1
  <2>6. IsBefore(d, t, "lower", e) /\ d.fit = "yes"
    <3>1. d = Before(t, "lower", e)
      BY <2>2, <2>4, <2>5, ExpectCons
    <3>2. Fits(t, "lower", e)
      BY <2>3, <2>5 DEF Fits
    <3> QED
      BY <3>1, <3>2, BeforeFields
  <2>7. Alike(Due(t), d) /\ d.last = Due(t).last /\ d.requests = Due(t).requests
    BY <2>3, <2>6 DEF Alike, IsBefore
  <2>8. Due(t)' = d /\ \A u \in Threads \ {t} : todo'[u] = todo[u]
    BY <2>1, <2>2, <2>4, <2>5, Continues DEF AtStepOf
  <2>9. todo' \in [Threads -> Seq(StepNames)]
    BY <2>1, <2>2, <2>5, Continues DEF AtStepOf
  <2>10. Typed' /\ Steady /\ emu' = emu
    BY <2>1, <2>9, RemainsTyped DEF Remains
  <2>11. runLock.owner = t /\ (debugger # 0 => suspendRequestCount # 0)
    <3>1. held[t] # <<>>
      <4>1. Due(t).h = e.h + 1 /\ e.h \in Nat /\ Due(t).h = Len(held[t])
        BY <2>3 DEF IsBefore, Good, Fit
      <4>2. held[t] = <<>> => Len(held[t]) = 0
        OBVIOUS
      <4> QED
        BY <4>1, <4>2
    <3>2. Head(held[t]) \in RunLocks
      BY <1>3, <2>3, <3>1, HeldHead DEF Lowers, RunLocks
    <3> QED
      BY <1>3, <3>1, <3>2, TopLock DEF Lowers, CountedAbove
  <2>12. Busy(Emu)' => emu' = "actions"
    BY <2>2, <2>8, <2>10, EmuBusy DEF AtStepOf
  <2>13. runLock.owner = Emu <=> emu' \in {"run", "stopped", "actions"}
    BY <2>2, <2>10 DEF AtStepOf
  <2> QED
    BY <2>7, <2>8, <2>10, <2>11, <2>12, <2>13, QuietTest
<1> QED
  BY <1>1, <1>2, <1>3 DEF Release

(***************************************************************************)
(* All steps, and the initial state.                                       *)
(***************************************************************************)
LEMMA ThreadStepKeeps ==
  ASSUME RequestsInv, NEW t \in Threads, ThreadStep(t)
  PROVE  RequestsInv'
<1>1. CASE DLock(t) \/ DUnlock(t) \/ Raise(t) \/ Drain(t) \/ Unblock(t)
  BY <1>1, DLockKeeps, DUnlockKeeps, RaiseKeeps, DrainKeeps, UnblockKeeps
<1>2. CASE Test(t) \/ Request(t)
  BY <1>2, TestKeeps, RequestKeeps
<1>3. CASE IfNone(t) \/ IfAny(t) \/ Create(t) \/ Remove(t) \/ Suspend(t) \/ SetDebugger(t)
  BY <1>3, IfKeeps, ReplaceKeeps, SuspendKeeps, SetDebuggerKeeps DEF Suspend
<1>4. CASE Acquire(t) \/ Choose(t) \/ ToolBreak(t) \/ Break(t) \/ Stopped(t)
  BY <1>4, AcquireKeeps, ChooseKeeps, ToolBreakKeeps, BreakCountKeeps, StoppedKeeps
<1>5. CASE LockCount(t) \/ Take(t) \/ Release(t) \/ Lower(t)
  BY <1>5, LockCountKeeps, TakeKeeps, ReleaseKeeps
<1>6. CASE LoadFails(t) \/ Unsuspend(t) \/ LoadSucceeds(t) \/ LoadThrows(t) \/ GameLoaded(t)
  BY <1>6, FailsKeeps, UnsuspendKeeps, SucceedsKeeps, ThrowsKeeps, GameLoadedKeeps
<1>7. CASE Keep(t) \/ StopFlag(t) \/ Join(t) \/ InitConsole(t) \/ Loaded(t) \/ Start(t)
  BY <1>7, FlagKeeps DEF FlagStep
<1> QED
  BY <1>1, <1>2, <1>3, <1>4, <1>5, <1>6, <1>7 DEF ThreadStep

(* Nothing changes.                                                        *)
LEMMA StutterKeeps ==
  ASSUME RequestsInv, UNCHANGED vars
  PROVE  RequestsInv'
<1>1. /\ todo' = todo /\ held' = held /\ call' = call /\ calls' = calls /\ emu' = emu
      /\ breakRequestCount' = breakRequestCount
      /\ suspendRequestCount' = suspendRequestCount
      /\ debugRequestCount' = debugRequestCount /\ thrown' = thrown /\ seen' = seen
      /\ blockDebuggerRequestCount' = blockDebuggerRequestCount /\ kept' = kept
      /\ debugger' = debugger /\ made' = made /\ debuggerLock' = debuggerLock
      /\ runLock' = runLock /\ lockCounter' = lockCounter /\ threadPaused' = threadPaused
      /\ stopFlag' = stopFlag /\ running' = running
  BY DEF vars, work, counts, requests, objects, flags, locks
<1>2. \A u : Due(u)' = Due(u)
  BY <1>1 DEF Due
<1>3. Typed' /\ RunLocked' /\ Current' /\ \A u \in Threads : Fit(u)'
  <2>1. Typed'
    BY <1>1 DEF RequestsInv, Typed, LockType
  <2>2. RunLocked' /\ Current'
    BY <1>1 DEF RequestsInv, RunLocked, Current, Heights, EntryOf, RunLocks, Entries, Busy
  <2>3. \A u \in Threads : Fit(u)'
    BY <1>1, <1>2 DEF RequestsInv, Fit
  <2> QED
    BY <2>1, <2>2, <2>3
<1>4. /\ Marked(held, Requests)' = Marked(held, Requests)
      /\ Marked(held, RunLocks)' = Marked(held, RunLocks)
      /\ Marked(held, Breakers)' = Marked(held, Breakers)
  BY <1>1 DEF Marked, Requests, RunLocks, Breakers, Entries, Heights, EntryOf
<1>5. /\ Broken' = Broken /\ Pending' = Pending /\ Waiting' = Waiting
      /\ Suspending' = Suspending
  BY <1>1, <1>2, <1>4 DEF Broken, Pending, Waiting, Suspending
<1>6. Finite' /\ Counts' /\ Drained' /\ Lowered'
  BY <1>1, <1>2, <1>4, <1>5 DEF RequestsInv, Finite, Counts, Drained, Lowered, Lowering
<1> QED
  BY <1>3, <1>6 DEF RequestsInv

(* Every step keeps the invariant,                                         *)
LEMMA NextKeeps ==
  ASSUME RequestsInv, [Next]_vars
  PROVE  RequestsInv'
<1>1. CASE EmuStep \/ PowerCycle
  BY <1>1, EmuStepKeeps, PowerCycleKeeps
<1>2. ASSUME NEW t \in Threads, ThreadStep(t) PROVE RequestsInv'
  BY <1>2, ThreadStepKeeps
<1>3. ASSUME NEW u \in Users, NEW c \in Calls[u], Call(u, c) PROVE RequestsInv'
  BY <1>3, CallKeeps
<1>4. CASE UNCHANGED vars
  BY <1>4, StutterKeeps
<1> QED
  BY <1>1, <1>2, <1>3, <1>4 DEF Next

(* which holds at first,                                                   *)
LEMMA InitHolds ==
  ASSUME Init
  PROVE  RequestsInv
<1>1. /\ todo = [t \in Threads |-> <<>>] /\ held = [t \in Threads |-> <<>>]
      /\ Emu \in Threads /\ Emu # "free" /\ \A t \in Threads : t # "free"
  BY ConstantsAssumption DEF Init, Threads, Emu
<1>2. \A t \in Threads : Due(t) = Idle /\ held[t] = <<>> /\ ~ Busy(t) /\ Len(held[t]) = 0
  BY <1>1, ExpectNil DEF Due, Busy
<1>3. Typed
  <2>1. <<>> \in Seq(StepNames) /\ <<>> \in Seq(Entries)
    OBVIOUS
  <2>2. Free \in LockType /\ [owner |-> Emu, depth |-> 1] \in LockType
    BY <1>1 DEF Free, LockType
  <2>3. todo \in [Threads -> Seq(StepNames)] /\ held \in [Threads -> Seq(Entries)]
    BY <1>1, <2>1
  <2>4. debuggerLock.owner = "free" <=> debuggerLock.depth = 0
    BY DEF Init, Free
  <2>5. runLock.owner = "free" <=> runLock.depth = 0
    BY <1>1 DEF Init
  <2>6. /\ made \in Nat /\ seen \in 0 .. made /\ debugger \in 0 .. made
        /\ calls \in 0 .. MaxCalls
        /\ kept \in [Threads -> 0 .. made]
        /\ call \in [Threads -> AllCalls \cup {"power", "none"}]
    BY ConstantsAssumption DEF Init
  <2>7. /\ emu = "run" /\ breakRequestCount = 0 /\ suspendRequestCount = 0
        /\ debugRequestCount = 0 /\ blockDebuggerRequestCount = 0 /\ lockCounter = 0
        /\ thrown = 0 /\ threadPaused = FALSE /\ stopFlag = FALSE /\ running = TRUE
    BY DEF Init
  <2>8. debuggerLock \in LockType /\ runLock \in LockType
    BY <2>2 DEF Init
  <2>9. /\ emu \in {"start", "run", "stopped", "actions", "parked", "waked", "ended", "none"}
        /\ breakRequestCount \in Nat /\ suspendRequestCount \in Int
        /\ debugRequestCount \in Nat /\ blockDebuggerRequestCount \in Nat
        /\ lockCounter \in Nat /\ thrown \in Nat
    BY <2>7
  <2>10. threadPaused \in BOOLEAN /\ stopFlag \in BOOLEAN /\ running \in BOOLEAN
    BY <2>7, Zenon
  <2> QED
    BY <2>3, <2>4, <2>5, <2>6, <2>8, <2>9, <2>10, Zenon DEF Typed
<1>4. \A t \in Threads : Fit(t)
  BY <1>1, <1>2 DEF Fit, Idle, Init, Free
<1>5. \A t \in Threads : \A X : Heights(held[t], X) = {}
  BY <1>2 DEF Heights
<1>6. RunLocked
  <2>1. IsFiniteSet({}) /\ Cardinality({}) = 0
    BY FS_EmptySet
  <2>2. ASSUME NEW t \in Threads
        PROVE  Cardinality(Heights(held[t], RunLocks)) = 0
    BY <1>5, <2>1
  <2>3. runLock.owner = Emu /\ runLock.depth = 1 /\ 1 - 1 = 0
    BY DEF Init
  <2>4. emu = "run"
    BY DEF Init
  <2>5. \A t \in Threads :
          Cardinality(Heights(held[t], RunLocks))
            = IF runLock.owner # t THEN 0
              ELSE IF t = Emu THEN runLock.depth - 1 ELSE runLock.depth
    BY <2>2, <2>3
  <2> QED
    BY <1>1, <1>2, <2>3, <2>4, <2>5 DEF RunLocked
<1>7. \A X : Marked(held, X) = {}
  BY <1>5 DEF Marked, Places
<1>8. Broken = {} /\ Pending = {} /\ Waiting = {} /\ Suspending = {}
  BY <1>2, <1>7 DEF Broken, Pending, Waiting, Suspending, Places, Idle
<1>9. Finite /\ Counts
  <2>1. IsFiniteSet({}) /\ Cardinality({}) = 0 /\ 0 + 0 = 0
    BY FS_EmptySet
  <2>2. Marked(held, Requests) = {} /\ Marked(held, RunLocks) = {}
    BY <1>7
  <2>3. /\ debugRequestCount = 0 /\ blockDebuggerRequestCount = 0 /\ thrown = 0
        /\ breakRequestCount = 0 /\ lockCounter = 0 /\ suspendRequestCount = 0
        /\ 0 <= 0 + 0
    BY DEF Init
  <2>4. Finite
    BY <1>8, <2>1, <2>2 DEF Finite
  <2>5. Counts
    BY <1>8, <2>1, <2>2, <2>3 DEF Counts
  <2> QED
    BY <2>4, <2>5
<1>10. Drained /\ Current /\ Lowered
  BY <1>2 DEF Drained, Current, Idle, Init, Lowered, Lowering
<1> QED
  BY <1>3, <1>4, <1>6, <1>9, <1>10 DEF RequestsInv


(* and always: what the steps of every thread expect fits the locks, the   *)
(* entries and the counts of the emulator.                                 *)
THEOREM RequestsInvariant == Spec => []RequestsInv
<1>1. Init => RequestsInv
  BY InitHolds
<1>2. RequestsInv /\ [Next]_vars => RequestsInv'
  BY NextKeeps
<1> QED
  BY <1>1, <1>2, PTL DEF Spec

-----------------------------------------------------------------------------
(***************************************************************************)
(* What follows from the invariant.                                        *)
(***************************************************************************)
(* Who holds a lock's entry has the run lock, and a user who has it holds  *)
(* such an entry.                                                          *)
LEMMA LockEntry ==
  ASSUME RequestsInv, NEW u \in Users
  PROVE  (\E i \in DOMAIN held[u] : held[u][i].kind = "lock") <=> runLock.owner = u
<1>1. PICK s \in Seq(Entries) : s = held[u] /\ DOMAIN s = 1 .. Len(s)
  BY DEF RequestsInv, Typed, Threads
<1>2. PICK c : c = Cardinality(Heights(s, RunLocks)) /\ (c = 0 <=> Heights(s, RunLocks) = {})
  BY HeightsFinite, FS_EmptySet
<1>3. c = 0 <=> runLock.owner # u
  <2>1. u \in Threads /\ u # Emu /\ u # "free"
    BY ConstantsAssumption DEF Threads
  <2>2. c = IF runLock.owner # u THEN 0 ELSE runLock.depth
    BY <1>1, <1>2, <2>1 DEF RequestsInv, RunLocked
  <2>3. runLock.owner = "free" <=> runLock.depth = 0
    BY DEF RequestsInv, Typed
  <2>4. runLock.owner = u => runLock.depth # 0
    BY <2>1, <2>3
  <2> QED
    BY <2>2, <2>4
<1>4. ASSUME NEW i \in 1 .. Len(s), s[i].kind = "lock"
      PROVE  Heights(s, RunLocks) # {}
  <2>1. PICK n \in Nat : n = Len(s)
    OBVIOUS
  <2>2. n + 1 - i \in 1 .. n /\ n + 1 - (n + 1 - i) = i
    BY <2>1
  <2>3. s[i] \in RunLocks
    BY <1>4 DEF RunLocks
  <2>4. EntryOf(s, n + 1 - i) = s[i]
    BY <2>1, <2>2 DEF EntryOf
  <2>5. n + 1 - i \in Heights(s, RunLocks)
    BY <2>1, <2>2, <2>3, <2>4 DEF Heights
  <2> QED
    BY <2>5
<1>5. ASSUME NEW i \in Heights(s, RunLocks)
      PROVE  \E j \in 1 .. Len(s) : s[j].kind = "lock"
  <2>1. i \in 1 .. Len(s) /\ s[Len(s) + 1 - i] \in RunLocks
    BY DEF Heights, EntryOf
  <2>2. Len(s) + 1 - i \in 1 .. Len(s)
    BY <2>1
  <2>3. s[Len(s) + 1 - i].kind = "lock"
    BY <2>1 DEF RunLocks
  <2> QED
    BY <2>2, <2>3
<1> QED
  BY <1>1, <1>2, <1>3, <1>4, <1>5

(* Every variable has its type, each lock is free exactly at depth 0, and  *)
(* the users' entries in held say which of them has the run lock: what     *)
(* EmulatorLock's constructor takes, its destructor gives back.  No count  *)
(* but that of the suspensions falls below zero.                           *)
THEOREM TypeCorrect == Spec => []TypeOK
<1>1. RequestsInv => TypeOK
  <2> SUFFICES ASSUME RequestsInv
               PROVE  TypeOK
    OBVIOUS
  <2>1. Typed /\ Current
    BY DEF RequestsInv
  <2>2. ASSUME NEW t \in Threads, NEW i \in DOMAIN held[t]
        PROVE  held[t][i] \in [kind : {"none", "request", "lock"}, debugger : 0 .. made]
    <3>1. PICK s \in Seq(Entries) : s = held[t] /\ DOMAIN s = 1 .. Len(s)
      BY <2>1 DEF Typed
    <3>2. PICK x : x = s[i] /\ x \in Entries
      BY <2>2, <3>1
    <3>3. x.debugger = IF x.kind = "request" THEN debugger ELSE 0
      BY <2>1, <2>2, <3>1, <3>2 DEF Current
    <3>4. made \in Nat /\ debugger \in 0 .. made
      BY <2>1 DEF Typed
    <3>5. x.debugger \in 0 .. made
      BY <3>3, <3>4
    <3> QED
      BY <3>1, <3>2, <3>5 DEF Entries
  <2>3. /\ {breakRequestCount, debugRequestCount, blockDebuggerRequestCount,
            lockCounter, thrown} \subseteq Nat
        /\ suspendRequestCount \in Int
        /\ {debuggerLock, runLock} \subseteq LockType
        /\ \A lock \in {debuggerLock, runLock} : lock.owner = "free" <=> lock.depth = 0
        /\ {threadPaused, stopFlag, running} \subseteq BOOLEAN
    BY <2>1 DEF Typed
  <2>4. /\ emu \in {"start", "run", "stopped", "actions", "parked", "waked", "ended", "none"}
        /\ seen \in 0 .. made /\ debugger \in 0 .. made /\ made \in Nat
        /\ todo \in [Threads -> Seq(StepNames)] /\ calls \in 0 .. MaxCalls
        /\ call \in [Threads -> AllCalls \cup {"power", "none"}]
        /\ kept \in [Threads -> 0 .. made]
    BY <2>1 DEF Typed
  <2> QED
    BY <2>2, <2>3, <2>4, LockEntry DEF TypeOK
<1> QED
  BY <1>1, RequestsInvariant, PTL

(* As long as a DebuggerRequest lives, its debugger is the emulator's: no  *)
(* InitDebugger, StopDebugger, Stop, LoadRom or power cycle, whether it    *)
(* succeeds, fails or throws, replaces the debugger that a tool works on.  *)
THEOREM RequestsSafe == Spec => []RequestsKeepDebugger
<1>1. RequestsInv => RequestsKeepDebugger
  <2> SUFFICES ASSUME RequestsInv, NEW t \in Threads, NEW i \in DOMAIN held[t],
                      held[t][i].kind = "request"
               PROVE  held[t][i].debugger = debugger
    BY DEF RequestsKeepDebugger
  <2>1. PICK s \in Seq(Entries) : s = held[t] /\ DOMAIN s = 1 .. Len(s)
    BY DEF RequestsInv, Typed
  <2> QED
    BY <2>1 DEF RequestsInv, Current
<1> QED
  BY <1>1, RequestsInvariant, PTL

(* What is expected of a thread that is in no call.                        *)
LEMMA NobodyBusy ==
  ASSUME RequestsInv, \A t \in Threads : ~ Busy(t)
  PROVE  /\ \A t \in Threads : Due(t) = Idle /\ held[t] = <<>>
         /\ \A X : Marked(held, X) = {}
         /\ Broken = {} /\ Pending = {} /\ Waiting = {} /\ Suspending = {}
<1>1. \A t \in Threads : Due(t) = Idle
  BY ExpectNil DEF Due, Busy
<1>2. ASSUME NEW t \in Threads PROVE held[t] = <<>> /\ Len(held[t]) = 0
  <2>1. PICK s \in Seq(Entries) : s = held[t]
    BY DEF RequestsInv, Typed
  <2>2. Len(s) = 0
    BY <1>1, <2>1 DEF RequestsInv, Fit, Idle
  <2> QED
    BY <2>1, <2>2, EmptySeq
<1>3. \A X : Marked(held, X) = {}
  BY <1>2 DEF Marked, Places, Heights
<1>4. Broken = {} /\ Pending = {} /\ Waiting = {} /\ Suspending = {}
  BY <1>1, <1>3 DEF Broken, Pending, Waiting, Suspending, Places, Idle
<1> QED
  BY <1>1, <1>2, <1>3, <1>4

(* When nobody is in a call, every count and lock that the calls have      *)
(* changed is back, whatever the order in which they met, and the debugger *)
(* is neither asked to break nor suspended, also when its suspend count    *)
(* fell below zero meanwhile; only a load that threw leaves its block of   *)
(* debugger requests behind.                                               *)
THEOREM CountsSafe == Spec => []CountsReturn
<1>1. RequestsInv => CountsReturn
  <2> SUFFICES ASSUME RequestsInv, \A t \in Threads : ~ Busy(t)
               PROVE  /\ debugRequestCount = 0 /\ blockDebuggerRequestCount = thrown
                      /\ lockCounter = 0 /\ debuggerLock = Free
                      /\ runLock.owner \in {"free", Emu}
                      /\ debugger # 0 => breakRequestCount = 0 /\ suspendRequestCount = 0
    BY DEF CountsReturn
  <2>1. Typed /\ Counts /\ RunLocked /\ \A t \in Threads : Fit(t)
    BY DEF RequestsInv
  <2>2. /\ \A t \in Threads : Due(t) = Idle /\ held[t] = <<>>
        /\ Marked(held, Requests) = {} /\ Marked(held, RunLocks) = {}
        /\ Broken = {} /\ Pending = {} /\ Waiting = {} /\ Suspending = {}
    BY NobodyBusy
  <2>3. Cardinality({}) = 0 /\ thrown \in Nat /\ thrown + 0 = thrown /\ 0 + 0 = 0
    BY <2>1, FS_EmptySet DEF Typed
  <2>4. /\ debugRequestCount = 0 /\ blockDebuggerRequestCount = thrown
        /\ lockCounter = 0 /\ breakRequestCount = 0
        /\ debugger # 0 => suspendRequestCount <= 0
    BY <2>1, <2>2, <2>3 DEF Counts
  <2>5. debugger # 0 => suspendRequestCount = 0
    <3>1. \A t \in Threads : Due(t).suspends = "no"
      BY <2>2 DEF Idle
    <3>2. debugger # 0 => suspendRequestCount >= 0
      BY <3>1 DEF RequestsInv, Lowered
    <3> QED
      BY <2>1, <2>4, <3>2 DEF Typed
  <2>6. debuggerLock = Free
    <3>1. debuggerLock \in LockType /\ (debuggerLock.owner = "free" <=> debuggerLock.depth = 0)
      BY <2>1 DEF Typed
    <3>2. ASSUME NEW t \in Threads, debuggerLock.owner = t
          PROVE  debuggerLock.depth = 0 /\ t # "free"
      <4>1. Due(t).k = 0
        BY <2>2 DEF Idle
      <4>2. debuggerLock.depth = 0
        BY <2>1, <3>2, <4>1 DEF Fit
      <4> QED
        BY <4>2, ConstantsAssumption DEF Threads, Emu
    <3> QED
      BY <3>1, <3>2 DEF LockType, Free
  <2>7. runLock.owner \in {"free", Emu}
    <3>1. ASSUME NEW u \in Users PROVE runLock.owner # u
      <4>1. DOMAIN held[u] = {}
        BY <2>2 DEF Threads
      <4> QED
        BY <4>1, LockEntry
    <3> QED
      BY <2>1, <3>1 DEF Typed, LockType, Threads
  <2> QED
    BY <2>4, <2>5, <2>6, <2>7
<1> QED
  BY <1>1, RequestsInvariant, PTL

(* A thread that assigns _debugger has the run lock, or is the emulation   *)
(* thread in its call.                                                     *)
LEMMA AssignsParked ==
  ASSUME RequestsInv, NEW t \in Threads, SetDebugger(t) \/ LoadFails(t)
  PROVE  \/ emu \in {"start", "parked", "waked", "ended", "none"}
         \/ emu = "actions" /\ Busy(Emu)
<1>1. PICK s \in {"unset", "new", "outcome"} : At(t, s)
  BY DEF SetDebugger, LoadFails, Step
<1>2. PICK e : AtStepOf(t, s, e)
  BY <1>1, AtDue
<1>3. CASE t = Emu
  BY <1>2, <1>3 DEF AtStepOf
<1>4. CASE t # Emu
  <2>2. runLock.owner = t
    BY <1>1, OwnsToAssign
  <2>3. emu \notin {"run", "stopped", "actions"}
    BY <1>2, <1>4, <2>2 DEF AtStepOf
  <2> QED
    BY <2>3 DEF RequestsInv, Typed
<1> QED
  BY <1>3, <1>4

(* The emulation thread reads _debugger in each instruction, without a     *)
(* lock: whoever replaces the debugger has the run lock then, or is the    *)
(* emulation thread itself between two frames.                             *)
THEOREM ParkedSafe == Spec => DebuggerChangedParked
<1>1. RequestsInv /\ [Next]_vars =>
        [debugger' # debugger =>
           \/ emu \in {"start", "parked", "waked", "ended", "none"}
           \/ emu = "actions" /\ Busy(Emu)]_vars
  <2> SUFFICES ASSUME RequestsInv, Next, debugger' # debugger
               PROVE  \/ emu \in {"start", "parked", "waked", "ended", "none"}
                      \/ emu = "actions" /\ Busy(Emu)
    OBVIOUS
  <2>1. CASE EmuStep \/ PowerCycle
    BY <2>1 DEF EmuStep, EmuStart, EmuRuns, EmuResumes, PowerCycle, EmuGoesOn, EmuParks,
                EmuWakes, EmuReturns, objects
  <2>2. ASSUME NEW t \in Threads, ThreadStep(t)
        PROVE  SetDebugger(t) \/ LoadFails(t)
    <3>1. CASE DLock(t) \/ DUnlock(t) \/ Raise(t) \/ Drain(t) \/ Unblock(t)
      BY <3>1 DEF DLock, DUnlock, Raise, Drain, Unblock, Chooses, objects
    <3>2. CASE Test(t) \/ Request(t)
      BY <3>2 DEF Test, Request, Refuses, Chooses, objects
    <3>3. CASE IfNone(t) \/ IfAny(t) \/ Create(t) \/ Remove(t) \/ Suspend(t)
      BY <3>3 DEF IfNone, IfAny, Create, Remove, Suspend, Chooses, objects
    <3>4. CASE Acquire(t) \/ ToolBreak(t) \/ Break(t) \/ Stopped(t)
      BY <3>4 DEF Acquire, ToolBreak, Break, Stopped, Chooses, objects
    <3>5. CASE Choose(t)
      BY <3>5 DEF Choose, Chooses, objects
    <3>6. CASE LockCount(t) \/ Take(t) \/ Release(t) \/ Lower(t)
      BY <3>6 DEF LockCount, Take, Release, Lower, GivesBack, Chooses, objects
    <3>7. CASE Unsuspend(t) \/ LoadSucceeds(t) \/ LoadThrows(t) \/ GameLoaded(t)
      BY <3>7 DEF Unsuspend, LoadSucceeds, LoadThrows, GameLoaded, Chooses, objects
    <3>8. CASE Keep(t) \/ StopFlag(t) \/ Join(t) \/ InitConsole(t) \/ Loaded(t) \/ Start(t)
      BY <3>8 DEF Keep, StopFlag, Join, InitConsole, Loaded, Start, objects
    <3> QED
      BY <2>2, <3>1, <3>2, <3>3, <3>4, <3>5, <3>6, <3>7, <3>8 DEF ThreadStep
  <2>3. ASSUME NEW u \in Users, NEW c \in Calls[u], Call(u, c) PROVE FALSE
    BY <2>3 DEF Call, objects
  <2> QED
    BY <2>1, <2>2, <2>3, AssignsParked DEF Next
<1> QED
  BY <1>1, RequestsInvariant, PTL DEF Spec, DebuggerChangedParked
===============================================================================
