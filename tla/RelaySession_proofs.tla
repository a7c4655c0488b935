------------------------- MODULE RelaySession_proofs -------------------------
(***************************************************************************)
(* Machine-checked proofs about RelaySession and its SequenceBuffer, for   *)
(* every size of the log's window, of a replay page, of the buffer and of  *)
(* the socket, and any number of events and faults.                        *)
(***************************************************************************)
EXTENDS RelaySession, TLAPS, FiniteSetTheorems, SequenceTheorems

(***************************************************************************)
(* The sequence buffer.                                                    *)
(***************************************************************************)

\* A set of naturals that is not empty has a least member.
LEMMA LeastMember ==
  ASSUME NEW T \in SUBSET Nat, T # {}
  PROVE  \E n \in T : \A m \in T : n <= m
<1>1. PICK n \in T : \A m \in T : ~(<<m, n>> \in OpToRel(<, Nat))
  BY NatLessThanWellFounded, WFMin
<1>2. \A m \in T : n <= m
  <2> TAKE m \in T
  <2>1. ~(m < n)
    BY <1>1 DEF OpToRel
  <2>2. QED
    BY <2>1
<1>3. QED
  BY <1>2

\* A bounded set of sequence numbers that is not empty has a highest one.
LEMMA HighestIsHighest ==
  ASSUME NEW S \in SUBSET Nat, S # {}, NEW b \in Nat, \A n \in S : n <= b
  PROVE  Highest(S) \in S /\ \A m \in S : m <= Highest(S)
<1> DEFINE T == {k \in Nat : b - k \in S}
<1>1. PICK n \in S : TRUE
  OBVIOUS
<1>2. b - n \in T
  BY <1>1
<1>3. PICK k \in T : \A j \in T : k <= j
  BY <1>2, LeastMember
<1>4. b - k \in S
  BY <1>3
<1>5. ASSUME NEW m \in S PROVE m <= b - k
  <2>1. b - m \in T
    BY <1>5
  <2>2. k <= b - m
    BY <1>3, <2>1
  <2>3. k \in Nat /\ m \in Nat
    BY <1>3
  <2>4. QED
    BY <2>2, <2>3
<1>6. QED
  BY <1>4, <1>5 DEF Highest

\* The run the buffer releases ends before the next gap.
LEMMA RunEndFacts ==
  ASSUME NEW S \in SUBSET Nat, NEW n \in Nat, NEW b \in Nat,
         n <= b, \A m \in S : m <= b
  PROVE  /\ RunEnd(S, n) \in n .. b
         /\ RunEnd(S, n) + 1 \notin S
<1> DEFINE R == {m \in S \cup {n} : m >= n /\ (n + 1) .. m \subseteq S}
           e == Highest(R)
<1>1. n \in R
  OBVIOUS
<1>2. R \in SUBSET Nat /\ R # {} /\ \A m \in R : m <= b
  BY <1>1
<1>3. e \in R /\ \A m \in R : m <= e
  <2> HIDE DEF R
  <2> QED
    BY <1>2, HighestIsHighest
<1>4. e \in Nat /\ e >= n /\ e <= b /\ (n + 1) .. e \subseteq S
  BY <1>3
<1>5. e + 1 \notin S
  <2> SUFFICES ASSUME e + 1 \in S PROVE FALSE
    OBVIOUS
  <2> HIDE DEF e
  <2>1. (n + 1) .. (e + 1) \subseteq S
    BY <1>4
  <2>2. e + 1 \in R
    BY <1>4, <2>1
  <2>3. e + 1 <= e
    BY <1>3, <2>2
  <2>4. QED
    BY <1>4, <2>3
<1>6. RunEnd(S, n) = e
  BY DEF RunEnd
<1>7. QED
  BY <1>4, <1>5, <1>6

\* What waits behind a gap stays within maxBufferedEvents, and only the event
\* that has come is added to it.
LEMMA KeptFacts ==
  ASSUME NEW S \in SUBSET Nat, NEW n \in Nat, n \notin S, NEW b \in Nat, \A m \in S : m <= b,
         Cardinality(S) <= MaxBufferedEvents
  PROVE  Kept(S, n) \subseteq S \cup {n} /\ Cardinality(Kept(S, n)) <= MaxBufferedEvents
<1>1. IsFiniteSet(S)
  BY FS_BoundedSetOfNaturals
<1>2. Cardinality(S) \in Nat /\ MaxBufferedEvents \in Nat \ {0}
  BY <1>1, FS_CardinalityType, BufferAssumption
<1>3. CASE Cardinality(S) < MaxBufferedEvents
  <2>1. Cardinality(S \cup {n}) = Cardinality(S) + 1
    BY <1>1, FS_AddElement
  <2>2. QED
    BY <1>2, <1>3, <2>1 DEF Kept
<1>4. CASE ~(Cardinality(S) < MaxBufferedEvents) /\ n >= Highest(S)
  BY <1>4 DEF Kept
<1>5. CASE ~(Cardinality(S) < MaxBufferedEvents) /\ ~(n >= Highest(S))
  <2> DEFINE h == Highest(S)
  <2>1. S # {}
    BY <1>2, <1>5, FS_EmptySet
  <2>2. h \in S
    BY <2>1, HighestIsHighest
  <2> HIDE DEF h
  <2>3. IsFiniteSet(S \ {h}) /\ Cardinality(S \ {h}) = Cardinality(S) - 1
    BY <1>1, <2>2, FS_RemoveElement
  <2>4. Cardinality((S \ {h}) \cup {n}) = Cardinality(S) - 1 + 1
    <3>1. n \notin S \ {h}
      OBVIOUS
    <3>2. QED
      BY <2>3, <3>1, FS_AddElement
  <2>5. Kept(S, n) = (S \ {h}) \cup {n}
    BY <1>5 DEF Kept, h
  <2>6. QED
    BY <1>2, <2>4, <2>5
<1>6. QED
  BY <1>3, <1>4, <1>5

\* A run of consecutive events continues the log the game has been given.
LEMMA RunContinues ==
  ASSUME NEW k \in Nat, NEW e \in Nat, k + 1 <= e
  PROVE  [n \in 1 .. k |-> n] \o [i \in 1 .. e - (k + 1) + 1 |-> k + 1 + i - 1]
           = [n \in 1 .. e |-> n]
<1> DEFINE s == [n \in 1 .. k |-> n]
           t == [i \in 1 .. e - (k + 1) + 1 |-> k + 1 + i - 1]
           u == [n \in 1 .. e |-> n]
<1>1. s \in Seq(Nat) /\ Len(s) = k
  OBVIOUS
<1>2. t \in Seq(Nat) /\ Len(t) = e - k
  <2>1. e - (k + 1) + 1 = e - k /\ e - k \in Nat
    OBVIOUS
  <2>2. t = [i \in 1 .. e - k |-> k + i]
    BY <2>1
  <2>3. [i \in 1 .. e - k |-> k + i] \in Seq(Nat) /\ Len([i \in 1 .. e - k |-> k + i]) = e - k
    BY <2>1
  <2>4. QED
    BY <2>2, <2>3
<1>3. u \in Seq(Nat) /\ Len(u) = e
  OBVIOUS
<1>4. /\ s \o t \in Seq(Nat) /\ Len(s \o t) = e
      /\ \A i \in 1 .. e : (s \o t)[i] = IF i <= k THEN s[i] ELSE t[i - k]
  <2> HIDE DEF s, t
  <2>1. Len(s) + Len(t) = e
    BY <1>1, <1>2
  <2>2. /\ s \o t \in Seq(Nat) /\ Len(s \o t) = Len(s) + Len(t)
        /\ \A i \in 1 .. Len(s) + Len(t) : (s \o t)[i] = IF i <= Len(s) THEN s[i] ELSE t[i - Len(s)]
    BY <1>1, <1>2, ConcatProperties
  <2>3. QED
    BY <1>1, <2>1, <2>2
<1>5. \A i \in 1 .. e : (s \o t)[i] = u[i]
  <2> TAKE i \in 1 .. e
  <2>1. (s \o t)[i] = IF i <= k THEN s[i] ELSE t[i - k]
    BY <1>4
  <2>2. CASE i <= k
    <3>1. s[i] = i
      BY <2>2
    <3>2. QED
      BY <2>1, <2>2, <3>1
  <2>3. CASE ~(i <= k)
    <3>1. i - k \in 1 .. e - (k + 1) + 1
      BY <2>3
    <3>2. t[i - k] = k + 1 + (i - k) - 1
      BY <3>1
    <3>3. QED
      BY <2>1, <2>3, <3>2
  <2>4. QED
    BY <2>2, <2>3
<1>6. QED
  <2> HIDE DEF s, t, u
  <2>1. Len(s \o t) = Len(u)
    BY <1>3, <1>4
  <2>2. s \o t = u
    BY <1>3, <1>4, <1>5, <2>1, SeqEqual
  <2>3. QED
    BY <2>2 DEF s, t, u

(***************************************************************************)
(* Canonical events, one by one and in pages.                              *)
(***************************************************************************)

\* The fields of a record that InOrder describes.
LEMMA OrderFields ==
  ASSUME NEW s, InOrder(s)
  PROVE  /\ s = [buffer |-> s.buffer, delivered |-> s.delivered, gap |-> s.gap, acking |-> s.acking]
         /\ s.buffer = [last |-> s.buffer.last, waiting |-> s.buffer.waiting]
         /\ s.buffer.last \in Nat /\ s.buffer.waiting \in SUBSET Nat
         /\ s.gap = [expected |-> s.gap.expected, timer |-> s.gap.timer, requested |-> s.gap.requested]
         /\ s.gap.expected \in Int /\ s.gap.timer \in BOOLEAN /\ s.gap.requested \in BOOLEAN
         /\ s.acking \in Nat
BY DEF InOrder, Buffers, Gaps

\* Parts that make up such a record.
LEMMA OrderIntro ==
  ASSUME NEW k \in Nat, k <= tail, NEW w \in SUBSET (Nat \ {0}), w \subseteq k + 2 .. tail,
         Cardinality(w) <= MaxBufferedEvents, NEW g \in Gaps, g.expected \in {None, k + 1},
         NEW c \in Nat, c <= k
  PROVE  InOrder([buffer |-> [last |-> k, waiting |-> w], delivered |-> [j \in 1 .. k |-> j],
                  gap |-> g, acking |-> c])
<1>1. [j \in 1 .. k |-> j] \in Seq(Nat)
  OBVIOUS
<1>2. [last |-> k, waiting |-> w] \in Buffers
  BY DEF Buffers
<1>3. QED
  BY <1>1, <1>2 DEF InOrder

\* Whatever event comes, live or replayed, the game has afterwards been given
\* the log up to the buffer's last sequence, which never goes back.
LEMMA AcceptKeepsOrder ==
  ASSUME tail \in Nat, NEW s, InOrder(s), NEW n \in 1 .. tail, NEW inPage \in BOOLEAN
  PROVE  /\ InOrder(AcceptCanonical(s, n, inPage))
         /\ s.buffer.last <= AcceptCanonical(s, n, inPage).buffer.last
<1> DEFINE k == s.buffer.last
           w == s.buffer.waiting
           buf == Ingest(s.buffer, n)
           a == AcceptCanonical(s, n, inPage)
<1>1. /\ s = [buffer |-> s.buffer, delivered |-> s.delivered, gap |-> s.gap, acking |-> s.acking]
      /\ s.buffer = [last |-> k, waiting |-> w]
      /\ k \in Nat /\ w \in SUBSET Nat
      /\ s.gap = [expected |-> s.gap.expected, timer |-> s.gap.timer, requested |-> s.gap.requested]
      /\ s.gap.expected \in Int /\ s.gap.timer \in BOOLEAN /\ s.gap.requested \in BOOLEAN
      /\ s.acking \in Nat
  BY OrderFields
<1>2. /\ k <= tail /\ w \subseteq k + 2 .. tail /\ Cardinality(w) <= MaxBufferedEvents
      /\ s.gap.expected \in {None, k + 1} /\ s.delivered = [j \in 1 .. k |-> j] /\ s.acking <= k
  BY DEF InOrder
<1>3. n \in Nat /\ n <= tail /\ s.gap \in Gaps /\ w \in SUBSET (Nat \ {0})
  BY DEF InOrder, Buffers
<1>0. s.buffer.last = k /\ s.buffer.waiting = w
  OBVIOUS
<1> HIDE DEF k, w
<1>4. CASE IsDuplicate(s.buffer, n)
  <2>1. buf = s.buffer
    BY <1>4 DEF Ingest
  <2>2. a = [s EXCEPT !.acking = k]
    BY <1>0, <1>4, <2>1 DEF AcceptCanonical
  <2>3. a = [buffer |-> [last |-> k, waiting |-> w], delivered |-> [j \in 1 .. k |-> j],
             gap |-> s.gap, acking |-> k]
    BY <1>1, <1>2, <2>2
  <2>4. InOrder([buffer |-> [last |-> k, waiting |-> w], delivered |-> [j \in 1 .. k |-> j],
                 gap |-> s.gap, acking |-> k])
    <3>1. k \in Nat /\ k <= k
      BY <1>1
    <3>2. QED
      BY <3>1, <1>2, <1>3, OrderIntro
  <2>5. a.buffer.last = k
    BY <2>3
  <2>6. QED
    BY <1>0, <1>1, <2>3, <2>4, <2>5
<1>5. CASE ~IsDuplicate(s.buffer, n) /\ IsNext(s.buffer, n)
  <2> DEFINE e == RunEnd(w, n)
             v == {m \in w : m > e}
  <2>1. n = k + 1
    BY <1>0, <1>5 DEF IsNext
  <2>2. e \in n .. tail /\ e + 1 \notin w
    <3>1. \A m \in w : m <= tail
      BY <1>2
    <3>2. QED
      BY <1>1, <1>3, <3>1, RunEndFacts
  <2> HIDE DEF e
  <2>3. e \in Nat /\ e <= tail /\ n <= e
    BY <2>2, <1>3
  <2>4. buf = [last |-> e, waiting |-> v]
    BY <1>0, <1>5 DEF Ingest, e
  <2>5. v \subseteq e + 2 .. tail /\ v \in SUBSET (Nat \ {0})
    <3>1. ASSUME NEW m \in v PROVE m \in e + 2 .. tail
      <4>1. m \in w /\ m > e /\ m # e + 1
        BY <2>2
      <4>2. m \in Nat /\ m <= tail
        BY <4>1, <1>1, <1>2
      <4>3. QED
        BY <4>1, <4>2, <2>3
    <3>2. QED
      BY <3>1, <2>3
  <2>6. Cardinality(v) <= MaxBufferedEvents
    <3>1. IsFiniteSet(w) /\ Cardinality(w) \in Nat
      <4>1. \A m \in w : m <= tail
        BY <1>2
      <4>2. IsFiniteSet(w)
        BY <1>1, <4>1, FS_BoundedSetOfNaturals
      <4>3. QED
        BY <4>2, FS_CardinalityType
    <3>2. IsFiniteSet(v) /\ Cardinality(v) <= Cardinality(w)
      BY <3>1, FS_Subset
    <3>3. Cardinality(v) \in Nat
      BY <3>2, FS_CardinalityType
    <3>4. QED
      BY <1>2, <3>1, <3>2, <3>3, BufferAssumption
  <2>7. s.delivered \o Accepted(s.buffer, n) = [j \in 1 .. e |-> j]
    <3>1. Accepted(s.buffer, n) = [i \in 1 .. e - n + 1 |-> n + i - 1]
      BY <1>0, <1>5 DEF Accepted, e
    <3>2. [j \in 1 .. k |-> j] \o [i \in 1 .. e - (k + 1) + 1 |-> k + 1 + i - 1] = [j \in 1 .. e |-> j]
      BY <1>1, <2>1, <2>3, RunContinues
    <3>3. QED
      BY <3>1, <3>2, <2>1, <1>2
  <2> DEFINE g == Refreshed(s.gap, buf, inPage)
  <2>8. a = [buffer |-> [last |-> e, waiting |-> v], delivered |-> [j \in 1 .. e |-> j],
             gap |-> g, acking |-> e]
    <3>1. a = [buffer |-> buf, delivered |-> s.delivered \o Accepted(s.buffer, n),
               gap |-> Refreshed(s.gap, buf, inPage), acking |-> buf.last]
      BY <1>5 DEF AcceptCanonical
    <3>2. buf.last = e
      BY <2>4
    <3>3. QED
      BY <2>4, <2>7, <3>1, <3>2
  <2>9. g \in Gaps /\ g.expected \in {None, e + 1}
    <3> HIDE DEF v
    <3>1. CASE v = {}
      BY <2>4, <3>1 DEF Refreshed, NoGap, Gaps, None
    <3>2. CASE v # {}
      <4>1. buf.last + 1 = e + 1 /\ buf.waiting # {}
        BY <2>4, <3>2
      <4>2. g = [s.gap EXCEPT !.expected = e + 1, !.timer = ~inPage]
        BY <4>1 DEF Refreshed
      <4> HIDE DEF g
      <4>3. g = [expected |-> e + 1, timer |-> ~inPage, requested |-> s.gap.requested]
        BY <1>1, <4>2
      <4>4. (~inPage) \in BOOLEAN
        OBVIOUS
      <4>5. e + 1 \in Int
        BY <2>3
      <4>6. QED
        BY <4>3, <4>4, <4>5, <1>1 DEF Gaps
    <3>3. QED
      BY <3>1, <3>2
  <2> HIDE DEF v, g
  <2>10. InOrder([buffer |-> [last |-> e, waiting |-> v], delivered |-> [j \in 1 .. e |-> j],
                  gap |-> g, acking |-> e])
    <3>1. e \in Nat /\ e <= e
      BY <2>3
    <3>2. QED
      BY <3>1, <2>3, <2>5, <2>6, <2>9, OrderIntro
  <2>11. k <= e /\ a.buffer.last = e
    BY <2>1, <2>3, <2>8, <1>1
  <2>12. QED
    BY <1>0, <2>8, <2>10, <2>11
<1>6. CASE ~IsDuplicate(s.buffer, n) /\ ~IsNext(s.buffer, n)
  <2> DEFINE v == Kept(w, n)
             g == GapSeen(s.gap, k + 1)
  <2>1. n >= k + 2 /\ n \notin w
    BY <1>0, <1>1, <1>3, <1>6 DEF IsDuplicate, IsNext
  <2>2. buf = [last |-> k, waiting |-> v]
    BY <1>0, <1>6 DEF Ingest
  <2>3. v \subseteq w \cup {n} /\ Cardinality(v) <= MaxBufferedEvents
    <3>1. \A m \in w : m <= tail
      BY <1>2
    <3>2. QED
      BY <1>1, <1>2, <1>3, <2>1, <3>1, KeptFacts
  <2> HIDE DEF v
  <2>4. v \subseteq k + 2 .. tail /\ v \in SUBSET (Nat \ {0})
    BY <2>1, <2>3, <1>1, <1>2, <1>3
  <2>5. a = [s EXCEPT !.buffer = buf, !.gap = GapSeen(@, k + 1)]
    <3>1. buf.last = k
      BY <2>2
    <3>2. QED
      BY <1>6, <3>1 DEF AcceptCanonical
  <2>6. a = [buffer |-> [last |-> k, waiting |-> v], delivered |-> [j \in 1 .. k |-> j],
             gap |-> g, acking |-> s.acking]
    BY <1>1, <1>2, <2>2, <2>5
  <2>7. g \in Gaps /\ g.expected \in {None, k + 1}
    <3>1. CASE s.gap.expected = k + 1
      BY <3>1, <1>3 DEF GapSeen
    <3>2. CASE s.gap.expected # k + 1
      <4>1. g = [expected |-> k + 1, timer |-> TRUE, requested |-> s.gap.requested]
        BY <1>1, <3>2 DEF GapSeen
      <4> HIDE DEF g
      <4>2. k + 1 \in Int
        BY <1>1
      <4>3. QED
        BY <4>1, <4>2, <1>1 DEF Gaps
    <3>3. QED
      BY <3>1, <3>2
  <2> HIDE DEF g
  <2>8. InOrder([buffer |-> [last |-> k, waiting |-> v], delivered |-> [j \in 1 .. k |-> j],
                 gap |-> g, acking |-> s.acking])
    BY <1>1, <1>2, <2>3, <2>4, <2>7, OrderIntro
  <2>9. a.buffer.last = k
    BY <2>6
  <2>10. QED
    BY <1>0, <1>1, <2>6, <2>8, <2>9
<1>7. QED
  BY <1>4, <1>5, <1>6

\* The states a page goes through: each event acts on the one before.
PageStates(f, s, m) ==
  f = [n \in m.after .. m.through |->
         IF n = m.after THEN s ELSE AcceptCanonical(f[n - 1], n, TRUE)]

\* There are such states for every page.
LEMMA PageStatesExist ==
  ASSUME NEW s, NEW m, m.after \in Nat, m.through \in Nat, m.after <= m.through
  PROVE  \E f : PageStates(f, s, m)
<1> DEFINE a == m.after
           Upto(b) == \E f : f = [n \in a .. b |->
                                    IF n = a THEN s ELSE AcceptCanonical(f[n - 1], n, TRUE)]
           T == {b \in Nat : a <= b /\ ~Upto(b)}
<1> SUFFICES ASSUME T # {} PROVE FALSE
  <2>1. T = {} => Upto(m.through)
    <3> HIDE DEF Upto
    <3> QED
      OBVIOUS
  <2>2. QED
    BY <2>1 DEF PageStates
<1>1. PICK b \in T : \A c \in T : b <= c
  <2> HIDE DEF Upto
  <2> QED
    BY LeastMember
<1>2. b \in Nat /\ a <= b /\ ~Upto(b)
  OBVIOUS
<1>3. CASE b = a
  <2>1. [n \in a .. b |-> s] = [n \in a .. b |-> IF n = a THEN s
                                  ELSE AcceptCanonical([k \in a .. b |-> s][n - 1], n, TRUE)]
    BY <1>2, <1>3
  <2>2. Upto(b)
    BY <2>1
  <2>3. QED
    BY <1>2, <2>2
<1>4. CASE b # a
  <2>1. b - 1 \in Nat /\ a <= b - 1 /\ b - 1 < b
    BY <1>2, <1>4
  <2>2. Upto(b - 1)
    <3> HIDE DEF Upto
    <3> QED
      BY <1>1, <2>1
  <2>3. PICK f : f = [n \in a .. b - 1 |->
                        IF n = a THEN s ELSE AcceptCanonical(f[n - 1], n, TRUE)]
    BY <2>2
  <2> DEFINE g == [n \in a .. b |-> IF n = b THEN AcceptCanonical(f[b - 1], b, TRUE) ELSE f[n]]
  <2>4. \A n \in a .. b : g[n] = IF n = a THEN s ELSE AcceptCanonical(g[n - 1], n, TRUE)
    <3> TAKE n \in a .. b
    <3>1. CASE n = b
      <4>1. g[n] = AcceptCanonical(f[b - 1], b, TRUE)
        BY <3>1
      <4>2. g[b - 1] = f[b - 1]
        <5>1. b - 1 \in a .. b /\ b - 1 # b
          BY <2>1, <1>2
        <5>2. QED
          BY <5>1
      <4>3. QED
        BY <3>1, <4>1, <4>2, <1>4
    <3>2. CASE n # b
      <4>1. n \in a .. b - 1
        BY <3>2, <1>2
      <4>2. g[n] = f[n] /\ f[n] = IF n = a THEN s ELSE AcceptCanonical(f[n - 1], n, TRUE)
        BY <2>3, <4>1, <3>2
      <4>3. CASE n = a
        BY <4>2, <4>3
      <4>4. CASE n # a
        <5>1. n - 1 \in a .. b /\ n - 1 # b
          BY <4>1, <4>4, <1>2
        <5>2. g[n - 1] = f[n - 1]
          BY <5>1
        <5>3. QED
          BY <4>2, <4>4, <5>2
      <4>5. QED
        BY <4>3, <4>4
    <3>3. QED
      BY <3>1, <3>2
  <2>5. g = [n \in a .. b |-> IF n = a THEN s ELSE AcceptCanonical(g[n - 1], n, TRUE)]
    BY <2>4
  <2>6. Upto(b)
    <3> HIDE DEF g
    <3> QED
      BY <2>5
  <2>7. QED
    BY <1>2, <2>6
<1>5. QED
  BY <1>3, <1>4 DEF PageStates

\* A page keeps what each of its events keeps.
LEMMA PageKeepsOrder ==
  ASSUME tail \in Nat, NEW s, InOrder(s),
         NEW m, m.after \in Nat, m.through \in Nat, m.after <= m.through, m.through <= tail
  PROVE  InOrder(AcceptPage(s, m)) /\ s.buffer.last <= AcceptPage(s, m).buffer.last
<1> DEFINE f == CHOOSE g : PageStates(g, s, m)
<1>1. AcceptPage(s, m) = f[m.through]
  BY DEF AcceptPage, PageStates
<1>2. f = [n \in m.after .. m.through |->
             IF n = m.after THEN s ELSE AcceptCanonical(f[n - 1], n, TRUE)]
  <2>1. PageStates(f, s, m)
    BY PageStatesExist
  <2>2. QED
    BY <2>1 DEF PageStates
<1> HIDE DEF f
<1> DEFINE Good(n) == InOrder(f[n]) /\ s.buffer.last <= f[n].buffer.last
           T == {n \in Nat : n \in m.after .. m.through /\ ~Good(n)}
<1>3. T = {}
  <2> SUFFICES ASSUME T # {} PROVE FALSE
    OBVIOUS
  <2>1. PICK n \in T : \A k \in T : n <= k
    <3> HIDE DEF Good
    <3> QED
      BY LeastMember
  <2>2. n \in Nat /\ n \in m.after .. m.through /\ ~Good(n)
    OBVIOUS
  <2>3. CASE n = m.after
    <3>1. f[n] = s
      BY <1>2, <2>2, <2>3
    <3>2. s.buffer.last \in Nat
      BY OrderFields
    <3>3. QED
      BY <2>2, <3>1, <3>2
  <2>4. CASE n # m.after
    <3>1. n - 1 \in Nat /\ n - 1 \in m.after .. m.through /\ n - 1 < n /\ n \in 1 .. tail
      BY <2>2, <2>4
    <3>2. Good(n - 1)
      <4> HIDE DEF Good
      <4> QED
        BY <2>1, <3>1
    <3>3. f[n] = AcceptCanonical(f[n - 1], n, TRUE)
      BY <1>2, <2>2, <2>4
    <3>4. InOrder(f[n]) /\ f[n - 1].buffer.last <= f[n].buffer.last
      BY <3>1, <3>2, <3>3, AcceptKeepsOrder
    <3>5. s.buffer.last \in Nat /\ f[n - 1].buffer.last \in Nat /\ f[n].buffer.last \in Nat
      BY <3>2, <3>4, OrderFields
    <3>6. QED
      BY <2>2, <3>2, <3>4, <3>5
  <2>5. QED
    BY <2>3, <2>4
<1>4. Good(m.through)
  <2>1. m.through \in Nat /\ m.through \in m.after .. m.through
    OBVIOUS
  <2> HIDE DEF Good
  <2>2. QED
    BY <1>3, <2>1
<1>5. QED
  BY <1>1, <1>4

(***************************************************************************)
(* Parts of the invariant.                                                 *)
(***************************************************************************)

\* The types that the other parts do not give.
Scalars ==
  /\ tail \in 0 .. MaxEvents /\ started \in BOOLEAN /\ epoch \in 0 .. 3
  /\ acked \in 0 .. tail /\ joinedAt \in 0 .. tail
  /\ link \in {"none", "asked", "bound", "closing"}
  /\ phase \in {"idle", "waiting", "handshaking", "connected", "failed"}
  /\ known \in 0 .. 2
  /\ replayAfter \in {None} \cup 0 .. tail /\ target \in {None} \cup 0 .. tail
  /\ limited \in BOOLEAN /\ faults \in 0 .. MaxFaults

LEMMA TypeHasScalars ==
  ASSUME TypeOK
  PROVE  Scalars /\ tail \in Nat /\ MaxEvents \in Nat
BY SessionAssumption DEF TypeOK, Scalars

LEMMA LocalFields ==
  ASSUME InOrder(Local)
  PROVE  /\ buffer = [last |-> buffer.last, waiting |-> buffer.waiting]
         /\ buffer.last \in Nat /\ buffer.waiting \in SUBSET Nat /\ buffer.last <= tail
         /\ gap = [expected |-> gap.expected, timer |-> gap.timer, requested |-> gap.requested]
         /\ gap.expected \in Int /\ gap.timer \in BOOLEAN /\ gap.requested \in BOOLEAN
         /\ gap.expected \in {None, buffer.last + 1}
         /\ acking \in Nat /\ acking <= buffer.last
         /\ delivered = [n \in 1 .. buffer.last |-> n]
<1>1. /\ Local.buffer = buffer /\ Local.gap = gap /\ Local.acking = acking
      /\ Local.delivered = delivered
  BY DEF Local
<1>2. InOrder(Local)
  OBVIOUS
<1> HIDE DEF Local
<1>3. QED
  BY <1>1, <1>2, OrderFields DEF InOrder

\* The parts together give the type invariant.
LEMMA TypeFromParts == Scalars /\ InOrder(Local) /\ SocketInv => TypeOK
<1> SUFFICES ASSUME Scalars, InOrder(Local), SocketInv PROVE TypeOK
  OBVIOUS
<1>1. acking \in 0 .. tail
  BY LocalFields DEF Scalars
<1>2. buffer.last \in 0 .. tail /\ buffer.waiting \subseteq buffer.last + 2 .. tail
      /\ Cardinality(buffer.waiting) <= MaxBufferedEvents
  BY LocalFields DEF Scalars, InOrder, Local
<1>3. gap.timer \in BOOLEAN /\ gap.requested \in BOOLEAN /\ gap.expected \in {None, buffer.last + 1}
  BY LocalFields
<1>4. \A i \in 1 .. Len(down) : down[i] \in Messages
  BY ElementOfSeq DEF SocketInv
<1>5. \A i \in 1 .. Len(up) : up[i] \in 0 .. tail
  BY ElementOfSeq DEF SocketInv
<1>6. QED
  BY <1>1, <1>2, <1>3, <1>4, <1>5 DEF TypeOK, Scalars

LEMMA TypeFromPartsNext == (Scalars /\ InOrder(Local) /\ SocketInv)' => TypeOK'
BY TypeFromParts, PTL

\* With nothing changed at the client, growth of the log keeps its order.
LEMMA SameOrder ==
  ASSUME InOrder(Local), tail \in Nat, tail' \in Nat, tail <= tail',
         UNCHANGED <<buffer, delivered, gap, acking>>
  PROVE  InOrder(Local)'
<1>1. Local' = Local /\ Local.buffer = buffer
  BY DEF Local
<1>2. buffer.last \in Nat /\ buffer.last <= tail
  BY LocalFields
<1>3. buffer.waiting \subseteq buffer.last + 2 .. tail => buffer.waiting \subseteq buffer.last + 2 .. tail'
  BY <1>2
<1> HIDE DEF Local
<1>4. QED
  BY <1>1, <1>2, <1>3 DEF InOrder

\* A client that has lost its socket keeps what it was given.
LEMMA LostOrder ==
  ASSUME InOrder(Local), tail \in Nat, tail' = tail,
         UNCHANGED <<buffer, delivered>>, gap' = NoGap, acking' = 0
  PROVE  InOrder(Local)'
<1>1. /\ Local = [buffer |-> buffer, delivered |-> delivered, gap |-> gap, acking |-> acking]
      /\ Local' = [buffer |-> buffer, delivered |-> delivered, gap |-> NoGap, acking |-> 0]
  BY DEF Local
<1>2. NoGap \in Gaps /\ NoGap.expected = None
  BY DEF NoGap, Gaps, None
<1>3. buffer.last \in Nat
  BY LocalFields
<1>4. QED
  BY <1>1, <1>2, <1>3 DEF InOrder

\* The first message of a socket, and the rest.
LEMMA DownParts ==
  ASSUME SocketInv, down # <<>>
  PROVE  /\ Head(down) = down[1] /\ Head(down) \in Messages /\ Truthful(Head(down))
         /\ Tail(down) \in Seq(Messages)
         /\ \A i \in 1 .. Len(Tail(down)) :
              Truthful(Tail(down)[i]) /\ Tail(down)[i].type # "session"
         /\ link # "asked" /\ Online
<1>1. down \in Seq(Messages) /\ Len(down) \in Nat \ {0}
  BY EmptySeq DEF SocketInv
<1>2. Head(down) = down[1] /\ Head(down) \in Messages /\ Tail(down) \in Seq(Messages)
      /\ Len(Tail(down)) = Len(down) - 1 /\ \A i \in 1 .. Len(Tail(down)) : Tail(down)[i] = down[i + 1]
  BY <1>1, HeadTailProperties
<1>3. Truthful(Head(down))
  BY <1>1, <1>2 DEF SocketInv
<1>4. ASSUME NEW i \in 1 .. Len(Tail(down))
      PROVE  Truthful(Tail(down)[i]) /\ Tail(down)[i].type # "session"
  <2>1. i + 1 \in 1 .. Len(down) /\ i + 1 # 1 /\ Tail(down)[i] = down[i + 1]
    BY <1>1, <1>2
  <2>2. QED
    BY <2>1 DEF SocketInv
<1>5. link # "asked" /\ Online
  BY DEF SocketInv
<1>6. QED
  BY <1>2, <1>3, <1>4, <1>5

\* Before the session message has come, nothing but it or an error can come.
LEMMA OnlineKinds ==
  ASSUME SocketInv, down # <<>>, phase = "handshaking"
  PROVE  Head(down).type \in {"session", "error"}
BY DownParts DEF SocketInv

\* The kinds of messages.
LEMMA MessageKinds ==
  /\ Error \in Messages /\ RateLimited \in Messages /\ Close \in Messages
  /\ Error.type = "error" /\ RateLimited.type = "limited" /\ Close.type = "close"
  /\ \A n : Canonical(n).type = "canonical" /\ Canonical(n).sequence = n
  /\ \A m \in Messages :
       /\ m.type = "session" => m.epoch \in 1 .. 3 /\ m.resumed \in BOOLEAN /\ m.last \in 0 .. MaxEvents
       /\ m.type = "canonical" => m.sequence \in 1 .. MaxEvents
       /\ m.type = "replay" => m.after \in 0 .. MaxEvents /\ m.through \in 0 .. MaxEvents
                               /\ m.hasMore \in BOOLEAN
BY DEF Error, RateLimited, Close, Canonical, Messages

\* The pages createReplaySignal builds.
LEMMA PageFacts ==
  ASSUME Scalars, NEW after \in 0 .. tail
  PROVE  /\ Page(after) \in Messages /\ Page(after).type = "replay"
         /\ Page(after).after <= Page(after).through /\ Page(after).through <= tail
<1>1. tail \in Nat /\ tail <= MaxEvents /\ after \in Nat /\ after <= tail
  BY DEF Scalars
<1> DEFINE t == AtMost(after + ReplayBatchSize, tail)
<1>2. t \in Nat /\ after <= t /\ t <= tail
  BY <1>1, SessionAssumption DEF AtMost
<1>3. Page(after) = [type |-> "replay", after |-> after, through |-> t, hasMore |-> t < tail]
  BY DEF Page
<1> HIDE DEF t
<1>4. (t < tail) \in BOOLEAN
  BY <1>1, <1>2
<1>5. after \in 0 .. MaxEvents /\ t \in 0 .. MaxEvents
  BY <1>1, <1>2, SessionAssumption
<1>6. Page(after) \in [type : {"replay"}, after : 0 .. MaxEvents, through : 0 .. MaxEvents, hasMore : BOOLEAN]
  BY <1>3, <1>4, <1>5
<1>7. QED
  BY <1>2, <1>3, <1>6 DEF Messages

\* A bound socket to which messages other than a session's are appended.
LEMMA AppendKeepsSocket ==
  ASSUME SocketInv, link = "bound", tail \in Nat, tail' \in Nat, tail <= tail',
         NEW e \in Seq(Messages), down' = down \o e,
         \A i \in 1 .. Len(e) : e[i].type # "session" /\ Truthful(e[i])',
         link' \in {"bound", "closing"}, up' \in Seq(0 .. tail'),
         phase = "handshaking" => up' = <<>> /\ acking' = 0 /\ acked' = acked,
         UNCHANGED <<known, phase, buffer, gap>>
  PROVE  SocketInv'
<1>1. Online
  BY DEF SocketInv
<1>2. down \in Seq(Messages)
  BY DEF SocketInv
<1>3. /\ down' \in Seq(Messages) /\ Len(down') = Len(down) + Len(e)
      /\ \A i \in 1 .. Len(down) + Len(e) : down'[i] = IF i <= Len(down) THEN down[i] ELSE e[i - Len(down)]
  BY <1>2, ConcatProperties
<1>4. Len(down) \in Nat /\ Len(e) \in Nat
  BY <1>2, LenProperties
<1>5. ASSUME NEW i \in 1 .. Len(down')
      PROVE  Truthful(down[i])' /\ (down'[i].type = "session" => i = 1)
  <2>1. CASE i <= Len(down)
    <3>1. i \in 1 .. Len(down) /\ down'[i] = down[i]
      BY <2>1, <1>3, <1>4
    <3>2. Truthful(down[i]) /\ (down[i].type = "session" => i = 1) /\ down[i] \in Messages
      BY <3>1, <1>2, ElementOfSeq DEF SocketInv
    <3>3. QED
      BY <3>1, <3>2, MessageKinds DEF Truthful
  <2>2. CASE ~(i <= Len(down))
    <3>1. i - Len(down) \in 1 .. Len(e) /\ down'[i] = e[i - Len(down)]
      BY <2>2, <1>3, <1>4
    <3>2. QED
      BY <3>1 DEF Truthful
  <2>3. QED
    BY <2>1, <2>2
<1>6. phase = "handshaking" => down' # <<>> /\ down'[1].type \in {"session", "error"}
  <2> SUFFICES ASSUME phase = "handshaking" PROVE down' # <<>> /\ down'[1].type \in {"session", "error"}
    OBVIOUS
  <2>1. down # <<>> /\ down[1].type \in {"session", "error"}
    BY DEF SocketInv
  <2>2. Len(down) \in Nat \ {0}
    BY <2>1, <1>2, EmptySeq
  <2>3. down'[1] = down[1] /\ Len(down') # 0
    BY <2>2, <1>3, <1>4
  <2>4. QED
    BY <2>1, <2>3, EmptySeq
<1>7. QED
  BY <1>1, <1>3, <1>5, <1>6 DEF SocketInv, Online

(***************************************************************************)
(* The server's steps.                                                     *)
(***************************************************************************)

\* The state in which the game creates the client.
LEMMA InitIInv == Init => IInv
<1> SUFFICES ASSUME Init PROVE IInv
  OBVIOUS
<1>1. NoGap \in Gaps /\ NoGap.expected = None
  BY DEF NoGap, Gaps, None
<1>2. Cardinality({}) = 0
  BY FS_EmptySet
<1>3. InOrder(Local)
  <2>1. Local = [buffer |-> [last |-> 0, waiting |-> {}], delivered |-> <<>>, gap |-> NoGap, acking |-> 0]
    BY DEF Init, Local, EmptyAt
  <2>2. <<>> = [j \in 1 .. 0 |-> j]
    OBVIOUS
  <2>3. InOrder([buffer |-> [last |-> 0, waiting |-> {}], delivered |-> [j \in 1 .. 0 |-> j],
                 gap |-> NoGap, acking |-> 0])
    <3>1. tail = 0 /\ 0 \in Nat /\ 0 <= tail /\ 0 <= MaxBufferedEvents
      BY BufferAssumption DEF Init
    <3>2. {} \in SUBSET (Nat \ {0}) /\ {} \subseteq 0 + 2 .. tail
      OBVIOUS
    <3>3. NoGap.expected \in {None, 0 + 1} /\ Cardinality({}) <= MaxBufferedEvents
      BY <1>1, <1>2, <3>1
    <3>4. 0 <= 0
      OBVIOUS
    <3>5. QED
      BY <1>1, <3>1, <3>2, <3>3, <3>4, OrderIntro
  <2>4. QED
    BY <2>1, <2>2, <2>3
<1>4. Scalars
  <2>1. 0 \in 0 .. MaxEvents /\ 0 \in 0 .. MaxFaults /\ 0 \in 0 .. 0
    BY SessionAssumption
  <2>2. tail \in 0 .. MaxEvents /\ acked \in 0 .. tail /\ joinedAt \in 0 .. tail /\ faults \in 0 .. MaxFaults
    BY <2>1 DEF Init
  <2>3. epoch \in 0 .. 3 /\ known \in 0 .. 2
    BY DEF Init
  <2>4. /\ replayAfter = None /\ target = None /\ started \in BOOLEAN /\ limited \in BOOLEAN
        /\ link = "none" /\ phase = "idle"
    BY DEF Init
  <2>5. QED
    BY <2>2, <2>3, <2>4 DEF Scalars
<1>5. SocketInv
  BY DEF Init, SocketInv, Online
<1>6. TypeOK /\ (known # 0 => acked <= buffer.last)
  BY <1>3, <1>4, <1>5, TypeFromParts DEF Init, EmptyAt
<1>7. QED
  BY <1>3, <1>5, <1>6 DEF IInv

\* The broadcaster sends one message, or cuts the socket off.
LEMMA SendKeepsSocket ==
  ASSUME SocketInv, tail \in Nat, tail' \in Nat, tail <= tail',
         NEW m \in Messages, m.type # "session", Truthful(m)', Send(m),
         up' \in Seq(0 .. tail'),
         phase = "handshaking" => up' = <<>> /\ acking' = 0 /\ acked' = acked,
         ~Online => up' = <<>> /\ acking' = 0,
         UNCHANGED <<known, phase, buffer, gap>>
  PROVE  SocketInv' /\ link' \in {link, "closing"}
<1>1. CASE link = "bound"
  <2>1. PICK e \in {m, Close} : down' = Append(down, e) /\ link' \in {"bound", "closing"}
    BY <1>1 DEF Send
  <2>2. e \in Messages /\ e.type # "session" /\ Truthful(e)'
    BY <2>1, MessageKinds DEF Truthful
  <2>3. down' = down \o <<e>> /\ <<e>> \in Seq(Messages) /\ Len(<<e>>) = 1 /\ <<e>>[1] = e
    BY <2>1, <2>2 DEF SocketInv
  <2>4. \A i \in 1 .. Len(<<e>>) : <<e>>[i].type # "session" /\ Truthful(<<e>>[i])'
    BY <2>2, <2>3
  <2>5. SocketInv'
    BY <1>1, <2>1, <2>3, <2>4, AppendKeepsSocket
  <2>6. QED
    BY <1>1, <2>1, <2>5
<1>2. CASE link # "bound"
  <2>1. UNCHANGED <<link, down>>
    BY <1>2 DEF Send
  <2>2. ASSUME NEW i \in 1 .. Len(down)
        PROVE  Truthful(down[i])' /\ (down'[i].type = "session" => i = 1)
    <3>1. Truthful(down[i]) /\ (down[i].type = "session" => i = 1) /\ down[i] \in Messages
      BY ElementOfSeq DEF SocketInv
    <3>2. QED
      BY <2>1, <3>1, MessageKinds DEF Truthful
  <2>3. SocketInv'
    BY <2>1, <2>2 DEF SocketInv, Online
  <2>4. QED
    BY <2>1, <2>3
<1>3. QED
  BY <1>1, <1>2

\* A growing log admits the resume requests of a shorter one.
LEMMA UpGrows ==
  ASSUME up \in Seq(0 .. tail), tail \in Nat, tail' \in Nat, tail <= tail', up' = up
  PROVE  up' \in Seq(0 .. tail')
<1>1. 0 .. tail \subseteq 0 .. tail'
  OBVIOUS
<1>2. QED
  BY <1>1, SeqMonotonic

\* An event is committed; the invariant is kept.
LEMMA CommitKeepsIInv ==
  ASSUME IInv, Commit
  PROVE  IInv'
<1>1. Scalars /\ tail \in Nat /\ MaxEvents \in Nat /\ InOrder(Local) /\ SocketInv
  BY TypeHasScalars DEF IInv
<1>2. /\ tail' = tail + 1 /\ tail < MaxEvents /\ Send(Canonical(tail + 1)) /\ started' \in {started, TRUE}
      /\ UNCHANGED <<epoch, acked, joinedAt, up, acking, phase, known, buffer, delivered, gap,
                     replayAfter, target, limited, faults>>
  BY DEF Commit, client
<1>3. tail' \in Nat /\ tail <= tail' /\ tail' <= MaxEvents
  BY <1>1, <1>2
<1>4. InOrder(Local)'
  BY <1>1, <1>2, <1>3, SameOrder
<1>5. PICK m \in Messages : m.type = "canonical" /\ m.sequence = tail + 1 /\ Send(m)
  <2>1. Canonical(tail + 1) \in Messages
    BY <1>1, <1>2, <1>3 DEF Canonical, Messages
  <2>2. QED
    BY <1>2, <2>1, MessageKinds
<1>6. Truthful(m)'
  BY <1>2, <1>3, <1>5 DEF Truthful
<1>7. up' \in Seq(0 .. tail')
  BY <1>1, <1>2, <1>3, UpGrows DEF SocketInv
<1>8. SocketInv' /\ link' \in {link, "closing"}
  <2>1. /\ phase = "handshaking" => up' = <<>> /\ acking' = 0 /\ acked' = acked
        /\ ~Online => up' = <<>> /\ acking' = 0
    BY <1>1, <1>2 DEF SocketInv
  <2>2. m.type # "session"
    BY <1>5
  <2>3. QED
    BY <1>1, <1>2, <1>3, <1>5, <1>6, <1>7, <2>1, <2>2, SendKeepsSocket
<1>9. Scalars'
  <2>1. /\ tail' \in 0 .. MaxEvents /\ acked' \in 0 .. tail' /\ joinedAt' \in 0 .. tail'
        /\ replayAfter' \in {None} \cup 0 .. tail' /\ target' \in {None} \cup 0 .. tail'
    BY <1>1, <1>2, <1>3 DEF Scalars
  <2>2. started' \in BOOLEAN /\ link' \in {"none", "asked", "bound", "closing"}
    BY <1>1, <1>2, <1>8 DEF Scalars
  <2>3. QED
    BY <1>1, <1>2, <2>1, <2>2 DEF Scalars
<1>10. known' # 0 => acked' <= buffer'.last
  BY <1>2 DEF IInv
<1>11. QED
  BY <1>4, <1>8, <1>9, <1>10, TypeFromPartsNext DEF IInv

\* A message that carries no session's promise is not affected by what the
\* client knows; it stays truthful as the log grows.
LEMMA StaysTruthful ==
  ASSUME NEW m \in Messages, Truthful(m), tail \in Nat, tail' \in Nat, tail <= tail',
         m.type # "session"
  PROVE  Truthful(m)'
BY MessageKinds DEF Truthful

\* A socket whose only messages are these is in order.
LEMMA FreshSocket ==
  ASSUME down' \in Seq(Messages), down' # <<>>, up' = <<>>, acking' = 0, gap' = NoGap,
         link' \in {"bound", "closing"}, phase' = "handshaking",
         down'[1].type \in {"session", "error"},
         \A i \in 1 .. Len(down') : Truthful(down[i])' /\ (down'[i].type = "session" => i = 1)
  PROVE  SocketInv'
<1>1. up' \in Seq(0 .. tail')
  OBVIOUS
<1>2. QED
  BY <1>1 DEF SocketInv, Online

\* Two messages, one after the other.
LEMMA ConcatOfSingles ==
  ASSUME NEW s \in Messages, NEW q \in Messages
  PROVE  <<s>> \o <<q>> = <<s, q>>
<1>1. <<s>> \in Seq(Messages) /\ <<q>> \in Seq(Messages) /\ <<s, q>> \in Seq(Messages)
  OBVIOUS
<1>2. Len(<<s>>) = 1 /\ Len(<<q>>) = 1 /\ Len(<<s, q>>) = 2 /\ <<s>>[1] = s /\ <<q>>[1] = q
      /\ <<s, q>>[1] = s /\ <<s, q>>[2] = q
  OBVIOUS
<1> DEFINE c == <<s>> \o <<q>>
<1>3. c \in Seq(Messages) /\ Len(c) = Len(<<s>>) + Len(<<q>>)
      /\ \A i \in 1 .. Len(<<s>>) + Len(<<q>>) :
           c[i] = IF i <= Len(<<s>>) THEN <<s>>[i] ELSE <<q>>[i - Len(<<s>>)]
  BY <1>1, ConcatProperties
<1> HIDE DEF c
<1>4. Len(c) = 2 /\ c[1] = s /\ c[2] = q
  BY <1>2, <1>3
<1>5. \A i \in 1 .. Len(c) : c[i] = <<s, q>>[i]
  BY <1>2, <1>4
<1>6. c = <<s, q>>
  BY <1>1, <1>2, <1>3, <1>4, <1>5, SeqEqual
<1>7. QED
  BY <1>6 DEF c

\* An upgrade request is turned down; the invariant is kept.
LEMMA RefuseKeepsIInv ==
  ASSUME IInv, Refuse
  PROVE  IInv'
<1>1. Scalars /\ tail \in Nat /\ MaxEvents \in Nat /\ InOrder(Local) /\ SocketInv
  BY TypeHasScalars DEF IInv
<1>2. /\ link = "asked" /\ link' = "closing" /\ down' = <<Error, Close>>
      /\ UNCHANGED <<tail, started, epoch, acked, joinedAt, up, acking, phase, known, buffer,
                     delivered, gap, replayAfter, target, limited, faults>>
  BY DEF Refuse, client, engine
<1>3. InOrder(Local)'
  BY <1>1, <1>2, SameOrder
<1>4. SocketInv'
  <2>1. phase = "handshaking" /\ up = <<>> /\ acking = 0 /\ gap = NoGap
    BY <1>1, <1>2 DEF SocketInv
  <2>2. down' \in Seq(Messages) /\ down' # <<>> /\ Len(down') = 2 /\ down'[1] = Error /\ down'[2] = Close
    BY <1>2, MessageKinds
  <2>3. \A i \in 1 .. Len(down') : Truthful(down[i])' /\ (down'[i].type = "session" => i = 1)
    BY <2>2, MessageKinds DEF Truthful
  <2>4. down'[1].type \in {"session", "error"}
    BY <2>2, MessageKinds
  <2>5. QED
    BY <1>2, <2>1, <2>2, <2>3, <2>4, FreshSocket
<1>5. Scalars'
  BY <1>1, <1>2 DEF Scalars
<1>6. QED
  BY <1>2, <1>3, <1>4, <1>5, TypeFromPartsNext DEF IInv

\* A session is bound to the socket: fresh, or the one whose epoch the client
\* knows; the invariant is kept.
LEMMA AcceptKeepsIInv ==
  ASSUME IInv, Accept
  PROVE  IInv'
<1>1. Scalars /\ tail \in Nat /\ MaxEvents \in Nat /\ InOrder(Local) /\ SocketInv
  BY TypeHasScalars DEF IInv
<1>2. /\ link = "asked" /\ ~Refused /\ epoch' = NextEpoch
      /\ acked' = IF epoch = 0 THEN 0 ELSE acked
      /\ joinedAt' = IF epoch = 0 THEN tail ELSE joinedAt
      /\ link' = "bound"
      /\ UNCHANGED <<tail, started, up, acking, phase, known, buffer, delivered, gap,
                     replayAfter, target, limited, faults>>
  BY DEF Accept, client, AckedAtJoin
<1>3. phase = "handshaking" /\ up = <<>> /\ acking = 0 /\ gap = NoGap
  BY <1>1, <1>2 DEF SocketInv
<1>4. epoch \in 0 .. 3 /\ epoch' \in 1 .. 3
  BY <1>1, <1>2 DEF Scalars, NextEpoch, AtMost
<1>5. buffer.last \in 0 .. tail
  BY <1>1, LocalFields
<1>6. acked' \in 0 .. tail /\ joinedAt' \in 0 .. tail /\ (known # 0 => acked' <= buffer.last)
  BY <1>1, <1>2, <1>5 DEF Scalars, IInv
<1>7. PICK s \in Messages :
        /\ s.type = "session" /\ s.resumed = (epoch # 0) /\ s.last = tail
        /\ down' = <<s>> \o (IF known # 0 THEN <<Page(buffer.last)>> ELSE <<>>)
  <2>1. SessionMessage(epoch', epoch # 0)
          = [type |-> "session", epoch |-> epoch', resumed |-> (epoch # 0), last |-> tail]
    BY DEF SessionMessage
  <2>2. (epoch # 0) \in BOOLEAN /\ tail \in 0 .. MaxEvents
    BY <1>1 DEF Scalars
  <2>3. ASSUME NEW x \in 1 .. 3, NEW r \in BOOLEAN
        PROVE  [type |-> "session", epoch |-> x, resumed |-> r, last |-> tail]
                 \in [type : {"session"}, epoch : 1 .. 3, resumed : BOOLEAN, last : 0 .. MaxEvents]
    BY <2>2
  <2>4. SessionMessage(epoch', epoch # 0) \in Messages
    BY <2>1, <2>2, <2>3, <1>4 DEF Messages
  <2>5. down' = <<SessionMessage(epoch', epoch # 0)>>
                  \o (IF known # 0 THEN <<Page(buffer.last)>> ELSE <<>>)
    BY DEF Accept
  <2>6. PICK s \in Messages : s = SessionMessage(epoch', epoch # 0)
    BY <2>4
  <2>7. s.type = "session" /\ s.resumed = (epoch # 0) /\ s.last = tail
    BY <2>1, <2>6
  <2>8. down' = <<s>> \o (IF known # 0 THEN <<Page(buffer.last)>> ELSE <<>>)
    BY <2>5, <2>6
  <2>9. QED
    BY <2>7, <2>8
<1>8. Truthful(s)'
  <2>1. epoch # 0 => known # 0
    BY <1>2 DEF Refused
  <2>2. s.resumed => known # 0 /\ buffer.last <= s.last
    <3>1. buffer.last <= tail /\ s.last = tail /\ s.resumed = (epoch # 0)
      BY <1>1, <1>5, <1>7
    <3>2. QED
      BY <2>1, <3>1
  <2>3. ~s.resumed => acked' = 0
    BY <1>2, <1>7
  <2>4. QED
    BY <1>1, <1>2, <1>3, <1>7, <2>2, <2>3 DEF Truthful
<1>9. SocketInv'
  <2>1. CASE known = 0
    <3>1. down' = <<s>>
      BY <1>7, <2>1
    <3>2. down' \in Seq(Messages) /\ down' # <<>> /\ Len(down') = 1 /\ down'[1] = s
      BY <3>1
    <3>3. \A i \in 1 .. Len(down') : Truthful(down[i])' /\ (down'[i].type = "session" => i = 1)
      BY <3>2, <1>8 DEF Truthful
    <3>4. QED
      BY <1>2, <1>3, <1>7, <3>2, <3>3, FreshSocket
  <2>2. CASE known # 0
    <3>1. PICK q \in Messages : q.type = "replay" /\ q.after <= q.through /\ q.through <= tail
                                /\ q = Page(buffer.last)
      BY <1>1, <1>5, PageFacts
    <3>2. down' = <<s, q>>
      <4>1. down' = <<s>> \o <<q>>
        BY <1>7, <2>2, <3>1
      <4>2. <<s>> \o <<q>> = <<s, q>>
        BY ConcatOfSingles
      <4>3. QED
        BY <4>1, <4>2
    <3>3. down' \in Seq(Messages) /\ down' # <<>> /\ Len(down') = 2 /\ down'[1] = s /\ down'[2] = q
      BY <3>2
    <3>4. Truthful(q)'
      BY <1>2, <3>1 DEF Truthful
    <3>5. \A i \in 1 .. Len(down') : Truthful(down[i])' /\ (down'[i].type = "session" => i = 1)
      <4> TAKE i \in 1 .. Len(down')
      <4>1. i = 1 \/ i = 2
        BY <3>3
      <4>2. QED
        BY <4>1, <3>1, <3>3, <3>4, <1>8 DEF Truthful
    <3>6. QED
      BY <1>2, <1>3, <1>7, <3>3, <3>5, FreshSocket
  <2>3. QED
    BY <2>1, <2>2
<1>10. InOrder(Local)'
  BY <1>1, <1>2, SameOrder
<1>11. Scalars'
  BY <1>1, <1>2, <1>4, <1>6 DEF Scalars
<1>12. QED
  BY <1>2, <1>6, <1>9, <1>10, <1>11, TypeFromPartsNext DEF IInv

\* A resume is answered with a page of the log, or ends the connection; the
\* invariant is kept.
LEMMA HandleResumeKeepsIInv ==
  ASSUME IInv, HandleResume
  PROVE  IInv'
<1>1. Scalars /\ tail \in Nat /\ MaxEvents \in Nat /\ InOrder(Local) /\ SocketInv
  BY TypeHasScalars DEF IInv
<1>2. /\ up # <<>> /\ AnswerResume(Head(up)) /\ up' = Tail(up) /\ limited' = FALSE
      /\ UNCHANGED <<tail, started, epoch, acked, joinedAt, acking, phase, known, buffer,
                     delivered, gap, replayAfter, target, faults>>
  BY DEF HandleResume, client, engine
<1>3. Head(up) \in 0 .. tail /\ up' \in Seq(0 .. tail')
  BY <1>1, <1>2, HeadTailProperties DEF SocketInv
<1>4. Online /\ phase # "handshaking"
  BY <1>1, <1>2 DEF SocketInv
<1>5. SocketInv' /\ link' \in {link, "closing"}
  <2>1. CASE ~ReplayUnavailable(Head(up))
    <3>1. PICK m \in Messages : /\ m.type = "replay" /\ m.after <= m.through /\ m.through <= tail
                                /\ Send(m)
      BY <1>1, <1>2, <1>3, <2>1, PageFacts DEF AnswerResume
    <3>2. Truthful(m)' /\ m.type # "session"
      BY <1>2, <3>1 DEF Truthful
    <3>3. QED
      BY <1>1, <1>2, <1>3, <1>4, <3>1, <3>2, SendKeepsSocket
  <2>2. CASE ReplayUnavailable(Head(up)) /\ link = "bound"
    <3>1. down' = down \o <<Error, Close>> /\ link' = "closing"
      BY <1>2, <2>2 DEF AnswerResume
    <3>2. <<Error, Close>> \in Seq(Messages) /\ Len(<<Error, Close>>) = 2
          /\ <<Error, Close>>[1] = Error /\ <<Error, Close>>[2] = Close
      BY MessageKinds
    <3>3. \A i \in 1 .. Len(<<Error, Close>>) :
             <<Error, Close>>[i].type # "session" /\ Truthful(<<Error, Close>>[i])'
      BY <3>2, MessageKinds DEF Truthful
    <3>4. PICK e \in Seq(Messages) :
            /\ down' = down \o e
            /\ \A i \in 1 .. Len(e) : e[i].type # "session" /\ Truthful(e[i])'
      BY <3>1, <3>2, <3>3
    <3>5. phase = "handshaking" => up' = <<>> /\ acking' = 0 /\ acked' = acked
      BY <1>4
    <3>6. tail' \in Nat /\ tail <= tail' /\ link' \in {"bound", "closing"}
      BY <1>1, <1>2, <3>1
    <3>7. SocketInv'
      BY <1>1, <1>2, <1>3, <2>2, <3>4, <3>5, <3>6, AppendKeepsSocket
    <3>8. QED
      BY <3>1, <3>7
  <2>3. CASE ReplayUnavailable(Head(up)) /\ link # "bound"
    <3>1. UNCHANGED <<link, down>>
      BY <1>2, <2>3 DEF AnswerResume
    <3>2. QED
      BY <1>1, <1>2, <1>3, <1>4, <3>1 DEF SocketInv, Online, Truthful
  <2>4. QED
    BY <2>1, <2>2, <2>3
<1>6. InOrder(Local)'
  BY <1>1, <1>2, SameOrder
<1>7. Scalars'
  BY <1>1, <1>2, <1>5 DEF Scalars
<1>8. QED
  BY <1>2, <1>5, <1>6, <1>7, TypeFromPartsNext DEF IInv

\* No acknowledgement is in flight any more.
LEMMA NothingAcking ==
  ASSUME InOrder(Local), UNCHANGED <<tail, buffer, delivered, gap>>, acking' = 0
  PROVE  InOrder(Local)'
<1>1. /\ Local = [buffer |-> buffer, delivered |-> delivered, gap |-> gap, acking |-> acking]
      /\ Local' = [buffer |-> buffer, delivered |-> delivered, gap |-> gap, acking |-> 0]
  BY DEF Local
<1>2. buffer.last \in Nat
  BY LocalFields
<1>3. QED
  BY <1>1, <1>2 DEF InOrder

\* The rate limit's error goes to a client that is in session.
LEMMA LimitedKeepsSocket ==
  ASSUME SocketInv, Online, phase # "handshaking", tail \in Nat, Send(RateLimited),
         up' \in Seq(0 .. tail'), UNCHANGED <<tail, known, phase, buffer, gap>>
  PROVE  SocketInv' /\ link' \in {link, "closing"}
<1>1. PICK m \in Messages : m.type = "limited" /\ Send(m)
  BY MessageKinds
<1>2. m.type # "session" /\ Truthful(m)'
  BY <1>1 DEF Truthful
<1>3. QED
  BY <1>1, <1>2, SendKeepsSocket

\* An acknowledgement arrives; the invariant is kept.
LEMMA AcknowledgementKeepsIInv ==
  ASSUME IInv, HandleAcknowledgement
  PROVE  IInv'
<1>1. Scalars /\ tail \in Nat /\ MaxEvents \in Nat /\ InOrder(Local) /\ SocketInv
  BY TypeHasScalars DEF IInv
<1>2. /\ acking # 0 /\ acked' = AtLeast(acked, acking) /\ acking' = 0
      /\ UNCHANGED <<tail, started, epoch, joinedAt, link, down, up, phase, known, buffer,
                     delivered, gap, replayAfter, target, limited, faults>>
  BY DEF HandleAcknowledgement, client
<1>3. buffer.last \in Nat /\ buffer.last <= tail /\ acking \in Nat /\ acking <= buffer.last
  BY <1>1, LocalFields
<1>4. acked' \in 0 .. tail /\ (known # 0 => acked' <= buffer.last)
  BY <1>1, <1>2, <1>3 DEF Scalars, AtLeast, IInv
<1>5. Online /\ phase # "handshaking"
  BY <1>1, <1>2 DEF SocketInv
<1>6. SocketInv'
  <2>1. \A i \in 1 .. Len(down) : Truthful(down[i])' /\ (down[i].type = "session" => i = 1)
    BY <1>1, <1>2, <1>5 DEF SocketInv, Truthful
  <2>2. QED
    BY <1>1, <1>2, <1>5, <2>1 DEF SocketInv, Online
<1>7. InOrder(Local)'
  BY <1>1, <1>2, NothingAcking
<1>8. Scalars'
  BY <1>1, <1>2, <1>4 DEF Scalars
<1>9. QED
  BY <1>2, <1>4, <1>6, <1>7, <1>8, TypeFromPartsNext DEF IInv

\* A resume is turned away by the rate limit; the invariant is kept.
LEMMA LimitedResumeKeepsIInv ==
  ASSUME IInv, LimitResume
  PROVE  IInv'
<1>1. Scalars /\ tail \in Nat /\ MaxEvents \in Nat /\ InOrder(Local) /\ SocketInv
  BY TypeHasScalars DEF IInv
<1>2. /\ up # <<>> /\ Send(RateLimited) /\ up' = Tail(up) /\ limited' = TRUE
      /\ UNCHANGED <<tail, started, epoch, acked, joinedAt, acking, phase, known, buffer,
                     delivered, gap, replayAfter, target, faults>>
  BY DEF LimitResume, client, engine
<1>3. up' \in Seq(0 .. tail')
  BY <1>1, <1>2, HeadTailProperties DEF SocketInv
<1>4. Online /\ phase # "handshaking"
  BY <1>1, <1>2 DEF SocketInv
<1>5. SocketInv' /\ link' \in {link, "closing"}
  BY <1>1, <1>2, <1>3, <1>4, LimitedKeepsSocket
<1>6. InOrder(Local)'
  BY <1>1, <1>2, SameOrder
<1>7. Scalars'
  BY <1>1, <1>2, <1>5 DEF Scalars
<1>8. QED
  BY <1>2, <1>5, <1>6, <1>7, TypeFromPartsNext DEF IInv

\* Acknowledgements are turned away by the rate limit; the invariant is kept.
LEMMA LimitedAcknowledgementKeepsIInv ==
  ASSUME IInv, LimitAcknowledgement
  PROVE  IInv'
<1>1. Scalars /\ tail \in Nat /\ MaxEvents \in Nat /\ InOrder(Local) /\ SocketInv
  BY TypeHasScalars DEF IInv
<1>2. /\ acking # 0 /\ acked' \in acked .. AtLeast(acked, acking) /\ acking' = 0
      /\ Send(RateLimited)
      /\ UNCHANGED <<tail, started, epoch, joinedAt, up, phase, known, buffer, delivered, gap,
                     replayAfter, target, limited, faults>>
  BY DEF LimitAcknowledgement, client
<1>3. buffer.last \in Nat /\ buffer.last <= tail /\ acking \in Nat /\ acking <= buffer.last
  BY <1>1, LocalFields
<1>4. acked' \in 0 .. tail /\ (known # 0 => acked' <= buffer.last)
  BY <1>1, <1>2, <1>3 DEF Scalars, AtLeast, IInv
<1>5. Online /\ phase # "handshaking"
  BY <1>1, <1>2 DEF SocketInv
<1>6. SocketInv' /\ link' \in {link, "closing"}
  <2>1. up' \in Seq(0 .. tail')
    BY <1>1, <1>2 DEF SocketInv
  <2>2. QED
    BY <1>1, <1>2, <1>5, <2>1, LimitedKeepsSocket
<1>7. InOrder(Local)'
  BY <1>1, <1>2, NothingAcking
<1>8. Scalars'
  BY <1>1, <1>2, <1>4, <1>6 DEF Scalars
<1>9. QED
  BY <1>2, <1>4, <1>6, <1>7, <1>8, TypeFromPartsNext DEF IInv

\* A session is forgotten; the invariant is kept.
LEMMA ExpiryKeepsIInv ==
  ASSUME IInv, SessionExpires
  PROVE  IInv'
<1>1. Scalars /\ tail \in Nat /\ MaxEvents \in Nat /\ InOrder(Local) /\ SocketInv
  BY TypeHasScalars DEF IInv
<1>2. /\ epoch' = 0 /\ faults < MaxFaults /\ faults' = faults + 1
      /\ UNCHANGED <<tail, started, acked, joinedAt, link, down, up, acking, limited, phase, known,
                     buffer, delivered, gap, replayAfter, target>>
  BY DEF SessionExpires, client, socket
<1>3. InOrder(Local)'
  BY <1>1, <1>2, SameOrder
<1>4. SocketInv'
  BY <1>1, <1>2 DEF SocketInv, Online, Truthful
<1>5. Scalars'
  BY <1>1, <1>2, SessionAssumption DEF Scalars
<1>6. QED
  BY <1>2, <1>3, <1>4, <1>5, TypeFromPartsNext DEF IInv

(***************************************************************************)
(* The client's steps.                                                     *)
(***************************************************************************)

\* The game connects; the invariant is kept.
LEMMA UserConnectsKeepsIInv ==
  ASSUME IInv, UserConnects
  PROVE  IInv'
<1>1. Scalars /\ tail \in Nat /\ MaxEvents \in Nat /\ InOrder(Local) /\ SocketInv
  BY TypeHasScalars DEF IInv
<1>2. /\ phase \in {"idle", "failed"} /\ phase' = "waiting"
      /\ UNCHANGED <<tail, started, epoch, acked, joinedAt, link, down, up, acking, known, buffer,
                     delivered, gap, replayAfter, target, limited, faults>>
  BY DEF UserConnects, engine, socket
<1>3. InOrder(Local)'
  BY <1>1, <1>2, SameOrder
<1>4. SocketInv'
  <2>1. link = "none" /\ down = <<>> /\ up = <<>> /\ acking = 0 /\ gap = NoGap
    BY <1>1, <1>2 DEF SocketInv, Online
  <2>2. QED
    BY <1>2, <2>1 DEF SocketInv, Online
<1>5. Scalars'
  BY <1>1, <1>2 DEF Scalars
<1>6. QED
  BY <1>2, <1>3, <1>4, <1>5, TypeFromPartsNext DEF IInv

\* The upgrade request is on its way; the invariant is kept.
LEMMA OpenSocketKeepsIInv ==
  ASSUME IInv, OpenSocket
  PROVE  IInv'
<1>1. Scalars /\ tail \in Nat /\ MaxEvents \in Nat /\ InOrder(Local) /\ SocketInv
  BY TypeHasScalars DEF IInv
<1>2. /\ phase = "waiting" /\ phase' = "handshaking" /\ link' = "asked"
      /\ UNCHANGED <<tail, started, epoch, acked, joinedAt, down, up, acking, known, buffer,
                     delivered, gap, replayAfter, target, limited, faults>>
  BY DEF OpenSocket, engine
<1>3. InOrder(Local)'
  BY <1>1, <1>2, SameOrder
<1>4. SocketInv'
  <2>1. down = <<>> /\ up = <<>> /\ acking = 0 /\ gap = NoGap
    BY <1>1, <1>2 DEF SocketInv, Online
  <2>2. QED
    BY <1>2, <2>1 DEF SocketInv, Online
<1>5. Scalars'
  BY <1>1, <1>2 DEF Scalars
<1>6. QED
  BY <1>2, <1>3, <1>4, <1>5, TypeFromPartsNext DEF IInv

\* The socket is lost and whatever was in flight with it; the invariant is kept.
LEMMA LossKeepsIInv ==
  ASSUME IInv, NEW next \in {"idle", "waiting", "failed"}, LosesSocket(next),
         faults' \in 0 .. MaxFaults
  PROVE  IInv'
<1>1. Scalars /\ tail \in Nat /\ MaxEvents \in Nat /\ InOrder(Local) /\ SocketInv
  BY TypeHasScalars DEF IInv
<1>2. /\ phase' = next /\ link' = "none" /\ down' = <<>> /\ up' = <<>> /\ acking' = 0 /\ gap' = NoGap
      /\ limited' = FALSE
      /\ UNCHANGED <<tail, started, epoch, acked, joinedAt, known, buffer, delivered, replayAfter,
                     target>>
  BY DEF LosesSocket, Unplugged, engine
<1>3. InOrder(Local)'
  BY <1>1, <1>2, LostOrder
<1>4. SocketInv'
  <2>1. phase' \notin {"handshaking", "connected"}
    BY <1>2
  <2>2. QED
    BY <1>2, <2>1 DEF SocketInv, Online
<1>5. Scalars'
  BY <1>1, <1>2 DEF Scalars
<1>6. QED
  BY <1>2, <1>3, <1>4, <1>5, TypeFromPartsNext DEF IInv

\* The network or the user takes the socket away, or the server or the client
\* closes it; the invariant is kept.
LEMMA LossesKeepIInv ==
  ASSUME IInv, ConnectionLost \/ UserDisconnects \/ ReceiveClose \/ ReceiveError \/ GivesUpSocket
  PROVE  IInv'
<1>1. faults \in 0 .. MaxFaults
  BY DEF IInv, TypeOK
<1>2. faults' \in 0 .. MaxFaults
  BY <1>1, SessionAssumption DEF ConnectionLost, UserDisconnects, ReceiveClose, ReceiveError, GivesUpSocket
<1>3. PICK next \in {"idle", "waiting", "failed"} : LosesSocket(next)
  BY DEF ConnectionLost, UserDisconnects, ReceiveClose, ReceiveError, GivesUpSocket
<1>4. QED
  BY <1>2, <1>3, LossKeepsIInv

\* The client takes the first message of a socket that is in session.
LEMMA TakenKeepsSocket ==
  ASSUME SocketInv, down # <<>>, tail \in Nat, phase' = "connected", down' = Tail(down),
         up' \in Seq(0 .. tail'), UNCHANGED <<tail, link>>
  PROVE  SocketInv'
<1>1. /\ Tail(down) \in Seq(Messages) /\ link # "asked"
      /\ \A i \in 1 .. Len(Tail(down)) : Truthful(Tail(down)[i]) /\ Tail(down)[i].type # "session"
  BY DownParts
<1>2. ASSUME NEW i \in 1 .. Len(down')
      PROVE  Truthful(down[i])' /\ (down'[i].type = "session" => i = 1)
  <2>1. /\ Truthful(Tail(down)[i]) /\ Tail(down)[i].type # "session" /\ down'[i] = Tail(down)[i]
        /\ Tail(down)[i] \in Messages
    BY <1>1, ElementOfSeq
  <2>2. QED
    BY <2>1, MessageKinds DEF Truthful
<1>3. QED
  BY <1>1, <1>2 DEF SocketInv, Online

\* What the client adopts is in order when what it worked on is.
LEMMA AdoptedOrder ==
  ASSUME NEW s, InOrder(s), UNCHANGED tail, buffer' = s.buffer, delivered' = s.delivered,
         gap' \in Gaps, gap'.expected \in {None, s.buffer.last + 1},
         acking' \in Nat, acking' <= s.buffer.last
  PROVE  InOrder(Local)'
<1>1. Local' = [buffer |-> s.buffer, delivered |-> s.delivered, gap |-> gap', acking |-> acking']
  BY DEF Local
<1>2. QED
  BY <1>1 DEF InOrder

\* The gap of such a record.
LEMMA OrderGap ==
  ASSUME NEW s, InOrder(s)
  PROVE  /\ s.gap \in Gaps /\ s.gap.expected \in {None, s.buffer.last + 1}
         /\ s.acking \in Nat /\ s.acking <= s.buffer.last
         /\ NoGap \in Gaps /\ NoGap.expected = None
BY OrderFields DEF InOrder, NoGap, Gaps, None

\* A client that starts over has been given nothing.
LEMMA EmptyOrder ==
  ASSUME tail \in Nat, UNCHANGED tail, buffer' = EmptyAt(0), delivered' = <<>>, gap' = NoGap,
         acking' = 0
  PROVE  InOrder(Local)'
<1>1. PICK s : s = [buffer |-> [last |-> 0, waiting |-> {}], delivered |-> [j \in 1 .. 0 |-> j],
                    gap |-> NoGap, acking |-> 0]
  OBVIOUS
<1>2. InOrder(s)
  <2>1. 0 \in Nat /\ 0 <= tail /\ 0 <= 0 /\ Cardinality({}) <= MaxBufferedEvents
    BY FS_EmptySet, BufferAssumption
  <2>2. {} \in SUBSET (Nat \ {0}) /\ {} \subseteq 0 + 2 .. tail
    OBVIOUS
  <2>3. NoGap \in Gaps /\ NoGap.expected \in {None, 0 + 1}
    BY DEF NoGap, Gaps, None
  <2>4. QED
    BY <1>1, <2>1, <2>2, <2>3, OrderIntro
<1>3. buffer' = s.buffer /\ delivered' = s.delivered /\ s.buffer.last = 0
  <2>1. [j \in 1 .. 0 |-> j] = <<>>
    OBVIOUS
  <2>2. QED
    BY <1>1, <2>1 DEF EmptyAt
<1>4. gap' \in Gaps /\ gap'.expected \in {None, s.buffer.last + 1}
  BY DEF NoGap, Gaps, None
<1>5. acking' \in Nat /\ acking' <= s.buffer.last
  BY <1>3
<1>6. QED
  BY <1>2, <1>3, <1>4, <1>5, AdoptedOrder

\* The game makes the client forget its session; the invariant is kept.
LEMMA ForgettingKeepsIInv ==
  ASSUME IInv, UserForgets
  PROVE  IInv'
<1>1. Scalars /\ tail \in Nat /\ MaxEvents \in Nat /\ InOrder(Local) /\ SocketInv
  BY TypeHasScalars DEF IInv
<1>2. /\ phase' = "idle" /\ link' = "none" /\ down' = <<>> /\ up' = <<>> /\ acking' = 0 /\ gap' = NoGap
      /\ limited' = FALSE /\ known' = 0 /\ buffer' = EmptyAt(0) /\ delivered' = <<>>
      /\ faults < MaxFaults /\ faults' = faults + 1
      /\ UNCHANGED <<tail, started, epoch, acked, joinedAt, replayAfter, target>>
  BY DEF UserForgets, Unplugged, engine
<1>3. InOrder(Local)'
  BY <1>1, <1>2, EmptyOrder
<1>4. SocketInv'
  <2>1. phase' \notin {"handshaking", "connected"}
    BY <1>2
  <2>2. QED
    BY <1>2, <2>1 DEF SocketInv, Online
<1>5. Scalars'
  <2>1. faults' \in 0 .. MaxFaults
    BY <1>1, <1>2, SessionAssumption DEF Scalars
  <2>2. known' = 0 /\ limited' = FALSE /\ phase' = "idle" /\ link' = "none"
    BY <1>2
  <2>3. limited' \in BOOLEAN
    BY <2>2
  <2>4. known' \in 0 .. 2
    BY <2>2
  <2>5. /\ phase' \in {"idle", "waiting", "handshaking", "connected", "failed"}
        /\ link' \in {"none", "asked", "bound", "closing"}
    BY <2>2
  <2>6. QED
    BY <1>1, <1>2, <2>1, <2>3, <2>4, <2>5 DEF Scalars
<1>6. QED
  BY <1>2, <1>3, <1>4, <1>5, TypeFromPartsNext DEF IInv

\* The session message: the client continues where it was, or starts anew, and
\* the server's record of what it has seen fits either; the invariant is kept.
LEMMA ReceiveSessionKeepsIInv ==
  ASSUME IInv, ReceiveSession
  PROVE  IInv' /\ epoch' = known'
<1>1. Scalars /\ tail \in Nat /\ MaxEvents \in Nat /\ InOrder(Local) /\ SocketInv
  BY TypeHasScalars DEF IInv
<1>2. PICK m \in Messages : m = Head(down) /\ m.type = "session" /\ Truthful(m) /\ down # <<>>
  BY <1>1, DownParts DEF ReceiveSession, NextIs
<1>3. /\ phase = "handshaking" /\ m.last \in Nat /\ m.last <= tail
      /\ m.epoch \in 1 .. 3 /\ m.resumed \in BOOLEAN
      /\ IF m.resumed THEN known # 0 /\ buffer.last <= m.last ELSE acked = 0
  BY <1>1, <1>2, MessageKinds DEF Truthful
<1>4. up = <<>> /\ acking = 0 /\ gap = NoGap
  BY <1>1, <1>3 DEF SocketInv
<1>5. buffer.last \in Nat /\ buffer.last <= tail
  BY <1>1, LocalFields
<1>6. ~(m.resumed /\ ~ContinuesIdentity(m))
  BY <1>3, <1>5 DEF ContinuesIdentity
<1>7. /\ down' = Tail(down) /\ phase' = "connected"
      /\ known' = AtMost(m.epoch, 2) /\ epoch' = known'
      /\ IF m.resumed
         THEN replayAfter' = buffer.last /\ target' = m.last /\ UNCHANGED <<buffer, delivered>>
         ELSE buffer' = EmptyAt(0) /\ delivered' = <<>> /\ replayAfter' = None /\ target' = None
      /\ UNCHANGED <<tail, started, acked, joinedAt, link, up, acking, gap, limited, faults>>
  BY <1>2, <1>6 DEF ReceiveSession
<1>8. known' \in 0 .. 2 /\ epoch' \in 0 .. 3
  BY <1>3, <1>7 DEF AtMost
<1>9. SocketInv'
  <2>1. up' \in Seq(0 .. tail')
    BY <1>4, <1>7
  <2>2. QED
    BY <1>1, <1>2, <1>7, <2>1, TakenKeepsSocket
<1>10. InOrder(Local)' /\ acked' <= buffer'.last
  <2>1. CASE m.resumed
    BY <1>1, <1>3, <1>7, <2>1, SameOrder DEF IInv
  <2>2. CASE ~m.resumed
    <3>1. buffer' = EmptyAt(0) /\ delivered' = <<>> /\ gap' = NoGap /\ acking' = 0
      BY <1>4, <1>7, <2>2
    <3>2. InOrder(Local)'
      BY <1>1, <1>7, <3>1, EmptyOrder
    <3>3. acked' <= buffer'.last
      BY <1>3, <1>7, <2>2, <3>1 DEF EmptyAt
    <3>4. QED
      BY <3>2, <3>3
  <2>3. QED
    BY <2>1, <2>2
<1>11. Scalars'
  <2>1. replayAfter' \in {None} \cup 0 .. tail' /\ target' \in {None} \cup 0 .. tail'
    BY <1>1, <1>3, <1>5, <1>7
  <2>2. QED
    BY <1>1, <1>7, <1>8, <2>1 DEF Scalars
<1>12. QED
  BY <1>7, <1>9, <1>10, <1>11, TypeFromPartsNext DEF IInv

\* A live event; the invariant is kept, and what the game has is the log.
LEMMA ReceiveCanonicalKeepsIInv ==
  ASSUME IInv, ReceiveCanonical
  PROVE  IInv' /\ buffer.last <= buffer'.last
<1>1. Scalars /\ tail \in Nat /\ MaxEvents \in Nat /\ InOrder(Local) /\ SocketInv
  BY TypeHasScalars DEF IInv
<1>2. PICK m \in Messages : m = Head(down) /\ m.type = "canonical" /\ Truthful(m) /\ down # <<>>
  BY <1>1, DownParts DEF ReceiveCanonical, NextIs
<1>3. m.sequence \in 1 .. tail
  BY <1>1, <1>2, MessageKinds DEF Truthful
<1>4. phase = "connected"
  BY <1>1, <1>2, OnlineKinds DEF ReceiveCanonical, NextIs, Online
<1>5. PICK s : s = AcceptCanonical(Local, m.sequence, FALSE)
  OBVIOUS
<1>6. /\ buffer' = s.buffer /\ delivered' = s.delivered /\ gap' = s.gap /\ acking' = s.acking
      /\ down' = Tail(down)
      /\ UNCHANGED <<tail, started, epoch, acked, joinedAt, link, up, phase, known, replayAfter,
                     target, limited, faults>>
  BY <1>2, <1>5 DEF ReceiveCanonical, Adopt, Taken, engine
<1>7. Local.buffer = buffer
  BY DEF Local
<1>8. InOrder(s) /\ buffer.last <= s.buffer.last
  BY <1>1, <1>3, <1>5, <1>7, AcceptKeepsOrder
<1>9. InOrder(Local)'
  BY <1>6, <1>8, OrderGap, AdoptedOrder
<1>10. SocketInv'
  <2>1. up' \in Seq(0 .. tail') /\ phase' = "connected"
    BY <1>1, <1>4, <1>6 DEF SocketInv
  <2>2. QED
    BY <1>1, <1>2, <1>6, <2>1, TakenKeepsSocket
<1>11. Scalars'
  BY <1>1, <1>6 DEF Scalars
<1>12. (known' # 0 => acked' <= buffer'.last) /\ buffer.last <= buffer'.last
  <2>1. acked \in Nat /\ (known # 0 => acked <= buffer.last)
    BY <1>1 DEF IInv, Scalars
  <2>2. buffer.last \in Nat
    BY <1>1, LocalFields
  <2>3. s.buffer.last \in Nat
    BY <1>8, OrderFields
  <2>4. QED
    BY <1>6, <1>8, <2>1, <2>2, <2>3
<1>13. QED
  BY <1>9, <1>10, <1>11, <1>12, TypeFromPartsNext DEF IInv

\* The rate limit's error is passed on to the game; the invariant is kept.
LEMMA RetriableErrorKeepsIInv ==
  ASSUME IInv, ReceiveRetriableError
  PROVE  IInv'
<1>1. Scalars /\ tail \in Nat /\ MaxEvents \in Nat /\ InOrder(Local) /\ SocketInv
  BY TypeHasScalars DEF IInv
<1>2. /\ down # <<>> /\ Head(down).type = "limited" /\ Online /\ down' = Tail(down)
      /\ UNCHANGED <<tail, started, epoch, acked, joinedAt, link, up, acking, phase, known, buffer,
                     delivered, gap, replayAfter, target, limited, faults>>
  BY DEF ReceiveRetriableError, NextIs, Taken, client, engine
<1>3. phase = "connected"
  BY <1>1, <1>2, OnlineKinds DEF Online
<1>4. SocketInv'
  <2>1. up' \in Seq(0 .. tail') /\ phase' = "connected"
    BY <1>1, <1>2, <1>3 DEF SocketInv
  <2>2. QED
    BY <1>1, <1>2, <2>1, TakenKeepsSocket
<1>5. InOrder(Local)'
  BY <1>1, <1>2, SameOrder
<1>6. Scalars'
  BY <1>1, <1>2 DEF Scalars
<1>7. QED
  BY <1>2, <1>4, <1>5, <1>6, TypeFromPartsNext DEF IInv

\* The record a page is worked on, and what the page makes of it.
LEMMA PageOutcome ==
  ASSUME Scalars, SocketInv, InOrder(Local), tail \in Nat, NextIs("replay")
  PROVE  \E m \in Messages : \E s :
           /\ m = Head(down) /\ down # <<>> /\ m.through \in 0 .. tail /\ m.hasMore \in BOOLEAN
           /\ s = AcceptPage([Local EXCEPT !.gap.timer = FALSE], m)
           /\ InOrder(s) /\ buffer.last <= s.buffer.last /\ phase = "connected"
<1>1. PICK m \in Messages : m = Head(down) /\ m.type = "replay" /\ Truthful(m) /\ down # <<>>
  BY DownParts DEF NextIs
<1>2. m.after \in Nat /\ m.through \in Nat /\ m.after <= m.through /\ m.through <= tail /\ m.hasMore \in BOOLEAN
  BY <1>1, MessageKinds DEF Truthful
<1>3. phase = "connected"
  BY <1>1, OnlineKinds DEF NextIs, Online
<1>4. PICK r : r = [Local EXCEPT !.gap.timer = FALSE]
  OBVIOUS
<1>5. r = [buffer |-> buffer, delivered |-> delivered, gap |-> [gap EXCEPT !.timer = FALSE], acking |-> acking]
  BY <1>4 DEF Local
<1>6. /\ [gap EXCEPT !.timer = FALSE] \in Gaps
      /\ [gap EXCEPT !.timer = FALSE].expected = gap.expected
  BY LocalFields DEF Gaps
<1>7. InOrder(r)
  <2>1. /\ Local = [buffer |-> buffer, delivered |-> delivered, gap |-> gap, acking |-> acking]
    BY DEF Local
  <2>2. PICK g \in Gaps : g = [gap EXCEPT !.timer = FALSE] /\ g.expected = gap.expected
    BY <1>6
  <2>3. r = [buffer |-> buffer, delivered |-> delivered, gap |-> g, acking |-> acking]
    BY <1>5, <2>2
  <2>4. QED
    BY <2>1, <2>2, <2>3 DEF InOrder
<1>8. PICK s : s = AcceptPage(r, m)
  OBVIOUS
<1>9. InOrder(s) /\ r.buffer.last <= s.buffer.last
  BY <1>2, <1>7, <1>8, PageKeepsOrder
<1>10. r.buffer = buffer
  BY <1>5
<1>11. m.through \in 0 .. tail
  BY <1>2
<1>12. QED
  BY <1>1, <1>2, <1>3, <1>4, <1>8, <1>9, <1>10, <1>11

\* A page of the log, expected or not, the last one or not; the invariant is kept.
LEMMA ReceiveReplayKeepsIInv ==
  ASSUME IInv, ReceiveReplay
  PROVE  IInv' /\ buffer.last <= buffer'.last
<1>1. Scalars /\ tail \in Nat /\ MaxEvents \in Nat /\ InOrder(Local) /\ SocketInv
  BY TypeHasScalars DEF IInv
<1>0. PICK m \in Messages : \E s :
        /\ m = Head(down) /\ down # <<>> /\ m.through \in 0 .. tail /\ m.hasMore \in BOOLEAN
        /\ s = AcceptPage([Local EXCEPT !.gap.timer = FALSE], m)
        /\ InOrder(s) /\ buffer.last <= s.buffer.last /\ phase = "connected"
  BY <1>1, PageOutcome DEF ReceiveReplay
<1>2. PICK s :
        /\ m = Head(down) /\ down # <<>> /\ m.through \in 0 .. tail /\ m.hasMore \in BOOLEAN
        /\ s = AcceptPage([Local EXCEPT !.gap.timer = FALSE], m)
        /\ InOrder(s) /\ buffer.last <= s.buffer.last /\ phase = "connected"
  BY <1>0
<1>3. UnexpectedPage(m) => GivesUpSocket
  BY <1>2 DEF ReceiveReplay
<1>4. ~UnexpectedPage(m) => ContinueReplay(m, s) \/ EndReplay(m, s)
  BY <1>2 DEF ReceiveReplay
<1>5. /\ s.gap = [expected |-> s.gap.expected, timer |-> s.gap.timer, requested |-> s.gap.requested]
      /\ s.gap.expected \in Int /\ s.gap.timer \in BOOLEAN /\ s.gap.requested \in BOOLEAN
      /\ s.buffer.last \in Nat
  BY <1>2, OrderFields
<1>6. /\ acked \in Nat /\ buffer.last \in Nat
      /\ known # 0 => acked <= buffer.last /\ acked <= s.buffer.last
  <2>1. acked \in Nat /\ (known # 0 => acked <= buffer.last)
    BY <1>1 DEF IInv, Scalars
  <2>2. buffer.last \in Nat
    BY <1>1, LocalFields
  <2>3. QED
    BY <1>2, <1>5, <2>1, <2>2
<1>7. CASE UnexpectedPage(m)
  <2>1. GivesUpSocket
    BY <1>3, <1>7
  <2>2. buffer' = buffer
    BY <2>1 DEF GivesUpSocket, LosesSocket
  <2>3. QED
    BY <1>6, <2>1, <2>2, LossesKeepIInv
<1>8. CASE ContinueReplay(m, s)
  <2>1. /\ buffer' = s.buffer /\ delivered' = s.delivered /\ acking' = s.acking
        /\ gap' = [s.gap EXCEPT !.timer = @ \/ s.gap.expected # None]
        /\ replayAfter' = m.through /\ up' = Append(up, m.through) /\ down' = Tail(down)
        /\ UNCHANGED <<tail, started, epoch, acked, joinedAt, link, phase, known, target, limited, faults>>
    BY <1>8 DEF ContinueReplay, Adopt, Taken, engine
  <2>2. gap' \in Gaps /\ gap'.expected = s.gap.expected
    <3>1. (s.gap.timer \/ s.gap.expected # None) \in BOOLEAN
      BY <1>5
    <3>2. PICK b \in BOOLEAN : gap' = [s.gap EXCEPT !.timer = b]
      BY <2>1, <3>1
    <3>3. gap' = [expected |-> s.gap.expected, timer |-> b, requested |-> s.gap.requested]
      BY <1>5, <3>2
    <3>4. QED
      BY <1>5, <3>3 DEF Gaps
  <2>3. InOrder(Local)'
    BY <1>2, <2>1, <2>2, OrderGap, AdoptedOrder
  <2>4. SocketInv'
    <3>1. up' \in Seq(0 .. tail')
      <4>1. up \in Seq(0 .. tail)
        BY <1>1 DEF SocketInv
      <4>2. Append(up, m.through) \in Seq(0 .. tail)
        BY <1>2, <4>1, AppendProperties
      <4>3. QED
        BY <2>1, <4>2
    <3>2. phase' = "connected"
      BY <1>2, <2>1
    <3>3. QED
      BY <1>1, <1>2, <2>1, <3>1, <3>2, TakenKeepsSocket
  <2>5. Scalars'
    BY <1>1, <1>2, <2>1 DEF Scalars
  <2>6. QED
    BY <1>2, <1>6, <2>1, <2>3, <2>4, <2>5, TypeFromPartsNext DEF IInv
<1>9. CASE EndReplay(m, s) /\ (FallsShort(s) \/ s.gap.expected # None)
  <2>1. /\ buffer' = s.buffer /\ delivered' = s.delivered /\ acking' = 0 /\ gap' = NoGap
        /\ phase' = "waiting" /\ link' = "none" /\ down' = <<>> /\ up' = <<>> /\ limited' = FALSE
        /\ UNCHANGED <<tail, started, epoch, acked, joinedAt, known, replayAfter, target, faults>>
    BY <1>9 DEF EndReplay, Adopt, engine
  <2>2. InOrder(Local)'
    <3>1. gap' \in Gaps /\ gap'.expected \in {None, s.buffer.last + 1}
      BY <1>2, <2>1, OrderGap
    <3>2. acking' \in Nat /\ acking' <= s.buffer.last
      BY <1>5, <2>1
    <3>3. QED
      BY <1>2, <2>1, <3>1, <3>2, AdoptedOrder
  <2>3. SocketInv'
    BY <2>1 DEF SocketInv, Online
  <2>4. Scalars'
    BY <1>1, <2>1 DEF Scalars
  <2>5. QED
    BY <1>2, <1>6, <2>1, <2>2, <2>3, <2>4, TypeFromPartsNext DEF IInv
<1>10. CASE EndReplay(m, s) /\ ~(FallsShort(s) \/ s.gap.expected # None)
  <2>1. /\ buffer' = s.buffer /\ delivered' = s.delivered /\ acking' = s.acking
        /\ gap' = [s.gap EXCEPT !.requested = FALSE]
        /\ replayAfter' = None /\ target' = None /\ down' = Tail(down)
        /\ UNCHANGED <<tail, started, epoch, acked, joinedAt, link, up, phase, known, limited, faults>>
    BY <1>10 DEF EndReplay, Adopt, Taken, engine
  <2>2. gap' \in Gaps /\ gap'.expected = s.gap.expected
    <3>1. gap' = [expected |-> s.gap.expected, timer |-> s.gap.timer, requested |-> FALSE]
      BY <1>5, <2>1
    <3>2. QED
      BY <1>5, <3>1 DEF Gaps
  <2>3. InOrder(Local)'
    BY <1>2, <2>1, <2>2, OrderGap, AdoptedOrder
  <2>4. SocketInv'
    <3>1. up' \in Seq(0 .. tail') /\ phase' = "connected"
      BY <1>1, <1>2, <2>1 DEF SocketInv
    <3>2. QED
      BY <1>1, <1>2, <2>1, <3>1, TakenKeepsSocket
  <2>5. Scalars'
    BY <1>1, <2>1 DEF Scalars
  <2>6. QED
    BY <1>2, <1>6, <2>1, <2>3, <2>4, <2>5, TypeFromPartsNext DEF IInv
<1>11. QED
  BY <1>4, <1>7, <1>8, <1>9, <1>10

\* The gap timer asks for a replay, or gives the socket up; the invariant is kept.
LEMMA GapTimerKeepsIInv ==
  ASSUME IInv, GapTimerFires
  PROVE  IInv'
<1>1. Scalars /\ tail \in Nat /\ MaxEvents \in Nat /\ InOrder(Local) /\ SocketInv
  BY TypeHasScalars DEF IInv
<1>2. CASE gap.requested
  BY <1>2, LossesKeepIInv DEF GapTimerFires
<1>3. CASE ~gap.requested
  <2>1. /\ Online /\ gap.timer /\ gap' = [gap EXCEPT !.requested = TRUE]
        /\ replayAfter' = buffer.last /\ up' = Append(up, buffer.last)
        /\ UNCHANGED <<tail, started, epoch, acked, joinedAt, link, down, acking, phase, known,
                       buffer, delivered, target, limited, faults>>
    BY <1>3 DEF GapTimerFires, engine
  <2>2. phase = "connected"
    BY <1>1, <2>1 DEF SocketInv, Online, NoGap
  <2>3. buffer.last \in 0 .. tail
    BY <1>1, LocalFields
  <2>4. gap' \in Gaps /\ gap'.expected = gap.expected
    <3>1. gap' = [expected |-> gap.expected, timer |-> gap.timer, requested |-> TRUE]
      BY <1>1, <2>1, LocalFields
    <3>2. QED
      BY <1>1, <3>1, LocalFields DEF Gaps
  <2>5. InOrder(Local)'
    <3>1. PICK s : s = Local /\ InOrder(s)
      BY <1>1
    <3>2. buffer' = s.buffer /\ delivered' = s.delivered /\ s.acking = acking /\ s.gap = gap
      BY <2>1, <3>1 DEF Local
    <3>3. QED
      BY <2>1, <2>4, <3>1, <3>2, OrderGap, AdoptedOrder
  <2>6. SocketInv'
    <3>1. up' \in Seq(0 .. tail')
      <4>1. up \in Seq(0 .. tail)
        BY <1>1 DEF SocketInv
      <4>2. Append(up, buffer.last) \in Seq(0 .. tail)
        BY <2>3, <4>1, AppendProperties
      <4>3. QED
        BY <2>1, <4>2
    <3>2. ASSUME NEW i \in 1 .. Len(down)
          PROVE  Truthful(down[i])' /\ (down[i].type = "session" => i = 1)
      BY <1>1, <2>1 DEF SocketInv, Truthful
    <3>3. QED
      BY <1>1, <2>1, <2>2, <3>1, <3>2 DEF SocketInv, Online
  <2>7. Scalars'
    BY <1>1, <2>1, <2>3 DEF Scalars
  <2>8. QED
    BY <2>1, <2>5, <2>6, <2>7, TypeFromPartsNext DEF IInv
<1>4. QED
  BY <1>2, <1>3

(***************************************************************************)
(* The invariant and what it says.                                         *)
(***************************************************************************)

\* Every step keeps the invariant.
LEMMA NextKeepsIInv == IInv /\ [Next]_vars => IInv'
<1> SUFFICES ASSUME IInv, [Next]_vars PROVE IInv'
  OBVIOUS
<1>1. CASE Commit
  BY <1>1, CommitKeepsIInv
<1>2. CASE SessionExpires
  BY <1>2, ExpiryKeepsIInv
<1>3. CASE Refuse
  BY <1>3, RefuseKeepsIInv
<1>4. CASE Accept
  BY <1>4, AcceptKeepsIInv
<1>5. CASE HandleResume \/ LimitResume
  BY <1>5, HandleResumeKeepsIInv, LimitedResumeKeepsIInv
<1>6. CASE HandleAcknowledgement \/ LimitAcknowledgement
  BY <1>6, AcknowledgementKeepsIInv, LimitedAcknowledgementKeepsIInv
<1>7. CASE UserConnects \/ UserForgets
  BY <1>7, UserConnectsKeepsIInv, ForgettingKeepsIInv
<1>8. CASE UserDisconnects \/ ConnectionLost \/ ReceiveError \/ ReceiveClose
  BY <1>8, LossesKeepIInv
<1>9. CASE OpenSocket
  BY <1>9, OpenSocketKeepsIInv
<1>10. CASE ReceiveSession
  BY <1>10, ReceiveSessionKeepsIInv
<1>11. CASE ReceiveCanonical \/ ReceiveRetriableError
  BY <1>11, ReceiveCanonicalKeepsIInv, RetriableErrorKeepsIInv
<1>12. CASE ReceiveReplay
  BY <1>12, ReceiveReplayKeepsIInv
<1>13. CASE GapTimerFires
  BY <1>13, GapTimerKeepsIInv
<1>14. CASE UNCHANGED vars
  <2>1. /\ UNCHANGED <<tail, started, epoch, acked, joinedAt, link, down, up, acking, phase, known,
                      buffer, delivered, gap, replayAfter, target, limited, faults>>
    BY <1>14 DEF vars
  <2>2. InOrder(Local)' /\ SocketInv' /\ Scalars' /\ (known' # 0 => acked' <= buffer'.last)
    <3>1. Scalars /\ InOrder(Local) /\ SocketInv
      BY TypeHasScalars DEF IInv
    <3>2. InOrder(Local)'
      <4>1. Local' = Local
        BY <2>1 DEF Local
      <4> HIDE DEF Local
      <4>2. QED
        BY <2>1, <3>1, <4>1 DEF InOrder
    <3>3. SocketInv'
      BY <2>1, <3>1 DEF SocketInv, Online, Truthful
    <3>4. QED
      BY <2>1, <3>1, <3>2, <3>3 DEF Scalars, IInv
  <2>3. QED
    BY <2>2, TypeFromPartsNext DEF IInv
<1>15. QED
  BY <1>1, <1>2, <1>3, <1>4, <1>5, <1>6, <1>7, <1>8, <1>9, <1>10, <1>11, <1>12, <1>13, <1>14
  DEF Next, ServerStep, Receive

\* The inductive invariant holds of every reachable state.
LEMMA InvariantHolds == Spec => []IInv
BY InitIInv, NextKeepsIInv, PTL DEF Spec

\* Both sides and everything in flight between them keep their types: what the
\* client asks for and what it waits for lie within the log.
THEOREM SessionTypes == Spec => []TypeOK
<1>1. IInv => TypeOK
  BY DEF IInv
<1>2. QED
  BY <1>1, InvariantHolds, PTL

\* While the client holds its session, the server never takes for seen what the
\* game of this session was not given: acknowledgements, stored or in flight, never run ahead of the client's buffer,
\* and the buffer never ahead of the game (handleAcknowledgement, acceptCanonical).
THEOREM AcknowledgementsAreEarned == Spec => []AcknowledgedWasDelivered
<1>1. IInv => AcknowledgedWasDelivered
  <2> SUFFICES ASSUME IInv PROVE AcknowledgedWasDelivered
    OBVIOUS
  <2>1. /\ buffer.last \in Nat /\ acking <= buffer.last
        /\ delivered = [n \in 1 .. buffer.last |-> n]
    BY LocalFields DEF IInv
  <2>2. Len(delivered) = buffer.last
    BY <2>1
  <2>3. known # 0 => acked <= buffer.last
    BY DEF IInv
  <2>4. QED
    BY <2>1, <2>2, <2>3 DEF AcknowledgedWasDelivered
<1>2. QED
  BY <1>1, InvariantHolds, PTL

\* What the game has been given is the log up to the buffer's last sequence.
LEMMA GivenIsTheLog ==
  IInv => /\ buffer.last \in Nat /\ buffer.last <= tail
          /\ delivered = [n \in 1 .. buffer.last |-> n] /\ Len(delivered) = buffer.last
<1> SUFFICES ASSUME IInv
             PROVE  /\ buffer.last \in Nat /\ buffer.last <= tail
                    /\ delivered = [n \in 1 .. buffer.last |-> n] /\ Len(delivered) = buffer.last
  OBVIOUS
<1>1. /\ buffer.last \in Nat /\ buffer.last <= tail /\ delivered = [n \in 1 .. buffer.last |-> n]
  BY LocalFields DEF IInv
<1>2. QED
  BY <1>1

\* Every step is a step of the feed, or leaves it alone.
LEMMA StepFollowsTheLog ==
  ASSUME IInv, IInv', [Next]_vars
  PROVE  [GameFollowsTheLog!Commit \/ GameFollowsTheLog!Deliver
            \/ GameFollowsTheLog!StartOver]_<<tail, delivered>>
<1>1. /\ buffer.last \in Nat /\ buffer.last <= tail
      /\ delivered = [n \in 1 .. buffer.last |-> n] /\ Len(delivered) = buffer.last
  BY GivenIsTheLog
<1>2. /\ buffer'.last \in Nat /\ buffer'.last <= tail'
      /\ delivered' = [n \in 1 .. buffer'.last |-> n]
  <2>1. IInv' => (/\ buffer.last \in Nat /\ buffer.last <= tail
                  /\ delivered = [n \in 1 .. buffer.last |-> n] /\ Len(delivered) = buffer.last)'
    BY GivenIsTheLog, PTL
  <2>2. QED
    BY <2>1
<1>3. CASE Commit
  BY <1>3 DEF Commit, client, GameFollowsTheLog!Commit
<1>4. CASE ReceiveSession
  <2>1. UNCHANGED tail /\ (delivered' = <<>> \/ UNCHANGED delivered)
    BY <1>4 DEF ReceiveSession, GivesUpSocket, LosesSocket, Unplugged, engine
  <2>2. QED
    BY <2>1 DEF GameFollowsTheLog!StartOver
<1>5. CASE ReceiveCanonical \/ ReceiveReplay
  <2>1. buffer.last <= buffer'.last
    BY <1>5, ReceiveCanonicalKeepsIInv, ReceiveReplayKeepsIInv
  <2>2. UNCHANGED tail
    BY <1>5 DEF ReceiveCanonical, ReceiveReplay, ContinueReplay, EndReplay, Taken, GivesUpSocket,
                LosesSocket, Unplugged, engine
  <2>3. CASE buffer'.last = buffer.last
    BY <1>1, <1>2, <2>2, <2>3
  <2>4. CASE buffer'.last # buffer.last
    <3>1. buffer'.last \in Len(delivered) + 1 .. tail
      BY <1>1, <1>2, <2>1, <2>2, <2>4
    <3>2. QED
      BY <1>2, <2>2, <3>1 DEF GameFollowsTheLog!Deliver
  <2>5. QED
    BY <2>3, <2>4
<1>6. CASE UserDisconnects \/ ConnectionLost \/ ReceiveError \/ ReceiveClose
  BY <1>6 DEF UserDisconnects, ConnectionLost, ReceiveError, ReceiveClose, LosesSocket, Unplugged,
              engine
<1>7. CASE GapTimerFires \/ ReceiveRetriableError
  BY <1>7 DEF GapTimerFires, GivesUpSocket, LosesSocket, Unplugged, ReceiveRetriableError, Taken,
              engine, client
<1>8. CASE SessionExpires \/ UserConnects \/ OpenSocket \/ ServerStep
  BY <1>8 DEF SessionExpires, UserConnects, OpenSocket, ServerStep, Refuse, Accept, HandleResume,
              HandleAcknowledgement, LimitResume, LimitAcknowledgement, engine, client
<1>9. CASE UserForgets
  BY <1>9 DEF UserForgets, Unplugged, engine, GameFollowsTheLog!StartOver
<1>10. CASE UNCHANGED vars
  BY <1>10 DEF vars
<1>11. QED
  BY <1>3, <1>4, <1>5, <1>6, <1>7, <1>8, <1>9, <1>10 DEF Next, Receive

\* The session implements EventFeed: whatever is lost, replayed twice or comes
\* behind a gap, the game is given the log from its first event on, each event
\* once and in order (client.ts acceptCanonical and handleReplay).
THEOREM SessionFollowsTheLog == Spec => FollowsTheLog
<1>1. Init => GameFollowsTheLog!Init
  BY DEF Init, GameFollowsTheLog!Init
<1>2. IInv /\ IInv' /\ [Next]_vars
        => [GameFollowsTheLog!Commit \/ GameFollowsTheLog!Deliver
              \/ GameFollowsTheLog!StartOver]_<<tail, delivered>>
  BY StepFollowsTheLog
<1>3. QED
  BY <1>1, <1>2, InvariantHolds, PTL DEF Spec, FollowsTheLog, GameFollowsTheLog!Spec

\* With no session message under way, the epochs alone tell who is locked out.
LEMMA NoPromise ==
  ASSUME SocketInv, phase # "handshaking" \/ (down # <<>> /\ Head(down).type # "session")
                      \/ down = <<>>,
         epoch' = epoch, known' = known, LockedOut'
  PROVE  LockedOut
<1>1. ASSUME NEW i \in 1 .. Len(down) PROVE down[i].type # "session"
  <2>1. CASE phase # "handshaking"
    BY <1>1, <2>1 DEF SocketInv, Truthful
  <2>2. CASE down # <<>> /\ Head(down).type # "session"
    <3>1. down[1].type # "session"
      BY <2>2, DownParts
    <3>2. QED
      BY <1>1, <3>1 DEF SocketInv
  <2>3. CASE down = <<>>
    BY <1>1, <2>3
  <2>4. QED
    BY <2>1, <2>2, <2>3
<1>2. QED
  BY <1>1 DEF LockedOut

\* More messages behind those under way take no promise back.
LEMMA LongerStillPromises ==
  ASSUME down \in Seq(Messages), NEW e \in Seq(Messages), down' = down \o e,
         epoch' = epoch, known' = known, LockedOut'
  PROVE  LockedOut
<1>1. ASSUME NEW i \in 1 .. Len(down) PROVE down[i].type # "session"
  <2>1. Len(down') = Len(down) + Len(e) /\ Len(down) \in Nat /\ Len(e) \in Nat
        /\ \A j \in 1 .. Len(down) + Len(e) : down'[j] = IF j <= Len(down) THEN down[j] ELSE e[j - Len(down)]
    BY ConcatProperties, LenProperties
  <2>2. i \in 1 .. Len(down') /\ down'[i] = down[i]
    BY <1>1, <2>1
  <2>3. QED
    BY <2>2 DEF LockedOut
<1>2. QED
  BY <1>1 DEF LockedOut

\* The broadcaster's messages.
LEMMA SendStillPromises ==
  ASSUME down \in Seq(Messages), NEW m \in Messages, Send(m),
         epoch' = epoch, known' = known, LockedOut'
  PROVE  LockedOut
<1>1. CASE link = "bound"
  <2>1. PICK e \in Messages : down' = Append(down, e)
    BY <1>1, MessageKinds DEF Send
  <2>2. down' = down \o <<e>> /\ <<e>> \in Seq(Messages)
    BY <2>1
  <2>3. QED
    BY <2>2, LongerStillPromises
<1>2. CASE link # "bound"
  BY <1>2 DEF Send, LockedOut
<1>3. QED
  BY <1>1, <1>2

\* The only steps that lock a client out take its socket away before the session
\* message has come, or its memory of the session.
LEMMA OnlyLossesLockOut ==
  ASSUME IInv, [Next]_vars, ~LockedOut, LockedOut'
  PROVE  UserForgets \/ ((ConnectionLost \/ UserDisconnects) /\ phase = "handshaking")
<1>1. Scalars /\ tail \in Nat /\ MaxEvents \in Nat /\ SocketInv /\ down \in Seq(Messages)
  BY TypeHasScalars DEF IInv, SocketInv
<1>2. CASE Commit
  <2>1. Canonical(tail + 1) \in Messages
    BY <1>1, <1>2 DEF Commit, Canonical, Messages
  <2>2. Send(Canonical(tail + 1)) /\ epoch' = epoch /\ known' = known
    BY <1>2 DEF Commit, client
  <2>3. PICK m \in Messages : Send(m)
    BY <2>1, <2>2
  <2>4. QED
    BY <1>1, <2>2, <2>3, SendStillPromises
<1>3. CASE SessionExpires
  BY <1>3 DEF SessionExpires, LockedOut
<1>4. CASE Refuse
  <2>1. down = <<>> /\ epoch' = epoch /\ known' = known
    BY <1>1, <1>4 DEF Refuse, SocketInv, engine, client
  <2>2. QED
    BY <1>1, <2>1, NoPromise
<1>5. CASE Accept
  <2>1. PICK s, e : s = SessionMessage(epoch', epoch # 0) /\ down' = <<s>> \o e
                    /\ e = IF known # 0 THEN <<Page(buffer.last)>> ELSE <<>>
    BY <1>5 DEF Accept
  <2>2. s.type = "session"
    BY <2>1 DEF SessionMessage
  <2>3. 1 \in 1 .. Len(down') /\ down'[1] = s
    <3>1. CASE e = <<>>
      <4>1. <<s>> \in Seq({s})
        OBVIOUS
      <4>2. down' = <<s>>
        BY <2>1, <3>1, <4>1, ConcatEmptySeq
      <4>3. QED
        BY <4>2
    <3>2. CASE e = <<Page(buffer.last)>>
      BY <2>1, <3>2
    <3>3. QED
      BY <2>1, <3>1, <3>2
  <2>4. QED
    BY <2>2, <2>3 DEF LockedOut
<1>6. CASE HandleResume
  <2>1. AnswerResume(Head(up)) /\ epoch' = epoch /\ known' = known /\ up # <<>>
    BY <1>6 DEF HandleResume, engine, client
  <2>2. Head(up) \in 0 .. tail
    BY <1>1, <2>1, HeadTailProperties DEF SocketInv
  <2>3. CASE ~ReplayUnavailable(Head(up))
    <3>1. PICK m \in Messages : Send(m)
      BY <1>1, <2>1, <2>2, <2>3, PageFacts DEF AnswerResume
    <3>2. QED
      BY <1>1, <2>1, <3>1, SendStillPromises
  <2>4. CASE ReplayUnavailable(Head(up)) /\ link = "bound"
    <3>1. down' = down \o <<Error, Close>>
      BY <2>1, <2>4 DEF AnswerResume
    <3>2. <<Error, Close>> \in Seq(Messages)
      BY MessageKinds
    <3>3. QED
      BY <1>1, <2>1, <3>1, <3>2, LongerStillPromises
  <2>5. CASE ReplayUnavailable(Head(up)) /\ link # "bound"
    BY <2>1, <2>5 DEF AnswerResume, LockedOut
  <2>6. QED
    BY <2>3, <2>4, <2>5
<1>14. CASE LimitResume \/ LimitAcknowledgement
  <2>1. Send(RateLimited) /\ epoch' = epoch /\ known' = known
    BY <1>14 DEF LimitResume, LimitAcknowledgement, engine, client
  <2>2. PICK m \in Messages : Send(m)
    BY <2>1, MessageKinds
  <2>3. QED
    BY <1>1, <2>1, <2>2, SendStillPromises
<1>7. CASE HandleAcknowledgement \/ UserConnects \/ OpenSocket
  BY <1>7 DEF HandleAcknowledgement, UserConnects, OpenSocket, LockedOut, engine, socket, client
<1>8. CASE UserDisconnects \/ ConnectionLost
  <2>1. epoch' = epoch /\ known' = known
    BY <1>8 DEF UserDisconnects, ConnectionLost, LosesSocket, Unplugged, engine
  <2>2. QED
    BY <1>1, <1>8, <2>1, NoPromise
<1>9. CASE ReceiveSession
  BY <1>9, ReceiveSessionKeepsIInv DEF LockedOut
<1>10. CASE \/ ReceiveCanonical \/ ReceiveReplay \/ ReceiveError \/ ReceiveRetriableError
            \/ ReceiveClose
  <2>1. epoch' = epoch /\ known' = known
    BY <1>10 DEF ReceiveCanonical, ReceiveReplay, ContinueReplay, EndReplay, ReceiveError,
                 ReceiveRetriableError, ReceiveClose, Taken, GivesUpSocket, LosesSocket, Unplugged,
                 engine, client
  <2>2. down # <<>> /\ Head(down).type # "session"
    BY <1>10 DEF ReceiveCanonical, ReceiveReplay, ReceiveError, ReceiveRetriableError, ReceiveClose,
                 NextIs
  <2>3. QED
    BY <1>1, <2>1, <2>2, NoPromise
<1>11. CASE GapTimerFires
  <2>1. epoch' = epoch /\ known' = known
    BY <1>11 DEF GapTimerFires, GivesUpSocket, LosesSocket, Unplugged, engine
  <2>2. phase # "handshaking"
    BY <1>1, <1>11 DEF GapTimerFires, SocketInv, NoGap
  <2>3. QED
    BY <1>1, <2>1, <2>2, NoPromise
<1>12. CASE UNCHANGED vars
  BY <1>12 DEF vars, LockedOut
<1>13. QED
  BY <1>2, <1>3, <1>4, <1>5, <1>6, <1>7, <1>8, <1>9, <1>10, <1>11, <1>12, <1>14
  DEF Next, ServerStep, Receive

\* A client is locked out of its stored session only when its socket is lost
\* between the upgrade request and the session message, or when the game makes it
\* forget the session (disconnect), never by the protocol's own steps: expiry,
\* refusal, rate limit, replay, give-up (engine.connect, acceptSession).
THEOREM LockOutNeedsLossOrForgetting == Spec => OnlyLossOrForgettingLocksOut
<1>1. IInv /\ [Next]_vars
        => [~LockedOut /\ LockedOut' =>
              \/ UserForgets
              \/ (ConnectionLost \/ UserDisconnects) /\ phase = "handshaking"]_vars
  BY OnlyLossesLockOut
<1>2. QED
  BY <1>1, InvariantHolds, PTL DEF Spec, OnlyLossOrForgettingLocksOut

=============================================================================
