--------------------------- MODULE Hugekeeper_pool ---------------------------
(***************************************************************************)
(* Machine-checked proofs about the lease table of Hugekeeper: the numbers *)
(* leases are named by, the pool the slots are counted in, and what a      *)
(* denial, a stop and a failed revocation leave of earlier leases.         *)
(***************************************************************************)
EXTENDS Hugekeeper_proofs, FiniteSetTheorems

(***************************************************************************)
(* Counting the slots resize_pool chooses.                                 *)
(***************************************************************************)

\* A set of numbers is as large as a set of ranks that is mapped to it one to
\* one: of the elements of d ranked without gaps, n have a rank below n.
LEMMA RankCount ==
  ASSUME NEW d, IsFiniteSet(d), NEW n \in Nat, n <= Cardinality(d),
         NEW r \in [d -> 0 .. Cardinality(d) - 1],
         \A s, t \in d : r[s] = r[t] => s = t
  PROVE  Cardinality({s \in d : r[s] < n}) = n
<1> DEFINE ranks == 0 .. Cardinality(d) - 1
           low == {s \in d : r[s] < n}
           g == [s \in low |-> r[s]]
<1>1. Cardinality(d) \in Nat
  BY FS_CardinalityType
<1>2. IsFiniteSet(ranks) /\ Cardinality(ranks) = Cardinality(d)
  <2>1. Cardinality(d) - 1 \in Int
    BY <1>1
  <2>2. IsFiniteSet(ranks)
        /\ Cardinality(ranks) = IF 0 > Cardinality(d) - 1 THEN 0 ELSE Cardinality(d) - 1 - 0 + 1
    BY <2>1, FS_Interval
  <2>3. QED
    BY <2>2, <1>1
<1>3. r \in Injection(d, ranks)
  BY DEF Injection, IsInjective
<1>4. r \in Surjection(d, ranks)
  BY <1>2, <1>3, FS_Injection
<1>5. g \in Injection(low, 0 .. n - 1)
  BY <1>1 DEF Injection, IsInjective
<1>6. g \in Surjection(low, 0 .. n - 1)
  <2>1. \A k \in 0 .. n - 1 : \E s \in low : g[s] = k
    <3> TAKE k \in 0 .. n - 1
    <3>1. k \in ranks
      BY <1>1
    <3>2. PICK s \in d : r[s] = k
      BY <1>4, <3>1 DEF Surjection
    <3>3. s \in low
      BY <3>2
    <3>4. QED
      BY <3>2, <3>3
  <2>2. QED
    BY <2>1, <1>5 DEF Surjection, Injection
<1>7. IsFiniteSet(0 .. n - 1) /\ Cardinality(0 .. n - 1) = n
  BY FS_Interval
<1>8. QED
  BY <1>5, <1>6, <1>7, FS_Injection

\* Every set of slots is finite and no larger than the table.
LEMMA SlotSetsAreFinite ==
  ASSUME NEW d \in SUBSET Slots
  PROVE  IsFiniteSet(d) /\ Cardinality(d) \in 0 .. MaxSlots
<1>1. IsFiniteSet(Slots) /\ Cardinality(Slots) = MaxSlots
  BY SizeAssumption, FS_Interval DEF Slots
<1>2. IsFiniteSet(d) /\ Cardinality(d) <= MaxSlots
  BY <1>1, FS_Subset
<1>3. QED
  BY <1>2, FS_CardinalityType, SizeAssumption

\* The number of elements of d below one of them ranks it from 0 without ties.
LEMMA LowerRank ==
  ASSUME NEW d \in SUBSET Slots, NEW n \in Nat, n <= Cardinality(d)
  PROVE  Cardinality({s \in d : Cardinality({t \in d : t < s}) < n}) = n
<1> DEFINE below(s) == {t \in d : t < s}
           r == [s \in d |-> Cardinality(below(s))]
<1>1. IsFiniteSet(d) /\ Cardinality(d) \in Nat
  BY SlotSetsAreFinite
<1>2. \A s, t \in d : s < t => Cardinality(below(s)) < Cardinality(below(t))
  <2> SUFFICES ASSUME NEW s \in d, NEW t \in d, s < t
               PROVE  Cardinality(below(s)) < Cardinality(below(t))
    OBVIOUS
  <2>1. below(s) \subseteq below(t) /\ below(s) # below(t)
    <3>1. s \in Nat /\ t \in Nat /\ d \subseteq Nat
      BY IndexFacts
    <3>2. s \in below(t) /\ s \notin below(s)
      BY <3>1
    <3>3. ASSUME NEW u \in below(s) PROVE u \in below(t)
      <4>1. u \in d /\ u \in Nat /\ u < s
        BY <3>1
      <4>2. QED
        BY <3>1, <4>1
    <3>4. QED
      BY <3>2, <3>3
  <2>2. IsFiniteSet(below(s)) /\ IsFiniteSet(below(t))
        /\ Cardinality(below(s)) \in Int /\ Cardinality(below(t)) \in Int
    BY SlotSetsAreFinite
  <2>3. QED
    BY <2>1, <2>2, FS_Subset
<1>3. \A s \in d : Cardinality(below(s)) \in 0 .. Cardinality(d) - 1
  <2> TAKE s \in d
  <2>1. below(s) \subseteq d /\ below(s) # d
    <3>1. s \notin below(s)
      BY IndexFacts
    <3>2. QED
      BY <3>1
  <2>2. Cardinality(below(s)) \in Nat
    BY SlotSetsAreFinite
  <2>3. QED
    BY <2>1, <2>2, <1>1, FS_Subset
<1>4. \A s, t \in d : r[s] = r[t] => s = t
  <2> SUFFICES ASSUME NEW s \in d, NEW t \in d, s # t PROVE r[s] # r[t]
    OBVIOUS
  <2>1. s < t \/ t < s
    BY IndexFacts
  <2>2. Cardinality(below(s)) \in Int /\ Cardinality(below(t)) \in Int
    BY <1>3
  <2>3. Cardinality(below(s)) # Cardinality(below(t))
    <3> HIDE DEF below
    <3> QED
      BY <2>1, <2>2, <1>2
  <2>4. QED
    BY <2>3
<1>5. r \in [d -> 0 .. Cardinality(d) - 1]
  BY <1>3
<1>6. Cardinality({s \in d : r[s] < n}) = n
  <2> HIDE DEF r
  <2> QED
    BY <1>1, <1>4, <1>5, RankCount
<1>7. {s \in d : r[s] < n} = {s \in d : Cardinality({t \in d : t < s}) < n}
  OBVIOUS
<1>8. QED
  BY <1>6, <1>7

\* The same, ranked from the top.
LEMMA UpperRank ==
  ASSUME NEW d \in SUBSET Slots, NEW n \in Nat, n <= Cardinality(d)
  PROVE  Cardinality({s \in d : Cardinality({t \in d : t > s}) < n}) = n
<1> DEFINE above(s) == {t \in d : t > s}
           r == [s \in d |-> Cardinality(above(s))]
<1>1. IsFiniteSet(d) /\ Cardinality(d) \in Nat
  BY SlotSetsAreFinite
<1>2. \A s, t \in d : s > t => Cardinality(above(s)) < Cardinality(above(t))
  <2> SUFFICES ASSUME NEW s \in d, NEW t \in d, s > t
               PROVE  Cardinality(above(s)) < Cardinality(above(t))
    OBVIOUS
  <2>1. above(s) \subseteq above(t) /\ above(s) # above(t)
    <3>1. s \in Nat /\ t \in Nat /\ d \subseteq Nat
      BY IndexFacts
    <3>2. s \in above(t) /\ s \notin above(s)
      BY <3>1
    <3>3. ASSUME NEW u \in above(s) PROVE u \in above(t)
      <4>1. u \in d /\ u \in Nat /\ u > s
        BY <3>1
      <4>2. QED
        BY <3>1, <4>1
    <3>4. QED
      BY <3>2, <3>3
  <2>2. IsFiniteSet(above(s)) /\ IsFiniteSet(above(t))
        /\ Cardinality(above(s)) \in Int /\ Cardinality(above(t)) \in Int
    BY SlotSetsAreFinite
  <2>3. QED
    BY <2>1, <2>2, FS_Subset
<1>3. \A s \in d : Cardinality(above(s)) \in 0 .. Cardinality(d) - 1
  <2> TAKE s \in d
  <2>1. above(s) \subseteq d /\ above(s) # d
    <3>1. s \notin above(s)
      BY IndexFacts
    <3>2. QED
      BY <3>1
  <2>2. Cardinality(above(s)) \in Nat
    BY SlotSetsAreFinite
  <2>3. QED
    BY <2>1, <2>2, <1>1, FS_Subset
<1>4. \A s, t \in d : r[s] = r[t] => s = t
  <2> SUFFICES ASSUME NEW s \in d, NEW t \in d, s # t PROVE r[s] # r[t]
    OBVIOUS
  <2>1. s > t \/ t > s
    BY IndexFacts
  <2>2. Cardinality(above(s)) \in Int /\ Cardinality(above(t)) \in Int
    BY <1>3
  <2>3. Cardinality(above(s)) # Cardinality(above(t))
    <3> HIDE DEF above
    <3> QED
      BY <2>1, <2>2, <1>2
  <2>4. QED
    BY <2>3
<1>5. r \in [d -> 0 .. Cardinality(d) - 1]
  BY <1>3
<1>6. Cardinality({s \in d : r[s] < n}) = n
  <2> HIDE DEF r
  <2> QED
    BY <1>1, <1>4, <1>5, RankCount
<1>7. {s \in d : r[s] < n} = {s \in d : Cardinality({t \in d : t > s}) < n}
  OBVIOUS
<1>8. QED
  BY <1>6, <1>7

\* Two sets of slots without a common one are counted apart.
LEMMA DisjointCount ==
  ASSUME NEW d \in SUBSET Slots, NEW e \in SUBSET Slots, d \cap e = {}
  PROVE  Cardinality(d \cup e) = Cardinality(d) + Cardinality(e)
<1>1. IsFiniteSet(d) /\ IsFiniteSet(e) /\ Cardinality(d) \in Int /\ Cardinality(e) \in Int
  BY SlotSetsAreFinite
<1>2. Cardinality(d \cap e) = 0
  BY FS_EmptySet
<1>3. Cardinality(d \cup e) = Cardinality(d) + Cardinality(e) - Cardinality(d \cap e)
  BY <1>1, FS_Union
<1>4. QED
  BY <1>1, <1>2, <1>3

\* What is taken out of a set of slots is no longer counted.
LEMMA DifferenceCount ==
  ASSUME NEW e \in SUBSET Slots, NEW d \in SUBSET e
  PROVE  Cardinality(e \ d) = Cardinality(e) - Cardinality(d)
<1>1. (e \ d) \cup d = e /\ (e \ d) \cap d = {}
  OBVIOUS
<1>2. Cardinality(e) = Cardinality(e \ d) + Cardinality(d)
  BY <1>1, DisjointCount
<1>3. QED
  BY <1>2, SlotSetsAreFinite

\* What resize_pool grows into and gives up is as many slots as it asks for.
LEMMA GrowthCount ==
  ASSUME NEW n \in Nat, n <= Cardinality(DisabledSlots)
  PROVE  Growth(n) \subseteq DisabledSlots /\ Cardinality(Growth(n)) = n
BY LowerRank DEF Growth, DisabledSlots
LEMMA ShrinkageCount ==
  ASSUME NEW n \in Nat, n <= Cardinality(IdleSlots)
  PROVE  Shrinkage(n) \subseteq IdleSlots /\ Cardinality(Shrinkage(n)) = n
BY UpperRank DEF Shrinkage, IdleSlots

(***************************************************************************)
(* Which steps change what.                                                *)
(***************************************************************************)

\* Requests that work on no slots and grant none.
LEMMA ServeFrame ==
  ASSUME NEW i \in Index, ServeStep(i)
  PROVE  /\ pc = "serve" /\ ~fatal_revoke /\ i \in todo /\ todo' = todo \ {i}
         /\ UNCHANGED <<enabled, fd, live, held, capacity, fatal_revoke>>
         /\ ServeAcquire(i) \/ UNCHANGED <<lease, owner, next_lease>>
         /\ ServeAcquire(i) \/ grant' = NoSlot
         /\ ServeEnd(i) \/ (cur' = i /\ client' = client)
<1> USE DEF Request, Turn, ReplyWith, StartWork, CloseClient, slotVars, workVars
<1>1. CASE ServeEnd(i)
  BY <1>1 DEF ServeEnd
<1>2. CASE ServeNoEffect(i)
  BY <1>2 DEF ServeNoEffect
<1>3. CASE ServeAcquire(i)
  BY <1>3 DEF ServeAcquire
<1>4. CASE ServeRelease(i)
  BY <1>4 DEF ServeRelease
<1>5. CASE ServeFree(i)
  BY <1>5 DEF ServeFree
<1>6. CASE ServeAllow(i)
  BY <1>6 DEF ServeAllow
<1>7. CASE ServeDeny(i)
  BY <1>7 DEF ServeDeny
<1>8. CASE ServeRevoke(i)
  BY <1>8 DEF ServeRevoke
<1>9. CASE ServeResize(i)
  BY <1>9 DEF ServeResize
<1>10. CASE ServeRefill(i)
  BY <1>10 DEF ServeRefill
<1>11. QED
  BY <1>1, <1>2, <1>3, <1>4, <1>5, <1>6, <1>7, <1>8, <1>9, <1>10 DEF ServeStep

\* A step of the daemon outside a handler: it touches no slot.
LoopStep ==
  \/ PollStops \/ PollReady \/ ServeDone \/ ReplySent \/ ReplyFails
  \/ \E l \in Listeners : AcceptStep(l)
  \/ LoopEnd \/ Cleanup \/ Exit

LEMMA LoopFrame ==
  ASSUME LoopStep
  PROVE  UNCHANGED <<slotVars, allowed, capacity, next_lease, fatal_revoke>>
<1> USE DEF slotVars, tableVars, CloseClient, StartWork
<1>1. CASE PollStops \/ PollReady \/ ServeDone \/ LoopEnd
  BY <1>1 DEF PollStops, PollReady, ServeDone, LoopEnd
<1>2. CASE ReplySent \/ ReplyFails
  BY <1>2 DEF ReplySent, ReplyFails
<1>3. CASE Cleanup \/ Exit
  BY <1>3 DEF Cleanup, Exit
<1>4. CASE \E l \in Listeners : AcceptStep(l)
  BY <1>4 DEF AcceptStep, AcceptClient, AcceptRejects, AcceptExhausted, AcceptDone
<1>5. QED
  BY <1>1, <1>2, <1>3, <1>4 DEF LoopStep

\* A process changes nothing the daemon keeps, except a file it truncates.
LEMMA PeerFrame ==
  ASSUME NEW p \in Peers, PeerStep(p)
  PROVE  UNCHANGED <<enabled, fd, lease, owner, tableVars, loopVars, pc, cur, grant, workVars>>
BY DEF PeerStep, Connect, HangUp, Unmap, TruncateOwn, daemonVars, slotVars

\* The kinds of steps the daemon can take.
LEMMA StepKinds ==
  ASSUME [Next]_vars
  PROVE  \/ \E i \in Index : ServeStep(i)
         \/ DiscardSlot \/ DiscardFails \/ AllocateSlot \/ AllocateFails \/ WorkDone
         \/ LoopStep
         \/ UNCHANGED <<enabled, fd, lease, owner, tableVars, loopVars, pc, cur, grant, workVars>>
<1>1. CASE DaemonStep
  BY <1>1 DEF DaemonStep, LoopStep
<1>2. CASE \E p \in Peers : PeerStep(p)
  BY <1>2, PeerFrame
<1>3. CASE UNCHANGED vars
  BY <1>3 DEF vars, tableVars, loopVars, workVars
<1>4. QED
  BY <1>1, <1>2, <1>3 DEF Next

(***************************************************************************)
(* The numbers of the leases.                                              *)
(***************************************************************************)

\* The counter moves past every number in use, or to 0 and grants no more.
LEMMA NumberStep ==
  ASSUME TypeOK, NumberInv, [Next]_vars
  PROVE  NumberInv'
<1> USE DEF NumberInv, LeaseNumbersAreUnique, LeasedSlots
<1>1. ASSUME NEW i \in Index, ServeAcquire(i) PROVE NumberInv'
  <2>1. next_lease # 0 /\ next_lease' = AfterLease(next_lease)
    BY <1>1 DEF ServeAcquire, MayAcquire
  <2>2. PICK s \in Slots : lease' = [lease EXCEPT ![s] = next_lease]
    BY <1>1 DEF ServeAcquire
  <2>3. next_lease \in Nat /\ next_lease < LeaseModulus /\ LeaseModulus \in Nat
    BY SizeAssumption DEF TypeOK, Leases
  <2>4. next_lease' = next_lease + 1 \/ next_lease' = 0
    BY <2>1, <2>3 DEF AfterLease
  <2>5. lease \in [Slots -> Nat]
    BY DEF TypeOK, Leases
  <2>6. QED
    BY <2>1, <2>2, <2>3, <2>4, <2>5
<1>2. ASSUME UNCHANGED next_lease, NEW s \in Slots, lease' = [lease EXCEPT ![s] = 0]
      PROVE  NumberInv'
  BY <1>2 DEF TypeOK, Leases
<1>3. CASE UNCHANGED <<lease, next_lease>>
  BY <1>3
<1>4. CASE DiscardSlot \/ AllocateSlot
  BY <1>4, <1>2 DEF DiscardSlot, AllocateSlot, tableVars, NextDrop, TypeOK
<1>5. CASE DiscardFails \/ AllocateFails \/ WorkDone
  BY <1>5, <1>3 DEF DiscardFails, AllocateFails, WorkDone, slotVars, tableVars
<1>6. CASE LoopStep
  BY <1>6, <1>3, LoopFrame DEF slotVars
<1>7. CASE \E i \in Index : ServeStep(i)
  BY <1>7, <1>1, <1>3, ServeFrame
<1>8. CASE UNCHANGED <<enabled, fd, lease, owner, tableVars, loopVars, pc, cur, grant, workVars>>
  BY <1>8, <1>3 DEF tableVars
<1>9. QED
  BY <1>4, <1>5, <1>6, <1>7, <1>8, StepKinds

(***************************************************************************)
(* After a failed revocation, and after the cleanup has begun.             *)
(***************************************************************************)

\* The failing discard ends a denial; nothing else starts one.
LEMMA FatalStep ==
  ASSUME TypeOK, WorkInv, FatalInv, [Next]_vars
  PROVE  FatalInv'
<1> USE DEF FatalInv
<1>1. CASE DiscardFails
  BY <1>1 DEF DiscardFails, DiscardTurn, WorkInv
<1>2. CASE DiscardSlot \/ AllocateSlot \/ AllocateFails \/ WorkDone
  BY <1>2 DEF DiscardSlot, AllocateSlot, AllocateFails, WorkDone, tableVars, ClearWork
<1>3. CASE LoopStep
  <2>1. fatal_revoke' = fatal_revoke
    BY <1>3, LoopFrame
  <2>2. grant' \in {grant, NoSlot} /\ op' \in {op, "CLOSE", "CLEANUP", "NONE"}
    <3>1. CASE PollStops \/ PollReady \/ ServeDone \/ LoopEnd
      BY <3>1 DEF PollStops, PollReady, ServeDone, LoopEnd, workVars
    <3>2. CASE ReplySent \/ ReplyFails \/ Cleanup \/ Exit
      BY <3>2 DEF ReplySent, ReplyFails, Cleanup, Exit, CloseClient, StartWork, ClearWork, workVars
    <3>3. CASE \E l \in Listeners : AcceptStep(l)
      BY <3>3 DEF AcceptStep, AcceptClient, AcceptRejects, AcceptExhausted, AcceptDone, workVars
    <3>4. QED
      BY <1>3, <3>1, <3>2, <3>3 DEF LoopStep
  <2>3. QED
    BY <2>1, <2>2
<1>4. CASE \E i \in Index : ServeStep(i)
  BY <1>4, ServeFrame
<1>5. CASE UNCHANGED <<enabled, fd, lease, owner, tableVars, loopVars, pc, cur, grant, workVars>>
  BY <1>5 DEF tableVars, workVars
<1>6. QED
  BY <1>1, <1>2, <1>3, <1>4, <1>5, StepKinds

\* Nobody is accepted once the daemon cleans up.
LEMMA CleanupStep ==
  ASSUME TypeOK, WorkInv, CleanupInv, [Next]_vars
  PROVE  CleanupInv'
<1> USE DEF CleanupInv
<1>1. CASE DiscardFails
  BY <1>1 DEF DiscardFails, DiscardTurn
<1>2. CASE DiscardSlot \/ AllocateSlot \/ AllocateFails
  BY <1>2 DEF DiscardSlot, AllocateSlot, AllocateFails, tableVars, DiscardTurn, FillTurn
<1>3. CASE WorkDone
  BY <1>3 DEF WorkDone, AfterWork, ClearWork
<1>4. CASE LoopStep
  <2>1. CASE PollStops \/ PollReady \/ ServeDone \/ LoopEnd
    BY <2>1 DEF PollStops, PollReady, ServeDone, LoopEnd, tableVars, workVars
  <2>2. CASE ReplySent
    BY <2>2 DEF ReplySent, tableVars, workVars
  <2>3. CASE ReplyFails
    BY <2>3 DEF ReplyFails, CloseClient, StartWork
  <2>4. CASE Cleanup
    BY <2>4 DEF Cleanup
  <2>5. CASE Exit
    BY <2>5 DEF Exit, tableVars
  <2>6. CASE \E l \in Listeners : AcceptStep(l)
    BY <2>6 DEF AcceptStep, AcceptClient, AcceptRejects, AcceptExhausted, AcceptDone, Accepting,
       workVars, WorkInv, tableVars
  <2>7. QED
    BY <1>4, <2>1, <2>2, <2>3, <2>4, <2>5, <2>6 DEF LoopStep
<1>5. CASE \E i \in Index : ServeStep(i)
  BY <1>5 DEF ServeStep, ServeEnd, ServeNoEffect, ServeAcquire, ServeRelease, ServeFree,
     ServeAllow, ServeDeny, ServeRevoke, ServeResize, ServeRefill, Request, Turn, ReplyWith,
     CloseClient, StartWork, workVars, WorkInv
<1>6. CASE UNCHANGED <<enabled, fd, lease, owner, tableVars, loopVars, pc, cur, grant, workVars>>
  BY <1>6 DEF tableVars, workVars
<1>7. QED
  BY <1>1, <1>2, <1>3, <1>4, <1>5, <1>6, StepKinds

\* The poll snapshot names open connections, except the one being answered.
LEMMA TodoStep ==
  ASSUME TypeOK, WorkInv, TodoInv, [Next]_vars
  PROVE  TodoInv'
<1> USE IndexFacts DEF TodoInv
<1>1. CASE DiscardFails
  BY <1>1 DEF DiscardFails, DiscardTurn, loopVars
<1>2. CASE DiscardSlot \/ AllocateSlot \/ AllocateFails
  BY <1>2 DEF DiscardSlot, AllocateSlot, AllocateFails, tableVars, loopVars, DiscardTurn, FillTurn
<1>3. CASE WorkDone
  BY <1>3 DEF WorkDone, AfterWork, ClearWork, loopVars
<1>4. CASE LoopStep
  <2>1. CASE PollStops \/ ServeDone \/ LoopEnd
    BY <2>1 DEF PollStops, ServeDone, LoopEnd, tableVars, workVars, loopVars
  <2>2. CASE PollReady
    <3>1. PICK senders \in SUBSET Connected : todo' = senders \cup HungUp
      BY <2>2 DEF PollReady
    <3>2. \A i \in todo' : client[i] # NoPeer
      BY <3>1 DEF Connected, HungUp
    <3>3. QED
      BY <2>2, <3>2 DEF PollReady, tableVars, workVars, Connected, HungUp, TypeOK
  <2>3. CASE ReplySent
    BY <2>3 DEF ReplySent, tableVars, workVars, loopVars, TypeOK
  <2>4. CASE ReplyFails
    BY <2>4 DEF ReplyFails, CloseClient, StartWork, loopVars, TypeOK
  <2>5. CASE Cleanup \/ Exit
    BY <2>5 DEF Cleanup, Exit, tableVars, loopVars, StartWork, ClearWork
  <2>6. CASE \E l \in Listeners : AcceptStep(l)
    BY <2>6 DEF AcceptStep, AcceptClient, AcceptRejects, AcceptExhausted, AcceptDone, Accepting,
       workVars, tableVars
  <2>7. QED
    BY <1>4, <2>1, <2>2, <2>3, <2>4, <2>5, <2>6 DEF LoopStep
<1>5. CASE \E i \in Index : ServeStep(i)
  <2>1. PICK i \in Index : ServeStep(i)
    BY <1>5
  <2>2. /\ pc = "serve" /\ todo' = todo \ {i}
        /\ (cur' = i /\ client' = client) \/ ServeEnd(i)
    BY <2>1, ServeFrame
  <2>3. CASE ServeEnd(i)
    BY <2>2, <2>3 DEF ServeEnd, CloseClient, StartWork, TypeOK
  <2>4. CASE cur' = i /\ client' = client
    <3>1. pc' \in {"work", "reply"} /\ op' \notin {"CLEANUP", "CLOSE"}
      BY <2>1, <2>2, <2>4 DEF ServeStep, ServeEnd, ServeNoEffect, ServeAcquire, ServeRelease,
         ServeFree, ServeAllow, ServeDeny, ServeRevoke, ServeResize, ServeRefill, ReplyWith,
         CloseClient, StartWork, workVars, WorkInv
    <3>2. QED
      BY <2>2, <2>4, <3>1
  <2>5. QED
    BY <2>2, <2>3, <2>4
<1>6. CASE UNCHANGED <<enabled, fd, lease, owner, tableVars, loopVars, pc, cur, grant, workVars>>
  BY <1>6 DEF tableVars, workVars, loopVars
<1>7. QED
  BY <1>1, <1>2, <1>3, <1>4, <1>5, <1>6, StepKinds

(***************************************************************************)
(* Whose leases there are.                                                 *)
(***************************************************************************)

\* close_client recycles every lease of the connection it drops.
LEMMA CloseKeepsDenyInv ==
  ASSUME TypeOK, WorkInv, FileInv, DenyInv, pc # "work", NEW i \in Index, CloseClient(i),
         UNCHANGED <<slotVars, allowed, fatal_revoke>>
  PROVE  DenyInv'
<1> SUFFICES ASSUME NEW s \in Slots, lease[s] # 0, ~fatal_revoke
             PROVE  \/ s \in drop'
                    \/ /\ owner[s] \in Index /\ client'[owner[s]] # NoPeer
                       /\ UidOf[client'[owner[s]]] \in allowed
  BY DEF DenyInv, LeasedSlots, slotVars
<1>1. owner[s] \in Index /\ client[owner[s]] # NoPeer /\ UidOf[client[owner[s]]] \in allowed
  BY DEF DenyInv, LeasedSlots, WorkInv
<1>2. CASE owner[s] = i
  BY <1>2 DEF CloseClient, StartWork, LeasesOf, FileInv
<1>3. CASE owner[s] # i
  BY <1>1, <1>3 DEF CloseClient, TypeOK
<1>4. QED
  BY <1>2, <1>3

\* A lease belongs to an allowed connection until it is about to be discarded.
LEMMA DenyStep ==
  ASSUME TypeOK, WorkInv, FileInv, TodoInv, DenyInv, [Next]_vars
  PROVE  DenyInv'
<1> USE DEF LeasedSlots
<1>1. CASE DiscardFails
  BY <1>1 DEF DiscardFails, DenyInv
<1>2. CASE DiscardSlot
  BY <1>2 DEF DiscardSlot, NextDrop, tableVars, TypeOK, DenyInv
<1>3. CASE AllocateSlot
  BY <1>3 DEF AllocateSlot, tableVars, TypeOK, DenyInv
<1>4. CASE AllocateFails
  BY <1>4 DEF AllocateFails, FillTurn, DiscardTurn, slotVars, tableVars, DenyInv
<1>5. CASE WorkDone
  BY <1>5 DEF WorkDone, DenyInv
<1>6. CASE LoopStep
  <2>1. CASE PollStops \/ PollReady \/ ServeDone \/ LoopEnd \/ ReplySent
    BY <2>1 DEF PollStops, PollReady, ServeDone, LoopEnd, ReplySent, slotVars, tableVars, workVars, DenyInv
  <2>2. CASE ReplyFails
    BY <2>2, CloseKeepsDenyInv DEF ReplyFails, WorkInv
  <2>3. CASE Cleanup
    BY <2>3 DEF Cleanup, StartWork, CleanupSlots, slotVars, DenyInv
  <2>4. CASE Exit
    BY <2>4 DEF Exit, ClearWork, slotVars, tableVars, DenyInv
  <2>5. ASSUME NEW l \in Listeners, AcceptClient(l) PROVE DenyInv'
    <3>1. PICK i \in Index : FreeEntry(l, i) /\ client' = [client EXCEPT ![i] = Head(backlog[l])]
      BY <2>5 DEF AcceptClient
    <3>2. client[i] = NoPeer
      BY <3>1 DEF FreeEntry
    <3>3. UNCHANGED <<slotVars, allowed, fatal_revoke, drop>>
      BY <2>5 DEF AcceptClient, workVars
    <3>4. QED
      BY <3>1, <3>2, <3>3 DEF slotVars, DenyInv, TypeOK
  <2>6. ASSUME NEW l \in Listeners, AcceptRejects(l) \/ AcceptExhausted(l) \/ AcceptDone(l)
        PROVE  DenyInv'
    BY <2>6 DEF AcceptRejects, AcceptExhausted, AcceptDone, slotVars, tableVars, workVars, DenyInv
  <2>7. QED
    BY <1>6, <2>1, <2>2, <2>3, <2>4, <2>5, <2>6 DEF LoopStep, AcceptStep
<1>7. ASSUME NEW i \in Index, ServeStep(i) PROVE DenyInv'
  <2>1. /\ pc = "serve" /\ ~fatal_revoke /\ i \in todo /\ drop = {}
        /\ UNCHANGED <<enabled, fd, live, fatal_revoke>>
    BY <1>7, ServeFrame DEF WorkInv
  <2>2. CASE ServeEnd(i)
    BY <2>1, <2>2, CloseKeepsDenyInv DEF ServeEnd
  <2>3. CASE ServeAcquire(i)
    <3>1. client' = client /\ allowed' = allowed /\ UidOf[client[i]] \in allowed
      BY <2>3 DEF ServeAcquire, MayAcquire, Request
    <3>2. PICK s \in Slots : lease' = [lease EXCEPT ![s] = next_lease]
                             /\ owner' = [owner EXCEPT ![s] = i]
      BY <2>3 DEF ServeAcquire
    <3>3. client[i] # NoPeer
      BY <2>1 DEF TodoInv
    <3>4. QED
      BY <2>1, <3>1, <3>2, <3>3 DEF DenyInv, TypeOK
  <2>4. CASE ServeDeny(i)
    <3>1. PICK u \in Uids : allowed' = allowed \ {u} /\ StartWork("DENY", LeasesOfUid(u), {}, 0)
      BY <2>4 DEF ServeDeny
    <3>2. client' = client /\ UNCHANGED slotVars
      BY <2>4 DEF ServeDeny, Request
    <3>3. QED
      BY <2>1, <3>1, <3>2 DEF DenyInv, LeasesOfUid, StartWork, slotVars
  <2>5. CASE ServeAllow(i)
    BY <2>1, <2>5 DEF ServeAllow, Request, slotVars, DenyInv
  <2>6. CASE \/ ServeNoEffect(i) \/ ServeRelease(i) \/ ServeFree(i)
             \/ ServeRevoke(i) \/ ServeResize(i) \/ ServeRefill(i)
    <3>1. client' = client /\ allowed' = allowed /\ UNCHANGED slotVars
      BY <2>6 DEF ServeNoEffect, ServeRelease, ServeFree, ServeRevoke, ServeResize, ServeRefill, Request
    <3>2. QED
      BY <2>1, <3>1 DEF slotVars, DenyInv
  <2>7. QED
    BY <1>7, <2>2, <2>3, <2>4, <2>5, <2>6 DEF ServeStep
<1>8. CASE UNCHANGED <<enabled, fd, lease, owner, tableVars, loopVars, pc, cur, grant, workVars>>
  BY <1>8 DEF tableVars, workVars, DenyInv
<1>9. QED
  BY <1>1, <1>2, <1>3, <1>4, <1>5, <1>6, <1>7, <1>8, StepKinds

(***************************************************************************)
(* The pool.                                                               *)
(***************************************************************************)

\* Slots are enabled or disabled, and an enabled one is leased or idle.
LEMMA PoolSets ==
  ASSUME TypeOK, FileInv
  PROVE  /\ EnabledSlots \in SUBSET Slots /\ DisabledSlots = Slots \ EnabledSlots
         /\ LeasedSlots \subseteq EnabledSlots /\ IdleSlots = EnabledSlots \ LeasedSlots
         /\ Cardinality(Slots) = MaxSlots
         /\ Cardinality(DisabledSlots) = MaxSlots - Cardinality(EnabledSlots)
         /\ Cardinality(IdleSlots) = Cardinality(EnabledSlots) - Cardinality(LeasedSlots)
         /\ Cardinality(LeasedSlots) \in Nat
<1>1. /\ EnabledSlots \in SUBSET Slots /\ DisabledSlots = Slots \ EnabledSlots
      /\ LeasedSlots \subseteq EnabledSlots /\ IdleSlots = EnabledSlots \ LeasedSlots
      /\ LeasedSlots \in SUBSET Slots
  BY DEF EnabledSlots, DisabledSlots, LeasedSlots, IdleSlots, FileInv, TypeOK
<1>2. Cardinality(Slots) = MaxSlots
  <2>1. 0 \in Int /\ MaxSlots - 1 \in Int
    BY SizeAssumption
  <2>2. Cardinality(Slots) = IF 0 > MaxSlots - 1 THEN 0 ELSE MaxSlots - 1 - 0 + 1
    BY <2>1, FS_Interval DEF Slots
  <2>3. QED
    BY <2>2, SizeAssumption
<1>3. Slots \in SUBSET Slots
  OBVIOUS
<1>4. Cardinality(DisabledSlots) = MaxSlots - Cardinality(EnabledSlots)
  BY <1>1, <1>2, <1>3, DifferenceCount
<1>5. Cardinality(IdleSlots) = Cardinality(EnabledSlots) - Cardinality(LeasedSlots)
  BY <1>1, DifferenceCount
<1>6. Cardinality(LeasedSlots) \in Nat
  BY <1>1, SlotSetsAreFinite
<1>7. QED
  BY <1>1, <1>2, <1>4, <1>5, <1>6

\* A handler that neither grows, shrinks nor frees the pool leaves its count.
LEMMA SameCount ==
  ASSUME CountInv, fatal_revoke \/ op \notin {"SHRINK", "FREE"},
         UNCHANGED <<enabled, capacity, fatal_revoke>>,
         op' \notin {"SHRINK", "FREE", "GROW"}, target' \in {target, 0}
  PROVE  CountInv'
BY SizeAssumption DEF CountInv, EnabledSlots

\* resize_pool starts with as many slots to add or to give up as it needs.
LEMMA ResizeCount ==
  ASSUME TypeOK, WorkInv, FileInv, CountInv, NEW i \in Index, ServeResize(i)
  PROVE  CountInv'
<1>1. pc = "serve" /\ ~fatal_revoke /\ UNCHANGED <<enabled, capacity, fatal_revoke>>
  BY ServeFrame DEF ServeStep
<1>2. Cardinality(EnabledSlots) = capacity /\ capacity <= MaxCapacity /\ capacity \in Nat
  BY <1>1 DEF WorkInv, CountInv, TypeOK
<1>3. PICK n \in 0 .. MaxSlots :
        /\ n <= MaxCapacity
        /\ n >= Cardinality(LeasedSlots)
        /\ IF n > capacity
           THEN StartWork("GROW", {}, Growth(n - capacity), n)
           ELSE StartWork("SHRINK", Shrinkage(capacity - n), {}, n)
  BY DEF ServeResize
<1>4. n \in Nat /\ MaxSlots \in Nat /\ MaxCapacity \in Nat
  BY <1>3, SizeAssumption
<1>5. EnabledSlots' = EnabledSlots
  BY <1>1 DEF EnabledSlots
<1>6. CASE n > capacity
  <2>1. /\ op' = "GROW" /\ fill' = Growth(n - capacity) /\ added' = {} /\ target' = n
    BY <1>3, <1>6 DEF StartWork
  <2>2. n - capacity \in Nat /\ n - capacity <= Cardinality(DisabledSlots)
    BY <1>2, <1>3, <1>4, <1>6, PoolSets
  <2>3. Growth(n - capacity) \subseteq DisabledSlots /\ Cardinality(Growth(n - capacity)) = n - capacity
    BY <2>2, GrowthCount
  <2>4. added' \cap fill' = {} /\ (added' \cup fill') \cap EnabledSlots' = {}
    BY <2>1, <2>3, <1>5, PoolSets
  <2>5. Cardinality(added') + Cardinality(fill') = target' - capacity'
    BY <2>1, <2>3, <1>1, <1>2, <1>4, FS_EmptySet
  <2>6. QED
    BY <2>1, <2>4, <2>5, <1>1, <1>2, <1>3, <1>5 DEF CountInv
<1>7. CASE ~(n > capacity)
  <2>1. op' = "SHRINK" /\ drop' = Shrinkage(capacity - n) /\ target' = n
    BY <1>3, <1>7 DEF StartWork
  <2>2. capacity - n \in Nat /\ capacity - n <= Cardinality(IdleSlots)
    BY <1>2, <1>3, <1>4, <1>7, PoolSets
  <2>3. Shrinkage(capacity - n) \subseteq IdleSlots /\ Cardinality(Shrinkage(capacity - n)) = capacity - n
    BY <2>2, ShrinkageCount
  <2>4. drop' \subseteq EnabledSlots'
    BY <2>1, <2>3, <1>5, PoolSets
  <2>5. Cardinality(EnabledSlots \ drop') = capacity - (capacity - n)
    <3>1. drop' \in SUBSET EnabledSlots /\ EnabledSlots \in SUBSET Slots
      BY <2>4, <1>5, PoolSets
    <3>2. Cardinality(EnabledSlots \ drop') = Cardinality(EnabledSlots) - Cardinality(drop')
      BY <3>1, DifferenceCount
    <3>3. QED
      BY <3>2, <2>1, <2>3, <1>2
  <2>6. Cardinality(EnabledSlots' \ drop') = target'
    BY <2>1, <2>5, <1>2, <1>4, <1>5
  <2>7. QED
    BY <2>1, <2>4, <2>6, <1>1, <1>2, <1>3 DEF CountInv
<1>8. QED
  BY <1>6, <1>7

\* Slots the pool gives up are disabled one by one as they are discarded.
LEMMA DiscardCount ==
  ASSUME TypeOK, CountInv, DiscardSlot
  PROVE  CountInv'
<1>1. PICK s \in Slots :
        /\ s \in drop /\ drop' = drop \ {s}
        /\ enabled' = [enabled EXCEPT ![s] = @ /\ op \notin {"FREE", "SHRINK"}]
        /\ fill' = IF Recycles THEN fill \cup {s} ELSE fill
  BY DEF DiscardSlot, TypeOK
<1>2. UNCHANGED <<capacity, fatal_revoke, op, added, target>>
  BY DEF DiscardSlot, tableVars
<1>3. CASE op = "SHRINK" \/ op = "FREE"
  <2>1. EnabledSlots' = EnabledSlots \ {s}
    BY <1>1, <1>3 DEF EnabledSlots, TypeOK
  <2>2. s \in EnabledSlots => EnabledSlots' \ drop' = EnabledSlots \ drop
    BY <2>1, <1>1
  <2>3. EnabledSlots \ drop \subseteq EnabledSlots' \ drop' /\ EnabledSlots' \ drop' \subseteq EnabledSlots \ drop
    BY <2>1, <1>1
  <2>4. EnabledSlots' \ drop' = EnabledSlots \ drop
    BY <2>3
  <2>5. drop \subseteq EnabledSlots => drop' \subseteq EnabledSlots'
    BY <2>1, <1>1
  <2>6. EnabledSlots \subseteq drop => EnabledSlots' \subseteq drop'
    BY <2>1, <1>1
  <2>7. QED
    BY <2>4, <2>5, <2>6, <1>2, <1>3 DEF CountInv
<1>4. CASE op # "SHRINK" /\ op # "FREE"
  <2>1. EnabledSlots' = EnabledSlots
    BY <1>1, <1>4 DEF EnabledSlots, TypeOK
  <2>2. op = "GROW" => fill' = fill
    BY <1>1 DEF Recycles
  <2>3. QED
    BY <2>1, <2>2, <1>2, <1>4 DEF CountInv
<1>5. QED
  BY <1>3, <1>4

\* A slot the pool grows into is counted as added instead of as to be filled.
LEMMA AllocateCount ==
  ASSUME TypeOK, CountInv, AllocateSlot
  PROVE  CountInv'
<1>1. PICK s \in Slots :
        /\ s \in fill /\ fill' = fill \ {s}
        /\ added' = IF op = "GROW" THEN added \cup {s} ELSE added
  BY DEF AllocateSlot, TypeOK
<1>2. UNCHANGED <<enabled, capacity, fatal_revoke, op, drop, target>> /\ EnabledSlots' = EnabledSlots
  BY DEF AllocateSlot, tableVars, EnabledSlots
<1>3. CASE op = "GROW"
  <2>1. s \notin added /\ added' = added \cup {s}
    BY <1>1, <1>3 DEF CountInv
  <2>2. IsFiniteSet(added) /\ IsFiniteSet(fill) /\ Cardinality(added) \in Int /\ Cardinality(fill) \in Int
    BY SlotSetsAreFinite DEF TypeOK
  <2>3. Cardinality(added') = Cardinality(added) + 1
    BY <2>1, <2>2, FS_AddElement
  <2>4. Cardinality(fill') = Cardinality(fill) - 1
    BY <1>1, <2>2, FS_RemoveElement
  <2>5. Cardinality(added') + Cardinality(fill') = Cardinality(added) + Cardinality(fill)
    BY <2>2, <2>3, <2>4
  <2>6. added' \cap fill' = {} /\ added' \cup fill' = added \cup fill
    BY <1>1, <1>3, <2>1 DEF CountInv
  <2>7. QED
    BY <2>5, <2>6, <1>2, <1>3 DEF CountInv
<1>4. CASE op # "GROW"
  BY <1>2, <1>4 DEF CountInv
<1>5. QED
  BY <1>3, <1>4

\* When the work is done the pool is as large as it was meant to be.
LEMMA WorkDoneCount ==
  ASSUME TypeOK, CountInv, WorkDone
  PROVE  CountInv'
<1>1. /\ drop = {} /\ fill = {} /\ op' = "NONE" /\ target' = 0 /\ fatal_revoke' = fatal_revoke
      /\ capacity' = IF op \in {"GROW", "SHRINK", "FREE"} THEN target ELSE capacity
      /\ enabled' = [s \in Slots |-> enabled[s] \/ (op = "GROW" /\ s \in added)]
  BY DEF WorkDone, ClearWork
<1>2. EnabledSlots' = IF op = "GROW" THEN EnabledSlots \cup added ELSE EnabledSlots
  BY <1>1 DEF EnabledSlots, TypeOK
<1>3. capacity' <= MaxCapacity /\ target' <= MaxCapacity
  BY <1>1, SizeAssumption DEF CountInv
<1>4. ASSUME ~fatal_revoke PROVE Cardinality(EnabledSlots') = capacity'
  <2>1. CASE op = "GROW"
    <3>1. EnabledSlots \in SUBSET Slots /\ added \in SUBSET Slots /\ EnabledSlots \cap added = {}
      BY <2>1 DEF EnabledSlots, TypeOK, CountInv
    <3>2. Cardinality(EnabledSlots \cup added) = Cardinality(EnabledSlots) + Cardinality(added)
      BY <3>1, DisjointCount
    <3>3. Cardinality(EnabledSlots) = capacity /\ Cardinality(added) + Cardinality(fill) = target - capacity
      BY <1>4, <2>1 DEF CountInv
    <3>4. Cardinality(fill) = 0
      BY <1>1, FS_EmptySet
    <3>5. Cardinality(added) \in Int /\ capacity \in Int /\ target \in Int
      BY <3>1, SlotSetsAreFinite, SizeAssumption DEF TypeOK
    <3>6. QED
      BY <1>1, <1>2, <2>1, <3>2, <3>3, <3>4, <3>5
  <2>2. CASE op = "SHRINK"
    <3>1. EnabledSlots \ drop = EnabledSlots
      BY <1>1
    <3>2. QED
      BY <1>1, <1>2, <1>4, <2>2, <3>1 DEF CountInv
  <2>3. CASE op = "FREE"
    <3>1. EnabledSlots = {} /\ target = 0
      BY <1>1, <1>4, <2>3 DEF CountInv
    <3>2. QED
      BY <1>1, <1>2, <2>3, <3>1, FS_EmptySet
  <2>4. CASE op \notin {"GROW", "SHRINK", "FREE"}
    BY <1>1, <1>2, <1>4, <2>4 DEF CountInv
  <2>5. QED
    BY <2>1, <2>2, <2>3, <2>4
<1>5. QED
  BY <1>1, <1>3, <1>4 DEF CountInv

\* The pool's count, through every step.
LEMMA CountStep ==
  ASSUME TypeOK, WorkInv, FileInv, CountInv, [Next]_vars
  PROVE  CountInv'
<1>1. CASE DiscardFails
  BY <1>1 DEF DiscardFails, slotVars, CountInv, EnabledSlots
<1>2. CASE AllocateFails
  BY <1>2 DEF AllocateFails, slotVars, tableVars, CountInv, EnabledSlots
<1>3. CASE LoopStep
  <2>1. UNCHANGED <<enabled, capacity, fatal_revoke>>
    BY <1>3, LoopFrame DEF slotVars
  <2>2. op \notin {"SHRINK", "FREE", "GROW"}
    BY <1>3 DEF LoopStep, PollStops, PollReady, ServeDone, LoopEnd, ReplySent, ReplyFails, Cleanup,
       Exit, AcceptStep, AcceptClient, AcceptRejects, AcceptExhausted, AcceptDone, Accepting, WorkInv
  <2>3. op' \in {op, "CLOSE", "CLEANUP", "NONE"} /\ target' \in {target, 0}
    <3>1. CASE PollStops \/ PollReady \/ ServeDone \/ LoopEnd
      BY <3>1 DEF PollStops, PollReady, ServeDone, LoopEnd, workVars
    <3>2. CASE ReplySent \/ ReplyFails \/ Cleanup \/ Exit
      BY <3>2 DEF ReplySent, ReplyFails, Cleanup, Exit, CloseClient, StartWork, ClearWork, workVars
    <3>3. CASE \E l \in Listeners : AcceptStep(l)
      BY <3>3 DEF AcceptStep, AcceptClient, AcceptRejects, AcceptExhausted, AcceptDone, workVars
    <3>4. QED
      BY <1>3, <3>1, <3>2, <3>3 DEF LoopStep
  <2>4. QED
    BY <2>1, <2>2, <2>3, SameCount
<1>4. ASSUME NEW i \in Index, ServeStep(i) PROVE CountInv'
  <2>1. pc = "serve" /\ ~fatal_revoke /\ UNCHANGED <<enabled, capacity, fatal_revoke>>
    BY <1>4, ServeFrame
  <2>2. op = "NONE"
    BY <2>1 DEF WorkInv
  <2>3. CASE ServeFree(i)
    <3>1. op' = "FREE" /\ drop' = Slots /\ target' = 0
      BY <2>3 DEF ServeFree, StartWork
    <3>2. QED
      BY <2>1, <3>1, SizeAssumption DEF CountInv, EnabledSlots
  <2>4. CASE \/ ServeEnd(i) \/ ServeNoEffect(i) \/ ServeAcquire(i) \/ ServeRelease(i)
             \/ ServeAllow(i) \/ ServeDeny(i) \/ ServeRevoke(i) \/ ServeRefill(i)
    <3>1. op' \notin {"SHRINK", "FREE", "GROW"} /\ target' \in {target, 0}
      BY <2>2, <2>4 DEF ServeEnd, ServeNoEffect, ServeAcquire, ServeRelease, ServeAllow, ServeDeny,
         ServeRevoke, ServeRefill, CloseClient, ReplyWith, StartWork, workVars
    <3>2. QED
      BY <2>1, <2>2, <3>1, SameCount
  <2>5. QED
    BY <1>4, <2>3, <2>4, ResizeCount DEF ServeStep
<1>5. CASE UNCHANGED <<enabled, fd, lease, owner, tableVars, loopVars, pc, cur, grant, workVars>>
  BY <1>5 DEF tableVars, workVars, CountInv, EnabledSlots
<1>6. QED
  BY <1>1, <1>2, <1>3, <1>4, <1>5, StepKinds, DiscardCount, AllocateCount, WorkDoneCount

(***************************************************************************)
(* The theorems.                                                           *)
(***************************************************************************)

\* The state in which resize_pool is called for the first time.
LEMMA InitPoolInv == Init => PoolInv
<1> SUFFICES ASSUME Init PROVE PoolInv
  OBVIOUS
<1>1. NumberInv /\ FatalInv /\ DenyInv /\ CleanupInv /\ TodoInv
  BY DEF Init, NumberInv, LeaseNumbersAreUnique, LeasedSlots, FatalInv, DenyInv, CleanupInv, TodoInv
<1>2. CountInv
  <2>1. EnabledSlots = {} /\ Cardinality({}) = 0
    BY FS_EmptySet DEF Init, EnabledSlots
  <2>2. InitialSlots \in Nat /\ InitialSlots - 1 \in Int /\ 0 \in Int
    BY SizeAssumption
  <2>3. Cardinality(0 .. InitialSlots - 1)
          = IF 0 > InitialSlots - 1 THEN 0 ELSE InitialSlots - 1 - 0 + 1
    BY <2>2, FS_Interval
  <2>4. Cardinality(0 .. InitialSlots - 1) = InitialSlots
    BY <2>2, <2>3
  <2>5. QED
    BY <2>1, <2>2, <2>4, SizeAssumption DEF Init, CountInv
<1>3. QED
  BY <1>1, <1>2 DEF PoolInv

\* The lease table's invariant holds in every reachable state.
THEOREM PoolInvariant == Spec => [](IInv /\ PoolInv)
<1>1. Init => IInv /\ PoolInv
  BY InitIInv, InitPoolInv
<1>2. IInv /\ PoolInv /\ [Next]_vars => (IInv /\ PoolInv)'
  BY NextKeepsIInv, NumberStep, FatalStep, CleanupStep, TodoStep, DenyStep, CountStep DEF IInv, PoolInv
<1>3. QED
  BY <1>1, <1>2, PTL DEF Spec

\* Two live leases never have one number: RELEASE and REVOKE cannot hit another
\* tenant's slot, however often the 64-bit counter is used up.
THEOREM NumbersAreUnique == Spec => []LeaseNumbersAreUnique
<1>1. PoolInv => LeaseNumbersAreUnique
  BY DEF PoolInv, NumberInv
<1>2. QED
  BY <1>1, PoolInvariant, PTL

\* Between requests the pool is as large as capacity says, within max_bytes, and
\* no disabled slot keeps a file.
THEOREM PoolIsAccounted == Spec => []PoolAccounting
<1>1. ASSUME IInv, PoolInv PROVE PoolAccounting
  BY <1>1 DEF IInv, PoolInv, WorkInv, CountInv, EnabledSlots, PoolAccounting
<1>2. QED
  BY <1>1, PoolInvariant, PTL

\* After a normal stop no process reaches any page.
THEOREM StopRevokes == Spec => []StoppedMeansRevoked
<1>1. ASSUME IInv, PoolInv PROVE StoppedMeansRevoked
  <2> SUFFICES ASSUME pc = "stopped", ~fatal_revoke, NEW p \in Peers, NEW n \in held[p] \cap live
               PROVE  FALSE
    BY DEF StoppedMeansRevoked
  <2>1. PICK s \in Slots : fd[s] = n
    BY <1>1 DEF IInv, FileInv
  <2>2. drop = {}
    BY <1>1 DEF IInv, WorkInv
  <2>3. owner[s] \in Index /\ client[owner[s]] = p
    BY <1>1, <2>1, <2>2 DEF IInv, OwnerInv
  <2>4. QED
    BY <1>1, <2>3, PeerAssumption DEF PoolInv, CleanupInv
<1>2. QED
  BY <1>1, PoolInvariant, PTL

\* DENY refills a slot only when no process of a denied uid has pages left.
THEOREM DenyRevokesFirst == Spec => RevokeBeforeRefill
<1>1. ASSUME IInv, PoolInv, [Next]_vars,
             NEW s \in Slots, op = "DENY", fd[s] = NoInode, fd'[s] # NoInode,
             NEW p \in Peers, UidOf[p] \notin allowed
      PROVE  held[p] \cap live = {}
  <2>1. drop = {}
    <3>1. CASE AllocateSlot
      BY <1>1, <3>1 DEF AllocateSlot, FillTurn, DiscardTurn
    <3>2. CASE DiscardSlot
      BY <1>1, <3>2 DEF DiscardSlot, IInv, TypeOK
    <3>3. CASE UNCHANGED fd
      BY <1>1, <3>3
    <3>4. QED
      BY <1>1, <3>1, <3>2, <3>3, StepKinds, ServeFrame, LoopFrame
         DEF slotVars, DiscardFails, AllocateFails, WorkDone
  <2>2. ~fatal_revoke
    BY <1>1 DEF PoolInv, FatalInv
  <2> SUFFICES ASSUME NEW n \in held[p] \cap live PROVE FALSE
    OBVIOUS
  <2>3. PICK t \in Slots : fd[t] = n
    BY <1>1 DEF IInv, FileInv
  <2>4. lease[t] # 0
    BY <1>1, <2>3 DEF IInv, FileInv
  <2>5. owner[t] \in Index /\ client[owner[t]] = p
    BY <1>1, <2>1, <2>2, <2>3 DEF IInv, OwnerInv
  <2>6. QED
    BY <1>1, <2>1, <2>2, <2>4, <2>5 DEF PoolInv, DenyInv, LeasedSlots
<1>2. IInv /\ PoolInv /\ [Next]_vars =>
        [\A s \in Slots : op = "DENY" /\ fd[s] = NoInode /\ fd'[s] # NoInode =>
           \A p \in Peers : UidOf[p] \notin allowed => held[p] \cap live = {}]_vars
  BY <1>1
<1>3. QED
  BY <1>2, PoolInvariant, PTL DEF Spec, RevokeBeforeRefill

\* Once ftruncate has failed no slot is leased and no process gets a descriptor.
THEOREM NoGrantOnceFatal == Spec => NoGrantAfterFatalRevoke
<1>1. ASSUME IInv, PoolInv, [Next]_vars, fatal_revoke
      PROVE  \/ UNCHANGED vars
             \/ /\ \A s \in Slots : lease'[s] \in {0, lease[s]}
                /\ \A p \in Peers : held'[p] \subseteq held[p]
  <2>1. grant = NoSlot
    BY <1>1 DEF PoolInv, FatalInv
  <2>2. \A s \in Slots : lease'[s] \in {0, lease[s]}
    <3>1. CASE DiscardSlot \/ AllocateSlot
      BY <1>1, <3>1 DEF DiscardSlot, AllocateSlot, IInv, TypeOK
    <3>2. QED
      BY <1>1, <3>1, StepKinds, ServeFrame, LoopFrame DEF slotVars, DiscardFails, AllocateFails, WorkDone
  <2>3. \A p \in Peers : held'[p] \subseteq held[p]
    <3>1. CASE DiscardSlot \/ DiscardFails \/ AllocateSlot \/ AllocateFails \/ WorkDone
      BY <3>1 DEF DiscardSlot, DiscardFails, AllocateSlot, AllocateFails, WorkDone, peerVars
    <3>2. CASE \E i \in Index : ServeStep(i)
      BY <1>1, <3>2, ServeFrame
    <3>3. CASE LoopStep
      <4>1. CASE PollStops \/ PollReady \/ ServeDone \/ LoopEnd
        BY <4>1 DEF PollStops, PollReady, ServeDone, LoopEnd, peerVars
      <4>2. CASE ReplySent \/ ReplyFails \/ Cleanup \/ Exit
        BY <2>1, <4>2 DEF ReplySent, ReplyFails, Cleanup, Exit
      <4>3. CASE \E l \in Listeners : AcceptStep(l)
        BY <4>3 DEF AcceptStep, AcceptClient, AcceptRejects, AcceptExhausted, AcceptDone, peerVars
      <4>4. QED
        BY <3>3, <4>1, <4>2, <4>3 DEF LoopStep
    <3>4. CASE \E p \in Peers : PeerStep(p)
      BY <1>1, <3>4 DEF PeerStep, Connect, HangUp, Unmap, TruncateOwn, peerVars, IInv, TypeOK
    <3>5. CASE UNCHANGED vars
      BY <3>5 DEF vars
    <3>6. QED
      BY <1>1, <3>1, <3>2, <3>3, <3>4, <3>5 DEF Next, DaemonStep, LoopStep
  <2>4. QED
    BY <2>2, <2>3
<1>2. IInv /\ PoolInv /\ [Next]_vars =>
        [fatal_revoke => /\ \A s \in Slots : lease'[s] \in {0, lease[s]}
                         /\ \A p \in Peers : held'[p] \subseteq held[p]]_vars
  BY <1>1
<1>3. QED
  BY <1>2, PoolInvariant, PTL DEF Spec, NoGrantAfterFatalRevoke

=============================================================================
