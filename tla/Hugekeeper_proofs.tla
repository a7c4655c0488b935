-------------------------- MODULE Hugekeeper_proofs --------------------------
(***************************************************************************)
(* Machine-checked proofs about Hugekeeper, for every pool size, table     *)
(* size, lease modulus and population of processes.                        *)
(***************************************************************************)
EXTENDS Hugekeeper, TLAPS

(***************************************************************************)
(* Facts about the operators.                                              *)
(***************************************************************************)

\* A memfd the kernel creates is new: nobody has a descriptor of it.
LEMMA NewInodeIsFresh ==
  ASSUME FreeInodes # {}
  PROVE  /\ NewInode \in Inodes
         /\ \A s \in Slots : fd[s] # NewInode
         /\ \A p \in Peers : NewInode \notin held[p]
BY DEF FreeInodes, NewInode

\* The lease counter stays within its width.
LEMMA AfterLeaseType ==
  ASSUME NEW n \in Leases
  PROVE  AfterLease(n) \in Leases
BY SizeAssumption DEF AfterLease, Leases

\* Constants do what the table layout needs.
LEMMA IndexFacts ==
  /\ AdminIndex \subseteq Int /\ DataIndex \subseteq Int
  /\ Index = AdminIndex \cup DataIndex
  /\ NoIndex \notin Index /\ NoSlot \notin Slots
  /\ Slots \subseteq Nat
BY SizeAssumption DEF AdminIndex, DataIndex, Index, NoIndex, NoSlot, Slots

\* A process that receives a descriptor still holds only memory files.
LEMMA HeldExtended ==
  ASSUME NEW h \in [Peers -> SUBSET Inodes], NEW p, NEW n \in Inodes
  PROVE  [h EXCEPT ![p] = @ \cup {n}] \in [Peers -> SUBSET Inodes]
OBVIOUS

(***************************************************************************)
(* Initially.                                                              *)
(***************************************************************************)

\* The state main() has prepared when it calls resize_pool.
LEMMA InitIInv == Init => IInv
<1> SUFFICES ASSUME Init PROVE IInv
  OBVIOUS
<1>1. TypeOK
  <2>1. backlog \in [Listeners -> Seq(Peers)]
    BY DEF Init
  <2>2. fill \subseteq Slots
    BY SizeAssumption DEF Init, Slots
  <2>3. /\ capacity \in 0 .. MaxSlots /\ target \in 0 .. MaxSlots
        /\ next_lease \in Leases /\ 0 \in Leases /\ tries \in 0 .. AcceptBatch
    BY SizeAssumption DEF Init, Leases
  <2>4. pc \in PCs /\ op \in Ops
    BY DEF Init, PCs, Ops
  <2>5. QED
    BY <2>1, <2>2, <2>3, <2>4, PeerAssumption DEF Init, TypeOK
<1>2. WorkInv
  BY <1>1 DEF Init, WorkInv, TypeOK, Recycles
<1>3. FileInv
  BY DEF Init, FileInv
<1>4. OwnerInv /\ ExclusiveTenancy
  BY DEF Init, OwnerInv, ExclusiveTenancy
<1>5. QED
  BY <1>1, <1>2, <1>3, <1>4 DEF IInv

(***************************************************************************)
(* The processes' steps.                                                   *)
(***************************************************************************)

\* A step of a process; the invariant is kept.
LEMMA PeerKeepsIInv ==
  ASSUME IInv, NEW p \in Peers, PeerStep(p)
  PROVE  IInv'
<1> USE SizeAssumption, PeerAssumption DEF IInv
<1>1. CASE Connect(p)
  <2>1. TypeOK'
    <3>1. backlog' \in [Listeners -> Seq(Peers)]
      BY <1>1 DEF Connect, TypeOK, Listeners, ListenerOf
    <3>2. QED
      BY <1>1, <3>1 DEF Connect, TypeOK, daemonVars, slotVars, tableVars, loopVars, workVars
  <2>2. QED
    BY <1>1, <2>1 DEF Connect, daemonVars, slotVars, tableVars, loopVars, workVars,
       WorkInv, FileInv, OwnerInv, ExclusiveTenancy, Recycles
<1>2. CASE HangUp(p)
  BY <1>2 DEF HangUp, daemonVars, slotVars, tableVars, loopVars, workVars, TypeOK,
     WorkInv, FileInv, OwnerInv, ExclusiveTenancy, Recycles
<1>3. CASE Unmap(p)
  BY <1>3 DEF Unmap, daemonVars, slotVars, tableVars, loopVars, workVars, TypeOK,
     WorkInv, FileInv, OwnerInv, ExclusiveTenancy, Recycles
<1>4. CASE TruncateOwn(p)
  BY <1>4 DEF TruncateOwn, peerVars, tableVars, loopVars, workVars, TypeOK,
     WorkInv, FileInv, OwnerInv, ExclusiveTenancy, Recycles
<1>5. QED
  BY <1>1, <1>2, <1>3, <1>4 DEF PeerStep

(***************************************************************************)
(* The main loop.                                                          *)
(***************************************************************************)

\* A signal ends the main loop; the invariant is kept.
LEMMA PollStopsKeepsIInv ==
  ASSUME IInv, PollStops
  PROVE  IInv'
<1> USE SizeAssumption, PeerAssumption, IndexFacts DEF IInv, PollStops, slotVars, tableVars, loopVars, workVars, peerVars
<1>1. TypeOK'
  BY DEF TypeOK, PCs, Ops
<1>2. WorkInv'
  BY DEF TypeOK, WorkInv, FileInv, Recycles
<1>3. FileInv'
  BY DEF TypeOK, WorkInv, FileInv
<1>4. OwnerInv'
  BY DEF TypeOK, WorkInv, FileInv, OwnerInv
<1>5. ExclusiveTenancy'
  BY DEF TypeOK, WorkInv, FileInv, ExclusiveTenancy
<1>6. QED
  BY <1>1, <1>2, <1>3, <1>4, <1>5

\* poll reports events; the invariant is kept.
LEMMA PollReadyKeepsIInv ==
  ASSUME IInv, PollReady
  PROVE  IInv'
<1> USE SizeAssumption, PeerAssumption, IndexFacts DEF IInv, PollReady, Connected, HungUp, Listeners, slotVars, tableVars, loopVars, workVars, peerVars
<1>1. TypeOK'
  <2>1. PICK senders \in SUBSET Connected : todo' = senders \cup HungUp
    OBVIOUS
  <2>2. todo' \subseteq Index
    BY <2>1
  <2>3. wake' \subseteq Listeners
    OBVIOUS
  <2>4. tries' \in 0 .. AcceptBatch
    OBVIOUS
  <2>5. pc' \in PCs
    BY DEF PCs
  <2>6. QED
    BY <2>2, <2>3, <2>4, <2>5 DEF TypeOK
<1>2. WorkInv'
  BY DEF TypeOK, WorkInv, FileInv, Recycles
<1>3. FileInv'
  BY DEF TypeOK, WorkInv, FileInv
<1>4. OwnerInv'
  BY DEF TypeOK, WorkInv, FileInv, OwnerInv
<1>5. ExclusiveTenancy'
  BY DEF TypeOK, WorkInv, FileInv, ExclusiveTenancy
<1>6. QED
  BY <1>1, <1>2, <1>3, <1>4, <1>5

\* The client loop ends; the invariant is kept.
LEMMA ServeDoneKeepsIInv ==
  ASSUME IInv, ServeDone
  PROVE  IInv'
<1> USE SizeAssumption, PeerAssumption, IndexFacts DEF IInv, ServeDone, slotVars, tableVars, loopVars, workVars, peerVars
<1>1. TypeOK'
  BY DEF TypeOK, PCs, Ops
<1>2. WorkInv'
  BY DEF TypeOK, WorkInv, FileInv, Recycles
<1>3. FileInv'
  BY DEF TypeOK, WorkInv, FileInv
<1>4. OwnerInv'
  BY DEF TypeOK, WorkInv, FileInv, OwnerInv
<1>5. ExclusiveTenancy'
  BY DEF TypeOK, WorkInv, FileInv, ExclusiveTenancy
<1>6. QED
  BY <1>1, <1>2, <1>3, <1>4, <1>5

\* The iteration ends; the invariant is kept.
LEMMA LoopEndKeepsIInv ==
  ASSUME IInv, LoopEnd
  PROVE  IInv'
<1> USE SizeAssumption, PeerAssumption, IndexFacts DEF IInv, LoopEnd, slotVars, tableVars, loopVars, workVars, peerVars
<1>1. TypeOK'
  BY DEF TypeOK, PCs, Ops
<1>2. WorkInv'
  BY DEF TypeOK, WorkInv, FileInv, Recycles
<1>3. FileInv'
  BY DEF TypeOK, WorkInv, FileInv
<1>4. OwnerInv'
  BY DEF TypeOK, WorkInv, FileInv, OwnerInv
<1>5. ExclusiveTenancy'
  BY DEF TypeOK, WorkInv, FileInv, ExclusiveTenancy
<1>6. QED
  BY <1>1, <1>2, <1>3, <1>4, <1>5

(***************************************************************************)
(* Handlers.                                                               *)
(***************************************************************************)

\* End of file from a client: close_client; the invariant is kept.
LEMMA ServeEndKeepsIInv ==
  ASSUME IInv, NEW i \in Index, ServeEnd(i)
  PROVE  IInv'
<1> USE SizeAssumption, PeerAssumption, IndexFacts DEF IInv, ServeEnd, Turn, CloseClient, StartWork, LeasesOf, slotVars, tableVars, loopVars, workVars, peerVars
<1>1. TypeOK'
  <2>1. /\ drop' \subseteq Slots /\ fill' \subseteq Slots /\ added' \subseteq Slots
        /\ target' \in 0 .. MaxSlots /\ todo' \subseteq Index
    BY DEF TypeOK
  <2>2. pc' \in PCs /\ op' \in Ops
    BY DEF PCs, Ops
  <2>3. client' \in [Index -> Peers \cup {NoPeer}]
    BY DEF TypeOK
  <2>4. /\ link' \in [Peers -> {"none", "backlog", "open"}]
        /\ hungup' \in [Peers -> BOOLEAN]
    BY DEF TypeOK
  <2>5. QED
    BY <2>1, <2>2, <2>3, <2>4 DEF TypeOK
<1>2. WorkInv'
  BY DEF TypeOK, WorkInv, FileInv, Recycles
<1>3. FileInv'
  BY DEF TypeOK, WorkInv, FileInv
<1>4. OwnerInv'
  BY DEF TypeOK, WorkInv, FileInv, OwnerInv
<1>5. ExclusiveTenancy'
  BY DEF TypeOK, WorkInv, FileInv, ExclusiveTenancy
<1>6. QED
  BY <1>1, <1>2, <1>3, <1>4, <1>5

\* A request without effect; the invariant is kept.
LEMMA ServeNoEffectKeepsIInv ==
  ASSUME IInv, NEW i \in Index, ServeNoEffect(i)
  PROVE  IInv'
<1> USE SizeAssumption, PeerAssumption, IndexFacts DEF IInv, ServeNoEffect, Request, Turn, ReplyWith, slotVars, tableVars, loopVars, workVars, peerVars
<1>1. TypeOK'
  BY DEF TypeOK, PCs, Ops
<1>2. WorkInv'
  BY DEF TypeOK, WorkInv, FileInv, Recycles
<1>3. FileInv'
  BY DEF TypeOK, WorkInv, FileInv
<1>4. OwnerInv'
  BY DEF TypeOK, WorkInv, FileInv, OwnerInv
<1>5. ExclusiveTenancy'
  BY DEF TypeOK, WorkInv, FileInv, ExclusiveTenancy
<1>6. QED
  BY <1>1, <1>2, <1>3, <1>4, <1>5

\* ACQUIRE binds the first ready slot; the invariant is kept.
LEMMA ServeAcquireKeepsIInv ==
  ASSUME IInv, NEW i \in Index, ServeAcquire(i)
  PROVE  IInv'
<1> USE SizeAssumption, PeerAssumption, IndexFacts DEF IInv, ServeAcquire, Request, Turn, ReplyWith, FirstReady, MayAcquire, slotVars, tableVars, loopVars, workVars, peerVars
<1>1. TypeOK'
  <2>1. lease' \in [Slots -> Leases] /\ owner' \in [Slots -> Index \cup {NoIndex}]
    BY DEF TypeOK
  <2>2. next_lease' \in Leases
    BY AfterLeaseType DEF TypeOK
  <2>3. pc' \in PCs /\ grant' \in Slots /\ todo' \subseteq Index /\ cur' \in Index
    BY DEF PCs, TypeOK
  <2>4. QED
    BY <2>1, <2>2, <2>3 DEF TypeOK
<1>2. WorkInv'
  BY AfterLeaseType DEF TypeOK, WorkInv, FileInv, Recycles
<1>3. FileInv'
  BY AfterLeaseType DEF TypeOK, WorkInv, FileInv
<1>4. OwnerInv'
  <2>1. PICK t \in Slots : /\ lease[t] = 0
                           /\ owner' = [owner EXCEPT ![t] = i]
    OBVIOUS
  <2>2. SUFFICES ASSUME NEW s \in Slots, NEW p \in Peers, fd[s] \in held[p] \cap live
                 PROVE  \/ fatal_revoke \/ s \in drop
                        \/ owner'[s] \in Index /\ client[owner'[s]] = p
    BY DEF OwnerInv
  <2>3. lease[s] # 0
    BY <2>2 DEF FileInv
  <2>4. owner'[s] = owner[s]
    BY <2>1, <2>3 DEF TypeOK
  <2>5. QED
    BY <2>2, <2>4 DEF OwnerInv
<1>5. ExclusiveTenancy'
  BY AfterLeaseType DEF TypeOK, WorkInv, FileInv, ExclusiveTenancy
<1>6. QED
  BY <1>1, <1>2, <1>3, <1>4, <1>5

\* RELEASE starts a recycle; the invariant is kept.
LEMMA ServeReleaseKeepsIInv ==
  ASSUME IInv, NEW i \in Index, ServeRelease(i)
  PROVE  IInv'
<1> USE SizeAssumption, PeerAssumption, IndexFacts DEF IInv, ServeRelease, Request, Turn, StartWork, LeasesOf, slotVars, tableVars, loopVars, workVars, peerVars
<1>1. TypeOK'
  BY DEF TypeOK, PCs, Ops
<1>2. WorkInv'
  BY DEF TypeOK, WorkInv, FileInv, Recycles
<1>3. FileInv'
  BY DEF TypeOK, WorkInv, FileInv
<1>4. OwnerInv'
  BY DEF TypeOK, WorkInv, FileInv, OwnerInv
<1>5. ExclusiveTenancy'
  BY DEF TypeOK, WorkInv, FileInv, ExclusiveTenancy
<1>6. QED
  BY <1>1, <1>2, <1>3, <1>4, <1>5

\* FREE starts discarding the pool; the invariant is kept.
LEMMA ServeFreeKeepsIInv ==
  ASSUME IInv, NEW i \in Index, ServeFree(i)
  PROVE  IInv'
<1> USE SizeAssumption, PeerAssumption, IndexFacts DEF IInv, ServeFree, Request, Turn, StartWork, slotVars, tableVars, loopVars, workVars, peerVars
<1>1. TypeOK'
  BY DEF TypeOK, PCs, Ops
<1>2. WorkInv'
  BY DEF TypeOK, WorkInv, FileInv, Recycles
<1>3. FileInv'
  BY DEF TypeOK, WorkInv, FileInv
<1>4. OwnerInv'
  BY DEF TypeOK, WorkInv, FileInv, OwnerInv
<1>5. ExclusiveTenancy'
  BY DEF TypeOK, WorkInv, FileInv, ExclusiveTenancy
<1>6. QED
  BY <1>1, <1>2, <1>3, <1>4, <1>5

\* ALLOW adds a uid; the invariant is kept.
LEMMA ServeAllowKeepsIInv ==
  ASSUME IInv, NEW i \in Index, ServeAllow(i)
  PROVE  IInv'
<1> USE SizeAssumption, PeerAssumption, IndexFacts DEF IInv, ServeAllow, Request, Turn, ReplyWith, slotVars, tableVars, loopVars, workVars, peerVars
<1>1. TypeOK'
  BY DEF TypeOK, PCs, Ops
<1>2. WorkInv'
  BY DEF TypeOK, WorkInv, FileInv, Recycles
<1>3. FileInv'
  BY DEF TypeOK, WorkInv, FileInv
<1>4. OwnerInv'
  BY DEF TypeOK, WorkInv, FileInv, OwnerInv
<1>5. ExclusiveTenancy'
  BY DEF TypeOK, WorkInv, FileInv, ExclusiveTenancy
<1>6. QED
  BY <1>1, <1>2, <1>3, <1>4, <1>5

\* DENY drops a uid and starts discarding; the invariant is kept.
LEMMA ServeDenyKeepsIInv ==
  ASSUME IInv, NEW i \in Index, ServeDeny(i)
  PROVE  IInv'
<1> USE SizeAssumption, PeerAssumption, IndexFacts DEF IInv, ServeDeny, Request, Turn, StartWork, LeasesOfUid, LeasedSlots, slotVars, tableVars, loopVars, workVars, peerVars
<1>1. TypeOK'
  BY DEF TypeOK, PCs, Ops
<1>2. WorkInv'
  BY DEF TypeOK, WorkInv, FileInv, Recycles
<1>3. FileInv'
  BY DEF TypeOK, WorkInv, FileInv
<1>4. OwnerInv'
  BY DEF TypeOK, WorkInv, FileInv, OwnerInv
<1>5. ExclusiveTenancy'
  BY DEF TypeOK, WorkInv, FileInv, ExclusiveTenancy
<1>6. QED
  BY <1>1, <1>2, <1>3, <1>4, <1>5

\* REVOKE starts a recycle; the invariant is kept.
LEMMA ServeRevokeKeepsIInv ==
  ASSUME IInv, NEW i \in Index, ServeRevoke(i)
  PROVE  IInv'
<1> USE SizeAssumption, PeerAssumption, IndexFacts DEF IInv, ServeRevoke, Request, Turn, StartWork, LeasedSlots, slotVars, tableVars, loopVars, workVars, peerVars
<1>1. TypeOK'
  BY DEF TypeOK, PCs, Ops
<1>2. WorkInv'
  BY DEF TypeOK, WorkInv, FileInv, Recycles
<1>3. FileInv'
  BY DEF TypeOK, WorkInv, FileInv
<1>4. OwnerInv'
  BY DEF TypeOK, WorkInv, FileInv, OwnerInv
<1>5. ExclusiveTenancy'
  BY DEF TypeOK, WorkInv, FileInv, ExclusiveTenancy
<1>6. QED
  BY <1>1, <1>2, <1>3, <1>4, <1>5

\* RESIZE starts growing or shrinking; the invariant is kept.
LEMMA ServeResizeKeepsIInv ==
  ASSUME IInv, NEW i \in Index, ServeResize(i)
  PROVE  IInv'
<1> USE SizeAssumption, PeerAssumption, IndexFacts DEF IInv, ServeResize, Request, Turn, StartWork, Growth, Shrinkage, DisabledSlots, IdleSlots, slotVars, tableVars, loopVars, workVars, peerVars
<1>1. TypeOK'
  BY DEF TypeOK, PCs, Ops
<1>2. WorkInv'
  <2>1. PICK n \in 0 .. MaxSlots :
          IF n > capacity
          THEN StartWork("GROW", {}, Growth(n - capacity), n)
          ELSE StartWork("SHRINK", Shrinkage(capacity - n), {}, n)
    OBVIOUS
  <2>2. op = "NONE" /\ drop = {} /\ ~fatal_revoke
    BY DEF WorkInv
  <2>3. \A s \in Slots : ~enabled[s] => fd[s] = NoInode
    BY <2>2 DEF WorkInv
  <2>4. CASE n > capacity
    BY <2>1, <2>3, <2>4 DEF WorkInv, Recycles
  <2>5. CASE ~(n > capacity)
    BY <2>1, <2>3, <2>5 DEF WorkInv, Recycles
  <2>6. QED
    BY <2>4, <2>5
<1>3. FileInv'
  BY DEF TypeOK, WorkInv, FileInv
<1>4. OwnerInv'
  BY DEF TypeOK, WorkInv, FileInv, OwnerInv
<1>5. ExclusiveTenancy'
  BY DEF TypeOK, WorkInv, FileInv, ExclusiveTenancy
<1>6. QED
  BY <1>1, <1>2, <1>3, <1>4, <1>5

\* REFILL starts allocating; the invariant is kept.
LEMMA ServeRefillKeepsIInv ==
  ASSUME IInv, NEW i \in Index, ServeRefill(i)
  PROVE  IInv'
<1> USE SizeAssumption, PeerAssumption, IndexFacts DEF IInv, ServeRefill, Request, Turn, StartWork, slotVars, tableVars, loopVars, workVars, peerVars
<1>1. TypeOK'
  BY DEF TypeOK, PCs, Ops
<1>2. WorkInv'
  BY DEF TypeOK, WorkInv, FileInv, Recycles
<1>3. FileInv'
  BY DEF TypeOK, WorkInv, FileInv
<1>4. OwnerInv'
  BY DEF TypeOK, WorkInv, FileInv, OwnerInv
<1>5. ExclusiveTenancy'
  BY DEF TypeOK, WorkInv, FileInv, ExclusiveTenancy
<1>6. QED
  BY <1>1, <1>2, <1>3, <1>4, <1>5

(***************************************************************************)
(* Slot work.                                                              *)
(***************************************************************************)

\* discard_slot succeeds; the invariant is kept.
LEMMA DiscardSlotKeepsIInv ==
  ASSUME IInv, DiscardSlot
  PROVE  IInv'
<1> USE SizeAssumption, PeerAssumption, IndexFacts DEF IInv, DiscardSlot, DiscardTurn, NextDrop, Recycles, Truncated, slotVars, tableVars, loopVars, workVars, peerVars
<1>1. TypeOK'
  <2>1. PICK s \in drop : DiscardSlot!2!(s)
    OBVIOUS
  <2>2. s \in Slots /\ 0 \in Leases
    BY DEF TypeOK, Leases
  <2>3. /\ live' \subseteq Inodes
        /\ fd' \in [Slots -> Inodes \cup {NoInode}]
        /\ lease' \in [Slots -> Leases]
        /\ owner' \in [Slots -> Index \cup {NoIndex}]
        /\ enabled' \in [Slots -> BOOLEAN]
    BY <2>1, <2>2 DEF TypeOK
  <2>4. drop' \subseteq Slots /\ fill' \subseteq Slots
    BY <2>1, <2>2 DEF TypeOK
  <2>5. QED
    BY <2>3, <2>4 DEF TypeOK
<1>2. WorkInv'
  <2>1. PICK t \in drop : DiscardSlot!2!(t)
    OBVIOUS
  <2>2. t \in Slots
    BY DEF TypeOK
  <2>3. /\ fd'[t] = NoInode
        /\ \A s \in Slots : s # t => fd'[s] = fd[s] /\ enabled'[s] = enabled[s]
        /\ Recycles => enabled'[t] = enabled[t]
    BY <2>1, <2>2 DEF TypeOK, Recycles
  <2>4. drop' \subseteq drop /\ Recycles' = Recycles
    BY <2>1 DEF Recycles
  <2>5. \A s \in fill' : s \notin drop' /\ fd'[s] = NoInode /\ (op # "GROW" => enabled'[s])
    <3>1. ASSUME NEW s \in fill', s # t
          PROVE  s \notin drop' /\ fd'[s] = NoInode /\ (op # "GROW" => enabled'[s])
      BY <2>1, <2>3, <3>1 DEF TypeOK, WorkInv
    <3>2. t \in fill' => t \notin drop' /\ (op # "GROW" => enabled'[t])
      BY <2>1, <2>3 DEF WorkInv, Recycles
    <3>3. QED
      BY <2>3, <3>1, <3>2
  <2>6. \A s \in drop' : Recycles => enabled'[s]
    BY <2>1, <2>3, <2>4 DEF TypeOK, WorkInv
  <2>7. \A s \in Slots : ~enabled'[s] /\ fd'[s] # NoInode =>
          \/ fatal_revoke
          \/ op = "GROW" /\ s \in added
          \/ op = "ROLLBACK" /\ s \in drop'
    BY <2>1, <2>3 DEF TypeOK, WorkInv
  <2>8. QED
    BY <2>4, <2>5, <2>6, <2>7 DEF WorkInv
<1>3. FileInv'
  BY DEF TypeOK, WorkInv, FileInv
<1>4. OwnerInv'
  <2>1. PICK t \in drop : DiscardSlot!2!(t)
    OBVIOUS
  <2>2. SUFFICES ASSUME NEW s \in Slots, NEW p \in Peers, fd'[s] \in held[p] \cap live'
                 PROVE  \/ fatal_revoke \/ s \in drop'
                        \/ owner'[s] \in Index /\ client[owner'[s]] = p
    BY DEF OwnerInv
  <2>3. s # t
    BY <2>1, <2>2 DEF TypeOK
  <2>4. fd'[s] = fd[s] /\ owner'[s] = owner[s] /\ (s \in drop => s \in drop')
    BY <2>1, <2>3 DEF TypeOK
  <2>5. fd[s] \in held[p] \cap live
    BY <2>1, <2>2, <2>4
  <2>6. QED
    BY <2>4, <2>5 DEF OwnerInv
<1>5. ExclusiveTenancy'
  BY DEF TypeOK, WorkInv, FileInv, ExclusiveTenancy
<1>6. QED
  BY <1>1, <1>2, <1>3, <1>4, <1>5

\* discard_slot fails in ftruncate; the invariant is kept.
LEMMA DiscardFailsKeepsIInv ==
  ASSUME IInv, DiscardFails
  PROVE  IInv'
<1> USE SizeAssumption, PeerAssumption, IndexFacts DEF IInv, DiscardFails, DiscardTurn, NextDrop, slotVars, tableVars, loopVars, workVars, peerVars
<1>1. TypeOK'
  BY DEF TypeOK, PCs, Ops
<1>2. WorkInv'
  <2>1. CASE op \in {"CLOSE", "ROLLBACK", "CLEANUP"}
    <3>1. drop' \subseteq drop /\ fill' = fill /\ op' = op /\ fatal_revoke'
      BY <2>1
    <3>2. QED
      BY <2>1, <3>1 DEF TypeOK, WorkInv, Recycles
  <2>2. CASE op \notin {"CLOSE", "ROLLBACK", "CLEANUP"}
    <3>1. drop' = {} /\ fill' = {} /\ op' = "ABORT" /\ fatal_revoke'
      BY <2>2
    <3>2. QED
      BY <3>1 DEF TypeOK, WorkInv, Recycles
  <2>3. QED
    BY <2>1, <2>2
<1>3. FileInv'
  BY DEF TypeOK, WorkInv, FileInv
<1>4. OwnerInv'
  BY DEF TypeOK, WorkInv, FileInv, OwnerInv
<1>5. ExclusiveTenancy'
  BY DEF TypeOK, WorkInv, FileInv, ExclusiveTenancy
<1>6. QED
  BY <1>1, <1>2, <1>3, <1>4, <1>5

\* allocate_slot succeeds; the invariant is kept.
LEMMA AllocateSlotKeepsIInv ==
  ASSUME IInv, AllocateSlot
  PROVE  IInv'
<1> USE SizeAssumption, PeerAssumption, IndexFacts DEF IInv, AllocateSlot, FillTurn, DiscardTurn, slotVars, tableVars, loopVars, workVars, peerVars
<1>1. TypeOK'
  <2>1. PICK s \in fill : AllocateSlot!3!(s)
    OBVIOUS
  <2>2. s \in Slots /\ 0 \in Leases /\ NewInode \in Inodes
    BY NewInodeIsFresh DEF TypeOK, Leases
  <2>3. /\ live' \subseteq Inodes
        /\ fd' \in [Slots -> Inodes \cup {NoInode}]
        /\ lease' \in [Slots -> Leases]
        /\ owner' \in [Slots -> Index \cup {NoIndex}]
    BY <2>1, <2>2 DEF TypeOK
  <2>4. fill' \subseteq Slots /\ added' \subseteq Slots
    BY <2>1, <2>2 DEF TypeOK
  <2>5. QED
    BY <2>3, <2>4 DEF TypeOK
<1>2. WorkInv'
  <2>1. PICK t \in fill : AllocateSlot!3!(t)
    OBVIOUS
  <2>2. t \in Slots /\ fd[t] = NoInode
    BY DEF TypeOK, WorkInv, FileInv, Recycles
  <2>3. \A s \in Slots : s # t => fd'[s] = fd[s]
    BY <2>1, <2>2 DEF TypeOK
  <2>4. \A s \in fill' : fd'[s] = NoInode
    BY <2>1, <2>3 DEF TypeOK, WorkInv, FileInv, Recycles
  <2>5. ASSUME NEW s \in Slots, ~enabled[s], fd'[s] # NoInode
        PROVE  \/ fatal_revoke
               \/ op = "GROW" /\ s \in added'
               \/ op = "ROLLBACK" /\ s \in drop
    <3>1. CASE s # t
      BY <2>1, <2>3, <2>5, <3>1 DEF WorkInv, Recycles
    <3>2. CASE s = t
      BY <2>1, <2>5, <3>2 DEF WorkInv, Recycles
    <3>3. QED
      BY <3>1, <3>2
  <2>6. QED
    BY <2>4, <2>5 DEF WorkInv, Recycles
<1>3. FileInv'
  BY NewInodeIsFresh DEF TypeOK, WorkInv, FileInv
<1>4. OwnerInv'
  <2>1. PICK t \in fill : AllocateSlot!3!(t)
    OBVIOUS
  <2>2. SUFFICES ASSUME NEW s \in Slots, NEW p \in Peers, fd'[s] \in held[p] \cap live'
                 PROVE  \/ fatal_revoke \/ s \in drop
                        \/ owner'[s] \in Index /\ client[owner'[s]] = p
    BY DEF OwnerInv
  <2>3. fd'[s] # NewInode
    BY <2>2, NewInodeIsFresh
  <2>4. s # t
    BY <2>1, <2>3 DEF TypeOK
  <2>5. fd'[s] = fd[s] /\ owner'[s] = owner[s]
    BY <2>1, <2>4 DEF TypeOK
  <2>6. fd[s] \in held[p] \cap live
    BY <2>1, <2>2, <2>3, <2>5
  <2>7. QED
    BY <2>5, <2>6 DEF OwnerInv
<1>5. ExclusiveTenancy'
  BY NewInodeIsFresh DEF TypeOK, WorkInv, FileInv, ExclusiveTenancy
<1>6. QED
  BY <1>1, <1>2, <1>3, <1>4, <1>5

\* allocate_slot fails; the invariant is kept.
LEMMA AllocateFailsKeepsIInv ==
  ASSUME IInv, AllocateFails
  PROVE  IInv'
<1> USE SizeAssumption, PeerAssumption, IndexFacts DEF IInv, AllocateFails, FillTurn, DiscardTurn, slotVars, tableVars, loopVars, workVars, peerVars
<1>1. TypeOK'
  BY DEF TypeOK, PCs, Ops
<1>2. WorkInv'
  <2>1. CASE op = "GROW"
    BY <2>1 DEF TypeOK, WorkInv, Recycles
  <2>2. CASE op # "GROW"
    <3>1. fill' \subseteq fill /\ drop' = drop /\ op' = op
      BY <2>2
    <3>2. QED
      BY <2>2, <3>1 DEF TypeOK, WorkInv, Recycles
  <2>3. QED
    BY <2>1, <2>2
<1>3. FileInv'
  BY DEF TypeOK, WorkInv, FileInv
<1>4. OwnerInv'
  BY DEF TypeOK, WorkInv, FileInv, OwnerInv
<1>5. ExclusiveTenancy'
  BY DEF TypeOK, WorkInv, FileInv, ExclusiveTenancy
<1>6. QED
  BY <1>1, <1>2, <1>3, <1>4, <1>5

\* The slot work of a handler ends; the invariant is kept.
LEMMA WorkDoneKeepsIInv ==
  ASSUME IInv, WorkDone
  PROVE  IInv'
<1> USE SizeAssumption, PeerAssumption, IndexFacts DEF IInv, WorkDone, AfterWork, ClearWork, slotVars, tableVars, loopVars, workVars, peerVars
<1>1. TypeOK'
  BY DEF TypeOK, PCs, Ops
<1>2. WorkInv'
  BY DEF TypeOK, WorkInv, FileInv, Recycles
<1>3. FileInv'
  BY DEF TypeOK, WorkInv, FileInv
<1>4. OwnerInv'
  BY DEF TypeOK, WorkInv, FileInv, OwnerInv
<1>5. ExclusiveTenancy'
  BY DEF TypeOK, WorkInv, FileInv, ExclusiveTenancy
<1>6. QED
  BY <1>1, <1>2, <1>3, <1>4, <1>5

\* cleanup ends; the invariant is kept.
LEMMA ExitKeepsIInv ==
  ASSUME IInv, Exit
  PROVE  IInv'
<1> USE SizeAssumption, PeerAssumption, IndexFacts DEF IInv, Exit, ClearWork, slotVars, tableVars, loopVars, workVars, peerVars
<1>1. TypeOK'
  BY DEF TypeOK, PCs, Ops
<1>2. WorkInv'
  BY DEF TypeOK, WorkInv, FileInv, Recycles
<1>3. FileInv'
  BY DEF TypeOK, WorkInv, FileInv
<1>4. OwnerInv'
  BY DEF TypeOK, WorkInv, FileInv, OwnerInv
<1>5. ExclusiveTenancy'
  BY DEF TypeOK, WorkInv, FileInv, ExclusiveTenancy
<1>6. QED
  BY <1>1, <1>2, <1>3, <1>4, <1>5

\* The answer, and perhaps a descriptor, is sent; the invariant is kept.
LEMMA ReplySentKeepsIInv ==
  ASSUME IInv, ReplySent
  PROVE  IInv'
<1> USE SizeAssumption, PeerAssumption, IndexFacts DEF IInv, ReplySent, slotVars, tableVars, loopVars, workVars, peerVars
<1>1. TypeOK'
  <2>1. held' \in [Peers -> SUBSET Inodes]
    <3>1. CASE grant = NoSlot
      BY <3>1 DEF TypeOK
    <3>2. CASE grant # NoSlot
      <4>1. fd[grant] \in Inodes
        BY <3>2 DEF TypeOK, FileInv
      <4>2. held' = [held EXCEPT ![client[cur]] = @ \cup {fd[grant]}]
        BY <3>2
      <4>3. held \in [Peers -> SUBSET Inodes]
        BY DEF TypeOK
      <4>4. [held EXCEPT ![client[cur]] = @ \cup {fd[grant]}] \in [Peers -> SUBSET Inodes]
        BY <4>1, <4>3, HeldExtended
      <4>5. QED
        BY <4>2, <4>4
    <3>3. QED
      BY <3>1, <3>2
  <2>2. pc' \in PCs
    BY DEF PCs
  <2>3. QED
    BY <2>1, <2>2 DEF TypeOK
<1>2. WorkInv'
  BY DEF TypeOK, WorkInv, FileInv, Recycles
<1>3. FileInv'
  BY DEF TypeOK, WorkInv, FileInv
<1>4. OwnerInv'
  BY DEF TypeOK, WorkInv, FileInv, OwnerInv
<1>5. ExclusiveTenancy'
  BY DEF TypeOK, WorkInv, FileInv, ExclusiveTenancy
<1>6. QED
  BY <1>1, <1>2, <1>3, <1>4, <1>5

\* sendmsg fails; the invariant is kept.
LEMMA ReplyFailsKeepsIInv ==
  ASSUME IInv, ReplyFails
  PROVE  IInv'
<1> USE SizeAssumption, PeerAssumption, IndexFacts DEF IInv, ReplyFails, CloseClient, StartWork, LeasesOf, slotVars, tableVars, loopVars, workVars, peerVars
<1>1. TypeOK'
  <2>1. /\ drop' \subseteq Slots /\ fill' \subseteq Slots /\ added' \subseteq Slots
        /\ target' \in 0 .. MaxSlots
    BY DEF TypeOK
  <2>2. pc' \in PCs /\ op' \in Ops
    BY DEF PCs, Ops
  <2>3. client' \in [Index -> Peers \cup {NoPeer}]
    BY DEF TypeOK
  <2>4. /\ link' \in [Peers -> {"none", "backlog", "open"}]
        /\ hungup' \in [Peers -> BOOLEAN]
    BY DEF TypeOK
  <2>5. QED
    BY <2>1, <2>2, <2>3, <2>4 DEF TypeOK
<1>2. WorkInv'
  BY DEF TypeOK, WorkInv, FileInv, Recycles
<1>3. FileInv'
  BY DEF TypeOK, WorkInv, FileInv
<1>4. OwnerInv'
  BY DEF TypeOK, WorkInv, FileInv, OwnerInv
<1>5. ExclusiveTenancy'
  BY DEF TypeOK, WorkInv, FileInv, ExclusiveTenancy
<1>6. QED
  BY <1>1, <1>2, <1>3, <1>4, <1>5

\* cleanup starts; the invariant is kept.
LEMMA CleanupKeepsIInv ==
  ASSUME IInv, Cleanup
  PROVE  IInv'
<1> USE SizeAssumption, PeerAssumption, IndexFacts DEF IInv, Cleanup, StartWork, CleanupSlots, slotVars, tableVars, loopVars, workVars, peerVars
<1>1. TypeOK'
  BY DEF TypeOK, PCs, Ops
<1>2. WorkInv'
  BY DEF TypeOK, WorkInv, FileInv, Recycles
<1>3. FileInv'
  BY DEF TypeOK, WorkInv, FileInv
<1>4. OwnerInv'
  BY DEF TypeOK, WorkInv, FileInv, OwnerInv
<1>5. ExclusiveTenancy'
  BY DEF TypeOK, WorkInv, FileInv, ExclusiveTenancy
<1>6. QED
  BY <1>1, <1>2, <1>3, <1>4, <1>5

(***************************************************************************)
(* Connections.                                                            *)
(***************************************************************************)

\* A connection enters the client table; the invariant is kept.
LEMMA AcceptClientKeepsIInv ==
  ASSUME IInv, NEW l \in Listeners, AcceptClient(l)
  PROVE  IInv'
<1> USE SizeAssumption, PeerAssumption, IndexFacts DEF IInv, AcceptClient, Accepting, HasNext, Counted, FreeEntry, Listeners, slotVars, tableVars, loopVars, workVars, peerVars
<1>1. TypeOK'
  BY DEF TypeOK, PCs, Ops
<1>2. WorkInv'
  BY DEF TypeOK, WorkInv, FileInv, Recycles
<1>3. FileInv'
  BY DEF TypeOK, WorkInv, FileInv
<1>4. OwnerInv'
  BY DEF TypeOK, WorkInv, FileInv, OwnerInv
<1>5. ExclusiveTenancy'
  BY DEF TypeOK, WorkInv, FileInv, ExclusiveTenancy
<1>6. QED
  BY <1>1, <1>2, <1>3, <1>4, <1>5

\* A connection is turned away; the invariant is kept.
LEMMA AcceptRejectsKeepsIInv ==
  ASSUME IInv, NEW l \in Listeners, AcceptRejects(l)
  PROVE  IInv'
<1> USE SizeAssumption, PeerAssumption, IndexFacts DEF IInv, AcceptRejects, Accepting, HasNext, Counted, FreeEntry, Listeners, slotVars, tableVars, loopVars, workVars, peerVars
<1>1. TypeOK'
  BY DEF TypeOK, PCs, Ops
<1>2. WorkInv'
  BY DEF TypeOK, WorkInv, FileInv, Recycles
<1>3. FileInv'
  BY DEF TypeOK, WorkInv, FileInv
<1>4. OwnerInv'
  BY DEF TypeOK, WorkInv, FileInv, OwnerInv
<1>5. ExclusiveTenancy'
  BY DEF TypeOK, WorkInv, FileInv, ExclusiveTenancy
<1>6. QED
  BY <1>1, <1>2, <1>3, <1>4, <1>5

\* accept4 runs out of descriptors; the invariant is kept.
LEMMA AcceptExhaustedKeepsIInv ==
  ASSUME IInv, NEW l \in Listeners, AcceptExhausted(l)
  PROVE  IInv'
<1> USE SizeAssumption, PeerAssumption, IndexFacts DEF IInv, AcceptExhausted, Accepting, HasNext, Counted, FreeEntry, Listeners, slotVars, tableVars, loopVars, workVars, peerVars
<1>1. TypeOK'
  BY DEF TypeOK, PCs, Ops
<1>2. WorkInv'
  BY DEF TypeOK, WorkInv, FileInv, Recycles
<1>3. FileInv'
  BY DEF TypeOK, WorkInv, FileInv
<1>4. OwnerInv'
  BY DEF TypeOK, WorkInv, FileInv, OwnerInv
<1>5. ExclusiveTenancy'
  BY DEF TypeOK, WorkInv, FileInv, ExclusiveTenancy
<1>6. QED
  BY <1>1, <1>2, <1>3, <1>4, <1>5

\* A listener is done for this wakeup; the invariant is kept.
LEMMA AcceptDoneKeepsIInv ==
  ASSUME IInv, NEW l \in Listeners, AcceptDone(l)
  PROVE  IInv'
<1> USE SizeAssumption, PeerAssumption, IndexFacts DEF IInv, AcceptDone, Accepting, HasNext, Counted, FreeEntry, Listeners, slotVars, tableVars, loopVars, workVars, peerVars
<1>1. TypeOK'
  BY DEF TypeOK, PCs, Ops
<1>2. WorkInv'
  BY DEF TypeOK, WorkInv, FileInv, Recycles
<1>3. FileInv'
  BY DEF TypeOK, WorkInv, FileInv
<1>4. OwnerInv'
  BY DEF TypeOK, WorkInv, FileInv, OwnerInv
<1>5. ExclusiveTenancy'
  BY DEF TypeOK, WorkInv, FileInv, ExclusiveTenancy
<1>6. QED
  BY <1>1, <1>2, <1>3, <1>4, <1>5

(***************************************************************************)
(* The theorems.                                                           *)
(***************************************************************************)

\* Every step of the daemon or of a process keeps the invariant.
LEMMA NextKeepsIInv ==
  ASSUME IInv, [Next]_vars
  PROVE  IInv'
<1>1. CASE DaemonStep
  <2>1. ASSUME NEW i \in Index, ServeStep(i) PROVE IInv'
    BY <2>1, ServeEndKeepsIInv, ServeNoEffectKeepsIInv, ServeAcquireKeepsIInv,
       ServeReleaseKeepsIInv, ServeFreeKeepsIInv, ServeAllowKeepsIInv, ServeDenyKeepsIInv,
       ServeRevokeKeepsIInv, ServeResizeKeepsIInv, ServeRefillKeepsIInv DEF ServeStep
  <2>2. ASSUME NEW l \in Listeners, AcceptStep(l) PROVE IInv'
    BY <2>2, AcceptClientKeepsIInv, AcceptRejectsKeepsIInv, AcceptExhaustedKeepsIInv,
       AcceptDoneKeepsIInv DEF AcceptStep
  <2>3. ASSUME DiscardSlot \/ DiscardFails \/ AllocateSlot \/ AllocateFails \/ WorkDone
        PROVE  IInv'
    BY <2>3, DiscardSlotKeepsIInv, DiscardFailsKeepsIInv, AllocateSlotKeepsIInv,
       AllocateFailsKeepsIInv, WorkDoneKeepsIInv
  <2>4. ASSUME \/ PollStops \/ PollReady \/ ServeDone \/ ReplySent \/ ReplyFails
               \/ LoopEnd \/ Cleanup \/ Exit
        PROVE  IInv'
    BY <2>4, PollStopsKeepsIInv, PollReadyKeepsIInv, ServeDoneKeepsIInv, ReplySentKeepsIInv,
       ReplyFailsKeepsIInv, LoopEndKeepsIInv, CleanupKeepsIInv, ExitKeepsIInv
  <2>5. QED
    BY <1>1, <2>1, <2>2, <2>3, <2>4 DEF DaemonStep
<1>2. CASE \E p \in Peers : PeerStep(p)
  BY <1>2, PeerKeepsIInv
<1>3. CASE UNCHANGED vars
  BY <1>3 DEF vars, IInv, TypeOK, WorkInv, FileInv, OwnerInv, ExclusiveTenancy, Recycles
<1>4. QED
  BY <1>1, <1>2, <1>3 DEF Next

\* The invariant holds in every state the daemon and its clients can reach.
THEOREM InvariantHolds == Spec => []IInv
<1>1. Init => IInv
  BY InitIInv
<1>2. IInv /\ [Next]_vars => IInv'
  BY NextKeepsIInv
<1>3. QED
  BY <1>1, <1>2, PTL DEF Spec

\* Every variable keeps the type of its C declaration.
THEOREM TypeCorrect == Spec => []TypeOK
<1>1. IInv => TypeOK
  BY DEF IInv
<1>2. QED
  BY <1>1, InvariantHolds, PTL

\* No two processes can reach the pages of one memory file: what discard_slot
\* promises of an old descriptor.
THEOREM TenancyIsExclusive == Spec => []ExclusiveTenancy
<1>1. IInv => ExclusiveTenancy
  BY DEF IInv
<1>2. QED
  BY <1>1, InvariantHolds, PTL

\* A process reaches pages only through a lease of its own connection, or one
\* about to be discarded, or, once a revocation failed, in a slot still leased.
THEOREM CapabilitiesAreLeased == Spec => []CapabilityIsLeased
<1>1. ASSUME IInv PROVE CapabilityIsLeased
  <2>1. SUFFICES ASSUME NEW p \in Peers, NEW n \in held[p] \cap live
                 PROVE  \E s \in Slots :
                          /\ fd[s] = n /\ lease[s] # 0
                          /\ fatal_revoke \/ s \in drop
                               \/ (owner[s] \in Index /\ client[owner[s]] = p)
    BY DEF CapabilityIsLeased
  <2>2. PICK s \in Slots : fd[s] = n
    BY <1>1 DEF IInv, FileInv
  <2>3. lease[s] # 0
    BY <1>1, <2>2 DEF IInv, FileInv
  <2>4. fatal_revoke \/ s \in drop \/ (owner[s] \in Index /\ client[owner[s]] = p)
    BY <1>1, <2>2 DEF IInv, OwnerInv
  <2>5. QED
    BY <2>2, <2>3, <2>4
<1>2. QED
  BY <1>1, InvariantHolds, PTL

=============================================================================
