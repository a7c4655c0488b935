------------------------- MODULE Hugekeeper_refinement -------------------------
(***************************************************************************)
(* Machine-checked proof that the daemon implements FileTenancy, for every *)
(* pool size, table size, lease modulus and population of processes.       *)
(***************************************************************************)
EXTENDS Hugekeeper_proofs

(***************************************************************************)
(* The steps of FileTenancy under the refinement mapping.                  *)
(***************************************************************************)

\* The abstract step of one file, in terms of its mapped stage and holders.
LEMMA StepOfFile ==
  ASSUME NEW n \in Inodes,
         \/ Stage(n) = "empty" /\ Stage(n)' = "clean" /\ HoldersOf(n)' = {}
         \/ Stage(n) = "clean" /\ Stage(n)' = "granted" /\ HoldersOf(n)' = {}
         \/ /\ Stage(n) = "granted" /\ Stage(n)' = "used" /\ HoldersOf(n) = {}
            /\ HoldersOf(n)' = {} \/ \E p \in Peers : HoldersOf(n)' = {p}
         \/ Stage(n)' \in {"empty", Stage(n)} /\ HoldersOf(n)' \subseteq HoldersOf(n)
  PROVE  Tenancy!Step(n)
BY DEF Tenancy!Step, Tenancy!Populate, Tenancy!Grant, Tenancy!Deliver, Tenancy!Wipe,
       Tenancy!Keep, Tenancy!Fewer

\* Steps that leave the files, the leases and the processes' hands alone.
LEMMA UntouchedFiles ==
  ASSUME IInv, NEW n \in Inodes,
         UNCHANGED <<fd, lease, live, held>>, grant' \in {grant, NoSlot}
  PROVE  Tenancy!Step(n)
<1>1. HoldersOf(n)' = HoldersOf(n)
  BY DEF HoldersOf
<1>2. CASE grant' = grant
  <2>1. Stage(n)' = Stage(n)
    BY <1>2 DEF Stage
  <2>2. QED
    BY <1>1, <2>1, StepOfFile
<1>3. CASE grant' = NoSlot /\ grant # NoSlot
  <2>1. CASE fd[grant] = n /\ n \in live
    <3>1. grant \in Slots /\ lease[grant] # 0 /\ HoldersOf(n) = {}
      BY <1>3, <2>1 DEF IInv, TypeOK, FileInv, HoldersOf
    <3>2. Stage(n) = "granted"
      BY <1>3, <2>1 DEF Stage
    <3>3. ~ \E s \in Slots : fd[s] = n /\ lease[s] = 0
      BY <2>1, <3>1, PeerAssumption DEF IInv, FileInv
    <3>4. Stage(n)' = "used"
      BY <1>3, <2>1, <3>1, <3>3 DEF Stage
    <3>5. QED
      BY <1>1, <3>1, <3>2, <3>4, StepOfFile
  <2>2. CASE ~(fd[grant] = n /\ n \in live)
    <3>1. Stage(n)' = Stage(n)
      BY <1>3, <2>2 DEF Stage
    <3>2. QED
      BY <1>1, <3>1, StepOfFile
  <2>3. QED
    BY <2>1, <2>2
<1>4. QED
  BY <1>2, <1>3

(***************************************************************************)
(* The steps that touch them.                                              *)
(***************************************************************************)

\* ACQUIRE leases a slot: its file is granted.
LEMMA AcquireMaps ==
  ASSUME IInv, NEW i \in Index, ServeAcquire(i), NEW n \in Inodes
  PROVE  Tenancy!Step(n)
<1> USE DEF ServeAcquire, Request, Turn, ReplyWith
<1>1. PICK s \in Slots : /\ FirstReady(s) /\ grant' = s
                        /\ lease' = [lease EXCEPT ![s] = next_lease]
  OBVIOUS
<1>2. /\ UNCHANGED <<fd, live, held>> /\ grant = NoSlot
      /\ next_lease # 0 /\ lease \in [Slots -> Leases] /\ s # NoSlot
  BY IndexFacts DEF IInv, WorkInv, TypeOK, MayAcquire
<1>3. HoldersOf(n)' = HoldersOf(n)
  BY <1>2 DEF HoldersOf
<1>4. CASE fd[s] = n /\ n \in live
  <2>1. Stage(n) = "clean" /\ Stage(n)' = "granted"
    BY <1>1, <1>2, <1>4 DEF Stage, FirstReady
  <2>2. HoldersOf(n) = {}
    BY <1>1, <1>4 DEF HoldersOf, FirstReady, IInv, FileInv
  <2>3. QED
    BY <1>3, <2>1, <2>2, StepOfFile
<1>5. CASE ~(fd[s] = n /\ n \in live)
  <2>1. n \in live => \A t \in Slots : fd[t] = n => lease'[t] = lease[t]
    BY <1>1, <1>2, <1>5
  <2>2. Stage(n)' = Stage(n)
    BY <1>1, <1>2, <1>5, <2>1 DEF Stage
  <2>3. QED
    BY <1>3, <2>2, StepOfFile
<1>6. QED
  BY <1>4, <1>5

\* The reply carries the descriptor: the file is delivered.
LEMMA ReplyMaps ==
  ASSUME IInv, ReplySent, NEW n \in Inodes
  PROVE  Tenancy!Step(n)
<1> USE DEF ReplySent, slotVars
<1>1. CASE grant = NoSlot
  BY <1>1, UntouchedFiles
<1>2. CASE grant # NoSlot
  <2>1. /\ grant \in Slots /\ lease[grant] # 0 /\ fd[grant] # NoInode
        /\ \A p \in Peers : fd[grant] \notin held[p]
        /\ held' = [held EXCEPT ![client[cur]] = @ \cup {fd[grant]}]
        /\ held \in [Peers -> SUBSET Inodes]
    BY <1>2 DEF IInv, TypeOK, FileInv
  <2>2. CASE fd[grant] = n /\ n \in live
    <3>1. HoldersOf(n) = {}
      BY <2>1, <2>2 DEF HoldersOf
    <3>2. HoldersOf(n)' = {} \/ \E p \in Peers : HoldersOf(n)' = {p}
      BY <2>1, <2>2, <3>1 DEF HoldersOf
    <3>3. ~ \E s \in Slots : fd[s] = n /\ lease[s] = 0
      BY <2>1, <2>2, PeerAssumption DEF IInv, FileInv
    <3>4. Stage(n) = "granted" /\ Stage(n)' = "used"
      BY <1>2, <2>1, <2>2, <3>3 DEF Stage
    <3>5. QED
      BY <3>1, <3>2, <3>4, StepOfFile
  <2>3. CASE n \notin live
    <3>1. Stage(n)' = "empty" /\ HoldersOf(n)' = {}
      BY <2>3 DEF Stage, HoldersOf
    <3>2. QED
      BY <3>1, StepOfFile
  <2>4. CASE fd[grant] # n
    <3>1. HoldersOf(n)' = HoldersOf(n)
      BY <2>1, <2>4 DEF HoldersOf
    <3>2. \A p \in Peers : n \in held'[p] <=> n \in held[p]
      BY <2>1, <2>4
    <3>3. Stage(n)' = Stage(n)
      BY <1>2, <2>4, <3>2 DEF Stage
    <3>4. QED
      BY <3>1, <3>3, StepOfFile
  <2>5. QED
    BY <2>2, <2>3, <2>4
<1>3. QED
  BY <1>1, <1>2

\* A discarded slot's file is wiped.
LEMMA DiscardMaps ==
  ASSUME IInv, DiscardSlot, NEW n \in Inodes
  PROVE  Tenancy!Step(n)
<1>1. PICK s \in Slots : /\ live' = live \ {fd[s]}
                        /\ fd' = [fd EXCEPT ![s] = NoInode]
                        /\ lease' = [lease EXCEPT ![s] = 0]
  BY DEF DiscardSlot, Truncated, IInv, TypeOK
<1>2. UNCHANGED <<grant, held>> /\ grant = NoSlot /\ fd \in [Slots -> Inodes \cup {NoInode}]
  BY DEF DiscardSlot, DiscardTurn, peerVars, IInv, WorkInv, TypeOK
<1>3. HoldersOf(n)' \subseteq HoldersOf(n)
  BY <1>1, <1>2 DEF HoldersOf
<1>4. CASE n \notin live'
  <2>1. Stage(n)' = "empty"
    BY <1>4 DEF Stage
  <2>2. QED
    BY <1>3, <2>1, StepOfFile
<1>5. CASE n \in live'
  <2>1. n \in live /\ fd[s] # n
    BY <1>1, <1>5
  <2>2. \A t \in Slots : fd'[t] = n <=> fd[t] = n
    BY <1>1, <1>2, <2>1, PeerAssumption
  <2>3. \A t \in Slots : fd[t] = n => lease'[t] = lease[t]
    BY <1>1, <2>1 DEF IInv, TypeOK
  <2>4. Stage(n)' = Stage(n)
    BY <1>2, <1>5, <2>1, <2>2, <2>3 DEF Stage
  <2>5. QED
    BY <1>3, <2>4, StepOfFile
<1>6. QED
  BY <1>4, <1>5

\* A new file is populated.
LEMMA AllocateMaps ==
  ASSUME IInv, AllocateSlot, NEW n \in Inodes
  PROVE  Tenancy!Step(n)
<1>1. PICK s \in Slots : /\ s \in fill
                        /\ fd' = [fd EXCEPT ![s] = NewInode]
                        /\ live' = live \cup {NewInode}
                        /\ lease' = [lease EXCEPT ![s] = 0]
  BY DEF AllocateSlot, IInv, TypeOK
<1>2. /\ UNCHANGED <<grant, held>> /\ grant = NoSlot
      /\ fd \in [Slots -> Inodes \cup {NoInode}] /\ lease \in [Slots -> Leases]
      /\ fd[s] = NoInode
  BY <1>1 DEF AllocateSlot, FillTurn, peerVars, IInv, WorkInv, TypeOK
<1>3. /\ NewInode \in Inodes
      /\ \A t \in Slots : fd[t] # NewInode
      /\ \A p \in Peers : NewInode \notin held[p]
  BY NewInodeIsFresh DEF AllocateSlot
<1>4. CASE n = NewInode
  <2>1. Stage(n) = "empty"
    BY <1>2, <1>3, <1>4 DEF Stage
  <2>2. Stage(n)' = "clean"
    BY <1>1, <1>2, <1>4 DEF Stage
  <2>3. HoldersOf(n)' = {}
    BY <1>2, <1>3, <1>4 DEF HoldersOf
  <2>4. QED
    BY <2>1, <2>2, <2>3, StepOfFile
<1>5. CASE n # NewInode
  <2>1. HoldersOf(n)' = HoldersOf(n)
    BY <1>1, <1>2, <1>5 DEF HoldersOf
  <2>2. \A t \in Slots : fd'[t] = n <=> fd[t] = n
    BY <1>1, <1>2, <1>5, PeerAssumption
  <2>3. \A t \in Slots : fd[t] = n => lease'[t] = lease[t]
    BY <1>1, <1>2, PeerAssumption
  <2>4. n \in live' <=> n \in live
    BY <1>1, <1>5
  <2>5. Stage(n)' = Stage(n)
    BY <1>2, <2>2, <2>3, <2>4 DEF Stage
  <2>6. QED
    BY <2>1, <2>5, StepOfFile
<1>6. QED
  BY <1>4, <1>5

\* Processes only ever lose files, or pages of a file.
LEMMA PeerMaps ==
  ASSUME IInv, NEW p \in Peers, PeerStep(p), NEW n \in Inodes
  PROVE  Tenancy!Step(n)
<1>1. CASE Connect(p) \/ HangUp(p)
  BY <1>1, UntouchedFiles DEF Connect, HangUp, daemonVars, slotVars
<1>2. CASE Unmap(p)
  <2>1. /\ UNCHANGED <<fd, lease, live, grant>>
        /\ \A q \in Peers : held'[q] \subseteq held[q]
    BY <1>2 DEF Unmap, daemonVars, slotVars, IInv, TypeOK
  <2>2. HoldersOf(n)' \subseteq HoldersOf(n)
    BY <2>1 DEF HoldersOf
  <2>3. Stage(n)' \in {"empty", Stage(n)}
    BY <2>1 DEF Stage
  <2>4. QED
    BY <2>2, <2>3, StepOfFile
<1>3. CASE TruncateOwn(p)
  <2>1. UNCHANGED <<fd, lease, held, grant>> /\ live' \subseteq live
    BY <1>3 DEF TruncateOwn, peerVars
  <2>2. HoldersOf(n)' \subseteq HoldersOf(n)
    BY <2>1 DEF HoldersOf
  <2>3. Stage(n)' \in {"empty", Stage(n)}
    BY <2>1 DEF Stage
  <2>4. QED
    BY <2>2, <2>3, StepOfFile
<1>4. QED
  BY <1>1, <1>2, <1>3 DEF PeerStep

(***************************************************************************)
(* The steps that leave them alone.                                        *)
(***************************************************************************)

\* Decisions, failed system calls, and the bookkeeping between two of them.
LEMMA BookkeepingMaps ==
  ASSUME IInv, NEW n \in Inodes,
         \/ PollStops \/ PollReady \/ ServeDone \/ LoopEnd \/ Cleanup \/ Exit
         \/ DiscardFails \/ AllocateFails \/ WorkDone \/ ReplyFails
  PROVE  Tenancy!Step(n)
<1>1. UNCHANGED <<fd, lease, live, held>> /\ grant' \in {grant, NoSlot}
  BY DEF PollStops, PollReady, ServeDone, LoopEnd, Cleanup, Exit, DiscardFails,
     AllocateFails, WorkDone, ReplyFails, CloseClient, StartWork, slotVars, peerVars
<1>2. QED
  BY <1>1, UntouchedFiles

\* Requests other than ACQUIRE only decide what work there is to do.
LEMMA ServeMaps ==
  ASSUME IInv, NEW i \in Index, ServeStep(i), NEW n \in Inodes
  PROVE  Tenancy!Step(n)
<1>1. CASE ServeAcquire(i)
  BY <1>1, AcquireMaps
<1>2. CASE ServeEnd(i)
  <2>1. UNCHANGED <<fd, lease, live, held>> /\ grant' \in {grant, NoSlot}
    BY <1>2 DEF ServeEnd, CloseClient, StartWork, slotVars
  <2>2. QED
    BY <2>1, UntouchedFiles
<1>3. CASE ServeNoEffect(i) \/ ServeAllow(i)
  <2>1. UNCHANGED <<fd, lease, live, held>> /\ grant' \in {grant, NoSlot}
    BY <1>3 DEF ServeNoEffect, ServeAllow, Request, ReplyWith, slotVars
  <2>2. QED
    BY <2>1, UntouchedFiles
<1>4. CASE \/ ServeRelease(i) \/ ServeFree(i) \/ ServeDeny(i) \/ ServeRevoke(i)
           \/ ServeResize(i) \/ ServeRefill(i)
  <2>1. UNCHANGED <<fd, lease, live, held>> /\ grant' \in {grant, NoSlot}
    BY <1>4 DEF ServeRelease, ServeFree, ServeDeny, ServeRevoke, ServeResize,
       ServeRefill, Request, StartWork, slotVars
  <2>2. QED
    BY <2>1, UntouchedFiles
<1>5. QED
  BY <1>1, <1>2, <1>3, <1>4 DEF ServeStep

\* Connections are accepted or turned away.
LEMMA AcceptMaps ==
  ASSUME IInv, NEW l \in Listeners, AcceptStep(l), NEW n \in Inodes
  PROVE  Tenancy!Step(n)
<1>1. UNCHANGED <<fd, lease, live, held>> /\ grant' \in {grant, NoSlot}
  BY DEF AcceptStep, AcceptClient, AcceptRejects, AcceptExhausted, AcceptDone,
     slotVars, peerVars
<1>2. QED
  BY <1>1, UntouchedFiles

(***************************************************************************)
(* The daemon implements FileTenancy.                                      *)
(***************************************************************************)

\* At start-up no file exists.
LEMMA InitMaps == Init => Tenancy!Init
BY DEF Init, Tenancy!Init, Stage, HoldersOf

\* Every step of the daemon or of a process is a step of every file.
LEMMA NextMaps ==
  ASSUME IInv, [Next]_vars
  PROVE  \A n \in Inodes : Tenancy!Step(n)
<1> SUFFICES ASSUME NEW n \in Inodes
             PROVE  Tenancy!Step(n)
  OBVIOUS
<1>1. CASE \/ PollStops \/ PollReady \/ ServeDone \/ LoopEnd \/ Cleanup \/ Exit
           \/ DiscardFails \/ AllocateFails \/ WorkDone \/ ReplyFails
  BY <1>1, BookkeepingMaps
<1>2. CASE \E i \in Index : ServeStep(i)
  BY <1>2, ServeMaps
<1>3. CASE DiscardSlot
  BY <1>3, DiscardMaps
<1>4. CASE AllocateSlot
  BY <1>4, AllocateMaps
<1>5. CASE ReplySent
  BY <1>5, ReplyMaps
<1>6. CASE \E l \in Listeners : AcceptStep(l)
  BY <1>6, AcceptMaps
<1>7. CASE \E p \in Peers : PeerStep(p)
  BY <1>7, PeerMaps
<1>8. CASE UNCHANGED vars
  BY <1>8, UntouchedFiles DEF vars
<1>9. QED
  BY <1>1, <1>2, <1>3, <1>4, <1>5, <1>6, <1>7, <1>8 DEF Next, DaemonStep

\* Between two processes a memory file is always wiped (discard_slot before
\* allocate_slot or ACQUIRE), whatever fails and whatever the processes do.
THEOREM FilesAreWiped == Spec => FilesAreWipedBetweenTenants
<1>1. IInv /\ [Next]_vars => [\A n \in Inodes : Tenancy!Step(n)]_Tenancy!vars
  BY NextMaps
<1>2. QED
  BY <1>1, InitMaps, InvariantHolds, PTL
     DEF Spec, FilesAreWipedBetweenTenants, Tenancy!Spec

=============================================================================
