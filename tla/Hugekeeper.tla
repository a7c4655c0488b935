----------------------------- MODULE Hugekeeper -----------------------------
(***************************************************************************)
(* The control plane of hugekeeperd (261027hugePage/src/daemon.c): one     *)
(* single-threaded poll loop that leases preallocated memory files (slots) *)
(* to connected processes and takes them back.                             *)
(*                                                                         *)
(* The daemon's handlers run one at a time, but each of their system calls *)
(* that can fail or that a tenant can observe (ftruncate, the allocation   *)
(* of a new memfd, sendmsg) is a step of its own, because tenants run, hang *)
(* up and use the memory they mapped between two of them.  A handler is    *)
(* split in three: it decides (Serve...), it discards and allocates slots  *)
(* one by one (Discard..., Allocate...), it replies (Reply...).            *)
(*                                                                         *)
(* A definition placed right before the one it varies (AfterLeaseReuses    *)
(* before AfterLease, ...) is a plausible mistake, used by no action; the  *)
(* mutation runs substitute it to see that the properties would notice.    *)
(***************************************************************************)
EXTENDS Integers, FiniteSets, Sequences

CONSTANTS
  MaxSlots,       \* MAX_SLOTS: slots are 0 .. MaxSlots - 1
  MaxCapacity,    \* max_bytes / slot_bytes
  InitialSlots,   \* --slots
  InitialAllowed, \* --allow-uid
  MaxUids,        \* MAX_UIDS: length of the authorization table
  LeaseModulus,   \* 2^64 in the code: lease numbers wrap to 0 here
  AdminClients,   \* ADMIN_CLIENTS: data clients start at this table index
  AdminLimit,     \* admin_client_limit
  DataLimit,      \* data_client_limit
  AcceptBatch,    \* 16: connections accepted per wakeup and listener
  Inodes,         \* memory files the kernel can hand out
  Peers,          \* processes, each with at most one connection at a time
  UidOf,          \* SO_PEERCRED uid of each process
  DaemonUid,      \* geteuid() of the daemon
  AdminPeers,     \* processes that connect to the admin socket
  NoInode, NoPeer

Slots      == 0 .. MaxSlots - 1
Uids       == {UidOf[p] : p \in Peers}
Leases     == 0 .. LeaseModulus - 1
AdminIndex == 0 .. AdminLimit - 1
DataIndex  == AdminClients .. AdminClients + DataLimit - 1
Index      == AdminIndex \cup DataIndex
NoIndex    == -1
NoSlot     == -1
Listeners  == {"admin", "data"}
ListenerOf(p) == IF p \in AdminPeers THEN "admin" ELSE "data"
TableOf(l)    == IF l = "admin" THEN AdminIndex ELSE DataIndex

ASSUME SizeAssumption ==
  /\ MaxSlots \in Nat /\ MaxCapacity \in Nat /\ MaxUids \in Nat
  /\ InitialSlots \in 0 .. MaxSlots /\ InitialSlots <= MaxCapacity
  /\ LeaseModulus \in Nat /\ LeaseModulus > 1
  /\ AdminClients \in Nat /\ AdminLimit \in 0 .. AdminClients
  /\ DataLimit \in Nat /\ AcceptBatch \in Nat \ {0}
ASSUME PeerAssumption ==
  /\ AdminPeers \subseteq Peers /\ NoPeer \notin Peers /\ NoInode \notin Inodes
  /\ InitialAllowed \subseteq Uids /\ Cardinality(InitialAllowed) <= MaxUids

VARIABLES
  \* struct slot slots[MAX_SLOTS], one function per field
  enabled, fd, lease, owner,
  \* the kernel: memory files whose size is not zero
  live,
  \* the other globals of daemon.c
  client,         \* clients[]: table index -> connected process or NoPeer
  allowed, capacity, next_lease, fatal_revoke, fatal_accept,
  \* where the daemon is: main loop, handler in progress
  pc, todo, wake, tries, cur, grant, op, drop, fill, added, target,
  \* the processes: connection, files they can still use
  link, hungup, backlog, held

slotVars   == <<enabled, fd, lease, owner, live>>
tableVars  == <<client, allowed, capacity, next_lease, fatal_revoke, fatal_accept>>
loopVars   == <<todo, wake, tries>>
workVars   == <<op, drop, fill, added, target>>
daemonVars == <<slotVars, tableVars, loopVars, pc, cur, grant, workVars>>
peerVars   == <<link, hungup, backlog, held>>
vars       == <<enabled, fd, lease, owner, live, client, allowed, capacity,
                next_lease, fatal_revoke, fatal_accept, pc, todo, wake, tries,
                cur, grant, op, drop, fill, added, target,
                link, hungup, backlog, held>>

Ops == {"NONE", "CLOSE", "RELEASE", "REVOKE", "DENY", "FREE", "SHRINK", "GROW",
        "ROLLBACK", "REFILL", "ABORT", "CLEANUP"}
PCs == {"poll", "serve", "work", "reply", "accept", "cleanup", "stopped"}

(***************************************************************************)
(* Helpers                                                                 *)
(***************************************************************************)

LeasedSlots   == {s \in Slots : lease[s] # 0}
DisabledSlots == {s \in Slots : ~enabled[s]}
IdleSlots     == {s \in Slots : enabled[s] /\ lease[s] = 0}
LeasesOf(i)   == {s \in Slots : lease[s] # 0 /\ owner[s] = i}

\* next_lease++ on a 64-bit counter; 0 means that the numbers are used up.
AfterLeaseReuses(n) == IF n = LeaseModulus - 1 THEN 1 ELSE n + 1
AfterLeaseUnwrapped(n) == n + 1
AfterLease(n) == (n + 1) % LeaseModulus

\* The slots resize_pool grows into: the lowest disabled ones.
Growth(n) == {s \in DisabledSlots :
                Cardinality({t \in DisabledSlots : t < s}) < n}

\* The slots resize_pool gives up: the highest that are not leased.
ShrinkageOneMore(n) == {s \in IdleSlots :
                          Cardinality({t \in IdleSlots : t > s}) <= n}
Shrinkage(n) == {s \in IdleSlots :
                   Cardinality({t \in IdleSlots : t > s}) < n}

\* A memfd is a new inode: one to which neither the daemon nor a process has
\* a descriptor or a mapping.
FreeInodes == Inodes \ ({fd[s] : s \in Slots} \cup UNION {held[p] : p \in Peers})
NewInode   == CHOOSE n \in FreeInodes : TRUE

Fatal == fatal_revoke \/ fatal_accept

\* Table entries in use, and those whose process has hung up: poll() always
\* reports the latter, the others when a request has arrived.
Connected == {i \in Index : client[i] # NoPeer}
HungUp    == {i \in Connected : hungup[client[i]]}

\* The handler needs no slot work: it replies, with a descriptor or without.
ReplyWith(s) ==
  /\ pc' = "reply"
  /\ grant' = s
  /\ UNCHANGED workVars

\* The handler goes on to discard the slots d and allocate the slots f.
StartWork(o, d, f, t) ==
  /\ pc' = "work"
  /\ op' = o /\ drop' = d /\ fill' = f /\ added' = {} /\ target' = t
  /\ grant' = NoSlot

ClearWork == op' = "NONE" /\ drop' = {} /\ fill' = {} /\ added' = {} /\ target' = 0

(***************************************************************************)
(* Start-up: main() has opened the listeners and calls resize_pool.        *)
(***************************************************************************)

Init ==
  /\ enabled = [s \in Slots |-> FALSE]
  /\ fd = [s \in Slots |-> NoInode]
  /\ lease = [s \in Slots |-> 0]
  /\ owner = [s \in Slots |-> NoIndex]
  /\ live = {}
  /\ client = [i \in Index |-> NoPeer]
  /\ allowed = InitialAllowed
  /\ capacity = 0
  /\ next_lease = 1
  /\ fatal_revoke = FALSE /\ fatal_accept = FALSE
  /\ pc = "work" /\ op = "GROW"
  /\ drop = {} /\ fill = 0 .. InitialSlots - 1 /\ added = {} /\ target = InitialSlots
  /\ todo = {} /\ wake = {} /\ tries = 0 /\ cur = NoIndex /\ grant = NoSlot
  /\ link = [p \in Peers |-> "none"]
  /\ hungup = [p \in Peers |-> FALSE]
  /\ backlog = [l \in Listeners |-> <<>>]
  /\ held = [p \in Peers |-> {}]

(***************************************************************************)
(* The processes.                                                          *)
(***************************************************************************)

Connect(p) ==
  /\ pc # "stopped"
  /\ link[p] = "none"
  /\ link' = [link EXCEPT ![p] = "backlog"]
  /\ hungup' = [hungup EXCEPT ![p] = FALSE]
  /\ backlog' = [backlog EXCEPT ![ListenerOf(p)] = Append(@, p)]
  /\ UNCHANGED <<daemonVars, held>>

\* The process closes its end, or dies; queued requests are still delivered.
HangUp(p) ==
  /\ link[p] # "none" /\ ~hungup[p]
  /\ hungup' = [hungup EXCEPT ![p] = TRUE]
  /\ UNCHANGED <<daemonVars, link, backlog, held>>

\* munmap and close of a received file, whatever the state of its lease.
Unmap(p) ==
  \E n \in held[p] :
    /\ held' = [held EXCEPT ![p] = @ \ {n}]
    /\ UNCHANGED <<daemonVars, link, hungup, backlog>>

\* F_SEAL_SHRINK is not set: a tenant may truncate the file it was given.
TruncateOwn(p) ==
  \E n \in held[p] \cap live :
    /\ live' = live \ {n}
    /\ UNCHANGED <<enabled, fd, lease, owner, tableVars, loopVars, pc, cur, grant, workVars, peerVars>>

(***************************************************************************)
(* The main loop: poll, and the order in which its events are handled.     *)
(***************************************************************************)

\* SIGTERM, SIGINT, or poll itself fails.
PollStops ==
  /\ pc = "poll"
  /\ pc' = "cleanup"
  /\ UNCHANGED <<slotVars, tableVars, loopVars, cur, grant, workVars, peerVars>>

PollReadyStarvingAccept ==
  /\ pc = "poll"
  /\ \E senders \in SUBSET Connected : todo' = senders \cup HungUp
  /\ wake' = IF todo' = {} THEN {l \in Listeners : backlog[l] # <<>>} ELSE {}
  /\ todo' # {} \/ wake' # {}
  /\ tries' = 0
  /\ pc' = "serve"
  /\ UNCHANGED <<slotVars, tableVars, cur, grant, workVars, peerVars>>
PollReady ==
  /\ pc = "poll"
  /\ \E senders \in SUBSET Connected : todo' = senders \cup HungUp
  /\ wake' = {l \in Listeners : backlog[l] # <<>>}
  /\ todo' # {} \/ wake' # {}
  /\ tries' = 0
  /\ pc' = "serve"
  /\ UNCHANGED <<slotVars, tableVars, cur, grant, workVars, peerVars>>

ServeDone ==
  /\ pc = "serve"
  /\ todo = {} \/ fatal_revoke
  /\ todo' = {}
  /\ pc' = "accept"
  /\ UNCHANGED <<slotVars, tableVars, wake, tries, cur, grant, workVars, peerVars>>

(***************************************************************************)
(* close_client: drop the table entry, then recycle the leases it owned.   *)
(***************************************************************************)

CloseClient(i) ==
  /\ client' = [client EXCEPT ![i] = NoPeer]
  /\ link' = [link EXCEPT ![client[i]] = "none"]
  /\ hungup' = [hungup EXCEPT ![client[i]] = FALSE]
  /\ StartWork("CLOSE", {s \in LeasesOf(i) : enabled[s]}, {}, 0)
  /\ cur' = NoIndex

(***************************************************************************)
(* receive_request for the first client of the poll snapshot.              *)
(***************************************************************************)

\* The client whose turn it is; the loop ends when a revocation has failed.
TurnAfterFatal(i) ==
  /\ pc = "serve"
  /\ i \in todo /\ \A j \in todo : i <= j
  /\ todo' = todo \ {i}
  /\ UNCHANGED <<wake, tries>>
Turn(i) ==
  /\ pc = "serve" /\ ~fatal_revoke
  /\ i \in todo /\ \A j \in todo : i <= j
  /\ todo' = todo \ {i}
  /\ UNCHANGED <<wake, tries>>

\* End of file, or recvmsg fails.
ServeEnd(i) ==
  /\ Turn(i)
  /\ CloseClient(i)
  /\ UNCHANGED <<slotVars, allowed, capacity, next_lease, fatal_revoke, fatal_accept,
                 backlog, held>>

\* A request is taken off the socket, possibly one sent before a hang-up.
Request(i) ==
  /\ Turn(i)
  /\ cur' = i
  /\ UNCHANGED <<client, fatal_revoke, fatal_accept, link, hungup, backlog, held>>

\* PING, STATUS, malformed packets and every request that is refused.
ServeNoEffect(i) ==
  /\ Request(i)
  /\ ReplyWith(NoSlot)
  /\ UNCHANGED <<slotVars, allowed, capacity, next_lease>>

\* The first slot ACQUIRE would take.
FirstReady(s) ==
  /\ enabled[s] /\ fd[s] # NoInode /\ lease[s] = 0
  /\ \A t \in Slots : enabled[t] /\ fd[t] # NoInode /\ lease[t] = 0 => s <= t

MayAcquire(i) ==
  /\ UidOf[client[i]] \in allowed
  /\ LeasesOf(i) = {}
  /\ next_lease # 0

ServeAcquire(i) ==
  /\ Request(i)
  /\ i \in DataIndex
  /\ MayAcquire(i)
  /\ \E s \in Slots :
       /\ FirstReady(s)
       /\ lease' = [lease EXCEPT ![s] = next_lease]
       /\ owner' = [owner EXCEPT ![s] = i]
       /\ ReplyWith(s)
  /\ next_lease' = AfterLease(next_lease)
  /\ UNCHANGED <<enabled, fd, live, allowed, capacity>>

ServeReleaseWithoutRecycle(i) ==
  /\ Request(i)
  /\ i \in DataIndex
  /\ \E s \in LeasesOf(i) :
       /\ lease' = [lease EXCEPT ![s] = 0]
       /\ owner' = [owner EXCEPT ![s] = NoIndex]
  /\ ReplyWith(NoSlot)
  /\ UNCHANGED <<enabled, fd, live, allowed, capacity, next_lease>>
ServeRelease(i) ==
  /\ Request(i)
  /\ i \in DataIndex
  /\ \E s \in LeasesOf(i) : StartWork("RELEASE", {s}, {}, 0)
  /\ UNCHANGED <<slotVars, allowed, capacity, next_lease>>

ServeFree(i) ==
  /\ Request(i)
  /\ i \in AdminIndex
  /\ StartWork("FREE", Slots, {}, 0)
  /\ UNCHANGED <<slotVars, allowed, capacity, next_lease>>

ServeAllow(i) ==
  /\ Request(i)
  /\ i \in AdminIndex
  /\ \E u \in Uids :
       /\ u \in allowed \/ Cardinality(allowed) < MaxUids
       /\ allowed' = allowed \cup {u}
  /\ ReplyWith(NoSlot)
  /\ UNCHANGED <<slotVars, capacity, next_lease>>

\* Leased slots whose owner's table entry carries the credentials of uid u.
LeasesOfUid(u) ==
  {s \in LeasedSlots : client[owner[s]] # NoPeer /\ UidOf[client[owner[s]]] = u}

ServeDeny(i) ==
  /\ Request(i)
  /\ i \in AdminIndex
  /\ \E u \in Uids :
       /\ allowed' = allowed \ {u}
       /\ StartWork("DENY", LeasesOfUid(u), {}, 0)
  /\ UNCHANGED <<slotVars, capacity, next_lease>>

ServeRevoke(i) ==
  /\ Request(i)
  /\ i \in AdminIndex
  /\ \E s \in LeasedSlots : StartWork("REVOKE", {s}, {}, 0)
  /\ UNCHANGED <<slotVars, allowed, capacity, next_lease>>

ServeResize(i) ==
  /\ Request(i)
  /\ i \in AdminIndex
  /\ \E n \in 0 .. MaxSlots :
       /\ n <= MaxCapacity
       /\ n >= Cardinality(LeasedSlots)
       /\ IF n > capacity
          THEN StartWork("GROW", {}, Growth(n - capacity), n)
          ELSE StartWork("SHRINK", Shrinkage(capacity - n), {}, n)
  /\ UNCHANGED <<slotVars, allowed, capacity, next_lease>>

ServeRefill(i) ==
  /\ Request(i)
  /\ i \in AdminIndex
  /\ StartWork("REFILL", {}, {s \in Slots : enabled[s] /\ fd[s] = NoInode}, 0)
  /\ UNCHANGED <<slotVars, allowed, capacity, next_lease>>

(***************************************************************************)
(* discard_slot and allocate_slot, one slot at a time.                     *)
(***************************************************************************)

\* Each recycle_slot allocates before the next discard; DENY discards all first.
DiscardTurnRecycling == pc = "work" /\ drop # {} /\ (op \in {"CLOSE", "DENY"} => fill = {})
DiscardTurn == pc = "work" /\ drop # {} /\ (op = "CLOSE" => fill = {})
FillTurn    == pc = "work" /\ fill # {} /\ ~DiscardTurn

\* The order of the loops: resize_pool shrinks from the top.
NextDrop(s) ==
  /\ s \in drop
  /\ \A t \in drop : IF op = "SHRINK" THEN t <= s ELSE s <= t

\* Handlers that allocate what they have discarded.
Recycles == op \in {"CLOSE", "RELEASE", "REVOKE", "DENY"}

\* ftruncate(fd, 0): whoever still has the file reaches no page through it.
NotTruncated(n) == live
Truncated(n) == live \ {n}

DiscardSlot ==
  /\ DiscardTurn
  /\ \E s \in drop :
       /\ NextDrop(s)
       /\ live' = Truncated(fd[s])
       /\ fd' = [fd EXCEPT ![s] = NoInode]
       /\ lease' = [lease EXCEPT ![s] = 0]
       /\ owner' = [owner EXCEPT ![s] = NoIndex]
       /\ enabled' = [enabled EXCEPT ![s] = @ /\ op \notin {"FREE", "SHRINK"}]
       /\ drop' = drop \ {s}
       /\ fill' = IF Recycles THEN fill \cup {s} ELSE fill
  /\ UNCHANGED <<tableVars, loopVars, pc, cur, grant, op, added, target, peerVars>>

\* ftruncate fails: the slot keeps its file, its lease and its owner.
DiscardFails ==
  /\ DiscardTurn
  /\ \E s \in drop :
       /\ NextDrop(s)
       /\ fd[s] # NoInode
       /\ fatal_revoke' = TRUE
       /\ IF op \in {"CLOSE", "ROLLBACK", "CLEANUP"}
          THEN drop' = drop \ {s} /\ UNCHANGED <<fill, op>>
          ELSE drop' = {} /\ fill' = {} /\ op' = "ABORT"
  /\ UNCHANGED <<slotVars, client, allowed, capacity, next_lease, fatal_accept,
                 loopVars, pc, cur, grant, added, target, peerVars>>

AllocateSlot ==
  /\ FillTurn
  /\ FreeInodes # {}
  /\ \E s \in fill :
       /\ \A t \in fill : s <= t
       /\ fd' = [fd EXCEPT ![s] = NewInode]
       /\ live' = live \cup {NewInode}
       /\ lease' = [lease EXCEPT ![s] = 0]
       /\ owner' = [owner EXCEPT ![s] = NoIndex]
       /\ fill' = fill \ {s}
       /\ added' = IF op = "GROW" THEN added \cup {s} ELSE added
  /\ UNCHANGED <<enabled, tableVars, loopVars, pc, cur, grant, op, drop, target, peerVars>>

\* No memory: the slot is degraded, or the growth is rolled back.
AllocateFails ==
  /\ FillTurn
  /\ \E s \in fill :
       /\ \A t \in fill : s <= t
       /\ IF op = "GROW"
          THEN fill' = {} /\ drop' = added /\ op' = "ROLLBACK"
          ELSE fill' = fill \ {s} /\ UNCHANGED <<drop, op>>
  /\ UNCHANGED <<slotVars, tableVars, loopVars, pc, cur, grant, added, target, peerVars>>

\* Where the daemon goes on: at start-up there is nobody to answer.
AfterWork ==
  IF op = "CLOSE" THEN "serve"
  ELSE IF cur # NoIndex THEN "reply"
  ELSE IF op = "GROW" THEN "poll"
  ELSE "cleanup"

WorkDone ==
  /\ pc = "work" /\ drop = {} /\ fill = {} /\ op # "CLEANUP"
  /\ pc' = AfterWork
  /\ enabled' = [s \in Slots |-> enabled[s] \/ (op = "GROW" /\ s \in added)]
  /\ capacity' = IF op \in {"GROW", "SHRINK", "FREE"} THEN target ELSE capacity
  /\ ClearWork
  /\ UNCHANGED <<fd, lease, owner, live, client, allowed, next_lease, fatal_revoke,
                 fatal_accept, loopVars, cur, grant, peerVars>>

(***************************************************************************)
(* reply: the descriptor travels with the answer, or the client is closed. *)
(***************************************************************************)

ReplySent ==
  /\ pc = "reply"
  /\ ~hungup[client[cur]]
  /\ held' = IF grant = NoSlot THEN held
             ELSE [held EXCEPT ![client[cur]] = @ \cup {fd[grant]}]
  /\ pc' = "serve" /\ cur' = NoIndex /\ grant' = NoSlot
  /\ UNCHANGED <<slotVars, tableVars, loopVars, workVars,
                 link, hungup, backlog>>

\* The peer is gone, or its receive buffer is full (MSG_DONTWAIT).
ReplyFails ==
  /\ pc = "reply"
  /\ CloseClient(cur)
  /\ UNCHANGED <<slotVars, allowed, capacity, next_lease, fatal_revoke, fatal_accept,
                 loopVars, backlog, held>>

(***************************************************************************)
(* accept_clients: the admin listener first, then the data listener.       *)
(***************************************************************************)

Accepting(l) ==
  /\ pc = "accept"
  /\ l \in wake /\ (l = "data" => "admin" \notin wake)

\* The loop counter that bounds the work of one wakeup.
NotCounted(n) == n
Counted(n) == n + 1

HasNext(l) == backlog[l] # <<>> /\ tries < AcceptBatch

\* getsockopt(SO_PEERCRED): the admin socket is for the daemon's own uid.
Admissible(l, p) == l = "admin" => UidOf[p] = DaemonUid

FreeEntry(l, i) ==
  /\ i \in TableOf(l) /\ client[i] = NoPeer
  /\ \A j \in TableOf(l) : client[j] = NoPeer => i <= j

AcceptClient(l) ==
  /\ Accepting(l) /\ HasNext(l)
  /\ LET p == Head(backlog[l]) IN
       /\ Admissible(l, p)
       /\ \E i \in Index :
            /\ FreeEntry(l, i)
            /\ client' = [client EXCEPT ![i] = p]
       /\ link' = [link EXCEPT ![p] = "open"]
  /\ backlog' = [backlog EXCEPT ![l] = Tail(@)]
  /\ tries' = Counted(tries)
  /\ UNCHANGED <<slotVars, allowed, capacity, next_lease, fatal_revoke, fatal_accept,
                 todo, wake, pc, cur, grant, workVars, hungup, held>>

\* Wrong credentials, or no room in the client table.
AcceptRejects(l) ==
  /\ Accepting(l) /\ HasNext(l)
  /\ LET p == Head(backlog[l]) IN
       /\ ~Admissible(l, p) \/ \A i \in TableOf(l) : client[i] # NoPeer
       /\ link' = [link EXCEPT ![p] = "none"]
       /\ hungup' = [hungup EXCEPT ![p] = FALSE]
  /\ backlog' = [backlog EXCEPT ![l] = Tail(@)]
  /\ tries' = Counted(tries)
  /\ UNCHANGED <<slotVars, tableVars, todo, wake, pc, cur, grant, workVars, held>>

\* EMFILE or ENFILE: the daemon will stop at the end of this iteration.
AcceptExhausted(l) ==
  /\ Accepting(l) /\ HasNext(l)
  /\ fatal_accept' = TRUE
  /\ wake' = wake \ {l}
  /\ tries' = 0
  /\ UNCHANGED <<slotVars, client, allowed, capacity, next_lease, fatal_revoke,
                 todo, pc, cur, grant, workVars, peerVars>>

AcceptDone(l) ==
  /\ Accepting(l) /\ ~HasNext(l)
  /\ wake' = wake \ {l}
  /\ tries' = 0
  /\ UNCHANGED <<slotVars, tableVars, todo, pc, cur, grant, workVars, peerVars>>

LoopEnd ==
  /\ pc = "accept" /\ wake = {}
  /\ pc' = IF Fatal THEN "cleanup" ELSE "poll"
  /\ UNCHANGED <<slotVars, tableVars, loopVars, cur, grant, workVars, peerVars>>

(***************************************************************************)
(* cleanup: connections are closed, slots discarded, listeners closed.     *)
(***************************************************************************)

\* cleanup discards every slot, leased or not.
UnleasedSlots == {s \in Slots : lease[s] = 0}
CleanupSlots == Slots

Cleanup ==
  /\ pc = "cleanup"
  /\ client' = [i \in Index |-> NoPeer]
  /\ link' = [p \in Peers |-> IF link[p] = "open" THEN "none" ELSE link[p]]
  /\ hungup' = [p \in Peers |-> hungup[p] /\ link[p] # "open"]
  /\ StartWork("CLEANUP", CleanupSlots, {}, 0)
  /\ UNCHANGED <<slotVars, allowed, capacity, next_lease, fatal_revoke, fatal_accept,
                 loopVars, cur, backlog, held>>

Exit ==
  /\ pc = "work" /\ op = "CLEANUP" /\ drop = {}
  /\ pc' = "stopped"
  /\ link' = [p \in Peers |-> "none"]
  /\ hungup' = [p \in Peers |-> FALSE]
  /\ backlog' = [l \in Listeners |-> <<>>]
  /\ ClearWork
  /\ UNCHANGED <<slotVars, tableVars, loopVars, cur, grant, held>>

ServeStep(i) ==
  \/ ServeEnd(i) \/ ServeNoEffect(i) \/ ServeAcquire(i) \/ ServeRelease(i)
  \/ ServeFree(i) \/ ServeAllow(i) \/ ServeDeny(i) \/ ServeRevoke(i)
  \/ ServeResize(i) \/ ServeRefill(i)

AcceptStep(l) ==
  \/ AcceptClient(l) \/ AcceptRejects(l) \/ AcceptExhausted(l) \/ AcceptDone(l)

DaemonStep ==
  \/ PollStops \/ PollReady
  \/ ServeDone \/ \E i \in Index : ServeStep(i)
  \/ DiscardSlot \/ DiscardFails \/ AllocateSlot \/ AllocateFails \/ WorkDone
  \/ ReplySent \/ ReplyFails
  \/ \E l \in Listeners : AcceptStep(l)
  \/ LoopEnd \/ Cleanup \/ Exit

PeerStep(p) == Connect(p) \/ HangUp(p) \/ Unmap(p) \/ TruncateOwn(p)

Next == DaemonStep \/ \E p \in Peers : PeerStep(p)

Spec == Init /\ [][Next]_vars

(***************************************************************************)
(* The daemon is one thread the kernel schedules: it never stops between   *)
(* two instructions for ever.  A process that has hung up sends no more, so *)
(* the requests it left on its socket run out and recvmsg returns 0.       *)
(* Nothing is assumed of the processes.                                    *)
(***************************************************************************)
EndOfFile(p) == \E i \in Index : client[i] = p /\ hungup[p] /\ ServeEnd(i)

FairSpec == Spec /\ WF_vars(DaemonStep) /\ \A p \in Peers : SF_vars(EndOfFile(p))


(***************************************************************************)
(* Properties.                                                             *)
(***************************************************************************)

\* Every variable has the type of its C declaration.
TypeOK ==
  /\ enabled \in [Slots -> BOOLEAN]
  /\ fd \in [Slots -> Inodes \cup {NoInode}]
  /\ lease \in [Slots -> Leases]
  /\ owner \in [Slots -> Index \cup {NoIndex}]
  /\ live \subseteq Inodes
  /\ client \in [Index -> Peers \cup {NoPeer}]
  /\ allowed \subseteq Uids
  /\ capacity \in 0 .. MaxSlots
  /\ next_lease \in Leases
  /\ fatal_revoke \in BOOLEAN /\ fatal_accept \in BOOLEAN
  /\ pc \in PCs /\ op \in Ops
  /\ todo \subseteq Index /\ wake \subseteq Listeners /\ tries \in 0 .. AcceptBatch
  /\ cur \in Index \cup {NoIndex} /\ grant \in Slots \cup {NoSlot}
  /\ drop \subseteq Slots /\ fill \subseteq Slots /\ added \subseteq Slots
  /\ target \in 0 .. MaxSlots
  /\ link \in [Peers -> {"none", "backlog", "open"}]
  /\ hungup \in [Peers -> BOOLEAN]
  /\ backlog \in [Listeners -> Seq(Peers)]
  /\ held \in [Peers -> SUBSET Inodes]

\* "An old FD must never refer to the next tenant's pages" (discard_slot):
\* no memory file that still has pages is in the hands of two processes.
ExclusiveTenancy ==
  \A p, q \in Peers : p # q => held[p] \cap held[q] \cap live = {}

\* A process can reach pages only through a lease the daemon still accounts
\* to the very connection it was granted on, or is just about to discard
\* because that connection is closed.  Once a revocation has failed,
\* the entry of a closed connection may be reused before the daemon stops;
\* the file then at least stays in a leased slot, so nobody else gets it.
CapabilityIsLeased ==
  \A p \in Peers : \A n \in held[p] \cap live : \E s \in Slots :
    /\ fd[s] = n /\ lease[s] # 0
    /\ fatal_revoke \/ s \in drop \/ (owner[s] \in Index /\ client[owner[s]] = p)

\* RELEASE and REVOKE name a slot by its lease number alone: two live leases
\* never share a number, also when the 64-bit counter reaches its end.
LeaseNumbersAreUnique ==
  \A s, t \in LeasedSlots : lease[s] = lease[t] => s = t

\* Between requests, capacity counts the enabled slots, the byte ceiling
\* holds, and every lease is on an enabled slot.
PoolAccounting ==
  /\ capacity <= MaxCapacity
  /\ pc \in {"poll", "serve", "accept"} /\ ~fatal_revoke =>
       /\ Cardinality({s \in Slots : enabled[s]}) = capacity
       /\ \A s \in Slots : enabled[s] \/ fd[s] = NoInode

\* After a normal stop no process reaches any page, unless ftruncate failed.
StoppedMeansRevoked ==
  pc = "stopped" /\ ~fatal_revoke => \A p \in Peers : held[p] \cap live = {}

\* "No client keeps access while an earlier slot is refilled" (DENY): in the
\* step that allocates a slot no denied process has pages left.
RevokeBeforeRefill ==
  [][\A s \in Slots : op = "DENY" /\ fd[s] = NoInode /\ fd'[s] # NoInode =>
       \A p \in Peers : UidOf[p] \notin allowed => held[p] \cap live = {}]_vars

\* "If truncate fails, retain the FD and stop serving requests": from then on
\* no slot is leased and no process receives a descriptor.
NoGrantAfterFatalRevoke ==
  [][fatal_revoke => /\ \A s \in Slots : lease'[s] \in {0, lease[s]}
                     /\ \A p \in Peers : held'[p] \subseteq held[p]]_vars

\* What a memory file is to FileTenancy.
Stage(n) ==
  IF n \notin live THEN "empty"
  ELSE IF grant # NoSlot /\ fd[grant] = n THEN "granted"
  ELSE IF \E s \in Slots : fd[s] = n /\ lease[s] = 0 THEN "clean"
  ELSE IF \E s \in Slots : fd[s] = n THEN "used"
  ELSE IF \E p \in Peers : n \in held[p] THEN "used"
  ELSE "empty"
HoldersOf(n) == {p \in Peers : n \in held[p] \cap live}

\* The daemon implements FileTenancy: between two processes a file is always
\* wiped, also when the first had given it back of its own accord, and through
\* failures in the middle of a handler.
Tenancy == INSTANCE FileTenancy WITH
  Files <- Inodes, Processes <- Peers,
  stage <- [n \in Inodes |-> Stage(n)], holders <- [n \in Inodes |-> HoldersOf(n)]
FilesAreWipedBetweenTenants == Tenancy!Spec

\* A connection whose process is gone is closed and its lease recycled, or
\* the daemon stops: other clients cannot starve this.
DeadConnectionsAreReaped ==
  \A p \in Peers : link[p] = "open" /\ hungup[p] ~> link[p] # "open"

\* "Bounded work per wakeup prevents a connection flood starving leases":
\* a process in the listen queue is accepted or turned away, or the daemon stops.
BacklogIsServed ==
  \A p \in Peers : link[p] = "backlog" ~> link[p] # "backlog"

(***************************************************************************)
(* The inductive invariant behind ExclusiveTenancy and CapabilityIsLeased. *)
(***************************************************************************)

\* What the handler in progress may assume: slots about to be allocated have
\* no file, recycling is for enabled slots, and a disabled slot has a file only
\* while the pool is growing or the growth is being undone.
WorkInv ==
  /\ pc # "work" => op = "NONE" /\ drop = {} /\ fill = {} /\ added = {}
  /\ pc # "reply" => grant = NoSlot
  /\ pc = "reply" => cur \in Index
  /\ \A s \in fill : s \notin drop /\ fd[s] = NoInode /\ (op # "GROW" => enabled[s])
  /\ \A s \in drop : Recycles => enabled[s]
  /\ \A s \in Slots : ~enabled[s] /\ fd[s] # NoInode =>
       \/ fatal_revoke
       \/ op = "GROW" /\ s \in added
       \/ op = "ROLLBACK" /\ s \in drop

\* No two slots share a file, a lease needs a file, a file that is not leased
\* is in nobody's hands, and one being granted is not yet in anybody's.
FileInv ==
  /\ \A s, t \in Slots : fd[s] = fd[t] /\ fd[s] # NoInode => s = t
  /\ \A s \in Slots : lease[s] # 0 => fd[s] # NoInode /\ enabled[s]
  /\ \A s \in Slots, p \in Peers : fd[s] \in held[p] => lease[s] # 0
  /\ \A p \in Peers : \A n \in held[p] \cap live : \E s \in Slots : fd[s] = n
  /\ grant # NoSlot => /\ lease[grant] # 0 /\ owner[grant] = cur
                       /\ \A p \in Peers : fd[grant] \notin held[p]

OwnerInv ==
  \A s \in Slots, p \in Peers : fd[s] \in held[p] \cap live =>
    \/ fatal_revoke
    \/ s \in drop
    \/ owner[s] \in Index /\ client[owner[s]] = p

\* Type correctness and the three parts, with the property they preserve.
IInv == TypeOK /\ WorkInv /\ FileInv /\ OwnerInv /\ ExclusiveTenancy

(***************************************************************************)
(* The inductive invariants behind the other safety properties; each one   *)
(* is inductive together with IInv.                                        *)
(***************************************************************************)

\* Lease numbers are handed out in their order, and are never used up twice.
NumberInv ==
  /\ LeaseNumbersAreUnique
  /\ \A s \in Slots : next_lease # 0 => lease[s] < next_lease

\* Nothing is being granted, or denied, after a revocation has failed.
FatalInv == fatal_revoke => grant = NoSlot /\ op # "DENY"

\* A lease belongs to a connection whose uid is allowed; otherwise it is about
\* to be discarded.
DenyInv ==
  \A s \in LeasedSlots :
    \/ fatal_revoke
    \/ s \in drop
    \/ owner[s] \in Index /\ client[owner[s]] # NoPeer /\ UidOf[client[owner[s]]] \in allowed

\* Once cleanup has begun there are no clients.
CleanupInv == op = "CLEANUP" \/ pc = "stopped" => \A i \in Index : client[i] = NoPeer

\* What resize_pool and free_idle_pool have counted on so far, while they enable
\* or disable slots.
EnabledSlots == {s \in Slots : enabled[s]}
CountInv ==
  /\ capacity <= MaxCapacity /\ target <= MaxCapacity
  /\ ~fatal_revoke =>
       CASE op = "SHRINK" -> drop \subseteq EnabledSlots
                             /\ Cardinality(EnabledSlots \ drop) = target
         [] op = "FREE"   -> EnabledSlots \subseteq drop /\ target = 0
         [] OTHER         -> Cardinality(EnabledSlots) = capacity
  /\ op = "GROW" => /\ added \cap fill = {} /\ (added \cup fill) \cap EnabledSlots = {}
                    /\ Cardinality(added) + Cardinality(fill) = target - capacity

\* The clients still to be served are connected, and none of them is the one
\* being answered; outside the loop over the poll snapshot there are none.
TodoInv ==
  /\ \A i \in todo : client[i] # NoPeer /\ i # cur
  /\ pc \notin {"serve", "work", "reply"} => todo = {}
  /\ pc \in {"poll", "serve", "accept"} \/ op = "CLOSE" => cur = NoIndex
  /\ pc = "work" /\ ((cur = NoIndex /\ op # "CLOSE") \/ op = "CLEANUP") => todo = {}

PoolInv == NumberInv /\ FatalInv /\ DenyInv /\ CleanupInv /\ CountInv /\ TodoInv

=============================================================================
