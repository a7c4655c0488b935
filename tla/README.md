# Formal models of myChangGo

This directory holds TLA+ models, TLC configurations and TLAPS proofs about the parts of the
repository that have concurrency, failure or recovery to get right. The repository is a
collection of some forty-five independent projects; most of them are front ends, exercises or
data. `PROJECT.json` lists all of them, with the reason for each that is not modelled.

Three systems are modelled:

| System | Directory | Modules |
| --- | --- | --- |
| Hugekeeper, a broker of huge-page memory files | `261027hugePage` | `Hugekeeper`, which implements `FileTenancy`; `MCHugekeeper`; `Hugekeeper_proofs`, `Hugekeeper_pool`, `Hugekeeper_refinement` |
| RelayPlay, a server-relayed multiplayer harness | `260717WebGameP2PFramework` | `RoomEngine`, which implements `MatchLedger`; `RoomAlarms`; `RelaySession` on top of `SequenceBuffer`, which implements `EventFeed`; `MCRoomEngine`, `MCRoomAlarms`, `MCRelaySession`; `RoomEngine_proofs`, `RoomAlarms_proofs`, `RelaySession_proofs` |
| NSL kiosk, an order server that feeds a kitchen and a robot | `261023NSL-server`, `261023NSL-robot` | `KioskSessions`, which implements `TableOrder`; `KioskOutbox`; `MCKioskSessions`, `MCKioskOutbox`; `KioskSessions_proofs`, `KioskOutbox_proofs` |

Each system has one abstract specification of what it promises, of forty to fifty lines, and a
detailed one shown to implement it. A reader may start with those: `FileTenancy`, `MatchLedger`,
`EventFeed`, `TableOrder`.

## Inventory

### Hugekeeper (C)

`hugekeeperd` preallocates *slots*, each a sealed memfd with its pages populated, and hands the
file descriptor of a slot to a client over a Unix socket (`SCM_RIGHTS`). A client holds its
lease as long as its connection lives; when the connection ends, or an operator revokes the
lease, the daemon truncates the file to zero, so that a descriptor or mapping the old tenant
kept reaches no page, and allocates a new file for the slot.

| Part | State | Operations | Talks to |
| --- | --- | --- | --- |
| poll loop (`main`, `daemon.c:691-746`) | poll snapshot, stop flags | poll, serve, accept, stop | everything below |
| connection table (`accept_clients`, `close_client`) | `clients[]`, admin part and data part | accept, reject, close | listen queues, slots |
| data requests (`handle_data`) | `slots[].lease/owner`, `next_lease` | ACQUIRE, RELEASE, PING | reply |
| operator requests (`handle_admin`) | `allowed[]`, `capacity` | ALLOW, DENY, REVOKE, RESIZE, FREE, REFILL, STATUS | slots, reply |
| slots (`allocate_slot`, `discard_slot`, `recycle_slot`, `resize_pool`) | `slots[]`, kernel files | allocate, truncate, grow, shrink, roll back | kernel |
| client library, Python SDK, capacity estimate | one descriptor | blocking request/reply | daemon |

Hard: a client dies between any two system calls of a handler; `ftruncate`, the allocation and
`sendmsg` fail one by one in the middle of handlers that work on several slots; leases refer to
their owner by table index and to themselves by a 64-bit counter; tenants keep what they mapped
and may truncate it themselves. Correct means: no page is ever in the hands of two tenants, a
revocation that failed stops the daemon before anything else is granted, the accounting of the
pool survives partial failure, and dead connections are reaped whatever the others do.

### RelayPlay (TypeScript)

| Part | State | Operations | Talks to |
| --- | --- | --- | --- |
| room engine (`packages/server/src/room-engine.ts`) | per-room queue | connect, disconnect, ready, progress, interaction, evidence, finish, ack, resume, sweep | storage, broadcaster (ports) |
| storage (`memory.ts`, `sqlite-storage.ts`, Cloudflare `storage.ts`) | rooms, sessions, events, idempotency rows | commitCanonical, putSession, ... | database |
| Node gateway and broadcaster | sockets, active connection per player | upgrade, activate, detach, fan-out, slow-consumer cut-off | engine, clients |
| alarms and server life cycle | one timer per room | schedule, run, recover, stop | engine |
| anonymous rooms | rooms, invites, guest credentials | create, join, authenticate | HTTP, engine |
| browser client | session, resume epoch, contiguous sequence, buffered events | connect, reconnect, acknowledge, gap recovery | gateway |
| Cloudflare provider | Durable Object | same engine, hibernating sockets | - |

The engine serialises the operations of a room through a FIFO promise queue; everything else
runs when it likes: sockets close while their connect is in progress, a reconnect overtakes the
close of the socket it replaces, retries arrive late, grace periods end, the process restarts.
Correct means: canonical events are applied once and in order, placements and the end of the
match follow from them, a player can come back as long as the match lasts and is forfeited if
he does not, nobody waits for ever for a socket that is gone.

### NSL kiosk (TypeScript)

| Part | State (one D1 database) | Operations | Talks to |
| --- | --- | --- | --- |
| sessions (`kiosk-api.ts`, `kiosk-store.ts`) | sessions with a lease, turns, confirmations, orders, service requests | turn, prepare, confirm | providers, outbox |
| outbox (`kiosk-outbox.ts`) | rows with status, attempts, due time, lease | enqueue, flush | receivers (HTTP) |
| translations (`kiosk-translations.ts`) | jobs with status, attempts, due time, lease | flush | provider, outbox |
| staff operations (`kiosk-operations.ts`) | stages, notes | send-robot, translate, retry, stage, note | outbox, translations |
| receivers (`receiver.ts`, `robot-receiver.ts`) | events by id | receive | - |

Every request may run in an isolate of its own; only a statement or a batch is atomic. Hard:
rows are read and claimed later; a call outlives its lease, or dies with it; receipts are lost
and requests arrive after their sender gave up; staff actions race with both flushes. Correct
means: one confirmation makes one order; an event has one content, is sent by one call at a time
and is never reopened once delivered; a foreign request reaches nobody untranslated, and the
robot only when the staff says so; what waits is delivered or shown as failed.

### Everything else

`260715LlmOrchestrator`, `mserver.c`, `jabda.go` and `260104` have some concurrency and are
candidates for later modules. The remaining projects are listed in `PROJECT.json` as not
modelled: content, notebooks, single-user front ends, signal processing, exercises.

## Plan

In order; what is not marked done is left.

1. `Hugekeeper`: invariants, action properties and refinement of `FileTenancy` proved (done).
2. `RoomEngine`: every safety property and the refinement of `MatchLedger` proved (done).
3. `RoomAlarms`: both action properties proved (done).
4. `SequenceBuffer`, `EventFeed`, `RelaySession`: invariants, the action property and the
   refinement of `EventFeed` proved (done).
5. `KioskSessions`: invariant, action properties and refinement of `TableOrder` proved (done).
6. `KioskOutbox`: every safety property proved (done).
7. Left to model, in this order: the stages of staff requests with their version counter,
   RelayPlay's anonymous rooms (seats, invites, credentials), the resume state a browser keeps
   across a reload, the small concurrent C and Go programs.

## Hugekeeper

### Correspondence

Every global of `daemon.c` that control depends on is a variable of the same name: `enabled`,
`fd`, `lease`, `owner` (the fields of `struct slot`), `client`, `allowed`, `capacity`,
`next_lease`, `fatal_revoke`, `fatal_accept`. `live` is the kernel's: the memory files that
still have pages. `held` is what the processes have received, by descriptor or mapping.
`link`, `hungup` and `backlog` are the sockets. The daemon is one thread, so a handler is not
interleaved with another; but its failing or observable system calls are separate steps, because
processes run in between. `pc` says where the daemon is, and `op`, `drop`, `fill`, `added`,
`target` what is left of a handler that works on several slots:

| Code | Actions |
| --- | --- |
| `poll`, event loop | `PollReady` (any subset of senders, and all who hung up), `PollStops`, `ServeDone`, `LoopEnd` |
| `receive_request`, `close_client` | `ServeEnd`, `ServeNoEffect` and one action per request |
| `handle_data` | `ServeAcquire`, `ServeRelease` |
| `handle_admin` | `ServeFree`, `ServeAllow`, `ServeDeny`, `ServeRevoke`, `ServeResize`, `ServeRefill` |
| `discard_slot`, `allocate_slot`, `recycle_slot`, `resize_pool` | `DiscardSlot`, `DiscardFails`, `AllocateSlot`, `AllocateFails`, `WorkDone` |
| `reply` | `ReplySent`, `ReplyFails` |
| `accept_clients` | `AcceptClient`, `AcceptRejects`, `AcceptExhausted`, `AcceptDone` |
| `cleanup` | `Cleanup`, `Exit` |

The processes (`Connect`, `HangUp`, `Unmap`, `TruncateOwn`) are external: what a client of the
socket can do. A new memfd is an inode nobody has a descriptor or mapping of. The lease counter
is taken modulo `LeaseModulus`, 2^64 in the code, and a request names the lease of any slot,
which over-approximates what a client can know. Not modelled: argument and path checks, the text
of STATUS, the split of the descriptor budget, death of the daemon by SIGKILL (the code claims
nothing for it: the tenants then keep their pages).

### Runs

| Run | Instance | Question |
| --- | --- | --- |
| `hugekeeper_tenancy` | two tenants of one uid, the operator, two slots | Does the daemon implement `FileTenancy`? Is every page in reach covered by a lease, revocation complete, nothing granted after a failed one, and the accounting of the pool right after failures half way? |
| `hugekeeper_live` | two tenants, a table with one entry, a listen batch of one | Are dead connections reaped and queued ones served? |

Two slots are needed for a handler to fail between them and for a pool to shrink and grow; two tenants
for a slot to pass from one to the other; two inodes for one slot to have a new file while the tenant
keeps the wiped one, or for both slots to have a file (with both in hands or use, an allocation fails);
a lease modulus of three for the counter to reach its end. A batch of one makes a wakeup as short as it
can be. Requests other than the operator's never name more than one slot, so a third slot adds no new
order of events. The symmetry of `hugekeeper_tenancy` exchanges tenants of the same uid and is used for
safety only. The daemon may stop (`pc = "stopped"`), hence no deadlock check.

`FileTenancy` follows one memory file: populated, granted, received by at most one process, wiped.
A file is mapped to its stage by what the slots, leases and the kernel say of it (`Stage`); the
holders are the processes that reach its pages. That exclusive tenancy survives a tenant who
gives a slot back and keeps his mapping is exactly that a file is wiped between two grants.

Fairness: weak for the daemon's next instruction (a runnable thread), strong for reading
end-of-file from a process that has hung up (its socket holds finitely many requests, and every
`poll` reports it). Nothing is assumed of a process.

### Proofs (`Hugekeeper_proofs`, `Hugekeeper_pool`, `Hugekeeper_refinement`)

For every pool size, table size, modulus and population, from `SizeAssumption` and
`PeerAssumption` alone:

- `InvariantHolds`: `Spec => []IInv`
- `TypeCorrect`: `Spec => []TypeOK`
- `TenancyIsExclusive`: `Spec => []ExclusiveTenancy`
- `CapabilitiesAreLeased`: `Spec => []CapabilityIsLeased`
- `PoolInvariant`: `Spec => [](IInv /\ PoolInv)`, and from it `NumbersAreUnique`,
  `PoolIsAccounted`, `StopRevokes` and the action properties `DenyRevokesFirst`, `NoGrantOnceFatal`
- `FilesAreWiped`: `Spec => FilesAreWipedBetweenTenants`, the refinement of `FileTenancy`

`ExclusiveTenancy` is not inductive: that a grant creates no second tenant depends on the file
being in nobody's hands when it is granted (`FileInv`: a file somebody holds is in a leased slot
or has no pages; no two slots share a file), which in turn depends on what the handler in
progress is going to do (`WorkInv`: a slot waiting to be allocated has no file; a disabled slot
has one only while growth is under way or being undone). `OwnerInv` ties the file to the
connection it was granted on, for `CapabilityIsLeased`. There is one lemma per action
(`...KeepsIInv`), with one step per conjunct; `NextKeepsIInv` puts them together.

`PoolInv` is inductive together with `IInv`. Each part is there for one property: `NumberInv` (a
live lease is older than the counter, unless that has run out) for the numbers; `CountInv` for the
accounting, which says how many slots `resize_pool` and `free_idle_pool` have still to disable, or
to undo, in each kind of work; `DenyInv` (the owner of a lease is connected and allowed, or the
lease is about to go) and `FatalInv` for the action properties; `CleanupInv` and `TodoInv` for a
stop, which may interrupt a loop over the poll snapshot. How many slots the daemon picks is counted
without induction: each slot is mapped to its rank among those eligible, which is injective
(`RankCount`, `LowerRank`, `UpperRank`; `GrowthCount` and `ShrinkageCount` are what the proof uses).

The refinement needs no stronger invariant. `StepOfFile` states the abstract step in terms of
stage and holders; `UntouchedFiles` deals with the actions that leave slots, files and hands
alone; a lemma for each remaining action says which abstract step every file takes.

`ExclusiveTenancy`, `IInv` and `PoolInv` are proved and not run: the refinement the runs check
implies the first, and the others are its proof and those of the runs' properties.

## RoomEngine

### Correspondence

One room on a durable storage. `status`, `participantIds`, `completedPlayerIds` and `sessions`
are the stored rows. `history` is every canonical event ever committed; what the storage still
has of it is computed: the last `EventLogCapacity` events, and the idempotency rows of all
events (memory, Cloudflare) or of the retained ones only (SQLite), which is the constant
`PrunesIdempotency`. `open` are the `RoomSession` objects the adapter holds, one per socket;
stale ones go on calling. Time is two flags: `startDue` (the clock has reached `startAt`) and
`due` of a session (disconnected for `disconnectGraceMs`). They are set independently, which
admits more orders than one clock does.

| Code | Actions |
| --- | --- |
| `connect` | `Join` or `Reconnect`, then `ActivateConnection` or `ActivateFails`, then perhaps `ScheduleStart` |
| `disconnect` | `Disconnect` |
| `handle` | `Ready` (then `ScheduleStart`), `Progress`, `Acknowledge`, `Interaction`, `Evidence`, `Finish` |
| `sweep`, `nextAlarmAt` | `Sweep`, `SweepSession` for each listed session, `SweepDone`; `AlarmDue` is the alarm's condition |
| `advanceRoom` | `Advanced` inside every operation; `AdvanceOnly` for a call that then ends in an error |
| `reconcileOpenSessions` after the process died | `Restart`, also between the writes of one operation |

`KeyedSerialQueue` makes an operation with a single write one action. Where the code writes,
calls out, and writes again, the operation is cut and `job` says what is left of it. The purge of
expired sessions that follows the last finish is one step with that finish: a crash between the
two leaves the state a grace period that ends a little later leaves. Validators, rate limits and
targets only ever refuse, which changes nothing but the advance of the room (`AdvanceOnly`).
Events for the clients and replay pages change no stored state here and are in `RelaySession`.

`MatchLedger` is what remains when sockets, sessions, sweeps and retention are taken away: a match
begins once with the players present, each is placed once and next, the last one ends it. `Phase`
and `Results` map a room to it.

### Runs

| Run | Instance | Question |
| --- | --- | --- |
| `room_match` | two players, three sockets, a log of one event, one restart | Is anything applied twice; does the log read like a match; do sessions and sockets agree? |
| `room_outcomes` | three players, no restart, no interactions | Does the room implement `MatchLedger` when forfeits and finishes race? Does the sweep start matches and forfeit leavers? |
| `room_sqlite_retention` | `PrunesIdempotency = TRUE` | Does SQLite retention keep the promise about retries? (It does not.) |
| `room_quorum_after_sweep` | three players, two needed | Does a ready quorum always start? (Not after a sweep.) |

Two reconnect epochs (`MaxEpoch = 2`) let one connection be replaced by another; with three sockets the
replaced, the current and a failing one exist at once. A log of one event is the worst case of
retention. Three players are needed for two forfeits to race with a finish, and for a quorum that
remains when one leaves. `MaxEvents` bounds interactions and evidence only; starts and finishes are
bounded by themselves; three leave room for an interaction that is repeated after its player has
finished. `room_outcomes` has one epoch, so a player who leaves stays away until his outcome or the
expiry of his session: coming back before the alarm is exercised in `room_match`, for safety. With
`MaxEpoch = 2` the invariant and each property of `room_outcomes` hold as well, checked one by one, in
up to some minutes each. The number of restarts, acknowledged sequence numbers and progress reports is
bounded by `MaxRestarts`, `MaxAcknowledged` and `MaxProgress`. No deadlock check: a finished room has
nothing left to do.

Fairness: the clock moves, an operation in progress continues (weak); a sweep that is due gets
its turn (strong: `KeyedSerialQueue` is first in, first out, so other operations cannot pass it
for ever). This needs the adapter's timer to exist. After a restart the Node adapter does not
always set one, so `room_outcomes` has no restart; `RoomAlarms` says which timers are lost.

### Proofs (`RoomEngine_proofs`)

For every set of players and connections, every capacity and any history:

- on every storage, from the inductive `SessionInv`: `SessionsHold`, `RowsAreTyped`,
  `SocketsAgree`, `ParticipantsKeepSessions`, and the action property `CountersGrow`;
- on a storage that keeps its idempotency rows (`~PrunesIdempotency`), from the inductive
  `MatchInv` on top of it: `RetriesAreAppliedOnce`, `LogIsOrdered`, `OutcomesAreComplete`,
  `OutcomesAreOrdinal`, and `RoomKeepsALedger`, the refinement of `MatchLedger`.

`SocketsAndSessionsAgree` says nothing while an activation is under way. `SocketInv` strengthens
it: the session that a failing activation would leave behind (`Settled`) agrees with its socket
throughout; `JobInv` says that nobody else has worked on the room since the operation in progress
stored its session, which is what the room's queue is for. `MatchInv` holds together because the
rows are complete: a finish that is looked up and not found is not in the log
(`FinishedWhenAllHaveOutcomes`), so placements count all of them. This is the step that fails with
`PrunesIdempotency`, and the finding below is its counterexample. The proof of `CountersGrow`
uses that what a failing activation restores is what it found.

`EngineAssumption` has the limits of the configuration. `ScopeAssumption` is needed because events
of a player are scoped by his id beside the scopes "room" and "finish": no player is called so.
Player ids are issued by the host of the package, which the code does not check for this.

### Findings

- **SQLite retention.** `commitCanonical` of `sqlite-storage.ts` deletes the idempotency rows of
  pruned events (line 424). After `eventLogCapacity` newer events (4096 by default, from 1) a
  retried interaction is applied again and a player can finish twice, against
  `docs/protocol.md:86` and `docs/architecture.md:129`. The test `bounds canonical and
  idempotency retention together` expects the deletion. Since `completedPlayerIds()` looks
  finishes up the same way, placements are then wrong too and the match may never end.
- **Quorum after a sweep.** `sweep` deletes an expired session of a waiting room without calling
  `maybeScheduleStart`. If it was the only one not ready, the others wait until one of them sends
  `ready` again (`docs/architecture.md:136`: "waiting -- ready quorum --> canonical future
  start").

## RoomAlarms

### Correspondence

A Node server keeps at most one timer per room in `#timers`, set by `schedule()` to what
`nextAlarmAt` returns, and nothing else wakes a room up. `mapped` is that timer; `leaked` are
timers that still run though `#timers` has lost them, which happens when two calls of `schedule()`
overlap at its `await`. `clock`, `status`, `startAt`, `sessions` (connected, absent, or away since
a tick) and `done` are what `nextAlarmAt` reads, in two awaits: `tasks` holds what each
asynchronous task has read so far.

| Code | Actions |
| --- | --- |
| gateway: upgrade, activation, close, frames | `Connect`, `Activate`, `ActivateFails`, `Disconnect`, `StartIsScheduled`, `Finish`, `OtherFrame`, each followed by `schedule()` where the gateway does so |
| `schedule`, `nextAlarmAt` | `Schedule`, `ListSessions`, `SetTimer` |
| `run`, `sweep` | `Fire`, `Sweep`; `CallFails` for an operation that throws |
| life cycle | `Stop`, `Restart` (of a stopped or a crashed process, with `reconcileOpenSessions`) |

The engine is reduced to what alarms depend on; `RoomEngine` has all of it. Opening the listener
and draining HTTP requests are left out: the process may end at any time after `stop()`.

### Run

`room_alarms`: two players, two tasks that overlap each other, a clock of two readings, a grace
and a start delay of one tick, one storage error or restart. Two tasks are what it takes for one
`schedule()` to overwrite or delete the other's timer and to act on torn reads; every timer can
be due before, at and after a tick. `Watched` says that a timer, or a task on its way to set one,
will look at the room in time. `OnlyTheseForgetARoom` says that it is lost only by the three steps
below; `DueRoomsAreSwept` that what is due in a watched room is swept.

Fairness: tasks that await local storage go on (weak); timers and queued sweeps get their turn even
when frames keep coming (strong: the event loop runs expired timers, the queue is first in, first
out). Nothing is assumed of players, or of a restart. No deadlock check: a room may be empty.

### Proofs (`RoomAlarms_proofs`)

For any number of players and overlapping tasks, any grace period, delay, time and number of
faults, from `AlarmAssumption`: `RoomsAreRemembered` (`OnlyTheseForgetARoom`) and
`StoppedTimersAreHarmless` (`StoppedServersDoNotSweep`).

The invariant `AlarmInv` only says that times are times, so that the earliest exists
(`AlarmIsInteger`). The argument is about steps: an operation of the engine that changes what is
due leaves its task with a call of `schedule()` (`EngineContinues`), so torn reads of other calls do
not matter until that call has read the room again; a call that clears the timer has just read the
status (`ScheduleWatches`); what it has read stays early enough while the room is the same
(`StaysInTime`); a timer it sets takes none of the running ones away
(`SetTimerWatches`). That `leaked` timers do run is essential: it is why overwriting an entry of
`#timers` does no harm.

### What a room can lose its timer by

No document of the repository denies these, so they are part of the property and not findings.

- **A sweep or a storage call that throws** is logged (`room-alarms.ts:50`) and no timer is set.
- **A reconnect that is taken back** (`room-engine.ts:360`): the old session, away, returns. If a
  `schedule()` of another task ran meanwhile it saw the player connected and set no timer, and the
  gateway does not schedule after a failed activation.
- **A restart** reschedules only rooms with a session that was connected when the process ended
  (`database.ts:198`); a graceful stop has closed the sockets first. The overdue forfeits of such a
  room wait until somebody connects.

## RelaySession, SequenceBuffer, EventFeed

### Correspondence

One player of a room from end to end. `tail` is the last sequence the room has committed, `epoch`
and `acked` the stored session, `down` and `up` what is in flight on the socket, and `phase`,
`known`, `buffer`, `gap`, `replayAfter`, `target` the fields of the client. `delivered` is what the
game was given. Other players are the events they commit.

| Code | Actions |
| --- | --- |
| `commitCanonical`, `broadcastCommitted`, `sendEncoded` | `Commit`; `Send` closes a socket whose buffer is full |
| `connect` | `Accept`, `Refuse` |
| `resume`, `createReplaySignal` | `HandleResume` (`AnswerResume`: one page of the retained window, or an error) |
| `handleAcknowledgement`, `sweep` | `HandleAcknowledgement`, `SessionExpires` |
| `handle`, `consumeMessageRateLimit` | `LimitResume`, `LimitAcknowledgement`: the message is dropped, a retriable error sent |
| `client.ts`: `connect`, `openSocket`, `disconnect` | `UserConnects`, `OpenSocket`, `UserDisconnects`, `UserForgets` (with `forgetSession`) |
| `acceptSession`, `acceptCanonical`, replay and error messages | `ReceiveSession`, `ReceiveCanonical`, `ReceiveReplay`, `ReceiveError`, `ReceiveRetriableError`, `ReceiveClose` |
| `scheduleGapRecovery`, `handleClose` | `GapTimerFires`, `ConnectionLost` |

`SequenceBuffer` is `ingest` on a buffer of sequence numbers: duplicate, next, kept behind a gap
or dropped because the buffer is full of lower ones. A socket delivers in order and, when it is
lost, loses what is in flight in both directions. The message budget is not counted: any resume or
acknowledgement may be the one too many. `limited` remembers that the last resume of the socket was
turned away; it is history, read by no action. `EventFeed` is the promise to the game: within a session
the log from its first event on, each event once and in order.

Left out: progress, ready, interactions, pings and the clock estimate; the resume state in browser
storage across a reload; the reconnect limit (`maxAttempts` defaults to infinity); heartbeats,
origin checks and the gateway's frame limiter, which end a connection as `ConnectionLost` may at any
time; the clearing of the buffer when an event of another room epoch arrives (a room has one here).

### Run

`relay_session`: five events, a window of four, pages of one, a client buffer of one, a socket of
two messages, two losses of the socket or of the session. The window moves past a client that
stays away; a replay takes several pages, with live events and a loss between them; the buffer
overflows behind a gap; the socket of a slow consumer is cut. `TypeOK` bounds the buffer and ties a
gap to the event after the last; `AcknowledgedWasDelivered` relates server and game.

Fairness: messages that have arrived are handled, an upgrade is answered, a resume is answered or
turned away, a timer fires, the client reopens a socket (weak). Nothing is assumed of the rate limit, of
acknowledgements, of the user, of other players or of when a socket is lost. `CatchesUp` excepts a
client that is refused for good or told to stop; a client that is `Starved` (see below); and a fresh
session, which is not sent earlier events until the next one shows the gap.

### Proofs (`RelaySession_proofs`)

For every window, page, client buffer and socket size and any number of events and faults, from
`SessionAssumption` and `BufferAssumption`:

- `SessionTypes`: `Spec => []TypeOK`
- `AcknowledgementsAreEarned`: `Spec => []AcknowledgedWasDelivered`
- `SessionFollowsTheLog`: `Spec => FollowsTheLog`, the refinement of `EventFeed`
- `LockOutNeedsLossOrForgetting`: `Spec => OnlyLossOrForgettingLocksOut`

The invariant `IInv` has two ideas. `InOrder` is what `acceptCanonical` keeps: the game was given
exactly 1, 2, ... up to `buffer.last`, what waits lies behind a gap, no acknowledgement runs ahead.
`AcceptKeepsOrder` shows it for one event, from lemmas about the buffer (`RunEndFacts`, `KeptFacts`,
`RunContinues`), `PageKeepsOrder` for a page of any length. `SocketInv` is what a socket may
carry: a session message is the first one and finds the client handshaking, a resumed one reaches
the client's position, a fresh one finds nothing acknowledged (`Truthful`), and before it arrives
nothing else of the socket has any effect. Without it a fresh session would reset the buffer below
what the server has taken for seen.

`Highest` and the page's recursive function are reasoned about by least counterexamples
(`LeastMember`, from well-foundedness of `<`), the provers having no induction rule to apply.

### Observations

- **Lock-out.** There are two ways, and `OnlyLossOrForgettingLocksOut` says that nothing else leads
  there. The resume epoch is raised and stored before the client learns it
  (`room-engine.ts:344`). If the socket is lost in between, every reconnect is refused with
  `RESUME_EPOCH_MISMATCH`, which is not retriable, and the client closes for good.
  `disconnect({forgetSession: true})` makes the client forget its epoch and sequences
  (`client.ts:473-477`) while the server keeps the session, so every connect is refused until the
  session has expired; what the server has taken for seen then belongs to the forgotten session, which
  is why `AcknowledgedWasDelivered` speaks of a client that holds one. `docs/protocol.md:114-117` allows
  the refusal ("it rejects resume if the epoch/grace/log window no longer permits it"), so neither is
  listed as a divergence.
- **Starved by the rate limit.** Each event of a page is acknowledged, and acknowledgements, resumes and
  all else a player sends share one budget (`room-engine.ts:449-452`, `683-696`). The resume for the next
  page can therefore be turned away. The answer is a retriable `RATE_LIMITED` error, which the client
  passes to the game and otherwise ignores (`client.ts:1149-1163`): the socket stays open, no timer
  runs, and the client stays short of the tail until an event shows a gap or the socket is lost. Without
  `Starved`, `CatchesUp` fails by this.
- **A late page.** The gap timer may ask for a replay while pages of an earlier replay are on their
  way; the late page does not continue the new request and the client gives the socket up. It
  catches up on the next.

## KioskOutbox

### Correspondence

`outbox`, `service`, `job` are rows of `kiosk_outbox`, `kiosk_services` and
`kiosk_translation_jobs`; `closed` are the requests whose stage is "closed"; `received` is what
the receivers' databases hold. `flush`, `translation` and `staff` are the calls in progress with
what they have read. A function is cut at its awaits: what a call read is kept in its record and
used later, however stale. A read that a later conditional UPDATE repeats is merged into it.
`wire` are requests that were sent but whose sender no longer waits.

Time is a flag per row: `due` (`next_attempt_at` reached) and `expired` (`lease_until` reached).
A lease may run out under a call that is dead, at no cost, or under one that is alive, which is
counted by `MaxFaults`, as are deaths. A claim compares the lease with the time of its SELECT, so a
lease taken since then blocks it even if it has expired: that is `late`.

| Code | Actions |
| --- | --- |
| `confirm` and `turn`, their commits | `CommitOrder`, `CommitService` |
| `flushKioskOutbox`, per row | `FlushReads`, `FlushClaims` or `FlushSkips`, `FlushDelivered` or `FlushFails`; `FlushDies` |
| `receiveWebhook` of kitchen and robot | `ReceiverAnswers`, `ArrivesLate` |
| `flushKioskTranslations` | `TranslationReads`, `TranslationClaims`, `TranslationSucceeds` or `TranslationFails`; `TranslationDies` |
| `changeOperation` | `ApprovalReads`, `ApprovalWrites`; `RetryDelivery`; `TranslateSchedules`, `TranslateReads`, `TranslateWrites`; `CloseRequest` |
| time | `BackoffEnds`, `LeaseEnds`, `JobBackoffEnds`, `JobLeaseEnds` |

A payload is abstracted to what the properties tell apart: whether the Korean text is there, its
translation status, and whether and how often the staff has approved it. Signatures, redirects,
a changed destination and HTTP errors are all `FlushFails`. A row is written by one call at a
time, so the four rows a flush takes at once are independent, and one call per row stands for
them. A request that is typed in Korean is a request that is complete from the start. The other
stages, notes and their version counter touch none of this state.

### Runs

| Run | Instance | Question |
| --- | --- | --- |
| `kiosk_deliveries` | one order or request, two flushes, two staff members, one fault | Does an event keep one content and one sender, and is `delivered` true and final? |
| `kiosk_translations` | one order or request, a flush, two translation calls, one staff member, one fault | Do request, job and row stay together, and in Korean? Can a closed request no longer be approved? Do translations end, and does the outbox drain? |
| `kiosk_translate` | one source, one translation call, one staff member | Is a pending request always scheduled? (No.) |

A source becomes an order or a request when it is committed. Rows of different sources never meet in one
statement, so one source shows every order of events between calls; two calls of a kind are needed for
one to overtake the other, and a third would only repeat what the second does. `kiosk_translations` has
one flush only, so that an attempt count read before another flush wrote its own is exercised in
`kiosk_deliveries` (safety), not for `OutboxDrains`. `MaxAttempts` is 2 for the code's 8 and
`MaxTranslations` 2 for the code's 3: a first and a last attempt, and the retry by the staff that starts
again. `MaxFaults` is 1: one stall lets a lease pass to a second call while the first is alive, one
crash leaves a lease without a call. The system may come to rest.

Fairness: open pages poll the server every five seconds (`261023NSL-server/app/page.tsx:27`) and a
flush takes the oldest due rows, so a row that is due again and again is read (strong); a call
that has begun comes to its end, by a time-out if need be, and time passes (weak). Nothing is
assumed of network, staff or customers. With no page open nothing is delivered at all: the
retries are "poll-driven" by design.

### Findings

- **Lost translation.** `translate` (`kiosk-operations.ts:77-82`) makes the job pending, then reads
  and rewrites the request. If the translation completes in between, the request is shown as
  pending with no job left, and send-robot refuses it for ever ("Please wait for the Korean
  translation before sending this request").

Three observations that are not findings. The first: the claim (`kiosk-outbox.ts:48`) checks lease and
status but not that the row is the one read before. A second flush that has read the row claims it as
soon as the first has failed, and sends the same attempt again without the back-off. The comment at line
35 speaks of *concurrent* isolates, which `OneSenderAtATime` confirms; the event id makes the repetition
harmless to the receiver, and one attempt goes uncounted.

The second: `DeliveredIsFinal` is about the row. `FlushClaims` is the claim with the request that
follows it, so a call that stalls between the two (`kiosk-outbox.ts:48` and `:56`) for longer than its
lease may still send an event that another call has delivered meanwhile; `ReceiverAnswers` and
`ArrivesLate` have the effect of that on the receiver, which knows the event.

The third: a request that is approved and then closed still goes to the robot. Only the approval asks
for the stage (`kiosk-operations.ts:59` and `:66`); neither the claim (`kiosk-outbox.ts:41`, `:48`) nor
the retry by the staff (`kiosk-operations.ts:88`) does. `ApprovedOnceBeforeClosing` says no more than
that it cannot be approved any longer.

### Proofs (`KioskOutbox_proofs`)

For any number of sources, flushes, translation calls, staff members, attempts and faults, from the
module's assumptions:

- `OutboxInvariant`: `Spec => [](TypeOK /\ IInv)`
- `ContentIsKept`, `DeliveredWasReceived`, `SendersAreAlone`, `JobsAndRowsAgree`: the invariants
  `EventsKeepTheirContent`, `DeliveredMeansReceived`, `OneSenderAtATime`, `JobsMatchDeliveries`
- `DeliveredRowsStay`, `ApprovalsHold`: the action properties `DeliveredIsFinal`,
  `ApprovedOnceBeforeClosing`

The invariant has a part for rows (`RowInv`: the two rows of a source appear together; a row waits
for the staff or a translation exactly when it should; a released row is in Korean), for requests
(`SourceInv`), for the flushes (`FlushInv`: a call that has read a row has the content the row
keeps, and one that sends has the lease unless a lease ran out under a live call), for staff calls
(`StaffInv`) and for what is under way or has arrived (`DeliveryInv`). The key is `ReleasedStay`: once
an event may have left, no step changes its content. Everything a stale call does later is then the
same event again, which is why the unchecked claim of the observation above is harmless. Every
step either changes rows or only calls (`TwoKindsOfStep`); for each part of the invariant there is
one lemma about all steps.

## KioskSessions, TableOrder

### Correspondence

One session of the kiosk server. `session` is the payload of its row (cart, version of the cart,
token of the review), `lock` and `lockDue` its lease, `review`, `orders`, `turns` and `services`
the rows of `kiosk_confirmations`, `kiosk_orders`, `kiosk_turns` and `kiosk_services`. `calls` are
the requests in progress, each with the copy of the session it got with the lease. Every statement
of a batch asks whether `lock_owner` is still the call's, so a batch is one action that does
everything or nothing (`Owns`, `Commit`); unique keys of turns and orders are guards of it.

| Code | Actions |
| --- | --- |
| `withSession` | `Enter`, `Leave`; `Fails` for any error, `Dies` for a lost isolate, `LeaseEnds` |
| `cart` | `CommitCart` |
| `turn` | `TurnLooks` (a repeated request is answered from its row), `CommitTurn` |
| `prepare` | `PrepareLooks`, `PrepareRechecks`, `CommitPrepare` |
| `confirm` | `ConfirmLooks` (a repeated approval is answered from its order), `ConfirmChecks` or `ConfirmIsStale`, `CommitConfirm` |
| environment | `MenuChanges`, `ReviewEnds` |

A cart is a value: what a provider makes of it is left open, and every operation that is refused is
`Fails`. `refused` remembers the reviews of which an approval was answered `STALE_CONFIRMATION`; it
is history, read by no action. Left out: creating and expiring sessions, quotas, wording. What an
order or a request enqueues is where `KioskOutbox` begins.

`TableOrder` is the order book without calls: one cart; a review shows it with its prices;
whatever changes the cart takes the review away; an approval orders what was reviewed, once; a
request to the staff is passed on once.

### Run

`kiosk_table`: two calls at a time, one request, an empty and a full cart, two states of the menu,
two reviews, four changes of the cart. Two calls let one outlive its lease while another holds it.
Four changes let a cart be filled, reviewed, changed and changed back before the approval comes; a
menu with two states can change there and back; two reviews let an old token meet a new one. There
is always a call that can be made, so deadlock is checked. No fairness: `Fails` and `Dies` are
always possible, and the kiosk's repetition of requests is up to its user.

### Proofs (`KioskSessions_proofs`)

For any number of calls, requests, carts, prices, reviews and versions, from `SessionsAssumption`:

- `SessionHolds`: the type invariant and `SessionInv`
- `HolderIsUpToDate`: `HolderHasTheLatest`
- `RequestsOnce`: `RequestsAreServedOnce`
- `LeasesHold`, `RefusalsHold`: the action properties `LeasesAreKept`, `RefusalsAreFinal`
- `TableHolds`: `TableIsKept`, the refinement of `TableOrder`

The invariant has a part about the rows (`TableInv`: the review the session names is the one in the
table and shows the session's cart; the session never names a review again that was ordered or
refused) and a part about each call (`CallInv`: the holder has the session as it is; an approval
that is past its checks still sees the review it checked, as long as it holds the lease). Fencing
by `lock_owner` is what makes the second part inductive: `UntouchedCall` says that a call keeps its
part while others commit, because they can commit only if it no longer holds the lease.
`HolderHasTheLatest` is a part of the proof and not run.

### Observation

The kiosk gives an approval up on `PRICE_CHANGED` and `CONFIRMATION_EXPIRED` as well
(`261023NSL-client/components/order/OrderApp.tsx:750-762`). `RefusalsAreFinal` is stated for
`STALE_CONFIRMATION` only because it fails for these two: when the menu has changed back before a
first, delayed approval arrives, or when a stalled call answers that the review has expired while
another is past the check, the order is placed after all. No document says what the kiosk may rely
on.

## What is checked and what is proved

| Module | Proved for all constants | Model-checked only |
| --- | --- | --- |
| `Hugekeeper` | every safety property, the refinement of `FileTenancy` | `DeadConnectionsAreReaped`, `BacklogIsServed` |
| `RoomEngine` | every safety property, the refinement of `MatchLedger`; what depends on history with `~PrunesIdempotency` | `LeaversGetAnOutcome`, `ScheduledMatchBegins` |
| `RoomAlarms` | `OnlyTheseForgetARoom`, `StoppedServersDoNotSweep` | `DueRoomsAreSwept` |
| `RelaySession`, `SequenceBuffer` | every safety property, the refinement of `EventFeed` | `CatchesUp` |
| `KioskSessions` | everything, with the refinement of `TableOrder` | - |
| `KioskOutbox` | every safety property | `TranslationsEnd`, `OutboxDrains` |

What is left to TLC is liveness, which the prover does not reach (it has no rule for fairness, and
`ENABLED` is not supported), and the three runs that show a violation: those are statements about
one behaviour. No proof uses the bounds of a run: bounds such as `MaxEvents` are constants of
which nothing is assumed but their type.

## Not modelled

`PROJECT.json` gives the reason for every component. In short:

- **Front ends** (the VTuber editor and its generated bundle, the kiosk client, drawing, study and
  typing apps) hold most of the repository's lines. Their state is a document or a page of one user;
  what they send appears as the environment of the servers above. The models therefore cover a
  small share of all lines, and no more of these lines can be covered without restating them.
- **Model and media pipelines** (`260715LlmOrchestrator`, audio, Reasoning Foundry): calls to
  external models and numeric code, outside of what TLC enumerates.
- **Other providers and routes** of RelayPlay and the kiosk: Cloudflare runs the same engine on a
  storage that `PrunesIdempotency = FALSE` describes; anonymous rooms, quotas, sessions' expiry,
  staff stages and notes are on the plan.
- **Exercises** in C, Go and Python: small programs, at the end of the plan.

## Conventions

Each property has a mutant: a plausible mistake in the definition named, standing right before
the definition it varies, under which TLC finds the property violated. `map` in `PROJECT.json`
gives for every definition the lines it models. To repeat a run:

    tlc -config RoomEngine_match.cfg MCRoomEngine.tla
    tlapm RoomEngine_proofs.tla
