------------------------------ MODULE RoomEngine ------------------------------
(***************************************************************************)
(* RelayPlay's authoritative room (260717WebGameP2PFramework, class        *)
(* RoomEngine of packages/server/src/room-engine.ts) on a durable storage: *)
(* players join a waiting room, the match starts when all of them are      *)
(* ready, runs, and ends when each has finished or been forfeited.         *)
(*                                                                         *)
(* KeyedSerialQueue runs one operation of a room at a time, so a handler   *)
(* that writes once is one action.  One that writes, calls out and writes  *)
(* again is cut at that point (variable job): sockets close, time passes   *)
(* and the process may die there.  Stale connections keep calling, because *)
(* the engine, not its adapter, is what turns them away.                   *)
(*                                                                         *)
(* A definition placed right before the one it varies (and used by no      *)
(* action) is a plausible mistake for the mutation runs.                   *)
(***************************************************************************)
EXTENDS Integers, FiniteSets, Sequences

CONSTANTS
  Players,            \* authenticated player ids
  Connections,        \* connection ids; one is reused only when forgotten
  Keys,               \* idempotency keys of interactions and evidence
  MinimumPlayers,     \* minimumPlayersToStart
  MaxPlayers,         \* room.maxPlayers
  EventLogCapacity,   \* room.eventLogCapacity
  PrunesIdempotency,  \* the storage drops idempotency rows with their events
  MaxEpoch,           \* bound: resume epochs a session goes through
  MaxEvents,          \* bound: events before interactions and evidence stop
  MaxAcknowledged,    \* bound: sequence numbers acknowledged
  MaxProgress,        \* bound: progress sequence numbers of a session
  MaxRestarts,        \* bound: restarts of the process
  NoSession, NoPlayer, NoKey

ASSUME EngineAssumption ==
  /\ IsFiniteSet(Players)
  /\ MinimumPlayers \in Nat \ {0} /\ MaxPlayers \in Nat
  /\ MinimumPlayers <= MaxPlayers
  /\ EventLogCapacity \in Nat \ {0}
  /\ PrunesIdempotency \in BOOLEAN
  /\ MaxEpoch \in Nat \ {0} /\ MaxEvents \in Nat /\ MaxAcknowledged \in Nat
  /\ MaxProgress \in Nat /\ MaxRestarts \in Nat
  /\ NoPlayer \notin Players /\ NoKey \notin Keys
\* Player ids are idempotency scopes beside these two.
ASSUME ScopeAssumption == {"room", "finish"} \cap (Players \cup {NoPlayer}) = {}

VARIABLES
  \* StoredRoom
  status, participantIds, completedPlayerIds,
  startDue,     \* the clock has reached startAt
  \* every canonical event ever committed; Retained are those still stored
  history,
  sessions,     \* player -> StoredSession or NoSession
  open,         \* connection -> the RoomSession its adapter holds, or NoSession
  job,          \* the rest of the operation in progress
  restarts

roomVars == <<status, participantIds, completedPlayerIds, startDue, history>>
vars == <<status, participantIds, completedPlayerIds, startDue, history,
          sessions, open, job, restarts>>

Statuses == {"waiting", "scheduled", "running", "finished"}
Kinds    == {"start", "interaction", "evidence", "finish"}

Session == [resumeEpoch : 1 .. MaxEpoch, connectionId : Connections,
            ready : BOOLEAN, connected : BOOLEAN,
            due : BOOLEAN,                      \* disconnected for the whole grace period
            acknowledged : 0 .. MaxAcknowledged, progress : -1 .. MaxProgress]
Handle  == [playerId : Players, resumeEpoch : 1 .. MaxEpoch]
Event   == [kind : Kinds, playerId : Players \cup {NoPlayer}, key : Keys \cup {NoKey},
            placement : 0 .. Cardinality(Players)]

ASSUME SessionAssumption == NoSession \notin Session \cup Handle

Idle                == [kind |-> "idle"]
Activation(p, old)  == [kind |-> "activate", playerId |-> p, existing |-> old]
StartCheck          == [kind |-> "start"]
Sweeping(todo, all) == [kind |-> "sweep", todo |-> todo, expired |-> all]

(***************************************************************************)
(* RoomStorage: commitCanonical allocates the next sequence number and     *)
(* prunes the log; what it does to the idempotency rows depends on it.     *)
(***************************************************************************)

LastSequence   == Len(history)
OldestRetained == IF LastSequence > EventLogCapacity
                  THEN LastSequence - EventLogCapacity + 1 ELSE 1

\* Sequence numbers whose idempotency row can still be found.
Remembered == IF PrunesIdempotency THEN OldestRetained .. LastSequence
              ELSE 1 .. LastSequence

\* idempotencyScope and idempotencyKey of an event.
ScopeKey(e) ==
  IF e.kind = "start" THEN <<"room", "start">>
  ELSE IF e.kind = "finish" THEN <<"finish", e.playerId>>
  ELSE <<e.playerId, e.key>>

\* findCanonicalByIdempotency.
Found(scopeKey) == \E s \in Remembered : ScopeKey(history[s]) = scopeKey
PlayerFinishFound(p) == Found(<<"finish", p>>)

\* The commit of an event whose key was not found.
Commit(e) == history' = Append(history, e)

(***************************************************************************)
(* Helpers                                                                 *)
(***************************************************************************)

Present == {p \in Players : sessions[p] # NoSession}

Connected(p) == sessions[p] # NoSession /\ sessions[p].connected

\* advanceRoom, the first thing every operation does.
Advanced == IF status = "scheduled" /\ startDue THEN "running" ELSE status

\* Disconnected longer than disconnectGraceMs.
Expired(p) == sessions[p] # NoSession /\ ~sessions[p].connected /\ sessions[p].due
ExpiredPlayers == {p \in Players : Expired(p)}

\* assertLiveSession for the session a connection was given.
Live(c) ==
  /\ open[c] # NoSession
  /\ LET s == sessions[open[c].playerId] IN
       /\ s # NoSession
       /\ s.connectionId = c /\ s.resumeEpoch = open[c].resumeEpoch /\ s.connected

\* An operation of connection c on a room nobody else works on.
Serves(c) == job = Idle /\ Live(c)

FreshConnections == {c \in Connections : open[c] = NoSession
                       /\ \A p \in Present : sessions[p].connectionId # c}

\* completedPlayerIds(): participants whose finish the storage can find.
Completed == {p \in participantIds : PlayerFinishFound(p)}

(***************************************************************************)
(* Start-up: ensureRoom has created the room.                              *)
(***************************************************************************)

Init ==
  /\ status = "waiting" /\ startDue = FALSE
  /\ participantIds = {} /\ completedPlayerIds = {}
  /\ history = <<>>
  /\ sessions = [p \in Players |-> NoSession]
  /\ open = [c \in Connections |-> NoSession]
  /\ job = Idle
  /\ restarts = 0

(***************************************************************************)
(* Time: the start time and the end of a grace period are reached.         *)
(***************************************************************************)

StartTimePasses ==
  /\ status = "scheduled" /\ ~startDue
  /\ startDue' = TRUE
  /\ UNCHANGED <<status, participantIds, completedPlayerIds, history,
                 sessions, open, job, restarts>>

GracePasses(p) ==
  /\ sessions[p] # NoSession /\ ~sessions[p].connected /\ ~sessions[p].due
  /\ sessions' = [sessions EXCEPT ![p].due = TRUE]
  /\ UNCHANGED <<roomVars, open, job, restarts>>

(***************************************************************************)
(* connect                                                                 *)
(***************************************************************************)

\* A player without a session joins while the room is waiting.
Join(p) ==
  /\ job = Idle
  /\ sessions[p] = NoSession
  /\ Advanced = "waiting"
  /\ Cardinality(Present) < MaxPlayers
  /\ \E c \in FreshConnections :
       sessions' = [sessions EXCEPT ![p] =
         [resumeEpoch |-> 1, connectionId |-> c, ready |-> FALSE, connected |-> TRUE,
          due |-> FALSE, acknowledged |-> 0, progress |-> -1]]
  /\ job' = Activation(p, NoSession)
  /\ UNCHANGED <<roomVars, open, restarts>>

\* The session a reconnect stores.
Resumed(s, c) ==
  [s EXCEPT !.resumeEpoch = @ + 1, !.connectionId = c, !.connected = TRUE, !.due = FALSE]

\* A player that knows its session and resume epoch reconnects.
Reconnect(p) ==
  /\ job = Idle
  /\ sessions[p] # NoSession
  /\ sessions[p].resumeEpoch < MaxEpoch
  /\ \E c \in FreshConnections :
       sessions' = [sessions EXCEPT ![p] = Resumed(@, c)]
  /\ job' = Activation(p, sessions[p])
  /\ status' = Advanced
  /\ UNCHANGED <<participantIds, completedPlayerIds, startDue, history, open, restarts>>

\* The adapter binds the socket; the session is announced; a ready player
\* may have been the last one the room was waiting for.
ActivateConnection ==
  /\ job.kind = "activate"
  /\ LET p == job.playerId  s == sessions[p] IN
       /\ open' = [open EXCEPT ![s.connectionId] =
                     [playerId |-> p, resumeEpoch |-> s.resumeEpoch]]
       /\ job' = IF s.ready /\ status = "waiting" THEN StartCheck ELSE Idle
  /\ UNCHANGED <<roomVars, sessions, restarts>>

\* The socket closed meanwhile: the session is as it was before.
ActivateFails ==
  /\ job.kind = "activate"
  /\ sessions' = [sessions EXCEPT ![job.playerId] = job.existing]
  /\ job' = Idle
  /\ UNCHANGED <<roomVars, open, restarts>>

\* A call that ends in an error, or finds nothing new, has advanced the room.
AdvanceOnly ==
  /\ job = Idle
  /\ status # Advanced
  /\ status' = Advanced
  /\ UNCHANGED <<participantIds, completedPlayerIds, startDue, history,
                 sessions, open, job, restarts>>

(***************************************************************************)
(* disconnect: the adapter reports that a socket is gone.                  *)
(***************************************************************************)

OwnsAny(p, c) == sessions[p] # NoSession
Owns(p, c) == sessions[p] # NoSession /\ sessions[p].connectionId = c

Disconnect(c) ==
  /\ job = Idle
  /\ open[c] # NoSession
  /\ open' = [open EXCEPT ![c] = NoSession]
  /\ LET p == open[c].playerId IN
       sessions' = IF Owns(p, c)
                   THEN [sessions EXCEPT ![p].connected = FALSE, ![p].due = FALSE]
                   ELSE sessions
  /\ UNCHANGED <<roomVars, job, restarts>>

(***************************************************************************)
(* handle: ready, and the start it may lead to                             *)
(***************************************************************************)

Ready(c) ==
  /\ Serves(c)
  /\ Advanced = "waiting"
  /\ \E ready \in BOOLEAN :
       /\ ready \/ sessions[open[c].playerId].ready
       /\ sessions' = [sessions EXCEPT ![open[c].playerId].ready = ready]
  /\ job' = StartCheck
  /\ UNCHANGED <<roomVars, open, restarts>>

\* maybeScheduleStart: every session, connected or not, must be ready.
Quorum ==
  /\ Cardinality(Present) >= MinimumPlayers
  /\ \A p \in Present : sessions[p].connected /\ sessions[p].ready

StartEvent == [kind |-> "start", playerId |-> NoPlayer, key |-> NoKey, placement |-> 0]

ScheduleStart ==
  /\ job = StartCheck
  /\ IF Quorum
     THEN /\ Commit(StartEvent)
          /\ status' = "scheduled" /\ startDue' = FALSE
          /\ participantIds' = Present /\ completedPlayerIds' = {}
     ELSE UNCHANGED roomVars
  /\ job' = Idle
  /\ UNCHANGED <<sessions, open, restarts>>

(***************************************************************************)
(* handle: progress, acknowledgement, interaction, evidence                *)
(***************************************************************************)

Progress(c) ==
  /\ Serves(c)
  /\ LET p == open[c].playerId IN
       /\ Advanced # "finished" /\ ~PlayerFinishFound(p)
       /\ \E n \in 0 .. MaxProgress :
            /\ n > sessions[p].progress
            /\ sessions' = [sessions EXCEPT ![p].progress = n]
  /\ status' = Advanced
  /\ UNCHANGED <<participantIds, completedPlayerIds, startDue, history, open, job, restarts>>

AfterAck(old, n) == IF n > old THEN n ELSE old
Acknowledge(c) ==
  /\ Serves(c)
  /\ LET p == open[c].playerId IN
       \E n \in 0 .. MaxAcknowledged :
         /\ n <= LastSequence
         /\ sessions' = [sessions EXCEPT ![p].acknowledged = AfterAck(@, n)]
  /\ status' = Advanced
  /\ UNCHANGED <<participantIds, completedPlayerIds, startDue, history, open, job, restarts>>

MayInteractAlways(p) == Advanced \in {"scheduled", "running"}
MayInteract(p) == Advanced \in {"scheduled", "running"} /\ ~PlayerFinishFound(p)

Interaction(c) ==
  /\ Serves(c)
  /\ LastSequence < MaxEvents
  /\ MayInteract(open[c].playerId)
  /\ \E k \in Keys :
       /\ ~Found(<<open[c].playerId, k>>)
       /\ Commit([kind |-> "interaction", playerId |-> open[c].playerId,
                  key |-> k, placement |-> 0])
  /\ status' = Advanced
  /\ UNCHANGED <<participantIds, completedPlayerIds, startDue, sessions, open, job, restarts>>

Evidence(c) ==
  /\ Serves(c)
  /\ LastSequence < MaxEvents
  /\ \E k \in Keys :
       /\ ~Found(<<open[c].playerId, k>>)
       /\ Commit([kind |-> "evidence", playerId |-> open[c].playerId,
                  key |-> k, placement |-> 0])
  /\ status' = Advanced
  /\ UNCHANGED <<participantIds, completedPlayerIds, startDue, sessions, open, job, restarts>>

(***************************************************************************)
(* finish and forfeit                                                      *)
(***************************************************************************)

\* commitPlayerFinish; the last finish ends the match and drops the sessions
\* whose grace period is over.
PlacementCountingSelf(p) == Cardinality(Completed \cup {p}) + 1
Placement(p) == Cardinality(Completed) + 1

AllPresentDone(done) == \A p \in participantIds : Connected(p) => p \in done
AllDone(done) == participantIds \subseteq done

CommitPlayerFinish(p, current, expired) ==
  /\ Commit([kind |-> "finish", playerId |-> p, key |-> NoKey, placement |-> Placement(p)])
  /\ completedPlayerIds' = Completed \cup {p}
  /\ status' = IF AllDone(completedPlayerIds') THEN "finished" ELSE current
  /\ sessions' = IF status' = "finished"
                 THEN [q \in Players |-> IF q \in expired THEN NoSession ELSE sessions[q]]
                 ELSE sessions
  /\ UNCHANGED <<participantIds, startDue>>

MayFinishAgain(p) == Advanced = "running" /\ p \in participantIds
MayFinish(p) ==
  ~PlayerFinishFound(p) /\ Advanced = "running" /\ p \in participantIds

Finish(c) ==
  /\ Serves(c)
  /\ MayFinish(open[c].playerId)
  /\ CommitPlayerFinish(open[c].playerId, Advanced, ExpiredPlayers)
  /\ UNCHANGED <<open, job, restarts>>

(***************************************************************************)
(* sweep                                                                   *)
(***************************************************************************)

\* nextAlarmAt has been reached: a scheduled start, or the end of a grace
\* period that is not that of a player who finished an active match.
AlarmDueAtStartOnly == status = "scheduled" /\ startDue
AlarmDueForGraceOnly ==
  \E p \in ExpiredPlayers :
    ~(status \in {"scheduled", "running"} /\ PlayerFinishFound(p))
AlarmDue ==
  \/ status = "scheduled" /\ startDue
  \/ \E p \in ExpiredPlayers :
       ~(status \in {"scheduled", "running"} /\ PlayerFinishFound(p))

Sweep ==
  /\ job = Idle
  /\ AlarmDue
  /\ status' = Advanced
  /\ job' = Sweeping(ExpiredPlayers, ExpiredPlayers)
  /\ UNCHANGED <<participantIds, completedPlayerIds, startDue, history,
                 sessions, open, restarts>>

KeepsSessionUntilOutcome(p) == status \in {"scheduled", "running"} /\ ~PlayerFinishFound(p)
KeepsSession(p) == status \in {"scheduled", "running"} /\ p \in participantIds

\* One session of the loop; the list is taken in any order.
SweepSession ==
  /\ job.kind = "sweep"
  /\ \E p \in job.todo :
       /\ job' = Sweeping(job.todo \ {p}, job.expired)
       /\ IF ~KeepsSession(p)
          THEN sessions' = [sessions EXCEPT ![p] = NoSession] /\ UNCHANGED roomVars
          ELSE IF PlayerFinishFound(p)
          THEN UNCHANGED <<roomVars, sessions>>
          ELSE CommitPlayerFinish(p, status, job.expired)
  /\ UNCHANGED <<open, restarts>>

SweepDone ==
  /\ job.kind = "sweep" /\ job.todo = {}
  /\ job' = Idle
  /\ UNCHANGED <<roomVars, sessions, open, restarts>>

(***************************************************************************)
(* The process dies and starts again on the same database: nothing is left *)
(* of the operation in progress, and reconcileOpenSessions disconnects     *)
(* every session.                                                          *)
(***************************************************************************)

Reconciled(s) == [s EXCEPT !.connected = FALSE, !.due = FALSE]

Restart ==
  /\ restarts < MaxRestarts
  /\ restarts' = restarts + 1
  /\ open' = [c \in Connections |-> NoSession]
  /\ job' = Idle
  /\ sessions' = [p \in Players |->
                    IF sessions[p] # NoSession /\ sessions[p].connected
                    THEN Reconciled(sessions[p]) ELSE sessions[p]]
  /\ UNCHANGED roomVars

Connect(p) == Join(p) \/ Reconnect(p)

HandleStep(c) ==
  \/ Ready(c) \/ Progress(c) \/ Acknowledge(c) \/ Interaction(c)
  \/ Evidence(c) \/ Finish(c)

JobStep == ActivateConnection \/ ActivateFails \/ ScheduleStart \/ SweepSession \/ SweepDone

Next ==
  \/ StartTimePasses \/ \E p \in Players : GracePasses(p) \/ Connect(p)
  \/ AdvanceOnly \/ \E c \in Connections : Disconnect(c) \/ HandleStep(c)
  \/ Sweep \/ JobStep \/ Restart

Spec == Init /\ [][Next]_vars

(***************************************************************************)
(* The server takes its turns: every operation in progress goes on, the    *)
(* clock moves, and a sweep that is due gets through the room's FIFO queue. *)
(* Nothing is assumed of the players.                                      *)
(***************************************************************************)
FairSpec ==
  /\ Spec
  /\ WF_vars(StartTimePasses) /\ \A p \in Players : WF_vars(GracePasses(p))
  /\ WF_vars(JobStep)
  /\ SF_vars(Sweep)

(***************************************************************************)
(* Properties.                                                             *)
(***************************************************************************)

Jobs ==
  {Idle, StartCheck}
    \cup [kind : {"activate"}, playerId : Players, existing : Session \cup {NoSession}]
    \cup [kind : {"sweep"}, todo : SUBSET Players, expired : SUBSET Players]

\* The stored rows have the types of StoredRoom, StoredSession, CanonicalEvent.
TypeOK ==
  /\ status \in Statuses /\ startDue \in BOOLEAN
  /\ participantIds \subseteq Players /\ completedPlayerIds \subseteq participantIds
  /\ history \in Seq(Event)
  /\ sessions \in [Players -> Session \cup {NoSession}]
  /\ open \in [Connections -> Handle \cup {NoSession}]
  /\ job \in Jobs
  /\ restarts \in 0 .. MaxRestarts

EventsOf(kind) == {s \in 1 .. LastSequence : history[s].kind = kind}
Finishers == {history[s].playerId : s \in EventsOf("finish")}

\* "Retries with the same idempotency key ... must not apply twice": no two
\* events of the room, however old, were accepted under one key.
RetriesApplyOnce ==
  \A s, t \in 1 .. LastSequence : ScopeKey(history[s]) = ScopeKey(history[t]) => s = t

\* Placements are 1, 2, 3 ... in the order of the finish events, also when
\* forfeits and finishes race.
PlacementsAreOrdinal ==
  \A s \in EventsOf("finish") :
    history[s].placement = Cardinality({t \in EventsOf("finish") : t <= s})

\* The room is finished exactly when everyone who started has an outcome, and
\* the stored roster of completed players says who that is.
FinishedWhenAllHaveOutcomes ==
  /\ completedPlayerIds = Finishers
  /\ status = "finished" <=> participantIds # {} /\ participantIds \subseteq Finishers

\* The log reads like a match: one start as soon as the room has left the
\* waiting state, interactions and outcomes after it, none of a player who is
\* done.
LogReadsLikeAMatch ==
  /\ status # "waiting" <=> EventsOf("start") # {}
  /\ \A s \in EventsOf("interaction") \cup EventsOf("finish") :
       /\ \E t \in EventsOf("start") : t < s
       /\ \A t \in EventsOf("finish") : t < s => history[t].playerId # history[s].playerId

\* While a match is on, its participants and nobody else have a session: each
\* can come back until the end, and the fallback roster is right.
ParticipantsKeepTheirSessions ==
  status \in {"scheduled", "running"} => Present = participantIds

\* Between operations a session is connected exactly when the adapter holds
\* an open socket for it at its present epoch: no socket without a session
\* behind it, and no session that waits for ever for a socket that is gone.
SocketsAndSessionsAgree ==
  job.kind # "activate" =>
    \A p \in Present :
      sessions[p].connected <=>
        open[sessions[p].connectionId] =
          [playerId |-> p, resumeEpoch |-> sessions[p].resumeEpoch]

\* What MatchLedger sees of a room.
Phase == IF status = "waiting" THEN "open" ELSE IF status = "finished" THEN "over" ELSE "on"
Results == {<<history[s].playerId, history[s].placement>> : s \in EventsOf("finish")}

\* The room implements MatchLedger: through forfeits that race with finishes,
\* sweeps over stale lists, retries and restarts, the match begins once, every
\* entrant is placed once and in order, and the last one ends it.
Ledger == INSTANCE MatchLedger WITH
  phase <- Phase, entrants <- participantIds, results <- Results
MatchKeepsALedger == Ledger!Spec

\* Reconnects, failed activations and restarts never take back what a player
\* has acknowledged or reported.
CountersOnlyGrow ==
  [][\A p \in Players : sessions[p] # NoSession /\ sessions'[p] # NoSession =>
       /\ sessions'[p].acknowledged >= sessions[p].acknowledged
       /\ sessions'[p].progress >= sessions[p].progress]_vars

\* A participant who leaves a match comes back or is given an outcome.
LeaversGetAnOutcome ==
  \A p \in Players :
    (status \in {"scheduled", "running"} /\ p \in participantIds /\ ~Connected(p))
      ~> (p \in Finishers \/ Connected(p))

\* A scheduled match begins, whoever is still connected.
ScheduledMatchBegins == status = "scheduled" ~> status \in {"running", "finished"}

\* "waiting -- ready quorum --> canonical future start": a room in which
\* everybody is connected and ready does not stay waiting.
ReadyQuorumStarts == (status = "waiting" /\ Quorum) ~> ~(status = "waiting" /\ Quorum)

(***************************************************************************)
(* The inductive invariants behind them.                                   *)
(***************************************************************************)

\* What the operation in progress may assume: nobody else has worked on the
\* room since it stored its session or its ready flag.
JobInv ==
  /\ job.kind = "start" => status = "waiting"
  /\ job.kind = "activate" =>
       LET s == sessions[job.playerId]  old == job.existing IN
         /\ s # NoSession /\ s.connected /\ open[s.connectionId] = NoSession
         /\ old = NoSession => status = "waiting"
         /\ old # NoSession => /\ s.acknowledged = old.acknowledged
                               /\ s.progress = old.progress

\* The session a failing activation would leave behind.
Settled(p) ==
  IF job.kind = "activate" /\ job.playerId = p THEN job.existing ELSE sessions[p]

SocketInv ==
  \A p \in Players : Settled(p) # NoSession =>
    (Settled(p).connected <=>
       open[Settled(p).connectionId] =
         [playerId |-> p, resumeEpoch |-> Settled(p).resumeEpoch])

\* On every storage.
SessionInv == TypeOK /\ JobInv /\ SocketInv /\ ParticipantsKeepTheirSessions

\* On a storage that keeps its idempotency rows.
MatchInv ==
  /\ status = "waiting" => participantIds = {}
  /\ RetriesApplyOnce /\ LogReadsLikeAMatch /\ FinishedWhenAllHaveOutcomes

=============================================================================
