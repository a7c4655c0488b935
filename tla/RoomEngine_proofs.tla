--------------------------- MODULE RoomEngine_proofs ---------------------------
(***************************************************************************)
(* Machine-checked proofs about RoomEngine, for every set of players and   *)
(* connections, every log capacity and any number of restarts.             *)
(***************************************************************************)
EXTENDS RoomEngine, FiniteSetTheorems, TLAPS

(***************************************************************************)
(* Facts about the operators.                                              *)
(***************************************************************************)

\* What each kind of operation in progress carries.
LEMMA JobFacts ==
  ASSUME job \in Jobs
  PROVE  /\ job.kind \in {"idle", "start", "activate", "sweep"}
         /\ job.kind = "idle" <=> job = Idle
         /\ job.kind = "start" <=> job = StartCheck
         /\ job.kind = "activate" => /\ job.playerId \in Players
                                     /\ job.existing \in Session \cup {NoSession}
         /\ job.kind = "sweep" => job.todo \subseteq Players /\ job.expired \subseteq Players
BY DEF Jobs, Idle, StartCheck

\* A stored session, field by field.
LEMMA SessionFacts ==
  ASSUME NEW s \in Session
  PROVE  /\ s # NoSession
         /\ s.resumeEpoch \in 1 .. MaxEpoch /\ s.connectionId \in Connections
         /\ s.ready \in BOOLEAN /\ s.connected \in BOOLEAN /\ s.due \in BOOLEAN
         /\ s.acknowledged \in 0 .. MaxAcknowledged /\ s.progress \in -1 .. MaxProgress
BY SessionAssumption DEF Session

\* A session that is taken up again.
LEMMA ResumedFacts ==
  ASSUME NEW s \in Session, s.resumeEpoch < MaxEpoch, NEW c \in Connections
  PROVE  /\ Resumed(s, c) \in Session /\ Resumed(s, c).connected
         /\ Resumed(s, c).connectionId = c
         /\ Resumed(s, c).acknowledged = s.acknowledged
         /\ Resumed(s, c).progress = s.progress
<1>1. s.resumeEpoch + 1 \in 1 .. MaxEpoch
  BY SessionFacts, EngineAssumption
<1>2. /\ Resumed(s, c).resumeEpoch = s.resumeEpoch + 1 /\ Resumed(s, c).connected
      /\ Resumed(s, c).connectionId = c /\ Resumed(s, c).ready = s.ready
      /\ Resumed(s, c).due = FALSE
      /\ Resumed(s, c).acknowledged = s.acknowledged
      /\ Resumed(s, c).progress = s.progress
  BY DEF Session, Resumed
<1>3. Resumed(s, c) \in Session
  BY <1>1 DEF Session, Resumed
<1>4. QED
  BY <1>2, <1>3

\* The session behind a connection that is served.
LEMMA LiveFacts ==
  ASSUME TypeOK, NEW c \in Connections, Live(c)
  PROVE  /\ open[c] \in Handle /\ open[c].playerId \in Players
         /\ sessions[open[c].playerId] \in Session
BY DEF TypeOK, Live, Handle

\* advanceRoom only lets a scheduled match run.
LEMMA AdvancedFacts ==
  ASSUME status \in Statuses
  PROVE  /\ Advanced \in Statuses
         /\ Advanced = "waiting" <=> status = "waiting"
         /\ Advanced = "finished" <=> status = "finished"
         /\ Advanced \in {"scheduled", "running"} <=> status \in {"scheduled", "running"}
BY DEF Advanced, Statuses

\* A committed event takes the next sequence number; the others keep theirs.
LEMMA CommitFacts ==
  ASSUME history \in Seq(Event), NEW e \in Event, Commit(e)
  PROVE  /\ history' \in Seq(Event)
         /\ LastSequence \in Nat
         /\ LastSequence' = LastSequence + 1
         /\ history'[LastSequence + 1] = e
         /\ \A s \in 1 .. LastSequence : history'[s] = history[s] /\ history[s] \in Event
BY DEF Commit, LastSequence

\* A player without a finish takes a place that exists.
LEMMA PlacementType ==
  ASSUME TypeOK, NEW p \in participantIds, ~PlayerFinishFound(p)
  PROVE  Placement(p) \in 0 .. Cardinality(Players)
<1>1. IsFiniteSet(Completed) /\ IsFiniteSet(Players)
  BY FS_Subset, EngineAssumption DEF Completed, TypeOK
<1>2. Completed \cup {p} \subseteq Players /\ p \notin Completed
  BY DEF Completed, TypeOK
<1>3. /\ Cardinality(Completed \cup {p}) = Cardinality(Completed) + 1
      /\ IsFiniteSet(Completed \cup {p})
  BY <1>1, <1>2, FS_AddElement
<1>4. Cardinality(Completed \cup {p}) <= Cardinality(Players)
  BY <1>1, <1>2, FS_Subset
<1>5. Cardinality(Completed) \in Nat /\ Cardinality(Players) \in Nat
  BY <1>1, FS_CardinalityType
<1>6. QED
  BY <1>3, <1>4, <1>5 DEF Placement

(***************************************************************************)
(* Sessions and sockets, on every storage.                                 *)
(***************************************************************************)

\* The empty room ensureRoom creates.
LEMMA InitSessionInv == Init => SessionInv
<1> SUFFICES ASSUME Init PROVE SessionInv
  OBVIOUS
<1>1. TypeOK
  <2>1. /\ history \in Seq(Event) /\ restarts \in 0 .. MaxRestarts /\ job \in Jobs
        /\ sessions \in [Players -> Session \cup {NoSession}]
        /\ open \in [Connections -> Handle \cup {NoSession}]
    BY EngineAssumption DEF Init, Jobs
  <2>2. QED
    BY <2>1 DEF Init, TypeOK, Statuses
<1>2. JobInv /\ SocketInv
  BY DEF Init, JobInv, SocketInv, Settled, Idle
<1>3. ParticipantsKeepTheirSessions
  BY DEF Init, ParticipantsKeepTheirSessions
<1>4. QED
  BY <1>1, <1>2, <1>3 DEF SessionInv

\* Time passes; the invariant is kept.
LEMMA TimeKeepsSessionInv ==
  ASSUME SessionInv, StartTimePasses \/ \E p \in Players : GracePasses(p)
  PROVE  SessionInv'
<1> USE DEF SessionInv
<1>1. CASE StartTimePasses
  BY <1>1 DEF StartTimePasses, TypeOK, JobInv, SocketInv, Settled,
     ParticipantsKeepTheirSessions, Present, LastSequence
<1>2. ASSUME NEW p \in Players, GracePasses(p)
      PROVE  SessionInv'
  <2> USE <1>2 DEF GracePasses, roomVars
  <2>1. sessions[p] \in Session
    BY DEF TypeOK
  <2>2. /\ sessions'[p] \in Session
        /\ \A q \in Players : q # p => sessions'[q] = sessions[q]
        /\ sessions'[p].resumeEpoch = sessions[p].resumeEpoch
        /\ sessions'[p].connectionId = sessions[p].connectionId
        /\ sessions'[p].connected = sessions[p].connected
        /\ sessions'[p].acknowledged = sessions[p].acknowledged
        /\ sessions'[p].progress = sessions[p].progress
    BY <2>1 DEF Session, TypeOK
  <2>3. TypeOK'
    BY <2>2 DEF TypeOK
  <2>4. job.kind = "activate" => job.playerId \in Players /\ job.playerId # p
    BY JobFacts DEF TypeOK, JobInv
  <2>5. JobInv'
    BY <2>2, <2>4 DEF JobInv
  <2>6. SocketInv'
    BY <2>1, <2>2, <2>4, SessionFacts DEF SocketInv, Settled
  <2>7. ParticipantsKeepTheirSessions'
    BY <2>1, <2>2, SessionAssumption DEF ParticipantsKeepTheirSessions, Present
  <2>8. QED
    BY <2>3, <2>5, <2>6, <2>7
<1>3. QED
  BY <1>1, <1>2

\* A player joins the waiting room; the invariant is kept.
LEMMA JoinKeepsSessionInv ==
  ASSUME SessionInv, NEW p \in Players, Join(p)
  PROVE  SessionInv'
<1> USE DEF SessionInv
<1>1. PICK c \in FreshConnections :
        sessions' = [sessions EXCEPT ![p] =
          [resumeEpoch |-> 1, connectionId |-> c, ready |-> FALSE, connected |-> TRUE,
           due |-> FALSE, acknowledged |-> 0, progress |-> -1]]
  BY DEF Join
<1>2. /\ c \in Connections /\ open[c] = NoSession
      /\ job = Idle /\ sessions[p] = NoSession /\ status = "waiting"
      /\ job' = Activation(p, NoSession)
      /\ UNCHANGED <<status, participantIds, completedPlayerIds, startDue, history, open, restarts>>
  BY AdvancedFacts DEF Join, FreshConnections, roomVars, TypeOK
<1>3. /\ sessions'[p] \in Session /\ sessions'[p].connected
      /\ sessions'[p].connectionId = c
      /\ \A q \in Players : q # p => sessions'[q] = sessions[q]
  BY <1>1, <1>2, EngineAssumption DEF Session, TypeOK
<1>4. TypeOK'
  BY <1>1, <1>2, <1>3 DEF TypeOK, Jobs, Activation
<1>5. JobInv'
  BY <1>2, <1>3, SessionAssumption DEF JobInv, Activation
<1>6. SocketInv'
  BY <1>2, <1>3 DEF SocketInv, Settled, Activation, Idle
<1>7. ParticipantsKeepTheirSessions'
  BY <1>2 DEF ParticipantsKeepTheirSessions
<1>8. QED
  BY <1>4, <1>5, <1>6, <1>7

\* A player takes up its session on a new connection; the invariant is kept.
LEMMA ReconnectKeepsSessionInv ==
  ASSUME SessionInv, NEW p \in Players, Reconnect(p)
  PROVE  SessionInv'
<1> USE DEF SessionInv
<1>1. PICK c \in FreshConnections : sessions' = [sessions EXCEPT ![p] = Resumed(@, c)]
  BY DEF Reconnect
<1>2. /\ c \in Connections /\ open[c] = NoSession
      /\ job = Idle /\ sessions[p] \in Session /\ sessions[p].resumeEpoch < MaxEpoch
      /\ job' = Activation(p, sessions[p]) /\ status' = Advanced
      /\ UNCHANGED <<participantIds, completedPlayerIds, startDue, history, open, restarts>>
  BY DEF Reconnect, FreshConnections, TypeOK
<1>3. /\ sessions'[p] \in Session /\ sessions'[p].connected
      /\ sessions'[p].connectionId = c
      /\ sessions'[p].acknowledged = sessions[p].acknowledged
      /\ sessions'[p].progress = sessions[p].progress
      /\ \A q \in Players : q # p => sessions'[q] = sessions[q]
  BY <1>1, <1>2, ResumedFacts DEF TypeOK
<1>4. TypeOK'
  BY <1>1, <1>2, <1>3, AdvancedFacts DEF TypeOK, Jobs, Activation
<1>5. JobInv'
  BY <1>2, <1>3, SessionAssumption DEF JobInv, Activation
<1>6. SocketInv'
  BY <1>2, <1>3 DEF SocketInv, Settled, Activation, Idle
<1>7. ParticipantsKeepTheirSessions'
  <2>1. Present' = Present
    BY <1>2, <1>3, SessionAssumption DEF Present
  <2>2. QED
    BY <1>2, <2>1, AdvancedFacts DEF ParticipantsKeepTheirSessions, TypeOK
<1>8. QED
  BY <1>4, <1>5, <1>6, <1>7

\* The adapter binds the socket; the invariant is kept.
LEMMA ActivateKeepsSessionInv ==
  ASSUME SessionInv, ActivateConnection
  PROVE  SessionInv'
<1> USE DEF SessionInv
<1> DEFINE p == job.playerId
           c == sessions[p].connectionId
           h == [playerId |-> p, resumeEpoch |-> sessions[p].resumeEpoch]
<1>1. /\ job.kind = "activate" /\ p \in Players
      /\ sessions[p] \in Session /\ sessions[p].connected
      /\ c \in Connections /\ open[c] = NoSession /\ h \in Handle
  BY JobFacts, SessionFacts DEF ActivateConnection, JobInv, TypeOK, Handle
<1>2. /\ open' = [open EXCEPT ![c] = h]
      /\ job' = IF sessions[p].ready /\ status = "waiting" THEN StartCheck ELSE Idle
      /\ UNCHANGED <<status, participantIds, completedPlayerIds, startDue, history,
                     sessions, restarts>>
  BY DEF ActivateConnection, roomVars
<1>3. TypeOK'
  BY <1>1, <1>2 DEF TypeOK, Jobs
<1>4. JobInv'
  BY <1>2 DEF JobInv, StartCheck, Idle
<1>5. SocketInv'
  <2> SUFFICES ASSUME NEW q \in Players, sessions[q] # NoSession
               PROVE  sessions[q].connected <=>
                        open'[sessions[q].connectionId] =
                          [playerId |-> q, resumeEpoch |-> sessions[q].resumeEpoch]
    BY <1>2 DEF SocketInv, Settled, StartCheck, Idle
  <2>1. sessions[q] \in Session /\ sessions[q].connectionId \in Connections
    BY SessionFacts DEF TypeOK
  <2>2. CASE q = p
    BY <1>1, <1>2, <2>2 DEF TypeOK
  <2>3. CASE q # p
    <3>1. sessions[q].connected <=>
            open[sessions[q].connectionId] =
              [playerId |-> q, resumeEpoch |-> sessions[q].resumeEpoch]
      BY <2>3 DEF SocketInv, Settled
    <3>2. CASE sessions[q].connectionId = c
      <4>1. [playerId |-> q, resumeEpoch |-> sessions[q].resumeEpoch] # h
        BY <2>3
      <4>2. [playerId |-> q, resumeEpoch |-> sessions[q].resumeEpoch] # NoSession
        BY <2>1, SessionFacts, SessionAssumption DEF Handle
      <4>3. open'[c] = h
        BY <1>1, <1>2 DEF TypeOK
      <4>4. QED
        BY <1>1, <3>1, <3>2, <4>1, <4>2, <4>3
    <3>3. CASE sessions[q].connectionId # c
      BY <1>1, <1>2, <2>1, <3>1, <3>3 DEF TypeOK
    <3>4. QED
      BY <3>2, <3>3
  <2>4. QED
    BY <2>2, <2>3
<1>6. ParticipantsKeepTheirSessions'
  BY <1>2 DEF ParticipantsKeepTheirSessions, Present
<1>7. QED
  BY <1>3, <1>4, <1>5, <1>6

\* The socket closed first and the session is rolled back; the invariant is kept.
LEMMA ActivateFailsKeepsSessionInv ==
  ASSUME SessionInv, ActivateFails
  PROVE  SessionInv'
<1> USE DEF SessionInv
<1> DEFINE p == job.playerId
<1>1. /\ job.kind = "activate" /\ p \in Players /\ job.existing \in Session \cup {NoSession}
      /\ job' = Idle
      /\ sessions' = [sessions EXCEPT ![p] = job.existing]
      /\ UNCHANGED <<status, participantIds, completedPlayerIds, startDue, history,
                     open, restarts>>
  BY JobFacts DEF ActivateFails, roomVars, TypeOK
<1>2. TypeOK'
  BY <1>1 DEF TypeOK, Jobs
<1>3. JobInv'
  BY <1>1 DEF JobInv, Idle
<1>4. SocketInv'
  <2>1. \A q \in Players : Settled(q)' = Settled(q)
    BY <1>1 DEF Settled, TypeOK, Idle
  <2>2. QED
    BY <1>1, <2>1 DEF SocketInv
<1>5. ParticipantsKeepTheirSessions'
  <2>1. status # "waiting" => Present' = Present
    BY <1>1 DEF Present, JobInv, TypeOK
  <2>2. QED
    BY <1>1, <2>1 DEF ParticipantsKeepTheirSessions
<1>6. QED
  BY <1>2, <1>3, <1>4, <1>5

\* A socket is gone; only the session it still owns is disconnected.
LEMMA DisconnectKeepsSessionInv ==
  ASSUME SessionInv, NEW c \in Connections, Disconnect(c)
  PROVE  SessionInv'
<1> USE DEF SessionInv
<1> DEFINE p == open[c].playerId
<1>1. /\ job = Idle /\ open[c] \in Handle /\ p \in Players
      /\ open' = [open EXCEPT ![c] = NoSession]
      /\ sessions' = IF Owns(p, c)
                     THEN [sessions EXCEPT ![p].connected = FALSE, ![p].due = FALSE]
                     ELSE sessions
      /\ UNCHANGED <<status, participantIds, completedPlayerIds, startDue, history,
                     job, restarts>>
  BY DEF Disconnect, roomVars, TypeOK, Handle
<1>2. /\ sessions' \in [Players -> Session \cup {NoSession}]
      /\ \A q \in Players : q # p \/ ~Owns(p, c) => sessions'[q] = sessions[q]
      /\ Owns(p, c) => /\ sessions[p] \in Session /\ sessions'[p] \in Session
                       /\ ~sessions'[p].connected /\ sessions'[p].connectionId = c
                       /\ sessions'[p].resumeEpoch = sessions[p].resumeEpoch
  BY <1>1 DEF Owns, TypeOK, Session
<1>3. TypeOK'
  BY <1>1, <1>2 DEF TypeOK
<1>4. JobInv'
  BY <1>1 DEF JobInv, Idle
<1>5. SocketInv'
  <2> SUFFICES ASSUME NEW q \in Players, sessions'[q] # NoSession
               PROVE  sessions'[q].connected <=>
                        open'[sessions'[q].connectionId] =
                          [playerId |-> q, resumeEpoch |-> sessions'[q].resumeEpoch]
    <3>1. \A q \in Players : Settled(q)' = sessions'[q]
      BY <1>1 DEF Settled, Idle
    <3>2. QED
      BY <3>1 DEF SocketInv
  <2>1. /\ sessions'[q] \in Session /\ sessions'[q].connectionId \in Connections
        /\ [playerId |-> q, resumeEpoch |-> sessions'[q].resumeEpoch] # NoSession
    BY <1>2, SessionFacts, SessionAssumption DEF Handle
  <2>2. CASE q = p /\ Owns(p, c)
    BY <1>1, <1>2, <2>1, <2>2 DEF TypeOK
  <2>3. CASE q # p \/ ~Owns(p, c)
    <3>1. sessions'[q] = sessions[q]
      BY <1>2, <2>3
    <3>2. sessions[q].connected <=>
            open[sessions[q].connectionId] =
              [playerId |-> q, resumeEpoch |-> sessions[q].resumeEpoch]
      BY <1>1, <2>1, <3>1 DEF SocketInv, Settled, Idle
    <3>3. CASE sessions[q].connectionId # c
      BY <1>1, <2>1, <3>1, <3>2, <3>3 DEF TypeOK
    <3>4. CASE sessions[q].connectionId = c
      <4>1. q # p
        BY <2>1, <2>3, <3>1, <3>4, SessionAssumption DEF Owns
      <4>2. open[c] # [playerId |-> q, resumeEpoch |-> sessions[q].resumeEpoch]
        BY <4>1
      <4>3. open'[c] = NoSession
        BY <1>1 DEF TypeOK
      <4>4. QED
        BY <2>1, <3>1, <3>2, <3>4, <4>2, <4>3
    <3>5. QED
      BY <3>3, <3>4
  <2>4. QED
    BY <2>2, <2>3
<1>6. ParticipantsKeepTheirSessions'
  <2>1. Present' = Present
    BY <1>2, SessionAssumption DEF Present
  <2>2. QED
    BY <1>1, <2>1 DEF ParticipantsKeepTheirSessions
<1>7. QED
  BY <1>3, <1>4, <1>5, <1>6

\* A commit, or nothing, after advanceRoom.
LEMMA AdvanceKeepsSessionInv ==
  ASSUME SessionInv, job = Idle, job' = Idle, status' = Advanced,
         history' \in Seq(Event),
         UNCHANGED <<participantIds, completedPlayerIds, startDue, sessions, open, restarts>>
  PROVE  SessionInv'
<1> USE DEF SessionInv
<1>1. TypeOK'
  BY AdvancedFacts DEF TypeOK
<1>2. JobInv' /\ SocketInv'
  BY DEF JobInv, SocketInv, Settled, Idle
<1>3. ParticipantsKeepTheirSessions'
  BY AdvancedFacts DEF TypeOK, ParticipantsKeepTheirSessions, Present
<1>4. QED
  BY <1>1, <1>2, <1>3

\* A handler that changes a session without touching its connection.
LEMMA UpdateKeepsSessionInv ==
  ASSUME SessionInv, job = Idle, NEW p \in Players, sessions[p] \in Session,
         NEW t \in Session, sessions' = [sessions EXCEPT ![p] = t],
         t.connectionId = sessions[p].connectionId, t.connected = sessions[p].connected,
         t.resumeEpoch = sessions[p].resumeEpoch,
         status' \in {status, Advanced},
         job' \in {Idle, StartCheck}, job' = StartCheck => status' = "waiting",
         UNCHANGED <<participantIds, completedPlayerIds, startDue, history, open, restarts>>
  PROVE  SessionInv'
<1> USE DEF SessionInv
<1>1. /\ sessions'[p] = t /\ t # NoSession
      /\ \A q \in Players : q # p => sessions'[q] = sessions[q]
  BY SessionAssumption DEF TypeOK
<1>2. TypeOK'
  BY AdvancedFacts DEF TypeOK, Jobs
<1>3. JobInv'
  BY DEF JobInv, Idle, StartCheck
<1>4. SocketInv'
  <2>1. \A q \in Players : Settled(q) = sessions[q] /\ Settled(q)' = sessions'[q]
    BY DEF Settled, Idle, StartCheck
  <2>2. SUFFICES ASSUME NEW q \in Players, sessions'[q] # NoSession
                 PROVE  sessions'[q].connected <=>
                          open'[sessions'[q].connectionId] =
                            [playerId |-> q, resumeEpoch |-> sessions'[q].resumeEpoch]
    BY <2>1 DEF SocketInv
  <2>3. CASE q = p
    BY <1>1, <2>1, <2>3, SessionAssumption DEF SocketInv
  <2>4. CASE q # p
    BY <1>1, <2>1, <2>2, <2>4 DEF SocketInv
  <2>5. QED
    BY <2>3, <2>4
<1>5. ParticipantsKeepTheirSessions'
  <2>1. Present' = Present
    BY <1>1, SessionAssumption DEF Present
  <2>2. QED
    BY <2>1, AdvancedFacts DEF ParticipantsKeepTheirSessions, TypeOK
<1>6. QED
  BY <1>2, <1>3, <1>4, <1>5

\* Sessions are only dropped, and only those of a match that is not on.
LEMMA DropKeepsSessionInv ==
  ASSUME SessionInv, job.kind \in {"idle", "sweep"}, job' \in Jobs,
         job'.kind \in {"idle", "sweep"}, status' \in Statuses, startDue' \in BOOLEAN,
         participantIds' = participantIds, completedPlayerIds' \subseteq participantIds,
         history' \in Seq(Event), sessions' \in [Players -> Session \cup {NoSession}],
         \A q \in Players : sessions'[q] \in {sessions[q], NoSession},
         status' \in {"scheduled", "running"} =>
           status \in {"scheduled", "running"} /\ Present' = Present,
         UNCHANGED <<open, restarts>>
  PROVE  SessionInv'
<1> USE DEF SessionInv
<1>1. TypeOK'
  BY DEF TypeOK
<1>2. JobInv'
  BY DEF JobInv
<1>3. SocketInv'
  <2>1. \A q \in Players : Settled(q) = sessions[q] /\ Settled(q)' = sessions'[q]
    BY DEF Settled
  <2>2. SUFFICES ASSUME NEW q \in Players, sessions'[q] # NoSession
                 PROVE  sessions'[q].connected <=>
                          open'[sessions'[q].connectionId] =
                            [playerId |-> q, resumeEpoch |-> sessions'[q].resumeEpoch]
    BY <2>1 DEF SocketInv
  <2>3. sessions'[q] = sessions[q]
    BY <2>2
  <2>4. QED
    BY <2>1, <2>2, <2>3 DEF SocketInv
<1>4. ParticipantsKeepTheirSessions'
  BY DEF ParticipantsKeepTheirSessions
<1>5. QED
  BY <1>1, <1>2, <1>3, <1>4

\* commitPlayerFinish, from a finish or a forfeit.
LEMMA FinishKeepsSessionInv ==
  ASSUME SessionInv, NEW p \in participantIds, NEW current \in {"scheduled", "running"},
         NEW expired, CommitPlayerFinish(p, current, expired),
         status \in {"scheduled", "running"}, ~PlayerFinishFound(p),
         job.kind \in {"idle", "sweep"}, job' \in Jobs, job'.kind \in {"idle", "sweep"},
         UNCHANGED <<open, restarts>>
  PROVE  SessionInv'
<1> USE DEF SessionInv
<1>1. history' \in Seq(Event)
  <2>1. [kind |-> "finish", playerId |-> p, key |-> NoKey, placement |-> Placement(p)]
          \in Event
    BY PlacementType DEF Event, Kinds, TypeOK
  <2>2. QED
    BY <2>1, CommitFacts DEF CommitPlayerFinish, TypeOK
<1>2. completedPlayerIds' \subseteq participantIds
  BY DEF CommitPlayerFinish, Completed
<1>3. /\ status' \in {"finished", current} /\ participantIds' = participantIds
      /\ startDue' = startDue
      /\ status' # "finished" => sessions' = sessions
      /\ sessions' \in [Players -> Session \cup {NoSession}]
      /\ \A q \in Players : sessions'[q] \in {sessions[q], NoSession}
  BY DEF CommitPlayerFinish, TypeOK
<1>4. QED
  BY <1>1, <1>2, <1>3, DropKeepsSessionInv DEF TypeOK, Statuses, Present

\* The handlers of ready, progress and the other messages; the invariant is kept.
LEMMA HandleKeepsSessionInv ==
  ASSUME SessionInv, NEW c \in Connections, HandleStep(c)
  PROVE  SessionInv'
<1> USE DEF SessionInv
<1> DEFINE p == open[c].playerId
<1>1. job = Idle /\ p \in Players /\ sessions[p] \in Session
  BY LiveFacts DEF HandleStep, Ready, Progress, Acknowledge, Interaction, Evidence,
     Finish, Serves
<1>2. CASE Ready(c)
  <2>1. PICK ready \in BOOLEAN :
          sessions' = [sessions EXCEPT ![p] = [sessions[p] EXCEPT !.ready = ready]]
    BY <1>2, <1>1 DEF Ready, TypeOK
  <2>2. [sessions[p] EXCEPT !.ready = ready] \in Session
    BY <1>1 DEF Session
  <2>3. status = "waiting"
    BY <1>2, AdvancedFacts DEF Ready, TypeOK
  <2>4. QED
    BY <1>1, <1>2, <2>1, <2>2, <2>3, UpdateKeepsSessionInv DEF Ready, roomVars, Session
<1>3. CASE Progress(c)
  <2>1. PICK n \in 0 .. MaxProgress :
          sessions' = [sessions EXCEPT ![p] = [sessions[p] EXCEPT !.progress = n]]
    BY <1>3, <1>1 DEF Progress, TypeOK
  <2> DEFINE t == [sessions[p] EXCEPT !.progress = n]
  <2>2. /\ t \in Session /\ t.connectionId = sessions[p].connectionId
        /\ t.connected = sessions[p].connected /\ t.resumeEpoch = sessions[p].resumeEpoch
    BY <1>1 DEF Session
  <2>3. /\ sessions' = [sessions EXCEPT ![p] = t] /\ status' = Advanced
        /\ job' = Idle /\ Idle # StartCheck
        /\ UNCHANGED <<participantIds, completedPlayerIds, startDue, history, open, restarts>>
    BY <1>1, <1>3, <2>1 DEF Progress, Idle, StartCheck
  <2> HIDE DEF t
  <2>4. QED
    BY <1>1, <2>2, <2>3, UpdateKeepsSessionInv
<1>4. CASE Acknowledge(c)
  <2>1. PICK n \in 0 .. MaxAcknowledged :
          sessions' = [sessions EXCEPT ![p] =
                         [sessions[p] EXCEPT !.acknowledged = AfterAck(@, n)]]
    BY <1>4, <1>1 DEF Acknowledge, TypeOK
  <2> DEFINE t == [sessions[p] EXCEPT !.acknowledged = AfterAck(@, n)]
  <2>2. /\ t \in Session /\ t.connectionId = sessions[p].connectionId
        /\ t.connected = sessions[p].connected /\ t.resumeEpoch = sessions[p].resumeEpoch
    BY <1>1 DEF Session, AfterAck
  <2>3. /\ sessions' = [sessions EXCEPT ![p] = t] /\ status' = Advanced
        /\ job' = Idle /\ Idle # StartCheck
        /\ UNCHANGED <<participantIds, completedPlayerIds, startDue, history, open, restarts>>
    BY <1>1, <1>4, <2>1 DEF Acknowledge, Idle, StartCheck
  <2> HIDE DEF t
  <2>4. QED
    BY <1>1, <2>2, <2>3, UpdateKeepsSessionInv
<1>5. CASE Interaction(c) \/ Evidence(c)
  <2>1. PICK k \in Keys, kind \in {"interaction", "evidence"} :
          Commit([kind |-> kind, playerId |-> p, key |-> k, placement |-> 0])
    BY <1>5 DEF Interaction, Evidence
  <2>2. [kind |-> kind, playerId |-> p, key |-> k, placement |-> 0] \in Event
    BY <1>1, EngineAssumption, FS_CardinalityType DEF Event, Kinds
  <2>3. history' \in Seq(Event)
    BY <2>1, <2>2, CommitFacts DEF TypeOK
  <2>4. QED
    BY <1>1, <1>5, <2>3, AdvanceKeepsSessionInv DEF Interaction, Evidence
<1>6. CASE Finish(c)
  <2>1. /\ p \in participantIds /\ ~PlayerFinishFound(p)
        /\ Advanced = "running" /\ status \in {"scheduled", "running"}
        /\ CommitPlayerFinish(p, Advanced, ExpiredPlayers)
        /\ job' = job /\ job.kind = "idle"
        /\ UNCHANGED <<open, restarts>>
    BY <1>1, <1>6, AdvancedFacts DEF Finish, MayFinish, TypeOK, Idle
  <2>2. QED
    BY <2>1, FinishKeepsSessionInv DEF TypeOK
<1>7. QED
  BY <1>2, <1>3, <1>4, <1>5, <1>6 DEF HandleStep

\* maybeScheduleStart; the invariant is kept.
LEMMA ScheduleKeepsSessionInv ==
  ASSUME SessionInv, ScheduleStart
  PROVE  SessionInv'
<1> USE DEF SessionInv
<1>1. job = StartCheck /\ job' = Idle /\ UNCHANGED <<sessions, open, restarts>>
  BY DEF ScheduleStart
<1>2. SocketInv'
  BY <1>1 DEF SocketInv, Settled, Idle, StartCheck
<1>3. JobInv'
  BY <1>1 DEF JobInv, Idle
<1>4. CASE Quorum
  <2>1. StartEvent \in Event
    BY EngineAssumption, FS_CardinalityType DEF StartEvent, Event, Kinds
  <2>2. history' \in Seq(Event)
    BY <1>4, <2>1, CommitFacts DEF ScheduleStart, TypeOK
  <2>3. /\ status' = "scheduled" /\ startDue' = FALSE
        /\ participantIds' = Present /\ completedPlayerIds' = {}
    BY <1>4 DEF ScheduleStart
  <2>4. TypeOK'
    BY <1>1, <2>2, <2>3 DEF TypeOK, Present, Statuses, Jobs
  <2>5. ParticipantsKeepTheirSessions'
    BY <1>1, <2>3 DEF ParticipantsKeepTheirSessions, Present
  <2>6. QED
    BY <1>2, <1>3, <2>4, <2>5
<1>5. CASE ~Quorum
  <2>1. UNCHANGED roomVars
    BY <1>5 DEF ScheduleStart
  <2>2. TypeOK' /\ ParticipantsKeepTheirSessions'
    BY <1>1, <2>1 DEF roomVars, TypeOK, Jobs, ParticipantsKeepTheirSessions, Present
  <2>3. QED
    BY <1>2, <1>3, <2>2
<1>6. QED
  BY <1>4, <1>5

\* The sweep, session by session; the invariant is kept.
LEMMA SweepKeepsSessionInv ==
  ASSUME SessionInv, Sweep \/ SweepSession \/ SweepDone
  PROVE  SessionInv'
<1> USE DEF SessionInv
<1>1. CASE Sweep
  <2>1. /\ job = Idle /\ job' = Sweeping(ExpiredPlayers, ExpiredPlayers) /\ status' = Advanced
        /\ UNCHANGED <<participantIds, completedPlayerIds, startDue, history, sessions,
                       open, restarts>>
    BY <1>1 DEF Sweep
  <2>2. job' \in Jobs /\ job'.kind = "sweep" /\ job.kind = "idle"
    BY <2>1 DEF Jobs, Sweeping, ExpiredPlayers, Idle
  <2>3. QED
    BY <2>1, <2>2, AdvancedFacts, DropKeepsSessionInv DEF TypeOK, Present
<1>2. CASE SweepSession
  <2>1. PICK p \in job.todo :
          /\ job' = Sweeping(job.todo \ {p}, job.expired)
          /\ IF ~KeepsSession(p)
             THEN sessions' = [sessions EXCEPT ![p] = NoSession] /\ UNCHANGED roomVars
             ELSE IF PlayerFinishFound(p)
             THEN UNCHANGED <<roomVars, sessions>>
             ELSE CommitPlayerFinish(p, status, job.expired)
    BY <1>2 DEF SweepSession
  <2>2. /\ job.kind = "sweep" /\ p \in Players /\ UNCHANGED <<open, restarts>>
        /\ job' \in Jobs /\ job'.kind = "sweep"
    BY <1>2, <2>1, JobFacts DEF SweepSession, TypeOK, Jobs, Sweeping
  <2>3. CASE ~KeepsSession(p)
    <3>1. /\ sessions' = [sessions EXCEPT ![p] = NoSession]
          /\ UNCHANGED <<status, participantIds, completedPlayerIds, startDue, history>>
      BY <2>1, <2>3 DEF roomVars
    <3>2. status \in {"scheduled", "running"} => Present' = Present
      BY <2>3, <3>1 DEF KeepsSession, Present, ParticipantsKeepTheirSessions, TypeOK
    <3>3. QED
      BY <2>2, <3>1, <3>2, DropKeepsSessionInv DEF TypeOK
  <2>4. CASE KeepsSession(p) /\ PlayerFinishFound(p)
    <3>1. UNCHANGED <<status, participantIds, completedPlayerIds, startDue, history, sessions>>
      BY <2>1, <2>4 DEF roomVars
    <3>2. QED
      BY <2>2, <3>1, DropKeepsSessionInv DEF TypeOK, Present
  <2>5. CASE KeepsSession(p) /\ ~PlayerFinishFound(p)
    BY <2>1, <2>2, <2>5, FinishKeepsSessionInv DEF KeepsSession
  <2>6. QED
    BY <2>3, <2>4, <2>5
<1>3. CASE SweepDone
  <2>1. /\ job.kind = "sweep" /\ job' = Idle
        /\ UNCHANGED <<status, participantIds, completedPlayerIds, startDue, history,
                       sessions, open, restarts>>
    BY <1>3 DEF SweepDone, roomVars
  <2>2. job' \in Jobs /\ job'.kind = "idle"
    BY <2>1 DEF Jobs, Idle
  <2>3. QED
    BY <2>1, <2>2, DropKeepsSessionInv DEF TypeOK, Present
<1>4. QED
  BY <1>1, <1>2, <1>3

\* The process dies and starts again; the invariant is kept.
LEMMA RestartKeepsSessionInv ==
  ASSUME SessionInv, Restart
  PROVE  SessionInv'
<1> USE DEF SessionInv
<1>1. /\ restarts < MaxRestarts /\ restarts' = restarts + 1 /\ job' = Idle
      /\ open' = [c \in Connections |-> NoSession]
      /\ UNCHANGED <<status, participantIds, completedPlayerIds, startDue, history>>
  BY DEF Restart, roomVars
<1>2. \A p \in Players : sessions[p] # NoSession =>
        /\ sessions[p] \in Session /\ Reconciled(sessions[p]) \in Session
        /\ ~Reconciled(sessions[p]).connected
  BY DEF TypeOK, Reconciled, Session
<1>3. \A p \in Players :
        /\ sessions[p] = NoSession => sessions'[p] = NoSession
        /\ sessions[p] # NoSession => sessions'[p] \in Session /\ ~sessions'[p].connected
  BY <1>2 DEF Restart
<1>4. TypeOK'
  <2>1. sessions' \in [Players -> Session \cup {NoSession}]
    BY <1>3 DEF Restart
  <2>2. restarts' \in 0 .. MaxRestarts
    BY <1>1, EngineAssumption DEF TypeOK
  <2>3. QED
    BY <1>1, <2>1, <2>2 DEF TypeOK, Jobs
<1>5. JobInv'
  BY <1>1 DEF JobInv, Idle
<1>6. SocketInv'
  <2>1. \A p \in Players : Settled(p)' = sessions'[p]
    BY <1>1 DEF Settled, Idle
  <2>2. \A p \in Players : sessions'[p] # NoSession =>
          /\ ~sessions'[p].connected
          /\ open'[sessions'[p].connectionId] = NoSession
          /\ [playerId |-> p, resumeEpoch |-> sessions'[p].resumeEpoch] # NoSession
    BY <1>1, <1>3, SessionFacts, SessionAssumption DEF Handle
  <2>3. QED
    BY <2>1, <2>2 DEF SocketInv
<1>7. ParticipantsKeepTheirSessions'
  <2>1. Present' = Present
    BY <1>3, SessionAssumption DEF Present
  <2>2. QED
    BY <1>1, <2>1 DEF ParticipantsKeepTheirSessions
<1>8. QED
  BY <1>4, <1>5, <1>6, <1>7

\* Every step keeps the invariant.
LEMMA NextKeepsSessionInv == SessionInv /\ [Next]_vars => SessionInv'
<1> SUFFICES ASSUME SessionInv, [Next]_vars
             PROVE  SessionInv'
  OBVIOUS
<1>1. CASE StartTimePasses \/ \E p \in Players : GracePasses(p)
  BY <1>1, TimeKeepsSessionInv
<1>2. CASE \E p \in Players : Connect(p)
  BY <1>2, JoinKeepsSessionInv, ReconnectKeepsSessionInv DEF Connect
<1>3. CASE AdvanceOnly
  BY <1>3, AdvanceKeepsSessionInv DEF AdvanceOnly, SessionInv, TypeOK
<1>4. CASE \E c \in Connections : Disconnect(c) \/ HandleStep(c)
  BY <1>4, DisconnectKeepsSessionInv, HandleKeepsSessionInv
<1>5. CASE Sweep \/ SweepSession \/ SweepDone
  BY <1>5, SweepKeepsSessionInv
<1>6. CASE ActivateConnection \/ ActivateFails
  BY <1>6, ActivateKeepsSessionInv, ActivateFailsKeepsSessionInv
<1>7. CASE ScheduleStart
  BY <1>7, ScheduleKeepsSessionInv
<1>8. CASE Restart
  BY <1>8, RestartKeepsSessionInv
<1>9. CASE UNCHANGED vars
  BY <1>9 DEF vars, SessionInv, TypeOK, JobInv, SocketInv, Settled,
     ParticipantsKeepTheirSessions, Present
<1>10. QED
  BY <1>1, <1>2, <1>3, <1>4, <1>5, <1>6, <1>7, <1>8, <1>9 DEF Next, JobStep

(***************************************************************************)
(* The log, on a storage that keeps its idempotency rows.                  *)
(***************************************************************************)

\* The row of a player's finish is found exactly if the player has finished.
LEMMA FoundFacts ==
  ASSUME ~PrunesIdempotency, TypeOK
  PROVE  /\ Remembered = 1 .. LastSequence
         /\ \A p \in Players : PlayerFinishFound(p) <=> p \in Finishers
         /\ Completed = participantIds \cap Finishers
<1>1. Remembered = 1 .. LastSequence
  BY DEF Remembered
<1>2. \A s \in 1 .. LastSequence : history[s] \in Event
  BY DEF TypeOK, LastSequence
<1>3. \A p \in Players, s \in 1 .. LastSequence :
        ScopeKey(history[s]) = <<"finish", p>> <=>
          history[s].kind = "finish" /\ history[s].playerId = p
  BY <1>2, ScopeAssumption DEF ScopeKey, Event
<1>4. \A p \in Players : PlayerFinishFound(p) <=> p \in Finishers
  BY <1>1, <1>3 DEF PlayerFinishFound, Found, Finishers, EventsOf
<1>5. QED
  BY <1>1, <1>4 DEF Completed, TypeOK

\* What a commit adds to the log.
LEMMA NewEvent ==
  ASSUME TypeOK, NEW e \in Event, Commit(e)
  PROVE  /\ LastSequence + 1 \in 1 .. LastSequence'
         /\ \A k \in Kinds : EventsOf(k)' =
              IF e.kind = k THEN EventsOf(k) \cup {LastSequence + 1} ELSE EventsOf(k)
         /\ Finishers' = IF e.kind = "finish" THEN Finishers \cup {e.playerId} ELSE Finishers
         /\ Results' = IF e.kind = "finish"
                       THEN Results \cup {<<e.playerId, e.placement>>} ELSE Results
<1>1. /\ LastSequence \in Nat /\ LastSequence' = LastSequence + 1
      /\ history'[LastSequence + 1] = e
      /\ \A s \in 1 .. LastSequence : history'[s] = history[s]
  BY CommitFacts DEF TypeOK
<1>2. 1 .. LastSequence' = (1 .. LastSequence) \cup {LastSequence + 1}
  BY <1>1
<1>3. \A k : EventsOf(k)' =
        IF e.kind = k THEN EventsOf(k) \cup {LastSequence + 1} ELSE EventsOf(k)
  BY <1>1, <1>2 DEF EventsOf
<1>4. \A s \in EventsOf("finish") : s \in 1 .. LastSequence /\ s # LastSequence + 1
  BY <1>1 DEF EventsOf
<1>5. Finishers' = {history'[s].playerId : s \in EventsOf("finish")'}
  BY DEF Finishers
<1>6. Results' = {<<history'[s].playerId, history'[s].placement>> : s \in EventsOf("finish")'}
  BY DEF Results
<1>7. CASE e.kind = "finish"
  <2>1. EventsOf("finish")' = EventsOf("finish") \cup {LastSequence + 1}
    BY <1>3, <1>7
  <2>2. Finishers' = Finishers \cup {e.playerId}
    BY <1>1, <1>4, <1>5, <2>1 DEF Finishers
  <2>3. Results' = Results \cup {<<e.playerId, e.placement>>}
    BY <1>1, <1>4, <1>6, <2>1 DEF Results
  <2>4. QED
    BY <1>1, <1>2, <1>3, <1>7, <2>2, <2>3
<1>8. CASE e.kind # "finish"
  <2>1. EventsOf("finish")' = EventsOf("finish")
    BY <1>3, <1>8
  <2>2. Finishers' = Finishers /\ Results' = Results
    BY <1>1, <1>4, <1>5, <1>6, <2>1 DEF Finishers, Results
  <2>3. QED
    BY <1>1, <1>2, <1>3, <1>8, <2>2
<1>9. QED
  BY <1>7, <1>8

\* A commit under a key that was not found keeps keys unique.
LEMMA NewKey ==
  ASSUME ~PrunesIdempotency, TypeOK, RetriesApplyOnce, NEW e \in Event, Commit(e),
         \A s \in 1 .. LastSequence : ScopeKey(history[s]) # ScopeKey(e)
  PROVE  RetriesApplyOnce'
<1>1. /\ LastSequence \in Nat /\ LastSequence' = LastSequence + 1
      /\ history'[LastSequence + 1] = e
      /\ \A s \in 1 .. LastSequence : history'[s] = history[s]
  BY CommitFacts DEF TypeOK
<1> SUFFICES ASSUME NEW s \in 1 .. LastSequence', NEW t \in 1 .. LastSequence',
                    ScopeKey(history'[s]) = ScopeKey(history'[t])
             PROVE  s = t
  BY DEF RetriesApplyOnce, ScopeKey
<1>2. s \in 1 .. LastSequence \/ s = LastSequence + 1
  BY <1>1
<1>3. t \in 1 .. LastSequence \/ t = LastSequence + 1
  BY <1>1
<1>4. QED
  BY <1>1, <1>2, <1>3 DEF RetriesApplyOnce

\* The empty log.
LEMMA InitMatchInv == Init => MatchInv
<1> SUFFICES ASSUME Init PROVE MatchInv
  OBVIOUS
<1>1. LastSequence = 0 /\ \A k : EventsOf(k) = {}
  BY DEF Init, LastSequence, EventsOf
<1>2. Finishers = {}
  BY <1>1 DEF Finishers
<1>3. QED
  BY <1>1, <1>2 DEF Init, MatchInv, RetriesApplyOnce, LogReadsLikeAMatch,
     FinishedWhenAllHaveOutcomes

\* Steps without a commit.
LEMMA NoCommitKeepsMatchInv ==
  ASSUME TypeOK, MatchInv, status' \in {status, Advanced},
         UNCHANGED <<participantIds, completedPlayerIds, history>>
  PROVE  MatchInv'
<1>1. /\ status' = "waiting" <=> status = "waiting"
      /\ status' = "finished" <=> status = "finished"
  BY AdvancedFacts DEF TypeOK
<1>2. /\ RetriesApplyOnce' = RetriesApplyOnce /\ Finishers' = Finishers
      /\ \A k : EventsOf(k)' = EventsOf(k)
  BY DEF RetriesApplyOnce, Finishers, EventsOf, LastSequence, ScopeKey
<1>3. LogReadsLikeAMatch'
  BY <1>1, <1>2 DEF MatchInv, LogReadsLikeAMatch
<1>4. FinishedWhenAllHaveOutcomes'
  BY <1>1, <1>2 DEF MatchInv, FinishedWhenAllHaveOutcomes
<1>5. QED
  BY <1>1, <1>2, <1>3, <1>4 DEF MatchInv

\* A key the storage does not find belongs to no event.
LEMMA UnusedKey ==
  ASSUME ~PrunesIdempotency, TypeOK, NEW e \in Event, ~Found(ScopeKey(e))
  PROVE  \A s \in 1 .. LastSequence : ScopeKey(history[s]) # ScopeKey(e)
BY FoundFacts DEF Found

\* An interaction or evidence, accepted once.
LEMMA InputKeepsMatchInv ==
  ASSUME ~PrunesIdempotency, TypeOK, MatchInv,
         NEW c \in Connections, Interaction(c) \/ Evidence(c)
  PROVE  MatchInv'
<1> DEFINE p == open[c].playerId
<1>1. p \in Players
  BY LiveFacts DEF Interaction, Evidence, Serves
<1>2. PICK k \in Keys, kind \in {"interaction", "evidence"} :
        /\ Commit([kind |-> kind, playerId |-> p, key |-> k, placement |-> 0])
        /\ ~Found(<<p, k>>)
        /\ kind = "interaction" => MayInteract(p)
  BY DEF Interaction, Evidence
<1> DEFINE e == [kind |-> kind, playerId |-> p, key |-> k, placement |-> 0]
<1>3. e \in Event /\ ScopeKey(e) = <<p, k>> /\ e.kind = kind /\ e.playerId = p
  BY <1>1, EngineAssumption, FS_CardinalityType DEF Event, Kinds, ScopeKey
<1>4. /\ status' = "waiting" <=> status = "waiting"
      /\ status' = "finished" <=> status = "finished"
      /\ UNCHANGED <<participantIds, completedPlayerIds>>
  BY AdvancedFacts DEF Interaction, Evidence, TypeOK
<1> HIDE DEF e
<1>5. RetriesApplyOnce'
  BY <1>2, <1>3, NewKey, UnusedKey DEF MatchInv, e
<1>6. /\ LastSequence \in Nat
      /\ EventsOf("start")' = EventsOf("start") /\ EventsOf("finish")' = EventsOf("finish")
      /\ EventsOf("interaction")' \subseteq EventsOf("interaction") \cup {LastSequence + 1}
      /\ Finishers' = Finishers
      /\ \A s \in 1 .. LastSequence : history'[s] = history[s]
      /\ history'[LastSequence + 1] = e
  BY <1>2, <1>3, NewEvent, CommitFacts DEF Kinds, TypeOK, e
<1>7. LogReadsLikeAMatch'
  <2>1. status' # "waiting" <=> EventsOf("start")' # {}
    BY <1>4, <1>6 DEF MatchInv, LogReadsLikeAMatch
  <2>2. ASSUME NEW s \in EventsOf("interaction")' \cup EventsOf("finish")'
        PROVE  /\ \E t \in EventsOf("start")' : t < s
               /\ \A t \in EventsOf("finish")' : t < s => history'[t].playerId # history'[s].playerId
    <3>1. \A t \in EventsOf("finish") \cup EventsOf("start") :
             t \in 1 .. LastSequence /\ history'[t] = history[t]
      BY <1>6 DEF EventsOf
    <3>2. CASE s \in EventsOf("interaction") \cup EventsOf("finish")
      <4>1. history'[s] = history[s]
        BY <1>6, <3>2 DEF EventsOf
      <4>2. QED
        BY <1>6, <3>1, <3>2, <4>1 DEF MatchInv, LogReadsLikeAMatch
    <3>3. CASE s \notin EventsOf("interaction") \cup EventsOf("finish")
      <4>1. s = LastSequence + 1 /\ history'[s] = e /\ kind = "interaction"
        BY <1>2, <1>3, <1>6, <3>3, NewEvent DEF Kinds, e
      <4>2. p \notin Finishers /\ status # "waiting"
        BY <1>1, <1>2, <4>1, FoundFacts, AdvancedFacts DEF MayInteract, TypeOK
      <4>3. \E t \in EventsOf("start")' : t < s
        BY <1>6, <3>1, <4>1, <4>2 DEF MatchInv, LogReadsLikeAMatch
      <4>4. \A t \in EventsOf("finish") : history'[t].playerId # p
        BY <3>1, <4>2 DEF Finishers
      <4>5. QED
        BY <1>3, <1>6, <4>1, <4>3, <4>4
    <3>4. QED
      BY <3>2, <3>3
  <2>3. QED
    BY <2>1, <2>2 DEF LogReadsLikeAMatch
<1>8. FinishedWhenAllHaveOutcomes'
  BY <1>4, <1>6 DEF MatchInv, FinishedWhenAllHaveOutcomes
<1>9. QED
  BY <1>4, <1>5, <1>7, <1>8 DEF MatchInv

\* The start of the match.
LEMMA StartKeepsMatchInv ==
  ASSUME ~PrunesIdempotency, SessionInv, MatchInv, ScheduleStart, Quorum
  PROVE  MatchInv' /\ Ledger!Begin
<1>1. /\ status = "waiting" /\ participantIds = {} /\ TypeOK
      /\ Commit(StartEvent) /\ status' = "scheduled"
      /\ participantIds' = Present /\ completedPlayerIds' = {}
  BY JobFacts DEF ScheduleStart, StartCheck, SessionInv, JobInv, MatchInv
<1>2. StartEvent \in Event /\ StartEvent.kind = "start" /\ ScopeKey(StartEvent) = <<"room", "start">>
  BY EngineAssumption, FS_CardinalityType DEF StartEvent, Event, Kinds, ScopeKey
<1>3. Present \subseteq Players /\ Present # {}
  <2>1. Cardinality(Present) >= 1
    BY EngineAssumption, FS_Subset, FS_CardinalityType DEF Quorum, Present
  <2>2. QED
    BY <2>1, FS_EmptySet DEF Present
<1>4. EventsOf("start") = {} /\ EventsOf("interaction") = {} /\ EventsOf("finish") = {}
  BY <1>1 DEF MatchInv, LogReadsLikeAMatch
<1>5. Finishers = {} /\ Results = {}
  BY <1>4 DEF Finishers, Results
<1>6. /\ EventsOf("start")' = {LastSequence + 1}
      /\ EventsOf("interaction")' = {} /\ EventsOf("finish")' = {}
      /\ Finishers' = {} /\ Results' = {}
  BY <1>1, <1>2, <1>4, <1>5, NewEvent DEF Kinds
<1>7. RetriesApplyOnce'
  <2>1. \A s \in 1 .. LastSequence : history[s] \in Event /\ history[s].kind # "start"
    BY <1>1, <1>4 DEF EventsOf, TypeOK, LastSequence
  <2>2. \A s \in 1 .. LastSequence : ScopeKey(history[s]) # <<"room", "start">>
    BY <2>1, ScopeAssumption DEF ScopeKey, Event
  <2>3. QED
    BY <1>1, <1>2, <2>2, NewKey DEF MatchInv
<1>8. LogReadsLikeAMatch'
  BY <1>1, <1>6 DEF LogReadsLikeAMatch
<1>9. FinishedWhenAllHaveOutcomes'
  BY <1>1, <1>3, <1>6 DEF FinishedWhenAllHaveOutcomes
<1>10. Ledger!Begin
  BY <1>1, <1>3, <1>5, <1>6 DEF Ledger!Begin, Phase
<1>11. QED
  BY <1>1, <1>7, <1>8, <1>9, <1>10 DEF MatchInv

\* A finish or a forfeit.
LEMMA FinishKeepsMatchInv ==
  ASSUME ~PrunesIdempotency, TypeOK, MatchInv, NEW p \in participantIds,
         NEW current \in {"scheduled", "running"}, NEW expired,
         CommitPlayerFinish(p, current, expired),
         status \in {"scheduled", "running"}, ~PlayerFinishFound(p)
  PROVE  MatchInv' /\ Ledger!Place(p)
<1> DEFINE e == [kind |-> "finish", playerId |-> p, key |-> NoKey, placement |-> Placement(p)]
<1>1. /\ e \in Event /\ e.kind = "finish" /\ e.playerId = p /\ e.placement = Placement(p)
      /\ ScopeKey(e) = <<"finish", p>> /\ p \in Players
  BY PlacementType DEF Event, Kinds, ScopeKey, TypeOK
<1>2. /\ Commit(e)
      /\ completedPlayerIds' = Completed \cup {p}
      /\ status' = IF participantIds \subseteq Completed \cup {p} THEN "finished" ELSE current
      /\ participantIds' = participantIds
  BY DEF CommitPlayerFinish, AllDone
<1> HIDE DEF e
<1>3. /\ Completed = Finishers /\ p \notin Finishers /\ Finishers \subseteq participantIds
  BY <1>1, FoundFacts DEF MatchInv, FinishedWhenAllHaveOutcomes, TypeOK
<1>4. RetriesApplyOnce'
  BY <1>1, <1>2, NewKey, UnusedKey DEF MatchInv, PlayerFinishFound
<1>5. /\ LastSequence \in Nat
      /\ EventsOf("start")' = EventsOf("start")
      /\ EventsOf("interaction")' = EventsOf("interaction")
      /\ EventsOf("finish")' = EventsOf("finish") \cup {LastSequence + 1}
      /\ Finishers' = Finishers \cup {p}
      /\ Results' = Results \cup {<<p, Placement(p)>>}
      /\ \A s \in 1 .. LastSequence : history'[s] = history[s]
      /\ history'[LastSequence + 1] = e
  BY <1>1, <1>2, NewEvent, CommitFacts DEF Kinds, TypeOK
<1>6. LogReadsLikeAMatch'
  <2>1. status' # "waiting" /\ EventsOf("start")' # {}
    BY <1>2, <1>5 DEF MatchInv, LogReadsLikeAMatch
  <2>2. ASSUME NEW s \in EventsOf("interaction")' \cup EventsOf("finish")'
        PROVE  /\ \E t \in EventsOf("start")' : t < s
               /\ \A t \in EventsOf("finish")' : t < s => history'[t].playerId # history'[s].playerId
    <3>1. \A t \in EventsOf("finish") \cup EventsOf("start") :
             t \in 1 .. LastSequence /\ history'[t] = history[t]
      BY <1>5 DEF EventsOf
    <3>2. CASE s \in EventsOf("interaction") \cup EventsOf("finish")
      <4>1. history'[s] = history[s] /\ s \in 1 .. LastSequence
        BY <1>5, <3>2 DEF EventsOf
      <4>2. \A t \in EventsOf("finish")' : t < s => t \in EventsOf("finish")
        BY <1>5, <4>1
      <4>3. QED
        BY <1>5, <3>1, <3>2, <4>1, <4>2 DEF MatchInv, LogReadsLikeAMatch
    <3>3. CASE s \notin EventsOf("interaction") \cup EventsOf("finish")
      <4>1. s = LastSequence + 1 /\ history'[s] = e
        BY <1>5, <3>3
      <4>2. \E t \in EventsOf("start")' : t < s
        BY <1>5, <3>1, <4>1, <2>1
      <4>3. \A t \in EventsOf("finish") : history'[t].playerId # p
        BY <1>3, <3>1 DEF Finishers
      <4>4. QED
        BY <1>1, <1>5, <4>1, <4>2, <4>3
    <3>4. QED
      BY <3>2, <3>3
  <2>3. QED
    BY <2>1, <2>2 DEF LogReadsLikeAMatch
<1>7. FinishedWhenAllHaveOutcomes'
  BY <1>2, <1>3, <1>5 DEF FinishedWhenAllHaveOutcomes
<1>8. Ledger!Place(p)
  <2>1. Ledger!Placed = Finishers
    <3>1. ASSUME NEW r \in Results PROVE r[1] \in Finishers
      <4>1. PICK s \in EventsOf("finish") : r = <<history[s].playerId, history[s].placement>>
        BY DEF Results
      <4>2. r[1] = history[s].playerId
        BY <4>1
      <4>3. QED
        BY <4>2 DEF Finishers
    <3>2. ASSUME NEW q \in Finishers PROVE \E r \in Results : r[1] = q
      <4>1. PICK s \in EventsOf("finish") : q = history[s].playerId
        BY DEF Finishers
      <4>2. <<history[s].playerId, history[s].placement>> \in Results
        BY DEF Results
      <4>3. <<history[s].playerId, history[s].placement>>[1] = q
        BY <4>1
      <4>4. QED
        BY <4>2, <4>3
    <3>3. QED
      BY <3>1, <3>2 DEF Ledger!Placed
  <2>2. /\ Phase = "on"
        /\ Phase' = IF participantIds \subseteq Finishers \cup {p} THEN "over" ELSE "on"
    BY <1>2, <1>3 DEF Phase
  <2>3. Results' = Results \cup {<<p, Cardinality(Ledger!Placed) + 1>>}
    BY <1>3, <1>5, <2>1 DEF Placement
  <2>4. p \in participantIds \ Ledger!Placed /\ participantIds' = participantIds
    BY <1>2, <1>3, <2>1
  <2>5. Ledger!Cardinality(Ledger!Placed) = Cardinality(Ledger!Placed)
    BY DEF Ledger!Cardinality, Cardinality
  <2>6. QED
    BY <2>1, <2>2, <2>3, <2>4, <2>5 DEF Ledger!Place
<1>9. QED
  BY <1>2, <1>4, <1>6, <1>7, <1>8 DEF MatchInv

\* Every step keeps the log in order, and is a step of the ledger or of nothing
\* the ledger sees.
LEMMA NextKeepsMatchInv ==
  ASSUME ~PrunesIdempotency, SessionInv, MatchInv, [Next]_vars
  PROVE  MatchInv' /\ [Ledger!Next]_Ledger!vars
<1> USE DEF SessionInv
<1>1. ASSUME status' \in {status, Advanced},
             UNCHANGED <<participantIds, completedPlayerIds, history>>
      PROVE  MatchInv' /\ UNCHANGED Ledger!vars
  <2>1. Phase' = Phase /\ Results' = Results
    BY <1>1, AdvancedFacts DEF Phase, Results, EventsOf, LastSequence, TypeOK, Statuses, Advanced
  <2>2. QED
    BY <1>1, <2>1, NoCommitKeepsMatchInv DEF Ledger!vars
<1>2. ASSUME NEW p \in participantIds, NEW current \in {"scheduled", "running"}, NEW expired,
             CommitPlayerFinish(p, current, expired),
             status \in {"scheduled", "running"}, ~PlayerFinishFound(p)
      PROVE  MatchInv' /\ Ledger!Next
  BY <1>2, FinishKeepsMatchInv DEF Ledger!Next, TypeOK
<1>3. CASE \/ StartTimePasses \/ \E p \in Players : GracePasses(p) \/ Connect(p)
           \/ AdvanceOnly \/ Sweep \/ SweepDone \/ Restart
           \/ ActivateConnection \/ ActivateFails
  BY <1>1, <1>3 DEF StartTimePasses, GracePasses, Connect, Join, Reconnect, AdvanceOnly,
     Sweep, SweepDone, Restart, ActivateConnection, ActivateFails, roomVars
<1>4. CASE \E c \in Connections : Disconnect(c) \/ Ready(c) \/ Progress(c) \/ Acknowledge(c)
  BY <1>1, <1>4 DEF Disconnect, Ready, Progress, Acknowledge, roomVars
<1>5. CASE \E c \in Connections : Interaction(c) \/ Evidence(c)
  <2>1. PICK c \in Connections : Interaction(c) \/ Evidence(c)
    BY <1>5
  <2>2. MatchInv'
    BY <2>1, InputKeepsMatchInv
  <2>3. PICK e \in Event : Commit(e) /\ e.kind # "finish"
    <3>1. open[c].playerId \in Players
      BY <2>1, LiveFacts DEF Interaction, Evidence, Serves
    <3>2. PICK k \in Keys, kind \in {"interaction", "evidence"} :
            Commit([kind |-> kind, playerId |-> open[c].playerId, key |-> k, placement |-> 0])
      BY <2>1 DEF Interaction, Evidence
    <3>3. [kind |-> kind, playerId |-> open[c].playerId, key |-> k, placement |-> 0] \in Event
      BY <3>1, EngineAssumption, FS_CardinalityType DEF Event, Kinds
    <3>4. QED
      BY <3>2, <3>3
  <2>4. Results' = Results
    BY <2>3, NewEvent
  <2>5. Phase' = Phase /\ participantIds' = participantIds
    BY <2>1, AdvancedFacts DEF Interaction, Evidence, Phase, TypeOK, Statuses, Advanced
  <2>6. QED
    BY <2>2, <2>4, <2>5 DEF Ledger!vars
<1>6. CASE \E c \in Connections : Finish(c)
  BY <1>2, <1>6, AdvancedFacts DEF Finish, MayFinish, TypeOK
<1>7. CASE ScheduleStart
  BY <1>1, <1>7, StartKeepsMatchInv DEF ScheduleStart, roomVars, Ledger!Next
<1>8. CASE SweepSession
  <2>1. PICK p \in job.todo :
          IF ~KeepsSession(p)
          THEN sessions' = [sessions EXCEPT ![p] = NoSession] /\ UNCHANGED roomVars
          ELSE IF PlayerFinishFound(p)
          THEN UNCHANGED <<roomVars, sessions>>
          ELSE CommitPlayerFinish(p, status, job.expired)
    BY <1>8 DEF SweepSession
  <2>2. CASE ~KeepsSession(p) \/ PlayerFinishFound(p)
    BY <1>1, <2>1, <2>2 DEF roomVars
  <2>3. CASE KeepsSession(p) /\ ~PlayerFinishFound(p)
    BY <1>2, <2>1, <2>3 DEF KeepsSession
  <2>4. QED
    BY <2>2, <2>3
<1>9. CASE UNCHANGED vars
  BY <1>1, <1>9 DEF vars
<1>10. QED
  BY <1>3, <1>4, <1>5, <1>6, <1>7, <1>8, <1>9 DEF Next, HandleStep, JobStep

\* There are as many finish events as players who have finished.
LEMMA FinishersCount ==
  ASSUME TypeOK, LogReadsLikeAMatch
  PROVE  Cardinality(EventsOf("finish")) = Cardinality(Finishers)
         /\ IsFiniteSet(EventsOf("finish"))
<1> DEFINE F == EventsOf("finish")
           f == [s \in F |-> history[s].playerId]
<1>1. LastSequence \in Nat /\ F \subseteq 1 .. LastSequence
  BY DEF TypeOK, LastSequence, EventsOf
<1>2. IsFiniteSet(F)
  <2>1. IsFiniteSet(1 .. LastSequence)
    BY <1>1, FS_Interval
  <2>2. QED
    BY <1>1, <2>1, FS_Subset
<1>3. f \in [F -> Finishers] /\ \A q \in Finishers : \E s \in F : f[s] = q
  BY DEF Finishers
<1>4. ASSUME NEW s \in F, NEW t \in F, f[s] = f[t]
      PROVE  s = t
  <2>1. ~(s < t) /\ ~(t < s)
    BY <1>4 DEF LogReadsLikeAMatch
  <2>2. QED
    BY <1>1, <2>1
<1>5. f \in Bijection(F, Finishers)
  BY <1>3, <1>4 DEF Bijection, Injection, Surjection, IsInjective
<1>6. ExistsBijection(F, Finishers)
  BY <1>5 DEF ExistsBijection
<1>7. QED
  BY <1>2, <1>6, FS_Bijection

\* A commit keeps placements ordinal.
LEMMA PlacementsStayOrdinal ==
  ASSUME ~PrunesIdempotency, SessionInv, MatchInv, PlacementsAreOrdinal, [Next]_vars
  PROVE  PlacementsAreOrdinal'
<1> USE DEF SessionInv
<1>1. CASE history' = history
  BY <1>1 DEF PlacementsAreOrdinal, EventsOf, LastSequence
<1>2. ASSUME NEW e \in Event, Commit(e),
             e.kind = "finish" => e.placement = Placement(e.playerId)
      PROVE  PlacementsAreOrdinal'
  <2>1. /\ LastSequence \in Nat
        /\ history'[LastSequence + 1] = e
        /\ \A s \in EventsOf("finish") : s \in 1 .. LastSequence /\ history'[s] = history[s]
        /\ EventsOf("finish")' = IF e.kind = "finish" THEN EventsOf("finish") \cup {LastSequence + 1}
                                 ELSE EventsOf("finish")
    BY <1>2, CommitFacts, NewEvent DEF TypeOK, Kinds, EventsOf
  <2>2. SUFFICES ASSUME NEW s \in EventsOf("finish")'
                 PROVE  history'[s].placement = Cardinality({t \in EventsOf("finish")' : t <= s})
    BY DEF PlacementsAreOrdinal
  <2>3. CASE s \in EventsOf("finish")
    <3>1. {t \in EventsOf("finish")' : t <= s} = {t \in EventsOf("finish") : t <= s}
      BY <2>1, <2>3
    <3>2. QED
      BY <2>1, <2>3, <3>1 DEF PlacementsAreOrdinal
  <2>4. CASE s \notin EventsOf("finish")
    <3>1. e.kind = "finish" /\ s = LastSequence + 1
      BY <2>1, <2>2, <2>4
    <3>2. {t \in EventsOf("finish")' : t <= s} = EventsOf("finish") \cup {LastSequence + 1}
      BY <2>1, <3>1
    <3>3. LastSequence + 1 \notin EventsOf("finish")
      BY <2>1
    <3>4. /\ IsFiniteSet(EventsOf("finish"))
          /\ Cardinality(EventsOf("finish")) = Cardinality(Finishers)
      BY FinishersCount DEF MatchInv
    <3>5. Cardinality(EventsOf("finish") \cup {LastSequence + 1}) = Cardinality(Finishers) + 1
      BY <3>3, <3>4, FS_AddElement
    <3>6. Completed = Finishers
      BY FoundFacts DEF MatchInv, FinishedWhenAllHaveOutcomes, TypeOK
    <3>7. QED
      BY <1>2, <2>1, <3>1, <3>2, <3>5, <3>6 DEF Placement
  <2>5. QED
    BY <2>3, <2>4
<1>3. CASE \E c \in Connections : Interaction(c) \/ Evidence(c)
  <2>1. PICK c \in Connections : Interaction(c) \/ Evidence(c)
    BY <1>3
  <2>2. open[c].playerId \in Players
    BY <2>1, LiveFacts DEF Interaction, Evidence, Serves
  <2>3. PICK k \in Keys, kind \in {"interaction", "evidence"} :
          Commit([kind |-> kind, playerId |-> open[c].playerId, key |-> k, placement |-> 0])
    BY <2>1 DEF Interaction, Evidence
  <2>4. [kind |-> kind, playerId |-> open[c].playerId, key |-> k, placement |-> 0] \in Event
    BY <2>2, EngineAssumption, FS_CardinalityType DEF Event, Kinds
  <2>5. QED
    BY <1>2, <2>3, <2>4
<1>4. CASE ScheduleStart
  <2>1. StartEvent \in Event /\ StartEvent.kind = "start"
    BY EngineAssumption, FS_CardinalityType DEF StartEvent, Event, Kinds
  <2>2. QED
    BY <1>1, <1>2, <1>4, <2>1 DEF ScheduleStart, roomVars
<1>5. ASSUME NEW p \in participantIds, NEW current, NEW expired,
             CommitPlayerFinish(p, current, expired), ~PlayerFinishFound(p)
      PROVE  PlacementsAreOrdinal'
  <2> DEFINE e == [kind |-> "finish", playerId |-> p, key |-> NoKey, placement |-> Placement(p)]
  <2>1. e \in Event /\ Commit(e)
    BY <1>5, PlacementType DEF Event, Kinds, TypeOK, CommitPlayerFinish
  <2>2. QED
    BY <1>2, <2>1
<1>6. CASE \E c \in Connections : Finish(c)
  BY <1>5, <1>6 DEF Finish, MayFinish
<1>7. CASE SweepSession
  BY <1>1, <1>5, <1>7 DEF SweepSession, KeepsSession, roomVars
<1>8. CASE \/ StartTimePasses \/ \E p \in Players : GracePasses(p) \/ Connect(p)
           \/ AdvanceOnly \/ Sweep \/ SweepDone \/ Restart
           \/ ActivateConnection \/ ActivateFails
  BY <1>1, <1>8 DEF StartTimePasses, GracePasses, Connect, Join, Reconnect, AdvanceOnly,
     Sweep, SweepDone, Restart, ActivateConnection, ActivateFails, roomVars
<1>9. CASE \E c \in Connections : Disconnect(c) \/ Ready(c) \/ Progress(c) \/ Acknowledge(c)
  BY <1>1, <1>9 DEF Disconnect, Ready, Progress, Acknowledge, roomVars
<1>10. CASE UNCHANGED vars
  BY <1>1, <1>10 DEF vars
<1>11. QED
  BY <1>3, <1>4, <1>6, <1>7, <1>8, <1>9, <1>10 DEF Next, HandleStep, JobStep

(***************************************************************************)
(* The theorems.                                                           *)
(***************************************************************************)

\* The invariant of sessions, sockets and the operation in progress.
THEOREM SessionsHold == Spec => []SessionInv
<1>1. Init => SessionInv
  BY InitSessionInv
<1>2. SessionInv /\ [Next]_vars => SessionInv'
  BY NextKeepsSessionInv
<1>3. QED
  BY <1>1, <1>2, PTL DEF Spec

\* Every stored row keeps its type, on every storage.
THEOREM RowsAreTyped == Spec => []TypeOK
<1>1. SessionInv => TypeOK
  BY DEF SessionInv
<1>2. QED
  BY <1>1, SessionsHold, PTL

\* On every storage a session is connected exactly when the adapter holds its
\* socket, however reconnects, late closes, failed activations and restarts mix.
THEOREM SocketsAgree == Spec => []SocketsAndSessionsAgree
<1>1. SessionInv => SocketsAndSessionsAgree
  <2> SUFFICES ASSUME SessionInv, job.kind # "activate", NEW p \in Present
               PROVE  sessions[p].connected <=>
                        open[sessions[p].connectionId] =
                          [playerId |-> p, resumeEpoch |-> sessions[p].resumeEpoch]
    BY DEF SocketsAndSessionsAgree
  <2>1. p \in Players /\ sessions[p] # NoSession /\ Settled(p) = sessions[p]
    BY DEF Present, Settled
  <2>2. QED
    BY <2>1 DEF SessionInv, SocketInv
<1>2. QED
  BY <1>1, SessionsHold, PTL

\* Nobody but the participants has a session while a match is on.
THEOREM ParticipantsKeepSessions == Spec => []ParticipantsKeepTheirSessions
<1>1. SessionInv => ParticipantsKeepTheirSessions
  BY DEF SessionInv
<1>2. QED
  BY <1>1, SessionsHold, PTL

\* The invariant of the log, where idempotency rows are kept.
THEOREM MatchHolds == ~PrunesIdempotency /\ Spec => []MatchInv
<1>1. SUFFICES ASSUME ~PrunesIdempotency PROVE Spec => []MatchInv
  OBVIOUS
<1>2. Init => MatchInv
  BY InitMatchInv
<1>3. SessionInv /\ MatchInv /\ [Next]_vars => MatchInv'
  BY <1>1, NextKeepsMatchInv
<1>4. QED
  BY <1>2, <1>3, SessionsHold, PTL DEF Spec

\* "Retries with the same idempotency key ... must not apply twice", where
\* commitCanonical keeps the rows it compares with.
THEOREM RetriesAreAppliedOnce == ~PrunesIdempotency /\ Spec => []RetriesApplyOnce
<1>1. MatchInv => RetriesApplyOnce
  BY DEF MatchInv
<1>2. QED
  BY <1>1, MatchHolds, PTL

\* One start, then interactions and outcomes, none of a player who is done.
THEOREM LogIsOrdered == ~PrunesIdempotency /\ Spec => []LogReadsLikeAMatch
<1>1. MatchInv => LogReadsLikeAMatch
  BY DEF MatchInv
<1>2. QED
  BY <1>1, MatchHolds, PTL

\* The room is finished exactly when everyone who started has an outcome.
THEOREM OutcomesAreComplete == ~PrunesIdempotency /\ Spec => []FinishedWhenAllHaveOutcomes
<1>1. MatchInv => FinishedWhenAllHaveOutcomes
  BY DEF MatchInv
<1>2. QED
  BY <1>1, MatchHolds, PTL

\* Placements are 1, 2, 3 ... whatever order finishes and forfeits come in.
THEOREM OutcomesAreOrdinal == ~PrunesIdempotency /\ Spec => []PlacementsAreOrdinal
<1>1. SUFFICES ASSUME ~PrunesIdempotency PROVE Spec => []PlacementsAreOrdinal
  OBVIOUS
<1>2. Init => PlacementsAreOrdinal
  BY DEF Init, PlacementsAreOrdinal, EventsOf, LastSequence
<1>3. SessionInv /\ MatchInv /\ PlacementsAreOrdinal /\ [Next]_vars => PlacementsAreOrdinal'
  BY <1>1, PlacementsStayOrdinal
<1>4. Spec => []MatchInv
  BY <1>1, MatchHolds
<1>5. QED
  BY <1>2, <1>3, <1>4, SessionsHold, PTL DEF Spec

\* The room implements MatchLedger.
THEOREM RoomKeepsALedger == ~PrunesIdempotency /\ Spec => MatchKeepsALedger
<1>1. SUFFICES ASSUME ~PrunesIdempotency PROVE Spec => MatchKeepsALedger
  OBVIOUS
<1>2. Init => Ledger!Init
  BY DEF Init, Ledger!Init, Phase, Results, EventsOf, LastSequence
<1>3. SessionInv /\ MatchInv /\ [Next]_vars => [Ledger!Next]_Ledger!vars
  BY <1>1, NextKeepsMatchInv
<1>4. Spec => []MatchInv
  BY <1>1, MatchHolds
<1>5. QED
  BY <1>2, <1>3, <1>4, SessionsHold, PTL DEF Spec, MatchKeepsALedger, Ledger!Spec

(***************************************************************************)
(* Acknowledgements and progress.                                          *)
(***************************************************************************)

\* The counters of a player's session are those before the step, or larger.
NotTakenBack(p) ==
  sessions[p] # NoSession /\ sessions'[p] # NoSession =>
    /\ sessions'[p].acknowledged >= sessions[p].acknowledged
    /\ sessions'[p].progress >= sessions[p].progress

\* The session is gone, the same, or another one with the same counters.
LEMMA SameCounters ==
  ASSUME TypeOK, NEW p \in Players,
         \/ sessions'[p] \in {sessions[p], NoSession}
         \/ sessions'[p].acknowledged = sessions[p].acknowledged
            /\ sessions'[p].progress = sessions[p].progress
  PROVE  NotTakenBack(p)
<1>1. sessions[p] # NoSession =>
        sessions[p].acknowledged \in Int /\ sessions[p].progress \in Int
  BY SessionFacts DEF TypeOK
<1>2. QED
  BY <1>1 DEF NotTakenBack

\* No step takes back what a player has acknowledged or reported.
LEMMA NextKeepsCounters ==
  ASSUME SessionInv, [Next]_vars, NEW p \in Players
  PROVE  NotTakenBack(p)
<1> USE DEF SessionInv
<1>1. CASE sessions' = sessions
  BY <1>1, SameCounters
<1>2. ASSUME NEW q \in Players, GracePasses(q)
      PROVE  NotTakenBack(p)
  <2>1. sessions'[p] = sessions[p] \/ (p = q /\ sessions[p] \in Session)
    BY <1>2 DEF GracePasses, TypeOK
  <2>2. p = q => sessions'[p] = [sessions[p] EXCEPT !.due = TRUE]
    BY <1>2 DEF GracePasses, TypeOK
  <2>3. QED
    BY <2>1, <2>2, SameCounters DEF Session
<1>3. ASSUME NEW q \in Players, Join(q)
      PROVE  NotTakenBack(p)
  BY <1>3, SameCounters DEF Join, NotTakenBack, TypeOK
<1>4. ASSUME NEW q \in Players, Reconnect(q)
      PROVE  NotTakenBack(p)
  <2>1. PICK c \in FreshConnections : sessions' = [sessions EXCEPT ![q] = Resumed(@, c)]
    BY <1>4 DEF Reconnect
  <2>2. CASE p = q
    <3>1. sessions[p] \in Session /\ sessions[p].resumeEpoch < MaxEpoch /\ c \in Connections
      BY <1>4, <2>2 DEF Reconnect, TypeOK, FreshConnections
    <3>2. sessions'[p] = Resumed(sessions[p], c)
      BY <2>1, <2>2 DEF TypeOK
    <3>3. QED
      BY <3>1, <3>2, ResumedFacts, SameCounters
  <2>3. CASE p # q
    BY <2>1, <2>3, SameCounters DEF TypeOK
  <2>4. QED
    BY <2>2, <2>3
<1>5. CASE ActivateFails
  <2>1. /\ job.kind = "activate"
        /\ sessions' = [sessions EXCEPT ![job.playerId] = job.existing]
    BY <1>5 DEF ActivateFails
  <2>2. CASE p = job.playerId
    <3>1. sessions'[p] = job.existing
      BY <2>1, <2>2 DEF TypeOK
    <3>2. QED
      BY <2>1, <2>2, <3>1, SameCounters DEF JobInv
  <2>3. CASE p # job.playerId
    BY <2>1, <2>3, SameCounters DEF TypeOK
  <2>4. QED
    BY <2>2, <2>3
<1>6. ASSUME NEW c \in Connections, Disconnect(c)
      PROVE  NotTakenBack(p)
  <2> DEFINE q == open[c].playerId
  <2>1. sessions' = IF Owns(q, c)
                    THEN [sessions EXCEPT ![q].connected = FALSE, ![q].due = FALSE]
                    ELSE sessions
    BY <1>6 DEF Disconnect
  <2>2. CASE Owns(q, c) /\ p = q
    <3>1. sessions[p] \in Session
      BY <2>2 DEF Owns, TypeOK
    <3>2. sessions'[p] = [sessions[p] EXCEPT !.connected = FALSE, !.due = FALSE]
      BY <2>1, <2>2 DEF TypeOK
    <3>3. QED
      BY <3>1, <3>2, SameCounters DEF Session
  <2>3. CASE ~Owns(q, c) \/ p # q
    BY <2>1, <2>3, SameCounters DEF TypeOK
  <2>4. QED
    BY <2>2, <2>3
<1>7. ASSUME NEW c \in Connections, Ready(c) \/ Progress(c) \/ Acknowledge(c)
      PROVE  NotTakenBack(p)
  <2> DEFINE q == open[c].playerId
  <2>1. q \in Players /\ sessions[q] \in Session
    BY <1>7, LiveFacts DEF Ready, Progress, Acknowledge, Serves
  <2>2. CASE p # q
    BY <1>7, <2>2, SameCounters DEF Ready, Progress, Acknowledge, TypeOK
  <2>3. CASE p = q /\ Ready(c)
    <3>1. PICK ready \in BOOLEAN : sessions'[p] = [sessions[p] EXCEPT !.ready = ready]
      BY <2>1, <2>3 DEF Ready, TypeOK
    <3>2. QED
      BY <2>1, <2>3, <3>1, SameCounters DEF Session
  <2>4. CASE p = q /\ Progress(c)
    <3>1. PICK n \in 0 .. MaxProgress :
            /\ n > sessions[p].progress
            /\ sessions'[p] = [sessions[p] EXCEPT !.progress = n]
      BY <2>1, <2>4 DEF Progress, TypeOK
    <3>2. /\ sessions'[p].progress = n
          /\ sessions'[p].acknowledged = sessions[p].acknowledged
      BY <2>1, <2>4, <3>1 DEF Session
    <3>3. QED
      BY <2>1, <2>4, <3>1, <3>2, SessionFacts DEF NotTakenBack
  <2>5. CASE p = q /\ Acknowledge(c)
    <3>1. PICK n \in 0 .. MaxAcknowledged :
            sessions'[p] = [sessions[p] EXCEPT !.acknowledged = AfterAck(@, n)]
      BY <2>1, <2>5 DEF Acknowledge, TypeOK
    <3>2. /\ sessions'[p].acknowledged = AfterAck(sessions[p].acknowledged, n)
          /\ sessions'[p].progress = sessions[p].progress
      BY <2>1, <2>5, <3>1 DEF Session
    <3>3. QED
      BY <2>1, <2>5, <3>1, <3>2, SessionFacts DEF NotTakenBack, AfterAck
  <2>6. QED
    BY <1>7, <2>2, <2>3, <2>4, <2>5
<1>8. ASSUME NEW q \in participantIds, NEW current, NEW expired,
             CommitPlayerFinish(q, current, expired)
      PROVE  NotTakenBack(p)
  BY <1>8, SameCounters DEF CommitPlayerFinish
<1>9. CASE \E c \in Connections : Finish(c)
  BY <1>8, <1>9 DEF Finish, MayFinish
<1>10. CASE SweepSession
  BY <1>1, <1>8, <1>10, SameCounters DEF SweepSession, KeepsSession, TypeOK
<1>11. CASE Restart
  <2>1. sessions[p] # NoSession => sessions[p] \in Session
    BY DEF TypeOK
  <2>2. sessions'[p] \in {sessions[p], Reconciled(sessions[p])}
    BY <1>11 DEF Restart
  <2>3. sessions[p] \in Session =>
          /\ Reconciled(sessions[p]).acknowledged = sessions[p].acknowledged
          /\ Reconciled(sessions[p]).progress = sessions[p].progress
    BY DEF Reconciled, Session
  <2>4. CASE sessions[p] = NoSession
    BY <2>4 DEF NotTakenBack
  <2>5. CASE sessions[p] # NoSession
    BY <2>1, <2>2, <2>3, <2>5, SameCounters
  <2>6. QED
    BY <2>4, <2>5
<1>12. CASE \/ StartTimePasses \/ AdvanceOnly \/ Sweep \/ SweepDone
            \/ ActivateConnection \/ ScheduleStart
            \/ \E c \in Connections : Interaction(c) \/ Evidence(c)
            \/ UNCHANGED vars
  BY <1>1, <1>12 DEF StartTimePasses, AdvanceOnly, Sweep, SweepDone, ActivateConnection,
     ScheduleStart, Interaction, Evidence, vars
<1>13. QED
  BY <1>2, <1>3, <1>4, <1>5, <1>6, <1>7, <1>9, <1>10, <1>11, <1>12
     DEF Next, Connect, HandleStep, JobStep

\* Reconnects, failed activations, sweeps and restarts never take back what a
\* player has acknowledged or reported, on every storage.
THEOREM CountersGrow == Spec => CountersOnlyGrow
<1>1. SessionInv /\ [Next]_vars =>
        [\A p \in Players : sessions[p] # NoSession /\ sessions'[p] # NoSession =>
           /\ sessions'[p].acknowledged >= sessions[p].acknowledged
           /\ sessions'[p].progress >= sessions[p].progress]_vars
  BY NextKeepsCounters DEF NotTakenBack
<1>2. QED
  BY <1>1, SessionsHold, PTL DEF Spec, CountersOnlyGrow

=============================================================================
