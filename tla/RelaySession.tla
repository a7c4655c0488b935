----------------------------- MODULE RelaySession -----------------------------
(***************************************************************************)
(* One player's session of a RelayPlay room from end to end: the browser   *)
(* client (packages/client/src/client.ts) with its SequenceBuffer, the     *)
(* WebSocket, the Node gateway and broadcaster, and the connect, resume    *)
(* and acknowledgement handlers of the room engine.  The other players     *)
(* appear through the events they commit.                                  *)
(*                                                                         *)
(* A socket delivers in order until it is lost, and then loses what is in  *)
(* flight both ways.  What an abandoned socket still brings to the server  *)
(* is as if it had come before the loss, for the engine turns it away once *)
(* the session has a newer connection.                                     *)
(*                                                                         *)
(* Of resume epochs only equality matters, and 1 (a fresh session); when   *)
(* the client learns an epoch above 1, both sides renumber it 2.           *)
(*                                                                         *)
(* A definition placed right before the one it varies (and used by no      *)
(* action) is a plausible mistake for the mutation runs.                   *)
(***************************************************************************)
EXTENDS Integers, Sequences, SequenceBuffer

CONSTANTS
  EventLogCapacity,   \* room.eventLogCapacity
  ReplayBatchSize,    \* replayBatchSize
  SocketBuffer,       \* messages a socket holds before its consumer is too slow
  MaxEvents,          \* bound: canonical events of the room
  MaxFaults           \* bound: sockets lost and grace periods exceeded

ASSUME SessionAssumption ==
  /\ EventLogCapacity \in Nat \ {0} /\ ReplayBatchSize \in Nat \ {0}
  /\ SocketBuffer \in Nat \ {0} /\ MaxEvents \in Nat /\ MaxFaults \in Nat

VARIABLES
  \* the room engine: last sequence, whether the match has started, the stored
  \* session's resume epoch (0: no session) and acknowledged sequence
  tail, started, epoch, acked,
  joinedAt,     \* tail when the session was created
  \* the socket: its state at the server, messages down and resume requests up
  \* in flight, the highest acknowledgement in flight (0: none), and whether
  \* the rate limit turned the last resume away (history)
  link, down, up, acking, limited,
  \* the client: state, resume epoch it knows (0: no resume state), sequence
  \* buffer, what it has given to the game
  phase, known, buffer, delivered,
  \* the client: gap recovery, afterSequence the next replay page must have,
  \* sequence a resume must reach
  gap, replayAfter, target,
  faults

engine == <<tail, started, epoch, acked, joinedAt>>
socket == <<link, down, up, acking, limited>>
client == <<phase, known, buffer, delivered, gap, replayAfter, target>>
vars   == <<tail, started, epoch, acked, joinedAt, link, down, up, acking,
            limited, phase, known, buffer, delivered, gap, replayAfter, target, faults>>

None   == -1
NoGap  == [expected |-> None, timer |-> FALSE, requested |-> FALSE]
AtMost(a, b) == IF a < b THEN a ELSE b
AtLeast(a, b) == IF a > b THEN a ELSE b

Oldest == AtLeast(1, tail - EventLogCapacity + 1)

SessionMessage(e, resumed) == [type |-> "session", epoch |-> e, resumed |-> resumed, last |-> tail]
Canonical(n) == [type |-> "canonical", sequence |-> n]
Error        == [type |-> "error"]
RateLimited  == [type |-> "limited"]
Close        == [type |-> "close"]

\* createReplaySignal, for an afterSequence the log still reaches.
Page(after) ==
  LET through == AtMost(after + ReplayBatchSize, tail) IN
    [type |-> "replay", after |-> after, through |-> through, hasMore |-> through < tail]

ReplayUnavailable(after) == after < Oldest - 1

Init ==
  /\ tail = 0 /\ started = FALSE /\ epoch = 0 /\ acked = 0 /\ joinedAt = 0
  /\ link = "none" /\ down = <<>> /\ up = <<>> /\ acking = 0 /\ limited = FALSE
  /\ phase = "idle" /\ known = 0 /\ buffer = EmptyAt(0) /\ delivered = <<>>
  /\ gap = NoGap /\ replayAfter = None /\ target = None
  /\ faults = 0

(***************************************************************************)
(* The server                                                              *)
(***************************************************************************)

\* The broadcaster: a consumer whose socket holds too much is cut off.
Send(m) ==
  IF link # "bound" THEN UNCHANGED <<link, down>>
  ELSE IF Len(down) < SocketBuffer THEN down' = Append(down, m) /\ UNCHANGED link
  ELSE down' = Append(down, Close) /\ link' = "closing"

\* An event is committed and broadcast; it may be the start of the match.
Commit ==
  /\ tail < MaxEvents
  /\ tail' = tail + 1
  /\ started' \in {started, TRUE}
  /\ Send(Canonical(tail + 1))
  /\ UNCHANGED <<epoch, acked, joinedAt, up, acking, limited, client, faults>>

\* Why engine.connect turns the upgrade request down: another resume epoch,
\* no new players after the start, the log no longer has what is asked for.
Refused ==
  \/ epoch # 0 /\ known # epoch
  \/ epoch = 0 /\ started
  \/ known # 0 /\ ReplayUnavailable(buffer.last)

\* lastAcknowledgedSequence of a new session.
AckedBefore == acked
AckedAtJoin == 0

NextEpoch == AtMost(epoch + 1, 3)

RefuseWithNextEpoch ==
  /\ link = "asked" /\ Refused
  /\ link' = "closing" /\ down' = <<Error, Close>>
  /\ epoch' = IF epoch # 0 /\ known = epoch THEN NextEpoch ELSE epoch
  /\ UNCHANGED <<tail, started, acked, joinedAt, up, acking, limited, client, faults>>
Refuse ==
  /\ link = "asked" /\ Refused
  /\ link' = "closing" /\ down' = <<Error, Close>>
  /\ UNCHANGED <<engine, up, acking, limited, client, faults>>

\* The session is stored with a raised epoch and bound to the socket; the
\* client is told, and a page of the log follows if it has resume state.
\* (The snapshot in between carries nothing this module tells apart.)
Accept ==
  /\ link = "asked" /\ ~Refused
  /\ epoch' = NextEpoch
  /\ acked' = IF epoch = 0 THEN AckedAtJoin ELSE acked
  /\ joinedAt' = IF epoch = 0 THEN tail ELSE joinedAt
  /\ link' = "bound"
  /\ down' = <<SessionMessage(epoch', epoch # 0)>>
               \o (IF known # 0 THEN <<Page(buffer.last)>> ELSE <<>>)
  /\ UNCHANGED <<tail, started, up, acking, limited, client, faults>>

\* A resume the log no longer serves ends the connection, as a bad frame does.
AnswerResume(after) ==
  IF ~ReplayUnavailable(after) THEN Send(Page(after))
  ELSE IF link = "bound" THEN down' = down \o <<Error, Close>> /\ link' = "closing"
  ELSE UNCHANGED <<link, down>>

HandleResume ==
  /\ up # <<>>
  /\ AnswerResume(Head(up))
  /\ up' = Tail(up) /\ limited' = FALSE
  /\ UNCHANGED <<engine, acking, client, faults>>

\* Every command is charged to the player's message rate limit first; one
\* beyond it is turned away with an error that allows a retry, and no more.
LimitResume ==
  /\ up # <<>>
  /\ Send(RateLimited)
  /\ up' = Tail(up) /\ limited' = TRUE
  /\ UNCHANGED <<engine, acking, client, faults>>

HandleAcknowledgement ==
  /\ acking # 0
  /\ acked' = AtLeast(acked, acking) /\ acking' = 0
  /\ UNCHANGED <<tail, started, epoch, joinedAt, link, down, up, limited, client, faults>>

\* Some of the acknowledgements in flight, the last one among them, are beyond
\* the limit.
LimitAcknowledgement ==
  /\ acking # 0
  /\ Send(RateLimited)
  /\ acked' \in acked .. AtLeast(acked, acking) /\ acking' = 0
  /\ UNCHANGED <<tail, started, epoch, joinedAt, up, limited, client, faults>>

\* A sweep forgets the session of a player who stayed away too long.
SessionExpires ==
  /\ link = "none" /\ epoch # 0 /\ faults < MaxFaults
  /\ epoch' = 0
  /\ faults' = faults + 1
  /\ UNCHANGED <<tail, started, acked, joinedAt, socket, client>>

(***************************************************************************)
(* The client                                                              *)
(***************************************************************************)

\* connect() of the game, also after a fatal close.
UserConnects ==
  /\ phase \in {"idle", "failed"}
  /\ phase' = "waiting"
  /\ UNCHANGED <<engine, socket, known, buffer, delivered, gap, replayAfter, target, faults>>

\* The reconnect timer has run out (or this is the first attempt): the upgrade
\* request carries the epoch known and the last sequence.
OpenSocket ==
  /\ phase = "waiting"
  /\ phase' = "handshaking" /\ link' = "asked"
  /\ UNCHANGED <<engine, down, up, acking, limited, known, buffer, delivered, gap,
                 replayAfter, target, faults>>

\* handleClose: whatever is in flight is lost.
Unplugged(next) ==
  /\ phase' = next
  /\ link' = "none" /\ down' = <<>> /\ up' = <<>> /\ acking' = 0 /\ limited' = FALSE
  /\ gap' = NoGap
  /\ UNCHANGED <<engine, replayAfter, target>>

\* The resume state and the sequence buffer stay.
LosesSocket(next) == Unplugged(next) /\ UNCHANGED <<known, buffer, delivered>>

\* The client closes the socket itself (1002, 4001); it will reconnect.
GivesUpSocket == LosesSocket("waiting") /\ UNCHANGED faults

Online == phase \in {"handshaking", "connected"}

ConnectionLost ==
  /\ Online /\ faults < MaxFaults
  /\ faults' = faults + 1
  /\ LosesSocket("waiting")

\* disconnect() of the game, in whatever state the client is.
UserDisconnects ==
  /\ phase # "idle" /\ faults < MaxFaults
  /\ faults' = faults + 1
  /\ LosesSocket("idle")

\* disconnect() with forgetSession: the resume state goes and the sequence
\* buffer starts over, but nobody tells the server.
UserForgets ==
  /\ known # 0 /\ faults < MaxFaults
  /\ faults' = faults + 1
  /\ Unplugged("idle")
  /\ known' = 0 /\ buffer' = EmptyAt(0) /\ delivered' = <<>>

\* The client's handling of the next message; receiving it and whatever it
\* sends in return is one step.
NextIs(type) == Online /\ down # <<>> /\ Head(down).type = type
Taken == down' = Tail(down) /\ UNCHANGED <<link, limited, engine, faults>>

ReceiveClose ==
  /\ NextIs("close")
  /\ LosesSocket("waiting") /\ UNCHANGED faults

\* An error that forbids a retry: the client closes for good.
ReceiveError ==
  /\ NextIs("error")
  /\ LosesSocket("failed") /\ UNCHANGED faults

\* One that allows it is passed on to the game; what was asked for is not asked
\* for again.
ReceiveRetriableError ==
  /\ NextIs("limited")
  /\ Taken
  /\ UNCHANGED <<client, up, acking>>

ContinuesIdentity(m) == known # 0 /\ m.last >= buffer.last

ReceiveSession ==
  /\ NextIs("session")
  /\ LET m == Head(down) IN
       IF m.resumed /\ ~ContinuesIdentity(m) THEN GivesUpSocket
       ELSE /\ down' = Tail(down)
            /\ phase' = "connected"
            /\ known' = AtMost(m.epoch, 2) /\ epoch' = known'
            /\ IF m.resumed
               THEN /\ replayAfter' = buffer.last /\ target' = m.last
                    /\ UNCHANGED <<buffer, delivered>>
               ELSE /\ buffer' = EmptyAt(0) /\ delivered' = <<>>
                    /\ replayAfter' = None /\ target' = None
            /\ UNCHANGED <<tail, started, acked, joinedAt, link, up, acking, limited, gap, faults>>

(***************************************************************************)
(* Canonical events, live and replayed                                     *)
(***************************************************************************)

\* What acceptCanonical works on.
Local == [buffer |-> buffer, delivered |-> delivered, gap |-> gap, acking |-> acking]

\* refreshGapRecovery: after progress, a gap that remains is a new one.
Refreshed(g, buf, inPage) ==
  IF buf.waiting = {} THEN NoGap
  ELSE [g EXCEPT !.expected = buf.last + 1, !.timer = ~inPage]

\* The first event behind a gap starts the timer.
GapNoted(g, expected) ==
  IF g.expected = expected THEN g ELSE [g EXCEPT !.expected = expected]
GapSeen(g, expected) ==
  IF g.expected = expected THEN g ELSE [g EXCEPT !.expected = expected, !.timer = TRUE]

AcceptCanonical(s, n, inPage) ==
  LET buf == Ingest(s.buffer, n) IN
    IF IsDuplicate(s.buffer, n) THEN [s EXCEPT !.acking = buf.last]
    ELSE IF IsNext(s.buffer, n)
    THEN [buffer |-> buf, delivered |-> s.delivered \o Accepted(s.buffer, n),
          gap |-> Refreshed(s.gap, buf, inPage), acking |-> buf.last]
    ELSE [s EXCEPT !.buffer = buf, !.gap = GapSeen(@, buf.last + 1)]

\* A page of events, one after the other.
AcceptPage(s, m) ==
  LET upTo[n \in m.after .. m.through] ==
        IF n = m.after THEN s ELSE AcceptCanonical(upTo[n - 1], n, TRUE)
  IN  upTo[m.through]

Adopt(s) == buffer' = s.buffer /\ delivered' = s.delivered

ReceiveCanonical ==
  /\ NextIs("canonical")
  /\ LET s == AcceptCanonical(Local, Head(down).sequence, FALSE) IN
       Adopt(s) /\ gap' = s.gap /\ acking' = s.acking
  /\ Taken
  /\ UNCHANGED <<up, phase, known, replayAfter, target>>

UnexpectedPage(m) == replayAfter # None /\ m.after # replayAfter

\* A page with more to come: the next one is asked for.
ContinueReplay(m, s) ==
  /\ m.hasMore
  /\ Adopt(s) /\ acking' = s.acking
  /\ gap' = [s.gap EXCEPT !.timer = @ \/ s.gap.expected # None]
  /\ replayAfter' = m.through /\ up' = Append(up, m.through)
  /\ Taken
  /\ UNCHANGED <<phase, known, target>>

\* The last page; a gap that is still there, or a resume that falls short of
\* what the session message promised, costs the socket.
FallsShort(s) == target # None /\ s.buffer.last < target

EndReplay(m, s) ==
  /\ ~m.hasMore
  /\ Adopt(s)
  /\ IF FallsShort(s) \/ s.gap.expected # None
     THEN /\ phase' = "waiting" /\ gap' = NoGap
          /\ link' = "none" /\ down' = <<>> /\ up' = <<>> /\ acking' = 0 /\ limited' = FALSE
          /\ UNCHANGED <<engine, known, replayAfter, target, faults>>
     ELSE /\ gap' = [s.gap EXCEPT !.requested = FALSE] /\ acking' = s.acking
          /\ replayAfter' = None /\ target' = None
          /\ Taken
          /\ UNCHANGED <<up, phase, known>>

ReceiveReplay ==
  /\ NextIs("replay")
  /\ LET m == Head(down)
         s == AcceptPage([Local EXCEPT !.gap.timer = FALSE], m) IN
       IF UnexpectedPage(m) THEN GivesUpSocket
       ELSE ContinueReplay(m, s) \/ EndReplay(m, s)

\* sequenceGapTimeoutMs after a gap was seen: ask for a replay once, then
\* give the socket up.
GapTimerFires ==
  /\ Online /\ gap.timer
  /\ IF gap.requested THEN GivesUpSocket
     ELSE /\ gap' = [gap EXCEPT !.requested = TRUE]
          /\ replayAfter' = buffer.last /\ up' = Append(up, buffer.last)
          /\ UNCHANGED <<engine, link, down, acking, limited, phase, known, buffer,
                         delivered, target, faults>>

ServerStep == \/ Refuse \/ Accept \/ HandleResume \/ HandleAcknowledgement
              \/ LimitResume \/ LimitAcknowledgement
Receive    == \/ ReceiveSession \/ ReceiveCanonical \/ ReceiveReplay
              \/ ReceiveError \/ ReceiveRetriableError \/ ReceiveClose

Next ==
  \/ Commit \/ SessionExpires \/ ServerStep
  \/ UserConnects \/ UserDisconnects \/ UserForgets \/ ConnectionLost
  \/ OpenSocket \/ Receive \/ GapTimerFires

Spec == Init /\ [][Next]_vars

\* Messages arrive and are handled, a resume by an answer or by the rate limit;
\* timers fire.  Nothing is assumed of the user, of other players' events, of
\* when a socket is lost or of when the limit is exceeded.
FairSpec ==
  /\ Spec
  /\ WF_vars(Refuse \/ Accept) /\ WF_vars(HandleResume \/ LimitResume)
  /\ WF_vars(OpenSocket) /\ WF_vars(Receive) /\ WF_vars(GapTimerFires)

(***************************************************************************)
(* Properties                                                              *)
(***************************************************************************)

Messages ==
  [type : {"session"}, epoch : 1 .. 3, resumed : BOOLEAN, last : 0 .. MaxEvents]
    \cup [type : {"canonical"}, sequence : 1 .. MaxEvents]
    \cup [type : {"replay"}, after : 0 .. MaxEvents, through : 0 .. MaxEvents,
          hasMore : BOOLEAN]
    \cup {Error, RateLimited, Close}

\* Types of both sides; a gap the client repairs is the one after its last
\* event, and at most MaxBufferedEvents wait behind it.
TypeOK ==
  /\ tail \in 0 .. MaxEvents /\ started \in BOOLEAN /\ epoch \in 0 .. 3
  /\ acked \in 0 .. tail /\ joinedAt \in 0 .. tail
  /\ link \in {"none", "asked", "bound", "closing"}
  /\ \A i \in 1 .. Len(down) : down[i] \in Messages
  /\ \A i \in 1 .. Len(up) : up[i] \in 0 .. tail
  /\ acking \in 0 .. tail /\ limited \in BOOLEAN
  /\ phase \in {"idle", "waiting", "handshaking", "connected", "failed"}
  /\ known \in 0 .. 2
  /\ buffer.last \in 0 .. tail /\ buffer.waiting \subseteq buffer.last + 2 .. tail
  /\ Cardinality(buffer.waiting) <= MaxBufferedEvents
  /\ gap.timer \in BOOLEAN /\ gap.requested \in BOOLEAN
  /\ gap.expected \in {None, buffer.last + 1}
  /\ replayAfter \in {None} \cup 0 .. tail /\ target \in {None} \cup 0 .. tail
  /\ faults \in 0 .. MaxFaults

\* While the client holds its session, the server never takes for seen what the
\* game of this session was not given, whatever was lost, repeated or still in
\* flight.  (When the game makes the client forget the session, it starts over
\* and the server's record of it stays.)
AcknowledgedWasDelivered ==
  (known # 0 => acked <= Len(delivered)) /\ acking <= Len(delivered)

\* The detailed protocol implements EventFeed: whatever is lost, replayed
\* twice or arrives behind a gap, the game is given the log from its first
\* event on, each event once and in order.
GameFollowsTheLog == INSTANCE EventFeed WITH log <- tail, seen <- delivered
FollowsTheLog == GameFollowsTheLog!Spec

\* The stored resume epoch is one the client does not know and is not being
\* told: every reconnect will be refused.
LockedOut ==
  /\ epoch # 0 /\ epoch # known
  /\ \A i \in 1 .. Len(down) : down[i].type # "session"

\* A client is locked out of its session only when it loses its socket between
\* the upgrade request and the session message, or when the game makes it forget
\* the session: never by what the protocol does of itself.
OnlyLossOrForgettingLocksOut ==
  [][~LockedOut /\ LockedOut' =>
       \/ UserForgets
       \/ (ConnectionLost \/ UserDisconnects) /\ phase = "handshaking"]_vars

\* A connected client whose request for the next page was turned away by the
\* rate limit, and whom no gap makes ask again, waits for a page nobody sends.
Starved == limited /\ gap = NoGap

\* Whatever is lost, the client reaches the end of the log, unless it is
\* refused for good, told to stop or starved of a page by the rate limit.  (A
\* fresh session is not sent what was committed before it until the next event
\* shows the gap.)
CatchesUp ==
  []<>(phase \in {"idle", "failed"} \/ buffer.last = tail \/ tail = joinedAt \/ Starved)

(***************************************************************************)
(* The inductive invariant behind the safety properties.                   *)
(***************************************************************************)

Gaps == [expected : Int, timer : BOOLEAN, requested : BOOLEAN]

\* What acceptCanonical keeps, event by event: the game has been given exactly
\* the log up to the buffer's last sequence, and no acknowledgement runs ahead.
InOrder(s) ==
  /\ s \in [buffer : Buffers, delivered : Seq(Nat), gap : Gaps, acking : Nat]
  /\ s.buffer.last <= tail /\ s.buffer.waiting \subseteq s.buffer.last + 2 .. tail
  /\ Cardinality(s.buffer.waiting) <= MaxBufferedEvents
  /\ s.gap.expected \in {None, s.buffer.last + 1}
  /\ s.delivered = [n \in 1 .. s.buffer.last |-> n]
  /\ s.acking <= s.buffer.last

\* What a message in flight says is true of the log; a session message is the
\* first of its socket, and a fresh one finds nothing acknowledged.
Truthful(m) ==
  /\ m.type = "session" =>
       /\ phase = "handshaking" /\ m.last <= tail
       /\ IF m.resumed THEN known # 0 /\ buffer.last <= m.last ELSE acked = 0
  /\ m.type = "canonical" => m.sequence <= tail
  /\ m.type = "replay" => m.after <= m.through /\ m.through <= tail

\* A socket that has not brought its first message has no other effect yet, and
\* one that is lost leaves nothing behind.
SocketInv ==
  /\ down \in Seq(Messages) /\ up \in Seq(0 .. tail)
  /\ \A i \in 1 .. Len(down) : Truthful(down[i]) /\ (down[i].type = "session" => i = 1)
  /\ link = "asked" => phase = "handshaking" /\ down = <<>>
  /\ phase = "handshaking" =>
       /\ up = <<>> /\ acking = 0 /\ gap = NoGap
       /\ link = "asked" \/ (down # <<>> /\ down[1].type \in {"session", "error"})
  /\ ~Online => link = "none" /\ down = <<>> /\ up = <<>> /\ acking = 0 /\ gap = NoGap

IInv == TypeOK /\ InOrder(Local) /\ SocketInv /\ (known # 0 => acked <= buffer.last)

=============================================================================
