------------------------------ MODULE KioskOutbox ------------------------------
(***************************************************************************)
(* How the NSL kiosk server (261023NSL-server/lib) gets orders and staff   *)
(* requests to the kitchen and to the robot: the rows of kiosk_outbox, the *)
(* translation jobs a foreign request waits for, the staff actions of the  *)
(* operations board, and the receivers at the other end.                   *)
(*                                                                         *)
(* Everything lives in one D1 database.  A statement, or a batch, is       *)
(* atomic; between two of them any other request may run, in this isolate  *)
(* or in another, so every function that awaits is cut at its awaits.      *)
(* Reads a later conditional UPDATE repeats are merged into it.            *)
(*                                                                         *)
(* A definition placed right before the one it varies (and used by no      *)
(* action) is a plausible mistake for the mutation runs.                   *)
(***************************************************************************)
EXTENDS Integers, FiniteSets

CONSTANTS
  Sources,            \* food orders and requests to the staff
  Flushes,            \* calls of flushKioskOutbox, one row each, at a time
  Translations,       \* calls of flushKioskTranslations at a time
  Staff,              \* calls of changeOperation at a time
  MaxAttempts,        \* 8: attempts before a delivery has failed
  MaxTranslations,    \* 3: attempts before a translation has failed
  MaxFaults,          \* bound: stalls and crashes together
  Nobody, Nothing

ASSUME OutboxAssumption ==
  /\ MaxAttempts \in Nat \ {0} /\ MaxTranslations \in Nat \ {0, 1}
  /\ MaxFaults \in Nat
  /\ Nobody \notin Flushes \cup Translations

Targets    == {"kitchen", "robot"}
Deliveries == Sources \X Targets
Kitchen(s) == <<s, "kitchen">>
Robot(s)   == <<s, "robot">>

VARIABLES
  outbox,      \* delivery -> row of kiosk_outbox
  service,     \* source -> payload of kiosk_services; Nothing for an order
  job,         \* source -> row of kiosk_translation_jobs, or Nothing
  closed,      \* requests whose stage is "closed"
  flush,       \* call of flushKioskOutbox -> what it holds
  translation, \* call of flushKioskTranslations -> what it holds
  staff,       \* call of changeOperation -> what it holds
  wire,        \* requests that may still arrive though their sender gave up
  received,    \* delivery -> content the receiver stored, or Nothing
  stalls,      \* leases that have run out under a live call
  crashes      \* calls that have died with their isolate

kioskVars == <<outbox, service, job, closed>>
callVars  == <<flush, translation, staff>>
vars == <<outbox, service, job, closed, flush, translation, staff, wire, received,
          stalls, crashes>>

\* A request as stored: whether its Korean text is there.
Content == [translationStatus : {"pending", "failed", "complete"}, korean : BOOLEAN]
Final   == [translationStatus |-> "complete", korean |-> TRUE]
Untranslated(state) == [translationStatus |-> state, korean |-> FALSE]

\* The payload of a row: the request or order as it was, and the time at which
\* the staff handed it to the robot (0: never; 1: the first time).
Payload == [data : Content, staffApprovedAt : 0 .. 1]

Statuses == {"absent", "translation_pending", "awaiting_staff",
             "queued", "retrying", "delivered", "failed"}
Row == [status : Statuses, attempts : 0 .. MaxAttempts, due : BOOLEAN,
        payload : Payload, owner : Flushes \cup {Nobody},
        expired : BOOLEAN]
Job == [status : {"pending", "failed"}, attempts : 0 .. MaxTranslations, due : BOOLEAN,
        owner : Translations \cup {Nobody}, expired : BOOLEAN]

\* The marks of what is not there are no rows.
ASSUME NothingAssumption == Nothing \notin Content \cup Payload \cup Job

NewRow(state, content) ==
  [status |-> state, attempts |-> 0, due |-> TRUE,
   payload |-> [data |-> content, staffApprovedAt |-> 0],
   owner |-> Nobody, expired |-> FALSE]
IdleCall == [pc |-> "idle"]

\* lease_until <= now, for a reader that looks at the clock now.
FreeIfReleased(row) == row.owner = Nobody
Free(row) == row.owner = Nobody \/ row.expired

\* staffRobotAllowedSql: a robot is sent to a table only when the staff say so.
Approved(d) == outbox[d].payload.staffApprovedAt # 0
RobotRequest(d) == d[2] = "robot" /\ service[d[1]] # Nothing
StaffAllowed(d) == RobotRequest(d) => Approved(d)

Deliverable(d) == outbox[d].status \in {"queued", "retrying"} /\ StaffAllowed(d)

Init ==
  /\ outbox = [d \in Deliveries |-> NewRow("absent", Untranslated("pending"))]
  /\ service = [s \in Sources |-> Nothing]
  /\ job = [s \in Sources |-> Nothing]
  /\ closed = {}
  /\ flush = [f \in Flushes |-> IdleCall]
  /\ translation = [t \in Translations |-> IdleCall]
  /\ staff = [p \in Staff |-> IdleCall]
  /\ wire = {}
  /\ received = [d \in Deliveries |-> Nothing]
  /\ stalls = 0 /\ crashes = 0

(***************************************************************************)
(* What a session commits: an approved order, or a request to the staff.   *)
(***************************************************************************)

CommitOrder(s) ==
  /\ outbox[Kitchen(s)].status = "absent"
  /\ outbox' = [outbox EXCEPT ![Kitchen(s)] = NewRow("queued", Final),
                              ![Robot(s)] = NewRow("queued", Final)]
  /\ UNCHANGED <<service, job, closed, callVars, wire, received, stalls, crashes>>

\* Translated at once, or left to a job that is tried again later.
KitchenStatus(pending) == IF pending THEN "translation_pending" ELSE "queued"

CommitService(s) ==
  /\ outbox[Kitchen(s)].status = "absent"
  /\ \E content \in {Final, Untranslated("pending")} :
       LET pending == content # Final IN
       /\ service' = [service EXCEPT ![s] = content]
       /\ outbox' = [outbox EXCEPT
            ![Kitchen(s)] = NewRow(KitchenStatus(pending), content),
            ![Robot(s)] = NewRow("awaiting_staff", content)]
       /\ job' = IF ~pending THEN job
                 ELSE [job EXCEPT ![s] = [status |-> "pending", attempts |-> 1, due |-> FALSE,
                                          owner |-> Nobody, expired |-> FALSE]]
  /\ UNCHANGED <<closed, callVars, wire, received, stalls, crashes>>

(***************************************************************************)
(* Time: next_attempt_at is reached; lease_until is reached under a call   *)
(* that has died, or that has stalled for longer than the lease.           *)
(***************************************************************************)

BackoffEnds(d) ==
  /\ outbox[d].status = "retrying" /\ ~outbox[d].due
  /\ outbox' = [outbox EXCEPT ![d].due = TRUE]
  /\ UNCHANGED <<service, job, closed, callVars, wire, received, stalls, crashes>>

JobBackoffEnds(s) ==
  /\ job[s] # Nothing
  /\ job[s].status = "pending" /\ ~job[s].due
  /\ job' = [job EXCEPT ![s].due = TRUE]
  /\ UNCHANGED <<outbox, service, closed, callVars, wire, received, stalls, crashes>>

\* The call that owns the lease is still working on the row.
Holds(f, d) == flush[f].pc \in {"sent", "answered"} /\ flush[f].delivery = d
HoldsJob(t, s) == translation[t].pc = "claimed" /\ translation[t].source = s

MoreFaults == stalls + crashes < MaxFaults

\* A call that is alive must stall; nothing has to stall for one that is dead.
Stalling(alive) ==
  IF alive THEN MoreFaults /\ stalls' = stalls + 1 ELSE stalls' = stalls

LeaseEnds(d) ==
  /\ outbox[d].owner # Nobody /\ ~outbox[d].expired
  /\ Stalling(Holds(outbox[d].owner, d))
  /\ outbox' = [outbox EXCEPT ![d].expired = TRUE]
  /\ UNCHANGED <<service, job, closed, callVars, wire, received, crashes>>

JobLeaseEnds(s) ==
  /\ job[s] # Nothing
  /\ job[s].owner # Nobody /\ ~job[s].expired
  /\ Stalling(HoldsJob(job[s].owner, s))
  /\ job' = [job EXCEPT ![s].expired = TRUE]
  /\ UNCHANGED <<outbox, service, closed, callVars, wire, received, crashes>>

(***************************************************************************)
(* flushKioskOutbox, for one of the rows it selects.                       *)
(***************************************************************************)

FlushReads(f, d) ==
  /\ flush[f] = IdleCall
  /\ Deliverable(d) /\ outbox[d].due /\ Free(outbox[d])
  /\ flush' = [flush EXCEPT ![f] = [pc |-> "read", delivery |-> d,
                 attempts |-> outbox[d].attempts, payload |-> outbox[d].payload, late |-> FALSE]]
  /\ UNCHANGED <<kioskVars, translation, staff, wire, received, stalls, crashes>>

\* The claim compares lease_until with the time of the SELECT: a lease taken
\* since then (late) blocks it until it is given back.
MayClaimAnyway(f) == Deliverable(flush[f].delivery)
MayClaim(f) ==
  /\ Deliverable(flush[f].delivery)
  /\ outbox[flush[f].delivery].owner = Nobody \/ ~flush[f].late

\* The claim is written, and the POST leaves with the payload that was read.
FlushClaims(f) ==
  /\ flush[f].pc = "read"
  /\ MayClaim(f)
  /\ LET d == flush[f].delivery IN
       /\ outbox' = [outbox EXCEPT ![d].owner = f, ![d].expired = FALSE]
       /\ flush' = [g \in Flushes |->
            IF g = f
            THEN [pc |-> "sent", delivery |-> d, attempts |-> flush[f].attempts,
                  payload |-> flush[f].payload]
            ELSE IF flush[g].pc = "read" /\ flush[g].delivery = d
            THEN [flush[g] EXCEPT !.late = TRUE]
            ELSE flush[g]]
  /\ UNCHANGED <<service, job, closed, translation, staff, wire, received, stalls, crashes>>

FlushSkips(f) ==
  /\ flush[f].pc = "read"
  /\ ~MayClaim(f)
  /\ flush' = [flush EXCEPT ![f] = IdleCall]
  /\ UNCHANGED <<kioskVars, translation, staff, wire, received, stalls, crashes>>

\* receiveWebhook of the receivers: insertIfAbsent, else compare the content.
\* The robot's does not take a request the staff have not approved in Korean.
Rejects(d, payload) ==
  RobotRequest(d) /\ (payload.staffApprovedAt = 0 \/ payload.data # Final)
Stored(d, payload) ==
  IF Rejects(d, payload) \/ received[d] # Nothing THEN received
  ELSE [received EXCEPT ![d] = payload]
Accepts(d, payload) == ~Rejects(d, payload) /\ received[d] \in {Nothing, payload}

ReceiverAnswers(f) ==
  /\ flush[f].pc = "sent"
  /\ LET d == flush[f].delivery  payload == flush[f].payload IN
       /\ received' = Stored(d, payload)
       /\ flush' = [flush EXCEPT ![f] =
            [pc |-> "answered", delivery |-> d, attempts |-> flush[f].attempts,
             payload |-> payload, receipt |-> Accepts(d, payload)]]
  /\ UNCHANGED <<kioskVars, translation, staff, wire, stalls, crashes>>

\* A request whose sender has timed out or died is processed all the same.
ArrivesLate(m) ==
  /\ received' = Stored(m.delivery, m.payload)
  /\ wire' = wire \ {m}
  /\ UNCHANGED <<kioskVars, callVars, stalls, crashes>>

\* The final UPDATE, WHERE lease_owner is still this call's.
ConcludeAlways(f, status, isDue) ==
  LET d == flush[f].delivery IN
    outbox' = [outbox EXCEPT ![d].status = status, ![d].attempts = flush[f].attempts + 1,
                             ![d].due = isDue, ![d].owner = Nobody, ![d].expired = FALSE]
Conclude(f, status, isDue) ==
  LET d == flush[f].delivery IN
    outbox' = IF outbox[d].owner # f THEN outbox
              ELSE [outbox EXCEPT ![d].status = status, ![d].attempts = flush[f].attempts + 1,
                                  ![d].due = isDue, ![d].owner = Nobody, ![d].expired = FALSE]

HasReceiptByStatus(f) == flush[f].pc \in {"sent", "answered"}
HasReceipt(f) == flush[f].pc = "answered" /\ flush[f].receipt

FlushDelivered(f) ==
  /\ HasReceipt(f)
  /\ Conclude(f, "delivered", outbox[flush[f].delivery].due)
  /\ flush' = [flush EXCEPT ![f] = IdleCall]
  /\ UNCHANGED <<service, job, closed, translation, staff, wire, received, stalls, crashes>>

\* What may be left of the request of a call that no longer waits for it.
MayLinger(f) ==
  \/ UNCHANGED wire
  \/ /\ flush[f].pc = "sent"
     /\ wire' = wire \cup {[delivery |-> flush[f].delivery, payload |-> flush[f].payload]}

FailedStatusOneMore(attempts) == IF attempts > MaxAttempts THEN "failed" ELSE "retrying"
FailedStatus(attempts) == IF attempts >= MaxAttempts THEN "failed" ELSE "retrying"

\* Refused, unreachable, timed out, or the receipt was lost.
FlushFails(f) ==
  /\ flush[f].pc \in {"sent", "answered"}
  /\ MayLinger(f)
  /\ Conclude(f, FailedStatus(flush[f].attempts + 1), FALSE)
  /\ flush' = [flush EXCEPT ![f] = IdleCall]
  /\ UNCHANGED <<service, job, closed, translation, staff, received, stalls, crashes>>

FlushDies(f) ==
  /\ MoreFaults /\ crashes' = crashes + 1
  /\ flush[f].pc \in {"sent", "answered"}
  /\ MayLinger(f)
  /\ flush' = [flush EXCEPT ![f] = IdleCall]
  /\ UNCHANGED <<kioskVars, translation, staff, received, stalls>>

(***************************************************************************)
(* flushKioskTranslations                                                  *)
(***************************************************************************)

TranslationReads(t, s) ==
  /\ translation[t] = IdleCall
  /\ job[s] # Nothing
  /\ job[s].status = "pending" /\ job[s].due /\ Free(job[s])
  /\ translation' = [translation EXCEPT ![t] =
       [pc |-> "read", source |-> s, attempts |-> job[s].attempts, data |-> service[s]]]
  /\ UNCHANGED <<kioskVars, flush, staff, wire, received, stalls, crashes>>

MayTranslate(s) == job[s] # Nothing /\ job[s].status = "pending" /\ Free(job[s])

TranslationClaims(t) ==
  /\ translation[t].pc = "read"
  /\ LET s == translation[t].source IN
       IF MayTranslate(s)
       THEN /\ job' = [job EXCEPT ![s].owner = t, ![s].expired = FALSE]
            /\ translation' = [translation EXCEPT ![t].pc = "claimed"]
       ELSE translation' = [translation EXCEPT ![t] = IdleCall] /\ UNCHANGED job
  /\ UNCHANGED <<outbox, service, closed, flush, staff, wire, received, stalls, crashes>>

\* Every statement of the closing batches asks for the lease.
OwnsJobAnyway(t, s) == TRUE   \* a mistake: batches without the condition
OwnsJob(t, s) == job[s] # Nothing /\ job[s].owner = t

TranslationSucceeds(t) ==
  /\ translation[t].pc = "claimed"
  /\ LET s == translation[t].source  d == Kitchen(s) IN
       IF OwnsJob(t, s)
       THEN /\ service' = [service EXCEPT ![s] = Final]
            /\ outbox' = IF outbox[d].status # "translation_pending" THEN outbox
                         ELSE [outbox EXCEPT ![d].status = "queued", ![d].due = TRUE,
                                             ![d].payload.data = Final]
            /\ job' = [job EXCEPT ![s] = Nothing]
       ELSE UNCHANGED <<service, outbox, job>>
  /\ translation' = [translation EXCEPT ![t] = IdleCall]
  /\ UNCHANGED <<closed, flush, staff, wire, received, stalls, crashes>>

\* The job after one more failure.
Failed(state, attempts) ==
  [status |-> state, attempts |-> attempts, due |-> FALSE, owner |-> Nobody, expired |-> FALSE]
StateAfter(attempts) == IF attempts >= MaxTranslations THEN "failed" ELSE "pending"
JobAfterFailureUncounted(attempts) == Failed(StateAfter(attempts), attempts - 1)
JobAfterFailure(attempts) == Failed(StateAfter(attempts), attempts)

TranslationFails(t) ==
  /\ translation[t].pc = "claimed"
  /\ LET s == translation[t].source  attempts == translation[t].attempts + 1 IN
       IF OwnsJob(t, s)
       THEN /\ service' = [service EXCEPT ![s] =
                 [translation[t].data EXCEPT !.translationStatus = StateAfter(attempts)]]
            /\ job' = [job EXCEPT ![s] = JobAfterFailure(attempts)]
       ELSE UNCHANGED <<service, job>>
  /\ translation' = [translation EXCEPT ![t] = IdleCall]
  /\ UNCHANGED <<outbox, closed, flush, staff, wire, received, stalls, crashes>>

TranslationDies(t) ==
  /\ MoreFaults /\ crashes' = crashes + 1
  /\ translation[t].pc = "claimed"
  /\ translation' = [translation EXCEPT ![t] = IdleCall]
  /\ UNCHANGED <<kioskVars, flush, staff, wire, received, stalls>>

(***************************************************************************)
(* changeOperation: send-robot, retry, translate, and the stage "closed".  *)
(***************************************************************************)

\* send-robot reads the request and checks that it may be sent.
ApprovalReads(p, s) ==
  /\ staff[p] = IdleCall
  /\ service[s] # Nothing
  /\ outbox[Robot(s)].status # "delivered" /\ ~Approved(Robot(s))
  /\ service[s].translationStatus = "complete" /\ service[s].korean
  /\ s \notin closed
  /\ staff' = [staff EXCEPT ![p] = [pc |-> "approve", source |-> s, data |-> service[s]]]
  /\ UNCHANGED <<kioskVars, flush, translation, wire, received, stalls, crashes>>

\* One conditional UPDATE; whatever changed since the reads makes it a no-op.
MayApproveClosed(d) == outbox[d].status # "delivered" /\ ~Approved(d) /\ Free(outbox[d])
MayApproveAgain(d) ==
  outbox[d].status # "delivered" /\ Free(outbox[d]) /\ d[1] \notin closed
MayApprove(d) ==
  /\ outbox[d].status # "delivered" /\ ~Approved(d) /\ Free(outbox[d])
  /\ d[1] \notin closed

ApprovalWrites(p) ==
  /\ staff[p].pc = "approve"
  /\ LET d == Robot(staff[p].source) IN
       outbox' = IF MayApprove(d)
                 THEN [outbox EXCEPT ![d].status = "queued", ![d].due = TRUE,
                       ![d].payload = [data |-> staff[p].data,
                                       staffApprovedAt |-> @.staffApprovedAt + 1]]
                 ELSE outbox
  /\ staff' = [staff EXCEPT ![p] = IdleCall]
  /\ UNCHANGED <<service, job, closed, flush, translation, wire, received, stalls, crashes>>

RetryDelivery(d) ==
  /\ outbox[d].status = "failed" /\ Free(outbox[d])
  /\ outbox' = [outbox EXCEPT ![d].status = "queued", ![d].attempts = 0, ![d].due = TRUE]
  /\ UNCHANGED <<service, job, closed, callVars, wire, received, stalls, crashes>>

\* translate: a failed job becomes pending; then the request is read and its
\* payload is written back with translationStatus = "pending".
TranslateSchedules(p, s) ==
  /\ staff[p] = IdleCall
  /\ job[s] # Nothing
  /\ job[s].status = "failed" /\ Free(job[s])
  /\ job' = [job EXCEPT ![s].status = "pending", ![s].attempts = 0, ![s].due = TRUE]
  /\ staff' = [staff EXCEPT ![p] = [pc |-> "translate", source |-> s]]
  /\ UNCHANGED <<outbox, service, closed, flush, translation, wire, received, stalls, crashes>>

TranslateReads(p) ==
  /\ staff[p].pc = "translate"
  /\ staff' = [staff EXCEPT ![p] = [pc |-> "write", source |-> staff[p].source,
                                    data |-> service[staff[p].source]]]
  /\ UNCHANGED <<kioskVars, flush, translation, wire, received, stalls, crashes>>

TranslateWrites(p) ==
  /\ staff[p].pc = "write"
  /\ service' = [service EXCEPT ![staff[p].source] =
                   [staff[p].data EXCEPT !.translationStatus = "pending"]]
  /\ staff' = [staff EXCEPT ![p] = IdleCall]
  /\ UNCHANGED <<outbox, job, closed, flush, translation, wire, received, stalls, crashes>>

\* A request may be closed from any open stage; orders have no use for it here.
CloseRequest(s) ==
  /\ service[s] # Nothing /\ s \notin closed
  /\ closed' = closed \cup {s}
  /\ UNCHANGED <<outbox, service, job, callVars, wire, received, stalls, crashes>>

(***************************************************************************)
(* The specification.                                                      *)
(***************************************************************************)

FlushStep(f) ==
  \/ FlushClaims(f) \/ FlushSkips(f) \/ ReceiverAnswers(f)
  \/ FlushDelivered(f) \/ FlushFails(f)

TranslationStep(t) ==
  TranslationClaims(t) \/ TranslationSucceeds(t) \/ TranslationFails(t)

StaffStep(p) == ApprovalWrites(p) \/ TranslateReads(p) \/ TranslateWrites(p)

Time ==
  \/ \E d \in Deliveries : BackoffEnds(d) \/ LeaseEnds(d)
  \/ \E s \in Sources : JobBackoffEnds(s) \/ JobLeaseEnds(s)

Next ==
  \/ \E s \in Sources : CommitOrder(s) \/ CommitService(s) \/ CloseRequest(s)
  \/ Time
  \/ \E f \in Flushes : FlushStep(f) \/ FlushDies(f) \/ \E d \in Deliveries : FlushReads(f, d)
  \/ \E m \in wire : ArrivesLate(m)
  \/ \E t \in Translations :
       TranslationStep(t) \/ TranslationDies(t) \/ \E s \in Sources : TranslationReads(t, s)
  \/ \E p \in Staff :
       StaffStep(p) \/ \E s \in Sources : ApprovalReads(p, s) \/ TranslateSchedules(p, s)
  \/ \E d \in Deliveries : RetryDelivery(d)

Spec == Init /\ [][Next]_vars

(***************************************************************************)
(* Customers and staff poll every five seconds while a page is open, and a *)
(* flush takes the oldest due rows: a due row is read again and again, a   *)
(* call that has begun comes to its end, and time passes.  Nothing is      *)
(* assumed of the network, of the staff or of new orders.                  *)
(***************************************************************************)
FairSpec ==
  /\ Spec
  /\ \A d \in Deliveries : WF_vars(BackoffEnds(d)) /\ WF_vars(LeaseEnds(d))
  /\ \A s \in Sources : WF_vars(JobBackoffEnds(s)) /\ WF_vars(JobLeaseEnds(s))
  /\ \A f \in Flushes : WF_vars(FlushStep(f))
  /\ \A t \in Translations : WF_vars(TranslationStep(t))
  /\ \A d \in Deliveries : SF_vars(\E f \in Flushes : FlushReads(f, d))
  /\ \A s \in Sources : SF_vars(\E t \in Translations : TranslationReads(t, s))

(***************************************************************************)
(* Properties.                                                             *)
(***************************************************************************)

FlushCalls ==
  {IdleCall}
    \cup [pc : {"read"}, delivery : Deliveries, attempts : 0 .. MaxAttempts - 1,
          payload : Payload, late : BOOLEAN]
    \cup [pc : {"sent"}, delivery : Deliveries, attempts : 0 .. MaxAttempts - 1,
          payload : Payload]
    \cup [pc : {"answered"}, delivery : Deliveries, attempts : 0 .. MaxAttempts - 1,
          payload : Payload, receipt : BOOLEAN]
TranslationCalls ==
  {IdleCall} \cup [pc : {"read", "claimed"}, source : Sources,
                   attempts : 0 .. MaxTranslations - 1, data : Content]
StaffCalls ==
  {IdleCall} \cup [pc : {"translate"}, source : Sources]
    \cup [pc : {"approve", "write"}, source : Sources, data : Content]

\* Rows and calls have their types; no call starts a ninth attempt.
TypeOK ==
  /\ outbox \in [Deliveries -> Row]
  /\ service \in [Sources -> Content \cup {Nothing}]
  /\ job \in [Sources -> Job \cup {Nothing}]
  /\ closed \subseteq Sources
  /\ flush \in [Flushes -> FlushCalls]
  /\ translation \in [Translations -> TranslationCalls]
  /\ staff \in [Staff -> StaffCalls]
  /\ wire \subseteq [delivery : Deliveries, payload : Payload]
  /\ received \in [Deliveries -> Payload \cup {Nothing}]
  /\ stalls \in Nat /\ crashes \in Nat /\ stalls + crashes <= MaxFaults

Sending(f, d) == flush[f].pc \in {"sent", "answered"} /\ flush[f].delivery = d

\* An event keeps its content once it has left: the row, every request under
\* way and the receiver agree, so no retry, however late, is refused with 409
\* EVENT_ID_CONFLICT.
EventsKeepTheirContent ==
  \A d \in Deliveries :
    LET contents == {flush[f].payload : f \in {g \in Flushes : Sending(g, d)}}
                      \cup {m.payload : m \in {n \in wire : n.delivery = d}}
                      \cup ({received[d]} \ {Nothing})
    IN contents \subseteq {outbox[d].payload}

\* A delivery is shown as delivered only when its receiver has stored it.
DeliveredMeansReceived ==
  \A d \in Deliveries : outbox[d].status = "delivered" => received[d] # Nothing

\* Two calls never send one event at the same time, unless one has stalled for
\* longer than its lease.
OneSenderAtATime ==
  stalls = 0 =>
    \A d \in Deliveries, f, g \in Flushes : Sending(f, d) /\ Sending(g, d) => f = g

\* A job exists exactly as long as the kitchen's row waits for it, a request
\* without one has its Korean text in that row, however translations overlap,
\* and nobody at a receiver sees a request before it can be read in Korean.
JobsMatchDeliveries ==
  /\ \A s \in Sources : service[s] # Nothing =>
       /\ job[s] # Nothing <=> outbox[Kitchen(s)].status = "translation_pending"
       /\ job[s] = Nothing => outbox[Kitchen(s)].payload.data = Final
  /\ \A d \in Deliveries : received[d] # Nothing => received[d].data = Final

\* A request can no longer be approved for the robot once it is closed, nor
\* approved a second time: the row's payload stays as it is.  A request that was
\* approved before it was closed is sent all the same (kiosk-outbox.ts:41, :48).
ApprovedOnceBeforeClosing ==
  [][\A s \in Sources :
       s \in closed \/ Approved(Robot(s)) =>
         outbox'[Robot(s)].payload = outbox[Robot(s)].payload]_vars

\* The row of a delivered event is final: no call opens it again for another
\* attempt, also not one that read it before, or one whose lease was taken over.
DeliveredIsFinal ==
  [][\A d \in Deliveries : outbox[d].status = "delivered" => outbox'[d] = outbox[d]]_vars

\* The outbox drains: what waits to be sent is delivered or shown as failed.
OutboxDrains ==
  \A d \in Deliveries :
    Deliverable(d) ~> outbox[d].status \in {"delivered", "failed"}

\* A pending translation succeeds or is shown to the staff as failed.
TranslationsEnd ==
  \A s \in Sources :
    (job[s] # Nothing /\ job[s].status = "pending")
      ~> (job[s] = Nothing \/ job[s].status = "failed")

\* "Please wait for the Korean translation": as long as a request is shown as
\* being translated, there is a job that will do it.
PendingMeansScheduled ==
  \A s \in Sources :
    service[s] # Nothing /\ service[s].translationStatus # "complete" => job[s] # Nothing

(***************************************************************************)
(* The inductive invariant behind the safety properties.                   *)
(***************************************************************************)

\* The event may leave, has left, or will not leave again.
Released(d) == outbox[d].status \in {"queued", "retrying", "delivered", "failed"}

\* The two rows of a source are written together; the robot's row of a request
\* waits for the staff until they approve it, the kitchen's for a translation;
\* what is released is in Korean; a lease is held on what is to be sent.
RowInv(d) ==
  LET row == outbox[d]  s == d[1] IN
    /\ row.status = "absent" <=> outbox[Kitchen(s)].status = "absent"
    /\ row.status = "absent" => service[s] = Nothing /\ ~Approved(d)
    /\ row.status = "awaiting_staff" <=> RobotRequest(d) /\ ~Approved(d)
    /\ row.status = "translation_pending" <=> d = Kitchen(s) /\ job[s] # Nothing
    /\ Released(d) => row.payload.data = Final
    /\ row.attempts = MaxAttempts => row.status \in {"delivered", "failed"}
    /\ row.owner # Nobody => row.status \in {"queued", "retrying"}
    /\ row.status = "delivered" => received[d] # Nothing

SourceInv(s) ==
  /\ job[s] # Nothing \/ s \in closed => service[s] # Nothing
  /\ job[s] # Nothing =>
       (job[s].status = "pending" <=> job[s].attempts < MaxTranslations)

\* A call that has read a row has the content that row keeps.  A call that
\* sends has the lease, unless one has run out under a call that was alive.
FlushInv(f) ==
  LET call == flush[f]  d == flush[f].delivery IN
    call # IdleCall =>
      /\ Released(d) /\ call.payload = outbox[d].payload
      /\ call.pc = "read" /\ ~call.late => Free(outbox[d])
      /\ call.pc = "answered" /\ call.receipt => received[d] # Nothing
      /\ call.pc # "read" /\ stalls = 0 => outbox[d].owner = f /\ ~outbox[d].expired

StaffInv(p) ==
  staff[p] # IdleCall =>
    /\ service[staff[p].source] # Nothing
    /\ staff[p].pc = "approve" => staff[p].data = Final

\* What is under way without a call, and what has arrived.
DeliveryInv ==
  /\ \A m \in wire : Released(m.delivery) /\ m.payload = outbox[m.delivery].payload
  /\ \A d \in Deliveries :
       received[d] # Nothing => Released(d) /\ received[d] = outbox[d].payload

IInv ==
  /\ TypeOK /\ DeliveryInv
  /\ \A d \in Deliveries : RowInv(d)
  /\ \A s \in Sources : SourceInv(s)
  /\ \A f \in Flushes : FlushInv(f)
  /\ \A p \in Staff : StaffInv(p)
=============================================================================
