--------------------------- MODULE KioskOutbox_proofs ---------------------------
(***************************************************************************)
(* Proofs about KioskOutbox: no event changes once it may have left, what  *)
(* is delivered was received and is final, one call sends an event at a    *)
(* time, and the translation jobs are those the kitchen's rows wait for.   *)
(***************************************************************************)
EXTENDS KioskOutbox, TLAPS

-----------------------------------------------------------------------------
(* What the model is made of. *)

\* A source has two deliveries, and a delivery is one of the two of its source.
LEMMA DeliveryFacts ==
  /\ \A s \in Sources : Kitchen(s) \in Deliveries /\ Robot(s) \in Deliveries
  /\ \A s : Kitchen(s)[1] = s /\ Robot(s)[1] = s
  /\ \A s : Kitchen(s)[2] = "kitchen" /\ Robot(s)[2] = "robot"
  /\ \A s, z : Kitchen(s) # Robot(z)
  /\ \A s, z : Kitchen(s) = Kitchen(z) => s = z
  /\ \A s, z : Robot(s) = Robot(z) => s = z
  /\ \A d \in Deliveries : /\ d[1] \in Sources /\ d[2] \in Targets
                           /\ d = Kitchen(d[1]) \/ d = Robot(d[1])
BY DEF Deliveries, Targets, Kitchen, Robot

\* A call of flushKioskOutbox by the place it is at.
LEMMA FlushFacts ==
  ASSUME NEW call \in FlushCalls
  PROVE  /\ call = IdleCall <=> call.pc = "idle"
         /\ call # IdleCall => /\ call.pc \in {"read", "sent", "answered"}
                               /\ call.delivery \in Deliveries
                               /\ call.attempts \in 0 .. MaxAttempts - 1
                               /\ call.payload \in Payload
         /\ call.pc = "answered" => call.receipt \in BOOLEAN
         /\ call.pc = "read" => call.late \in BOOLEAN
BY DEF FlushCalls, IdleCall

LEMMA TranslationFacts ==
  ASSUME NEW call \in TranslationCalls
  PROVE  /\ call = IdleCall <=> call.pc = "idle"
         /\ call # IdleCall => /\ call.pc \in {"read", "claimed"}
                               /\ call.source \in Sources
                               /\ call.attempts \in 0 .. MaxTranslations - 1
                               /\ call.data \in Content
BY DEF TranslationCalls, IdleCall

LEMMA StaffFacts ==
  ASSUME NEW call \in StaffCalls
  PROVE  /\ call = IdleCall <=> call.pc = "idle"
         /\ call # IdleCall => /\ call.pc \in {"translate", "approve", "write"}
                               /\ call.source \in Sources
         /\ call.pc \in {"approve", "write"} => call.data \in Content
BY DEF StaffCalls, IdleCall

\* Contents and the rows that are written.
LEMMA ContentFacts ==
  /\ Final \in Content /\ Untranslated("pending") \in Content
  /\ \A c \in Content : c # Nothing
  /\ \A p \in Payload : p # Nothing
  /\ \A j \in Job : j # Nothing
  /\ \A c \in Content, state \in {"pending", "failed", "complete"} :
       [c EXCEPT !.translationStatus = state] \in Content
BY NothingAssumption DEF Final, Untranslated, Content

LEMMA NewRowFacts ==
  ASSUME NEW state \in Statuses, NEW content \in Content
  PROVE  /\ NewRow(state, content) \in Row
         /\ NewRow(state, content).status = state
         /\ NewRow(state, content).attempts = 0
         /\ NewRow(state, content).owner = Nobody
         /\ NewRow(state, content).payload = [data |-> content, staffApprovedAt |-> 0]
BY OutboxAssumption DEF NewRow, Row, Payload

\* A row as the final UPDATE and the staff's retry leave it.
LEMMA RowUpdates ==
  ASSUME NEW row \in Row, NEW status \in Statuses, NEW n \in 0 .. MaxAttempts,
         NEW isDue \in BOOLEAN
  PROVE  /\ [row EXCEPT !.status = status, !.attempts = n, !.due = isDue] \in Row
         /\ [row EXCEPT !.status = status, !.attempts = n, !.due = isDue,
                        !.owner = Nobody, !.expired = FALSE] \in Row
BY DEF Row

\* A row as the staff's approval leaves it, and a job as they schedule it again.
LEMMA ApprovedRow ==
  ASSUME NEW row \in Row, NEW payload \in Payload
  PROVE  [row EXCEPT !.status = "queued", !.due = TRUE, !.payload = payload] \in Row
BY DEF Row, Statuses

LEMMA ScheduledJob ==
  ASSUME NEW row \in Job
  PROVE  [row EXCEPT !.status = "pending", !.attempts = 0, !.due = TRUE] \in Job
<1>1. 0 \in 0 .. MaxTranslations
  BY OutboxAssumption
<1> QED
  BY <1>1 DEF Job

\* What such updates leave in a row.
LEMMA UpdatedFields ==
  ASSUME NEW row \in Row, NEW status, NEW n, NEW isDue, NEW f, NEW payload
  PROVE  /\ LET new == [row EXCEPT !.status = status, !.attempts = n, !.due = isDue] IN
              /\ new.status = status /\ new.attempts = n /\ new.payload = row.payload
              /\ new.owner = row.owner /\ new.expired = row.expired
         /\ LET new == [row EXCEPT !.status = status, !.attempts = n, !.due = isDue,
                                   !.owner = f, !.expired = FALSE] IN
              /\ new.status = status /\ new.attempts = n /\ new.payload = row.payload
              /\ new.owner = f /\ ~new.expired
         /\ LET new == [row EXCEPT !.owner = f, !.expired = FALSE] IN
              /\ new.status = row.status /\ new.attempts = row.attempts
              /\ new.payload = row.payload /\ new.owner = f /\ ~new.expired
         /\ LET new == [row EXCEPT !.status = status, !.due = isDue, !.payload = payload] IN
              /\ new.status = status /\ new.attempts = row.attempts
              /\ new.payload = payload /\ new.owner = row.owner /\ new.expired = row.expired
         /\ LET new == [row EXCEPT !.status = status, !.due = isDue, !.payload.data = payload] IN
              /\ new.status = status /\ new.attempts = row.attempts
              /\ new.payload = [row.payload EXCEPT !.data = payload]
              /\ new.owner = row.owner /\ new.expired = row.expired
BY DEF Row

-----------------------------------------------------------------------------
(* The invariant holds initially. *)

LEMMA InitInv == Init => IInv
<1> SUFFICES ASSUME Init PROVE IInv
  OBVIOUS
<1>1. TypeOK
  <2>1. NewRow("absent", Untranslated("pending")) \in Row
    BY ContentFacts, NewRowFacts DEF Statuses
  <2> QED
    BY <2>1, OutboxAssumption DEF Init, TypeOK, FlushCalls, TranslationCalls, StaffCalls
<1>2. DeliveryInv
  BY DEF Init, DeliveryInv
<1>3. ASSUME NEW d \in Deliveries PROVE RowInv(d)
  <2>1. /\ outbox[d].status = "absent" /\ outbox[Kitchen(d[1])].status = "absent"
        /\ outbox[d].attempts = 0 /\ outbox[d].owner = Nobody
        /\ outbox[d].payload.staffApprovedAt = 0
        /\ service[d[1]] = Nothing /\ job[d[1]] = Nothing
    <3> DEFINE row == NewRow("absent", Untranslated("pending"))
    <3>1. d[1] \in Sources /\ Kitchen(d[1]) \in Deliveries
      BY DeliveryFacts
    <3>2. outbox[d] = row /\ outbox[Kitchen(d[1])] = row
      BY <3>1 DEF Init
    <3>3. /\ row.status = "absent" /\ row.attempts = 0 /\ row.owner = Nobody
          /\ row.payload.staffApprovedAt = 0
      BY DEF NewRow
    <3> QED
      BY <3>1, <3>2, <3>3 DEF Init
  <2> QED
    BY <2>1, OutboxAssumption DEF RowInv, Released, RobotRequest, Approved
<1>4. \A s \in Sources : SourceInv(s)
  BY DEF Init, SourceInv
<1>5. \A f \in Flushes : FlushInv(f)
  BY DEF Init, FlushInv
<1>6. \A p \in Staff : StaffInv(p)
  BY DEF Init, StaffInv
<1> QED
  BY <1>1, <1>2, <1>3, <1>4, <1>5, <1>6 DEF IInv

-----------------------------------------------------------------------------
(* Every step keeps every variable a value of its kind. *)

\* What a call does when it ends, and what its request may leave behind.
LEMMA LingerTypes ==
  ASSUME TypeOK, NEW f \in Flushes, flush[f].pc \in {"sent", "answered"}, MayLinger(f)
  PROVE  wire' \subseteq [delivery : Deliveries, payload : Payload]
<1>1. flush[f].delivery \in Deliveries /\ flush[f].payload \in Payload
  BY FlushFacts DEF TypeOK
<1> QED
  BY <1>1 DEF MayLinger, TypeOK

\* The row as the final UPDATE leaves it: no attempt beyond the last is counted.
LEMMA ConcludeTypes ==
  ASSUME TypeOK, NEW f \in Flushes, flush[f].pc \in {"sent", "answered"},
         NEW status \in Statuses, NEW isDue \in BOOLEAN, Conclude(f, status, isDue)
  PROVE  outbox' \in [Deliveries -> Row]
<1>1. /\ flush[f].delivery \in Deliveries
      /\ flush[f].attempts + 1 \in 0 .. MaxAttempts
  BY FlushFacts, OutboxAssumption DEF TypeOK
<1>2. flush[f].delivery \in Deliveries /\ outbox \in [Deliveries -> Row]
  BY <1>1 DEF TypeOK
<1>3. CASE outbox[flush[f].delivery].owner # f
  BY <1>2, <1>3 DEF Conclude
<1>4. CASE outbox[flush[f].delivery].owner = f
  <2> DEFINE row == outbox[flush[f].delivery]
             new == [row EXCEPT !.status = status, !.attempts = flush[f].attempts + 1,
                                !.due = isDue, !.owner = Nobody, !.expired = FALSE]
  <2>1. outbox' = [outbox EXCEPT ![flush[f].delivery] = new]
    BY <1>2, <1>4 DEF Conclude
  <2>2. row \in Row
    BY <1>2
  <2>3. new \in Row
    BY <1>1, <2>2, RowUpdates
  <2> QED
    BY <1>2, <2>1, <2>3
<1> QED
  BY <1>3, <1>4

\* A receiver stores payloads.
LEMMA StoredTypes ==
  ASSUME TypeOK, NEW d \in Deliveries, NEW payload \in Payload, received' = Stored(d, payload)
  PROVE  received' \in [Deliveries -> Payload \cup {Nothing}]
BY DEF TypeOK, Stored

\* The steps of the kiosk's rows.
LEMMA RowTypes ==
  ASSUME TypeOK,
         \/ \E s \in Sources : CommitOrder(s) \/ CommitService(s) \/ CloseRequest(s)
         \/ Time
         \/ \E d \in Deliveries : RetryDelivery(d)
  PROVE  TypeOK'
<1> USE DEF kioskVars, callVars
<1>1. ASSUME NEW s \in Sources, CommitOrder(s)
      PROVE  TypeOK'
  <2>1. NewRow("queued", Final) \in Row
    BY ContentFacts, NewRowFacts DEF Statuses
  <2> QED
    BY <1>1, <2>1 DEF CommitOrder, TypeOK
<1>2. ASSUME NEW s \in Sources, CommitService(s)
      PROVE  TypeOK'
  <2>1. PICK content \in {Final, Untranslated("pending")} :
          /\ service' = [service EXCEPT ![s] = content]
          /\ outbox' = [outbox EXCEPT
               ![Kitchen(s)] = NewRow(KitchenStatus(content # Final), content),
               ![Robot(s)] = NewRow("awaiting_staff", content)]
          /\ job' = IF ~(content # Final) THEN job
                    ELSE [job EXCEPT ![s] = [status |-> "pending", attempts |-> 1,
                            due |-> FALSE, owner |-> Nobody, expired |-> FALSE]]
    BY <1>2 DEF CommitService
  <2>2. content \in Content
    BY ContentFacts
  <2>3. /\ NewRow(KitchenStatus(content # Final), content) \in Row
        /\ NewRow("awaiting_staff", content) \in Row
    BY <2>2, NewRowFacts DEF Statuses, KitchenStatus
  <2>4. [status |-> "pending", attempts |-> 1, due |-> FALSE,
         owner |-> Nobody, expired |-> FALSE] \in Job
    BY OutboxAssumption DEF Job
  <2>5. outbox' \in [Deliveries -> Row]
    BY <2>1, <2>3 DEF TypeOK
  <2>6. job' \in [Sources -> Job \cup {Nothing}]
    BY <2>1, <2>4 DEF TypeOK
  <2>7. service' \in [Sources -> Content \cup {Nothing}]
    BY <2>1, <2>2 DEF TypeOK
  <2> QED
    BY <1>2, <2>5, <2>6, <2>7 DEF CommitService, TypeOK
<1>3. ASSUME NEW s \in Sources, CloseRequest(s)
      PROVE  TypeOK'
  BY <1>3 DEF CloseRequest, TypeOK
<1>4. ASSUME NEW d \in Deliveries, BackoffEnds(d)
      PROVE  TypeOK'
  BY <1>4 DEF BackoffEnds, TypeOK, Row
<1>5. ASSUME NEW d \in Deliveries, LeaseEnds(d)
      PROVE  TypeOK'
  <2>1. outbox' \in [Deliveries -> Row]
    BY <1>5 DEF LeaseEnds, TypeOK, Row
  <2>2. stalls' \in Nat /\ stalls' + crashes <= MaxFaults
    BY <1>5, OutboxAssumption DEF LeaseEnds, Stalling, MoreFaults, TypeOK
  <2> QED
    BY <1>5, <2>1, <2>2 DEF LeaseEnds, TypeOK
<1>6. ASSUME NEW s \in Sources, JobBackoffEnds(s)
      PROVE  TypeOK'
  <2>1. job[s] \in Job
    BY <1>6 DEF JobBackoffEnds, TypeOK
  <2>2. job' \in [Sources -> Job \cup {Nothing}]
    BY <1>6, <2>1 DEF JobBackoffEnds, TypeOK, Job
  <2> QED
    BY <1>6, <2>2 DEF JobBackoffEnds, TypeOK
<1>7. ASSUME NEW s \in Sources, JobLeaseEnds(s)
      PROVE  TypeOK'
  <2>1. job[s] \in Job
    BY <1>7 DEF JobLeaseEnds, TypeOK
  <2>2. job' \in [Sources -> Job \cup {Nothing}]
    BY <1>7, <2>1 DEF JobLeaseEnds, TypeOK, Job
  <2>3. stalls' \in Nat /\ stalls' + crashes <= MaxFaults
    BY <1>7, OutboxAssumption DEF JobLeaseEnds, Stalling, MoreFaults, TypeOK
  <2> QED
    BY <1>7, <2>2, <2>3 DEF JobLeaseEnds, TypeOK
<1>8. ASSUME NEW d \in Deliveries, RetryDelivery(d)
      PROVE  TypeOK'
  <2> DEFINE new == [outbox[d] EXCEPT !.status = "queued", !.attempts = 0, !.due = TRUE]
  <2>0. outbox \in [Deliveries -> Row] /\ outbox[d] \in Row
    BY DEF TypeOK
  <2>1. outbox' = [outbox EXCEPT ![d] = new]
    BY <1>8, <2>0 DEF RetryDelivery
  <2>2. new \in Row
    <3>1. "queued" \in Statuses /\ 0 \in 0 .. MaxAttempts /\ TRUE \in BOOLEAN
      BY OutboxAssumption DEF Statuses
    <3> QED
      BY <2>0, <3>1, RowUpdates
  <2>3. outbox' \in [Deliveries -> Row]
    BY <2>0, <2>1, <2>2
  <2> HIDE DEF new
  <2> QED
    BY <1>8, <2>3 DEF RetryDelivery, TypeOK
<1> QED
  BY <1>1, <1>2, <1>3, <1>4, <1>5, <1>6, <1>7, <1>8 DEF Time

\* The steps of flushKioskOutbox.
LEMMA FlushTypes ==
  ASSUME IInv, NEW f \in Flushes,
         FlushStep(f) \/ FlushDies(f) \/ \E d \in Deliveries : FlushReads(f, d)
  PROVE  TypeOK'
<1> USE DEF kioskVars, callVars
<1>0. TypeOK /\ flush[f] \in FlushCalls /\ IdleCall \in FlushCalls
  BY DEF IInv, TypeOK, FlushCalls
<1>1. ASSUME NEW d \in Deliveries, FlushReads(f, d)
      PROVE  TypeOK'
  <2>1. outbox[d].attempts \in 0 .. MaxAttempts - 1 /\ outbox[d].payload \in Payload
    <3>1. RowInv(d) /\ outbox[d] \in Row
      BY <1>0 DEF IInv, TypeOK
    <3>2. outbox[d].attempts \in 0 .. MaxAttempts /\ outbox[d].payload \in Payload
      BY <3>1 DEF Row
    <3>3. outbox[d].attempts # MaxAttempts
      BY <1>1, <3>1 DEF FlushReads, Deliverable, RowInv
    <3> QED
      BY <3>2, <3>3, OutboxAssumption
  <2>2. [pc |-> "read", delivery |-> d, attempts |-> outbox[d].attempts,
         payload |-> outbox[d].payload, late |-> FALSE] \in FlushCalls
    BY <2>1 DEF FlushCalls
  <2> QED
    BY <1>0, <1>1, <2>2 DEF FlushReads, TypeOK
<1>2. ASSUME FlushClaims(f)
      PROVE  TypeOK'
  <2> DEFINE d == flush[f].delivery
  <2>1. d \in Deliveries /\ flush[f] # IdleCall /\ outbox \in [Deliveries -> Row]
    BY <1>0, <1>2, FlushFacts DEF FlushClaims, TypeOK
  <2>2. outbox' \in [Deliveries -> Row]
    <3>1. outbox' = [outbox EXCEPT ![d] = [outbox[d] EXCEPT !.owner = f, !.expired = FALSE]]
      BY <1>2, <2>1 DEF FlushClaims
    <3>2. [outbox[d] EXCEPT !.owner = f, !.expired = FALSE] \in Row
      BY <2>1 DEF Row
    <3> QED
      BY <2>1, <3>1, <3>2
  <2>3. ASSUME NEW g \in Flushes PROVE flush'[g] \in FlushCalls
    <3>1. flush[g] \in FlushCalls
      BY <1>0 DEF TypeOK
    <3>2. CASE g = f
      BY <1>0, <1>2, <2>1, <3>2, FlushFacts DEF FlushClaims, FlushCalls
    <3>3. CASE g # f /\ flush[g].pc = "read"
      <4>1. [flush[g] EXCEPT !.late = TRUE] \in FlushCalls
        BY <3>1, <3>3 DEF FlushCalls, IdleCall
      <4> QED
        BY <1>2, <3>1, <3>3, <4>1 DEF FlushClaims
    <3>4. CASE g # f /\ flush[g].pc # "read"
      BY <1>2, <3>1, <3>4 DEF FlushClaims
    <3> QED
      BY <3>2, <3>3, <3>4
  <2>4. flush' \in [Flushes -> FlushCalls]
    BY <1>2, <2>3 DEF FlushClaims
  <2> QED
    BY <1>0, <1>2, <2>2, <2>4 DEF FlushClaims, TypeOK
<1>3. ASSUME FlushSkips(f)
      PROVE  TypeOK'
  BY <1>0, <1>3 DEF FlushSkips, TypeOK
<1>4. ASSUME ReceiverAnswers(f)
      PROVE  TypeOK'
  <2> DEFINE d == flush[f].delivery  payload == flush[f].payload
  <2>1. d \in Deliveries /\ payload \in Payload /\ flush[f].attempts \in 0 .. MaxAttempts - 1
    BY <1>0, <1>4, FlushFacts DEF ReceiverAnswers
  <2>2. received' \in [Deliveries -> Payload \cup {Nothing}]
    BY <1>0, <1>4, <2>1, StoredTypes DEF ReceiverAnswers
  <2>3. Accepts(d, payload) \in BOOLEAN
    BY DEF Accepts
  <2>4. [pc |-> "answered", delivery |-> d, attempts |-> flush[f].attempts,
         payload |-> payload, receipt |-> Accepts(d, payload)] \in FlushCalls
    BY <2>1, <2>3 DEF FlushCalls
  <2>5. flush' \in [Flushes -> FlushCalls]
    BY <1>0, <1>4, <2>4 DEF ReceiverAnswers, TypeOK
  <2> QED
    BY <1>0, <1>4, <2>2, <2>5 DEF ReceiverAnswers, TypeOK
<1>5. ASSUME FlushDelivered(f)
      PROVE  TypeOK'
  <2>1. flush[f].pc \in {"sent", "answered"} /\ outbox[flush[f].delivery].due \in BOOLEAN
    BY <1>0, <1>5, FlushFacts DEF FlushDelivered, HasReceipt, TypeOK, Row
  <2>2. outbox' \in [Deliveries -> Row]
    BY <1>0, <1>5, <2>1, ConcludeTypes DEF FlushDelivered, Statuses
  <2> QED
    BY <1>0, <1>5, <2>2 DEF FlushDelivered, TypeOK
<1>6. ASSUME FlushFails(f)
      PROVE  TypeOK'
  <2>1. FailedStatus(flush[f].attempts + 1) \in Statuses
    BY DEF FailedStatus, Statuses
  <2>2. outbox' \in [Deliveries -> Row]
    BY <1>0, <1>6, <2>1, ConcludeTypes DEF FlushFails
  <2>3. wire' \subseteq [delivery : Deliveries, payload : Payload]
    BY <1>0, <1>6, LingerTypes DEF FlushFails
  <2> QED
    BY <1>0, <1>6, <2>2, <2>3 DEF FlushFails, TypeOK
<1>7. ASSUME FlushDies(f)
      PROVE  TypeOK'
  <2>1. wire' \subseteq [delivery : Deliveries, payload : Payload]
    BY <1>0, <1>7, LingerTypes DEF FlushDies
  <2>2. crashes' \in Nat /\ stalls + crashes' <= MaxFaults
    BY <1>0, <1>7, OutboxAssumption DEF FlushDies, MoreFaults, TypeOK
  <2> QED
    BY <1>0, <1>7, <2>1, <2>2 DEF FlushDies, TypeOK
<1> QED
  BY <1>1, <1>2, <1>3, <1>4, <1>5, <1>6, <1>7 DEF FlushStep

\* The steps of flushKioskTranslations.
LEMMA TranslationTypes ==
  ASSUME IInv, NEW t \in Translations,
         \/ TranslationStep(t) \/ TranslationDies(t)
         \/ \E s \in Sources : TranslationReads(t, s)
  PROVE  TypeOK'
<1> USE DEF kioskVars, callVars
<1>0. TypeOK /\ translation[t] \in TranslationCalls /\ IdleCall \in TranslationCalls
  BY DEF IInv, TypeOK, TranslationCalls
<1>1. ASSUME NEW s \in Sources, TranslationReads(t, s)
      PROVE  TypeOK'
  <2>1. /\ job[s] \in Job /\ job[s].status = "pending" /\ SourceInv(s)
        /\ service[s] \in Content \cup {Nothing}
    BY <1>0, <1>1 DEF TranslationReads, IInv, TypeOK
  <2>2. job[s].attempts \in 0 .. MaxTranslations - 1 /\ service[s] \in Content
    BY <1>1, <2>1, OutboxAssumption DEF SourceInv, Job, TranslationReads
  <2>3. [pc |-> "read", source |-> s, attempts |-> job[s].attempts, data |-> service[s]]
          \in TranslationCalls
    BY <2>2 DEF TranslationCalls
  <2> QED
    BY <1>0, <1>1, <2>3 DEF TranslationReads, TypeOK
<1>2. ASSUME TranslationClaims(t)
      PROVE  TypeOK'
  <2> DEFINE s == translation[t].source
  <2>1. s \in Sources /\ translation[t].pc = "read"
    BY <1>0, <1>2, TranslationFacts DEF TranslationClaims, IdleCall
  <2>2. CASE MayTranslate(s)
    <3>1. [job[s] EXCEPT !.owner = t, !.expired = FALSE] \in Job
      BY <1>0, <2>1, <2>2 DEF MayTranslate, TypeOK, Job
    <3>2. job' \in [Sources -> Job \cup {Nothing}]
      BY <1>0, <1>2, <2>1, <2>2, <3>1 DEF TranslationClaims, TypeOK
    <3>3. [translation[t] EXCEPT !.pc = "claimed"] \in TranslationCalls
      BY <1>0, <2>1 DEF TranslationCalls, IdleCall
    <3>4. translation' \in [Translations -> TranslationCalls]
      BY <1>0, <1>2, <2>2, <3>3 DEF TranslationClaims, TypeOK
    <3> QED
      BY <1>0, <1>2, <3>2, <3>4 DEF TranslationClaims, TypeOK
  <2>3. CASE ~MayTranslate(s)
    BY <1>0, <1>2, <2>3 DEF TranslationClaims, TypeOK
  <2> QED
    BY <2>2, <2>3
<1>3. ASSUME TranslationSucceeds(t)
      PROVE  TypeOK'
  <2> DEFINE s == translation[t].source  d == Kitchen(s)
  <2>1. s \in Sources /\ d \in Deliveries
    BY <1>0, <1>3, TranslationFacts, DeliveryFacts DEF TranslationSucceeds, IdleCall
  <2>2. /\ service' \in [Sources -> Content \cup {Nothing}]
        /\ job' \in [Sources -> Job \cup {Nothing}]
    <3>1. \/ service' = service /\ job' = job
          \/ service' = [service EXCEPT ![s] = Final] /\ job' = [job EXCEPT ![s] = Nothing]
      BY <1>3 DEF TranslationSucceeds
    <3> QED
      BY <1>0, <3>1, ContentFacts DEF TypeOK
  <2>3. outbox' \in [Deliveries -> Row]
    <3>1. outbox \in [Deliveries -> Row] /\ outbox[d] \in Row
      BY <1>0, <2>1 DEF TypeOK
    <3>2. [outbox[d] EXCEPT !.status = "queued", !.due = TRUE, !.payload.data = Final] \in Row
      BY <3>1, ContentFacts DEF Row, Payload, Statuses
    <3>3. \/ outbox' = outbox
          \/ outbox' = [outbox EXCEPT ![d] =
               [outbox[d] EXCEPT !.status = "queued", !.due = TRUE, !.payload.data = Final]]
      BY <1>3, <3>1 DEF TranslationSucceeds
    <3> QED
      BY <3>1, <3>2, <3>3
  <2>4. translation' \in [Translations -> TranslationCalls]
    BY <1>0, <1>3 DEF TranslationSucceeds, TypeOK
  <2> QED
    BY <1>0, <1>3, <2>2, <2>3, <2>4 DEF TranslationSucceeds, TypeOK
<1>4. ASSUME TranslationFails(t)
      PROVE  TypeOK'
  <2> DEFINE s == translation[t].source  attempts == translation[t].attempts + 1
  <2>1. s \in Sources /\ attempts \in 0 .. MaxTranslations /\ translation[t].data \in Content
    BY <1>0, <1>4, TranslationFacts, OutboxAssumption DEF TranslationFails, IdleCall
  <2>2. StateAfter(attempts) \in {"pending", "failed"}
    BY DEF StateAfter
  <2>3. /\ [translation[t].data EXCEPT !.translationStatus = StateAfter(attempts)] \in Content
        /\ JobAfterFailure(attempts) \in Job
    BY <2>1, <2>2, ContentFacts DEF JobAfterFailure, Failed, Job
  <2>4. service' \in [Sources -> Content \cup {Nothing}] /\ job' \in [Sources -> Job \cup {Nothing}]
    BY <1>0, <1>4, <2>3 DEF TranslationFails, TypeOK
  <2>5. translation' \in [Translations -> TranslationCalls]
    BY <1>0, <1>4 DEF TranslationFails, TypeOK
  <2> QED
    BY <1>0, <1>4, <2>4, <2>5 DEF TranslationFails, TypeOK
<1>5. ASSUME TranslationDies(t)
      PROVE  TypeOK'
  <2>1. crashes' \in Nat /\ stalls + crashes' <= MaxFaults
    BY <1>0, <1>5, OutboxAssumption DEF TranslationDies, MoreFaults, TypeOK
  <2> QED
    BY <1>0, <1>5, <2>1 DEF TranslationDies, TypeOK
<1> QED
  BY <1>1, <1>2, <1>3, <1>4, <1>5 DEF TranslationStep

\* The steps of changeOperation, and a request that arrives late.
LEMMA StaffTypes ==
  ASSUME IInv, NEW p \in Staff,
         \/ StaffStep(p)
         \/ \E s \in Sources : ApprovalReads(p, s) \/ TranslateSchedules(p, s)
  PROVE  TypeOK'
<1> USE DEF kioskVars, callVars
<1>0. TypeOK /\ staff[p] \in StaffCalls /\ IdleCall \in StaffCalls
  BY DEF IInv, TypeOK, StaffCalls
<1>1. ASSUME NEW s \in Sources, ApprovalReads(p, s)
      PROVE  TypeOK'
  <2>1. service[s] \in Content
    BY <1>0, <1>1 DEF ApprovalReads, TypeOK
  <2>2. [pc |-> "approve", source |-> s, data |-> service[s]] \in StaffCalls
    BY <2>1 DEF StaffCalls
  <2> QED
    BY <1>0, <1>1, <2>2 DEF ApprovalReads, TypeOK
<1>2. ASSUME NEW s \in Sources, TranslateSchedules(p, s)
      PROVE  TypeOK'
  <2>1. job[s] \in Job
    BY <1>0, <1>2 DEF TranslateSchedules, TypeOK
  <2>2. [job[s] EXCEPT !.status = "pending", !.attempts = 0, !.due = TRUE] \in Job
    BY <2>1, ScheduledJob
  <2>3. job' = [job EXCEPT ![s] =
                 [job[s] EXCEPT !.status = "pending", !.attempts = 0, !.due = TRUE]]
    BY <1>0, <1>2 DEF TranslateSchedules, TypeOK
  <2>4. job' \in [Sources -> Job \cup {Nothing}]
    BY <1>0, <2>2, <2>3 DEF TypeOK
  <2>5. staff' \in [Staff -> StaffCalls]
    BY <1>0, <1>2 DEF TranslateSchedules, TypeOK, StaffCalls
  <2> QED
    BY <1>0, <1>2, <2>4, <2>5 DEF TranslateSchedules, TypeOK
<1>3. ASSUME ApprovalWrites(p)
      PROVE  TypeOK'
  <2> DEFINE d == Robot(staff[p].source)
             new == [outbox[d] EXCEPT !.status = "queued", !.due = TRUE,
                       !.payload = [data |-> staff[p].data,
                                    staffApprovedAt |-> outbox[d].payload.staffApprovedAt + 1]]
  <2>1. d \in Deliveries /\ staff[p].data \in Content /\ outbox[d] \in Row
    BY <1>0, <1>3, StaffFacts, DeliveryFacts DEF ApprovalWrites, IdleCall, TypeOK
  <2>2. outbox' \in [Deliveries -> Row]
    <3>1. CASE MayApprove(d)
      <4>1. outbox[d].payload.staffApprovedAt = 0
        BY <2>1, <3>1 DEF MayApprove, Approved
      <4>2. [data |-> staff[p].data,
             staffApprovedAt |-> outbox[d].payload.staffApprovedAt + 1] \in Payload
        BY <2>1, <4>1 DEF Payload
      <4>3. new \in Row
        BY <2>1, <4>2, ApprovedRow
      <4>4. outbox' = [outbox EXCEPT ![d] = new]
        BY <1>0, <1>3, <3>1 DEF ApprovalWrites, TypeOK
      <4> QED
        BY <1>0, <4>3, <4>4 DEF TypeOK
    <3>2. CASE ~MayApprove(d)
      BY <1>0, <1>3, <3>2 DEF ApprovalWrites, TypeOK
    <3> QED
      BY <3>1, <3>2
  <2> QED
    BY <1>0, <1>3, <2>2 DEF ApprovalWrites, TypeOK
<1>4. ASSUME TranslateReads(p)
      PROVE  TypeOK'
  <2>1. staff[p].source \in Sources /\ service[staff[p].source] \in Content
    BY <1>0, <1>4, StaffFacts DEF TranslateReads, IInv, StaffInv, IdleCall, TypeOK
  <2>2. [pc |-> "write", source |-> staff[p].source, data |-> service[staff[p].source]]
          \in StaffCalls
    BY <2>1 DEF StaffCalls
  <2> QED
    BY <1>0, <1>4, <2>2 DEF TranslateReads, TypeOK
<1>5. ASSUME TranslateWrites(p)
      PROVE  TypeOK'
  <2>1. [staff[p].data EXCEPT !.translationStatus = "pending"] \in Content
    BY <1>0, <1>5, StaffFacts, ContentFacts DEF TranslateWrites
  <2> QED
    BY <1>0, <1>5, <2>1 DEF TranslateWrites, TypeOK
<1> QED
  BY <1>1, <1>2, <1>3, <1>4, <1>5 DEF StaffStep

LEMMA TypeStep == IInv /\ [Next]_vars => TypeOK'
<1> SUFFICES ASSUME IInv, [Next]_vars PROVE TypeOK'
  OBVIOUS
<1>0. TypeOK
  BY DEF IInv
<1>1. ASSUME NEW m \in wire, ArrivesLate(m)
      PROVE  TypeOK'
  <2>1. m.delivery \in Deliveries /\ m.payload \in Payload
    BY <1>0 DEF TypeOK
  <2>2. received' \in [Deliveries -> Payload \cup {Nothing}]
    BY <1>0, <1>1, <2>1, StoredTypes DEF ArrivesLate
  <2> QED
    BY <1>0, <1>1, <2>2 DEF ArrivesLate, TypeOK, kioskVars, callVars
<1>2. CASE UNCHANGED vars
  BY <1>0, <1>2 DEF vars, TypeOK
<1> QED
  BY <1>0, <1>1, <1>2, RowTypes, FlushTypes, TranslationTypes, StaffTypes DEF Next

-----------------------------------------------------------------------------
(* What a step may do to a row, to a request and to what was received.     *)

\* An invariant taken apart.
LEMMA IInvFacts ==
  ASSUME IInv
  PROVE  /\ TypeOK /\ DeliveryInv
         /\ \A d \in Deliveries : RowInv(d)
         /\ \A s \in Sources : SourceInv(s)
         /\ \A f \in Flushes : FlushInv(f)
         /\ \A p \in Staff : StaffInv(p)
BY DEF IInv

\* The steps that write to no row, and neither add nor take away a request, a job or
\* what was received.
CallStep ==
  \/ \E s \in Sources : CloseRequest(s) \/ JobBackoffEnds(s) \/ JobLeaseEnds(s)
  \/ \E f \in Flushes :
       \/ FlushSkips(f) \/ ReceiverAnswers(f) \/ FlushDies(f)
       \/ \E d \in Deliveries : FlushReads(f, d)
  \/ \E m \in wire : ArrivesLate(m)
  \/ \E t \in Translations :
       \/ TranslationClaims(t) \/ TranslationFails(t) \/ TranslationDies(t)
       \/ \E s \in Sources : TranslationReads(t, s)
  \/ \E p \in Staff :
       \/ TranslateReads(p) \/ TranslateWrites(p)
       \/ \E s \in Sources : ApprovalReads(p, s) \/ TranslateSchedules(p, s)
  \/ UNCHANGED vars

\* The steps that write to rows.
RowStep ==
  \/ \E s \in Sources : CommitOrder(s) \/ CommitService(s)
  \/ \E d \in Deliveries : BackoffEnds(d) \/ LeaseEnds(d) \/ RetryDelivery(d)
  \/ \E f \in Flushes : FlushClaims(f) \/ FlushDelivered(f) \/ FlushFails(f)
  \/ \E t \in Translations : TranslationSucceeds(t)
  \/ \E p \in Staff : ApprovalWrites(p)

LEMMA TwoKindsOfStep == [Next]_vars => CallStep \/ RowStep
BY DEF Next, Time, FlushStep, TranslationStep, StaffStep, CallStep, RowStep

\* What a receiver has stored stays stored.
LEMMA StoredStays ==
  ASSUME TypeOK, NEW e, NEW payload, received' = Stored(e, payload)
  PROVE  \A d \in Deliveries : received[d] # Nothing => received'[d] = received[d]
BY DEF Stored, TypeOK

LEMMA CallStepFacts ==
  ASSUME IInv, CallStep
  PROVE  /\ outbox' = outbox
         /\ \A s \in Sources : service'[s] = Nothing <=> service[s] = Nothing
         /\ \A s \in Sources : job'[s] = Nothing <=> job[s] = Nothing
         /\ \A d \in Deliveries : received[d] # Nothing => received'[d] = received[d]
<1> USE DEF kioskVars, callVars
<1>0. TypeOK
  BY IInvFacts
<1>1. CASE \E s \in Sources : CloseRequest(s) \/ JobBackoffEnds(s) \/ JobLeaseEnds(s)
  <2>1. ASSUME NEW s \in Sources, CloseRequest(s)
        PROVE  outbox' = outbox /\ service' = service /\ job' = job /\ received' = received
    BY <2>1 DEF CloseRequest
  <2>2. ASSUME NEW s \in Sources, JobBackoffEnds(s) \/ JobLeaseEnds(s)
        PROVE  /\ outbox' = outbox /\ service' = service /\ received' = received
               /\ \A z \in Sources : job'[z] = Nothing <=> job[z] = Nothing
    <3>1. job[s] \in Job
      BY <1>0, <2>2 DEF JobBackoffEnds, JobLeaseEnds, TypeOK
    <3>2. /\ [job[s] EXCEPT !.due = TRUE] \in Job
          /\ [job[s] EXCEPT !.expired = TRUE] \in Job
      BY <3>1 DEF Job
    <3>3. \/ job' = [job EXCEPT ![s] = [job[s] EXCEPT !.due = TRUE]]
          \/ job' = [job EXCEPT ![s] = [job[s] EXCEPT !.expired = TRUE]]
      BY <1>0, <2>2 DEF JobBackoffEnds, JobLeaseEnds, TypeOK
    <3>4. \A z \in Sources : job'[z] = Nothing <=> job[z] = Nothing
      BY <1>0, <3>1, <3>2, <3>3, ContentFacts DEF TypeOK
    <3> QED
      BY <2>2, <3>4 DEF JobBackoffEnds, JobLeaseEnds
  <2> QED
    BY <1>1, <2>1, <2>2
<1>2. CASE \E f \in Flushes :
             \/ FlushSkips(f) \/ ReceiverAnswers(f) \/ FlushDies(f)
             \/ \E d \in Deliveries : FlushReads(f, d)
  <2>1. /\ outbox' = outbox /\ service' = service /\ job' = job
        /\ \/ received' = received
           \/ \E e, payload : received' = Stored(e, payload)
    BY <1>2 DEF FlushSkips, ReceiverAnswers, FlushDies, FlushReads
  <2> QED
    BY <1>0, <2>1, StoredStays
<1>3. CASE \E m \in wire : ArrivesLate(m)
  BY <1>0, <1>3, StoredStays DEF ArrivesLate
<1>4. CASE \E t \in Translations :
             \/ TranslationClaims(t) \/ TranslationFails(t) \/ TranslationDies(t)
             \/ \E s \in Sources : TranslationReads(t, s)
  <2>1. PICK t \in Translations :
             \/ TranslationClaims(t) \/ TranslationFails(t) \/ TranslationDies(t)
             \/ \E s \in Sources : TranslationReads(t, s)
    BY <1>4
  <2>2. ASSUME TranslationDies(t) \/ \E s \in Sources : TranslationReads(t, s)
        PROVE  outbox' = outbox /\ service' = service /\ job' = job /\ received' = received
    BY <2>2 DEF TranslationDies, TranslationReads
  <2>3. ASSUME TranslationClaims(t)
        PROVE  /\ outbox' = outbox /\ service' = service /\ received' = received
               /\ \A z \in Sources : job'[z] = Nothing <=> job[z] = Nothing
    <3> DEFINE s == translation[t].source
    <3>1. CASE ~MayTranslate(s)
      BY <2>3, <3>1 DEF TranslationClaims
    <3>2. CASE MayTranslate(s)
      <4>1. s \in Sources /\ job[s] \in Job
        BY <1>0, <2>3, <3>2, TranslationFacts DEF TranslationClaims, MayTranslate, TypeOK, IdleCall
      <4>2. [job[s] EXCEPT !.owner = t, !.expired = FALSE] \in Job
        BY <4>1 DEF Job
      <4>3. job' = [job EXCEPT ![s] = [job[s] EXCEPT !.owner = t, !.expired = FALSE]]
        BY <1>0, <2>3, <3>2 DEF TranslationClaims, TypeOK
      <4>4. \A z \in Sources : job'[z] = Nothing <=> job[z] = Nothing
        BY <1>0, <4>1, <4>2, <4>3, ContentFacts DEF TypeOK
      <4> QED
        BY <2>3, <4>4 DEF TranslationClaims
    <3> QED
      BY <3>1, <3>2
  <2>4. ASSUME TranslationFails(t)
        PROVE  /\ outbox' = outbox /\ received' = received
               /\ \A z \in Sources : service'[z] = Nothing <=> service[z] = Nothing
               /\ \A z \in Sources : job'[z] = Nothing <=> job[z] = Nothing
    <3> DEFINE s == translation[t].source  attempts == translation[t].attempts + 1
               text == [translation[t].data EXCEPT !.translationStatus = StateAfter(attempts)]
    <3>1. outbox' = outbox /\ received' = received
      BY <2>4 DEF TranslationFails
    <3>2. CASE ~OwnsJob(t, s)
      BY <2>4, <3>2 DEF TranslationFails
    <3>3. CASE OwnsJob(t, s)
      <4>1. /\ s \in Sources /\ translation[t].data \in Content
            /\ attempts \in 0 .. MaxTranslations
        BY <1>0, <2>4, TranslationFacts, OutboxAssumption DEF TranslationFails, TypeOK, IdleCall
      <4>2. text \in Content /\ JobAfterFailure(attempts) \in Job
        BY <4>1, ContentFacts DEF StateAfter, JobAfterFailure, Failed, Job
      <4>3. service[s] # Nothing /\ job[s] # Nothing
        BY <3>3, <4>1, IInvFacts DEF OwnsJob, SourceInv
      <4>4. /\ service' = [service EXCEPT ![s] = text]
            /\ job' = [job EXCEPT ![s] = JobAfterFailure(attempts)]
        BY <2>4, <3>3 DEF TranslationFails
      <4>5. text # Nothing /\ JobAfterFailure(attempts) # Nothing
        BY <4>2, ContentFacts
      <4> HIDE DEF text
      <4> QED
        BY <1>0, <3>1, <4>3, <4>4, <4>5 DEF TypeOK
    <3> QED
      BY <3>2, <3>3
  <2> QED
    BY <2>1, <2>2, <2>3, <2>4
<1>5. CASE \E p \in Staff :
             \/ TranslateReads(p) \/ TranslateWrites(p)
             \/ \E s \in Sources : ApprovalReads(p, s) \/ TranslateSchedules(p, s)
  <2>1. PICK p \in Staff :
             \/ TranslateReads(p) \/ TranslateWrites(p)
             \/ \E s \in Sources : ApprovalReads(p, s) \/ TranslateSchedules(p, s)
    BY <1>5
  <2>2. ASSUME TranslateReads(p) \/ \E s \in Sources : ApprovalReads(p, s)
        PROVE  outbox' = outbox /\ service' = service /\ job' = job /\ received' = received
    BY <2>2 DEF TranslateReads, ApprovalReads
  <2>3. ASSUME TranslateWrites(p)
        PROVE  /\ outbox' = outbox /\ job' = job /\ received' = received
               /\ \A z \in Sources : service'[z] = Nothing <=> service[z] = Nothing
    <3> DEFINE s == staff[p].source
               text == [staff[p].data EXCEPT !.translationStatus = "pending"]
    <3>1. s \in Sources /\ text \in Content /\ service[s] # Nothing
      BY <1>0, <2>3, StaffFacts, ContentFacts, IInvFacts
         DEF TranslateWrites, TypeOK, StaffInv, IdleCall
    <3>2. service' = [service EXCEPT ![s] = text] /\ text # Nothing
      BY <2>3, <3>1, ContentFacts DEF TranslateWrites
    <3> HIDE DEF text
    <3>3. \A z \in Sources : service'[z] = Nothing <=> service[z] = Nothing
      BY <1>0, <3>1, <3>2 DEF TypeOK
    <3> QED
      BY <2>3, <3>3 DEF TranslateWrites
  <2>4. ASSUME NEW s \in Sources, TranslateSchedules(p, s)
        PROVE  /\ outbox' = outbox /\ service' = service /\ received' = received
               /\ \A z \in Sources : job'[z] = Nothing <=> job[z] = Nothing
    <3> DEFINE row == [job[s] EXCEPT !.status = "pending", !.attempts = 0, !.due = TRUE]
    <3>1. job[s] \in Job
      BY <1>0, <2>4 DEF TranslateSchedules, TypeOK
    <3>2. row \in Job
      BY <3>1, ScheduledJob
    <3>3. job' = [job EXCEPT ![s] = row] /\ row # Nothing /\ job[s] # Nothing
      BY <1>0, <2>4, <3>1, <3>2, ContentFacts DEF TranslateSchedules, TypeOK
    <3> HIDE DEF row
    <3>4. \A z \in Sources : job'[z] = Nothing <=> job[z] = Nothing
      BY <1>0, <3>3 DEF TypeOK
    <3> QED
      BY <2>4, <3>4 DEF TranslateSchedules
  <2> QED
    BY <2>1, <2>2, <2>3, <2>4
<1>6. CASE UNCHANGED vars
  BY <1>6 DEF vars
<1> QED
  BY <1>1, <1>2, <1>3, <1>4, <1>5, <1>6 DEF CallStep

\* What is committed was not there: no row of the source is known to anybody.
LEMMA CommitFacts ==
  ASSUME IInv, NEW s \in Sources, CommitOrder(s) \/ CommitService(s)
  PROVE  /\ service[s] = Nothing /\ job[s] = Nothing /\ s \notin closed
         /\ \A d \in Deliveries : d[1] = s =>
              outbox[d].status = "absent" /\ ~Approved(d) /\ received[d] = Nothing
         /\ \A d \in Deliveries : d[1] # s => outbox'[d] = outbox[d]
         /\ \A z \in Sources : z # s => service'[z] = service[z] /\ job'[z] = job[z]
         /\ UNCHANGED <<closed, flush, translation, staff, wire, received, stalls, crashes>>
<1>0. TypeOK
  BY IInvFacts
<1>1. outbox[Kitchen(s)].status = "absent"
  BY DEF CommitOrder, CommitService
<1>2. RowInv(Kitchen(s)) /\ SourceInv(s)
  BY DeliveryFacts, IInvFacts
<1>3. service[s] = Nothing /\ job[s] = Nothing /\ s \notin closed
  BY <1>1, <1>2, DeliveryFacts DEF RowInv, SourceInv
<1>4. ASSUME NEW d \in Deliveries, d[1] = s
      PROVE  outbox[d].status = "absent" /\ ~Approved(d) /\ received[d] = Nothing
  <2>1. outbox[d].status = "absent" /\ ~Approved(d)
    BY <1>1, <1>4, IInvFacts DEF RowInv
  <2> QED
    BY <2>1, IInvFacts DEF DeliveryInv, Released
<1>5. \A d \in Deliveries : d[1] # s => d # Kitchen(s) /\ d # Robot(s)
  BY DeliveryFacts
<1>6. ASSUME CommitOrder(s)
      PROVE  /\ \A d \in Deliveries : d[1] # s => outbox'[d] = outbox[d]
             /\ \A z \in Sources : z # s => service'[z] = service[z] /\ job'[z] = job[z]
  BY <1>0, <1>5, <1>6 DEF CommitOrder, TypeOK
<1>7. ASSUME CommitService(s)
      PROVE  /\ \A d \in Deliveries : d[1] # s => outbox'[d] = outbox[d]
             /\ \A z \in Sources : z # s => service'[z] = service[z] /\ job'[z] = job[z]
  BY <1>0, <1>5, <1>7 DEF CommitService, TypeOK
<1> QED
  BY <1>3, <1>4, <1>6, <1>7 DEF CommitOrder, CommitService, callVars

\* A time that comes changes neither what a row says nor who holds it.
LEMMA TimeFacts ==
  ASSUME TypeOK, NEW d \in Deliveries, BackoffEnds(d) \/ LeaseEnds(d)
  PROVE  \A e \in Deliveries :
           /\ outbox'[e].status = outbox[e].status /\ outbox'[e].payload = outbox[e].payload
           /\ outbox'[e].owner = outbox[e].owner /\ outbox'[e].attempts = outbox[e].attempts
           /\ outbox[e].expired => outbox'[e].expired
           /\ outbox[e].status = "delivered" => outbox'[e] = outbox[e] \/ outbox[e].owner # Nobody
<1>1. outbox \in [Deliveries -> Row] /\ outbox[d] \in Row
  BY DEF TypeOK
<1>2. CASE BackoffEnds(d)
  BY <1>1, <1>2 DEF BackoffEnds, Row
<1>3. CASE LeaseEnds(d)
  BY <1>1, <1>3 DEF LeaseEnds, Row
<1> QED
  BY <1>2, <1>3

\* The claim of a row: nothing but its lease changes.
LEMMA ClaimFacts ==
  ASSUME TypeOK, NEW f \in Flushes, FlushClaims(f)
  PROVE  LET d == flush[f].delivery IN
         /\ d \in Deliveries /\ flush[f] # IdleCall
         /\ outbox[d].status \in {"queued", "retrying"}
         /\ outbox'[d].status = outbox[d].status /\ outbox'[d].attempts = outbox[d].attempts
         /\ outbox'[d].payload = outbox[d].payload
         /\ outbox'[d].owner = f /\ ~outbox'[d].expired
         /\ \A e \in Deliveries : e # d => outbox'[e] = outbox[e]
<1> DEFINE d == flush[f].delivery
           new == [outbox[d] EXCEPT !.owner = f, !.expired = FALSE]
<1>1. d \in Deliveries /\ flush[f] # IdleCall /\ outbox \in [Deliveries -> Row]
  BY FlushFacts DEF FlushClaims, TypeOK, IdleCall
<1>2. outbox[d].status \in {"queued", "retrying"}
  BY DEF FlushClaims, MayClaim, Deliverable
<1>3. outbox' = [outbox EXCEPT ![d] = new]
  BY <1>1 DEF FlushClaims
<1>4. /\ new.status = outbox[d].status /\ new.attempts = outbox[d].attempts
      /\ new.payload = outbox[d].payload /\ new.owner = f /\ ~new.expired
  BY <1>1, UpdatedFields
<1> HIDE DEF new
<1> QED
  BY <1>1, <1>2, <1>3, <1>4

\* The final UPDATE of a call, by whether it still has the lease.
LEMMA ConcludeFacts ==
  ASSUME TypeOK, NEW f \in Flushes, NEW status, NEW isDue,
         flush[f].pc \in {"sent", "answered"}, Conclude(f, status, isDue)
  PROVE  LET d == flush[f].delivery IN
         /\ d \in Deliveries /\ flush[f] # IdleCall
         /\ flush[f].attempts + 1 \in 0 .. MaxAttempts
         /\ outbox[d].owner # f => outbox' = outbox
         /\ outbox[d].owner = f =>
              /\ outbox'[d].status = status /\ outbox'[d].attempts = flush[f].attempts + 1
              /\ outbox'[d].payload = outbox[d].payload
              /\ outbox'[d].owner = Nobody
         /\ \A e \in Deliveries : e # d => outbox'[e] = outbox[e]
<1> DEFINE d == flush[f].delivery
           new == [outbox[d] EXCEPT !.status = status, !.attempts = flush[f].attempts + 1,
                                    !.due = isDue, !.owner = Nobody, !.expired = FALSE]
<1>1. /\ d \in Deliveries /\ flush[f] # IdleCall /\ outbox \in [Deliveries -> Row]
      /\ flush[f].attempts + 1 \in 0 .. MaxAttempts
  BY FlushFacts, OutboxAssumption DEF TypeOK, IdleCall
<1>2. outbox[d].owner = f => outbox' = [outbox EXCEPT ![d] = new]
  BY <1>1 DEF Conclude
<1>3. /\ new.status = status /\ new.attempts = flush[f].attempts + 1
      /\ new.payload = outbox[d].payload /\ new.owner = Nobody
  BY <1>1, UpdatedFields
<1>4. outbox[d].owner # f => outbox' = outbox
  BY DEF Conclude
<1> HIDE DEF new
<1> QED
  BY <1>1, <1>2, <1>3, <1>4

\* The two ends of a call, as one.
LEMMA EndFacts ==
  ASSUME IInv, NEW f \in Flushes, FlushDelivered(f) \/ FlushFails(f)
  PROVE  /\ flush[f].pc \in {"sent", "answered"}
         /\ \E status, isDue :
              /\ Conclude(f, status, isDue)
              /\ status \in {"delivered", "failed", "retrying"}
              /\ status = "delivered" => received[flush[f].delivery] # Nothing
              /\ flush[f].attempts + 1 = MaxAttempts => status \in {"delivered", "failed"}
         /\ flush' = [flush EXCEPT ![f] = IdleCall]
         /\ MayLinger(f) \/ UNCHANGED wire
         /\ UNCHANGED <<service, job, closed, translation, staff, received, stalls, crashes>>
<1>1. CASE FlushDelivered(f)
  <2>1. received[flush[f].delivery] # Nothing
    BY <1>1, IInvFacts DEF FlushDelivered, HasReceipt, FlushInv, IdleCall
  <2> QED
    BY <1>1, <2>1 DEF FlushDelivered, HasReceipt
<1>2. CASE FlushFails(f)
  <2>1. FailedStatus(flush[f].attempts + 1) \in {"failed", "retrying"}
    BY DEF FailedStatus
  <2>2. flush[f].attempts + 1 = MaxAttempts => FailedStatus(flush[f].attempts + 1) = "failed"
    BY OutboxAssumption DEF FailedStatus
  <2> QED
    BY <1>2, <2>1, <2>2 DEF FlushFails
<1> QED
  BY <1>1, <1>2

\* A translation that arrives while its job is still its own.
LEMMA SuccessFacts ==
  ASSUME IInv, NEW t \in Translations, TranslationSucceeds(t)
  PROVE  LET s == translation[t].source  d == Kitchen(s) IN
         /\ s \in Sources /\ d \in Deliveries
         /\ ~OwnsJob(t, s) => UNCHANGED <<service, outbox, job>>
         /\ OwnsJob(t, s) =>
              /\ service' = [service EXCEPT ![s] = Final] /\ job' = [job EXCEPT ![s] = Nothing]
              /\ outbox[d].status = "translation_pending" /\ service[s] # Nothing
              /\ outbox'[d].status = "queued" /\ outbox'[d].attempts = outbox[d].attempts
              /\ outbox'[d].payload = [outbox[d].payload EXCEPT !.data = Final]
              /\ outbox'[d].owner = outbox[d].owner
         /\ \A e \in Deliveries : e # d => outbox'[e] = outbox[e]
         /\ translation' = [translation EXCEPT ![t] = IdleCall]
         /\ UNCHANGED <<closed, flush, staff, wire, received, stalls, crashes>>
<1> DEFINE s == translation[t].source  d == Kitchen(s)
           new == [outbox[d] EXCEPT !.status = "queued", !.due = TRUE, !.payload.data = Final]
<1>1. s \in Sources /\ d \in Deliveries /\ outbox \in [Deliveries -> Row]
  BY TranslationFacts, DeliveryFacts, IInvFacts DEF TranslationSucceeds, TypeOK, IdleCall
<1>2. OwnsJob(t, s) => outbox[d].status = "translation_pending" /\ service[s] # Nothing
  BY <1>1, DeliveryFacts, IInvFacts DEF OwnsJob, RowInv, SourceInv
<1>3. OwnsJob(t, s) => outbox' = [outbox EXCEPT ![d] = new]
  BY <1>1, <1>2 DEF TranslationSucceeds
<1>4. /\ new.status = "queued" /\ new.attempts = outbox[d].attempts
      /\ new.payload = [outbox[d].payload EXCEPT !.data = Final]
      /\ new.owner = outbox[d].owner
  BY <1>1, UpdatedFields
<1>5. ~OwnsJob(t, s) => outbox' = outbox
  BY DEF TranslationSucceeds
<1> HIDE DEF new
<1>6. OwnsJob(t, s) => /\ outbox'[d].status = "queued" /\ outbox'[d].attempts = outbox[d].attempts
                       /\ outbox'[d].payload = [outbox[d].payload EXCEPT !.data = Final]
                       /\ outbox'[d].owner = outbox[d].owner
  BY <1>1, <1>3, <1>4
<1>7. \A e \in Deliveries : e # d => outbox'[e] = outbox[e]
  BY <1>1, <1>3, <1>5
<1> QED
  BY <1>1, <1>2, <1>6, <1>7 DEF TranslationSucceeds

\* An approval that goes through is the first, of a request nobody has sent yet.
LEMMA ApprovalFacts ==
  ASSUME IInv, NEW p \in Staff, ApprovalWrites(p)
  PROVE  LET s == staff[p].source  d == Robot(s) IN
         /\ s \in Sources /\ d \in Deliveries
         /\ ~MayApprove(d) => outbox' = outbox
         /\ MayApprove(d) =>
              /\ outbox[d].status = "awaiting_staff" /\ service[s] # Nothing
              /\ outbox'[d].status = "queued" /\ outbox'[d].attempts = outbox[d].attempts
              /\ outbox'[d].payload = [data |-> Final, staffApprovedAt |-> 1]
              /\ outbox'[d].owner = outbox[d].owner
         /\ \A e \in Deliveries : e # d => outbox'[e] = outbox[e]
         /\ staff' = [staff EXCEPT ![p] = IdleCall]
         /\ UNCHANGED <<service, job, closed, flush, translation, wire, received, stalls, crashes>>
<1> DEFINE s == staff[p].source  d == Robot(s)
           payload == [data |-> Final, staffApprovedAt |-> 1]
           new == [outbox[d] EXCEPT !.status = "queued", !.due = TRUE, !.payload = payload]
<1>1. /\ s \in Sources /\ d \in Deliveries /\ outbox \in [Deliveries -> Row]
      /\ outbox[d] \in Row
  BY StaffFacts, DeliveryFacts, IInvFacts DEF ApprovalWrites, TypeOK, IdleCall
<1>2. service[s] # Nothing /\ staff[p].data = Final
  BY IInvFacts DEF ApprovalWrites, StaffInv, IdleCall
<1>3. ASSUME MayApprove(d)
      PROVE  outbox[d].status = "awaiting_staff" /\ outbox' = [outbox EXCEPT ![d] = new]
  <2>1. RobotRequest(d) /\ ~Approved(d)
    BY <1>2, <1>3, DeliveryFacts DEF MayApprove, RobotRequest
  <2>2. outbox[d].status = "awaiting_staff"
    BY <1>1, <2>1, IInvFacts DEF RowInv
  <2>3. outbox[d].payload.staffApprovedAt = 0
    BY <2>1 DEF Approved
  <2>4. outbox' = [outbox EXCEPT ![d] =
          [outbox[d] EXCEPT !.status = "queued", !.due = TRUE,
             !.payload = [data |-> staff[p].data,
                          staffApprovedAt |-> outbox[d].payload.staffApprovedAt + 1]]]
    BY <1>1, <1>3 DEF ApprovalWrites
  <2> QED
    BY <1>2, <2>2, <2>3, <2>4
<1>4. /\ new.status = "queued" /\ new.attempts = outbox[d].attempts
      /\ new.payload = payload /\ new.owner = outbox[d].owner
  <2> HIDE DEF payload
  <2> QED
    BY <1>1, UpdatedFields
<1>5. ~MayApprove(d) => outbox' = outbox
  BY DEF ApprovalWrites
<1> HIDE DEF new
<1>6. MayApprove(d) => /\ outbox'[d].status = "queued" /\ outbox'[d].attempts = outbox[d].attempts
                       /\ outbox'[d].payload = payload /\ outbox'[d].owner = outbox[d].owner
  BY <1>1, <1>3, <1>4
<1>7. \A e \in Deliveries : e # d => outbox'[e] = outbox[e]
  BY <1>1, <1>3, <1>5
<1> QED
  BY <1>1, <1>2, <1>3, <1>5, <1>6, <1>7 DEF ApprovalWrites

\* The staff's retry.
LEMMA RetryFacts ==
  ASSUME TypeOK, NEW d \in Deliveries, RetryDelivery(d)
  PROVE  /\ outbox[d].status = "failed"
         /\ outbox'[d].status = "queued" /\ outbox'[d].attempts = 0
         /\ outbox'[d].payload = outbox[d].payload /\ outbox'[d].owner = outbox[d].owner
         /\ outbox'[d].expired = outbox[d].expired
         /\ \A e \in Deliveries : e # d => outbox'[e] = outbox[e]
<1> DEFINE new == [outbox[d] EXCEPT !.status = "queued", !.attempts = 0, !.due = TRUE]
<1>1. outbox \in [Deliveries -> Row] /\ outbox[d] \in Row
  BY DEF TypeOK
<1>2. outbox[d].status = "failed" /\ outbox' = [outbox EXCEPT ![d] = new]
  BY <1>1 DEF RetryDelivery
<1>3. /\ new.status = "queued" /\ new.attempts = 0 /\ new.payload = outbox[d].payload
      /\ new.owner = outbox[d].owner /\ new.expired = outbox[d].expired
  BY <1>1, UpdatedFields
<1> HIDE DEF new
<1> QED
  BY <1>1, <1>2, <1>3

-----------------------------------------------------------------------------
(* An event that may have left keeps its content, and one that has been    *)
(* delivered keeps its row.                                                *)

LEMMA ReleasedStay ==
  ASSUME IInv, [Next]_vars, NEW d \in Deliveries
  PROVE  /\ Released(d) => Released(d)' /\ outbox'[d].payload = outbox[d].payload
         /\ outbox[d].status = "delivered" => outbox'[d] = outbox[d]
<1>0. /\ TypeOK /\ RowInv(d) /\ outbox \in [Deliveries -> Row]
      /\ outbox[d].status = "delivered" => Released(d)
  BY IInvFacts DEF TypeOK, Released
<1>1. CASE CallStep
  BY <1>1, CallStepFacts DEF Released
<1>2. ASSUME NEW s \in Sources, CommitOrder(s) \/ CommitService(s)
      PROVE  /\ Released(d) => Released(d)' /\ outbox'[d].payload = outbox[d].payload
             /\ outbox[d].status = "delivered" => outbox'[d] = outbox[d]
  BY <1>0, <1>2, CommitFacts DEF Released
<1>3. ASSUME NEW e \in Deliveries, BackoffEnds(e) \/ LeaseEnds(e)
      PROVE  /\ Released(d) => Released(d)' /\ outbox'[d].payload = outbox[d].payload
             /\ outbox[d].status = "delivered" => outbox'[d] = outbox[d]
  <2>1. outbox[d].status = "delivered" => outbox[d].owner = Nobody
    BY <1>0 DEF RowInv
  <2> QED
    BY <1>0, <1>3, <2>1, TimeFacts DEF Released
<1>4. ASSUME NEW e \in Deliveries, RetryDelivery(e)
      PROVE  /\ Released(d) => Released(d)' /\ outbox'[d].payload = outbox[d].payload
             /\ outbox[d].status = "delivered" => outbox'[d] = outbox[d]
  BY <1>0, <1>4, RetryFacts DEF Released
<1>5. ASSUME NEW f \in Flushes, FlushClaims(f)
      PROVE  /\ Released(d) => Released(d)' /\ outbox'[d].payload = outbox[d].payload
             /\ outbox[d].status = "delivered" => outbox'[d] = outbox[d]
  BY <1>0, <1>5, ClaimFacts DEF Released
<1>6. ASSUME NEW f \in Flushes, FlushDelivered(f) \/ FlushFails(f)
      PROVE  /\ Released(d) => Released(d)' /\ outbox'[d].payload = outbox[d].payload
             /\ outbox[d].status = "delivered" => outbox'[d] = outbox[d]
  <2>1. PICK status, isDue : /\ flush[f].pc \in {"sent", "answered"}
                             /\ Conclude(f, status, isDue)
                             /\ status \in {"delivered", "failed", "retrying"}
    BY <1>6, EndFacts
  <2>2. CASE outbox'[d] = outbox[d]
    BY <2>2 DEF Released
  <2>3. CASE outbox'[d] # outbox[d]
    <3>1. /\ d = flush[f].delivery /\ outbox[d].owner = f
          /\ outbox'[d].status = status /\ outbox'[d].payload = outbox[d].payload
      BY <1>0, <2>1, <2>3, ConcludeFacts
    <3>2. outbox[d].status # "delivered"
      BY <1>0, <3>1, OutboxAssumption DEF RowInv
    <3> QED
      BY <2>1, <3>1, <3>2 DEF Released
  <2> QED
    BY <2>2, <2>3
<1>7. ASSUME NEW t \in Translations, TranslationSucceeds(t)
      PROVE  /\ Released(d) => Released(d)' /\ outbox'[d].payload = outbox[d].payload
             /\ outbox[d].status = "delivered" => outbox'[d] = outbox[d]
  BY <1>0, <1>7, SuccessFacts DEF Released
<1>8. ASSUME NEW p \in Staff, ApprovalWrites(p)
      PROVE  /\ Released(d) => Released(d)' /\ outbox'[d].payload = outbox[d].payload
             /\ outbox[d].status = "delivered" => outbox'[d] = outbox[d]
  BY <1>0, <1>8, ApprovalFacts DEF Released
<1> QED
  BY <1>1, <1>2, <1>3, <1>4, <1>5, <1>6, <1>7, <1>8, TwoKindsOfStep DEF RowStep

\* No step takes back what a receiver has stored.
LEMMA ReceivedStays ==
  ASSUME IInv, [Next]_vars
  PROVE  \A d \in Deliveries : received[d] # Nothing => received'[d] = received[d]
<1>1. CASE CallStep
  BY <1>1, CallStepFacts
<1>2. CASE RowStep
  <2>1. received' = received
    BY <1>2, CommitFacts, EndFacts, SuccessFacts, ApprovalFacts
       DEF RowStep, BackoffEnds, LeaseEnds, RetryDelivery, FlushClaims
  <2> QED
    BY <2>1
<1> QED
  BY <1>1, <1>2, TwoKindsOfStep

-----------------------------------------------------------------------------
(* Every step keeps the invariant of every row. *)

\* A row that says the same, of a source that stands as it stood.
LEMMA RowStands ==
  ASSUME NEW d \in Deliveries, RowInv(d),
         outbox'[d].status = outbox[d].status, outbox'[d].payload = outbox[d].payload,
         outbox'[d].owner = outbox[d].owner, outbox'[d].attempts = outbox[d].attempts,
         outbox'[Kitchen(d[1])].status = "absent" <=> outbox[Kitchen(d[1])].status = "absent",
         service'[d[1]] = Nothing <=> service[d[1]] = Nothing,
         d = Kitchen(d[1]) => (job'[d[1]] = Nothing <=> job[d[1]] = Nothing),
         received[d] # Nothing => received'[d] # Nothing
  PROVE  RowInv(d)'
BY DEF RowInv, Released, RobotRequest, Approved

\* A row that is released, before and after.
LEMMA RowMoves ==
  ASSUME NEW d \in Deliveries, RowInv(d), Released(d), Released(d)',
         outbox'[Kitchen(d[1])].status # "absent",
         outbox'[d].payload = outbox[d].payload,
         service' = service, job' = job,
         outbox'[d].attempts = MaxAttempts => outbox'[d].status \in {"delivered", "failed"},
         outbox'[d].owner # Nobody => outbox'[d].status \in {"queued", "retrying"},
         outbox'[d].status = "delivered" => received'[d] # Nothing
  PROVE  RowInv(d)'
BY DEF RowInv, Released, RobotRequest, Approved

\* The rows of a source, when only one of them changes and was there.
LEMMA OtherRows ==
  ASSUME IInv, NEW e \in Deliveries, outbox[e].status # "absent", outbox'[e].status # "absent",
         \A d \in Deliveries : d # e => outbox'[d] = outbox[d],
         service' = service, \A z \in Sources : e # Kitchen(z) => job'[z] = job[z],
         received' = received
  PROVE  /\ \A d \in Deliveries : d # e => RowInv(d)'
         /\ outbox'[Kitchen(e[1])].status # "absent"
<1>1. RowInv(e) /\ outbox[Kitchen(e[1])].status # "absent"
  BY IInvFacts DEF RowInv
<1>2. outbox'[Kitchen(e[1])].status # "absent"
  BY <1>1, DeliveryFacts
<1>3. ASSUME NEW d \in Deliveries, d # e
      PROVE  RowInv(d)'
  <2>1. outbox'[Kitchen(d[1])].status = "absent" <=> outbox[Kitchen(d[1])].status = "absent"
    BY DeliveryFacts
  <2>2. d = Kitchen(d[1]) => (job'[d[1]] = Nothing <=> job[d[1]] = Nothing)
    BY <1>3, DeliveryFacts
  <2> QED
    BY <1>3, <2>1, <2>2, RowStands, IInvFacts
<1> QED
  BY <1>2, <1>3

LEMMA CommitKeepsRows ==
  ASSUME IInv, NEW s \in Sources, CommitOrder(s) \/ CommitService(s)
  PROVE  \A d \in Deliveries : RowInv(d)'
<1>0. TypeOK /\ received' = received
  BY CommitFacts, IInvFacts
<1>1. SUFFICES ASSUME NEW d \in Deliveries PROVE RowInv(d)'
  OBVIOUS
<1>2. CASE d[1] # s
  <2>1. outbox'[d] = outbox[d] /\ outbox'[Kitchen(d[1])] = outbox[Kitchen(d[1])]
    BY <1>2, CommitFacts, DeliveryFacts
  <2>2. service'[d[1]] = service[d[1]] /\ job'[d[1]] = job[d[1]]
    BY <1>2, CommitFacts, DeliveryFacts
  <2> QED
    BY <1>0, <2>1, <2>2, RowStands, IInvFacts
<1>3. ASSUME d[1] = s, CommitOrder(s)
      PROVE  RowInv(d)'
  <2> DEFINE row == NewRow("queued", Final)
  <2>1. row.status = "queued" /\ row.attempts = 0 /\ row.owner = Nobody /\ row.payload.data = Final
    BY DEF NewRow
  <2>2. outbox'[d] = row /\ outbox'[Kitchen(s)] = row
    BY <1>0, <1>3, DeliveryFacts DEF CommitOrder, TypeOK
  <2>3. service'[s] = Nothing /\ job'[s] = Nothing
    BY <1>3, CommitFacts DEF CommitOrder
  <2> HIDE DEF row
  <2> QED
    BY <1>3, <2>1, <2>2, <2>3, OutboxAssumption DEF RowInv, Released, RobotRequest, Approved
<1>4. ASSUME d[1] = s, CommitService(s)
      PROVE  RowInv(d)'
  <2>1. PICK content \in {Final, Untranslated("pending")} :
          /\ service' = [service EXCEPT ![s] = content]
          /\ outbox' = [outbox EXCEPT
               ![Kitchen(s)] = NewRow(KitchenStatus(content # Final), content),
               ![Robot(s)] = NewRow("awaiting_staff", content)]
          /\ job' = IF ~(content # Final) THEN job
                    ELSE [job EXCEPT ![s] = [status |-> "pending", attempts |-> 1,
                            due |-> FALSE, owner |-> Nobody, expired |-> FALSE]]
    BY <1>4 DEF CommitService
  <2> DEFINE kitchen == NewRow(KitchenStatus(content # Final), content)
             robot   == NewRow("awaiting_staff", content)
  <2>2. /\ kitchen.status = KitchenStatus(content # Final) /\ robot.status = "awaiting_staff"
        /\ kitchen.attempts = 0 /\ kitchen.owner = Nobody /\ kitchen.payload.data = content
        /\ robot.attempts = 0 /\ robot.owner = Nobody
        /\ kitchen.payload.staffApprovedAt = 0 /\ robot.payload.staffApprovedAt = 0
    BY DEF NewRow
  <2>3. outbox'[Kitchen(s)] = kitchen /\ outbox'[Robot(s)] = robot
    BY <1>0, <2>1, DeliveryFacts DEF TypeOK
  <2>4. service'[s] = content /\ content # Nothing
    BY <1>0, <2>1, ContentFacts DEF TypeOK
  <2>5. job'[s] # Nothing <=> content # Final
    <3>1. [status |-> "pending", attempts |-> 1, due |-> FALSE, owner |-> Nobody,
           expired |-> FALSE] \in Job
      BY OutboxAssumption DEF Job
    <3>2. job[s] = Nothing
      BY <1>4, CommitFacts
    <3> QED
      BY <1>0, <2>1, <3>1, <3>2, ContentFacts DEF TypeOK
  <2>6. KitchenStatus(content # Final) = IF content # Final THEN "translation_pending" ELSE "queued"
    BY DEF KitchenStatus
  <2> HIDE DEF kitchen, robot
  <2>7. CASE d = Kitchen(s)
    BY <1>4, <2>2, <2>3, <2>4, <2>5, <2>6, <2>7, DeliveryFacts, OutboxAssumption
       DEF RowInv, Released, RobotRequest, Approved
  <2>8. CASE d = Robot(s)
    BY <1>4, <2>2, <2>3, <2>4, <2>6, <2>8, DeliveryFacts, OutboxAssumption
       DEF RowInv, Released, RobotRequest, Approved
  <2> QED
    BY <1>4, <2>7, <2>8, DeliveryFacts
<1> QED
  BY <1>2, <1>3, <1>4

LEMMA RowsStep == IInv /\ [Next]_vars => \A d \in Deliveries : RowInv(d)'
<1> SUFFICES ASSUME IInv, [Next]_vars
             PROVE  \A d \in Deliveries : RowInv(d)'
  OBVIOUS
<1>0. TypeOK /\ \A d \in Deliveries : RowInv(d)
  BY IInvFacts
<1>1. CASE CallStep
  <2>1. ASSUME NEW d \in Deliveries PROVE RowInv(d)'
    BY <1>0, <1>1, CallStepFacts, DeliveryFacts, RowStands
  <2> QED
    BY <2>1
<1>2. ASSUME NEW s \in Sources, CommitOrder(s) \/ CommitService(s)
      PROVE  \A d \in Deliveries : RowInv(d)'
  BY <1>2, CommitKeepsRows
<1>3. ASSUME NEW e \in Deliveries, BackoffEnds(e) \/ LeaseEnds(e)
      PROVE  \A d \in Deliveries : RowInv(d)'
  <2>1. service' = service /\ job' = job /\ received' = received
    BY <1>3 DEF BackoffEnds, LeaseEnds
  <2>2. ASSUME NEW d \in Deliveries PROVE RowInv(d)'
    BY <1>0, <1>3, <2>1, TimeFacts, DeliveryFacts, RowStands
  <2> QED
    BY <2>2
<1>4. ASSUME NEW e \in Deliveries, RetryDelivery(e)
      PROVE  \A d \in Deliveries : RowInv(d)'
  <2>1. service' = service /\ job' = job /\ received' = received
    BY <1>4 DEF RetryDelivery
  <2>2. outbox[e].status # "absent" /\ outbox'[e].status # "absent"
    BY <1>0, <1>4, RetryFacts
  <2>3. /\ \A d \in Deliveries : d # e => RowInv(d)'
        /\ outbox'[Kitchen(e[1])].status # "absent"
    BY <1>0, <1>4, <2>1, <2>2, RetryFacts, OtherRows
  <2>4. RowInv(e)'
    BY <1>0, <1>4, <2>1, <2>3, RetryFacts, RowMoves, OutboxAssumption DEF Released
  <2> QED
    BY <2>3, <2>4
<1>5. ASSUME NEW f \in Flushes, FlushClaims(f)
      PROVE  \A d \in Deliveries : RowInv(d)'
  <2>0. PICK e \in Deliveries : e = flush[f].delivery
    BY <1>0, <1>5, ClaimFacts
  <2>1. service' = service /\ job' = job /\ received' = received
    BY <1>5 DEF FlushClaims
  <2>2. outbox[e].status # "absent" /\ outbox'[e].status # "absent"
    BY <1>0, <1>5, <2>0, ClaimFacts
  <2>3. /\ \A d \in Deliveries : d # e => RowInv(d)'
        /\ outbox'[Kitchen(e[1])].status # "absent"
    BY <1>0, <1>5, <2>0, <2>1, <2>2, ClaimFacts, OtherRows
  <2>4. outbox[e].attempts # MaxAttempts
    BY <1>0, <1>5, <2>0, <2>2, ClaimFacts DEF RowInv
  <2>5. RowInv(e)'
    BY <1>0, <1>5, <2>0, <2>1, <2>2, <2>3, <2>4, ClaimFacts, RowMoves DEF Released
  <2> QED
    BY <2>3, <2>5
<1>6. ASSUME NEW f \in Flushes, FlushDelivered(f) \/ FlushFails(f)
      PROVE  \A d \in Deliveries : RowInv(d)'
  <2>0. flush[f].pc \in {"sent", "answered"} /\ flush[f].delivery \in Deliveries
    BY <1>0, <1>6, EndFacts, ConcludeFacts
  <2> PICK e \in Deliveries : e = flush[f].delivery
    BY <2>0
  <2>1. /\ service' = service /\ job' = job /\ received' = received
        /\ flush[f].pc \in {"sent", "answered"}
    BY <1>6, EndFacts
  <2>2. PICK status, isDue :
          /\ Conclude(f, status, isDue)
          /\ status \in {"delivered", "failed", "retrying"}
          /\ status = "delivered" => received[flush[f].delivery] # Nothing
          /\ flush[f].attempts + 1 = MaxAttempts => status \in {"delivered", "failed"}
    BY <1>6, EndFacts
  <2>3. CASE outbox[e].owner # f
    <3>1. outbox' = outbox
      BY <1>0, <2>1, <2>2, <2>3, ConcludeFacts
    <3>2. ASSUME NEW d \in Deliveries PROVE RowInv(d)'
      BY <1>0, <2>1, <3>1, RowStands
    <3> QED
      BY <3>2
  <2>4. CASE outbox[e].owner = f
    <3>1. /\ outbox'[e].status = status /\ outbox'[e].attempts = flush[f].attempts + 1
          /\ outbox'[e].payload = outbox[e].payload /\ outbox'[e].owner = Nobody
          /\ \A d \in Deliveries : d # e => outbox'[d] = outbox[d]
      BY <1>0, <2>1, <2>2, <2>4, ConcludeFacts
    <3>2. outbox[e].status \in {"queued", "retrying"}
      BY <1>0, <2>4, <3>1, OutboxAssumption DEF RowInv
    <3>3. /\ \A d \in Deliveries : d # e => RowInv(d)'
          /\ outbox'[Kitchen(e[1])].status # "absent"
      BY <2>1, <2>2, <3>1, <3>2, OtherRows
    <3>4. RowInv(e)'
      BY <1>0, <2>1, <2>2, <3>1, <3>2, <3>3, RowMoves DEF Released
    <3> QED
      BY <3>3, <3>4
  <2> QED
    BY <2>3, <2>4
<1>7. ASSUME NEW t \in Translations, TranslationSucceeds(t)
      PROVE  \A d \in Deliveries : RowInv(d)'
  <2> PICK s \in Sources, e \in Deliveries : s = translation[t].source /\ e = Kitchen(s)
    BY <1>7, SuccessFacts
  <2>1. CASE ~OwnsJob(t, s)
    <3>1. ASSUME NEW d \in Deliveries PROVE RowInv(d)'
      BY <1>0, <1>7, <2>1, SuccessFacts, RowStands
    <3> QED
      BY <3>1
  <2>2. CASE OwnsJob(t, s)
    <3>1. /\ service' = [service EXCEPT ![s] = Final] /\ job' = [job EXCEPT ![s] = Nothing]
          /\ outbox[e].status = "translation_pending" /\ service[s] # Nothing
          /\ outbox'[e].status = "queued" /\ outbox'[e].attempts = outbox[e].attempts
          /\ outbox'[e].payload = [outbox[e].payload EXCEPT !.data = Final]
          /\ outbox'[e].owner = outbox[e].owner
          /\ \A d \in Deliveries : d # e => outbox'[d] = outbox[d]
          /\ received' = received
      BY <1>7, <2>2, SuccessFacts
    <3>2. outbox'[e].payload.data = Final /\ ~RobotRequest(e)'
      BY <1>0, <3>1, DeliveryFacts DEF TypeOK, Row, Payload, RobotRequest
    <3>3. RowInv(e)'
      <4>1. e[1] = s /\ job'[s] = Nothing /\ Kitchen(e[1]) = e
        BY <1>0, <3>1, DeliveryFacts DEF TypeOK
      <4>2. outbox[e].attempts # MaxAttempts
        BY <1>0, <3>1 DEF RowInv
      <4> QED
        BY <3>1, <3>2, <4>1, <4>2 DEF RowInv, Released
    <3>4. ASSUME NEW d \in Deliveries, d # e
          PROVE  RowInv(d)'
      <4>1. outbox'[Kitchen(d[1])].status = "absent" <=> outbox[Kitchen(d[1])].status = "absent"
        BY <3>1, DeliveryFacts
      <4>2. service'[d[1]] = Nothing <=> service[d[1]] = Nothing
        BY <1>0, <3>1, ContentFacts, DeliveryFacts DEF TypeOK
      <4>3. d = Kitchen(d[1]) => job'[d[1]] = job[d[1]]
        BY <1>0, <3>1, <3>4 DEF TypeOK
      <4> QED
        BY <1>0, <3>1, <3>4, <4>1, <4>2, <4>3, RowStands
    <3> QED
      BY <3>3, <3>4
  <2> QED
    BY <2>1, <2>2
<1>8. ASSUME NEW p \in Staff, ApprovalWrites(p)
      PROVE  \A d \in Deliveries : RowInv(d)'
  <2> PICK s \in Sources, e \in Deliveries : s = staff[p].source /\ e = Robot(s)
    BY <1>8, ApprovalFacts
  <2>0. service' = service /\ job' = job /\ received' = received
    BY <1>8, ApprovalFacts
  <2>1. CASE ~MayApprove(e)
    <3>1. ASSUME NEW d \in Deliveries PROVE RowInv(d)'
      BY <1>0, <1>8, <2>0, <2>1, ApprovalFacts, RowStands
    <3> QED
      BY <3>1
  <2>2. CASE MayApprove(e)
    <3>1. /\ outbox[e].status = "awaiting_staff" /\ service[s] # Nothing
          /\ outbox'[e].status = "queued" /\ outbox'[e].attempts = outbox[e].attempts
          /\ outbox'[e].payload = [data |-> Final, staffApprovedAt |-> 1]
          /\ outbox'[e].owner = outbox[e].owner
          /\ \A d \in Deliveries : d # e => outbox'[d] = outbox[d]
      BY <1>8, <2>2, ApprovalFacts
    <3>2. outbox'[e].payload.data = Final /\ Approved(e)'
      BY <3>1 DEF Approved
    <3>3. /\ \A d \in Deliveries : d # e => RowInv(d)'
          /\ outbox'[Kitchen(e[1])].status # "absent"
      BY <2>0, <3>1, OtherRows
    <3>4. RowInv(e)'
      <4>1. outbox[e].attempts # MaxAttempts /\ e # Kitchen(s) /\ e[1] = s
        BY <1>0, <3>1, DeliveryFacts DEF RowInv
      <4> QED
        BY <1>0, <2>0, <3>1, <3>2, <3>3, <4>1 DEF RowInv, Released
    <3> QED
      BY <3>3, <3>4
  <2> QED
    BY <2>1, <2>2
<1> QED
  BY <1>1, <1>2, <1>3, <1>4, <1>5, <1>6, <1>7, <1>8, TwoKindsOfStep DEF RowStep

-----------------------------------------------------------------------------
(* Every step keeps the invariant of every source. *)

LEMMA SourcesStep == IInv /\ [Next]_vars => \A s \in Sources : SourceInv(s)'
<1> SUFFICES ASSUME IInv, [Next]_vars, NEW s \in Sources
             PROVE  SourceInv(s)'
  OBVIOUS
<1> USE DEF kioskVars, callVars
<1>0. TypeOK /\ SourceInv(s)
  BY IInvFacts
<1>1. ASSUME NEW z \in Sources, CommitOrder(z) \/ CommitService(z)
      PROVE  SourceInv(s)'
  <2>1. CASE s # z
    BY <1>0, <1>1, <2>1, CommitFacts DEF SourceInv
  <2>2. CASE s = z
    <3>1. job[s] = Nothing /\ s \notin closed'
      BY <1>1, <2>2, CommitFacts
    <3>2. ASSUME CommitOrder(s) PROVE SourceInv(s)'
      BY <3>1, <3>2 DEF CommitOrder, SourceInv
    <3>3. ASSUME CommitService(s) PROVE SourceInv(s)'
      <4> DEFINE row == [status |-> "pending", attempts |-> 1, due |-> FALSE,
                         owner |-> Nobody, expired |-> FALSE]
      <4>1. /\ service'[s] \in {Final, Untranslated("pending")}
            /\ job'[s] = job[s] \/ job'[s] = row
        BY <1>0, <3>3 DEF CommitService, TypeOK
      <4>2. service'[s] # Nothing
        BY <4>1, ContentFacts
      <4>3. row.status = "pending" /\ row.attempts < MaxTranslations
        BY OutboxAssumption
      <4> HIDE DEF row
      <4> QED
        BY <3>1, <4>1, <4>2, <4>3 DEF SourceInv
    <3> QED
      BY <1>1, <2>2, <3>2, <3>3
  <2> QED
    BY <2>1, <2>2
<1>2. ASSUME NEW z \in Sources, CloseRequest(z)
      PROVE  SourceInv(s)'
  BY <1>0, <1>2 DEF CloseRequest, SourceInv
<1>3. ASSUME NEW z \in Sources, JobBackoffEnds(z) \/ JobLeaseEnds(z)
      PROVE  SourceInv(s)'
  <2>1. job[z] \in Job /\ job[z] # Nothing
    BY <1>0, <1>3 DEF JobBackoffEnds, JobLeaseEnds, TypeOK
  <2>2. \/ job' = [job EXCEPT ![z] = [job[z] EXCEPT !.due = TRUE]]
        \/ job' = [job EXCEPT ![z] = [job[z] EXCEPT !.expired = TRUE]]
    BY <1>0, <1>3 DEF JobBackoffEnds, JobLeaseEnds, TypeOK
  <2>3. /\ job'[s] # Nothing => job[s] # Nothing
        /\ job[s] # Nothing => /\ job'[s].status = job[s].status
                                /\ job'[s].attempts = job[s].attempts
    BY <1>0, <2>1, <2>2 DEF TypeOK, Job
  <2>4. service' = service /\ closed' = closed
    BY <1>3 DEF JobBackoffEnds, JobLeaseEnds
  <2> QED
    BY <1>0, <2>3, <2>4 DEF SourceInv
<1>4. ASSUME NEW t \in Translations, TranslationClaims(t)
      PROVE  SourceInv(s)'
  <2> DEFINE z == translation[t].source
  <2>1. service' = service /\ closed' = closed
    BY <1>4 DEF TranslationClaims
  <2>2. CASE ~MayTranslate(z)
    BY <1>0, <1>4, <2>1, <2>2 DEF TranslationClaims, SourceInv
  <2>3. CASE MayTranslate(z)
    <3>1. z \in Sources /\ job[z] \in Job /\ job[z] # Nothing
      BY <1>0, <1>4, <2>3, TranslationFacts DEF TranslationClaims, MayTranslate, TypeOK, IdleCall
    <3>2. job' = [job EXCEPT ![z] = [job[z] EXCEPT !.owner = t, !.expired = FALSE]]
      BY <1>0, <1>4, <2>3 DEF TranslationClaims, TypeOK
    <3>3. /\ job'[s] # Nothing => job[s] # Nothing
          /\ job[s] # Nothing => /\ job'[s].status = job[s].status
                                  /\ job'[s].attempts = job[s].attempts
      BY <1>0, <3>1, <3>2 DEF TypeOK, Job
    <3> QED
      BY <1>0, <2>1, <3>3 DEF SourceInv
  <2> QED
    BY <2>2, <2>3
<1>5. ASSUME NEW t \in Translations, TranslationFails(t)
      PROVE  SourceInv(s)'
  <2> DEFINE z == translation[t].source  attempts == translation[t].attempts + 1
  <2>1. service'[s] = Nothing <=> service[s] = Nothing
    BY <1>5, CallStepFacts DEF CallStep
  <2>2. closed' = closed
    BY <1>5 DEF TranslationFails
  <2>3. CASE ~OwnsJob(t, z) \/ s # z
    <3>1. job'[s] = job[s]
      BY <1>0, <1>5, <2>3 DEF TranslationFails, TypeOK
    <3> QED
      BY <1>0, <2>1, <2>2, <3>1 DEF SourceInv
  <2>4. CASE OwnsJob(t, z) /\ s = z
    <3>1. attempts \in 0 .. MaxTranslations
      BY <1>0, <1>5, TranslationFacts, OutboxAssumption DEF TranslationFails, TypeOK, IdleCall
    <3>2. job'[s] = JobAfterFailure(attempts) /\ job[s] # Nothing
      BY <1>0, <1>5, <2>4 DEF TranslationFails, OwnsJob, TypeOK
    <3>3. /\ JobAfterFailure(attempts).attempts = attempts
          /\ JobAfterFailure(attempts).status = "pending" <=> attempts < MaxTranslations
      BY <3>1, OutboxAssumption DEF JobAfterFailure, Failed, StateAfter
    <3> QED
      BY <1>0, <2>1, <2>2, <3>2, <3>3 DEF SourceInv
  <2> QED
    BY <2>3, <2>4
<1>6. ASSUME NEW t \in Translations, TranslationSucceeds(t)
      PROVE  SourceInv(s)'
  <2>1. CASE ~OwnsJob(t, translation[t].source)
    BY <1>0, <1>6, <2>1, SuccessFacts DEF SourceInv
  <2>2. CASE OwnsJob(t, translation[t].source)
    BY <1>0, <1>6, <2>2, SuccessFacts, ContentFacts DEF SourceInv, TypeOK
  <2> QED
    BY <2>1, <2>2
<1>7. ASSUME NEW p \in Staff, NEW z \in Sources, TranslateSchedules(p, z)
      PROVE  SourceInv(s)'
  <2> DEFINE row == [job[z] EXCEPT !.status = "pending", !.attempts = 0, !.due = TRUE]
  <2>1. /\ job[z] \in Job /\ job[z] # Nothing
        /\ service' = service /\ closed' = closed
    BY <1>0, <1>7 DEF TranslateSchedules, TypeOK
  <2>2. job' = [job EXCEPT ![z] = row]
    BY <1>0, <1>7 DEF TranslateSchedules, TypeOK
  <2>3. row.status = "pending" /\ row.attempts < MaxTranslations
    BY <2>1, OutboxAssumption DEF Job
  <2> HIDE DEF row
  <2> QED
    BY <1>0, <2>1, <2>2, <2>3 DEF SourceInv, TypeOK
<1>8. ASSUME NEW p \in Staff, TranslateWrites(p)
      PROVE  SourceInv(s)'
  <2>1. service'[s] = Nothing <=> service[s] = Nothing
    BY <1>8, CallStepFacts DEF CallStep
  <2> QED
    BY <1>0, <1>8, <2>1 DEF TranslateWrites, SourceInv
<1>9. ASSUME NEW p \in Staff, ApprovalWrites(p)
      PROVE  SourceInv(s)'
  BY <1>0, <1>9, ApprovalFacts DEF SourceInv
<1>10. ASSUME NEW f \in Flushes, FlushDelivered(f) \/ FlushFails(f)
       PROVE  SourceInv(s)'
  BY <1>0, <1>10, EndFacts DEF SourceInv
<1>11. ASSUME UNCHANGED <<service, job, closed>>
       PROVE  SourceInv(s)'
  BY <1>0, <1>11 DEF SourceInv
<1>12. CASE UNCHANGED vars
  BY <1>11, <1>12 DEF vars
<1>13. ASSUME NEW d \in Deliveries, BackoffEnds(d) \/ LeaseEnds(d) \/ RetryDelivery(d)
       PROVE  SourceInv(s)'
  BY <1>11, <1>13 DEF BackoffEnds, LeaseEnds, RetryDelivery
<1>14. ASSUME NEW f \in Flushes,
              \/ FlushClaims(f) \/ FlushSkips(f) \/ ReceiverAnswers(f) \/ FlushDies(f)
              \/ \E d \in Deliveries : FlushReads(f, d)
       PROVE  SourceInv(s)'
  BY <1>11, <1>14 DEF FlushClaims, FlushSkips, ReceiverAnswers, FlushDies, FlushReads
<1>15. ASSUME NEW t \in Translations,
              TranslationDies(t) \/ \E z \in Sources : TranslationReads(t, z)
       PROVE  SourceInv(s)'
  BY <1>11, <1>15 DEF TranslationDies, TranslationReads
<1>16. ASSUME NEW p \in Staff,
              TranslateReads(p) \/ \E z \in Sources : ApprovalReads(p, z)
       PROVE  SourceInv(s)'
  BY <1>11, <1>16 DEF TranslateReads, ApprovalReads
<1>17. ASSUME NEW m \in wire, ArrivesLate(m)
       PROVE  SourceInv(s)'
  BY <1>11, <1>17 DEF ArrivesLate
<1> QED
  BY <1>1, <1>2, <1>3, <1>4, <1>5, <1>6, <1>7, <1>8, <1>9, <1>10, <1>12, <1>13, <1>14, <1>15,
     <1>16, <1>17 DEF Next, Time, FlushStep, TranslationStep, StaffStep

-----------------------------------------------------------------------------
(* Every step keeps the invariant of every call of flushKioskOutbox.       *)

\* A call that is left alone keeps its part while its row keeps its lease.
LEMMA CallStands ==
  ASSUME IInv, [Next]_vars, NEW g \in Flushes, NEW d \in Deliveries,
         flush'[g] = flush[g], flush[g].delivery = d, flush[g] # IdleCall,
         flush[g].pc = "read" /\ ~flush[g].late /\ Free(outbox[d]) => Free(outbox'[d]),
         flush[g].pc # "read" /\ stalls' = 0 =>
           /\ stalls = 0
           /\ outbox[d].owner = g /\ ~outbox[d].expired =>
                outbox'[d].owner = g /\ ~outbox'[d].expired
  PROVE  FlushInv(g)'
<1>1. Released(d)' /\ outbox'[d].payload = outbox[d].payload
  BY ReleasedStay, IInvFacts DEF FlushInv
<1>2. received[d] # Nothing => received'[d] # Nothing
  BY ReceivedStays
<1>3. FlushInv(g)
  BY IInvFacts
<1> QED
  BY <1>1, <1>2, <1>3 DEF FlushInv, Released

\* A step that touches no lease and no call of flushKioskOutbox.
LEMMA CallsStand ==
  ASSUME IInv, [Next]_vars, UNCHANGED <<flush, stalls>>,
         \A d \in Deliveries : Released(d) =>
           outbox'[d].owner = outbox[d].owner /\ outbox'[d].expired = outbox[d].expired
  PROVE  \A g \in Flushes : FlushInv(g)'
<1> SUFFICES ASSUME NEW g \in Flushes, flush[g] # IdleCall
             PROVE  FlushInv(g)'
  BY DEF FlushInv
<1> PICK d \in Deliveries : d = flush[g].delivery
  BY FlushFacts, IInvFacts DEF TypeOK
<1>1. Released(d)
  BY IInvFacts DEF FlushInv
<1> QED
  BY <1>1, CallStands DEF Free

\* A call of flushKioskOutbox moves; the rows stand.
LEMMA OneCallMoves ==
  ASSUME IInv, [Next]_vars, outbox' = outbox, stalls' = stalls, NEW f \in Flushes,
         \A g \in Flushes : g # f => flush'[g] = flush[g],
         FlushInv(f)'
  PROVE  \A g \in Flushes : FlushInv(g)'
<1> SUFFICES ASSUME NEW g \in Flushes, g # f, flush[g] # IdleCall
             PROVE  FlushInv(g)'
  BY DEF FlushInv
<1> PICK d \in Deliveries : d = flush[g].delivery
  BY FlushFacts, IInvFacts DEF TypeOK
<1> QED
  BY CallStands

LEMMA SendersStep == IInv /\ [Next]_vars => \A g \in Flushes : FlushInv(g)'
<1> SUFFICES ASSUME IInv, [Next]_vars
             PROVE  \A g \in Flushes : FlushInv(g)'
  OBVIOUS
<1> USE DEF kioskVars, callVars
<1>0. /\ TypeOK /\ outbox \in [Deliveries -> Row] /\ flush \in [Flushes -> FlushCalls]
      /\ stalls \in Nat
      /\ \A g \in Flushes : FlushInv(g)
  BY IInvFacts DEF TypeOK
<1>1. ASSUME NEW f \in Flushes, NEW d \in Deliveries, FlushReads(f, d)
      PROVE  \A g \in Flushes : FlushInv(g)'
  <2>1. /\ flush'[f].pc = "read" /\ flush'[f].delivery = d
        /\ flush'[f].payload = outbox[d].payload /\ outbox' = outbox /\ stalls' = stalls
        /\ Released(d) /\ Free(outbox[d])
        /\ \A g \in Flushes : g # f => flush'[g] = flush[g]
    BY <1>0, <1>1 DEF FlushReads, Deliverable, Released
  <2>2. FlushInv(f)'
    BY <2>1 DEF FlushInv, Released
  <2> QED
    BY <2>1, <2>2, OneCallMoves
<1>2. ASSUME NEW f \in Flushes, FlushSkips(f) \/ FlushDies(f)
      PROVE  \A g \in Flushes : FlushInv(g)'
  <2>1. /\ flush'[f] = IdleCall /\ outbox' = outbox /\ stalls' = stalls
        /\ \A g \in Flushes : g # f => flush'[g] = flush[g]
    BY <1>0, <1>2 DEF FlushSkips, FlushDies
  <2>2. FlushInv(f)'
    BY <2>1 DEF FlushInv
  <2> QED
    BY <2>1, <2>2, OneCallMoves
<1>3. ASSUME NEW f \in Flushes, ReceiverAnswers(f)
      PROVE  \A g \in Flushes : FlushInv(g)'
  <2> PICK d \in Deliveries : d = flush[f].delivery
    BY <1>0, <1>3, FlushFacts DEF ReceiverAnswers, IdleCall
  <2>1. /\ flush'[f].pc = "answered" /\ flush'[f].delivery = d
        /\ flush'[f].payload = flush[f].payload
        /\ flush'[f].receipt = Accepts(d, flush[f].payload)
        /\ outbox' = outbox /\ stalls' = stalls /\ received' = Stored(d, flush[f].payload)
        /\ \A g \in Flushes : g # f => flush'[g] = flush[g]
    BY <1>0, <1>3 DEF ReceiverAnswers
  <2>2. flush[f].pc = "sent" /\ flush[f] # IdleCall /\ flush[f].payload \in Payload
    BY <1>0, <1>3, FlushFacts DEF ReceiverAnswers, IdleCall
  <2>3. Accepts(d, flush[f].payload) => received'[d] # Nothing
    BY <1>0, <2>1, <2>2, ContentFacts DEF Accepts, Stored, TypeOK
  <2>4. FlushInv(f)'
    BY <1>0, <2>1, <2>2, <2>3 DEF FlushInv, Released
  <2> QED
    BY <2>1, <2>4, OneCallMoves
<1>4. ASSUME NEW f \in Flushes, FlushClaims(f)
      PROVE  \A g \in Flushes : FlushInv(g)'
  <2> SUFFICES ASSUME NEW g \in Flushes PROVE FlushInv(g)'
    OBVIOUS
  <2> PICK e \in Deliveries : e = flush[f].delivery
    BY <1>0, <1>4, ClaimFacts
  <2>1. /\ flush[f] # IdleCall /\ flush[f].pc = "read" /\ flush[f].late \in BOOLEAN
        /\ outbox'[e].owner = f /\ ~outbox'[e].expired
        /\ outbox'[e].payload = outbox[e].payload
        /\ \A d \in Deliveries : d # e => outbox'[d] = outbox[d]
        /\ stalls' = stalls
    BY <1>0, <1>4, ClaimFacts, FlushFacts DEF FlushClaims
  <2>2. Free(outbox[e])
    BY <1>0, <1>4, <2>1 DEF FlushClaims, MayClaim, FlushInv, Free
  <2>3. CASE g = f
    <3>1. /\ flush'[f].pc = "sent" /\ flush'[f].delivery = e
          /\ flush'[f].payload = flush[f].payload
      BY <1>4 DEF FlushClaims
    <3>2. Released(e)' /\ flush[f].payload = outbox[e].payload
      BY <1>0, <2>1, ReleasedStay DEF FlushInv
    <3> QED
      BY <2>1, <2>3, <3>1, <3>2 DEF FlushInv, Released
  <2>4. CASE g # f /\ flush[g] # IdleCall
    <3> PICK d \in Deliveries : d = flush[g].delivery
      BY <1>0, <2>4, FlushFacts
    <3>1. CASE flush[g].pc = "read" /\ d = e
      <4>1. flush'[g] = [flush[g] EXCEPT !.late = TRUE]
        BY <1>4, <2>4, <3>1 DEF FlushClaims
      <4>2. /\ flush'[g].pc = "read" /\ flush'[g].delivery = d /\ flush'[g].late
            /\ flush'[g].payload = flush[g].payload
        BY <1>0, <2>4, <3>1, <4>1 DEF FlushCalls, IdleCall
      <4>3. Released(d)' /\ flush[g].payload = outbox[d].payload
        BY <1>0, <2>4, ReleasedStay DEF FlushInv
      <4> QED
        BY <2>1, <3>1, <4>2, <4>3 DEF FlushInv, Released
    <3>2. CASE ~(flush[g].pc = "read" /\ d = e)
      <4>1. flush'[g] = flush[g]
        BY <1>4, <2>4, <3>2 DEF FlushClaims
      <4>2. flush[g].pc # "read" /\ d = e => ~(outbox[d].owner = g /\ ~outbox[d].expired)
        BY <2>2, OutboxAssumption DEF Free
      <4> QED
        BY <2>1, <2>4, <3>2, <4>1, <4>2, CallStands
    <3> QED
      BY <3>1, <3>2
  <2>5. CASE g # f /\ flush[g] = IdleCall
    <3>1. flush'[g] = IdleCall
      BY <1>4, <2>5 DEF FlushClaims, IdleCall
    <3> QED
      BY <3>1 DEF FlushInv
  <2> QED
    BY <2>3, <2>4, <2>5
<1>5. ASSUME NEW f \in Flushes, FlushDelivered(f) \/ FlushFails(f)
      PROVE  \A g \in Flushes : FlushInv(g)'
  <2> SUFFICES ASSUME NEW g \in Flushes PROVE FlushInv(g)'
    OBVIOUS
  <2>1. /\ flush[f].pc \in {"sent", "answered"} /\ stalls' = stalls
        /\ flush' = [flush EXCEPT ![f] = IdleCall]
    BY <1>5, EndFacts
  <2>2. PICK status, isDue : Conclude(f, status, isDue)
    BY <1>5, EndFacts
  <2>3. CASE g = f \/ flush[g] = IdleCall
    BY <1>0, <2>1, <2>3 DEF FlushInv
  <2>4. CASE g # f /\ flush[g] # IdleCall
    <3> PICK d \in Deliveries : d = flush[g].delivery
      BY <1>0, <2>4, FlushFacts
    <3>1. flush'[g] = flush[g]
      BY <1>0, <2>1, <2>4
    <3>2. \/ outbox'[d] = outbox[d]
          \/ outbox[d].owner = f /\ outbox'[d].owner = Nobody
      BY <1>0, <2>1, <2>2, ConcludeFacts
    <3> QED
      BY <2>1, <2>4, <3>1, <3>2, CallStands DEF Free
  <2> QED
    BY <2>3, <2>4
<1>6. ASSUME NEW e \in Deliveries, LeaseEnds(e)
      PROVE  \A g \in Flushes : FlushInv(g)'
  <2> SUFFICES ASSUME NEW g \in Flushes, flush[g] # IdleCall PROVE FlushInv(g)'
    BY <1>0, <1>6 DEF LeaseEnds, FlushInv
  <2> PICK d \in Deliveries : d = flush[g].delivery
    BY <1>0, FlushFacts
  <2>1. /\ flush' = flush
        /\ outbox'[d].owner = outbox[d].owner
        /\ outbox[d].expired => outbox'[d].expired
    BY <1>0, <1>6, TimeFacts DEF LeaseEnds
  <2>2. CASE d # e
    <3>1. outbox'[d] = outbox[d] /\ (stalls' = 0 => stalls = 0)
      BY <1>0, <1>6, <2>2 DEF LeaseEnds, Stalling
    <3> QED
      BY <2>1, <3>1, CallStands
  <2>3. CASE d = e
    <3>1. flush[g].pc # "read" /\ stalls' = 0 => stalls = 0 /\ outbox[d].owner # g
      <4>1. flush[g].pc \in {"read", "sent", "answered"}
        BY <1>0, FlushFacts
      <4>2. stalls + 1 # 0
        BY <1>0
      <4> QED
        BY <1>0, <1>6, <2>3, <4>1, <4>2 DEF LeaseEnds, Stalling, Holds
    <3> QED
      BY <2>1, <3>1, CallStands DEF Free
  <2> QED
    BY <2>2, <2>3
<1>7. ASSUME NEW e \in Deliveries, BackoffEnds(e) \/ RetryDelivery(e)
      PROVE  \A g \in Flushes : FlushInv(g)'
  <2>1. ASSUME NEW d \in Deliveries
        PROVE  outbox'[d].owner = outbox[d].owner /\ outbox'[d].expired = outbox[d].expired
    <3>1. CASE BackoffEnds(e)
      BY <1>0, <3>1 DEF BackoffEnds, Row
    <3>2. CASE RetryDelivery(e)
      BY <1>0, <3>2, RetryFacts
    <3> QED
      BY <1>7, <3>1, <3>2
  <2> QED
    BY <1>7, <2>1, CallsStand DEF BackoffEnds, RetryDelivery
<1>8. ASSUME NEW s \in Sources, CommitOrder(s) \/ CommitService(s)
      PROVE  \A g \in Flushes : FlushInv(g)'
  <2>1. \A d \in Deliveries : Released(d) => outbox'[d] = outbox[d]
    BY <1>8, CommitFacts DEF Released
  <2> QED
    BY <1>8, <2>1, CommitFacts, CallsStand
<1>9. ASSUME NEW t \in Translations, TranslationSucceeds(t)
      PROVE  \A g \in Flushes : FlushInv(g)'
  <2>1. \A d \in Deliveries : Released(d) => outbox'[d] = outbox[d]
    BY <1>9, SuccessFacts DEF Released
  <2> QED
    BY <1>9, <2>1, SuccessFacts, CallsStand
<1>10. ASSUME NEW p \in Staff, ApprovalWrites(p)
       PROVE  \A g \in Flushes : FlushInv(g)'
  <2>1. \A d \in Deliveries : Released(d) => outbox'[d] = outbox[d]
    BY <1>10, ApprovalFacts DEF Released
  <2> QED
    BY <1>10, <2>1, ApprovalFacts, CallsStand
<1>11. ASSUME NEW s \in Sources, JobLeaseEnds(s)
       PROVE  \A g \in Flushes : FlushInv(g)'
  <2> SUFFICES ASSUME NEW g \in Flushes, flush[g] # IdleCall PROVE FlushInv(g)'
    BY <1>11 DEF JobLeaseEnds, FlushInv
  <2> PICK d \in Deliveries : d = flush[g].delivery
    BY <1>0, FlushFacts
  <2>1. flush' = flush /\ outbox' = outbox /\ (stalls' = 0 => stalls = 0)
    BY <1>0, <1>11 DEF JobLeaseEnds, Stalling
  <2> QED
    BY <2>1, CallStands
<1>12. ASSUME UNCHANGED <<outbox, flush, stalls>>
       PROVE  \A g \in Flushes : FlushInv(g)'
  BY <1>12, CallsStand
<1>13. ASSUME NEW s \in Sources, CloseRequest(s) \/ JobBackoffEnds(s)
       PROVE  \A g \in Flushes : FlushInv(g)'
  BY <1>12, <1>13 DEF CloseRequest, JobBackoffEnds
<1>14. ASSUME NEW t \in Translations,
              \/ TranslationClaims(t) \/ TranslationFails(t) \/ TranslationDies(t)
              \/ \E s \in Sources : TranslationReads(t, s)
       PROVE  \A g \in Flushes : FlushInv(g)'
  BY <1>12, <1>14 DEF TranslationClaims, TranslationFails, TranslationDies, TranslationReads
<1>15. ASSUME NEW p \in Staff,
              \/ TranslateReads(p) \/ TranslateWrites(p)
              \/ \E s \in Sources : ApprovalReads(p, s) \/ TranslateSchedules(p, s)
       PROVE  \A g \in Flushes : FlushInv(g)'
  BY <1>12, <1>15 DEF TranslateReads, TranslateWrites, ApprovalReads, TranslateSchedules
<1>16. ASSUME NEW m \in wire, ArrivesLate(m)
       PROVE  \A g \in Flushes : FlushInv(g)'
  BY <1>12, <1>16 DEF ArrivesLate
<1>17. CASE UNCHANGED vars
  BY <1>12, <1>17 DEF vars
<1> QED
  BY <1>1, <1>2, <1>3, <1>4, <1>5, <1>6, <1>7, <1>8, <1>9, <1>10, <1>11, <1>13, <1>14, <1>15,
     <1>16, <1>17 DEF Next, Time, FlushStep, TranslationStep, StaffStep

-----------------------------------------------------------------------------
(* Every step keeps the invariant of the calls of changeOperation and that  *)
(* of what is under way and has arrived.                                   *)

\* A request that is there stays there.
LEMMA RequestsStay ==
  ASSUME IInv, [Next]_vars
  PROVE  \A s \in Sources : service[s] # Nothing => service'[s] # Nothing
<1> SUFFICES ASSUME NEW s \in Sources, service[s] # Nothing PROVE service'[s] # Nothing
  OBVIOUS
<1>1. CASE CallStep
  BY <1>1, CallStepFacts
<1>2. ASSUME NEW z \in Sources, CommitOrder(z) \/ CommitService(z)
      PROVE  service'[s] # Nothing
  BY <1>2, CommitFacts
<1>3. ASSUME NEW t \in Translations, TranslationSucceeds(t)
      PROVE  service'[s] # Nothing
  <2>1. service' = service \/ \E z \in Sources : service' = [service EXCEPT ![z] = Final]
    BY <1>3, SuccessFacts
  <2> QED
    BY <2>1, ContentFacts, IInvFacts DEF TypeOK
<1>4. ASSUME NEW d \in Deliveries, BackoffEnds(d) \/ LeaseEnds(d) \/ RetryDelivery(d)
      PROVE  service'[s] # Nothing
  BY <1>4 DEF BackoffEnds, LeaseEnds, RetryDelivery
<1>5. ASSUME NEW f \in Flushes, FlushClaims(f) \/ FlushDelivered(f) \/ FlushFails(f)
      PROVE  service'[s] # Nothing
  BY <1>5 DEF FlushClaims, FlushDelivered, FlushFails
<1>6. ASSUME NEW p \in Staff, ApprovalWrites(p)
      PROVE  service'[s] # Nothing
  BY <1>6 DEF ApprovalWrites
<1> QED
  BY <1>1, <1>2, <1>3, <1>4, <1>5, <1>6, TwoKindsOfStep DEF RowStep

LEMMA StaffsStep == IInv /\ [Next]_vars => \A p \in Staff : StaffInv(p)'
<1> SUFFICES ASSUME IInv, [Next]_vars, NEW p \in Staff
             PROVE  StaffInv(p)'
  OBVIOUS
<1> USE DEF kioskVars, callVars
<1>0. TypeOK /\ StaffInv(p)
  BY IInvFacts
<1>1. ASSUME NEW q \in Staff, NEW s \in Sources, ApprovalReads(q, s)
      PROVE  StaffInv(p)'
  <2>1. CASE p = q
    <3>1. staff'[p] = [pc |-> "approve", source |-> s, data |-> service[s]]
      BY <1>0, <1>1, <2>1 DEF ApprovalReads, TypeOK
    <3>2. service'[s] # Nothing /\ service[s] \in Content
      BY <1>0, <1>1 DEF ApprovalReads, TypeOK
    <3>3. service[s] = Final
      BY <1>1, <3>2 DEF ApprovalReads, Content, Final
    <3> QED
      BY <3>1, <3>2, <3>3 DEF StaffInv
  <2>2. CASE p # q
    BY <1>0, <1>1, <2>2 DEF ApprovalReads, TypeOK, StaffInv
  <2> QED
    BY <2>1, <2>2
<1>2. ASSUME NEW q \in Staff, NEW s \in Sources, TranslateSchedules(q, s)
      PROVE  StaffInv(p)'
  <2>1. service[s] # Nothing
    BY <1>2, IInvFacts DEF TranslateSchedules, SourceInv
  <2>2. CASE p = q
    <3>1. staff'[p] = [pc |-> "translate", source |-> s]
      BY <1>0, <1>2, <2>2 DEF TranslateSchedules, TypeOK
    <3> QED
      BY <1>2, <2>1, <3>1 DEF TranslateSchedules, StaffInv
  <2>3. CASE p # q
    BY <1>0, <1>2, <2>3 DEF TranslateSchedules, TypeOK, StaffInv
  <2> QED
    BY <2>2, <2>3
<1>3. ASSUME NEW q \in Staff, TranslateReads(q)
      PROVE  StaffInv(p)'
  <2>1. CASE p = q
    <3>1. staff'[p] = [pc |-> "write", source |-> staff[p].source,
                       data |-> service[staff[p].source]]
      BY <1>0, <1>3, <2>1 DEF TranslateReads, TypeOK
    <3>2. staff[p] # IdleCall /\ service' = service
      BY <1>0, <1>3, <2>1 DEF TranslateReads, IdleCall
    <3> QED
      BY <1>0, <3>1, <3>2 DEF StaffInv
  <2>2. CASE p # q
    BY <1>0, <1>3, <2>2 DEF TranslateReads, TypeOK, StaffInv
  <2> QED
    BY <2>1, <2>2
<1>4. ASSUME staff'[p] = staff[p] \/ staff'[p] = IdleCall
      PROVE  StaffInv(p)'
  <2>1. staff[p] # IdleCall => staff[p].source \in Sources
    BY <1>0, StaffFacts DEF TypeOK
  <2> QED
    BY <1>0, <1>4, <2>1, RequestsStay DEF StaffInv
<1>5. ASSUME NEW q \in Staff, TranslateWrites(q) \/ ApprovalWrites(q)
      PROVE  StaffInv(p)'
  BY <1>0, <1>4, <1>5 DEF TranslateWrites, ApprovalWrites, TypeOK
<1>6. ASSUME NEW s \in Sources,
             \/ CommitOrder(s) \/ CommitService(s) \/ CloseRequest(s)
             \/ JobBackoffEnds(s) \/ JobLeaseEnds(s)
      PROVE  StaffInv(p)'
  BY <1>4, <1>6 DEF CommitOrder, CommitService, CloseRequest, JobBackoffEnds, JobLeaseEnds
<1>7. ASSUME NEW d \in Deliveries, BackoffEnds(d) \/ LeaseEnds(d) \/ RetryDelivery(d)
      PROVE  StaffInv(p)'
  BY <1>4, <1>7 DEF BackoffEnds, LeaseEnds, RetryDelivery
<1>8. ASSUME NEW f \in Flushes,
             FlushStep(f) \/ FlushDies(f) \/ \E d \in Deliveries : FlushReads(f, d)
      PROVE  StaffInv(p)'
  BY <1>4, <1>8 DEF FlushStep, FlushDies, FlushReads, FlushClaims, FlushSkips, ReceiverAnswers,
                    FlushDelivered, FlushFails
<1>9. ASSUME NEW t \in Translations,
             \/ TranslationStep(t) \/ TranslationDies(t)
             \/ \E s \in Sources : TranslationReads(t, s)
      PROVE  StaffInv(p)'
  BY <1>4, <1>9 DEF TranslationStep, TranslationDies, TranslationReads, TranslationClaims,
                    TranslationSucceeds, TranslationFails
<1>10. ASSUME NEW m \in wire, ArrivesLate(m)
       PROVE  StaffInv(p)'
  BY <1>4, <1>10 DEF ArrivesLate
<1>11. CASE UNCHANGED vars
  BY <1>4, <1>11 DEF vars
<1> QED
  BY <1>1, <1>2, <1>3, <1>5, <1>6, <1>7, <1>8, <1>9, <1>10, <1>11 DEF Next, Time, StaffStep

\* What an answer or a late arrival stores is the content of the row.
LEMMA StoredContent ==
  ASSUME TypeOK, DeliveryInv, NEW e \in Deliveries, NEW payload,
         Released(e) /\ payload = outbox[e].payload, received' = Stored(e, payload)
  PROVE  \A d \in Deliveries :
           received'[d] # Nothing => Released(d) /\ received'[d] = outbox[d].payload
BY DEF Stored, TypeOK, DeliveryInv

\* What lingers of a request has the content of its row.
LEMMA LingeringContent ==
  ASSUME IInv, NEW f \in Flushes, flush[f].pc \in {"sent", "answered"},
         MayLinger(f) \/ UNCHANGED wire
  PROVE  \A m \in wire' : Released(m.delivery) /\ m.payload = outbox[m.delivery].payload
<1>1. flush[f] # IdleCall
  BY DEF IdleCall
<1>2. Released(flush[f].delivery) /\ flush[f].payload = outbox[flush[f].delivery].payload
  BY <1>1, IInvFacts DEF FlushInv
<1> QED
  BY <1>2, IInvFacts DEF MayLinger, DeliveryInv

LEMMA DeliveriesStep == IInv /\ [Next]_vars => DeliveryInv'
<1> SUFFICES ASSUME IInv, [Next]_vars PROVE DeliveryInv'
  OBVIOUS
<1> USE DEF kioskVars, callVars
<1>0. TypeOK /\ DeliveryInv /\ TypeOK'
  BY IInvFacts, TypeStep
<1>1. SUFFICES /\ \A m \in wire' : Released(m.delivery) /\ m.payload = outbox[m.delivery].payload
               /\ \A d \in Deliveries :
                    received'[d] # Nothing => Released(d) /\ received'[d] = outbox[d].payload
  <2>1. \A m \in wire' : m.delivery \in Deliveries
    BY <1>0 DEF TypeOK
  <2>2. \A d \in Deliveries :
          Released(d) => Released(d)' /\ outbox'[d].payload = outbox[d].payload
    BY ReleasedStay
  <2> QED
    BY <2>1, <2>2 DEF DeliveryInv, Released
<1> DEFINE Goal == /\ \A m \in wire' :
                        Released(m.delivery) /\ m.payload = outbox[m.delivery].payload
                   /\ \A d \in Deliveries :
                        received'[d] # Nothing => Released(d) /\ received'[d] = outbox[d].payload
<1>2. ASSUME NEW f \in Flushes, ReceiverAnswers(f)
      PROVE  Goal
  <2>1. flush[f].delivery \in Deliveries /\ flush[f] # IdleCall
    BY <1>0, <1>2, FlushFacts DEF ReceiverAnswers, TypeOK, IdleCall
  <2>2. /\ Released(flush[f].delivery) /\ flush[f].payload = outbox[flush[f].delivery].payload
        /\ received' = Stored(flush[f].delivery, flush[f].payload) /\ wire' = wire
    BY <1>2, <2>1, IInvFacts DEF ReceiverAnswers, FlushInv
  <2>3. \A d \in Deliveries :
          received'[d] # Nothing => Released(d) /\ received'[d] = outbox[d].payload
    BY <1>0, <2>1, <2>2, StoredContent
  <2> QED
    BY <1>0, <2>2, <2>3 DEF DeliveryInv
<1>3. ASSUME NEW m \in wire, ArrivesLate(m)
      PROVE  Goal
  <2>1. /\ m.delivery \in Deliveries /\ Released(m.delivery)
        /\ m.payload = outbox[m.delivery].payload
        /\ received' = Stored(m.delivery, m.payload) /\ wire' \subseteq wire
    BY <1>0, <1>3 DEF ArrivesLate, TypeOK, DeliveryInv
  <2>2. \A d \in Deliveries :
          received'[d] # Nothing => Released(d) /\ received'[d] = outbox[d].payload
    BY <1>0, <2>1, StoredContent
  <2> QED
    BY <1>0, <2>1, <2>2 DEF DeliveryInv
<1>4. ASSUME NEW f \in Flushes, FlushDelivered(f) \/ FlushFails(f) \/ FlushDies(f)
      PROVE  Goal
  <2>1. /\ flush[f].pc \in {"sent", "answered"} /\ received' = received
        /\ MayLinger(f) \/ UNCHANGED wire
    BY <1>4, EndFacts DEF FlushDies
  <2> QED
    BY <1>0, <2>1, LingeringContent DEF DeliveryInv
<1>5. ASSUME UNCHANGED <<wire, received>>
      PROVE  Goal
  BY <1>0, <1>5 DEF DeliveryInv
<1>6. ASSUME NEW f \in Flushes,
             FlushClaims(f) \/ FlushSkips(f) \/ \E d \in Deliveries : FlushReads(f, d)
      PROVE  Goal
  BY <1>5, <1>6 DEF FlushClaims, FlushSkips, FlushReads
<1>7. ASSUME NEW s \in Sources,
             \/ CommitOrder(s) \/ CommitService(s) \/ CloseRequest(s)
             \/ JobBackoffEnds(s) \/ JobLeaseEnds(s)
      PROVE  Goal
  BY <1>5, <1>7 DEF CommitOrder, CommitService, CloseRequest, JobBackoffEnds, JobLeaseEnds
<1>8. ASSUME NEW d \in Deliveries, BackoffEnds(d) \/ LeaseEnds(d) \/ RetryDelivery(d)
      PROVE  Goal
  BY <1>5, <1>8 DEF BackoffEnds, LeaseEnds, RetryDelivery
<1>9. ASSUME NEW t \in Translations,
             \/ TranslationStep(t) \/ TranslationDies(t)
             \/ \E s \in Sources : TranslationReads(t, s)
      PROVE  Goal
  BY <1>5, <1>9 DEF TranslationStep, TranslationDies, TranslationReads, TranslationClaims,
                    TranslationSucceeds, TranslationFails
<1>10. ASSUME NEW p \in Staff,
              \/ StaffStep(p)
              \/ \E s \in Sources : ApprovalReads(p, s) \/ TranslateSchedules(p, s)
       PROVE  Goal
  BY <1>5, <1>10 DEF StaffStep, ApprovalReads, TranslateSchedules, TranslateReads,
                     TranslateWrites, ApprovalWrites
<1>11. CASE UNCHANGED vars
  BY <1>5, <1>11 DEF vars
<1> QED
  BY <1>2, <1>3, <1>4, <1>6, <1>7, <1>8, <1>9, <1>10, <1>11 DEF Next, Time, FlushStep

-----------------------------------------------------------------------------
(* The invariant, and the properties it has whatever the constants are.    *)

LEMMA IInvStep == IInv /\ [Next]_vars => IInv'
BY TypeStep, RowsStep, SourcesStep, SendersStep, StaffsStep, DeliveriesStep DEF IInv

\* In every reachable state of the outbox its invariant holds; with it, rows and calls
\* have their types, and no call starts a ninth attempt.
THEOREM OutboxInvariant == Spec => [](TypeOK /\ IInv)
<1>1. IInv => TypeOK
  BY DEF IInv
<1> QED
  BY InitInv, IInvStep, <1>1, PTL DEF Spec

\* Between the row, the requests under way and the receiver there is one content: a retry
\* is never refused with 409 EVENT_ID_CONFLICT.
THEOREM ContentIsKept == Spec => []EventsKeepTheirContent
<1>1. ASSUME IInv PROVE EventsKeepTheirContent
  <2>1. ASSUME NEW d \in Deliveries, NEW f \in Flushes, Sending(f, d)
        PROVE  flush[f].payload = outbox[d].payload
    BY <1>1, <2>1, IInvFacts DEF Sending, FlushInv, IdleCall
  <2>2. \A m \in wire : m.payload = outbox[m.delivery].payload
    BY <1>1, IInvFacts DEF DeliveryInv
  <2>3. \A d \in Deliveries : received[d] # Nothing => received[d] = outbox[d].payload
    BY <1>1, IInvFacts DEF DeliveryInv
  <2> QED
    BY <2>1, <2>2, <2>3 DEF EventsKeepTheirContent
<1> QED
  BY <1>1, OutboxInvariant, PTL

\* What the kiosk shows as delivered has been stored by its receiver, although an answer
\* may come to a call whose lease somebody else has taken over.
THEOREM DeliveredWasReceived == Spec => []DeliveredMeansReceived
<1>1. IInv => DeliveredMeansReceived
  BY IInvFacts DEF RowInv, DeliveredMeansReceived
<1> QED
  BY <1>1, OutboxInvariant, PTL

\* The lease keeps two calls from sending the same event at the same time, as long as no
\* call stalls for longer than the lease.
THEOREM SendersAreAlone == Spec => []OneSenderAtATime
<1>1. ASSUME IInv, stalls = 0, NEW d \in Deliveries, NEW f \in Flushes, NEW g \in Flushes,
             Sending(f, d), Sending(g, d)
      PROVE  f = g
  <2>1. flush[f] # IdleCall /\ flush[f].pc # "read" /\ flush[f].delivery = d
    BY <1>1 DEF Sending, IdleCall
  <2>2. flush[g] # IdleCall /\ flush[g].pc # "read" /\ flush[g].delivery = d
    BY <1>1 DEF Sending, IdleCall
  <2>3. outbox[d].owner = f
    BY <1>1, <2>1, IInvFacts DEF FlushInv
  <2>4. outbox[d].owner = g
    BY <1>1, <2>2, IInvFacts DEF FlushInv
  <2> QED
    BY <2>3, <2>4
<1>2. IInv => OneSenderAtATime
  BY <1>1 DEF OneSenderAtATime
<1> QED
  BY <1>2, OutboxInvariant, PTL

\* A request waits for a translation exactly as long as there is a job for it, and what
\* has arrived at a receiver can be read there in Korean.
THEOREM JobsAndRowsAgree == Spec => []JobsMatchDeliveries
<1>1. ASSUME IInv, NEW s \in Sources, service[s] # Nothing
      PROVE  /\ job[s] # Nothing <=> outbox[Kitchen(s)].status = "translation_pending"
             /\ job[s] = Nothing => outbox[Kitchen(s)].payload.data = Final
  <2>1. /\ Kitchen(s) \in Deliveries /\ Kitchen(s)[1] = s /\ ~RobotRequest(Kitchen(s))
        /\ RowInv(Kitchen(s)) /\ outbox[Kitchen(s)].status \in Statuses
    BY <1>1, DeliveryFacts, IInvFacts DEF RobotRequest, TypeOK, Row
  <2>2. job[s] # Nothing <=> outbox[Kitchen(s)].status = "translation_pending"
    BY <2>1 DEF RowInv
  <2>3. outbox[Kitchen(s)].status \notin {"absent", "awaiting_staff"}
    BY <1>1, <2>1 DEF RowInv
  <2> QED
    BY <2>1, <2>2, <2>3 DEF RowInv, Released, Statuses
<1>2. ASSUME IInv, NEW d \in Deliveries, received[d] # Nothing
      PROVE  received[d].data = Final
  BY <1>2, IInvFacts DEF DeliveryInv, RowInv
<1>3. IInv => JobsMatchDeliveries
  BY <1>1, <1>2 DEF JobsMatchDeliveries
<1> QED
  BY <1>3, OutboxInvariant, PTL

\* No step, of whatever call, touches the row of a delivered event again.
THEOREM DeliveredRowsStay == Spec => DeliveredIsFinal
<1>1. IInv /\ [Next]_vars =>
        \A d \in Deliveries : outbox[d].status = "delivered" => outbox'[d] = outbox[d]
  BY ReleasedStay
<1> QED
  BY <1>1, OutboxInvariant, PTL DEF Spec, DeliveredIsFinal

\* The payload for the robot changes once, by the first approval, which comes before the
\* request is closed.
THEOREM ApprovalsHold == Spec => ApprovedOnceBeforeClosing
<1>1. ASSUME IInv, [Next]_vars, NEW s \in Sources, s \in closed \/ Approved(Robot(s))
      PROVE  outbox'[Robot(s)].payload = outbox[Robot(s)].payload
  <2> PICK d \in Deliveries : d = Robot(s) /\ d[1] = s
    BY DeliveryFacts
  <2>1. CASE Released(d)
    BY <1>1, <2>1, ReleasedStay
  <2>2. CASE ~Released(d)
    <3>1. ASSUME NEW z \in Sources, CommitOrder(z) \/ CommitService(z)
          PROVE  outbox'[d] = outbox[d]
      BY <1>1, <3>1, CommitFacts
    <3>2. ASSUME NEW e \in Deliveries, BackoffEnds(e) \/ LeaseEnds(e)
          PROVE  outbox'[d].payload = outbox[d].payload
      BY <1>1, <3>2, TimeFacts, IInvFacts
    <3>3. ASSUME NEW e \in Deliveries, RetryDelivery(e)
          PROVE  outbox'[d].payload = outbox[d].payload
      BY <1>1, <3>3, RetryFacts, IInvFacts
    <3>4. ASSUME NEW f \in Flushes, FlushClaims(f)
          PROVE  outbox'[d].payload = outbox[d].payload
      BY <1>1, <3>4, ClaimFacts, IInvFacts
    <3>5. ASSUME NEW f \in Flushes, FlushDelivered(f) \/ FlushFails(f)
          PROVE  outbox'[d].payload = outbox[d].payload
      <4>1. flush[f].pc \in {"sent", "answered"} /\ \E status, isDue : Conclude(f, status, isDue)
        BY <1>1, <3>5, EndFacts
      <4> QED
        BY <1>1, <4>1, ConcludeFacts, IInvFacts
    <3>6. ASSUME NEW t \in Translations, TranslationSucceeds(t)
          PROVE  outbox'[d] = outbox[d]
      <4>1. d # Kitchen(translation[t].source)
        BY DeliveryFacts
      <4> QED
        BY <1>1, <3>6, <4>1, SuccessFacts
    <3>7. ASSUME NEW p \in Staff, ApprovalWrites(p)
          PROVE  outbox'[d] = outbox[d]
      BY <1>1, <3>7, ApprovalFacts, DeliveryFacts DEF MayApprove
    <3>8. CASE CallStep
      BY <1>1, <3>8, CallStepFacts
    <3> QED
      BY <1>1, <3>1, <3>2, <3>3, <3>4, <3>5, <3>6, <3>7, <3>8, TwoKindsOfStep DEF RowStep
  <2> QED
    BY <2>1, <2>2
<1>2. IInv /\ [Next]_vars =>
        \A s \in Sources : s \in closed \/ Approved(Robot(s)) =>
          outbox'[Robot(s)].payload = outbox[Robot(s)].payload
  BY <1>1
<1> QED
  BY <1>2, OutboxInvariant, PTL DEF Spec, ApprovedOnceBeforeClosing
=============================================================================
