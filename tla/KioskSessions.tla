----------------------------- MODULE KioskSessions -----------------------------
(***************************************************************************)
(* One session of the NSL kiosk server (261023NSL-server/lib: kiosk-api.ts *)
(* and kiosk-store.ts): the cart, the turns of the conversation, the       *)
(* review and the approval of an order.  A call takes the lease of the     *)
(* session, works on the copy of the row it got with it, waits for         *)
(* providers, and writes everything in one batch whose statements all ask  *)
(* whether the lease is still its own.  The lease runs out after three     *)
(* minutes, whether its call is slow or has died with its isolate.         *)
(*                                                                         *)
(* A cart is a value: the list of items and quantities as the row holds    *)
(* it.  What an operation makes of a cart is left open (a provider chooses *)
(* the operations); an operation it refuses is a call that Fails.  Quotas, *)
(* the conversation's wording, delivery and the day a session lasts are    *)
(* left out; KioskOutbox takes over what an order or a request enqueues.   *)
(*                                                                         *)
(* A definition placed right before the one it varies (and used by no      *)
(* action) is a plausible mistake for the mutation runs.                   *)
(***************************************************************************)
EXTENDS Naturals, Sequences

CONSTANTS
  Calls,        \* calls of handleKiosk at a time, in any isolate
  Requests,     \* the requestIds of turns
  Carts, EmptyCart,
  Prices,       \* states of the menu
  MaxReviews,   \* bound: reviews prepared
  MaxVersion,   \* bound: changes of the cart
  NoCall, NoTurn, NoReview, NoInput, NoCopy, NoSnapshot

NoToken == 0

Turns    == {"order", "service"}
Snapshot == [cart : Carts, price : Prices]
Session  == [cart : Carts, version : 0..MaxVersion, token : 0..MaxReviews]
Row      == [token : 1..MaxReviews, version : 0..MaxVersion, snapshot : Snapshot,
             due : BOOLEAN]
Order    == [token : 1..MaxReviews, snapshot : Snapshot]

\* The marks of what is not there are no rows.
ASSUME SessionsAssumption ==
  /\ EmptyCart \in Carts
  /\ MaxReviews \in Nat /\ MaxVersion \in Nat
  /\ NoCall \notin Calls
  /\ NoTurn \notin Turns /\ NoReview \notin Row \cup Order

VARIABLES
  session,     \* payload of the row of kiosk_sessions
  lock,        \* its lock_owner
  lockDue,     \* its lock_until has passed
  review,      \* row of kiosk_confirmations, or NoReview
  orders,      \* kiosk_orders
  turns,       \* request -> kind of the turn in kiosk_turns, or NoTurn
  services,    \* kiosk_services, by request
  price,       \* the menu's prices
  reviews,     \* reviews the table has been given: their tokens are 1..reviews
  refused,     \* tokens of which an approval was answered STALE_CONFIRMATION
  calls        \* call -> what it holds

rows == <<session, review, orders, turns, services, reviews>>
vars == <<session, lock, lockDue, review, orders, turns, services, price, reviews,
          refused, calls>>

\* What a customer may send: any request again, and any review that was answered
\* (with the version the answer showed, so that the token says both).
Inputs ==
  [op : Turns, request : Requests] \cup [op : {"cart", "prepare"}]
  \cup [op : {"confirm"}, token : 1..reviews]

IdleCall == [at |-> "idle", input |-> NoInput, copy |-> NoCopy, seen |-> NoSnapshot]
EndedCall == [IdleCall EXCEPT !.at = "leaving"]

Working == {"entered", "working", "checking", "ready"}

Init ==
  /\ session = [cart |-> EmptyCart, version |-> 0, token |-> NoToken]
  /\ lock = NoCall /\ lockDue = FALSE
  /\ review = NoReview /\ orders = <<>> /\ services = <<>>
  /\ turns = [r \in Requests |-> NoTurn]
  /\ price \in Prices
  /\ reviews = 0 /\ refused = {}
  /\ calls = [c \in Calls |-> IdleCall]

-----------------------------------------------------------------------------
(* The lease. *)

MayEnter == lock = NoCall \/ lockDue

Enter(c, i) ==
  /\ calls[c].at = "idle"
  /\ MayEnter
  /\ lock' = c /\ lockDue' = FALSE
  /\ calls' = [calls EXCEPT ![c] = [IdleCall EXCEPT !.at = "entered", !.input = i,
                                                    !.copy = session]]
  /\ UNCHANGED <<rows, price, refused>>

GivesBackAnyway(c) == TRUE   \* a mistake: the lease of another is given back
GivesBack(c) == lock = c

\* The finally of withSession, and the answer.
Leave(c) ==
  /\ calls[c].at = "leaving"
  /\ calls' = [calls EXCEPT ![c] = IdleCall]
  /\ IF GivesBack(c) THEN lock' = NoCall /\ lockDue' = FALSE ELSE UNCHANGED <<lock, lockDue>>
  /\ UNCHANGED <<rows, price, refused>>

\* A check fails, a provider, the quota or the database.
Fails(c) ==
  /\ calls[c].at \in Working
  /\ calls' = [calls EXCEPT ![c] = EndedCall]
  /\ UNCHANGED <<rows, lock, lockDue, price, refused>>

\* The isolate of a call is gone; its lease stays.
Dies(c) ==
  /\ calls[c].at # "idle"
  /\ calls' = [calls EXCEPT ![c] = IdleCall]
  /\ UNCHANGED <<rows, lock, lockDue, price, refused>>

LeaseEnds ==
  /\ lock # NoCall /\ ~lockDue
  /\ lockDue' = TRUE
  /\ UNCHANGED <<rows, lock, price, refused, calls>>

-----------------------------------------------------------------------------
(* What a batch may write, and the session after it. *)

OwnsAnyway(c) == TRUE   \* a mistake: a statement without its EXISTS
Owns(c) == lock = c

Changed(s, cart) == [cart |-> cart, version |-> s.version + 1, token |-> NoToken]

Applied(s, cart) == IF cart = s.cart THEN s ELSE Changed(s, cart)

MayChange(s) == s.version < MaxVersion

\* The batch of call c: the session's row, and the rows of the other tables.
Commit(c, new) ==
  /\ session' = IF Owns(c) THEN new ELSE session
  /\ calls' = [calls EXCEPT ![c] = EndedCall]
  /\ UNCHANGED <<lock, lockDue, price, refused>>

-----------------------------------------------------------------------------
(* POST cart, POST turn. *)

At(c, place, ops) == calls[c].at = place /\ calls[c].input.op \in ops

CommitCart(c) ==
  /\ At(c, "entered", {"cart"})
  /\ MayChange(calls[c].copy)
  /\ \E cart \in Carts : Commit(c, Applied(calls[c].copy, cart))
  /\ UNCHANGED <<review, orders, turns, services, reviews>>

\* A turn on record is answered from it, or refused if its input was another.
TurnLooks(c) ==
  /\ At(c, "entered", Turns)
  /\ calls' = [calls EXCEPT ![c] = IF turns[@.input.request] = NoTurn
                                     THEN [@ EXCEPT !.at = "working"] ELSE EndedCall]
  /\ UNCHANGED <<rows, lock, lockDue, price, refused>>

OwnsTurnAnyway(c) == TRUE   \* a mistake: the turn's statement without its EXISTS
OwnsTurn(c) == Owns(c)

CommitTurn(c) ==
  LET call == calls[c]
      r    == call.input.request
  IN  /\ At(c, "working", Turns)
      /\ MayChange(call.copy)
      /\ Owns(c) => turns[r] = NoTurn   \* the key of kiosk_turns
      /\ \E cart \in (IF call.input.op = "order" THEN Carts ELSE {call.copy.cart}) :
           Commit(c, Applied(call.copy, cart))
      /\ turns' = IF OwnsTurn(c) THEN [turns EXCEPT ![r] = call.input.op] ELSE turns
      /\ services' = IF Owns(c) /\ call.input.op = "service"
                       THEN Append(services, r) ELSE services
      /\ UNCHANGED <<review, orders, reviews>>

-----------------------------------------------------------------------------
(* POST prepare, POST confirm. *)

SnapshotOf(s) == [cart |-> s.cart, price |-> price]

MayReviewNothing(copy) == TRUE   \* a mistake: an empty cart is shown and approved
MayReview(copy) == copy.cart # EmptyCart

PrepareLooks(c) ==
  /\ At(c, "entered", {"prepare"})
  /\ MayReview(calls[c].copy)
  /\ calls' = [calls EXCEPT ![c].at = "working", ![c].seen = SnapshotOf(calls[c].copy)]
  /\ UNCHANGED <<rows, lock, lockDue, price, refused>>

\* After the translation: otherwise the call fails with MENU_CHANGED.
PrepareRechecks(c) ==
  /\ At(c, "working", {"prepare"})
  /\ calls[c].seen = SnapshotOf(calls[c].copy)
  /\ calls' = [calls EXCEPT ![c].at = "ready"]
  /\ UNCHANGED <<rows, lock, lockDue, price, refused>>

CommitPrepare(c) ==
  LET copy == calls[c].copy
      token == reviews + 1
  IN  /\ At(c, "ready", {"prepare"})
      /\ reviews < MaxReviews
      /\ Commit(c, [copy EXCEPT !.token = token])
      /\ IF Owns(c)
           THEN /\ review' = [token |-> token, version |-> copy.version,
                              snapshot |-> calls[c].seen, due |-> FALSE]
                /\ reviews' = token
           ELSE UNCHANGED <<review, reviews>>
      /\ UNCHANGED <<orders, turns, services>>

ReviewEnds ==
  /\ review # NoReview /\ ~review.due
  /\ review' = [review EXCEPT !.due = TRUE]
  /\ UNCHANGED <<session, lock, lockDue, orders, turns, services, price, reviews, refused, calls>>

MenuChanges ==
  /\ price' \in Prices \ {price}
  /\ UNCHANGED <<rows, lock, lockDue, refused, calls>>

Ordered == {orders[i].token : i \in DOMAIN orders}

\* An order placed with this token already is the answer.
ConfirmLooks(c) ==
  /\ At(c, "entered", {"confirm"})
  /\ calls' = [calls EXCEPT ![c] = IF @.input.token \in Ordered THEN EndedCall
                                     ELSE [@ EXCEPT !.at = "checking"]]
  /\ UNCHANGED <<rows, lock, lockDue, price, refused>>

\* A mistake: the session is not asked which review is its own.
StandsByToken(copy, token) == review # NoReview /\ review.token = token
Stands(copy, token) ==
  /\ review # NoReview /\ review.token = token
  /\ copy.token = token /\ copy.version = review.version

\* Otherwise CONFIRMATION_EXPIRED or PRICE_CHANGED: the call fails.
ConfirmChecks(c) ==
  /\ At(c, "checking", {"confirm"})
  /\ Stands(calls[c].copy, calls[c].input.token)
  /\ ~review.due /\ review.snapshot = SnapshotOf(calls[c].copy)
  /\ calls' = [calls EXCEPT ![c].at = "ready", ![c].seen = review.snapshot]
  /\ UNCHANGED <<rows, lock, lockDue, price, refused>>

ConfirmIsStale(c) ==
  /\ At(c, "checking", {"confirm"})
  /\ ~Stands(calls[c].copy, calls[c].input.token)
  /\ refused' = refused \cup {calls[c].input.token}
  /\ calls' = [calls EXCEPT ![c] = EndedCall]
  /\ UNCHANGED <<rows, lock, lockDue, price>>

CommitConfirm(c) ==
  /\ At(c, "ready", {"confirm"})
  /\ MayChange(calls[c].copy)
  /\ Owns(c) => calls[c].input.token \notin Ordered   \* a unique index of kiosk_orders
  /\ Commit(c, Changed(calls[c].copy, EmptyCart))
  /\ orders' = IF Owns(c) THEN Append(orders, [token |-> calls[c].input.token,
                                               snapshot |-> calls[c].seen]) ELSE orders
  /\ UNCHANGED <<review, turns, services, reviews>>

Next ==
  \/ \E c \in Calls :
       \/ \E i \in Inputs : Enter(c, i)
       \/ Leave(c) \/ Fails(c) \/ Dies(c)
       \/ CommitCart(c) \/ TurnLooks(c) \/ CommitTurn(c)
       \/ PrepareLooks(c) \/ PrepareRechecks(c) \/ CommitPrepare(c)
       \/ ConfirmLooks(c) \/ ConfirmChecks(c) \/ ConfirmIsStale(c) \/ CommitConfirm(c)
  \/ LeaseEnds \/ ReviewEnds \/ MenuChanges

Spec == Init /\ [][Next]_vars

-----------------------------------------------------------------------------
(* Properties. *)

Places == {"idle", "leaving"} \cup Working
Given  ==
  [op : Turns, request : Requests] \cup [op : {"cart", "prepare"}]
  \cup [op : {"confirm"}, token : 1..MaxReviews]
Call   == [at : Places, input : Given \cup {NoInput}, copy : Session \cup {NoCopy},
           seen : Snapshot \cup {NoSnapshot}]

\* Every variable holds a value of its kind, and no order is empty: nothing can be
\* approved that was not in a cart that was shown (kiosk-api.ts:175).
TypeOK ==
  /\ session \in Session
  /\ lock \in Calls \cup {NoCall} /\ lockDue \in BOOLEAN
  /\ review \in Row \cup {NoReview}
  /\ orders \in Seq(Order)
  /\ \A i \in DOMAIN orders : orders[i].snapshot.cart # EmptyCart
  /\ turns \in [Requests -> Turns \cup {NoTurn}]
  /\ services \in Seq(Requests)
  /\ price \in Prices /\ reviews \in 0..MaxReviews /\ refused \subseteq 1..reviews
  /\ calls \in [Calls -> Call]

\* The inductive invariant of the session.  The review the session names is the one in the
\* table and shows the session's cart; what was ordered or refused it names no more; the
\* holder of the lease has the session as it is, and so has a call that approves, whether
\* it holds the lease or not, as long as the session names the review it approves.
TableInv ==
  /\ session.token # NoToken =>
       /\ review # NoReview
       /\ review.token = session.token /\ review.version = session.version
       /\ review.snapshot.cart = session.cart /\ session.cart # EmptyCart
  /\ review # NoReview => review.token \in 1..reviews
  /\ Ordered \cup refused \subseteq 1..reviews
  /\ session.token \notin Ordered \cup refused

CallInv(c) ==
  LET call == calls[c] IN call.at \in Working =>
    /\ call.input \in Given /\ call.copy \in Session
    /\ lock = c => call.copy = session
    /\ call.at = "checking" => call.input.op = "confirm"
    /\ call.input.op = "confirm" =>
         /\ call.input.token \in 1..reviews
         /\ session.token = call.input.token => call.copy = session
    /\ lock = c /\ call.at = "ready" /\ call.input.op = "confirm" =>
         session.token = call.input.token /\ call.seen = review.snapshot
    /\ call.at # "entered" /\ call.input.op = "prepare" =>
         /\ call.seen \in Snapshot
         /\ call.seen.cart = call.copy.cart /\ call.copy.cart # EmptyCart

SessionInv == TableInv /\ \A c \in Calls : CallInv(c)

\* Nothing is written on a stale copy: a call that still has the lease, whatever happened
\* since it took it, has the session as it is (kiosk-store.ts:22, :30 and :34).
HolderHasTheLatest ==
  \A c \in Calls : lock = c /\ calls[c].at \in Working => calls[c].copy = session

\* A request to the staff is on record exactly once, and if and only if its turn is:
\* the kiosk repeats a turn until it is answered, also while the first call still runs,
\* and after a call that died or lost its lease (kiosk-api.ts:119 and :145).
RequestsAreServedOnce ==
  /\ \A i, j \in DOMAIN services : services[i] = services[j] => i = j
  /\ \A r \in Requests : turns[r] = "service" <=> \E i \in DOMAIN services : services[i] = r

\* A call is robbed of its lease only when it has run out (kiosk-store.ts:22 and :26).
LeasesAreKept ==
  [][\A c \in Calls : lock = c /\ lock' # c => lockDue \/ calls[c].at = "leaving"]_vars

\* Once an approval was answered STALE_CONFIRMATION, on which the kiosk goes back to the
\* cart, no approval of that review orders anything: not one sent earlier either, which
\* comes late, or was checked before and is about to commit (kiosk-api.ts:196).
RefusalsAreFinal ==
  [][\A t \in refused : t \in Ordered' => t \in Ordered]_vars

\* The review that can still be approved.
Shown ==
  IF review # NoReview /\ session.token = review.token /\ session.version = review.version
    THEN [token |-> review.token, snapshot |-> review.snapshot] ELSE NoReview

Table == INSTANCE TableOrder WITH cart <- session.cart, review <- Shown, Tokens <- 1..MaxReviews

\* The session is a table's order book: what is ordered is what was shown last, once,
\* with the cart still as shown; any change of the cart withdraws it.
TableIsKept == Table!Spec
=============================================================================
