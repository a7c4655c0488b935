-------------------------- MODULE KioskSessions_proofs --------------------------
(***************************************************************************)
(* Proofs about KioskSessions: the lease that fences every statement, the  *)
(* requests and refusals, and the table's order book (TableOrder).         *)
(***************************************************************************)
EXTENDS KioskSessions, SequenceTheorems, TLAPS

USE DEF NoToken

\* A call another one does not touch keeps its part of the invariant: while it holds the
\* lease the session stands still, and no later session names an earlier review again.
LEMMA UntouchedCall ==
  ASSUME NEW d \in Calls, TypeOK, CallInv(d), calls'[d] = calls[d],
         lock' = d => lock = d /\ session' = session /\ review'.snapshot = review.snapshot,
         reviews \in Nat, reviews' \in Nat, reviews' >= reviews,
         session' = session \/ session'.token = NoToken \/ session'.token = reviews + 1
  PROVE  CallInv(d)'
<1> SUFFICES ASSUME calls[d].at \in Working
             PROVE  CallInv(d)'
  BY DEF CallInv, Working
<1>1. calls[d].input \in Given /\ calls[d].copy \in Session
  BY DEF CallInv
<1>2. lock' = d => calls[d].copy = session'
  BY DEF CallInv
<1>3. ASSUME calls[d].input.op = "confirm"
      PROVE  /\ calls[d].input.token \in 1..reviews'
             /\ session'.token = calls[d].input.token => calls[d].copy = session'
  BY <1>3 DEF CallInv
<1>4. ASSUME lock' = d, calls[d].at = "ready", calls[d].input.op = "confirm"
      PROVE  session'.token = calls[d].input.token /\ calls[d].seen = review'.snapshot
  BY <1>4 DEF CallInv
<1> QED
  BY <1>1, <1>2, <1>3, <1>4 DEF CallInv, Working

\* A call at rest has nothing to show.
LEMMA RestingCall ==
  ASSUME NEW d \in Calls, calls'[d].at \notin Working
  PROVE  CallInv(d)'
BY DEF CallInv, Working

\* The session a change leaves is a session, with no review.
LEMMA ChangedSession ==
  ASSUME NEW s \in Session, NEW cart \in Carts, MayChange(s)
  PROVE  /\ Changed(s, cart) \in Session /\ Changed(s, cart).token = NoToken
         /\ Changed(s, cart).cart = cart
         /\ Applied(s, cart) \in Session
         /\ Applied(s, cart) = s \/ Applied(s, cart).token = NoToken
         /\ Applied(s, cart).cart = cart
BY SessionsAssumption DEF Changed, Applied, MayChange, Session

\* What a batch writes, told by whether its call holds the lease.
LEMMA CommitFacts ==
  ASSUME NEW c \in Calls, NEW new, Commit(c, new)
  PROVE  /\ lock = c => session' = new
         /\ lock # c => session' = session
         /\ lock' = lock /\ lockDue' = lockDue /\ price' = price /\ refused' = refused
         /\ calls' = [calls EXCEPT ![c] = EndedCall]
BY DEF Commit, Owns

\* Calls at rest are calls.
LEMMA RestFacts ==
  /\ IdleCall \in Call /\ IdleCall.at = "idle"
  /\ EndedCall \in Call /\ EndedCall.at = "leaving"
BY DEF IdleCall, EndedCall, Call, Places

-----------------------------------------------------------------------------
(* The invariant holds initially. *)

LEMMA InitInv == Init => TypeOK /\ SessionInv
<1> SUFFICES ASSUME Init PROVE TypeOK /\ SessionInv
  OBVIOUS
<1>1. session \in Session /\ reviews \in 0..MaxReviews
  BY SessionsAssumption DEF Init, Session
<1>2. TypeOK
  <2>1. /\ <<>> \in Seq(Order) /\ <<>> \in Seq(Requests)
        /\ \A i \in DOMAIN <<>> : FALSE
    OBVIOUS
  <2>2. calls \in [Calls -> Call] /\ turns \in [Requests -> Turns \cup {NoTurn}]
    BY RestFacts DEF Init
  <2> QED
    BY <1>1, <2>1, <2>2 DEF Init, TypeOK
<1>3. TableInv
  BY DEF Init, TableInv, Ordered
<1>4. \A c \in Calls : CallInv(c)
  BY DEF Init, CallInv, IdleCall, Working
<1> QED
  BY <1>2, <1>3, <1>4 DEF SessionInv

-----------------------------------------------------------------------------
(* Every step keeps every variable a value of its kind. *)

\* The holder's commits, each with what it makes of the session.
LEMMA CommitTypes ==
  ASSUME TypeOK, NEW c \in Calls, NEW new, Commit(c, new), lock = c => new \in Session
  PROVE  /\ session' \in Session /\ calls' \in [Calls -> Call]
         /\ lock' \in Calls \cup {NoCall} /\ lockDue' \in BOOLEAN
         /\ price' \in Prices /\ refused' = refused
BY CommitFacts, RestFacts DEF TypeOK

LEMMA TypeStep == TypeOK /\ SessionInv /\ [Next]_vars => TypeOK'
<1> SUFFICES ASSUME TypeOK, SessionInv, [Next]_vars
             PROVE  TypeOK'
  OBVIOUS
<1> USE DEF rows
<1>1. ASSUME NEW c \in Calls, NEW i \in Inputs, Enter(c, i)
      PROVE  TypeOK'
  <2>1. i \in Given
    BY SessionsAssumption DEF Inputs, Given, TypeOK
  <2>2. [IdleCall EXCEPT !.at = "entered", !.input = i, !.copy = session] \in Call
    BY <2>1, RestFacts DEF TypeOK, Call, Places, Working, IdleCall
  <2> QED
    BY <1>1, <2>2 DEF Enter, TypeOK
<1>2. ASSUME NEW c \in Calls, Leave(c) \/ Fails(c) \/ Dies(c)
      PROVE  TypeOK'
  BY <1>2, RestFacts DEF Leave, Fails, Dies, TypeOK
<1>3. ASSUME NEW c \in Calls, CommitCart(c)
      PROVE  TypeOK'
  <2>1. PICK cart \in Carts : Commit(c, Applied(calls[c].copy, cart))
    BY <1>3 DEF CommitCart
  <2>2. calls[c].copy \in Session /\ MayChange(calls[c].copy)
    BY <1>3 DEF CommitCart, At, SessionInv, CallInv, Working
  <2> QED
    BY <1>3, <2>1, <2>2, ChangedSession, CommitTypes DEF CommitCart, TypeOK
<1>4. ASSUME NEW c \in Calls, TurnLooks(c)
      PROVE  TypeOK'
  BY <1>4, RestFacts DEF TurnLooks, TypeOK, Call, Places, Working
<1>5. ASSUME NEW c \in Calls, CommitTurn(c)
      PROVE  TypeOK'
  <2> DEFINE r == calls[c].input.request
  <2>1. PICK cart : /\ cart \in Carts
                    /\ Commit(c, Applied(calls[c].copy, cart))
    BY <1>5 DEF CommitTurn, At, SessionInv, CallInv, Working, Session
  <2>2. calls[c].copy \in Session /\ MayChange(calls[c].copy)
    BY <1>5 DEF CommitTurn, At, SessionInv, CallInv, Working
  <2>3. r \in Requests /\ calls[c].input.op \in Turns
    BY <1>5 DEF CommitTurn, At, SessionInv, CallInv, Working, Given, Turns
  <2>4. turns' \in [Requests -> Turns \cup {NoTurn}]
    BY <1>5, <2>3 DEF CommitTurn, TypeOK
  <2>5. services' \in Seq(Requests)
    BY <1>5, <2>3 DEF CommitTurn, TypeOK
  <2> QED
    BY <1>5, <2>1, <2>2, <2>4, <2>5, ChangedSession, CommitTypes DEF CommitTurn, TypeOK
<1>6. ASSUME NEW c \in Calls, PrepareLooks(c)
      PROVE  TypeOK'
  <2>1. SnapshotOf(calls[c].copy) \in Snapshot
    BY <1>6 DEF PrepareLooks, At, SessionInv, CallInv, Working, SnapshotOf, Snapshot, Session,
                TypeOK
  <2> QED
    BY <1>6, <2>1 DEF PrepareLooks, TypeOK, Call, Places, Working
<1>7. ASSUME NEW c \in Calls, PrepareRechecks(c)
      PROVE  TypeOK'
  BY <1>7 DEF PrepareRechecks, TypeOK, Call, Places, Working
<1>8. ASSUME NEW c \in Calls, CommitPrepare(c)
      PROVE  TypeOK'
  <2> DEFINE new == [calls[c].copy EXCEPT !.token = reviews + 1]
  <2>1. /\ calls[c].copy \in Session /\ calls[c].seen \in Snapshot
        /\ reviews + 1 \in 1..MaxReviews /\ Commit(c, new)
    BY <1>8, SessionsAssumption DEF CommitPrepare, At, SessionInv, CallInv, Working, TypeOK
  <2>2. new \in Session
    BY <2>1 DEF Session
  <2>3. review' \in Row \cup {NoReview}
    <3>1. [token |-> reviews + 1, version |-> calls[c].copy.version,
           snapshot |-> calls[c].seen, due |-> FALSE] \in Row
      BY <2>1 DEF Row, Session
    <3> QED
      BY <1>8, <3>1 DEF CommitPrepare, TypeOK
  <2>4. reviews' \in 0..MaxReviews /\ reviews' >= reviews
    BY <1>8, <2>1 DEF CommitPrepare, TypeOK
  <2> QED
    BY <1>8, <2>1, <2>2, <2>3, <2>4, CommitTypes DEF CommitPrepare, TypeOK
<1>9. ASSUME NEW c \in Calls, ConfirmLooks(c)
      PROVE  TypeOK'
  BY <1>9, RestFacts DEF ConfirmLooks, TypeOK, Call, Places, Working
<1>10. ASSUME NEW c \in Calls, ConfirmChecks(c)
       PROVE  TypeOK'
  <2>1. review.snapshot \in Snapshot
    BY <1>10 DEF ConfirmChecks, Stands, TypeOK, Row
  <2> QED
    BY <1>10, <2>1 DEF ConfirmChecks, TypeOK, Call, Places, Working
<1>11. ASSUME NEW c \in Calls, ConfirmIsStale(c)
       PROVE  TypeOK'
  <2>1. calls[c].input.token \in 1..reviews
    BY <1>11 DEF ConfirmIsStale, At, SessionInv, CallInv, Working
  <2> QED
    BY <1>11, <2>1, RestFacts DEF ConfirmIsStale, TypeOK
<1>12. ASSUME NEW c \in Calls, CommitConfirm(c)
       PROVE  TypeOK'
  <2> DEFINE order == [token |-> calls[c].input.token, snapshot |-> calls[c].seen]
  <2>1. calls[c].copy \in Session /\ calls[c].input.token \in 1..reviews
    BY <1>12 DEF CommitConfirm, At, SessionInv, CallInv, Working
  <2>2. ASSUME lock = c
        PROVE  order \in Order /\ order.snapshot.cart # EmptyCart
    <3>1. session.token = calls[c].input.token /\ calls[c].seen = review.snapshot
      BY <1>12, <2>2 DEF CommitConfirm, At, SessionInv, CallInv, Working
    <3>2. review # NoReview /\ review.snapshot.cart # EmptyCart
      BY <2>1, <3>1 DEF SessionInv, TableInv
    <3>3. review.snapshot \in Snapshot /\ calls[c].input.token \in 1..MaxReviews
      BY <2>1, <3>2, SessionsAssumption DEF TypeOK, Row
    <3> QED
      BY <3>1, <3>2, <3>3 DEF Order
  <2>3. /\ orders' \in Seq(Order)
        /\ \A i \in DOMAIN orders' : orders'[i].snapshot.cart # EmptyCart
    BY <1>12, <2>2 DEF CommitConfirm, TypeOK, Owns
  <2> QED
    BY <1>12, <2>1, <2>3, SessionsAssumption, ChangedSession, CommitTypes
       DEF CommitConfirm, TypeOK
<1>13. CASE LeaseEnds \/ ReviewEnds \/ MenuChanges
  BY <1>13 DEF LeaseEnds, ReviewEnds, MenuChanges, TypeOK, Row
<1>14. CASE UNCHANGED vars
  BY <1>14 DEF vars, TypeOK
<1> QED
  BY <1>1, <1>2, <1>3, <1>4, <1>5, <1>6, <1>7, <1>8, <1>9, <1>10, <1>11, <1>12, <1>13, <1>14
     DEF Next

-----------------------------------------------------------------------------
(* Every step keeps the table's part of the invariant. *)

\* A session left as it is, or without a review, needs nothing new of the tables.
LEMMA TableKept ==
  ASSUME TypeOK, TableInv,
         session' = session \/ session'.token = NoToken,
         review' = review, reviews' = reviews, orders' = orders, refused' = refused
  PROVE  TableInv'
<1>1. Ordered' = Ordered
  BY DEF Ordered
<1>2. 0 \notin Ordered \cup refused
  BY DEF TableInv, TypeOK
<1> QED
  BY <1>1, <1>2 DEF TableInv

LEMMA TableStep == TypeOK /\ SessionInv /\ [Next]_vars => TableInv'
<1> SUFFICES ASSUME TypeOK, SessionInv, [Next]_vars
             PROVE  TableInv'
  OBVIOUS
<1> USE DEF rows
<1>0. TableInv
  BY DEF SessionInv
<1>1. ASSUME NEW c \in Calls,
             \/ \E i \in Inputs : Enter(c, i)
             \/ Leave(c) \/ Fails(c) \/ Dies(c) \/ TurnLooks(c) \/ PrepareLooks(c)
             \/ PrepareRechecks(c) \/ ConfirmLooks(c) \/ ConfirmChecks(c)
      PROVE  TableInv'
  BY <1>0, <1>1, TableKept DEF Enter, Leave, Fails, Dies, TurnLooks, PrepareLooks,
     PrepareRechecks, ConfirmLooks, ConfirmChecks
<1>2. ASSUME NEW c \in Calls, CommitCart(c)
      PROVE  TableInv'
  <2>1. PICK cart \in Carts : Commit(c, Applied(calls[c].copy, cart))
    BY <1>2 DEF CommitCart
  <2>2. /\ calls[c].copy \in Session /\ MayChange(calls[c].copy)
        /\ lock = c => calls[c].copy = session
    BY <1>2 DEF CommitCart, At, SessionInv, CallInv, Working
  <2>3. session' = session \/ session'.token = NoToken
    BY <2>1, <2>2, CommitFacts, ChangedSession
  <2> QED
    BY <1>0, <1>2, <2>1, <2>3, CommitFacts, TableKept DEF CommitCart
<1>3. ASSUME NEW c \in Calls, CommitTurn(c)
      PROVE  TableInv'
  <2>1. /\ calls[c].copy \in Session /\ MayChange(calls[c].copy)
        /\ lock = c => calls[c].copy = session
    BY <1>3 DEF CommitTurn, At, SessionInv, CallInv, Working
  <2>2. PICK cart \in Carts : Commit(c, Applied(calls[c].copy, cart))
    BY <1>3, <2>1 DEF CommitTurn, Session
  <2>3. session' = session \/ session'.token = NoToken
    BY <2>1, <2>2, CommitFacts, ChangedSession
  <2> QED
    BY <1>0, <1>3, <2>2, <2>3, CommitFacts, TableKept DEF CommitTurn
<1>4. ASSUME NEW c \in Calls, CommitPrepare(c)
      PROVE  TableInv'
  <2> DEFINE token == reviews + 1
             row   == [token |-> token, version |-> calls[c].copy.version,
                       snapshot |-> calls[c].seen, due |-> FALSE]
             new   == [calls[c].copy EXCEPT !.token = token]
  <2>1. /\ calls[c].copy \in Session /\ calls[c].seen \in Snapshot
        /\ calls[c].seen.cart = calls[c].copy.cart /\ calls[c].copy.cart # EmptyCart
        /\ lock = c => calls[c].copy = session
    BY <1>4 DEF CommitPrepare, At, SessionInv, CallInv, Working
  <2>2. /\ Commit(c, new) /\ orders' = orders
        /\ reviews \in Nat /\ token \in 1..MaxReviews
    BY <1>4, SessionsAssumption DEF CommitPrepare, TypeOK
  <2>3. CASE lock # c
    <3>1. session' = session /\ review' = review /\ reviews' = reviews
      BY <1>4, <2>2, <2>3, CommitFacts DEF CommitPrepare, Owns
    <3> QED
      BY <1>0, <2>2, <3>1, CommitFacts, TableKept
  <2>4. CASE lock = c
    <3>1. session' = new /\ review' = row /\ reviews' = token /\ refused' = refused
      BY <1>4, <2>2, <2>4, CommitFacts DEF CommitPrepare, Owns
    <3>2. /\ new.token = token /\ new.version = calls[c].copy.version
          /\ new.cart = calls[c].copy.cart
      BY <2>1 DEF Session
    <3>3. row \in Row /\ row # NoReview
      <4>1. row \in Row
        BY <2>1, <2>2 DEF Row, Session
      <4> QED
        BY <4>1, SessionsAssumption
    <3>4. Ordered' = Ordered /\ Ordered \cup refused \subseteq 1..reviews
      BY <1>0, <2>2 DEF TableInv, Ordered
    <3>5. token \notin 1..reviews /\ 1..reviews \subseteq 1..token
      BY <2>2
    <3> QED
      BY <2>1, <2>2, <3>1, <3>2, <3>3, <3>4, <3>5 DEF TableInv
  <2> QED
    BY <2>3, <2>4
<1>5. ASSUME NEW c \in Calls, ConfirmIsStale(c)
      PROVE  TableInv'
  <2> DEFINE t == calls[c].input.token
  <2>1. /\ t \in 1..reviews
        /\ session.token = t => calls[c].copy = session
    BY <1>5 DEF ConfirmIsStale, At, SessionInv, CallInv, Working
  <2>2. session.token # t
    BY <1>0, <1>5, <2>1 DEF ConfirmIsStale, Stands, TableInv
  <2>3. /\ session' = session /\ review' = review /\ reviews' = reviews
        /\ Ordered' = Ordered /\ refused' = refused \cup {t}
    BY <1>5 DEF ConfirmIsStale, Ordered
  <2> QED
    BY <1>0, <2>1, <2>2, <2>3 DEF TableInv
<1>6. ASSUME NEW c \in Calls, CommitConfirm(c)
      PROVE  TableInv'
  <2> DEFINE t == calls[c].input.token
             order == [token |-> t, snapshot |-> calls[c].seen]
  <2>1. /\ calls[c].copy \in Session /\ MayChange(calls[c].copy) /\ t \in 1..reviews
        /\ lock = c => session.token = t
    BY <1>6 DEF CommitConfirm, At, SessionInv, CallInv, Working
  <2>2. /\ Commit(c, Changed(calls[c].copy, EmptyCart))
        /\ review' = review /\ reviews' = reviews
    BY <1>6 DEF CommitConfirm
  <2>3. CASE lock # c
    <3>1. orders' = orders
      BY <1>6, <2>3 DEF CommitConfirm, Owns
    <3> QED
      BY <1>0, <2>2, <2>3, <3>1, CommitFacts, TableKept
  <2>4. CASE lock = c
    <3>1. session'.token = NoToken /\ refused' = refused
      BY <2>1, <2>2, <2>4, SessionsAssumption, CommitFacts, ChangedSession
    <3>2. orders' = Append(orders, order) /\ orders \in Seq(Order)
      BY <1>6, <2>4 DEF CommitConfirm, Owns, TypeOK
    <3>3. Ordered' \subseteq Ordered \cup {t}
      <4>1. ASSUME NEW i \in DOMAIN orders'
            PROVE  orders'[i].token \in Ordered \cup {t}
        <5>1. CASE i = Len(orders) + 1
          BY <3>2, <5>1
        <5>2. CASE i \in DOMAIN orders
          BY <3>2, <5>2 DEF Ordered
        <5> QED
          BY <3>2, <5>1, <5>2
      <4> QED
        BY <4>1 DEF Ordered
    <3>4. 0 \notin 1..reviews
      OBVIOUS
    <3> QED
      BY <1>0, <2>1, <2>2, <3>1, <3>3, <3>4 DEF TableInv
  <2> QED
    BY <2>3, <2>4
<1>7. CASE LeaseEnds \/ MenuChanges
  BY <1>0, <1>7, TableKept DEF LeaseEnds, MenuChanges
<1>8. CASE ReviewEnds
  <2>1. /\ review' # NoReview /\ review'.token = review.token
        /\ review'.version = review.version /\ review'.snapshot = review.snapshot
    BY <1>8, SessionsAssumption DEF ReviewEnds, TypeOK, Row
  <2> QED
    BY <1>0, <1>8, <2>1 DEF ReviewEnds, TableInv, Ordered
<1>9. CASE UNCHANGED vars
  BY <1>0, <1>9, TableKept DEF vars
<1> QED
  BY <1>1, <1>2, <1>3, <1>4, <1>5, <1>6, <1>7, <1>8, <1>9 DEF Next

-----------------------------------------------------------------------------
(* Every step keeps the calls' part of the invariant. *)

\* A batch leaves the other calls' part alone: only the holder's is written.
LEMMA OthersAtCommit ==
  ASSUME TypeOK, \A d \in Calls : CallInv(d), NEW c \in Calls, NEW new, Commit(c, new),
         lock # c => review' = review /\ reviews' = reviews,
         reviews' \in Nat, reviews' >= reviews,
         lock = c => new = session \/ new.token = NoToken \/ new.token = reviews + 1
  PROVE  \A d \in Calls : CallInv(d)'
<1> SUFFICES ASSUME NEW d \in Calls PROVE CallInv(d)'
  OBVIOUS
<1>1. CASE d = c
  <2>1. calls'[d] = EndedCall
    BY <1>1, CommitFacts DEF TypeOK
  <2> QED
    BY <2>1, RestFacts, RestingCall DEF Working
<1>2. CASE d # c
  <2>1. calls'[d] = calls[d] /\ lock' = lock
    BY <1>2, CommitFacts DEF TypeOK
  <2>2. lock' = d => session' = session /\ review'.snapshot = review.snapshot
    BY <1>2, <2>1, CommitFacts
  <2>3. session' = session \/ session'.token = NoToken \/ session'.token = reviews + 1
    BY CommitFacts
  <2>4. reviews \in Nat
    BY DEF TypeOK
  <2> QED
    BY <2>1, <2>2, <2>3, <2>4, UntouchedCall
<1> QED
  BY <1>1, <1>2

\* Steps that only move one call on, or only time or the menu.
LEMMA OthersElsewhere ==
  ASSUME TypeOK, \A d \in Calls : CallInv(d),
         session' = session, review'.snapshot = review.snapshot, reviews' = reviews,
         NEW d \in Calls, calls'[d] = calls[d], lock' = d => lock = d
  PROVE  CallInv(d)'
<1>1. reviews \in Nat
  BY DEF TypeOK
<1> QED
  BY <1>1, UntouchedCall

LEMMA CallsStep == TypeOK /\ SessionInv /\ [Next]_vars => \A d \in Calls : CallInv(d)'
<1> SUFFICES ASSUME TypeOK, SessionInv, [Next]_vars
             PROVE  \A d \in Calls : CallInv(d)'
  OBVIOUS
<1> USE DEF rows
<1>0. /\ \A d \in Calls : CallInv(d)
      /\ reviews \in Nat /\ calls \in [Calls -> Call] /\ session \in Session
  BY DEF SessionInv, TypeOK
<1>1. ASSUME NEW c \in Calls, NEW i \in Inputs, Enter(c, i), NEW d \in Calls
      PROVE  CallInv(d)'
  <2>1. CASE d = c
    <3>1. /\ calls'[d].at = "entered" /\ calls'[d].input = i /\ calls'[d].copy = session
          /\ session' = session /\ reviews' = reviews
      BY <1>0, <1>1, <2>1 DEF Enter, IdleCall
    <3>2. i \in Given /\ (i.op = "confirm" => i.token \in 1..reviews)
      BY SessionsAssumption DEF Inputs, Given, TypeOK, Turns
    <3> QED
      BY <1>0, <3>1, <3>2 DEF CallInv, Working
  <2>2. CASE d # c
    BY <1>0, <1>1, <2>2, OthersElsewhere DEF Enter
  <2> QED
    BY <2>1, <2>2
<1>2. ASSUME NEW c \in Calls, Leave(c) \/ Fails(c) \/ Dies(c) \/ ConfirmIsStale(c),
             NEW d \in Calls
      PROVE  CallInv(d)'
  <2>1. CASE d = c
    <3>1. calls'[d] \in {IdleCall, EndedCall}
      BY <1>0, <1>2, <2>1 DEF Leave, Fails, Dies, ConfirmIsStale
    <3> QED
      BY <3>1, RestFacts, RestingCall DEF Working
  <2>2. CASE d # c
    <3>1. lock' = d => lock = d
      BY <1>2, SessionsAssumption DEF Leave, Fails, Dies, ConfirmIsStale
    <3> QED
      BY <1>0, <1>2, <2>2, <3>1, OthersElsewhere DEF Leave, Fails, Dies, ConfirmIsStale
  <2> QED
    BY <2>1, <2>2
<1>3. ASSUME NEW c \in Calls, TurnLooks(c) \/ ConfirmLooks(c), NEW d \in Calls
      PROVE  CallInv(d)'
  <2>1. CASE d = c
    <3>1. CASE calls'[d] = EndedCall
      BY <3>1, RestFacts, RestingCall DEF Working
    <3>2. CASE /\ TurnLooks(c) /\ calls'[d] = [calls[c] EXCEPT !.at = "working"]
      <4>1. /\ calls'[d].at = "working" /\ calls'[d].input = calls[d].input
            /\ calls'[d].copy = calls[d].copy /\ calls[d].at = "entered"
            /\ calls[d].input.op \in {"order", "service"}
            /\ lock' = lock /\ session' = session /\ reviews' = reviews
        BY <1>0, <2>1, <3>2 DEF TurnLooks, At, Turns, Call
      <4> QED
        BY <1>0, <4>1 DEF CallInv, Working
    <3>3. CASE /\ ConfirmLooks(c) /\ calls'[d] = [calls[c] EXCEPT !.at = "checking"]
      <4>1. /\ calls'[d].at = "checking" /\ calls'[d].input = calls[d].input
            /\ calls'[d].copy = calls[d].copy /\ calls[d].at = "entered"
            /\ calls[d].input.op = "confirm"
            /\ lock' = lock /\ session' = session /\ reviews' = reviews
        BY <1>0, <2>1, <3>3 DEF ConfirmLooks, At, Call
      <4> QED
        BY <1>0, <4>1 DEF CallInv, Working
    <3> QED
      BY <1>0, <1>3, <2>1, <3>1, <3>2, <3>3 DEF TurnLooks, ConfirmLooks
  <2>2. CASE d # c
    BY <1>0, <1>3, <2>2, OthersElsewhere DEF TurnLooks, ConfirmLooks
  <2> QED
    BY <2>1, <2>2
<1>4. ASSUME NEW c \in Calls, PrepareLooks(c) \/ PrepareRechecks(c), NEW d \in Calls
      PROVE  CallInv(d)'
  <2>1. CASE d = c
    <3>1. /\ calls'[d].input = calls[d].input /\ calls'[d].copy = calls[d].copy
          /\ calls[d].at \in Working /\ calls[d].input.op = "prepare"
          /\ calls'[d].at \in {"working", "ready"}
          /\ lock' = lock /\ session' = session /\ reviews' = reviews
      BY <1>0, <1>4, <2>1 DEF PrepareLooks, PrepareRechecks, At, Call, Working
    <3>2. /\ calls'[d].seen \in Snapshot
          /\ calls'[d].seen.cart = calls[d].copy.cart /\ calls[d].copy.cart # EmptyCart
      <4>1. CASE PrepareLooks(c)
        <5>1. calls'[d].seen = SnapshotOf(calls[d].copy) /\ calls[d].copy.cart # EmptyCart
          BY <1>0, <2>1, <4>1 DEF PrepareLooks, MayReview, Call
        <5>2. calls[d].copy.cart \in Carts /\ price \in Prices
          BY <1>0, <3>1 DEF CallInv, Session, TypeOK
        <5> QED
          BY <5>1, <5>2 DEF SnapshotOf, Snapshot
      <4>2. CASE PrepareRechecks(c)
        <5>1. calls'[d].seen = calls[d].seen /\ calls[d].at = "working"
          BY <1>0, <2>1, <4>2 DEF PrepareRechecks, At, Call
        <5> QED
          BY <1>0, <3>1, <5>1 DEF CallInv
      <4> QED
        BY <1>4, <4>1, <4>2
    <3> QED
      BY <1>0, <3>1, <3>2 DEF CallInv, Working
  <2>2. CASE d # c
    BY <1>0, <1>4, <2>2, OthersElsewhere DEF PrepareLooks, PrepareRechecks
  <2> QED
    BY <2>1, <2>2
<1>5. ASSUME NEW c \in Calls, ConfirmChecks(c), NEW d \in Calls
      PROVE  CallInv(d)'
  <2>1. CASE d = c
    <3>1. /\ calls'[d].at = "ready" /\ calls'[d].input = calls[d].input
          /\ calls'[d].copy = calls[d].copy /\ calls'[d].seen = review.snapshot
          /\ calls[d].at = "checking" /\ calls[d].input.op = "confirm"
          /\ calls[d].copy.token = calls[d].input.token
          /\ lock' = lock /\ session' = session /\ reviews' = reviews /\ review' = review
      BY <1>0, <1>5, <2>1 DEF ConfirmChecks, At, Call, Stands
    <3> QED
      BY <1>0, <3>1 DEF CallInv, Working
  <2>2. CASE d # c
    BY <1>0, <1>5, <2>2, OthersElsewhere DEF ConfirmChecks
  <2> QED
    BY <2>1, <2>2
<1>6. ASSUME NEW c \in Calls, CommitCart(c) \/ CommitTurn(c)
      PROVE  \A d \in Calls : CallInv(d)'
  <2>1. /\ calls[c].copy \in Session /\ MayChange(calls[c].copy)
        /\ lock = c => calls[c].copy = session
    BY <1>0, <1>6 DEF CommitCart, CommitTurn, At, CallInv, Working
  <2>2. PICK cart \in Carts : Commit(c, Applied(calls[c].copy, cart))
    BY <1>6, <2>1 DEF CommitCart, CommitTurn, Session
  <2>3. review' = review /\ reviews' = reviews
    BY <1>6 DEF CommitCart, CommitTurn
  <2> QED
    BY <1>0, <2>1, <2>2, <2>3, ChangedSession, OthersAtCommit
<1>7. ASSUME NEW c \in Calls, CommitPrepare(c)
      PROVE  \A d \in Calls : CallInv(d)'
  <2> DEFINE new == [calls[c].copy EXCEPT !.token = reviews + 1]
  <2>1. calls[c].copy \in Session /\ Commit(c, new)
    BY <1>0, <1>7 DEF CommitPrepare, At, CallInv, Working
  <2>2. new.token = reviews + 1
    BY <2>1 DEF Session
  <2>3. /\ lock # c => review' = review /\ reviews' = reviews
        /\ reviews' \in Nat /\ reviews' >= reviews
    BY <1>0, <1>7 DEF CommitPrepare, Owns
  <2> HIDE DEF new
  <2> QED
    BY <1>0, <2>1, <2>2, <2>3, OthersAtCommit
<1>8. ASSUME NEW c \in Calls, CommitConfirm(c)
      PROVE  \A d \in Calls : CallInv(d)'
  <2>1. /\ calls[c].copy \in Session /\ MayChange(calls[c].copy)
        /\ Commit(c, Changed(calls[c].copy, EmptyCart))
        /\ review' = review /\ reviews' = reviews
    BY <1>0, <1>8 DEF CommitConfirm, At, CallInv, Working
  <2> QED
    BY <1>0, <2>1, SessionsAssumption, ChangedSession, OthersAtCommit
<1>9. ASSUME LeaseEnds \/ ReviewEnds \/ MenuChanges \/ UNCHANGED vars, NEW d \in Calls
      PROVE  CallInv(d)'
  <2>1. /\ calls' = calls /\ lock' = lock /\ session' = session /\ reviews' = reviews
    BY <1>9 DEF LeaseEnds, ReviewEnds, MenuChanges, vars
  <2>2. review'.snapshot = review.snapshot
    BY <1>9 DEF LeaseEnds, ReviewEnds, MenuChanges, vars, TypeOK, Row
  <2> QED
    BY <1>0, <2>1, <2>2, OthersElsewhere
<1> QED
  BY <1>1, <1>2, <1>3, <1>4, <1>5, <1>6, <1>7, <1>8, <1>9 DEF Next

-----------------------------------------------------------------------------
(* Theorems. *)

\* In every reachable state the variables are of their kind and the invariant holds: the
\* review in the table is the one the session names and shows its cart, whatever calls
\* stalled, died or lost their lease.
THEOREM SessionHolds == Spec => [](TypeOK /\ SessionInv)
<1>1. Init => TypeOK /\ SessionInv
  BY InitInv
<1>2. (TypeOK /\ SessionInv) /\ [Next]_vars => (TypeOK /\ SessionInv)'
  BY TypeStep, TableStep, CallsStep DEF SessionInv
<1> QED
  BY <1>1, <1>2, PTL DEF Spec

\* No write is made on a stale copy of the session.
THEOREM HolderIsUpToDate == Spec => []HolderHasTheLatest
<1>1. TypeOK /\ SessionInv => HolderHasTheLatest
  BY DEF SessionInv, CallInv, HolderHasTheLatest
<1> QED
  BY <1>1, SessionHolds, PTL

\* A request to the staff is recorded exactly once, with its turn.
THEOREM RequestsOnce == Spec => []RequestsAreServedOnce
<1>1. Init => RequestsAreServedOnce
  BY SessionsAssumption DEF Init, RequestsAreServedOnce, Turns
<1>2. TypeOK /\ SessionInv /\ RequestsAreServedOnce /\ [Next]_vars => RequestsAreServedOnce'
  <2> SUFFICES ASSUME TypeOK, SessionInv, RequestsAreServedOnce, [Next]_vars
               PROVE  RequestsAreServedOnce'
    OBVIOUS
  <2>1. ASSUME UNCHANGED <<turns, services>>
        PROVE  RequestsAreServedOnce'
    BY <2>1 DEF RequestsAreServedOnce
  <2>2. ASSUME NEW c \in Calls, CommitTurn(c)
        PROVE  RequestsAreServedOnce'
    <3> DEFINE r == calls[c].input.request
               op == calls[c].input.op
    <3>1. r \in Requests /\ op \in {"order", "service"}
      BY <2>2 DEF CommitTurn, At, SessionInv, CallInv, Working, Given, Turns
    <3>2. CASE lock # c
      BY <2>1, <2>2, <3>2 DEF CommitTurn, OwnsTurn, Owns
    <3>3. CASE lock = c
      <4>1. /\ turns[r] = NoTurn /\ turns' = [turns EXCEPT ![r] = op]
            /\ services' = IF op = "service" THEN Append(services, r) ELSE services
        BY <2>2, <3>3 DEF CommitTurn, OwnsTurn, Owns
      <4>2. \A i \in DOMAIN services : services[i] # r
        BY <3>1, <4>1, SessionsAssumption DEF RequestsAreServedOnce, Turns
      <4>3. services \in Seq(Requests) /\ turns \in [Requests -> Turns \cup {NoTurn}]
        BY DEF TypeOK
      <4>4. CASE op = "order"
        BY <3>1, <4>1, <4>2, <4>3, <4>4 DEF RequestsAreServedOnce
      <4>5. CASE op = "service"
        <5>1. /\ DOMAIN services' = 1 .. Len(services) + 1
              /\ services'[Len(services) + 1] = r
              /\ \A i \in 1 .. Len(services) : services'[i] = services[i]
              /\ DOMAIN services = 1 .. Len(services) /\ Len(services) \in Nat
          BY <3>1, <4>1, <4>3, <4>5
        <5>2. \A i \in DOMAIN services' : i \in DOMAIN services \/ i = Len(services) + 1
          BY <5>1
        <5>3. \A i, j \in DOMAIN services' : services'[i] = services'[j] => i = j
          BY <4>2, <5>1, <5>2 DEF RequestsAreServedOnce
        <5>4. ASSUME NEW q \in Requests
              PROVE  turns'[q] = "service" <=> \E i \in DOMAIN services' : services'[i] = q
          <6>1. CASE q = r
            <7>1. Len(services) + 1 \in DOMAIN services'
              BY <5>1
            <7> QED
              BY <3>1, <4>1, <4>3, <4>5, <5>1, <6>1, <7>1
          <6>2. CASE q # r
            <7>1. turns'[q] = turns[q]
              BY <4>1, <4>3, <6>2
            <7>2. (\E i \in DOMAIN services' : services'[i] = q)
                    <=> \E i \in DOMAIN services : services[i] = q
              BY <5>1, <5>2, <6>2
            <7> QED
              BY <7>1, <7>2 DEF RequestsAreServedOnce
          <6> QED
            BY <6>1, <6>2
        <5> QED
          BY <5>3, <5>4 DEF RequestsAreServedOnce
      <4> QED
        BY <3>1, <4>4, <4>5
    <3> QED
      BY <3>2, <3>3
  <2> QED
    BY <2>1, <2>2 DEF Next, Enter, Leave, Fails, Dies, CommitCart, TurnLooks, PrepareLooks,
       PrepareRechecks, CommitPrepare, ConfirmLooks, ConfirmChecks, ConfirmIsStale,
       CommitConfirm, LeaseEnds, ReviewEnds, MenuChanges, rows, vars
<1> QED
  BY <1>1, <1>2, SessionHolds, PTL DEF Spec

\* No working call is robbed of a lease that has not run out.
THEOREM LeasesHold == Spec => LeasesAreKept
<1>1. ASSUME [Next]_vars, NEW c \in Calls, lock = c, lock' # c
      PROVE  lockDue \/ calls[c].at = "leaving"
  <2>1. ASSUME NEW d \in Calls, Leave(d)
        PROVE  lockDue \/ calls[c].at = "leaving"
    BY <1>1, <2>1 DEF Leave, GivesBack
  <2>2. ASSUME NEW d \in Calls, NEW i \in Inputs, Enter(d, i)
        PROVE  lockDue \/ calls[c].at = "leaving"
    BY <1>1, <2>2, SessionsAssumption DEF Enter, MayEnter
  <2> QED
    BY <1>1, <2>1, <2>2 DEF Next, Fails, Dies, CommitCart, CommitTurn, TurnLooks, PrepareLooks,
       PrepareRechecks, CommitPrepare, ConfirmLooks, ConfirmChecks, ConfirmIsStale,
       CommitConfirm, Commit, LeaseEnds, ReviewEnds, MenuChanges, vars
<1>2. [Next]_vars =>
        [\A c \in Calls : lock = c /\ lock' # c => lockDue \/ calls[c].at = "leaving"]_vars
  BY <1>1
<1> QED
  BY <1>2, PTL DEF Spec, LeasesAreKept

\* An order is only added by the holder, for the review the session names.
LEMMA OrdersGrow ==
  ASSUME TypeOK, SessionInv, [Next]_vars, orders' # orders
  PROVE  /\ session.token # NoToken
         /\ orders' = Append(orders, [token |-> session.token, snapshot |-> review.snapshot])
         /\ session'.cart = EmptyCart /\ session'.token = NoToken
         /\ review' = review /\ services' = services
<1>1. PICK c \in Calls : CommitConfirm(c) /\ lock = c
  BY DEF Next, Enter, Leave, Fails, Dies, CommitCart, CommitTurn, TurnLooks, PrepareLooks,
     PrepareRechecks, CommitPrepare, ConfirmLooks, ConfirmChecks, ConfirmIsStale,
     CommitConfirm, Owns, LeaseEnds, ReviewEnds, MenuChanges, rows, vars
<1>2. /\ calls[c].copy \in Session /\ MayChange(calls[c].copy)
      /\ calls[c].input.token \in 1..reviews
      /\ session.token = calls[c].input.token /\ calls[c].seen = review.snapshot
  BY <1>1 DEF CommitConfirm, At, SessionInv, CallInv, Working
<1>3. session' = Changed(calls[c].copy, EmptyCart)
  BY <1>1, CommitFacts DEF CommitConfirm
<1> QED
  BY <1>1, <1>2, <1>3, SessionsAssumption, ChangedSession DEF CommitConfirm, Owns

\* No approval of a review that was refused as stale orders anything later.
THEOREM RefusalsHold == Spec => RefusalsAreFinal
<1>1. ASSUME TypeOK, SessionInv, [Next]_vars, NEW t \in refused, t \in Ordered'
      PROVE  t \in Ordered
  <2>1. CASE orders' = orders
    BY <1>1, <2>1 DEF Ordered
  <2>2. CASE orders' # orders
    <3>1. /\ orders' = Append(orders, [token |-> session.token, snapshot |-> review.snapshot])
          /\ orders \in Seq(Order) /\ t # session.token
      BY <1>1, <2>2, OrdersGrow DEF SessionInv, TableInv, TypeOK
    <3>2. PICK i \in DOMAIN orders' : orders'[i].token = t
      BY <1>1 DEF Ordered
    <3>3. i # Len(orders) + 1
      BY <3>1, <3>2
    <3>4. i \in DOMAIN orders /\ orders'[i] = orders[i]
      BY <3>1, <3>3
    <3> QED
      BY <3>2, <3>4 DEF Ordered
  <2> QED
    BY <2>1, <2>2
<1>2. TypeOK /\ SessionInv /\ [Next]_vars =>
        [\A t \in refused : t \in Ordered' => t \in Ordered]_vars
  BY <1>1
<1> QED
  BY <1>2, SessionHolds, PTL DEF Spec, RefusalsAreFinal

-----------------------------------------------------------------------------
(* The session implements the table's order book. *)

\* What can be approved is what the session names.
LEMMA ShownFacts ==
  TypeOK /\ TableInv =>
    /\ session.token = NoToken => Shown = NoReview
    /\ session.token # NoToken =>
         /\ Shown = [token |-> session.token, snapshot |-> review.snapshot]
         /\ Shown # NoReview
<1> SUFFICES ASSUME TypeOK, TableInv
             PROVE  /\ session.token = NoToken => Shown = NoReview
                    /\ session.token # NoToken =>
                         /\ Shown = [token |-> session.token, snapshot |-> review.snapshot]
                         /\ Shown # NoReview
  OBVIOUS
<1>1. ASSUME session.token = NoToken
      PROVE  Shown = NoReview
  BY <1>1 DEF Shown, TableInv, TypeOK
<1>2. ASSUME session.token # NoToken
      PROVE  /\ Shown = [token |-> session.token, snapshot |-> review.snapshot]
             /\ Shown # NoReview
  <2>1. review \in Row /\ review.token = session.token /\ review.version = session.version
    BY <1>2 DEF TableInv, TypeOK
  <2>2. Shown = [token |-> session.token, snapshot |-> review.snapshot]
    BY <1>2, <2>1 DEF Shown, TableInv
  <2>3. Shown \in Order
    BY <2>1, <2>2 DEF Row, Order
  <2> QED
    BY <2>2, <2>3, SessionsAssumption
<1> QED
  BY <1>1, <1>2

LEMMA ShownNext ==
  (TypeOK /\ TableInv)' =>
    /\ session'.token = NoToken => Shown' = NoReview
    /\ session'.token # NoToken =>
         /\ Shown' = [token |-> session'.token, snapshot |-> review'.snapshot]
         /\ Shown' # NoReview
<1>1. (TypeOK /\ TableInv =>
         /\ session.token = NoToken => Shown = NoReview
         /\ session.token # NoToken =>
              /\ Shown = [token |-> session.token, snapshot |-> review.snapshot]
              /\ Shown # NoReview)'
  BY ShownFacts, PTL
<1> QED
  BY <1>1

\* A step that leaves the session and the review's content alone stutters.
LEMMA TableStutters ==
  ASSUME TypeOK, TableInv, TypeOK', TableInv',
         session' = session, orders' = orders, services' = services,
         review'.snapshot = review.snapshot
  PROVE  UNCHANGED Table!vars
<1>1. Shown' = Shown
  BY ShownFacts, ShownNext
<1> QED
  BY <1>1 DEF Table!vars

\* A batch that keeps the cart stutters too, one that changes it withdraws the review.
LEMMA TableAtChange ==
  ASSUME TypeOK, TableInv, TypeOK', TableInv',
         NEW cart \in Carts, session' = session \/ session' = Applied(session, cart),
         MayChange(session), orders' = orders, services' = services, review' = review
  PROVE  [Table!Next]_Table!vars
<1>1. CASE session' = session
  BY <1>1, TableStutters
<1>2. CASE session' # session
  <2>1. session' = Changed(session, cart) /\ cart # session.cart
    BY <1>2 DEF Applied
  <2>2. session'.cart = cart /\ session'.token = NoToken
    BY <2>1, ChangedSession DEF TypeOK
  <2>3. Shown' = NoReview
    BY <2>2, ShownNext
  <2> QED
    BY <2>1, <2>2, <2>3 DEF Table!Next, Table!Change
<1> QED
  BY <1>1, <1>2

\* What is ordered is what was shown last, as the cart still is, once; whatever changes the
\* cart withdraws it; a request is passed on once: KioskSessions implements TableOrder.
THEOREM TableHolds == Spec => TableIsKept
<1>1. Init => Table!Init
  BY DEF Init, Table!Init, Shown
<1>2. /\ TypeOK /\ SessionInv /\ RequestsAreServedOnce
      /\ (TypeOK /\ SessionInv)' /\ [Next]_vars
      => [Table!Next]_Table!vars
  <2> SUFFICES ASSUME TypeOK, SessionInv, RequestsAreServedOnce, TypeOK', SessionInv',
                      [Next]_vars
               PROVE  [Table!Next]_Table!vars
    OBVIOUS
  <2>0. TableInv /\ TableInv' /\ session \in Session
    BY DEF SessionInv, TypeOK
  <2> USE DEF rows
  <2>1. ASSUME UNCHANGED rows
        PROVE  [Table!Next]_Table!vars
    BY <2>0, <2>1, TableStutters
  <2>2. ASSUME NEW c \in Calls, CommitCart(c) \/ CommitTurn(c)
        PROVE  [Table!Next]_Table!vars
    <3>1. /\ calls[c].copy \in Session /\ MayChange(calls[c].copy)
          /\ lock = c => calls[c].copy = session
      BY <2>2 DEF CommitCart, CommitTurn, At, SessionInv, CallInv, Working
    <3>2. PICK cart \in (IF calls[c].input.op = "service" THEN {calls[c].copy.cart} ELSE Carts) :
            Commit(c, Applied(calls[c].copy, cart))
      BY <2>2, <3>1 DEF CommitCart, CommitTurn, At, Turns, Session
    <3>3. cart \in Carts
      BY <3>1, <3>2 DEF Session
    <3>4. CASE services' = services
      <4>1. CASE lock # c
        BY <2>0, <2>2, <3>2, <3>4, <4>1, CommitFacts, TableStutters DEF CommitCart, CommitTurn
      <4>2. CASE lock = c
        BY <2>0, <2>2, <3>1, <3>2, <3>3, <3>4, <4>2, CommitFacts, TableAtChange
           DEF CommitCart, CommitTurn
      <4> QED
        BY <4>1, <4>2
    <3>5. CASE services' # services
      <4> DEFINE r == calls[c].input.request
      <4>1. /\ CommitTurn(c) /\ lock = c /\ calls[c].input.op = "service"
            /\ services' = Append(services, r) /\ turns[r] = NoTurn
        BY <2>2, <3>5 DEF CommitCart, CommitTurn, Owns
      <4>2. r \in Requests
        BY <4>1 DEF CommitTurn, At, SessionInv, CallInv, Working, Given, Turns
      <4>3. r \notin Table!Items(services)
        BY <4>1, <4>2, SessionsAssumption DEF RequestsAreServedOnce, Table!Items, Turns
      <4>4. session' = session
        BY <3>1, <3>2, <4>1, CommitFacts DEF Applied
      <4>5. Shown' = Shown /\ orders' = orders
        BY <2>0, <4>1, <4>4, ShownFacts, ShownNext DEF CommitTurn
      <4> QED
        BY <4>1, <4>2, <4>3, <4>4, <4>5 DEF Table!Next, Table!Ask
    <3> QED
      BY <3>4, <3>5
  <2>3. ASSUME NEW c \in Calls, CommitPrepare(c)
        PROVE  [Table!Next]_Table!vars
    <3> DEFINE token == reviews + 1
               new   == [calls[c].copy EXCEPT !.token = token]
    <3>1. /\ calls[c].copy \in Session /\ calls[c].seen \in Snapshot
          /\ calls[c].seen.cart = calls[c].copy.cart /\ calls[c].copy.cart # EmptyCart
          /\ lock = c => calls[c].copy = session
      BY <2>3 DEF CommitPrepare, At, SessionInv, CallInv, Working
    <3>2. /\ Commit(c, new) /\ orders' = orders /\ services' = services
          /\ token \in 1..MaxReviews /\ token \notin 1..reviews /\ token # NoToken
      BY <2>3, SessionsAssumption DEF CommitPrepare, TypeOK
    <3>3. CASE lock # c
      <4>1. session' = session /\ review' = review
        BY <2>3, <3>2, <3>3, CommitFacts DEF CommitPrepare, Owns
      <4> QED
        BY <2>0, <3>2, <4>1, TableStutters
    <3>4. CASE lock = c
      <4>1. /\ session' = new /\ review'.snapshot = calls[c].seen
        BY <2>3, <3>2, <3>4, CommitFacts DEF CommitPrepare, Owns
      <4>2. session'.token = token /\ session'.cart = session.cart
        BY <3>1, <3>4, <4>1 DEF Session
      <4>3. Shown' = [token |-> token, snapshot |-> calls[c].seen]
        BY <2>0, <3>2, <4>1, <4>2, ShownNext
      <4>4. PICK p \in Prices : calls[c].seen = [cart |-> session.cart, price |-> p]
        BY <3>1, <3>4 DEF Snapshot
      <4>5. \A order \in Table!Items(orders) : order.token # token
        BY <2>0, <3>2 DEF Table!Items, TableInv, Ordered
      <4>6. Table!Review(token, p)
        BY <3>1, <3>2, <3>4, <4>2, <4>3, <4>4, <4>5 DEF Table!Review
      <4> QED
        BY <3>2, <4>6 DEF Table!Next
    <3> QED
      BY <3>3, <3>4
  <2>4. ASSUME NEW c \in Calls, CommitConfirm(c)
        PROVE  [Table!Next]_Table!vars
    <3>1. CASE orders' = orders
      <4>1. lock # c
        BY <2>4, <3>1 DEF CommitConfirm, Owns, TypeOK
      <4> QED
        BY <2>0, <2>4, <3>1, <4>1, CommitFacts, TableStutters DEF CommitConfirm
    <3>2. CASE orders' # orders
      <4>1. /\ session.token # NoToken
            /\ orders' = Append(orders, Shown) /\ Shown # NoReview
            /\ session'.cart = EmptyCart /\ session'.token = NoToken
            /\ services' = services
        BY <2>0, <3>2, OrdersGrow, ShownFacts
      <4>2. Shown' = NoReview
        BY <2>0, <4>1, ShownNext
      <4> QED
        BY <4>1, <4>2 DEF Table!Next, Table!Approve
    <3> QED
      BY <3>1, <3>2
  <2>5. CASE ReviewEnds
    <3>1. review'.snapshot = review.snapshot
      BY <2>5 DEF ReviewEnds, TypeOK, Row
    <3> QED
      BY <2>0, <2>5, <3>1, TableStutters DEF ReviewEnds
  <2> QED
    BY <2>1, <2>2, <2>3, <2>4, <2>5 DEF Next, Enter, Leave, Fails, Dies, TurnLooks,
       PrepareLooks, PrepareRechecks, ConfirmLooks, ConfirmChecks, ConfirmIsStale, LeaseEnds,
       MenuChanges, vars
<1> QED
  BY <1>1, <1>2, SessionHolds, RequestsOnce, PTL DEF Spec, TableIsKept, Table!Spec

=============================================================================
