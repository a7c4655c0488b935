------------------------------- MODULE TableOrder -------------------------------
(***************************************************************************)
(* What the NSL kiosk promises a table, without calls, leases or retries:  *)
(* one cart; a review shows it with its prices; whatever changes the cart  *)
(* takes the review away; an approval orders exactly what was reviewed,    *)
(* once; and a request to the staff is passed on once.                     *)
(***************************************************************************)
EXTENDS Sequences

CONSTANTS Requests, Carts, EmptyCart, Prices, Tokens, NoReview

VARIABLES cart,       \* what the table would order now
          review,     \* what it was shown, and may approve; or NoReview
          orders,     \* the reviews it approved
          services    \* the requests passed to the staff

vars == <<cart, review, orders, services>>

Items(seq) == {seq[i] : i \in DOMAIN seq}

Init == cart = EmptyCart /\ review = NoReview /\ orders = <<>> /\ services = <<>>

Change ==
  /\ cart' \in Carts \ {cart}
  /\ review' = NoReview
  /\ UNCHANGED <<orders, services>>

Review(token, price) ==
  /\ cart # EmptyCart
  /\ \A order \in Items(orders) : order.token # token
  /\ review' = [token |-> token, snapshot |-> [cart |-> cart, price |-> price]]
  /\ UNCHANGED <<cart, orders, services>>

Approve ==
  /\ review # NoReview
  /\ orders' = Append(orders, review)
  /\ cart' = EmptyCart /\ review' = NoReview
  /\ UNCHANGED services

Ask(request) ==
  /\ request \notin Items(services)
  /\ services' = Append(services, request)
  /\ UNCHANGED <<cart, review, orders>>

Next ==
  \/ Change
  \/ \E token \in Tokens, price \in Prices : Review(token, price)
  \/ Approve
  \/ \E request \in Requests : Ask(request)

Spec == Init /\ [][Next]_vars
=============================================================================
