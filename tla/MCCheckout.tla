------------------------------ MODULE MCCheckout ------------------------------
(***************************************************************************)
(* Small instances of Checkout for TLC.                                    *)
(***************************************************************************)
EXTENDS CheckoutClaims, TLC

CONSTANTS p1, p2, single, pair, gift

\* One unit of p1; one unit of each product; a free unit of p1.
MCQuantity ==
  [c \in Cart |-> [p \in Product |-> IF p = p1 \/ c = pair THEN 1 ELSE 0]]

\* One unit of p2, enough of p1 for two orders.
MCSupply == [p \in Product |-> IF p = p1 THEN 2 ELSE 1]

Slots == Permutations(Request)
SlotsAndUsers == Permutations(Request) \cup Permutations(User)

\* Several buyers after the same stock: checkouts, Stripe and failures, without
\* the admin's and the seller's requests and with every product listed.
RaceNext ==
  \/ \E r \in Request :
       \/ \E u \in User, c \in Cart : BeginCheckout(r, u, c)
       \/ \E o \in Order : BeginConfirm(r, o)
       \/ Continue(r)
       \/ Abort(r)
  \/ AgeOrder
  \/ \E o \in Order : CapturePayment(o) \/ CancelIntent(o)

RaceSpec == Init /\ [][RaceNext]_vars

================================================================================
