------------------------------- MODULE Inventory -------------------------------
(***************************************************************************)
(* What the checkout promises about stock and money, with no requests, no  *)
(* webhooks and no failures in sight: a cart is reserved as a whole or not *)
(* at all, only units that are on the shelf are reserved, a reservation is *)
(* given back only as a whole, and never once its money was captured.      *)
(* Module Checkout implements it (Checkout!Promise).                       *)
(***************************************************************************)
EXTENDS Naturals

CONSTANTS
  Product,    \* products on sale
  Cart,       \* the distinct carts a buyer can submit
  Quantity,   \* Quantity[c][p]: units of product p in cart c
  Order,      \* order identifiers
  Supply      \* Supply[p]: units of p on the shelf at the start

VARIABLES
  avail,      \* avail[p]: units of p nobody has reserved
  held,       \* the reservations: <<o, c>> when order o holds the units of cart c
  captured    \* the orders whose money was captured

vars == <<avail, held, captured>>

Holds(o) == \E c \in Cart : <<o, c>> \in held

Init ==
  /\ avail = Supply
  /\ held = {}
  /\ captured = {}

Reserve(o, c) ==
  /\ ~Holds(o)
  /\ \A p \in Product : Quantity[c][p] <= avail[p]
  /\ avail' = [p \in Product |-> avail[p] - Quantity[c][p]]
  /\ held' = held \cup {<<o, c>>}
  /\ UNCHANGED captured

Release(o, c) ==
  /\ <<o, c>> \in held
  /\ o \notin captured
  /\ avail' = [p \in Product |-> avail[p] + Quantity[c][p]]
  /\ held' = held \ {<<o, c>>}
  /\ UNCHANGED captured

Capture(o) ==
  /\ Holds(o)
  /\ captured' = captured \cup {o}
  /\ UNCHANGED <<avail, held>>

Next ==
  \E o \in Order : \/ \E c \in Cart : Reserve(o, c) \/ Release(o, c)
                   \/ Capture(o)

Spec == Init /\ [][Next]_vars

================================================================================
