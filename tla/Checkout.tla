------------------------------- MODULE Checkout -------------------------------
(***************************************************************************)
(* Orders, payment and fulfillment of the marketplace                      *)
(* (src/src/services/orderService.ts, fulfillmentService.ts and            *)
(* controllers/webhookController.ts).                                      *)
(*                                                                         *)
(* Every HTTP or webhook request is a handler that runs in the steps its   *)
(* awaits cut it into; between two steps every other handler, Stripe and   *)
(* the buyer may move. A handler keeps what it read before the await: the  *)
(* fields of its record are those snapshots. A database transaction is one *)
(* step (READ COMMITTED with guarded updates). Any step may instead fail,  *)
(* because the database refuses it or because the process dies (Abort).    *)
(*                                                                         *)
(* Stripe is external. An order's PaymentIntent is named by its order (the *)
(* idempotency key is the order id, orderService.ts:249). Webhook events   *)
(* are kept in a set and may be delivered late, out of order and again.    *)
(*                                                                         *)
(* Left out: prices other than "free or not", addresses, titles, tracking  *)
(* numbers and the timestamps nothing branches on.                         *)
(***************************************************************************)
EXTENDS Naturals, FiniteSets

CONSTANTS
  User,        \* buyers
  Product,     \* products on sale
  Cart,        \* the distinct carts (one per cart_hash)
  FreeCart,    \* the carts whose total is 0
  Quantity,    \* Quantity[c][p]: units of p in c, summed over its lines
  Supply,      \* Supply[p]: initial stock of p
  Request,     \* handler slots: how many requests are in flight at once
  MaxOrders,   \* bound: orders ever opened
  MaxFaults    \* bound: aborted handlers

ASSUME CheckoutAssumption ==
  /\ User # {}
  /\ Cart # {}
  /\ FreeCart \subseteq Cart
  /\ Quantity \in [Cart -> [Product -> Nat]]
  /\ Supply \in [Product -> Nat]
  /\ MaxOrders \in Nat
  /\ MaxFaults \in Nat

Order == 1..MaxOrders        \* in creation order, so the newest is the largest

PaymentStatus == {"requires_payment", "processing", "succeeded", "failed", "refunded"}
OrderStatus == {"confirmed", "processing", "failed"}
FulfillmentStatus == {"unfulfilled", "shipped", "delivered"}
IntentStatus == {"none", "unpaid", "processing", "succeeded", "canceled"}

VARIABLES
  listed,      \* products not soft-deleted
  stock,       \* products.stock
  opened,      \* number of order rows ever inserted
  live,        \* ids of the order rows that exist
  orders,      \* the order rows
  aged,        \* orders 1..aged were created more than REUSE_WINDOW_MS ago
  intent,      \* Stripe: status of the PaymentIntent of each order
  refunded,    \* Stripe: orders whose charge was refunded
  secret,      \* orders whose client_secret was sent to the buyer
  sent,        \* webhook events Stripe has emitted
  acked,       \* webhook events answered with a 2xx
  req,         \* the in-flight handlers
  faults       \* handlers aborted so far

database == <<listed, stock, opened, live, orders, aged>>
stripe == <<intent, refunded, secret, sent>>
vars == <<database, stripe, acked, req, faults>>

--------------------------------------------------------------------------------
(* The data. *)

Event == [order : Order, paid : BOOLEAN]

OrderRow == [user_id : User, cart : Cart, payment_status : PaymentStatus,
             status : OrderStatus, bound : BOOLEAN,
             fulfillment_status : FulfillmentStatus]

\* What a handler remembers between two of its awaits.
Handler ==
       [pc : {"idle"}]
  \cup [pc : {"reuse"}, order : Order, user : User, cart : Cart]
  \cup [pc : {"persist"}, user : User, cart : Cart]
  \cup [pc : {"settleFree", "openIntent", "release", "bind"}, order : Order]
  \cup [pc : {"retrieve"}, order : Order, seen : PaymentStatus]
  \cup [pc : {"settle"}, order : Order, next : PaymentStatus, hook : BOOLEAN]
  \cup [pc : {"refundCharge", "refundWrite"}, order : Order, seen : OrderStatus]
  \cup [pc : {"ship"}, order : Order, seen : FulfillmentStatus]
  \cup [pc : {"markDelivered"}, order : Order]

Idle == [pc |-> "idle"]
Goto(r, h) == req' = [req EXCEPT ![r] = h]

orderWireStatus(payment) ==
  CASE payment \in {"succeeded", "refunded"} -> "confirmed"
    [] payment = "failed" -> "failed"
    [] payment \in {"requires_payment", "processing"} -> "processing"

\* payment_intent_id # NULL
Bound(o) == orders[o].bound

\* The two columns settleOrder writes, whatever they held before.
Settled(o, payment) ==
  [orders EXCEPT ![o].payment_status = payment,
                 ![o].status = orderWireStatus(payment)]

\* The row persistOrder inserts.
NewRow(u, c) ==
  [user_id |-> u, cart |-> c, payment_status |-> "requires_payment",
   status |-> "processing", bound |-> FALSE, fulfillment_status |-> "unfulfilled"]

Reusable(u, c) ==
  {o \in live : /\ orders[o].user_id = u
                /\ orders[o].cart = c
                /\ orders[o].payment_status = "requires_payment"
                /\ o > aged}

\* Mutant: the UPDATE without its `stock >= quantity` guard.
InStock_Unguarded(c) ==
  \A p \in Product : Quantity[c][p] > 0 => p \in listed

\* The guard of decrementStockOrThrow, for all lines of the cart.
InStock(c) ==
  \A p \in Product : Quantity[c][p] > 0 => p \in listed /\ Quantity[c][p] <= stock[p]

--------------------------------------------------------------------------------
(* createCheckoutIntent *)

\* Price the cart (an unlisted product is a 404) and look for the newest
\* reusable order. A newest order without an intent is passed over, not skipped
\* in favour of an older one.
BeginCheckout(r, u, c) ==
  /\ req[r] = Idle
  /\ \A p \in Product : Quantity[c][p] > 0 => p \in listed
  /\ \/ /\ c \notin FreeCart
        /\ \E o \in Reusable(u, c) :
             /\ \A other \in Reusable(u, c) : other <= o
             /\ Bound(o)
             /\ Goto(r, [pc |-> "reuse", order |-> o, user |-> u, cart |-> c])
     \/ /\ opened < MaxOrders
        /\ \/ c \in FreeCart
           \/ \A o \in Reusable(u, c) :
                (\A other \in Reusable(u, c) : other <= o) => ~Bound(o)
        /\ Goto(r, [pc |-> "persist", user |-> u, cart |-> c])
  /\ UNCHANGED <<database, stripe, acked, faults>>

\* Ask Stripe whether the reusable order's intent still takes a payment.
ReuseIntent(r) ==
  /\ req[r].pc = "reuse"
  /\ IF intent[req[r].order] \in {"unpaid", "processing"}
     THEN /\ secret' = secret \cup {req[r].order}
          /\ Goto(r, Idle)
     ELSE /\ Goto(r, [pc |-> "persist", user |-> req[r].user, cart |-> req[r].cart])
          /\ UNCHANGED secret
  /\ UNCHANGED <<database, intent, refunded, sent, acked, faults>>

\* One transaction: every line's stock is decremented and the order inserted,
\* or nothing is. Running into the MaxOrders bound is a failed insert.
persistOrder(r) ==
  LET c == req[r].cart
      o == opened + 1
  IN
  /\ req[r].pc = "persist"
  /\ IF InStock(c) /\ opened < MaxOrders
     THEN /\ stock' = [p \in Product |-> stock[p] - Quantity[c][p]]
          /\ opened' = o
          /\ live' = live \cup {o}
          /\ orders' = [orders EXCEPT ![o] = NewRow(req[r].user, c)]
          /\ Goto(r, [pc |-> IF c \in FreeCart THEN "settleFree" ELSE "openIntent",
                      order |-> o])
     ELSE /\ Goto(r, Idle)
          /\ UNCHANGED <<stock, opened, live, orders>>
  /\ UNCHANGED <<listed, aged, stripe, acked, faults>>

\* A $0 order is settled by a second statement, outside persistOrder's transaction.
SettleFree(r) ==
  /\ req[r].pc = "settleFree"
  /\ orders' = Settled(req[r].order, "succeeded")
  /\ Goto(r, Idle)
  /\ UNCHANGED <<listed, stock, opened, live, aged, stripe, acked, faults>>

\* Stripe opens the intent and answers; or the call throws, with or without
\* Stripe having opened it.
createPaymentIntent(r) ==
  LET o == req[r].order IN
  /\ req[r].pc = "openIntent"
  /\ \E opensIt, answers \in BOOLEAN :
       /\ answers => opensIt
       /\ intent' = [intent EXCEPT ![o] = IF opensIt THEN "unpaid" ELSE @]
       /\ Goto(r, [pc |-> IF answers THEN "bind" ELSE "release", order |-> o])
  /\ UNCHANGED <<database, refunded, secret, sent, acked, faults>>

\* Mutant: the order is deleted and its units are forgotten.
releaseOrder_KeepsStock(r) ==
  /\ req[r].pc = "release"
  /\ live' = live \ {req[r].order}
  /\ Goto(r, Idle)
  /\ UNCHANGED <<listed, stock, opened, orders, aged, stripe, acked, faults>>

\* Compensation: delete the order and give its units back, in one transaction.
\* Product.increment carries no soft-delete filter, so a delisted product gets
\* its units back too.
releaseOrder(r) ==
  LET o == req[r].order
      c == orders[o].cart
  IN
  /\ req[r].pc = "release"
  /\ live' = live \ {o}
  /\ stock' = [p \in Product |-> stock[p] + Quantity[c][p]]
  /\ Goto(r, Idle)
  /\ UNCHANGED <<listed, opened, orders, aged, stripe, acked, faults>>

\* Mutant: the client_secret is answered without payment_intent_id being stored.
BindIntent_AnswersOnly(r) ==
  /\ req[r].pc = "bind"
  /\ secret' = secret \cup {req[r].order}
  /\ Goto(r, Idle)
  /\ UNCHANGED <<database, intent, refunded, sent, acked, faults>>

\* Store payment_intent_id, then answer with the client_secret.
BindIntent(r) ==
  LET o == req[r].order IN
  /\ req[r].pc = "bind"
  /\ orders' = [orders EXCEPT ![o].bound = TRUE]
  /\ secret' = secret \cup {o}
  /\ Goto(r, Idle)
  /\ UNCHANGED <<listed, stock, opened, live, aged, intent, refunded, sent,
                 acked, faults>>

--------------------------------------------------------------------------------
(* confirmOrder and the Stripe webhook *)

\* The early return of confirmOrder (already paid, or no intent) changes nothing.
BeginConfirm(r, o) ==
  /\ req[r] = Idle
  /\ o \in live
  /\ orders[o].payment_status # "succeeded"
  /\ Bound(o)
  /\ Goto(r, [pc |-> "retrieve", order |-> o, seen |-> orders[o].payment_status])
  /\ UNCHANGED <<database, stripe, acked, faults>>

\* Mutant: an intent that is still processing counts as paid.
RetrieveIntent_Optimistic(r) ==
  LET o == req[r].order
      next == IF intent[o] \in {"processing", "succeeded"} THEN "succeeded" ELSE "processing"
  IN
  /\ req[r].pc = "retrieve"
  /\ IF next # req[r].seen
     THEN Goto(r, [pc |-> "settle", order |-> o, next |-> next, hook |-> FALSE])
     ELSE Goto(r, Idle)
  /\ UNCHANGED <<database, stripe, acked, faults>>

\* Compare what Stripe says now with what the row said before the call.
RetrieveIntent(r) ==
  LET o == req[r].order
      next == CASE intent[o] = "succeeded" -> "succeeded"
                [] intent[o] = "canceled" -> "failed"
                [] OTHER -> "processing"
  IN
  /\ req[r].pc = "retrieve"
  /\ IF next # req[r].seen
     THEN Goto(r, [pc |-> "settle", order |-> o, next |-> next, hook |-> FALSE])
     ELSE Goto(r, Idle)
  /\ UNCHANGED <<database, stripe, acked, faults>>

\* Mutant: the 2xx is sent on receipt, before the order is settled.
stripeWebhook_AcksFirst(r, e) ==
  LET o == e.order
      next == IF e.paid THEN "succeeded" ELSE "failed"
  IN
  /\ req[r] = Idle
  /\ e \in sent
  /\ acked' = acked \cup {e}
  /\ IF o \in live /\ Bound(o) /\ orders[o].payment_status # next
     THEN Goto(r, [pc |-> "settle", order |-> o, next |-> next, hook |-> TRUE])
     ELSE UNCHANGED req
  /\ UNCHANGED <<database, stripe, faults>>

\* dispatch and the read of applyOrderPaymentResult: an event for an intent no
\* order carries, or whose order already has the target status, is acknowledged.
stripeWebhook(r, e) ==
  LET o == e.order
      next == IF e.paid THEN "succeeded" ELSE "failed"
  IN
  /\ req[r] = Idle
  /\ e \in sent
  /\ IF o \in live /\ Bound(o) /\ orders[o].payment_status # next
     THEN /\ Goto(r, [pc |-> "settle", order |-> o, next |-> next, hook |-> TRUE])
          /\ UNCHANGED acked
     ELSE /\ acked' = acked \cup {e}
          /\ UNCHANGED req
  /\ UNCHANGED <<database, stripe, faults>>

\* The write: unconditional, whatever happened to the row since it was read.
settleOrder(r) ==
  LET o == req[r].order IN
  /\ req[r].pc = "settle"
  /\ orders' = Settled(o, req[r].next)
  /\ acked' = IF req[r].hook
              THEN acked \cup {[order |-> o, paid |-> req[r].next = "succeeded"]}
              ELSE acked
  /\ Goto(r, Idle)
  /\ UNCHANGED <<listed, stock, opened, live, aged, stripe, faults>>

--------------------------------------------------------------------------------
(* refundOrder *)

\* Already refunded is a no-op, any other status but 'succeeded' a 409.
BeginRefund(r, o) ==
  /\ req[r] = Idle
  /\ o \in live
  /\ orders[o].payment_status = "succeeded"
  /\ Goto(r, [pc |-> IF Bound(o) THEN "refundCharge" ELSE "refundWrite",
              order |-> o, seen |-> orders[o].status])
  /\ UNCHANGED <<database, stripe, acked, faults>>

\* Stripe refuses to refund a charge twice: the call throws and the row is left.
refundPaymentIntent(r) ==
  LET o == req[r].order IN
  /\ req[r].pc = "refundCharge"
  /\ IF intent[o] = "succeeded" /\ o \notin refunded
     THEN /\ refunded' = refunded \cup {o}
          /\ Goto(r, [pc |-> "refundWrite", order |-> o, seen |-> req[r].seen])
     ELSE /\ Goto(r, Idle)
          /\ UNCHANGED refunded
  /\ UNCHANGED <<database, intent, secret, sent, acked, faults>>

\* order.update writes only the columns that differ from the row as it was read,
\* so a status that read 'confirmed' is not written again.
WriteRefund(r) ==
  LET o == req[r].order IN
  /\ req[r].pc = "refundWrite"
  /\ orders' = [orders EXCEPT
                  ![o].payment_status = "refunded",
                  ![o].status = IF req[r].seen = orderWireStatus("refunded")
                                THEN @ ELSE orderWireStatus("refunded")]
  /\ Goto(r, Idle)
  /\ UNCHANGED <<listed, stock, opened, live, aged, stripe, acked, faults>>

\* Mutant: the payment check is missing.
fulfillOrder_Unpaid(r, o) ==
  /\ req[r] = Idle
  /\ o \in live
  /\ orders[o].fulfillment_status # "delivered"
  /\ Goto(r, [pc |-> "ship", order |-> o, seen |-> orders[o].fulfillment_status])
  /\ UNCHANGED <<database, stripe, acked, faults>>

--------------------------------------------------------------------------------
(* fulfillOrder and markOrderDelivered *)

fulfillOrder(r, o) ==
  /\ req[r] = Idle
  /\ o \in live
  /\ orders[o].payment_status = "succeeded"
  /\ orders[o].fulfillment_status # "delivered"
  /\ Goto(r, [pc |-> "ship", order |-> o, seen |-> orders[o].fulfillment_status])
  /\ UNCHANGED <<database, stripe, acked, faults>>

\* Re-shipping an order that read 'shipped' writes the tracking columns only.
WriteShipped(r) ==
  LET o == req[r].order IN
  /\ req[r].pc = "ship"
  /\ orders' = [orders EXCEPT ![o].fulfillment_status =
                                IF req[r].seen = "shipped" THEN @ ELSE "shipped"]
  /\ Goto(r, Idle)
  /\ UNCHANGED <<listed, stock, opened, live, aged, stripe, acked, faults>>

markOrderDelivered(r, o) ==
  /\ req[r] = Idle
  /\ o \in live
  /\ orders[o].fulfillment_status = "shipped"
  /\ Goto(r, [pc |-> "markDelivered", order |-> o])
  /\ UNCHANGED <<database, stripe, acked, faults>>

WriteDelivered(r) ==
  LET o == req[r].order IN
  /\ req[r].pc = "markDelivered"
  /\ orders' = [orders EXCEPT ![o].fulfillment_status = "delivered"]
  /\ Goto(r, Idle)
  /\ UNCHANGED <<listed, stock, opened, live, aged, stripe, acked, faults>>

--------------------------------------------------------------------------------
(* The environment: sellers, time, failures, Stripe and the buyer's card. *)

\* deleteProductForUser: a soft delete.
DelistProduct(p) ==
  /\ p \in listed
  /\ listed' = listed \ {p}
  /\ UNCHANGED <<stock, opened, live, orders, aged, stripe, acked, req, faults>>

\* The oldest order still inside the reuse window leaves it.
AgeOrder ==
  /\ aged < opened
  /\ aged' = aged + 1
  /\ UNCHANGED <<listed, stock, opened, live, orders, stripe, acked, req, faults>>

\* A handler's next database or Stripe call throws, or the process dies.
Abort(r) ==
  /\ req[r] # Idle
  /\ faults < MaxFaults
  /\ faults' = faults + 1
  /\ Goto(r, Idle)
  /\ UNCHANGED <<database, stripe, acked>>

Emit(o, paid) == sent' = sent \cup {[order |-> o, paid |-> paid]}

\* The buyer can present a card only with the client_secret.
StartProcessing(o) ==
  /\ o \in secret
  /\ intent[o] = "unpaid"
  /\ intent' = [intent EXCEPT ![o] = "processing"]
  /\ UNCHANGED <<database, refunded, secret, sent, acked, req, faults>>

CapturePayment(o) ==
  /\ \/ intent[o] = "processing"
     \/ intent[o] = "unpaid" /\ o \in secret
  /\ intent' = [intent EXCEPT ![o] = "succeeded"]
  /\ Emit(o, TRUE)
  /\ UNCHANGED <<database, refunded, secret, acked, req, faults>>

DeclinePayment(o) ==
  /\ \/ intent[o] = "processing"
     \/ intent[o] = "unpaid" /\ o \in secret
  /\ intent' = [intent EXCEPT ![o] = "unpaid"]
  /\ Emit(o, FALSE)
  /\ UNCHANGED <<database, refunded, secret, acked, req, faults>>

CancelIntent(o) ==
  /\ intent[o] = "unpaid"
  /\ intent' = [intent EXCEPT ![o] = "canceled"]
  /\ Emit(o, FALSE)
  /\ UNCHANGED <<database, refunded, secret, acked, req, faults>>

--------------------------------------------------------------------------------

Init ==
  /\ listed = Product
  /\ stock = Supply
  /\ opened = 0
  /\ live = {}
  /\ orders = [o \in Order |-> NewRow(CHOOSE u \in User : TRUE, CHOOSE c \in Cart : TRUE)]
  /\ aged = 0
  /\ intent = [o \in Order |-> "none"]
  /\ refunded = {}
  /\ secret = {}
  /\ sent = {}
  /\ acked = {}
  /\ req = [r \in Request |-> Idle]
  /\ faults = 0

\* A request arrives.
Arrive(r) ==
  \/ \E u \in User, c \in Cart : BeginCheckout(r, u, c)
  \/ \E o \in Order : \/ BeginConfirm(r, o)
                      \/ BeginRefund(r, o)
                      \/ fulfillOrder(r, o)
                      \/ markOrderDelivered(r, o)
  \/ \E e \in Event : stripeWebhook(r, e)

\* An in-flight handler takes its next step.
Continue(r) ==
  \/ ReuseIntent(r)
  \/ persistOrder(r)
  \/ SettleFree(r)
  \/ createPaymentIntent(r)
  \/ releaseOrder(r)
  \/ BindIntent(r)
  \/ RetrieveIntent(r)
  \/ settleOrder(r)
  \/ refundPaymentIntent(r)
  \/ WriteRefund(r)
  \/ WriteShipped(r)
  \/ WriteDelivered(r)

Environment ==
  \/ \E p \in Product : DelistProduct(p)
  \/ AgeOrder
  \/ \E o \in Order : \/ StartProcessing(o)
                      \/ CapturePayment(o)
                      \/ DeclinePayment(o)
                      \/ CancelIntent(o)

Next ==
  \/ \E r \in Request : Arrive(r) \/ Continue(r) \/ Abort(r)
  \/ Environment

Spec == Init /\ [][Next]_vars

\* A handler that started runs on (Node keeps awaiting), and Stripe redelivers an
\* event until it gets a 2xx. The redelivery is strongly fair because the number
\* of slots is a bound of the model: the server takes a webhook at any time.
\* Buyers, operators, sellers and declining banks owe nobody a step.
Fairness ==
  /\ \A r \in Request : WF_vars(Continue(r))
  /\ \A e \in Event : SF_vars(e \notin acked /\ \E r \in Request : stripeWebhook(r, e))

FairSpec == Spec /\ Fairness

--------------------------------------------------------------------------------
(* Properties *)

TypeOK ==
  /\ listed \subseteq Product
  /\ stock \in [Product -> Nat]
  /\ opened \in 0..MaxOrders
  /\ live \subseteq 1..opened
  /\ orders \in [Order -> OrderRow]
  /\ aged \in 0..opened
  /\ intent \in [Order -> IntentStatus]
  /\ refunded \subseteq Order
  /\ secret \subseteq Order
  /\ sent \subseteq Event
  /\ acked \subseteq Event
  /\ req \in [Request -> Handler]
  /\ faults \in 0..MaxFaults

\* An order is funded when its cart is free or Stripe has captured its money.
Funded(o) == orders[o].cart \in FreeCart \/ intent[o] = "succeeded"

\* The carts that existing orders hold, and the units of p in them, one by one.
Held == {<<o, orders[o].cart>> : o \in live}
HeldUnits(p) == UNION {{<<h, n>> : n \in 1..Quantity[h[2]][p]} : h \in Held}

\* Units are neither lost nor minted: what is left on the shelf and what the
\* existing orders hold is what there was, whichever checkouts raced, failed,
\* were compensated or died half-way (decrementStockOrThrow, releaseOrder).
StockConserved ==
  \A p \in Product : stock[p] + Cardinality(HeldUnits(p)) = Supply[p]

\* Captured money always has an order to land on: the order was not rolled back
\* and carries the payment_intent_id by which the webhook and the confirm call
\* find it (bind before answering, release only before binding).
CapturedHasOrder ==
  \A o \in Order : intent[o] = "succeeded" => o \in live /\ Bound(o)

\* No order says 'succeeded' or 'refunded' unless its money was captured, and
\* none says 'refunded' unless Stripe gave the money back (settleOrder,
\* refundOrder), whatever order events, confirms and refunds are applied in.
PaymentBacked ==
  \A o \in live :
    /\ orders[o].payment_status \in {"succeeded", "refunded"} => Funded(o)
    /\ orders[o].payment_status = "refunded" =>
         o \in refunded \/ orders[o].cart \in FreeCart

\* Goods leave the warehouse only for an order that was funded, although
\* fulfillOrder writes from a snapshot (fulfillmentService.ts:152).
ShippedWasFunded ==
  \A o \in live : orders[o].fulfillment_status # "unfulfilled" => Funded(o)

\* The stock and the money are the variables of module Inventory.
Captured == {o \in Order : intent[o] = "succeeded"}
InventoryView == INSTANCE Inventory WITH avail <- stock, held <- Held, captured <- Captured

\* Checkout implements Inventory: whole carts are reserved and released, only
\* what is on the shelf, and never after the money was captured
\* (persistOrder, releaseOrder).
Promise == InventoryView!Spec

\* A capture Stripe has announced and nobody acknowledged is eventually seen in
\* the order, even if the buyer never confirms and handlers abort
\* (docs/04-flows.md: the webhook reconciles the order without the client).
CaptureReachesOrder ==
  \A o \in Order :
    [order |-> o, paid |-> TRUE] \in sent \ acked
      ~> orders[o].payment_status \in {"succeeded", "refunded"}

================================================================================
