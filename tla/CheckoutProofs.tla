---------------------------- MODULE CheckoutProofs ----------------------------
(***************************************************************************)
(* Theorems about module Checkout, for every set of buyers, carts, stock   *)
(* levels and concurrent requests and any number of failures.              *)
(*                                                                         *)
(* IInv is the inductive invariant all of them rest on. Its idea is who    *)
(* may touch an order: until payment_intent_id is stored the order belongs *)
(* to the one checkout handler that inserted it and nobody outside knows   *)
(* its client_secret, so deleting it cannot lose money; from then on it is *)
(* never deleted.                                                          *)
(***************************************************************************)
EXTENDS Checkout, FiniteSetTheorems, TLAPS

\* The handler is the checkout that inserted its order and has not answered yet.
OwnerPc == {"settleFree", "openIntent", "release", "bind"}
Owns(r) == req[r].pc \in OwnerPc

\* Nobody outside knows the order.
Private(o) == o \in live /\ o \notin secret /\ ~Bound(o)

OwnersExclusive ==
  /\ \A r \in Request : Owns(r) => Private(req[r].order)
  /\ \A r1, r2 \in Request :
       Owns(r1) /\ Owns(r2) /\ req[r1].order = req[r2].order => r1 = r2

\* A handler works on an order that was inserted; on a bound one, if it works
\* through the order's intent; and what it is about to write is true of the money.
HandlerOK(h) ==
  /\ h.pc \notin {"idle", "persist"} => h.order \in 1..opened
  /\ h.pc \in {"reuse", "retrieve", "settle", "refundCharge"} =>
       h.order \in live /\ Bound(h.order)
  /\ h.pc = "settleFree" => orders[h.order].cart \in FreeCart
  /\ h.pc = "settle" =>
       /\ h.next # "refunded"
       /\ h.next = "succeeded" => intent[h.order] = "succeeded"
  /\ h.pc = "refundWrite" =>
       \/ orders[h.order].cart \in FreeCart
       \/ h.order \in refunded /\ intent[h.order] = "succeeded"
  /\ h.pc \in {"ship", "markDelivered"} => Funded(h.order)

HandlersOK == \A r \in Request : HandlerOK(req[r])

SecretBound == \A o \in secret : o \in live /\ Bound(o)

PaymentNeedsSecret ==
  \A o \in Order : intent[o] \in {"processing", "succeeded"} => o \in secret

EventsTrue == \A e \in sent : e.paid => intent[e.order] = "succeeded"

\* PaymentBacked and ShippedWasFunded, of one order.
RowOK(o) ==
  /\ orders[o].payment_status \in {"succeeded", "refunded"} => Funded(o)
  /\ orders[o].payment_status = "refunded" =>
       o \in refunded \/ orders[o].cart \in FreeCart
  /\ orders[o].fulfillment_status # "unfulfilled" => Funded(o)

RowsOK == \A o \in live : RowOK(o)

IInv ==
  /\ TypeOK
  /\ OwnersExclusive
  /\ HandlersOK
  /\ SecretBound
  /\ PaymentNeedsSecret
  /\ EventsTrue
  /\ RowsOK

--------------------------------------------------------------------------------
(* Types *)

\* What a handler remembers, by the step it is at.
LEMMA HandlerFields ==
  ASSUME NEW h \in Handler
  PROVE  /\ h.pc \in {"reuse", "settleFree", "openIntent", "release", "bind", "retrieve",
                      "settle", "refundCharge", "refundWrite", "ship", "markDelivered"}
              => h.order \in Order
         /\ h.pc \in {"reuse", "persist"} => h.user \in User /\ h.cart \in Cart
         /\ h.pc = "settle" => h.next \in PaymentStatus /\ h.hook \in BOOLEAN
         /\ h.pc \in {"refundCharge", "refundWrite"} => h.seen \in OrderStatus
BY DEF Handler

LEMMA WireStatusType ==
  ASSUME NEW payment \in PaymentStatus PROVE orderWireStatus(payment) \in OrderStatus
BY DEF orderWireStatus, OrderStatus, PaymentStatus

\* settleOrder writes two columns of one row.
LEMMA SettledRows ==
  ASSUME orders \in [Order -> OrderRow], NEW o \in Order, NEW payment \in PaymentStatus
  PROVE  /\ Settled(o, payment) \in [Order -> OrderRow]
         /\ \A x \in Order : /\ Settled(o, payment)[x].cart = orders[x].cart
                             /\ Settled(o, payment)[x].bound = orders[x].bound
                             /\ Settled(o, payment)[x].fulfillment_status
                                  = orders[x].fulfillment_status
         /\ \A x \in Order \ {o} : Settled(o, payment)[x] = orders[x]
         /\ Settled(o, payment)[o].payment_status = payment
<1> DEFINE w == orderWireStatus(payment)
           row == [orders[o] EXCEPT !.payment_status = payment, !.status = w]
<1>1. w \in OrderStatus
  BY WireStatusType
<1>2. orders[o] \in OrderRow
  OBVIOUS
<1>3. /\ row \in OrderRow
      /\ row.cart = orders[o].cart
      /\ row.bound = orders[o].bound
      /\ row.fulfillment_status = orders[o].fulfillment_status
      /\ row.payment_status = payment
  BY <1>1, <1>2 DEF OrderRow
<1>4. Settled(o, payment) = [orders EXCEPT ![o] = row]
  BY <1>2 DEF Settled, OrderRow
<1> HIDE DEF row
<1>5. QED
  BY <1>3, <1>4

\* The records handlers become are handlers.
LEMMA HandlerShapes ==
  /\ Idle \in Handler
  /\ \A u \in User, c \in Cart : [pc |-> "persist", user |-> u, cart |-> c] \in Handler
  /\ \A o \in Order, u \in User, c \in Cart :
       [pc |-> "reuse", order |-> o, user |-> u, cart |-> c] \in Handler
  /\ \A o \in Order :
       /\ \A pc \in {"settleFree", "openIntent", "release", "bind"} :
            [pc |-> pc, order |-> o] \in Handler
       /\ [pc |-> "markDelivered", order |-> o] \in Handler
       /\ \A seen \in PaymentStatus : [pc |-> "retrieve", order |-> o, seen |-> seen] \in Handler
       /\ \A next \in PaymentStatus, hook \in BOOLEAN :
            [pc |-> "settle", order |-> o, next |-> next, hook |-> hook] \in Handler
       /\ \A pc \in {"refundCharge", "refundWrite"}, seen \in OrderStatus :
            [pc |-> pc, order |-> o, seen |-> seen] \in Handler
       /\ \A seen \in FulfillmentStatus : [pc |-> "ship", order |-> o, seen |-> seen] \in Handler
BY DEF Handler, Idle

\* One handler moves and the others stay.
LEMMA GotoMoves ==
  ASSUME req \in [Request -> Handler], NEW r \in Request, NEW h \in Handler, Goto(r, h)
  PROVE  /\ req' \in [Request -> Handler]
         /\ req'[r] = h
         /\ \A q \in Request \ {r} : req'[q] = req[q]
BY DEF Goto

\* Writing one column of one row.
LEMMA ColumnWritten ==
  ASSUME orders \in [Order -> OrderRow], NEW o \in Order
  PROVE  /\ \A f \in FulfillmentStatus :
              LET rows == [orders EXCEPT ![o].fulfillment_status = f] IN
              /\ rows \in [Order -> OrderRow]
              /\ \A x \in Order : /\ rows[x].cart = orders[x].cart
                                  /\ rows[x].bound = orders[x].bound
                                  /\ rows[x].payment_status = orders[x].payment_status
              /\ \A x \in Order \ {o} : rows[x] = orders[x]
              /\ rows[o].fulfillment_status = f
         /\ LET rows == [orders EXCEPT ![o].bound = TRUE] IN
              /\ rows \in [Order -> OrderRow]
              /\ \A x \in Order : /\ rows[x].cart = orders[x].cart
                                  /\ rows[x].payment_status = orders[x].payment_status
                                  /\ rows[x].fulfillment_status = orders[x].fulfillment_status
              /\ \A x \in Order \ {o} : rows[x] = orders[x]
              /\ rows[o].bound
BY DEF OrderRow

\* The row WriteRefund leaves.
LEMMA RefundedRows ==
  ASSUME orders \in [Order -> OrderRow], NEW o \in Order, NEW seen,
         NEW rows,
         rows = [orders EXCEPT
                   ![o].payment_status = "refunded",
                   ![o].status = IF seen = orderWireStatus("refunded")
                                 THEN @ ELSE orderWireStatus("refunded")]
  PROVE  /\ rows \in [Order -> OrderRow]
         /\ \A x \in Order : /\ rows[x].cart = orders[x].cart
                             /\ rows[x].bound = orders[x].bound
                             /\ rows[x].fulfillment_status = orders[x].fulfillment_status
         /\ \A x \in Order \ {o} : rows[x] = orders[x]
         /\ rows[o].payment_status = "refunded"
<1> DEFINE w == IF seen = orderWireStatus("refunded")
                THEN orders[o].status ELSE orderWireStatus("refunded")
           row == [orders[o] EXCEPT !.payment_status = "refunded", !.status = w]
<1>1. orders[o] \in OrderRow
  OBVIOUS
<1>2. w \in OrderStatus
  BY <1>1, WireStatusType DEF OrderRow, PaymentStatus
<1>3. /\ row \in OrderRow
      /\ row.cart = orders[o].cart
      /\ row.bound = orders[o].bound
      /\ row.fulfillment_status = orders[o].fulfillment_status
      /\ row.payment_status = "refunded"
  BY <1>1, <1>2 DEF OrderRow, PaymentStatus
<1>4. rows = [orders EXCEPT ![o] = row]
  BY <1>1 DEF OrderRow
<1> HIDE DEF row
<1>5. QED
  BY <1>3, <1>4

\* HandlerFields, for the handler of a slot.
LEMMA RequestFields ==
  ASSUME TypeOK, NEW r \in Request
  PROVE  /\ req[r] \in Handler
         /\ req[r].pc \in {"reuse", "settleFree", "openIntent", "release", "bind", "retrieve",
                           "settle", "refundCharge", "refundWrite", "ship", "markDelivered"}
              => req[r].order \in Order
         /\ req[r].pc \in {"reuse", "persist"} => req[r].user \in User /\ req[r].cart \in Cart
         /\ req[r].pc = "settle" => req[r].next \in PaymentStatus /\ req[r].hook \in BOOLEAN
         /\ req[r].pc \in {"refundCharge", "refundWrite"} => req[r].seen \in OrderStatus
<1>1. req[r] \in Handler
  BY DEF TypeOK
<1>2. QED
  BY <1>1, HandlerFields

\* A handler that moves to a handler keeps req in its type.
LEMMA GotoType ==
  ASSUME TypeOK, NEW r \in Request, NEW h \in Handler, Goto(r, h)
  PROVE  req' \in [Request -> Handler]
BY GotoMoves DEF TypeOK

\* Rows carry ids that were handed out.
LEMMA LiveOrders ==
  ASSUME TypeOK
  PROVE  /\ live \subseteq Order
         /\ 1..opened \subseteq Order
         /\ opened \in Nat
         /\ \A o \in live : o \in 1..opened
<1>1. opened \in Nat /\ opened <= MaxOrders
  BY CheckoutAssumption DEF TypeOK
<1>2. 1..opened \subseteq Order
  BY <1>1, CheckoutAssumption DEF Order
<1>3. QED
  BY <1>1, <1>2 DEF TypeOK

LEMMA EventType ==
  ASSUME NEW o \in Order, NEW paid \in BOOLEAN
  PROVE  [order |-> o, paid |-> paid] \in Event
BY DEF Event

\* The columns of a row.
LEMMA RowFields ==
  ASSUME TypeOK, NEW o \in Order
  PROVE  /\ orders[o] \in OrderRow
         /\ orders[o].user_id \in User
         /\ orders[o].cart \in Cart
         /\ orders[o].payment_status \in PaymentStatus
         /\ orders[o].status \in OrderStatus
         /\ orders[o].bound \in BOOLEAN
         /\ orders[o].fulfillment_status \in FulfillmentStatus
BY DEF TypeOK, OrderRow

LEMMA NewRowType ==
  ASSUME NEW u \in User, NEW c \in Cart
  PROVE  NewRow(u, c) \in OrderRow
BY DEF NewRow, OrderRow, PaymentStatus, OrderStatus, FulfillmentStatus

\* Every step keeps every variable in its type.
LEMMA TypeStep == TypeOK /\ [Next]_vars => TypeOK'
<1> SUFFICES ASSUME TypeOK, [Next]_vars PROVE TypeOK'
  OBVIOUS
<1> USE DEF database, stripe
<1>1. ASSUME NEW r \in Request, ReuseIntent(r)
      PROVE TypeOK'
  <2>1. req' \in [Request -> Handler]
    BY <1>1, RequestFields, RowFields, HandlerShapes, GotoType DEF ReuseIntent
  <2>2. QED
    BY <1>1, <2>1, RequestFields DEF TypeOK, ReuseIntent
<1>2. ASSUME NEW r \in Request, persistOrder(r)
      PROVE TypeOK'
  <2>1. req' \in [Request -> Handler]
    <3>1. InStock(req[r].cart) /\ opened < MaxOrders => opened + 1 \in Order
      BY CheckoutAssumption DEF TypeOK, Order
    <3>2. QED
      BY <1>2, <3>1, HandlerShapes, GotoType DEF persistOrder
  <2>2. orders' \in [Order -> OrderRow] /\ opened' \in 0..MaxOrders /\ live' \subseteq 1..opened'
    <3>1. CASE InStock(req[r].cart) /\ opened < MaxOrders
      <4>1. opened + 1 \in Order
        BY <3>1, CheckoutAssumption DEF TypeOK, Order
      <4>2. NewRow(req[r].user, req[r].cart) \in OrderRow
        BY <1>2, RequestFields, NewRowType DEF persistOrder
      <4>3. orders' \in [Order -> OrderRow]
        BY <1>2, <3>1, <4>1, <4>2 DEF TypeOK, persistOrder
      <4>4. opened' = opened + 1 /\ live' = live \cup {opened + 1}
        BY <1>2, <3>1 DEF persistOrder
      <4>5. opened' \in 0..MaxOrders /\ live' \subseteq 1..opened'
        BY <3>1, <4>4, LiveOrders, CheckoutAssumption DEF TypeOK
      <4>6. QED
        BY <4>3, <4>5
    <3>2. CASE ~(InStock(req[r].cart) /\ opened < MaxOrders)
      BY <1>2, <3>2 DEF TypeOK, persistOrder
    <3>3. QED
      BY <3>1, <3>2
  <2>3. stock' \in [Product -> Nat]
    <3>1. Quantity[req[r].cart] \in [Product -> Nat]
      BY <1>2, RequestFields, CheckoutAssumption DEF persistOrder
    <3>2. QED
      BY <1>2, <3>1 DEF TypeOK, persistOrder, InStock
  <2>4. QED
    BY <1>2, <2>1, <2>2, <2>3 DEF TypeOK, persistOrder
<1>3. ASSUME NEW r \in Request, SettleFree(r)
      PROVE TypeOK'
  <2>1. req' \in [Request -> Handler]
    BY <1>3, RequestFields, RowFields, HandlerShapes, GotoType DEF SettleFree
  <2>2. orders' \in [Order -> OrderRow]
    BY <1>3, RequestFields, SettledRows DEF TypeOK, SettleFree, PaymentStatus
  <2>3. QED
    BY <1>3, <2>1, <2>2, RequestFields DEF TypeOK, SettleFree
<1>4. ASSUME NEW r \in Request, createPaymentIntent(r)
      PROVE TypeOK'
  <2>1. req' \in [Request -> Handler]
    BY <1>4, RequestFields, RowFields, HandlerShapes, GotoType DEF createPaymentIntent
  <2>2. QED
    BY <1>4, <2>1, RequestFields DEF TypeOK, createPaymentIntent, IntentStatus
<1>5. ASSUME NEW r \in Request, releaseOrder(r)
      PROVE TypeOK'
  <2>1. req' \in [Request -> Handler]
    BY <1>5, RequestFields, RowFields, HandlerShapes, GotoType DEF releaseOrder
  <2>2. stock' \in [Product -> Nat]
    BY <1>5, RequestFields, RowFields, CheckoutAssumption DEF TypeOK, releaseOrder
  <2>3. QED
    BY <1>5, <2>1, <2>2, RequestFields DEF TypeOK, releaseOrder
<1>6. ASSUME NEW r \in Request, BindIntent(r)
      PROVE TypeOK'
  <2>1. req' \in [Request -> Handler]
    BY <1>6, RequestFields, RowFields, HandlerShapes, GotoType DEF BindIntent
  <2>2. orders' \in [Order -> OrderRow]
    BY <1>6, RequestFields, ColumnWritten DEF TypeOK, BindIntent
  <2>3. QED
    BY <1>6, <2>1, <2>2, RequestFields DEF TypeOK, BindIntent
<1>7. ASSUME NEW r \in Request, RetrieveIntent(r)
      PROVE TypeOK'
  <2>1. req' \in [Request -> Handler]
    BY <1>7, RequestFields, RowFields, HandlerShapes, GotoType DEF RetrieveIntent, PaymentStatus
  <2>2. QED
    BY <1>7, <2>1, RequestFields DEF TypeOK, RetrieveIntent
<1>8. ASSUME NEW r \in Request, settleOrder(r)
      PROVE TypeOK'
  <2>1. req' \in [Request -> Handler]
    BY <1>8, RequestFields, RowFields, HandlerShapes, GotoType DEF settleOrder
  <2>2. orders' \in [Order -> OrderRow]
    BY <1>8, RequestFields, SettledRows DEF TypeOK, settleOrder
  <2>3. QED
    <3>1. [order |-> req[r].order, paid |-> req[r].next = "succeeded"] \in Event
      BY <1>8, RequestFields, EventType DEF settleOrder
    <3>2. QED
      BY <1>8, <2>1, <2>2, <3>1 DEF TypeOK, settleOrder
<1>9. ASSUME NEW r \in Request, refundPaymentIntent(r)
      PROVE TypeOK'
  <2>1. req' \in [Request -> Handler]
    BY <1>9, RequestFields, RowFields, HandlerShapes, GotoType DEF refundPaymentIntent
  <2>2. QED
    BY <1>9, <2>1, RequestFields DEF TypeOK, refundPaymentIntent
<1>10. ASSUME NEW r \in Request, WriteRefund(r)
      PROVE TypeOK'
  <2>1. req' \in [Request -> Handler]
    BY <1>10, RequestFields, RowFields, HandlerShapes, GotoType DEF WriteRefund
  <2>2. orders' \in [Order -> OrderRow]
    <3>1. req[r].order \in Order /\ orders \in [Order -> OrderRow]
      BY <1>10, RequestFields DEF WriteRefund, TypeOK
    <3>2. orders' = [orders EXCEPT
                       ![req[r].order].payment_status = "refunded",
                       ![req[r].order].status =
                          IF req[r].seen = orderWireStatus("refunded")
                          THEN @ ELSE orderWireStatus("refunded")]
      BY <1>10 DEF WriteRefund
    <3>3. QED
      BY <3>1, <3>2, RefundedRows, SMTT(60)
  <2>3. QED
    BY <1>10, <2>1, <2>2, RequestFields DEF TypeOK, WriteRefund
<1>11. ASSUME NEW r \in Request, WriteShipped(r)
      PROVE TypeOK'
  <2>1. req' \in [Request -> Handler]
    BY <1>11, RequestFields, RowFields, HandlerShapes, GotoType DEF WriteShipped
  <2>2. orders' \in [Order -> OrderRow]
    <3> DEFINE f == IF req[r].seen = "shipped"
                    THEN orders[req[r].order].fulfillment_status ELSE "shipped"
    <3>1. req[r].order \in Order
      BY <1>11, RequestFields DEF WriteShipped
    <3>2. f \in FulfillmentStatus
      BY <3>1, RowFields DEF FulfillmentStatus
    <3>3. orders' = [orders EXCEPT ![req[r].order].fulfillment_status = f]
      BY <1>11, <3>1 DEF WriteShipped, TypeOK
    <3> HIDE DEF f
    <3>4. QED
      BY <3>1, <3>2, <3>3, ColumnWritten DEF TypeOK
  <2>3. QED
    BY <1>11, <2>1, <2>2, RequestFields DEF TypeOK, WriteShipped
<1>12. ASSUME NEW r \in Request, WriteDelivered(r)
      PROVE TypeOK'
  <2>1. req' \in [Request -> Handler]
    BY <1>12, RequestFields, RowFields, HandlerShapes, GotoType DEF WriteDelivered
  <2>2. orders' \in [Order -> OrderRow]
    <3>1. req[r].order \in Order /\ orders \in [Order -> OrderRow]
      BY <1>12, RequestFields DEF WriteDelivered, TypeOK
    <3>2. orders' = [orders EXCEPT ![req[r].order].fulfillment_status = "delivered"]
      BY <1>12 DEF WriteDelivered
    <3>3. "delivered" \in FulfillmentStatus
      BY DEF FulfillmentStatus
    <3>4. QED
      BY <3>1, <3>2, <3>3, ColumnWritten
  <2>3. QED
    BY <1>12, <2>1, <2>2, RequestFields DEF TypeOK, WriteDelivered
<1>13. ASSUME NEW r \in Request, Abort(r)
      PROVE TypeOK'
  <2>1. req' \in [Request -> Handler]
    BY <1>13, RequestFields, RowFields, HandlerShapes, GotoType DEF Abort
  <2>2. QED
    BY <1>13, <2>1, CheckoutAssumption DEF TypeOK, Abort
<1>14. ASSUME NEW r \in Request, NEW u \in User, NEW c \in Cart, BeginCheckout(r, u, c)
      PROVE TypeOK'
  <2>1. req' \in [Request -> Handler]
    <3> DEFINE reuse(o) == [pc |-> "reuse", order |-> o, user |-> u, cart |-> c]
               persist == [pc |-> "persist", user |-> u, cart |-> c]
    <3>1. Reusable(u, c) \subseteq Order
      BY LiveOrders DEF Reusable
    <3>2. \E h \in {persist} \cup {reuse(o) : o \in Reusable(u, c)} : Goto(r, h)
      BY <1>14 DEF BeginCheckout
    <3>3. {persist} \cup {reuse(o) : o \in Reusable(u, c)} \subseteq Handler
      BY <3>1, HandlerShapes
    <3>4. QED
      BY <3>2, <3>3, GotoType
  <2>2. QED
    BY <1>14, <2>1 DEF TypeOK, BeginCheckout
<1>15. ASSUME NEW r \in Request, NEW o \in Order, BeginConfirm(r, o)
      PROVE TypeOK'
  <2>1. req' \in [Request -> Handler]
    BY <1>15, RequestFields, RowFields, HandlerShapes, GotoType DEF BeginConfirm
  <2>2. QED
    BY <1>15, <2>1 DEF TypeOK, BeginConfirm
<1>16. ASSUME NEW r \in Request, NEW o \in Order, BeginRefund(r, o)
      PROVE TypeOK'
  <2>1. req' \in [Request -> Handler]
    BY <1>16, RequestFields, RowFields, HandlerShapes, GotoType DEF BeginRefund
  <2>2. QED
    BY <1>16, <2>1 DEF TypeOK, BeginRefund
<1>17. ASSUME NEW r \in Request, NEW o \in Order, fulfillOrder(r, o)
      PROVE TypeOK'
  <2>1. req' \in [Request -> Handler]
    BY <1>17, RequestFields, RowFields, HandlerShapes, GotoType DEF fulfillOrder
  <2>2. QED
    BY <1>17, <2>1 DEF TypeOK, fulfillOrder
<1>18. ASSUME NEW r \in Request, NEW o \in Order, markOrderDelivered(r, o)
      PROVE TypeOK'
  <2>1. req' \in [Request -> Handler]
    BY <1>18, RequestFields, RowFields, HandlerShapes, GotoType DEF markOrderDelivered
  <2>2. QED
    BY <1>18, <2>1 DEF TypeOK, markOrderDelivered
<1>19. ASSUME NEW r \in Request, NEW e \in Event, stripeWebhook(r, e)
      PROVE TypeOK'
  <2>1. req' \in [Request -> Handler]
    <3>1. e.order \in Order
      BY DEF Event
    <3>2. /\ "succeeded" \in PaymentStatus /\ "failed" \in PaymentStatus
          /\ req \in [Request -> Handler]
      BY DEF PaymentStatus, TypeOK
    <3> DEFINE h == [pc |-> "settle", order |-> e.order,
                     next |-> IF e.paid THEN "succeeded" ELSE "failed", hook |-> TRUE]
    <3>3. h \in Handler
      BY <3>1, <3>2, HandlerShapes
    <3>4. Goto(r, h) \/ UNCHANGED req
      BY <1>19 DEF stripeWebhook
    <3> HIDE DEF h
    <3>5. QED
      BY <3>2, <3>3, <3>4, GotoType
  <2>2. QED
    BY <1>19, <2>1 DEF TypeOK, stripeWebhook, Event
<1>20. ASSUME NEW p \in Product, DelistProduct(p)
      PROVE TypeOK'
  BY <1>20 DEF TypeOK, DelistProduct
<1>21. ASSUME AgeOrder
      PROVE TypeOK'
  BY <1>21 DEF TypeOK, AgeOrder
<1>22. ASSUME NEW o \in Order, StartProcessing(o)
      PROVE TypeOK'
  BY <1>22 DEF TypeOK, StartProcessing, IntentStatus
<1>23. ASSUME NEW o \in Order, CapturePayment(o)
      PROVE TypeOK'
  <2>1. sent' \subseteq Event
    BY <1>23, EventType DEF TypeOK, CapturePayment, Emit
  <2>2. intent' \in [Order -> IntentStatus]
    BY <1>23 DEF TypeOK, CapturePayment, IntentStatus
  <2>3. QED
    BY <1>23, <2>1, <2>2 DEF TypeOK, CapturePayment
<1>24. ASSUME NEW o \in Order, DeclinePayment(o)
      PROVE TypeOK'
  <2>1. sent' \subseteq Event
    BY <1>24, EventType DEF TypeOK, DeclinePayment, Emit
  <2>2. intent' \in [Order -> IntentStatus]
    BY <1>24 DEF TypeOK, DeclinePayment, IntentStatus
  <2>3. QED
    BY <1>24, <2>1, <2>2 DEF TypeOK, DeclinePayment
<1>25. ASSUME NEW o \in Order, CancelIntent(o)
      PROVE TypeOK'
  <2>1. sent' \subseteq Event
    BY <1>25, EventType DEF TypeOK, CancelIntent, Emit
  <2>2. intent' \in [Order -> IntentStatus]
    BY <1>25 DEF TypeOK, CancelIntent, IntentStatus
  <2>3. QED
    BY <1>25, <2>1, <2>2 DEF TypeOK, CancelIntent
<1>26. CASE UNCHANGED vars
  BY <1>26 DEF TypeOK, vars
<1>27. QED
  BY <1>1, <1>2, <1>3, <1>4, <1>5, <1>6, <1>7, <1>8, <1>9, <1>10, <1>11, <1>12, <1>13, <1>14, <1>15, <1>16, <1>17, <1>18, <1>19, <1>20, <1>21, <1>22, <1>23, <1>24, <1>25, <1>26 DEF Next, Arrive, Continue, Environment

LEMMA TypeInit == Init => TypeOK
<1> SUFFICES ASSUME Init PROVE TypeOK
  OBVIOUS
<1>1. req \in [Request -> Handler]
  BY HandlerShapes DEF Init
<1>2. orders \in [Order -> OrderRow]
  <2>1. (CHOOSE u \in User : TRUE) \in User /\ (CHOOSE c \in Cart : TRUE) \in Cart
    BY CheckoutAssumption
  <2>2. QED
    BY <2>1, NewRowType DEF Init
<1>3. QED
  BY <1>1, <1>2, CheckoutAssumption DEF Init, TypeOK, IntentStatus

\* Every variable keeps its type, whatever handlers interleave or die.
THEOREM TypeCorrect == Spec => []TypeOK
BY TypeInit, TypeStep, PTL DEF Spec

--------------------------------------------------------------------------------
(* The inductive invariant *)

\* What no step takes away: inserted ids, bound orders, carts of orders,
\* captured money and refunds.
Steady ==
  /\ opened <= opened'
  /\ \A o \in live : Bound(o) => o \in live' /\ Bound(o)'
  /\ \A o \in 1..opened : orders'[o].cart = orders[o].cart
  /\ \A o \in Order : intent[o] = "succeeded" => intent'[o] = "succeeded"
  /\ refunded \subseteq refunded'

\* What a handler relies on survives the steps of the others.
LEMMA HandlerKeeps ==
  ASSUME TypeOK, TypeOK', Steady, NEW h \in Handler, HandlerOK(h)
  PROVE  HandlerOK(h)'
<1>1. h.pc \notin {"idle", "persist"} => h.order \in 1..opened /\ h.order \in Order
  BY LiveOrders, CheckoutAssumption DEF HandlerOK, TypeOK, Order
<1>2. 1..opened \subseteq 1..opened'
  BY DEF TypeOK, Steady
<1>3. h.pc \notin {"idle", "persist"} =>
        /\ h.order \in 1..opened'
        /\ orders'[h.order].cart = orders[h.order].cart
        /\ intent[h.order] = "succeeded" => intent'[h.order] = "succeeded"
        /\ Funded(h.order) => Funded(h.order)'
  BY <1>1, <1>2 DEF Steady, Funded
<1>4. QED
  BY <1>3 DEF HandlerOK, Steady

\* HandlersOK after a step of r to h.
LEMMA HandlersStay ==
  ASSUME TypeOK, TypeOK', Steady, HandlersOK,
         NEW r \in Request, NEW h \in Handler, Goto(r, h), HandlerOK(h)'
  PROVE  HandlersOK'
<1>1. \A q \in Request \ {r} : HandlerOK(req[q])'
  <2> SUFFICES ASSUME NEW q \in Request \ {r} PROVE HandlerOK(req[q])'
    OBVIOUS
  <2> DEFINE k == req[q]
  <2>1. k \in Handler /\ HandlerOK(k)
    BY DEF TypeOK, HandlersOK
  <2>2. req'[q] = req[q]
    BY GotoMoves DEF TypeOK
  <2>3. QED
    BY <2>1, <2>2, HandlerKeeps DEF HandlerOK
<1>2. QED
  BY <1>1, GotoMoves DEF TypeOK, HandlersOK

\* OwnersExclusive after a step of r to h that leaves the others' orders private.
LEMMA OwnersStay ==
  ASSUME TypeOK, OwnersExclusive,
         NEW r \in Request, NEW h \in Handler, Goto(r, h),
         \A q \in Request \ {r} : Owns(q) => Private(req[q].order)',
         h.pc \in OwnerPc =>
           /\ Private(h.order)'
           /\ \A q \in Request \ {r} : Owns(q) => req[q].order # h.order
  PROVE  OwnersExclusive'
<1>1. /\ req'[r] = h
      /\ \A q \in Request \ {r} : req'[q] = req[q]
  BY GotoMoves DEF TypeOK
<1>2. Owns(r)' <=> h.pc \in OwnerPc
  BY <1>1 DEF Owns
<1>3. \A q \in Request \ {r} : (Owns(q)' <=> Owns(q)) /\ req'[q].order = req[q].order
  BY <1>1 DEF Owns
<1>4. \A q \in Request : Owns(q)' => Private(req[q].order)'
  BY <1>1, <1>2, <1>3 DEF Private
<1>5. \A r1, r2 \in Request :
        Owns(r1)' /\ Owns(r2)' /\ req'[r1].order = req'[r2].order => r1 = r2
  BY <1>1, <1>2, <1>3 DEF OwnersExclusive
<1>6. QED
  BY <1>4, <1>5 DEF OwnersExclusive

\* A step that only moves one handler, to where it owns no order.
LEMMA QuietStep ==
  ASSUME IInv, TypeOK', UNCHANGED <<database, stripe>>,
         NEW r \in Request, NEW h \in Handler, Goto(r, h),
         HandlerOK(h), h.pc \notin OwnerPc
  PROVE  IInv'
<1> USE DEF database, stripe
<1>1. Steady
  BY DEF Steady, Bound, IInv, TypeOK
<1>2. HandlerOK(h)'
  BY <1>1, HandlerKeeps DEF IInv
<1>3. HandlersOK'
  BY <1>1, <1>2, HandlersStay DEF IInv
<1>4. OwnersExclusive'
  <2>1. \A q \in Request \ {r} : Owns(q) => Private(req[q].order)
    BY DEF IInv, OwnersExclusive
  <2>2. \A o \in live : Private(o) => Private(o)'
    BY DEF Private, Bound
  <2>3. \A q \in Request \ {r} : Owns(q) => req'[q] = req[q]
    BY GotoMoves DEF IInv, TypeOK
  <2>4. \A q \in Request \ {r} : Owns(q) => Private(req[q].order)'
    BY <2>1, <2>2, <2>3 DEF Private, Bound
  <2>5. QED
    BY <2>4, OwnersStay DEF IInv
<1>5. SecretBound' /\ PaymentNeedsSecret' /\ EventsTrue' /\ RowsOK'
  BY DEF IInv, SecretBound, PaymentNeedsSecret, EventsTrue, RowsOK, RowOK, Funded, Bound
<1>6. QED
  BY <1>3, <1>4, <1>5 DEF IInv

LEMMA UntouchedStep ==
  ASSUME IInv, TypeOK', UNCHANGED <<database, stripe, req>> PROVE IInv'
BY DEF IInv, OwnersExclusive, Owns, Private, HandlersOK, HandlerOK, SecretBound,
       PaymentNeedsSecret, EventsTrue, RowsOK, RowOK, Funded, Bound, database, stripe

\* Requests arrive: they only read.
LEMMA BeginCheckoutKeeps ==
  ASSUME IInv, TypeOK', NEW r \in Request, NEW u \in User, NEW c \in Cart,
         BeginCheckout(r, u, c)
  PROVE  IInv'
<1>1. UNCHANGED <<database, stripe>>
  BY DEF BeginCheckout
<1> DEFINE reuse(o) == [pc |-> "reuse", order |-> o, user |-> u, cart |-> c]
           persist == [pc |-> "persist", user |-> u, cart |-> c]
<1>2. CASE Goto(r, persist)
  <2>1. persist \in Handler /\ HandlerOK(persist) /\ persist.pc \notin OwnerPc
    BY HandlerShapes DEF HandlerOK, OwnerPc
  <2> HIDE DEF persist
  <2>2. QED
    BY <1>1, <1>2, <2>1, QuietStep
<1>3. ASSUME NEW o \in Reusable(u, c), Bound(o), Goto(r, reuse(o)) PROVE IInv'
  <2>1. o \in live /\ o \in Order /\ o \in 1..opened
    BY LiveOrders DEF Reusable, IInv
  <2>2. reuse(o) \in Handler /\ HandlerOK(reuse(o)) /\ reuse(o).pc \notin OwnerPc
    BY <1>3, <2>1, HandlerShapes DEF HandlerOK, OwnerPc
  <2> HIDE DEF reuse
  <2>3. QED
    BY <1>1, <1>3, <2>2, QuietStep
<1>4. QED
  BY <1>2, <1>3 DEF BeginCheckout

LEMMA BeginConfirmKeeps ==
  ASSUME IInv, TypeOK', NEW r \in Request, NEW o \in Order, BeginConfirm(r, o)
  PROVE  IInv'
<1> DEFINE h == [pc |-> "retrieve", order |-> o, seen |-> orders[o].payment_status]
<1>1. h \in Handler
  BY RowFields, HandlerShapes DEF IInv
<1>2. HandlerOK(h) /\ h.pc \notin OwnerPc
  BY LiveOrders DEF BeginConfirm, HandlerOK, OwnerPc, IInv
<1>3. Goto(r, h) /\ UNCHANGED <<database, stripe>>
  BY DEF BeginConfirm
<1> HIDE DEF h
<1>4. QED
  BY <1>1, <1>2, <1>3, QuietStep

LEMMA StripeWebhookKeeps ==
  ASSUME IInv, TypeOK', NEW r \in Request, NEW e \in Event, stripeWebhook(r, e)
  PROVE  IInv'
<1> DEFINE o == e.order
           next == IF e.paid THEN "succeeded" ELSE "failed"
           h == [pc |-> "settle", order |-> o, next |-> next, hook |-> TRUE]
<1>1. UNCHANGED <<database, stripe>>
  BY DEF stripeWebhook
<1>2. CASE UNCHANGED req
  BY <1>1, <1>2, UntouchedStep
<1>3. CASE o \in live /\ Bound(o) /\ Goto(r, h)
  <2>1. o \in Order /\ next \in PaymentStatus /\ next # "refunded"
    BY DEF Event, PaymentStatus
  <2>2. next = "succeeded" => intent[o] = "succeeded"
    BY DEF stripeWebhook, IInv, EventsTrue
  <2> HIDE DEF o, next
  <2>3. h \in Handler
    BY <2>1, HandlerShapes
  <2>4. HandlerOK(h) /\ h.pc \notin OwnerPc
    BY <1>3, <2>1, <2>2, LiveOrders DEF HandlerOK, OwnerPc, IInv
  <2> HIDE DEF h
  <2>5. QED
    BY <1>1, <1>3, <2>3, <2>4, QuietStep
<1>4. QED
  BY <1>2, <1>3 DEF stripeWebhook

LEMMA BeginRefundKeeps ==
  ASSUME IInv, TypeOK', NEW r \in Request, NEW o \in Order, BeginRefund(r, o)
  PROVE  IInv'
<1> DEFINE h == [pc |-> IF Bound(o) THEN "refundCharge" ELSE "refundWrite",
                 order |-> o, seen |-> orders[o].status]
<1>1. h \in Handler
  BY RowFields, HandlerShapes DEF IInv
<1>2. Goto(r, h) /\ UNCHANGED <<database, stripe>> /\ o \in live
  BY DEF BeginRefund
<1>3. ~Bound(o) => orders[o].cart \in FreeCart
  BY DEF BeginRefund, IInv, RowsOK, RowOK, Funded, PaymentNeedsSecret, SecretBound
<1>4. HandlerOK(h) /\ h.pc \notin OwnerPc
  BY <1>2, <1>3, LiveOrders DEF HandlerOK, OwnerPc, IInv
<1> HIDE DEF h
<1>5. QED
  BY <1>1, <1>2, <1>4, QuietStep

LEMMA FulfillOrderKeeps ==
  ASSUME IInv, TypeOK', NEW r \in Request, NEW o \in Order, fulfillOrder(r, o)
  PROVE  IInv'
<1> DEFINE h == [pc |-> "ship", order |-> o, seen |-> orders[o].fulfillment_status]
<1>1. h \in Handler
  BY RowFields, HandlerShapes DEF IInv
<1>2. Goto(r, h) /\ UNCHANGED <<database, stripe>>
  BY DEF fulfillOrder
<1>3. HandlerOK(h) /\ h.pc \notin OwnerPc
  BY LiveOrders DEF fulfillOrder, HandlerOK, OwnerPc, IInv, RowsOK, RowOK
<1> HIDE DEF h
<1>4. QED
  BY <1>1, <1>2, <1>3, QuietStep

LEMMA MarkOrderDeliveredKeeps ==
  ASSUME IInv, TypeOK', NEW r \in Request, NEW o \in Order, markOrderDelivered(r, o)
  PROVE  IInv'
<1> DEFINE h == [pc |-> "markDelivered", order |-> o]
<1>1. h \in Handler
  BY HandlerShapes DEF IInv
<1>2. Goto(r, h) /\ UNCHANGED <<database, stripe>>
  BY DEF markOrderDelivered
<1>3. HandlerOK(h) /\ h.pc \notin OwnerPc
  BY LiveOrders DEF markOrderDelivered, HandlerOK, OwnerPc, IInv, RowsOK, RowOK
<1> HIDE DEF h
<1>4. QED
  BY <1>1, <1>2, <1>3, QuietStep

\* Handlers that give up, or only look at Stripe.
LEMMA IdleOK == Idle \in Handler /\ HandlerOK(Idle) /\ Idle.pc \notin OwnerPc
BY HandlerShapes DEF HandlerOK, OwnerPc, Idle

LEMMA AbortKeeps ==
  ASSUME IInv, TypeOK', NEW r \in Request, Abort(r) PROVE IInv'
BY IdleOK, QuietStep DEF Abort

LEMMA RetrieveIntentKeeps ==
  ASSUME IInv, TypeOK', NEW r \in Request, RetrieveIntent(r) PROVE IInv'
<1> DEFINE o == req[r].order
           next == CASE intent[o] = "succeeded" -> "succeeded"
                     [] intent[o] = "canceled" -> "failed"
                     [] OTHER -> "processing"
           h == [pc |-> "settle", order |-> o, next |-> next, hook |-> FALSE]
<1>1. UNCHANGED <<database, stripe>>
  BY DEF RetrieveIntent
<1>2. CASE Goto(r, Idle)
  BY <1>1, <1>2, IdleOK, QuietStep
<1>3. CASE Goto(r, h)
  <2>1. o \in 1..opened /\ o \in live /\ Bound(o) /\ o \in Order
    BY LiveOrders DEF RetrieveIntent, IInv, HandlersOK, HandlerOK
  <2>2. /\ next \in PaymentStatus
        /\ next # "refunded"
        /\ next = "succeeded" => intent[o] = "succeeded"
    BY DEF PaymentStatus
  <2> HIDE DEF o, next
  <2>3. h \in Handler
    BY <2>1, <2>2, HandlerShapes
  <2>4. HandlerOK(h) /\ h.pc \notin OwnerPc
    BY <2>1, <2>2 DEF HandlerOK, OwnerPc
  <2> HIDE DEF h
  <2>5. QED
    BY <1>1, <1>3, <2>3, <2>4, QuietStep
<1>4. QED
  BY <1>2, <1>3 DEF RetrieveIntent

\* A handler's last write, of columns that no handler's right rests on.
LEMMA LastWrite ==
  ASSUME IInv, TypeOK', NEW r \in Request, Goto(r, Idle),
         UNCHANGED <<opened, live, stripe>>,
         \A x \in Order : /\ orders'[x].cart = orders[x].cart
                          /\ orders'[x].bound = orders[x].bound,
         RowsOK'
  PROVE  IInv'
<1> USE DEF stripe
<1>1. Steady
  BY LiveOrders DEF Steady, Bound, IInv, TypeOK
<1>2. HandlersOK'
  <2>1. HandlerOK(Idle)'
    BY DEF HandlerOK, Idle
  <2>2. QED
    BY <1>1, <2>1, IdleOK, HandlersStay DEF IInv
<1>3. \A o \in live : /\ Private(o) => Private(o)'
                      /\ Bound(o) => Bound(o)'
  BY LiveOrders DEF Private, Bound, IInv
<1>4. OwnersExclusive'
  <2>1. \A q \in Request \ {r} : Owns(q) => Private(req[q].order)
    BY DEF IInv, OwnersExclusive
  <2>2. \A q \in Request \ {r} : Owns(q) => req'[q] = req[q]
    BY IdleOK, GotoMoves DEF IInv, TypeOK
  <2>3. \A q \in Request \ {r} : Owns(q) => Private(req[q].order)'
    BY <1>3, <2>1, <2>2 DEF Private, Bound
  <2>4. QED
    BY <2>3, IdleOK, OwnersStay DEF IInv
<1>5. SecretBound' /\ PaymentNeedsSecret' /\ EventsTrue'
  BY <1>3 DEF IInv, SecretBound, PaymentNeedsSecret, EventsTrue
<1>6. QED
  BY <1>2, <1>4, <1>5 DEF IInv

LEMMA SettleFreeKeeps ==
  ASSUME IInv, TypeOK', NEW r \in Request, SettleFree(r) PROVE IInv'
<1>1. /\ req[r].order \in Order
      /\ orders[req[r].order].cart \in FreeCart
      /\ "succeeded" \in PaymentStatus
  BY RequestFields DEF SettleFree, IInv, HandlersOK, HandlerOK, PaymentStatus
<1>2. /\ Goto(r, Idle)
      /\ UNCHANGED <<opened, live, stripe>>
      /\ orders' = Settled(req[r].order, "succeeded")
  BY DEF SettleFree
<1>3. orders \in [Order -> OrderRow]
  BY DEF IInv, TypeOK
<1>4. RowsOK'
  BY <1>1, <1>2, <1>3, SettledRows, LiveOrders DEF IInv, RowsOK, RowOK, Funded, stripe
<1>5. QED
  BY <1>1, <1>2, <1>3, <1>4, SettledRows, LastWrite

LEMMA SettleOrderKeeps ==
  ASSUME IInv, TypeOK', NEW r \in Request, settleOrder(r) PROVE IInv'
<1> DEFINE o == req[r].order
           next == req[r].next
<1>1. /\ o \in Order
      /\ next \in PaymentStatus
      /\ next # "refunded"
      /\ next = "succeeded" => intent[o] = "succeeded"
  BY RequestFields DEF settleOrder, IInv, HandlersOK, HandlerOK
<1>2. /\ Goto(r, Idle)
      /\ UNCHANGED <<opened, live, stripe>>
      /\ orders' = Settled(o, next)
  BY DEF settleOrder
<1>3. orders \in [Order -> OrderRow]
  BY DEF IInv, TypeOK
<1> HIDE DEF o, next
<1>4. RowsOK'
  BY <1>1, <1>2, <1>3, SettledRows, LiveOrders DEF IInv, RowsOK, RowOK, Funded, stripe
<1>5. QED
  BY <1>1, <1>2, <1>3, <1>4, SettledRows, LastWrite

LEMMA WriteRefundKeeps ==
  ASSUME IInv, TypeOK', NEW r \in Request, WriteRefund(r) PROVE IInv'
<1> DEFINE o == req[r].order
<1>1. /\ o \in Order
      /\ \/ orders[o].cart \in FreeCart
         \/ o \in refunded /\ intent[o] = "succeeded"
  BY RequestFields DEF WriteRefund, IInv, HandlersOK, HandlerOK
<1>2. Goto(r, Idle) /\ UNCHANGED <<opened, live, stripe>>
  BY DEF WriteRefund
<1>3. orders \in [Order -> OrderRow]
  BY DEF IInv, TypeOK
<1>4. /\ \A x \in Order : /\ orders'[x].cart = orders[x].cart
                          /\ orders'[x].bound = orders[x].bound
                          /\ orders'[x].fulfillment_status = orders[x].fulfillment_status
      /\ \A x \in Order \ {o} : orders'[x] = orders[x]
      /\ orders'[o].payment_status = "refunded"
  <2>1. orders' = [orders EXCEPT
                     ![o].payment_status = "refunded",
                     ![o].status = IF req[r].seen = orderWireStatus("refunded")
                                   THEN @ ELSE orderWireStatus("refunded")]
    BY DEF WriteRefund
  <2>2. QED
    BY <1>1, <1>3, <2>1, RefundedRows
<1> HIDE DEF o
<1>5. RowsOK'
  BY <1>1, <1>2, <1>4, LiveOrders DEF IInv, RowsOK, RowOK, Funded, stripe
<1>6. QED
  BY <1>2, <1>4, <1>5, LastWrite

LEMMA WriteShippedKeeps ==
  ASSUME IInv, TypeOK', NEW r \in Request, WriteShipped(r) PROVE IInv'
<1> DEFINE o == req[r].order
           f == IF req[r].seen = "shipped" THEN orders[o].fulfillment_status ELSE "shipped"
<1>1. o \in Order /\ Funded(o)
  BY RequestFields DEF WriteShipped, IInv, HandlersOK, HandlerOK
<1>2. Goto(r, Idle) /\ UNCHANGED <<opened, live, stripe>>
  BY DEF WriteShipped
<1>3. orders \in [Order -> OrderRow] /\ f \in FulfillmentStatus
  BY <1>1, RowFields DEF IInv, TypeOK, FulfillmentStatus
<1>4. orders' = [orders EXCEPT ![o].fulfillment_status = f]
  BY <1>1, <1>3 DEF WriteShipped
<1> HIDE DEF o, f
<1>5. RowsOK'
  BY <1>1, <1>2, <1>3, <1>4, ColumnWritten, LiveOrders DEF IInv, RowsOK, RowOK, Funded, stripe
<1>6. QED
  BY <1>1, <1>2, <1>3, <1>4, <1>5, ColumnWritten, LastWrite

LEMMA WriteDeliveredKeeps ==
  ASSUME IInv, TypeOK', NEW r \in Request, WriteDelivered(r) PROVE IInv'
<1> DEFINE o == req[r].order
<1>1. o \in Order /\ Funded(o) /\ "delivered" \in FulfillmentStatus
  BY RequestFields DEF WriteDelivered, IInv, HandlersOK, HandlerOK, FulfillmentStatus
<1>2. /\ Goto(r, Idle)
      /\ UNCHANGED <<opened, live, stripe>>
      /\ orders' = [orders EXCEPT ![o].fulfillment_status = "delivered"]
  BY DEF WriteDelivered
<1>3. orders \in [Order -> OrderRow]
  BY DEF IInv, TypeOK
<1> HIDE DEF o
<1>4. RowsOK'
  BY <1>1, <1>2, <1>3, ColumnWritten, LiveOrders DEF IInv, RowsOK, RowOK, Funded, stripe
<1>5. QED
  BY <1>1, <1>2, <1>3, <1>4, ColumnWritten, LastWrite

\* The others' orders stay private when every private order but r's own does.
LEMMA OthersStay ==
  ASSUME IInv, NEW r \in Request, NEW h \in Handler, Goto(r, h),
         \A o \in live : Private(o) /\ (Owns(r) => o # req[r].order) => Private(o)'
  PROVE  \A q \in Request \ {r} : Owns(q) => Private(req[q].order)'
<1> SUFFICES ASSUME NEW q \in Request \ {r}, Owns(q) PROVE Private(req[q].order)'
  OBVIOUS
<1>1. Private(req[q].order) /\ (Owns(r) => req[q].order # req[r].order)
  BY DEF IInv, OwnersExclusive
<1>2. req'[q] = req[q]
  BY GotoMoves DEF IInv, TypeOK
<1>3. QED
  BY <1>1, <1>2 DEF Private, Bound

\* A handler's own order is private and nobody else's.
LEMMA OwnOrder ==
  ASSUME IInv, NEW r \in Request, Owns(r)
  PROVE  /\ Private(req[r].order)
         /\ req[r].order \in Order
         /\ req[r].order \in 1..opened
         /\ \A q \in Request \ {r} : Owns(q) => req[q].order # req[r].order
BY LiveOrders DEF IInv, OwnersExclusive, Private

LEMMA ReuseIntentKeeps ==
  ASSUME IInv, TypeOK', NEW r \in Request, ReuseIntent(r) PROVE IInv'
<1> DEFINE o == req[r].order
           persist == [pc |-> "persist", user |-> req[r].user, cart |-> req[r].cart]
<1>1. o \in Order /\ o \in live /\ Bound(o) /\ ~Owns(r)
  BY RequestFields DEF ReuseIntent, IInv, HandlersOK, HandlerOK, Owns, OwnerPc
<1>2. UNCHANGED <<database, intent, refunded, sent>> /\ secret' \subseteq secret \cup {o}
      /\ secret \subseteq secret'
  BY DEF ReuseIntent
<1>3. Steady
  BY <1>2 DEF Steady, Bound, IInv, TypeOK, database
<1>4. PICK h \in {Idle, persist} : Goto(r, h)
  BY DEF ReuseIntent
<1>5. h \in Handler /\ HandlerOK(h)' /\ h.pc \notin OwnerPc
  <2>1. persist \in Handler
    BY RequestFields, HandlerShapes DEF ReuseIntent, IInv
  <2>2. QED
    BY <2>1, HandlerShapes DEF HandlerOK, Idle, OwnerPc
<1>6. HandlersOK'
  BY <1>3, <1>4, <1>5, HandlersStay DEF IInv
<1>7. OwnersExclusive'
  <2>1. \A x \in live : Private(x) => Private(x)'
    BY <1>1, <1>2 DEF Private, Bound, database
  <2>2. \A q \in Request \ {r} : Owns(q) => Private(req[q].order)'
    BY <1>4, <1>5, <2>1, OthersStay
  <2>3. QED
    BY <1>4, <1>5, <2>2, OwnersStay DEF IInv
<1> HIDE DEF o
<1>8. SecretBound'
  BY <1>1, <1>2 DEF SecretBound, Bound, IInv, database
<1>9. PaymentNeedsSecret' /\ EventsTrue' /\ RowsOK'
  BY <1>2 DEF IInv, PaymentNeedsSecret, EventsTrue, RowsOK, RowOK, Funded, database
<1>10. QED
  BY <1>6, <1>7, <1>8, <1>9 DEF IInv

LEMMA CreatePaymentIntentKeeps ==
  ASSUME IInv, TypeOK', NEW r \in Request, createPaymentIntent(r) PROVE IInv'
<1> DEFINE o == req[r].order
<1>1. Owns(r)
  BY DEF createPaymentIntent, Owns, OwnerPc
<1>2. /\ o \in Order /\ o \in live /\ o \notin secret /\ ~Bound(o) /\ o \in 1..opened
      /\ \A q \in Request \ {r} : Owns(q) => req[q].order # o
  BY <1>1, OwnOrder DEF Private
<1> DEFINE step(pc) == [pc |-> pc, order |-> o]
<1>3. PICK h \in {step("bind"), step("release")} : Goto(r, h)
  BY DEF createPaymentIntent
<1>4. h \in Handler /\ h.pc \in OwnerPc /\ h.pc \in {"bind", "release"} /\ h.order = o
  <2>1. \A pc \in {"bind", "release"} :
          /\ step(pc) \in Handler
          /\ step(pc).pc = pc
          /\ step(pc).order = o
    BY <1>2, HandlerShapes
  <2> HIDE DEF step
  <2>2. QED
    BY <1>3, <2>1 DEF OwnerPc
<1>5. /\ UNCHANGED <<database, refunded, secret, sent>>
      /\ \A x \in Order \ {o} : intent'[x] = intent[x]
      /\ intent'[o] \in {"unpaid", intent[o]}
  BY <1>2 DEF createPaymentIntent, IInv, TypeOK
<1>6. intent[o] \notin {"processing", "succeeded"}
  BY <1>2 DEF IInv, PaymentNeedsSecret
<1> HIDE DEF o
<1>7. Steady
  BY <1>2, <1>5, <1>6 DEF Steady, Bound, IInv, TypeOK, database
<1>8. HandlersOK'
  <2>1. HandlerOK(h)'
    BY <1>2, <1>4, <1>5 DEF HandlerOK, database
  <2>2. QED
    BY <1>3, <1>4, <1>7, <2>1, HandlersStay DEF IInv
<1>9. OwnersExclusive'
  <2>1. \A x \in live : Private(x) => Private(x)'
    BY <1>5 DEF Private, Bound, database
  <2>2. \A q \in Request \ {r} : Owns(q) => Private(req[q].order)'
    BY <1>3, <1>4, <2>1, OthersStay
  <2>3. Private(h.order)'
    BY <1>2, <1>4, <1>5 DEF Private, Bound, database
  <2>4. QED
    BY <1>2, <1>3, <1>4, <2>2, <2>3, OwnersStay DEF IInv
<1>10. SecretBound'
  BY <1>5 DEF IInv, SecretBound, Bound, database
<1>11. PaymentNeedsSecret'
  BY <1>2, <1>5, <1>6 DEF IInv, PaymentNeedsSecret
<1>12. EventsTrue'
  BY <1>2, <1>5, <1>6 DEF IInv, EventsTrue, TypeOK, Event
<1>13. RowsOK'
  BY <1>2, <1>5, <1>6, LiveOrders DEF IInv, RowsOK, RowOK, Funded, database
<1>14. QED
  BY <1>8, <1>9, <1>10, <1>11, <1>12, <1>13 DEF IInv

LEMMA ReleaseOrderKeeps ==
  ASSUME IInv, TypeOK', NEW r \in Request, releaseOrder(r) PROVE IInv'
<1> DEFINE o == req[r].order
<1>1. Owns(r)
  BY DEF releaseOrder, Owns, OwnerPc
<1>2. o \in Order /\ o \notin secret /\ ~Bound(o)
  BY <1>1, OwnOrder DEF Private
<1>3. /\ Goto(r, Idle)
      /\ live' = live \ {o}
      /\ UNCHANGED <<opened, orders, stripe>>
  BY DEF releaseOrder
<1>4. Steady
  BY <1>2, <1>3 DEF Steady, Bound, IInv, TypeOK, stripe
<1>5. HandlersOK'
  <2>1. HandlerOK(Idle)'
    BY DEF HandlerOK, Idle
  <2>2. QED
    BY <1>3, <1>4, <2>1, IdleOK, HandlersStay DEF IInv
<1>6. OwnersExclusive'
  <2>1. \A x \in live : Private(x) /\ x # o => Private(x)'
    BY <1>3 DEF Private, Bound, stripe
  <2>2. \A q \in Request \ {r} : Owns(q) => Private(req[q].order)'
    BY <1>1, <1>3, <2>1, IdleOK, OthersStay
  <2>3. QED
    BY <1>3, <2>2, IdleOK, OwnersStay DEF IInv
<1> HIDE DEF o
<1>7. SecretBound' /\ PaymentNeedsSecret' /\ EventsTrue' /\ RowsOK'
  BY <1>2, <1>3 DEF IInv, SecretBound, PaymentNeedsSecret, EventsTrue, RowsOK, RowOK,
                    Funded, Bound, stripe
<1>8. QED
  BY <1>5, <1>6, <1>7 DEF IInv

LEMMA BindIntentKeeps ==
  ASSUME IInv, TypeOK', NEW r \in Request, BindIntent(r) PROVE IInv'
<1> DEFINE o == req[r].order
<1>1. Owns(r)
  BY DEF BindIntent, Owns, OwnerPc
<1>2. o \in Order /\ o \in live
  BY <1>1, OwnOrder DEF Private
<1>3. /\ Goto(r, Idle)
      /\ orders' = [orders EXCEPT ![o].bound = TRUE]
      /\ secret' = secret \cup {o}
      /\ UNCHANGED <<opened, live, intent, refunded, sent>>
  BY DEF BindIntent
<1>4. /\ \A x \in Order : /\ orders'[x].cart = orders[x].cart
                          /\ orders'[x].payment_status = orders[x].payment_status
                          /\ orders'[x].fulfillment_status = orders[x].fulfillment_status
      /\ \A x \in Order \ {o} : orders'[x] = orders[x]
      /\ orders'[o].bound
  BY <1>2, <1>3, ColumnWritten DEF IInv, TypeOK
<1>5. Steady
  BY <1>3, <1>4, LiveOrders DEF Steady, Bound, IInv
<1>6. HandlersOK'
  <2>1. HandlerOK(Idle)'
    BY DEF HandlerOK, Idle
  <2>2. QED
    BY <1>3, <1>5, <2>1, IdleOK, HandlersStay DEF IInv
<1>7. OwnersExclusive'
  <2>1. \A x \in live : Private(x) /\ x # o => Private(x)'
    BY <1>3, <1>4, LiveOrders DEF Private, Bound, IInv
  <2>2. \A q \in Request \ {r} : Owns(q) => Private(req[q].order)'
    BY <1>1, <1>3, <2>1, IdleOK, OthersStay
  <2>3. QED
    BY <1>3, <2>2, IdleOK, OwnersStay DEF IInv
<1> HIDE DEF o
<1>8. SecretBound' /\ PaymentNeedsSecret' /\ EventsTrue' /\ RowsOK'
  BY <1>2, <1>3, <1>4, LiveOrders
     DEF IInv, SecretBound, PaymentNeedsSecret, EventsTrue, RowsOK, RowOK, Funded, Bound
<1>9. QED
  BY <1>6, <1>7, <1>8 DEF IInv

LEMMA RefundPaymentIntentKeeps ==
  ASSUME IInv, TypeOK', NEW r \in Request, refundPaymentIntent(r) PROVE IInv'
<1> DEFINE o == req[r].order
           write == [pc |-> "refundWrite", order |-> o, seen |-> req[r].seen]
<1>1. /\ o \in Order /\ o \in 1..opened
      /\ write \in Handler
  BY RequestFields, HandlerShapes DEF refundPaymentIntent, IInv, HandlersOK, HandlerOK
<1>2. /\ UNCHANGED <<database, intent, secret, sent>>
      /\ refunded \subseteq refunded'
  BY DEF refundPaymentIntent
<1>3. PICK h \in {Idle, write} : Goto(r, h) /\ (h = write => intent[o] = "succeeded" /\ o \in refunded')
  BY DEF refundPaymentIntent, Idle
<1>4. h \in Handler /\ HandlerOK(h)' /\ h.pc \notin OwnerPc
  <2>1. h \in Handler
    BY <1>1, HandlerShapes
  <2>2. HandlerOK(h)' /\ h.pc \notin OwnerPc
    BY <1>1, <1>2, <1>3 DEF HandlerOK, Idle, OwnerPc, database
  <2>3. QED
    BY <2>1, <2>2
<1>5. Steady
  BY <1>2 DEF Steady, Bound, IInv, TypeOK, database
<1>6. HandlersOK'
  BY <1>3, <1>4, <1>5, HandlersStay DEF IInv
<1>7. OwnersExclusive'
  <2>1. \A x \in live : Private(x) => Private(x)'
    BY <1>2 DEF Private, Bound, database
  <2>2. \A q \in Request \ {r} : Owns(q) => Private(req[q].order)'
    BY <1>3, <1>4, <2>1, OthersStay
  <2>3. QED
    BY <1>3, <1>4, <2>2, OwnersStay DEF IInv
<1>8. SecretBound' /\ PaymentNeedsSecret' /\ EventsTrue' /\ RowsOK'
  BY <1>2 DEF IInv, SecretBound, PaymentNeedsSecret, EventsTrue, RowsOK, RowOK,
              Funded, Bound, database
<1>9. QED
  BY <1>6, <1>7, <1>8 DEF IInv

LEMMA PersistOrderKeeps ==
  ASSUME IInv, TypeOK', NEW r \in Request, persistOrder(r) PROVE IInv'
<1> DEFINE c == req[r].cart
           o == opened + 1
           next == [pc |-> IF c \in FreeCart THEN "settleFree" ELSE "openIntent", order |-> o]
<1>1. CASE ~(InStock(c) /\ opened < MaxOrders)
  <2>1. UNCHANGED <<opened, live, orders, stripe>> /\ Goto(r, Idle)
    BY <1>1 DEF persistOrder
  <2>2. Steady
    BY <2>1 DEF Steady, Bound, IInv, TypeOK, stripe
  <2>3. HandlersOK'
    <3>1. HandlerOK(Idle)'
      BY DEF HandlerOK, Idle
    <3>2. QED
      BY <2>1, <2>2, <3>1, IdleOK, HandlersStay DEF IInv
  <2>4. OwnersExclusive'
    <3>1. \A x \in live : Private(x) => Private(x)'
      BY <2>1 DEF Private, Bound, stripe
    <3>2. \A q \in Request \ {r} : Owns(q) => Private(req[q].order)'
      BY <2>1, <3>1, IdleOK, OthersStay
    <3>3. QED
      BY <2>1, <3>2, IdleOK, OwnersStay DEF IInv
  <2>5. SecretBound' /\ PaymentNeedsSecret' /\ EventsTrue' /\ RowsOK'
    BY <2>1 DEF IInv, SecretBound, PaymentNeedsSecret, EventsTrue, RowsOK, RowOK,
                Funded, Bound, stripe
  <2>6. QED
    BY <2>3, <2>4, <2>5 DEF IInv
<1>2. CASE InStock(c) /\ opened < MaxOrders
  <2>1. /\ opened' = o
        /\ live' = live \cup {o}
        /\ orders' = [orders EXCEPT ![o] = NewRow(req[r].user, c)]
        /\ Goto(r, next)
        /\ UNCHANGED stripe
    BY <1>2 DEF persistOrder
  <2>2. /\ opened \in Nat /\ o \in Order /\ o \in 1..opened' /\ o \notin 1..opened
        /\ o \notin live
    BY <1>2, <2>1, LiveOrders, CheckoutAssumption DEF Order, IInv
  <2>3. /\ \A x \in Order \ {o} : orders'[x] = orders[x]
        /\ orders'[o] = NewRow(req[r].user, c)
        /\ orders'[o].cart = c
        /\ orders'[o].bound = FALSE
        /\ orders'[o].payment_status = "requires_payment"
        /\ orders'[o].fulfillment_status = "unfulfilled"
    BY <2>1, <2>2 DEF IInv, TypeOK, NewRow
  <2>4. o \notin secret
    BY <2>2 DEF IInv, SecretBound
  <2>5. PICK h \in Handler :
          /\ h = next
          /\ h.pc \in OwnerPc
          /\ h.order = o
          /\ h.pc \in {"settleFree", "openIntent"}
          /\ h.pc = "settleFree" => c \in FreeCart
    BY <2>2, HandlerShapes DEF OwnerPc
  <2> HIDE DEF next
  <2>6. Steady
    <3>1. opened <= opened'
      BY <2>1, <2>2 DEF o
    <3>2. \A x \in live : x # o /\ x \in Order
      BY <2>2, LiveOrders DEF IInv
    <3>3. \A x \in 1..opened : x # o /\ x \in Order
      BY <2>2, LiveOrders DEF IInv
    <3>4. QED
      BY <2>1, <2>3, <3>1, <3>2, <3>3 DEF Steady, Bound, stripe
  <2>7. HandlersOK'
    <3>1. HandlerOK(h)'
      BY <2>2, <2>3, <2>5 DEF HandlerOK
    <3>2. QED
      BY <2>1, <2>5, <2>6, <3>1, HandlersStay DEF IInv
  <2>8. OwnersExclusive'
    <3>1. \A x \in live : Private(x) => Private(x)'
      BY <2>1, <2>2, <2>3, LiveOrders DEF Private, Bound, IInv, stripe
    <3>2. \A q \in Request \ {r} : Owns(q) => Private(req[q].order)'
      BY <2>1, <2>5, <3>1, OthersStay
    <3>3. Private(h.order)'
      BY <2>1, <2>3, <2>4, <2>5 DEF Private, Bound, stripe
    <3>4. \A q \in Request \ {r} : Owns(q) => req[q].order # h.order
      BY <2>2, <2>5, OwnOrder DEF Private
    <3>5. QED
      BY <2>1, <2>5, <3>2, <3>3, <3>4, OwnersStay DEF IInv
  <2>9. SecretBound' /\ PaymentNeedsSecret' /\ EventsTrue'
    BY <2>1, <2>2, <2>3, <2>4, LiveOrders
       DEF IInv, SecretBound, PaymentNeedsSecret, EventsTrue, Bound, stripe
  <2>10. RowsOK'
    BY <2>1, <2>2, <2>3, LiveOrders DEF IInv, RowsOK, RowOK, Funded, stripe
  <2>11. QED
    BY <2>7, <2>8, <2>9, <2>10 DEF IInv
<1>3. QED
  BY <1>1, <1>2

\* Sellers, time, Stripe and the card move no handler and write no row.
LEMMA EnvironmentStep ==
  ASSUME IInv, TypeOK', UNCHANGED <<opened, live, orders, refunded, secret, req>>,
         \A o \in Order : intent[o] = "succeeded" => intent'[o] = "succeeded",
         \A o \in Order : intent'[o] \in {"processing", "succeeded"} => o \in secret,
         EventsTrue'
  PROVE  IInv'
<1>1. Steady
  BY DEF Steady, Bound, IInv, TypeOK
<1>2. HandlersOK'
  <2> SUFFICES ASSUME NEW r \in Request PROVE HandlerOK(req[r])'
    BY DEF HandlersOK
  <2>1. HandlerOK(req[r]) /\ req[r] \in Handler /\ req'[r] = req[r]
    BY DEF IInv, HandlersOK, TypeOK
  <2>2. QED
    BY <1>1, <2>1, HandlerKeeps DEF IInv, HandlerOK
<1>3. OwnersExclusive' /\ SecretBound' /\ PaymentNeedsSecret'
  BY DEF IInv, OwnersExclusive, Owns, Private, SecretBound, PaymentNeedsSecret, Bound
<1>4. RowsOK'
  BY LiveOrders DEF IInv, RowsOK, RowOK, Funded
<1>5. QED
  BY <1>2, <1>3, <1>4 DEF IInv

LEMMA EnvironmentKeeps ==
  ASSUME IInv, TypeOK', Environment PROVE IInv'
<1> USE DEF database, stripe
<1>1. ASSUME NEW p \in Product, DelistProduct(p) PROVE IInv'
  BY <1>1, EnvironmentStep DEF DelistProduct, IInv, PaymentNeedsSecret, EventsTrue
<1>2. ASSUME AgeOrder PROVE IInv'
  BY <1>2, EnvironmentStep DEF AgeOrder, IInv, PaymentNeedsSecret, EventsTrue
<1>3. ASSUME NEW o \in Order, StartProcessing(o) PROVE IInv'
  <2>1. EventsTrue'
    BY <1>3 DEF StartProcessing, IInv, TypeOK, EventsTrue, Event
  <2>2. QED
    BY <1>3, <2>1, EnvironmentStep DEF StartProcessing, IInv, TypeOK, PaymentNeedsSecret
<1>4. ASSUME NEW o \in Order, CapturePayment(o) PROVE IInv'
  <2>1. EventsTrue'
    BY <1>4 DEF CapturePayment, Emit, IInv, TypeOK, EventsTrue, Event
  <2>2. QED
    BY <1>4, <2>1, EnvironmentStep DEF CapturePayment, IInv, TypeOK, PaymentNeedsSecret
<1>5. ASSUME NEW o \in Order, DeclinePayment(o) PROVE IInv'
  <2>1. EventsTrue'
    BY <1>5 DEF DeclinePayment, Emit, IInv, TypeOK, EventsTrue, Event
  <2>2. QED
    BY <1>5, <2>1, EnvironmentStep DEF DeclinePayment, IInv, TypeOK, PaymentNeedsSecret
<1>6. ASSUME NEW o \in Order, CancelIntent(o) PROVE IInv'
  <2>1. EventsTrue'
    BY <1>6 DEF CancelIntent, Emit, IInv, TypeOK, EventsTrue, Event
  <2>2. QED
    BY <1>6, <2>1, EnvironmentStep DEF CancelIntent, IInv, TypeOK, PaymentNeedsSecret
<1>7. QED
  BY <1>1, <1>2, <1>3, <1>4, <1>5, <1>6 DEF Environment

\* IInv is inductive.
LEMMA InvInit == Init => IInv
<1> SUFFICES ASSUME Init PROVE IInv
  OBVIOUS
<1>1. TypeOK
  BY TypeInit
<1>2. \A r \in Request : req[r] = Idle
  BY DEF Init
<1>3. OwnersExclusive /\ HandlersOK
  BY <1>2 DEF OwnersExclusive, Owns, OwnerPc, HandlersOK, HandlerOK, Idle
<1>4. SecretBound /\ PaymentNeedsSecret /\ EventsTrue /\ RowsOK
  BY DEF Init, SecretBound, PaymentNeedsSecret, EventsTrue, RowsOK
<1>5. QED
  BY <1>1, <1>3, <1>4 DEF IInv

LEMMA InvStep == IInv /\ [Next]_vars => IInv'
<1> SUFFICES ASSUME IInv, [Next]_vars PROVE IInv'
  OBVIOUS
<1>1. TypeOK'
  BY TypeStep DEF IInv
<1>2. ASSUME NEW r \in Request, Arrive(r) PROVE IInv'
  BY <1>1, <1>2, BeginCheckoutKeeps, BeginConfirmKeeps, BeginRefundKeeps, FulfillOrderKeeps,
     MarkOrderDeliveredKeeps, StripeWebhookKeeps DEF Arrive
<1>3. ASSUME NEW r \in Request, Continue(r) PROVE IInv'
  BY <1>1, <1>3, ReuseIntentKeeps, PersistOrderKeeps, SettleFreeKeeps, CreatePaymentIntentKeeps,
     ReleaseOrderKeeps, BindIntentKeeps, RetrieveIntentKeeps, SettleOrderKeeps,
     RefundPaymentIntentKeeps, WriteRefundKeeps, WriteShippedKeeps, WriteDeliveredKeeps
     DEF Continue
<1>4. ASSUME NEW r \in Request, Abort(r) PROVE IInv'
  BY <1>1, <1>4, AbortKeeps
<1>5. ASSUME Environment PROVE IInv'
  BY <1>1, <1>5, EnvironmentKeeps
<1>6. CASE UNCHANGED vars
  BY <1>1, <1>6, UntouchedStep DEF vars
<1>7. QED
  BY <1>2, <1>3, <1>4, <1>5, <1>6 DEF Next

THEOREM Invariance == Spec => []IInv
BY InvInit, InvStep, PTL DEF Spec

\* Captured money has an order that carries its payment_intent_id: an order is
\* deleted only by the checkout that still owns it, before anyone could pay.
THEOREM CapturedMoneyHasOrder == Spec => []CapturedHasOrder
<1>1. IInv => CapturedHasOrder
  BY DEF IInv, PaymentNeedsSecret, SecretBound, CapturedHasOrder
<1>2. QED
  BY <1>1, Invariance, PTL

\* No order reads paid without captured money, nor refunded without a refund.
THEOREM PaymentStatusIsBacked == Spec => []PaymentBacked
<1>1. IInv => PaymentBacked
  BY DEF IInv, RowsOK, RowOK, PaymentBacked
<1>2. QED
  BY <1>1, Invariance, PTL

\* Nothing ships that was not paid for.
THEOREM ShipmentsAreFunded == Spec => []ShippedWasFunded
<1>1. IInv => ShippedWasFunded
  BY DEF IInv, RowsOK, RowOK, ShippedWasFunded
<1>2. QED
  BY <1>1, Invariance, PTL

--------------------------------------------------------------------------------
(* Checkout implements Inventory *)

LEMMA StutterStep ==
  ASSUME TypeOK, UNCHANGED <<stock, live>>,
         \A x \in Order : orders'[x].cart = orders[x].cart,
         \A x \in Order : intent'[x] = "succeeded" <=> intent[x] = "succeeded"
  PROVE  UNCHANGED InventoryView!vars
<1>1. Held' = Held
  BY LiveOrders DEF Held
<1>2. Captured' = Captured
  BY DEF Captured
<1>3. QED
  BY <1>1, <1>2 DEF InventoryView!vars

\* A step that writes neither stock, nor rows, nor intents.
LEMMA OtherColumns ==
  ASSUME TypeOK, UNCHANGED <<stock, live, orders, intent>>
  PROVE  UNCHANGED InventoryView!vars
BY StutterStep

LEMMA PersistReserves ==
  ASSUME IInv, NEW r \in Request, persistOrder(r)
  PROVE  [InventoryView!Next]_(InventoryView!vars)
<1> DEFINE c == req[r].cart
           o == opened + 1
<1>1. CASE ~(InStock(c) /\ opened < MaxOrders)
  BY <1>1, OtherColumns DEF persistOrder, IInv, stripe
<1>2. CASE InStock(c) /\ opened < MaxOrders
  <2>1. /\ live' = live \cup {o}
        /\ orders' = [orders EXCEPT ![o] = NewRow(req[r].user, c)]
        /\ stock' = [p \in Product |-> stock[p] - Quantity[c][p]]
        /\ UNCHANGED stripe
    BY <1>2 DEF persistOrder
  <2>2. /\ o \in Order /\ o \notin live
        /\ c \in Cart
    BY <1>2, RequestFields, LiveOrders, CheckoutAssumption DEF persistOrder, Order, IInv
  <2>3. \A p \in Product : Quantity[c][p] <= stock[p]
    BY <1>2, <2>2, CheckoutAssumption DEF InStock, IInv, TypeOK
  <2>4. ~InventoryView!Holds(o)
    BY <2>2 DEF InventoryView!Holds, Held
  <2>5. /\ \A x \in live : orders'[x].cart = orders[x].cart
        /\ orders'[o].cart = c
    BY <2>1, <2>2, LiveOrders DEF IInv, TypeOK, NewRow
  <2> HIDE DEF o, c
  <2>6. Held' = Held \cup {<<o, c>>}
    BY <2>1, <2>5 DEF Held
  <2>7. Captured' = Captured
    BY <2>1 DEF Captured, stripe
  <2>8. InventoryView!Reserve(o, c)
    BY <2>1, <2>3, <2>4, <2>6, <2>7 DEF InventoryView!Reserve
  <2>9. QED
    BY <2>2, <2>8 DEF InventoryView!Next
<1>3. QED
  BY <1>1, <1>2

LEMMA ReleaseReleases ==
  ASSUME IInv, NEW r \in Request, releaseOrder(r)
  PROVE  [InventoryView!Next]_(InventoryView!vars)
<1> DEFINE o == req[r].order
           c == orders[o].cart
<1>1. /\ o \in Order /\ o \in live /\ o \notin secret
      /\ c \in Cart
  BY OwnOrder, RowFields DEF releaseOrder, Owns, OwnerPc, Private, IInv
<1>2. /\ live' = live \ {o}
      /\ stock' = [p \in Product |-> stock[p] + Quantity[c][p]]
      /\ UNCHANGED <<orders, stripe>>
  BY DEF releaseOrder
<1>3. <<o, c>> \in Held /\ o \notin Captured
  BY <1>1 DEF Held, Captured, IInv, PaymentNeedsSecret
<1>4. Held' = Held \ {<<o, c>>}
  BY <1>2 DEF Held
<1>5. Captured' = Captured
  BY <1>2 DEF Captured, stripe
<1> HIDE DEF o, c
<1>6. InventoryView!Release(o, c)
  BY <1>2, <1>3, <1>4, <1>5 DEF InventoryView!Release
<1>7. QED
  BY <1>1, <1>6 DEF InventoryView!Next

LEMMA CaptureCaptures ==
  ASSUME IInv, NEW o \in Order, CapturePayment(o)
  PROVE  [InventoryView!Next]_(InventoryView!vars)
<1>1. o \in live
  BY DEF CapturePayment, IInv, PaymentNeedsSecret, SecretBound
<1>2. /\ intent' = [intent EXCEPT ![o] = "succeeded"]
      /\ UNCHANGED <<stock, live, orders>>
  BY DEF CapturePayment, database
<1>3. InventoryView!Holds(o)
  BY <1>1, RowFields DEF InventoryView!Holds, Held, IInv
<1>4. Held' = Held
  BY <1>2 DEF Held
<1>5. Captured' = Captured \cup {o}
  BY <1>2 DEF Captured, IInv, TypeOK
<1>6. InventoryView!Capture(o)
  BY <1>2, <1>3, <1>4, <1>5 DEF InventoryView!Capture
<1>7. QED
  BY <1>6 DEF InventoryView!Next

LEMMA ContinueImplements ==
  ASSUME IInv, NEW r \in Request, Continue(r)
  PROVE  [InventoryView!Next]_(InventoryView!vars)
<1> USE DEF database, stripe
<1> DEFINE Stutter == UNCHANGED InventoryView!vars
<1>1. CASE persistOrder(r)
  BY <1>1, PersistReserves
<1>2. CASE releaseOrder(r)
  BY <1>2, ReleaseReleases
<1>3. ASSUME ReuseIntent(r) PROVE Stutter
  BY <1>3, OtherColumns DEF ReuseIntent, IInv
<1>4. ASSUME RetrieveIntent(r) PROVE Stutter
  BY <1>4, OtherColumns DEF RetrieveIntent, IInv
<1>5. ASSUME refundPaymentIntent(r) PROVE Stutter
  BY <1>5, OtherColumns DEF refundPaymentIntent, IInv
<1>6. ASSUME createPaymentIntent(r) PROVE Stutter
  <2>1. req[r].order \in Order /\ req[r].order \notin secret
    BY <1>6, OwnOrder DEF createPaymentIntent, Owns, OwnerPc, Private
  <2>2. intent[req[r].order] # "succeeded"
    BY <2>1 DEF IInv, PaymentNeedsSecret
  <2>3. \A x \in Order : intent'[x] = "succeeded" <=> intent[x] = "succeeded"
    BY <1>6, <2>1, <2>2 DEF createPaymentIntent, IInv, TypeOK
  <2>4. QED
    BY <1>6, <2>3, StutterStep DEF createPaymentIntent, IInv
<1>7. ASSUME BindIntent(r) PROVE Stutter
  <2>1. req[r].order \in Order
    BY <1>7, RequestFields DEF BindIntent, IInv
  <2>2. \A x \in Order : orders'[x].cart = orders[x].cart
    BY <1>7, <2>1, ColumnWritten DEF BindIntent, IInv, TypeOK
  <2>3. QED
    BY <1>7, <2>2, StutterStep DEF BindIntent, IInv
<1>8. ASSUME SettleFree(r) PROVE Stutter
  <2>1. req[r].order \in Order /\ "succeeded" \in PaymentStatus
    BY <1>8, RequestFields DEF SettleFree, IInv, PaymentStatus
  <2>2. \A x \in Order : orders'[x].cart = orders[x].cart
    BY <1>8, <2>1, SettledRows DEF SettleFree, IInv, TypeOK
  <2>3. QED
    BY <1>8, <2>2, StutterStep DEF SettleFree, IInv
<1>9. ASSUME settleOrder(r) PROVE Stutter
  <2>1. req[r].order \in Order /\ req[r].next \in PaymentStatus
    BY <1>9, RequestFields DEF settleOrder, IInv
  <2>2. \A x \in Order : orders'[x].cart = orders[x].cart
    BY <1>9, <2>1, SettledRows DEF settleOrder, IInv, TypeOK
  <2>3. QED
    BY <1>9, <2>2, StutterStep DEF settleOrder, IInv
<1>10. ASSUME WriteRefund(r) PROVE Stutter
  <2>1. req[r].order \in Order /\ orders \in [Order -> OrderRow]
    BY <1>10, RequestFields DEF WriteRefund, IInv, TypeOK
  <2>2. orders' = [orders EXCEPT
                     ![req[r].order].payment_status = "refunded",
                     ![req[r].order].status =
                        IF req[r].seen = orderWireStatus("refunded")
                        THEN @ ELSE orderWireStatus("refunded")]
    BY <1>10 DEF WriteRefund
  <2>3. \A x \in Order : orders'[x].cart = orders[x].cart
    BY <2>1, <2>2, RefundedRows
  <2>4. QED
    BY <1>10, <2>3, StutterStep DEF WriteRefund, IInv
<1>11. ASSUME WriteShipped(r) PROVE Stutter
  <2>1. req[r].order \in Order
    BY <1>11, RequestFields DEF WriteShipped, IInv
  <2>2. \A x \in Order : orders'[x].cart = orders[x].cart
    BY <1>11, <2>1 DEF WriteShipped, IInv, TypeOK, OrderRow
  <2>3. QED
    BY <1>11, <2>2, StutterStep DEF WriteShipped, IInv
<1>12. ASSUME WriteDelivered(r) PROVE Stutter
  <2>1. req[r].order \in Order
    BY <1>12, RequestFields DEF WriteDelivered, IInv
  <2>2. \A x \in Order : orders'[x].cart = orders[x].cart
    BY <1>12, <2>1 DEF WriteDelivered, IInv, TypeOK, OrderRow
  <2>3. QED
    BY <1>12, <2>2, StutterStep DEF WriteDelivered, IInv
<1>13. QED
  BY <1>1, <1>2, <1>3, <1>4, <1>5, <1>6, <1>7, <1>8, <1>9, <1>10, <1>11, <1>12 DEF Continue

LEMMA EnvironmentImplements ==
  ASSUME IInv, Environment
  PROVE  [InventoryView!Next]_(InventoryView!vars)
<1> USE DEF database, stripe
<1> DEFINE Stutter == UNCHANGED InventoryView!vars
<1>1. ASSUME NEW p \in Product, DelistProduct(p) PROVE Stutter
  BY <1>1, OtherColumns DEF DelistProduct, IInv
<1>2. ASSUME AgeOrder PROVE Stutter
  BY <1>2, OtherColumns DEF AgeOrder, IInv
<1>3. ASSUME NEW o \in Order, StartProcessing(o) \/ DeclinePayment(o) \/ CancelIntent(o)
      PROVE Stutter
  <2>1. UNCHANGED <<stock, live, orders>>
    BY <1>3 DEF StartProcessing, DeclinePayment, CancelIntent
  <2>2. \A x \in Order : intent'[x] = "succeeded" <=> intent[x] = "succeeded"
    BY <1>3 DEF StartProcessing, DeclinePayment, CancelIntent, IInv, TypeOK
  <2>3. QED
    BY <2>1, <2>2, StutterStep DEF IInv
<1>4. ASSUME NEW o \in Order, CapturePayment(o)
      PROVE [InventoryView!Next]_(InventoryView!vars)
  BY <1>4, CaptureCaptures
<1>5. QED
  BY <1>1, <1>2, <1>3, <1>4 DEF Environment

LEMMA StepImplements == IInv /\ [Next]_vars => [InventoryView!Next]_(InventoryView!vars)
<1> SUFFICES ASSUME IInv, [Next]_vars PROVE [InventoryView!Next]_(InventoryView!vars)
  OBVIOUS
<1> USE DEF database, stripe
<1>1. ASSUME NEW r \in Request, Arrive(r) \/ Abort(r)
      PROVE UNCHANGED InventoryView!vars
  <2>1. UNCHANGED <<stock, live, orders, intent>>
    BY <1>1 DEF Arrive, Abort, BeginCheckout, BeginConfirm, BeginRefund, fulfillOrder,
                markOrderDelivered, stripeWebhook
  <2>2. QED
    BY <2>1, OtherColumns DEF IInv
<1>2. CASE UNCHANGED vars
  BY <1>2, OtherColumns DEF vars, IInv
<1>3. QED
  BY <1>1, <1>2, ContinueImplements, EnvironmentImplements DEF Next

\* Checkout implements Inventory: carts are reserved and given back as a whole,
\* from units that are on the shelf, and never given back once paid.
THEOREM ImplementsInventory == Spec => Promise
<1>1. Init => InventoryView!Init
  BY DEF Init, InventoryView!Init, Held, Captured
<1>2. QED
  BY <1>1, Invariance, StepImplements, PTL DEF Spec, Promise, InventoryView!Spec

--------------------------------------------------------------------------------
(* Units of stock *)

\* The units of p in a cart, as an order holds them.
Units(o, c, p) == {<<<<o, c>>, n>> : n \in 1..Quantity[c][p]}

LEMMA UnitsCounted ==
  ASSUME NEW o, NEW c \in Cart, NEW p \in Product
  PROVE  IsFiniteSet(Units(o, c, p)) /\ Cardinality(Units(o, c, p)) = Quantity[c][p]
<1> DEFINE k == Quantity[c][p]
           number == [n \in 1..k |-> <<<<o, c>>, n>>]
<1>1. k \in Nat
  BY CheckoutAssumption
<1> HIDE DEF k
<1>2. IsFiniteSet(1..k) /\ Cardinality(1..k) = k
  BY <1>1, FS_Interval
<1>3. number \in Bijection(1..k, Units(o, c, p))
  BY DEF k, Units, Bijection, Injection, IsInjective, Surjection
<1>4. ExistsBijection(1..k, Units(o, c, p))
  BY <1>3 DEF ExistsBijection
<1>5. QED
  BY <1>2, <1>4, FS_Bijection DEF k

\* What an order holds is held by no other.
LEMMA UnitsAdded ==
  ASSUME NEW before, IsFiniteSet(before),
         NEW o, NEW c \in Cart, NEW p \in Product,
         Units(o, c, p) \cap before = {}
  PROVE  /\ IsFiniteSet(before \cup Units(o, c, p))
         /\ Cardinality(before \cup Units(o, c, p)) = Cardinality(before) + Quantity[c][p]
<1>1. /\ IsFiniteSet(before \cup Units(o, c, p))
      /\ Cardinality(before \cup Units(o, c, p)) =
           Cardinality(before) + Quantity[c][p] - Cardinality(before \cap Units(o, c, p))
  BY UnitsCounted, FS_Union
<1>2. Cardinality(before \cap Units(o, c, p)) = 0
  BY FS_EmptySet
<1>3. Quantity[c][p] \in Nat /\ Cardinality(before) \in Nat
  BY CheckoutAssumption, FS_CardinalityType
<1>4. QED
  BY <1>1, <1>2, <1>3

StockInv ==
  \A p \in Product :
    /\ IsFiniteSet(HeldUnits(p))
    /\ stock[p] + Cardinality(HeldUnits(p)) = Supply[p]

LEMMA ReserveConserves ==
  ASSUME TypeOK, StockInv, NEW o \in Order, NEW c \in Cart, InventoryView!Reserve(o, c)
  PROVE  StockInv'
<1> SUFFICES ASSUME NEW p \in Product
             PROVE  /\ IsFiniteSet(HeldUnits(p)')
                    /\ stock'[p] + Cardinality(HeldUnits(p)') = Supply[p]
  BY DEF StockInv
<1>1. <<o, c>> \notin Held /\ Held' = Held \cup {<<o, c>>}
  BY DEF InventoryView!Reserve, InventoryView!Holds
<1>2. stock'[p] = stock[p] - Quantity[c][p] /\ Quantity[c][p] <= stock[p]
  BY DEF InventoryView!Reserve
<1>3. HeldUnits(p)' = HeldUnits(p) \cup Units(o, c, p)
  BY <1>1 DEF HeldUnits, Units
<1>4. Units(o, c, p) \cap HeldUnits(p) = {}
  BY <1>1 DEF HeldUnits, Units
<1>5. /\ IsFiniteSet(HeldUnits(p)')
      /\ Cardinality(HeldUnits(p)') = Cardinality(HeldUnits(p)) + Quantity[c][p]
  BY <1>3, <1>4, UnitsAdded DEF StockInv
<1>6. stock[p] \in Nat /\ Quantity[c][p] \in Nat /\ Cardinality(HeldUnits(p)) \in Nat
  BY CheckoutAssumption, FS_CardinalityType DEF TypeOK, StockInv
<1>7. QED
  BY <1>2, <1>5, <1>6 DEF StockInv

LEMMA ReleaseConserves ==
  ASSUME TypeOK, StockInv, NEW o \in Order, NEW c \in Cart, InventoryView!Release(o, c)
  PROVE  StockInv'
<1> SUFFICES ASSUME NEW p \in Product
             PROVE  /\ IsFiniteSet(HeldUnits(p)')
                    /\ stock'[p] + Cardinality(HeldUnits(p)') = Supply[p]
  BY DEF StockInv
<1>1. <<o, c>> \in Held /\ Held' = Held \ {<<o, c>>}
  BY DEF InventoryView!Release
<1>2. stock'[p] = stock[p] + Quantity[c][p]
  BY DEF InventoryView!Release
<1>3. HeldUnits(p) = HeldUnits(p)' \cup Units(o, c, p)
  BY <1>1 DEF HeldUnits, Units
<1>4. Units(o, c, p) \cap HeldUnits(p)' = {}
  BY <1>1 DEF HeldUnits, Units
<1>5. IsFiniteSet(HeldUnits(p)')
  BY <1>3, FS_Subset DEF StockInv
<1>6. Cardinality(HeldUnits(p)) = Cardinality(HeldUnits(p)') + Quantity[c][p]
  BY <1>3, <1>4, <1>5, UnitsAdded
<1>7. /\ stock[p] \in Nat /\ Quantity[c][p] \in Nat
      /\ Cardinality(HeldUnits(p)) \in Nat /\ Cardinality(HeldUnits(p)') \in Nat
  BY <1>5, CheckoutAssumption, FS_CardinalityType DEF TypeOK, StockInv
<1>8. QED
  BY <1>2, <1>5, <1>6, <1>7 DEF StockInv

\* Whatever Inventory allows conserves the stock; Checkout does nothing else.
LEMMA StepConserves == IInv /\ StockInv /\ [Next]_vars => StockInv'
<1> SUFFICES ASSUME IInv, StockInv, [Next]_vars PROVE StockInv'
  OBVIOUS
<1>1. TypeOK /\ [InventoryView!Next]_(InventoryView!vars)
  BY StepImplements DEF IInv
<1>2. ASSUME UNCHANGED <<stock, Held>> PROVE StockInv'
  BY <1>2 DEF StockInv, HeldUnits
<1>3. CASE InventoryView!Next
  BY <1>1, <1>2, <1>3, ReserveConserves, ReleaseConserves
  DEF InventoryView!Next, InventoryView!Capture
<1>4. CASE UNCHANGED InventoryView!vars
  BY <1>2, <1>4 DEF InventoryView!vars
<1>5. QED
  BY <1>1, <1>3, <1>4

\* What is on the shelf and what existing orders hold is what there was.
THEOREM StockIsConserved == Spec => []StockConserved
<1>1. Init => StockInv
  <2> SUFFICES ASSUME Init, NEW p \in Product
               PROVE  IsFiniteSet(HeldUnits(p)) /\ stock[p] + Cardinality(HeldUnits(p)) = Supply[p]
    BY DEF StockInv
  <2>1. HeldUnits(p) = {} /\ stock[p] = Supply[p] /\ Supply[p] \in Nat
    BY CheckoutAssumption DEF Init, HeldUnits, Held
  <2>2. QED
    BY <2>1, FS_EmptySet
<1>2. StockInv => StockConserved
  BY DEF StockInv, StockConserved
<1>3. QED
  BY <1>1, <1>2, Invariance, StepConserves, PTL DEF Spec

================================================================================
