---------------------------- MODULE CheckoutClaims ----------------------------
(***************************************************************************)
(* What a comment says of orders and payment, and the code does not do. It *)
(* quotes its line; TLC refutes it on a small instance (a violation run    *)
(* over MCCheckout).                                                       *)
(***************************************************************************)
EXTENDS Checkout

\* Whichever of confirm and webhook is first wins and the second is a no-op
\* (webhookController.ts:15-17): a paid order can only become a refunded one.
PaidStaysPaid ==
  [][\A o \in live : orders[o].payment_status = "succeeded" =>
       orders[o]'.payment_status \in {"succeeded", "refunded"}]_vars

================================================================================
