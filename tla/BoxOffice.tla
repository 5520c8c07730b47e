------------------------------ MODULE BoxOffice ------------------------------
(***************************************************************************)
(* What becomes of the seats of events, one for each user, with no rows,   *)
(* no handlers and no webhooks in sight: a seat is taken by an RSVP, kept  *)
(* for a payment or ticketed, and never two of these; it is kept only for  *)
(* a payment that has been opened, and ticketed only for one that was      *)
(* captured; it is given up by its user, or after its payment was reported *)
(* to have failed; and nobody pays who was not told how.                   *)
(* Module EventTickets implements it (EventTickets!BoxOfficePromise).      *)
(***************************************************************************)
CONSTANTS
  Seat,
  Gratis    \* the seats that cost nothing

VARIABLES
  going,     \* seats taken by an RSVP
  reserved,  \* seats kept for a payment
  ticketed,  \* seats with a ticket
  intent,    \* what became of each seat's payment
  failed     \* seats whose payment was reported to have failed

seats == <<going, reserved, ticketed>>
money == <<intent, failed>>
vars == <<seats, money>>

Taken == going \cup reserved \cup ticketed

Vacate(s) ==
  /\ going' = going \ {s}
  /\ reserved' = reserved \ {s}
  /\ ticketed' = ticketed \ {s}

Tell(s) == intent' = IF intent[s] = "opened" THEN [intent EXCEPT ![s] = "unpaid"] ELSE intent

Init ==
  /\ going = {}
  /\ reserved = {}
  /\ ticketed = {}
  /\ intent = [s \in Seat |-> "none"]
  /\ failed = {}

Rsvp(s) ==
  /\ s \notin Taken
  /\ going' = going \cup {s}
  /\ UNCHANGED <<reserved, ticketed, money>>

Leave(s) ==
  /\ s \in Taken
  /\ Vacate(s)
  /\ UNCHANGED money

Open(s) ==
  /\ s \notin Gratis
  /\ intent[s] = "none"
  /\ intent' = [intent EXCEPT ![s] = "opened"]
  /\ UNCHANGED <<seats, failed>>

\* An RSVP is no longer one when its seat is kept.
Reserve(s) ==
  /\ s \notin ticketed
  /\ intent[s] # "none"
  /\ going' = going \ {s}
  /\ reserved' = reserved \cup {s}
  /\ Tell(s)
  /\ UNCHANGED <<ticketed, failed>>

\* The seat is not to be kept: it was given up meanwhile, or is ticketed.
Inform(s) ==
  /\ intent[s] # "none"
  /\ Tell(s)
  /\ UNCHANGED <<seats, failed>>

Settle(s) ==
  /\ intent[s] = "succeeded"
  /\ s \in going \cup reserved
  /\ going' = going \ {s}
  /\ reserved' = reserved \ {s}
  /\ ticketed' = ticketed \cup {s}
  /\ UNCHANGED money

Drop(s) ==
  /\ s \in failed
  /\ Vacate(s)
  /\ UNCHANGED money

Capture(s) ==
  /\ intent[s] = "unpaid"
  /\ intent' = [intent EXCEPT ![s] = "succeeded"]
  /\ UNCHANGED <<seats, failed>>

Decline(s) ==
  /\ intent[s] = "unpaid"
  /\ failed' = failed \cup {s}
  /\ UNCHANGED <<seats, intent>>

Cancel(s) ==
  /\ intent[s] \in {"opened", "unpaid"}
  /\ intent' = [intent EXCEPT ![s] = "canceled"]
  /\ failed' = failed \cup {s}
  /\ UNCHANGED seats

Next ==
  \E s \in Seat :
    \/ Rsvp(s) \/ Leave(s)
    \/ Open(s) \/ Reserve(s) \/ Inform(s)
    \/ Settle(s) \/ Drop(s)
    \/ Capture(s) \/ Decline(s) \/ Cancel(s)

Spec == Init /\ [][Next]_vars

================================================================================
