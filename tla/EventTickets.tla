----------------------------- MODULE EventTickets -----------------------------
(***************************************************************************)
(* Events, RSVPs and paid tickets (src/src/services/eventService.ts).      *)
(*                                                                         *)
(* An attendee row is an RSVP, a ticket awaiting its payment or a settled  *)
(* ticket, and attendee_count on the event is kept beside the rows. A      *)
(* transaction is one step; a handler that awaits Stripe or reads a row    *)
(* before it writes takes several, and others run in between. Stripe's     *)
(* events are duplicated, delayed and reordered at will.                   *)
(*                                                                         *)
(* Left out: geocoding, dates and prices (an event is free or paid), and   *)
(* the day after which Stripe forgets an idempotency key (one intent per   *)
(* event and user). `muddled` is history the code does not keep.           *)
(***************************************************************************)
EXTENDS Integers, FiniteSets

CONSTANTS
  Event,
  FreeEvent,  \* the events with price_cents = 0
  User,
  Row,        \* ids of event_attendees rows; bounds how many are ever inserted
  Request     \* handlers that may be in flight at a time

ASSUME EventTicketsAssumption ==
  /\ Event # {}
  /\ FreeEvent \subseteq Event
  /\ User # {}

Idle == [pc |-> "idle"]
Handler ==
  {Idle}
    \cup [pc : {"openIntent", "record", "retrieve", "flip"}, event : Event, user : User]
    \cup [pc : {"attach", "destroy"}, row : Row]

Attendee == [event : Event, user : User, has_ticket : BOOLEAN, bound : BOOLEAN]

\* "opened": at Stripe, but nobody was told its client_secret.
IntentStatus == {"none", "opened", "unpaid", "succeeded", "canceled"}

VARIABLES
  created,         \* events that exist
  attendee_count,  \* of each event
  live,            \* event_attendees: the rows in the table
  attendee,        \* event_attendees: what each row holds, kept once it is gone
  used,            \* ids inserted so far
  intent,          \* Stripe: the PaymentIntent of each <<event, user>>
  sent,            \* Stripe: events <<event, user, paid>> sent so far
  req,             \* the handlers in flight
  muddled          \* history: events where a payment met an RSVP (see Muddle)

rows == <<live, attendee, used>>
stripe == <<intent, sent>>
vars == <<created, attendee_count, rows, stripe, req, muddled>>

\* The row of a user, by the unique index (event_id, user_id): none or one.
RowsOf(e, u) == {i \in live : attendee[i].event = e /\ attendee[i].user = u}

\* A row counts as attending unless it is a ticket still awaiting payment.
Counted(i) == ~attendee[i].bound \/ attendee[i].has_ticket
Attending(e) == {i \in live : attendee[i].event = e /\ Counted(i)}

--------------------------------------------------------------------------------
(* Statements *)

\* findOrCreate, the branch that inserts.
Insert(i, e, u, bound) ==
  /\ i \notin used
  /\ RowsOf(e, u) = {}
  /\ used' = used \cup {i}
  /\ live' = live \cup {i}
  /\ attendee' = [attendee EXCEPT
       ![i] = [event |-> e, user |-> u, has_ticket |-> FALSE, bound |-> bound]]

Delete(i) ==
  /\ live' = live \ {i}
  /\ UNCHANGED <<attendee, used>>

BumpCount(e, d) == attendee_count' = [attendee_count EXCEPT ![e] = @ + d]

\* A statement took a row for counted that was not, or the other way round.
Muddle(e, mistaken) == muddled' = IF mistaken THEN muddled \cup {e} ELSE muddled

Stay(r) == req' = [req EXCEPT ![r] = Idle]

--------------------------------------------------------------------------------
(* RSVPs *)

\* The event and its host's row.
createEvent(e, h, i) ==
  /\ e \notin created
  /\ created' = created \cup {e}
  /\ attendee_count' = [attendee_count EXCEPT ![e] = 1]
  /\ Insert(i, e, h, FALSE)
  /\ UNCHANGED <<stripe, req, muddled>>

\* setRsvp(true), and createTicketIntent of a free event. A user who has a row,
\* of whatever kind, is left alone.
RsvpOn(e, u, i) ==
  /\ e \in created
  /\ Insert(i, e, u, FALSE)
  /\ BumpCount(e, 1)
  /\ UNCHANGED <<created, stripe, req, muddled>>

\* setRsvp(false): the row goes, of whatever kind.
RsvpOff(e, u) ==
  \E i \in RowsOf(e, u) :
    /\ Delete(i)
    /\ BumpCount(e, -1)
    /\ Muddle(e, ~Counted(i))
    /\ UNCHANGED <<created, stripe, req>>

--------------------------------------------------------------------------------
(* createTicketIntent *)

BeginTicket(r, e, u) ==
  /\ req[r] = Idle
  /\ e \in created \ FreeEvent
  /\ \A i \in RowsOf(e, u) : ~attendee[i].has_ticket
  /\ req' = [req EXCEPT ![r] = [pc |-> "openIntent", event |-> e, user |-> u]]
  /\ UNCHANGED <<created, attendee_count, rows, stripe, muddled>>

\* The idempotency key makes Stripe answer the intent it already opened.
createPaymentIntent(r) ==
  LET p == <<req[r].event, req[r].user>> IN
  /\ req[r].pc = "openIntent"
  /\ intent' = IF intent[p] = "none" THEN [intent EXCEPT ![p] = "opened"] ELSE intent
  /\ req' = [req EXCEPT ![r].pc = "record"]
  /\ UNCHANGED <<created, attendee_count, rows, sent, muddled>>

\* The answer carries the client_secret.
Told(p) == IF intent[p] = "opened" THEN [intent EXCEPT ![p] = "unpaid"] ELSE intent

\* findOrCreate inserts the pending row, or finds the one there is.
RecordTicket(r) ==
  LET e == req[r].event
      u == req[r].user
  IN
  /\ req[r].pc = "record"
  /\ \/ /\ \E i \in Row : Insert(i, e, u, TRUE)
        /\ intent' = Told(<<e, u>>)
        /\ Stay(r)
     \/ \E i \in RowsOf(e, u) :
          /\ req' = [req EXCEPT ![r] = [pc |-> "attach", row |-> i]]
          /\ UNCHANGED <<rows, intent>>
  /\ UNCHANGED <<created, attendee_count, sent, muddled>>

\* row.update: the found row gets the intent, unless it is gone by now.
AttachIntent(r) ==
  LET i == req[r].row
      a == attendee[i]
  IN
  /\ req[r].pc = "attach"
  /\ IF i \in live
       THEN /\ attendee' = [attendee EXCEPT ![i].bound = TRUE]
            /\ Muddle(a.event, ~a.bound /\ ~a.has_ticket)
       ELSE UNCHANGED <<attendee, muddled>>
  /\ intent' = Told(<<a.event, a.user>>)
  /\ Stay(r)
  /\ UNCHANGED <<created, attendee_count, live, used, sent>>

--------------------------------------------------------------------------------
(* confirmTicket and applyTicketPaymentResult *)

BeginConfirm(r, e, u) ==
  /\ req[r] = Idle
  /\ \E i \in RowsOf(e, u) : attendee[i].bound /\ ~attendee[i].has_ticket
  /\ req' = [req EXCEPT ![r] = [pc |-> "retrieve", event |-> e, user |-> u]]
  /\ UNCHANGED <<created, attendee_count, rows, stripe, muddled>>

\* Mutant: the intent exists, so the ticket is paid.
RetrieveIntent_Trusting(r) ==
  /\ req[r].pc = "retrieve"
  /\ req' = [req EXCEPT ![r].pc = "flip"]
  /\ UNCHANGED <<created, attendee_count, rows, stripe, muddled>>

\* retrievePaymentIntent, and isPaymentIntentPaid of what it says.
RetrieveIntent(r) ==
  /\ req[r].pc = "retrieve"
  /\ req' = [req EXCEPT
       ![r] = IF intent[<<@.event, @.user>>] = "succeeded" THEN [@ EXCEPT !.pc = "flip"]
                                                           ELSE Idle]
  /\ UNCHANGED <<created, attendee_count, rows, stripe, muddled>>

\* Mutant: an unconditional update, and an increment with it.
FlipTicket_Unguarded(r) ==
  LET e == req[r].event
      u == req[r].user
  IN
  /\ req[r].pc = "flip"
  /\ \/ \E i \in RowsOf(e, u) :
          /\ attendee' = [attendee EXCEPT ![i].has_ticket = TRUE]
          /\ BumpCount(e, 1)
          /\ Muddle(e, ~attendee[i].bound)
     \/ /\ RowsOf(e, u) = {}
        /\ UNCHANGED <<attendee, attendee_count, muddled>>
  /\ Stay(r)
  /\ UNCHANGED <<created, live, used, stripe>>

\* UPDATE ... WHERE has_ticket = false, and the increment of the one who flipped it.
FlipTicket(r) ==
  LET e == req[r].event
      u == req[r].user
      unticketed == {i \in RowsOf(e, u) : ~attendee[i].has_ticket}
  IN
  /\ req[r].pc = "flip"
  /\ \/ \E i \in unticketed :
          /\ attendee' = [attendee EXCEPT ![i].has_ticket = TRUE]
          /\ BumpCount(e, 1)
          /\ Muddle(e, ~attendee[i].bound)
     \/ /\ unticketed = {}
        /\ UNCHANGED <<attendee, attendee_count, muddled>>
  /\ Stay(r)
  /\ UNCHANGED <<created, live, used, stripe>>

\* A payment_intent.* event reads the row of its intent; a settled one is left.
stripeWebhook(r, e, u, paid) ==
  /\ req[r] = Idle
  /\ <<e, u, paid>> \in sent
  /\ \E i \in RowsOf(e, u) :
       /\ attendee[i].bound
       /\ ~attendee[i].has_ticket
       /\ req' = [req EXCEPT ![r] = IF paid THEN [pc |-> "flip", event |-> e, user |-> u]
                                            ELSE [pc |-> "destroy", row |-> i]]
  /\ UNCHANGED <<created, attendee_count, rows, stripe, muddled>>

\* row.destroy(), by id, whatever became of the row since it was read.
DestroyRow(r) ==
  LET i == req[r].row IN
  /\ req[r].pc = "destroy"
  /\ Delete(i)
  /\ Muddle(attendee[i].event, i \in live /\ Counted(i))
  /\ Stay(r)
  /\ UNCHANGED <<created, attendee_count, stripe>>

\* A handler dies where it is: an error, or the process.
Abort(r) ==
  /\ req[r] # Idle
  /\ Stay(r)
  /\ UNCHANGED <<created, attendee_count, rows, stripe, muddled>>

--------------------------------------------------------------------------------
(* Stripe and the buyer *)

CapturePayment(e, u) ==
  /\ intent[<<e, u>>] = "unpaid"
  /\ intent' = [intent EXCEPT ![<<e, u>>] = "succeeded"]
  /\ sent' = sent \cup {<<e, u, TRUE>>}
  /\ UNCHANGED <<created, attendee_count, rows, req, muddled>>

\* A declined attempt; the buyer may try again.
DeclinePayment(e, u) ==
  /\ intent[<<e, u>>] = "unpaid"
  /\ sent' = sent \cup {<<e, u, FALSE>>}
  /\ UNCHANGED <<created, attendee_count, rows, intent, req, muddled>>

CancelIntent(e, u) ==
  /\ intent[<<e, u>>] \in {"opened", "unpaid"}
  /\ intent' = [intent EXCEPT ![<<e, u>>] = "canceled"]
  /\ sent' = sent \cup {<<e, u, FALSE>>}
  /\ UNCHANGED <<created, attendee_count, rows, req, muddled>>

--------------------------------------------------------------------------------

Init ==
  /\ created = {}
  /\ attendee_count = [e \in Event |-> 0]
  /\ live = {}
  /\ attendee = [i \in Row |-> CHOOSE a \in Attendee : TRUE]
  /\ used = {}
  /\ intent = [p \in Event \X User |-> "none"]
  /\ sent = {}
  /\ req = [r \in Request |-> Idle]
  /\ muddled = {}

Begin(r) ==
  \E e \in Event, u \in User :
    \/ BeginTicket(r, e, u)
    \/ BeginConfirm(r, e, u)
    \/ \E paid \in BOOLEAN : stripeWebhook(r, e, u, paid)

Continue(r) ==
  \/ createPaymentIntent(r)
  \/ RecordTicket(r)
  \/ AttachIntent(r)
  \/ RetrieveIntent(r)
  \/ FlipTicket(r)
  \/ DestroyRow(r)

Next ==
  \/ \E e \in Event, u \in User :
       \/ \E i \in Row : createEvent(e, u, i) \/ RsvpOn(e, u, i)
       \/ RsvpOff(e, u)
       \/ CapturePayment(e, u)
       \/ DeclinePayment(e, u)
       \/ CancelIntent(e, u)
  \/ \E r \in Request : Begin(r) \/ Continue(r) \/ Abort(r)

Spec == Init /\ [][Next]_vars

--------------------------------------------------------------------------------
(* Properties *)

TypeOK ==
  /\ created \subseteq Event
  /\ attendee_count \in [Event -> Int]
  /\ used \subseteq Row
  /\ live \subseteq used
  /\ attendee \in [Row -> Attendee]
  /\ \A i \in live : attendee[i].event \in created
  /\ intent \in [Event \X User -> IntentStatus]
  /\ sent \subseteq Event \X User \X BOOLEAN
  /\ req \in [Request -> Handler]
  /\ muddled \subseteq created

\* Nobody holds a ticket for which Stripe did not capture the money, whatever
\* the order of confirm and webhook and whatever row the flip meets (confirmTicket,
\* applyTicketPaymentResult).
TicketsArePaid ==
  \A i \in live : attendee[i].has_ticket =>
    intent[<<attendee[i].event, attendee[i].user>>] = "succeeded"

\* The denormalized count is the number of attending rows, under any race of
\* RSVPs, confirms and webhooks (setRsvp, confirmTicket, applyTicketPaymentResult):
\* always of a free event, and of a paid one unless a statement took an RSVP for
\* a pending ticket or the other way round. Those four ways (the conditions given
\* to Muddle) are the only ones by which the count drifts.
CountExact ==
  \A e \in created :
    (e \in FreeEvent \/ e \notin muddled) => attendee_count[e] = Cardinality(Attending(e))

--------------------------------------------------------------------------------
(* What module BoxOffice sees *)

SeatOf(i) == <<attendee[i].event, attendee[i].user>>

going == {SeatOf(i) : i \in {i \in live : ~attendee[i].bound /\ ~attendee[i].has_ticket}}
reserved == {SeatOf(i) : i \in {i \in live : attendee[i].bound /\ ~attendee[i].has_ticket}}
ticketed == {SeatOf(i) : i \in {i \in live : attendee[i].has_ticket}}

\* Where an event of a payment said it failed or was canceled.
failed == {<<m[1], m[2]>> : m \in {m \in sent : ~m[3]}}

BoxOfficeView == INSTANCE BoxOffice WITH Seat <- Event \X User, Gratis <- FreeEvent \X User

\* EventTickets implements BoxOffice: whatever the order of confirm, webhook and
\* RSVP, and whatever row each of them meets, a user's place at an event is one of
\* none, an RSVP, a pending ticket and a ticket; it is a ticket only once Stripe has
\* captured the money; and only its user, or a payment that Stripe said had failed,
\* takes it away (setRsvp, createTicketIntent, confirmTicket,
\* applyTicketPaymentResult).
BoxOfficePromise == BoxOfficeView!Spec

================================================================================
