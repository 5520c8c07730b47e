-------------------------- MODULE EventTicketsProofs --------------------------
(***************************************************************************)
(* Theorems about module EventTickets, for every set of events and users   *)
(* and any number of handlers in flight.                                   *)
(*                                                                         *)
(* A handler that is about to flip a ticket looked at a captured intent,   *)
(* and captured stays captured: that is why a ticket is paid for although  *)
(* the flip may meet another row than the one that was read. The count is  *)
(* proved by showing that each step moves attendee_count by as much as it  *)
(* moves the set of attending rows.                                        *)
(***************************************************************************)
EXTENDS EventTickets, FiniteSetTheorems, TLAPS

Settled(e, u) == intent[<<e, u>>] = "succeeded"

\* What a handler is about to do is grounded in what it read.
HandlerOK(h) ==
  /\ h.pc \in {"openIntent", "record", "retrieve", "flip"} => h.event \in created \ FreeEvent
  /\ h.pc = "flip" => Settled(h.event, h.user)
  /\ h.pc \in {"attach", "destroy"} =>
       h.row \in used /\ attendee[h.row].event \in created \ FreeEvent

HandlersOK == \A r \in Request : HandlerOK(req[r])

SentTrue == \A e \in Event, u \in User : <<e, u, TRUE>> \in sent => Settled(e, u)

OnlyPaidBound == \A i \in used : attendee[i].bound => attendee[i].event \notin FreeEvent

FreeStaysClean == FreeEvent \cap muddled = {}

IInv ==
  /\ TypeOK
  /\ IsFiniteSet(live)
  /\ HandlersOK
  /\ SentTrue
  /\ OnlyPaidBound
  /\ FreeStaysClean
  /\ TicketsArePaid
  /\ CountExact

--------------------------------------------------------------------------------
(* Types *)

LEMMA HandlerFields ==
  ASSUME NEW h \in Handler
  PROVE  /\ h.pc \in {"idle", "openIntent", "record", "retrieve", "flip", "attach", "destroy"}
         /\ h.pc \in {"openIntent", "record", "retrieve", "flip"} =>
              /\ h.event \in Event /\ h.user \in User
              /\ h = [pc |-> h.pc, event |-> h.event, user |-> h.user]
         /\ h.pc \in {"attach", "destroy"} => h.row \in Row
BY DEF Handler, Idle

LEMMA HandlerShapes ==
  /\ Idle \in Handler /\ Idle.pc = "idle"
  /\ \A p \in {"openIntent", "record", "retrieve", "flip"}, e \in Event, u \in User :
       /\ [pc |-> p, event |-> e, user |-> u] \in Handler
       /\ [pc |-> p, event |-> e, user |-> u].pc = p
       /\ [pc |-> p, event |-> e, user |-> u].event = e
       /\ [pc |-> p, event |-> e, user |-> u].user = u
  /\ \A p \in {"attach", "destroy"}, i \in Row :
       /\ [pc |-> p, row |-> i] \in Handler
       /\ [pc |-> p, row |-> i].pc = p
       /\ [pc |-> p, row |-> i].row = i
BY DEF Handler, Idle

\* A handler that moves on keeps its event and its user.
LEMMA Advanced ==
  ASSUME NEW h \in Handler, h.pc \in {"openIntent", "record", "retrieve", "flip"},
         NEW p \in {"openIntent", "record", "retrieve", "flip"}
  PROVE  /\ [h EXCEPT !.pc = p] \in Handler
         /\ [h EXCEPT !.pc = p].pc = p
         /\ [h EXCEPT !.pc = p].event = h.event
         /\ [h EXCEPT !.pc = p].user = h.user
<1>1. h = [pc |-> h.pc, event |-> h.event, user |-> h.user]
  BY HandlerFields
<1>2. [h EXCEPT !.pc = p] = [pc |-> p, event |-> h.event, user |-> h.user]
  BY <1>1
<1>3. h.event \in Event /\ h.user \in User
  BY HandlerFields
<1>4. QED
  BY <1>2, <1>3, HandlerShapes

--------------------------------------------------------------------------------
(* The attending rows *)

LEMMA AttendingFinite ==
  ASSUME IsFiniteSet(live), NEW e
  PROVE  IsFiniteSet(Attending(e))
<1>1. Attending(e) \subseteq live
  BY DEF Attending
<1>2. QED
  BY <1>1, FS_Subset

\* The count of an event moved as its attending rows did.
Follows(e) ==
  \/ /\ Attending(e)' = Attending(e)
     /\ attendee_count'[e] = attendee_count[e]
  \/ \E i \in live' \ Attending(e) :
       /\ Attending(e)' = Attending(e) \cup {i}
       /\ attendee_count'[e] = attendee_count[e] + 1
  \/ \E i \in Attending(e) :
       /\ Attending(e)' = Attending(e) \ {i}
       /\ attendee_count'[e] = attendee_count[e] - 1

LEMMA FollowingStaysExact ==
  ASSUME IsFiniteSet(live), NEW e, Follows(e), attendee_count[e] \in Int,
         attendee_count[e] = Cardinality(Attending(e))
  PROVE  attendee_count'[e] = Cardinality(Attending(e)')
<1>1. IsFiniteSet(Attending(e))
  BY AttendingFinite
<1>2. CASE Attending(e)' = Attending(e) /\ attendee_count'[e] = attendee_count[e]
  BY <1>2
<1>3. CASE \E i \in live' \ Attending(e) :
             /\ Attending(e)' = Attending(e) \cup {i}
             /\ attendee_count'[e] = attendee_count[e] + 1
  BY <1>1, <1>3, FS_AddElement
<1>4. CASE \E i \in Attending(e) :
             /\ Attending(e)' = Attending(e) \ {i}
             /\ attendee_count'[e] = attendee_count[e] - 1
  BY <1>1, <1>4, FS_RemoveElement
<1>5. QED
  BY <1>2, <1>3, <1>4 DEF Follows

\* No event is created, none loses its mark, and those not marked follow.
LEMMA CountFollows ==
  ASSUME IInv, created' = created, muddled \subseteq muddled',
         FreeEvent \cap muddled' = {},
         \A e \in created \ muddled' : Follows(e)
  PROVE  CountExact'
<1> SUFFICES ASSUME NEW e \in created, e \in FreeEvent \/ e \notin muddled'
             PROVE  attendee_count'[e] = Cardinality(Attending(e)')
  BY DEF CountExact
<1>1. e \in created \ muddled' /\ e \notin muddled
  OBVIOUS
<1>2. attendee_count[e] = Cardinality(Attending(e)) /\ attendee_count[e] \in Int
  BY <1>1 DEF IInv, CountExact, TypeOK
<1>3. IsFiniteSet(live)
  BY DEF IInv
<1>4. QED
  BY <1>1, <1>2, <1>3, FollowingStaysExact
--------------------------------------------------------------------------------
(* Steps *)

\* Handlers are untouched and what they rest on only grew.
LEMMA HandlersStay ==
  ASSUME HandlersOK, req' = req, created \subseteq created', used \subseteq used',
         \A i \in used : attendee'[i].event = attendee[i].event,
         \A e \in Event, u \in User : Settled(e, u) => Settled(e, u)',
         TypeOK
  PROVE  HandlersOK'
<1> SUFFICES ASSUME NEW r \in Request PROVE HandlerOK(req[r])'
  BY DEF HandlersOK
<1>1. HandlerOK(req[r]) /\ req[r] \in Handler /\ req'[r] = req[r]
  BY DEF HandlersOK, TypeOK
<1>2. req[r].pc = "flip" => req[r].event \in Event /\ req[r].user \in User
  BY <1>1, HandlerFields
<1>3. QED
  BY <1>1, <1>2 DEF HandlerOK

\* One handler moves, to something grounded.
LEMMA HandlerMoves ==
  ASSUME HandlersOK, TypeOK, NEW r \in Request, NEW h, h \in Handler, HandlerOK(h)',
         req' = [req EXCEPT ![r] = h], created' = created, used \subseteq used',
         \A i \in used : attendee'[i].event = attendee[i].event,
         \A e \in Event, u \in User : Settled(e, u) => Settled(e, u)'
  PROVE  HandlersOK' /\ req' \in [Request -> Handler]
<1>1. req' \in [Request -> Handler] /\ req'[r] = h
         /\ \A x \in Request \ {r} : req'[x] = req[x]
  BY DEF TypeOK
<1>2. ASSUME NEW x \in Request \ {r} PROVE HandlerOK(req[x])'
  <2>1. HandlerOK(req[x]) /\ req[x] \in Handler /\ req'[x] = req[x]
    BY <1>1 DEF HandlersOK, TypeOK
  <2>2. req[x].pc = "flip" => req[x].event \in Event /\ req[x].user \in User
    BY <2>1, HandlerFields
  <2>3. QED
    BY <2>1, <2>2 DEF HandlerOK
<1>3. HandlerOK(req[r])'
  BY <1>1
<1>4. QED
  BY <1>1, <1>2, <1>3 DEF HandlersOK

LEMMA IdleOK == HandlerOK(Idle)'
BY HandlerShapes DEF HandlerOK

\* Nothing that events, rows and marks are made of changes.
LEMMA TablesStayOK ==
  ASSUME IInv, created' = created, attendee_count' = attendee_count,
         UNCHANGED rows, muddled' = muddled,
         intent' \in [Event \X User -> IntentStatus],
         \A e \in Event, u \in User : Settled(e, u) => Settled(e, u)'
  PROVE  /\ IsFiniteSet(live)' /\ OnlyPaidBound' /\ FreeStaysClean'
         /\ TicketsArePaid' /\ CountExact'
<1> USE DEF IInv
<1>1. live' = live /\ attendee' = attendee /\ used' = used
  BY DEF rows
<1>2. IsFiniteSet(live)' /\ OnlyPaidBound' /\ FreeStaysClean'
  BY <1>1 DEF OnlyPaidBound, FreeStaysClean
<1>3. TicketsArePaid'
  <2> SUFFICES ASSUME NEW i \in live, attendee[i].has_ticket
               PROVE  Settled(attendee[i].event, attendee[i].user)'
    BY <1>1 DEF TicketsArePaid, Settled
  <2>1. attendee[i].event \in Event /\ attendee[i].user \in User
    BY DEF TypeOK, Attendee
  <2>2. Settled(attendee[i].event, attendee[i].user)
    BY DEF TicketsArePaid, Settled
  <2>3. QED
    BY <1>1, <2>1, <2>2 DEF Settled
<1>4. \A e \in created : Attending(e)' = Attending(e)
  BY <1>1 DEF Attending, Counted
<1>5. CountExact'
  BY <1>4 DEF CountExact
<1>6. QED
  BY <1>2, <1>3, <1>5

\* What an insert does to the tables, whoever runs it.
LEMMA InsertKeeps ==
  ASSUME IInv, NEW e \in Event, NEW u \in User, NEW i \in Row, NEW b \in BOOLEAN,
         Insert(i, e, u, b), b => e \notin FreeEvent,
         \A f \in Event, v \in User : Settled(f, v) => Settled(f, v)'
  PROVE  /\ used' \subseteq Row /\ live' \subseteq used' /\ used \subseteq used'
         /\ attendee' \in [Row -> Attendee]
         /\ i \notin live /\ live' = live \cup {i}
         /\ attendee'[i].event = e /\ attendee'[i].bound = b /\ ~attendee'[i].has_ticket
         /\ \A x \in used : attendee'[x] = attendee[x]
         /\ IsFiniteSet(live)' /\ OnlyPaidBound' /\ TicketsArePaid'
<1> USE DEF IInv
<1> DEFINE a == [event |-> e, user |-> u, has_ticket |-> FALSE, bound |-> b]
<1>1. /\ a \in Attendee /\ a.event = e /\ a.bound = b /\ ~a.has_ticket
  BY DEF Attendee
<1> HIDE DEF a
<1>2. /\ i \notin used /\ used' = used \cup {i} /\ live' = live \cup {i}
      /\ attendee' = [attendee EXCEPT ![i] = a]
  BY DEF Insert, a
<1>3. /\ attendee' \in [Row -> Attendee] /\ attendee'[i] = a
      /\ \A x \in used : attendee'[x] = attendee[x]
      /\ i \notin live /\ live \subseteq used
  BY <1>1, <1>2 DEF TypeOK
<1>4. IsFiniteSet(live)'
  BY <1>2, FS_AddElement
<1>5. OnlyPaidBound'
  BY <1>1, <1>2, <1>3 DEF OnlyPaidBound
<1>6. TicketsArePaid'
  <2> SUFFICES ASSUME NEW x \in live, attendee[x].has_ticket
               PROVE  Settled(attendee[x].event, attendee[x].user)'
    BY <1>1, <1>2, <1>3 DEF TicketsArePaid, Settled
  <2>1. attendee[x].event \in Event /\ attendee[x].user \in User
    BY DEF TypeOK, Attendee
  <2>2. Settled(attendee[x].event, attendee[x].user)
    BY DEF TicketsArePaid, Settled
  <2>3. QED
    BY <1>3, <2>1, <2>2 DEF Settled
<1>7. QED
  BY <1>1, <1>2, <1>3, <1>4, <1>5, <1>6 DEF TypeOK

LEMMA StripeStays ==
  ASSUME UNCHANGED stripe
  PROVE  /\ intent' = intent /\ sent' = sent
         /\ \A e \in Event, u \in User : Settled(e, u)' = Settled(e, u)
BY DEF stripe, Settled

LEMMA createEventKeeps ==
  ASSUME IInv, NEW e \in Event, NEW h \in User, NEW i \in Row, createEvent(e, h, i)
  PROVE  IInv'
<1> USE DEF IInv
<1>1. /\ e \notin created /\ created' = created \cup {e}
      /\ attendee_count' = [attendee_count EXCEPT ![e] = 1]
      /\ Insert(i, e, h, FALSE) /\ UNCHANGED stripe /\ req' = req /\ muddled' = muddled
  BY DEF createEvent
<1>2. \A f \in Event, v \in User : Settled(f, v) => Settled(f, v)'
  BY <1>1, StripeStays
<1>3. /\ used' \subseteq Row /\ live' \subseteq used' /\ used \subseteq used'
      /\ attendee' \in [Row -> Attendee]
      /\ i \notin live /\ live' = live \cup {i}
      /\ attendee'[i].event = e /\ attendee'[i].bound = FALSE
      /\ \A x \in used : attendee'[x] = attendee[x]
      /\ IsFiniteSet(live)' /\ OnlyPaidBound' /\ TicketsArePaid'
  BY <1>1, <1>2, InsertKeeps
<1>4. TypeOK'
  BY <1>1, <1>3, StripeStays DEF TypeOK
<1>5. HandlersOK'
  BY <1>1, <1>2, <1>3, HandlersStay
<1>6. SentTrue' /\ FreeStaysClean'
  BY <1>1, StripeStays DEF SentTrue, FreeStaysClean
<1>7. CountExact'
  <2> SUFFICES ASSUME NEW f \in created', f \in FreeEvent \/ f \notin muddled
               PROVE  attendee_count'[f] = Cardinality(Attending(f)')
    BY <1>1 DEF CountExact
  <2>1. CASE f = e
    <3>1. Attending(e)' = {i}
      BY <1>1, <1>3 DEF Attending, Counted, TypeOK
    <3>2. attendee_count'[e] = 1
      BY <1>1 DEF TypeOK
    <3>3. QED
      BY <2>1, <3>1, <3>2, FS_Singleton
  <2>2. CASE f # e
    <3>1. f \in created /\ attendee_count'[f] = attendee_count[f]
      BY <1>1, <2>2 DEF TypeOK
    <3>2. Attending(f)' = Attending(f)
      BY <1>3, <2>2 DEF Attending, Counted, TypeOK
    <3>3. QED
      BY <3>1, <3>2 DEF CountExact
  <2>3. QED
    BY <2>1, <2>2
<1>8. QED
  BY <1>3, <1>4, <1>5, <1>6, <1>7

LEMMA RsvpOnKeeps ==
  ASSUME IInv, NEW e \in Event, NEW u \in User, NEW i \in Row, RsvpOn(e, u, i)
  PROVE  IInv'
<1> USE DEF IInv
<1>1. /\ e \in created /\ created' = created
      /\ attendee_count' = [attendee_count EXCEPT ![e] = @ + 1]
      /\ Insert(i, e, u, FALSE) /\ UNCHANGED stripe /\ req' = req /\ muddled' = muddled
  BY DEF RsvpOn, BumpCount
<1>2. \A f \in Event, v \in User : Settled(f, v) => Settled(f, v)'
  BY <1>1, StripeStays
<1>3. /\ used' \subseteq Row /\ live' \subseteq used' /\ used \subseteq used'
      /\ attendee' \in [Row -> Attendee]
      /\ i \notin live /\ live' = live \cup {i}
      /\ attendee'[i].event = e /\ attendee'[i].bound = FALSE
      /\ \A x \in used : attendee'[x] = attendee[x]
      /\ IsFiniteSet(live)' /\ OnlyPaidBound' /\ TicketsArePaid'
  BY <1>1, <1>2, InsertKeeps
<1>4. TypeOK'
  BY <1>1, <1>3, StripeStays DEF TypeOK
<1>5. HandlersOK'
  BY <1>1, <1>2, <1>3, HandlersStay
<1>6. SentTrue' /\ FreeStaysClean'
  BY <1>1, StripeStays DEF SentTrue, FreeStaysClean
<1>7. \A f \in created : Follows(f)
  <2> TAKE f \in created
  <2>1. CASE f = e
    <3>1. /\ Attending(e)' = Attending(e) \cup {i} /\ i \in live' \ Attending(e)
      BY <1>3 DEF Attending, Counted, TypeOK
    <3>2. attendee_count'[e] = attendee_count[e] + 1
      BY <1>1 DEF TypeOK
    <3>3. QED
      BY <2>1, <3>1, <3>2 DEF Follows
  <2>2. CASE f # e
    <3>1. Attending(f)' = Attending(f)
      BY <1>3, <2>2 DEF Attending, Counted, TypeOK
    <3>2. attendee_count'[f] = attendee_count[f]
      BY <1>1, <2>2 DEF TypeOK
    <3>3. QED
      BY <3>1, <3>2 DEF Follows
  <2>3. QED
    BY <2>1, <2>2
<1>8. CountExact'
  <2> HIDE DEF IInv
  <2>1. FreeEvent \cap muddled = {}
    BY DEF IInv, FreeStaysClean
  <2>2. QED
    BY <1>1, <1>7, <2>1, CountFollows
<1>9. QED
  BY <1>3, <1>4, <1>5, <1>6, <1>8

\* What a delete does to the tables: rows only go.
LEMMA DeleteKeeps ==
  ASSUME IInv, NEW i, Delete(i), intent' = intent
  PROVE  /\ live' = live \ {i} /\ attendee' = attendee /\ used' = used
         /\ IsFiniteSet(live)' /\ OnlyPaidBound' /\ TicketsArePaid'
<1> USE DEF IInv
<1>1. live' = live \ {i} /\ attendee' = attendee /\ used' = used
  BY DEF Delete
<1>2. IsFiniteSet(live)'
  BY <1>1, FS_RemoveElement
<1>3. QED
  BY <1>1, <1>2 DEF OnlyPaidBound, TicketsArePaid

LEMMA RsvpOffKeeps ==
  ASSUME IInv, NEW e \in Event, NEW u \in User, RsvpOff(e, u)
  PROVE  IInv'
<1> USE DEF IInv
<1>1. PICK i \in RowsOf(e, u) : Delete(i) /\ BumpCount(e, -1) /\ Muddle(e, ~Counted(i))
  BY DEF RsvpOff
<1>2. /\ i \in live /\ attendee[i].event = e /\ e \in created /\ i \in used
      /\ created' = created /\ UNCHANGED stripe /\ req' = req
      /\ attendee_count' = [attendee_count EXCEPT ![e] = @ - 1]
      /\ muddled' = IF ~Counted(i) THEN muddled \cup {e} ELSE muddled
  BY <1>1 DEF RsvpOff, RowsOf, TypeOK, BumpCount, Muddle
<1>3. /\ live' = live \ {i} /\ attendee' = attendee /\ used' = used
      /\ IsFiniteSet(live)' /\ OnlyPaidBound' /\ TicketsArePaid'
  <2> HIDE DEF IInv
  <2>1. QED
    BY <1>1, <1>2, StripeStays, DeleteKeeps
<1>4. TypeOK'
  BY <1>2, <1>3, StripeStays DEF TypeOK
<1>5. HandlersOK'
  BY <1>2, <1>3, StripeStays, HandlersStay
<1>6. SentTrue'
  BY <1>2, StripeStays DEF SentTrue
<1>7. FreeStaysClean' /\ FreeEvent \cap muddled' = {} /\ muddled \subseteq muddled'
  BY <1>2 DEF FreeStaysClean, OnlyPaidBound, Counted
<1>8. \A f \in created \ muddled' : Follows(f)
  <2> TAKE f \in created \ muddled'
  <2>1. CASE f = e
    <3>1. Counted(i)
      BY <1>2, <2>1
    <3>2. i \in Attending(e) /\ Attending(e)' = Attending(e) \ {i}
      BY <1>2, <1>3, <3>1 DEF Attending, Counted
    <3>3. attendee_count'[e] = attendee_count[e] - 1
      BY <1>2 DEF TypeOK
    <3>4. QED
      BY <2>1, <3>2, <3>3 DEF Follows
  <2>2. CASE f # e
    <3>1. Attending(f)' = Attending(f)
      BY <1>2, <1>3, <2>2 DEF Attending, Counted
    <3>2. attendee_count'[f] = attendee_count[f]
      BY <1>2, <2>2 DEF TypeOK
    <3>3. QED
      BY <3>1, <3>2 DEF Follows
  <2>3. QED
    BY <2>1, <2>2
<1>9. CountExact'
  <2> HIDE DEF IInv
  <2>1. QED
    BY <1>2, <1>7, <1>8, CountFollows
<1>10. QED
  BY <1>3, <1>4, <1>5, <1>6, <1>7, <1>9

\* A step that only moves one handler, to something grounded.
LEMMA QuietKeeps ==
  ASSUME IInv, NEW r \in Request, NEW h, h \in Handler, HandlerOK(h)',
         req' = [req EXCEPT ![r] = h],
         UNCHANGED <<created, attendee_count, rows, stripe, muddled>>
  PROVE  IInv'
<1> USE DEF IInv
<1>1. /\ created' = created /\ attendee_count' = attendee_count /\ muddled' = muddled
      /\ live' = live /\ attendee' = attendee /\ used' = used
      /\ intent' = intent /\ sent' = sent
  BY DEF rows, stripe
<1>2. \A e \in Event, u \in User : Settled(e, u) => Settled(e, u)'
  BY <1>1 DEF Settled
<1>3. HandlersOK' /\ req' \in [Request -> Handler]
  BY <1>1, <1>2, HandlerMoves
<1>4. TypeOK'
  BY <1>1, <1>3 DEF TypeOK
<1>5. SentTrue'
  BY <1>1 DEF SentTrue, Settled
<1>6. /\ IsFiniteSet(live)' /\ OnlyPaidBound' /\ FreeStaysClean'
      /\ TicketsArePaid' /\ CountExact'
  <2>1. intent' \in [Event \X User -> IntentStatus]
    BY <1>1 DEF TypeOK
  <2> HIDE DEF IInv
  <2>2. QED
    BY <1>1, <1>2, <2>1, TablesStayOK
<1>7. QED
  BY <1>3, <1>4, <1>5, <1>6

LEMMA BeginTicketKeeps ==
  ASSUME IInv, NEW r \in Request, NEW e \in Event, NEW u \in User, BeginTicket(r, e, u)
  PROVE  IInv'
<1>1. PICK h : h = [pc |-> "openIntent", event |-> e, user |-> u]
  OBVIOUS
<1>2. /\ e \in created \ FreeEvent /\ req' = [req EXCEPT ![r] = h]
      /\ UNCHANGED <<created, attendee_count, rows, stripe, muddled>>
  BY <1>1 DEF BeginTicket
<1>3. h \in Handler /\ h.pc = "openIntent" /\ h.event = e
  BY <1>1, HandlerShapes
<1>4. HandlerOK(h)'
  BY <1>2, <1>3 DEF HandlerOK
<1>5. QED
  BY <1>2, <1>3, <1>4, QuietKeeps

LEMMA BeginConfirmKeeps ==
  ASSUME IInv, NEW r \in Request, NEW e \in Event, NEW u \in User, BeginConfirm(r, e, u)
  PROVE  IInv'
<1>1. PICK h : h = [pc |-> "retrieve", event |-> e, user |-> u]
  OBVIOUS
<1>2. /\ req' = [req EXCEPT ![r] = h]
      /\ UNCHANGED <<created, attendee_count, rows, stripe, muddled>>
      /\ \E i \in live : attendee[i].event = e /\ attendee[i].bound
  BY <1>1 DEF BeginConfirm, RowsOf
<1>3. e \in created \ FreeEvent
  BY <1>2 DEF IInv, TypeOK, OnlyPaidBound
<1>4. h \in Handler /\ h.pc = "retrieve" /\ h.event = e
  BY <1>1, HandlerShapes
<1>5. HandlerOK(h)'
  BY <1>2, <1>3, <1>4 DEF HandlerOK
<1>6. QED
  BY <1>2, <1>4, <1>5, QuietKeeps

LEMMA stripeWebhookKeeps ==
  ASSUME IInv, NEW r \in Request, NEW e \in Event, NEW u \in User, NEW paid \in BOOLEAN,
         stripeWebhook(r, e, u, paid)
  PROVE  IInv'
<1>1. PICK i \in live :
        /\ attendee[i].event = e /\ attendee[i].bound
        /\ req' = [req EXCEPT ![r] = IF paid THEN [pc |-> "flip", event |-> e, user |-> u]
                                             ELSE [pc |-> "destroy", row |-> i]]
  BY DEF stripeWebhook, RowsOf
<1>2. /\ <<e, u, paid>> \in sent
      /\ UNCHANGED <<created, attendee_count, rows, stripe, muddled>>
      /\ created' = created /\ used' = used /\ attendee' = attendee /\ intent' = intent
  BY DEF stripeWebhook, rows, stripe
<1>3. i \in used /\ i \in Row /\ e \in created \ FreeEvent
  BY <1>1 DEF IInv, TypeOK, OnlyPaidBound
<1>4. CASE paid
  <2>1. PICK h : h = [pc |-> "flip", event |-> e, user |-> u]
    OBVIOUS
  <2>2. h \in Handler /\ h.pc = "flip" /\ h.event = e /\ h.user = u
    BY <2>1, HandlerShapes
  <2>3. Settled(e, u)
    BY <1>2, <1>4 DEF IInv, SentTrue
  <2>4. HandlerOK(h)'
    BY <1>2, <1>3, <2>2, <2>3 DEF HandlerOK, Settled
  <2>5. req' = [req EXCEPT ![r] = h]
    BY <1>1, <1>4, <2>1
  <2>6. QED
    BY <1>2, <2>2, <2>4, <2>5, QuietKeeps
<1>5. CASE ~paid
  <2>1. PICK h : h = [pc |-> "destroy", row |-> i]
    OBVIOUS
  <2>2. h \in Handler /\ h.pc = "destroy" /\ h.row = i
    BY <1>3, <2>1, HandlerShapes
  <2>3. HandlerOK(h)'
    BY <1>1, <1>2, <1>3, <2>2 DEF HandlerOK
  <2>4. req' = [req EXCEPT ![r] = h]
    BY <1>1, <1>5, <2>1
  <2>5. QED
    BY <1>2, <2>2, <2>3, <2>4, QuietKeeps
<1>6. QED
  BY <1>4, <1>5

LEMMA RetrieveIntentKeeps ==
  ASSUME IInv, NEW r \in Request, RetrieveIntent(r)
  PROVE  IInv'
<1>1. PICK h : h = req[r]
  OBVIOUS
<1>2. /\ h \in Handler /\ h.pc = "retrieve" /\ HandlerOK(h)
      /\ UNCHANGED <<created, attendee_count, rows, stripe, muddled>>
      /\ created' = created /\ intent' = intent
      /\ req' = [req EXCEPT ![r] = IF intent[<<h.event, h.user>>] = "succeeded"
                                     THEN [h EXCEPT !.pc = "flip"] ELSE Idle]
  BY <1>1 DEF RetrieveIntent, IInv, TypeOK, HandlersOK, rows, stripe
<1>3. CASE Settled(h.event, h.user)
  <2>1. PICK g : g = [h EXCEPT !.pc = "flip"]
    OBVIOUS
  <2>2. g \in Handler /\ g.pc = "flip" /\ g.event = h.event /\ g.user = h.user
    BY <1>2, <2>1, Advanced
  <2>3. HandlerOK(g)'
    BY <1>2, <1>3, <2>2 DEF HandlerOK, Settled
  <2>4. req' = [req EXCEPT ![r] = g]
    BY <1>2, <1>3, <2>1 DEF Settled
  <2>5. QED
    BY <1>2, <2>2, <2>3, <2>4, QuietKeeps
<1>4. CASE ~Settled(h.event, h.user)
  <2>1. req' = [req EXCEPT ![r] = Idle]
    BY <1>2, <1>4 DEF Settled
  <2>2. QED
    BY <1>2, <2>1, IdleOK, HandlerShapes, QuietKeeps
<1>5. QED
  BY <1>3, <1>4

LEMMA AbortKeeps == ASSUME IInv, NEW r \in Request, Abort(r) PROVE IInv'
BY IdleOK, HandlerShapes, QuietKeeps DEF Abort, Stay

--------------------------------------------------------------------------------
(* Steps that change what Stripe knows *)

\* An intent changes; captured stays captured.
LEMMA IntentMoves ==
  ASSUME IInv, NEW p \in Event \X User, NEW s \in IntentStatus,
         intent[p] # "succeeded", intent' = [intent EXCEPT ![p] = s]
  PROVE  /\ intent' \in [Event \X User -> IntentStatus]
         /\ \A e \in Event, u \in User : Settled(e, u) => Settled(e, u)'
BY DEF IInv, TypeOK, Settled

LEMMA ToldMoves ==
  ASSUME IInv, NEW e \in Event, NEW u \in User, intent' = Told(<<e, u>>)
  PROVE  /\ intent' \in [Event \X User -> IntentStatus]
         /\ \A f \in Event, v \in User : Settled(f, v) => Settled(f, v)'
<1>1. CASE intent[<<e, u>>] = "opened"
  <2>1. intent' = [intent EXCEPT ![<<e, u>>] = "unpaid"] /\ <<e, u>> \in Event \X User
    BY <1>1 DEF Told
  <2>2. "unpaid" \in IntentStatus /\ intent[<<e, u>>] # "succeeded"
    BY <1>1 DEF IntentStatus
  <2>3. QED
    BY <2>1, <2>2, IntentMoves
<1>2. CASE intent[<<e, u>>] # "opened"
  BY <1>2 DEF Told, IInv, TypeOK, Settled
<1>3. QED
  BY <1>1, <1>2

LEMMA StripeKeeps ==
  ASSUME IInv, UNCHANGED <<created, attendee_count, rows, muddled>>, req' = req,
         intent' \in [Event \X User -> IntentStatus],
         \A e \in Event, u \in User : Settled(e, u) => Settled(e, u)',
         sent' \subseteq Event \X User \X BOOLEAN, SentTrue'
  PROVE  IInv'
<1> USE DEF IInv
<1>1. /\ created' = created /\ attendee_count' = attendee_count /\ muddled' = muddled
      /\ live' = live /\ attendee' = attendee /\ used' = used
  BY DEF rows
<1>2. HandlersOK'
  BY <1>1, HandlersStay
<1>3. TypeOK'
  BY <1>1 DEF TypeOK
<1>4. /\ IsFiniteSet(live)' /\ OnlyPaidBound' /\ FreeStaysClean'
      /\ TicketsArePaid' /\ CountExact'
  <2> HIDE DEF IInv
  <2>1. QED
    BY <1>1, TablesStayOK
<1>5. QED
  BY <1>2, <1>3, <1>4

LEMMA PaymentKeeps ==
  ASSUME IInv, NEW e \in Event, NEW u \in User,
         CapturePayment(e, u) \/ DeclinePayment(e, u) \/ CancelIntent(e, u)
  PROVE  IInv'
<1>1. /\ UNCHANGED <<created, attendee_count, rows, muddled>> /\ req' = req
      /\ intent[<<e, u>>] # "succeeded"
  BY DEF CapturePayment, DeclinePayment, CancelIntent, rows
<1>2. <<e, u>> \in Event \X User
  OBVIOUS
<1>3. /\ intent' \in [Event \X User -> IntentStatus]
      /\ \A f \in Event, v \in User : Settled(f, v) => Settled(f, v)'
  <2>1. CASE intent' = [intent EXCEPT ![<<e, u>>] = "succeeded"]
    <3>1. "succeeded" \in IntentStatus
      BY DEF IntentStatus
    <3>2. QED
      BY <1>1, <1>2, <2>1, <3>1, IntentMoves
  <2>2. CASE intent' = [intent EXCEPT ![<<e, u>>] = "canceled"]
    <3>1. "canceled" \in IntentStatus
      BY DEF IntentStatus
    <3>2. QED
      BY <1>1, <1>2, <2>2, <3>1, IntentMoves
  <2>3. CASE intent' = intent
    BY <2>3 DEF IInv, TypeOK, Settled
  <2>4. QED
    BY <2>1, <2>2, <2>3 DEF CapturePayment, DeclinePayment, CancelIntent
<1>4. /\ sent' \subseteq Event \X User \X BOOLEAN
      /\ SentTrue'
  <2>1. \/ sent' = sent \cup {<<e, u, FALSE>>}
        \/ sent' = sent \cup {<<e, u, TRUE>>} /\ Settled(e, u)'
    BY DEF CapturePayment, DeclinePayment, CancelIntent, Settled, IInv, TypeOK
  <2>2. sent \subseteq Event \X User \X BOOLEAN /\ SentTrue
    BY DEF IInv, TypeOK
  <2>3. sent' \subseteq Event \X User \X BOOLEAN
    <3>1. \A b \in BOOLEAN : <<e, u, b>> \in Event \X User \X BOOLEAN
      OBVIOUS
    <3>2. \E b \in BOOLEAN : sent' = sent \cup {<<e, u, b>>}
      BY <2>1
    <3>3. QED
      BY <2>2, <3>1, <3>2
  <2>4. ASSUME NEW f \in Event, NEW v \in User, <<f, v, TRUE>> \in sent'
        PROVE  Settled(f, v)'
    <3>1. CASE <<f, v, TRUE>> \in sent
      BY <2>2, <1>3, <3>1 DEF SentTrue
    <3>2. CASE <<f, v, TRUE>> \notin sent
      <4>1. <<f, v, TRUE>> # <<e, u, FALSE>>
        OBVIOUS
      <4>2. /\ sent' = sent \cup {<<e, u, TRUE>>} /\ Settled(e, u)'
            /\ <<f, v, TRUE>> = <<e, u, TRUE>>
        BY <2>1, <2>4, <3>2, <4>1
      <4>3. f = e /\ v = u
        BY <4>2
      <4>4. QED
        BY <4>2, <4>3
    <3>3. QED
      BY <3>1, <3>2
  <2>5. QED
    BY <2>3, <2>4 DEF SentTrue
<1>5. QED
  BY <1>1, <1>3, <1>4, StripeKeeps

LEMMA createPaymentIntentKeeps ==
  ASSUME IInv, NEW r \in Request, createPaymentIntent(r)
  PROVE  IInv'
<1>1. PICK h : h = req[r]
  OBVIOUS
<1>2. PICK g : g = [h EXCEPT !.pc = "record"]
  OBVIOUS
<1>3. /\ h \in Handler /\ h.pc = "openIntent" /\ HandlerOK(h)
      /\ UNCHANGED <<created, attendee_count, rows, sent, muddled>>
      /\ created' = created /\ sent' = sent
      /\ used' = used /\ attendee' = attendee /\ live' = live
      /\ intent' = IF intent[<<h.event, h.user>>] = "none"
                     THEN [intent EXCEPT ![<<h.event, h.user>>] = "opened"] ELSE intent
      /\ req' = [req EXCEPT ![r] = g]
  BY <1>1, <1>2 DEF createPaymentIntent, IInv, TypeOK, HandlersOK, rows
<1>4. h.event \in Event /\ h.user \in User
  BY <1>3, HandlerFields
<1>5. /\ intent' \in [Event \X User -> IntentStatus]
      /\ \A e \in Event, u \in User : Settled(e, u) => Settled(e, u)'
  <2>1. CASE intent[<<h.event, h.user>>] = "none"
    <3>1. /\ intent' = [intent EXCEPT ![<<h.event, h.user>>] = "opened"]
          /\ <<h.event, h.user>> \in Event \X User
          /\ "opened" \in IntentStatus /\ intent[<<h.event, h.user>>] # "succeeded"
      BY <1>3, <1>4, <2>1 DEF IntentStatus
    <3>2. QED
      BY <3>1, IntentMoves
  <2>2. CASE intent[<<h.event, h.user>>] # "none"
    BY <1>3, <2>2 DEF Settled, IInv, TypeOK
  <2>3. QED
    BY <2>1, <2>2
<1>6. g \in Handler /\ g.pc = "record" /\ g.event = h.event
  BY <1>2, <1>3, Advanced
<1>7. HandlerOK(g)'
  BY <1>3, <1>6 DEF HandlerOK
<1>8. HandlersOK' /\ req' \in [Request -> Handler]
  BY <1>3, <1>5, <1>6, <1>7, HandlerMoves DEF IInv
<1>9. TypeOK'
  BY <1>3, <1>5, <1>8 DEF IInv, TypeOK
<1>10. SentTrue'
  BY <1>3, <1>5 DEF IInv, SentTrue
<1>11. /\ IsFiniteSet(live)' /\ OnlyPaidBound' /\ FreeStaysClean'
       /\ TicketsArePaid' /\ CountExact'
  BY <1>3, <1>5, TablesStayOK
<1>12. QED
  BY <1>8, <1>9, <1>10, <1>11 DEF IInv

LEMMA RecordTicketKeeps ==
  ASSUME IInv, NEW r \in Request, RecordTicket(r)
  PROVE  IInv'
<1>1. PICK e, u : e = req[r].event /\ u = req[r].user
  OBVIOUS
<1>2. /\ req[r] \in Handler /\ HandlerOK(req[r]) /\ req[r].pc = "record"
      /\ created' = created /\ attendee_count' = attendee_count
      /\ sent' = sent /\ muddled' = muddled
  BY DEF RecordTicket, IInv, TypeOK, HandlersOK
<1>3. e \in Event /\ u \in User /\ e \in created \ FreeEvent
  BY <1>1, <1>2, HandlerFields DEF HandlerOK
<1>4. CASE /\ \E i \in Row : Insert(i, e, u, TRUE)
           /\ intent' = Told(<<e, u>>)
           /\ req' = [req EXCEPT ![r] = Idle]
  <2>1. PICK i \in Row : Insert(i, e, u, TRUE)
    BY <1>4
  <2>2. /\ intent' \in [Event \X User -> IntentStatus]
        /\ \A f \in Event, v \in User : Settled(f, v) => Settled(f, v)'
    BY <1>3, <1>4, ToldMoves
  <2>3. /\ used' \subseteq Row /\ live' \subseteq used' /\ used \subseteq used'
        /\ attendee' \in [Row -> Attendee]
        /\ i \notin live /\ live' = live \cup {i}
        /\ attendee'[i].event = e /\ attendee'[i].bound = TRUE
        /\ ~attendee'[i].has_ticket
        /\ \A x \in used : attendee'[x] = attendee[x]
        /\ IsFiniteSet(live)' /\ OnlyPaidBound' /\ TicketsArePaid'
    BY <1>3, <2>1, <2>2, InsertKeeps
  <2>4. HandlersOK' /\ req' \in [Request -> Handler]
    <3>1. HandlersOK /\ TypeOK
      BY DEF IInv
    <3>2. Idle \in Handler /\ HandlerOK(Idle)'
      BY IdleOK, HandlerShapes
    <3>3. \A x \in used : attendee'[x].event = attendee[x].event
      BY <2>3
    <3>4. QED
      BY <1>2, <1>4, <2>2, <2>3, <3>1, <3>2, <3>3, HandlerMoves
  <2>5. TypeOK'
    BY <1>2, <1>3, <2>2, <2>3, <2>4 DEF IInv, TypeOK
  <2>6. SentTrue' /\ FreeStaysClean'
    BY <1>2, <2>2 DEF IInv, SentTrue, FreeStaysClean
  <2>7. \A f \in created : Attending(f)' = Attending(f)
    BY <2>3 DEF Attending, Counted, IInv, TypeOK
  <2>8. CountExact'
    BY <1>2, <2>7 DEF IInv, CountExact
  <2>9. QED
    BY <2>3, <2>4, <2>5, <2>6, <2>8 DEF IInv
<1>5. CASE \E i \in RowsOf(e, u) :
             /\ req' = [req EXCEPT ![r] = [pc |-> "attach", row |-> i]]
             /\ UNCHANGED <<rows, intent>>
  <2>1. PICK i \in live : /\ attendee[i].event = e
                          /\ req' = [req EXCEPT ![r] = [pc |-> "attach", row |-> i]]
                          /\ UNCHANGED <<rows, intent>>
    BY <1>5 DEF RowsOf
  <2>2. PICK h : h = [pc |-> "attach", row |-> i]
    OBVIOUS
  <2>3. i \in used /\ i \in Row
    BY DEF IInv, TypeOK
  <2>4. h \in Handler /\ h.pc = "attach" /\ h.row = i
    BY <2>2, <2>3, HandlerShapes
  <2>5. HandlerOK(h)'
    BY <1>2, <1>3, <2>1, <2>3, <2>4 DEF HandlerOK, rows
  <2>6. UNCHANGED <<created, attendee_count, rows, stripe, muddled>>
    BY <1>2, <2>1 DEF stripe
  <2>7. req' = [req EXCEPT ![r] = h]
    BY <2>1, <2>2
  <2>8. QED
    BY <2>4, <2>5, <2>6, <2>7, QuietKeeps
<1>6. QED
  BY <1>1, <1>4, <1>5 DEF RecordTicket, Stay

\* Rows change in place: their subject stays, and what is ticketed was paid for.
LEMMA RowMoves ==
  ASSUME IInv, NEW i \in live, NEW a \in Attendee,
         attendee' = [attendee EXCEPT ![i] = a], live' = live, used' = used,
         a.event = attendee[i].event, a.user = attendee[i].user,
         a.bound => a.event \notin FreeEvent,
         a.has_ticket => Settled(a.event, a.user),
         \A f \in Event, v \in User : Settled(f, v) => Settled(f, v)'
  PROVE  /\ attendee' \in [Row -> Attendee] /\ attendee'[i] = a
         /\ \A x \in used : attendee'[x].event = attendee[x].event
         /\ \A x \in live \ {i} : attendee'[x] = attendee[x]
         /\ IsFiniteSet(live)' /\ OnlyPaidBound' /\ TicketsArePaid'
         /\ \A f \in created \ {a.event} : Attending(f)' = Attending(f)
<1> USE DEF IInv
<1>1. /\ attendee' \in [Row -> Attendee] /\ attendee'[i] = a /\ i \in Row /\ i \in used
      /\ \A x \in Row \ {i} : attendee'[x] = attendee[x]
  BY DEF TypeOK
<1>2. \A x \in used : attendee'[x].event = attendee[x].event
  BY <1>1 DEF TypeOK
<1>3. \A x \in live \ {i} : attendee'[x] = attendee[x]
  BY <1>1 DEF TypeOK
<1>4. OnlyPaidBound'
  BY <1>1, <1>2 DEF OnlyPaidBound, TypeOK
<1>5. TicketsArePaid'
  <2> SUFFICES ASSUME NEW x \in live, attendee'[x].has_ticket
               PROVE  Settled(attendee[x].event, attendee[x].user)'
    BY DEF TicketsArePaid, Settled
  <2>1. PICK b : b = attendee'[x]
    OBVIOUS
  <2>2. b.event \in Event /\ b.user \in User /\ Settled(b.event, b.user)
    BY <1>1, <1>3, <2>1 DEF TicketsArePaid, Settled, TypeOK, Attendee
  <2>3. QED
    BY <2>1, <2>2 DEF Settled
<1>6. \A f \in created \ {a.event} : Attending(f)' = Attending(f)
  BY <1>1, <1>3 DEF Attending, Counted
<1>7. QED
  BY <1>1, <1>2, <1>3, <1>4, <1>5, <1>6

LEMMA AttachIntentKeeps ==
  ASSUME IInv, NEW r \in Request, AttachIntent(r)
  PROVE  IInv'
<1>1. PICK i, a : i = req[r].row /\ a = attendee[i]
  OBVIOUS
<1>2. /\ req[r] \in Handler /\ HandlerOK(req[r]) /\ req[r].pc = "attach"
      /\ created' = created /\ attendee_count' = attendee_count
      /\ live' = live /\ used' = used /\ sent' = sent
      /\ intent' = Told(<<a.event, a.user>>)
      /\ req' = [req EXCEPT ![r] = Idle]
  BY <1>1 DEF AttachIntent, IInv, TypeOK, HandlersOK, Stay
<1>3. /\ i \in Row /\ i \in used /\ a \in Attendee /\ a.event \in created \ FreeEvent
  BY <1>1, <1>2, HandlerFields DEF HandlerOK, IInv, TypeOK
<1>4. a.event \in Event /\ a.user \in User
  BY <1>3 DEF Attendee
<1>5. /\ intent' \in [Event \X User -> IntentStatus]
      /\ \A f \in Event, v \in User : Settled(f, v) => Settled(f, v)'
  BY <1>2, <1>4, ToldMoves
<1>6. HandlersOK /\ TypeOK /\ Idle \in Handler /\ HandlerOK(Idle)'
  BY IdleOK, HandlerShapes DEF IInv
<1>7. SentTrue'
  BY <1>2, <1>5 DEF IInv, SentTrue
<1>8. CASE i \in live
  <2>1. PICK b : b = [a EXCEPT !.bound = TRUE]
    OBVIOUS
  <2>2. /\ b \in Attendee /\ b.event = a.event /\ b.user = a.user
        /\ b.bound = TRUE /\ b.has_ticket = a.has_ticket
    BY <1>3, <2>1 DEF Attendee
  <2>3. /\ attendee' = [attendee EXCEPT ![i] = b]
        /\ muddled' = IF ~a.bound /\ ~a.has_ticket THEN muddled \cup {a.event} ELSE muddled
    BY <1>1, <1>2, <1>8, <2>1 DEF AttachIntent, Muddle
  <2>4. a.has_ticket => Settled(a.event, a.user)
    BY <1>1, <1>8 DEF IInv, TicketsArePaid, Settled
  <2>5. /\ attendee' \in [Row -> Attendee] /\ attendee'[i] = b
        /\ \A x \in used : attendee'[x].event = attendee[x].event
        /\ \A x \in live \ {i} : attendee'[x] = attendee[x]
        /\ IsFiniteSet(live)' /\ OnlyPaidBound' /\ TicketsArePaid'
        /\ \A f \in created \ {b.event} : Attending(f)' = Attending(f)
    <3>1. /\ b.event = attendee[i].event /\ b.user = attendee[i].user
          /\ b.bound => b.event \notin FreeEvent
      BY <1>1, <1>3, <2>2
    <3>2. b.has_ticket => Settled(b.event, b.user)
      BY <2>2, <2>4
    <3>3. QED
      BY <1>2, <1>5, <1>8, <2>2, <2>3, <3>1, <3>2, RowMoves
  <2>6. HandlersOK' /\ req' \in [Request -> Handler]
    BY <1>2, <1>5, <1>6, <2>5, HandlerMoves
  <2>7. muddled' \subseteq created /\ FreeStaysClean' /\ muddled \subseteq muddled'
    BY <1>3, <2>3 DEF IInv, TypeOK, FreeStaysClean
  <2>8. TypeOK'
    BY <1>2, <1>5, <2>5, <2>6, <2>7 DEF IInv, TypeOK
  <2>9. \A f \in created \ muddled' : Follows(f)
    <3> TAKE f \in created \ muddled'
    <3>1. CASE f = a.event
      <4>1. a.bound \/ a.has_ticket
        BY <2>3, <3>1
      <4>2. a.has_ticket = b.has_ticket /\ a.bound \in BOOLEAN /\ a.has_ticket \in BOOLEAN
        BY <1>3, <2>2 DEF Attendee
      <4>3. (~a.bound \/ a.has_ticket) = (~b.bound \/ b.has_ticket)
        BY <2>2, <4>1, <4>2
      <4>4. Attending(f)' = Attending(f)
        BY <1>1, <1>2, <1>8, <2>2, <2>5, <4>3 DEF Attending, Counted
      <4>5. QED
        BY <1>2, <4>4 DEF Follows
    <3>2. CASE f # a.event
      BY <1>2, <2>2, <2>5, <3>2 DEF Follows
    <3>3. QED
      BY <3>1, <3>2
  <2>10. CountExact'
    BY <1>2, <2>7, <2>9, CountFollows DEF FreeStaysClean
  <2>11. QED
    BY <1>7, <2>5, <2>6, <2>7, <2>8, <2>10 DEF IInv
<1>9. CASE i \notin live
  <2>1. UNCHANGED rows /\ muddled' = muddled /\ attendee' = attendee
    BY <1>1, <1>2, <1>9 DEF AttachIntent, rows
  <2>2. HandlersOK' /\ req' \in [Request -> Handler]
    BY <1>2, <1>5, <1>6, <2>1, HandlerMoves
  <2>3. TypeOK'
    BY <1>2, <1>5, <2>1, <2>2 DEF IInv, TypeOK
  <2>4. /\ IsFiniteSet(live)' /\ OnlyPaidBound' /\ FreeStaysClean'
        /\ TicketsArePaid' /\ CountExact'
    BY <1>2, <1>5, <2>1, TablesStayOK
  <2>5. QED
    BY <1>7, <2>2, <2>3, <2>4 DEF IInv
<1>10. QED
  BY <1>8, <1>9

LEMMA FlipTicketKeeps ==
  ASSUME IInv, NEW r \in Request, FlipTicket(r)
  PROVE  IInv'
<1>1. PICK e, u : e = req[r].event /\ u = req[r].user
  OBVIOUS
<1>2. /\ req[r] \in Handler /\ HandlerOK(req[r]) /\ req[r].pc = "flip"
      /\ created' = created /\ live' = live /\ used' = used
      /\ intent' = intent /\ sent' = sent /\ UNCHANGED stripe
      /\ req' = [req EXCEPT ![r] = Idle]
  BY DEF FlipTicket, IInv, TypeOK, HandlersOK, Stay, stripe
<1>3. e \in Event /\ u \in User /\ e \in created \ FreeEvent /\ Settled(e, u)
  BY <1>1, <1>2, HandlerFields DEF HandlerOK
<1>4. \A f \in Event, v \in User : Settled(f, v) => Settled(f, v)'
  BY <1>2 DEF Settled
<1>5. HandlersOK /\ TypeOK /\ Idle \in Handler /\ HandlerOK(Idle)'
  BY IdleOK, HandlerShapes DEF IInv
<1>6. SentTrue'
  BY <1>2, <1>4 DEF IInv, SentTrue
<1>7. ASSUME NEW i \in RowsOf(e, u), ~attendee[i].has_ticket,
             attendee' = [attendee EXCEPT ![i].has_ticket = TRUE],
             BumpCount(e, 1), Muddle(e, ~attendee[i].bound)
      PROVE  IInv'
  <2>1. PICK a : a = attendee[i]
    OBVIOUS
  <2>2. PICK b : b = [a EXCEPT !.has_ticket = TRUE]
    OBVIOUS
  <2>3. i \in live /\ i \in used /\ i \in Row /\ a \in Attendee
          /\ a.event = e /\ a.user = u
    BY <1>7, <2>1 DEF RowsOf, IInv, TypeOK
  <2>4. /\ b \in Attendee /\ b.event = e /\ b.user = u
        /\ b.bound = a.bound /\ b.has_ticket
    BY <2>2, <2>3 DEF Attendee
  <2>5. attendee' = [attendee EXCEPT ![i] = b]
    BY <1>7, <2>1, <2>2
  <2>6. a.bound => e \notin FreeEvent
    BY <1>3
  <2>7. /\ attendee' \in [Row -> Attendee] /\ attendee'[i] = b
        /\ \A x \in used : attendee'[x].event = attendee[x].event
        /\ \A x \in live \ {i} : attendee'[x] = attendee[x]
        /\ IsFiniteSet(live)' /\ OnlyPaidBound' /\ TicketsArePaid'
        /\ \A f \in created \ {b.event} : Attending(f)' = Attending(f)
    BY <1>2, <1>3, <1>4, <2>1, <2>3, <2>4, <2>5, RowMoves
  <2>8. HandlersOK' /\ req' \in [Request -> Handler]
    BY <1>2, <1>4, <1>5, <2>7, HandlerMoves
  <2>9. /\ muddled' = IF ~a.bound THEN muddled \cup {e} ELSE muddled
        /\ attendee_count' = [attendee_count EXCEPT ![e] = @ + 1]
    BY <1>7, <2>1 DEF Muddle, BumpCount
  <2>10. muddled' \subseteq created /\ FreeStaysClean' /\ muddled \subseteq muddled'
    BY <1>3, <2>9 DEF IInv, TypeOK, FreeStaysClean
  <2>11. TypeOK'
    <3>1. attendee_count' \in [Event -> Int]
      BY <1>3, <2>9 DEF IInv, TypeOK
    <3>2. \A x \in live : attendee'[x].event \in created
      BY <2>7 DEF IInv, TypeOK
    <3>3. QED
      BY <1>2, <2>7, <2>8, <2>10, <3>1, <3>2 DEF IInv, TypeOK
  <2>12. \A f \in created \ muddled' : Follows(f)
    <3> TAKE f \in created \ muddled'
    <3>1. attendee_count \in [Event -> Int] /\ f \in Event /\ e \in Event
      BY <1>3 DEF IInv, TypeOK
    <3>2. CASE f = e
      <4>1. a.bound /\ ~a.has_ticket
        BY <1>7, <2>1, <2>9, <3>2
      <4>2. i \in live' \ Attending(e)
        BY <1>2, <2>1, <2>3, <4>1 DEF Attending, Counted
      <4>3. Attending(e)' = Attending(e) \cup {i}
        BY <1>2, <2>3, <2>4, <2>7 DEF Attending, Counted
      <4>4. attendee_count'[e] = attendee_count[e] + 1
        BY <2>9, <3>1
      <4>5. QED
        BY <3>2, <4>2, <4>3, <4>4 DEF Follows
    <3>3. CASE f # e
      <4>1. attendee_count'[f] = attendee_count[f] /\ Attending(f)' = Attending(f)
        BY <2>4, <2>7, <2>9, <3>1, <3>3
      <4>2. QED
        BY <4>1 DEF Follows
    <3>4. QED
      BY <3>2, <3>3
  <2>13. CountExact'
    BY <1>2, <2>10, <2>12, CountFollows DEF FreeStaysClean
  <2>14. QED
    BY <1>6, <2>7, <2>8, <2>10, <2>11, <2>13 DEF IInv
<1>8. CASE UNCHANGED <<attendee, attendee_count, muddled>>
  <2>1. UNCHANGED <<created, attendee_count, rows, stripe, muddled>>
    BY <1>2, <1>8 DEF rows
  <2>2. QED
    BY <1>2, <1>5, <2>1, QuietKeeps
<1>9. QED
  BY <1>1, <1>7, <1>8 DEF FlipTicket

LEMMA DestroyRowKeeps ==
  ASSUME IInv, NEW r \in Request, DestroyRow(r)
  PROVE  IInv'
<1>1. PICK i, e : i = req[r].row /\ e = attendee[i].event
  OBVIOUS
<1>2. /\ req[r] \in Handler /\ HandlerOK(req[r]) /\ req[r].pc = "destroy"
      /\ Delete(i) /\ created' = created /\ attendee_count' = attendee_count
      /\ UNCHANGED stripe /\ req' = [req EXCEPT ![r] = Idle]
      /\ muddled' = IF i \in live /\ Counted(i) THEN muddled \cup {e} ELSE muddled
  BY <1>1 DEF DestroyRow, IInv, TypeOK, HandlersOK, Stay, Muddle
<1>3. i \in used /\ e \in created \ FreeEvent
  BY <1>1, <1>2 DEF HandlerOK
<1>4. /\ live' = live \ {i} /\ attendee' = attendee /\ used' = used
      /\ IsFiniteSet(live)' /\ OnlyPaidBound' /\ TicketsArePaid'
  BY <1>2, StripeStays, DeleteKeeps
<1>5. HandlersOK /\ TypeOK /\ Idle \in Handler /\ HandlerOK(Idle)'
  BY IdleOK, HandlerShapes DEF IInv
<1>6. HandlersOK' /\ req' \in [Request -> Handler]
  BY <1>2, <1>4, <1>5, StripeStays, HandlerMoves
<1>7. muddled' \subseteq created /\ FreeStaysClean' /\ muddled \subseteq muddled'
  BY <1>2, <1>3 DEF IInv, TypeOK, FreeStaysClean
<1>8. TypeOK'
  BY <1>2, <1>4, <1>6, <1>7, StripeStays DEF IInv, TypeOK
<1>9. SentTrue'
  BY <1>2, StripeStays DEF IInv, SentTrue
<1>10. \A f \in created \ muddled' : Follows(f)
  <2> TAKE f \in created \ muddled'
  <2>1. i \notin Attending(f)
    BY <1>1, <1>2 DEF Attending
  <2>2. Attending(f)' = Attending(f)
    BY <1>4, <2>1 DEF Attending, Counted
  <2>3. QED
    BY <1>2, <2>2 DEF Follows
<1>11. CountExact'
  BY <1>2, <1>7, <1>10, CountFollows DEF FreeStaysClean
<1>12. QED
  BY <1>4, <1>6, <1>7, <1>8, <1>9, <1>11 DEF IInv

--------------------------------------------------------------------------------

LEMMA InitIInv == Init => IInv
<1> SUFFICES ASSUME Init PROVE IInv
  OBVIOUS
<1> DEFINE any == CHOOSE a \in Attendee : TRUE
<1>1. /\ created = {} /\ live = {} /\ used = {} /\ sent = {} /\ muddled = {}
      /\ attendee_count = [e \in Event |-> 0]
      /\ attendee = [i \in Row |-> any]
      /\ intent = [p \in Event \X User |-> "none"]
      /\ req = [r \in Request |-> Idle]
  BY DEF Init
<1> HIDE DEF any
<1>2. attendee \in [Row -> Attendee]
  <2>1. any \in Attendee
    <3>1. PICK e \in Event, u \in User : TRUE
      BY EventTicketsAssumption
    <3>2. [event |-> e, user |-> u, has_ticket |-> FALSE, bound |-> FALSE] \in Attendee
      BY DEF Attendee
    <3>3. QED
      BY <3>2 DEF any
  <2>2. QED
    BY <1>1, <2>1
<1>3. TypeOK
  BY <1>1, <1>2, HandlerShapes DEF TypeOK, IntentStatus
<1>4. HandlersOK
  BY <1>1, HandlerShapes DEF HandlersOK, HandlerOK
<1>5. IsFiniteSet(live) /\ SentTrue /\ OnlyPaidBound /\ FreeStaysClean
        /\ TicketsArePaid /\ CountExact
  BY <1>1, FS_EmptySet DEF SentTrue, OnlyPaidBound, FreeStaysClean, TicketsArePaid,
                           CountExact
<1>6. QED
  BY <1>3, <1>4, <1>5 DEF IInv

LEMMA NextKeeps == ASSUME IInv, [Next]_vars PROVE IInv'
<1>1. CASE \E e \in Event, u \in User :
             \/ \E i \in Row : createEvent(e, u, i) \/ RsvpOn(e, u, i)
             \/ RsvpOff(e, u)
             \/ CapturePayment(e, u) \/ DeclinePayment(e, u) \/ CancelIntent(e, u)
  BY <1>1, createEventKeeps, RsvpOnKeeps, RsvpOffKeeps, PaymentKeeps
<1>2. CASE \E r \in Request : Begin(r)
  BY <1>2, BeginTicketKeeps, BeginConfirmKeeps, stripeWebhookKeeps DEF Begin
<1>3. CASE \E r \in Request : Continue(r)
  BY <1>3, createPaymentIntentKeeps, RecordTicketKeeps, AttachIntentKeeps,
     RetrieveIntentKeeps, FlipTicketKeeps, DestroyRowKeeps DEF Continue
<1>4. CASE \E r \in Request : Abort(r)
  BY <1>4, AbortKeeps
<1>5. CASE UNCHANGED vars
  <2>1. /\ UNCHANGED <<created, attendee_count, rows, muddled>> /\ req' = req
        /\ intent' = intent /\ sent' = sent
    BY <1>5 DEF vars, stripe
  <2>2. /\ intent' \in [Event \X User -> IntentStatus]
        /\ sent' \subseteq Event \X User \X BOOLEAN /\ SentTrue'
        /\ \A e \in Event, u \in User : Settled(e, u) => Settled(e, u)'
    BY <2>1 DEF IInv, TypeOK, SentTrue, Settled
  <2>3. QED
    BY <2>1, <2>2, StripeKeeps
<1>6. QED
  BY <1>1, <1>2, <1>3, <1>4, <1>5 DEF Next

\* IInv holds in every reachable state.
THEOREM Invariance == Spec => []IInv
<1>1. Init => IInv
  BY InitIInv
<1>2. IInv /\ [Next]_vars => IInv'
  BY NextKeeps
<1>3. QED
  BY <1>1, <1>2, PTL DEF Spec

\* Every variable keeps its type.
THEOREM TypeCorrect == Spec => []TypeOK
BY Invariance, PTL DEF IInv

\* No ticket without captured money (confirmTicket, applyTicketPaymentResult).
THEOREM TicketsPaid == Spec => []TicketsArePaid
BY Invariance, PTL DEF IInv

\* attendee_count is the number of attending rows unless a payment met an RSVP of
\* the same user, and always for a free event.
THEOREM CountIsExact == Spec => []CountExact
BY Invariance, PTL DEF IInv

--------------------------------------------------------------------------------
(* EventTickets implements BoxOffice *)

\* No two rows of the table are of one user at one event (the unique index).
OneRow == \A i, j \in live : SeatOf(i) = SeatOf(j) => i = j

\* What a handler is about to do to a seat is grounded in its payment.
HandlerGrounded(h) ==
  /\ h.pc = "record" => intent[<<h.event, h.user>>] # "none"
  /\ h.pc = "attach" => intent[SeatOf(h.row)] # "none"
  /\ h.pc = "destroy" => SeatOf(h.row) \in failed

Grounded == \A r \in Request : HandlerGrounded(req[r])

\* What no step takes back: whose a row is, an intent, the news of a failure.
Endures ==
  /\ used \subseteq used'
  /\ \A i \in used : /\ attendee'[i].event = attendee[i].event
                     /\ attendee'[i].user = attendee[i].user
  /\ \A p \in Event \X User : intent[p] # "none" => intent'[p] # "none"
  /\ failed \subseteq failed'

\* What a statement that inserts leaves behind.
LEMMA Inserted ==
  ASSUME IInv, NEW e \in Event, NEW u \in User, NEW i \in Row, NEW b \in BOOLEAN,
         Insert(i, e, u, b)
  PROVE  /\ i \notin used /\ i \notin live /\ used' = used \cup {i} /\ live' = live \cup {i}
         /\ \A x \in live : SeatOf(x) # <<e, u>>
         /\ \A x \in used : attendee'[x] = attendee[x]
         /\ SeatOf(i)' = <<e, u>> /\ attendee'[i].bound = b /\ ~attendee'[i].has_ticket
<1> DEFINE a == [event |-> e, user |-> u, has_ticket |-> FALSE, bound |-> b]
<1>1. a.event = e /\ a.user = u /\ a.bound = b /\ ~a.has_ticket
  OBVIOUS
<1> HIDE DEF a
<1>2. /\ i \notin used /\ used' = used \cup {i} /\ live' = live \cup {i}
      /\ attendee' = [attendee EXCEPT ![i] = a] /\ RowsOf(e, u) = {}
  BY DEF Insert, a
<1>3. attendee'[i] = a /\ i \notin live /\ \A x \in used : attendee'[x] = attendee[x]
  BY <1>2 DEF IInv, TypeOK
<1>4. \A x \in live : SeatOf(x) # <<e, u>>
  BY <1>2 DEF RowsOf, SeatOf
<1>5. SeatOf(i)' = <<e, u>>
  BY <1>1, <1>3 DEF SeatOf
<1>6. QED
  BY <1>1, <1>2, <1>3, <1>4, <1>5

LEMMA ToldKeeps ==
  ASSUME IInv, NEW p \in Event \X User, intent' = Told(p)
  PROVE  \A q \in Event \X User : intent[q] # "none" => intent'[q] # "none"
BY DEF Told, IInv, TypeOK

LEMMA SentGrows == ASSUME sent \subseteq sent' PROVE failed \subseteq failed'
BY DEF failed

LEMMA StepEndures == ASSUME IInv, [Next]_vars PROVE Endures
<1>1. CASE UNCHANGED rows /\ UNCHANGED stripe
  BY <1>1, SentGrows DEF Endures, rows, stripe
<1>2. ASSUME NEW e \in Event, NEW u \in User, NEW i \in Row,
             createEvent(e, u, i) \/ RsvpOn(e, u, i)
      PROVE  Endures
  <2>1. Insert(i, e, u, FALSE) /\ intent' = intent /\ sent' = sent
    BY <1>2 DEF createEvent, RsvpOn, stripe
  <2>2. used \subseteq used' /\ \A x \in used : attendee'[x] = attendee[x]
    BY <2>1, Inserted
  <2>3. QED
    BY <2>1, <2>2, SentGrows DEF Endures
<1>3. ASSUME NEW e \in Event, NEW u \in User, RsvpOff(e, u)
      PROVE  Endures
  BY <1>3, SentGrows DEF Endures, RsvpOff, Delete, stripe
<1>4. ASSUME NEW e \in Event, NEW u \in User,
             CapturePayment(e, u) \/ DeclinePayment(e, u) \/ CancelIntent(e, u)
      PROVE  Endures
  <2>1. UNCHANGED rows /\ sent \subseteq sent'
    BY <1>4 DEF CapturePayment, DeclinePayment, CancelIntent
  <2>2. \A p \in Event \X User : intent[p] # "none" => intent'[p] # "none"
    BY <1>4 DEF CapturePayment, DeclinePayment, CancelIntent, IInv, TypeOK
  <2>3. QED
    BY <2>1, <2>2, SentGrows DEF Endures, rows
<1>5. ASSUME NEW r \in Request, Begin(r) \/ RetrieveIntent(r) \/ Abort(r)
      PROVE  Endures
  BY <1>1, <1>5 DEF Begin, BeginTicket, BeginConfirm, stripeWebhook, RetrieveIntent, Abort
<1>6. ASSUME NEW r \in Request, createPaymentIntent(r)
      PROVE  Endures
  <2>1. UNCHANGED rows /\ sent' = sent
    BY <1>6 DEF createPaymentIntent
  <2>2. \A p \in Event \X User : intent[p] # "none" => intent'[p] # "none"
    BY <1>6 DEF createPaymentIntent, IInv, TypeOK
  <2>3. QED
    BY <2>1, <2>2, SentGrows DEF Endures, rows
<1>7. ASSUME NEW r \in Request, RecordTicket(r)
      PROVE  Endures
  <2>1. PICK e, u : e = req[r].event /\ u = req[r].user
    OBVIOUS
  <2>2. req[r] \in Handler /\ req[r].pc = "record"
    BY <1>7 DEF RecordTicket, IInv, TypeOK
  <2>3. e \in Event /\ u \in User /\ sent' = sent
    BY <1>7, <2>1, <2>2, HandlerFields DEF RecordTicket
  <2>4. CASE UNCHANGED <<rows, intent>>
    BY <1>1, <2>3, <2>4 DEF stripe
  <2>5. ASSUME NEW i \in Row, Insert(i, e, u, TRUE), intent' = Told(<<e, u>>)
        PROVE  Endures
    <3>1. used \subseteq used' /\ \A x \in used : attendee'[x] = attendee[x]
      BY <2>3, <2>5, Inserted
    <3>2. \A p \in Event \X User : intent[p] # "none" => intent'[p] # "none"
      BY <2>3, <2>5, ToldKeeps
    <3>3. QED
      BY <2>3, <3>1, <3>2, SentGrows DEF Endures
  <2>6. QED
    BY <1>7, <2>1, <2>4, <2>5 DEF RecordTicket
<1>8. ASSUME NEW r \in Request, AttachIntent(r)
      PROVE  Endures
  <2>1. PICK i, a : i = req[r].row /\ a = attendee[i]
    OBVIOUS
  <2>2. req[r] \in Handler /\ req[r].pc = "attach" /\ used' = used /\ sent' = sent
    BY <1>8 DEF AttachIntent, IInv, TypeOK
  <2>3. i \in Row /\ a \in Attendee
    BY <2>1, <2>2, HandlerFields DEF IInv, TypeOK
  <2>4. /\ attendee' = attendee \/ attendee' = [attendee EXCEPT ![i].bound = TRUE]
        /\ intent' = Told(<<a.event, a.user>>)
    BY <1>8, <2>1 DEF AttachIntent
  <2>5. \A x \in Row : attendee'[x].event = attendee[x].event /\ attendee'[x].user = attendee[x].user
    BY <2>3, <2>4 DEF IInv, TypeOK, Attendee
  <2>6. \A p \in Event \X User : intent[p] # "none" => intent'[p] # "none"
    BY <2>3, <2>4, ToldKeeps DEF Attendee
  <2>7. QED
    BY <2>2, <2>5, <2>6, SentGrows DEF Endures, IInv, TypeOK
<1>9. ASSUME NEW r \in Request, FlipTicket(r)
      PROVE  Endures
  <2>1. used' = used /\ intent' = intent /\ sent' = sent
    BY <1>9 DEF FlipTicket, stripe
  <2>2. \/ attendee' = attendee
        \/ \E i \in live : attendee' = [attendee EXCEPT ![i].has_ticket = TRUE]
    BY <1>9 DEF FlipTicket, RowsOf
  <2>3. \A x \in Row : attendee'[x].event = attendee[x].event /\ attendee'[x].user = attendee[x].user
    BY <2>2 DEF IInv, TypeOK, Attendee
  <2>4. QED
    BY <2>1, <2>3, SentGrows DEF Endures, IInv, TypeOK
<1>10. ASSUME NEW r \in Request, DestroyRow(r)
       PROVE  Endures
  BY <1>10, SentGrows DEF Endures, DestroyRow, Delete, stripe
<1>11. CASE UNCHANGED vars
  BY <1>1, <1>11 DEF vars
<1>12. QED
  BY <1>2, <1>3, <1>4, <1>5, <1>6, <1>7, <1>8, <1>9, <1>10, <1>11 DEF Next, Continue

\* Rows only go, and stay whose they are.
LEMMA FewerRows ==
  ASSUME IInv, OneRow, Endures, live' \subseteq live
  PROVE  OneRow'
BY DEF OneRow, SeatOf, Endures, IInv, TypeOK

LEMMA RowInserted ==
  ASSUME IInv, OneRow, NEW e \in Event, NEW u \in User, NEW i \in Row, NEW b \in BOOLEAN,
         Insert(i, e, u, b)
  PROVE  OneRow'
<1>1. /\ live' = live \cup {i} /\ i \notin live /\ SeatOf(i)' = <<e, u>>
      /\ \A x \in live : SeatOf(x) # <<e, u>>
      /\ \A x \in used : attendee'[x] = attendee[x]
  BY Inserted
<1>2. \A x \in live : SeatOf(x)' = SeatOf(x)
  BY <1>1 DEF SeatOf, IInv, TypeOK
<1>3. \A x, y \in live' : SeatOf(x)' = SeatOf(y)' => x = y
  BY <1>1, <1>2 DEF OneRow
<1>4. QED
  BY <1>3 DEF OneRow

LEMMA OneRowKept == ASSUME IInv, OneRow, [Next]_vars PROVE OneRow'
<1>1. ASSUME NEW e \in Event, NEW u \in User, NEW i \in Row,
             createEvent(e, u, i) \/ RsvpOn(e, u, i)
      PROVE  OneRow'
  <2>1. Insert(i, e, u, FALSE)
    BY <1>1 DEF createEvent, RsvpOn
  <2>2. QED
    BY <2>1, RowInserted
<1>2. ASSUME NEW r \in Request, NEW i \in Row, req[r].pc = "record",
             Insert(i, req[r].event, req[r].user, TRUE)
      PROVE  OneRow'
  <2>1. req[r].event \in Event /\ req[r].user \in User
    BY <1>2, HandlerFields DEF IInv, TypeOK
  <2>2. QED
    BY <1>2, <2>1, RowInserted
<1>3. CASE live' \subseteq live
  BY <1>3, StepEndures, FewerRows
<1>4. CASE \E e \in Event, u \in User :
             RsvpOff(e, u) \/ CapturePayment(e, u) \/ DeclinePayment(e, u) \/ CancelIntent(e, u)
  BY <1>3, <1>4 DEF RsvpOff, Delete, CapturePayment, DeclinePayment, CancelIntent, rows
<1>5. CASE \E r \in Request : Begin(r) \/ Abort(r)
  BY <1>3, <1>5 DEF Begin, BeginTicket, BeginConfirm, stripeWebhook, Abort, rows
<1>6. ASSUME NEW r \in Request, Continue(r)
      PROVE  OneRow'
  <2>1. CASE RecordTicket(r)
    BY <1>2, <1>3, <2>1 DEF RecordTicket, rows
  <2>2. CASE ~RecordTicket(r)
    BY <1>3, <1>6, <2>2 DEF Continue, createPaymentIntent, AttachIntent, RetrieveIntent,
       FlipTicket, DestroyRow, Delete, rows
  <2>3. QED
    BY <2>1, <2>2
<1>7. CASE UNCHANGED vars
  BY <1>3, <1>7 DEF vars, rows
<1>8. QED
  BY <1>1, <1>4, <1>5, <1>6, <1>7 DEF Next

\* A handler that does not move stays grounded: nothing it rests on is taken back.
LEMMA StaysGrounded ==
  ASSUME IInv, Endures, NEW h \in Handler, HandlerOK(h), HandlerGrounded(h)
  PROVE  HandlerGrounded(h)'
<1>1. CASE h.pc = "record"
  <2>1. <<h.event, h.user>> \in Event \X User
    BY <1>1, HandlerFields
  <2>2. QED
    BY <1>1, <2>1 DEF HandlerGrounded, Endures
<1>2. CASE h.pc \in {"attach", "destroy"}
  <2>1. h.row \in used /\ h.row \in Row
    BY <1>2, HandlerFields DEF HandlerOK
  <2>2. SeatOf(h.row)' = SeatOf(h.row) /\ SeatOf(h.row) \in Event \X User
    BY <2>1 DEF SeatOf, Endures, IInv, TypeOK, Attendee
  <2>3. QED
    BY <1>2, <2>2 DEF HandlerGrounded, Endures
<1>3. CASE h.pc \notin {"record", "attach", "destroy"}
  BY <1>3 DEF HandlerGrounded
<1>4. QED
  BY <1>1, <1>2, <1>3

LEMMA GroundedMoves ==
  ASSUME IInv, Grounded, Endures,
         \A r \in Request : req'[r] = req[r] \/ HandlerGrounded(req[r])'
  PROVE  Grounded'
<1> SUFFICES ASSUME NEW r \in Request PROVE HandlerGrounded(req[r])'
  BY DEF Grounded
<1>1. CASE req'[r] = req[r]
  <2>1. PICK h : h = req[r]
    OBVIOUS
  <2>2. h \in Handler /\ HandlerOK(h) /\ HandlerGrounded(h)
    BY <2>1 DEF Grounded, IInv, TypeOK, HandlersOK
  <2>3. HandlerGrounded(h)'
    BY <2>2, StaysGrounded
  <2>4. QED
    BY <1>1, <2>1, <2>3 DEF HandlerGrounded
<1>2. QED
  BY <1>1

\* One handler moves, to something grounded.
LEMMA MovesGrounded ==
  ASSUME IInv, Grounded, Endures, NEW r \in Request, NEW h, HandlerGrounded(h)',
         req' = [req EXCEPT ![r] = h]
  PROVE  Grounded'
<1>1. req'[r] = h /\ \A x \in Request \ {r} : req'[x] = req[x]
  BY DEF IInv, TypeOK
<1>2. HandlerGrounded(req[r])'
  BY <1>1 DEF HandlerGrounded
<1>3. QED
  BY <1>1, <1>2, GroundedMoves

LEMMA GroundedKept == ASSUME IInv, Grounded, [Next]_vars PROVE Grounded'
<1>1. Endures
  BY StepEndures
<1>2. HandlerGrounded(Idle)'
  BY HandlerShapes DEF HandlerGrounded
<1>3. CASE req' = req
  BY <1>1, <1>3, GroundedMoves
<1>4. ASSUME NEW r \in Request, req' = [req EXCEPT ![r] = Idle]
      PROVE  Grounded'
  BY <1>1, <1>2, <1>4, MovesGrounded
<1>5. ASSUME NEW e \in Event, NEW u \in User, NEW r \in Request,
             NEW p \in {"openIntent", "retrieve", "flip"},
             req' = [req EXCEPT ![r] = [pc |-> p, event |-> e, user |-> u]]
      PROVE  Grounded'
  <2>1. PICK h : h = [pc |-> p, event |-> e, user |-> u]
    OBVIOUS
  <2>2. HandlerGrounded(h)'
    BY <2>1 DEF HandlerGrounded
  <2>3. QED
    BY <1>1, <1>5, <2>1, <2>2, MovesGrounded
<1>6. ASSUME NEW e \in Event, NEW u \in User, NEW r \in Request, NEW i \in RowsOf(e, u),
             <<e, u, FALSE>> \in sent, sent' = sent, attendee' = attendee,
             req' = [req EXCEPT ![r] = [pc |-> "destroy", row |-> i]]
      PROVE  Grounded'
  <2>1. PICK h : h = [pc |-> "destroy", row |-> i]
    OBVIOUS
  <2>2. <<e, u>> \in failed'
    <3>1. PICK m : m = <<e, u, FALSE>>
      OBVIOUS
    <3>2. m \in sent' /\ ~m[3] /\ m[1] = e /\ m[2] = u
      BY <1>6, <3>1
    <3>3. QED
      BY <3>2 DEF failed
  <2>3. SeatOf(i)' = <<e, u>>
    BY <1>6 DEF RowsOf, SeatOf
  <2>4. HandlerGrounded(h)'
    BY <2>1, <2>2, <2>3 DEF HandlerGrounded
  <2>5. QED
    BY <1>1, <1>6, <2>1, <2>4, MovesGrounded
<1>7. ASSUME NEW r \in Request, NEW e \in Event, NEW u \in User, NEW paid \in BOOLEAN,
             stripeWebhook(r, e, u, paid)
      PROVE  Grounded'
  <2>1. sent' = sent /\ attendee' = attendee
    BY <1>7 DEF stripeWebhook, rows, stripe
  <2>2. CASE paid
    BY <1>5, <1>7, <2>2 DEF stripeWebhook
  <2>3. CASE ~paid
    <3>1. <<e, u, FALSE>> \in sent
      BY <1>7, <2>3 DEF stripeWebhook
    <3>2. PICK i \in RowsOf(e, u) : req' = [req EXCEPT ![r] = [pc |-> "destroy", row |-> i]]
      BY <1>7, <2>3 DEF stripeWebhook
    <3>3. QED
      BY <1>6, <2>1, <3>1, <3>2
  <2>4. QED
    BY <2>2, <2>3
<1>8. ASSUME NEW r \in Request, Begin(r)
       PROVE  Grounded'
  <2>1. ASSUME NEW e \in Event, NEW u \in User, BeginTicket(r, e, u) \/ BeginConfirm(r, e, u)
        PROVE  Grounded'
    BY <1>5, <2>1 DEF BeginTicket, BeginConfirm
  <2>2. QED
    BY <1>7, <1>8, <2>1 DEF Begin
<1>9. ASSUME NEW r \in Request, createPaymentIntent(r)
      PROVE  Grounded'
  <2>1. PICK e, u, h : e = req[r].event /\ u = req[r].user /\ h = [req[r] EXCEPT !.pc = "record"]
    OBVIOUS
  <2>2. /\ req[r] \in Handler /\ req[r].pc = "openIntent" /\ req' = [req EXCEPT ![r] = h]
        /\ intent' = IF intent[<<e, u>>] = "none" THEN [intent EXCEPT ![<<e, u>>] = "opened"]
                                                  ELSE intent
    BY <1>9, <2>1 DEF createPaymentIntent, IInv, TypeOK
  <2>3. h.pc = "record" /\ h.event = e /\ h.user = u
    BY <2>1, <2>2, Advanced
  <2>4. e \in Event /\ u \in User
    BY <2>1, <2>2, HandlerFields
  <2>5. intent'[<<e, u>>] # "none"
    BY <2>2, <2>4 DEF IInv, TypeOK
  <2>6. HandlerGrounded(h)'
    BY <2>3, <2>5 DEF HandlerGrounded
  <2>7. QED
    BY <1>1, <2>2, <2>6, MovesGrounded
<1>10. ASSUME NEW r \in Request, RecordTicket(r)
      PROVE  Grounded'
  <2>1. CASE Stay(r)
    BY <1>4, <2>1 DEF Stay
  <2>2. ASSUME NEW i \in RowsOf(req[r].event, req[r].user),
               req' = [req EXCEPT ![r] = [pc |-> "attach", row |-> i]],
               UNCHANGED <<rows, intent>>
        PROVE  Grounded'
    <3>1. PICK h : h = [pc |-> "attach", row |-> i]
      OBVIOUS
    <3>2. SeatOf(i)' = <<req[r].event, req[r].user>>
      BY <2>2 DEF RowsOf, SeatOf, rows
    <3>3. intent[<<req[r].event, req[r].user>>] # "none"
      BY <1>10 DEF RecordTicket, Grounded, HandlerGrounded
    <3>4. HandlerGrounded(h)'
      BY <2>2, <3>1, <3>2, <3>3 DEF HandlerGrounded
    <3>5. QED
      BY <1>1, <2>2, <3>1, <3>4, MovesGrounded
  <2>3. QED
    BY <1>10, <2>1, <2>2 DEF RecordTicket
<1>11. ASSUME NEW r \in Request, RetrieveIntent(r)
       PROVE  Grounded'
  <2>1. req[r] \in Handler /\ req[r].pc = "retrieve" /\ req \in [Request -> Handler]
    BY <1>11 DEF RetrieveIntent, IInv, TypeOK
  <2>2. PICK h : h = [req[r] EXCEPT !.pc = "flip"]
    OBVIOUS
  <2>3. h.pc = "flip"
    BY <2>1, <2>2, Advanced
  <2>4. HandlerGrounded(h)'
    BY <2>3 DEF HandlerGrounded
  <2>5. req' = [req EXCEPT ![r] = Idle] \/ req' = [req EXCEPT ![r] = h]
    BY <1>11, <2>1, <2>2 DEF RetrieveIntent
  <2>6. QED
    BY <1>1, <1>4, <2>4, <2>5, MovesGrounded
<1>12. ASSUME NEW r \in Request, Continue(r) \/ Abort(r)
       PROVE  Grounded'
  BY <1>4, <1>9, <1>10, <1>11, <1>12 DEF Continue, AttachIntent, FlipTicket, DestroyRow, Abort, Stay
<1>13. CASE \E e \in Event, u \in User :
              \/ \E i \in Row : createEvent(e, u, i) \/ RsvpOn(e, u, i)
              \/ RsvpOff(e, u)
              \/ CapturePayment(e, u) \/ DeclinePayment(e, u) \/ CancelIntent(e, u)
  BY <1>3, <1>13 DEF createEvent, RsvpOn, RsvpOff, CapturePayment, DeclinePayment, CancelIntent
<1>14. CASE UNCHANGED vars
  BY <1>3, <1>14 DEF vars
<1>15. QED
  BY <1>8, <1>12, <1>13, <1>14 DEF Next

\* A statement about one row leaves the rest as they are.
OthersStay(i) ==
  /\ live' \ {i} = live \ {i}
  /\ \A x \in live \ {i} : attendee'[x] = attendee[x]

\* One row, one seat: what becomes of the row becomes of its seat, and of no other.
LEMMA OneSeatMoves ==
  ASSUME OneRow, OneRow', NEW i \in live \cup live', NEW s, OthersStay(i),
         i \in live => SeatOf(i) = s, i \in live' => SeatOf(i)' = s
  PROVE  /\ \A t : t # s => /\ t \in going' <=> t \in going
                            /\ t \in reserved' <=> t \in reserved
                            /\ t \in ticketed' <=> t \in ticketed
         /\ s \in going <=> i \in live /\ ~attendee[i].bound /\ ~attendee[i].has_ticket
         /\ s \in reserved <=> i \in live /\ attendee[i].bound /\ ~attendee[i].has_ticket
         /\ s \in ticketed <=> i \in live /\ attendee[i].has_ticket
         /\ s \in going' <=> i \in live' /\ ~attendee'[i].bound /\ ~attendee'[i].has_ticket
         /\ s \in reserved' <=> i \in live' /\ attendee'[i].bound /\ ~attendee'[i].has_ticket
         /\ s \in ticketed' <=> i \in live' /\ attendee'[i].has_ticket
<1>1. \A x \in live \ {i} : x \in live' /\ SeatOf(x)' = SeatOf(x) /\ SeatOf(x) # s
  BY DEF OneRow, OthersStay, SeatOf
<1>2. \A x \in live' \ {i} : x \in live
  BY DEF OthersStay
<1>3. \A t : /\ t \in going <=> \E x \in live : /\ ~attendee[x].bound /\ ~attendee[x].has_ticket
                                                /\ t = SeatOf(x)
             /\ t \in reserved <=> \E x \in live : /\ attendee[x].bound /\ ~attendee[x].has_ticket
                                                   /\ t = SeatOf(x)
             /\ t \in ticketed <=> \E x \in live : attendee[x].has_ticket /\ t = SeatOf(x)
  BY DEF going, reserved, ticketed
<1>4. \A t : /\ t \in going' <=> \E x \in live' : /\ ~attendee'[x].bound /\ ~attendee'[x].has_ticket
                                                  /\ t = SeatOf(x)'
             /\ t \in reserved' <=> \E x \in live' : /\ attendee'[x].bound /\ ~attendee'[x].has_ticket
                                                     /\ t = SeatOf(x)'
             /\ t \in ticketed' <=> \E x \in live' : attendee'[x].has_ticket /\ t = SeatOf(x)'
  BY DEF going, reserved, ticketed
<1>5. \A t : t # s => /\ t \in going' <=> t \in going
                      /\ t \in reserved' <=> t \in reserved
                      /\ t \in ticketed' <=> t \in ticketed
  <2> TAKE t
  <2> HAVE t # s
  <2>1. t \in going' <=> t \in going
    BY <1>1, <1>2, <1>3, <1>4 DEF OthersStay
  <2>2. t \in reserved' <=> t \in reserved
    BY <1>1, <1>2, <1>3, <1>4 DEF OthersStay
  <2>3. t \in ticketed' <=> t \in ticketed
    BY <1>1, <1>2, <1>3, <1>4 DEF OthersStay
  <2>4. QED
    BY <2>1, <2>2, <2>3
<1>6. /\ s \in going <=> i \in live /\ ~attendee[i].bound /\ ~attendee[i].has_ticket
      /\ s \in reserved <=> i \in live /\ attendee[i].bound /\ ~attendee[i].has_ticket
      /\ s \in ticketed <=> i \in live /\ attendee[i].has_ticket
  BY <1>1, <1>3
<1>7. /\ s \in going' <=> i \in live' /\ ~attendee'[i].bound /\ ~attendee'[i].has_ticket
      /\ s \in reserved' <=> i \in live' /\ attendee'[i].bound /\ ~attendee'[i].has_ticket
      /\ s \in ticketed' <=> i \in live' /\ attendee'[i].has_ticket
  BY <1>1, <1>2, <1>4
<1>8. QED
  BY <1>5, <1>6, <1>7

\* A row that is inserted takes a seat nobody has.
LEMMA InsertTakes ==
  ASSUME IInv, OneRow, OneRow', NEW e \in Event, NEW u \in User, NEW i \in Row,
         NEW b \in BOOLEAN, Insert(i, e, u, b)
  PROVE  /\ <<e, u>> \notin going \cup reserved \cup ticketed
         /\ going' = IF b THEN going ELSE going \cup {<<e, u>>}
         /\ reserved' = IF b THEN reserved \cup {<<e, u>>} ELSE reserved
         /\ ticketed' = ticketed
<1> DEFINE s == <<e, u>>
<1>1. /\ i \notin live /\ live' = live \cup {i}
      /\ \A x \in live : attendee'[x] = attendee[x]
      /\ SeatOf(i)' = s /\ attendee'[i].bound = b /\ ~attendee'[i].has_ticket
  BY Inserted DEF IInv, TypeOK
<1> HIDE DEF s
<1>2. OthersStay(i)
  BY <1>1 DEF OthersStay
<1>3. /\ \A t : t # s => /\ t \in going' <=> t \in going
                         /\ t \in reserved' <=> t \in reserved
                         /\ t \in ticketed' <=> t \in ticketed
      /\ s \notin going /\ s \notin reserved /\ s \notin ticketed
      /\ s \in going' <=> ~b
      /\ s \in reserved' <=> b
      /\ s \notin ticketed'
  BY <1>1, <1>2, OneSeatMoves
<1>4. \A t : /\ t \in going' <=> t \in (IF b THEN going ELSE going \cup {s})
             /\ t \in reserved' <=> t \in (IF b THEN reserved \cup {s} ELSE reserved)
             /\ t \in ticketed' <=> t \in ticketed
  BY <1>3
<1>5. /\ going' = IF b THEN going ELSE going \cup {s}
      /\ reserved' = IF b THEN reserved \cup {s} ELSE reserved
      /\ ticketed' = ticketed
  BY <1>4
<1>6. QED
  BY <1>3, <1>5 DEF s

\* A row that is deleted vacates its seat.
LEMMA DeleteVacates ==
  ASSUME OneRow, OneRow', NEW i \in live, Delete(i)
  PROVE  /\ BoxOfficeView!Vacate(SeatOf(i))
         /\ SeatOf(i) \in going \cup reserved \cup ticketed
<1>1. PICK s : s = SeatOf(i)
  OBVIOUS
<1>2. live' = live \ {i} /\ attendee' = attendee /\ OthersStay(i)
  BY DEF Delete, OthersStay
<1>3. /\ \A t : t # s => /\ t \in going' <=> t \in going
                         /\ t \in reserved' <=> t \in reserved
                         /\ t \in ticketed' <=> t \in ticketed
      /\ s \notin going' /\ s \notin reserved' /\ s \notin ticketed'
      /\ s \in going \cup reserved \cup ticketed
  BY <1>1, <1>2, OneSeatMoves
<1>4. \A t : /\ t \in going' <=> t \in going \ {s}
             /\ t \in reserved' <=> t \in reserved \ {s}
             /\ t \in ticketed' <=> t \in ticketed \ {s}
  BY <1>3
<1>5. going' = going \ {s} /\ reserved' = reserved \ {s} /\ ticketed' = ticketed \ {s}
  BY <1>4
<1>6. QED
  BY <1>1, <1>3, <1>5 DEF BoxOfficeView!Vacate

\* A row that gets its intent is a pending ticket, unless it is a settled one.
LEMMA AttachReserves ==
  ASSUME IInv, OneRow, OneRow', NEW i \in live,
         live' = live, attendee' = [attendee EXCEPT ![i].bound = TRUE]
  PROVE  /\ attendee[i].has_ticket =>
              going' = going /\ reserved' = reserved /\ ticketed' = ticketed
         /\ ~attendee[i].has_ticket =>
              /\ SeatOf(i) \notin ticketed
              /\ going' = going \ {SeatOf(i)}
              /\ reserved' = reserved \cup {SeatOf(i)}
              /\ ticketed' = ticketed
<1>1. PICK s, a : s = SeatOf(i) /\ a = attendee[i]
  OBVIOUS
<1>2. a \in Attendee /\ i \in Row
  BY <1>1 DEF IInv, TypeOK
<1>3. PICK b : b = [a EXCEPT !.bound = TRUE]
  OBVIOUS
<1>4. b.event = a.event /\ b.user = a.user /\ b.bound = TRUE /\ b.has_ticket = a.has_ticket
  BY <1>2, <1>3 DEF Attendee
<1>5. attendee' = [attendee EXCEPT ![i] = b]
  BY <1>1, <1>3
<1>6. attendee'[i] = b /\ SeatOf(i)' = s /\ OthersStay(i)
  BY <1>1, <1>2, <1>4, <1>5 DEF SeatOf, OthersStay, IInv, TypeOK
<1>7. /\ \A t : t # s => /\ t \in going' <=> t \in going
                         /\ t \in reserved' <=> t \in reserved
                         /\ t \in ticketed' <=> t \in ticketed
      /\ s \in going <=> ~a.bound /\ ~a.has_ticket
      /\ s \in reserved <=> a.bound /\ ~a.has_ticket
      /\ s \in ticketed <=> a.has_ticket
      /\ s \notin going'
      /\ s \in reserved' <=> ~a.has_ticket
      /\ s \in ticketed' <=> a.has_ticket
  BY <1>1, <1>4, <1>6, OneSeatMoves
<1>8. CASE a.has_ticket
  <2>1. \A t : /\ t \in going' <=> t \in going
               /\ t \in reserved' <=> t \in reserved
               /\ t \in ticketed' <=> t \in ticketed
    BY <1>7, <1>8
  <2>2. going' = going /\ reserved' = reserved /\ ticketed' = ticketed
    BY <2>1
  <2>3. QED
    BY <1>1, <1>8, <2>2
<1>9. CASE ~a.has_ticket
  <2>1. \A t : /\ t \in going' <=> t \in going \ {s}
               /\ t \in reserved' <=> t \in reserved \cup {s}
               /\ t \in ticketed' <=> t \in ticketed
    BY <1>7, <1>9
  <2>2. going' = going \ {s} /\ reserved' = reserved \cup {s} /\ ticketed' = ticketed
    BY <2>1
  <2>3. QED
    BY <1>1, <1>7, <1>9, <2>2
<1>10. QED
  BY <1>8, <1>9

\* A row that is flipped was an RSVP or a pending ticket, and is a ticket.
LEMMA FlipTickets ==
  ASSUME IInv, OneRow, OneRow', NEW i \in live, ~attendee[i].has_ticket,
         live' = live, attendee' = [attendee EXCEPT ![i].has_ticket = TRUE]
  PROVE  /\ SeatOf(i) \in going \cup reserved
         /\ going' = going \ {SeatOf(i)}
         /\ reserved' = reserved \ {SeatOf(i)}
         /\ ticketed' = ticketed \cup {SeatOf(i)}
<1>1. PICK s, a : s = SeatOf(i) /\ a = attendee[i]
  OBVIOUS
<1>2. a \in Attendee /\ i \in Row
  BY <1>1 DEF IInv, TypeOK
<1>3. PICK b : b = [a EXCEPT !.has_ticket = TRUE]
  OBVIOUS
<1>4. b.event = a.event /\ b.user = a.user /\ b.has_ticket = TRUE
  BY <1>2, <1>3 DEF Attendee
<1>5. attendee' = [attendee EXCEPT ![i] = b]
  BY <1>1, <1>3
<1>6. attendee'[i] = b /\ SeatOf(i)' = s /\ OthersStay(i)
  BY <1>1, <1>2, <1>4, <1>5 DEF SeatOf, OthersStay, IInv, TypeOK
<1>7. /\ \A t : t # s => /\ t \in going' <=> t \in going
                         /\ t \in reserved' <=> t \in reserved
                         /\ t \in ticketed' <=> t \in ticketed
      /\ s \in going \cup reserved
      /\ s \notin going' /\ s \notin reserved' /\ s \in ticketed'
  BY <1>1, <1>4, <1>6, OneSeatMoves
<1>8. \A t : /\ t \in going' <=> t \in going \ {s}
             /\ t \in reserved' <=> t \in reserved \ {s}
             /\ t \in ticketed' <=> t \in ticketed \cup {s}
  BY <1>7
<1>9. going' = going \ {s} /\ reserved' = reserved \ {s} /\ ticketed' = ticketed \cup {s}
  BY <1>8
<1>10. QED
  BY <1>1, <1>7, <1>9

LEMMA SeatsStay ==
  ASSUME live' = live, attendee' = attendee
  PROVE  going' = going /\ reserved' = reserved /\ ticketed' = ticketed
BY DEF going, reserved, ticketed, SeatOf

LEMMA FailedStays == ASSUME sent' = sent PROVE failed' = failed
BY DEF failed

\* The rows and Stripe's side stay as they are: BoxOffice sees nothing.
LEMMA SeesNothing ==
  ASSUME UNCHANGED <<rows, stripe>>
  PROVE  UNCHANGED BoxOfficeView!vars
BY SeatsStay, FailedStays
   DEF rows, stripe, BoxOfficeView!vars, BoxOfficeView!seats, BoxOfficeView!money

LEMMA RsvpPromised ==
  ASSUME IInv, OneRow, OneRow', NEW e \in Event, NEW u \in User, NEW i \in Row,
         createEvent(e, u, i) \/ RsvpOn(e, u, i)
  PROVE  BoxOfficeView!Rsvp(<<e, u>>)
<1>1. Insert(i, e, u, FALSE) /\ intent' = intent /\ sent' = sent
  BY DEF createEvent, RsvpOn, stripe
<1>2. /\ <<e, u>> \notin going \cup reserved \cup ticketed
      /\ going' = going \cup {<<e, u>>} /\ reserved' = reserved /\ ticketed' = ticketed
  BY <1>1, InsertTakes
<1>3. QED
  BY <1>1, <1>2, FailedStays DEF BoxOfficeView!Rsvp, BoxOfficeView!Taken, BoxOfficeView!money

LEMMA RsvpOffPromised ==
  ASSUME IInv, OneRow, OneRow', NEW e \in Event, NEW u \in User, RsvpOff(e, u)
  PROVE  BoxOfficeView!Leave(<<e, u>>)
<1>1. PICK i \in live : Delete(i) /\ SeatOf(i) = <<e, u>> /\ intent' = intent /\ sent' = sent
  BY DEF RsvpOff, RowsOf, SeatOf, stripe
<1>2. /\ BoxOfficeView!Vacate(<<e, u>>)
      /\ <<e, u>> \in going \cup reserved \cup ticketed
  BY <1>1, DeleteVacates
<1>3. QED
  BY <1>1, <1>2, FailedStays DEF BoxOfficeView!Leave, BoxOfficeView!Taken, BoxOfficeView!money

\* An attempt that fails is sent as an event of its seat.
LEMMA FailureTold ==
  ASSUME NEW e \in Event, NEW u \in User, sent' = sent \cup {<<e, u, FALSE>>}
  PROVE  failed' = failed \cup {<<e, u>>}
<1>1. PICK m : m = <<e, u, FALSE>>
  OBVIOUS
<1>2. ~m[3] /\ <<m[1], m[2]>> = <<e, u>> /\ sent' = sent \cup {m}
  BY <1>1
<1>3. {x \in sent' : ~x[3]} = {x \in sent : ~x[3]} \cup {m}
  BY <1>2
<1>4. QED
  BY <1>2, <1>3 DEF failed

\* One that succeeds is no failure.
LEMMA CaptureTold ==
  ASSUME NEW e \in Event, NEW u \in User, sent' = sent \cup {<<e, u, TRUE>>}
  PROVE  failed' = failed
<1>1. PICK m : m = <<e, u, TRUE>>
  OBVIOUS
<1>2. m[3] /\ sent' = sent \cup {m}
  BY <1>1
<1>3. {x \in sent' : ~x[3]} = {x \in sent : ~x[3]}
  BY <1>2
<1>4. QED
  BY <1>3 DEF failed

LEMMA PaymentPromised ==
  ASSUME NEW e \in Event, NEW u \in User
  PROVE  /\ CapturePayment(e, u) => BoxOfficeView!Capture(<<e, u>>)
         /\ DeclinePayment(e, u) => BoxOfficeView!Decline(<<e, u>>)
         /\ CancelIntent(e, u) => BoxOfficeView!Cancel(<<e, u>>)
<1>1. ASSUME CapturePayment(e, u) PROVE BoxOfficeView!Capture(<<e, u>>)
  BY <1>1, SeatsStay, CaptureTold
     DEF CapturePayment, rows, BoxOfficeView!Capture, BoxOfficeView!seats
<1>2. ASSUME DeclinePayment(e, u) PROVE BoxOfficeView!Decline(<<e, u>>)
  BY <1>2, SeatsStay, FailureTold
     DEF DeclinePayment, rows, BoxOfficeView!Decline, BoxOfficeView!seats
<1>3. ASSUME CancelIntent(e, u) PROVE BoxOfficeView!Cancel(<<e, u>>)
  BY <1>3, SeatsStay, FailureTold
     DEF CancelIntent, rows, BoxOfficeView!Cancel, BoxOfficeView!seats
<1>4. QED
  BY <1>1, <1>2, <1>3

LEMMA createPaymentIntentPromised ==
  ASSUME IInv, NEW r \in Request, createPaymentIntent(r)
  PROVE  \/ \E s \in Event \X User : BoxOfficeView!Open(s)
         \/ UNCHANGED BoxOfficeView!vars
<1>1. PICK e, u, s : e = req[r].event /\ u = req[r].user /\ s = <<e, u>>
  OBVIOUS
<1>2. /\ req[r] \in Handler /\ HandlerOK(req[r]) /\ req[r].pc = "openIntent"
      /\ UNCHANGED rows /\ sent' = sent
      /\ intent' = IF intent[s] = "none" THEN [intent EXCEPT ![s] = "opened"] ELSE intent
  BY <1>1 DEF createPaymentIntent, IInv, TypeOK, HandlersOK
<1>3. e \in Event /\ u \in User /\ e \notin FreeEvent
  BY <1>1, <1>2, HandlerFields DEF HandlerOK
<1>4. s \in Event \X User /\ s \notin FreeEvent \X User
  BY <1>1, <1>3
<1>5. CASE intent[s] = "none"
  <2>1. BoxOfficeView!Open(s)
    BY <1>2, <1>4, <1>5, SeatsStay, FailedStays DEF rows, BoxOfficeView!Open, BoxOfficeView!seats
  <2>2. QED
    BY <1>4, <2>1
<1>6. CASE intent[s] # "none"
  BY <1>2, <1>6, SeesNothing DEF stripe
<1>7. QED
  BY <1>5, <1>6

LEMMA RecordTicketPromised ==
  ASSUME IInv, OneRow, OneRow', Grounded, NEW r \in Request, RecordTicket(r)
  PROVE  \/ \E s \in Event \X User : BoxOfficeView!Reserve(s)
         \/ UNCHANGED BoxOfficeView!vars
<1>1. PICK e, u, s : e = req[r].event /\ u = req[r].user /\ s = <<e, u>>
  OBVIOUS
<1>2. req[r] \in Handler /\ HandlerGrounded(req[r]) /\ req[r].pc = "record" /\ sent' = sent
  BY DEF RecordTicket, IInv, TypeOK, Grounded
<1>3. e \in Event /\ u \in User /\ s \in Event \X User /\ intent[s] # "none"
  BY <1>1, <1>2, HandlerFields DEF HandlerGrounded
<1>4. ASSUME NEW i \in Row, Insert(i, e, u, TRUE), intent' = Told(s)
      PROVE  BoxOfficeView!Reserve(s)
  <2>1. /\ s \notin going \cup reserved \cup ticketed
        /\ going' = going /\ reserved' = reserved \cup {s} /\ ticketed' = ticketed
    BY <1>1, <1>3, <1>4, InsertTakes
  <2>2. going' = going \ {s}
    BY <2>1
  <2>3. BoxOfficeView!Tell(s)
    BY <1>4 DEF Told, BoxOfficeView!Tell
  <2>4. QED
    BY <1>2, <1>3, <2>1, <2>2, <2>3, FailedStays DEF BoxOfficeView!Reserve
<1>5. CASE UNCHANGED <<rows, intent>>
  BY <1>2, <1>5, SeesNothing DEF stripe
<1>6. QED
  BY <1>1, <1>3, <1>4, <1>5 DEF RecordTicket

LEMMA AttachIntentPromised ==
  ASSUME IInv, OneRow, OneRow', Grounded, NEW r \in Request, AttachIntent(r)
  PROVE  \E s \in Event \X User : BoxOfficeView!Reserve(s) \/ BoxOfficeView!Inform(s)
<1>1. PICK i, s : i = req[r].row /\ s = SeatOf(i)
  OBVIOUS
<1>2. /\ req[r] \in Handler /\ HandlerGrounded(req[r]) /\ HandlerOK(req[r])
      /\ req[r].pc = "attach" /\ sent' = sent /\ live' = live
  BY DEF AttachIntent, IInv, TypeOK, HandlersOK, Grounded
<1>3. i \in Row /\ intent[s] # "none"
  BY <1>1, <1>2, HandlerFields DEF HandlerGrounded
<1>4. s \in Event \X User
  BY <1>1, <1>3 DEF SeatOf, IInv, TypeOK, Attendee
<1>5. BoxOfficeView!Tell(s)
  BY <1>1 DEF AttachIntent, Told, SeatOf, BoxOfficeView!Tell
<1>6. CASE going' = going /\ reserved' = reserved /\ ticketed' = ticketed
  BY <1>2, <1>3, <1>4, <1>5, <1>6, FailedStays DEF BoxOfficeView!Inform, BoxOfficeView!seats
<1>7. CASE i \in live
  <2>1. attendee' = [attendee EXCEPT ![i].bound = TRUE]
    BY <1>1, <1>7 DEF AttachIntent
  <2>2. /\ attendee[i].has_ticket => going' = going /\ reserved' = reserved /\ ticketed' = ticketed
        /\ ~attendee[i].has_ticket =>
             /\ s \notin ticketed /\ going' = going \ {s}
             /\ reserved' = reserved \cup {s} /\ ticketed' = ticketed
    BY <1>1, <1>2, <1>7, <2>1, AttachReserves
  <2>3. CASE ~attendee[i].has_ticket
    BY <1>2, <1>3, <1>4, <1>5, <2>2, <2>3, FailedStays DEF BoxOfficeView!Reserve
  <2>4. QED
    BY <1>6, <2>2, <2>3
<1>8. CASE i \notin live
  <2>1. attendee' = attendee
    BY <1>1, <1>8 DEF AttachIntent
  <2>2. QED
    BY <1>2, <1>6, <2>1, SeatsStay
<1>9. QED
  BY <1>7, <1>8

LEMMA FlipTicketPromised ==
  ASSUME IInv, OneRow, OneRow', NEW r \in Request, FlipTicket(r)
  PROVE  \/ \E s \in Event \X User : BoxOfficeView!Settle(s)
         \/ UNCHANGED BoxOfficeView!vars
<1>1. PICK e, u, s : e = req[r].event /\ u = req[r].user /\ s = <<e, u>>
  OBVIOUS
<1>2. /\ req[r] \in Handler /\ HandlerOK(req[r]) /\ req[r].pc = "flip"
      /\ live' = live /\ used' = used /\ UNCHANGED stripe /\ intent' = intent /\ sent' = sent
  BY DEF FlipTicket, IInv, TypeOK, HandlersOK, stripe
<1>3. s \in Event \X User /\ intent[s] = "succeeded"
  BY <1>1, <1>2, HandlerFields DEF HandlerOK, Settled
<1>4. ASSUME NEW i \in RowsOf(e, u), ~attendee[i].has_ticket,
             attendee' = [attendee EXCEPT ![i].has_ticket = TRUE]
      PROVE  BoxOfficeView!Settle(s)
  <2>1. i \in live /\ SeatOf(i) = s
    BY <1>1 DEF RowsOf, SeatOf
  <2>2. /\ s \in going \cup reserved
        /\ going' = going \ {s} /\ reserved' = reserved \ {s} /\ ticketed' = ticketed \cup {s}
    BY <1>2, <1>4, <2>1, FlipTickets
  <2>3. QED
    BY <1>2, <1>3, <2>2, FailedStays DEF BoxOfficeView!Settle, BoxOfficeView!money
<1>5. CASE attendee' = attendee
  BY <1>2, <1>5, SeesNothing DEF rows
<1>6. QED
  BY <1>1, <1>3, <1>4, <1>5 DEF FlipTicket

LEMMA DestroyRowPromised ==
  ASSUME IInv, OneRow, OneRow', Grounded, NEW r \in Request, DestroyRow(r)
  PROVE  \/ \E s \in Event \X User : BoxOfficeView!Drop(s)
         \/ UNCHANGED BoxOfficeView!vars
<1>1. PICK i, s : i = req[r].row /\ s = SeatOf(i)
  OBVIOUS
<1>2. /\ req[r] \in Handler /\ HandlerGrounded(req[r]) /\ req[r].pc = "destroy"
      /\ Delete(i) /\ UNCHANGED stripe /\ intent' = intent /\ sent' = sent
  BY <1>1 DEF DestroyRow, IInv, TypeOK, Grounded, stripe
<1>3. i \in Row /\ s \in failed
  BY <1>1, <1>2, HandlerFields DEF HandlerGrounded
<1>4. s \in Event \X User
  BY <1>1, <1>3 DEF SeatOf, IInv, TypeOK, Attendee
<1>5. CASE i \in live
  <2>1. BoxOfficeView!Vacate(s)
    BY <1>1, <1>2, <1>5, DeleteVacates
  <2>2. BoxOfficeView!Drop(s)
    BY <1>2, <1>3, <2>1, FailedStays DEF BoxOfficeView!Drop, BoxOfficeView!money
  <2>3. QED
    BY <1>4, <2>2
<1>6. CASE i \notin live
  BY <1>2, <1>6, SeesNothing DEF Delete, rows
<1>7. QED
  BY <1>5, <1>6

\* Every step of EventTickets is a step of BoxOffice, or none.
LEMMA StepKeepsPromise ==
  ASSUME IInv, OneRow, Grounded, [Next]_vars
  PROVE  BoxOfficeView!Next \/ UNCHANGED BoxOfficeView!vars
<1>1. OneRow'
  BY OneRowKept
<1>2. ASSUME NEW e \in Event, NEW u \in User,
             \/ \E i \in Row : createEvent(e, u, i) \/ RsvpOn(e, u, i)
             \/ RsvpOff(e, u)
             \/ CapturePayment(e, u) \/ DeclinePayment(e, u) \/ CancelIntent(e, u)
      PROVE  BoxOfficeView!Next
  <2>1. <<e, u>> \in Event \X User
    OBVIOUS
  <2>2. \/ BoxOfficeView!Rsvp(<<e, u>>) \/ BoxOfficeView!Leave(<<e, u>>)
        \/ BoxOfficeView!Capture(<<e, u>>) \/ BoxOfficeView!Decline(<<e, u>>)
        \/ BoxOfficeView!Cancel(<<e, u>>)
    BY <1>1, <1>2, RsvpPromised, RsvpOffPromised, PaymentPromised
  <2>3. QED
    BY <2>1, <2>2 DEF BoxOfficeView!Next
<1>3. ASSUME NEW r \in Request, Begin(r) \/ RetrieveIntent(r) \/ Abort(r)
      PROVE  UNCHANGED BoxOfficeView!vars
  <2>1. UNCHANGED <<rows, stripe>>
    BY <1>3 DEF Begin, BeginTicket, BeginConfirm, stripeWebhook, RetrieveIntent, Abort
  <2>2. QED
    BY <2>1, SeesNothing
<1>4. ASSUME NEW r \in Request, Continue(r)
      PROVE  BoxOfficeView!Next \/ UNCHANGED BoxOfficeView!vars
  <2>1. CASE createPaymentIntent(r)
    BY <2>1, createPaymentIntentPromised DEF BoxOfficeView!Next
  <2>2. CASE RecordTicket(r)
    BY <1>1, <2>2, RecordTicketPromised DEF BoxOfficeView!Next
  <2>3. CASE AttachIntent(r)
    BY <1>1, <2>3, AttachIntentPromised DEF BoxOfficeView!Next
  <2>4. CASE FlipTicket(r)
    BY <1>1, <2>4, FlipTicketPromised DEF BoxOfficeView!Next
  <2>5. CASE DestroyRow(r)
    BY <1>1, <2>5, DestroyRowPromised DEF BoxOfficeView!Next
  <2>6. QED
    BY <1>3, <1>4, <2>1, <2>2, <2>3, <2>4, <2>5 DEF Continue
<1>5. CASE UNCHANGED vars
  BY <1>5, SeesNothing DEF vars
<1>6. QED
  BY <1>2, <1>3, <1>4, <1>5 DEF Next

\* EventTickets implements BoxOffice: a seat is a ticket only once its payment was
\* captured, is kept for a payment only once one was opened, is never two things, and
\* is taken away only by its user or after a payment that failed, whatever the order of
\* confirm, webhook and RSVP (setRsvp, createTicketIntent, confirmTicket,
\* applyTicketPaymentResult), for any events and users and any number of handlers.
THEOREM ImplementsBoxOffice == Spec => BoxOfficePromise
<1>1. Init => BoxOfficeView!Init /\ OneRow /\ Grounded
  <2> SUFFICES ASSUME Init PROVE BoxOfficeView!Init /\ OneRow /\ Grounded
    OBVIOUS
  <2>1. going = {} /\ reserved = {} /\ ticketed = {} /\ failed = {}
    BY DEF Init, going, reserved, ticketed, failed
  <2>2. BoxOfficeView!Init
    BY <2>1 DEF Init, BoxOfficeView!Init
  <2>3. OneRow
    BY DEF Init, OneRow
  <2>4. Grounded
    BY HandlerShapes DEF Init, Grounded, HandlerGrounded
  <2>5. QED
    BY <2>2, <2>3, <2>4
<1>2. IInv /\ OneRow /\ Grounded /\ [Next]_vars => OneRow' /\ Grounded'
  BY OneRowKept, GroundedKept
<1>3. IInv /\ OneRow /\ Grounded /\ [Next]_vars => [BoxOfficeView!Next]_(BoxOfficeView!vars)
  BY StepKeepsPromise
<1>4. QED
  BY <1>1, <1>2, <1>3, Invariance, PTL DEF Spec, BoxOfficePromise, BoxOfficeView!Spec

================================================================================
