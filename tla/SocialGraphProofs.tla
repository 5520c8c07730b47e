-------------------------- MODULE SocialGraphProofs --------------------------
(***************************************************************************)
(* Theorems about module SocialGraph, for every set of users and any       *)
(* number of handlers in flight.                                           *)
(*                                                                         *)
(* Two who ask each other are both between their two statements when the   *)
(* later one reads, so a row an asker did not see was made by one it       *)
(* crossed. An answer holds the id of the row it read, and no other row    *)
(* ever gets that id. What a block has not swept when it commits was       *)
(* inserted while it was being made, and is marked. What it has swept is   *)
(* of its pair, still there, and swept by no other: so its commit takes    *)
(* away what module Acquaintance lets a block take.                        *)
(***************************************************************************)
EXTENDS SocialGraph, TLAPS

\* A row from the one that is being asked was inserted by one that was crossed.
AskOK(h) ==
  h.pc = "create" =>
    \A q \in requests :
      q.requester = h.target /\ q.addressee = h.user => {h.user, h.target} \in crossed

\* The row an answer is for, if it is still there, is one to the answerer.
AnswerOK(h) ==
  h.pc = "accept" =>
    \A q \in requests : q.id = h.id => q.addressee = h.user /\ <<h.user, h.id>> \in consent

\* What a block in flight did not delete is marked.
FollowsSwept(h) ==
  h.pc \in {"unfriend", "record"} =>
    /\ h.user # h.target
    /\ \A e \in follows : e \in Between(h.user, h.target) => e \in late \/ e \in h.follows

RequestsSwept(h) ==
  h.pc = "record" =>
    \A q \in requests :
      <<q.requester, q.addressee>> \in Between(h.user, h.target) => q.id \in late \/ q.id \in h.ids

HandlersOK ==
  \A r \in Request :
    AskOK(req[r]) /\ AnswerOK(req[r]) /\ FollowsSwept(req[r]) /\ RequestsSwept(req[r])

Crosses(g, h) ==
  g.pc = "create" /\ h.pc = "create" /\ g.user = h.target /\ g.target = h.user

CrossingsKnown ==
  \A r, s \in Request : Crosses(req[s], req[r]) => {req[r].user, req[r].target} \in crossed

OnePerPair ==
  \A p, q \in requests :
    <<p.requester, p.addressee>> \in Between(q.requester, q.addressee) =>
      p = q \/ {p.requester, p.addressee} \in crossed

RowsConsented ==
  \A q \in requests :
    /\ <<q.requester, q.id>> \in consent
    /\ q.status = "accepted" => <<q.addressee, q.id>> \in consent

FollowsSevered == \A b \in blocks : \A e \in follows : e \in Between(b[1], b[2]) => e \in late

RequestsSevered ==
  \A b \in blocks : \A q \in requests :
    <<q.requester, q.addressee>> \in Between(b[1], b[2]) => q.id \in late

IInv ==
  /\ TypeOK
  /\ HandlersOK
  /\ CrossingsKnown
  /\ OnePerPair
  /\ RowsConsented
  /\ FollowsSevered
  /\ RequestsSevered

--------------------------------------------------------------------------------
(* Types *)

LEMMA HandlerFields ==
  ASSUME NEW h \in Handler
  PROVE  /\ h.pc \in {"idle", "create", "accept", "unfriend", "record"}
         /\ h.pc = "create" => h.user \in User /\ h.target \in User
         /\ h.pc = "accept" => h.user \in User /\ h.target \in User /\ h.id \in Id
         /\ h.pc = "unfriend" =>
              h.user \in User /\ h.target \in User /\ h.follows \subseteq FollowRow
         /\ h.pc = "record" =>
              /\ h.user \in User /\ h.target \in User
              /\ h.follows \subseteq FollowRow /\ h.ids \subseteq Id
BY DEF Handler, Idle

LEMMA HandlerShapes ==
  /\ Idle \in Handler /\ Idle.pc = "idle"
  /\ \A u, v \in User : [pc |-> "create", user |-> u, target |-> v] \in Handler
  /\ \A u, v \in User, id \in Id :
       [pc |-> "accept", user |-> u, target |-> v, id |-> id] \in Handler
  /\ \A u, v \in User, f \in SUBSET FollowRow :
       [pc |-> "unfriend", user |-> u, target |-> v, follows |-> f] \in Handler
  /\ \A u, v \in User, f \in SUBSET FollowRow, g \in SUBSET Id :
       [pc |-> "record", user |-> u, target |-> v, follows |-> f, ids |-> g] \in Handler
BY DEF Handler, Idle

LEMMA GotoReq ==
  ASSUME req \in [Request -> Handler], NEW r \in Request, NEW h \in Handler, Goto(r, h)
  PROVE  /\ req' \in [Request -> Handler]
         /\ req'[r] = h
         /\ \A q \in Request \ {r} : req'[q] = req[q]
BY DEF Goto

LEMMA RowFields ==
  ASSUME TypeOK, NEW q \in requests
  PROVE  /\ q.id \in Id /\ q.requester \in User /\ q.addressee \in User
         /\ q.status \in {"pending", "accepted"}
BY DEF TypeOK, FriendRequest

\* An idle handler, and one that asks, hold nothing of a block or an answer.
LEMMA IdleOK == AskOK(Idle) /\ AnswerOK(Idle) /\ FollowsSwept(Idle) /\ RequestsSwept(Idle)
BY HandlerShapes DEF AskOK, AnswerOK, FollowsSwept, RequestsSwept

--------------------------------------------------------------------------------
(* Steps that only move a handler *)

\* A handler that does not ask may take any other's place if it is in order.
LEMMA HandlerReplaced ==
  ASSUME HandlersOK, CrossingsKnown, req \in [Request -> Handler],
         NEW r \in Request, NEW h \in Handler, Goto(r, h), h.pc # "create",
         UNCHANGED <<follows, requests, crossed, late>>, consent \subseteq consent',
         (AnswerOK(h) /\ FollowsSwept(h) /\ RequestsSwept(h))'
  PROVE  HandlersOK' /\ CrossingsKnown'
<1>1. req'[r] = h /\ \A q \in Request \ {r} : req'[q] = req[q]
  BY GotoReq
<1>2. HandlersOK'
  <2> SUFFICES ASSUME NEW q \in Request
               PROVE  (AskOK(req[q]) /\ AnswerOK(req[q])
                        /\ FollowsSwept(req[q]) /\ RequestsSwept(req[q]))'
    BY DEF HandlersOK
  <2>1. CASE q = r
    BY <1>1, <2>1 DEF AskOK, AnswerOK, FollowsSwept, RequestsSwept
  <2>2. CASE q # r
    <3>1. /\ AskOK(req[q]) /\ AnswerOK(req[q]) /\ FollowsSwept(req[q]) /\ RequestsSwept(req[q])
          /\ req'[q] = req[q]
      BY <1>1, <2>2 DEF HandlersOK
    <3>2. QED
      BY <3>1 DEF AskOK, AnswerOK, FollowsSwept, RequestsSwept
  <2>3. QED
    BY <2>1, <2>2
<1>3. CrossingsKnown'
  BY <1>1 DEF CrossingsKnown, Crosses
<1>4. QED
  BY <1>2, <1>3

LEMMA MoveStep ==
  ASSUME IInv, NEW r \in Request, NEW h \in Handler, Goto(r, h), h.pc # "create",
         UNCHANGED <<follows, requests, blocks, mutes, crossed, late>>,
         consent \subseteq consent', consent' \subseteq User \X Id,
         (AnswerOK(h) /\ FollowsSwept(h) /\ RequestsSwept(h))'
  PROVE  IInv'
<1> USE DEF IInv
<1>1. TypeOK'
  <2>1. req' \in [Request -> Handler]
    BY GotoReq DEF TypeOK
  <2>2. QED
    BY <2>1 DEF TypeOK
<1>2. HandlersOK' /\ CrossingsKnown'
  <2>1. req \in [Request -> Handler]
    BY DEF TypeOK
  <2>2. QED
    BY <2>1, HandlerReplaced
<1>3. OnePerPair' /\ RowsConsented' /\ FollowsSevered' /\ RequestsSevered'
  BY DEF OnePerPair, RowsConsented, FollowsSevered, RequestsSevered
<1>4. QED
  BY <1>1, <1>2, <1>3

LEMMA AbortStep ==
  ASSUME IInv, NEW r \in Request, Abort(r)
  PROVE  IInv'
<1>1. /\ Goto(r, Idle)
      /\ UNCHANGED <<follows, requests, blocks, mutes, crossed, late>>
      /\ consent' = consent
  BY DEF Abort, history
<1>2. (AnswerOK(Idle) /\ FollowsSwept(Idle) /\ RequestsSwept(Idle))'
  BY HandlerShapes DEF AnswerOK, FollowsSwept, RequestsSwept
<1>3. Idle \in Handler /\ Idle.pc # "create"
  BY HandlerShapes
<1>4. consent' \subseteq User \X Id
  BY <1>1 DEF IInv, TypeOK
<1>5. QED
  BY <1>1, <1>2, <1>3, <1>4, MoveStep

\* An answer starts from a row that is addressed to the answerer.
LEMMA AnswerStep ==
  ASSUME IInv, NEW r \in Request, NEW u \in User, NEW v \in User, NEW q \in requests,
         q.addressee = u,
         Goto(r, [pc |-> "accept", user |-> u, target |-> v, id |-> q.id]),
         consent' = consent \cup {<<u, q.id>>},
         UNCHANGED <<follows, requests, blocks, mutes, crossed, late>>
  PROVE  IInv'
<1> DEFINE h == [pc |-> "accept", user |-> u, target |-> v, id |-> q.id]
<1>1. q.id \in Id
  BY RowFields DEF IInv
<1>2. h \in Handler
  BY <1>1, HandlerShapes
<1>3. h.pc = "accept" /\ h.user = u /\ h.id = q.id
  OBVIOUS
<1> HIDE DEF h
<1>4. \A p \in requests : p.id = q.id => p = q
  BY DEF IInv, TypeOK
<1>5. (AnswerOK(h) /\ FollowsSwept(h) /\ RequestsSwept(h))'
  BY <1>3, <1>4 DEF AnswerOK, FollowsSwept, RequestsSwept
<1>6. consent \subseteq consent' /\ consent' \subseteq User \X Id
  BY <1>1 DEF IInv, TypeOK
<1>7. Goto(r, h)
  BY DEF h
<1>8. QED
  BY <1>2, <1>3, <1>5, <1>6, <1>7, MoveStep

LEMMA AcceptStep ==
  ASSUME IInv, NEW r \in Request, NEW u \in User, NEW v \in User, Accept(r, u, v)
  PROVE  IInv'
<1>1. PICK q \in Incoming(u) :
        /\ q.requester = v
        /\ Goto(r, [pc |-> "accept", user |-> u, target |-> v, id |-> q.id])
        /\ consent' = consent \cup {<<u, q.id>>}
  BY DEF Accept
<1>2. q \in requests /\ q.addressee = u
  BY DEF Incoming
<1>3. UNCHANGED <<follows, requests, blocks, mutes, crossed, late>>
  BY DEF Accept
<1>4. QED
  BY <1>1, <1>2, <1>3, AnswerStep

\* An asker saw no row; another that is asking back is one it crosses.
LEMMA AskStep ==
  ASSUME IInv, NEW r \in Request, NEW u \in User, NEW v \in User, u # v,
         Rows(u, v) = {},
         Goto(r, [pc |-> "create", user |-> u, target |-> v]),
         crossed' = IF Crossing(r, u, v) THEN crossed \cup {{u, v}} ELSE crossed,
         UNCHANGED <<follows, requests, blocks, mutes, consent, late>>
  PROVE  IInv'
<1> DEFINE h == [pc |-> "create", user |-> u, target |-> v]
<1>1. h \in Handler
  BY HandlerShapes
<1>2. h.pc = "create" /\ h.user = u /\ h.target = v
  OBVIOUS
<1>3. Goto(r, h)
  OBVIOUS
<1> HIDE DEF h
<1>4. req'[r] = h /\ (\A q \in Request \ {r} : req'[q] = req[q]) /\ req' \in [Request -> Handler]
  BY <1>1, <1>3, GotoReq DEF IInv, TypeOK
<1>5. crossed \subseteq crossed' /\ crossed' \subseteq SUBSET User
  BY DEF IInv, TypeOK
<1>6. TypeOK'
  BY <1>4, <1>5 DEF IInv, TypeOK
<1>7. HandlersOK'
  <2> SUFFICES ASSUME NEW q \in Request
               PROVE  (AskOK(req[q]) /\ AnswerOK(req[q])
                        /\ FollowsSwept(req[q]) /\ RequestsSwept(req[q]))'
    BY DEF HandlersOK
  <2>1. CASE q = r
    <3>1. ~ \E p \in requests : p.requester = v /\ p.addressee = u
      BY DEF Rows, Between
    <3>2. QED
      BY <1>2, <1>4, <2>1, <3>1 DEF AskOK, AnswerOK, FollowsSwept, RequestsSwept
  <2>2. CASE q # r
    <3>1. /\ AskOK(req[q]) /\ AnswerOK(req[q]) /\ FollowsSwept(req[q]) /\ RequestsSwept(req[q])
          /\ req'[q] = req[q]
      BY <1>4, <2>2 DEF IInv, HandlersOK
    <3>2. QED
      BY <1>5, <3>1 DEF AskOK, AnswerOK, FollowsSwept, RequestsSwept
  <2>3. QED
    BY <2>1, <2>2
<1>8. CrossingsKnown'
  <2> SUFFICES ASSUME NEW p \in Request, NEW s \in Request, Crosses(req[s], req[p])'
               PROVE  {req'[p].user, req'[p].target} \in crossed'
    BY DEF CrossingsKnown
  <2>1. CASE p # r /\ s # r
    BY <1>4, <1>5, <2>1 DEF IInv, CrossingsKnown, Crosses
  <2>2. CASE p = r /\ s # r
    <3>1. Crossing(r, u, v)
      BY <1>2, <1>4, <2>2 DEF Crossing, Crosses
    <3>2. QED
      BY <1>2, <1>4, <2>2, <3>1
  <2>3. CASE p # r /\ s = r
    <3>1. Crossing(r, u, v)
      BY <1>2, <1>4, <2>3 DEF Crossing, Crosses
    <3>2. req'[p].user = v /\ req'[p].target = u
      BY <1>2, <1>4, <2>3 DEF Crosses
    <3>3. {v, u} = {u, v}
      OBVIOUS
    <3>4. QED
      BY <3>1, <3>2, <3>3
  <2>4. CASE p = r /\ s = r
    BY <1>2, <1>4, <2>4 DEF Crosses
  <2>5. QED
    BY <2>1, <2>2, <2>3, <2>4
<1>9. OnePerPair'
  BY <1>5 DEF IInv, OnePerPair
<1>10. RowsConsented' /\ FollowsSevered' /\ RequestsSevered'
  BY DEF IInv, RowsConsented, FollowsSevered, RequestsSevered
<1>11. QED
  BY <1>6, <1>7, <1>8, <1>9, <1>10 DEF IInv

LEMMA SendStep ==
  ASSUME IInv, NEW r \in Request, NEW u \in User, NEW v \in User, Send(r, u, v)
  PROVE  IInv'
<1>1. u # v
  BY DEF Send, Edge
<1>2. UNCHANGED <<follows, requests, blocks, mutes, late>>
  BY DEF Send
<1>3. CASE /\ Rows(u, v) = {}
           /\ Goto(r, [pc |-> "create", user |-> u, target |-> v])
           /\ crossed' = IF Crossing(r, u, v) THEN crossed \cup {{u, v}} ELSE crossed
           /\ UNCHANGED consent
  BY <1>1, <1>2, <1>3, AskStep
<1>4. ASSUME NEW q \in Rows(u, v),
             q.status = "pending" /\ q.addressee = u,
             Goto(r, [pc |-> "accept", user |-> u, target |-> v, id |-> q.id]),
             consent' = consent \cup {<<u, q.id>>},
             UNCHANGED crossed
      PROVE  IInv'
  <2>1. q \in requests
    BY DEF Rows
  <2>2. QED
    BY <1>2, <1>4, <2>1, AnswerStep
<1>5. QED
  BY <1>3, <1>4 DEF Send

LEMMA BlockFollowsStep ==
  ASSUME IInv, NEW r \in Request, NEW u \in User, NEW v \in User, BlockFollows(r, u, v)
  PROVE  IInv'
<1> DEFINE gone == Between(u, v) \cap follows
<1>1. PICK h : h = [pc |-> "unfriend", user |-> u, target |-> v, follows |-> gone]
  OBVIOUS
<1>2. Goto(r, h) /\ UNCHANGED <<follows, requests, blocks, mutes, crossed, late>>
      /\ consent' = consent
  BY <1>1 DEF BlockFollows, history
<1>3. gone \subseteq FollowRow
  BY DEF IInv, TypeOK
<1>4. h \in Handler
  BY <1>1, <1>3, HandlerShapes
<1>5. h.pc = "unfriend" /\ h.user = u /\ h.target = v /\ h.follows = gone
  BY <1>1
<1>6. (AnswerOK(h) /\ FollowsSwept(h) /\ RequestsSwept(h))'
  BY <1>2, <1>5 DEF AnswerOK, FollowsSwept, RequestsSwept, BlockFollows, Edge
<1>7. consent' \subseteq User \X Id
  BY <1>2 DEF IInv, TypeOK
<1>8. QED
  BY <1>2, <1>4, <1>5, <1>6, <1>7, MoveStep

LEMMA BlockRequestsStep ==
  ASSUME IInv, NEW r \in Request, BlockRequests(r)
  PROVE  IInv'
<1> DEFINE u == req[r].user
           v == req[r].target
           f == req[r].follows
           gone == {q.id : q \in Rows(u, v)}
<1>1. PICK h : h = [pc |-> "record", user |-> u, target |-> v, follows |-> f, ids |-> gone]
  OBVIOUS
<1>2. Goto(r, h) /\ UNCHANGED <<follows, requests, blocks, mutes, crossed, late>>
      /\ consent' = consent /\ req[r].pc = "unfriend"
  BY <1>1 DEF BlockRequests, history
<1>3. u \in User /\ v \in User /\ f \subseteq FollowRow
  BY <1>2, HandlerFields DEF IInv, TypeOK
<1>4. gone \subseteq Id
  BY RowFields DEF Rows, IInv
<1>5. h \in Handler
  BY <1>1, <1>3, <1>4, HandlerShapes
<1>6. h.pc = "record" /\ h.user = u /\ h.target = v /\ h.follows = f /\ h.ids = gone
  BY <1>1
<1>7. FollowsSwept(h)'
  <2>1. FollowsSwept(req[r])
    BY DEF IInv, HandlersOK
  <2>2. QED
    BY <1>2, <1>6, <2>1 DEF FollowsSwept
<1>8. RequestsSwept(h)'
  <2>1. \A q \in requests : <<q.requester, q.addressee>> \in Between(u, v) => q.id \in gone
    BY DEF Rows
  <2>2. QED
    BY <1>2, <1>6, <2>1 DEF RequestsSwept
<1>9. AnswerOK(h)'
  BY <1>6 DEF AnswerOK
<1>10. consent' \subseteq User \X Id
  BY <1>2 DEF IInv, TypeOK
<1>11. QED
  BY <1>2, <1>5, <1>6, <1>7, <1>8, <1>9, <1>10, MoveStep

--------------------------------------------------------------------------------
(* Steps that write *)

\* Rows, marks and consents of what remains are all the parts but the types look at.
LEMMA RowsDropped ==
  ASSUME IInv, req' = req, blocks' \subseteq blocks, crossed' = crossed,
         follows' \subseteq follows, requests' \subseteq requests,
         \A e \in follows' : e \in late => e \in late',
         \A q \in requests' : q.id \in late => q.id \in late',
         \A q \in requests' : \A u \in User : <<u, q.id>> \in consent => <<u, q.id>> \in consent'
  PROVE  /\ HandlersOK' /\ CrossingsKnown' /\ OnePerPair' /\ RowsConsented'
         /\ FollowsSevered' /\ RequestsSevered'
<1>1. \A q \in requests : q.requester \in User /\ q.addressee \in User
  BY RowFields DEF IInv
<1>2. HandlersOK'
  <2> SUFFICES ASSUME NEW r \in Request
               PROVE  (AskOK(req[r]) /\ AnswerOK(req[r])
                        /\ FollowsSwept(req[r]) /\ RequestsSwept(req[r]))'
    BY DEF HandlersOK
  <2>1. AskOK(req[r]) /\ AnswerOK(req[r]) /\ FollowsSwept(req[r]) /\ RequestsSwept(req[r])
    BY DEF IInv, HandlersOK
  <2>2. AnswerOK(req[r])'
    <3>1. req[r].pc = "accept" => req[r].user \in User
      BY HandlerFields DEF IInv, TypeOK
    <3>2. QED
      BY <2>1, <3>1 DEF AnswerOK
  <2>3. AskOK(req[r])'
    BY <2>1 DEF AskOK
  <2>4. FollowsSwept(req[r])'
    BY <2>1 DEF FollowsSwept
  <2>5. RequestsSwept(req[r])'
    BY <2>1 DEF RequestsSwept
  <2>6. QED
    BY <2>2, <2>3, <2>4, <2>5
<1>3. CrossingsKnown'
  BY DEF IInv, CrossingsKnown
<1>4. OnePerPair'
  BY DEF IInv, OnePerPair
<1>5. RowsConsented'
  BY <1>1 DEF IInv, RowsConsented
<1>6. FollowsSevered'
  BY DEF IInv, FollowsSevered
<1>7. RequestsSevered'
  BY DEF IInv, RequestsSevered
<1>8. QED
  BY <1>2, <1>3, <1>4, <1>5, <1>6, <1>7

\* A follow under a block, or under one that is being made, is marked.
LEMMA FollowStep ==
  ASSUME IInv, NEW u \in User, NEW v \in User, Follow(u, v)
  PROVE  IInv'
<1>1. follows' = follows \cup {<<u, v>>} /\ <<u, v>> \in Edge
  BY DEF Follow, FollowRow
<1>2. UNCHANGED <<requests, blocks, mutes, req, crossed, consent>>
  BY DEF Follow
<1>3. late \subseteq late' /\ late' \subseteq late \cup {<<u, v>>}
  BY DEF Follow, Mark
<1>4. UnderBlock(u, v) => <<u, v>> \in late'
  BY DEF Follow, Mark
<1>5. TypeOK'
  BY <1>1, <1>2, <1>3 DEF IInv, TypeOK, FollowRow
<1>6. HandlersOK'
  <2> SUFFICES ASSUME NEW r \in Request
               PROVE  (AskOK(req[r]) /\ AnswerOK(req[r])
                        /\ FollowsSwept(req[r]) /\ RequestsSwept(req[r]))'
    BY DEF HandlersOK
  <2>1. AskOK(req[r]) /\ AnswerOK(req[r]) /\ FollowsSwept(req[r]) /\ RequestsSwept(req[r])
    BY DEF IInv, HandlersOK
  <2>2. FollowsSwept(req[r])'
    <3> SUFFICES ASSUME req[r].pc \in {"unfriend", "record"}, NEW e \in follows',
                        e \in Between(req[r].user, req[r].target)
                 PROVE  e \in late' \/ e \in req[r].follows
      BY <1>2, <2>1 DEF FollowsSwept
    <3>1. CASE e \in follows
      BY <1>3, <2>1, <3>1 DEF FollowsSwept
    <3>2. CASE e = <<u, v>>
      <4>1. <<req[r].user, req[r].target>> \in Between(u, v)
        BY <3>2 DEF Between
      <4>2. QED
        BY <1>4, <3>2, <4>1 DEF UnderBlock
    <3>3. QED
      BY <1>1, <3>1, <3>2
  <2>3. (AskOK(req[r]) /\ AnswerOK(req[r]) /\ RequestsSwept(req[r]))'
    BY <1>2, <1>3, <2>1 DEF AskOK, AnswerOK, RequestsSwept
  <2>4. QED
    BY <2>2, <2>3
<1>7. CrossingsKnown' /\ OnePerPair' /\ RowsConsented'
  BY <1>2 DEF IInv, CrossingsKnown, OnePerPair, RowsConsented
<1>8. FollowsSevered'
  <2> SUFFICES ASSUME NEW b \in blocks, NEW e \in follows', e \in Between(b[1], b[2])
               PROVE  e \in late'
    BY <1>2 DEF FollowsSevered
  <2>1. CASE e \in follows
    BY <1>3, <2>1 DEF IInv, FollowsSevered
  <2>2. CASE e = <<u, v>>
    <3>1. b = <<b[1], b[2]>>
      BY DEF IInv, TypeOK, BlockRow, Edge
    <3>2. b \in Between(u, v)
      BY <2>2, <3>1 DEF Between
    <3>3. QED
      BY <1>4, <2>2, <3>2 DEF UnderBlock
  <2>3. QED
    BY <1>1, <2>1, <2>2
<1>9. RequestsSevered'
  BY <1>2, <1>3 DEF IInv, RequestsSevered
<1>10. QED
  BY <1>5, <1>6, <1>7, <1>8, <1>9 DEF IInv

LEMMA UnfollowStep ==
  ASSUME IInv, NEW u \in User, NEW v \in User, Unfollow(u, v)
  PROVE  IInv'
<1>1. /\ follows' = follows \ {<<u, v>>}
      /\ late' = late \ {<<u, v>>}
      /\ UNCHANGED <<requests, blocks, mutes, req, crossed>>
  BY DEF Unfollow, Forget
<1>2. consent' = consent
  <2>1. consent' = {c \in consent : c[2] \notin {}}
    BY DEF Unfollow, Forget
  <2>2. QED
    BY <2>1
<1>3. TypeOK'
  BY <1>1, <1>2 DEF IInv, TypeOK
<1>4. \A q \in requests : q.id # <<u, v>>
  BY SocialAssumption, RowFields DEF IInv
<1>5. QED
  BY <1>1, <1>2, <1>3, <1>4, RowsDropped DEF IInv

LEMMA MuteUnmuteStep ==
  ASSUME IInv, NEW u \in User, NEW v \in User, Mute(u, v) \/ Unmute(u, v)
  PROVE  IInv'
<1>1. UNCHANGED <<follows, requests, blocks, req, crossed, consent, late>>
  BY DEF Mute, Unmute, history
<1>2. mutes' \subseteq MuteRow
  BY DEF Mute, Unmute, IInv, TypeOK
<1>3. TypeOK'
  BY <1>1, <1>2 DEF IInv, TypeOK
<1>4. QED
  BY <1>1, <1>3, RowsDropped DEF IInv

LEMMA UnblockStep ==
  ASSUME IInv, NEW u \in User, NEW v \in User, Unblock(u, v)
  PROVE  IInv'
<1>1. blocks' \subseteq blocks /\ UNCHANGED <<follows, requests, mutes, req, crossed, consent, late>>
  BY DEF Unblock, history
<1>2. TypeOK'
  BY <1>1 DEF IInv, TypeOK
<1>3. QED
  BY <1>1, <1>2, RowsDropped DEF IInv

LEMMA RemoveFriendStep ==
  ASSUME IInv, NEW u \in User, NEW v \in User, RemoveFriend(u, v)
  PROVE  IInv'
<1>1. PICK gone : gone = {q.id : q \in Rows(u, v)}
  OBVIOUS
<1>2. /\ requests' = requests \ Rows(u, v)
      /\ late' = late \ ({} \cup gone)
      /\ consent' = {c \in consent : c[2] \notin gone}
      /\ UNCHANGED <<follows, blocks, mutes, req, crossed>>
  BY <1>1 DEF RemoveFriend, Forget
<1>3. \A q \in requests' : q.id \notin gone
  BY <1>1, <1>2 DEF IInv, TypeOK, Rows
<1>4. gone \subseteq Id
  BY <1>1, RowFields DEF IInv, Rows
<1>5. \A e \in follows : e \notin gone
  BY <1>4, SocialAssumption DEF IInv, TypeOK, FollowRow, Edge
<1>6. TypeOK'
  BY <1>2 DEF IInv, TypeOK
<1>7. /\ \A e \in follows' : e \in late => e \in late'
      /\ \A q \in requests' : q.id \in late => q.id \in late'
      /\ \A q \in requests' : \A w \in User : <<w, q.id>> \in consent => <<w, q.id>> \in consent'
  BY <1>2, <1>3, <1>5
<1>8. QED
  BY <1>2, <1>6, <1>7, RowsDropped DEF IInv

\* At the commit all that is left between the two is marked.
LEMMA CommitBlockStep ==
  ASSUME IInv, NEW r \in Request, CommitBlock(r)
  PROVE  IInv'
<1>1. PICK u, v, f, g : u = req[r].user /\ v = req[r].target /\ f = req[r].follows /\ g = req[r].ids
  OBVIOUS
<1>2. /\ req[r].pc = "record"
      /\ follows' = follows \ f
      /\ requests' = {q \in requests : q.id \notin g}
      /\ blocks' = blocks \cup {<<u, v>>}
      /\ late' = late \ (f \cup g)
      /\ consent' = {c \in consent : c[2] \notin g}
      /\ Goto(r, Idle)
      /\ UNCHANGED <<mutes, crossed>>
  BY <1>1 DEF CommitBlock, Forget
<1>3. u \in User /\ v \in User /\ f \subseteq FollowRow /\ g \subseteq Id
  BY <1>1, <1>2, HandlerFields DEF IInv, TypeOK
<1>4. req'[r] = Idle /\ (\A q \in Request \ {r} : req'[q] = req[q]) /\ req' \in [Request -> Handler]
  BY <1>2, GotoReq, HandlerShapes DEF IInv, TypeOK
<1>5. /\ \A e \in follows' : e \in follows /\ (e \in late => e \in late')
      /\ \A q \in requests' : q \in requests /\ (q.id \in late => q.id \in late')
  <2>1. \A e \in follows : e \notin g
    BY <1>3, SocialAssumption DEF IInv, TypeOK, FollowRow, Edge
  <2>2. \A q \in requests : q.id \notin f
    BY <1>3, SocialAssumption, RowFields DEF IInv, FollowRow, Edge
  <2>3. QED
    BY <1>2, <2>1, <2>2
<1>6. \A q \in requests' : \A w \in User : <<w, q.id>> \in consent => <<w, q.id>> \in consent'
  BY <1>2
<1>7. FollowsSwept(req[r]) /\ RequestsSwept(req[r])
  BY DEF IInv, HandlersOK
<1>8. TypeOK'
  <2>1. <<u, v>> \in BlockRow
    BY <1>1, <1>2, <1>3, <1>7 DEF FollowsSwept, BlockRow, Edge
  <2>2. QED
    BY <1>2, <1>4, <2>1 DEF IInv, TypeOK
<1>9. HandlersOK'
  <2> SUFFICES ASSUME NEW q \in Request
               PROVE  (AskOK(req[q]) /\ AnswerOK(req[q])
                        /\ FollowsSwept(req[q]) /\ RequestsSwept(req[q]))'
    BY DEF HandlersOK
  <2>1. CASE q = r
    BY <1>4, <2>1, HandlerShapes DEF AskOK, AnswerOK, FollowsSwept, RequestsSwept
  <2>2. CASE q # r
    <3>1. /\ AskOK(req[q]) /\ AnswerOK(req[q]) /\ FollowsSwept(req[q]) /\ RequestsSwept(req[q])
          /\ req'[q] = req[q]
      BY <1>4, <2>2 DEF IInv, HandlersOK
    <3>2. req[q].pc = "accept" => req[q].user \in User
      BY HandlerFields DEF IInv, TypeOK
    <3>3. AnswerOK(req[q])'
      BY <1>5, <1>6, <3>1, <3>2 DEF AnswerOK
    <3>4. (AskOK(req[q]) /\ FollowsSwept(req[q]) /\ RequestsSwept(req[q]))'
      BY <1>2, <1>5, <3>1 DEF AskOK, FollowsSwept, RequestsSwept
    <3>5. QED
      BY <3>3, <3>4
  <2>3. QED
    BY <2>1, <2>2
<1>10. CrossingsKnown'
  BY <1>2, <1>4, HandlerShapes DEF IInv, CrossingsKnown, Crosses
<1>11. OnePerPair'
  BY <1>2, <1>5 DEF IInv, OnePerPair
<1>12. RowsConsented'
  <2>1. \A q \in requests : q.requester \in User /\ q.addressee \in User
    BY RowFields DEF IInv
  <2>2. QED
    BY <1>5, <1>6, <2>1 DEF IInv, RowsConsented
<1>13. FollowsSevered'
  <2> SUFFICES ASSUME NEW b \in blocks', NEW e \in follows', e \in Between(b[1], b[2])
               PROVE  e \in late'
    BY DEF FollowsSevered
  <2>1. CASE b \in blocks
    BY <1>5, <2>1 DEF IInv, FollowsSevered
  <2>2. CASE b = <<u, v>>
    <3>1. e \in late \/ e \in f
      BY <1>1, <1>2, <1>5, <1>7, <2>2 DEF FollowsSwept
    <3>2. QED
      BY <1>2, <1>5, <3>1
  <2>3. QED
    BY <1>2, <2>1, <2>2
<1>14. RequestsSevered'
  <2> SUFFICES ASSUME NEW b \in blocks', NEW q \in requests',
                      <<q.requester, q.addressee>> \in Between(b[1], b[2])
               PROVE  q.id \in late'
    BY DEF RequestsSevered
  <2>1. CASE b \in blocks
    BY <1>5, <2>1 DEF IInv, RequestsSevered
  <2>2. CASE b = <<u, v>>
    <3>1. q.id \in late \/ q.id \in g
      BY <1>1, <1>2, <1>5, <1>7, <2>2 DEF RequestsSwept
    <3>2. QED
      BY <1>2, <1>5, <3>1
  <2>3. QED
    BY <1>2, <2>1, <2>2
<1>15. QED
  BY <1>8, <1>9, <1>10, <1>11, <1>12, <1>13, <1>14 DEF IInv

\* A request that crosses another is one of a pair that is known to have crossed.
LEMMA CreateRequestStep ==
  ASSUME IInv, NEW r \in Request, NEW id \in Id, CreateRequest(r, id)
  PROVE  IInv'
<1>1. PICK u, v : u = req[r].user /\ v = req[r].target
  OBVIOUS
<1>2. PICK new : new = [id |-> id, requester |-> u, addressee |-> v, status |-> "pending"]
  OBVIOUS
<1>3. /\ req[r].pc = "create"
      /\ Free(id)
      /\ \A q \in requests : <<q.requester, q.addressee>> # <<u, v>>
      /\ requests' = requests \cup {new}
      /\ consent' = consent \cup {<<u, id>>}
      /\ Mark(id, u, v)
      /\ Goto(r, Idle)
      /\ UNCHANGED <<follows, blocks, mutes, crossed>>
  BY <1>1, <1>2 DEF CreateRequest
<1>4. new.id = id /\ new.requester = u /\ new.addressee = v /\ new.status = "pending"
  BY <1>2
<1>5. u \in User /\ v \in User
  BY <1>1, <1>3, HandlerFields DEF IInv, TypeOK
<1>6. req'[r] = Idle /\ (\A q \in Request \ {r} : req'[q] = req[q]) /\ req' \in [Request -> Handler]
  BY <1>3, GotoReq, HandlerShapes DEF IInv, TypeOK
<1>7. late \subseteq late' /\ late' \subseteq late \cup {id} /\ (UnderBlock(u, v) => id \in late')
  BY <1>3 DEF Mark
<1>8. TypeOK'
  <2>1. new \in FriendRequest
    BY <1>2, <1>5 DEF FriendRequest
  <2>2. \A q \in requests : q.id # id
    BY <1>3 DEF Free
  <2>3. \A p, q \in requests' :
          p.id = q.id \/ <<p.requester, p.addressee>> = <<q.requester, q.addressee>> => p = q
    BY <1>3, <1>4, <2>2 DEF IInv, TypeOK
  <2>4. requests' \subseteq FriendRequest
    BY <1>3, <2>1 DEF IInv, TypeOK
  <2>5. consent' \subseteq User \X Id /\ late' \subseteq Edge \cup Id
    BY <1>3, <1>5, <1>7 DEF IInv, TypeOK
  <2>6. QED
    BY <1>3, <1>6, <2>3, <2>4, <2>5 DEF IInv, TypeOK
<1>9. HandlersOK'
  <2> SUFFICES ASSUME NEW q \in Request
               PROVE  (AskOK(req[q]) /\ AnswerOK(req[q])
                        /\ FollowsSwept(req[q]) /\ RequestsSwept(req[q]))'
    BY DEF HandlersOK
  <2>1. CASE q = r
    BY <1>6, <2>1, HandlerShapes DEF AskOK, AnswerOK, FollowsSwept, RequestsSwept
  <2>2. CASE q # r
    <3>1. /\ AskOK(req[q]) /\ AnswerOK(req[q]) /\ FollowsSwept(req[q]) /\ RequestsSwept(req[q])
          /\ req'[q] = req[q]
      BY <1>6, <2>2 DEF IInv, HandlersOK
    <3>2. AskOK(req[q])'
      <4>1. req[q].pc = "create" /\ u = req[q].target /\ v = req[q].user
              => {req[q].user, req[q].target} \in crossed
        BY <1>1, <1>3 DEF IInv, CrossingsKnown, Crosses
      <4>2. QED
        BY <1>3, <1>4, <3>1, <4>1 DEF AskOK
    <3>3. AnswerOK(req[q])'
      <4>1. req[q].pc = "accept" => req[q].id # id
        BY <1>3 DEF Free
      <4>2. QED
        BY <1>3, <1>4, <3>1, <4>1 DEF AnswerOK
    <3>4. FollowsSwept(req[q])'
      BY <1>3, <1>7, <3>1 DEF FollowsSwept
    <3>5. RequestsSwept(req[q])'
      <4>1. req[q].pc = "record" /\ <<u, v>> \in Between(req[q].user, req[q].target) => id \in late'
        BY <1>7 DEF UnderBlock, Between
      <4>2. QED
        BY <1>3, <1>4, <1>7, <3>1, <4>1 DEF RequestsSwept
    <3>6. QED
      BY <3>2, <3>3, <3>4, <3>5
  <2>3. QED
    BY <2>1, <2>2
<1>10. CrossingsKnown'
  BY <1>3, <1>6, HandlerShapes DEF IInv, CrossingsKnown, Crosses
<1>11. OnePerPair'
  <2>1. \A q \in requests : q.requester = v /\ q.addressee = u => {u, v} \in crossed
    BY <1>1, <1>3 DEF IInv, HandlersOK, AskOK
  <2>2. {u, v} = {v, u}
    OBVIOUS
  <2> SUFFICES ASSUME NEW p \in requests', NEW q \in requests',
                      <<p.requester, p.addressee>> \in Between(q.requester, q.addressee)
               PROVE  p = q \/ {p.requester, p.addressee} \in crossed
    BY <1>3 DEF OnePerPair
  <2>3. CASE p \in requests /\ q \in requests
    BY <2>3 DEF IInv, OnePerPair
  <2>4. CASE p = new /\ q \in requests
    BY <1>3, <1>4, <2>1, <2>4 DEF Between
  <2>5. CASE p \in requests /\ q = new
    BY <1>3, <1>4, <2>1, <2>2, <2>5 DEF Between
  <2>6. QED
    BY <1>3, <2>3, <2>4, <2>5
<1>12. RowsConsented'
  BY <1>3, <1>4 DEF IInv, RowsConsented
<1>13. FollowsSevered'
  BY <1>3, <1>7 DEF IInv, FollowsSevered
<1>14. RequestsSevered'
  <2> SUFFICES ASSUME NEW b \in blocks, NEW q \in requests',
                      <<q.requester, q.addressee>> \in Between(b[1], b[2])
               PROVE  q.id \in late'
    BY <1>3 DEF RequestsSevered
  <2>1. CASE q \in requests
    BY <1>7, <2>1 DEF IInv, RequestsSevered
  <2>2. CASE q = new
    <3>1. b = <<b[1], b[2]>>
      BY DEF IInv, TypeOK, BlockRow, Edge
    <3>2. b \in Between(u, v)
      BY <1>4, <2>2, <3>1 DEF Between
    <3>3. QED
      BY <1>4, <1>7, <2>2, <3>2 DEF UnderBlock
  <2>3. QED
    BY <1>3, <2>1, <2>2
<1>15. QED
  BY <1>8, <1>9, <1>10, <1>11, <1>12, <1>13, <1>14 DEF IInv

\* The update changes the row that was read, or none.
LEMMA AcceptRowStep ==
  ASSUME IInv, NEW r \in Request, AcceptRow(r)
  PROVE  IInv'
<1>1. PICK hit : hit = {q \in requests : q.id = req[r].id}
  OBVIOUS
<1>2. /\ req[r].pc = "accept"
      /\ requests' = (requests \ hit) \cup {[q EXCEPT !.status = "accepted"] : q \in hit}
      /\ Goto(r, Idle)
      /\ UNCHANGED <<follows, blocks, mutes, crossed, consent, late>>
  BY <1>1 DEF AcceptRow, history
<1>3. req'[r] = Idle /\ (\A q \in Request \ {r} : req'[q] = req[q]) /\ req' \in [Request -> Handler]
  BY <1>2, GotoReq, HandlerShapes DEF IInv, TypeOK
\* Every row after is a row before but for its status, and an accepted one has its consent.
<1>4. \A q \in requests' : \E p \in requests :
        /\ p.id = q.id /\ p.requester = q.requester /\ p.addressee = q.addressee
        /\ q \in FriendRequest
        /\ q.status = "accepted" => <<q.addressee, q.id>> \in consent
        /\ q = p \/ (p \in hit /\ q = [p EXCEPT !.status = "accepted"])
  <2> SUFFICES ASSUME NEW q \in requests'
               PROVE  \E p \in requests :
                 /\ p.id = q.id /\ p.requester = q.requester /\ p.addressee = q.addressee
                 /\ q \in FriendRequest
                 /\ q.status = "accepted" => <<q.addressee, q.id>> \in consent
                 /\ q = p \/ (p \in hit /\ q = [p EXCEPT !.status = "accepted"])
    OBVIOUS
  <2>1. CASE q \in requests
    BY <2>1 DEF IInv, TypeOK, RowsConsented
  <2>2. CASE q \notin requests
    <3>1. PICK p \in hit : q = [p EXCEPT !.status = "accepted"]
      BY <1>2, <2>2
    <3>2. p \in requests /\ p \in FriendRequest /\ p.id = req[r].id
      BY <1>1 DEF IInv, TypeOK
    <3>3. /\ q.id = p.id /\ q.requester = p.requester /\ q.addressee = p.addressee
          /\ q \in FriendRequest
      BY <3>1, <3>2 DEF FriendRequest
    <3>4. p.addressee = req[r].user /\ <<req[r].user, req[r].id>> \in consent
      BY <1>2, <3>2 DEF IInv, HandlersOK, AnswerOK
    <3>5. QED
      BY <3>1, <3>2, <3>3, <3>4
  <2>3. QED
    BY <2>1, <2>2
<1>5. \A p, q \in requests' :
        p.id = q.id \/ <<p.requester, p.addressee>> = <<q.requester, q.addressee>> => p = q
  <2> SUFFICES ASSUME NEW p \in requests', NEW q \in requests',
                      p.id = q.id \/ <<p.requester, p.addressee>> = <<q.requester, q.addressee>>
               PROVE  p = q
    OBVIOUS
  <2>1. PICK pp \in requests :
          /\ pp.id = p.id /\ pp.requester = p.requester /\ pp.addressee = p.addressee
          /\ p = pp \/ (pp \in hit /\ p = [pp EXCEPT !.status = "accepted"])
    BY <1>4
  <2>2. PICK qq \in requests :
          /\ qq.id = q.id /\ qq.requester = q.requester /\ qq.addressee = q.addressee
          /\ q = qq \/ (qq \in hit /\ q = [qq EXCEPT !.status = "accepted"])
    BY <1>4
  <2>3. pp = qq
    BY <2>1, <2>2 DEF IInv, TypeOK
  <2>4. \A h \in hit : h \notin requests' \/ h = [h EXCEPT !.status = "accepted"]
    <3> SUFFICES ASSUME NEW h \in hit, h \in requests' PROVE h = [h EXCEPT !.status = "accepted"]
      OBVIOUS
    <3>1. PICK g \in hit : h = [g EXCEPT !.status = "accepted"]
      BY <1>2
    <3>2. g \in FriendRequest
      BY <1>1 DEF IInv, TypeOK
    <3>3. QED
      BY <3>1, <3>2 DEF FriendRequest
  <2>5. QED
    BY <2>1, <2>2, <2>3, <2>4
<1>6. TypeOK'
  <2>1. requests' \subseteq FriendRequest
    BY <1>4
  <2>2. QED
    BY <1>2, <1>3, <1>5, <2>1 DEF IInv, TypeOK
<1>7. HandlersOK'
  <2> SUFFICES ASSUME NEW q \in Request
               PROVE  (AskOK(req[q]) /\ AnswerOK(req[q])
                        /\ FollowsSwept(req[q]) /\ RequestsSwept(req[q]))'
    BY DEF HandlersOK
  <2>1. CASE q = r
    BY <1>3, <2>1, HandlerShapes DEF AskOK, AnswerOK, FollowsSwept, RequestsSwept
  <2>2. CASE q # r
    <3>1. /\ AskOK(req[q]) /\ AnswerOK(req[q]) /\ FollowsSwept(req[q]) /\ RequestsSwept(req[q])
          /\ req'[q] = req[q]
      BY <1>3, <2>2 DEF IInv, HandlersOK
    <3>2. AskOK(req[q])'
      <4> SUFFICES ASSUME req[q].pc = "create", NEW x \in requests',
                          x.requester = req[q].target, x.addressee = req[q].user
                   PROVE  {req[q].user, req[q].target} \in crossed
        BY <1>2, <3>1 DEF AskOK
      <4>1. PICK p \in requests : p.requester = x.requester /\ p.addressee = x.addressee
        BY <1>4
      <4>2. QED
        BY <3>1, <4>1 DEF AskOK
    <3>3. AnswerOK(req[q])'
      <4> SUFFICES ASSUME req[q].pc = "accept", NEW x \in requests', x.id = req[q].id
                   PROVE  x.addressee = req[q].user /\ <<req[q].user, req[q].id>> \in consent
        BY <1>2, <3>1 DEF AnswerOK
      <4>1. PICK p \in requests : p.id = x.id /\ p.addressee = x.addressee
        BY <1>4
      <4>2. QED
        BY <3>1, <4>1 DEF AnswerOK
    <3>4. FollowsSwept(req[q])'
      BY <1>2, <3>1 DEF FollowsSwept
    <3>5. RequestsSwept(req[q])'
      BY <1>2, <1>4, <3>1 DEF RequestsSwept
    <3>6. QED
      BY <3>2, <3>3, <3>4, <3>5
  <2>3. QED
    BY <2>1, <2>2
<1>8. CrossingsKnown'
  BY <1>2, <1>3, HandlerShapes DEF IInv, CrossingsKnown, Crosses
<1>9. OnePerPair'
  <2> SUFFICES ASSUME NEW p \in requests', NEW q \in requests',
                      <<p.requester, p.addressee>> \in Between(q.requester, q.addressee)
               PROVE  p = q \/ {p.requester, p.addressee} \in crossed
    BY <1>2 DEF OnePerPair
  <2>1. PICK pp \in requests :
          pp.id = p.id /\ pp.requester = p.requester /\ pp.addressee = p.addressee
    BY <1>4
  <2>2. PICK qq \in requests :
          qq.id = q.id /\ qq.requester = q.requester /\ qq.addressee = q.addressee
    BY <1>4
  <2>3. pp = qq \/ {p.requester, p.addressee} \in crossed
    BY <2>1, <2>2 DEF IInv, OnePerPair
  <2>4. QED
    BY <1>5, <2>1, <2>2, <2>3
<1>10. RowsConsented'
  BY <1>2, <1>4 DEF IInv, RowsConsented
<1>11. FollowsSevered' /\ RequestsSevered'
  <2>1. FollowsSevered'
    BY <1>2 DEF IInv, FollowsSevered
  <2>2. RequestsSevered'
    BY <1>2, <1>4 DEF IInv, RequestsSevered
  <2>3. QED
    BY <2>1, <2>2
<1>12. QED
  BY <1>6, <1>7, <1>8, <1>9, <1>10, <1>11 DEF IInv

--------------------------------------------------------------------------------
(* Theorems *)

LEMMA InitIInv == Init => IInv
<1> SUFFICES ASSUME Init PROVE IInv
  OBVIOUS
<1>1. TypeOK
  BY HandlerShapes DEF Init, TypeOK
<1>2. HandlersOK /\ CrossingsKnown
  BY IdleOK, HandlerShapes DEF Init, HandlersOK, CrossingsKnown, Crosses
<1>3. OnePerPair /\ RowsConsented /\ FollowsSevered /\ RequestsSevered
  BY DEF Init, OnePerPair, RowsConsented, FollowsSevered, RequestsSevered
<1>4. QED
  BY <1>1, <1>2, <1>3 DEF IInv

LEMMA StutterIInv == IInv /\ UNCHANGED vars => IInv'
<1> SUFFICES ASSUME IInv, UNCHANGED vars PROVE IInv'
  OBVIOUS
<1>1. UNCHANGED <<follows, requests, blocks, mutes, req, crossed, consent, late>>
  BY DEF vars, history
<1>2. TypeOK'
  BY <1>1 DEF IInv, TypeOK
<1>3. QED
  BY <1>1, <1>2, RowsDropped DEF IInv

LEMMA NextIInv == IInv /\ [Next]_vars => IInv'
<1> SUFFICES ASSUME IInv, [Next]_vars PROVE IInv'
  OBVIOUS
<1>1. ASSUME NEW u \in User, NEW v \in User, AtOnce(u, v) PROVE IInv'
  BY <1>1, FollowStep, UnfollowStep, MuteUnmuteStep, UnblockStep, RemoveFriendStep DEF AtOnce
<1>2. ASSUME NEW r \in Request, NEW u \in User, NEW v \in User, Begin(r, u, v) PROVE IInv'
  BY <1>2, SendStep, AcceptStep, BlockFollowsStep DEF Begin
<1>3. ASSUME NEW r \in Request, Continue(r) PROVE IInv'
  BY <1>3, CreateRequestStep, AcceptRowStep, BlockRequestsStep, CommitBlockStep, AbortStep
     DEF Continue
<1>4. QED
  BY <1>1, <1>2, <1>3, StutterIInv DEF Next

LEMMA Inductive == Spec => []IInv
BY InitIInv, NextIInv, PTL DEF Spec

\* The directed pair stays a key of every table, and the id one of the requests.
THEOREM TypeCorrect == Spec => []TypeOK
<1>1. IInv => TypeOK
  BY DEF IInv
<1>2. QED
  BY <1>1, Inductive, PTL

\* What one of two users sees of the other mirrors what the other sees, but for a
\* pair that asked each other at the same time.
THEOREM OneStandingHolds == Spec => []OneStanding
<1>1. IInv => OneStanding
  <2> SUFFICES ASSUME IInv, NEW u \in User, NEW v \in User, u # v, {u, v} \notin crossed
               PROVE  \/ FriendStatus(u, v) = {"none"} /\ FriendStatus(v, u) = {"none"}
                      \/ FriendStatus(u, v) = {"friends"} /\ FriendStatus(v, u) = {"friends"}
                      \/ FriendStatus(u, v) = {"outgoing"} /\ FriendStatus(v, u) = {"incoming"}
                      \/ FriendStatus(u, v) = {"incoming"} /\ FriendStatus(v, u) = {"outgoing"}
    BY DEF OneStanding
  <2>1. Rows(u, v) = Rows(v, u)
    BY DEF Rows, Between
  <2>2. CASE Rows(u, v) = {}
    BY <2>1, <2>2 DEF FriendStatus
  <2>3. CASE Rows(u, v) # {}
    <3>1. PICK q : q \in Rows(u, v)
      BY <2>3
    <3>2. q \in requests /\ <<q.requester, q.addressee>> \in Between(u, v)
      BY <3>1 DEF Rows
    <3>3. \A p \in Rows(u, v) : p = q
      <4> SUFFICES ASSUME NEW p \in Rows(u, v) PROVE p = q
        OBVIOUS
      <4>1. p \in requests /\ <<p.requester, p.addressee>> \in Between(u, v)
        BY DEF Rows
      <4>2. <<p.requester, p.addressee>> \in Between(q.requester, q.addressee)
        BY <3>2, <4>1 DEF Between
      <4>3. {p.requester, p.addressee} = {u, v}
        BY <4>1 DEF Between
      <4>4. QED
        BY <3>2, <4>1, <4>2, <4>3 DEF IInv, OnePerPair
    <3>4. Rows(u, v) = {q} /\ Rows(v, u) = {q}
      BY <2>1, <3>1, <3>3
    <3>5. FriendStatus(u, v) = {Status(u, q)} /\ FriendStatus(v, u) = {Status(v, q)}
      BY <3>4 DEF FriendStatus
    <3>6. q.requester = u \/ q.requester = v
      BY <3>2 DEF Between
    <3>7. \/ Status(u, q) = "friends" /\ Status(v, q) = "friends"
          \/ Status(u, q) = "outgoing" /\ Status(v, q) = "incoming"
          \/ Status(u, q) = "incoming" /\ Status(v, q) = "outgoing"
      BY <3>6 DEF Status
    <3>8. QED
      BY <3>5, <3>7
  <2>4. QED
    BY <2>2, <2>3
<1>2. QED
  BY <1>1, Inductive, PTL

\* Friends asked or answered the very request that makes them friends.
THEOREM ConsentHolds == Spec => []Consent
<1>1. IInv => Consent
  BY DEF IInv, RowsConsented, Consent, Friends
<1>2. QED
  BY <1>1, Inductive, PTL

\* What is left between a blocker and the one they block was asked for later.
THEOREM BlockSeversHolds == Spec => []BlockSevers
<1>1. IInv => BlockSevers
  <2> SUFFICES ASSUME IInv, NEW u \in User, NEW v \in User, <<u, v>> \in blocks
               PROVE  /\ <<u, v>> \in follows => <<u, v>> \in late
                      /\ <<v, u>> \in follows => <<v, u>> \in late
                      /\ \A q \in Rows(u, v) : q.id \in late
    BY DEF BlockSevers, ViewerState
  <2>1. \A e \in follows : e \in Between(u, v) => e \in late
    BY DEF IInv, FollowsSevered
  <2>2. \A q \in Rows(u, v) : q.id \in late
    BY DEF IInv, RequestsSevered, Rows
  <2>3. QED
    BY <2>1, <2>2 DEF Between
<1>2. QED
  BY <1>1, Inductive, PTL

--------------------------------------------------------------------------------
(* What blocks hold until they commit *)

Severs(h) == h.pc \in {"unfriend", "record"}

\* The rows a block has deleted are of its pair, and are there until it commits.
Holds(h) ==
  /\ Severs(h) => h.follows \subseteq Between(h.user, h.target) \cap follows
  /\ h.pc = "record" => \A id \in h.ids : \E q \in Rows(h.user, h.target) : q.id = id

\* No two blocks have deleted the same row.
Apart(g, h) ==
  /\ Severs(g) /\ Severs(h) => g.follows \cap h.follows = {}
  /\ g.pc = "record" /\ h.pc = "record" => g.ids \cap h.ids = {}

Held ==
  /\ \A r \in Request : Holds(req[r])
  /\ \A r, s \in Request : r # s => Apart(req[r], req[s])

\* The rows that h has deleted outlast this step; an answer may change their status.
Outlast(h) ==
  /\ Severs(h) => follows \cap h.follows \subseteq follows'
  /\ h.pc = "record" =>
       \A q \in requests : q.id \in h.ids =>
         \E p \in requests' :
           p.id = q.id /\ p.requester = q.requester /\ p.addressee = q.addressee

LEMMA HoldsOn ==
  ASSUME NEW h, Holds(h), Outlast(h)
  PROVE  Holds(h)'
<1>1. Severs(h) => h.follows \subseteq Between(h.user, h.target) \cap follows'
  BY DEF Holds, Outlast
<1>2. ASSUME h.pc = "record", NEW id \in h.ids
      PROVE  \E q \in Rows(h.user, h.target)' : q.id = id
  <2>1. PICK q \in Rows(h.user, h.target) : q.id = id
    BY <1>2 DEF Holds
  <2>2. PICK p \in requests' :
          p.id = q.id /\ p.requester = q.requester /\ p.addressee = q.addressee
    BY <1>2, <2>1 DEF Outlast, Rows
  <2>3. p \in Rows(h.user, h.target)'
    BY <2>1, <2>2 DEF Rows
  <2>4. QED
    BY <2>1, <2>2, <2>3
<1>3. QED
  BY <1>1, <1>2 DEF Holds, Severs

LEMMA HeldStays ==
  ASSUME Held, req' = req, \A s \in Request : Outlast(req[s])
  PROVE  Held'
<1>1. ASSUME NEW s \in Request PROVE Holds(req[s])'
  <2>1. PICK h : h = req[s]
    OBVIOUS
  <2>2. Holds(h)'
    BY <2>1, HoldsOn DEF Held
  <2>3. h = req'[s]
    BY <2>1
  <2>4. QED
    BY <2>2, <2>3 DEF Holds, Severs, Rows, Between
<1>2. QED
  BY <1>1 DEF Held, Apart, Severs

LEMMA HeldMoves ==
  ASSUME Held, req \in [Request -> Handler], NEW r \in Request, NEW h \in Handler, Goto(r, h),
         Holds(h)',
         \A s \in Request \ {r} : Outlast(req[s]) /\ Apart(h, req[s])
  PROVE  Held'
<1>1. req'[r] = h /\ \A s \in Request \ {r} : req'[s] = req[s]
  BY GotoReq
<1>2. ASSUME NEW s \in Request PROVE Holds(req[s])'
  <2>1. CASE s = r
    BY <1>1, <2>1 DEF Holds, Severs, Rows, Between
  <2>2. CASE s # r
    <3>1. PICK g : g = req[s]
      OBVIOUS
    <3>2. Holds(g)'
      BY <2>2, <3>1, HoldsOn DEF Held
    <3>3. g = req'[s]
      BY <1>1, <2>2, <3>1
    <3>4. QED
      BY <3>2, <3>3 DEF Holds, Severs, Rows, Between
  <2>3. QED
    BY <2>1, <2>2
<1>3. ASSUME NEW p \in Request, NEW s \in Request, p # s PROVE Apart(req[p], req[s])'
  <2>1. CASE p # r /\ s # r
    BY <1>1, <1>3, <2>1 DEF Held, Apart, Severs
  <2>2. CASE p = r
    BY <1>1, <1>3, <2>2 DEF Apart, Severs
  <2>3. CASE s = r
    BY <1>1, <1>3, <2>3 DEF Apart, Severs
  <2>4. QED
    BY <2>1, <2>2, <2>3
<1>4. QED
  BY <1>2, <1>3 DEF Held

\* A handler that makes no block holds nothing.
LEMMA HoldsNothing ==
  ASSUME NEW h, ~Severs(h)
  PROVE  Holds(h)' /\ \A g : Apart(h, g)
BY DEF Holds, Apart, Severs

LEMMA HeldAtOnce ==
  ASSUME IInv, Held, NEW u \in User, NEW v \in User, AtOnce(u, v)
  PROVE  Held'
<1>1. req' = req
  BY DEF AtOnce, Follow, Unfollow, Mute, Unmute, Unblock, RemoveFriend
<1>2. ASSUME NEW s \in Request PROVE Outlast(req[s])
  <2>1. CASE Follow(u, v) \/ Mute(u, v) \/ Unmute(u, v) \/ Unblock(u, v)
    <3>1. requests' = requests /\ follows \subseteq follows'
      BY <2>1 DEF Follow, Mute, Unmute, Unblock
    <3>2. QED
      BY <3>1 DEF Outlast
  <2>2. CASE Unfollow(u, v)
    BY <2>2 DEF Unfollow, Outlast, Severs
  <2>3. CASE RemoveFriend(u, v)
    <3>1. follows' = follows /\ requests' = requests \ Rows(u, v)
      BY <2>3 DEF RemoveFriend
    <3>2. req[s].pc = "record" => \A q \in Rows(u, v) : q.id \notin req[s].ids
      BY <2>3 DEF RemoveFriend
    <3>3. QED
      BY <3>1, <3>2 DEF Outlast
  <2>4. QED
    BY <2>1, <2>2, <2>3 DEF AtOnce
<1>3. QED
  BY <1>1, <1>2, HeldStays

LEMMA HeldBegin ==
  ASSUME IInv, Held, NEW r \in Request, NEW u \in User, NEW v \in User, Begin(r, u, v)
  PROVE  Held'
<1>1. UNCHANGED <<follows, requests>>
  BY DEF Begin, Send, Accept, BlockFollows
<1>2. \A s \in Request : Outlast(req[s])
  BY <1>1 DEF Outlast
<1>3. req \in [Request -> Handler]
  BY DEF IInv, TypeOK
<1>4. CASE Send(r, u, v) \/ Accept(r, u, v)
  <2>1. PICK h \in Handler : Goto(r, h) /\ h.pc \in {"create", "accept"}
    <3>1. \A q \in requests : q.id \in Id
      BY RowFields DEF IInv
    <3>2. CASE Goto(r, [pc |-> "create", user |-> u, target |-> v])
      BY <3>2, HandlerShapes
    <3>3. ASSUME NEW q \in requests,
                 Goto(r, [pc |-> "accept", user |-> u, target |-> v, id |-> q.id])
          PROVE  \E h \in Handler : Goto(r, h) /\ h.pc \in {"create", "accept"}
      BY <3>1, <3>3, HandlerShapes
    <3>4. QED
      BY <1>4, <3>2, <3>3 DEF Send, Accept, Rows, Incoming
  <2>2. ~Severs(h)
    BY <2>1 DEF Severs
  <2>3. QED
    BY <1>2, <1>3, <2>1, <2>2, HoldsNothing, HeldMoves
<1>5. CASE BlockFollows(r, u, v)
  <2> DEFINE gone == Between(u, v) \cap follows
  <2>1. PICK h : h = [pc |-> "unfriend", user |-> u, target |-> v, follows |-> gone]
    OBVIOUS
  <2>2. Goto(r, h) /\ gone \cap FollowsHeld(r) = {}
    BY <1>5, <2>1 DEF BlockFollows
  <2>3. h.pc = "unfriend" /\ h.user = u /\ h.target = v /\ h.follows = gone
    BY <2>1
  <2>4. gone \subseteq FollowRow
    BY DEF IInv, TypeOK
  <2>5. h \in Handler
    BY <2>1, <2>4, HandlerShapes
  <2>6. Holds(h)'
    BY <1>1, <2>3 DEF Holds
  <2>7. ASSUME NEW s \in Request \ {r} PROVE Apart(h, req[s])
    <3>1. Severs(req[s]) => req[s].follows \subseteq FollowsHeld(r)
      BY DEF FollowsHeld, Severs
    <3>2. QED
      BY <2>2, <2>3, <3>1 DEF Apart
  <2>8. QED
    BY <1>2, <1>3, <2>2, <2>5, <2>6, <2>7, HeldMoves
<1>6. QED
  BY <1>4, <1>5 DEF Begin

LEMMA HeldContinue ==
  ASSUME IInv, Held, NEW r \in Request, Continue(r)
  PROVE  Held'
<1>1. req \in [Request -> Handler] /\ Idle \in Handler /\ ~Severs(Idle)
  BY HandlerShapes DEF IInv, TypeOK, Severs
<1>2. CASE BlockRequests(r)
  <2> DEFINE u == req[r].user
             v == req[r].target
             f == req[r].follows
             gone == {q.id : q \in Rows(u, v)}
  <2>1. PICK h : h = [pc |-> "record", user |-> u, target |-> v, follows |-> f, ids |-> gone]
    OBVIOUS
  <2>2. /\ Goto(r, h) /\ req[r].pc = "unfriend" /\ gone \cap IdsHeld(r) = {}
        /\ UNCHANGED <<follows, requests>>
    BY <1>2, <2>1 DEF BlockRequests
  <2>3. h.pc = "record" /\ h.user = u /\ h.target = v /\ h.follows = f /\ h.ids = gone
    BY <2>1
  <2>4. u \in User /\ v \in User /\ f \subseteq FollowRow /\ gone \subseteq Id
    BY <1>1, <2>2, HandlerFields, RowFields DEF Rows, IInv
  <2>5. h \in Handler
    BY <2>1, <2>4, HandlerShapes
  <2>6. f \subseteq Between(u, v) \cap follows
    BY <2>2 DEF Held, Holds, Severs
  <2>7. Holds(h)'
    <3>1. h.follows \subseteq Between(h.user, h.target) \cap follows'
      BY <2>2, <2>3, <2>6
    <3>2. Rows(h.user, h.target)' = Rows(u, v)
      BY <2>2, <2>3 DEF Rows
    <3>3. \A id \in h.ids : \E q \in Rows(h.user, h.target)' : q.id = id
      BY <2>3, <3>2
    <3>4. QED
      BY <3>1, <3>3 DEF Holds
  <2>8. ASSUME NEW s \in Request \ {r} PROVE Outlast(req[s]) /\ Apart(h, req[s])
    <3>1. req[s].pc = "record" => req[s].ids \subseteq IdsHeld(r)
      BY DEF IdsHeld
    <3>2. Severs(req[s]) => req[s].follows \cap f = {}
      BY <2>2 DEF Held, Apart, Severs
    <3>3. Apart(h, req[s])
      BY <2>2, <2>3, <3>1, <3>2 DEF Apart
    <3>4. Outlast(req[s])
      BY <2>2 DEF Outlast
    <3>5. QED
      BY <3>3, <3>4
  <2>9. QED
    BY <1>1, <2>2, <2>5, <2>7, <2>8, HeldMoves
<1>3. ASSUME Goto(r, Idle), \A s \in Request \ {r} : Outlast(req[s]) PROVE Held'
  BY <1>1, <1>3, HoldsNothing, HeldMoves
<1>4. CASE Abort(r)
  <2>1. Goto(r, Idle) /\ UNCHANGED <<follows, requests>>
    BY <1>4 DEF Abort
  <2>2. QED
    BY <1>3, <2>1 DEF Outlast
<1>5. ASSUME NEW id \in Id, CreateRequest(r, id) PROVE Held'
  <2>1. Goto(r, Idle) /\ follows' = follows /\ requests \subseteq requests'
    BY <1>5 DEF CreateRequest
  <2>2. QED
    BY <1>3, <2>1 DEF Outlast
<1>6. CASE AcceptRow(r)
  <2> DEFINE hit == {q \in requests : q.id = req[r].id}
  <2>1. /\ Goto(r, Idle) /\ follows' = follows
        /\ requests' = (requests \ hit) \cup {[q EXCEPT !.status = "accepted"] : q \in hit}
    BY <1>6 DEF AcceptRow
  <2>2. \A q \in requests : \E p \in requests' :
          p.id = q.id /\ p.requester = q.requester /\ p.addressee = q.addressee
    <3> SUFFICES ASSUME NEW q \in requests
                 PROVE  \E p \in requests' :
                          p.id = q.id /\ p.requester = q.requester /\ p.addressee = q.addressee
      OBVIOUS
    <3>1. PICK p : p = [q EXCEPT !.status = "accepted"]
      OBVIOUS
    <3>2. q \in FriendRequest
      BY DEF IInv, TypeOK
    <3>3. p.id = q.id /\ p.requester = q.requester /\ p.addressee = q.addressee
      BY <3>1, <3>2 DEF FriendRequest
    <3>4. q \in requests' \/ p \in requests'
      BY <2>1, <3>1
    <3>5. QED
      BY <3>3, <3>4
  <2>3. QED
    BY <1>3, <2>1, <2>2 DEF Outlast
<1>7. CASE CommitBlock(r)
  <2>1. /\ Goto(r, Idle) /\ req[r].pc = "record"
        /\ follows' = follows \ req[r].follows
        /\ requests' = {q \in requests : q.id \notin req[r].ids}
    BY <1>7 DEF CommitBlock
  <2>2. ASSUME NEW s \in Request \ {r} PROVE Outlast(req[s])
    <3>1. Apart(req[r], req[s])
      BY DEF Held
    <3>2. QED
      BY <2>1, <3>1 DEF Outlast, Apart, Severs
  <2>3. QED
    BY <1>3, <2>1, <2>2
<1>8. QED
  BY <1>2, <1>4, <1>5, <1>6, <1>7 DEF Continue

LEMMA HeldNext == IInv /\ Held /\ [Next]_vars => Held'
<1> SUFFICES ASSUME IInv, Held, [Next]_vars PROVE Held'
  OBVIOUS
<1>1. CASE UNCHANGED vars
  <2>1. req' = req /\ UNCHANGED <<follows, requests>>
    BY <1>1 DEF vars
  <2>2. QED
    BY <2>1, HeldStays DEF Outlast
<1>2. QED
  BY <1>1, HeldAtOnce, HeldBegin, HeldContinue DEF Next

\* Nobody asks themselves.
AsksOther ==
  /\ \A r \in Request : req[r].pc = "create" => req[r].user # req[r].target
  /\ \A q \in requests : q.requester # q.addressee

LEMMA AsksOtherNext ==
  ASSUME IInv, AsksOther, [Next]_vars
  PROVE  AsksOther'
<1>1. req \in [Request -> Handler] /\ Idle \in Handler /\ Idle.pc = "idle"
  BY HandlerShapes DEF IInv, TypeOK
<1>2. ASSUME NEW r \in Request, NEW h, Goto(r, h), h.pc = "create" => h.user # h.target,
             \A q \in requests' : q.requester # q.addressee
      PROVE  AsksOther'
  BY <1>1, <1>2 DEF AsksOther, Goto
<1>3. CASE UNCHANGED vars
  BY <1>3 DEF AsksOther, vars
<1>4. ASSUME NEW u \in User, NEW v \in User, AtOnce(u, v) PROVE AsksOther'
  <2>1. req' = req /\ requests' \subseteq requests
    BY <1>4 DEF AtOnce, Follow, Unfollow, Mute, Unmute, Unblock, RemoveFriend
  <2>2. QED
    BY <2>1 DEF AsksOther
<1>5. ASSUME NEW r \in Request, NEW u \in User, NEW v \in User, Begin(r, u, v) PROVE AsksOther'
  <2>1. \A q \in requests' : q.requester # q.addressee
    BY <1>5 DEF Begin, Send, Accept, BlockFollows, AsksOther
  <2>2. ASSUME NEW q, Goto(r, [pc |-> "accept", user |-> u, target |-> v, id |-> q.id])
        PROVE  AsksOther'
    BY <1>2, <2>1, <2>2
  <2>3. CASE Send(r, u, v)
    <3>1. CASE Goto(r, [pc |-> "create", user |-> u, target |-> v])
      <4>1. u # v
        BY <2>3 DEF Send, Edge
      <4>2. QED
        BY <1>2, <2>1, <3>1, <4>1
    <3>2. QED
      BY <2>2, <2>3, <3>1 DEF Send
  <2>4. CASE Accept(r, u, v)
    BY <2>2, <2>4 DEF Accept
  <2>5. CASE BlockFollows(r, u, v)
    BY <1>2, <2>1, <2>5 DEF BlockFollows
  <2>6. QED
    BY <1>5, <2>3, <2>4, <2>5 DEF Begin
<1>6. ASSUME NEW r \in Request, Continue(r) PROVE AsksOther'
  <2>1. ASSUME NEW id \in Id, CreateRequest(r, id) PROVE AsksOther'
    <3>1. req[r].user # req[r].target
      BY <2>1 DEF CreateRequest, AsksOther
    <3>2. PICK new :
            new = [id |-> id, requester |-> req[r].user, addressee |-> req[r].target,
                   status |-> "pending"]
      OBVIOUS
    <3>3. requests' = requests \cup {new} /\ Goto(r, Idle)
      BY <2>1, <3>2 DEF CreateRequest
    <3>4. \A q \in requests' : q.requester # q.addressee
      BY <3>1, <3>2, <3>3 DEF AsksOther
    <3>5. QED
      BY <1>1, <1>2, <3>3, <3>4
  <2>2. CASE AcceptRow(r)
    <3>1. ASSUME NEW q \in requests' PROVE q.requester # q.addressee
      <4>1. q \in requests \/ \E p \in requests : q = [p EXCEPT !.status = "accepted"]
        BY <2>2 DEF AcceptRow
      <4>2. \A p \in requests : p \in FriendRequest
        BY DEF IInv, TypeOK
      <4>3. QED
        BY <4>1, <4>2 DEF AsksOther, FriendRequest
    <3>2. Goto(r, Idle)
      BY <2>2 DEF AcceptRow
    <3>3. QED
      BY <1>1, <1>2, <3>1, <3>2
  <2>3. CASE BlockRequests(r)
    BY <1>2, <2>3 DEF BlockRequests, AsksOther
  <2>4. CASE CommitBlock(r) \/ Abort(r)
    <3>1. Goto(r, Idle) /\ requests' \subseteq requests
      BY <2>4 DEF CommitBlock, Abort
    <3>2. QED
      BY <1>1, <1>2, <3>1 DEF AsksOther
  <2>5. QED
    BY <1>6, <2>1, <2>2, <2>3, <2>4 DEF Continue
<1>7. QED
  BY <1>3, <1>4, <1>5, <1>6 DEF Next

--------------------------------------------------------------------------------
(* Refinement of module Acquaintance *)

\* An answer on its way, and a block in the making, seen from outside, as one
\* handler moves.
LEMMA AnsweredMoves ==
  ASSUME req \in [Request -> Handler], NEW r \in Request, NEW h \in Handler, Goto(r, h)
  PROVE  /\ req[r].pc # "accept" /\ h.pc # "accept" => answered' = answered
         /\ req[r].pc # "accept" /\ h.pc = "accept" =>
              answered' = answered \cup {<<h.user, h.id>>}
         /\ req[r].pc = "accept" /\ h.pc # "accept" =>
              /\ <<req[r].user, req[r].id>> \in answered
              /\ answered' \in {answered, answered \ {<<req[r].user, req[r].id>>}}
<1>1. req'[r] = h /\ \A s \in Request \ {r} : req'[s] = req[s]
  BY GotoReq
<1>2. \A x : x \in answered <=>
        \E s \in Request : req[s].pc = "accept" /\ x = <<req[s].user, req[s].id>>
  BY DEF answered
<1>3. \A x : x \in answered' <=>
        \E s \in Request : req'[s].pc = "accept" /\ x = <<req'[s].user, req'[s].id>>
  BY DEF answered
<1>4. CASE req[r].pc # "accept" /\ h.pc # "accept"
  <2>1. \A x : x \in answered' <=> x \in answered
    BY <1>1, <1>2, <1>3, <1>4
  <2>2. answered' = answered
    BY <2>1
  <2>3. QED
    BY <1>4, <2>2
<1>5. CASE req[r].pc # "accept" /\ h.pc = "accept"
  <2>1. \A x : x \in answered' <=> x \in answered \/ x = <<h.user, h.id>>
    BY <1>1, <1>2, <1>3, <1>5
  <2>2. QED
    BY <1>5, <2>1
<1>6. CASE req[r].pc = "accept" /\ h.pc # "accept"
  <2>1. PICK a : a = <<req[r].user, req[r].id>>
    OBVIOUS
  <2>2. a \in answered
    BY <1>2, <1>6, <2>1
  <2>3. \A x : x \in answered' => x \in answered
    BY <1>1, <1>2, <1>3, <1>6
  <2>4. \A x : x \in answered /\ x # a => x \in answered'
    BY <1>1, <1>2, <1>3, <1>6, <2>1
  <2>5. answered' = answered \/ answered' = answered \ {a}
    BY <2>3, <2>4
  <2>6. QED
    BY <1>6, <2>1, <2>2, <2>5
<1>7. QED
  BY <1>4, <1>5, <1>6

LEMMA SeveringMoves ==
  ASSUME req \in [Request -> Handler], NEW r \in Request, NEW h \in Handler, Goto(r, h)
  PROVE  /\ ~Severs(req[r]) /\ ~Severs(h) => severing' = severing
         /\ ~Severs(req[r]) /\ Severs(h) => severing' = severing \cup {<<h.user, h.target>>}
         /\ Severs(req[r]) /\ Severs(h) /\ h.user = req[r].user /\ h.target = req[r].target =>
              severing' = severing
         /\ Severs(req[r]) /\ ~Severs(h) =>
              /\ <<req[r].user, req[r].target>> \in severing
              /\ severing' \in {severing, severing \ {<<req[r].user, req[r].target>>}}
<1>1. req'[r] = h /\ \A s \in Request \ {r} : req'[s] = req[s]
  BY GotoReq
<1>2. PICK e : e = <<req[r].user, req[r].target>>
  OBVIOUS
<1>3. \A x : x \in severing <=>
        \E s \in Request : Severs(req[s]) /\ x = <<req[s].user, req[s].target>>
  BY DEF severing, Severs
<1>4. \A x : x \in severing' <=>
        \E s \in Request : Severs(req'[s]) /\ x = <<req'[s].user, req'[s].target>>
  BY DEF severing, Severs
<1>5. CASE ~Severs(req[r]) /\ ~Severs(h)
  <2>1. \A x : x \in severing' <=> x \in severing
    BY <1>1, <1>3, <1>4, <1>5
  <2>2. severing' = severing
    BY <2>1
  <2>3. QED
    BY <1>5, <2>2
<1>6. CASE ~Severs(req[r]) /\ Severs(h)
  <2>1. \A x : x \in severing' <=> x \in severing \/ x = <<h.user, h.target>>
    BY <1>1, <1>3, <1>4, <1>6
  <2>2. QED
    BY <1>6, <2>1
<1>7. CASE Severs(req[r]) /\ Severs(h) /\ h.user = req[r].user /\ h.target = req[r].target
  <2>1. \A s \in Request :
          Severs(req'[s]) = Severs(req[s])
            /\ (Severs(req[s]) =>
                  <<req'[s].user, req'[s].target>> = <<req[s].user, req[s].target>>)
    BY <1>1, <1>7 DEF Severs
  <2>2. \A x : x \in severing' <=> x \in severing
    BY <1>3, <1>4, <2>1
  <2>3. severing' = severing
    BY <2>2
  <2>4. QED
    BY <1>7, <2>3
<1>8. CASE Severs(req[r]) /\ ~Severs(h)
  <2>1. e \in severing
    BY <1>2, <1>3, <1>8
  <2>2. \A x : x \in severing' => x \in severing
    BY <1>1, <1>3, <1>4, <1>8
  <2>3. \A x : x \in severing /\ x # e => x \in severing'
    BY <1>1, <1>2, <1>3, <1>4, <1>8
  <2>4. severing' = severing \/ severing' = severing \ {e}
    BY <2>2, <2>3
  <2>5. QED
    BY <1>2, <1>8, <2>1, <2>4
<1>9. QED
  BY <1>5, <1>6, <1>7, <1>8

\* What was asked for under a block, and so marked, is what Acquaintance notes.
LEMMA MarkNotes ==
  ASSUME NEW x, NEW u, NEW v, Mark(x, u, v)
  PROVE  AcquaintanceView!Note(x, u, v)
<1>1. UnderBlock(u, v) <=> Between(u, v) \cap (blocks \cup severing) # {}
  BY DEF UnderBlock, severing
<1>2. QED
  BY <1>1 DEF Mark, AcquaintanceView!Note, AcquaintanceView!Between, Between

LEMMA SeesSame ==
  ASSUME UNCHANGED <<follows, requests, blocks, late, req>>
  PROVE  UNCHANGED AcquaintanceView!vars
BY DEF AcquaintanceView!vars, answered, severing

LEMMA AtOncePromised ==
  ASSUME NEW u \in User, NEW v \in User, u # v, AtOnce(u, v)
  PROVE  AcquaintanceView!OfPair(u, v) \/ UNCHANGED AcquaintanceView!vars
<1>1. req' = req /\ answered' = answered /\ severing' = severing
  <2>1. req' = req
    BY DEF AtOnce, Follow, Unfollow, Mute, Unmute, Unblock, RemoveFriend
  <2>2. QED
    BY <2>1 DEF answered, severing
<1>2. CASE Follow(u, v)
  <2>1. AcquaintanceView!Follow(u, v)
    BY <1>1, <1>2, MarkNotes DEF Follow, AcquaintanceView!Follow
  <2>2. QED
    BY <2>1 DEF AcquaintanceView!OfPair
<1>3. CASE Unfollow(u, v)
  <2>1. AcquaintanceView!Unfollow(u, v)
    BY <1>1, <1>3 DEF Unfollow, Forget, AcquaintanceView!Unfollow
  <2>2. QED
    BY <2>1 DEF AcquaintanceView!OfPair
<1>4. CASE Mute(u, v) \/ Unmute(u, v)
  BY <1>4, SeesSame DEF Mute, Unmute, history
<1>5. CASE Unblock(u, v)
  <2>1. AcquaintanceView!Unblock(u, v)
    BY <1>1, <1>5 DEF Unblock, AcquaintanceView!Unblock, history
  <2>2. QED
    BY <2>1 DEF AcquaintanceView!OfPair
<1>6. CASE RemoveFriend(u, v)
  <2>1. AcquaintanceView!Part(u, v)
    BY <1>1, <1>6 DEF RemoveFriend, Forget, Rows, Between, AcquaintanceView!Part,
       AcquaintanceView!Rows, AcquaintanceView!Between, AcquaintanceView!Keys
  <2>2. QED
    BY <2>1 DEF AcquaintanceView!OfPair
<1>7. QED
  BY <1>2, <1>3, <1>4, <1>5, <1>6 DEF AtOnce

\* An answer sets out from a request that is pending.
LEMMA AnswerPromised ==
  ASSUME IInv, NEW r \in Request, NEW u \in User, NEW v \in User, NEW q \in requests,
         req[r] = Idle, q.status = "pending", q.addressee = u,
         Goto(r, [pc |-> "accept", user |-> u, target |-> v, id |-> q.id]),
         UNCHANGED <<follows, requests, blocks, late>>
  PROVE  AcquaintanceView!Answer(q)
<1>1. PICK h : h = [pc |-> "accept", user |-> u, target |-> v, id |-> q.id]
  OBVIOUS
<1>2. q.id \in Id
  BY RowFields DEF IInv
<1>3. h \in Handler /\ h.pc = "accept" /\ h.user = q.addressee /\ h.id = q.id
  BY <1>1, <1>2, HandlerShapes
<1>4. req[r].pc = "idle" /\ ~Severs(req[r]) /\ ~Severs(h)
  BY <1>3, HandlerShapes DEF Severs
<1>5. req \in [Request -> Handler] /\ Goto(r, h)
  BY <1>1 DEF IInv, TypeOK
<1>6. answered' = answered \cup {<<q.addressee, q.id>>}
  BY <1>3, <1>4, <1>5, AnsweredMoves
<1>7. severing' = severing
  BY <1>3, <1>4, <1>5, SeveringMoves
<1>8. QED
  BY <1>6, <1>7 DEF AcquaintanceView!Answer

LEMMA BeginPromised ==
  ASSUME IInv, NEW r \in Request, NEW u \in User, NEW v \in User, Begin(r, u, v)
  PROVE  \/ \E q \in requests : AcquaintanceView!Answer(q)
         \/ u # v /\ AcquaintanceView!BeginBlock(u, v)
         \/ UNCHANGED AcquaintanceView!vars
<1>1. /\ req[r] = Idle /\ req[r].pc = "idle" /\ ~Severs(req[r])
      /\ req \in [Request -> Handler]
      /\ UNCHANGED <<follows, requests, blocks, late>>
  BY HandlerShapes DEF Begin, Send, Accept, BlockFollows, history, Severs, IInv, TypeOK
<1>2. CASE Goto(r, [pc |-> "create", user |-> u, target |-> v])
  <2>1. PICK h : h = [pc |-> "create", user |-> u, target |-> v]
    OBVIOUS
  <2>2. h \in Handler /\ h.pc = "create" /\ ~Severs(h)
    BY <2>1, HandlerShapes DEF Severs
  <2>3. answered' = answered
    BY <1>1, <1>2, <2>1, <2>2, AnsweredMoves
  <2>4. severing' = severing
    BY <1>1, <1>2, <2>1, <2>2, SeveringMoves
  <2>5. QED
    BY <1>1, <2>3, <2>4 DEF AcquaintanceView!vars
<1>3. ASSUME NEW q \in requests, q.status = "pending", q.addressee = u,
             Goto(r, [pc |-> "accept", user |-> u, target |-> v, id |-> q.id])
      PROVE  \E p \in requests : AcquaintanceView!Answer(p)
  BY <1>1, <1>3, AnswerPromised
<1>4. CASE BlockFollows(r, u, v)
  <2> DEFINE gone == Between(u, v) \cap follows
  <2>1. PICK h : h = [pc |-> "unfriend", user |-> u, target |-> v, follows |-> gone]
    OBVIOUS
  <2>2. gone \subseteq FollowRow
    BY DEF IInv, TypeOK
  <2>3. h \in Handler
    BY <2>1, <2>2, HandlerShapes
  <2>4. h.pc = "unfriend" /\ h.user = u /\ h.target = v /\ Severs(h)
    BY <2>1 DEF Severs
  <2>5. Goto(r, h) /\ u # v
    BY <1>4, <2>1 DEF BlockFollows, Edge
  <2>6. answered' = answered
    BY <1>1, <2>3, <2>4, <2>5, AnsweredMoves
  <2>7. severing' = severing \cup {<<u, v>>}
    BY <1>1, <2>3, <2>4, <2>5, SeveringMoves
  <2>8. QED
    BY <1>1, <2>5, <2>6, <2>7 DEF AcquaintanceView!BeginBlock
<1>5. QED
  BY <1>2, <1>3, <1>4 DEF Begin, Send, Accept, Rows, Incoming

\* A handler that ends leaves an answer behind, or a block, or neither.
LEMMA EndsSeen ==
  ASSUME IInv, NEW r \in Request, Goto(r, Idle)
  PROVE  /\ req[r].pc # "accept" => answered' = answered
         /\ req[r].pc = "accept" => AcquaintanceView!Arrives(<<req[r].user, req[r].id>>)
         /\ ~Severs(req[r]) => severing' = severing
         /\ Severs(req[r]) => AcquaintanceView!Settled(req[r].user, req[r].target)
<1>1. req \in [Request -> Handler] /\ Idle \in Handler /\ Idle.pc # "accept" /\ ~Severs(Idle)
  BY HandlerShapes DEF IInv, TypeOK, Severs
<1>2. /\ req[r].pc # "accept" => answered' = answered
      /\ req[r].pc = "accept" => AcquaintanceView!Arrives(<<req[r].user, req[r].id>>)
  BY <1>1, AnsweredMoves DEF AcquaintanceView!Arrives
<1>3. /\ ~Severs(req[r]) => severing' = severing
      /\ Severs(req[r]) => AcquaintanceView!Settled(req[r].user, req[r].target)
  BY <1>1, SeveringMoves DEF AcquaintanceView!Settled
<1>4. QED
  BY <1>2, <1>3

LEMMA CreateRequestPromised ==
  ASSUME IInv, AsksOther, NEW r \in Request, NEW id \in Id, CreateRequest(r, id)
  PROVE  \E u, v \in User : u # v /\ AcquaintanceView!Ask(u, v, id)
<1>1. PICK u, v : u = req[r].user /\ v = req[r].target
  OBVIOUS
<1>2. /\ req[r].pc = "create" /\ Free(id) /\ Mark(id, u, v) /\ Goto(r, Idle)
      /\ \A q \in requests : <<q.requester, q.addressee>> # <<u, v>>
      /\ requests' =
           requests \cup {[id |-> id, requester |-> u, addressee |-> v, status |-> "pending"]}
      /\ UNCHANGED <<follows, blocks>>
  BY <1>1 DEF CreateRequest
<1>3. u \in User /\ v \in User /\ u # v
  BY <1>1, <1>2, HandlerFields DEF IInv, TypeOK, AsksOther
<1>4. answered' = answered /\ severing' = severing
  BY <1>2, EndsSeen DEF Severs
<1>5. (\A q \in requests : q.id # id) /\ (\A a \in answered : a[2] # id)
  BY <1>2 DEF Free, answered
<1>6. AcquaintanceView!Note(id, u, v)
  BY <1>2, MarkNotes
<1>7. AcquaintanceView!Ask(u, v, id)
  BY <1>2, <1>4, <1>5, <1>6 DEF AcquaintanceView!Ask
<1>8. QED
  BY <1>3, <1>7

\* The update finds the one row that was answered, or none.
LEMMA AcceptRowPromised ==
  ASSUME IInv, NEW r \in Request, AcceptRow(r)
  PROVE  \/ \E q \in requests : AcquaintanceView!Befriend(q)
         \/ \E a \in answered : AcquaintanceView!GiveUp(a)
<1>1. PICK u, id, hit : u = req[r].user /\ id = req[r].id /\ hit = {q \in requests : q.id = id}
  OBVIOUS
<1>2. /\ req[r].pc = "accept" /\ Goto(r, Idle)
      /\ requests' = (requests \ hit) \cup {[q EXCEPT !.status = "accepted"] : q \in hit}
      /\ UNCHANGED <<follows, blocks, late>>
  BY <1>1 DEF AcceptRow, history
<1>3. AcquaintanceView!Arrives(<<u, id>>) /\ severing' = severing
  BY <1>1, <1>2, EndsSeen DEF Severs
<1>4. <<u, id>> \in answered
  BY <1>3 DEF AcquaintanceView!Arrives
<1>5. CASE hit = {}
  <2>1. requests' = requests
    BY <1>2, <1>5
  <2>2. AcquaintanceView!GiveUp(<<u, id>>)
    BY <1>2, <1>3, <2>1 DEF AcquaintanceView!GiveUp
  <2>3. QED
    BY <1>4, <2>2
<1>6. ASSUME NEW q \in hit PROVE AcquaintanceView!Befriend(q) /\ q \in requests
  <2>1. q \in requests /\ q.id = id
    BY <1>1
  <2>2. hit = {q}
    BY <1>1, <2>1 DEF IInv, TypeOK
  <2>3. requests' = (requests \ {q}) \cup {[q EXCEPT !.status = "accepted"]}
    BY <1>2, <2>2
  <2>4. q.addressee = u
    BY <1>1, <1>2, <2>1 DEF IInv, HandlersOK, AnswerOK
  <2>5. QED
    BY <1>2, <1>3, <2>1, <2>3, <2>4 DEF AcquaintanceView!Befriend
<1>7. QED
  BY <1>5, <1>6

\* What a block has not deleted when it commits is marked; what it has is of its pair.
LEMMA CommitBlockPromised ==
  ASSUME IInv, Held, NEW r \in Request, CommitBlock(r)
  PROVE  \E u, v \in User : u # v /\ AcquaintanceView!Block(u, v)
<1>1. PICK u, v, f, g : u = req[r].user /\ v = req[r].target /\ f = req[r].follows /\ g = req[r].ids
  OBVIOUS
<1>2. /\ req[r].pc = "record" /\ Severs(req[r]) /\ Goto(r, Idle)
      /\ follows' = follows \ f
      /\ requests' = {q \in requests : q.id \notin g}
      /\ blocks' = blocks \cup {<<u, v>>}
      /\ late' = late \ (f \cup g)
  BY <1>1 DEF CommitBlock, Forget, Severs
<1>3. u \in User /\ v \in User
  BY <1>1, <1>2, HandlerFields DEF IInv, TypeOK
<1>4. FollowsSwept(req[r]) /\ RequestsSwept(req[r]) /\ Holds(req[r])
  BY DEF IInv, HandlersOK, Held
<1>5. u # v
  BY <1>1, <1>2, <1>4 DEF FollowsSwept
<1>6. AcquaintanceView!Settled(u, v) /\ answered' = answered
  BY <1>1, <1>2, EndsSeen
<1>7. PICK parted : parted = {q \in requests : q.id \in g}
  OBVIOUS
<1>8. Rows(u, v) = AcquaintanceView!Rows(u, v) /\ Between(u, v) = AcquaintanceView!Between(u, v)
  BY DEF Rows, Between, AcquaintanceView!Rows, AcquaintanceView!Between
<1>9. f \subseteq Between(u, v) \cap follows
  BY <1>1, <1>2, <1>4 DEF Holds
<1>10. \A id \in g : \E q \in Rows(u, v) : q.id = id
  BY <1>1, <1>2, <1>4 DEF Holds
<1>11. parted \subseteq Rows(u, v)
  <2> SUFFICES ASSUME NEW q \in parted PROVE q \in Rows(u, v)
    OBVIOUS
  <2>1. PICK p \in Rows(u, v) : p.id = q.id
    BY <1>7, <1>10
  <2>2. p = q
    BY <1>7, <2>1 DEF IInv, TypeOK, Rows
  <2>3. QED
    BY <2>1, <2>2
<1>12. g = {q.id : q \in parted}
  BY <1>7, <1>10 DEF Rows
<1>13. (Between(u, v) \cap follows) \ f \subseteq late
  BY <1>1, <1>2, <1>4 DEF FollowsSwept
<1>14. {q.id : q \in Rows(u, v) \ parted} \subseteq late
  BY <1>1, <1>2, <1>4, <1>7 DEF RequestsSwept, Rows
<1>15. requests' = requests \ parted
  BY <1>2, <1>7
<1>16. AcquaintanceView!Block(u, v)
  <2>1. f \in SUBSET (AcquaintanceView!Between(u, v) \cap follows)
    BY <1>8, <1>9
  <2>2. parted \in SUBSET AcquaintanceView!Rows(u, v)
    BY <1>8, <1>11
  <2>3. (AcquaintanceView!Between(u, v) \cap follows) \ f \subseteq late
    BY <1>8, <1>13
  <2>4. AcquaintanceView!Keys(AcquaintanceView!Rows(u, v) \ parted) \subseteq late
    BY <1>8, <1>14 DEF AcquaintanceView!Keys
  <2>5. late' = late \ (f \cup AcquaintanceView!Keys(parted))
    BY <1>2, <1>12 DEF AcquaintanceView!Keys
  <2>6. QED
    BY <1>2, <1>6, <1>15, <2>1, <2>2, <2>3, <2>4, <2>5 DEF AcquaintanceView!Block
<1>17. QED
  BY <1>3, <1>5, <1>16

LEMMA BlockRequestsPromised ==
  ASSUME IInv, NEW r \in Request, BlockRequests(r)
  PROVE  UNCHANGED AcquaintanceView!vars
<1> DEFINE u == req[r].user
           v == req[r].target
           f == req[r].follows
           gone == {q.id : q \in Rows(u, v)}
<1>1. PICK h : h = [pc |-> "record", user |-> u, target |-> v, follows |-> f, ids |-> gone]
  OBVIOUS
<1>2. /\ Goto(r, h) /\ req[r].pc = "unfriend" /\ Severs(req[r])
      /\ UNCHANGED <<follows, requests, blocks, late>>
  BY <1>1 DEF BlockRequests, history, Severs
<1>3. gone \subseteq Id
  BY RowFields DEF Rows, IInv
<1>4. h \in Handler
  <2>1. u \in User /\ v \in User /\ f \subseteq FollowRow
    BY <1>2, HandlerFields DEF IInv, TypeOK
  <2>2. QED
    BY <1>1, <1>3, <2>1, HandlerShapes
<1>5. h.pc = "record" /\ h.user = u /\ h.target = v /\ Severs(h)
  BY <1>1 DEF Severs
<1>6. req \in [Request -> Handler]
  BY DEF IInv, TypeOK
<1>7. answered' = answered
  BY <1>2, <1>4, <1>5, <1>6, AnsweredMoves
<1>8. severing' = severing
  BY <1>2, <1>4, <1>5, <1>6, SeveringMoves
<1>9. QED
  BY <1>2, <1>7, <1>8 DEF AcquaintanceView!vars

LEMMA AbortPromised ==
  ASSUME IInv, NEW r \in Request, Abort(r)
  PROVE  \/ \E a \in answered : AcquaintanceView!GiveUp(a)
         \/ \E u, v \in User : u # v /\ AcquaintanceView!DropBlock(u, v)
         \/ UNCHANGED AcquaintanceView!vars
<1>1. Goto(r, Idle) /\ UNCHANGED <<follows, requests, blocks, late>>
  BY DEF Abort, history
<1>2. CASE req[r].pc = "accept"
  <2>1. <<req[r].user, req[r].id>> \in answered /\ ~Severs(req[r])
    BY <1>2 DEF answered, Severs
  <2>2. AcquaintanceView!GiveUp(<<req[r].user, req[r].id>>)
    BY <1>1, <1>2, <2>1, EndsSeen DEF AcquaintanceView!GiveUp
  <2>3. QED
    BY <2>1, <2>2
<1>3. CASE Severs(req[r])
  <2>1. /\ req[r].user \in User /\ req[r].target \in User /\ req[r].user # req[r].target
        /\ req[r].pc # "accept"
    BY <1>3, HandlerFields DEF IInv, TypeOK, Severs, HandlersOK, FollowsSwept
  <2>2. AcquaintanceView!DropBlock(req[r].user, req[r].target)
    BY <1>1, <1>3, <2>1, EndsSeen DEF AcquaintanceView!DropBlock
  <2>3. QED
    BY <2>1, <2>2
<1>4. CASE req[r].pc # "accept" /\ ~Severs(req[r])
  BY <1>1, <1>4, EndsSeen DEF AcquaintanceView!vars
<1>5. QED
  BY <1>2, <1>3, <1>4

\* Every step of SocialGraph is a step of Acquaintance, or none.
LEMMA StepKeepsPromise ==
  IInv /\ Held /\ AsksOther /\ [Next]_vars => [AcquaintanceView!Next]_(AcquaintanceView!vars)
<1> SUFFICES ASSUME IInv, Held, AsksOther, [Next]_vars
             PROVE  AcquaintanceView!Next \/ UNCHANGED AcquaintanceView!vars
  OBVIOUS
<1>1. ASSUME NEW u \in User, NEW v \in User, AtOnce(u, v)
      PROVE  AcquaintanceView!Next \/ UNCHANGED AcquaintanceView!vars
  <2>1. CASE u # v
    BY <1>1, <2>1, AtOncePromised DEF AcquaintanceView!Next
  <2>2. CASE u = v
    <3>1. <<u, v>> \notin Edge
      BY <2>2 DEF Edge
    <3>2. ~Follow(u, v) /\ ~Unfollow(u, v) /\ ~Unblock(u, v) /\ ~Mute(u, v) /\ ~Unmute(u, v)
      BY <3>1 DEF Follow, Unfollow, Unblock, Mute, Unmute, IInv, TypeOK, FollowRow, BlockRow,
         MuteRow
    <3>3. Rows(u, v) = {}
      BY <2>2 DEF AsksOther, Rows, Between
    <3>4. QED
      BY <1>1, <3>2, <3>3 DEF AtOnce, RemoveFriend
  <2>3. QED
    BY <2>1, <2>2
<1>2. ASSUME NEW r \in Request, NEW u \in User, NEW v \in User, Begin(r, u, v)
      PROVE  AcquaintanceView!Next \/ UNCHANGED AcquaintanceView!vars
  BY <1>2, BeginPromised DEF AcquaintanceView!Next, AcquaintanceView!OfPair
<1>3. ASSUME NEW r \in Request, Continue(r)
      PROVE  AcquaintanceView!Next \/ UNCHANGED AcquaintanceView!vars
  <2>1. ASSUME NEW id \in Id, CreateRequest(r, id) PROVE AcquaintanceView!Next
    BY <2>1, CreateRequestPromised DEF AcquaintanceView!Next, AcquaintanceView!OfPair
  <2>2. CASE AcceptRow(r)
    BY <2>2, AcceptRowPromised DEF AcquaintanceView!Next
  <2>3. CASE BlockRequests(r)
    BY <2>3, BlockRequestsPromised
  <2>4. CASE CommitBlock(r)
    BY <2>4, CommitBlockPromised DEF AcquaintanceView!Next, AcquaintanceView!OfPair
  <2>5. CASE Abort(r)
    BY <2>5, AbortPromised DEF AcquaintanceView!Next, AcquaintanceView!OfPair
  <2>6. QED
    BY <1>3, <2>1, <2>2, <2>3, <2>4, <2>5 DEF Continue
<1>4. CASE UNCHANGED vars
  BY <1>4, SeesSame DEF vars, history
<1>5. QED
  BY <1>1, <1>2, <1>3, <1>4 DEF Next

\* SocialGraph implements Acquaintance: friends are made of a request that stands and
\* that its addressee answered, and a block takes away all that stood between its two users
\* before it and nothing of anybody else, however handlers interleave
\* (sendFriendRequest, acceptFriendRequest, removeFriend, block), for any users and any
\* number of handlers in flight.
THEOREM ImplementsAcquaintance == Spec => AcquaintancePromise
<1>1. Init => Held /\ AsksOther /\ AcquaintanceView!Init
  BY HandlerShapes DEF Init, Held, Holds, Apart, Severs, AsksOther, AcquaintanceView!Init,
     answered, severing
<1>2. QED
  BY <1>1, InitIInv, NextIInv, HeldNext, AsksOtherNext, StepKeepsPromise,
     PTL DEF Spec, AcquaintancePromise, AcquaintanceView!Spec

================================================================================
