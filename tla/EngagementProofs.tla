--------------------------- MODULE EngagementProofs ---------------------------
(***************************************************************************)
(* Theorems about module Engagement, for every set of items, users and     *)
(* comments and any number of handlers in flight.                          *)
(*                                                                         *)
(* A transaction that dropped a reaction holds the item's row, so no two   *)
(* drop from the same item and what one dropped is still there for it to   *)
(* take off at the commit; an opposite that a transaction did not see was  *)
(* set by one it crossed. A reply rests on a comment that was a top-level  *)
(* one of its item when it was read, and no comment ever moves.            *)
(***************************************************************************)
EXTENDS Engagement, FiniteSetTheorems, TLAPS

Row(h, t) == <<h.user, h.item, t>>

\* What a transaction dropped is there until it commits.
DropOK(h) == h.pc = "insert" /\ h.dropped => Row(h, OPPOSITE[h.type]) \in engaged

\* An opposite a transaction did not drop is one it crossed.
SeenOK(h) ==
  h.pc = "insert" /\ ~h.dropped /\ Row(h, OPPOSITE[h.type]) \in engaged
    => <<h.user, h.item>> \in overlapped

\* A reply in flight has a top-level parent in its item.
ReplyOK(h) ==
  h.pc = "comment" /\ h.parent # NoComment =>
    /\ h.parent \in used
    /\ thread[h.parent].item = h.item
    /\ thread[h.parent].parent = NoComment

HandlersOK == \A r \in Request : DropOK(req[r]) /\ SeenOK(req[r]) /\ ReplyOK(req[r])

Locks(h, i) == h.pc = "insert" /\ h.item = i /\ h.dropped

LocksExclusive ==
  \A q \in Request : \A r \in Request : \A i \in Item :
    Locks(req[q], i) /\ Locks(req[r], i) => q = r

Crosses(g, h) ==
  /\ g.pc = "insert" /\ h.pc = "insert"
  /\ g.user = h.user /\ g.item = h.item
  /\ g.type = OPPOSITE[h.type]

CrossingsKnown ==
  \A q \in Request : \A r \in Request :
    Crosses(req[q], req[r]) => <<req[r].user, req[r].item>> \in overlapped

FreshUnliked == \A c \in Comment \ used : like_count[c] = 0

Rows(i, t) == {e \in engaged : e[2] = i /\ e[3] = t}
Likes(c) == {l \in liked : l[2] = c}
Under(i) == {c \in comments : thread[c].item = i}

ReactionsExact == \A i \in Item, t \in COUNTER_COLUMN : count[i][t] = Cardinality(Rows(i, t))
LikesExact == \A c \in comments : like_count[c] = Cardinality(Likes(c))

AllFinite == IsFiniteSet(engaged) /\ IsFiniteSet(comments) /\ IsFiniteSet(liked)

IInv ==
  /\ TypeOK
  /\ AllFinite
  /\ HandlersOK
  /\ LocksExclusive
  /\ CrossingsKnown
  /\ FreshUnliked
  /\ ReactionsExact
  /\ LikesExact
  /\ CommentsCounted
  /\ FlatThreads
  /\ LikeXorDislike

--------------------------------------------------------------------------------
(* Types *)

LEMMA HandlerFields ==
  ASSUME NEW h \in Handler
  PROVE  /\ h.pc \in {"idle", "react", "insert", "comment", "likeComment"}
         /\ h.pc = "react" =>
              h.item \in Item /\ h.user \in User /\ h.type \in Type /\ h.on \in BOOLEAN
         /\ h.pc = "insert" =>
              h.item \in Item /\ h.user \in User /\ h.type \in Exclusive /\ h.dropped \in BOOLEAN
         /\ h.pc = "comment" => h.item \in Item /\ h.parent \in Parent
         /\ h.pc = "likeComment" => h.user \in User /\ h.comment \in Comment
BY DEF Handler, Idle

LEMMA HandlerShapes ==
  /\ Idle \in Handler /\ Idle.pc = "idle"
  /\ \A i \in Item, u \in User, t \in Type, on \in BOOLEAN :
       [pc |-> "react", item |-> i, user |-> u, type |-> t, on |-> on] \in Handler
  /\ \A i \in Item, u \in User, t \in Exclusive, d \in BOOLEAN :
       [pc |-> "insert", item |-> i, user |-> u, type |-> t, dropped |-> d] \in Handler
  /\ \A i \in Item, p \in Parent : [pc |-> "comment", item |-> i, parent |-> p] \in Handler
  /\ \A u \in User, c \in Comment, on \in BOOLEAN :
       [pc |-> "likeComment", user |-> u, comment |-> c, on |-> on] \in Handler
BY DEF Handler, Idle

LEMMA GotoReq ==
  ASSUME req \in [Request -> Handler], NEW r \in Request, NEW h \in Handler, Goto(r, h)
  PROVE  /\ req' \in [Request -> Handler]
         /\ req'[r] = h
         /\ \A q \in Request \ {r} : req'[q] = req[q]
BY DEF Goto

LEMMA Opposites ==
  /\ Exclusive \subseteq Type /\ Exclusive \subseteq COUNTER_COLUMN
  /\ COUNTER_COLUMN \subseteq Type
  /\ \A t \in Exclusive :
       /\ OPPOSITE[t] \in Exclusive
       /\ OPPOSITE[t] # t
       /\ \A s \in COUNTER_COLUMN : t = OPPOSITE[s] <=> s = OPPOSITE[t]
  /\ \A t \in Type \ Exclusive : OPPOSITE[t] = "none"
BY DEF Exclusive, Type, COUNTER_COLUMN, OPPOSITE

--------------------------------------------------------------------------------
(* Handlers *)

\* A handler that is not inside a transaction with two steps rests on nothing
\* but, for a reply, its parent: it may replace any other.
LEMMA HandlerReplaced ==
  ASSUME IInv, NEW r \in Request, NEW h \in Handler, Goto(r, h), h.pc # "insert",
         UNCHANGED <<engaged, overlapped, used, thread>>,
         ReplyOK(h)
  PROVE  HandlersOK' /\ LocksExclusive' /\ CrossingsKnown'
<1> USE DEF IInv
<1>1. req'[r] = h /\ \A q \in Request \ {r} : req'[q] = req[q]
  BY GotoReq DEF TypeOK
<1>2. HandlersOK'
  <2> SUFFICES ASSUME NEW q \in Request
               PROVE  (DropOK(req[q]) /\ SeenOK(req[q]) /\ ReplyOK(req[q]))'
    BY DEF HandlersOK
  <2>1. CASE q = r
    BY <1>1, <2>1 DEF DropOK, SeenOK, ReplyOK
  <2>2. CASE q # r
    <3>1. DropOK(req[q]) /\ SeenOK(req[q]) /\ ReplyOK(req[q]) /\ req'[q] = req[q]
      BY <1>1, <2>2 DEF HandlersOK
    <3>2. QED
      BY <3>1 DEF DropOK, SeenOK, ReplyOK, Row
  <2>3. QED
    BY <2>1, <2>2
<1>3. LocksExclusive'
  BY <1>1 DEF LocksExclusive, Locks
<1>4. CrossingsKnown'
  BY <1>1 DEF CrossingsKnown, Crosses
<1>5. QED
  BY <1>2, <1>3, <1>4

\* An idle handler rests on nothing.
LEMMA IdleOK == ReplyOK(Idle)
BY DEF ReplyOK, Idle

--------------------------------------------------------------------------------
(* Steps *)

\* What a handler reads before its transaction disturbs no data.
LEMMA BeginStep ==
  ASSUME IInv, NEW r \in Request, NEW h \in Handler, Goto(r, h), h.pc # "insert", ReplyOK(h),
         UNCHANGED <<removed, reactions, discussion, overlapped, purged>>
  PROVE  IInv'
<1> USE DEF IInv, reactions, discussion
<1>1. TypeOK'
  <2>1. req' \in [Request -> Handler]
    BY GotoReq DEF TypeOK
  <2>2. QED
    BY <2>1 DEF TypeOK
<1>2. HandlersOK' /\ LocksExclusive' /\ CrossingsKnown'
  BY HandlerReplaced
<1>3. AllFinite' /\ FreshUnliked' /\ ReactionsExact' /\ LikesExact'
  BY DEF AllFinite, FreshUnliked, ReactionsExact, LikesExact, Rows, Likes
<1>4. CommentsCounted' /\ FlatThreads' /\ LikeXorDislike'
  BY DEF CommentsCounted, FlatThreads, LikeXorDislike
<1>5. QED
  BY <1>1, <1>2, <1>3, <1>4

LEMMA BeginToggleStep ==
  ASSUME IInv, NEW r \in Request, NEW u \in User, NEW i \in Item, NEW t \in Type,
         NEW on \in BOOLEAN, BeginToggle(r, u, i, t, on)
  PROVE  IInv'
<1> DEFINE h == [pc |-> "react", item |-> i, user |-> u, type |-> t, on |-> on]
<1>1. h \in Handler /\ h.pc = "react"
  BY HandlerShapes
<1>2. ReplyOK(h)
  BY DEF ReplyOK
<1>3. Goto(r, h) /\ UNCHANGED <<removed, reactions, discussion, overlapped, purged>>
  BY DEF BeginToggle
<1> HIDE DEF h
<1>4. QED
  BY <1>1, <1>2, <1>3, BeginStep

\* The parent a reply is given is at the top, whichever comment was replied to.
LEMMA BeginCommentStep ==
  ASSUME IInv, NEW r \in Request, NEW i \in Item, NEW parent \in Parent,
         BeginComment(r, i, parent)
  PROVE  IInv'
<1> DEFINE top == IF parent # NoComment /\ thread[parent].parent # NoComment
                  THEN thread[parent].parent
                  ELSE parent
           h == [pc |-> "comment", item |-> i, parent |-> top]
<1>1. parent # NoComment => parent \in comments /\ thread[parent].item = i
  BY DEF BeginComment
<1>2. top # NoComment =>
        top \in used /\ thread[top].item = i /\ thread[top].parent = NoComment
  BY <1>1 DEF IInv, FlatThreads, TypeOK
<1>3. top \in Parent
  BY <1>2 DEF Parent, IInv, TypeOK
<1>4. h \in Handler /\ h.pc = "comment"
  BY <1>3, HandlerShapes
<1>5. ReplyOK(h)
  BY <1>2 DEF ReplyOK
<1>6. Goto(r, h) /\ UNCHANGED <<removed, reactions, discussion, overlapped, purged>>
  BY DEF BeginComment
<1> HIDE DEF h
<1>7. QED
  BY <1>4, <1>5, <1>6, BeginStep

LEMMA BeginCommentLikeStep ==
  ASSUME IInv, NEW r \in Request, NEW u \in User, NEW c \in Comment, NEW on \in BOOLEAN,
         BeginCommentLike(r, u, c, on)
  PROVE  IInv'
<1> DEFINE h == [pc |-> "likeComment", user |-> u, comment |-> c, on |-> on]
<1>1. h \in Handler /\ h.pc = "likeComment"
  BY HandlerShapes
<1>2. ReplyOK(h)
  BY DEF ReplyOK
<1>3. Goto(r, h) /\ UNCHANGED <<removed, reactions, discussion, overlapped, purged>>
  BY DEF BeginCommentLike
<1> HIDE DEF h
<1>4. QED
  BY <1>1, <1>2, <1>3, BeginStep

LEMMA AbortStep ==
  ASSUME IInv, NEW r \in Request, Abort(r)
  PROVE  IInv'
<1>1. Goto(r, Idle) /\ UNCHANGED <<removed, reactions, discussion, overlapped, purged>>
  BY DEF Abort
<1>2. Idle \in Handler /\ Idle.pc # "insert"
  BY HandlerShapes
<1>3. QED
  BY <1>1, <1>2, IdleOK, BeginStep

\* A transaction that looks for the opposite: what it found it holds; one it
\* crosses is recorded.
LEMMA DropOppositeStep ==
  ASSUME IInv, NEW r \in Request, DropOpposite(r)
  PROVE  IInv'
<1> USE DEF IInv, reactions, discussion
<1> PICK i, u, t : i = req[r].item /\ u = req[r].user /\ t = req[r].type
  OBVIOUS
<1> DEFINE held == <<u, i, OPPOSITE[t]>> \in engaged
           h == [pc |-> "insert", item |-> i, user |-> u, type |-> t, dropped |-> held]
<1>1. /\ req[r].pc = "react" /\ t \in Exclusive
      /\ held => Unlocked(i, r)
      /\ Goto(r, h)
      /\ overlapped' = IF Crossing(r, u, i, t) THEN overlapped \cup {<<u, i>>} ELSE overlapped
      /\ UNCHANGED <<removed, reactions, discussion, purged>>
  BY DEF DropOpposite
<1>2. i \in Item /\ u \in User
  BY <1>1, HandlerFields DEF TypeOK
<1>3. h \in Handler
  <2>1. held \in BOOLEAN
    OBVIOUS
  <2> HIDE DEF held
  <2>2. QED
    BY <1>1, <1>2, <2>1, HandlerShapes
<1>4. h.pc = "insert" /\ h.item = i /\ h.user = u /\ h.type = t /\ h.dropped = held
  OBVIOUS
<1>5. /\ req' \in [Request -> Handler]
      /\ req'[r] = h /\ \A q \in Request \ {r} : req'[q] = req[q]
  BY <1>1, <1>3, GotoReq DEF TypeOK
<1> HIDE DEF h, held
<1>6. TypeOK'
  BY <1>1, <1>2, <1>5 DEF TypeOK
<1>7. overlapped \subseteq overlapped'
  BY <1>1
<1>8. HandlersOK'
  <2> SUFFICES ASSUME NEW q \in Request
               PROVE  (DropOK(req[q]) /\ SeenOK(req[q]) /\ ReplyOK(req[q]))'
    BY DEF HandlersOK
  <2>1. CASE q = r
    BY <1>1, <1>4, <1>5, <2>1 DEF DropOK, SeenOK, ReplyOK, Row, held
  <2>2. CASE q # r
    <3>1. DropOK(req[q]) /\ SeenOK(req[q]) /\ ReplyOK(req[q]) /\ req'[q] = req[q]
      BY <1>5, <2>2 DEF HandlersOK
    <3>2. QED
      BY <1>1, <1>7, <3>1 DEF DropOK, SeenOK, ReplyOK, Row
  <2>3. QED
    BY <2>1, <2>2
<1>9. LocksExclusive'
  <2> SUFFICES ASSUME NEW p \in Request, NEW q \in Request, NEW j \in Item,
                      Locks(req[p], j)', Locks(req[q], j)', p # q
               PROVE  FALSE
    BY DEF LocksExclusive
  <2>1. CASE p # r /\ q # r
    BY <1>5, <2>1 DEF LocksExclusive, Locks
  <2>2. \A s \in Request \ {r} : ~(Locks(req[r], j)' /\ Locks(req[s], j)')
    BY <1>1, <1>4, <1>5 DEF Locks, Unlocked, LockedBy
  <2>3. QED
    BY <2>1, <2>2
<1>10. CrossingsKnown'
  <2> SUFFICES ASSUME NEW p \in Request, NEW q \in Request, Crosses(req[p], req[q])'
               PROVE  <<req'[q].user, req'[q].item>> \in overlapped'
    BY DEF CrossingsKnown
  <2>1. CASE p # r /\ q # r
    BY <1>5, <1>7, <2>1 DEF CrossingsKnown, Crosses
  <2>2. CASE p = r /\ q = r
    BY <1>1, <1>4, <1>5, <2>2, Opposites DEF Crosses
  <2>3. CASE q = r /\ p # r
    <3>1. Crossing(r, u, i, t)
      BY <1>4, <1>5, <2>3 DEF Crossing, Crosses
    <3>2. QED
      BY <1>1, <1>4, <1>5, <2>3, <3>1
  <2>4. CASE p = r /\ q # r
    <3>1. req[q].pc = "insert" /\ req[q].user = u /\ req[q].item = i /\ t = OPPOSITE[req[q].type]
      BY <1>4, <1>5, <2>4 DEF Crosses
    <3>2. req[q].type \in Exclusive
      BY <3>1, HandlerFields DEF TypeOK
    <3>3. req[q].type = OPPOSITE[t]
      BY <1>1, <3>1, <3>2, Opposites
    <3>4. Crossing(r, u, i, t)
      BY <2>4, <3>1, <3>3 DEF Crossing
    <3>5. QED
      BY <1>1, <1>5, <2>4, <3>1, <3>4
  <2>5. QED
    BY <2>1, <2>2, <2>3, <2>4
<1>11. AllFinite' /\ FreshUnliked' /\ ReactionsExact' /\ LikesExact'
  BY <1>1 DEF AllFinite, FreshUnliked, ReactionsExact, LikesExact, Rows, Likes
<1>12. CommentsCounted' /\ FlatThreads' /\ LikeXorDislike'
  BY <1>1, <1>7 DEF CommentsCounted, FlatThreads, LikeXorDislike
<1>13. QED
  BY <1>6, <1>8, <1>9, <1>10, <1>11, <1>12

\* The insert and the commit of a reaction: each counter moves as its rows do.
LEMMA InsertStep ==
  ASSUME IInv, NEW r \in Request, NEW u \in User, NEW i \in Item, NEW t \in Type,
         NEW dropped \in BOOLEAN,
         InsertReaction(r, u, i, t, dropped),
         t \in Exclusive =>
           /\ req[r].pc = "insert" /\ req[r].user = u /\ req[r].item = i
           /\ req[r].type = t /\ req[r].dropped = dropped,
         t \notin Exclusive => ~dropped
  PROVE  IInv'
<1> USE DEF IInv, reactions, discussion
<1> DEFINE row == <<u, i, t>>
           opp == <<u, i, OPPOSITE[t]>>
<1>1. /\ dropped => Unlocked(i, r)
      /\ engaged' = {e \in engaged : ~(dropped /\ e = opp)} \cup {row}
      /\ count' = [count EXCEPT ![i] =
            [s \in COUNTER_COLUMN |-> @[s] + Delta(s, t, row \notin engaged, dropped)]]
      /\ Goto(r, Idle)
      /\ UNCHANGED <<removed, comments, thread, used, comment_count, liked, like_count,
                     overlapped, purged>>
  BY DEF InsertReaction
<1>2. /\ req' \in [Request -> Handler]
      /\ req'[r] = Idle /\ \A q \in Request \ {r} : req'[q] = req[q]
  BY <1>1, GotoReq, HandlerShapes DEF TypeOK
<1>3. dropped => t \in Exclusive /\ opp \in engaged
  BY DEF HandlersOK, DropOK, Row
<1>4. count \in [Item -> [COUNTER_COLUMN -> Int]]
  BY DEF TypeOK
<1>5. \A s \in COUNTER_COLUMN : Delta(s, t, row \notin engaged, dropped) \in Int
  BY DEF Delta
<1>6. /\ \A s \in COUNTER_COLUMN :
           count'[i][s] = count[i][s] + Delta(s, t, row \notin engaged, dropped)
      /\ \A j \in Item \ {i} : count'[j] = count[j]
  BY <1>1, <1>4
<1>7. TypeOK'
  <2>1. [s \in COUNTER_COLUMN |-> count[i][s] + Delta(s, t, row \notin engaged, dropped)]
          \in [COUNTER_COLUMN -> Int]
    BY <1>4, <1>5
  <2>2. count' \in [Item -> [COUNTER_COLUMN -> Int]]
    BY <1>1, <1>4, <2>1
  <2>3. engaged' \subseteq User \X Item \X Type
    BY <1>1 DEF TypeOK
  <2>4. QED
    BY <1>1, <1>2, <2>2, <2>3 DEF TypeOK
<1>8. HandlersOK'
  <2> SUFFICES ASSUME NEW q \in Request
               PROVE  (DropOK(req[q]) /\ SeenOK(req[q]) /\ ReplyOK(req[q]))'
    BY DEF HandlersOK
  <2>1. CASE q = r
    BY <1>2, <2>1, HandlerShapes, IdleOK DEF DropOK, SeenOK, ReplyOK
  <2>2. CASE q # r
    <3> PICK g : g = req[q]
      OBVIOUS
    <3>1. DropOK(g) /\ SeenOK(g) /\ ReplyOK(g) /\ req'[q] = g /\ g \in Handler
      BY <1>2, <2>2 DEF HandlersOK, TypeOK
    <3>2. ReplyOK(g)'
      BY <1>1, <3>1 DEF ReplyOK
    <3>3. DropOK(g)'
      <4> SUFFICES ASSUME g.pc = "insert", g.dropped
                   PROVE  Row(g, OPPOSITE[g.type]) \in engaged'
        BY DEF DropOK, Row
      <4>1. Row(g, OPPOSITE[g.type]) \in engaged
        BY <3>1 DEF DropOK
      <4>2. dropped => g.item # i
        BY <1>1, <2>2 DEF Unlocked, LockedBy
      <4>3. Row(g, OPPOSITE[g.type]) = opp => g.item = i
        BY DEF Row
      <4>4. QED
        BY <1>1, <4>1, <4>2, <4>3
    <3>4. SeenOK(g)'
      <4> SUFFICES ASSUME g.pc = "insert", ~g.dropped, Row(g, OPPOSITE[g.type]) \in engaged'
                   PROVE  <<g.user, g.item>> \in overlapped
        BY <1>1 DEF SeenOK, Row
      <4>1. CASE Row(g, OPPOSITE[g.type]) \in engaged
        BY <3>1, <4>1 DEF SeenOK
      <4>2. CASE Row(g, OPPOSITE[g.type]) = row
        <5>1. g.user = u /\ g.item = i /\ OPPOSITE[g.type] = t /\ g.type \in Exclusive
          BY <3>1, <4>2, HandlerFields DEF Row
        <5>2. t \in Exclusive
          BY <5>1, Opposites
        <5>3. Crosses(req[r], req[q])
          BY <5>1, <5>2 DEF Crosses
        <5>4. QED
          BY <5>1, <5>3 DEF CrossingsKnown
      <4>3. QED
        BY <1>1, <4>1, <4>2
    <3>5. QED
      BY <3>1, <3>2, <3>3, <3>4
  <2>3. QED
    BY <2>1, <2>2
<1>9. LocksExclusive' /\ CrossingsKnown'
  BY <1>1, <1>2, HandlerShapes DEF LocksExclusive, Locks, CrossingsKnown, Crosses
<1>10. AllFinite'
  <2>1. IsFiniteSet({e \in engaged : ~(dropped /\ e = opp)})
    BY FS_Subset DEF AllFinite
  <2>2. QED
    BY <1>1, <2>1, FS_AddElement DEF AllFinite
<1>11. ReactionsExact'
  <2> SUFFICES ASSUME NEW j \in Item, NEW s \in COUNTER_COLUMN
               PROVE  count'[j][s] = Cardinality(Rows(j, s)')
    BY DEF ReactionsExact, Rows
  <2>1. IsFiniteSet(Rows(j, s))
    BY FS_Subset DEF AllFinite, Rows
  <2>2. count[j][s] = Cardinality(Rows(j, s)) /\ count[j][s] \in Int
    BY <1>4 DEF ReactionsExact
  <2>3. CASE j # i
    <3>1. Rows(j, s)' = Rows(j, s)
      BY <1>1, <2>3 DEF Rows
    <3>2. QED
      BY <1>6, <2>2, <2>3, <3>1
  <2>4. CASE j = i /\ s = t
    <3>1. CASE row \in engaged
      <4>1. Rows(j, s)' = Rows(j, s)
        BY <1>1, <1>3, <2>4, <3>1, Opposites DEF Rows
      <4>2. Delta(s, t, row \notin engaged, dropped) = 0
        BY <1>3, <2>4, <3>1, Opposites DEF Delta
      <4>3. QED
        BY <1>6, <2>2, <2>4, <4>1, <4>2
    <3>2. CASE row \notin engaged
      <4>1. Rows(j, s)' = Rows(j, s) \cup {row} /\ row \notin Rows(j, s)
        BY <1>1, <1>3, <2>4, <3>2, Opposites DEF Rows
      <4>2. Delta(s, t, row \notin engaged, dropped) = 1
        BY <2>4, <3>2 DEF Delta
      <4>3. Cardinality(Rows(j, s)') = Cardinality(Rows(j, s)) + 1
        BY <2>1, <4>1, FS_AddElement
      <4>4. QED
        BY <1>6, <2>2, <2>4, <4>2, <4>3
    <3>3. QED
      BY <3>1, <3>2
  <2>5. CASE j = i /\ s # t /\ dropped /\ s = OPPOSITE[t]
    <3>1. Rows(j, s)' = Rows(j, s) \ {opp} /\ opp \in Rows(j, s)
      BY <1>1, <1>3, <2>5 DEF Rows
    <3>2. Delta(s, t, row \notin engaged, dropped) = -1
      BY <1>3, <2>5, Opposites DEF Delta
    <3>3. Cardinality(Rows(j, s) \ {opp}) = Cardinality(Rows(j, s)) - 1
      BY <2>1, <3>1, FS_RemoveElement
    <3>4. QED
      BY <1>6, <2>2, <2>5, <3>1, <3>2, <3>3
  <2>6. CASE j = i /\ s # t /\ ~(dropped /\ s = OPPOSITE[t])
    <3>1. Rows(j, s)' = Rows(j, s)
      BY <1>1, <2>6 DEF Rows
    <3>2. Delta(s, t, row \notin engaged, dropped) = 0
      BY <1>3, <2>6, Opposites DEF Delta
    <3>3. QED
      BY <1>6, <2>2, <2>6, <3>1, <3>2
  <2>7. QED
    BY <2>3, <2>4, <2>5, <2>6
<1>12. LikeXorDislike'
  <2> SUFFICES ASSUME NEW v \in User, NEW j \in Item,
                      <<v, j, "like">> \in engaged', <<v, j, "dislike">> \in engaged'
               PROVE  <<v, j>> \in overlapped
    BY <1>1 DEF LikeXorDislike
  <2>1. CASE <<v, j, "like">> \in engaged /\ <<v, j, "dislike">> \in engaged
    BY <2>1 DEF LikeXorDislike
  <2>2. CASE ~(<<v, j, "like">> \in engaged /\ <<v, j, "dislike">> \in engaged)
    <3>1. v = u /\ j = i /\ t \in {"like", "dislike"}
      BY <1>1, <2>2
    <3>2. t \in Exclusive /\ OPPOSITE[t] \in {"like", "dislike"} /\ OPPOSITE[t] # t
      BY <3>1 DEF Exclusive, OPPOSITE, Type
    <3>3. opp \in engaged /\ ~dropped
      BY <1>1, <3>1, <3>2
    <3>4. Row(req[r], OPPOSITE[t]) = opp
      BY <3>2 DEF Row
    <3>5. QED
      BY <3>1, <3>2, <3>3, <3>4 DEF HandlersOK, SeenOK
  <2>3. QED
    BY <2>1, <2>2
<1>13. FreshUnliked' /\ LikesExact' /\ CommentsCounted' /\ FlatThreads'
  BY <1>1 DEF FreshUnliked, LikesExact, Likes, CommentsCounted, FlatThreads
<1>14. QED
  BY <1>7, <1>8, <1>9, <1>10, <1>11, <1>12, <1>13

LEMMA CommitReactionStep ==
  ASSUME IInv, NEW r \in Request, CommitReaction(r)
  PROVE  IInv'
<1>1. /\ req[r].pc = "insert"
      /\ InsertReaction(r, req[r].user, req[r].item, req[r].type, req[r].dropped)
  BY DEF CommitReaction
<1>2. /\ req[r].item \in Item /\ req[r].user \in User /\ req[r].type \in Exclusive
      /\ req[r].dropped \in BOOLEAN
  BY <1>1, HandlerFields DEF IInv, TypeOK
<1>3. req[r].type \in Type
  BY <1>2, Opposites
<1>4. QED
  BY <1>1, <1>2, <1>3, InsertStep

LEMMA ReactionOnStep ==
  ASSUME IInv, NEW r \in Request, ReactionOn(r)
  PROVE  IInv'
<1>1. /\ req[r].pc = "react" /\ req[r].type \notin Exclusive
      /\ InsertReaction(r, req[r].user, req[r].item, req[r].type, FALSE)
  BY DEF ReactionOn
<1>2. req[r].item \in Item /\ req[r].user \in User /\ req[r].type \in Type
  BY <1>1, HandlerFields DEF IInv, TypeOK
<1>3. QED
  BY <1>1, <1>2, InsertStep

\* A transaction holds the item of what it dropped, so no other takes it off.
LEMMA ReactionOffStep ==
  ASSUME IInv, NEW r \in Request, ReactionOff(r)
  PROVE  IInv'
<1> USE DEF IInv, reactions, discussion
<1> PICK u, i, t : u = req[r].user /\ i = req[r].item /\ t = req[r].type
  OBVIOUS
<1> DEFINE row == <<u, i, t>>
<1>1. /\ req[r].pc = "react"
      /\ \/ row \in engaged /\ Unlocked(i, r) /\ engaged' = engaged \ {row} /\ Bump(i, t, -1)
         \/ row \notin engaged /\ engaged' = engaged /\ count' = count
      /\ Goto(r, Idle)
      /\ UNCHANGED <<removed, comments, thread, used, comment_count, liked, like_count,
                     overlapped, purged>>
  BY DEF ReactionOff
<1>2. CASE row \notin engaged /\ engaged' = engaged /\ count' = count
  <2>1. Goto(r, Idle) /\ UNCHANGED <<removed, reactions, discussion, overlapped, purged>>
    BY <1>1, <1>2
  <2>2. Idle \in Handler /\ Idle.pc # "insert"
    BY HandlerShapes
  <2>3. QED
    BY <2>1, <2>2, IdleOK, BeginStep
<1>3. CASE row \in engaged /\ Unlocked(i, r) /\ engaged' = engaged \ {row} /\ Bump(i, t, -1)
  <2>1. i \in Item /\ u \in User /\ t \in Type
    BY <1>1, HandlerFields DEF TypeOK
  <2>2. /\ req' \in [Request -> Handler]
        /\ req'[r] = Idle /\ \A q \in Request \ {r} : req'[q] = req[q]
    BY <1>1, GotoReq, HandlerShapes DEF TypeOK
  <2>3. count \in [Item -> [COUNTER_COLUMN -> Int]]
    BY DEF TypeOK
  <2>4. /\ count' \in [Item -> [COUNTER_COLUMN -> Int]]
        /\ \A j \in Item, s \in COUNTER_COLUMN :
             count'[j][s] = IF j = i /\ s = t THEN count[j][s] - 1 ELSE count[j][s]
    <3>1. CASE t \in COUNTER_COLUMN
      <4>1. count' = [count EXCEPT ![i][t] = @ + (-1)]
        BY <1>3, <3>1 DEF Bump
      <4>2. count[i][t] \in Int /\ count[i][t] + (-1) = count[i][t] - 1
        BY <2>1, <2>3, <3>1
      <4>3. QED
        BY <2>1, <2>3, <3>1, <4>1, <4>2
    <3>2. CASE t \notin COUNTER_COLUMN
      BY <1>3, <2>3, <3>2 DEF Bump
    <3>3. QED
      BY <3>1, <3>2
  <2>5. TypeOK'
    BY <1>1, <1>3, <2>2, <2>4 DEF TypeOK
  <2>6. HandlersOK'
    <3> SUFFICES ASSUME NEW q \in Request
                 PROVE  (DropOK(req[q]) /\ SeenOK(req[q]) /\ ReplyOK(req[q]))'
      BY DEF HandlersOK
    <3>1. CASE q = r
      BY <2>2, <3>1, HandlerShapes, IdleOK DEF DropOK, SeenOK, ReplyOK
    <3>2. CASE q # r
      <4> PICK g : g = req[q]
        OBVIOUS
      <4>1. DropOK(g) /\ SeenOK(g) /\ ReplyOK(g) /\ req'[q] = g
        BY <2>2, <3>2 DEF HandlersOK
      <4>2. ReplyOK(g)' /\ SeenOK(g)'
        BY <1>1, <1>3, <4>1 DEF ReplyOK, SeenOK, Row
      <4>3. DropOK(g)'
        <5> SUFFICES ASSUME g.pc = "insert", g.dropped
                     PROVE  Row(g, OPPOSITE[g.type]) \in engaged'
          BY DEF DropOK, Row
        <5>1. Row(g, OPPOSITE[g.type]) \in engaged
          BY <4>1 DEF DropOK
        <5>2. g.item # i
          BY <1>3, <3>2 DEF Unlocked, LockedBy
        <5>3. Row(g, OPPOSITE[g.type]) # row
          BY <5>2 DEF Row
        <5>4. QED
          BY <1>3, <5>1, <5>3
      <4>4. QED
        BY <4>1, <4>2, <4>3
    <3>3. QED
      BY <3>1, <3>2
  <2>7. LocksExclusive' /\ CrossingsKnown'
    BY <1>1, <2>2, HandlerShapes DEF LocksExclusive, Locks, CrossingsKnown, Crosses
  <2>8. AllFinite'
    BY <1>1, <1>3, FS_RemoveElement DEF AllFinite
  <2>9. ReactionsExact'
    <3> SUFFICES ASSUME NEW j \in Item, NEW s \in COUNTER_COLUMN
                 PROVE  count'[j][s] = Cardinality(Rows(j, s)')
      BY DEF ReactionsExact, Rows
    <3>1. IsFiniteSet(Rows(j, s))
      BY FS_Subset DEF AllFinite, Rows
    <3>2. count[j][s] = Cardinality(Rows(j, s))
      BY DEF ReactionsExact
    <3>3. CASE j = i /\ s = t
      <4>1. Rows(j, s)' = Rows(j, s) \ {row} /\ row \in Rows(j, s)
        BY <1>3, <3>3 DEF Rows
      <4>2. Cardinality(Rows(j, s) \ {row}) = Cardinality(Rows(j, s)) - 1
        BY <3>1, <4>1, FS_RemoveElement
      <4>3. QED
        BY <2>4, <3>2, <3>3, <4>1, <4>2
    <3>4. CASE ~(j = i /\ s = t)
      <4>1. Rows(j, s)' = Rows(j, s)
        BY <1>3, <3>4 DEF Rows
      <4>2. QED
        BY <2>4, <3>2, <3>4, <4>1
    <3>5. QED
      BY <3>3, <3>4
  <2>10. LikeXorDislike'
    BY <1>1, <1>3 DEF LikeXorDislike
  <2>11. FreshUnliked' /\ LikesExact' /\ CommentsCounted' /\ FlatThreads'
    BY <1>1 DEF FreshUnliked, LikesExact, Likes, CommentsCounted, FlatThreads
  <2>12. QED
    BY <2>5, <2>6, <2>7, <2>8, <2>9, <2>10, <2>11
<1>4. QED
  BY <1>1, <1>2, <1>3

\* What a step leaves alone when only comments or their likes change.
LEMMA ReactionsFrame ==
  ASSUME IInv, UNCHANGED <<reactions, overlapped>>
  PROVE  ReactionsExact' /\ LikeXorDislike' /\ IsFiniteSet(engaged)'
BY DEF IInv, reactions, ReactionsExact, Rows, LikeXorDislike, AllFinite

\* A handler ended, comments were added, and none was moved.
LEMMA HandlersDone ==
  ASSUME IInv, NEW r \in Request, Goto(r, Idle), UNCHANGED <<engaged, overlapped>>,
         used \subseteq used', \A c \in used : thread'[c] = thread[c]
  PROVE  HandlersOK' /\ LocksExclusive' /\ CrossingsKnown'
<1> USE DEF IInv
<1>1. req'[r] = Idle /\ \A q \in Request \ {r} : req'[q] = req[q]
  BY GotoReq, HandlerShapes DEF TypeOK
<1>2. HandlersOK'
  <2> SUFFICES ASSUME NEW q \in Request
               PROVE  (DropOK(req[q]) /\ SeenOK(req[q]) /\ ReplyOK(req[q]))'
    BY DEF HandlersOK
  <2>1. CASE q = r
    BY <1>1, <2>1, HandlerShapes, IdleOK DEF DropOK, SeenOK, ReplyOK
  <2>2. CASE q # r
    <3>1. DropOK(req[q]) /\ SeenOK(req[q]) /\ ReplyOK(req[q]) /\ req'[q] = req[q]
      BY <1>1, <2>2 DEF HandlersOK
    <3>2. QED
      BY <3>1 DEF DropOK, SeenOK, ReplyOK, Row
  <2>3. QED
    BY <2>1, <2>2
<1>3. LocksExclusive' /\ CrossingsKnown'
  BY <1>1, HandlerShapes DEF LocksExclusive, Locks, CrossingsKnown, Crosses
<1>4. QED
  BY <1>2, <1>3

\* An inserted comment is counted, hangs where a top-level one was, and has no
\* likes yet.
LEMMA CommitCommentStep ==
  ASSUME IInv, NEW r \in Request, NEW c \in Comment, CommitComment(r, c)
  PROVE  IInv'
<1> USE DEF IInv, reactions
<1> PICK i, p : i = req[r].item /\ p = req[r].parent
  OBVIOUS
<1>1. /\ req[r].pc = "comment" /\ c \notin used /\ p \in comments \cup {NoComment}
      /\ comments' = comments \cup {c} /\ used' = used \cup {c}
      /\ thread' = [thread EXCEPT ![c] = [item |-> i, parent |-> p]]
      /\ comment_count' = [comment_count EXCEPT ![i] = @ + 1]
      /\ Goto(r, Idle)
      /\ UNCHANGED <<removed, reactions, liked, like_count, overlapped, purged>>
  BY DEF CommitComment
<1>2. i \in Item /\ p \in Parent
  BY <1>1, HandlerFields DEF TypeOK
<1>3. p # NoComment => p \in comments /\ thread[p].item = i /\ thread[p].parent = NoComment
  BY <1>1 DEF HandlersOK, ReplyOK
<1>4. thread \in [Comment -> Thread] /\ comments \subseteq used /\ used \subseteq Comment
  BY DEF TypeOK
<1>5. /\ thread' \in [Comment -> Thread]
      /\ thread'[c].item = i /\ thread'[c].parent = p
      /\ \A d \in Comment \ {c} : thread'[d] = thread[d]
  <2>1. [item |-> i, parent |-> p] \in Thread
    BY <1>2 DEF Thread
  <2>2. QED
    BY <1>1, <1>4, <2>1
<1>6. HandlersOK' /\ LocksExclusive' /\ CrossingsKnown'
  <2>1. \A d \in used : thread'[d] = thread[d]
    BY <1>1, <1>4, <1>5
  <2>2. QED
    BY <1>1, <2>1, HandlersDone
<1>7. /\ comment_count' \in [Item -> Nat]
      /\ comment_count'[i] = comment_count[i] + 1
      /\ \A j \in Item \ {i} : comment_count'[j] = comment_count[j]
  BY <1>1, <1>2 DEF TypeOK
<1>8. TypeOK'
  <2>1. req' \in [Request -> Handler]
    BY <1>1, GotoReq, HandlerShapes DEF TypeOK
  <2>2. liked' \subseteq User \X comments'
    BY <1>1 DEF TypeOK
  <2>3. QED
    BY <1>1, <1>5, <1>7, <2>1, <2>2 DEF TypeOK
<1>9. AllFinite'
  BY <1>1, FS_AddElement DEF AllFinite
<1>10. FreshUnliked'
  BY <1>1 DEF FreshUnliked
<1>11. LikesExact'
  <2> SUFFICES ASSUME NEW d \in comments' PROVE like_count[d] = Cardinality(Likes(d))
    BY <1>1 DEF LikesExact, Likes
  <2>1. CASE d \in comments
    BY <2>1 DEF LikesExact
  <2>2. CASE d = c
    <3>1. Likes(d) = {}
      BY <1>1, <1>4, <2>2 DEF Likes, TypeOK
    <3>2. like_count[d] = 0
      BY <1>1, <2>2 DEF FreshUnliked
    <3>3. QED
      BY <3>1, <3>2, FS_EmptySet
  <2>3. QED
    BY <1>1, <2>1, <2>2
<1>12. CommentsCounted'
  <2> SUFFICES ASSUME NEW j \in Item
               PROVE  comment_count'[j] = Cardinality(Under(j)') + purged[j]
    BY <1>1 DEF CommentsCounted, Under
  <2>1. comment_count[j] = Cardinality(Under(j)) + purged[j] /\ purged[j] \in Nat
    BY DEF CommentsCounted, Under, TypeOK
  <2>2. IsFiniteSet(Under(j))
    BY FS_Subset DEF AllFinite, Under
  <2>3. CASE j = i
    <3>1. Under(j)' = Under(j) \cup {c} /\ c \notin Under(j)
      BY <1>1, <1>4, <1>5, <2>3 DEF Under
    <3>2. Cardinality(Under(j) \cup {c}) = Cardinality(Under(j)) + 1 /\ Cardinality(Under(j)) \in Nat
      BY <2>2, <3>1, FS_AddElement, FS_CardinalityType
    <3>3. QED
      BY <1>7, <2>1, <2>3, <3>1, <3>2
  <2>4. CASE j # i
    <3>1. Under(j)' = Under(j)
      BY <1>1, <1>4, <1>5, <2>4 DEF Under
    <3>2. QED
      BY <1>7, <2>1, <2>4, <3>1
  <2>5. QED
    BY <2>3, <2>4
<1>13. FlatThreads'
  <2> SUFFICES ASSUME NEW d \in comments', thread'[d].parent # NoComment
               PROVE  LET q == thread'[d].parent IN
                      /\ q \in comments' /\ thread'[q].parent = NoComment
                      /\ thread'[q].item = thread'[d].item
    BY DEF FlatThreads
  <2>1. CASE d = c
    BY <1>1, <1>3, <1>4, <1>5, <2>1
  <2>2. CASE d \in comments
    BY <1>1, <1>4, <1>5, <2>2 DEF FlatThreads
  <2>3. QED
    BY <1>1, <2>1, <2>2
<1>14. ReactionsExact' /\ LikeXorDislike'
  BY <1>1, ReactionsFrame
<1>15. QED
  BY <1>6, <1>8, <1>9, <1>10, <1>11, <1>12, <1>13, <1>14

\* A removed comment takes its replies, which are in its item, and their likes.
LEMMA RemoveCommentStep ==
  ASSUME IInv, NEW c \in Comment, RemoveComment(c)
  PROVE  IInv'
<1> USE DEF IInv, reactions
<1> DEFINE gone == {c} \cup {d \in comments : thread[d].parent = c}
           i == thread[c].item
<1>1. /\ c \in comments
      /\ comments' = comments \ gone
      /\ liked' = {l \in liked : l[2] \notin gone}
      /\ purged' = [purged EXCEPT ![i] = @ + Cardinality(gone)]
      /\ UNCHANGED <<removed, reactions, thread, used, comment_count, like_count, req, overlapped>>
  BY DEF RemoveComment
<1>2. gone \subseteq comments /\ IsFiniteSet(gone) /\ Cardinality(gone) \in Nat
  <2>1. gone \subseteq comments
    BY <1>1
  <2>2. QED
    BY <2>1, FS_Subset, FS_CardinalityType DEF AllFinite
<1>3. \A d \in gone : thread[d].item = i
  <2> SUFFICES ASSUME NEW d \in comments, thread[d].parent = c PROVE thread[d].item = i
    OBVIOUS
  <2>1. c # NoComment
    BY EngagementAssumption
  <2>2. QED
    BY <2>1 DEF FlatThreads
<1>4. i \in Item
  BY DEF TypeOK, Thread
<1> HIDE DEF gone, i
<1>5. /\ purged' \in [Item -> Nat]
      /\ purged'[i] = purged[i] + Cardinality(gone)
      /\ \A j \in Item \ {i} : purged'[j] = purged[j]
  BY <1>1, <1>2, <1>4 DEF TypeOK
<1>6. TypeOK'
  <2>1. liked' \subseteq User \X comments'
    BY <1>1 DEF TypeOK
  <2>2. QED
    BY <1>1, <1>5, <2>1 DEF TypeOK
<1>7. HandlersOK' /\ LocksExclusive' /\ CrossingsKnown'
  BY <1>1 DEF HandlersOK, DropOK, SeenOK, ReplyOK, Row, LocksExclusive, Locks, CrossingsKnown, Crosses
<1>8. AllFinite'
  BY <1>1, FS_Subset DEF AllFinite
<1>9. FreshUnliked' /\ ReactionsExact' /\ LikeXorDislike'
  BY <1>1, ReactionsFrame DEF FreshUnliked
<1>10. LikesExact'
  <2> SUFFICES ASSUME NEW d \in comments' PROVE like_count[d] = Cardinality(Likes(d)')
    BY <1>1 DEF LikesExact, Likes
  <2>1. Likes(d)' = Likes(d) /\ d \in comments
    BY <1>1 DEF Likes
  <2>2. QED
    BY <2>1 DEF LikesExact
<1>11. CommentsCounted'
  <2> SUFFICES ASSUME NEW j \in Item
               PROVE  comment_count[j] = Cardinality(Under(j)') + purged'[j]
    BY <1>1 DEF CommentsCounted, Under
  <2>1. comment_count[j] = Cardinality(Under(j)) + purged[j] /\ purged[j] \in Nat
    BY DEF CommentsCounted, Under, TypeOK
  <2>2. IsFiniteSet(Under(j))
    BY FS_Subset DEF AllFinite, Under
  <2>3. CASE j = i
    <3>1. Under(j)' = Under(j) \ gone /\ Under(j) \cap gone = gone
      BY <1>1, <1>2, <1>3, <2>3 DEF Under
    <3>2. Cardinality(Under(j) \ gone) = Cardinality(Under(j)) - Cardinality(gone)
      BY <2>2, <3>1, FS_Difference
    <3>3. Cardinality(Under(j)) \in Nat
      BY <2>2, FS_CardinalityType
    <3>4. QED
      BY <1>2, <1>5, <2>1, <2>3, <3>1, <3>2, <3>3
  <2>4. CASE j # i
    <3>1. Under(j)' = Under(j)
      BY <1>1, <1>3, <2>4 DEF Under
    <3>2. QED
      BY <1>5, <2>1, <2>4, <3>1
  <2>5. QED
    BY <2>3, <2>4
<1>12. FlatThreads'
  <2> SUFFICES ASSUME NEW d \in comments', thread[d].parent # NoComment
               PROVE  LET q == thread[d].parent IN
                      /\ q \in comments' /\ thread[q].parent = NoComment
                      /\ thread[q].item = thread[d].item
    BY <1>1 DEF FlatThreads
  <2> DEFINE q == thread[d].parent
  <2>1. d \in comments /\ d \notin gone
    BY <1>1
  <2>2. q \in comments /\ thread[q].parent = NoComment /\ thread[q].item = thread[d].item
    BY <2>1 DEF FlatThreads
  <2>3. q # c
    BY <2>1 DEF gone
  <2>4. q \notin gone
    BY <2>2, <2>3, EngagementAssumption DEF gone
  <2>5. QED
    BY <1>1, <2>2, <2>4
<1>13. QED
  BY <1>6, <1>7, <1>8, <1>9, <1>10, <1>11, <1>12

\* The count of likes of a comment moves as its rows do.
LEMMA CommitCommentLikeStep ==
  ASSUME IInv, NEW r \in Request, CommitCommentLike(r)
  PROVE  IInv'
<1> USE DEF IInv, reactions
<1> PICK u, c : u = req[r].user /\ c = req[r].comment
  OBVIOUS
<1> DEFINE row == <<u, c>>
           Moved ==
             \/ /\ c \in comments /\ row \notin liked
                /\ liked' = liked \cup {row} /\ BumpLikes(c, 1)
             \/ row \in liked /\ liked' = liked \ {row} /\ BumpLikes(c, -1)
             \/ liked' = liked /\ like_count' = like_count
<1>1. /\ req[r].pc = "likeComment"
      /\ Moved
      /\ Goto(r, Idle)
      /\ UNCHANGED <<removed, reactions, comments, thread, used, comment_count, overlapped, purged>>
  BY DEF CommitCommentLike
<1>2. u \in User /\ c \in Comment
  BY <1>1, HandlerFields DEF TypeOK
<1>3. req' \in [Request -> Handler]
  BY <1>1, GotoReq, HandlerShapes DEF TypeOK
<1>4. HandlersOK' /\ LocksExclusive' /\ CrossingsKnown'
  BY <1>1, HandlersDone
<1>5. ReactionsExact' /\ LikeXorDislike' /\ IsFiniteSet(engaged)'
  BY <1>1, ReactionsFrame
<1>6. CommentsCounted' /\ FlatThreads'
  BY <1>1 DEF CommentsCounted, FlatThreads
<1>7. like_count \in [Comment -> Int] /\ liked \subseteq User \X comments /\ comments \subseteq used
  BY DEF TypeOK
<1>8. \A d \in comments : IsFiniteSet(Likes(d)) /\ like_count[d] = Cardinality(Likes(d))
  BY FS_Subset DEF AllFinite, LikesExact, Likes
<1>9. /\ liked' \subseteq User \X comments /\ IsFiniteSet(liked')
      /\ like_count' \in [Comment -> Int]
      /\ \A d \in Comment \ comments : like_count'[d] = like_count[d]
      /\ \A d \in comments : like_count'[d] = Cardinality(Likes(d)')
  <2>1. CASE /\ c \in comments /\ row \notin liked
             /\ liked' = liked \cup {row} /\ BumpLikes(c, 1)
    <3>1. /\ like_count' \in [Comment -> Int]
          /\ like_count'[c] = like_count[c] + 1
          /\ \A d \in Comment \ {c} : like_count'[d] = like_count[d]
      BY <1>2, <1>7, <2>1 DEF BumpLikes
    <3>2. liked' \subseteq User \X comments /\ IsFiniteSet(liked')
      BY <1>2, <1>7, <2>1, FS_AddElement DEF AllFinite
    <3>3. \A d \in comments \ {c} : Likes(d)' = Likes(d)
      BY <2>1 DEF Likes
    <3>4. Likes(c)' = Likes(c) \cup {row} /\ row \notin Likes(c)
      BY <2>1 DEF Likes
    <3>5. Cardinality(Likes(c) \cup {row}) = Cardinality(Likes(c)) + 1
      BY <1>8, <2>1, <3>4, FS_AddElement
    <3>6. like_count'[c] = Cardinality(Likes(c)')
      BY <1>8, <2>1, <3>1, <3>4, <3>5
    <3>7. \A d \in comments : like_count'[d] = Cardinality(Likes(d)')
      BY <1>7, <1>8, <3>1, <3>3, <3>6 DEF TypeOK
    <3>8. QED
      BY <2>1, <3>1, <3>2, <3>7
  <2>2. CASE row \in liked /\ liked' = liked \ {row} /\ BumpLikes(c, -1)
    <3>1. /\ like_count' \in [Comment -> Int]
          /\ like_count'[c] = like_count[c] - 1
          /\ \A d \in Comment \ {c} : like_count'[d] = like_count[d]
      <4>1. like_count' = [like_count EXCEPT ![c] = @ + (-1)]
        BY <2>2 DEF BumpLikes
      <4>2. like_count[c] \in Int /\ like_count[c] + (-1) = like_count[c] - 1
        BY <1>2, <1>7
      <4>3. QED
        BY <1>2, <1>7, <4>1, <4>2
    <3>2. liked' \subseteq User \X comments /\ IsFiniteSet(liked') /\ c \in comments
      BY <1>7, <2>2, FS_RemoveElement DEF AllFinite
    <3>3. \A d \in comments \ {c} : Likes(d)' = Likes(d)
      BY <2>2 DEF Likes
    <3>4. Likes(c)' = Likes(c) \ {row} /\ row \in Likes(c)
      BY <2>2 DEF Likes
    <3>5. Cardinality(Likes(c) \ {row}) = Cardinality(Likes(c)) - 1
      BY <1>8, <3>2, <3>4, FS_RemoveElement
    <3>6. like_count'[c] = Cardinality(Likes(c)')
      BY <1>8, <3>1, <3>2, <3>4, <3>5
    <3>7. \A d \in comments : like_count'[d] = Cardinality(Likes(d)')
      BY <1>7, <1>8, <3>1, <3>3, <3>6 DEF TypeOK
    <3>8. QED
      BY <3>1, <3>2, <3>7
  <2>3. CASE liked' = liked /\ like_count' = like_count
    <3>1. \A d \in comments : Likes(d)' = Likes(d)
      BY <2>3 DEF Likes
    <3>2. QED
      BY <1>7, <1>8, <2>3, <3>1 DEF AllFinite
  <2>4. QED
    BY <1>1, <2>1, <2>2, <2>3
<1>10. TypeOK'
  BY <1>1, <1>3, <1>9 DEF TypeOK
<1>11. AllFinite' /\ LikesExact' /\ FreshUnliked'
  BY <1>1, <1>5, <1>7, <1>9 DEF AllFinite, LikesExact, Likes, FreshUnliked
<1>12. QED
  BY <1>4, <1>5, <1>6, <1>10, <1>11

LEMMA SetRemovedStep ==
  ASSUME IInv, NEW i \in Item, SetRemoved(i)
  PROVE  IInv'
<1> USE DEF IInv, reactions, discussion
<1>1. /\ removed' \in {removed \cup {i}, removed \ {i}}
      /\ UNCHANGED <<reactions, discussion, req, overlapped, purged>>
  BY DEF SetRemoved
<1>2. TypeOK'
  BY <1>1 DEF TypeOK
<1>3. HandlersOK' /\ LocksExclusive' /\ CrossingsKnown' /\ FreshUnliked' /\ AllFinite'
  BY <1>1 DEF HandlersOK, DropOK, SeenOK, ReplyOK, Row, LocksExclusive, Locks,
              CrossingsKnown, Crosses, FreshUnliked, AllFinite
<1>4. ReactionsExact' /\ LikesExact' /\ CommentsCounted' /\ FlatThreads' /\ LikeXorDislike'
  BY <1>1 DEF ReactionsExact, Rows, LikesExact, Likes, CommentsCounted, FlatThreads, LikeXorDislike
<1>5. QED
  BY <1>2, <1>3, <1>4

--------------------------------------------------------------------------------
(* Theorems *)

LEMMA InitHolds == Init => IInv
<1> SUFFICES ASSUME Init PROVE IInv
  OBVIOUS
<1> USE DEF Init
<1>1. TypeOK
  <2>1. (CHOOSE i \in Item : TRUE) \in Item
    BY EngagementAssumption
  <2>2. \A c \in Comment : thread[c] \in Thread
    BY <2>1 DEF Thread, Parent
  <2>3. thread \in [Comment -> Thread]
    BY <2>2
  <2>4. req \in [Request -> Handler]
    BY HandlerShapes
  <2>5. count \in [Item -> [COUNTER_COLUMN -> Int]]
    OBVIOUS
  <2>6. QED
    BY <2>3, <2>4, <2>5 DEF TypeOK
<1>2. AllFinite
  BY FS_EmptySet DEF AllFinite
<1>3. HandlersOK /\ LocksExclusive /\ CrossingsKnown
  BY HandlerShapes DEF HandlersOK, DropOK, SeenOK, ReplyOK, LocksExclusive, Locks,
                       CrossingsKnown, Crosses
<1>4. FreshUnliked /\ LikesExact /\ FlatThreads /\ LikeXorDislike
  BY DEF FreshUnliked, LikesExact, FlatThreads, LikeXorDislike
<1>5. ReactionsExact
  <2>1. \A i \in Item, t \in COUNTER_COLUMN : Rows(i, t) = {} /\ count[i][t] = 0
    BY DEF Rows
  <2>2. QED
    BY <2>1, FS_EmptySet DEF ReactionsExact
<1>6. CommentsCounted
  <2>1. \A i \in Item : {c \in comments : thread[c].item = i} = {}
    OBVIOUS
  <2>2. \A i \in Item : comment_count[i] = 0 /\ purged[i] = 0
    OBVIOUS
  <2>3. QED
    BY <2>1, <2>2, FS_EmptySet DEF CommentsCounted
<1>7. QED
  BY <1>1, <1>2, <1>3, <1>4, <1>5, <1>6 DEF IInv

LEMMA StepHolds == IInv /\ [Next]_vars => IInv'
<1> SUFFICES ASSUME IInv, [Next]_vars PROVE IInv'
  OBVIOUS
<1>1. CASE \E r \in Request : Begin(r)
  BY <1>1, BeginToggleStep, BeginCommentStep, BeginCommentLikeStep DEF Begin
<1>2. CASE \E r \in Request : Continue(r)
  BY <1>2, DropOppositeStep, CommitReactionStep, ReactionOnStep, ReactionOffStep,
     CommitCommentStep, CommitCommentLikeStep DEF Continue
<1>3. CASE \E r \in Request : Abort(r)
  BY <1>3, AbortStep
<1>4. CASE \E c \in Comment : RemoveComment(c)
  BY <1>4, RemoveCommentStep
<1>5. CASE \E i \in Item : SetRemoved(i)
  BY <1>5, SetRemovedStep
<1>6. CASE UNCHANGED vars
  <2> USE <1>6 DEF vars, reactions, discussion, IInv
  <2>1. TypeOK' /\ AllFinite' /\ FreshUnliked'
    BY DEF TypeOK, AllFinite, FreshUnliked
  <2>2. HandlersOK' /\ LocksExclusive' /\ CrossingsKnown'
    BY DEF HandlersOK, DropOK, SeenOK, ReplyOK, Row, LocksExclusive, Locks, CrossingsKnown, Crosses
  <2>3. ReactionsExact' /\ LikesExact' /\ CommentsCounted' /\ FlatThreads' /\ LikeXorDislike'
    BY DEF ReactionsExact, Rows, LikesExact, Likes, CommentsCounted, FlatThreads, LikeXorDislike
  <2>4. QED
    BY <2>1, <2>2, <2>3
<1>7. QED
  BY <1>1, <1>2, <1>3, <1>4, <1>5, <1>6 DEF Next

LEMMA Invariant == Spec => []IInv
BY InitHolds, StepHolds, PTL DEF Spec

\* Rows, counters and handlers keep their types, for every instance.
THEOREM TypeCorrect == Spec => []TypeOK
<1>1. IInv => TypeOK
  BY DEF IInv
<1>2. QED
  BY <1>1, Invariant, PTL

\* Every public counter is the number of its rows, for any number of users,
\* items and handlers in flight (toggleEngagement, toggleCommentLike).
THEOREM CountersAreRows == Spec => []CountersExact
<1>1. IInv => CountersExact
  BY DEF IInv, ReactionsExact, LikesExact, Rows, Likes, CountersExact
<1>2. QED
  BY <1>1, Invariant, PTL

\* comment_count counts the comments and those a moderator removed (postComment).
THEOREM CommentsAreCounted == Spec => []CommentsCounted
<1>1. IInv => CommentsCounted
  BY DEF IInv
<1>2. QED
  BY <1>1, Invariant, PTL

\* Threads are one level deep and stay in one item (postComment).
THEOREM ThreadsAreFlat == Spec => []FlatThreads
<1>1. IInv => FlatThreads
  BY DEF IInv
<1>2. QED
  BY <1>1, Invariant, PTL

\* Only a like and a dislike that were in flight together stay together
\* (engagementService.ts:39-56).
THEOREM OppositesExclude == Spec => []LikeXorDislike
<1>1. IInv => LikeXorDislike
  BY DEF IInv
<1>2. QED
  BY <1>1, Invariant, PTL

================================================================================
