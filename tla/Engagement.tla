------------------------------ MODULE Engagement ------------------------------
(***************************************************************************)
(* Reactions, comments and the counters kept beside them, on videos and on *)
(* posts (src/src/services/engagementService.ts, postEngagementService.ts, *)
(* commentService.ts, postCommentService.ts; comments are removed by       *)
(* moderationService.ts). The two sets of tables mirror each other: an     *)
(* item is either.                                                         *)
(*                                                                         *)
(* A handler reads the item or the comment first and opens its transaction *)
(* later. The transaction of a reaction that has an opposite is two steps, *)
(* for what others have not committed it cannot see; the others are one.   *)
(* An item taken down keeps its rows and counters.                         *)
(*                                                                         *)
(* Left out: texts, authors, and notifications, which are written after    *)
(* the commit and may fail alone. `overlapped` and `purged` are history    *)
(* the code does not keep.                                                 *)
(***************************************************************************)
EXTENDS Integers, FiniteSets

CONSTANTS
  Item,       \* videos and posts
  User,
  Comment,    \* comment ids; bounds how many are ever inserted
  NoComment,  \* parent_id IS NULL
  Request     \* handlers that may be in flight at a time

ASSUME EngagementAssumption ==
  /\ Item # {}
  /\ NoComment \notin Comment

\* "save" stands for the counted type without an opposite, "favorite" for the
\* types without a counter.
Type == {"like", "dislike", "save", "favorite"}
COUNTER_COLUMN == {"like", "dislike", "save"}
Exclusive == {"like", "dislike"}

\* Mutant: a like takes a dislike back, a dislike leaves the like.
OPPOSITE_OneWay == [t \in Type |-> IF t = "like" THEN "dislike" ELSE "none"]
OPPOSITE == [t \in Type |-> CASE t = "like" -> "dislike" [] t = "dislike" -> "like" [] OTHER -> "none"]

Parent == Comment \cup {NoComment}
Thread == [item : Item, parent : Parent]

Idle == [pc |-> "idle"]
Handler ==
  {Idle}
    \cup [pc : {"react"}, item : Item, user : User, type : Type, on : BOOLEAN]
    \cup [pc : {"insert"}, item : Item, user : User, type : Exclusive, dropped : BOOLEAN]
    \cup [pc : {"comment"}, item : Item, parent : Parent]
    \cup [pc : {"likeComment"}, user : User, comment : Comment, on : BOOLEAN]

VARIABLES
  removed,        \* items with deleted_at set
  engaged,        \* engagements: the rows <<user, item, type>>
  count,          \* like_count, dislike_count and save_count of each item
  comments,       \* comments: the rows in the table
  thread,         \* comments: what each row holds, kept once it is gone
  used,           \* comment ids inserted so far
  comment_count,  \* of each item
  liked,          \* comment_likes: the rows <<user, comment>>
  like_count,     \* of each comment
  req,            \* the handlers in flight
  overlapped,     \* history: <<user, item>> whose like and dislike were in flight together
  purged          \* history: of each item, the comments that went with a removal

reactions == <<engaged, count>>
discussion == <<comments, thread, used, comment_count, liked, like_count>>
vars == <<removed, reactions, discussion, req, overlapped, purged>>

Goto(r, h) == req' = [req EXCEPT ![r] = h]

--------------------------------------------------------------------------------
(* toggleEngagement, togglePostEngagement *)

\* findByPk: an item taken down is a 404.
BeginToggle(r, u, i, t, on) ==
  /\ req[r] = Idle
  /\ i \notin removed
  /\ Goto(r, [pc |-> "react", item |-> i, user |-> u, type |-> t, on |-> on])
  /\ UNCHANGED <<removed, reactions, discussion, overlapped, purged>>

\* A transaction that has counted down holds the item's row until it ends.
LockedBy(q, i) == req[q].pc = "insert" /\ req[q].item = i /\ req[q].dropped
Unlocked(i, r) == \A q \in Request \ {r} : ~LockedBy(q, i)

Bump(i, t, d) ==
  count' = IF t \in COUNTER_COLUMN THEN [count EXCEPT ![i][t] = @ + d] ELSE count

\* Another transaction of the same user is setting the opposite reaction.
Crossing(r, u, i, t) ==
  \E q \in Request \ {r} :
    req[q].pc = "insert" /\ req[q].user = u /\ req[q].item = i /\ req[q].type = OPPOSITE[t]

\* First statements of a like or a dislike: DELETE the opposite and count it
\* down. What is dropped shows only at the commit.
DropOpposite(r) ==
  LET i == req[r].item
      u == req[r].user
      t == req[r].type
      held == <<u, i, OPPOSITE[t]>> \in engaged
  IN
  /\ req[r].pc = "react"
  /\ req[r].on /\ t \in Exclusive
  /\ held => Unlocked(i, r)
  /\ Goto(r, [pc |-> "insert", item |-> i, user |-> u, type |-> t, dropped |-> held])
  /\ overlapped' = IF Crossing(r, u, i, t) THEN overlapped \cup {<<u, i>>} ELSE overlapped
  /\ UNCHANGED <<removed, reactions, discussion, purged>>

\* What a counter moves by when the row is inserted and its opposite dropped.
Delta(s, t, created, dropped) ==
  IF s = t /\ created THEN 1 ELSE IF dropped /\ t = OPPOSITE[s] THEN -1 ELSE 0

\* findOrCreate: the second of two equal inserts finds the row, and does not count it.
InsertReaction(r, u, i, t, dropped) ==
  LET created == <<u, i, t>> \notin engaged IN
  /\ dropped \/ (created /\ t \in COUNTER_COLUMN) => Unlocked(i, r)
  /\ engaged' = {e \in engaged : ~(dropped /\ e = <<u, i, OPPOSITE[t]>>)} \cup {<<u, i, t>>}
  /\ count' = [count EXCEPT ![i] =
       [s \in COUNTER_COLUMN |-> @[s] + Delta(s, t, created, dropped)]]
  /\ Goto(r, Idle)
  /\ UNCHANGED <<removed, discussion, overlapped, purged>>

\* Insert and commit.
CommitReaction(r) ==
  /\ req[r].pc = "insert"
  /\ InsertReaction(r, req[r].user, req[r].item, req[r].type, req[r].dropped)

\* A reaction without an opposite: one insert, one increment.
ReactionOn(r) ==
  /\ req[r].pc = "react"
  /\ req[r].on /\ req[r].type \notin Exclusive
  /\ InsertReaction(r, req[r].user, req[r].item, req[r].type, FALSE)

\* Mutant: counts down whether or not there was a row.
ReactionOff_Unguarded(r) ==
  LET row == <<req[r].user, req[r].item, req[r].type>> IN
  /\ req[r].pc = "react"
  /\ ~req[r].on
  /\ Unlocked(row[2], r)
  /\ engaged' = engaged \ {row}
  /\ Bump(row[2], row[3], -1)
  /\ Goto(r, Idle)
  /\ UNCHANGED <<removed, discussion, overlapped, purged>>

\* DELETE, and a decrement by what it removed.
ReactionOff(r) ==
  LET row == <<req[r].user, req[r].item, req[r].type>> IN
  /\ req[r].pc = "react"
  /\ ~req[r].on
  /\ \/ /\ row \in engaged
        /\ Unlocked(row[2], r)
        /\ engaged' = engaged \ {row}
        /\ Bump(row[2], row[3], -1)
     \/ /\ row \notin engaged
        /\ UNCHANGED reactions
  /\ Goto(r, Idle)
  /\ UNCHANGED <<removed, discussion, overlapped, purged>>

--------------------------------------------------------------------------------
(* postComment *)

\* Read the item and the comment replied to. Threads are one level deep: a reply
\* to a reply lands under the comment that one is under.
BeginComment(r, i, parent) ==
  /\ req[r] = Idle
  /\ i \notin removed
  /\ parent # NoComment => parent \in comments /\ thread[parent].item = i
  /\ LET top == IF parent # NoComment /\ thread[parent].parent # NoComment
                THEN thread[parent].parent
                ELSE parent
     IN Goto(r, [pc |-> "comment", item |-> i, parent |-> top])
  /\ UNCHANGED <<removed, reactions, discussion, overlapped, purged>>

\* Mutant: replies are not counted.
CommitComment_TopLevelCounted(r, c) ==
  LET i == req[r].item
      parent == req[r].parent
  IN
  /\ req[r].pc = "comment"
  /\ c \notin used
  /\ parent \in comments \cup {NoComment}
  /\ comments' = comments \cup {c}
  /\ used' = used \cup {c}
  /\ thread' = [thread EXCEPT ![c] = [item |-> i, parent |-> parent]]
  /\ comment_count' = [comment_count EXCEPT ![i] = @ + IF parent = NoComment THEN 1 ELSE 0]
  /\ Goto(r, Idle)
  /\ UNCHANGED <<removed, reactions, liked, like_count, overlapped, purged>>

\* Insert it and count it. A parent that is gone by now violates its foreign key:
\* the transaction fails (Abort).
CommitComment(r, c) ==
  LET i == req[r].item
      parent == req[r].parent
  IN
  /\ req[r].pc = "comment"
  /\ c \notin used
  /\ parent \in comments \cup {NoComment}
  /\ comments' = comments \cup {c}
  /\ used' = used \cup {c}
  /\ thread' = [thread EXCEPT ![c] = [item |-> i, parent |-> parent]]
  /\ comment_count' = [comment_count EXCEPT ![i] = @ + 1]
  /\ Goto(r, Idle)
  /\ UNCHANGED <<removed, reactions, liked, like_count, overlapped, purged>>

\* resolveTarget of a comment: a hard delete, which the foreign keys carry on to
\* its replies and to the likes of both. Nothing is taken off comment_count.
RemoveComment(c) ==
  LET gone == {c} \cup {d \in comments : thread[d].parent = c} IN
  /\ c \in comments
  /\ comments' = comments \ gone
  /\ liked' = {l \in liked : l[2] \notin gone}
  /\ purged' = [purged EXCEPT ![thread[c].item] = @ + Cardinality(gone)]
  /\ UNCHANGED <<removed, reactions, thread, used, comment_count, like_count, req, overlapped>>

--------------------------------------------------------------------------------
(* toggleCommentLike *)

BeginCommentLike(r, u, c, on) ==
  /\ req[r] = Idle
  /\ c \in comments
  /\ Goto(r, [pc |-> "likeComment", user |-> u, comment |-> c, on |-> on])
  /\ UNCHANGED <<removed, reactions, discussion, overlapped, purged>>

BumpLikes(c, d) == like_count' = [like_count EXCEPT ![c] = @ + d]

\* Insert or delete the row, and count it if there was something to do. A like of
\* a comment that is gone violates its foreign key (Abort).
CommitCommentLike(r) ==
  LET c == req[r].comment
      row == <<req[r].user, c>>
  IN
  /\ req[r].pc = "likeComment"
  /\ \/ /\ req[r].on
        /\ c \in comments
        /\ row \notin liked
        /\ liked' = liked \cup {row}
        /\ BumpLikes(c, 1)
     \/ /\ ~req[r].on
        /\ row \in liked
        /\ liked' = liked \ {row}
        /\ BumpLikes(c, -1)
     \/ /\ req[r].on <=> row \in liked
        /\ UNCHANGED <<liked, like_count>>
  /\ Goto(r, Idle)
  /\ UNCHANGED <<removed, reactions, comments, thread, used, comment_count, overlapped, purged>>

--------------------------------------------------------------------------------

\* Takedowns, the author's delete, and the appeal that restores the item.
SetRemoved(i) ==
  /\ removed' \in {removed \cup {i}, removed \ {i}}
  /\ removed' # removed
  /\ UNCHANGED <<reactions, discussion, req, overlapped, purged>>

\* A handler dies or a statement throws: the transaction is rolled back.
Abort(r) ==
  /\ req[r] # Idle
  /\ Goto(r, Idle)
  /\ UNCHANGED <<removed, reactions, discussion, overlapped, purged>>

Init ==
  /\ removed = {}
  /\ engaged = {}
  /\ count = [i \in Item |-> [t \in COUNTER_COLUMN |-> 0]]
  /\ comments = {}
  /\ thread = [c \in Comment |-> [item |-> CHOOSE i \in Item : TRUE, parent |-> NoComment]]
  /\ used = {}
  /\ comment_count = [i \in Item |-> 0]
  /\ liked = {}
  /\ like_count = [c \in Comment |-> 0]
  /\ req = [r \in Request |-> Idle]
  /\ overlapped = {}
  /\ purged = [i \in Item |-> 0]

Begin(r) ==
  \/ \E u \in User, i \in Item, t \in Type, on \in BOOLEAN : BeginToggle(r, u, i, t, on)
  \/ \E i \in Item, parent \in Parent : BeginComment(r, i, parent)
  \/ \E u \in User, c \in Comment, on \in BOOLEAN : BeginCommentLike(r, u, c, on)

Continue(r) ==
  \/ DropOpposite(r)
  \/ CommitReaction(r)
  \/ ReactionOn(r)
  \/ ReactionOff(r)
  \/ \E c \in Comment : CommitComment(r, c)
  \/ CommitCommentLike(r)

Next ==
  \/ \E r \in Request : Begin(r) \/ Continue(r) \/ Abort(r)
  \/ \E c \in Comment : RemoveComment(c)
  \/ \E i \in Item : SetRemoved(i)

Spec == Init /\ [][Next]_vars

--------------------------------------------------------------------------------
(* Properties *)

TypeOK ==
  /\ removed \subseteq Item
  /\ engaged \subseteq User \X Item \X Type
  /\ count \in [Item -> [COUNTER_COLUMN -> Int]]
  /\ used \subseteq Comment
  /\ comments \subseteq used
  /\ thread \in [Comment -> Thread]
  /\ comment_count \in [Item -> Nat]
  /\ liked \subseteq User \X comments
  /\ like_count \in [Comment -> Int]
  /\ req \in [Request -> Handler]
  /\ overlapped \subseteq User \X Item
  /\ purged \in [Item -> Nat]

\* Every public counter of reactions and likes is the number of rows, whichever
\* toggles of one user race, repeat, wait for each other or die half-way
\* (toggleEngagement, togglePostEngagement, toggleCommentLike).
CountersExact ==
  /\ \A i \in Item, t \in COUNTER_COLUMN :
       count[i][t] = Cardinality({e \in engaged : e[2] = i /\ e[3] = t})
  /\ \A c \in comments : like_count[c] = Cardinality({l \in liked : l[2] = c})

\* comment_count is the number of comments, but for those a moderator removed and
\* the replies that went with them, which nothing ever takes off it (postComment,
\* moderationService.ts:182).
CommentsCounted ==
  \A i \in Item :
    comment_count[i] = Cardinality({c \in comments : thread[c].item = i}) + purged[i]

\* A reply hangs under a top-level comment of its own item, although the comment
\* it replied to was read before it was inserted and may be removed in between
\* (postComment).
FlatThreads ==
  \A c \in comments :
    LET p == thread[c].parent IN
    p # NoComment =>
      p \in comments /\ thread[p].parent = NoComment /\ thread[p].item = thread[c].item

\* Like and dislike exclude each other, except for a user whose like and dislike
\* of one item were in flight together: each transaction looks for an opposite
\* the other has not committed (engagementService.ts:16, 39-56).
LikeXorDislike ==
  \A u \in User, i \in Item :
    <<u, i, "like">> \in engaged /\ <<u, i, "dislike">> \in engaged
      => <<u, i>> \in overlapped

================================================================================
