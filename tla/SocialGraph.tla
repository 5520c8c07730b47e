----------------------------- MODULE SocialGraph -----------------------------
(***************************************************************************)
(* Follows, friend requests, blocks and mutes                              *)
(* (src/src/services/socialService.ts and its four tables).                *)
(*                                                                         *)
(* A friend request reads the row it is about in one statement and writes  *)
(* it, by its key, in another. A block is one transaction of three         *)
(* statements: what it has deleted others still see until it commits, and  *)
(* whoever wants to change such a row waits for it.                        *)
(*                                                                         *)
(* Left out: notifications (best effort, after the write), profile texts,  *)
(* and paging of the lists. Users are never deleted. `crossed`, `consent`  *)
(* and `late` are history the code does not keep.                          *)
(***************************************************************************)
EXTENDS Integers, FiniteSets

CONSTANTS
  User,
  Id,       \* request_id; free again once no row and no handler has it
  Request   \* handlers that may be in flight at a time

\* An id is not a pair of users.
ASSUME SocialAssumption == Id \cap (User \X User) = {}

\* assertNotSelf, and the CHECK of each table.
Edge == {e \in User \X User : e[1] # e[2]}
FollowRow == Edge  \* <<follower_id, followee_id>>
BlockRow == Edge   \* <<blocker_id, blocked_id>>
MuteRow == Edge    \* <<muter_id, muted_id>>
FriendRequest ==
  [id : Id, requester : User, addressee : User, status : {"pending", "accepted"}]

Idle == [pc |-> "idle"]
Handler ==
  {Idle}
    \cup [pc : {"create"}, user : User, target : User]
    \cup [pc : {"accept"}, user : User, target : User, id : Id]
    \cup [pc : {"unfriend"}, user : User, target : User, follows : SUBSET FollowRow]
    \cup [pc : {"record"}, user : User, target : User, follows : SUBSET FollowRow, ids : SUBSET Id]

VARIABLES
  follows,   \* the rows of Follow
  requests,  \* the rows of FriendRequest
  blocks,    \* the rows of Block
  mutes,     \* the rows of Mute
  req,       \* the handlers in flight
  crossed,   \* history: pairs that asked each other at the same time
  consent,   \* history: <<user, id>>, a user who has asked, or answered that very row
  late       \* history: follows and request ids asked for under a block of the pair

history == <<crossed, consent, late>>
vars == <<follows, requests, blocks, mutes, req, history>>

Goto(r, h) == req' = [req EXCEPT ![r] = h]
Between(u, v) == {<<u, v>>, <<v, u>>}

--------------------------------------------------------------------------------
(* What others see *)

\* Mutant: only the request the viewer sent.
Rows_Outgoing(u, v) == {q \in requests : q.requester = u /\ q.addressee = v}

\* The friend request rows of a pair, either way.
Rows(u, v) == {q \in requests : <<q.requester, q.addressee>> \in Between(u, v)}

\* friendStatusMap of one row.
Status(u, q) ==
  CASE q.status = "accepted" -> "friends"
    [] q.status # "accepted" /\ q.requester = u -> "outgoing"
    [] OTHER -> "incoming"

\* friendStatusMap: of two rows the later in the answer wins, and nothing orders them.
FriendStatus(u, v) == IF Rows(u, v) = {} THEN {"none"} ELSE {Status(u, q) : q \in Rows(u, v)}

\* getProfile, as v's profile shows to u.
ViewerState(u, v) ==
  [is_following |-> <<u, v>> \in follows,
   is_followed_by |-> <<v, u>> \in follows,
   friend_status |-> FriendStatus(u, v),
   is_blocked |-> <<u, v>> \in blocks,
   is_muted |-> <<u, v>> \in mutes]

\* getIncomingFriendRequests and the rows of getFriends, as requests.
Incoming(u) == {q \in requests : q.addressee = u /\ q.status = "pending"}
Friends(u) == {q \in requests : u \in {q.requester, q.addressee} /\ q.status = "accepted"}

--------------------------------------------------------------------------------
(* Locks: rows a block has deleted and not committed. *)

FollowsHeld(r) == UNION {req[s].follows : s \in {s \in Request \ {r} : req[s].pc \in {"unfriend", "record"}}}
IdsHeld(r) == UNION {req[s].ids : s \in {s \in Request \ {r} : req[s].pc = "record"}}

\* A block of the pair stands or is being made.
UnderBlock(u, v) ==
  \/ Between(u, v) \cap blocks # {}
  \/ \E s \in Request :
       req[s].pc \in {"unfriend", "record"} /\ <<req[s].user, req[s].target>> \in Between(u, v)

Mark(x, u, v) == late' = IF UnderBlock(u, v) THEN late \cup {x} ELSE late

\* The history of rows that are gone goes with them.
Forget(edges, ids) ==
  /\ late' = late \ (edges \cup ids)
  /\ consent' = {c \in consent : c[2] \notin ids}

--------------------------------------------------------------------------------
(* follow, unfollow, mute, unmute, unblock: one statement each. *)

\* findOrCreate. Nobody looks for a block.
Follow(u, v) ==
  /\ <<u, v>> \in FollowRow \ follows
  /\ follows' = follows \cup {<<u, v>>}
  /\ Mark(<<u, v>>, u, v)
  /\ UNCHANGED <<requests, blocks, mutes, req, crossed, consent>>

Unfollow(u, v) ==
  /\ <<u, v>> \in follows
  /\ \A s \in Request : req[s].pc \in {"unfriend", "record"} => <<u, v>> \notin req[s].follows
  /\ follows' = follows \ {<<u, v>>}
  /\ Forget({<<u, v>>}, {})
  /\ UNCHANGED <<requests, blocks, mutes, req, crossed>>

Mute(u, v) ==
  /\ <<u, v>> \in MuteRow \ mutes
  /\ mutes' = mutes \cup {<<u, v>>}
  /\ UNCHANGED <<follows, requests, blocks, req, history>>

Unmute(u, v) ==
  /\ <<u, v>> \in mutes
  /\ mutes' = mutes \ {<<u, v>>}
  /\ UNCHANGED <<follows, requests, blocks, req, history>>

Unblock(u, v) ==
  /\ <<u, v>> \in blocks
  /\ blocks' = blocks \ {<<u, v>>}
  /\ UNCHANGED <<follows, requests, mutes, req, history>>

--------------------------------------------------------------------------------
(* sendFriendRequest, acceptFriendRequest, removeFriend *)

Crossing(r, u, v) ==
  \E s \in Request \ {r} : req[s].pc = "create" /\ req[s].user = v /\ req[s].target = u

\* findOne of an asker. Of two rows it returns either. A row that is accepted or
\* the asker's own ends the call.
Send(r, u, v) ==
  /\ req[r] = Idle
  /\ <<u, v>> \in Edge
  /\ \/ /\ Rows(u, v) = {}
        /\ Goto(r, [pc |-> "create", user |-> u, target |-> v])
        /\ crossed' = IF Crossing(r, u, v) THEN crossed \cup {{u, v}} ELSE crossed
        /\ UNCHANGED consent
     \/ \E q \in Rows(u, v) :
          /\ q.status = "pending" /\ q.addressee = u
          /\ Goto(r, [pc |-> "accept", user |-> u, target |-> v, id |-> q.id])
          /\ consent' = consent \cup {<<u, q.id>>}
          /\ UNCHANGED crossed
  /\ UNCHANGED <<follows, requests, blocks, mutes, late>>

\* findOne of an answer.
Accept(r, u, v) ==
  /\ req[r] = Idle
  /\ \E q \in Incoming(u) :
       /\ q.requester = v
       /\ Goto(r, [pc |-> "accept", user |-> u, target |-> v, id |-> q.id])
       /\ consent' = consent \cup {<<u, q.id>>}
  /\ UNCHANGED <<follows, requests, blocks, mutes, crossed, late>>

Free(id) ==
  /\ \A q \in requests : q.id # id
  /\ \A s \in Request : req[s].pc = "accept" => req[s].id # id

\* The insert. The key is of the directed pair: a second row that way fails
\* (Abort), one the other way does not.
CreateRequest(r, id) ==
  LET u == req[r].user
      v == req[r].target
  IN
  /\ req[r].pc = "create"
  /\ Free(id)
  /\ \A q \in requests : <<q.requester, q.addressee>> # <<u, v>>
  /\ requests' = requests \cup {[id |-> id, requester |-> u, addressee |-> v, status |-> "pending"]}
  /\ consent' = consent \cup {<<u, id>>}
  /\ Mark(id, u, v)
  /\ Goto(r, Idle)
  /\ UNCHANGED <<follows, blocks, mutes, crossed>>

\* Mutant: the update looks for the pair, not for the row that was read.
AcceptRow_ByPair(r) ==
  LET hit == {q \in requests : q.requester = req[r].target /\ q.addressee = req[r].user} IN
  /\ req[r].pc = "accept"
  /\ \A q \in hit : q.id \notin IdsHeld(r)
  /\ requests' = (requests \ hit) \cup {[q EXCEPT !.status = "accepted"] : q \in hit}
  /\ Goto(r, Idle)
  /\ UNCHANGED <<follows, blocks, mutes, history>>

\* existing.update, pending.update: by key. A row that is gone is no error.
AcceptRow(r) ==
  LET hit == {q \in requests : q.id = req[r].id} IN
  /\ req[r].pc = "accept"
  /\ \A q \in hit : q.id \notin IdsHeld(r)
  /\ requests' = (requests \ hit) \cup {[q EXCEPT !.status = "accepted"] : q \in hit}
  /\ Goto(r, Idle)
  /\ UNCHANGED <<follows, blocks, mutes, history>>

RemoveFriend(u, v) ==
  /\ Rows(u, v) # {}
  /\ \A s \in Request : req[s].pc = "record" => \A q \in Rows(u, v) : q.id \notin req[s].ids
  /\ requests' = requests \ Rows(u, v)
  /\ Forget({}, {q.id : q \in Rows(u, v)})
  /\ UNCHANGED <<follows, blocks, mutes, req, crossed>>

--------------------------------------------------------------------------------
(* block *)

\* Mutant: only the follows of the blocker are dropped.
BlockFollows_Own(r, u, v) ==
  LET gone == {<<u, v>>} \cap follows IN
  /\ req[r] = Idle
  /\ <<u, v>> \in Edge
  /\ gone \cap FollowsHeld(r) = {}
  /\ Goto(r, [pc |-> "unfriend", user |-> u, target |-> v, follows |-> gone])
  /\ UNCHANGED <<follows, requests, blocks, mutes, history>>

\* Follow.destroy, both ways.
BlockFollows(r, u, v) ==
  LET gone == Between(u, v) \cap follows IN
  /\ req[r] = Idle
  /\ <<u, v>> \in Edge
  /\ gone \cap FollowsHeld(r) = {}
  /\ Goto(r, [pc |-> "unfriend", user |-> u, target |-> v, follows |-> gone])
  /\ UNCHANGED <<follows, requests, blocks, mutes, history>>

\* FriendRequest.destroy, both ways.
BlockRequests(r) ==
  LET u == req[r].user
      v == req[r].target
      gone == {q.id : q \in Rows(u, v)}
  IN
  /\ req[r].pc = "unfriend"
  /\ gone \cap IdsHeld(r) = {}
  /\ Goto(r, [pc |-> "record", user |-> u, target |-> v, follows |-> req[r].follows, ids |-> gone])
  /\ UNCHANGED <<follows, requests, blocks, mutes, history>>

\* Block.findOrCreate and the commit.
CommitBlock(r) ==
  /\ req[r].pc = "record"
  /\ follows' = follows \ req[r].follows
  /\ requests' = {q \in requests : q.id \notin req[r].ids}
  /\ blocks' = blocks \cup {<<req[r].user, req[r].target>>}
  /\ Forget(req[r].follows, req[r].ids)
  /\ Goto(r, Idle)
  /\ UNCHANGED <<mutes, crossed>>

--------------------------------------------------------------------------------

\* A handler dies or a statement throws.
Abort(r) ==
  /\ req[r] # Idle
  /\ Goto(r, Idle)
  /\ UNCHANGED <<follows, requests, blocks, mutes, history>>

Init ==
  /\ follows = {}
  /\ requests = {}
  /\ blocks = {}
  /\ mutes = {}
  /\ req = [r \in Request |-> Idle]
  /\ crossed = {}
  /\ consent = {}
  /\ late = {}

AtOnce(u, v) ==
  \/ Follow(u, v)
  \/ Unfollow(u, v)
  \/ Mute(u, v)
  \/ Unmute(u, v)
  \/ Unblock(u, v)
  \/ RemoveFriend(u, v)

Begin(r, u, v) ==
  \/ Send(r, u, v)
  \/ Accept(r, u, v)
  \/ BlockFollows(r, u, v)

Continue(r) ==
  \/ \E id \in Id : CreateRequest(r, id)
  \/ AcceptRow(r)
  \/ BlockRequests(r)
  \/ CommitBlock(r)
  \/ Abort(r)

Next ==
  \/ \E u, v \in User : AtOnce(u, v) \/ \E r \in Request : Begin(r, u, v)
  \/ \E r \in Request : Continue(r)

Spec == Init /\ [][Next]_vars

--------------------------------------------------------------------------------
(* Properties *)

\* The directed pair is a key of every table, and request_id of the requests.
TypeOK ==
  /\ follows \subseteq FollowRow
  /\ blocks \subseteq BlockRow
  /\ mutes \subseteq MuteRow
  /\ requests \subseteq FriendRequest
  /\ \A p, q \in requests :
       p.id = q.id \/ <<p.requester, p.addressee>> = <<q.requester, q.addressee>> => p = q
  /\ req \in [Request -> Handler]
  /\ crossed \subseteq SUBSET User
  /\ consent \subseteq User \X Id
  /\ late \subseteq Edge \cup Id

\* Two users stand in one relation, which both see: one is "outgoing" to the other
\* that is "incoming", or they are friends. Except for two who asked each other at
\* the same time: each found no row, and each inserted one (sendFriendRequest).
OneStanding ==
  \A u, v \in User :
    u # v /\ {u, v} \notin crossed =>
      \/ FriendStatus(u, v) = {"none"} /\ FriendStatus(v, u) = {"none"}
      \/ FriendStatus(u, v) = {"friends"} /\ FriendStatus(v, u) = {"friends"}
      \/ FriendStatus(u, v) = {"outgoing"} /\ FriendStatus(v, u) = {"incoming"}
      \/ FriendStatus(u, v) = {"incoming"} /\ FriendStatus(v, u) = {"outgoing"}

\* Friends are two who asked, or answered, that very request. An answer to a
\* request that was withdrawn, and made again, while it was on its way does not
\* count for the new one (acceptFriendRequest, sendFriendRequest).
Consent ==
  \A u \in User : \A q \in Friends(u) : <<u, q.id>> \in consent

\* A block leaves no follow and no friend request, either way, that was there
\* before it; what a blocker still sees of the other was asked for while the block
\* was being made, or since: nothing refuses it then (block, follow,
\* sendFriendRequest).
BlockSevers ==
  \A u, v \in User :
    LET seen == ViewerState(u, v) IN
    seen.is_blocked =>
      /\ seen.is_following => <<u, v>> \in late
      /\ seen.is_followed_by => <<v, u>> \in late
      /\ seen.friend_status # {"none"} => \A q \in Rows(u, v) : q.id \in late

--------------------------------------------------------------------------------
(* What module Acquaintance sees *)

\* Who answers, and the key of the row they read.
answered == {<<req[s].user, req[s].id>> : s \in {s \in Request : req[s].pc = "accept"}}

\* The blocks that have begun and are not committed.
severing ==
  {<<req[s].user, req[s].target>> : s \in {s \in Request : req[s].pc \in {"unfriend", "record"}}}

AcquaintanceView == INSTANCE Acquaintance

\* A request makes friends of its two users only when it stands and its addressee
\* answered that very request, however requests and answers cross; and a block takes away all that
\* stood between its two users before it, and nothing of anybody else
\* (sendFriendRequest, acceptFriendRequest, removeFriend, block).
AcquaintancePromise == AcquaintanceView!Spec

================================================================================
