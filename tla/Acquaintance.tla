----------------------------- MODULE Acquaintance -----------------------------
(***************************************************************************)
(* What two users are to each other, with no handlers and no locks in      *)
(* sight: friends are made of a request that stands and that its addressee *)
(* has answered, a key that an answer is on its way to names no other      *)
(* request until it has arrived, and a block takes away all that stands    *)
(* between its two users, and nothing else, but for what was asked for     *)
(* while it was being made or another block of theirs stood.               *)
(* Module SocialGraph implements it (SocialGraph!AcquaintancePromise).     *)
(***************************************************************************)
CONSTANTS
  User,
  Id

VARIABLES
  follows,
  requests,
  blocks,
  late,      \* follows and keys of requests asked for under a block
  answered,  \* answers on their way: who gives them, and the key of the request
  severing   \* blocks that are being made

vars == <<follows, requests, blocks, late, answered, severing>>

Between(u, v) == {<<u, v>>, <<v, u>>}
Rows(u, v) == {q \in requests : <<q.requester, q.addressee>> \in Between(u, v)}
Keys(rows) == {q.id : q \in rows}

Note(x, u, v) ==
  late' = IF Between(u, v) \cap (blocks \cup severing) = {} THEN late ELSE late \cup {x}

Init ==
  /\ follows = {}
  /\ requests = {}
  /\ blocks = {}
  /\ late = {}
  /\ answered = {}
  /\ severing = {}

Follow(u, v) ==
  /\ follows' = follows \cup {<<u, v>>}
  /\ Note(<<u, v>>, u, v)
  /\ UNCHANGED <<requests, blocks, answered, severing>>

Unfollow(u, v) ==
  /\ follows' = follows \ {<<u, v>>}
  /\ late' = late \ {<<u, v>>}
  /\ UNCHANGED <<requests, blocks, answered, severing>>

Ask(u, v, id) ==
  /\ \A q \in requests : q.id # id /\ <<q.requester, q.addressee>> # <<u, v>>
  /\ \A a \in answered : a[2] # id
  /\ requests' =
       requests \cup {[id |-> id, requester |-> u, addressee |-> v, status |-> "pending"]}
  /\ Note(id, u, v)
  /\ UNCHANGED <<follows, blocks, answered, severing>>

Answer(q) ==
  /\ q.status = "pending"
  /\ answered' = answered \cup {<<q.addressee, q.id>>}
  /\ UNCHANGED <<follows, requests, blocks, late, severing>>

\* Another answer may be on its way to the same request.
Arrives(a) == a \in answered /\ answered' \in {answered, answered \ {a}}

Befriend(q) ==
  /\ Arrives(<<q.addressee, q.id>>)
  /\ requests' = (requests \ {q}) \cup {[q EXCEPT !.status = "accepted"]}
  /\ UNCHANGED <<follows, blocks, late, severing>>

GiveUp(a) ==
  /\ Arrives(a)
  /\ UNCHANGED <<follows, requests, blocks, late, severing>>

Part(u, v) ==
  /\ requests' = requests \ Rows(u, v)
  /\ late' = late \ Keys(Rows(u, v))
  /\ UNCHANGED <<follows, blocks, answered, severing>>

BeginBlock(u, v) ==
  /\ severing' = severing \cup {<<u, v>>}
  /\ UNCHANGED <<follows, requests, blocks, late, answered>>

\* The same user may be making the same block twice.
Settled(u, v) == <<u, v>> \in severing /\ severing' \in {severing, severing \ {<<u, v>>}}

DropBlock(u, v) ==
  /\ Settled(u, v)
  /\ UNCHANGED <<follows, requests, blocks, late, answered>>

\* All that stood before goes.
Block(u, v) ==
  /\ Settled(u, v)
  /\ blocks' = blocks \cup {<<u, v>>}
  /\ \E gone \in SUBSET (Between(u, v) \cap follows), parted \in SUBSET Rows(u, v) :
       /\ (Between(u, v) \cap follows) \ gone \subseteq late
       /\ Keys(Rows(u, v) \ parted) \subseteq late
       /\ follows' = follows \ gone
       /\ requests' = requests \ parted
       /\ late' = late \ (gone \cup Keys(parted))
  /\ UNCHANGED answered

Unblock(u, v) ==
  /\ blocks' = blocks \ {<<u, v>>}
  /\ UNCHANGED <<follows, requests, late, answered, severing>>

OfPair(u, v) ==
  \/ Follow(u, v) \/ Unfollow(u, v)
  \/ Part(u, v)
  \/ BeginBlock(u, v) \/ DropBlock(u, v) \/ Block(u, v) \/ Unblock(u, v)
  \/ \E id \in Id : Ask(u, v, id)

Next ==
  \/ \E u, v \in User : u # v /\ OfPair(u, v)
  \/ \E q \in requests : Answer(q) \/ Befriend(q)
  \/ \E a \in answered : GiveUp(a)

Spec == Init /\ [][Next]_vars

================================================================================
