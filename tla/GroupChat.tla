------------------------------ MODULE GroupChat ------------------------------
(***************************************************************************)
(* Conversations, their members and their threads                          *)
(* (src/src/services/chatService.ts and its three tables).                 *)
(*                                                                         *)
(* A call checks who is asking in one statement and writes in later ones;  *)
(* only leaving, and the creation of a conversation with its members, is a *)
(* transaction. A member row is known by its conversation, its user and    *)
(* when it was inserted: a user who is added again has another row.        *)
(*                                                                         *)
(* Left out: texts, the socket's events and push (best effort, after the   *)
(* writes). One clock gives every row its time. `crossed`, `leaving`,      *)
(* `shown`, `missed` and `raced` are history the code does not keep.       *)
(***************************************************************************)
EXTENDS Integers, FiniteSets

CONSTANTS
  User,
  Conversation,  \* conversation ids; bounds how many are ever created
  Request,       \* handlers that may be in flight at a time
  NoHeir,        \* an owner who leaves finds nobody to take over
  MaxCalls,      \* bounds the calls that are ever made
  PageLimit      \* getMessages: how many messages a thread shows

ASSUME ChatAssumption ==
  /\ NoHeir \notin Conversation \X User \X Nat
  /\ MaxCalls \in Nat
  /\ PageLimit \in Nat \ {0}

GroupRole == {"owner", "admin", "member"}
Rank == [role \in GroupRole |-> CASE role = "owner" -> 0 [] role = "admin" -> 1 [] OTHER -> 2]

Time == Nat
ConversationRow == [id : Conversation, is_group : BOOLEAN, created_by : User, last_message_at : Time]
MemberKey == Conversation \X User \X Time
MemberRow == [key : MemberKey, role : GroupRole, last_read_at : Time]
Message == [conversation : Conversation, sender : User, created_at : Time, read : BOOLEAN]

Idle == [pc |-> "idle"]
Handler ==
  {Idle}
    \cup [pc : {"open"}, user : User, peer : User]
    \cup [pc : {"add"}, user : User, conversation : Conversation, added : SUBSET User]
    \cup [pc : {"role"}, user : User, conversation : Conversation, target : MemberKey, role : GroupRole]
    \cup [pc : {"remove"}, user : User, conversation : Conversation, target : MemberKey]
    \cup [pc : {"leave"}, user : User, conversation : Conversation, self : MemberKey, owner : BOOLEAN]
    \cup [pc : {"left"}, user : User, conversation : Conversation, self : MemberKey,
          heir : MemberKey \cup {NoHeir}, last : BOOLEAN, owner : BOOLEAN]
    \cup [pc : {"post", "preview"}, user : User, conversation : Conversation, created_at : Time]
    \cup [pc : {"mark", "receipts", "list"}, user : User, conversation : Conversation]

VARIABLES
  conversations,  \* the rows of Conversation
  members,        \* the rows of ConversationMember
  messages,       \* the rows of Message
  used,           \* conversation ids inserted so far
  req,            \* the handlers in flight
  clock,          \* the time of the last row
  calls,          \* how many calls were made
  crossed,        \* history: pairs of users who opened their conversation at the same time
  disturbed,      \* history: conversations left while another change of the roster was in flight
  shown,          \* history: <<user, conversation, created_at>> of messages listed to a user
  missed,         \* history: the same of messages counted as read and not listed
  raced           \* history: conversations whose last post was not alone, or did not finish

rosters == <<conversations, members>>
vars == <<rosters, messages, used, req, clock, calls, crossed, disturbed, shown, missed, raced>>

Goto(r, h) == req' = [req EXCEPT ![r] = h]
Call(r) == req[r] = Idle /\ calls < MaxCalls /\ calls' = calls + 1

Members(c) == {m \in members : m.key[1] = c}
MemberOf(c, u) == {m \in Members(c) : m.key[2] = u}
RowOf(c) == {row \in conversations : row.id = c}
IsGroup(c) == \E row \in RowOf(c) : row.is_group
NewMember(c, u, role) == [key |-> <<c, u, clock + 1>>, role |-> role, last_read_at |-> 0]

--------------------------------------------------------------------------------
(* What others see *)

\* serializeConversations: unread_count.
Unread(u, c) ==
  {x \in messages : x.conversation = c /\ x.sender # u
                      /\ \E m \in MemberOf(c, u) : x.created_at > m.last_read_at}

\* Mutant: only those the viewer opened.
Shared_Opened(u, v) ==
  {row \in conversations : ~row.is_group /\ row.created_by = u
                             /\ MemberOf(row.id, u) # {} /\ MemberOf(row.id, v) # {}}

\* openWith: the 1:1 conversations both belong to.
Shared(u, v) ==
  {row \in conversations : ~row.is_group /\ MemberOf(row.id, u) # {} /\ MemberOf(row.id, v) # {}}

--------------------------------------------------------------------------------
(* openWith, createGroup *)

Opening(r, u, v) ==
  \E s \in Request \ {r} : req[s].pc = "open" /\ req[s].user \in {u, v} /\ req[s].peer \in {u, v}

\* The three reads. An existing conversation ends the call.
Open(r, u, v) ==
  /\ Call(r)
  /\ u # v
  /\ Shared(u, v) = {}
  /\ Goto(r, [pc |-> "open", user |-> u, peer |-> v])
  /\ crossed' = IF Opening(r, u, v) THEN crossed \cup {{u, v}} ELSE crossed
  /\ UNCHANGED <<rosters, messages, used, clock, disturbed, shown, missed, raced>>

\* The transaction: the conversation and its two members. It opens with a greeting
\* in the inbox that no message is behind.
CommitOpen(r, c) ==
  LET u == req[r].user
      v == req[r].peer
  IN
  /\ req[r].pc = "open"
  /\ c \notin used
  /\ used' = used \cup {c}
  /\ conversations' = conversations \cup
       {[id |-> c, is_group |-> FALSE, created_by |-> u, last_message_at |-> clock + 1]}
  /\ members' = members \cup {NewMember(c, w, "member") : w \in {u, v}}
  /\ clock' = clock + 1
  /\ Goto(r, Idle)
  /\ UNCHANGED <<messages, calls, crossed, disturbed, shown, missed, raced>>

\* One transaction; nothing it read can change before it.
CreateGroup(r, u, c, others) ==
  /\ Call(r)
  /\ c \notin used
  /\ used' = used \cup {c}
  /\ u \notin others /\ Cardinality(others) >= 2
  /\ conversations' = conversations \cup
       {[id |-> c, is_group |-> TRUE, created_by |-> u, last_message_at |-> 0]}
  /\ members' = members \cup {NewMember(c, u, "owner")} \cup {NewMember(c, w, "member") : w \in others}
  /\ clock' = clock + 1
  /\ UNCHANGED <<messages, req, crossed, disturbed, shown, missed, raced>>

--------------------------------------------------------------------------------
(* addMembers, setMemberRole, removeMember *)

\* requireGroupRole.
Allowed(u, c, roles) == IsGroup(c) /\ \E m \in MemberOf(c, u) : m.role \in roles

Leaves(s, c) == req[s].pc \in {"leave", "left"} /\ req[s].conversation = c
ChangesRoster(s, c) == req[s].pc \in {"role", "remove", "leave", "left"} /\ req[s].conversation = c
Disturb(c, disturbing) == disturbed' = IF disturbing THEN disturbed \cup {c} ELSE disturbed
BesideLeave(r, c) == \E s \in Request \ {r} : Leaves(s, c)

\* The check, and the rows that are there already.
AddMembers(r, u, c, users) ==
  LET added == {w \in users : MemberOf(c, w) = {}} IN
  /\ Call(r)
  /\ Allowed(u, c, {"owner", "admin"})
  /\ added # {}
  /\ Goto(r, [pc |-> "add", user |-> u, conversation |-> c, added |-> added])
  /\ UNCHANGED <<rosters, messages, used, clock, crossed, disturbed, shown, missed, raced>>

\* Mutant: the rows go in whoever is there by now.
InsertMembers_Twice(r) ==
  LET c == req[r].conversation IN
  /\ req[r].pc = "add"
  /\ RowOf(c) # {}
  /\ members' = members \cup {NewMember(c, w, "member") : w \in req[r].added}
  /\ clock' = clock + 1
  /\ Goto(r, Idle)
  /\ UNCHANGED <<conversations, messages, used, calls, crossed, disturbed, shown, missed, raced>>

\* One insert: somebody who is a member by now, or a conversation that is gone,
\* fails it whole (Abort).
InsertMembers(r) ==
  LET c == req[r].conversation IN
  /\ req[r].pc = "add"
  /\ RowOf(c) # {}
  /\ \A w \in req[r].added : MemberOf(c, w) = {}
  /\ members' = members \cup {NewMember(c, w, "member") : w \in req[r].added}
  /\ clock' = clock + 1
  /\ Goto(r, Idle)
  /\ UNCHANGED <<conversations, messages, used, calls, crossed, disturbed, shown, missed, raced>>

SetMemberRole(r, u, c, role) ==
  /\ Call(r)
  /\ Allowed(u, c, {"owner"})
  /\ role # "owner"
  /\ \E m \in Members(c) :
       /\ m.role \notin {"owner", role}
       /\ Goto(r, [pc |-> "role", user |-> u, conversation |-> c, target |-> m.key, role |-> role])
  /\ Disturb(c, BesideLeave(r, c))
  /\ UNCHANGED <<rosters, messages, used, clock, crossed, shown, missed, raced>>

\* A member row a transaction has deleted is locked until it commits.
Unlocked(r, key) == \A s \in Request \ {r} : req[s].pc = "left" /\ ~req[s].owner => req[s].self # key

\* target.update, by key.
UpdateRole(r) ==
  /\ req[r].pc = "role"
  /\ Unlocked(r, req[r].target)
  /\ members' = {IF m.key = req[r].target THEN [m EXCEPT !.role = req[r].role] ELSE m : m \in members}
  /\ Goto(r, Idle)
  /\ UNCHANGED <<conversations, messages, used, clock, calls, crossed, disturbed, shown, missed, raced>>

RemoveMember(r, u, c) ==
  /\ Call(r)
  /\ Allowed(u, c, {"owner", "admin"})
  /\ \E m \in Members(c) :
       /\ m.role # "owner"
       /\ m.role = "admin" => Allowed(u, c, {"owner"})
       /\ Goto(r, [pc |-> "remove", user |-> u, conversation |-> c, target |-> m.key])
  /\ Disturb(c, BesideLeave(r, c))
  /\ UNCHANGED <<rosters, messages, used, clock, crossed, shown, missed, raced>>

\* target.destroy, by key.
DeleteMember(r) ==
  /\ req[r].pc = "remove"
  /\ Unlocked(r, req[r].target)
  /\ members' = {m \in members : m.key # req[r].target}
  /\ Goto(r, Idle)
  /\ UNCHANGED <<conversations, messages, used, clock, calls, crossed, disturbed, shown, missed, raced>>

--------------------------------------------------------------------------------
(* leaveGroup *)

\* What it reads before its transaction.
Leave(r, u, c) ==
  /\ Call(r)
  /\ \E m \in MemberOf(c, u) :
       Goto(r, [pc |-> "leave", user |-> u, conversation |-> c, self |-> m.key,
                owner |-> IsGroup(c) /\ m.role = "owner"])
  /\ Disturb(c, \E s \in Request \ {r} : ChangesRoster(s, c))
  /\ UNCHANGED <<rosters, messages, used, clock, crossed, shown, missed, raced>>

\* The most senior of the others: by role, then by when they joined.
Before(m, n) ==
  \/ Rank[m.role] < Rank[n.role]
  \/ m.role = n.role /\ m.key[3] < n.key[3]
Senior(rows) == {m \in rows : \A n \in rows : ~Before(n, m)}

\* Mutant: the owner is among those it looks for a successor in.
StartLeave_OwnerSucceeds(r) ==
  LET c == req[r].conversation
      h == req[r]
      others == Members(c)
  IN
  /\ h.pc = "leave"
  /\ h.owner \/ Unlocked(r, h.self)
  /\ \E heir \in IF h.owner /\ others # {} THEN {m.key : m \in Senior(others)} ELSE {NoHeir} :
       Goto(r, [pc |-> "left", user |-> h.user, conversation |-> c, self |-> h.self,
                heir |-> heir, last |-> others = {}, owner |-> h.owner])
  /\ UNCHANGED <<rosters, messages, used, clock, calls, crossed, disturbed, shown, missed, raced>>

\* The transaction's first statements: an owner looks for a successor; anybody else
\* deletes their row and counts the rest, the rows others are deleting with it.
StartLeave(r) ==
  LET c == req[r].conversation
      h == req[r]
      others == {m \in Members(c) : m.key[2] # h.user}
  IN
  /\ h.pc = "leave"
  /\ h.owner \/ Unlocked(r, h.self)
  /\ \E heir \in IF h.owner /\ others # {} THEN {m.key : m \in Senior(others)} ELSE {NoHeir} :
       Goto(r, [pc |-> "left", user |-> h.user, conversation |-> c, self |-> h.self,
                heir |-> heir, last |-> others = {}, owner |-> h.owner])
  /\ UNCHANGED <<rosters, messages, used, clock, calls, crossed, disturbed, shown, missed, raced>>

\* The rest of it. A successor who is gone is no error; a conversation that goes
\* takes its members and its messages with it.
CommitLeave(r) ==
  LET h == req[r]
      left == {m \in members : m.key # h.self}
      heirs == {IF m.key = h.heir THEN [m EXCEPT !.role = "owner"] ELSE m : m \in left}
  IN
  /\ h.pc = "left"
  /\ h.owner => Unlocked(r, h.self) /\ Unlocked(r, h.heir)
  /\ conversations' = {row \in conversations : ~(h.last /\ row.id = h.conversation)}
  /\ members' = {m \in heirs : ~(h.last /\ m.key[1] = h.conversation)}
  /\ messages' = {x \in messages : ~(h.last /\ x.conversation = h.conversation)}
  /\ Goto(r, Idle)
  /\ UNCHANGED <<used, clock, calls, crossed, disturbed, shown, missed, raced>>

--------------------------------------------------------------------------------
(* postMessage *)

Posts(s, c) == req[s].pc \in {"post", "preview"} /\ req[s].conversation = c

\* The check; created_at is given when the row is built, before it is inserted.
Post(r, u, c) ==
  /\ Call(r)
  /\ MemberOf(c, u) # {}
  /\ clock' = clock + 1
  /\ Goto(r, [pc |-> "post", user |-> u, conversation |-> c, created_at |-> clock'])
  /\ raced' = IF \E s \in Request \ {r} : Posts(s, c) THEN raced \cup {c} ELSE raced
  /\ UNCHANGED <<rosters, messages, used, crossed, disturbed, shown, missed>>

InsertMessage(r) ==
  LET h == req[r] IN
  /\ h.pc = "post"
  /\ RowOf(h.conversation) # {}
  /\ messages' = messages \cup
       {[conversation |-> h.conversation, sender |-> h.user, created_at |-> h.created_at, read |-> FALSE]}
  /\ Goto(r, [h EXCEPT !.pc = "preview"])
  /\ UNCHANGED <<rosters, used, clock, calls, crossed, disturbed, shown, missed, raced>>

\* Mutant: the inbox takes the time of the update.
UpdatePreview_Now(r) ==
  LET h == req[r] IN
  /\ h.pc = "preview"
  /\ conversations' =
       {IF row.id = h.conversation THEN [row EXCEPT !.last_message_at = clock] ELSE row :
          row \in conversations}
  /\ Goto(r, Idle)
  /\ UNCHANGED <<members, messages, used, clock, calls, crossed, disturbed, shown, missed, raced>>

\* Conversation.update: the inbox shows this message, whatever it showed.
UpdatePreview(r) ==
  LET h == req[r] IN
  /\ h.pc = "preview"
  /\ conversations' =
       {IF row.id = h.conversation THEN [row EXCEPT !.last_message_at = h.created_at] ELSE row :
          row \in conversations}
  /\ Goto(r, Idle)
  /\ UNCHANGED <<members, messages, used, clock, calls, crossed, disturbed, shown, missed, raced>>

--------------------------------------------------------------------------------
(* getMessages *)

OpenThread(r, u, c) ==
  /\ Call(r)
  /\ MemberOf(c, u) # {}
  /\ Goto(r, [pc |-> "mark", user |-> u, conversation |-> c])
  /\ UNCHANGED <<rosters, messages, used, clock, crossed, disturbed, shown, missed, raced>>

\* What u never sees counted: built before u's reading, inserted after it.
InFlight(u, c) ==
  {<<u, c, req[s].created_at>> : s \in {s \in Request : req[s].pc = "post" /\ req[s].conversation = c}}

\* Mutant: reads on through the message that is on its way.
MarkRead_Ahead(r) ==
  LET h == req[r] IN
  /\ h.pc = "mark"
  /\ members' =
       {IF m.key[1] = h.conversation /\ m.key[2] = h.user
        THEN [m EXCEPT !.last_read_at = clock + 1] ELSE m : m \in members}
  /\ missed' = missed \cup InFlight(h.user, h.conversation)
  /\ Goto(r, [h EXCEPT !.pc = "receipts"])
  /\ UNCHANGED <<conversations, messages, used, clock, calls, crossed, disturbed, shown, raced>>

\* last_read_at becomes the time of the reading.
MarkRead(r) ==
  LET h == req[r] IN
  /\ h.pc = "mark"
  /\ members' =
       {IF m.key[1] = h.conversation /\ m.key[2] = h.user
        THEN [m EXCEPT !.last_read_at = clock] ELSE m : m \in members}
  /\ missed' = missed \cup InFlight(h.user, h.conversation)
  /\ Goto(r, [h EXCEPT !.pc = "receipts"])
  /\ UNCHANGED <<conversations, messages, used, clock, calls, crossed, disturbed, shown, raced>>

\* The read receipts of everyone else's messages.
MarkReceipts(r) ==
  LET h == req[r] IN
  /\ h.pc = "receipts"
  /\ messages' =
       {IF x.conversation = h.conversation /\ x.sender # h.user THEN [x EXCEPT !.read = TRUE] ELSE x :
          x \in messages}
  /\ Goto(r, [h EXCEPT !.pc = "list"])
  /\ UNCHANGED <<rosters, used, clock, calls, crossed, disturbed, shown, missed, raced>>

\* The oldest PageLimit messages: what comes after them is never listed.
Listed(x) == Cardinality({y \in messages : y.conversation = x.conversation
                                             /\ y.created_at < x.created_at}) < PageLimit

ListThread(r) ==
  LET h == req[r]
      Seen(l) == {<<h.user, h.conversation, x.created_at>> :
                    x \in {x \in messages : x.conversation = h.conversation /\ Listed(x) = l}}
  IN
  /\ h.pc = "list"
  /\ shown' = shown \cup Seen(TRUE)
  /\ missed' = missed \cup Seen(FALSE)
  /\ Goto(r, Idle)
  /\ UNCHANGED <<rosters, messages, used, clock, calls, crossed, disturbed, raced>>

--------------------------------------------------------------------------------

\* A handler dies or a statement throws. Messages may be counted as read and not
\* listed, a message posted and not shown in the inbox.
Abort(r) ==
  LET h == req[r] IN
  /\ h # Idle
  /\ missed' = missed \cup
       IF h.pc \in {"receipts", "list"}
       THEN {<<h.user, h.conversation, x.created_at>> :
               x \in {x \in messages : x.conversation = h.conversation}}
       ELSE {}
  /\ raced' = raced \cup IF h.pc = "preview" THEN {h.conversation} ELSE {}
  /\ Goto(r, Idle)
  /\ UNCHANGED <<rosters, messages, used, clock, calls, crossed, disturbed, shown>>

Init ==
  /\ conversations = {}
  /\ members = {}
  /\ messages = {}
  /\ used = {}
  /\ req = [r \in Request |-> Idle]
  /\ clock = 0
  /\ calls = 0
  /\ crossed = {}
  /\ disturbed = {}
  /\ shown = {}
  /\ missed = {}
  /\ raced = {}

Begin(r, u) ==
  \/ \E v \in User : Open(r, u, v)
  \/ \E c \in Conversation :
       \/ \E others \in SUBSET User : CreateGroup(r, u, c, others)
       \/ \E users \in SUBSET User : AddMembers(r, u, c, users)
       \/ \E role \in GroupRole : SetMemberRole(r, u, c, role)
       \/ RemoveMember(r, u, c)
       \/ Leave(r, u, c)
       \/ Post(r, u, c)
       \/ OpenThread(r, u, c)

Continue(r) ==
  \/ \E c \in Conversation : CommitOpen(r, c)
  \/ InsertMembers(r)
  \/ UpdateRole(r)
  \/ DeleteMember(r)
  \/ StartLeave(r)
  \/ CommitLeave(r)
  \/ InsertMessage(r)
  \/ UpdatePreview(r)
  \/ MarkRead(r)
  \/ MarkReceipts(r)
  \/ ListThread(r)
  \/ Abort(r)

Next == \E r \in Request : Continue(r) \/ \E u \in User : Begin(r, u)

Spec == Init /\ [][Next]_vars

--------------------------------------------------------------------------------
(* Properties *)

\* The id is a key of the conversations, <<conversation, user>> of the members,
\* and a member or a message has its conversation.
TypeOK ==
  /\ conversations \subseteq ConversationRow
  /\ members \subseteq MemberRow
  /\ messages \subseteq Message
  /\ req \in [Request -> Handler]
  /\ used \subseteq Conversation /\ \A row \in conversations : row.id \in used
  /\ clock \in Time /\ calls \in 0 .. MaxCalls
  /\ \A row1, row2 \in conversations : row1.id = row2.id => row1 = row2
  /\ \A m, n \in members : m.key[1] = n.key[1] /\ m.key[2] = n.key[2] => m = n
  /\ \A m \in members : RowOf(m.key[1]) # {}
  /\ \A x \in messages : RowOf(x.conversation) # {}

\* Two users share one 1:1 conversation at most, unless both were opening it at the
\* same time: nothing but the reads before the transaction keeps it so (openWith).
OneDirect ==
  \A u, v \in User :
    u # v /\ {u, v} \notin crossed =>
      Cardinality({row \in conversations :
                     ~row.is_group /\ MemberOf(row.id, u) # {} /\ MemberOf(row.id, v) # {}}) <= 1

\* Somebody is in every conversation, and a group has exactly one owner, whoever
\* leaves, is removed or is given a role, unless somebody was leaving while another
\* such call was in flight: each works on rows it read before (leaveGroup,
\* setMemberRole, removeMember).
OneOwner ==
  \A row \in conversations : row.id \notin disturbed =>
    /\ Members(row.id) # {}
    /\ row.is_group => Cardinality({m \in Members(row.id) : m.role = "owner"}) = 1

\* A member has seen every message of the others or finds it unread, and a message
\* is marked read when somebody has seen it: but for one that was being inserted
\* while the thread was read, one beyond the page, and a reading that died half-way
\* (getMessages, serializeConversations).
SeenOrUnread ==
  \A x \in messages :
    LET Reads(u) == \E r \in Request : /\ req[r].pc \in {"receipts", "list"}
                                       /\ req[r].user = u
                                       /\ req[r].conversation = x.conversation
        Accounted(u) ==
          \/ Reads(u)
          \/ <<u, x.conversation, x.created_at>> \in shown \cup missed
    IN
    /\ \A u \in User \ {x.sender} :
         MemberOf(x.conversation, u) # {} /\ x \notin Unread(u, x.conversation) => Accounted(u)
    /\ x.read => \E u \in User : Accounted(u)

\* The inbox shows the newest message of a conversation that has one, once its post
\* is done, unless two were being posted at once or one died before the update
\* (postMessage). Before the first it shows what openWith and createGroup put there.
PreviewNewest ==
  \A row \in conversations :
    row.id \notin raced /\ (\A r \in Request : ~Posts(r, row.id)) =>
      /\ \A x \in messages : x.conversation = row.id => x.created_at <= row.last_message_at
      /\ (\E x \in messages : x.conversation = row.id) =>
           \E x \in messages : x.conversation = row.id /\ x.created_at = row.last_message_at

================================================================================
