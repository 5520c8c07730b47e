---------------------------- MODULE GroupChatProofs ----------------------------
(***************************************************************************)
(* Theorems about module GroupChat, for every set of users and             *)
(* conversations, any number of calls in flight and pages of any length.   *)
(*                                                                         *)
(* Each property has an invariant of its own; all of them rest on the      *)
(* types and on TimesInv. What they say is who may still write what a      *)
(* handler has read: nobody but the one that leaves, as long as nobody     *)
(* disturbs it; nobody at all, for a message that is on its way.           *)
(***************************************************************************)
EXTENDS GroupChat, FiniteSetTheorems, TLAPS

\* What a call works on was created before; members are added, given roles and
\* removed in groups only.
Works(r) ==
  /\ req[r].pc \notin {"idle", "open"} => req[r].conversation \in used
  /\ req[r].pc \in {"add", "role", "remove"} => \A row \in RowOf(req[r].conversation) : row.is_group
  /\ req[r].pc \in {"role", "remove"} => req[r].target[1] = req[r].conversation
  /\ req[r].pc \in {"leave", "left"} =>
       req[r].self[1] = req[r].conversation /\ req[r].self[2] = req[r].user
  /\ req[r].pc = "left" /\ req[r].heir # NoHeir => req[r].heir[1] = req[r].conversation
  /\ req[r].pc \in {"post", "preview"} => req[r].created_at \in 1 .. clock

\* Nothing is later than the clock.
TimesInv ==
  /\ \A r \in Request : Works(r)
  /\ \A m \in members : m.last_read_at <= clock
  /\ \A x \in messages : x.created_at \in 1 .. clock

\* The 1:1 conversation c has u and v as members.
Direct(c, u, v) ==
  /\ \E row \in RowOf(c) : ~row.is_group
  /\ MemberOf(c, u) # {} /\ MemberOf(c, v) # {}

Opens(r, u, v) == req[r].pc = "open" /\ {req[r].user, req[r].peer} = {u, v}

\* Two users who open their conversation and have not crossed have none yet.
DirectInv ==
  /\ \A u, v \in User : u # v /\ {u, v} \notin crossed =>
       /\ \A c, d \in Conversation : Direct(c, u, v) /\ Direct(d, u, v) => c = d
       /\ \A r \in Request : Opens(r, u, v) => \A c \in Conversation : ~Direct(c, u, v)
       /\ \A r, s \in Request : Opens(r, u, v) /\ Opens(s, u, v) => r = s
  /\ \A r \in Request : req[r].pc = "open" => req[r].user # req[r].peer

\* Who is in c, and as what.
Roster(c) == {<<m.key, m.role>> : m \in Members(c)}

\* What a call that changes the roster of c remembers of it.
RoleAt(r, c) ==
  req[r].pc \in {"role", "remove"} /\ req[r].conversation = c =>
    /\ \A p \in Roster(c) : p[1] = req[r].target => p[2] # "owner"
    /\ req[r].pc = "role" => req[r].role # "owner"

LeaveAt(r, c) ==
  Leaves(r, c) =>
    \E p \in Roster(c) : /\ p[1] = req[r].self
                         /\ req[r].owner <=> IsGroup(c) /\ p[2] = "owner"

LeftAt(r, c) ==
  req[r].pc = "left" /\ req[r].conversation = c /\ ~req[r].last =>
    /\ \E p \in Roster(c) : /\ p[1] # req[r].self
                            /\ req[r].owner => p[1] = req[r].heir
    /\ ~req[r].owner => req[r].heir = NoHeir

OwnerAt(c) ==
  /\ RowOf(c) # {} => Roster(c) # {}
  /\ IsGroup(c) => \E p \in Roster(c) : /\ p[2] = "owner"
                                        /\ \A q \in Roster(c) : q[2] = "owner" => q = p
  /\ \A r \in Request : RoleAt(r, c) /\ LeaveAt(r, c) /\ LeftAt(r, c)
  /\ \A r, s \in Request : r # s /\ Leaves(r, c) => ~ChangesRoster(s, c)

OwnerInv == \A c \in Conversation : c \notin disturbed => OwnerAt(c)

Reads(u, c) == \E r \in Request : /\ req[r].pc \in {"receipts", "list"}
                                  /\ req[r].user = u /\ req[r].conversation = c
Accounted(u, c, t) == Reads(u, c) \/ <<u, c, t>> \in shown \cup missed

\* u's reading of c is not before t.
ReadTo(u, c, t) == \E m \in MemberOf(c, u) : t <= m.last_read_at

\* The others have seen x, or it is unread; who has marked it has seen it.
MessageSeen(x) ==
  /\ \A u \in User \ {x.sender} : ReadTo(u, x.conversation, x.created_at) =>
                                    Accounted(u, x.conversation, x.created_at)
  /\ x.read => \E u \in User : Accounted(u, x.conversation, x.created_at)

\* A message that is on its way is missed by those who have read on.
PostSeen(r) ==
  req[r].pc = "post" =>
    \A u \in User \ {req[r].user} : ReadTo(u, req[r].conversation, req[r].created_at) =>
      <<u, req[r].conversation, req[r].created_at>> \in missed

SeenInv == (\A x \in messages : MessageSeen(x)) /\ (\A r \in Request : PostSeen(r))

\* The post that is alone in its conversation is the newest.
PosterAt(r, c) ==
  Posts(r, c) =>
    /\ \A x \in messages : x.conversation = c => x.created_at <= req[r].created_at
    /\ req[r].pc = "preview" =>
         \E x \in messages : x.conversation = c /\ x.created_at = req[r].created_at

PreviewAt(row) ==
  /\ \A r, s \in Request : Posts(r, row.id) /\ Posts(s, row.id) => r = s
  /\ \A r \in Request : PosterAt(r, row.id)
  /\ \A x \in messages : x.conversation = row.id =>
       \/ x.created_at <= row.last_message_at
       \/ \E r \in Request : req[r].pc = "preview" /\ req[r].conversation = row.id
  /\ \/ \A x \in messages : x.conversation # row.id
     \/ \E x \in messages : x.conversation = row.id /\ x.created_at = row.last_message_at
     \/ \E r \in Request : req[r].pc = "preview" /\ req[r].conversation = row.id

PreviewInv == \A row \in conversations : row.id \notin raced => PreviewAt(row)

--------------------------------------------------------------------------------
(* Types *)

\* What a handler remembers, by the step it is at.
LEMMA HandlerFields ==
  ASSUME NEW h \in Handler
  PROVE  /\ h.pc \in {"idle", "open", "add", "role", "remove", "leave", "left", "post", "preview",
                      "mark", "receipts", "list"}
         /\ h.pc = "idle" <=> h = Idle
         /\ h.pc # "idle" => h.user \in User
         /\ h.pc = "open" => h.peer \in User
         /\ h.pc \notin {"idle", "open"} => h.conversation \in Conversation
         /\ h.pc = "add" => h.added \subseteq User
         /\ h.pc \in {"role", "remove"} => h.target \in MemberKey
         /\ h.pc = "role" => h.role \in GroupRole
         /\ h.pc \in {"leave", "left"} => h.self \in MemberKey /\ h.owner \in BOOLEAN
         /\ h.pc = "left" => h.heir \in MemberKey \cup {NoHeir} /\ h.last \in BOOLEAN
         /\ h.pc \in {"post", "preview"} => h.created_at \in Nat
BY DEF Handler, Idle, Time

\* The records handlers become are handlers.
LEMMA HandlerShapes ==
  /\ Idle \in Handler /\ Idle.pc = "idle"
  /\ \A u, v \in User : [pc |-> "open", user |-> u, peer |-> v] \in Handler
  /\ \A u \in User, c \in Conversation :
       /\ \A users \in SUBSET User :
            [pc |-> "add", user |-> u, conversation |-> c, added |-> users] \in Handler
       /\ \A t \in MemberKey, role \in GroupRole :
            [pc |-> "role", user |-> u, conversation |-> c, target |-> t, role |-> role] \in Handler
       /\ \A t \in MemberKey :
            [pc |-> "remove", user |-> u, conversation |-> c, target |-> t] \in Handler
       /\ \A t \in MemberKey, owner \in BOOLEAN :
            [pc |-> "leave", user |-> u, conversation |-> c, self |-> t, owner |-> owner] \in Handler
       /\ \A t \in MemberKey, heir \in MemberKey \cup {NoHeir}, last \in BOOLEAN, owner \in BOOLEAN :
            [pc |-> "left", user |-> u, conversation |-> c, self |-> t, heir |-> heir,
             last |-> last, owner |-> owner] \in Handler
       /\ \A pc \in {"post", "preview"}, t \in Nat :
            [pc |-> pc, user |-> u, conversation |-> c, created_at |-> t] \in Handler
       /\ \A pc \in {"mark", "receipts", "list"} :
            [pc |-> pc, user |-> u, conversation |-> c] \in Handler
BY DEF Handler, Idle, Time

LEMMA GotoReq ==
  ASSUME req \in [Request -> Handler], NEW r \in Request, NEW h \in Handler, Goto(r, h)
  PROVE  /\ req' \in [Request -> Handler]
         /\ req'[r] = h
         /\ \A q \in Request \ {r} : req'[q] = req[q]
BY DEF Goto

\* HandlerFields, for the handler of a slot.
LEMMA RequestFields ==
  ASSUME TypeOK, NEW r \in Request
  PROVE  /\ req[r] \in Handler
         /\ req[r].pc # "idle" => req[r].user \in User
         /\ req[r].pc = "open" => req[r].peer \in User
         /\ req[r].pc \notin {"idle", "open"} => req[r].conversation \in Conversation
         /\ req[r].pc = "add" => req[r].added \subseteq User
         /\ req[r].pc \in {"role", "remove"} => req[r].target \in MemberKey
         /\ req[r].pc = "role" => req[r].role \in GroupRole
         /\ req[r].pc \in {"leave", "left"} => req[r].self \in MemberKey /\ req[r].owner \in BOOLEAN
         /\ req[r].pc = "left" => req[r].heir \in MemberKey \cup {NoHeir} /\ req[r].last \in BOOLEAN
         /\ req[r].pc \in {"post", "preview"} => req[r].created_at \in Nat
<1>1. req[r] \in Handler
  BY DEF TypeOK
<1>2. QED
  BY <1>1, HandlerFields

LEMMA MemberFields ==
  ASSUME NEW m \in MemberRow
  PROVE  /\ m.key \in MemberKey /\ m.role \in GroupRole /\ m.last_read_at \in Nat
         /\ m.key[1] \in Conversation /\ m.key[2] \in User /\ m.key[3] \in Nat
         /\ m.key # NoHeir
BY ChatAssumption DEF MemberRow, MemberKey, Time

LEMMA RowFields ==
  ASSUME NEW row \in ConversationRow
  PROVE  row.id \in Conversation /\ row.is_group \in BOOLEAN /\ row.created_by \in User
         /\ row.last_message_at \in Nat
BY DEF ConversationRow, Time

LEMMA MessageFields ==
  ASSUME NEW x \in Message
  PROVE  /\ x.conversation \in Conversation /\ x.sender \in User /\ x.created_at \in Nat
         /\ x.read \in BOOLEAN
BY DEF Message, Time

\* Two rows of one conversation and one user are one; so are two with one key.
LEMMA OneRow ==
  ASSUME TypeOK, NEW m \in members, NEW n \in members
  PROVE  /\ m.key[1] = n.key[1] /\ m.key[2] = n.key[2] => m = n
         /\ m.key = n.key => m = n
BY DEF TypeOK

--------------------------------------------------------------------------------
(* TypeOK *)

\* The handler moves on, and keeps what it remembers.
LEMMA HandlerMoves ==
  ASSUME NEW h \in Handler, NEW pc,
         \/ h.pc = "post" /\ pc = "preview"
         \/ h.pc = "mark" /\ pc = "receipts"
         \/ h.pc = "receipts" /\ pc = "list"
  PROVE  /\ [h EXCEPT !.pc = pc] \in Handler
         /\ [h EXCEPT !.pc = pc].pc = pc
         /\ [h EXCEPT !.pc = pc].user = h.user
         /\ [h EXCEPT !.pc = pc].conversation = h.conversation
         /\ h.pc = "post" => [h EXCEPT !.pc = pc].created_at = h.created_at
<1>1. CASE h.pc = "post" /\ pc = "preview"
  <2>1. h \in [pc : {"post", "preview"}, user : User, conversation : Conversation, created_at : Time]
    BY <1>1 DEF Handler, Idle
  <2>2. [h EXCEPT !.pc = pc] \in [pc : {"post", "preview"}, user : User, conversation : Conversation,
                                   created_at : Time]
    BY <2>1, <1>1
  <2>3. QED
    BY <1>1, <2>1, <2>2 DEF Handler
<1>2. CASE h.pc \in {"mark", "receipts"} /\ pc \in {"receipts", "list"}
  <2>1. h \in [pc : {"mark", "receipts", "list"}, user : User, conversation : Conversation]
    BY <1>2 DEF Handler, Idle
  <2>2. [h EXCEPT !.pc = pc] \in [pc : {"mark", "receipts", "list"}, user : User,
                                   conversation : Conversation]
    BY <2>1, <1>2
  <2>3. QED
    BY <1>2, <2>1, <2>2 DEF Handler
<1>3. QED
  BY <1>1, <1>2

LEMMA CallTypes ==
  ASSUME TypeOK, NEW r \in Request, Call(r)
  PROVE  calls' \in 0 .. MaxCalls /\ req[r] = Idle /\ req[r].pc = "idle"
BY ChatAssumption DEF TypeOK, Call, Idle

\* A step that leaves the tables as they are.
LEMMA QuietTypes ==
  ASSUME TypeOK, UNCHANGED <<rosters, messages, used>>,
         req' \in [Request -> Handler], clock' \in Nat, calls' \in 0 .. MaxCalls
  PROVE  TypeOK'
BY DEF TypeOK, rosters, RowOf, Time

\* A new conversation and its members.
LEMMA CreatedTypes ==
  ASSUME TypeOK, NEW c \in Conversation, c \notin used, NEW row \in ConversationRow, row.id = c,
         NEW new \in SUBSET MemberRow,
         \A m \in new : m.key[1] = c,
         \A m, n \in new : m.key[2] = n.key[2] => m = n,
         conversations' = conversations \cup {row}, members' = members \cup new,
         used' = used \cup {c}, UNCHANGED messages,
         req' \in [Request -> Handler], clock' \in Nat, calls' \in 0 .. MaxCalls
  PROVE  TypeOK'
<1>1. \A m \in members : m.key[1] # c
  BY DEF TypeOK, RowOf
<1>2. \A old \in conversations : old.id # c
  BY DEF TypeOK
<1>3. \A m, n \in members' : m.key[1] = n.key[1] /\ m.key[2] = n.key[2] => m = n
  BY <1>1 DEF TypeOK
<1>4. \A m \in members' : RowOf(m.key[1])' # {}
  BY DEF TypeOK, RowOf
<1>5. \A x \in messages' : RowOf(x.conversation)' # {}
  BY DEF TypeOK, RowOf
<1>6. \A row1, row2 \in conversations' : row1.id = row2.id => row1 = row2
  BY <1>2 DEF TypeOK
<1>7. QED
  BY <1>3, <1>4, <1>5, <1>6 DEF TypeOK, Time

\* Rows of a member table and a thread that have their conversations.
LEMMA RowsTypes ==
  ASSUME TypeOK, UNCHANGED used,
         conversations' \subseteq ConversationRow,
         \A row1, row2 \in conversations' : row1.id = row2.id => row1 = row2,
         \A n \in conversations' : \E row \in conversations : n.id = row.id,
         members' \subseteq MemberRow,
         \A m, n \in members' : m.key[1] = n.key[1] /\ m.key[2] = n.key[2] => m = n,
         \A m \in members' : \E row \in conversations' : row.id = m.key[1],
         messages' \subseteq Message,
         \A x \in messages' : \E row \in conversations' : row.id = x.conversation,
         req' \in [Request -> Handler], UNCHANGED calls, UNCHANGED clock \/ clock' = clock + 1
  PROVE  TypeOK'
<1>1. /\ \A m \in members' : RowOf(m.key[1])' # {}
      /\ \A x \in messages' : RowOf(x.conversation)' # {}
  BY DEF RowOf
<1>2. clock' \in Nat /\ calls' \in 0 .. MaxCalls
  BY DEF TypeOK, Time
<1>3. QED
  BY <1>1, <1>2 DEF TypeOK, Time

\* What has a conversation.
LEMMA HasRow ==
  ASSUME TypeOK
  PROVE  /\ \A m \in members : m \in MemberRow /\ \E row \in conversations : row.id = m.key[1]
         /\ \A x \in messages : x \in Message /\ \E row \in conversations : row.id = x.conversation
         /\ \A row1, row2 \in conversations : row1.id = row2.id => row1 = row2
         /\ \A row \in conversations : row \in ConversationRow /\ row.id \in used
         /\ \A m, n \in members : m.key[1] = n.key[1] /\ m.key[2] = n.key[2] => m = n
         /\ clock \in Nat
BY DEF TypeOK, RowOf, Time

LEMMA NewMemberFields ==
  ASSUME TypeOK, NEW c \in Conversation, NEW u \in User, NEW role \in GroupRole
  PROVE  /\ NewMember(c, u, role) \in MemberRow
         /\ NewMember(c, u, role).key = <<c, u, clock + 1>>
         /\ NewMember(c, u, role).role = role
         /\ NewMember(c, u, role).last_read_at = 0
BY DEF NewMember, MemberRow, MemberKey, TypeOK, Time


\* What is left of a message that goes in, and of the steps of a reading.
LEMMA GoesOn ==
  ASSUME TypeOK, NEW r \in Request, InsertMessage(r) \/ MarkRead(r) \/ MarkReceipts(r)
  PROVE  /\ req' \in [Request -> Handler]
         /\ \A q \in Request \ {r} : req'[q] = req[q]
         /\ req'[r].user = req[r].user /\ req'[r].conversation = req[r].conversation
         /\ InsertMessage(r) => /\ req[r].pc = "post" /\ req'[r].pc = "preview"
                                /\ req'[r].created_at = req[r].created_at
         /\ MarkRead(r) => req[r].pc = "mark" /\ req'[r].pc = "receipts"
         /\ MarkReceipts(r) => req[r].pc = "receipts" /\ req'[r].pc = "list"
<1>0. req \in [Request -> Handler] /\ req[r] \in Handler
  BY DEF TypeOK
<1>1. CASE InsertMessage(r)
  <2> DEFINE h == [req[r] EXCEPT !.pc = "preview"]
  <2>1. Goto(r, h) /\ req[r].pc = "post"
    BY <1>1 DEF InsertMessage
  <2>2. /\ h \in Handler /\ h.pc = "preview" /\ h.user = req[r].user
        /\ h.conversation = req[r].conversation /\ h.created_at = req[r].created_at
    BY <1>0, <2>1, HandlerMoves
  <2> HIDE DEF h
  <2>3. QED
    BY <1>0, <1>1, <2>1, <2>2, GotoReq DEF MarkRead, MarkReceipts
<1>2. CASE MarkRead(r)
  <2> DEFINE h == [req[r] EXCEPT !.pc = "receipts"]
  <2>1. Goto(r, h) /\ req[r].pc = "mark"
    BY <1>2 DEF MarkRead
  <2>2. /\ h \in Handler /\ h.pc = "receipts" /\ h.user = req[r].user
        /\ h.conversation = req[r].conversation
    BY <1>0, <2>1, HandlerMoves
  <2> HIDE DEF h
  <2>3. ~InsertMessage(r) /\ ~MarkReceipts(r)
    BY <2>1 DEF InsertMessage, MarkReceipts
  <2>4. QED
    BY <1>0, <2>1, <2>2, <2>3, GotoReq
<1>3. CASE MarkReceipts(r)
  <2> DEFINE h == [req[r] EXCEPT !.pc = "list"]
  <2>1. Goto(r, h) /\ req[r].pc = "receipts"
    BY <1>3 DEF MarkReceipts
  <2>2. /\ h \in Handler /\ h.pc = "list" /\ h.user = req[r].user
        /\ h.conversation = req[r].conversation
    BY <1>0, <2>1, HandlerMoves
  <2> HIDE DEF h
  <2>3. ~InsertMessage(r) /\ ~MarkRead(r)
    BY <2>1 DEF InsertMessage, MarkRead
  <2>4. QED
    BY <1>0, <2>1, <2>2, <2>3, GotoReq
<1>4. QED
  BY <1>1, <1>2, <1>3

\* The calls that begin without a write.
LEMMA QuietBegins ==
  ASSUME TypeOK, NEW r \in Request, NEW u \in User, NEW c \in Conversation,
         \/ \E v \in User : Open(r, u, v)
         \/ \E users \in SUBSET User : AddMembers(r, u, c, users)
         \/ \E role \in GroupRole : SetMemberRole(r, u, c, role)
         \/ RemoveMember(r, u, c)
         \/ Leave(r, u, c)
         \/ Post(r, u, c)
         \/ OpenThread(r, u, c)
  PROVE  /\ \E h \in Handler : Goto(r, h)
         /\ Call(r)
         /\ UNCHANGED <<rosters, messages, used>>
         /\ UNCHANGED clock \/ clock' = clock + 1
<1> USE HandlerShapes
<1>0. clock \in Nat /\ \A m \in members : m.key \in MemberKey
  BY DEF TypeOK, Time, MemberRow
<1>1. CASE \E v \in User : Open(r, u, v)
  BY <1>1 DEF Open
<1>2. CASE \E users \in SUBSET User : AddMembers(r, u, c, users)
  <2>1. PICK users \in SUBSET User : AddMembers(r, u, c, users)
    BY <1>2
  <2> DEFINE added == {w \in users : MemberOf(c, w) = {}}
  <2>2. added \in SUBSET User
    OBVIOUS
  <2>3. [pc |-> "add", user |-> u, conversation |-> c, added |-> added] \in Handler
    BY <2>2
  <2>4. QED
    BY <2>1, <2>3 DEF AddMembers
<1>3. CASE \E role \in GroupRole : SetMemberRole(r, u, c, role)
  BY <1>0, <1>3 DEF SetMemberRole, Members
<1>4. CASE RemoveMember(r, u, c)
  BY <1>0, <1>4 DEF RemoveMember, Members
<1>5. CASE Leave(r, u, c)
  <2>1. PICK m \in MemberOf(c, u) :
          Goto(r, [pc |-> "leave", user |-> u, conversation |-> c, self |-> m.key,
                   owner |-> IsGroup(c) /\ m.role = "owner"])
    BY <1>5 DEF Leave
  <2>2. m.key \in MemberKey /\ (IsGroup(c) /\ m.role = "owner") \in BOOLEAN
    BY <1>0 DEF MemberOf, Members
  <2>3. [pc |-> "leave", user |-> u, conversation |-> c, self |-> m.key,
          owner |-> IsGroup(c) /\ m.role = "owner"] \in Handler
    BY <2>2
  <2>4. QED
    BY <2>1, <2>3, <1>5 DEF Leave
<1>6. CASE Post(r, u, c)
  <2>1. clock' \in Nat
    BY <1>0, <1>6 DEF Post
  <2>2. [pc |-> "post", user |-> u, conversation |-> c, created_at |-> clock'] \in Handler
    BY <2>1
  <2>3. QED
    BY <2>2, <1>6 DEF Post
<1>7. CASE OpenThread(r, u, c)
  BY <1>7 DEF OpenThread
<1>8. QED
  BY <1>1, <1>2, <1>3, <1>4, <1>5, <1>6, <1>7

\* The steps that leave the tables as they are.
LEMMA QuietContinues ==
  ASSUME TypeOK, NEW r \in Request,
         StartLeave(r) \/ ListThread(r) \/ Abort(r)
  PROVE  /\ \E h \in Handler : Goto(r, h)
         /\ UNCHANGED <<rosters, messages, used, clock, calls>>
<1> USE HandlerShapes
<1>0. \A m \in members : m.key \in MemberKey
  BY DEF TypeOK, MemberRow
<1>1. CASE StartLeave(r)
  <2> DEFINE c == req[r].conversation
             h == req[r]
             others == {m \in Members(c) : m.key[2] # h.user}
             heirs == IF h.owner /\ others # {} THEN {m.key : m \in Senior(others)} ELSE {NoHeir}
  <2>1. PICK heir \in heirs :
          Goto(r, [pc |-> "left", user |-> h.user, conversation |-> c, self |-> h.self,
                   heir |-> heir, last |-> others = {}, owner |-> h.owner])
    BY <1>1 DEF StartLeave
  <2>2. heir \in MemberKey \cup {NoHeir}
    BY <1>0, <2>1 DEF Senior, Members
  <2>3. h.user \in User /\ c \in Conversation /\ h.self \in MemberKey /\ h.owner \in BOOLEAN
    BY <1>1, RequestFields DEF StartLeave
  <2>4. [pc |-> "left", user |-> h.user, conversation |-> c, self |-> h.self,
          heir |-> heir, last |-> others = {}, owner |-> h.owner] \in Handler
    BY <2>2, <2>3
  <2>5. QED
    BY <2>1, <2>4, <1>1 DEF StartLeave
<1>2. CASE ListThread(r)
  BY <1>2 DEF ListThread
<1>3. CASE Abort(r)
  BY <1>3 DEF Abort
<1>4. QED
  BY <1>1, <1>2, <1>3

LEMMA CommitOpenTypes ==
  ASSUME TypeOK, NEW r \in Request, NEW c \in Conversation, CommitOpen(r, c)
  PROVE  TypeOK'
<1> DEFINE u == req[r].user
           v == req[r].peer
           row == [id |-> c, is_group |-> FALSE, created_by |-> u, last_message_at |-> clock + 1]
           new == {NewMember(c, w, "member") : w \in {u, v}}
<1>1. u \in User /\ v \in User
  BY RequestFields DEF CommitOpen
<1>2. row \in ConversationRow /\ row.id = c
  BY <1>1 DEF ConversationRow, Time, TypeOK
<1>3. /\ new \in SUBSET MemberRow
      /\ \A m \in new : m.key[1] = c
      /\ \A m, n \in new : m.key[2] = n.key[2] => m = n
  BY <1>1, NewMemberFields DEF GroupRole
<1>4. /\ c \notin used
      /\ conversations' = conversations \cup {row} /\ members' = members \cup new
      /\ used' = used \cup {c} /\ UNCHANGED <<messages, calls>> /\ clock' = clock + 1
      /\ Goto(r, Idle)
  BY DEF CommitOpen
<1>5. req' \in [Request -> Handler] /\ clock' \in Nat /\ calls' \in 0 .. MaxCalls
  BY <1>4, GotoReq, HandlerShapes DEF TypeOK, Time
<1> HIDE DEF row, new
<1>6. QED
  BY <1>2, <1>3, <1>4, <1>5, CreatedTypes

LEMMA CreateGroupTypes ==
  ASSUME TypeOK, NEW r \in Request, NEW u \in User, NEW c \in Conversation,
         NEW others \in SUBSET User, CreateGroup(r, u, c, others)
  PROVE  TypeOK'
<1> DEFINE row == [id |-> c, is_group |-> TRUE, created_by |-> u, last_message_at |-> 0]
           new == {NewMember(c, u, "owner")} \cup {NewMember(c, w, "member") : w \in others}
<1>1. row \in ConversationRow /\ row.id = c
  BY DEF ConversationRow, Time
<1>2. /\ new \in SUBSET MemberRow
      /\ \A m \in new : m.key[1] = c
      /\ \A m, n \in new : m.key[2] = n.key[2] => m = n
  BY NewMemberFields DEF GroupRole, CreateGroup
<1>3. /\ c \notin used
      /\ conversations' = conversations \cup {row} /\ members' = members \cup new
      /\ used' = used \cup {c} /\ UNCHANGED <<messages, req>> /\ clock' = clock + 1
  BY DEF CreateGroup
<1>4. req' \in [Request -> Handler] /\ clock' \in Nat /\ calls' \in 0 .. MaxCalls
  BY <1>3, CallTypes DEF TypeOK, Time, CreateGroup
<1> HIDE DEF row, new
<1>5. QED
  BY <1>1, <1>2, <1>3, <1>4, CreatedTypes

LEMMA InsertMembersTypes ==
  ASSUME TypeOK, NEW r \in Request, InsertMembers(r)
  PROVE  TypeOK'
<1> DEFINE c == req[r].conversation
           new == {NewMember(c, w, "member") : w \in req[r].added}
<1>1. c \in Conversation /\ req[r].added \subseteq User
  BY RequestFields DEF InsertMembers
<1>2. /\ new \subseteq MemberRow
      /\ \A m \in new : m.key[1] = c /\ m.key[2] \in req[r].added
      /\ \A m, n \in new : m.key[2] = n.key[2] => m = n
  BY <1>1, NewMemberFields DEF GroupRole
<1>3. /\ members' = members \cup new
      /\ \A w \in req[r].added : MemberOf(c, w) = {}
      /\ RowOf(c) # {} /\ Goto(r, Idle) /\ clock' = clock + 1
      /\ UNCHANGED <<conversations, messages, used, calls>>
  BY DEF InsertMembers
<1> HIDE DEF new
<1>4. \A m \in members, n \in new : ~(m.key[1] = n.key[1] /\ m.key[2] = n.key[2])
  BY <1>2, <1>3 DEF MemberOf, Members
<1>5. \A m, n \in members' : m.key[1] = n.key[1] /\ m.key[2] = n.key[2] => m = n
  BY <1>2, <1>3, <1>4, HasRow
<1>6. \A m \in members' : \E row \in conversations' : row.id = m.key[1]
  BY <1>2, <1>3, HasRow DEF RowOf
<1>7. req' \in [Request -> Handler]
  BY <1>3, GotoReq, HandlerShapes DEF TypeOK
<1>8. members' \subseteq MemberRow /\ messages' \subseteq Message /\ conversations' \subseteq ConversationRow
  BY <1>2, <1>3 DEF TypeOK
<1>9. QED
  BY <1>3, <1>5, <1>6, <1>7, <1>8, HasRow, RowsTypes

LEMMA UpdateRoleRows ==
  ASSUME TypeOK, NEW r \in Request, UpdateRole(r)
  PROVE  /\ members' \subseteq MemberRow
         /\ \A n \in members' : \E m \in members :
              /\ n.key = m.key /\ n.last_read_at = m.last_read_at
              /\ n.role = IF m.key = req[r].target THEN req[r].role ELSE m.role
         /\ \A m \in members : \E n \in members' :
              /\ n.key = m.key /\ n.last_read_at = m.last_read_at
              /\ n.role = IF m.key = req[r].target THEN req[r].role ELSE m.role
<1> DEFINE W(m) == IF m.key = req[r].target THEN [m EXCEPT !.role = req[r].role] ELSE m
<1>1. req[r].role \in GroupRole
  BY RequestFields DEF UpdateRole
<1>2. ASSUME NEW m \in members
      PROVE  /\ W(m) \in MemberRow
             /\ W(m).key = m.key /\ W(m).last_read_at = m.last_read_at
             /\ W(m).role = IF m.key = req[r].target THEN req[r].role ELSE m.role
  BY <1>1 DEF TypeOK, MemberRow
<1>3. members' = {W(m) : m \in members}
  BY DEF UpdateRole
<1> HIDE DEF W
<1>4. QED
  BY <1>2, <1>3

LEMMA MarkReadRows ==
  ASSUME TypeOK, NEW r \in Request, MarkRead(r)
  PROVE  /\ members' \subseteq MemberRow
         /\ \A n \in members' : \E m \in members :
              /\ n.key = m.key /\ n.role = m.role
              /\ n.last_read_at = IF m.key[1] = req[r].conversation /\ m.key[2] = req[r].user
                                  THEN clock ELSE m.last_read_at
         /\ \A m \in members : \E n \in members' : n.key = m.key /\ n.role = m.role
<1> DEFINE reads(m) == m.key[1] = req[r].conversation /\ m.key[2] = req[r].user
           W(m) == IF reads(m) THEN [m EXCEPT !.last_read_at = clock] ELSE m
<1>1. ASSUME NEW m \in members
      PROVE  /\ W(m) \in MemberRow
             /\ W(m).key = m.key /\ W(m).role = m.role
             /\ W(m).last_read_at = IF reads(m) THEN clock ELSE m.last_read_at
  BY DEF TypeOK, MemberRow
<1>2. members' = {W(m) : m \in members}
  BY DEF MarkRead
<1> HIDE DEF W
<1>3. QED
  BY <1>1, <1>2

LEMMA UpdatePreviewRows ==
  ASSUME TypeOK, NEW r \in Request, UpdatePreview(r)
  PROVE  /\ conversations' \subseteq ConversationRow
         /\ \A n \in conversations' : \E row \in conversations :
              /\ n.id = row.id /\ n.is_group = row.is_group
              /\ n.last_message_at = IF row.id = req[r].conversation
                                     THEN req[r].created_at ELSE row.last_message_at
         /\ \A row \in conversations : \E n \in conversations' :
              n.id = row.id /\ n.is_group = row.is_group
         /\ \A n1, n2 \in conversations' : n1.id = n2.id => n1 = n2
<1> DEFINE W(row) == IF row.id = req[r].conversation
                     THEN [row EXCEPT !.last_message_at = req[r].created_at] ELSE row
<1>1. req[r].created_at \in Nat
  BY RequestFields DEF UpdatePreview
<1>2. ASSUME NEW row \in conversations
      PROVE  /\ W(row) \in ConversationRow
             /\ W(row).id = row.id /\ W(row).is_group = row.is_group
             /\ W(row).last_message_at = IF row.id = req[r].conversation
                                         THEN req[r].created_at ELSE row.last_message_at
  BY <1>1 DEF TypeOK, ConversationRow, Time
<1>3. conversations' = {W(row) : row \in conversations}
  BY DEF UpdatePreview
<1> HIDE DEF W
<1>4. \A row1, row2 \in conversations : row1.id = row2.id => row1 = row2
  BY DEF TypeOK
<1>5. QED
  BY <1>2, <1>3, <1>4

LEMMA MarkReceiptsRows ==
  ASSUME TypeOK, NEW r \in Request, MarkReceipts(r)
  PROVE  /\ messages' \subseteq Message
         /\ \A y \in messages' : \E x \in messages :
              /\ y.conversation = x.conversation /\ y.sender = x.sender
              /\ y.created_at = x.created_at
              /\ y.read => x.read \/ x.conversation = req[r].conversation
         /\ \A x \in messages : \E y \in messages' :
              y.conversation = x.conversation /\ y.created_at = x.created_at
<1> DEFINE W(x) == IF x.conversation = req[r].conversation /\ x.sender # req[r].user
                   THEN [x EXCEPT !.read = TRUE] ELSE x
<1>1. ASSUME NEW x \in messages
      PROVE  /\ W(x) \in Message
             /\ W(x).conversation = x.conversation /\ W(x).sender = x.sender
             /\ W(x).created_at = x.created_at
             /\ W(x).read => x.read \/ x.conversation = req[r].conversation
  BY DEF TypeOK, Message
<1>2. messages' = {W(x) : x \in messages}
  BY DEF MarkReceipts
<1> HIDE DEF W
<1>3. QED
  BY <1>1, <1>2

LEMMA UpdateRoleTypes ==
  ASSUME TypeOK, NEW r \in Request, UpdateRole(r)
  PROVE  TypeOK'
<1>1. /\ members' \subseteq MemberRow
      /\ \A n \in members' : \E m \in members : n.key = m.key
  BY UpdateRoleRows
<1>3. \A m, n \in members' : m.key[1] = n.key[1] /\ m.key[2] = n.key[2] => m = n
  <2> SUFFICES ASSUME NEW m \in members', NEW n \in members',
                      m.key[1] = n.key[1] /\ m.key[2] = n.key[2]
               PROVE  m = n
    OBVIOUS
  <2>1. PICK old \in members : /\ m.key = old.key /\ m.last_read_at = old.last_read_at
                               /\ m.role = IF old.key = req[r].target THEN req[r].role ELSE old.role
    BY UpdateRoleRows
  <2>2. PICK old2 \in members : /\ n.key = old2.key /\ n.last_read_at = old2.last_read_at
                                /\ n.role = IF old2.key = req[r].target THEN req[r].role ELSE old2.role
    BY UpdateRoleRows
  <2>3. old = old2
    BY <2>1, <2>2, HasRow
  <2>4. m \in MemberRow /\ n \in MemberRow
    BY UpdateRoleRows
  <2>5. QED
    BY <2>1, <2>2, <2>3, <2>4 DEF MemberRow
<1>4. req' \in [Request -> Handler] /\ UNCHANGED <<conversations, messages, used, calls, clock>>
  BY GotoReq, HandlerShapes DEF TypeOK, UpdateRole
<1>5. messages' \subseteq Message /\ conversations' \subseteq ConversationRow
  BY <1>4 DEF TypeOK
<1>6. QED
  BY <1>1, <1>3, <1>4, <1>5, HasRow, RowsTypes

LEMMA DeleteMemberTypes ==
  ASSUME TypeOK, NEW r \in Request, DeleteMember(r)
  PROVE  TypeOK'
<1>1. members' \subseteq members
  BY DEF DeleteMember
<1>2. req' \in [Request -> Handler] /\ UNCHANGED <<conversations, messages, used, calls, clock>>
  BY GotoReq, HandlerShapes DEF TypeOK, DeleteMember
<1>3. /\ members' \subseteq MemberRow /\ messages' \subseteq Message
      /\ conversations' \subseteq ConversationRow
  BY <1>1, <1>2 DEF TypeOK
<1>4. QED
  BY <1>1, <1>2, <1>3, HasRow, RowsTypes

\* A conversation that goes takes its members and its messages with it.
LEMMA CommitLeaveRows ==
  ASSUME TypeOK, NEW r \in Request, CommitLeave(r)
  PROVE  /\ members' \subseteq MemberRow
         /\ \A n \in members' : \E m \in members :
              /\ n.key = m.key /\ n.last_read_at = m.last_read_at
              /\ n.role = IF m.key = req[r].heir THEN "owner" ELSE m.role
              /\ m.key # req[r].self
              /\ ~(req[r].last /\ m.key[1] = req[r].conversation)
         /\ \A m \in members :
              m.key # req[r].self /\ ~(req[r].last /\ m.key[1] = req[r].conversation) =>
                \E n \in members' :
                  /\ n.key = m.key /\ n.last_read_at = m.last_read_at
                  /\ n.role = IF m.key = req[r].heir THEN "owner" ELSE m.role
<1> DEFINE W(m) == IF m.key = req[r].heir THEN [m EXCEPT !.role = "owner"] ELSE m
           left == {m \in members : m.key # req[r].self}
           heirs == {W(m) : m \in left}
<1>1. ASSUME NEW m \in members
      PROVE  /\ W(m) \in MemberRow
             /\ W(m).key = m.key /\ W(m).last_read_at = m.last_read_at
             /\ W(m).role = IF m.key = req[r].heir THEN "owner" ELSE m.role
  BY DEF TypeOK, MemberRow, GroupRole
<1>2. members' = {m \in heirs : ~(req[r].last /\ m.key[1] = req[r].conversation)}
  BY DEF CommitLeave
<1> HIDE DEF W
<1>3. QED
  BY <1>1, <1>2

LEMMA CommitLeaveTypes ==
  ASSUME TypeOK, NEW r \in Request, CommitLeave(r)
  PROVE  TypeOK'
<1> DEFINE gone(c) == req[r].last /\ c = req[r].conversation
<1>1. /\ req' \in [Request -> Handler] /\ UNCHANGED <<used, calls, clock>>
      /\ conversations' \subseteq conversations /\ messages' \subseteq messages
      /\ \A row \in conversations : row \in conversations' <=> ~gone(row.id)
      /\ \A x \in messages' : ~gone(x.conversation)
  BY GotoReq, HandlerShapes DEF TypeOK, CommitLeave
<1>2. /\ members' \subseteq MemberRow
      /\ \A n \in members' : \E m \in members : n.key = m.key /\ n.last_read_at = m.last_read_at
           /\ n.role = (IF m.key = req[r].heir THEN "owner" ELSE m.role) /\ ~gone(m.key[1])
  BY CommitLeaveRows
<1> HIDE DEF gone
<1>3. \A m, n \in members' : m.key[1] = n.key[1] /\ m.key[2] = n.key[2] => m = n
  BY <1>2, HasRow DEF MemberRow
<1>4. \A m \in members' : \E row \in conversations' : row.id = m.key[1]
  BY <1>1, <1>2, HasRow
<1>5. \A x \in messages' : \E row \in conversations' : row.id = x.conversation
  BY <1>1, HasRow
<1>6. messages' \subseteq Message /\ conversations' \subseteq ConversationRow
  BY <1>1 DEF TypeOK
<1>7. QED
  BY <1>1, <1>2, <1>3, <1>4, <1>5, <1>6, HasRow, RowsTypes

LEMMA InsertMessageTypes ==
  ASSUME TypeOK, NEW r \in Request, InsertMessage(r)
  PROVE  TypeOK'
<1>1. /\ req[r] \in Handler /\ req[r].user \in User /\ req[r].conversation \in Conversation
      /\ req[r].created_at \in Nat
  BY RequestFields DEF InsertMessage
<1>2. /\ UNCHANGED <<conversations, members, used, calls, clock>>
      /\ messages' = messages \cup {[conversation |-> req[r].conversation, sender |-> req[r].user,
                                     created_at |-> req[r].created_at, read |-> FALSE]}
      /\ RowOf(req[r].conversation) # {}
      /\ req' \in [Request -> Handler]
  BY <1>1, HandlerMoves, GotoReq DEF TypeOK, InsertMessage, rosters
<1>3. /\ messages' \subseteq Message /\ members' \subseteq MemberRow
      /\ conversations' \subseteq ConversationRow
  <2> DEFINE x == [conversation |-> req[r].conversation, sender |-> req[r].user,
                   created_at |-> req[r].created_at, read |-> FALSE]
  <2>1. x \in Message
    BY <1>1 DEF Message, Time
  <2>2. messages' = messages \cup {x}
    BY <1>2
  <2> HIDE DEF x
  <2>3. QED
    BY <1>2, <2>1, <2>2 DEF TypeOK
<1>4. \A x \in messages' : \E row \in conversations' : row.id = x.conversation
  BY <1>2, HasRow DEF RowOf
<1>5. QED
  BY <1>2, <1>3, <1>4, HasRow, RowsTypes

LEMMA UpdatePreviewTypes ==
  ASSUME TypeOK, NEW r \in Request, UpdatePreview(r)
  PROVE  TypeOK'
<1>1. /\ conversations' \subseteq ConversationRow
      /\ \A n \in conversations' : \E row \in conversations : n.id = row.id
      /\ \A row \in conversations : \E n \in conversations' : n.id = row.id
      /\ \A n1, n2 \in conversations' : n1.id = n2.id => n1 = n2
  BY UpdatePreviewRows
<1>4. req' \in [Request -> Handler] /\ UNCHANGED <<members, messages, used, calls, clock>>
  BY GotoReq, HandlerShapes DEF TypeOK, UpdatePreview
<1>5. messages' \subseteq Message /\ members' \subseteq MemberRow
  BY <1>4 DEF TypeOK
<1>6. QED
  BY <1>1, <1>4, <1>5, HasRow, RowsTypes

LEMMA MarkReadTypes ==
  ASSUME TypeOK, NEW r \in Request, MarkRead(r)
  PROVE  TypeOK'
<1>1. /\ members' \subseteq MemberRow
      /\ \A n \in members' : \E m \in members : n.key = m.key
  BY MarkReadRows
<1>4. \A m, n \in members' : m.key[1] = n.key[1] /\ m.key[2] = n.key[2] => m = n
  BY MarkReadRows, HasRow DEF MemberRow
<1>5. req' \in [Request -> Handler] /\ UNCHANGED <<conversations, messages, used, calls, clock>>
  BY RequestFields, HandlerMoves, GotoReq DEF TypeOK, MarkRead
<1>6. messages' \subseteq Message /\ conversations' \subseteq ConversationRow
  BY <1>5 DEF TypeOK
<1>7. QED
  BY <1>1, <1>4, <1>5, <1>6, HasRow, RowsTypes

LEMMA MarkReceiptsTypes ==
  ASSUME TypeOK, NEW r \in Request, MarkReceipts(r)
  PROVE  TypeOK'
<1>1. /\ messages' \subseteq Message
      /\ \A y \in messages' : \E x \in messages : y.conversation = x.conversation
  BY MarkReceiptsRows
<1>3. req' \in [Request -> Handler] /\ UNCHANGED <<rosters, used, calls, clock>>
  BY RequestFields, HandlerMoves, GotoReq DEF TypeOK, MarkReceipts
<1>4. members' \subseteq MemberRow /\ conversations' \subseteq ConversationRow
  BY <1>3 DEF TypeOK, rosters
<1>5. QED
  BY <1>1, <1>3, <1>4, HasRow, RowsTypes DEF rosters

LEMMA TypeStep == TypeOK /\ [Next]_vars => TypeOK'
<1> SUFFICES ASSUME TypeOK, [Next]_vars PROVE TypeOK'
  OBVIOUS
<1>0. /\ req \in [Request -> Handler] /\ clock \in Nat /\ calls \in 0 .. MaxCalls
  BY DEF TypeOK, Time
<1>1. ASSUME NEW r \in Request, Continue(r) PROVE TypeOK'
  <2>1. CASE StartLeave(r) \/ ListThread(r) \/ Abort(r)
    BY <1>0, <2>1, QuietContinues, QuietTypes, GotoReq
  <2>2. QED
    BY <1>1, <2>1, CommitOpenTypes, InsertMembersTypes, UpdateRoleTypes, DeleteMemberTypes,
       CommitLeaveTypes, InsertMessageTypes, UpdatePreviewTypes, MarkReadTypes, MarkReceiptsTypes
       DEF Continue
<1>2. ASSUME NEW r \in Request, NEW u \in User, Begin(r, u) PROVE TypeOK'
  <2>1. ASSUME NEW v \in User, Open(r, u, v) PROVE TypeOK'
    BY <1>0, <2>1, HandlerShapes, GotoReq, CallTypes, QuietTypes DEF Open
  <2>2. ASSUME NEW c \in Conversation,
               \/ \E users \in SUBSET User : AddMembers(r, u, c, users)
               \/ \E role \in GroupRole : SetMemberRole(r, u, c, role)
               \/ RemoveMember(r, u, c)
               \/ Leave(r, u, c)
               \/ Post(r, u, c)
               \/ OpenThread(r, u, c)
        PROVE TypeOK'
    BY <1>0, <2>2, QuietBegins, CallTypes, QuietTypes, GotoReq
  <2>3. QED
    BY <1>2, <2>1, <2>2, CreateGroupTypes DEF Begin
<1>3. CASE UNCHANGED vars
  BY <1>0, <1>3, QuietTypes DEF vars
<1>4. QED
  BY <1>1, <1>2, <1>3 DEF Next

\* The rows of the three tables keep their shape and their keys; a member and a
\* message always have their conversation, which only leaves with them.
THEOREM TypeCorrect == Spec => []TypeOK
<1>1. Init => TypeOK
  BY ChatAssumption, HandlerShapes DEF Init, TypeOK, Time
<1>2. QED
  BY <1>1, TypeStep, PTL DEF Spec

--------------------------------------------------------------------------------
(* What a call becomes *)

LEMMA MembersUsed ==
  ASSUME TypeOK, NEW c, NEW m \in Members(c)
  PROVE  m \in members /\ m \in MemberRow /\ m.key \in MemberKey /\ m.key[1] = c /\ c \in used
BY HasRow, MemberFields DEF Members

LEMMA GroupRows ==
  ASSUME TypeOK, NEW c, IsGroup(c)
  PROVE  \A row \in RowOf(c) : row.is_group
BY HasRow DEF IsGroup, RowOf

\* The handler a call becomes.
LEMMA BegunRole ==
  ASSUME TypeOK, NEW r \in Request, NEW u \in User, NEW c \in Conversation, NEW role \in GroupRole,
         SetMemberRole(r, u, c, role)
  PROVE  /\ req'[r].pc = "role" /\ req'[r].conversation = c /\ req'[r].role = role
         /\ role # "owner"
         /\ \E m \in Members(c) : m.role # "owner" /\ req'[r].target = m.key
<1>1. PICK m \in Members(c) :
        /\ m.role # "owner"
        /\ Goto(r, [pc |-> "role", user |-> u, conversation |-> c, target |-> m.key, role |-> role])
  BY DEF SetMemberRole
<1> DEFINE h == [pc |-> "role", user |-> u, conversation |-> c, target |-> m.key, role |-> role]
<1>2. /\ h \in Handler /\ h.pc = "role" /\ h.conversation = c /\ h.role = role
      /\ h.target = m.key
  BY MembersUsed, HandlerShapes
<1>3. Goto(r, h) /\ role # "owner"
  BY <1>1 DEF SetMemberRole
<1> HIDE DEF h
<1>4. req'[r] = h
  BY <1>2, <1>3, GotoReq DEF TypeOK
<1>5. QED
  BY <1>1, <1>2, <1>3, <1>4

LEMMA BegunRemove ==
  ASSUME TypeOK, NEW r \in Request, NEW u \in User, NEW c \in Conversation, RemoveMember(r, u, c)
  PROVE  /\ req'[r].pc = "remove" /\ req'[r].conversation = c
         /\ \E m \in Members(c) : m.role # "owner" /\ req'[r].target = m.key
<1>1. PICK m \in Members(c) :
        /\ m.role # "owner"
        /\ Goto(r, [pc |-> "remove", user |-> u, conversation |-> c, target |-> m.key])
  BY DEF RemoveMember
<1> DEFINE h == [pc |-> "remove", user |-> u, conversation |-> c, target |-> m.key]
<1>2. h \in Handler /\ h.pc = "remove" /\ h.conversation = c /\ h.target = m.key
  BY MembersUsed, HandlerShapes
<1>3. Goto(r, h)
  BY <1>1
<1> HIDE DEF h
<1>4. req'[r] = h
  BY <1>2, <1>3, GotoReq DEF TypeOK
<1>5. QED
  BY <1>1, <1>2, <1>4

LEMMA BegunLeave ==
  ASSUME TypeOK, NEW r \in Request, NEW u \in User, NEW c \in Conversation, Leave(r, u, c)
  PROVE  /\ req'[r].pc = "leave" /\ req'[r].conversation = c /\ req'[r].user = u
         /\ \E m \in MemberOf(c, u) :
              /\ req'[r].self = m.key
              /\ req'[r].owner <=> IsGroup(c) /\ m.role = "owner"
<1>1. PICK m \in MemberOf(c, u) :
        Goto(r, [pc |-> "leave", user |-> u, conversation |-> c, self |-> m.key,
                 owner |-> IsGroup(c) /\ m.role = "owner"])
  BY DEF Leave
<1> DEFINE owner == IsGroup(c) /\ m.role = "owner"
           h == [pc |-> "leave", user |-> u, conversation |-> c, self |-> m.key, owner |-> owner]
<1>2. m \in Members(c) /\ owner \in BOOLEAN
  BY <1>1 DEF MemberOf
<1>3. Goto(r, h)
  BY <1>1
<1> HIDE DEF owner
<1>4. /\ h \in Handler /\ h.pc = "leave" /\ h.conversation = c /\ h.user = u /\ h.self = m.key
      /\ h.owner = owner
  BY <1>2, MembersUsed, HandlerShapes
<1> HIDE DEF h
<1>5. req'[r] = h
  BY <1>3, <1>4, GotoReq DEF TypeOK
<1>6. QED
  BY <1>1, <1>2, <1>4, <1>5 DEF owner

LEMMA BegunOpen ==
  ASSUME TypeOK, NEW r \in Request, NEW u \in User, NEW v \in User, Open(r, u, v)
  PROVE  req'[r].pc = "open" /\ req'[r].user = u /\ req'[r].peer = v
<1> DEFINE h == [pc |-> "open", user |-> u, peer |-> v]
<1>1. Goto(r, h) /\ h \in Handler /\ h.pc = "open" /\ h.user = u /\ h.peer = v
  BY HandlerShapes DEF Open
<1> HIDE DEF h
<1>2. QED
  BY <1>1, GotoReq DEF TypeOK

LEMMA BegunCall ==
  ASSUME TypeOK, NEW r \in Request, NEW u \in User, NEW c \in Conversation
  PROVE  /\ \A users \in SUBSET User : AddMembers(r, u, c, users) =>
              req'[r].pc = "add" /\ req'[r].conversation = c
         /\ Post(r, u, c) =>
              /\ req'[r].pc = "post" /\ req'[r].user = u /\ req'[r].conversation = c
              /\ req'[r].created_at = clock + 1
         /\ OpenThread(r, u, c) =>
              req'[r].pc = "mark" /\ req'[r].user = u /\ req'[r].conversation = c
<1>0. req \in [Request -> Handler] /\ clock \in Nat
  BY DEF TypeOK, Time
<1>1. ASSUME NEW users \in SUBSET User, AddMembers(r, u, c, users)
      PROVE  req'[r].pc = "add" /\ req'[r].conversation = c
  <2> DEFINE added == {w \in users : MemberOf(c, w) = {}}
             h == [pc |-> "add", user |-> u, conversation |-> c, added |-> added]
  <2>1. added \in SUBSET User
    OBVIOUS
  <2>2. Goto(r, h)
    BY <1>1 DEF AddMembers
  <2> HIDE DEF added
  <2>3. h \in Handler /\ h.pc = "add" /\ h.conversation = c
    BY <2>1, HandlerShapes
  <2> HIDE DEF h
  <2>4. QED
    BY <1>0, <2>2, <2>3, GotoReq
<1>2. ASSUME Post(r, u, c)
      PROVE  /\ req'[r].pc = "post" /\ req'[r].user = u /\ req'[r].conversation = c
             /\ req'[r].created_at = clock + 1
  <2> DEFINE h == [pc |-> "post", user |-> u, conversation |-> c, created_at |-> clock']
  <2>1. Goto(r, h) /\ clock' = clock + 1
    BY <1>2 DEF Post
  <2>2. h \in Handler /\ h.pc = "post" /\ h.user = u /\ h.conversation = c /\ h.created_at = clock'
    <3>1. clock' \in Nat
      BY <1>0, <2>1
    <3>2. h \in Handler
      BY <3>1, HandlerShapes
    <3>3. QED
      BY <3>2
  <2> HIDE DEF h
  <2>3. QED
    BY <1>0, <2>1, <2>2, GotoReq
<1>3. ASSUME OpenThread(r, u, c)
      PROVE  req'[r].pc = "mark" /\ req'[r].user = u /\ req'[r].conversation = c
  <2> DEFINE h == [pc |-> "mark", user |-> u, conversation |-> c]
  <2>1. /\ Goto(r, h) /\ h \in Handler /\ h.pc = "mark" /\ h.user = u /\ h.conversation = c
    BY <1>3, HandlerShapes DEF OpenThread
  <2> HIDE DEF h
  <2>2. QED
    BY <1>0, <2>1, GotoReq
<1>4. QED
  BY <1>1, <1>2, <1>3

\* What the transaction finds: a successor for an owner, and whether others are left.
LEMMA LeaveStarted ==
  ASSUME TypeOK, NEW r \in Request, StartLeave(r)
  PROVE  LET c == req[r].conversation
             others == {m \in Members(c) : m.key[2] # req[r].user}
         IN  /\ req[r].pc = "leave" /\ req'[r].pc = "left" /\ req'[r].conversation = c
             /\ req'[r].user = req[r].user /\ req'[r].self = req[r].self
             /\ req'[r].owner = req[r].owner
             /\ req'[r].last <=> others = {}
             /\ IF req[r].owner /\ others # {}
                THEN \E m \in others : req'[r].heir = m.key
                ELSE req'[r].heir = NoHeir
<1> DEFINE h == req[r]
           c == h.conversation
           others == {m \in Members(c) : m.key[2] # h.user}
           last == others = {}
           heirs == IF h.owner /\ others # {} THEN {m.key : m \in Senior(others)} ELSE {NoHeir}
<1>1. PICK heir \in heirs :
        Goto(r, [pc |-> "left", user |-> h.user, conversation |-> c, self |-> h.self,
                 heir |-> heir, last |-> last, owner |-> h.owner])
  BY DEF StartLeave
<1>2. IF h.owner /\ others # {} THEN \E m \in others : heir = m.key ELSE heir = NoHeir
  <2>1. CASE h.owner /\ others # {}
    <3>1. PICK m \in Senior(others) : heir = m.key
      BY <1>1, <2>1
    <3>2. QED
      BY <2>1, <3>1 DEF Senior
  <2>2. CASE ~(h.owner /\ others # {})
    BY <1>1, <2>2
  <2>3. QED
    BY <2>1, <2>2
<1>3. /\ h.user \in User /\ c \in Conversation /\ h.self \in MemberKey /\ h.owner \in BOOLEAN
      /\ h.pc = "leave"
  BY RequestFields DEF StartLeave
<1>4. heir \in MemberKey \cup {NoHeir} /\ last \in BOOLEAN
  BY <1>2, MembersUsed
<1> DEFINE n == [pc |-> "left", user |-> h.user, conversation |-> c, self |-> h.self,
                 heir |-> heir, last |-> last, owner |-> h.owner]
<1>5. Goto(r, n)
  BY <1>1
<1> HIDE DEF last, heirs
<1>6. /\ n \in Handler /\ n.pc = "left" /\ n.user = h.user /\ n.conversation = c /\ n.self = h.self
      /\ n.heir = heir /\ n.last = last /\ n.owner = h.owner
  BY <1>3, <1>4, HandlerShapes
<1> HIDE DEF n
<1>7. req'[r] = n
  BY <1>5, <1>6, GotoReq DEF TypeOK
<1>8. QED
  BY <1>2, <1>3, <1>6, <1>7 DEF last

--------------------------------------------------------------------------------
(* TimesInv *)

\* A step is one of one handler; rows keep their kind, ids are not used again and
\* the clock never goes back.
LEMMA StepFrame ==
  ASSUME TypeOK, NEW r \in Request,
         Continue(r) \/ \E u \in User : Begin(r, u)
  PROVE  /\ \A q \in Request \ {r} : req'[q] = req[q]
         /\ used \subseteq used'
         /\ clock \in Nat /\ clock' \in Nat /\ clock <= clock'
         /\ \A n \in conversations' :
              \/ n.id \notin used
              \/ \E row \in conversations : n.id = row.id /\ n.is_group = row.is_group
<1>0. req \in [Request -> Handler] /\ clock \in Nat
  BY DEF TypeOK, Time
<1> SUFFICES /\ \A q \in Request \ {r} : req'[q] = req[q]
             /\ used \subseteq used'
             /\ UNCHANGED clock \/ clock' = clock + 1
             /\ \A n \in conversations' :
                  \/ n.id \notin used
                  \/ \E row \in conversations : n.id = row.id /\ n.is_group = row.is_group
  BY <1>0
<1> DEFINE Same == /\ \A q \in Request \ {r} : req'[q] = req[q]
                   /\ conversations' \subseteq conversations /\ UNCHANGED used
                   /\ UNCHANGED clock \/ clock' = clock + 1
<1> USE <1>0, GotoReq
<1>1. ASSUME NEW u \in User, Begin(r, u)
      PROVE  Same \/ \E c \in Conversation, others \in SUBSET User : CreateGroup(r, u, c, others)
  <2>1. ASSUME NEW v \in User, Open(r, u, v) PROVE Same
    BY <2>1, HandlerShapes DEF Open, rosters
  <2>2. ASSUME NEW c \in Conversation,
               \/ \E users \in SUBSET User : AddMembers(r, u, c, users)
               \/ \E role \in GroupRole : SetMemberRole(r, u, c, role)
               \/ RemoveMember(r, u, c)
               \/ Leave(r, u, c)
               \/ Post(r, u, c)
               \/ OpenThread(r, u, c)
        PROVE Same
    BY <2>2, QuietBegins DEF rosters
  <2>3. QED
    BY <1>1, <2>1, <2>2 DEF Begin
<1>2. ASSUME Continue(r), ~UpdatePreview(r), \A c \in Conversation : ~CommitOpen(r, c)
      PROVE  Same
  <2>1. CASE StartLeave(r) \/ ListThread(r) \/ Abort(r)
    BY <2>1, QuietContinues DEF rosters
  <2>2. CASE InsertMembers(r) \/ UpdateRole(r) \/ DeleteMember(r) \/ CommitLeave(r)
    BY <2>2, HandlerShapes DEF InsertMembers, UpdateRole, DeleteMember, CommitLeave
  <2>3. CASE InsertMessage(r) \/ MarkRead(r) \/ MarkReceipts(r)
    BY <2>3, RequestFields, HandlerMoves DEF InsertMessage, MarkRead, MarkReceipts, rosters
  <2>4. QED
    BY <1>2, <2>1, <2>2, <2>3 DEF Continue
<1>3. ASSUME UpdatePreview(r)
      PROVE  /\ \A q \in Request \ {r} : req'[q] = req[q]
             /\ UNCHANGED <<used, clock>>
             /\ \A n \in conversations' :
                  \E row \in conversations : n.id = row.id /\ n.is_group = row.is_group
  <2>1. Goto(r, Idle) /\ UNCHANGED <<used, clock>>
    BY <1>3 DEF UpdatePreview
  <2>2. \A n \in conversations' :
          \E row \in conversations : n.id = row.id /\ n.is_group = row.is_group
    BY <1>3, UpdatePreviewRows
  <2>3. QED
    BY <2>1, <2>2, HandlerShapes
<1>4. ASSUME NEW c \in Conversation, CommitOpen(r, c)
      PROVE  /\ \A q \in Request \ {r} : req'[q] = req[q]
             /\ used \subseteq used' /\ clock' = clock + 1
             /\ \A n \in conversations' : n \in conversations \/ n.id \notin used
  BY <1>4, HandlerShapes DEF CommitOpen
<1>5. ASSUME NEW u \in User, NEW c \in Conversation, NEW others \in SUBSET User,
             CreateGroup(r, u, c, others)
      PROVE  /\ \A q \in Request \ {r} : req'[q] = req[q]
             /\ used \subseteq used' /\ clock' = clock + 1
             /\ \A n \in conversations' : n \in conversations \/ n.id \notin used
  BY <1>5 DEF CreateGroup
<1>6. CASE Same
  BY <1>6
<1> HIDE DEF Same
<1>7. QED
  BY <1>1, <1>2, <1>3, <1>4, <1>5, <1>6

LEMMA OthersWork ==
  ASSUME TypeOK, NEW r \in Request, Continue(r) \/ (\E u \in User : Begin(r, u)),
         NEW q \in Request \ {r}, Works(q)
  PROVE  Works(q)'
<1>1. req'[q] = req[q]
  BY StepFrame
<1>2. req[q].pc \notin {"idle", "open"} =>
        /\ req[q].conversation \in used'
        /\ (\A row \in RowOf(req[q].conversation) : row.is_group) =>
             \A n \in RowOf(req[q].conversation)' : n.is_group
  BY StepFrame, <1>1 DEF RowOf, Works
<1>3. req[q].pc \in {"post", "preview"} /\ req[q].created_at \in 1 .. clock =>
        req[q].created_at \in 1 .. clock'
  BY StepFrame
<1> HIDE DEF RowOf
<1>4. QED
  BY <1>1, <1>2, <1>3 DEF Works, RowOf

\* What a handler that begins, or goes on, works on.
LEMMA BeginWorks ==
  ASSUME TypeOK, NEW r \in Request, NEW u \in User, Begin(r, u), Works(r)
  PROVE  Works(r)'
<1>1. ASSUME NEW v \in User, Open(r, u, v) PROVE Works(r)'
  BY <1>1, BegunOpen DEF Works
<1>2. ASSUME NEW c \in Conversation, NEW others \in SUBSET User, CreateGroup(r, u, c, others)
      PROVE  Works(r)'
  BY <1>2, CallTypes DEF CreateGroup, Works
<1>3. ASSUME NEW c \in Conversation,
             \/ \E users \in SUBSET User : AddMembers(r, u, c, users)
             \/ \E role \in GroupRole : SetMemberRole(r, u, c, role)
             \/ RemoveMember(r, u, c)
             \/ Leave(r, u, c)
      PROVE  Works(r)'
  <2>1. UNCHANGED <<rosters, used>>
    BY <1>3 DEF AddMembers, SetMemberRole, RemoveMember, Leave
  <2>2. c \in used
    BY <1>3, MembersUsed DEF AddMembers, SetMemberRole, RemoveMember, Leave, Allowed, MemberOf
  <2>3. CASE Leave(r, u, c)
    BY <2>1, <2>2, <2>3, BegunLeave, MembersUsed DEF Works, MemberOf
  <2>4. CASE ~Leave(r, u, c)
    <3>1. IsGroup(c)
      BY <1>3, <2>4 DEF AddMembers, SetMemberRole, RemoveMember, Allowed
    <3>2. \A row \in RowOf(c)' : row.is_group
      BY <2>1, <3>1, GroupRows DEF RowOf, rosters
    <3>3. QED
      BY <1>3, <2>1, <2>2, <2>4, <3>2, BegunCall, BegunRole, BegunRemove, MembersUsed DEF Works
  <2>5. QED
    BY <2>3, <2>4
<1>4. ASSUME NEW c \in Conversation, Post(r, u, c) \/ OpenThread(r, u, c)
      PROVE  Works(r)'
  <2>1. c \in used /\ UNCHANGED used /\ clock \in Nat
    BY <1>4, HasRow, MembersUsed DEF Post, OpenThread, MemberOf
  <2>2. CASE Post(r, u, c)
    <3>1. clock' = clock + 1
      BY <2>2 DEF Post
    <3>2. QED
      BY <2>1, <2>2, <3>1, BegunCall DEF Works
  <2>3. CASE OpenThread(r, u, c)
    BY <2>1, <2>3, BegunCall DEF Works
  <2>4. QED
    BY <1>4, <2>2, <2>3
<1>5. QED
  BY <1>1, <1>2, <1>3, <1>4 DEF Begin

LEMMA ContinueWorks ==
  ASSUME TypeOK, NEW r \in Request, Continue(r), Works(r)
  PROVE  Works(r)'
<1>1. ASSUME Goto(r, Idle) PROVE Works(r)'
  BY <1>1, HandlerShapes, GotoReq DEF Works, TypeOK
<1>2. CASE StartLeave(r)
  <2>1. UNCHANGED used
    BY <1>2 DEF StartLeave
  <2>2. QED
    BY <1>2, <2>1, LeaveStarted, MembersUsed DEF Works
<1>3. CASE InsertMessage(r) \/ MarkRead(r) \/ MarkReceipts(r)
  <2>1. UNCHANGED <<used, clock>>
    BY <1>3 DEF InsertMessage, MarkRead, MarkReceipts
  <2>2. QED
    BY <1>3, <2>1, GoesOn DEF Works
<1>4. QED
  BY <1>1, <1>2, <1>3 DEF Continue, CommitOpen, InsertMembers, UpdateRole, DeleteMember,
     CommitLeave, UpdatePreview, ListThread, Abort

\* A reading is noted at the clock, and a message has the time of its handler.
LEMMA RowTimes ==
  ASSUME TypeOK, TimesInv, NEW r \in Request, Continue(r) \/ \E u \in User : Begin(r, u)
  PROVE  /\ \A n \in members' : \/ n.last_read_at \in {0, clock}
                                \/ \E m \in members : n.last_read_at = m.last_read_at
         /\ \A y \in messages' : \/ \E x \in messages : y.created_at = x.created_at
                                 \/ InsertMessage(r) /\ y.created_at = req[r].created_at
<1> DEFINE Goal == /\ \A n \in members' : \/ n.last_read_at \in {0, clock}
                                          \/ \E m \in members : n.last_read_at = m.last_read_at
                   /\ \A y \in messages' : \/ \E x \in messages : y.created_at = x.created_at
                                           \/ InsertMessage(r) /\ y.created_at = req[r].created_at
<1>1. CASE members' \subseteq members /\ messages' \subseteq messages
  BY <1>1
<1>2. ASSUME NEW u \in User, Begin(r, u) PROVE Goal
  <2>1. ASSUME NEW v \in User, Open(r, u, v) PROVE Goal
    BY <2>1, <1>1 DEF Open, rosters
  <2>2. ASSUME NEW c \in Conversation, NEW others \in SUBSET User, CreateGroup(r, u, c, others)
        PROVE  Goal
    BY <2>2, NewMemberFields DEF CreateGroup, GroupRole
  <2>3. ASSUME NEW c \in Conversation,
               \/ \E users \in SUBSET User : AddMembers(r, u, c, users)
               \/ \E role \in GroupRole : SetMemberRole(r, u, c, role)
               \/ RemoveMember(r, u, c)
               \/ Leave(r, u, c)
               \/ Post(r, u, c)
               \/ OpenThread(r, u, c)
        PROVE Goal
    BY <2>3, <1>1, QuietBegins DEF rosters
  <2>4. QED
    BY <1>2, <2>1, <2>2, <2>3 DEF Begin
<1>3. CASE StartLeave(r) \/ ListThread(r) \/ Abort(r)
  BY <1>3, <1>1, QuietContinues DEF rosters
<1>4. ASSUME NEW c \in Conversation, CommitOpen(r, c) PROVE Goal
  BY <1>4, NewMemberFields, RequestFields DEF CommitOpen, GroupRole
<1>5. CASE InsertMembers(r)
  BY <1>5, NewMemberFields, RequestFields DEF InsertMembers, GroupRole
<1>6. CASE UpdateRole(r)
  BY <1>6, UpdateRoleRows DEF UpdateRole
<1>7. CASE DeleteMember(r)
  BY <1>7, <1>1 DEF DeleteMember
<1>8. CASE CommitLeave(r)
  BY <1>8, CommitLeaveRows DEF CommitLeave
<1>9. CASE InsertMessage(r)
  BY <1>9 DEF InsertMessage, rosters
<1>10. CASE UpdatePreview(r)
  BY <1>10, <1>1 DEF UpdatePreview
<1>11. CASE MarkRead(r)
  BY <1>11, MarkReadRows DEF MarkRead
<1>12. CASE MarkReceipts(r)
  BY <1>12, MarkReceiptsRows DEF MarkReceipts, rosters
<1>13. QED
  BY <1>2, <1>3, <1>4, <1>5, <1>6, <1>7, <1>8, <1>9, <1>10, <1>11, <1>12 DEF Continue

LEMMA TimesStep == TypeOK /\ TimesInv /\ [Next]_vars => TimesInv'
<1> SUFFICES ASSUME TypeOK, TimesInv, [Next]_vars PROVE TimesInv'
  OBVIOUS
<1>1. ASSUME NEW r \in Request, Continue(r) \/ \E u \in User : Begin(r, u)
      PROVE  TimesInv'
  <2>1. Works(r)'
    BY <1>1, BeginWorks, ContinueWorks DEF TimesInv
  <2>2. \A q \in Request \ {r} : Works(q)'
    BY <1>1, OthersWork DEF TimesInv
  <2>3. clock \in Nat /\ clock' \in Nat /\ clock <= clock'
    BY <1>1, StepFrame
  <2>4. \A m \in members' : m.last_read_at <= clock'
    <3>1. \A m \in members : m.last_read_at \in Nat /\ m.last_read_at <= clock
      BY HasRow, MemberFields DEF TimesInv
    <3>2. QED
      BY <1>1, <2>3, <3>1, RowTimes
  <2>5. InsertMessage(r) => req[r].created_at \in 1 .. clock
    BY DEF TimesInv, Works, InsertMessage
  <2>6. \A x \in messages' : x.created_at \in 1 .. clock'
    <3>1. \A x \in messages : x.created_at \in 1 .. clock
      BY DEF TimesInv
    <3>2. QED
      BY <1>1, <2>3, <2>5, <3>1, RowTimes
  <2>7. QED
    BY <2>1, <2>2, <2>4, <2>6 DEF TimesInv
<1>2. CASE UNCHANGED vars
  BY <1>2 DEF TimesInv, Works, RowOf, vars, rosters
<1>3. QED
  BY <1>1, <1>2 DEF Next

\* Types and times are never wrong.
LEMMA BaseInvariance == Spec => [](TypeOK /\ TimesInv)
<1>1. Init => TypeOK /\ TimesInv
  <2>1. Init => TypeOK
    BY ChatAssumption, HandlerShapes DEF Init, TypeOK, Time
  <2>2. Init => TimesInv
    BY HandlerShapes DEF Init, TimesInv, Works
  <2>3. QED
    BY <2>1, <2>2
<1>2. QED
  BY <1>1, TypeStep, TimesStep, PTL DEF Spec

\* A set of at most one element.
LEMMA AtMostOne ==
  ASSUME NEW S, \A x, y \in S : x = y
  PROVE  Cardinality(S) <= 1
<1>1. CASE S = {}
  BY <1>1, FS_EmptySet
<1>2. CASE S # {}
  <2>1. PICK x \in S : S = {x}
    BY <1>2
  <2>2. QED
    BY <2>1, FS_Singleton
<1>3. QED
  BY <1>1, <1>2

--------------------------------------------------------------------------------
(* OneDirect *)

\* A 1:1 conversation is not made by rows of groups.
LEMMA DirectShrinks ==
  ASSUME TypeOK',
         \A n \in conversations' :
           n.is_group \/ \E row \in conversations : n.id = row.id /\ n.is_group = row.is_group,
         \A n \in members' :
           \/ \E m \in members : m.key = n.key
           \/ \E row \in conversations' : row.id = n.key[1] /\ row.is_group,
         NEW c, NEW u, NEW v, Direct(c, u, v)'
  PROVE  Direct(c, u, v)
<1>1. PICK n \in conversations' : n.id = c /\ ~n.is_group
  BY DEF Direct, RowOf
<1>2. \E row \in RowOf(c) : ~row.is_group
  BY <1>1 DEF RowOf
<1>3. ~\E row \in conversations' : row.id = c /\ row.is_group
  BY <1>1 DEF TypeOK
<1>4. ASSUME NEW w, MemberOf(c, w)' # {} PROVE MemberOf(c, w) # {}
  <2>1. PICK m \in members' : m.key[1] = c /\ m.key[2] = w
    BY <1>4 DEF MemberOf, Members
  <2>2. PICK old \in members : old.key = m.key
    BY <1>3, <2>1
  <2>3. QED
    BY <2>1, <2>2 DEF MemberOf, Members
<1>5. QED
  BY <1>2, <1>4 DEF Direct

\* Nothing but openWith's transaction gives two users a 1:1 conversation.
LEMMA DirectSteps ==
  ASSUME TypeOK, TypeOK', TimesInv, NEW r \in Request,
         \/ Continue(r) /\ \A c \in Conversation : ~CommitOpen(r, c)
         \/ \E u \in User : Begin(r, u)
  PROVE  \A c, u, v : Direct(c, u, v)' => Direct(c, u, v)
<1> DEFINE Rows == \A n \in conversations' :
                     n.is_group \/ \E row \in conversations : n.id = row.id /\ n.is_group = row.is_group
           Mems == \A n \in members' :
                     \/ \E m \in members : m.key = n.key
                     \/ \E row \in conversations' : row.id = n.key[1] /\ row.is_group
<1>0. SUFFICES Rows /\ Mems
  BY DirectShrinks
<1>1. CASE conversations' \subseteq conversations /\ members' \subseteq members
  BY <1>1
<1>2. ASSUME NEW u \in User, Begin(r, u) PROVE Rows /\ Mems
  <2>1. ASSUME NEW v \in User, Open(r, u, v) PROVE Rows /\ Mems
    BY <2>1, <1>1 DEF Open, rosters
  <2>2. ASSUME NEW c \in Conversation, NEW others \in SUBSET User, CreateGroup(r, u, c, others)
        PROVE  Rows /\ Mems
    <3> DEFINE row == [id |-> c, is_group |-> TRUE, created_by |-> u, last_message_at |-> 0]
               new == {NewMember(c, u, "owner")} \cup {NewMember(c, w, "member") : w \in others}
    <3>1. row.id = c /\ row.is_group
      OBVIOUS
    <3>2. \A n \in new : n.key[1] = c
      BY NewMemberFields DEF GroupRole
    <3>3. conversations' = conversations \cup {row} /\ members' = members \cup new
      BY <2>2 DEF CreateGroup
    <3> HIDE DEF row, new
    <3>4. QED
      BY <3>1, <3>2, <3>3
  <2>3. ASSUME NEW c \in Conversation,
               \/ \E users \in SUBSET User : AddMembers(r, u, c, users)
               \/ \E role \in GroupRole : SetMemberRole(r, u, c, role)
               \/ RemoveMember(r, u, c)
               \/ Leave(r, u, c)
               \/ Post(r, u, c)
               \/ OpenThread(r, u, c)
        PROVE Rows /\ Mems
    BY <2>3, <1>1, QuietBegins DEF rosters
  <2>4. QED
    BY <1>2, <2>1, <2>2, <2>3 DEF Begin
<1>3. CASE StartLeave(r) \/ ListThread(r) \/ Abort(r)
  BY <1>3, <1>1, QuietContinues DEF rosters
<1>4. CASE InsertMembers(r)
  <2> DEFINE c == req[r].conversation
             new == {NewMember(c, w, "member") : w \in req[r].added}
  <2>1. /\ c \in Conversation /\ req[r].added \subseteq User
        /\ \A row \in RowOf(c) : row.is_group
    BY <1>4, RequestFields DEF InsertMembers, TimesInv, Works
  <2>2. \A n \in new : n.key[1] = c
    BY <2>1, NewMemberFields DEF GroupRole
  <2>3. members' = members \cup new /\ UNCHANGED conversations /\ RowOf(c) # {}
    BY <1>4 DEF InsertMembers
  <2> HIDE DEF new
  <2>4. QED
    BY <2>1, <2>2, <2>3 DEF RowOf
<1>5. CASE UpdateRole(r)
  BY <1>5, UpdateRoleRows DEF UpdateRole
<1>6. CASE CommitLeave(r)
  BY <1>6, CommitLeaveRows DEF CommitLeave
<1>7. CASE UpdatePreview(r)
  BY <1>7, UpdatePreviewRows DEF UpdatePreview
<1>8. CASE MarkRead(r)
  BY <1>8, MarkReadRows DEF MarkRead
<1>9. CASE DeleteMember(r) \/ InsertMessage(r) \/ MarkReceipts(r)
  BY <1>9, <1>1 DEF DeleteMember, InsertMessage, MarkReceipts, rosters
<1>10. QED
  BY <1>2, <1>3, <1>4, <1>5, <1>6, <1>7, <1>8, <1>9 DEF Continue

\* Only openWith's reads make a handler that opens.
LEMMA OpenSteps ==
  ASSUME TypeOK, NEW r \in Request,
         Continue(r) \/ \E u \in User : Begin(r, u)
  PROVE  \/ \E u, v \in User : Open(r, u, v)
         \/ /\ UNCHANGED crossed
            /\ \A q \in Request : req'[q].pc = "open" => req'[q] = req[q]
<1>0. req \in [Request -> Handler] /\ \A q \in Request \ {r} : req'[q] = req[q]
  BY StepFrame DEF TypeOK
<1>1. ASSUME Continue(r) PROVE UNCHANGED crossed /\ req'[r].pc # "open"
  <2>1. UNCHANGED crossed
    BY <1>1 DEF Continue, CommitOpen, InsertMembers, UpdateRole, DeleteMember, StartLeave, CommitLeave,
       InsertMessage, UpdatePreview, MarkRead, MarkReceipts, ListThread, Abort
  <2>2. ASSUME Goto(r, Idle) PROVE req'[r].pc # "open"
    BY <1>0, <2>2, HandlerShapes, GotoReq
  <2>3. ASSUME StartLeave(r) \/ InsertMessage(r) \/ MarkRead(r) \/ MarkReceipts(r)
        PROVE  req'[r].pc # "open"
    BY <2>3, LeaveStarted, GoesOn
  <2>4. QED
    BY <1>1, <2>1, <2>2, <2>3 DEF Continue, CommitOpen, InsertMembers, UpdateRole, DeleteMember,
       CommitLeave, UpdatePreview, ListThread, Abort
<1>2. ASSUME NEW u \in User, NEW c \in Conversation, NEW others \in SUBSET User,
             CreateGroup(r, u, c, others)
      PROVE  UNCHANGED <<crossed, req>>
  BY <1>2 DEF CreateGroup
<1>3. ASSUME NEW u \in User, NEW c \in Conversation,
             \/ \E users \in SUBSET User : AddMembers(r, u, c, users)
             \/ \E role \in GroupRole : SetMemberRole(r, u, c, role)
             \/ RemoveMember(r, u, c)
             \/ Leave(r, u, c)
             \/ Post(r, u, c)
             \/ OpenThread(r, u, c)
      PROVE  UNCHANGED crossed /\ req'[r].pc # "open"
  <2>1. UNCHANGED crossed
    BY <1>3 DEF AddMembers, SetMemberRole, RemoveMember, Leave, Post, OpenThread
  <2>2. QED
    BY <1>3, <2>1, BegunCall, BegunRole, BegunRemove, BegunLeave
<1>4. QED
  BY <1>0, <1>1, <1>2, <1>3 DEF Begin

\* The two users of a new 1:1 conversation are those of its handler.
LEMMA DirectCreated ==
  ASSUME TypeOK, NEW r \in Request, NEW c \in Conversation, CommitOpen(r, c),
         NEW d, NEW a, NEW b, a # b, Direct(d, a, b)'
  PROVE  IF d = c THEN {a, b} = {req[r].user, req[r].peer} ELSE Direct(d, a, b)
<1> DEFINE u == req[r].user
           v == req[r].peer
           row == [id |-> c, is_group |-> FALSE, created_by |-> u, last_message_at |-> clock + 1]
           new == {NewMember(c, w, "member") : w \in {u, v}}
<1>1. /\ c \notin used /\ row.id = c
      /\ conversations' = conversations \cup {row} /\ members' = members \cup new
  BY DEF CommitOpen
<1>2. \A n \in new : n.key[1] = c /\ n.key[2] \in {u, v}
  <2>1. u \in User /\ v \in User
    BY RequestFields DEF CommitOpen
  <2>2. QED
    BY <2>1, NewMemberFields DEF GroupRole
<1>3. \A m \in members : m.key[1] # c
  BY <1>1, HasRow
<1> HIDE DEF row, new
<1>4. CASE d = c
  <2>1. ASSUME NEW w, MemberOf(c, w)' # {} PROVE w \in {u, v}
    BY <1>1, <1>2, <1>3, <2>1 DEF MemberOf, Members
  <2>2. a \in {u, v} /\ b \in {u, v}
    BY <1>4, <2>1 DEF Direct
  <2>3. QED
    BY <1>4, <2>2
<1>5. CASE d # c
  <2>1. ASSUME NEW w, MemberOf(d, w)' # {} PROVE MemberOf(d, w) # {}
    BY <1>1, <1>2, <1>5, <2>1 DEF MemberOf, Members
  <2>2. (\E n \in RowOf(d)' : ~n.is_group) => \E n \in RowOf(d) : ~n.is_group
    BY <1>1, <1>5 DEF RowOf
  <2>3. QED
    BY <1>5, <2>1, <2>2 DEF Direct
<1>6. QED
  BY <1>4, <1>5

LEMMA DirectCommit ==
  ASSUME TypeOK, DirectInv, NEW r \in Request, NEW c \in Conversation, CommitOpen(r, c)
  PROVE  DirectInv'
<1> DEFINE u == req[r].user
           v == req[r].peer
<1>1. /\ Opens(r, u, v) /\ u # v /\ u \in User /\ v \in User
  BY RequestFields DEF CommitOpen, Opens, DirectInv
<1>2. /\ UNCHANGED crossed /\ req'[r].pc = "idle"
      /\ \A q \in Request \ {r} : req'[q] = req[q]
  <2>1. UNCHANGED crossed /\ Goto(r, Idle)
    BY DEF CommitOpen
  <2>2. QED
    BY <2>1, HandlerShapes, GotoReq DEF TypeOK
<1>3. \A q \in Request : \A a, b : Opens(q, a, b)' => q # r /\ Opens(q, a, b)
  BY <1>2 DEF Opens
<1>4. \A q \in Request : req'[q].pc = "open" => req'[q].user # req'[q].peer
  BY <1>2 DEF DirectInv
<1>5. ASSUME NEW a \in User, NEW b \in User, a # b, {a, b} \notin crossed
      PROVE  /\ \A d, e \in Conversation : Direct(d, a, b)' /\ Direct(e, a, b)' => d = e
             /\ \A q \in Request : Opens(q, a, b)' => \A d \in Conversation : ~Direct(d, a, b)'
             /\ \A q, s \in Request : Opens(q, a, b)' /\ Opens(s, a, b)' => q = s
  <2>1. /\ \A d, e \in Conversation : Direct(d, a, b) /\ Direct(e, a, b) => d = e
        /\ \A q \in Request : Opens(q, a, b) => \A d \in Conversation : ~Direct(d, a, b)
        /\ \A q, s \in Request : Opens(q, a, b) /\ Opens(s, a, b) => q = s
    BY <1>5 DEF DirectInv
  <2>2. \A d \in Conversation : Direct(d, a, b)' =>
          IF d = c THEN {a, b} = {u, v} ELSE Direct(d, a, b)
    BY <1>5, DirectCreated
  <2>3. {a, b} = {u, v} => Opens(r, a, b)
    BY <1>1 DEF Opens
  <2>4. QED
    BY <1>3, <2>1, <2>2, <2>3
<1>6. QED
  BY <1>2, <1>4, <1>5 DEF DirectInv

\* A call that opens has seen that there is none, and has crossed if another opens.
LEMMA DirectOpens ==
  ASSUME TypeOK, DirectInv, NEW r \in Request, NEW u \in User, NEW v \in User, Open(r, u, v)
  PROVE  DirectInv'
<1>1. /\ req'[r].pc = "open" /\ req'[r].user = u /\ req'[r].peer = v /\ u # v
      /\ \A q \in Request \ {r} : req'[q] = req[q]
  <2>1. PICK h \in Handler : Goto(r, h)
    BY HandlerShapes DEF Open
  <2>2. u # v
    BY DEF Open
  <2>3. QED
    BY <2>1, <2>2, BegunOpen, GotoReq DEF TypeOK
<1>2. crossed \subseteq crossed' /\ (Opening(r, u, v) => {u, v} \in crossed')
  BY DEF Open
<1>3. \A c, a, b : Direct(c, a, b)' = Direct(c, a, b)
  BY DEF Open, rosters, Direct, RowOf, MemberOf, Members
<1>4. \A c : ~Direct(c, u, v) /\ ~Direct(c, v, u)
  BY DEF Open, Shared, Direct, RowOf
<1>5. \A q \in Request : req'[q].pc = "open" => req'[q].user # req'[q].peer
  BY <1>1 DEF DirectInv
<1>6. \A q \in Request \ {r} : \A a, b : Opens(q, a, b)' = Opens(q, a, b)
  BY <1>1 DEF Opens
<1>7. \A a, b : Opens(r, a, b)' => {a, b} = {u, v} /\ \A c : ~Direct(c, a, b)
  BY <1>1, <1>4 DEF Opens
<1>8. \A s \in Request \ {r} : \A a, b : {a, b} = {u, v} /\ Opens(s, a, b) => {u, v} \in crossed'
  BY <1>2 DEF Opens, Opening
<1>9. ASSUME NEW a \in User, NEW b \in User, a # b, {a, b} \notin crossed'
      PROVE  /\ \A d, e \in Conversation : Direct(d, a, b)' /\ Direct(e, a, b)' => d = e
             /\ \A q \in Request : Opens(q, a, b)' => \A d \in Conversation : ~Direct(d, a, b)'
             /\ \A q, s \in Request : Opens(q, a, b)' /\ Opens(s, a, b)' => q = s
  <2>1. /\ \A d, e \in Conversation : Direct(d, a, b) /\ Direct(e, a, b) => d = e
        /\ \A q \in Request : Opens(q, a, b) => \A d \in Conversation : ~Direct(d, a, b)
        /\ \A q, s \in Request : Opens(q, a, b) /\ Opens(s, a, b) => q = s
    BY <1>2, <1>9 DEF DirectInv
  <2>2. \A q \in Request : Opens(q, a, b)' => \A d \in Conversation : ~Direct(d, a, b)'
    BY <1>3, <1>6, <1>7, <2>1
  <2>3. ASSUME NEW q \in Request, NEW s \in Request, Opens(q, a, b)', Opens(s, a, b)', q # s
        PROVE  FALSE
    BY <1>6, <1>7, <1>8, <1>9, <2>1, <2>3
  <2>4. QED
    BY <1>3, <2>1, <2>2, <2>3
<1>10. QED
  BY <1>5, <1>9 DEF DirectInv

LEMMA DirectStep == TypeOK /\ TypeOK' /\ TimesInv /\ DirectInv /\ [Next]_vars => DirectInv'
<1> SUFFICES ASSUME TypeOK, TypeOK', TimesInv, DirectInv, [Next]_vars PROVE DirectInv'
  OBVIOUS
<1>1. ASSUME \A c, a, b : Direct(c, a, b)' => Direct(c, a, b),
             \A q \in Request : req'[q].pc = "open" => req'[q] = req[q],
             UNCHANGED crossed
      PROVE  DirectInv'
  <2>1. \A q \in Request : \A a, b : Opens(q, a, b)' => Opens(q, a, b)
    BY <1>1 DEF Opens
  <2>2. QED
    BY <1>1, <2>1 DEF DirectInv
<1>2. ASSUME NEW r \in Request, Continue(r) \/ \E u \in User : Begin(r, u)
      PROVE  DirectInv'
  <2>1. CASE \E u, v \in User : Open(r, u, v)
    BY <2>1, DirectOpens
  <2>2. CASE \E c \in Conversation : CommitOpen(r, c)
    BY <2>2, DirectCommit
  <2>3. CASE ~(\E u, v \in User : Open(r, u, v)) /\ ~(\E c \in Conversation : CommitOpen(r, c))
    BY <1>1, <1>2, <2>3, DirectSteps, OpenSteps
  <2>4. QED
    BY <2>1, <2>2, <2>3
<1>3. CASE UNCHANGED vars
  BY <1>1, <1>3 DEF vars, rosters, Direct, RowOf, MemberOf, Members
<1>4. QED
  BY <1>2, <1>3 DEF Next

LEMMA DirectImplies == TypeOK /\ DirectInv => OneDirect
<1> SUFFICES ASSUME TypeOK, DirectInv, NEW u \in User, NEW v \in User, u # v, {u, v} \notin crossed
             PROVE  Cardinality({row \in conversations : ~row.is_group /\ MemberOf(row.id, u) # {}
                                                           /\ MemberOf(row.id, v) # {}}) <= 1
  BY DEF OneDirect
<1> DEFINE S == {row \in conversations : ~row.is_group /\ MemberOf(row.id, u) # {}
                                           /\ MemberOf(row.id, v) # {}}
<1>1. \A row1, row2 \in S : row1 = row2
  <2>1. \A row \in S : row.id \in Conversation /\ Direct(row.id, u, v)
    BY HasRow, RowFields DEF Direct, RowOf
  <2>2. \A row1, row2 \in S : row1.id = row2.id
    BY <2>1 DEF DirectInv
  <2>3. QED
    BY <2>2, HasRow
<1> HIDE DEF S
<1>2. QED
  BY <1>1, AtMostOne DEF S

\* Two users never share two 1:1 conversations unless they were opening it at the
\* same time (openWith): whatever groups they are in, whoever leaves.
THEOREM OneDirectHolds == Spec => []OneDirect
<1>1. Init => DirectInv
  BY HandlerShapes DEF Init, DirectInv, Direct, RowOf, Opens
<1>2. QED
  BY <1>1, BaseInvariance, DirectStep, DirectImplies, PTL DEF Spec
--------------------------------------------------------------------------------
(* OneOwner *)

LEMMA RosterPairs ==
  ASSUME TypeOK, NEW c
  PROVE  /\ \A p \in Roster(c) : \E m \in members :
              m.key[1] = c /\ p = <<m.key, m.role>> /\ p[1] = m.key /\ p[2] = m.role
         /\ \A m \in members : m.key[1] = c => <<m.key, m.role>> \in Roster(c)
         /\ \A p, q \in Roster(c) : p[1] = q[1] => p = q
         /\ \A p \in Roster(c) : p[1] # NoHeir
         /\ Roster(c) # {} => c \in used
<1>1. \A p \in Roster(c) : \E m \in members :
        m.key[1] = c /\ p = <<m.key, m.role>> /\ p[1] = m.key /\ p[2] = m.role
  BY DEF Roster, Members
<1>2. \A m \in members : m.key[1] = c => <<m.key, m.role>> \in Roster(c)
  BY DEF Roster, Members
<1>3. \A p, q \in Roster(c) : p[1] = q[1] => p = q
  BY <1>1, OneRow
<1>4. \A m \in members : m.key # NoHeir /\ m.key[1] \in used
  BY HasRow, MemberFields
<1>5. QED
  BY <1>1, <1>2, <1>3, <1>4

\* A roster is the same when its rows keep their keys and roles.
LEMMA RosterKept ==
  ASSUME TypeOK, TypeOK', NEW c,
         \A n \in members' : n.key[1] = c =>
           \E m \in members : m.key = n.key /\ m.role = n.role,
         \A m \in members : m.key[1] = c =>
           \E n \in members' : n.key = m.key /\ n.role = m.role
  PROVE  Roster(c)' = Roster(c)
<1>1. \A p : p \in Roster(c) <=> \E m \in members : m.key[1] = c /\ p = <<m.key, m.role>>
  BY DEF Roster, Members
<1>2. \A p : p \in Roster(c)' <=> \E m \in members' : m.key[1] = c /\ p = <<m.key, m.role>>
  BY DEF Roster, Members
<1>3. ASSUME NEW p PROVE p \in Roster(c)' <=> p \in Roster(c)
  BY <1>1, <1>2
<1>4. QED
  BY <1>3

\* What nobody at c does leaves c as it is.
LEMMA OwnerFrame ==
  ASSUME NEW c, OwnerAt(c), Roster(c)' = Roster(c),
         RowOf(c)' # {} => RowOf(c) # {}, IsGroup(c)' <=> IsGroup(c),
         \A q \in Request : ChangesRoster(q, c)' => req'[q] = req[q]
  PROVE  OwnerAt(c)'
<1>1. ASSUME NEW q \in Request, ChangesRoster(q, c)'
      PROVE  /\ ChangesRoster(q, c) /\ RoleAt(q, c)' /\ LeaveAt(q, c)' /\ LeftAt(q, c)'
             /\ Leaves(q, c)' => Leaves(q, c)
  BY <1>1 DEF OwnerAt, ChangesRoster, RoleAt, LeaveAt, LeftAt, Leaves
<1>2. ASSUME NEW q \in Request, ~ChangesRoster(q, c)'
      PROVE  RoleAt(q, c)' /\ LeaveAt(q, c)' /\ LeftAt(q, c)' /\ ~Leaves(q, c)'
  BY <1>2 DEF ChangesRoster, RoleAt, LeaveAt, LeftAt, Leaves
<1>3. \A q, s \in Request : q # s /\ Leaves(q, c)' => ~ChangesRoster(s, c)'
  BY <1>1, <1>2 DEF OwnerAt
<1>4. QED
  BY <1>1, <1>2, <1>3 DEF OwnerAt

\* setMemberRole and removeMember begin: nobody leaves, and the target is no owner.
LEMMA OwnerRoleBegins ==
  ASSUME TypeOK, NEW r \in Request, NEW u \in User, NEW c \in Conversation,
         (\E role \in GroupRole : SetMemberRole(r, u, c, role)) \/ RemoveMember(r, u, c),
         OwnerAt(c), c \notin disturbed'
  PROVE  OwnerAt(c)'
<1>1. /\ UNCHANGED rosters /\ (\E h \in Handler : Goto(r, h))
      /\ ~BesideLeave(r, c)
  BY QuietBegins DEF SetMemberRole, RemoveMember, Disturb
<1>2. \A q \in Request \ {r} : req'[q] = req[q] /\ ~Leaves(q, c)
  BY <1>1, GotoReq DEF TypeOK, BesideLeave
<1>3. /\ Roster(c)' = Roster(c) /\ RowOf(c)' = RowOf(c) /\ IsGroup(c)' = IsGroup(c)
  BY <1>1 DEF rosters, Roster, Members, RowOf, IsGroup
<1>4. /\ req'[r].pc \in {"role", "remove"}
      /\ req'[r].pc = "role" => req'[r].role # "owner"
      /\ \E m \in Members(c) : m.role # "owner" /\ req'[r].target = m.key
  BY BegunRole, BegunRemove
<1>5. \A p \in Roster(c) : p[1] = req'[r].target => p[2] # "owner"
  BY <1>4, RosterPairs, OneRow DEF Members
<1>6. RoleAt(r, c)' /\ LeaveAt(r, c)' /\ LeftAt(r, c)'
  BY <1>3, <1>4, <1>5 DEF RoleAt, LeaveAt, LeftAt, Leaves
<1>7. ASSUME NEW q \in Request \ {r} PROVE RoleAt(q, c)' /\ LeaveAt(q, c)' /\ LeftAt(q, c)'
  BY <1>2, <1>3 DEF OwnerAt, RoleAt, LeaveAt, LeftAt, Leaves
<1>8. \A q \in Request : ~Leaves(q, c)'
  BY <1>2, <1>4 DEF Leaves
<1>9. QED
  BY <1>3, <1>6, <1>7, <1>8 DEF OwnerAt

\* leaveGroup begins: nobody else changes the roster, and its reads are right.
LEMMA OwnerLeaveBegins ==
  ASSUME TypeOK, NEW r \in Request, NEW u \in User, NEW c \in Conversation, Leave(r, u, c),
         OwnerAt(c), c \notin disturbed'
  PROVE  OwnerAt(c)'
<1>1. /\ UNCHANGED rosters /\ (\E h \in Handler : Goto(r, h))
      /\ ~\E s \in Request \ {r} : ChangesRoster(s, c)
  BY QuietBegins DEF Leave, Disturb
<1>2. \A q \in Request \ {r} : req'[q] = req[q] /\ ~ChangesRoster(q, c)
  BY <1>1, GotoReq DEF TypeOK
<1>3. /\ Roster(c)' = Roster(c) /\ RowOf(c)' = RowOf(c) /\ IsGroup(c)' = IsGroup(c)
  BY <1>1 DEF rosters, Roster, Members, RowOf, IsGroup
<1>4. /\ req'[r].pc = "leave"
      /\ \E m \in MemberOf(c, u) :
           req'[r].self = m.key /\ (req'[r].owner <=> IsGroup(c) /\ m.role = "owner")
  BY BegunLeave
<1>5. \E p \in Roster(c) : /\ p[1] = req'[r].self
                           /\ req'[r].owner <=> IsGroup(c) /\ p[2] = "owner"
  <2>1. PICK m \in MemberOf(c, u) :
          req'[r].self = m.key /\ (req'[r].owner <=> IsGroup(c) /\ m.role = "owner")
    BY <1>4
  <2>2. <<m.key, m.role>> \in Roster(c)
    BY <2>1 DEF Roster, MemberOf
  <2>3. QED
    BY <2>1, <2>2
<1>6. RoleAt(r, c)' /\ LeaveAt(r, c)' /\ LeftAt(r, c)'
  BY <1>3, <1>4, <1>5 DEF RoleAt, LeaveAt, LeftAt
<1>7. ASSUME NEW q \in Request \ {r}
      PROVE  RoleAt(q, c)' /\ LeaveAt(q, c)' /\ LeftAt(q, c)' /\ ~ChangesRoster(q, c)' /\ ~Leaves(q, c)'
  BY <1>2 DEF ChangesRoster, RoleAt, LeaveAt, LeftAt, Leaves
<1>8. QED
  BY <1>3, <1>6, <1>7 DEF OwnerAt

\* leaveGroup's transaction begins: the successor is another member.
LEMMA OwnerLeaveStarts ==
  ASSUME TypeOK, NEW r \in Request, Works(r), StartLeave(r), NEW c, c = req[r].conversation,
         OwnerAt(c)
  PROVE  OwnerAt(c)'
<1>1. UNCHANGED rosters /\ (\E h \in Handler : Goto(r, h))
  BY QuietContinues
<1>2. \A q \in Request \ {r} : req'[q] = req[q]
  BY <1>1, GotoReq DEF TypeOK
<1>3. /\ Roster(c)' = Roster(c) /\ RowOf(c)' = RowOf(c) /\ IsGroup(c)' = IsGroup(c)
  BY <1>1 DEF rosters, Roster, Members, RowOf, IsGroup
<1> DEFINE others == {m \in Members(c) : m.key[2] # req[r].user}
<1>4. /\ req[r].pc = "leave" /\ req'[r].pc = "left" /\ req'[r].conversation = c
      /\ req'[r].self = req[r].self /\ req'[r].owner = req[r].owner
      /\ req'[r].last <=> others = {}
      /\ IF req[r].owner /\ others # {}
         THEN \E m \in others : req'[r].heir = m.key
         ELSE req'[r].heir = NoHeir
  BY LeaveStarted
<1>5. Leaves(r, c) /\ Leaves(r, c)'
  BY <1>4 DEF Leaves
<1>6. \A q \in Request \ {r} : ~ChangesRoster(q, c) /\ ~ChangesRoster(q, c)' /\ ~Leaves(q, c)'
  BY <1>2, <1>5 DEF OwnerAt, ChangesRoster, Leaves
<1>7. LeaveAt(r, c)' /\ RoleAt(r, c)'
  BY <1>3, <1>4, <1>5 DEF OwnerAt, LeaveAt, RoleAt
<1>8. LeftAt(r, c)'
  <2>1. \A m \in others : m.key # req[r].self /\ <<m.key, m.role>> \in Roster(c)
    BY <1>4 DEF Works, Roster
  <2>2. ~req'[r].last => \E p \in Roster(c) : /\ p[1] # req[r].self
                                              /\ req[r].owner => p[1] = req'[r].heir
    BY <1>4, <2>1
  <2>3. QED
    BY <1>3, <1>4, <2>2 DEF LeftAt
<1>9. \A q \in Request \ {r} : RoleAt(q, c)' /\ LeaveAt(q, c)' /\ LeftAt(q, c)'
  BY <1>6 DEF RoleAt, LeaveAt, LeftAt, ChangesRoster, Leaves
<1>10. QED
  BY <1>3, <1>6, <1>7, <1>8, <1>9 DEF OwnerAt

\* target.update: the target is no owner, and nobody leaves.
LEMMA OwnerUpdatesRole ==
  ASSUME TypeOK, NEW r \in Request, UpdateRole(r), NEW c, c = req[r].conversation, OwnerAt(c)
  PROVE  OwnerAt(c)'
<1>1. /\ UNCHANGED conversations /\ req'[r].pc = "idle" /\ req[r].pc = "role"
      /\ \A q \in Request \ {r} : req'[q] = req[q]
  BY HandlerShapes, GotoReq DEF TypeOK, UpdateRole
<1>2. RowOf(c)' = RowOf(c) /\ IsGroup(c)' = IsGroup(c)
  BY <1>1 DEF RowOf, IsGroup
<1>3. /\ \A p \in Roster(c) : p[1] = req[r].target => p[2] # "owner"
      /\ req[r].role # "owner"
  BY <1>1 DEF OwnerAt, RoleAt
<1>4. \A n \in Roster(c)' : \E p \in Roster(c) :
        /\ n[1] = p[1]
        /\ IF p[1] = req[r].target THEN n[2] # "owner" ELSE n = p
  <2>1. ASSUME NEW n \in Roster(c)' PROVE \E p \in Roster(c) :
          /\ n[1] = p[1]
          /\ IF p[1] = req[r].target THEN n[2] # "owner" ELSE n = p
    <3>1. PICK m \in members' : m.key[1] = c /\ n = <<m.key, m.role>>
      BY DEF Roster, Members
    <3>2. PICK old \in members : /\ m.key = old.key
                                 /\ m.role = IF old.key = req[r].target THEN req[r].role ELSE old.role
      BY UpdateRoleRows
    <3>3. <<old.key, old.role>> \in Roster(c)
      BY <3>1, <3>2 DEF Roster, Members
    <3>4. QED
      BY <1>3, <3>1, <3>2, <3>3
  <2>2. QED
    BY <2>1
<1>5. \A p \in Roster(c) : \E n \in Roster(c)' :
        n[1] = p[1] /\ (p[1] # req[r].target => n = p)
  <2>1. ASSUME NEW p \in Roster(c)
        PROVE  \E n \in Roster(c)' : n[1] = p[1] /\ (p[1] # req[r].target => n = p)
    <3>1. PICK m \in members : m.key[1] = c /\ p = <<m.key, m.role>>
      BY DEF Roster, Members
    <3>2. PICK n \in members' : /\ n.key = m.key
                                /\ n.role = IF m.key = req[r].target THEN req[r].role ELSE m.role
      BY UpdateRoleRows
    <3>3. <<n.key, n.role>> \in Roster(c)'
      BY <3>1, <3>2 DEF Roster, Members
    <3>4. QED
      BY <3>1, <3>2, <3>3
  <2>2. QED
    BY <2>1
<1>6. \A q \in Request : ~Leaves(q, c) /\ ~Leaves(q, c)'
  <2>1. ChangesRoster(r, c) /\ ~Leaves(r, c) /\ ~Leaves(r, c)'
    BY <1>1 DEF ChangesRoster, Leaves
  <2>2. \A q \in Request : ~Leaves(q, c)
    BY <2>1 DEF OwnerAt
  <2>3. QED
    BY <1>1, <2>1, <2>2 DEF Leaves
<1>7. IsGroup(c) => \E p \in Roster(c)' : /\ p[2] = "owner"
                                          /\ \A q \in Roster(c)' : q[2] = "owner" => q = p
  <2>1. SUFFICES ASSUME IsGroup(c)
                 PROVE  \E p \in Roster(c)' : /\ p[2] = "owner"
                                              /\ \A q \in Roster(c)' : q[2] = "owner" => q = p
    OBVIOUS
  <2>2. PICK p \in Roster(c) : p[2] = "owner" /\ \A q \in Roster(c) : q[2] = "owner" => q = p
    BY <2>1 DEF OwnerAt
  <2>3. p[1] # req[r].target
    BY <1>3, <2>2
  <2>4. p \in Roster(c)'
    BY <1>5, <2>3
  <2>5. \A q \in Roster(c)' : q[2] = "owner" => q = p
    BY <1>4, <2>2
  <2>6. QED
    BY <2>2, <2>4, <2>5
<1>8. ASSUME NEW q \in Request PROVE RoleAt(q, c)' /\ LeaveAt(q, c)' /\ LeftAt(q, c)'
  <2>1. LeaveAt(q, c)' /\ LeftAt(q, c)'
    BY <1>6 DEF LeaveAt, LeftAt, Leaves
  <2>2. RoleAt(q, c)'
    <3>1. CASE q = r
      BY <1>1, <3>1 DEF RoleAt
    <3>2. CASE q # r
      BY <1>1, <1>4, <3>2 DEF OwnerAt, RoleAt
    <3>3. QED
      BY <3>1, <3>2
  <2>3. QED
    BY <2>1, <2>2
<1>9. RowOf(c)' # {} => Roster(c)' # {}
  BY <1>2, <1>5 DEF OwnerAt
<1>10. QED
  BY <1>2, <1>6, <1>7, <1>8, <1>9 DEF OwnerAt

\* target.destroy: the owner of the group stays.
LEMMA OwnerDeletesMember ==
  ASSUME TypeOK, NEW r \in Request, Works(r), DeleteMember(r), NEW c, c = req[r].conversation,
         OwnerAt(c)
  PROVE  OwnerAt(c)'
<1>1. /\ UNCHANGED conversations /\ req'[r].pc = "idle" /\ req[r].pc = "remove"
      /\ \A q \in Request \ {r} : req'[q] = req[q]
      /\ members' = {m \in members : m.key # req[r].target}
  BY HandlerShapes, GotoReq DEF TypeOK, DeleteMember
<1>2. RowOf(c)' = RowOf(c) /\ IsGroup(c)' = IsGroup(c)
  BY <1>1 DEF RowOf, IsGroup
<1>3. \A p \in Roster(c) : p[1] = req[r].target => p[2] # "owner"
  BY <1>1 DEF OwnerAt, RoleAt
<1>4. \A p : p \in Roster(c)' <=> p \in Roster(c) /\ p[1] # req[r].target
  BY <1>1 DEF Roster, Members
<1>5. RowOf(c) # {} => IsGroup(c)
  BY <1>1 DEF Works, IsGroup
<1>6. \A q \in Request : ~Leaves(q, c) /\ ~Leaves(q, c)'
  <2>1. ChangesRoster(r, c) /\ ~Leaves(r, c) /\ ~Leaves(r, c)'
    BY <1>1 DEF ChangesRoster, Leaves
  <2>2. \A q \in Request : ~Leaves(q, c)
    BY <2>1 DEF OwnerAt
  <2>3. QED
    BY <1>1, <2>1, <2>2 DEF Leaves
<1>7. IsGroup(c) => \E p \in Roster(c)' : /\ p[2] = "owner"
                                          /\ \A q \in Roster(c)' : q[2] = "owner" => q = p
  BY <1>3, <1>4 DEF OwnerAt
<1>8. ASSUME NEW q \in Request PROVE RoleAt(q, c)' /\ LeaveAt(q, c)' /\ LeftAt(q, c)'
  <2>1. LeaveAt(q, c)' /\ LeftAt(q, c)'
    BY <1>6 DEF LeaveAt, LeftAt, Leaves
  <2>2. RoleAt(q, c)'
    <3>1. CASE q = r
      BY <1>1, <3>1 DEF RoleAt
    <3>2. CASE q # r
      BY <1>1, <1>4, <3>2 DEF OwnerAt, RoleAt
    <3>3. QED
      BY <3>1, <3>2
  <2>3. QED
    BY <2>1, <2>2
<1>9. RowOf(c)' # {} => Roster(c)' # {}
  BY <1>2, <1>5, <1>7
<1>10. QED
  BY <1>2, <1>6, <1>7, <1>8, <1>9 DEF OwnerAt

\* leaveGroup commits: an owner's successor is there and becomes the only owner.
LEMMA OwnerLeaveCommits ==
  ASSUME TypeOK, NEW r \in Request, CommitLeave(r), NEW c, c = req[r].conversation,
         OwnerAt(c)
  PROVE  OwnerAt(c)'
<1>1. /\ req'[r].pc = "idle" /\ req[r].pc = "left"
      /\ \A q \in Request \ {r} : req'[q] = req[q]
      /\ conversations' = {row \in conversations : ~(req[r].last /\ row.id = c)}
  BY HandlerShapes, GotoReq DEF TypeOK, CommitLeave
<1>2. Leaves(r, c)
  BY <1>1 DEF Leaves
<1>3. \A q \in Request : ~ChangesRoster(q, c)'
  BY <1>1, <1>2 DEF OwnerAt, ChangesRoster
<1>4. \A q \in Request : RoleAt(q, c)' /\ LeaveAt(q, c)' /\ LeftAt(q, c)' /\ ~Leaves(q, c)'
  BY <1>3 DEF RoleAt, LeaveAt, LeftAt, ChangesRoster, Leaves
<1>5. CASE req[r].last
  <2>1. RowOf(c)' = {} /\ ~IsGroup(c)'
    BY <1>1, <1>5 DEF RowOf, IsGroup
  <2>2. QED
    BY <1>4, <2>1 DEF OwnerAt
<1>6. CASE ~req[r].last
  <2>1. RowOf(c)' = RowOf(c) /\ IsGroup(c)' = IsGroup(c)
    BY <1>1, <1>6 DEF RowOf, IsGroup
  <2>2. ASSUME NEW n \in Roster(c)'
        PROVE  \E p \in Roster(c) : /\ p[1] # req[r].self /\ n[1] = p[1]
                                    /\ IF p[1] = req[r].heir THEN n[2] = "owner" ELSE n = p
    <3>1. PICK m \in members' : m.key[1] = c /\ n = <<m.key, m.role>>
      BY DEF Roster, Members
    <3>2. PICK old \in members : /\ m.key = old.key /\ old.key # req[r].self
                                 /\ m.role = IF old.key = req[r].heir THEN "owner" ELSE old.role
      BY CommitLeaveRows
    <3>3. <<old.key, old.role>> \in Roster(c)
      BY <3>1, <3>2 DEF Roster, Members
    <3>4. QED
      BY <3>1, <3>2, <3>3
  <2>3. ASSUME NEW p \in Roster(c), p[1] # req[r].self
        PROVE  \E n \in Roster(c)' :
                 /\ n[1] = p[1]
                 /\ IF p[1] = req[r].heir THEN n = <<p[1], "owner">> ELSE n = p
    <3>1. PICK m \in members : m.key[1] = c /\ p = <<m.key, m.role>>
      BY DEF Roster, Members
    <3>2. PICK n \in members' : /\ n.key = m.key
                                /\ n.role = IF m.key = req[r].heir THEN "owner" ELSE m.role
      BY <1>6, <2>3, <3>1, CommitLeaveRows
    <3>3. <<n.key, n.role>> \in Roster(c)'
      BY <3>1, <3>2 DEF Roster, Members
    <3>4. QED
      BY <3>1, <3>2, <3>3
  <2>4. PICK other \in Roster(c) : /\ other[1] # req[r].self
                                   /\ req[r].owner => other[1] = req[r].heir
    BY <1>1, <1>6 DEF OwnerAt, LeftAt
  <2>5. Roster(c)' # {}
    BY <2>3, <2>4
  <2>6. PICK self \in Roster(c) : self[1] = req[r].self /\ (req[r].owner <=> IsGroup(c) /\ self[2] = "owner")
    BY <1>2 DEF OwnerAt, LeaveAt
  <2>7. ASSUME IsGroup(c)
        PROVE  \E p \in Roster(c)' : /\ p[2] = "owner"
                                     /\ \A q \in Roster(c)' : q[2] = "owner" => q = p
    <3>1. PICK owner \in Roster(c) : /\ owner[2] = "owner"
                                     /\ \A q \in Roster(c) : q[2] = "owner" => q = owner
      BY <2>7 DEF OwnerAt
    <3>2. CASE req[r].owner
      <4>1. self = owner
        BY <2>6, <3>1, <3>2
      <4>2. <<other[1], "owner">> \in Roster(c)'
        BY <2>3, <2>4, <3>2
      <4>3. \A q \in Roster(c)' : q[2] = "owner" => q[1] = other[1]
        BY <2>2, <2>4, <2>6, <3>1, <3>2, <4>1
      <4>4. \A q \in Roster(c)' : q = <<q[1], q[2]>>
        BY DEF Roster
      <4>5. QED
        BY <4>2, <4>3, <4>4
    <3>3. CASE ~req[r].owner
      <4>1. \A p \in Roster(c) : p[1] # req[r].heir
        BY <1>1, <1>6, <3>3, RosterPairs DEF OwnerAt, LeftAt
      <4>2. owner[1] # req[r].self
        BY <2>6, <2>7, <3>1, <3>3, RosterPairs
      <4>3. owner \in Roster(c)'
        BY <2>3, <4>1, <4>2
      <4>4. \A q \in Roster(c)' : q[2] = "owner" => q = owner
        BY <2>2, <3>1, <4>1
      <4>5. QED
        BY <3>1, <4>3, <4>4
    <3>4. QED
      BY <3>2, <3>3
  <2>8. QED
    BY <1>4, <2>1, <2>5, <2>7 DEF OwnerAt
<1>7. QED
  BY <1>5, <1>6

\* addMembers: they come as members, and whoever is there stays.
LEMMA OwnerInserts ==
  ASSUME TypeOK, NEW r \in Request, InsertMembers(r), NEW c, c = req[r].conversation, OwnerAt(c)
  PROVE  OwnerAt(c)'
<1> DEFINE new == {NewMember(c, w, "member") : w \in req[r].added}
<1>1. /\ UNCHANGED conversations /\ members' = members \cup new
      /\ req'[r].pc = "idle" /\ \A q \in Request \ {r} : req'[q] = req[q]
  BY HandlerShapes, GotoReq DEF TypeOK, InsertMembers
<1>2. \A n \in new : n.role = "member"
  <2>1. c \in Conversation /\ req[r].added \subseteq User
    BY RequestFields DEF InsertMembers
  <2>2. QED
    BY <2>1, NewMemberFields DEF GroupRole
<1> HIDE DEF new
<1>3. RowOf(c)' = RowOf(c) /\ IsGroup(c)' = IsGroup(c)
  BY <1>1 DEF RowOf, IsGroup
<1>4. Roster(c) \subseteq Roster(c)' /\ \A p \in Roster(c)' : p \in Roster(c) \/ p[2] = "member"
  BY <1>1, <1>2 DEF Roster, Members
<1>5. ASSUME NEW q \in Request PROVE RoleAt(q, c)' /\ LeaveAt(q, c)' /\ LeftAt(q, c)'
  <2>1. CASE q = r
    BY <1>1, <2>1 DEF RoleAt, LeaveAt, LeftAt, Leaves
  <2>2. CASE q # r
    <3>1. req'[q] = req[q] /\ RoleAt(q, c) /\ LeaveAt(q, c) /\ LeftAt(q, c)
      BY <1>1, <2>2 DEF OwnerAt
    <3>2. RoleAt(q, c)'
      BY <1>4, <3>1 DEF RoleAt
    <3>3. LeaveAt(q, c)'
      BY <1>3, <1>4, <3>1 DEF LeaveAt, Leaves
    <3>4. LeftAt(q, c)'
      BY <1>4, <3>1 DEF LeftAt
    <3>5. QED
      BY <3>2, <3>3, <3>4
  <2>3. QED
    BY <2>1, <2>2
<1>6. \A q, s \in Request : q # s /\ Leaves(q, c)' => ~ChangesRoster(s, c)'
  BY <1>1 DEF OwnerAt, Leaves, ChangesRoster
<1>7. QED
  BY <1>3, <1>4, <1>5, <1>6 DEF OwnerAt

\* A conversation is created with its members, a group with one owner.
LEMMA OwnerCreated ==
  ASSUME TypeOK, TimesInv, NEW r \in Request, NEW c \in Conversation,
         \/ CommitOpen(r, c)
         \/ \E u \in User, others \in SUBSET User : CreateGroup(r, u, c, others)
  PROVE  OwnerAt(c)'
<1>1. c \notin used /\ Members(c) = {} /\ RowOf(c) = {}
  BY HasRow DEF CommitOpen, CreateGroup, Members, RowOf
<1>2. \A q \in Request : req'[q] = req[q] \/ req'[q].pc = "idle"
  <2>1. ASSUME CommitOpen(r, c) PROVE \A q \in Request : req'[q] = req[q] \/ req'[q].pc = "idle"
    BY <2>1, HandlerShapes, GotoReq DEF TypeOK, CommitOpen
  <2>2. QED
    BY <2>1 DEF CreateGroup
<1>3. \A q \in Request : RoleAt(q, c)' /\ LeaveAt(q, c)' /\ LeftAt(q, c)' /\ ~Leaves(q, c)'
  BY <1>1, <1>2 DEF RoleAt, LeaveAt, LeftAt, Leaves, TimesInv, Works
<1>4. CASE CommitOpen(r, c)
  <2> DEFINE row == [id |-> c, is_group |-> FALSE, created_by |-> req[r].user, last_message_at |-> clock + 1]
             m == NewMember(c, req[r].user, "member")
  <2>1. /\ conversations' = conversations \cup {row} /\ ~row.is_group /\ row.id = c
        /\ m \in members'
    BY <1>4 DEF CommitOpen
  <2>2. m.key[1] = c
    BY <1>4, RequestFields, NewMemberFields DEF CommitOpen, GroupRole
  <2> HIDE DEF row, m
  <2>3. ~IsGroup(c)'
    BY <1>1, <2>1 DEF IsGroup, RowOf
  <2>4. Roster(c)' # {}
    BY <2>1, <2>2 DEF Roster, Members
  <2>5. QED
    BY <1>3, <2>3, <2>4 DEF OwnerAt
<1>5. CASE \E u \in User, others \in SUBSET User : CreateGroup(r, u, c, others)
  <2>1. PICK u \in User, others \in SUBSET User : CreateGroup(r, u, c, others)
    BY <1>5
  <2> DEFINE m == NewMember(c, u, "owner")
             new == {NewMember(c, w, "member") : w \in others}
  <2>2. members' = members \cup {m} \cup new
    BY <2>1 DEF CreateGroup
  <2>3. m.key[1] = c /\ m.role = "owner" /\ \A n \in new : n.role = "member"
    BY NewMemberFields DEF GroupRole
  <2> HIDE DEF m, new
  <2>4. <<m.key, m.role>> \in Roster(c)'
    BY <2>2, <2>3 DEF Roster, Members
  <2>5. \A q \in Roster(c)' : q[2] = "owner" => q = <<m.key, m.role>>
    BY <1>1, <2>2, <2>3 DEF Roster, Members
  <2>6. QED
    BY <1>3, <2>3, <2>4, <2>5 DEF OwnerAt
<1>6. QED
  BY <1>4, <1>5

\* What a step leaves of the roster of c.
Kept(c) ==
  /\ Roster(c)' = Roster(c)
  /\ RowOf(c)' # {} => RowOf(c) # {}
  /\ IsGroup(c)' <=> IsGroup(c)
  /\ \A q \in Request : ChangesRoster(q, c)' => req'[q] = req[q]

LEMMA QuietKept ==
  ASSUME NEW r \in Request, NEW c, UNCHANGED rosters,
         \A q \in Request \ {r} : req'[q] = req[q],
         ~ChangesRoster(r, c)'
  PROVE  Kept(c)
BY DEF Kept, rosters, Roster, Members, RowOf, IsGroup

\* Calls that begin, but those that will change the roster of c.
LEMMA BeginsElsewhere ==
  ASSUME TypeOK, NEW r \in Request, NEW u \in User, NEW c \in Conversation, Begin(r, u),
         \A others \in SUBSET User : ~CreateGroup(r, u, c, others),
         \A role \in GroupRole : ~SetMemberRole(r, u, c, role),
         ~RemoveMember(r, u, c), ~Leave(r, u, c)
  PROVE  Kept(c)
<1>1. \A q \in Request \ {r} : req'[q] = req[q]
  BY StepFrame
<1>2. ASSUME NEW v \in User, Open(r, u, v) PROVE Kept(c)
  <2>1. UNCHANGED rosters /\ req'[r].pc = "open"
    BY <1>2, BegunOpen DEF Open
  <2>2. QED
    BY <1>1, <2>1, QuietKept DEF ChangesRoster
<1>3. ASSUME NEW d \in Conversation, NEW others \in SUBSET User, CreateGroup(r, u, d, others)
      PROVE  Kept(c)
  <2> DEFINE row == [id |-> d, is_group |-> TRUE, created_by |-> u, last_message_at |-> 0]
             new == {NewMember(d, u, "owner")} \cup {NewMember(d, w, "member") : w \in others}
  <2>1. d # c
    BY <1>3
  <2>2. row.id = d /\ \A n \in new : n.key[1] = d
    BY NewMemberFields DEF GroupRole
  <2>3. conversations' = conversations \cup {row} /\ members' = members \cup new /\ UNCHANGED req
    BY <1>3 DEF CreateGroup
  <2> HIDE DEF row, new
  <2>4. Roster(c)' = Roster(c)
    BY <2>1, <2>2, <2>3 DEF Roster, Members
  <2>5. RowOf(c)' = RowOf(c)
    BY <2>1, <2>2, <2>3 DEF RowOf
  <2>6. QED
    BY <2>3, <2>4, <2>5 DEF Kept, IsGroup
<1>4. ASSUME NEW d \in Conversation,
             \/ \E users \in SUBSET User : AddMembers(r, u, d, users)
             \/ \E role \in GroupRole : SetMemberRole(r, u, d, role)
             \/ RemoveMember(r, u, d)
             \/ Leave(r, u, d)
             \/ Post(r, u, d)
             \/ OpenThread(r, u, d)
      PROVE Kept(c)
  <2>1. UNCHANGED rosters
    BY <1>4, QuietBegins
  <2>2. ~ChangesRoster(r, c)'
    <3>1. CASE d = c
      BY <1>4, <3>1, BegunCall DEF ChangesRoster
    <3>2. CASE d # c
      BY <1>4, <3>2, BegunCall, BegunRole, BegunRemove, BegunLeave DEF ChangesRoster
    <3>3. QED
      BY <3>1, <3>2
  <2>3. QED
    BY <1>1, <2>1, <2>2, QuietKept
<1>5. QED
  BY <1>2, <1>3, <1>4 DEF Begin

\* The steps at another conversation, and those that change no roster.
LEMMA ContinuesElsewhere ==
  ASSUME TypeOK, TypeOK', TimesInv, NEW r \in Request, NEW c \in Conversation, Continue(r),
         ~CommitOpen(r, c),
         InsertMembers(r) \/ UpdateRole(r) \/ DeleteMember(r) \/ StartLeave(r) \/ CommitLeave(r) =>
           req[r].conversation # c
  PROVE  Kept(c)
<1>1. \A q \in Request \ {r} : req'[q] = req[q]
  BY StepFrame
<1>2. ASSUME Goto(r, Idle) PROVE req'[r].pc = "idle"
  BY <1>2, HandlerShapes, GotoReq DEF TypeOK
<1>3. ASSUME NEW d \in Conversation, CommitOpen(r, d) PROVE Kept(c)
  <2> DEFINE row == [id |-> d, is_group |-> FALSE, created_by |-> req[r].user, last_message_at |-> clock + 1]
             new == {NewMember(d, w, "member") : w \in {req[r].user, req[r].peer}}
  <2>1. d # c
    BY <1>3
  <2>2. row.id = d /\ \A n \in new : n.key[1] = d
    BY <1>3, RequestFields, NewMemberFields DEF GroupRole, CommitOpen
  <2>3. /\ conversations' = conversations \cup {row} /\ members' = members \cup new
        /\ req'[r].pc = "idle"
    BY <1>2, <1>3 DEF CommitOpen
  <2> HIDE DEF row, new
  <2>4. Roster(c)' = Roster(c)
    BY <2>1, <2>2, <2>3 DEF Roster, Members
  <2>5. RowOf(c)' = RowOf(c)
    BY <2>1, <2>2, <2>3 DEF RowOf
  <2>6. QED
    BY <1>1, <2>3, <2>4, <2>5 DEF Kept, IsGroup, ChangesRoster
<1>4. CASE InsertMembers(r)
  <2> DEFINE new == {NewMember(req[r].conversation, w, "member") : w \in req[r].added}
  <2>1. req[r].conversation # c
    BY <1>4
  <2>2. \A n \in new : n.key[1] = req[r].conversation
    BY <1>4, RequestFields, NewMemberFields DEF GroupRole, InsertMembers
  <2>3. UNCHANGED conversations /\ members' = members \cup new /\ req'[r].pc = "idle"
    BY <1>2, <1>4 DEF InsertMembers
  <2> HIDE DEF new
  <2>4. Roster(c)' = Roster(c)
    BY <2>1, <2>2, <2>3 DEF Roster, Members
  <2>5. RowOf(c)' = RowOf(c)
    BY <2>3 DEF RowOf
  <2>6. QED
    BY <1>1, <2>3, <2>4, <2>5 DEF Kept, IsGroup, ChangesRoster
<1>5. CASE UpdateRole(r)
  <2>1. req[r].conversation # c /\ req[r].target[1] = req[r].conversation
    BY <1>5 DEF TimesInv, Works, UpdateRole
  <2>2. UNCHANGED conversations /\ req'[r].pc = "idle"
    BY <1>2, <1>5 DEF UpdateRole
  <2>3. Roster(c)' = Roster(c)
    BY <1>5, <2>1, UpdateRoleRows, RosterKept
  <2>4. QED
    BY <1>1, <2>2, <2>3 DEF Kept, IsGroup, RowOf, ChangesRoster
<1>6. CASE DeleteMember(r)
  <2>1. req[r].conversation # c /\ req[r].target[1] = req[r].conversation
    BY <1>6 DEF TimesInv, Works, DeleteMember
  <2>2. /\ UNCHANGED conversations /\ req'[r].pc = "idle"
        /\ members' = {m \in members : m.key # req[r].target}
    BY <1>2, <1>6 DEF DeleteMember
  <2>3. Roster(c)' = Roster(c)
    BY <2>1, <2>2 DEF Roster, Members
  <2>4. QED
    BY <1>1, <2>2, <2>3 DEF Kept, IsGroup, RowOf, ChangesRoster
<1>7. CASE StartLeave(r)
  <2>1. ~ChangesRoster(r, c)'
    BY <1>7, LeaveStarted DEF ChangesRoster
  <2>2. QED
    BY <1>1, <1>7, <2>1, QuietContinues, QuietKept
<1>8. CASE CommitLeave(r)
  <2>1. /\ req[r].conversation # c /\ req[r].self[1] = req[r].conversation
        /\ req[r].heir # NoHeir => req[r].heir[1] = req[r].conversation
    BY <1>8 DEF TimesInv, Works, CommitLeave
  <2>2. /\ req'[r].pc = "idle"
        /\ conversations' = {row \in conversations : ~(req[r].last /\ row.id = req[r].conversation)}
    BY <1>2, <1>8 DEF CommitLeave
  <2>3. \A m \in members : m.key # NoHeir
    BY HasRow, MemberFields
  <2>4. Roster(c)' = Roster(c)
    BY <1>8, <2>1, <2>3, CommitLeaveRows, RosterKept
  <2>5. RowOf(c)' = RowOf(c)
    BY <2>1, <2>2 DEF RowOf
  <2>6. QED
    BY <1>1, <2>2, <2>4, <2>5 DEF Kept, IsGroup, ChangesRoster
<1>9. CASE InsertMessage(r) \/ MarkReceipts(r)
  BY <1>1, <1>9, GoesOn, QuietKept DEF InsertMessage, MarkReceipts, ChangesRoster
<1>10. CASE ListThread(r) \/ Abort(r)
  BY <1>1, <1>2, <1>10, QuietKept DEF ListThread, Abort, ChangesRoster
<1>11. CASE UpdatePreview(r)
  <2>1. UNCHANGED members /\ req'[r].pc = "idle"
    BY <1>2, <1>11 DEF UpdatePreview
  <2>2. Roster(c)' = Roster(c)
    BY <2>1 DEF Roster, Members
  <2>3. (RowOf(c)' # {} => RowOf(c) # {}) /\ (IsGroup(c)' <=> IsGroup(c))
    BY <1>11, UpdatePreviewRows DEF RowOf, IsGroup
  <2>4. QED
    BY <1>1, <2>1, <2>2, <2>3 DEF Kept, ChangesRoster
<1>12. CASE MarkRead(r)
  <2>1. UNCHANGED conversations /\ req'[r].pc = "receipts"
    BY <1>12, GoesOn DEF MarkRead
  <2>2. Roster(c)' = Roster(c)
    BY <1>12, MarkReadRows, RosterKept
  <2>3. QED
    BY <1>1, <2>1, <2>2 DEF Kept, IsGroup, RowOf, ChangesRoster
<1>13. QED
  BY <1>3, <1>4, <1>5, <1>6, <1>7, <1>8, <1>9, <1>10, <1>11, <1>12 DEF Continue

LEMMA OwnerStep == TypeOK /\ TypeOK' /\ TimesInv /\ OwnerInv /\ [Next]_vars => OwnerInv'
<1> SUFFICES ASSUME TypeOK, TypeOK', TimesInv, OwnerInv, [Next]_vars,
                    NEW c \in Conversation, c \notin disturbed'
             PROVE  OwnerAt(c)'
  BY DEF OwnerInv
<1>1. ASSUME OwnerAt(c), Kept(c) PROVE OwnerAt(c)'
  BY <1>1, OwnerFrame DEF Kept
<1>2. ASSUME NEW r \in Request, Continue(r) PROVE OwnerAt(c)'
  <2>1. UNCHANGED disturbed
    BY <1>2 DEF Continue, CommitOpen, InsertMembers, UpdateRole, DeleteMember, StartLeave, CommitLeave,
       InsertMessage, UpdatePreview, MarkRead, MarkReceipts, ListThread, Abort
  <2>2. OwnerAt(c)
    BY <2>1 DEF OwnerInv
  <2>3. CASE CommitOpen(r, c)
    BY <2>3, OwnerCreated
  <2>4. CASE /\ InsertMembers(r) \/ UpdateRole(r) \/ DeleteMember(r) \/ StartLeave(r) \/ CommitLeave(r)
             /\ req[r].conversation = c
    BY <2>2, <2>4, OwnerInserts, OwnerUpdatesRole, OwnerDeletesMember, OwnerLeaveStarts,
       OwnerLeaveCommits DEF TimesInv
  <2>5. QED
    BY <1>1, <1>2, <2>2, <2>3, <2>4, ContinuesElsewhere
<1>3. ASSUME NEW r \in Request, NEW u \in User, Begin(r, u) PROVE OwnerAt(c)'
  <2>1. disturbed \subseteq disturbed'
    BY <1>3 DEF Begin, Open, CreateGroup, AddMembers, SetMemberRole, RemoveMember, Leave, Post,
       OpenThread, Disturb
  <2>2. OwnerAt(c)
    BY <2>1 DEF OwnerInv
  <2>3. CASE \E others \in SUBSET User : CreateGroup(r, u, c, others)
    BY <2>3, OwnerCreated
  <2>4. CASE (\E role \in GroupRole : SetMemberRole(r, u, c, role)) \/ RemoveMember(r, u, c)
    BY <2>2, <2>4, OwnerRoleBegins
  <2>5. CASE Leave(r, u, c)
    BY <2>2, <2>5, OwnerLeaveBegins
  <2>6. QED
    BY <1>1, <1>3, <2>2, <2>3, <2>4, <2>5, BeginsElsewhere
<1>4. CASE UNCHANGED vars
  <2>1. OwnerAt(c)
    BY <1>4 DEF vars, OwnerInv
  <2>2. Kept(c)
    BY <1>4 DEF vars, rosters, Kept, Roster, Members, RowOf, IsGroup
  <2>3. QED
    BY <1>1, <2>1, <2>2
<1>5. QED
  BY <1>2, <1>3, <1>4 DEF Next

LEMMA OwnerImplies == TypeOK /\ OwnerInv => OneOwner
<1> SUFFICES ASSUME TypeOK, OwnerInv, NEW row \in conversations, row.id \notin disturbed
             PROVE  /\ Members(row.id) # {}
                    /\ row.is_group => Cardinality({m \in Members(row.id) : m.role = "owner"}) = 1
  BY DEF OneOwner
<1>1. row.id \in Conversation /\ row \in RowOf(row.id)
  BY HasRow, RowFields DEF RowOf
<1>2. OwnerAt(row.id)
  BY <1>1 DEF OwnerInv
<1>3. Members(row.id) # {}
  BY <1>1, <1>2 DEF OwnerAt, Roster
<1>4. ASSUME row.is_group
      PROVE  Cardinality({m \in Members(row.id) : m.role = "owner"}) = 1
  <2> DEFINE owners == {m \in Members(row.id) : m.role = "owner"}
  <2>1. IsGroup(row.id)
    BY <1>1, <1>4 DEF IsGroup
  <2>2. PICK p \in Roster(row.id) : p[2] = "owner" /\ \A q \in Roster(row.id) : q[2] = "owner" => q = p
    BY <1>2, <2>1 DEF OwnerAt
  <2>3. PICK m \in Members(row.id) : p = <<m.key, m.role>>
    BY <2>2 DEF Roster
  <2>4. \A n \in owners : n = m
    <3>1. ASSUME NEW n \in owners PROVE n.key = m.key
      <4>1. <<n.key, n.role>> \in Roster(row.id)
        BY DEF Roster
      <4>2. QED
        BY <2>2, <2>3, <4>1
    <3>2. QED
      BY <2>3, <3>1, OneRow DEF Members
  <2>5. owners = {m}
    BY <2>2, <2>3, <2>4
  <2> HIDE DEF owners
  <2>6. QED
    BY <2>5, FS_Singleton DEF owners
<1>5. QED
  BY <1>3, <1>4

\* Somebody is in every conversation and a group has exactly one owner, unless
\* somebody was leaving while another call that changes the roster was in flight
\* (leaveGroup, setMemberRole, removeMember, addMembers, createGroup).
THEOREM OneOwnerHolds == Spec => []OneOwner
<1>1. Init => OwnerInv
  BY HandlerShapes DEF Init, OwnerInv, OwnerAt, RoleAt, LeaveAt, LeftAt, Leaves, RowOf, IsGroup
<1>2. QED
  BY <1>1, BaseInvariance, OwnerStep, OwnerImplies, PTL DEF Spec

--------------------------------------------------------------------------------
(* SeenOrUnread *)

\* What was accounted for stays so: a reading that ends leaves every message it
\* could have shown among those shown or missed.
LEMMA AccountedKept ==
  ASSUME NEW r \in Request, \A q \in Request \ {r} : req'[q] = req[q],
         shown \subseteq shown', missed \subseteq missed',
         req[r].pc \in {"receipts", "list"} =>
           \/ /\ req'[r].pc \in {"receipts", "list"}
              /\ req'[r].user = req[r].user /\ req'[r].conversation = req[r].conversation
           \/ \A x \in messages : x.conversation = req[r].conversation =>
                <<req[r].user, x.conversation, x.created_at>> \in shown' \cup missed',
         NEW x \in messages, NEW u, Accounted(u, x.conversation, x.created_at)
  PROVE  Accounted(u, x.conversation, x.created_at)'
<1> DEFINE c == x.conversation
<1>1. CASE <<u, c, x.created_at>> \in shown \cup missed
  BY <1>1 DEF Accounted
<1>2. CASE Reads(u, c)
  <2>1. PICK q \in Request : /\ req[q].pc \in {"receipts", "list"}
                             /\ req[q].user = u /\ req[q].conversation = c
    BY <1>2 DEF Reads
  <2>2. CASE q # r
    BY <2>1, <2>2 DEF Accounted, Reads
  <2>3. CASE q = r
    BY <2>1, <2>3 DEF Accounted, Reads
  <2>4. QED
    BY <2>2, <2>3
<1>3. QED
  BY <1>1, <1>2 DEF Accounted

\* The reading of u in c does not go on by itself.
LEMMA ReadToKept ==
  ASSUME TypeOK,
         \A n \in members' : \/ n.last_read_at = 0
                             \/ \E m \in members : m.key = n.key /\ m.last_read_at = n.last_read_at,
         NEW u, NEW c, NEW t \in Nat \ {0}, ReadTo(u, c, t)'
  PROVE  ReadTo(u, c, t)
<1>1. PICK n \in members' : n.key[1] = c /\ n.key[2] = u /\ t <= n.last_read_at
  BY DEF ReadTo, MemberOf, Members
<1>2. n.last_read_at # 0
  BY <1>1
<1>3. PICK m \in members : m.key = n.key /\ m.last_read_at = n.last_read_at
  BY <1>2
<1>4. QED
  BY <1>1, <1>3 DEF ReadTo, MemberOf, Members

\* The times of messages and of handlers.
LEMMA TimesKnown ==
  ASSUME TypeOK, TimesInv
  PROVE  /\ clock \in Nat
         /\ \A x \in messages : x.created_at \in Nat \ {0} /\ x.sender \in User
         /\ \A q \in Request : req[q].pc \in {"post", "preview"} =>
              req[q].created_at \in Nat \ {0} /\ req[q].created_at <= clock /\ req[q].user \in User
<1>1. clock \in Nat
  BY HasRow
<1>2. \A x \in messages : x.created_at \in 1 .. clock /\ x.sender \in User
  BY HasRow, MessageFields DEF TimesInv
<1>3. \A q \in Request : req[q].pc \in {"post", "preview"} =>
        req[q].created_at \in 1 .. clock /\ req[q].user \in User
  BY RequestFields DEF TimesInv, Works
<1>4. QED
  BY <1>1, <1>2, <1>3

LEMMA PostSeenKept ==
  ASSUME TypeOK, TimesInv, missed \subseteq missed',
         \A n \in members' : \/ n.last_read_at = 0
                             \/ \E m \in members : m.key = n.key /\ m.last_read_at = n.last_read_at,
         NEW q \in Request, PostSeen(q), req'[q].pc = "post" => req'[q] = req[q]
  PROVE  PostSeen(q)'
<1>1. SUFFICES ASSUME req[q].pc = "post", req'[q] = req[q] PROVE PostSeen(q)'
  BY DEF PostSeen
<1>2. PICK c, t : c = req[q].conversation /\ t = req[q].created_at
  OBVIOUS
<1>3. t \in Nat \ {0}
  BY <1>1, <1>2, TimesKnown
<1>4. \A u : ReadTo(u, c, t)' => ReadTo(u, c, t)
  BY <1>3, ReadToKept
<1>5. QED
  BY <1>1, <1>2, <1>4 DEF PostSeen

LEMMA SeenKept ==
  ASSUME TypeOK, TimesInv, SeenInv, missed \subseteq missed',
         \A x \in messages : \A u : Accounted(u, x.conversation, x.created_at) =>
                                      Accounted(u, x.conversation, x.created_at)',
         \A n \in members' : \/ n.last_read_at = 0
                             \/ \E m \in members : m.key = n.key /\ m.last_read_at = n.last_read_at,
         \A y \in messages' : \E x \in messages :
           /\ y.conversation = x.conversation /\ y.sender = x.sender
           /\ y.created_at = x.created_at /\ (y.read => x.read),
         \A q \in Request : req'[q].pc = "post" => req'[q] = req[q]
  PROVE  SeenInv'
<1>1. ASSUME NEW y \in messages' PROVE MessageSeen(y)'
  <2>1. PICK x \in messages : /\ y.conversation = x.conversation /\ y.sender = x.sender
                              /\ y.created_at = x.created_at /\ (y.read => x.read)
    OBVIOUS
  <2>2. x.created_at \in Nat \ {0}
    BY TimesKnown
  <2>3. \A u : ReadTo(u, x.conversation, x.created_at)' => ReadTo(u, x.conversation, x.created_at)
    BY <2>2, ReadToKept
  <2>4. MessageSeen(x)
    BY DEF SeenInv
  <2>5. QED
    BY <2>1, <2>3, <2>4 DEF MessageSeen
<1>2. ASSUME NEW q \in Request PROVE PostSeen(q)'
  BY PostSeenKept DEF SeenInv
<1>3. QED
  BY <1>1, <1>2 DEF SeenInv

LEMMA PostSeenFrame ==
  ASSUME TypeOK, TimesInv, UNCHANGED <<rosters, missed>>,
         NEW q \in Request, PostSeen(q), req'[q].pc = "post" => req'[q] = req[q]
  PROVE  PostSeen(q)'
BY PostSeenKept DEF rosters

\* The message that goes in, and the one that is on its way, have been missed by
\* those who have read on.
LEMMA SeenInserts ==
  ASSUME TypeOK, TimesInv, SeenInv, NEW r \in Request, InsertMessage(r)
  PROVE  SeenInv'
<1> DEFINE h == req[r]
<1>0. PICK new : new = [conversation |-> h.conversation, sender |-> h.user,
                        created_at |-> h.created_at, read |-> FALSE]
  OBVIOUS
<1>1. /\ UNCHANGED <<rosters, shown, missed>> /\ messages' = messages \cup {new} /\ h.pc = "post"
      /\ new.conversation = h.conversation /\ new.sender = h.user
      /\ new.created_at = h.created_at /\ ~new.read
  BY <1>0 DEF InsertMessage
<1>2. req'[r].pc = "preview" /\ \A q \in Request \ {r} : req'[q] = req[q]
  BY GoesOn
<1>3. \A u, c, t : ReadTo(u, c, t)' = ReadTo(u, c, t)
  BY <1>1 DEF rosters, ReadTo, MemberOf, Members
<1>4. \A x \in messages : \A u : Accounted(u, x.conversation, x.created_at) =>
                                   Accounted(u, x.conversation, x.created_at)'
  BY <1>1, <1>2, AccountedKept
<1>5. MessageSeen(new)'
  <2>1. \A u \in User \ {new.sender} : ReadTo(u, new.conversation, new.created_at) =>
          <<u, new.conversation, new.created_at>> \in missed
    BY <1>1 DEF SeenInv, PostSeen
  <2>2. QED
    BY <1>1, <1>3, <2>1 DEF MessageSeen, Accounted
<1>6. ASSUME NEW x \in messages PROVE MessageSeen(x)'
  BY <1>3, <1>4 DEF SeenInv, MessageSeen
<1>7. \A q \in Request : PostSeen(q)'
  BY <1>1, <1>2, PostSeenFrame DEF SeenInv
<1>8. QED
  BY <1>1, <1>5, <1>6, <1>7 DEF SeenInv

\* Nobody has read up to a message that is only being built.
LEMMA SeenPosts ==
  ASSUME TypeOK, TimesInv, SeenInv, NEW r \in Request, NEW u \in User, NEW c \in Conversation,
         Post(r, u, c)
  PROVE  SeenInv'
<1>1. UNCHANGED <<rosters, messages, shown, missed>> /\ req[r].pc = "idle"
  BY CallTypes DEF Post
<1>2. /\ req'[r].pc = "post" /\ req'[r].conversation = c /\ req'[r].created_at = clock + 1
      /\ \A q \in Request \ {r} : req'[q] = req[q]
  <2>1. \E h \in Handler : Goto(r, h)
    BY QuietBegins
  <2>2. QED
    BY <2>1, BegunCall, GotoReq DEF TypeOK
<1>3. \A v, d, t : ReadTo(v, d, t)' = ReadTo(v, d, t)
  BY <1>1 DEF rosters, ReadTo, MemberOf, Members
<1>4. \A x \in messages : \A v : Accounted(v, x.conversation, x.created_at) =>
                                   Accounted(v, x.conversation, x.created_at)'
  BY <1>1, <1>2, AccountedKept
<1>5. \A v : ~ReadTo(v, c, clock + 1)
  <2>1. \A m \in members : m.last_read_at \in Nat /\ m.last_read_at <= clock /\ clock \in Nat
    BY HasRow, MemberFields DEF TimesInv
  <2>2. \A m \in members : ~(clock + 1 <= m.last_read_at)
    BY <2>1
  <2>3. QED
    BY <2>2 DEF ReadTo, MemberOf, Members
<1>6. ASSUME NEW y \in messages PROVE MessageSeen(y)'
  BY <1>3, <1>4 DEF SeenInv, MessageSeen
<1>7. PostSeen(r)'
  BY <1>2, <1>3, <1>5 DEF PostSeen
<1>8. \A q \in Request \ {r} : PostSeen(q)'
  BY <1>1, <1>2, PostSeenFrame DEF SeenInv
<1>9. QED
  BY <1>1, <1>6, <1>7, <1>8 DEF SeenInv

\* u reads on: everything before now is being read, what is on its way is missed.
LEMMA SeenMarksRead ==
  ASSUME TypeOK, TimesInv, SeenInv, NEW r \in Request, MarkRead(r)
  PROVE  SeenInv'
<1>0. PICK reader, thread : reader = req[r].user /\ thread = req[r].conversation
  OBVIOUS
<1>1. /\ UNCHANGED <<messages, shown>> /\ missed \subseteq missed'
      /\ InFlight(reader, thread) \subseteq missed'
  BY <1>0 DEF MarkRead
<1>2. /\ req[r].pc = "mark" /\ req'[r].pc = "receipts"
      /\ req'[r].user = reader /\ req'[r].conversation = thread
      /\ \A q \in Request \ {r} : req'[q] = req[q]
  BY <1>0, GoesOn
<1>3. Reads(reader, thread)'
  BY <1>2 DEF Reads
<1>4. \A x \in messages : \A u : Accounted(u, x.conversation, x.created_at) =>
                                   Accounted(u, x.conversation, x.created_at)'
  BY <1>0, <1>1, <1>2, AccountedKept
<1>5. ASSUME NEW u, NEW c, NEW t, ReadTo(u, c, t)'
      PROVE  ReadTo(u, c, t) \/ (u = reader /\ c = thread)
  <2>1. PICK n \in members' : n.key[1] = c /\ n.key[2] = u /\ t <= n.last_read_at
    BY <1>5 DEF ReadTo, MemberOf, Members
  <2>2. PICK m \in members : /\ n.key = m.key
                             /\ n.last_read_at = IF m.key[1] = thread /\ m.key[2] = reader
                                                 THEN clock ELSE m.last_read_at
    BY <1>0, MarkReadRows
  <2>3. QED
    BY <2>1, <2>2 DEF ReadTo, MemberOf, Members
<1>6. ASSUME NEW x \in messages PROVE MessageSeen(x)'
  <2>1. ASSUME NEW u \in User \ {x.sender}, ReadTo(u, x.conversation, x.created_at)'
        PROVE  Accounted(u, x.conversation, x.created_at)'
    <3>1. CASE ReadTo(u, x.conversation, x.created_at)
      BY <1>4, <3>1 DEF SeenInv, MessageSeen
    <3>2. CASE u = reader /\ x.conversation = thread
      BY <1>3, <3>2 DEF Accounted
    <3>3. QED
      BY <1>5, <2>1, <3>1, <3>2
  <2>2. QED
    BY <1>4, <2>1 DEF SeenInv, MessageSeen
<1>7. ASSUME NEW q \in Request PROVE PostSeen(q)'
  <2>1. SUFFICES ASSUME q # r, req[q].pc = "post", req'[q] = req[q] PROVE PostSeen(q)'
    BY <1>2 DEF PostSeen
  <2>2. PICK c, t : c = req[q].conversation /\ t = req[q].created_at
    OBVIOUS
  <2>3. <<reader, thread, t>> \in missed' \/ thread # c
    BY <1>1, <2>1, <2>2 DEF InFlight
  <2>4. \A u \in User \ {req[q].user} : ReadTo(u, c, t)' => <<u, c, t>> \in missed'
    <3>1. ASSUME NEW u \in User \ {req[q].user}, ReadTo(u, c, t)' PROVE <<u, c, t>> \in missed'
      <4>1. CASE ReadTo(u, c, t)
        BY <1>1, <2>1, <2>2, <4>1 DEF SeenInv, PostSeen
      <4>2. CASE u = reader /\ c = thread
        BY <2>3, <4>2
      <4>3. QED
        BY <1>5, <3>1, <4>1, <4>2
    <3>2. QED
      BY <3>1
  <2>5. QED
    BY <2>1, <2>2, <2>4 DEF PostSeen
<1>8. QED
  BY <1>1, <1>6, <1>7 DEF SeenInv

\* The receipts of a thread are written by one who is reading it.
LEMMA SeenMarksReceipts ==
  ASSUME TypeOK, TimesInv, SeenInv, NEW r \in Request, MarkReceipts(r)
  PROVE  SeenInv'
<1>0. PICK reader, thread : reader = req[r].user /\ thread = req[r].conversation
  OBVIOUS
<1>1. UNCHANGED <<rosters, shown, missed>>
  BY DEF MarkReceipts
<1>2. /\ req[r].pc = "receipts" /\ req'[r].pc = "list"
      /\ req'[r].user = reader /\ req'[r].conversation = thread
      /\ \A q \in Request \ {r} : req'[q] = req[q]
  BY <1>0, GoesOn
<1>3. Reads(reader, thread)' /\ reader \in User
  BY <1>2, <1>0, RequestFields DEF Reads
<1>4. \A x \in messages : \A u : Accounted(u, x.conversation, x.created_at) =>
                                   Accounted(u, x.conversation, x.created_at)'
  BY <1>0, <1>1, <1>2, AccountedKept
<1>5. \A v, d, t : ReadTo(v, d, t)' = ReadTo(v, d, t)
  BY <1>1 DEF rosters, ReadTo, MemberOf, Members
<1>6. ASSUME NEW y \in messages' PROVE MessageSeen(y)'
  <2>1. PICK x \in messages : /\ y.conversation = x.conversation /\ y.sender = x.sender
                              /\ y.created_at = x.created_at
                              /\ y.read => x.read \/ x.conversation = thread
    BY <1>0, MarkReceiptsRows
  <2>2. MessageSeen(x)
    BY DEF SeenInv
  <2>3. \A u \in User \ {y.sender} : ReadTo(u, y.conversation, y.created_at)' =>
                                       Accounted(u, y.conversation, y.created_at)'
    BY <1>4, <1>5, <2>1, <2>2 DEF MessageSeen
  <2>4. x.read => \E u \in User : Accounted(u, y.conversation, y.created_at)'
    BY <1>4, <2>1, <2>2 DEF MessageSeen
  <2>5. x.conversation = thread => Accounted(reader, y.conversation, y.created_at)'
    BY <1>3, <2>1 DEF Accounted
  <2>6. QED
    BY <1>3, <2>1, <2>3, <2>4, <2>5 DEF MessageSeen
<1>7. \A q \in Request : PostSeen(q)'
  BY <1>1, <1>2, PostSeenFrame DEF SeenInv
<1>8. QED
  BY <1>6, <1>7 DEF SeenInv

\* A reading ends, listed or not: what it leaves out is missed.
LEMMA SeenEnds ==
  ASSUME TypeOK, TimesInv, SeenInv, NEW r \in Request, ListThread(r) \/ Abort(r)
  PROVE  SeenInv'
<1> DEFINE h == req[r]
<1>1. /\ UNCHANGED <<rosters, messages>> /\ req'[r].pc = "idle"
      /\ shown \subseteq shown' /\ missed \subseteq missed'
      /\ \A q \in Request \ {r} : req'[q] = req[q]
  <2>1. Goto(r, Idle)
    BY DEF ListThread, Abort
  <2>2. UNCHANGED <<rosters, messages>> /\ shown \subseteq shown' /\ missed \subseteq missed'
    BY DEF ListThread, Abort
  <2>3. QED
    BY <2>1, <2>2, HandlerShapes, GotoReq DEF TypeOK
<1>2. h.pc \in {"receipts", "list"} =>
        \A x \in messages : x.conversation = h.conversation =>
          <<h.user, x.conversation, x.created_at>> \in shown' \cup missed'
  <2>1. CASE ListThread(r)
    <3>1. ASSUME NEW x \in messages, x.conversation = h.conversation
          PROVE  <<h.user, x.conversation, x.created_at>> \in shown' \cup missed'
      <4> DEFINE Seen(l) == {<<h.user, h.conversation, y.created_at>> :
                               y \in {y \in messages : y.conversation = h.conversation /\ Listed(y) = l}}
      <4>1. Listed(x) \in BOOLEAN
        BY DEF Listed
      <4>2. Seen(TRUE) \subseteq shown' /\ Seen(FALSE) \subseteq missed'
        BY <2>1 DEF ListThread
      <4>3. <<h.user, h.conversation, x.created_at>> \in Seen(TRUE) \cup Seen(FALSE)
        <5> HIDE DEF Listed
        <5>1. QED
          BY <3>1, <4>1
      <4> HIDE DEF Seen
      <4>4. QED
        BY <3>1, <4>2, <4>3
    <3>2. QED
      BY <3>1
  <2>2. CASE Abort(r)
    BY <2>2 DEF Abort
  <2>3. QED
    BY <2>1, <2>2
<1>3. \A x \in messages : \A u : Accounted(u, x.conversation, x.created_at) =>
                                   Accounted(u, x.conversation, x.created_at)'
  BY <1>1, <1>2, AccountedKept
<1>4. QED
  BY <1>1, <1>3, SeenKept DEF rosters

\* The other steps read nobody's messages: members come with nothing read.
LEMMA SeenOthers ==
  ASSUME TypeOK, TimesInv, SeenInv, NEW r \in Request,
         \/ /\ Continue(r)
            /\ ~InsertMessage(r) /\ ~MarkRead(r) /\ ~MarkReceipts(r) /\ ~ListThread(r) /\ ~Abort(r)
         \/ \E u \in User : Begin(r, u) /\ \A c \in Conversation : ~Post(r, u, c)
  PROVE  SeenInv'
<1> DEFINE Rows == \A n \in members' :
                     \/ n.last_read_at = 0
                     \/ \E m \in members : m.key = n.key /\ m.last_read_at = n.last_read_at
           Rest == /\ UNCHANGED <<shown, missed>> /\ messages' \subseteq messages
                   /\ req'[r].pc # "post" /\ req[r].pc \notin {"receipts", "list"}
<1>1. \A q \in Request \ {r} : req'[q] = req[q]
  BY StepFrame
<1>2. ASSUME NEW u \in User, Begin(r, u), \A c \in Conversation : ~Post(r, u, c)
      PROVE  Rows /\ Rest
  <2>1. ASSUME NEW v \in User, Open(r, u, v) PROVE Rows /\ Rest
    <3>1. UNCHANGED <<rosters, messages, shown, missed>>
      BY <2>1 DEF Open
    <3>2. req[r].pc = "idle" /\ req'[r].pc = "open"
      BY <2>1, CallTypes, BegunOpen DEF Open
    <3>3. QED
      BY <3>1, <3>2 DEF rosters
  <2>2. ASSUME NEW c \in Conversation, NEW others \in SUBSET User, CreateGroup(r, u, c, others)
        PROVE  Rows /\ Rest
    <3>1. UNCHANGED <<messages, shown, missed, req>> /\ req[r].pc = "idle"
      BY <2>2, CallTypes DEF CreateGroup
    <3>2. Rows
      BY <2>2, NewMemberFields DEF CreateGroup, GroupRole
    <3>3. QED
      BY <3>1, <3>2
  <2>3. ASSUME NEW c \in Conversation,
               \/ \E users \in SUBSET User : AddMembers(r, u, c, users)
               \/ \E role \in GroupRole : SetMemberRole(r, u, c, role)
               \/ RemoveMember(r, u, c)
               \/ Leave(r, u, c)
               \/ OpenThread(r, u, c)
        PROVE Rows /\ Rest
    <3>1. UNCHANGED <<rosters, messages, shown, missed>>
      BY <2>3 DEF AddMembers, SetMemberRole, RemoveMember, Leave, OpenThread
    <3>2. Call(r)
      BY <2>3, QuietBegins
    <3>3. req[r].pc = "idle" /\ req'[r].pc # "post"
      BY <2>3, <3>2, CallTypes, BegunCall, BegunRole, BegunRemove, BegunLeave
    <3>4. QED
      BY <3>1, <3>3 DEF rosters
  <2>4. QED
    BY <1>2, <2>1, <2>2, <2>3 DEF Begin
<1>3. ASSUME Continue(r), ~InsertMessage(r), ~MarkRead(r), ~MarkReceipts(r), ~ListThread(r), ~Abort(r)
      PROVE  Rows /\ Rest
  <2>1. Rest
    <3>1. CASE StartLeave(r)
      BY <3>1, LeaveStarted DEF StartLeave
    <3>2. ASSUME Goto(r, Idle) PROVE req'[r].pc # "post"
      BY <3>2, HandlerShapes, GotoReq DEF TypeOK
    <3>3. CASE (\E c \in Conversation : CommitOpen(r, c)) \/ InsertMembers(r)
      BY <3>2, <3>3 DEF CommitOpen, InsertMembers
    <3>4. CASE UpdateRole(r) \/ DeleteMember(r) \/ CommitLeave(r) \/ UpdatePreview(r)
      BY <3>2, <3>4 DEF UpdateRole, DeleteMember, CommitLeave, UpdatePreview
    <3>5. QED
      BY <1>3, <3>1, <3>3, <3>4 DEF Continue
  <2>2. Rows
    <3>1. ASSUME NEW c \in Conversation, CommitOpen(r, c) PROVE Rows
      BY <3>1, RequestFields, NewMemberFields DEF CommitOpen, GroupRole
    <3>2. CASE InsertMembers(r)
      BY <3>2, RequestFields, NewMemberFields DEF InsertMembers, GroupRole
    <3>3. CASE UpdateRole(r)
      BY <3>3, UpdateRoleRows
    <3>4. CASE CommitLeave(r)
      BY <3>4, CommitLeaveRows
    <3>5. CASE DeleteMember(r) \/ StartLeave(r) \/ UpdatePreview(r)
      BY <3>5 DEF DeleteMember, StartLeave, UpdatePreview, rosters
    <3>6. QED
      BY <1>3, <3>1, <3>2, <3>3, <3>4, <3>5 DEF Continue
  <2>3. QED
    BY <2>1, <2>2
<1>4. Rows /\ Rest
  BY <1>2, <1>3
<1>5. \A x \in messages : \A u : Accounted(u, x.conversation, x.created_at) =>
                                   Accounted(u, x.conversation, x.created_at)'
  BY <1>1, <1>4, AccountedKept
<1>6. QED
  BY <1>1, <1>4, <1>5, SeenKept

LEMMA SeenStep == TypeOK /\ TimesInv /\ SeenInv /\ [Next]_vars => SeenInv'
<1> SUFFICES ASSUME TypeOK, TimesInv, SeenInv, [Next]_vars PROVE SeenInv'
  OBVIOUS
<1>1. ASSUME NEW r \in Request, Continue(r) PROVE SeenInv'
  BY <1>1, SeenInserts, SeenMarksRead, SeenMarksReceipts, SeenEnds, SeenOthers
<1>2. ASSUME NEW r \in Request, NEW u \in User, Begin(r, u) PROVE SeenInv'
  BY <1>2, SeenPosts, SeenOthers
<1>3. CASE UNCHANGED vars
  BY <1>3 DEF vars, rosters, SeenInv, MessageSeen, PostSeen, Accounted, Reads, ReadTo, MemberOf, Members
<1>4. QED
  BY <1>1, <1>2, <1>3 DEF Next

LEMMA SeenImplies == TypeOK /\ SeenInv => SeenOrUnread
<1> SUFFICES ASSUME TypeOK, SeenInv, NEW x \in messages
             PROVE  /\ \A u \in User \ {x.sender} :
                         MemberOf(x.conversation, u) # {} /\ x \notin Unread(u, x.conversation) =>
                           Accounted(u, x.conversation, x.created_at)
                    /\ x.read => \E u \in User : Accounted(u, x.conversation, x.created_at)
  BY DEF SeenOrUnread, Accounted, Reads
<1>1. ASSUME NEW u \in User \ {x.sender}, MemberOf(x.conversation, u) # {},
             x \notin Unread(u, x.conversation)
      PROVE  ReadTo(u, x.conversation, x.created_at)
  <2>1. PICK m \in MemberOf(x.conversation, u) : TRUE
    BY <1>1
  <2>2. ~(x.created_at > m.last_read_at)
    BY <1>1 DEF Unread
  <2>3. x.created_at \in Nat /\ m.last_read_at \in Nat
    BY HasRow, MessageFields, MemberFields DEF MemberOf, Members
  <2>4. QED
    BY <2>2, <2>3 DEF ReadTo
<1>2. QED
  BY <1>1 DEF SeenInv, MessageSeen

\* A member has seen every message of the others or finds it unread, and a message
\* that is marked read was seen, but for one that was being inserted while its
\* thread was read, one beyond the page, and a reading that died (getMessages,
\* postMessage, serializeConversations).
THEOREM SeenOrUnreadHolds == Spec => []SeenOrUnread
<1>1. Init => SeenInv
  BY HandlerShapes DEF Init, SeenInv, PostSeen
<1>2. QED
  BY <1>1, BaseInvariance, SeenStep, SeenImplies, PTL DEF Spec

--------------------------------------------------------------------------------
(* PreviewNewest *)

\* The inbox of a conversation whose messages and posts stay as they are.
LEMMA PreviewFrame ==
  ASSUME NEW c, NEW row, NEW n, PreviewAt(row), row.id = c, n.id = c,
         n.last_message_at = row.last_message_at,
         \A x \in messages : x.conversation = c =>
           \E y \in messages' : y.conversation = c /\ y.created_at = x.created_at,
         \A y \in messages' : y.conversation = c =>
           \E x \in messages : x.conversation = c /\ y.created_at = x.created_at,
         \A q \in Request : Posts(q, c)' => req'[q] = req[q],
         \A q \in Request : req[q].pc = "preview" /\ req[q].conversation = c => req'[q] = req[q]
  PROVE  PreviewAt(n)'
<1>1. \A q \in Request : Posts(q, c)' => Posts(q, c)
  BY DEF Posts
<1>2. \A r, s \in Request : Posts(r, n.id)' /\ Posts(s, n.id)' => r = s
  BY <1>1 DEF PreviewAt
<1>3. ASSUME NEW q \in Request PROVE PosterAt(q, n.id)'
  <2>1. SUFFICES ASSUME Posts(q, c)' PROVE PosterAt(q, c)'
    BY DEF PosterAt
  <2>2. Posts(q, c) /\ req'[q] = req[q] /\ PosterAt(q, c)
    BY <1>1, <2>1 DEF PreviewAt
  <2>3. \A y \in messages' : y.conversation = c => y.created_at <= req'[q].created_at
    BY <2>2 DEF PosterAt
  <2>4. req'[q].pc = "preview" =>
          \E y \in messages' : y.conversation = c /\ y.created_at = req'[q].created_at
    BY <2>2 DEF PosterAt
  <2>5. QED
    BY <2>3, <2>4 DEF PosterAt
<1>4. \A y \in messages' : y.conversation = n.id =>
        \/ y.created_at <= n.last_message_at
        \/ \E q \in Request : req'[q].pc = "preview" /\ req'[q].conversation = n.id
  <2>1. ASSUME NEW y \in messages', y.conversation = c
        PROVE  \/ y.created_at <= n.last_message_at
               \/ \E q \in Request : req'[q].pc = "preview" /\ req'[q].conversation = c
    <3>1. PICK x \in messages : x.conversation = c /\ y.created_at = x.created_at
      BY <2>1
    <3>2. \/ x.created_at <= row.last_message_at
          \/ \E q \in Request : req[q].pc = "preview" /\ req[q].conversation = c
      BY <3>1 DEF PreviewAt
    <3>3. QED
      BY <3>1, <3>2
  <2>2. QED
    BY <2>1
<1>5. \/ \A y \in messages' : y.conversation # n.id
      \/ \E y \in messages' : y.conversation = n.id /\ y.created_at = n.last_message_at
      \/ \E q \in Request : req'[q].pc = "preview" /\ req'[q].conversation = n.id
  BY DEF PreviewAt
<1>6. QED
  BY <1>2, <1>3, <1>4, <1>5 DEF PreviewAt

\* The post that begins alone is the newest.
LEMMA PreviewPosts ==
  ASSUME TypeOK, TimesInv, PreviewInv, NEW r \in Request, NEW u \in User, NEW c \in Conversation,
         Post(r, u, c), NEW n \in conversations', n.id \notin raced'
  PROVE  PreviewAt(n)'
<1>1. /\ UNCHANGED <<rosters, messages>> /\ raced \subseteq raced' /\ req[r].pc = "idle"
      /\ c \in raced' \/ \A s \in Request \ {r} : ~Posts(s, c)
  BY CallTypes DEF Post
<1>2. /\ req'[r].pc = "post" /\ req'[r].conversation = c /\ req'[r].created_at = clock + 1
      /\ \A q \in Request \ {r} : req'[q] = req[q]
  <2>1. \E h \in Handler : Goto(r, h)
    BY QuietBegins
  <2>2. QED
    BY <2>1, BegunCall, GotoReq DEF TypeOK
<1>3. n \in conversations /\ PreviewAt(n)
  BY <1>1 DEF rosters, PreviewInv
<1>4. CASE n.id # c
  BY <1>1, <1>2, <1>3, <1>4, PreviewFrame DEF Posts
<1>5. CASE n.id = c
  <2>1. \A q \in Request : ~Posts(q, c)
    BY <1>1, <1>5 DEF Posts
  <2>2. \A q \in Request : Posts(q, c)' => q = r
    BY <1>2, <2>1 DEF Posts
  <2>3. \A x \in messages : x.created_at <= clock + 1
    BY TimesKnown DEF TimesInv
  <2>4. \A q \in Request : PosterAt(q, c)'
    BY <1>1, <1>2, <2>2, <2>3 DEF PosterAt
  <2>5. \A x \in messages : x.conversation = c => x.created_at <= n.last_message_at
    BY <1>3, <1>5, <2>1 DEF PreviewAt, Posts
  <2>6. \/ \A x \in messages : x.conversation # c
        \/ \E x \in messages : x.conversation = c /\ x.created_at = n.last_message_at
    BY <1>3, <1>5, <2>1 DEF PreviewAt, Posts
  <2>7. QED
    BY <1>1, <1>5, <2>2, <2>4, <2>5, <2>6 DEF PreviewAt
<1>6. QED
  BY <1>4, <1>5

\* It goes in, and its handler is the one that will update the inbox.
LEMMA PreviewInserts ==
  ASSUME TypeOK, TimesInv, PreviewInv, NEW r \in Request, InsertMessage(r),
         NEW n \in conversations', n.id \notin raced'
  PROVE  PreviewAt(n)'
<1>0. PICK c, t : c = req[r].conversation /\ t = req[r].created_at
  OBVIOUS
<1>new. PICK new : new = [conversation |-> c, sender |-> req[r].user, created_at |-> t, read |-> FALSE]
  OBVIOUS
<1>1. /\ messages' = messages \cup {new}
      /\ new.conversation = c /\ new.created_at = t
  BY <1>0, <1>new DEF InsertMessage
<1>2. /\ UNCHANGED <<rosters, raced>>
      /\ req[r].pc = "post" /\ req'[r].pc = "preview"
      /\ req'[r].conversation = c /\ req'[r].created_at = t
      /\ \A q \in Request \ {r} : req'[q] = req[q]
  BY <1>0, GoesOn DEF InsertMessage
<1>3. n \in conversations /\ PreviewAt(n)
  BY <1>2 DEF rosters, PreviewInv
<1>4. CASE n.id # c
  BY <1>0, <1>1, <1>2, <1>3, <1>4, PreviewFrame DEF Posts
<1>5. CASE n.id = c
  <2>1. Posts(r, c) /\ \A q \in Request : Posts(q, c) => q = r
    BY <1>0, <1>2, <1>3, <1>5 DEF PreviewAt, Posts
  <2>2. \A q \in Request : Posts(q, c)' => q = r
    BY <1>2, <2>1 DEF Posts
  <2>3. \A x \in messages : x.conversation = c => x.created_at <= t
    BY <1>0, <1>3, <1>5, <2>1 DEF PreviewAt, PosterAt
  <2>4. t \in Nat
    BY <1>0, <1>2, TimesKnown
  <2>5. \A q \in Request : PosterAt(q, c)'
    BY <1>1, <1>2, <2>2, <2>3, <2>4 DEF PosterAt
  <2>6. QED
    BY <1>2, <1>5, <2>2, <2>5 DEF PreviewAt
<1>6. QED
  BY <1>4, <1>5

\* The inbox shows it: nothing newer is there.
LEMMA PreviewUpdates ==
  ASSUME TypeOK, TimesInv, PreviewInv, NEW r \in Request, UpdatePreview(r),
         NEW n \in conversations', n.id \notin raced'
  PROVE  PreviewAt(n)'
<1>0. PICK c, t : c = req[r].conversation /\ t = req[r].created_at
  OBVIOUS
<1>1. UNCHANGED <<messages, raced>> /\ req[r].pc = "preview" /\ Goto(r, Idle)
  BY DEF UpdatePreview
<1>2. req'[r].pc = "idle" /\ \A q \in Request \ {r} : req'[q] = req[q]
  BY <1>1, HandlerShapes, GotoReq DEF TypeOK
<1>3. PICK row \in conversations :
        /\ n.id = row.id
        /\ n.last_message_at = IF row.id = c THEN t ELSE row.last_message_at
  BY <1>0, UpdatePreviewRows
<1>4. PreviewAt(row)
  BY <1>1, <1>3 DEF PreviewInv
<1>5. CASE n.id # c
  BY <1>0, <1>1, <1>2, <1>3, <1>4, <1>5, PreviewFrame DEF Posts
<1>6. CASE n.id = c
  <2>1. Posts(r, c) /\ \A q \in Request : Posts(q, c) => q = r
    BY <1>0, <1>1, <1>3, <1>4, <1>6 DEF PreviewAt, Posts
  <2>2. \A q \in Request : ~Posts(q, c)'
    BY <1>2, <2>1 DEF Posts
  <2>3. PosterAt(r, c)
    BY <1>3, <1>4, <1>6 DEF PreviewAt
  <2>4. /\ \A x \in messages : x.conversation = c => x.created_at <= t
        /\ \E x \in messages : x.conversation = c /\ x.created_at = t
    BY <1>0, <1>1, <2>1, <2>3 DEF PosterAt
  <2>5. n.last_message_at = t
    BY <1>3, <1>6
  <2>6. QED
    BY <1>1, <1>6, <2>2, <2>4, <2>5 DEF PreviewAt, PosterAt
<1>7. QED
  BY <1>5, <1>6

\* A new conversation has no message, and nobody posts in it yet.
LEMMA PreviewCreated ==
  ASSUME TypeOK, TimesInv, PreviewInv, NEW r \in Request, NEW c \in Conversation,
         \/ CommitOpen(r, c)
         \/ \E u \in User, others \in SUBSET User : CreateGroup(r, u, c, others),
         NEW n \in conversations', n.id \notin raced'
  PROVE  PreviewAt(n)'
<1>1. /\ c \notin used /\ UNCHANGED <<messages, raced>>
      /\ n \in conversations \/ n.id = c
  BY DEF CommitOpen, CreateGroup
<1>2. \A q \in Request : req'[q] = req[q] \/ (req'[q].pc = "idle" /\ req[q].pc = "open")
  <2>1. ASSUME CommitOpen(r, c)
        PROVE  \A q \in Request : req'[q] = req[q] \/ (req'[q].pc = "idle" /\ req[q].pc = "open")
    BY <2>1, HandlerShapes, GotoReq DEF TypeOK, CommitOpen
  <2>2. QED
    BY <2>1 DEF CreateGroup
<1>3. CASE n \in conversations
  <2>1. PreviewAt(n)
    BY <1>1, <1>3 DEF PreviewInv
  <2>2. QED
    BY <1>1, <1>2, <2>1, PreviewFrame DEF Posts
<1>4. CASE n.id = c
  <2>1. \A x \in messages : x.conversation # c
    BY <1>1, HasRow
  <2>2. \A q \in Request : ~Posts(q, c)'
    BY <1>1, <1>2 DEF Posts, TimesInv, Works
  <2>3. QED
    BY <1>1, <1>4, <2>1, <2>2 DEF PreviewAt, PosterAt
<1>5. QED
  BY <1>1, <1>3, <1>4

\* The other steps leave the posts and the threads that stay as they are; one that
\* dies before the update has raced.
LEMMA PreviewOthers ==
  ASSUME TypeOK, TimesInv, PreviewInv, NEW r \in Request,
         \/ /\ Continue(r)
            /\ ~InsertMessage(r) /\ ~UpdatePreview(r) /\ \A c \in Conversation : ~CommitOpen(r, c)
         \/ \E u \in User : /\ Begin(r, u)
                            /\ \A c \in Conversation : ~Post(r, u, c)
                            /\ \A c \in Conversation, others \in SUBSET User : ~CreateGroup(r, u, c, others),
         NEW n \in conversations', n.id \notin raced'
  PROVE  PreviewAt(n)'
<1> DEFINE Same == /\ \A x \in messages : x.conversation = n.id =>
                        \E y \in messages' : y.conversation = n.id /\ y.created_at = x.created_at
                   /\ \A y \in messages' : y.conversation = n.id =>
                        \E x \in messages : x.conversation = n.id /\ y.created_at = x.created_at
           Still == /\ conversations' \subseteq conversations /\ raced \subseteq raced'
                    /\ req'[r].pc \notin {"post", "preview"}
                    /\ req[r].pc = "preview" => req[r].conversation # n.id
<1>1. \A q \in Request \ {r} : req'[q] = req[q]
  BY StepFrame
<1>2. ASSUME NEW u \in User, Begin(r, u), \A c \in Conversation : ~Post(r, u, c),
             \A c \in Conversation, others \in SUBSET User : ~CreateGroup(r, u, c, others)
      PROVE  Same /\ Still
  <2>1. ASSUME NEW v \in User, Open(r, u, v) PROVE Same /\ Still
    <3>1. UNCHANGED <<rosters, messages, raced>>
      BY <2>1 DEF Open
    <3>2. req[r].pc = "idle" /\ req'[r].pc = "open"
      BY <2>1, CallTypes, BegunOpen DEF Open
    <3>3. QED
      BY <3>1, <3>2 DEF rosters
  <2>2. ASSUME NEW c \in Conversation,
               \/ \E users \in SUBSET User : AddMembers(r, u, c, users)
               \/ \E role \in GroupRole : SetMemberRole(r, u, c, role)
               \/ RemoveMember(r, u, c)
               \/ Leave(r, u, c)
               \/ OpenThread(r, u, c)
        PROVE Same /\ Still
    <3>1. UNCHANGED <<rosters, messages, raced>>
      BY <2>2 DEF AddMembers, SetMemberRole, RemoveMember, Leave, OpenThread
    <3>2. Call(r)
      BY <2>2, QuietBegins
    <3>3. req[r].pc = "idle" /\ req'[r].pc \notin {"post", "preview"}
      BY <2>2, <3>2, CallTypes, BegunCall, BegunRole, BegunRemove, BegunLeave
    <3>4. QED
      BY <3>1, <3>3 DEF rosters
  <2>3. QED
    BY <1>2, <2>1, <2>2 DEF Begin
<1>3. ASSUME Continue(r), ~InsertMessage(r), ~UpdatePreview(r), \A c \in Conversation : ~CommitOpen(r, c)
      PROVE  Same /\ Still
  <2>1. ASSUME Goto(r, Idle) PROVE req'[r].pc = "idle"
    BY <2>1, HandlerShapes, GotoReq DEF TypeOK
  <2>2. CASE InsertMembers(r) \/ UpdateRole(r) \/ DeleteMember(r)
    BY <2>1, <2>2 DEF InsertMembers, UpdateRole, DeleteMember
  <2>3. CASE StartLeave(r)
    <3>1. UNCHANGED <<rosters, messages, raced>>
      BY <2>3 DEF StartLeave
    <3>2. req[r].pc = "leave" /\ req'[r].pc = "left"
      BY <2>3, LeaveStarted
    <3>3. QED
      BY <3>1, <3>2 DEF rosters
  <2>4. CASE CommitLeave(r)
    BY <2>1, <2>4 DEF CommitLeave
  <2>5. CASE MarkRead(r)
    <3>1. UNCHANGED <<conversations, messages, raced>>
      BY <2>5 DEF MarkRead
    <3>2. req[r].pc = "mark" /\ req'[r].pc = "receipts"
      BY <2>5, GoesOn
    <3>3. QED
      BY <3>1, <3>2
  <2>6. CASE MarkReceipts(r)
    <3>1. UNCHANGED <<rosters, raced>>
      BY <2>6 DEF MarkReceipts
    <3>2. req[r].pc = "receipts" /\ req'[r].pc = "list"
      BY <2>6, GoesOn
    <3>3. Same
      BY <2>6, MarkReceiptsRows
    <3>4. QED
      BY <3>1, <3>2, <3>3 DEF rosters
  <2>7. CASE ListThread(r)
    BY <2>1, <2>7 DEF ListThread, rosters
  <2>8. CASE Abort(r)
    BY <2>1, <2>8 DEF Abort, rosters
  <2>9. QED
    BY <1>3, <2>2, <2>3, <2>4, <2>5, <2>6, <2>7, <2>8 DEF Continue
<1>4. Same /\ Still
  BY <1>2, <1>3
<1>5. n \in conversations /\ PreviewAt(n)
  BY <1>4 DEF PreviewInv
<1>6. \A q \in Request : Posts(q, n.id)' => req'[q] = req[q]
  BY <1>1, <1>4 DEF Posts
<1>7. \A q \in Request : req[q].pc = "preview" /\ req[q].conversation = n.id => req'[q] = req[q]
  BY <1>1, <1>4
<1>8. QED
  BY <1>4, <1>5, <1>6, <1>7, PreviewFrame

LEMMA PreviewStep == TypeOK /\ TimesInv /\ PreviewInv /\ [Next]_vars => PreviewInv'
<1> SUFFICES ASSUME TypeOK, TimesInv, PreviewInv, [Next]_vars,
                    NEW n \in conversations', n.id \notin raced'
             PROVE  PreviewAt(n)'
  BY DEF PreviewInv
<1>1. ASSUME NEW r \in Request, Continue(r) PROVE PreviewAt(n)'
  BY <1>1, PreviewInserts, PreviewUpdates, PreviewCreated, PreviewOthers
<1>2. ASSUME NEW r \in Request, NEW u \in User, Begin(r, u) PROVE PreviewAt(n)'
  BY <1>2, PreviewPosts, PreviewCreated, PreviewOthers
<1>3. CASE UNCHANGED vars
  BY <1>3 DEF vars, rosters, PreviewInv, PreviewAt, PosterAt, Posts
<1>4. QED
  BY <1>1, <1>2, <1>3 DEF Next

LEMMA PreviewImplies == PreviewInv => PreviewNewest
<1> SUFFICES ASSUME PreviewInv, NEW row \in conversations, row.id \notin raced,
                    \A r \in Request : ~Posts(r, row.id)
             PROVE  /\ \A x \in messages : x.conversation = row.id => x.created_at <= row.last_message_at
                    /\ (\E x \in messages : x.conversation = row.id) =>
                         \E x \in messages : x.conversation = row.id /\ x.created_at = row.last_message_at
  BY DEF PreviewNewest
<1>1. PreviewAt(row)
  BY DEF PreviewInv
<1>2. QED
  BY <1>1 DEF PreviewAt, Posts

\* The inbox shows the newest message of a conversation that has one, once its post
\* is done, unless two were being posted at once or one died before the update
\* (postMessage).
THEOREM PreviewNewestHolds == Spec => []PreviewNewest
<1>1. Init => PreviewInv
  BY DEF Init, PreviewInv
<1>2. QED
  BY <1>1, BaseInvariance, PreviewStep, PreviewImplies, PTL DEF Spec

================================================================================
