--------------------------- MODULE AuthSessionProofs ---------------------------
(***************************************************************************)
(* Theorems about module AuthSession, for any number of sessions, token    *)
(* pairs, codes and handlers in flight.                                    *)
(*                                                                         *)
(* Rows of sessions only grow, and a pair stays with its session. On that  *)
(* ground each property has an invariant of its own: what a rotation in    *)
(* flight holds, what a logout has done so far, what a reset has yet to    *)
(* revoke, who may still open a socket, and what the guesses in flight     *)
(* will charge. What a rotation holds, with the fact that no session it    *)
(* has locked is revoked, also carries the refinement of Credentials.      *)
(***************************************************************************)
EXTENDS AuthSession, FiniteSetTheorems, TLAPS

HandlerOK(h) ==
  /\ h.pc = "rotating" => Row(h.session) /\ minted[h.pair] = h.session
  /\ h.pc \in {"logout", "signing_out", "revoking", "handshake"} => Issued(h.pair)
  /\ h.pc \in {"logout", "signing_out", "revoking"} /\ h.body \in Pair => Issued(h.body)
  /\ h.pc = "evicting" => \A s \in h.rows : Row(s)

HandlersOK == \A r \in Request : HandlerOK(req[r])
MintedRows == \A p \in Pair : Issued(p) => Row(minted[p])
Tables == TypeOK /\ HandlersOK /\ MintedRows

\* The rotation in flight has its token still in place, and nobody beside it; a token
\* that was exchanged is in place no more.
InPlace(p) == sessions[minted[p]].refresh = p
Rotating(r, s) == req[r].pc = "rotating" /\ req[r].session = s
RotationInv ==
  /\ \A r \in Request : req[r].pc = "rotating" => InPlace(req[r].pair)
  /\ \A s \in Session, q, r \in Request : Rotating(q, s) /\ Rotating(r, s) => q = r
  /\ exchanged \subseteq Pair \X Pair
  /\ \A e \in exchanged : Issued(e[1]) /\ ~InPlace(e[1])
  /\ OneUse

\* A logout past its first step has its access token refused, or that could not be
\* written.
Refused(p) == p \in blacklist \cup unlisted
LogoutInv ==
  /\ \A r \in Request : req[r].pc \in {"signing_out", "revoking"} => Refused(req[r].pair)
  /\ \A e \in ended : e[1] \in Pair /\ Issued(e[1]) /\ (e[2] \in Pair => Issued(e[2]))
  /\ LogoutSticks

\* What an eviction in flight has not found was opened with its password or a later
\* one, or by a login that had verified before.
Stale(s, n) == Row(s) /\ ~Revoked(s) /\ opened[s] < n /\ s \notin straddled
Spared(n) == \A r \in Request : req[r].pc = "verified" /\ req[r].password < n => req[r].straddles
EvictionInv ==
  /\ opened \in [Session -> Nat] /\ evicted \in 0 .. password
  /\ \A r \in Request :
       req[r].pc \in {"verified", "saved", "evicting"} => req[r].password <= password
  /\ \A r \in Request : req[r].pc = "evicting" =>
       /\ Spared(req[r].password)
       /\ \A s \in Session : Stale(s, req[r].password) => s \in req[r].rows
  /\ Spared(evicted)
  /\ EvictedByReset

\* Who shakes hands or has a socket holds a token that is good, or is marked.
Good(p) == p \notin blacklist /\ ~Revoked(minted[p])
SocketInv ==
  /\ \A p \in sockets : Issued(p) /\ (Good(p) \/ p \in outlived)
  /\ \A r \in Request : req[r].pc = "handshake" => Good(req[r].pair) \/ req[r].pair \in outlived

\* Wrong guesses are charged or on their way to be; a code that was used, or is gone, is
\* not read again, and sets no password but for the calls that had read it.
At(pcs, c) == {r \in Request : req[r].pc \in pcs /\ req[r].code = c}
Wrongs(c) == Cardinality(At({"wrong"}, c))
Rights(c) == Cardinality(At({"right", "used"}, c))
Spent(c) == ~RowOf(c) \/ codes[c].used
CodeKept(c) ==
  /\ c > issued => ~RowOf(c) /\ guesses[c] = 0 /\ resets[c] = 0
  /\ RowOf(c) => guesses[c] <= codes[c].attempts + Wrongs(c)
  /\ guesses[c] <= MaxAttempts + Cardinality(Request) - 1
  /\ resets[c] # 0 => Spent(c)
  /\ resets[c] + Rights(c) <= Cardinality(Request)
GuessKept(r) ==
  /\ req[r].pc \in {"wrong", "charged", "right", "used"} => req[r].code <= issued
  /\ req[r].pc = "used" => Spent(req[r].code)
CodeInv ==
  /\ guesses \in [Code -> Int] /\ resets \in [Code -> Nat]
  /\ \A c \in Code : CodeKept(c)
  /\ \A r \in Request : GuessKept(r)

--------------------------------------------------------------------------------
(* Tables *)

LEMMA HandlerFields ==
  ASSUME NEW h \in Handler
  PROVE  /\ h.pc \in {"idle", "signup", "forgot", "verified", "rotating", "logout",
                      "signing_out", "revoking", "handshake", "wrong", "charged", "right",
                      "used", "saved", "evicting"}
         /\ h.pc = "verified" => h.password \in Nat /\ h.straddles \in BOOLEAN
         /\ h.pc = "rotating" => h.session \in Session /\ h.pair \in Pair
         /\ h.pc \in {"logout", "signing_out"} =>
              h.pair \in Pair /\ h.body \in Pair \cup {None, Junk}
         /\ h.pc = "revoking" =>
              h.pair \in Pair /\ h.body \in Pair /\ h.reason \in {"logout", "refresh_reuse"}
         /\ h.pc = "handshake" => h.pair \in Pair
         /\ h.pc \in {"wrong", "charged", "right", "used"} => h.code \in Code
         /\ h.pc \in {"saved", "evicting"} => h.password \in Nat
         /\ h.pc = "evicting" => h.rows \subseteq Session
         /\ h.pc = "idle" => h = Idle
BY DEF Handler, Idle

LEMMA HandlerShapes ==
  /\ Idle \in Handler /\ Idle.pc = "idle"
  /\ [pc |-> "signup"] \in Handler /\ [pc |-> "forgot"] \in Handler
  /\ \A n \in Nat, b \in BOOLEAN : [pc |-> "verified", password |-> n, straddles |-> b] \in Handler
  /\ \A s \in Session, p \in Pair : [pc |-> "rotating", session |-> s, pair |-> p] \in Handler
  /\ \A p \in Pair, b \in Pair \cup {None, Junk} :
       /\ [pc |-> "logout", pair |-> p, body |-> b] \in Handler
       /\ [pc |-> "signing_out", pair |-> p, body |-> b] \in Handler
  /\ \A p, b \in Pair, s \in {"logout", "refresh_reuse"} :
       [pc |-> "revoking", pair |-> p, body |-> b, reason |-> s] \in Handler
  /\ \A p \in Pair : [pc |-> "handshake", pair |-> p] \in Handler
  /\ \A c \in Code, k \in {"wrong", "charged", "right", "used"} : [pc |-> k, code |-> c] \in Handler
  /\ \A n \in Nat : [pc |-> "saved", password |-> n] \in Handler
  /\ \A n \in Nat, S \in SUBSET Session : [pc |-> "evicting", password |-> n, rows |-> S] \in Handler
BY DEF Handler, Idle

\* The handlers that go on as they are but for their pc, and one that is marked.
LEMMA HandlerMoves ==
  ASSUME NEW h \in Handler
  PROVE  /\ h.pc = "logout" =>
              [h EXCEPT !.pc = "signing_out"] = [pc |-> "signing_out", pair |-> h.pair, body |-> h.body]
         /\ h.pc = "wrong" => [h EXCEPT !.pc = "charged"] = [pc |-> "charged", code |-> h.code]
         /\ h.pc = "verified" =>
              [h EXCEPT !.straddles = TRUE]
                = [pc |-> "verified", password |-> h.password, straddles |-> TRUE]
<1>1. ASSUME h.pc = "logout"
      PROVE  [h EXCEPT !.pc = "signing_out"] = [pc |-> "signing_out", pair |-> h.pair, body |-> h.body]
  <2>1. h \in [pc : {"logout", "signing_out"}, pair : Pair, body : Pair \cup {None, Junk}]
    BY <1>1 DEF Handler, Idle
  <2>2. QED
    BY <2>1
<1>2. ASSUME h.pc = "wrong"
      PROVE  [h EXCEPT !.pc = "charged"] = [pc |-> "charged", code |-> h.code]
  <2>1. h \in [pc : {"wrong", "charged", "right", "used"}, code : Code]
    BY <1>2 DEF Handler, Idle
  <2>2. QED
    BY <2>1
<1>3. ASSUME h.pc = "verified"
      PROVE  [h EXCEPT !.straddles = TRUE]
               = [pc |-> "verified", password |-> h.password, straddles |-> TRUE]
  <2>1. h \in [pc : {"verified"}, password : Nat, straddles : BOOLEAN]
    BY <1>3 DEF Handler, Idle
  <2>2. PICK b : b = TRUE
    OBVIOUS
  <2>3. [h EXCEPT !.straddles = b] = [pc |-> "verified", password |-> h.password, straddles |-> b]
    BY <2>1
  <2>4. QED
    BY <2>2, <2>3, Zenon
<1>4. QED
  BY <1>1, <1>2, <1>3

LEMMA GotoReq ==
  ASSUME req \in [Request -> Handler], NEW r \in Request, NEW h \in Handler, Goto(r, h)
  PROVE  /\ req' \in [Request -> Handler]
         /\ req'[r] = h
         /\ \A q \in Request \ {r} : req'[q] = req[q]
BY DEF Goto

TokensOK ==
  /\ sessions \in [Session -> SessionRow \cup {NoRow}]
  /\ minted \in [Pair -> Session \cup {None}]
  /\ lapsed \subseteq Pair /\ blacklist \subseteq Pair /\ sockets \subseteq Pair
  /\ \A s \in Session : Row(s) => minted[sessions[s].refresh] = s
  /\ MintedRows

RestOK ==
  /\ account \in {"none", "active", "inactive"}
  /\ password \in Nat
  /\ codes \in [Code -> CodeRow \cup {NoRow}]
  /\ issued \in 0 .. MaxCodes
  /\ calls \in 0 .. MaxCalls

Grows ==
  /\ \A s \in Session : Row(s) => Row(s)'
  /\ \A p \in Pair : Issued(p) => minted'[p] = minted[p]

LEMMA TablesParts == Tables <=> TokensOK /\ RestOK /\ req \in [Request -> Handler] /\ HandlersOK
BY DEF Tables, TokensOK, RestOK, TypeOK

LEMMA TableFacts ==
  ASSUME Tables
  PROVE  /\ \A p \in Pair : Issued(p) => minted[p] \in Session /\ Row(minted[p])
         /\ \A s \in Session : Row(s) =>
              /\ sessions[s] \in SessionRow
              /\ sessions[s].refresh \in Pair /\ minted[sessions[s].refresh] = s
              /\ Issued(sessions[s].refresh)
         /\ \A c \in Code : RowOf(c) => codes[c] \in CodeRow
<1>1. \A p \in Pair : minted[p] \in Session \cup {None}
  BY DEF Tables, TypeOK
<1>2. \A p \in Pair : Issued(p) => minted[p] \in Session /\ Row(minted[p])
  BY <1>1 DEF Tables, MintedRows, Issued
<1>3. ASSUME NEW s \in Session, Row(s)
      PROVE  /\ sessions[s] \in SessionRow
             /\ sessions[s].refresh \in Pair /\ minted[sessions[s].refresh] = s
             /\ Issued(sessions[s].refresh)
  <2>1. sessions[s] \in SessionRow
    BY <1>3 DEF Tables, TypeOK, Row
  <2>2. sessions[s].refresh \in Pair
    BY <2>1 DEF SessionRow
  <2>3. minted[sessions[s].refresh] = s
    BY <1>3 DEF Tables, TypeOK
  <2>4. s # None
    BY AuthAssumption
  <2>5. QED
    BY <2>1, <2>2, <2>3, <2>4 DEF Issued
<1>4. \A c \in Code : RowOf(c) => codes[c] \in CodeRow
  BY DEF Tables, TypeOK, RowOf
<1>5. QED
  BY <1>2, <1>3, <1>4

LEMMA HandlerOKGrows ==
  ASSUME Tables, Grows, NEW h \in Handler, HandlerOK(h)
  PROVE  HandlerOK(h)'
<1>1. \A p \in Pair : Issued(p) => Issued(p)' /\ minted'[p] = minted[p]
  BY DEF Grows, Issued
<1>2. h.pc = "rotating" => Row(h.session)' /\ minted'[h.pair] = h.session
  <2> SUFFICES ASSUME h.pc = "rotating"
               PROVE  Row(h.session)' /\ minted'[h.pair] = h.session
    OBVIOUS
  <2>1. h.session \in Session /\ h.pair \in Pair /\ Row(h.session) /\ minted[h.pair] = h.session
    BY HandlerFields DEF HandlerOK
  <2>2. Issued(h.pair)
    BY <2>1, AuthAssumption DEF Issued
  <2>3. QED
    BY <2>1, <2>2 DEF Grows
<1>3. h.pc \in {"logout", "signing_out", "revoking", "handshake"} => Issued(h.pair)'
  BY <1>1, HandlerFields DEF HandlerOK
<1>4. h.pc \in {"logout", "signing_out", "revoking"} /\ h.body \in Pair => Issued(h.body)'
  BY <1>1 DEF HandlerOK
<1>5. h.pc = "evicting" => \A s \in h.rows : Row(s)'
  BY HandlerFields DEF HandlerOK, Grows
<1>6. QED
  BY <1>2, <1>3, <1>4, <1>5 DEF HandlerOK

LEMMA MoveHandlers ==
  ASSUME Tables, Grows, NEW r \in Request, NEW h \in Handler, Goto(r, h), HandlerOK(h)'
  PROVE  req' \in [Request -> Handler] /\ HandlersOK'
<1>1. /\ req' \in [Request -> Handler] /\ req'[r] = h
      /\ \A q \in Request \ {r} : req'[q] = req[q]
  BY GotoReq DEF Tables, TypeOK
<1>2. ASSUME NEW q \in Request PROVE HandlerOK(req[q])'
  <2>1. CASE q = r
    BY <1>1, <2>1 DEF HandlerOK
  <2>2. CASE q # r
    <3>1. PICK g \in Handler : g = req[q]
      BY DEF Tables, TypeOK
    <3>2. HandlerOK(g)
      BY <3>1 DEF Tables, HandlersOK
    <3>3. HandlerOK(g)'
      BY <3>2, HandlerOKGrows
    <3>4. req'[q] = g
      BY <1>1, <2>2, <3>1
    <3>5. QED
      BY <3>3, <3>4 DEF HandlerOK
  <2>3. QED
    BY <2>1, <2>2
<1>3. QED
  BY <1>1, <1>2 DEF HandlersOK

\* No row of a session and no pair is touched.
LEMMA KeptTokens ==
  ASSUME Tables, UNCHANGED <<sessions, minted>>,
         lapsed' \subseteq Pair, blacklist' \subseteq Pair, sockets' \subseteq Pair
  PROVE  TokensOK' /\ Grows
BY DEF Tables, TypeOK, TokensOK, Grows, MintedRows, Row, Issued

LEMMA StillStep ==
  ASSUME Tables, TokensOK', Grows, RestOK', req' = req
  PROVE  Tables'
<1>1. HandlersOK'
  <2> SUFFICES ASSUME NEW q \in Request PROVE HandlerOK(req[q])'
    BY DEF HandlersOK
  <2>1. PICK g \in Handler : g = req[q]
    BY DEF Tables, TypeOK
  <2>2. HandlerOK(g)'
    BY <2>1, HandlerOKGrows DEF Tables, HandlersOK
  <2>3. QED
    BY <2>1, <2>2 DEF HandlerOK
<1>2. QED
  BY <1>1, TablesParts DEF Tables, TypeOK, TokensOK, RestOK

LEMMA MoveStep ==
  ASSUME Tables, TokensOK', Grows, RestOK',
         NEW r \in Request, NEW h \in Handler, Goto(r, h), HandlerOK(h)'
  PROVE  Tables'
BY MoveHandlers DEF Tables, TypeOK, TokensOK, RestOK

\* A handler that holds nothing of a session.
LightPc == {"idle", "signup", "forgot", "verified", "wrong", "charged", "right", "used", "saved"}

LEMMA LightStep ==
  ASSUME Tables, NEW r \in Request, NEW h \in Handler, Goto(r, h), h.pc \in LightPc,
         UNCHANGED <<sessions, minted>>,
         lapsed' \subseteq Pair, blacklist' \subseteq Pair, sockets' \subseteq Pair, RestOK'
  PROVE  Tables'
<1>1. HandlerOK(h)'
  BY DEF HandlerOK, LightPc
<1>2. QED
  BY <1>1, KeptTokens, MoveStep

LEMMA CallCounted ==
  ASSUME Tables, NEW r \in Request, Call(r)
  PROVE  calls' \in 0 .. MaxCalls /\ req[r] = Idle
BY AuthAssumption DEF Tables, TypeOK, Call

LEMMA RevokeTables ==
  ASSUME Tables, NEW S \in SUBSET Session, \A s \in S : Row(s),
         NEW reason \in {"expired", "refresh_reuse", "logout", "password_change"},
         Revoke(S, reason), UNCHANGED <<minted, lapsed, blacklist, sockets>>
  PROVE  /\ TokensOK' /\ Grows
         /\ \A s \in Session \ S : sessions'[s] = sessions[s]
         /\ \A s \in S : /\ sessions'[s].revoked = reason /\ Revoked(s)'
                         /\ sessions'[s].refresh = sessions[s].refresh
                         /\ sessions'[s].expired = sessions[s].expired
<1>1. \A s \in Session \ S : sessions'[s] = sessions[s]
  BY DEF Revoke
<1>2. ASSUME NEW s \in S
      PROVE  /\ sessions'[s] \in SessionRow /\ sessions'[s].revoked = reason
             /\ sessions'[s].refresh = sessions[s].refresh
             /\ sessions'[s].expired = sessions[s].expired
  <2>1. sessions[s] \in SessionRow
    BY TableFacts
  <2>2. sessions'[s] = [sessions[s] EXCEPT !.revoked = reason]
    BY DEF Revoke
  <2>3. QED
    BY <2>1, <2>2 DEF SessionRow
<1>3. NoRow \notin SessionRow
  BY DEF NoRow, SessionRow
<1>4. \A s \in S : Row(s)' /\ Revoked(s)'
  BY <1>2, <1>3 DEF Row, Revoked
<1>5. \A s \in Session : Row(s)' <=> Row(s)
  BY <1>1, <1>4 DEF Row
<1>6. sessions' \in [Session -> SessionRow \cup {NoRow}]
  <2>1. sessions' = [s \in Session |->
          IF s \in S THEN [sessions[s] EXCEPT !.revoked = reason] ELSE sessions[s]]
    BY DEF Revoke
  <2>2. \A s \in Session : sessions'[s] \in SessionRow \cup {NoRow}
    BY <1>1, <1>2 DEF Tables, TypeOK
  <2>3. QED
    BY <2>1, <2>2
<1>7. ASSUME NEW s \in Session, Row(s)'
      PROVE  minted'[sessions'[s].refresh] = s
  <2>1. Row(s) /\ sessions'[s].refresh = sessions[s].refresh
    BY <1>1, <1>2, <1>5, <1>7
  <2>2. QED
    BY <2>1 DEF Tables, TypeOK
<1>8. MintedRows'
  <2>1. \A p \in Pair : Issued(p)' => Issued(p) /\ minted'[p] \in Session /\ Row(minted[p])
    BY TableFacts DEF Issued
  <2>2. QED
    BY <1>5, <2>1, TableFacts DEF MintedRows, Row
<1>9. TokensOK' /\ Grows
  BY <1>5, <1>6, <1>7, <1>8 DEF TokensOK, Grows, Tables, TypeOK
<1>10. QED
  BY <1>1, <1>2, <1>4, <1>9

\* Steps that touch no session, and whose handler ends or holds nothing of one.
LEMMA LightActions ==
  ASSUME Tables, NEW r \in Request,
         \/ Signup(r) \/ CreateUser(r) \/ Login(r) \/ Forgot(r) \/ SavePassword(r)
         \/ NothingToRevoke(r) \/ Connect(r) \/ Abort(r)
  PROVE  Tables'
<1>1. CASE Signup(r)
  <2>1. calls' \in 0 .. MaxCalls
    BY <1>1, CallCounted DEF Signup
  <2>2. PICK h \in Handler : h = [pc |-> "signup"]
    BY HandlerShapes
  <2>3. Goto(r, h) /\ h.pc \in LightPc
    BY <1>1, <2>2 DEF Signup, LightPc
  <2>4. QED
    BY <1>1, <2>1, <2>3, LightStep
       DEF Signup, users, tokens, resetting, Tables, TypeOK, RestOK
<1>2. CASE CreateUser(r)
  <2>1. PICK h \in Handler : h = [pc |-> "verified", password |-> password, straddles |-> FALSE]
    BY HandlerShapes DEF Tables, TypeOK
  <2>2. Goto(r, h) /\ h.pc \in LightPc
    BY <1>2, <2>1 DEF CreateUser, LightPc
  <2>3. QED
    BY <1>2, <2>2, LightStep DEF CreateUser, tokens, resetting, Tables, TypeOK, RestOK
<1>3. CASE Login(r)
  <2>1. calls' \in 0 .. MaxCalls
    BY <1>3, CallCounted DEF Login
  <2>2. PICK h \in Handler : h = [pc |-> "verified", password |-> password, straddles |-> FALSE]
    BY HandlerShapes DEF Tables, TypeOK
  <2>3. Goto(r, h) /\ h.pc \in LightPc
    BY <1>3, <2>2 DEF Login, LightPc
  <2>4. QED
    BY <1>3, <2>1, <2>3, LightStep
       DEF Login, users, tokens, resetting, Tables, TypeOK, RestOK
<1>4. CASE Forgot(r)
  <2>1. calls' \in 0 .. MaxCalls
    BY <1>4, CallCounted DEF Forgot
  <2>2. PICK h \in Handler : h = [pc |-> "forgot"]
    BY HandlerShapes
  <2>3. Goto(r, h) /\ h.pc \in LightPc
    BY <1>4, <2>2 DEF Forgot, LightPc
  <2>4. codes' \in [Code -> CodeRow \cup {NoRow}]
    BY <1>4 DEF Forgot
  <2>5. QED
    BY <1>4, <2>1, <2>3, <2>4, LightStep DEF Forgot, users, tokens, Tables, TypeOK, RestOK
<1>5. CASE SavePassword(r)
  <2>1. password' \in Nat /\ password' = password + 1
    BY <1>5 DEF SavePassword, Tables, TypeOK
  <2>2. PICK h \in Handler : h = [pc |-> "saved", password |-> password + 1]
    BY <2>1, HandlerShapes
  <2>3. Goto(r, h) /\ h.pc \in LightPc
    BY <1>5, <2>2 DEF SavePassword, LightPc
  <2>4. QED
    BY <1>5, <2>1, <2>3, LightStep DEF SavePassword, tokens, Tables, TypeOK, RestOK
<1>6. CASE NothingToRevoke(r)
  <2>1. Goto(r, Idle)
    BY <1>6 DEF NothingToRevoke, SignedOut
  <2>2. QED
    BY <1>6, <2>1, HandlerShapes, LightStep
       DEF NothingToRevoke, LightPc, users, tokens, resetting, Tables, TypeOK, RestOK
<1>7. CASE Connect(r)
  <2>1. req[r].pair \in Pair
    BY <1>7, HandlerFields DEF Connect, Tables, TypeOK
  <2>2. sockets' \subseteq Pair
    BY <1>7, <2>1 DEF Connect, Tables, TypeOK
  <2>3. QED
    BY <1>7, <2>2, HandlerShapes, LightStep
       DEF Connect, LightPc, users, tokens, resetting, Tables, TypeOK, RestOK
<1>8. CASE Abort(r)
  BY <1>8, HandlerShapes, LightStep
     DEF Abort, LightPc, users, tokens, Tables, TypeOK, RestOK
<1>9. QED
  BY <1>1, <1>2, <1>3, <1>4, <1>5, <1>6, <1>7, <1>8

\* A code's row with one field changed is a code's row.
LEMMA CodeChanged ==
  ASSUME Tables, NEW c \in Code, RowOf(c)
  PROVE  /\ [codes EXCEPT ![c].used = TRUE] \in [Code -> CodeRow \cup {NoRow}]
         /\ [codes EXCEPT ![c].expired = TRUE] \in [Code -> CodeRow \cup {NoRow}]
         /\ [codes EXCEPT ![c].attempts = @ + 1] \in [Code -> CodeRow \cup {NoRow}]
<1>1. codes[c] \in CodeRow
  BY TableFacts
<1>2. /\ [codes[c] EXCEPT !.used = TRUE] \in CodeRow
      /\ [codes[c] EXCEPT !.expired = TRUE] \in CodeRow
  BY <1>1 DEF CodeRow
<1>3. [codes[c] EXCEPT !.attempts = codes[c].attempts + 1] \in CodeRow
  <2>1. codes[c].attempts + 1 \in Nat
    BY <1>1 DEF CodeRow
  <2>2. QED
    BY <1>1, <2>1 DEF CodeRow
<1>4. QED
  BY <1>2, <1>3 DEF Tables, TypeOK

\* Steps on codes.
LEMMA CodeActions ==
  ASSUME Tables, NEW r \in Request,
         \/ IssueCode(r) \/ Charge(r) \/ Burn(r) \/ UseCode(r)
         \/ \E c \in Code : Guess(r, c) \/ Exhausted(r, c)
  PROVE  Tables'
<1>1. CASE IssueCode(r)
  <2>1. issued' \in 0 .. MaxCodes
    BY <1>1, AuthAssumption DEF IssueCode, Tables, TypeOK
  <2>2. codes' \in [Code -> CodeRow \cup {NoRow}]
    BY <1>1 DEF IssueCode, CodeRow, Tables, TypeOK
  <2>3. QED
    BY <1>1, <2>1, <2>2, HandlerShapes, LightStep
       DEF IssueCode, LightPc, users, tokens, Tables, TypeOK, RestOK
<1>2. CASE Charge(r)
  <2>1. req[r].code \in Code /\ req[r].pc = "wrong" /\ req[r] \in Handler
    BY <1>2, HandlerFields DEF Charge, Tables, TypeOK
  <2>2. codes' \in [Code -> CodeRow \cup {NoRow}]
    BY <1>2, <2>1, CodeChanged DEF Charge, Tables, TypeOK
  <2>3. PICK h \in Handler : h = [pc |-> "charged", code |-> req[r].code]
    BY <2>1, HandlerShapes
  <2>4. Goto(r, h) /\ h.pc \in LightPc
    BY <1>2, <2>1, <2>3, HandlerMoves DEF Charge, LightPc
  <2>5. QED
    BY <1>2, <2>2, <2>4, LightStep DEF Charge, users, tokens, Tables, TypeOK, RestOK
<1>3. CASE Burn(r)
  <2>1. req[r].code \in Code
    BY <1>3, HandlerFields DEF Burn, Tables, TypeOK
  <2>2. codes' \in [Code -> CodeRow \cup {NoRow}]
    BY <1>3, <2>1, CodeChanged DEF Burn, Tables, TypeOK
  <2>3. QED
    BY <1>3, <2>2, HandlerShapes, LightStep
       DEF Burn, LightPc, users, tokens, Tables, TypeOK, RestOK
<1>4. CASE UseCode(r)
  <2>1. req[r].code \in Code
    BY <1>4, HandlerFields DEF UseCode, Tables, TypeOK
  <2>2. codes' \in [Code -> CodeRow \cup {NoRow}]
    BY <1>4, <2>1, CodeChanged DEF UseCode, Tables, TypeOK
  <2>3. PICK h \in Handler : h = [pc |-> "used", code |-> req[r].code]
    BY <2>1, HandlerShapes
  <2>4. Goto(r, h) /\ h.pc \in LightPc
    BY <1>4, <2>3 DEF UseCode, LightPc
  <2>5. QED
    BY <1>4, <2>2, <2>4, LightStep DEF UseCode, users, tokens, Tables, TypeOK, RestOK
<1>5. ASSUME NEW c \in Code, Guess(r, c) PROVE Tables'
  <2>1. calls' \in 0 .. MaxCalls
    BY <1>5, CallCounted DEF Guess
  <2>2. PICK k \in {"wrong", "right"} : Goto(r, [pc |-> k, code |-> c])
    BY <1>5 DEF Guess
  <2>3. PICK h \in Handler : h = [pc |-> k, code |-> c]
    BY HandlerShapes
  <2>4. Goto(r, h) /\ h.pc \in LightPc
    BY <2>2, <2>3 DEF LightPc
  <2>5. QED
    BY <1>5, <2>1, <2>4, LightStep DEF Guess, users, tokens, Tables, TypeOK, RestOK
<1>6. ASSUME NEW c \in Code, Exhausted(r, c) PROVE Tables'
  <2>1. calls' \in 0 .. MaxCalls
    BY <1>6, CallCounted DEF Exhausted
  <2>2. codes' \in [Code -> CodeRow \cup {NoRow}]
    BY <1>6, CodeChanged DEF Exhausted, Newest, Unused
  <2>3. TokensOK' /\ Grows
    BY <1>6, KeptTokens DEF Exhausted, tokens, Tables, TypeOK
  <2>4. QED
    BY <1>6, <2>1, <2>2, <2>3, StillStep DEF Exhausted, users, Tables, TypeOK, RestOK
<1>7. QED
  BY <1>1, <1>2, <1>3, <1>4, <1>5, <1>6

\* Steps that take a pair or a session in hand.
LEMMA HoldActions ==
  ASSUME Tables, NEW r \in Request,
         \/ Blacklist(r) \/ ReadToRevoke(r) \/ StartEviction(r)
         \/ \E p \in Pair : StartRotation(r, p) \/ Handshake(r, p)
         \/ \E p \in Pair, body \in Pair \cup {None, Junk} : Logout(r, p, body)
  PROVE  Tables'
<1>1. ASSUME NEW p \in Pair, StartRotation(r, p) PROVE Tables'
  <2>1. calls' \in 0 .. MaxCalls
    BY <1>1, CallCounted DEF StartRotation
  <2>2. minted[p] \in Session /\ Row(minted[p])
    BY <1>1, TableFacts DEF StartRotation
  <2>3. PICK s \in Session : s = minted[p]
    BY <2>2
  <2>4. PICK h \in Handler : h = [pc |-> "rotating", session |-> s, pair |-> p]
    BY HandlerShapes
  <2>5. Goto(r, h)
    BY <1>1, <2>3, <2>4 DEF StartRotation
  <2>6. UNCHANGED <<users, sessions, minted, lapsed, blacklist, codes, issued, sockets>>
    BY <1>1 DEF StartRotation, tokens, resetting
  <2>7. HandlerOK(h)'
    BY <2>2, <2>3, <2>4, <2>6 DEF HandlerOK, Row
  <2>8. TokensOK' /\ Grows
    BY <2>6, KeptTokens DEF Tables, TypeOK
  <2>9. RestOK'
    BY <2>1, <2>6 DEF users, Tables, TypeOK, RestOK
  <2>10. QED
    BY <2>5, <2>7, <2>8, <2>9, MoveStep
<1>2. ASSUME NEW p \in Pair, Handshake(r, p) PROVE Tables'
  <2>1. calls' \in 0 .. MaxCalls
    BY <1>2, CallCounted DEF Handshake
  <2>2. PICK h \in Handler : h = [pc |-> "handshake", pair |-> p]
    BY HandlerShapes
  <2>3. Goto(r, h)
    BY <1>2, <2>2 DEF Handshake
  <2>4. UNCHANGED <<users, sessions, minted, lapsed, blacklist, codes, issued, sockets>>
    BY <1>2 DEF Handshake, tokens, resetting
  <2>5. HandlerOK(h)'
    BY <1>2, <2>2, <2>4 DEF HandlerOK, Handshake, Admitted, Issued
  <2>6. TokensOK' /\ Grows
    BY <2>4, KeptTokens DEF Tables, TypeOK
  <2>7. RestOK'
    BY <2>1, <2>4 DEF users, Tables, TypeOK, RestOK
  <2>8. QED
    BY <2>3, <2>5, <2>6, <2>7, MoveStep
<1>3. ASSUME NEW p \in Pair, NEW body \in Pair \cup {None, Junk}, Logout(r, p, body)
      PROVE  Tables'
  <2>1. calls' \in 0 .. MaxCalls
    BY <1>3, CallCounted DEF Logout
  <2>2. PICK h \in Handler : h = [pc |-> "logout", pair |-> p, body |-> body]
    BY HandlerShapes
  <2>3. Goto(r, h)
    BY <1>3, <2>2 DEF Logout
  <2>4. UNCHANGED <<users, sessions, minted, lapsed, blacklist, codes, issued, sockets>>
    BY <1>3 DEF Logout, tokens, resetting
  <2>5. HandlerOK(h)'
    BY <1>3, <2>2, <2>4 DEF HandlerOK, Logout, Admitted, Issued
  <2>6. TokensOK' /\ Grows
    BY <2>4, KeptTokens DEF Tables, TypeOK
  <2>7. RestOK'
    BY <2>1, <2>4 DEF users, Tables, TypeOK, RestOK
  <2>8. QED
    BY <2>3, <2>5, <2>6, <2>7, MoveStep
<1>4. CASE Blacklist(r)
  <2>1. /\ req[r] \in Handler /\ req[r].pc = "logout" /\ req[r].pair \in Pair
        /\ req[r].body \in Pair \cup {None, Junk} /\ HandlerOK(req[r])
    BY <1>4, HandlerFields DEF Blacklist, Tables, TypeOK, HandlersOK
  <2>2. PICK h \in Handler : h = [pc |-> "signing_out", pair |-> req[r].pair, body |-> req[r].body]
    BY <2>1, HandlerShapes
  <2>3. Goto(r, h)
    BY <1>4, <2>1, <2>2, HandlerMoves DEF Blacklist
  <2>4. UNCHANGED <<users, sessions, minted, lapsed, codes, issued, sockets, calls>>
    BY <1>4 DEF Blacklist, resetting
  <2>5. blacklist' \subseteq Pair
    BY <1>4, <2>1 DEF Blacklist, Tables, TypeOK
  <2>6. HandlerOK(h)'
    BY <2>1, <2>2, <2>4 DEF HandlerOK, Issued
  <2>7. TokensOK' /\ Grows
    BY <2>4, <2>5, KeptTokens DEF Tables, TypeOK
  <2>8. RestOK'
    BY <2>4 DEF users, Tables, TypeOK, RestOK
  <2>9. QED
    BY <2>3, <2>6, <2>7, <2>8, MoveStep
<1>5. CASE ReadToRevoke(r)
  <2>1. /\ req[r].pair \in Pair /\ req[r].body \in Pair /\ Issued(req[r].pair)
        /\ Issued(req[r].body)
    BY <1>5, HandlerFields DEF ReadToRevoke, Tables, TypeOK, HandlersOK, HandlerOK
  <2>2. PICK reason \in {"logout", "refresh_reuse"} :
          reason = IF sessions[minted[req[r].body]].refresh = req[r].body
                   THEN "logout" ELSE "refresh_reuse"
    OBVIOUS
  <2>3. PICK h \in Handler :
          h = [pc |-> "revoking", pair |-> req[r].pair, body |-> req[r].body, reason |-> reason]
    BY <2>1, HandlerShapes
  <2>4. Goto(r, h)
    BY <1>5, <2>2, <2>3 DEF ReadToRevoke
  <2>5. UNCHANGED <<users, sessions, minted, lapsed, blacklist, codes, issued, sockets, calls>>
    BY <1>5 DEF ReadToRevoke, tokens, resetting
  <2>6. HandlerOK(h)'
    BY <2>1, <2>3, <2>5 DEF HandlerOK, Issued
  <2>7. TokensOK' /\ Grows
    BY <2>5, KeptTokens DEF Tables, TypeOK
  <2>8. RestOK'
    BY <2>5 DEF users, Tables, TypeOK, RestOK
  <2>9. QED
    BY <2>4, <2>6, <2>7, <2>8, MoveStep
<1>6. CASE StartEviction(r)
  <2> DEFINE live == {s \in Session : Row(s) /\ ~Revoked(s)}
  <2>1. req[r].pc = "saved" /\ req[r].password \in Nat
    BY <1>6, HandlerFields DEF StartEviction, Tables, TypeOK
  <2>2. PICK h \in Handler : h = [pc |-> "evicting", password |-> req[r].password, rows |-> live]
    BY <2>1, HandlerShapes
  <2>3. UNCHANGED <<users, sessions, minted, lapsed, blacklist, codes, issued, sockets, calls>>
    BY <1>6 DEF StartEviction, tokens, resetting
  <2>4. TokensOK' /\ Grows
    BY <2>3, KeptTokens DEF Tables, TypeOK
  <2>5. RestOK'
    BY <2>3 DEF users, Tables, TypeOK, RestOK
  <2>6. ASSUME NEW q \in Request PROVE req'[q] \in Handler /\ HandlerOK(req[q])'
    <3>1. req[q] \in Handler /\ HandlerOK(req[q])
      BY DEF Tables, TypeOK, HandlersOK
    <3>2. CASE q = r
      <4>1. req'[q] = h
        BY <1>6, <2>2, <3>2 DEF StartEviction
      <4>2. h.pc = "evicting" /\ h.rows = live
        BY <2>2
      <4>3. \A s \in live : Row(s)'
        BY <2>3 DEF Row
      <4>4. QED
        BY <4>1, <4>2, <4>3 DEF HandlerOK
    <3>3. CASE q # r /\ req[q].pc = "verified"
      <4>1. req'[q] = [pc |-> "verified", password |-> req[q].password, straddles |-> TRUE]
        <5>1. req'[q] = [req[q] EXCEPT !.straddles = TRUE]
          BY <1>6, <3>3 DEF StartEviction
        <5>2. [req[q] EXCEPT !.straddles = TRUE]
                = [pc |-> "verified", password |-> req[q].password, straddles |-> TRUE]
          BY <3>1, <3>3, HandlerMoves
        <5>3. QED
          BY <5>1, <5>2, Zenon
      <4>2. req'[q] \in Handler
        <5>1. PICK n \in Nat : n = req[q].password
          BY <3>1, <3>3, HandlerFields
        <5>2. [pc |-> "verified", password |-> n, straddles |-> TRUE] \in Handler
          BY HandlerShapes, Zenon
        <5>3. QED
          BY <4>1, <5>1, <5>2, Zenon
      <4>3. QED
        BY <4>1, <4>2 DEF HandlerOK
    <3>4. CASE q # r /\ req[q].pc # "verified"
      <4>1. req'[q] = req[q]
        BY <1>6, <3>4 DEF StartEviction
      <4>2. PICK g \in Handler : g = req[q]
        BY <3>1
      <4>3. HandlerOK(g)'
        BY <2>4, <3>1, <4>2, HandlerOKGrows
      <4>4. QED
        BY <4>1, <4>2, <4>3 DEF HandlerOK
    <3>5. QED
      BY <3>2, <3>3, <3>4
  <2>7. req' \in [Request -> Handler]
    <3>1. req' = [q \in Request |-> req'[q]]
      BY <1>6 DEF StartEviction
    <3>2. QED
      BY <2>6, <3>1
  <2>8. QED
    BY <2>4, <2>5, <2>6, <2>7 DEF Tables, TypeOK, TokensOK, RestOK, HandlersOK
<1>7. QED
  BY <1>1, <1>2, <1>3, <1>4, <1>5, <1>6

\* What a handler that is signing out, or revoking, may revoke has its row.
LEMMA RevokerFields ==
  ASSUME Tables, NEW r \in Request, req[r].pc \in {"signing_out", "revoking"}
  PROVE  /\ req[r].pair \in Pair /\ Issued(req[r].pair)
         /\ minted[req[r].pair] \in Session /\ Row(minted[req[r].pair])
         /\ req[r].body \in Pair =>
              Issued(req[r].body) /\ minted[req[r].body] \in Session /\ Row(minted[req[r].body])
         /\ req[r].pc = "revoking" =>
              req[r].body \in Pair /\ req[r].reason \in {"logout", "refresh_reuse"}
<1>1. /\ req[r].pair \in Pair /\ Issued(req[r].pair)
      /\ req[r].body \in Pair => Issued(req[r].body)
      /\ req[r].pc = "revoking" =>
           req[r].body \in Pair /\ req[r].reason \in {"logout", "refresh_reuse"}
  BY HandlerFields DEF Tables, TypeOK, HandlersOK, HandlerOK
<1>2. QED
  BY <1>1, TableFacts

\* Every step that revokes, which rows, and why.
Revokes(S, reason) ==
  /\ S \in SUBSET Session /\ \A s \in S : Row(s)
  /\ reason \in {"expired", "refresh_reuse", "logout", "password_change"}
  /\ Revoke(S, reason)
  /\ UNCHANGED <<account, password, minted, lapsed, blacklist, sockets, opened, straddled>>
  /\ UNCHANGED <<codes, issued, guesses, resets, exchanged, unlisted>>
  /\ calls' \in 0 .. MaxCalls

LEMMA RefuseRevokes ==
  ASSUME Tables, NEW r \in Request, NEW p \in Pair, RefuseRotation(r, p)
  PROVE  /\ \E reason : Revokes({minted[p]}, reason)
         /\ ~Revoked(minted[p]) /\ UNCHANGED <<req, ended, evicted>>
<1>1. minted[p] \in Session /\ Row(minted[p])
  BY TableFacts DEF RefuseRotation
<1>2. calls' \in 0 .. MaxCalls
  BY CallCounted DEF RefuseRotation
<1>3. PICK reason \in {"expired", "refresh_reuse"} : Revoke({minted[p]}, reason)
  BY DEF RefuseRotation
<1>4. QED
  BY <1>1, <1>2, <1>3 DEF RefuseRotation, Revokes, users, resetting, logins, logouts

LEMMA RevokeByIdRevokes ==
  ASSUME Tables, NEW r \in Request, RevokeById(r)
  PROVE  /\ Revokes({minted[req[r].pair]} \ {q \in Session : Revoked(q)}, "logout")
         /\ SignedOut(r) /\ UNCHANGED evicted
<1>1. minted[req[r].pair] \in Session /\ Row(minted[req[r].pair])
  BY RevokerFields DEF RevokeById
<1>2. calls' \in 0 .. MaxCalls
  BY DEF RevokeById, Tables, TypeOK
<1>3. QED
  BY <1>1, <1>2 DEF RevokeById, Revokes, users, resetting, logins

LEMMA WriteRevokedRevokes ==
  ASSUME Tables, NEW r \in Request, WriteRevoked(r)
  PROVE  /\ \E reason : Revokes({minted[req[r].body]}, reason)
         /\ SignedOut(r) /\ UNCHANGED evicted
<1>1. /\ minted[req[r].body] \in Session /\ Row(minted[req[r].body])
      /\ req[r].reason \in {"logout", "refresh_reuse"}
  BY RevokerFields DEF WriteRevoked
<1>2. calls' \in 0 .. MaxCalls
  BY DEF WriteRevoked, Tables, TypeOK
<1>3. QED
  BY <1>1, <1>2 DEF WriteRevoked, Revokes, users, resetting, logins

LEMMA FinishEvictionRevokes ==
  ASSUME Tables, NEW r \in Request, FinishEviction(r)
  PROVE  /\ Revokes({s \in req[r].rows : ~Revoked(s)}, "password_change")
         /\ Goto(r, Idle) /\ UNCHANGED ended
<1>1. req[r].rows \subseteq Session /\ \A s \in req[r].rows : Row(s)
  BY HandlerFields DEF FinishEviction, Tables, TypeOK, HandlersOK, HandlerOK
<1>2. calls' \in 0 .. MaxCalls
  BY DEF FinishEviction, Tables, TypeOK
<1>3. QED
  BY <1>1, <1>2 DEF FinishEviction, Revokes, users, resetting, logouts

LEMMA RevokesTables ==
  ASSUME Tables, NEW S, NEW reason, Revokes(S, reason)
  PROVE  /\ TokensOK' /\ Grows /\ RestOK'
         /\ \A s \in Session \ S : sessions'[s] = sessions[s]
         /\ \A s \in S : /\ sessions'[s].revoked = reason /\ Revoked(s)'
                         /\ sessions'[s].refresh = sessions[s].refresh
                         /\ sessions'[s].expired = sessions[s].expired
<1>1. RestOK'
  BY DEF Revokes, RestOK, Tables, TypeOK
<1>2. QED
  BY <1>1, RevokeTables DEF Revokes

LEMMA RevokingActions ==
  ASSUME Tables, NEW r \in Request,
         \/ RevokeById(r) \/ WriteRevoked(r) \/ FinishEviction(r)
         \/ \E p \in Pair : RefuseRotation(r, p)
  PROVE  Tables'
<1>1. ASSUME NEW S, NEW reason, Revokes(S, reason), Goto(r, Idle) PROVE Tables'
  <2>1. HandlerOK(Idle)'
    BY HandlerShapes DEF HandlerOK
  <2>2. QED
    BY <1>1, <2>1, RevokesTables, HandlerShapes, MoveStep
<1>2. ASSUME NEW p \in Pair, RefuseRotation(r, p) PROVE Tables'
  BY <1>2, RefuseRevokes, RevokesTables, StillStep
<1>3. CASE RevokeById(r)
  BY <1>1, <1>3, RevokeByIdRevokes DEF SignedOut
<1>4. CASE WriteRevoked(r)
  BY <1>1, <1>4, WriteRevokedRevokes DEF SignedOut
<1>5. CASE FinishEviction(r)
  BY <1>1, <1>5, FinishEvictionRevokes
<1>6. QED
  BY <1>2, <1>3, <1>4, <1>5

LEMMA OpenSessionTables ==
  ASSUME Tables, NEW r \in Request, NEW s \in Session, NEW p \in Pair, OpenSession(r, s, p)
  PROVE  /\ Tables' /\ Grows
         /\ sessions'[s].refresh = p /\ ~Revoked(s)' /\ Row(s)'
         /\ minted'[p] = s
         /\ \A q \in Session \ {s} : sessions'[q] = sessions[q]
         /\ \A q \in Pair \ {p} : minted'[q] = minted[q]
<1>1. /\ ~Row(s) /\ ~Issued(p) /\ Goto(r, Idle)
      /\ sessions' = [sessions EXCEPT ![s] = [refresh |-> p, revoked |-> "no", expired |-> FALSE]]
      /\ minted' = [minted EXCEPT ![p] = s]
      /\ UNCHANGED <<account, password, lapsed, blacklist, sockets, codes, issued, calls>>
  BY DEF OpenSession, users, resetting
<1>2. /\ sessions'[s] = [refresh |-> p, revoked |-> "no", expired |-> FALSE]
      /\ \A q \in Session \ {s} : sessions'[q] = sessions[q]
      /\ minted'[p] = s
      /\ \A q \in Pair \ {p} : minted'[q] = minted[q]
  BY <1>1 DEF Tables, TypeOK
<1>3. Row(s)' /\ ~Revoked(s)' /\ sessions'[s].refresh = p
  BY <1>2 DEF Row, Revoked, NoRow
<1>4. Grows
  BY <1>1, <1>2, <1>3 DEF Grows, Row, Issued
<1>5. sessions' \in [Session -> SessionRow \cup {NoRow}] /\ minted' \in [Pair -> Session \cup {None}]
  BY <1>1 DEF Tables, TypeOK, SessionRow
<1>6. ASSUME NEW q \in Session, Row(q)'
      PROVE  minted'[sessions'[q].refresh] = q
  <2>1. CASE q = s
    BY <1>2, <1>3, <2>1
  <2>2. CASE q # s
    <3>1. Row(q) /\ sessions'[q].refresh = sessions[q].refresh
      BY <1>2, <1>6, <2>2 DEF Row
    <3>2. QED
      BY <1>1, <1>2, <3>1, TableFacts
  <2>3. QED
    BY <2>1, <2>2
<1>7. MintedRows'
  <2> SUFFICES ASSUME NEW q \in Pair, Issued(q)'
               PROVE  Row(minted[q])'
    BY DEF MintedRows
  <2>1. CASE q = p
    BY <1>2, <1>3, <2>1 DEF Row
  <2>2. CASE q # p
    <3>1. Issued(q) /\ minted'[q] = minted[q]
      BY <1>2, <2>2 DEF Issued
    <3>2. PICK t \in Session : t = minted[q] /\ Row(t)
      BY <3>1, TableFacts
    <3>3. Row(t)' /\ minted'[q] = t
      BY <1>4, <3>1, <3>2 DEF Grows
    <3>4. QED
      BY <3>3 DEF Row
  <2>3. QED
    BY <2>1, <2>2
<1>8. TokensOK' /\ RestOK'
  BY <1>1, <1>5, <1>6, <1>7 DEF TokensOK, RestOK, Tables, TypeOK
<1>9. HandlerOK(Idle)'
  BY HandlerShapes DEF HandlerOK
<1>10. QED
  BY <1>1, <1>2, <1>3, <1>4, <1>8, <1>9, HandlerShapes, MoveStep

LEMMA CommitRotationTables ==
  ASSUME Tables, NEW r \in Request, NEW q \in Pair, CommitRotation(r, q)
  PROVE  /\ Tables' /\ Grows
         /\ req[r].session \in Session /\ Row(req[r].session)
         /\ sessions'[req[r].session].refresh = q
         /\ minted'[q] = req[r].session
         /\ \A s \in Session : s # req[r].session => sessions'[s] = sessions[s]
         /\ \A s \in Session : (Row(s)' <=> Row(s)) /\ (Revoked(s)' <=> Revoked(s))
         /\ \A s \in Session : Row(s) => sessions'[s].revoked = sessions[s].revoked
         /\ \A p \in Pair \ {q} : minted'[p] = minted[p]
<1>0. PICK s \in Session : s = req[r].session /\ Row(s)
  BY HandlerFields DEF CommitRotation, Tables, TypeOK, HandlersOK, HandlerOK
<1>1. /\ ~Issued(q) /\ Goto(r, Idle)
      /\ sessions' = [sessions EXCEPT ![s].refresh = q, ![s].expired = FALSE]
      /\ minted' = [minted EXCEPT ![q] = s]
      /\ UNCHANGED <<account, password, lapsed, blacklist, sockets, codes, issued, calls>>
  BY <1>0 DEF CommitRotation, users, resetting
<1>2. sessions[s] \in SessionRow
  BY <1>0, TableFacts
<1>3. /\ sessions'[s] = [[sessions[s] EXCEPT !.refresh = q] EXCEPT !.expired = FALSE]
      /\ \A t \in Session \ {s} : sessions'[t] = sessions[t]
      /\ minted'[q] = s
      /\ \A p \in Pair \ {q} : minted'[p] = minted[p]
  BY <1>1 DEF Tables, TypeOK
<1>4. /\ sessions'[s] \in SessionRow /\ sessions'[s].refresh = q
      /\ sessions'[s].revoked = sessions[s].revoked
  BY <1>2, <1>3 DEF SessionRow
<1>5. NoRow \notin SessionRow
  BY DEF NoRow, SessionRow
<1>6. \A t \in Session : (Row(t)' <=> Row(t)) /\ (Revoked(t)' <=> Revoked(t))
  <2>1. Row(s)' /\ (Revoked(s)' <=> Revoked(s))
    BY <1>0, <1>4, <1>5 DEF Row, Revoked
  <2>2. \A t \in Session \ {s} : (Row(t)' <=> Row(t)) /\ (Revoked(t)' <=> Revoked(t))
    BY <1>3 DEF Row, Revoked
  <2>3. QED
    BY <1>0, <2>1, <2>2
<1>7. Grows
  BY <1>1, <1>3, <1>6 DEF Grows, Issued
<1>8. sessions' \in [Session -> SessionRow \cup {NoRow}] /\ minted' \in [Pair -> Session \cup {None}]
  <2>1. \A t \in Session : sessions'[t] \in SessionRow \cup {NoRow}
    BY <1>3, <1>4 DEF Tables, TypeOK
  <2>2. sessions' = [t \in Session |-> sessions'[t]]
    BY <1>1 DEF Tables, TypeOK
  <2>3. minted' \in [Pair -> Session \cup {None}]
    BY <1>1 DEF Tables, TypeOK
  <2>4. QED
    BY <2>1, <2>2, <2>3
<1>9. ASSUME NEW t \in Session, Row(t)'
      PROVE  minted'[sessions'[t].refresh] = t
  <2>1. CASE t = s
    BY <1>3, <1>4, <2>1
  <2>2. CASE t # s
    <3>1. Row(t) /\ sessions'[t].refresh = sessions[t].refresh
      BY <1>3, <1>6, <1>9, <2>2
    <3>2. QED
      BY <1>1, <1>3, <3>1, TableFacts
  <2>3. QED
    BY <2>1, <2>2
<1>10. MintedRows'
  <2> SUFFICES ASSUME NEW p \in Pair, Issued(p)'
               PROVE  Row(minted[p])'
    BY DEF MintedRows
  <2>1. PICK t : t = minted'[p]
    OBVIOUS
  <2>2. t \in Session /\ Row(t)
    <3>1. CASE p = q
      BY <1>0, <1>3, <2>1, <3>1
    <3>2. CASE p # q
      BY <1>3, <2>1, <3>2, TableFacts DEF Issued
    <3>3. QED
      BY <3>1, <3>2
  <2>3. Row(t)'
    BY <1>6, <2>2
  <2>4. QED
    BY <2>1, <2>3 DEF Row
<1>11. TokensOK' /\ RestOK'
  BY <1>1, <1>8, <1>9, <1>10 DEF TokensOK, RestOK, Tables, TypeOK
<1>12. HandlerOK(Idle)'
  BY HandlerShapes DEF HandlerOK
<1>13. Tables'
  BY <1>1, <1>7, <1>11, <1>12, HandlerShapes, MoveStep
<1>14. \A t \in Session : Row(t) => sessions'[t].revoked = sessions[t].revoked
  BY <1>3, <1>4
<1>15. QED
  BY <1>0, <1>3, <1>4, <1>6, <1>7, <1>13, <1>14

LEMMA SessionExpiresTables ==
  ASSUME Tables, NEW s \in Session, SessionExpires(s)
  PROVE  /\ Tables' /\ Grows
         /\ \A t \in Session : (Row(t)' <=> Row(t)) /\ (Revoked(t)' <=> Revoked(t))
         /\ \A t \in Session : Row(t) =>
              /\ sessions'[t].refresh = sessions[t].refresh
              /\ sessions'[t].revoked = sessions[t].revoked
<1>1. /\ Row(s) /\ req' = req
      /\ sessions' = [sessions EXCEPT ![s].expired = TRUE]
      /\ UNCHANGED <<account, password, minted, lapsed, blacklist, sockets, codes, issued, calls>>
  BY DEF SessionExpires, users, resetting
<1>2. sessions[s] \in SessionRow
  BY <1>1, TableFacts
<1>3. /\ sessions'[s] = [sessions[s] EXCEPT !.expired = TRUE]
      /\ \A t \in Session \ {s} : sessions'[t] = sessions[t]
  BY <1>1 DEF Tables, TypeOK
<1>4. /\ sessions'[s] \in SessionRow /\ sessions'[s].refresh = sessions[s].refresh
      /\ sessions'[s].revoked = sessions[s].revoked
  BY <1>2, <1>3 DEF SessionRow
<1>5. NoRow \notin SessionRow
  BY DEF NoRow, SessionRow
<1>6. \A t \in Session : (Row(t)' <=> Row(t)) /\ (Revoked(t)' <=> Revoked(t))
  <2>1. Row(s)' /\ (Revoked(s)' <=> Revoked(s))
    BY <1>1, <1>4, <1>5 DEF Row, Revoked
  <2>2. \A t \in Session \ {s} : (Row(t)' <=> Row(t)) /\ (Revoked(t)' <=> Revoked(t))
    BY <1>3 DEF Row, Revoked
  <2>3. QED
    BY <1>1, <2>1, <2>2
<1>7. \A t \in Session : Row(t) =>
        sessions'[t].refresh = sessions[t].refresh /\ sessions'[t].revoked = sessions[t].revoked
  BY <1>3, <1>4
<1>8. Grows
  BY <1>1, <1>6 DEF Grows
<1>9. sessions' \in [Session -> SessionRow \cup {NoRow}]
  <2>1. \A t \in Session : sessions'[t] \in SessionRow \cup {NoRow}
    BY <1>3, <1>4 DEF Tables, TypeOK
  <2>2. sessions' = [t \in Session |-> sessions'[t]]
    BY <1>1 DEF Tables, TypeOK
  <2>3. QED
    BY <2>1, <2>2
<1>10. ASSUME NEW t \in Session, Row(t)' PROVE minted'[sessions'[t].refresh] = t
  BY <1>1, <1>6, <1>7, <1>10, TableFacts
<1>11. MintedRows'
  <2> SUFFICES ASSUME NEW p \in Pair, Issued(p)' PROVE Row(minted[p])'
    BY DEF MintedRows
  <2>1. PICK t \in Session : t = minted[p] /\ Row(t)
    BY <1>1, TableFacts DEF Issued
  <2>2. Row(t)' /\ minted'[p] = t
    BY <1>1, <1>6, <2>1
  <2>3. QED
    BY <2>2 DEF Row
<1>12. TokensOK' /\ RestOK'
  BY <1>1, <1>9, <1>10, <1>11 DEF TokensOK, RestOK, Tables, TypeOK
<1>13. QED
  BY <1>1, <1>6, <1>7, <1>8, <1>12, StillStep

LEMMA OtherActions ==
  ASSUME Tables,
         \/ \E p \in Pair : AccessLapses(p) \/ Disconnect(p)
         \/ \E c \in Code : CodeExpires(c)
         \/ \E r \in Request : Suspend(r) \/ Reinstate(r)
  PROVE  Tables'
<1>1. ASSUME NEW p \in Pair, AccessLapses(p) \/ Disconnect(p) PROVE Tables'
  <2>1. /\ UNCHANGED <<users, sessions, minted, blacklist, codes, issued, req, calls>>
        /\ lapsed' \subseteq Pair /\ sockets' \subseteq Pair
    BY <1>1 DEF AccessLapses, Disconnect, tokens, resetting, Tables, TypeOK
  <2>2. TokensOK' /\ Grows
    BY <2>1, KeptTokens DEF Tables, TypeOK
  <2>3. QED
    BY <2>1, <2>2, StillStep DEF users, Tables, TypeOK, RestOK
<1>2. ASSUME NEW c \in Code, CodeExpires(c) PROVE Tables'
  <2>1. codes' \in [Code -> CodeRow \cup {NoRow}]
    BY <1>2, CodeChanged DEF CodeExpires
  <2>2. UNCHANGED <<users, sessions, minted, lapsed, blacklist, sockets, issued, req, calls>>
    BY <1>2 DEF CodeExpires, tokens
  <2>3. TokensOK' /\ Grows
    BY <2>2, KeptTokens DEF Tables, TypeOK
  <2>4. QED
    BY <2>1, <2>2, <2>3, StillStep DEF users, Tables, TypeOK, RestOK
<1>3. ASSUME NEW r \in Request, Suspend(r) \/ Reinstate(r) PROVE Tables'
  <2>1. calls' \in 0 .. MaxCalls
    BY <1>3, CallCounted DEF Suspend, Reinstate
  <2>2. /\ UNCHANGED <<password, sessions, minted, lapsed, blacklist, sockets, codes, issued, req>>
        /\ account' \in {"none", "active", "inactive"}
    BY <1>3 DEF Suspend, Reinstate, tokens, resetting
  <2>3. TokensOK' /\ Grows
    BY <2>2, KeptTokens DEF Tables, TypeOK
  <2>4. QED
    BY <2>1, <2>2, <2>3, StillStep DEF Tables, TypeOK, RestOK
<1>4. QED
  BY <1>1, <1>2, <1>3

LEMMA TablesInit == Init => Tables
BY AuthAssumption, HandlerShapes
   DEF Init, Tables, TypeOK, HandlersOK, HandlerOK, MintedRows, Row, Issued

LEMMA TablesNext == Tables /\ [Next]_vars => Tables'
<1> SUFFICES ASSUME Tables, [Next]_vars PROVE Tables'
  OBVIOUS
<1>1. CASE Environment
  BY <1>1, OtherActions, SessionExpiresTables DEF Environment
<1>2. ASSUME NEW r \in Request, Begin(r) PROVE Tables'
  BY <1>2, LightActions, CodeActions, HoldActions, RevokingActions, OtherActions DEF Begin
<1>3. ASSUME NEW r \in Request, Continue(r) PROVE Tables'
  BY <1>3, LightActions, CodeActions, HoldActions, RevokingActions,
     OpenSessionTables, CommitRotationTables DEF Continue
<1>4. CASE UNCHANGED vars
  <2>1. /\ UNCHANGED <<users, sessions, minted, lapsed, blacklist, sockets, codes, issued>>
        /\ UNCHANGED <<req, calls>>
    BY <1>4 DEF vars, tokens, resetting
  <2>2. TokensOK' /\ Grows
    BY <2>1, KeptTokens DEF Tables, TypeOK
  <2>3. QED
    BY <2>1, <2>2, StillStep DEF users, Tables, TypeOK, RestOK
<1>5. QED
  BY <1>1, <1>2, <1>3, <1>4 DEF Next

\* Every table and handler keeps its shape, and the refresh token a session awaits was
\* minted for it (createAuthSession, rotateRefreshSession).
THEOREM TypeCorrect == Spec => []TypeOK
<1>1. Tables => TypeOK
  BY DEF Tables
<1>2. QED
  BY <1>1, TablesInit, TablesNext, PTL DEF Spec

--------------------------------------------------------------------------------
(* What a step does to sessions, and to handlers *)

LEMMA SessionSteps ==
  ASSUME Tables, [Next]_vars
  PROVE  \/ UNCHANGED <<sessions, minted>>
         \/ \E r \in Request, p \in Pair : RefuseRotation(r, p)
         \/ \E r \in Request : RevokeById(r) \/ WriteRevoked(r) \/ FinishEviction(r)
         \/ \E r \in Request, s \in Session, p \in Pair : OpenSession(r, s, p)
         \/ \E r \in Request, q \in Pair : CommitRotation(r, q)
         \/ \E s \in Session : SessionExpires(s)
<1>1. CASE Environment
  BY <1>1 DEF Environment, AccessLapses, Disconnect, CodeExpires, tokens
<1>2. ASSUME NEW r \in Request, Begin(r)
      PROVE  UNCHANGED <<sessions, minted>> \/ \E p \in Pair : RefuseRotation(r, p)
  BY <1>2 DEF Begin, Signup, Login, Forgot, Suspend, Reinstate, Guess, Exhausted,
     StartRotation, Handshake, Logout, tokens
<1>3. ASSUME NEW r \in Request, Continue(r)
      PROVE  \/ UNCHANGED <<sessions, minted>>
             \/ RevokeById(r) \/ WriteRevoked(r) \/ FinishEviction(r)
             \/ \E s \in Session, p \in Pair : OpenSession(r, s, p)
             \/ \E q \in Pair : CommitRotation(r, q)
  BY <1>3 DEF Continue, CreateUser, Blacklist, NothingToRevoke, ReadToRevoke, IssueCode,
     Charge, Burn, UseCode, SavePassword, StartEviction, Connect, Abort, tokens
<1>4. CASE UNCHANGED vars
  BY <1>4 DEF vars, tokens
<1>5. QED
  BY <1>1, <1>2, <1>3, <1>4 DEF Next

\* Rows only grow; a revoked one stays so, and for its reason, but for a logout's write;
\* a refresh token stays in place but for a rotation's.
LEMMA SessionFacts ==
  ASSUME Tables, [Next]_vars
  PROVE  /\ Grows
         /\ \A s \in Session : Revoked(s) =>
              /\ Revoked(s)'
              /\ sessions'[s].revoked # sessions[s].revoked =>
                   \E r \in Request : WriteRevoked(r) /\ minted[req[r].body] = s
         /\ \A s \in Session : Row(s) =>
              \/ sessions'[s].refresh = sessions[s].refresh
              \/ \E r \in Request, q \in Pair : CommitRotation(r, q) /\ req[r].session = s
<1> DEFINE Kept ==
      /\ Grows
      /\ \A s \in Session : Revoked(s) =>
           /\ Revoked(s)'
           /\ sessions'[s].revoked # sessions[s].revoked =>
                \E r \in Request : WriteRevoked(r) /\ minted[req[r].body] = s
      /\ \A s \in Session : Row(s) =>
           \/ sessions'[s].refresh = sessions[s].refresh
           \/ \E r \in Request, q \in Pair : CommitRotation(r, q) /\ req[r].session = s
<1>1. CASE UNCHANGED <<sessions, minted>>
  BY <1>1 DEF Grows, Row, Revoked, Issued
<1>2. ASSUME NEW S, NEW reason, Revokes(S, reason),
             \A s \in S : Revoked(s) =>
               \E r \in Request : WriteRevoked(r) /\ minted[req[r].body] = s
      PROVE  Kept
  BY <1>2, RevokesTables DEF Revoked, Row
<1> HIDE DEF Kept
<1>3. ASSUME NEW r \in Request, NEW p \in Pair, RefuseRotation(r, p) PROVE Kept
  <2>1. PICK S, reason : S = {minted[p]} /\ Revokes(S, reason) /\ ~Revoked(minted[p])
    BY <1>3, RefuseRevokes
  <2>2. QED
    BY <1>2, <2>1
<1>4. ASSUME NEW r \in Request, RevokeById(r) PROVE Kept
  <2>1. PICK S : S = {minted[req[r].pair]} \ {q \in Session : Revoked(q)} /\ Revokes(S, "logout")
    BY <1>4, RevokeByIdRevokes
  <2>2. \A s \in S : ~Revoked(s)
    BY <2>1 DEF Revokes
  <2>3. QED
    BY <1>2, <2>1, <2>2
<1>5. ASSUME NEW r \in Request, WriteRevoked(r) PROVE Kept
  <2>1. PICK S, reason : S = {minted[req[r].body]} /\ Revokes(S, reason)
    BY <1>5, WriteRevokedRevokes
  <2>2. QED
    BY <1>2, <1>5, <2>1
<1>6. ASSUME NEW r \in Request, FinishEviction(r) PROVE Kept
  <2>1. PICK S : S = {s \in req[r].rows : ~Revoked(s)} /\ Revokes(S, "password_change")
    BY <1>6, FinishEvictionRevokes
  <2>2. QED
    BY <1>2, <2>1
<1> USE DEF Kept
<1>7. ASSUME NEW r \in Request, NEW s \in Session, NEW p \in Pair, OpenSession(r, s, p)
      PROVE  Kept
  <2>1. ~Row(s) /\ \A t \in Session \ {s} : sessions'[t] = sessions[t]
    BY <1>7, OpenSessionTables DEF OpenSession
  <2>2. QED
    BY <1>7, <2>1, OpenSessionTables DEF Revoked, Row
<1>8. ASSUME NEW r \in Request, NEW q \in Pair, CommitRotation(r, q) PROVE Kept
  BY <1>8, CommitRotationTables DEF Revoked
<1>9. ASSUME NEW s \in Session, SessionExpires(s) PROVE Kept
  BY <1>9, SessionExpiresTables DEF Revoked
<1>10. QED
  BY <1>1, <1>3, <1>4, <1>5, <1>6, <1>7, <1>8, <1>9, SessionSteps

LEMMA MarkedFields ==
  ASSUME NEW h, NEW n, h = [pc |-> "verified", password |-> n, straddles |-> TRUE]
  PROVE  h.pc = "verified" /\ h.password = n /\ h.straddles
BY Zenon

LEMMA OthersStay ==
  ASSUME Tables, NEW r \in Request, Begin(r) \/ Continue(r), NEW q \in Request, q # r
  PROVE  \/ req'[q] = req[q]
         \/ /\ StartEviction(r) /\ req[q].pc = "verified"
            /\ req'[q] = [pc |-> "verified", password |-> req[q].password, straddles |-> TRUE]
<1>1. (\E h : Goto(r, h)) => req'[q] = req[q]
  BY DEF Goto, Tables, TypeOK
<1>2. CASE Begin(r)
  BY <1>1, <1>2 DEF Begin, Signup, Login, Forgot, Suspend, Reinstate, Guess, Exhausted,
     StartRotation, RefuseRotation, Handshake, Logout
<1>3. CASE Continue(r) /\ ~StartEviction(r)
  BY <1>1, <1>3 DEF Continue, CreateUser, OpenSession, CommitRotation, Blacklist, RevokeById,
     NothingToRevoke, ReadToRevoke, WriteRevoked, SignedOut, IssueCode, Charge, Burn, UseCode,
     SavePassword, FinishEviction, Connect, Abort
<1>4. CASE StartEviction(r)
  <2>1. CASE req[q].pc # "verified"
    BY <1>4, <2>1 DEF StartEviction
  <2>2. CASE req[q].pc = "verified"
    <3>1. req'[q] = [req[q] EXCEPT !.straddles = TRUE]
      BY <1>4, <2>2 DEF StartEviction
    <3>2. req[q] \in Handler
      BY DEF Tables, TypeOK
    <3>3. [req[q] EXCEPT !.straddles = TRUE]
            = [pc |-> "verified", password |-> req[q].password, straddles |-> TRUE]
      BY <2>2, <3>2, HandlerMoves
    <3>4. req'[q] = [pc |-> "verified", password |-> req[q].password, straddles |-> TRUE]
      BY <3>1, <3>3, Zenon
    <3>5. QED
      BY <1>4, <2>2, <3>4, Zenon
  <2>3. QED
    BY <2>1, <2>2
<1>5. QED
  BY <1>2, <1>3, <1>4

\* Where a handler may come to be, and by which action.
LEMMA Moves ==
  ASSUME Tables, [Next]_vars, NEW q \in Request
  PROVE  \/ req'[q] = req[q]
         \/ req'[q].pc \in {"idle", "signup", "forgot", "charged"}
         \/ /\ CreateUser(q) \/ Login(q)
            /\ req'[q].pc = "verified" /\ req'[q].password = password
         \/ /\ req[q].pc = "verified" /\ req'[q].pc = "verified"
            /\ req'[q].password = req[q].password /\ req'[q].straddles
         \/ \E p \in Pair : StartRotation(q, p) /\ req'[q].pc = "rotating"
              /\ req'[q].session = minted[p] /\ req'[q].pair = p
         \/ \E p \in Pair, b \in Pair \cup {None, Junk} : Logout(q, p, b) /\ req'[q].pc = "logout"
         \/ Blacklist(q) /\ req'[q].pc = "signing_out" /\ req'[q].pair = req[q].pair
         \/ ReadToRevoke(q) /\ req'[q].pc = "revoking" /\ req'[q].pair = req[q].pair
         \/ \E c \in Code : Guess(q, c) /\ req'[q].pc \in {"wrong", "right"}
         \/ UseCode(q) /\ req'[q].pc = "used"
         \/ SavePassword(q) /\ req'[q].pc = "saved" /\ req'[q].password = password + 1
         \/ StartEviction(q) /\ req'[q].pc = "evicting" /\ req'[q].password = req[q].password
              /\ req'[q].rows = {s \in Session : Row(s) /\ ~Revoked(s)}
         \/ \E p \in Pair : Handshake(q, p) /\ req'[q].pc = "handshake" /\ req'[q].pair = p
<1>1. \A h : Goto(q, h) => req'[q] = h
  BY DEF Goto, Tables, TypeOK
<1>2. CASE Environment \/ UNCHANGED vars
  BY <1>2 DEF Environment, AccessLapses, Disconnect, SessionExpires, CodeExpires, vars
<1>3. ASSUME NEW r \in Request, Begin(r) \/ Continue(r), r # q
      PROVE  \/ req'[q] = req[q]
             \/ /\ req[q].pc = "verified" /\ req'[q].pc = "verified"
                /\ req'[q].password = req[q].password /\ req'[q].straddles
  <2>1. \/ req'[q] = req[q]
        \/ /\ req[q].pc = "verified"
           /\ req'[q] = [pc |-> "verified", password |-> req[q].password, straddles |-> TRUE]
    BY <1>3, OthersStay, Zenon
  <2>3. ASSUME req'[q] = [pc |-> "verified", password |-> req[q].password, straddles |-> TRUE]
        PROVE  /\ req'[q].pc = "verified" /\ req'[q].password = req[q].password
               /\ req'[q].straddles
    BY <2>3, MarkedFields, Zenon
  <2>4. QED
    BY <2>1, <2>3, Zenon
<1>4. CASE Signup(q) \/ Forgot(q)
  BY <1>1, <1>4 DEF Signup, Forgot
<1>5. CASE Login(q) \/ CreateUser(q)
  <2>1. req'[q] = [pc |-> "verified", password |-> password, straddles |-> FALSE]
    BY <1>1, <1>5 DEF Login, CreateUser
  <2>2. QED
    BY <1>5, <2>1
<1>6. CASE Suspend(q) \/ Reinstate(q) \/ \E p \in Pair : RefuseRotation(q, p)
  BY <1>6 DEF Suspend, Reinstate, RefuseRotation
<1>7. ASSUME NEW c \in Code, Exhausted(q, c) PROVE req'[q] = req[q]
  BY <1>7 DEF Exhausted
<1>8. ASSUME NEW c \in Code, Guess(q, c) PROVE req'[q].pc \in {"wrong", "right"}
  BY <1>1, <1>8 DEF Guess
<1>9. ASSUME NEW p \in Pair, StartRotation(q, p)
      PROVE  req'[q].pc = "rotating" /\ req'[q].session = minted[p] /\ req'[q].pair = p
  BY <1>1, <1>9 DEF StartRotation
<1>10. ASSUME NEW p \in Pair, Handshake(q, p)
       PROVE  req'[q].pc = "handshake" /\ req'[q].pair = p
  BY <1>1, <1>10 DEF Handshake
<1>11. ASSUME NEW p \in Pair, NEW b \in Pair \cup {None, Junk}, Logout(q, p, b)
       PROVE  req'[q].pc = "logout"
  BY <1>1, <1>11 DEF Logout
<1>12. CASE \/ \E s \in Session, p \in Pair : OpenSession(q, s, p)
            \/ \E p \in Pair : CommitRotation(q, p)
            \/ RevokeById(q) \/ NothingToRevoke(q) \/ WriteRevoked(q)
            \/ IssueCode(q) \/ Burn(q) \/ FinishEviction(q) \/ Connect(q) \/ Abort(q)
  <2>1. Goto(q, Idle)
    BY <1>12 DEF OpenSession, CommitRotation, RevokeById, NothingToRevoke, WriteRevoked,
       SignedOut, IssueCode, Burn, FinishEviction, Connect, Abort
  <2>2. QED
    BY <1>1, <2>1, HandlerShapes
<1>13. CASE Blacklist(q)
  <2>1. req[q] \in Handler /\ req[q].pc = "logout"
    BY <1>13 DEF Blacklist, Tables, TypeOK
  <2>2. req'[q] = [pc |-> "signing_out", pair |-> req[q].pair, body |-> req[q].body]
    BY <1>1, <1>13, <2>1, HandlerMoves DEF Blacklist
  <2>3. QED
    BY <1>13, <2>2
<1>14. CASE ReadToRevoke(q)
  BY <1>1, <1>14 DEF ReadToRevoke
<1>15. CASE Charge(q)
  <2>1. req[q] \in Handler /\ req[q].pc = "wrong"
    BY <1>15 DEF Charge, Tables, TypeOK
  <2>2. req'[q] = [pc |-> "charged", code |-> req[q].code]
    BY <1>1, <1>15, <2>1, HandlerMoves DEF Charge
  <2>3. QED
    BY <2>2
<1>16. CASE UseCode(q)
  BY <1>1, <1>16 DEF UseCode
<1>17. CASE SavePassword(q)
  BY <1>1, <1>17 DEF SavePassword
<1>18. CASE StartEviction(q)
  <2>1. req'[q] = [pc |-> "evicting", password |-> req[q].password,
                   rows |-> {s \in Session : Row(s) /\ ~Revoked(s)}]
    BY <1>18 DEF StartEviction
  <2>2. QED
    BY <1>18, <2>1
<1>19. CASE Begin(q)
  BY <1>4, <1>5, <1>6, <1>7, <1>8, <1>9, <1>10, <1>11, <1>19 DEF Begin
<1>20. CASE Continue(q)
  <2>1. CASE \/ CreateUser(q) \/ Charge(q) \/ Blacklist(q) \/ ReadToRevoke(q)
             \/ UseCode(q) \/ SavePassword(q) \/ StartEviction(q)
    BY <1>5, <1>13, <1>14, <1>15, <1>16, <1>17, <1>18, <2>1
  <2>2. CASE ~(\/ CreateUser(q) \/ Charge(q) \/ Blacklist(q) \/ ReadToRevoke(q)
               \/ UseCode(q) \/ SavePassword(q) \/ StartEviction(q))
    BY <1>12, <1>20, <2>2 DEF Continue
  <2>3. QED
    BY <2>1, <2>2
<1>21. QED
  BY <1>2, <1>3, <1>19, <1>20 DEF Next

--------------------------------------------------------------------------------
(* Revocation *)

\* A revoked session stays revoked, and for the reason it was revoked for, but for a
\* logout that read it before (revokeRefreshSession).
THEOREM RevocationStands == Spec => RevokedForGood
<1>1. Tables /\ [Next]_vars =>
        [\A s \in Session : Revoked(s) =>
           /\ Revoked(s)'
           /\ sessions'[s].revoked # sessions[s].revoked =>
                \E r \in Request : /\ req[r].pc = "revoking"
                                   /\ minted[req[r].body] = s
                                   /\ req'[r] = Idle]_vars
  <2> SUFFICES ASSUME Tables, [Next]_vars, NEW s \in Session, Revoked(s)
               PROVE  /\ Revoked(s)'
                      /\ sessions'[s].revoked # sessions[s].revoked =>
                           \E r \in Request : /\ req[r].pc = "revoking"
                                              /\ minted[req[r].body] = s
                                              /\ req'[r] = Idle
    OBVIOUS
  <2>1. ASSUME NEW r \in Request, WriteRevoked(r)
        PROVE  req[r].pc = "revoking" /\ req'[r] = Idle
    BY <2>1 DEF WriteRevoked, SignedOut, Goto, Tables, TypeOK
  <2>2. QED
    BY <2>1, SessionFacts
<1>2. QED
  BY <1>1, TablesInit, TablesNext, PTL DEF Spec, RevokedForGood

--------------------------------------------------------------------------------
(* Rotation *)

LEMMA RotationInit == Init => RotationInv
BY HandlerShapes DEF Init, RotationInv, Rotating, OneUse

LEMMA StartRotationHolds ==
  ASSUME Tables, [Next]_vars, NEW q \in Request, NEW r \in Request, NEW s,
         NEW p \in Pair, StartRotation(q, p), s = minted[p], Rotating(r, s)'
  PROVE  r = q
<1> SUFFICES ASSUME r # q PROVE FALSE
  OBVIOUS
<1>1. Begin(q)
  BY DEF Begin
<1>2. req'[r].pc = "rotating" /\ req'[r].session = s
  BY DEF Rotating
<1>3. req'[r] = req[r]
  <2>1. req'[r] = req[r] \/ req'[r].pc = "verified"
    BY <1>1, OthersStay, MarkedFields, Zenon
  <2>2. QED
    BY <1>2, <2>1
<1>4. Locked(s)
  BY <1>2, <1>3 DEF Locked
<1>5. QED
  BY <1>4 DEF StartRotation

LEMMA RotationNext == Tables /\ RotationInv /\ [Next]_vars => RotationInv'
<1> SUFFICES ASSUME Tables, RotationInv, [Next]_vars PROVE RotationInv'
  OBVIOUS
<1>0. /\ Grows
      /\ \A s \in Session : Row(s) =>
           \/ sessions'[s].refresh = sessions[s].refresh
           \/ \E r \in Request, q \in Pair : CommitRotation(r, q) /\ req[r].session = s
  BY SessionFacts
<1>1. ASSUME NEW r \in Request, req'[r].pc = "rotating"
      PROVE  \/ req'[r] = req[r]
             \/ \E p \in Pair : /\ StartRotation(r, p)
                                /\ req'[r].session = minted[p] /\ req'[r].pair = p
  BY <1>1, Moves
<1>2. ASSUME NEW r \in Request, req[r].pc = "rotating"
      PROVE  /\ req[r].pair \in Pair /\ Issued(req[r].pair) /\ InPlace(req[r].pair)
             /\ req[r].session \in Session /\ Row(req[r].session)
             /\ minted[req[r].pair] = req[r].session
  <2>1. /\ req[r].pair \in Pair /\ req[r].session \in Session
        /\ Row(req[r].session) /\ minted[req[r].pair] = req[r].session
    BY <1>2, HandlerFields DEF Tables, TypeOK, HandlersOK, HandlerOK
  <2>2. QED
    BY <1>2, <2>1, AuthAssumption DEF Issued, RotationInv
<1>3. ASSUME NEW r \in Request, NEW x \in Pair, CommitRotation(r, x)
      PROVE  req'[r] = Idle /\ req[r].pc = "rotating" /\ ~Issued(x)
  BY <1>3 DEF CommitRotation, Goto, Tables, TypeOK
<1>4. ASSUME NEW r \in Request, req'[r].pc = "rotating"
      PROVE  InPlace(req[r].pair)'
  <2>1. CASE req'[r] = req[r]
    <3>1. PICK p \in Pair, s \in Session :
            /\ p = req[r].pair /\ s = req[r].session /\ minted[p] = s
            /\ Issued(p) /\ Row(s) /\ sessions[s].refresh = p /\ Rotating(r, s)
      BY <1>2, <1>4, <2>1 DEF InPlace, Rotating
    <3>2. sessions'[s].refresh = p
      <4>1. ASSUME NEW q \in Request, NEW x \in Pair, CommitRotation(q, x), req[q].session = s
            PROVE  FALSE
        <5>1. Rotating(q, s) /\ req'[q] = Idle
          BY <1>3, <4>1 DEF Rotating
        <5>2. q = r
          BY <3>1, <5>1 DEF RotationInv
        <5>3. QED
          BY <1>4, <5>1, <5>2, HandlerShapes
      <4>2. QED
        BY <1>0, <3>1, <4>1
    <3>3. minted'[p] = s /\ req'[r].pair = p
      BY <1>0, <2>1, <3>1 DEF Grows
    <3>4. QED
      BY <3>2, <3>3 DEF InPlace
  <2>2. ASSUME NEW p \in Pair, StartRotation(r, p), req'[r].pair = p
        PROVE  InPlace(req[r].pair)'
    <3>1. sessions[minted[p]].refresh = p /\ sessions' = sessions /\ minted' = minted
      BY <2>2 DEF StartRotation, tokens
    <3>2. QED
      BY <2>2, <3>1 DEF InPlace
  <2>3. QED
    BY <1>1, <1>4, <2>1, <2>2
<1>5. ASSUME NEW s \in Session, NEW q \in Request, NEW r \in Request,
             Rotating(q, s)', Rotating(r, s)'
      PROVE  q = r
  <2>1. req'[q].pc = "rotating" /\ req'[q].session = s /\ req'[r].pc = "rotating" /\ req'[r].session = s
    BY <1>5 DEF Rotating
  <2>2. CASE \E p \in Pair : StartRotation(q, p) /\ s = minted[p]
    BY <1>5, <2>2, StartRotationHolds
  <2>3. CASE \E p \in Pair : StartRotation(r, p) /\ s = minted[p]
    BY <1>5, <2>3, StartRotationHolds
  <2>4. CASE req'[q] = req[q] /\ req'[r] = req[r]
    BY <2>1, <2>4 DEF RotationInv, Rotating
  <2>5. QED
    BY <1>1, <2>1, <2>2, <2>3, <2>4
<1>6. \/ exchanged' = exchanged
      \/ \E r \in Request, x \in Pair :
           CommitRotation(r, x) /\ exchanged' = exchanged \cup {<<req[r].pair, x>>}
  <2>1. CASE Environment \/ UNCHANGED vars
    BY <2>1 DEF Environment, AccessLapses, Disconnect, SessionExpires, CodeExpires, vars
  <2>2. ASSUME NEW r \in Request, Begin(r) PROVE exchanged' = exchanged
    BY <2>2 DEF Begin, Signup, Login, Forgot, Suspend, Reinstate, Guess, Exhausted,
       StartRotation, RefuseRotation, Handshake, Logout
  <2>3. ASSUME NEW r \in Request, Continue(r)
        PROVE  \/ exchanged' = exchanged
               \/ \E x \in Pair :
                    CommitRotation(r, x) /\ exchanged' = exchanged \cup {<<req[r].pair, x>>}
    BY <2>3 DEF Continue, CreateUser, OpenSession, CommitRotation, Blacklist, RevokeById,
       NothingToRevoke, ReadToRevoke, WriteRevoked, IssueCode, Charge, Burn, UseCode,
       SavePassword, StartEviction, FinishEviction, Connect, Abort
  <2>4. QED
    BY <2>1, <2>2, <2>3 DEF Next
<1>7. ASSUME NEW e \in exchanged
      PROVE  e \in Pair \X Pair /\ Issued(e[1])' /\ ~InPlace(e[1])'
  <2>1. PICK p \in Pair, s \in Session :
          /\ p = e[1] /\ e \in Pair \X Pair /\ Issued(p) /\ s = minted[p] /\ Row(s)
          /\ sessions[s].refresh # p
    BY TableFacts DEF RotationInv, InPlace
  <2>2. minted'[p] = s
    BY <1>0, <2>1 DEF Grows
  <2>3. sessions'[s].refresh # p
    BY <1>0, <1>3, <2>1, CommitRotationTables
  <2>4. QED
    BY <2>1, <2>2, <2>3, AuthAssumption DEF Issued, InPlace
<1>8. ASSUME NEW r \in Request, NEW x \in Pair, CommitRotation(r, x),
             NEW e, e = <<req[r].pair, x>>
      PROVE  /\ e \in Pair \X Pair /\ Issued(e[1])' /\ ~InPlace(e[1])'
             /\ \A f \in exchanged : f[1] # e[1]
  <2>1. PICK p \in Pair, s \in Session :
          /\ p = req[r].pair /\ s = req[r].session /\ minted[p] = s
          /\ Issued(p) /\ InPlace(p) /\ p # x
    BY <1>2, <1>3, <1>8
  <2>2. sessions'[s].refresh = x /\ minted'[p] = s
    BY <1>0, <1>8, <2>1, CommitRotationTables DEF Grows
  <2>3. QED
    BY <1>8, <2>1, <2>2, AuthAssumption DEF Issued, InPlace, RotationInv
<1>9. exchanged' \subseteq Pair \X Pair /\ \A e \in exchanged' : Issued(e[1])' /\ ~InPlace(e[1])'
  BY <1>6, <1>7, <1>8
<1>10. OneUse'
  BY <1>6, <1>8 DEF RotationInv, OneUse
<1>11. QED
  BY <1>4, <1>5, <1>9, <1>10 DEF RotationInv

\* One-time rotation: a refresh token buys one new pair, however many calls present
\* it at once or again (rotateRefreshSession, its row lock).
THEOREM OneUseHolds == Spec => []OneUse
<1>1. RotationInv => OneUse
  BY DEF RotationInv
<1>2. QED
  BY <1>1, TablesInit, TablesNext, RotationInit, RotationNext, PTL DEF Spec

--------------------------------------------------------------------------------
(* Sockets *)

LEMMA SocketInit == Init => SocketInv
BY HandlerShapes DEF Init, SocketInv

\* Marks and refusals are never taken back, and a socket is opened by a handshake.
LEMMA SocketSteps ==
  ASSUME Tables, [Next]_vars
  PROVE  /\ outlived \subseteq outlived'
         /\ unlisted \subseteq unlisted'
         /\ blacklist' = blacklist \/ \E r \in Request : Blacklist(r)
         /\ \A p \in sockets' : p \in sockets \/ \E r \in Request : Connect(r) /\ p = req[r].pair
<1> DEFINE Kept ==
      /\ outlived \subseteq outlived'
      /\ unlisted \subseteq unlisted'
      /\ blacklist' = blacklist \/ \E r \in Request : Blacklist(r)
      /\ \A p \in sockets' : p \in sockets \/ \E r \in Request : Connect(r) /\ p = req[r].pair
<1>1. CASE Environment \/ UNCHANGED vars
  BY <1>1 DEF Environment, AccessLapses, Disconnect, SessionExpires, CodeExpires, vars, tokens,
     logouts
<1>2. ASSUME NEW r \in Request, Begin(r) PROVE Kept
  <2>1. CASE \E p \in Pair : RefuseRotation(r, p)
    BY <2>1 DEF RefuseRotation, Revoke, Outlive, logouts
  <2>2. CASE ~\E p \in Pair : RefuseRotation(r, p)
    BY <1>2, <2>2 DEF Begin, Signup, Login, Forgot, Suspend, Reinstate, Guess, Exhausted,
       StartRotation, Handshake, Logout, tokens, logouts
  <2>3. QED
    BY <2>1, <2>2
<1>3. ASSUME NEW r \in Request, Continue(r) PROVE Kept
  <2>1. CASE RevokeById(r) \/ WriteRevoked(r) \/ FinishEviction(r)
    BY <2>1 DEF RevokeById, WriteRevoked, FinishEviction, Revoke, Outlive, logouts
  <2>2. CASE Blacklist(r)
    BY <2>2 DEF Blacklist, Outlive
  <2>3. CASE Connect(r)
    BY <2>3 DEF Connect, tokens, logouts
  <2>4. CASE ~(RevokeById(r) \/ WriteRevoked(r) \/ FinishEviction(r) \/ Blacklist(r) \/ Connect(r))
    BY <1>3, <2>4 DEF Continue, CreateUser, OpenSession, CommitRotation, NothingToRevoke,
       ReadToRevoke, SignedOut, IssueCode, Charge, Burn, UseCode, SavePassword, StartEviction,
       Abort, tokens, logouts
  <2>5. QED
    BY <2>1, <2>2, <2>3, <2>4
<1>4. QED
  BY <1>1, <1>2, <1>3 DEF Next

\* The step that makes a token bad marks it, where it is in use.
LEMMA GoodLost ==
  ASSUME Tables, [Next]_vars, NEW p \in Pair, Issued(p), Good(p),
         p \in sockets \/ Handshaking(p)
  PROVE  Good(p)' \/ p \in outlived'
<1>1. PICK s \in Session : s = minted[p] /\ Row(s) /\ ~Revoked(s) /\ p \notin blacklist
  BY TableFacts DEF Good
<1>2. minted'[p] = s
  BY <1>1, SessionFacts DEF Grows
<1>3. p \notin blacklist' \/ p \in outlived'
  <2>1. ASSUME NEW r \in Request, Blacklist(r), p \in blacklist' PROVE p \in outlived'
    BY <1>1, <2>1 DEF Blacklist, Outlive
  <2>2. QED
    BY <1>1, <2>1, SocketSteps
<1>4. ~Revoked(s)' \/ p \in outlived'
  <2>1. CASE UNCHANGED <<sessions, minted>>
    BY <1>1, <2>1 DEF Revoked, Row
  <2>2. ASSUME NEW S, NEW reason, Revokes(S, reason) PROVE ~Revoked(s)' \/ p \in outlived'
    <3>1. CASE s \in S
      BY <1>1, <2>2, <3>1 DEF Revokes, Revoke, Outlive, PairsOf
    <3>2. CASE s \notin S
      BY <1>1, <2>2, <3>2, RevokesTables DEF Revoked, Row
    <3>3. QED
      BY <3>1, <3>2
  <2>3. ASSUME NEW r \in Request, NEW t \in Session, NEW x \in Pair, OpenSession(r, t, x)
        PROVE  ~Revoked(s)'
    <3>1. s # t
      BY <1>1, <2>3 DEF OpenSession
    <3>2. QED
      BY <1>1, <2>3, <3>1, OpenSessionTables DEF Revoked, Row
  <2>4. ASSUME NEW r \in Request, NEW x \in Pair, CommitRotation(r, x) PROVE ~Revoked(s)'
    BY <1>1, <2>4, CommitRotationTables
  <2>5. ASSUME NEW t \in Session, SessionExpires(t) PROVE ~Revoked(s)'
    BY <1>1, <2>5, SessionExpiresTables
  <2>6. ASSUME NEW r \in Request,
               \/ RevokeById(r) \/ WriteRevoked(r) \/ FinishEviction(r)
               \/ \E x \in Pair : RefuseRotation(r, x)
        PROVE  \E S, reason : Revokes(S, reason)
    BY <2>6, RefuseRevokes, RevokeByIdRevokes, WriteRevokedRevokes, FinishEvictionRevokes
  <2>7. QED
    BY <2>1, <2>2, <2>3, <2>4, <2>5, <2>6, SessionSteps
<1>5. QED
  BY <1>2, <1>3, <1>4 DEF Good

LEMMA SocketNext == Tables /\ SocketInv /\ [Next]_vars => SocketInv'
<1> SUFFICES ASSUME Tables, SocketInv, [Next]_vars PROVE SocketInv'
  OBVIOUS
<1>1. ASSUME NEW p \in Pair, Issued(p), Good(p) \/ p \in outlived, p \in sockets \/ Handshaking(p)
      PROVE  Issued(p)' /\ (Good(p)' \/ p \in outlived')
  BY <1>1, GoodLost, SessionFacts, SocketSteps DEF Grows, Issued
<1>2. ASSUME NEW r \in Request, req[r].pc = "handshake"
      PROVE  /\ req[r].pair \in Pair /\ Issued(req[r].pair) /\ Handshaking(req[r].pair)
             /\ Good(req[r].pair) \/ req[r].pair \in outlived
  BY <1>2, HandlerFields DEF Tables, TypeOK, HandlersOK, HandlerOK, Handshaking, SocketInv
<1>3. ASSUME NEW p \in sockets' PROVE Issued(p)' /\ (Good(p)' \/ p \in outlived')
  <2>1. CASE p \in sockets
    BY <1>1, <2>1 DEF SocketInv, Tables, TypeOK
  <2>2. ASSUME NEW r \in Request, Connect(r), p = req[r].pair
        PROVE  Issued(p)' /\ (Good(p)' \/ p \in outlived')
    BY <1>1, <1>2, <2>2 DEF Connect
  <2>3. QED
    BY <2>1, <2>2, SocketSteps
<1>4. ASSUME NEW r \in Request, req'[r].pc = "handshake"
      PROVE  (Good(req[r].pair) \/ req[r].pair \in outlived)'
  <2>1. CASE req'[r] = req[r]
    <3>1. PICK p \in Pair : p = req[r].pair /\ (Good(p)' \/ p \in outlived')
      BY <1>1, <1>2, <1>4, <2>1
    <3>2. QED
      BY <2>1, <3>1 DEF Good
  <2>2. ASSUME NEW p \in Pair, Handshake(r, p), req'[r].pair = p
        PROVE  (Good(req[r].pair) \/ req[r].pair \in outlived)'
    <3>1. Good(p) /\ sessions' = sessions /\ minted' = minted /\ blacklist' = blacklist
      BY <2>2 DEF Handshake, Admitted, Active, Good, tokens
    <3>2. QED
      BY <2>2, <3>1 DEF Good, Revoked, Row
  <2>3. QED
    BY <1>4, <2>1, <2>2, Moves
<1>5. QED
  BY <1>3, <1>4 DEF SocketInv

\* A socket whose token or session was revoked was open by then, or shaking hands
\* (SocketManager.authenticate): nothing opens one afterwards.
THEOREM SocketsAdmittedHolds == Spec => []SocketsAdmitted
<1>1. SocketInv => SocketsAdmitted
  BY DEF SocketInv, SocketsAdmitted, Good
<1>2. QED
  BY <1>1, TablesInit, TablesNext, SocketInit, SocketNext, PTL DEF Spec

--------------------------------------------------------------------------------
(* AuthSession implements Credentials *)

\* The session of a rotation in flight is not revoked: who would revoke it waits.
HeldLive == \A r \in Request : req[r].pc = "rotating" => ~Revoked(req[r].session)

\* Every step that revokes passes over the sessions that a rotation holds.
LEMMA RevokersWait ==
  ASSUME Tables, NEW r \in Request,
         \/ RevokeById(r) \/ WriteRevoked(r) \/ FinishEviction(r)
         \/ \E p \in Pair : RefuseRotation(r, p)
  PROVE  \E S, reason : Revokes(S, reason) /\ \A s \in S : ~Locked(s)
<1>1. CASE RevokeById(r)
  BY <1>1, RevokeByIdRevokes DEF RevokeById
<1>2. CASE WriteRevoked(r)
  BY <1>2, WriteRevokedRevokes DEF WriteRevoked
<1>3. CASE FinishEviction(r)
  BY <1>3, FinishEvictionRevokes DEF FinishEviction
<1>4. ASSUME NEW p \in Pair, RefuseRotation(r, p)
      PROVE  \E S, reason : Revokes(S, reason) /\ \A s \in S : ~Locked(s)
  BY <1>4, RefuseRevokes DEF RefuseRotation
<1>5. QED
  BY <1>1, <1>2, <1>3, <1>4

LEMMA HeldLiveNext == Tables /\ HeldLive /\ [Next]_vars => HeldLive'
<1> SUFFICES ASSUME Tables, HeldLive, [Next]_vars, NEW r \in Request, req'[r].pc = "rotating"
             PROVE  ~Revoked(req[r].session)'
  BY DEF HeldLive
<1>1. ASSUME NEW p \in Pair, StartRotation(r, p), req'[r].session = minted[p]
      PROVE  ~Revoked(req[r].session)'
  BY <1>1 DEF StartRotation, Active, Revoked, Row, tokens
<1>2. CASE req'[r] = req[r]
  <2>1. PICK s \in Session : s = req[r].session /\ Row(s) /\ ~Revoked(s) /\ Locked(s)
    <3>1. req[r].session \in Session /\ Row(req[r].session)
      BY <1>2, HandlerFields DEF Tables, TypeOK, HandlersOK, HandlerOK
    <3>2. ~Revoked(req[r].session) /\ Locked(req[r].session)
      BY <1>2 DEF HeldLive, Locked
    <3>3. QED
      BY <3>1, <3>2
  <2>2. ASSUME UNCHANGED <<sessions, minted>> PROVE ~Revoked(s)'
    BY <2>1, <2>2 DEF Revoked, Row
  <2>3. ASSUME NEW S, NEW reason, Revokes(S, reason), \A t \in S : ~Locked(t)
        PROVE  ~Revoked(s)'
    BY <2>1, <2>3, RevokesTables DEF Revoked, Row
  <2>4. ASSUME NEW q \in Request, NEW t \in Session, NEW x \in Pair, OpenSession(q, t, x)
        PROVE  ~Revoked(s)'
    <3>1. s # t
      BY <2>1, <2>4 DEF OpenSession
    <3>2. QED
      BY <2>1, <2>4, <3>1, OpenSessionTables DEF Revoked, Row
  <2>5. ASSUME NEW q \in Request, NEW x \in Pair, CommitRotation(q, x) PROVE ~Revoked(s)'
    BY <2>1, <2>5, CommitRotationTables
  <2>6. ASSUME NEW t \in Session, SessionExpires(t) PROVE ~Revoked(s)'
    BY <2>1, <2>6, SessionExpiresTables
  <2>7. ASSUME NEW q \in Request,
               \/ RevokeById(q) \/ WriteRevoked(q) \/ FinishEviction(q)
               \/ \E p \in Pair : RefuseRotation(q, p)
        PROVE  ~Revoked(s)'
    <3>1. PICK S, reason : Revokes(S, reason) /\ \A t \in S : ~Locked(t)
      BY <2>7, RevokersWait
    <3>2. QED
      BY <2>3, <3>1
  <2>8. ~Revoked(s)'
    BY <2>2, <2>4, <2>5, <2>6, <2>7, SessionSteps
  <2>9. QED
    BY <1>2, <2>1, <2>8 DEF Revoked, Row
<1>3. QED
  BY <1>1, <1>2, Moves

LEMMA PresentedIff ==
  ASSUME NEW p
  PROVE  p \in presented <=> \E r \in Request : req[r].pc = "rotating" /\ req[r].pair = p
BY DEF presented

LEMMA PresentedIffNext ==
  ASSUME NEW p
  PROVE  p \in presented' <=> \E r \in Request : req'[r].pc = "rotating" /\ req'[r].pair = p
BY DEF presented

\* Only a handshake knocks, until it ends, and only a rotation in flight presents.
LEMMA Doors ==
  ASSUME Tables, [Next]_vars
  PROVE  \/ UNCHANGED <<knocking, presented>>
         \/ \E r \in Request, p \in Pair :
              Handshake(r, p) \/ StartRotation(r, p) \/ CommitRotation(r, p)
         \/ \E r \in Request : Connect(r)
         \/ \E r \in Request : Abort(r) /\ req[r].pc \in {"handshake", "rotating"}
<1> SUFFICES ASSUME ~ \E r \in Request, p \in Pair :
                        Handshake(r, p) \/ StartRotation(r, p) \/ CommitRotation(r, p),
                    ~ \E r \in Request : Connect(r),
                    ~ \E r \in Request : Abort(r) /\ req[r].pc \in {"handshake", "rotating"}
             PROVE  UNCHANGED <<knocking, presented>>
  OBVIOUS
<1>1. ASSUME NEW q \in Request, req'[q].pc \in {"handshake", "rotating"} PROVE req'[q] = req[q]
  BY <1>1, Moves
<1>2. ASSUME NEW q \in Request, req[q].pc \in {"handshake", "rotating"} PROVE req'[q] = req[q]
  <2>1. ~Begin(q)
    BY <1>2, HandlerShapes DEF Begin, Signup, Login, Forgot, Suspend, Reinstate, Guess,
       Exhausted, StartRotation, RefuseRotation, Handshake, Logout, Call
  <2>2. ~Continue(q)
    BY <1>2 DEF Continue, CreateUser, OpenSession, CommitRotation, Blacklist, RevokeById,
       NothingToRevoke, ReadToRevoke, WriteRevoked, IssueCode, Charge, Burn, UseCode,
       SavePassword, StartEviction, FinishEviction
  <2>3. ASSUME NEW r \in Request, r # q, Begin(r) \/ Continue(r) PROVE req'[q] = req[q]
    BY <1>2, <2>3, OthersStay
  <2>4. CASE Environment \/ UNCHANGED vars
    BY <2>4 DEF Environment, AccessLapses, Disconnect, SessionExpires, CodeExpires, vars
  <2>5. QED
    BY <2>1, <2>2, <2>3, <2>4 DEF Next
<1>3. \A p \in Pair : Handshaking(p)' <=> Handshaking(p)
  BY <1>1, <1>2 DEF Handshaking
<1>4. \A p : p \in presented' <=> p \in presented
  BY <1>1, <1>2, PresentedIff, PresentedIffNext
<1>5. QED
  BY <1>3, <1>4 DEF knocking

\* A handler that neither begins nor ends a handshake, or a rotation.
LEMMA KnockingKept ==
  ASSUME Tables, NEW r \in Request, NEW h, Goto(r, h),
         req[r].pc # "handshake", h.pc # "handshake"
  PROVE  knocking' = knocking
<1>1. \A q \in Request : req'[q] = IF q = r THEN h ELSE req[q]
  BY DEF Goto, Tables, TypeOK
<1>2. \A p \in Pair : Handshaking(p)' <=> Handshaking(p)
  BY <1>1 DEF Handshaking
<1>3. QED
  BY <1>2 DEF knocking

LEMMA PresentedKept ==
  ASSUME Tables, NEW r \in Request, NEW h, Goto(r, h),
         req[r].pc # "rotating", h.pc # "rotating"
  PROVE  presented' = presented
<1>1. \A q \in Request : req'[q] = IF q = r THEN h ELSE req[q]
  BY DEF Goto, Tables, TypeOK
<1>2. \A p : p \in presented' <=> p \in presented
  BY <1>1, PresentedIff, PresentedIffNext
<1>3. QED
  BY <1>2

\* Nobody else presents the pair of a rotation, for it has locked the session.
LEMMA PresentedEnds ==
  ASSUME Tables, RotationInv, NEW r \in Request, req[r].pc = "rotating", Goto(r, Idle)
  PROVE  /\ req[r].pair \in presented
         /\ presented' = presented \ {req[r].pair}
         /\ knocking' = knocking
<1>1. \A q \in Request : req'[q] = IF q = r THEN Idle ELSE req[q]
  BY DEF Goto, Tables, TypeOK
<1>2. PICK p : p = req[r].pair
  OBVIOUS
<1>3. ASSUME NEW q \in Request, req[q].pc = "rotating", req[q].pair = p PROVE q = r
  <2>1. req[q].session \in Session /\ req[q].session = minted[p] /\ req[r].session = minted[p]
    BY <1>2, <1>3, HandlerFields DEF Tables, TypeOK, HandlersOK, HandlerOK
  <2>2. QED
    BY <1>3, <2>1 DEF RotationInv, Rotating
<1>4. \A x : x \in presented' <=> x \in presented /\ x # p
  BY <1>1, <1>2, <1>3, PresentedIff, PresentedIffNext, HandlerShapes
<1>5. p \in presented
  BY <1>2, PresentedIff
<1>6. knocking' = knocking
  BY KnockingKept, HandlerShapes
<1>7. QED
  BY <1>2, <1>4, <1>5, <1>6

\* The steps that reach the tokens and the sockets.
LEMMA TokenSteps ==
  ASSUME Tables, [Next]_vars
  PROVE  \/ UNCHANGED <<sessions, minted, lapsed, blacklist, sockets>>
         \/ \E S, reason : Revokes(S, reason) /\ \A s \in S : ~Locked(s)
         \/ \E r \in Request, s \in Session, p \in Pair : OpenSession(r, s, p)
         \/ \E r \in Request, q \in Pair : CommitRotation(r, q)
         \/ \E s \in Session : SessionExpires(s)
         \/ \E p \in Pair : AccessLapses(p) \/ Disconnect(p)
         \/ \E r \in Request : Blacklist(r) \/ Connect(r)
<1>1. CASE Environment
  BY <1>1 DEF Environment, CodeExpires, tokens
<1>2. ASSUME NEW r \in Request, Begin(r), ~ \E p \in Pair : RefuseRotation(r, p)
      PROVE  UNCHANGED <<sessions, minted, lapsed, blacklist, sockets>>
  BY <1>2 DEF Begin, Signup, Login, Forgot, Suspend, Reinstate, Guess, Exhausted,
     StartRotation, Handshake, Logout, tokens
<1>3. ASSUME NEW r \in Request, Continue(r), ~Blacklist(r), ~Connect(r),
             ~(RevokeById(r) \/ WriteRevoked(r) \/ FinishEviction(r)),
             ~ \E s \in Session, p \in Pair : OpenSession(r, s, p),
             ~ \E q \in Pair : CommitRotation(r, q)
      PROVE  UNCHANGED <<sessions, minted, lapsed, blacklist, sockets>>
  BY <1>3 DEF Continue, CreateUser, NothingToRevoke, ReadToRevoke, IssueCode,
     Charge, Burn, UseCode, SavePassword, StartEviction, Abort, tokens
<1>4. CASE UNCHANGED vars
  BY <1>4 DEF vars, tokens
<1>5. QED
  BY <1>1, <1>2, <1>3, <1>4, RevokersWait DEF Next

LEMMA AwaitedIff ==
  ASSUME NEW p \in Pair
  PROVE  p \in awaited <=> Issued(p) /\ ~Revoked(minted[p]) /\ InPlace(p)
BY DEF awaited, InPlace

LEMMA AwaitedIffNext ==
  ASSUME NEW p \in Pair, NEW s, minted'[p] = s
  PROVE  p \in awaited' <=> s # None /\ ~Revoked(s)' /\ sessions'[s].refresh = p
BY DEF awaited, Issued, Revoked, Row

\* A session goes on, in the sense of Credentials, until it is revoked.
LEMMA GoesOn ==
  ASSUME Tables, NEW s \in Session, Row(s), ~Revoked(s)
  PROVE  CredentialView!Goes(s)
<1>1. PICK p \in Pair : p = sessions[s].refresh /\ minted[p] = s /\ Issued(p)
  BY TableFacts
<1>2. p \in awaited
  BY <1>1, AwaitedIff DEF InPlace
<1>3. QED
  BY <1>1, <1>2 DEF CredentialView!Goes

LEMMA AwaitedKept ==
  ASSUME Tables, minted' = minted,
         \A s \in Session : Row(s) =>
           (Revoked(s)' <=> Revoked(s)) /\ sessions'[s].refresh = sessions[s].refresh
  PROVE  awaited' = awaited
<1>1. ASSUME NEW p \in Pair PROVE p \in awaited' <=> p \in awaited
  <2>1. CASE ~Issued(p)
    BY <2>1, AwaitedIff, AwaitedIffNext DEF Issued
  <2>2. CASE Issued(p)
    <3>1. PICK s \in Session : s = minted[p] /\ Row(s) /\ s # None
      BY <2>2, TableFacts DEF Issued
    <3>2. QED
      BY <2>2, <3>1, AwaitedIff, AwaitedIffNext DEF InPlace
  <2>3. QED
    BY <2>1, <2>2
<1>2. QED
  BY <1>1 DEF awaited

\* What revokes ends those sessions.
LEMMA RevokesEnds ==
  ASSUME Tables, NEW S, NEW reason, Revokes(S, reason), \A s \in S : ~Locked(s),
         UNCHANGED <<knocking, presented>>
  PROVE  S \in SUBSET Session /\ CredentialView!End(S)
<1>1. /\ S \in SUBSET Session /\ \A s \in S : Row(s) /\ Revoked(s)'
      /\ \A s \in Session \ S : sessions'[s] = sessions[s]
      /\ \A s \in S : sessions'[s].refresh = sessions[s].refresh
      /\ UNCHANGED <<minted, lapsed, blacklist, sockets>>
  BY RevokesTables DEF Revokes
<1>2. ASSUME NEW p \in Pair PROVE p \in awaited' <=> p \in awaited /\ minted[p] \notin S
  <2>1. CASE ~Issued(p)
    BY <1>1, <2>1, AwaitedIff, AwaitedIffNext DEF Issued
  <2>2. CASE Issued(p)
    <3>1. PICK s \in Session : s = minted[p] /\ Row(s) /\ s # None
      BY <2>2, TableFacts DEF Issued
    <3>2. p \in awaited' <=> ~Revoked(s)' /\ sessions'[s].refresh = p
      BY <1>1, <3>1, AwaitedIffNext
    <3>3. s \notin S => (Revoked(s)' <=> Revoked(s))
      BY <1>1 DEF Revoked, Row
    <3>4. QED
      BY <1>1, <2>2, <3>1, <3>2, <3>3, AwaitedIff DEF InPlace
  <2>3. QED
    BY <2>1, <2>2
<1>3. awaited' = {p \in awaited : minted[p] \notin S}
  BY <1>2 DEF awaited
<1>4. ASSUME NEW p \in presented PROVE minted[p] \notin S
  <2>1. PICK r \in Request : req[r].pc = "rotating" /\ req[r].pair = p
    BY PresentedIff
  <2>2. req[r].session = minted[p]
    BY <2>1 DEF Tables, HandlersOK, HandlerOK
  <2>3. QED
    BY <2>1, <2>2 DEF Locked
<1>5. QED
  BY <1>1, <1>3, <1>4 DEF CredentialView!End, barred

LEMMA OpenSessionStarts ==
  ASSUME Tables, NEW r \in Request, NEW s \in Session, NEW p \in Pair, OpenSession(r, s, p),
         UNCHANGED <<knocking, presented>>
  PROVE  CredentialView!Start(s, p)
<1>1. /\ ~Row(s) /\ ~Issued(p) /\ minted' = [minted EXCEPT ![p] = s]
      /\ UNCHANGED <<lapsed, blacklist, sockets>>
  BY DEF OpenSession
<1>2. /\ sessions'[s].refresh = p /\ ~Revoked(s)' /\ minted'[p] = s
      /\ \A t \in Session \ {s} : sessions'[t] = sessions[t]
      /\ \A q \in Pair \ {p} : minted'[q] = minted[q]
  BY OpenSessionTables
<1>3. \A q \in Pair : minted[q] # s
  BY <1>1, AuthAssumption, TableFacts DEF Issued
<1>4. ASSUME NEW q \in Pair PROVE q \in awaited' <=> q \in awaited \/ q = p
  <2>1. CASE q = p
    BY <1>2, <2>1, AuthAssumption, AwaitedIffNext
  <2>2. CASE q # p /\ ~Issued(q)
    BY <1>2, <2>2, AwaitedIff, AwaitedIffNext DEF Issued
  <2>3. CASE q # p /\ Issued(q)
    <3>1. PICK t \in Session : t = minted[q] /\ Row(t) /\ t # None /\ t # s
      BY <1>3, <2>3, TableFacts DEF Issued
    <3>2. (Revoked(t)' <=> Revoked(t)) /\ sessions'[t].refresh = sessions[t].refresh
      BY <1>2, <3>1 DEF Revoked, Row
    <3>3. QED
      BY <1>2, <2>3, <3>1, <3>2, AwaitedIff, AwaitedIffNext DEF InPlace
  <2>4. QED
    BY <2>1, <2>2, <2>3
<1>5. awaited' = awaited \cup {p}
  BY <1>4 DEF awaited
<1>6. QED
  BY <1>1, <1>3, <1>5 DEF CredentialView!Start, CredentialView!GivenOut, barred, Issued

LEMMA CommitRotationExchanges ==
  ASSUME Tables, RotationInv, HeldLive, NEW r \in Request, NEW q \in Pair, CommitRotation(r, q)
  PROVE  \E p \in Pair : CredentialView!Exchange(p, q)
<1>1. /\ req[r].pc = "rotating" /\ ~Issued(q) /\ Goto(r, Idle)
      /\ UNCHANGED <<lapsed, blacklist, sockets>>
  BY DEF CommitRotation
<1>2. PICK p \in Pair, s \in Session :
        p = req[r].pair /\ s = req[r].session /\ Row(s) /\ minted[p] = s /\ s # None
  BY <1>1, HandlerFields, AuthAssumption DEF Tables, TypeOK, HandlersOK, HandlerOK
<1>3. sessions[s].refresh = p /\ ~Revoked(s)
  BY <1>1, <1>2 DEF RotationInv, InPlace, HeldLive
<1>4. minted' = [minted EXCEPT ![q] = s]
  BY <1>2 DEF CommitRotation
<1>5. /\ sessions'[s].refresh = q /\ minted'[q] = s
      /\ \A t \in Session : t # s => sessions'[t] = sessions[t]
      /\ \A t \in Session : Revoked(t)' <=> Revoked(t)
      /\ \A x \in Pair \ {q} : minted'[x] = minted[x]
  BY <1>2, CommitRotationTables
<1>6. p \in awaited
  BY <1>2, <1>3, AwaitedIff DEF Issued, InPlace
<1>7. ASSUME NEW x \in Pair PROVE x \in awaited' <=> (x \in awaited /\ x # p) \/ x = q
  <2>1. CASE x = q
    BY <1>2, <1>3, <1>5, <2>1, AwaitedIffNext
  <2>2. CASE x # q /\ ~Issued(x)
    BY <1>5, <2>2, AwaitedIff, AwaitedIffNext DEF Issued
  <2>3. CASE x # q /\ Issued(x)
    <3>1. PICK t \in Session : t = minted[x] /\ t # None
      BY <2>3, TableFacts DEF Issued
    <3>2. x \in awaited' <=> ~Revoked(t) /\ sessions'[t].refresh = x
      BY <1>5, <2>3, <3>1, AwaitedIffNext
    <3>3. x \in awaited <=> ~Revoked(t) /\ sessions[t].refresh = x
      BY <2>3, <3>1, AwaitedIff DEF InPlace
    <3>4. CASE t = s
      BY <1>2, <1>3, <1>5, <2>3, <3>2, <3>3, <3>4
    <3>5. CASE t # s
      BY <1>2, <1>5, <2>3, <3>1, <3>2, <3>3, <3>5
    <3>6. QED
      BY <3>4, <3>5
  <2>4. QED
    BY <2>1, <2>2, <2>3
<1>8. awaited' = (awaited \ {p}) \cup {q}
  BY <1>7 DEF awaited
<1>9. p \in presented /\ presented' = presented \ {p} /\ knocking' = knocking
  BY <1>1, <1>2, PresentedEnds
<1>10. QED
  BY <1>1, <1>2, <1>4, <1>6, <1>8, <1>9
     DEF CredentialView!Exchange, CredentialView!GivenOut, barred, Issued

\* A rotation that finds its session unlocked is the only one to present a pair of it.
LEMMA StartRotationPresents ==
  ASSUME Tables, NEW r \in Request, NEW p \in Pair, StartRotation(r, p)
  PROVE  CredentialView!Present(p)
<1>1. PICK s : s = minted[p]
  OBVIOUS
<1>2. /\ req[r] = Idle /\ Issued(p) /\ ~Locked(s) /\ Active(s) /\ sessions[s].refresh = p
      /\ Goto(r, [pc |-> "rotating", session |-> s, pair |-> p])
      /\ UNCHANGED <<sessions, minted, lapsed, blacklist, sockets>>
  BY <1>1 DEF StartRotation, Call, tokens
<1>3. p \in awaited
  BY <1>1, <1>2, AwaitedIff DEF Active, InPlace
<1>4. awaited' = awaited
  BY <1>2, AwaitedKept DEF Revoked, Row
<1>5. ASSUME NEW x \in presented PROVE minted[x] # minted[p]
  <2>1. PICK q \in Request : req[q].pc = "rotating" /\ req[q].pair = x
    BY PresentedIff
  <2>2. req[q].session = minted[x]
    BY <2>1 DEF Tables, HandlersOK, HandlerOK
  <2>3. QED
    BY <1>1, <1>2, <2>1, <2>2 DEF Locked
<1>6. PICK h : h = [pc |-> "rotating", session |-> s, pair |-> p]
  OBVIOUS
<1>7. \A q \in Request : req'[q] = IF q = r THEN h ELSE req[q]
  BY <1>2, <1>6 DEF Goto, Tables, TypeOK
<1>8. h.pc = "rotating" /\ h.pair = p /\ req[r].pc = "idle"
  BY <1>2, <1>6, HandlerShapes
<1>9. \A x : x \in presented' <=> x \in presented \/ x = p
  BY <1>7, <1>8, PresentedIff, PresentedIffNext
<1>10. presented' = presented \cup {p}
  BY <1>9
<1>11. knocking' = knocking
  BY <1>2, <1>6, <1>8, KnockingKept
<1>12. QED
  BY <1>2, <1>3, <1>4, <1>5, <1>10, <1>11 DEF CredentialView!Present, barred

LEMMA HandshakeKnocks ==
  ASSUME Tables, NEW r \in Request, NEW p \in Pair, Handshake(r, p)
  PROVE  CredentialView!Knock(p)
<1>1. /\ Call(r) /\ Goto(r, [pc |-> "handshake", pair |-> p])
      /\ UNCHANGED <<sessions, minted, lapsed, blacklist, sockets>>
      /\ Issued(p) /\ p \notin lapsed \cup blacklist /\ Active(minted[p])
  BY DEF Handshake, Admitted, tokens
<1>2. PICK s \in Session : s = minted[p] /\ Row(s) /\ ~Revoked(s)
  BY <1>1, TableFacts DEF Active
<1>3. CredentialView!Goes(minted[p])
  BY <1>2, GoesOn
<1>4. req[r] = Idle /\ \A q \in Request : req'[q] = IF q = r THEN [pc |-> "handshake", pair |-> p] ELSE req[q]
  BY <1>1 DEF Call, Goto, Tables, TypeOK
<1>5. \A x \in Pair : Handshaking(x)' <=> Handshaking(x) \/ x = p
  BY <1>4, HandlerShapes DEF Handshaking
<1>6. knocking' = knocking \cup {p}
  BY <1>5 DEF knocking
<1>7. awaited' = awaited
  BY <1>1, AwaitedKept DEF Revoked, Row
<1>8. presented' = presented
  BY <1>1, <1>4, HandlerShapes, PresentedKept
<1>9. QED
  BY <1>1, <1>3, <1>6, <1>7, <1>8
     DEF CredentialView!Knock, CredentialView!GivenOut, barred, Issued

\* A handshake that ends, and what of it may still be under way.
LEMMA HandshakeEnds ==
  ASSUME Tables, NEW r \in Request, req[r].pc = "handshake", Goto(r, Idle)
  PROVE  req[r].pair \in Pair /\ CredentialView!Answered(req[r].pair)
<1>1. PICK p \in Pair : p = req[r].pair
  BY HandlerFields DEF Tables, TypeOK
<1>2. \A q \in Request : req'[q] = IF q = r THEN Idle ELSE req[q]
  BY DEF Goto, Tables, TypeOK
<1>3. p \in knocking
  BY <1>1 DEF knocking, Handshaking
<1>4. \A x \in Pair \ {p} : Handshaking(x)' <=> Handshaking(x)
  BY <1>1, <1>2, HandlerShapes DEF Handshaking
<1>5. knocking' \in {knocking, knocking \ {p}}
  BY <1>3, <1>4 DEF knocking
<1>6. QED
  BY <1>1, <1>3, <1>5 DEF CredentialView!Answered

LEMMA HandshakeAnswers ==
  ASSUME Tables, NEW r \in Request,
         Connect(r) \/ (Abort(r) /\ req[r].pc = "handshake")
  PROVE  \E p \in Pair : CredentialView!Enter(p) \/ CredentialView!TurnAway(p)
<1>1. /\ req[r].pc = "handshake" /\ Goto(r, Idle)
      /\ UNCHANGED <<sessions, minted, lapsed, blacklist>>
  BY DEF Connect, Abort, tokens
<1>2. PICK p \in Pair : p = req[r].pair /\ CredentialView!Answered(p)
  BY <1>1, HandshakeEnds
<1>3. sockets' = sockets \/ sockets' = sockets \cup {p}
  BY <1>2 DEF Connect, Abort
<1>4. awaited' = awaited
  BY <1>1, AwaitedKept DEF Revoked, Row
<1>5. presented' = presented
  BY <1>1, HandlerShapes, PresentedKept
<1>6. QED
  BY <1>1, <1>2, <1>3, <1>4, <1>5 DEF CredentialView!Enter, CredentialView!TurnAway, barred

LEMMA AbortTakesBack ==
  ASSUME Tables, RotationInv, NEW r \in Request, Abort(r), req[r].pc = "rotating"
  PROVE  \E p \in Pair : CredentialView!TakeBack(p)
<1>1. Goto(r, Idle) /\ UNCHANGED <<sessions, minted, lapsed, blacklist, sockets>>
  BY DEF Abort, tokens
<1>2. req[r].pair \in Pair
  BY HandlerFields DEF Tables, TypeOK
<1>3. awaited' = awaited
  BY <1>1, AwaitedKept DEF Revoked, Row
<1>4. CredentialView!TakeBack(req[r].pair)
  BY <1>1, <1>3, PresentedEnds DEF CredentialView!TakeBack, barred
<1>5. QED
  BY <1>2, <1>4

\* Every step of AuthSession is a step of Credentials, or none.
LEMMA StepKeepsPromise ==
  Tables /\ RotationInv /\ HeldLive /\ [Next]_vars => [CredentialView!Next]_(CredentialView!vars)
<1> SUFFICES ASSUME Tables, RotationInv, HeldLive, [Next]_vars
             PROVE  CredentialView!Next \/ UNCHANGED CredentialView!vars
  OBVIOUS
<1>1. ASSUME NEW r \in Request, NEW p \in Pair, Handshake(r, p) PROVE CredentialView!Next
  BY <1>1, HandshakeKnocks DEF CredentialView!Next
<1>2. ASSUME NEW r \in Request, Connect(r) \/ (Abort(r) /\ req[r].pc = "handshake")
      PROVE  CredentialView!Next
  BY <1>2, HandshakeAnswers DEF CredentialView!Next
<1>3. ASSUME UNCHANGED <<knocking, presented>>, NEW S, NEW reason, Revokes(S, reason),
             \A s \in S : ~Locked(s)
      PROVE  CredentialView!Next
  BY <1>3, RevokesEnds DEF CredentialView!Next
<1>4. ASSUME UNCHANGED <<knocking, presented>>, NEW r \in Request, NEW s \in Session, NEW p \in Pair,
             OpenSession(r, s, p)
      PROVE  CredentialView!Next
  BY <1>4, OpenSessionStarts DEF CredentialView!Next
<1>5. ASSUME NEW r \in Request, NEW q \in Pair, CommitRotation(r, q)
      PROVE  CredentialView!Next
  BY <1>5, CommitRotationExchanges DEF CredentialView!Next
<1>6. ASSUME UNCHANGED <<knocking, presented>>, NEW s \in Session, SessionExpires(s)
      PROVE  UNCHANGED CredentialView!vars
  <2>1. UNCHANGED <<minted, lapsed, blacklist, sockets>>
    BY <1>6 DEF SessionExpires
  <2>2. awaited' = awaited
    BY <1>6, <2>1, SessionExpiresTables, AwaitedKept
  <2>3. QED
    BY <1>6, <2>1, <2>2 DEF CredentialView!vars, barred
<1>7. ASSUME UNCHANGED <<knocking, presented>>, NEW p \in Pair, AccessLapses(p) \/ Disconnect(p)
      PROVE  CredentialView!Next
  <2>1. UNCHANGED <<sessions, minted, blacklist>>
    BY <1>7 DEF AccessLapses, Disconnect, tokens
  <2>2. awaited' = awaited
    BY <2>1, AwaitedKept DEF Revoked, Row
  <2>3. CASE AccessLapses(p)
    <3>1. Issued(p) /\ barred' = barred \cup {p} /\ sockets' = sockets
      BY <2>1, <2>3 DEF AccessLapses, barred
    <3>2. CredentialView!Bar(p)
      BY <1>7, <2>1, <2>2, <3>1 DEF CredentialView!Bar, CredentialView!GivenOut, Issued
    <3>3. QED
      BY <3>2 DEF CredentialView!Next
  <2>4. CASE Disconnect(p)
    <3>1. barred' = barred /\ sockets' = sockets \ {p}
      BY <2>1, <2>4 DEF Disconnect, barred, tokens
    <3>2. CredentialView!Leave(p)
      BY <1>7, <2>1, <2>2, <3>1 DEF CredentialView!Leave
    <3>3. QED
      BY <3>2 DEF CredentialView!Next
  <2>5. QED
    BY <1>7, <2>3, <2>4
<1>8. ASSUME UNCHANGED <<knocking, presented>>, NEW r \in Request, Blacklist(r)
      PROVE  CredentialView!Next \/ UNCHANGED CredentialView!vars
  <2>1. PICK p \in Pair : p = req[r].pair /\ Issued(p)
    BY <1>8, HandlerFields DEF Blacklist, Tables, TypeOK, HandlersOK, HandlerOK
  <2>2. /\ UNCHANGED <<sessions, minted, lapsed, sockets>>
        /\ blacklist' = blacklist \/ blacklist' = blacklist \cup {p}
    BY <1>8, <2>1 DEF Blacklist
  <2>3. awaited' = awaited
    BY <2>2, AwaitedKept DEF Revoked, Row
  <2>4. barred' = barred \/ barred' = barred \cup {p}
    BY <2>2 DEF barred
  <2>5. CredentialView!Bar(p) \/ UNCHANGED CredentialView!vars
    BY <1>8, <2>1, <2>2, <2>3, <2>4
       DEF CredentialView!Bar, CredentialView!GivenOut, CredentialView!vars, Issued
  <2>6. QED
    BY <2>5 DEF CredentialView!Next
<1>9. ASSUME UNCHANGED <<knocking, presented>>, UNCHANGED <<sessions, minted, lapsed, blacklist, sockets>>
      PROVE  UNCHANGED CredentialView!vars
  <2>1. awaited' = awaited
    BY <1>9, AwaitedKept DEF Revoked, Row
  <2>2. QED
    BY <1>9, <2>1 DEF CredentialView!vars, barred
<1>10. ASSUME NEW r \in Request, NEW p \in Pair, StartRotation(r, p) PROVE CredentialView!Next
  BY <1>10, StartRotationPresents DEF CredentialView!Next
<1>11. ASSUME NEW r \in Request, Abort(r), req[r].pc = "rotating" PROVE CredentialView!Next
  BY <1>11, AbortTakesBack DEF CredentialView!Next
<1>12. CASE UNCHANGED <<knocking, presented>>
  BY <1>3, <1>4, <1>5, <1>6, <1>7, <1>8, <1>9, <1>12, TokenSteps, <1>2
<1>13. QED
  BY <1>1, <1>2, <1>5, <1>10, <1>11, <1>12, Doors

\* AuthSession implements Credentials: a pair of tokens is exchanged once, for the one
\* call that presents it, while its session goes on, no step revives a session that was revoked, and sockets open only
\* for pairs that were good when they shook hands (rotateRefreshSession,
\* revokeRefreshSession, revokeAllUserSessions, SocketManager.authenticate), for any
\* number of sessions, pairs and handlers in flight.
THEOREM ImplementsCredentials == Spec => CredentialPromise
<1>1. Init => HeldLive /\ CredentialView!Init
  BY HandlerShapes DEF Init, HeldLive, CredentialView!Init, awaited, presented, barred,
     knocking, Handshaking, Issued
<1>2. QED
  BY <1>1, TablesInit, TablesNext, RotationInit, RotationNext, HeldLiveNext, StepKeepsPromise,
     PTL DEF Spec, CredentialPromise, CredentialView!Spec

--------------------------------------------------------------------------------
(* Logout *)

LEMMA LogoutInit == Init => LogoutInv
BY HandlerShapes DEF Init, LogoutInv, LogoutSticks

LEMMA RefusedStays ==
  ASSUME Tables, [Next]_vars
  PROVE  blacklist \subseteq blacklist' /\ unlisted \subseteq unlisted'
BY SocketSteps DEF Blacklist

LEMMA EndedSteps ==
  ASSUME Tables, [Next]_vars
  PROVE  \/ ended' = ended
         \/ \E r \in Request : /\ RevokeById(r) \/ NothingToRevoke(r) \/ WriteRevoked(r)
                               /\ ended' = ended \cup {<<req[r].pair, req[r].body>>}
<1>1. CASE Environment \/ UNCHANGED vars
  BY <1>1 DEF Environment, AccessLapses, Disconnect, SessionExpires, CodeExpires, vars, logouts
<1>2. ASSUME NEW r \in Request, Begin(r) PROVE ended' = ended
  BY <1>2 DEF Begin, Signup, Login, Forgot, Suspend, Reinstate, Guess, Exhausted,
     StartRotation, RefuseRotation, Handshake, Logout, logouts
<1>3. ASSUME NEW r \in Request, Continue(r)
      PROVE  \/ ended' = ended
             \/ /\ RevokeById(r) \/ NothingToRevoke(r) \/ WriteRevoked(r)
                /\ ended' = ended \cup {<<req[r].pair, req[r].body>>}
  BY <1>3 DEF Continue, CreateUser, OpenSession, CommitRotation, Blacklist, RevokeById,
     NothingToRevoke, ReadToRevoke, WriteRevoked, SignedOut, IssueCode, Charge, Burn, UseCode,
     SavePassword, StartEviction, FinishEviction, Connect, Abort, logouts
<1>4. QED
  BY <1>1, <1>2, <1>3 DEF Next

LEMMA LogoutNext == Tables /\ LogoutInv /\ [Next]_vars => LogoutInv'
<1> SUFFICES ASSUME Tables, LogoutInv, [Next]_vars PROVE LogoutInv'
  OBVIOUS
<1> DEFINE Ends(e) ==
      IF e[2] = None \/ (e[2] \in Pair /\ minted[e[2]] = minted[e[1]])
      THEN Revoked(minted[e[1]]) ELSE Refused(e[1])
<1> DEFINE Sound(e) == e[1] \in Pair /\ Issued(e[1]) /\ (e[2] \in Pair => Issued(e[2]))
<1>1. \A p : Refused(p) => Refused(p)'
  BY RefusedStays DEF Refused
<1>2. /\ \A p \in Pair : Issued(p) => Issued(p)' /\ minted'[p] = minted[p]
      /\ \A s \in Session : Revoked(s) => Revoked(s)'
  BY SessionFacts DEF Grows, Issued
<1>3. ASSUME NEW r \in Request, req'[r].pc \in {"signing_out", "revoking"}
      PROVE  Refused(req[r].pair)'
  <2>1. CASE req'[r] = req[r]
    BY <1>1, <1>3, <2>1 DEF LogoutInv, Refused
  <2>2. CASE Blacklist(r) /\ req'[r].pair = req[r].pair
    BY <2>2 DEF Blacklist, Refused
  <2>3. CASE ReadToRevoke(r) /\ req'[r].pair = req[r].pair
    BY <1>1, <2>3 DEF ReadToRevoke, LogoutInv, Refused
  <2>4. QED
    BY <1>3, <2>1, <2>2, <2>3, Moves
<1>4. ASSUME NEW e, Sound(e), Ends(e) PROVE Sound(e)' /\ Ends(e)'
  <2>1. PICK p \in Pair, s \in Session : p = e[1] /\ Issued(p) /\ s = minted[p] /\ minted'[p] = s
    BY <1>2, <1>4, TableFacts
  <2>2. Sound(e)'
    BY <1>2, <1>4
  <2>3. (e[2] \in Pair /\ minted'[e[2]] = s) <=> (e[2] \in Pair /\ minted[e[2]] = s)
    BY <1>2, <1>4
  <2>4. Revoked(s) => Revoked(s)'
    BY <1>2
  <2>5. Ends(e)'
    <3>1. CASE e[2] = None \/ (e[2] \in Pair /\ minted[e[2]] = s)
      <4>1. Revoked(s)'
        BY <1>4, <2>1, <2>4, <3>1
      <4>2. QED
        BY <2>1, <2>3, <3>1, <4>1 DEF Revoked, Row
    <3>2. CASE ~(e[2] = None \/ (e[2] \in Pair /\ minted[e[2]] = s))
      BY <1>1, <1>4, <2>1, <2>3, <3>2
    <3>3. QED
      BY <3>1, <3>2
  <2>6. QED
    BY <2>2, <2>5
<1>5. ASSUME NEW r \in Request, RevokeById(r) \/ NothingToRevoke(r) \/ WriteRevoked(r),
             NEW e, e = <<req[r].pair, req[r].body>>
      PROVE  Sound(e)' /\ Ends(e)'
  <2>1. PICK p, b, s :
          /\ p = req[r].pair /\ b = req[r].body /\ s = minted[p] /\ minted'[p] = s
          /\ p \in Pair /\ s \in Session /\ Issued(p) /\ Row(s) /\ Refused(p)' /\ (b \in Pair => Issued(b) /\ minted[b] \in Session)
    <3>1. req[r].pc \in {"signing_out", "revoking"}
      BY <1>5 DEF RevokeById, NothingToRevoke, WriteRevoked
    <3>2. PICK p, b, s : p = req[r].pair /\ b = req[r].body /\ s = minted[p]
      OBVIOUS
    <3>3. /\ p \in Pair /\ Issued(p) /\ s \in Session /\ Row(s)
          /\ b \in Pair => Issued(b) /\ minted[b] \in Session
      BY <3>1, <3>2, RevokerFields
    <3>4. Refused(p)
      BY <3>1, <3>2 DEF LogoutInv
    <3>5. Refused(p)' /\ minted'[p] = s
      BY <1>1, <1>2, <3>2, <3>3, <3>4
    <3>6. QED
      BY <3>2, <3>3, <3>5
  <2>2. e[1] = p /\ e[2] = b
    BY <1>5, <2>1
  <2>3. Sound(e)'
    BY <1>2, <2>1, <2>2
  <2>4. b \in Pair => minted'[b] = minted[b]
    BY <1>2, <2>1
  <2>5. b = None \/ (b \in Pair /\ minted[b] = s) => Revoked(s)'
    <3>1. CASE RevokeById(r)
      <4>1. b = None
        BY <2>1, <3>1 DEF RevokeById
      <4>2. PICK S : S = {s} \ {q \in Session : Revoked(q)} /\ Revokes(S, "logout")
        BY <2>1, <3>1, RevokeByIdRevokes
      <4>3. QED
        BY <1>2, <4>2, RevokesTables
    <3>2. CASE NothingToRevoke(r)
      BY <1>2, <2>1, <3>2 DEF NothingToRevoke
    <3>3. CASE WriteRevoked(r)
      <4>1. PICK S, reason : S = {minted[b]} /\ Revokes(S, reason)
        BY <2>1, <3>3, WriteRevokedRevokes
      <4>2. b \in Pair
        BY <2>1, <3>3, RevokerFields DEF WriteRevoked
      <4>3. QED
        BY <4>1, <4>2, RevokesTables, AuthAssumption
    <3>4. QED
      BY <1>5, <3>1, <3>2, <3>3
  <2>6. Ends(e)'
    <3>1. CASE b = None \/ (b \in Pair /\ minted[b] = s)
      <4>1. Revoked(s)'
        BY <2>5, <3>1
      <4>2. QED
        BY <2>1, <2>2, <2>4, <3>1, <4>1 DEF Revoked, Row
    <3>2. CASE ~(b = None \/ (b \in Pair /\ minted[b] = s))
      BY <2>1, <2>2, <2>4, <3>2
    <3>3. QED
      BY <3>1, <3>2
  <2>7. QED
    BY <2>3, <2>6
<1>6. \A e \in ended : Sound(e) /\ Ends(e)
  BY DEF LogoutInv, LogoutSticks, Refused
<1> HIDE DEF Sound, Ends
<1>7. \A e \in ended' : Sound(e)' /\ Ends(e)'
  BY <1>4, <1>5, <1>6, EndedSteps
<1>8. QED
  BY <1>3, <1>7 DEF LogoutInv, LogoutSticks, Refused, Sound, Ends

\* A logout that answered has ended its session, unless the refresh token that came
\* along was of another one or of none: then the access token alone is refused, if
\* its row could be written (logout, revokeRefreshSession, revokeAccessToken).
THEOREM LogoutSticksHolds == Spec => []LogoutSticks
<1>1. LogoutInv => LogoutSticks
  BY DEF LogoutInv
<1>2. QED
  BY <1>1, TablesInit, TablesNext, LogoutInit, LogoutNext, PTL DEF Spec

--------------------------------------------------------------------------------
(* Password reset: the sessions *)

LEMMA EvictionInit == Init => EvictionInv
BY HandlerShapes DEF Init, EvictionInv, Spared, Stale, Row, EvictedByReset

LEMMA LoginSteps ==
  ASSUME Tables, [Next]_vars
  PROVE  /\ password' = password \/ \E r \in Request : SavePassword(r)
         /\ \/ UNCHANGED <<opened, straddled>>
            \/ \E r \in Request, s \in Session, p \in Pair : OpenSession(r, s, p)
         /\ evicted' = evicted \/ \E r \in Request : FinishEviction(r)
<1>1. CASE Environment \/ UNCHANGED vars
  BY <1>1 DEF Environment, AccessLapses, Disconnect, SessionExpires, CodeExpires, vars, users,
     logins
<1>2. ASSUME NEW r \in Request, Begin(r) PROVE UNCHANGED <<password, opened, straddled, evicted>>
  BY <1>2 DEF Begin, Signup, Login, Forgot, Suspend, Reinstate, Guess, Exhausted,
     StartRotation, RefuseRotation, Handshake, Logout, users, logins
<1>3. ASSUME NEW r \in Request, Continue(r)
      PROVE  /\ password' = password \/ SavePassword(r)
             /\ \/ UNCHANGED <<opened, straddled>>
                \/ \E s \in Session, p \in Pair : OpenSession(r, s, p)
             /\ evicted' = evicted \/ FinishEviction(r)
  BY <1>3 DEF Continue, CreateUser, OpenSession, CommitRotation, Blacklist, RevokeById,
     NothingToRevoke, ReadToRevoke, WriteRevoked, IssueCode, Charge, Burn, UseCode,
     SavePassword, StartEviction, FinishEviction, Connect, Abort, users, logins
<1>4. QED
  BY <1>1, <1>2, <1>3 DEF Next

LEMMA PasswordGrows ==
  ASSUME Tables, [Next]_vars
  PROVE  password \in Nat /\ password' \in Nat /\ password <= password'
BY LoginSteps DEF SavePassword, Tables, TypeOK

\* A login that verified an older password than n is marked, and stays so.
LEMMA SparedStays ==
  ASSUME Tables, [Next]_vars, NEW n \in Nat, n <= password, Spared(n)
  PROVE  Spared(n)'
<1> SUFFICES ASSUME NEW q \in Request, req'[q].pc = "verified", req'[q].password < n
             PROVE  req'[q].straddles
  BY DEF Spared
<1>1. CASE req'[q] = req[q]
  BY <1>1 DEF Spared
<1>2. CASE req'[q].password = password
  BY <1>2 DEF Tables, TypeOK
<1>3. CASE req'[q].straddles
  BY <1>3
<1>4. QED
  BY <1>1, <1>2, <1>3, Moves

\* No step makes a session stale: a login that opens one late is marked.
LEMMA StaleBefore ==
  ASSUME Tables, EvictionInv, [Next]_vars, NEW n \in Nat, Spared(n),
         NEW s \in Session, Stale(s, n)'
  PROVE  Stale(s, n)
<1>1. Row(s)' /\ ~Revoked(s)' /\ opened'[s] < n /\ s \notin straddled'
  BY DEF Stale
<1>2. ~Revoked(s)
  BY <1>1, SessionFacts
<1>3. CASE UNCHANGED <<opened, straddled>> /\ Row(s)
  BY <1>1, <1>2, <1>3 DEF Stale
<1>4. ASSUME NEW r \in Request, NEW t \in Session, NEW p \in Pair, OpenSession(r, t, p)
      PROVE  Stale(s, n)
  <2>1. CASE s = t
    <3>1. opened'[s] = req[r].password /\ req[r].pc = "verified"
      BY <1>4, <2>1 DEF OpenSession, EvictionInv
    <3>2. req[r].straddles
      BY <1>1, <3>1 DEF Spared
    <3>3. s \in straddled'
      BY <1>4, <2>1, <3>2 DEF OpenSession
    <3>4. QED
      BY <1>1, <3>3
  <2>2. CASE s # t
    <3>1. Row(s) /\ opened'[s] = opened[s] /\ straddled \subseteq straddled'
      BY <1>1, <1>4, <2>2, OpenSessionTables DEF OpenSession, Row, EvictionInv
    <3>2. QED
      BY <1>1, <1>2, <3>1 DEF Stale
  <2>3. QED
    BY <2>1, <2>2
<1>5. ASSUME ~Row(s)
      PROVE  \E r \in Request, t \in Session, p \in Pair : OpenSession(r, t, p)
  <2>1. CASE UNCHANGED <<sessions, minted>>
    BY <1>1, <1>5, <2>1 DEF Row
  <2>2. ASSUME NEW S, NEW reason, Revokes(S, reason) PROVE ~Row(s)'
    BY <1>5, <2>2, RevokesTables DEF Revokes, Row
  <2>3. ASSUME NEW r \in Request, NEW x \in Pair, CommitRotation(r, x) PROVE ~Row(s)'
    BY <1>5, <2>3, CommitRotationTables
  <2>4. ASSUME NEW t \in Session, SessionExpires(t) PROVE ~Row(s)'
    BY <1>5, <2>4, SessionExpiresTables
  <2>5. ASSUME NEW r \in Request,
               \/ RevokeById(r) \/ WriteRevoked(r) \/ FinishEviction(r)
               \/ \E x \in Pair : RefuseRotation(r, x)
        PROVE  \E S, reason : Revokes(S, reason)
    BY <2>5, RefuseRevokes, RevokeByIdRevokes, WriteRevokedRevokes, FinishEvictionRevokes
  <2>6. QED
    BY <1>1, <2>1, <2>2, <2>3, <2>4, <2>5, SessionSteps
<1>6. QED
  BY <1>3, <1>4, <1>5, LoginSteps

LEMMA EvictionNext == Tables /\ EvictionInv /\ [Next]_vars => EvictionInv'
<1> SUFFICES ASSUME Tables, EvictionInv, [Next]_vars PROVE EvictionInv'
  OBVIOUS
<1>1. /\ \A r \in Request : req[r].pc \in {"verified", "saved", "evicting"} =>
           req[r].password \in Nat /\ req[r].password <= password
      /\ password \in Nat /\ password' \in Nat /\ password <= password'
      /\ evicted \in Nat /\ evicted <= password
  BY HandlerFields, PasswordGrows DEF Tables, TypeOK, EvictionInv
<1>2. ASSUME NEW r \in Request, FinishEviction(r)
      PROVE  /\ req[r].pc = "evicting" /\ req[r].password \in Nat /\ req[r].password <= password
             /\ \/ evicted' = evicted
                \/ evicted' = req[r].password
  BY <1>1, <1>2 DEF FinishEviction
<1>3. evicted' \in 0 .. password'
  BY <1>1, <1>2, LoginSteps
<1>4. opened' \in [Session -> Nat]
  <2>1. ASSUME NEW r \in Request, NEW s \in Session, NEW p \in Pair, OpenSession(r, s, p)
        PROVE  opened' \in [Session -> Nat]
    <3>1. req[r].password \in Nat /\ opened' = [opened EXCEPT ![s] = req[r].password]
      BY <1>1, <2>1 DEF OpenSession
    <3>2. QED
      BY <3>1 DEF EvictionInv
  <2>2. QED
    BY <2>1, LoginSteps DEF EvictionInv
<1>5. ASSUME NEW r \in Request, req'[r].pc \in {"verified", "saved", "evicting"}
      PROVE  req'[r].password <= password'
  <2>1. CASE req'[r] = req[r]
    BY <1>1, <1>5, <2>1
  <2>2. CASE req'[r].password = password
    BY <1>1, <2>2
  <2>3. CASE req[r].pc \in {"verified", "saved"} /\ req'[r].password = req[r].password
    BY <1>1, <2>3
  <2>4. CASE SavePassword(r) /\ req'[r].password = password + 1
    BY <1>1, <2>4 DEF SavePassword
  <2>5. CASE StartEviction(r) /\ req'[r].password = req[r].password
    BY <2>3, <2>5 DEF StartEviction
  <2>6. QED
    BY <1>5, <2>1, <2>2, <2>3, <2>4, <2>5, Moves
<1>6. ASSUME NEW r \in Request, req'[r].pc = "evicting"
      PROVE  /\ Spared(req[r].password)'
             /\ \A s \in Session : Stale(s, req[r].password)' => s \in req'[r].rows
  <2>1. PICK n : n = req'[r].password
    OBVIOUS
  <2>2. CASE req'[r] = req[r]
    <3>1. n \in Nat /\ n <= password /\ Spared(n) /\ n = req[r].password
      BY <1>1, <1>6, <2>1, <2>2 DEF EvictionInv
    <3>2. Spared(n)'
      BY <3>1, SparedStays
    <3>3. \A s \in Session : Stale(s, n)' => s \in req[r].rows
      BY <1>6, <2>2, <3>1, StaleBefore DEF EvictionInv
    <3>4. QED
      BY <2>1, <2>2, <3>2, <3>3 DEF Spared, Stale
  <2>3. CASE /\ StartEviction(r)
             /\ req'[r].rows = {s \in Session : Row(s) /\ ~Revoked(s)}
    <3>1. Continue(r) /\ sessions' = sessions
      BY <2>3 DEF Continue, StartEviction, tokens
    <3>2. \A s \in Session : Stale(s, n)' => s \in req'[r].rows
      BY <2>3, <3>1 DEF Stale, Row, Revoked
    <3>3. ASSUME NEW q \in Request, req'[q].pc = "verified"
          PROVE  req'[q].straddles
      <4>1. q # r
        BY <1>6, <3>3
      <4>2. \/ req'[q] = req[q]
            \/ req'[q].straddles
        BY <3>1, <4>1, OthersStay, MarkedFields, Zenon
      <4>3. CASE req'[q] = req[q]
        <5>1. req[q].pc = "verified"
          BY <3>3, <4>3
        <5>2. req'[q] = [req[q] EXCEPT !.straddles = TRUE]
          BY <2>3, <4>1, <5>1 DEF StartEviction
        <5>3. req'[q] = [pc |-> "verified", password |-> req[q].password, straddles |-> TRUE]
          BY <5>1, <5>2, HandlerMoves, Zenon DEF Tables, TypeOK
        <5>4. QED
          BY <5>3, MarkedFields, Zenon
      <4>4. QED
        BY <4>2, <4>3
    <3>4. QED
      BY <2>1, <3>2, <3>3 DEF Spared, Stale
  <2>4. QED
    BY <1>6, <2>2, <2>3, Moves
<1>7. ASSUME NEW n \in Nat, n <= password, Spared(n),
             \A s \in Session : Stale(s, n) => Revoked(s)', evicted' = n
      PROVE  Spared(evicted)' /\ EvictedByReset'
  <2>1. Spared(n)'
    BY <1>7, SparedStays
  <2>2. \A s \in Session : ~Stale(s, n)'
    BY <1>7, StaleBefore DEF Stale
  <2>3. QED
    BY <1>7, <2>1, <2>2 DEF Spared, Stale, EvictedByReset
<1>8. Spared(evicted)' /\ EvictedByReset'
  <2>1. CASE evicted' = evicted
    BY <1>1, <1>7, <2>1 DEF EvictionInv, EvictedByReset, Stale
  <2>2. ASSUME NEW r \in Request, FinishEviction(r), evicted' = req[r].password
        PROVE  Spared(evicted)' /\ EvictedByReset'
    <3>1. PICK n, rows : n \in Nat /\ n = req[r].password /\ n <= password /\ rows = req[r].rows
      BY <1>2, <2>2
    <3>2. Spared(n) /\ \A s \in Session : Stale(s, n) => s \in rows
      BY <1>2, <2>2, <3>1 DEF EvictionInv
    <3>3. PICK S : S = {s \in rows : ~Revoked(s)} /\ Revokes(S, "password_change")
      BY <2>2, <3>1, FinishEvictionRevokes
    <3>4. \A s \in Session : Stale(s, n) => Revoked(s)'
      BY <3>2, <3>3, RevokesTables DEF Stale
    <3>5. QED
      BY <1>7, <2>2, <3>1, <3>2, <3>4
  <2>3. QED
    BY <1>2, <2>1, <2>2, LoginSteps
<1>9. QED
  BY <1>3, <1>4, <1>5, <1>6, <1>8 DEF EvictionInv

\* Once a reset has answered, the sessions that are not revoked were opened with its
\* password or a later one, or by a login that had verified the old one and not
\* opened its session yet (resetPassword, revokeAllUserSessions, login).
THEOREM EvictedByResetHolds == Spec => []EvictedByReset
<1>1. EvictionInv => EvictedByReset
  BY DEF EvictionInv
<1>2. QED
  BY <1>1, TablesInit, TablesNext, EvictionInit, EvictionNext, PTL DEF Spec

--------------------------------------------------------------------------------
(* Password reset: the codes *)

LEMMA CountsFinite ==
  /\ Cardinality(Request) \in Nat
  /\ \A S \in SUBSET Request :
       IsFiniteSet(S) /\ Cardinality(S) \in Nat /\ Cardinality(S) <= Cardinality(Request)
BY AuthAssumption, FS_CardinalityType, FS_Subset

\* Who counts among the handlers at a code, as one of them goes to h.
LEMMA Counts ==
  ASSUME Tables, NEW r \in Request, NEW h \in Handler, Goto(r, h), NEW pcs, NEW c
  PROVE  /\ Cardinality(At(pcs, c)) \in Nat
         /\ Cardinality(At(pcs, c))' \in Nat
         /\ Cardinality(At(pcs, c))' <= Cardinality(Request)
         /\ LET before == req[r].pc \in pcs /\ req[r].code = c
                after == h.pc \in pcs /\ h.code = c
            IN  /\ (before <=> after) => Cardinality(At(pcs, c))' = Cardinality(At(pcs, c))
                /\ ~before /\ after => Cardinality(At(pcs, c))' = Cardinality(At(pcs, c)) + 1
                /\ before /\ ~after => Cardinality(At(pcs, c))' = Cardinality(At(pcs, c)) - 1
<1> DEFINE before == req[r].pc \in pcs /\ req[r].code = c
           after == h.pc \in pcs /\ h.code = c
<1>1. PICK A, B : A = At(pcs, c) /\ B = At(pcs, c)'
  OBVIOUS
<1>2. A \in SUBSET Request /\ B \in SUBSET Request
  BY <1>1 DEF At
<1>3. /\ IsFiniteSet(A) /\ Cardinality(A) \in Nat
      /\ Cardinality(B) \in Nat /\ Cardinality(B) <= Cardinality(Request)
  BY <1>2, CountsFinite
<1>4. /\ r \in A <=> before
      /\ r \in B <=> after
      /\ \A q \in Request \ {r} : q \in A <=> q \in B
  <2>1. req'[r] = h /\ \A q \in Request \ {r} : req'[q] = req[q]
    BY GotoReq DEF Tables, TypeOK
  <2>2. QED
    BY <1>1, <2>1 DEF At
<1>5. (before <=> after) => B = A
  BY <1>2, <1>4
<1>6. ~before /\ after => B = A \cup {r} /\ r \notin A
  BY <1>2, <1>4
<1>7. before /\ ~after => B = A \ {r} /\ r \in A
  BY <1>2, <1>4
<1>8. /\ ~before /\ after => Cardinality(B) = Cardinality(A) + 1
      /\ before /\ ~after => Cardinality(B) = Cardinality(A) - 1
  BY <1>3, <1>6, <1>7, FS_AddElement, FS_RemoveElement
<1>9. QED
  BY <1>1, <1>3, <1>5, <1>8

LEMMA CodeRowFields ==
  ASSUME Tables, NEW c \in Code, RowOf(c)
  PROVE  codes[c].attempts \in Nat
BY TableFacts DEF CodeRow

\* One row is written, in one of three ways.
LEMMA CodeRowWritten ==
  ASSUME Tables, NEW c \in Code, RowOf(c)
  PROVE  /\ codes' = [codes EXCEPT ![c].used = TRUE] =>
              /\ \A d \in Code \ {c} : codes'[d] = codes[d]
              /\ RowOf(c)' /\ Spent(c)' /\ codes'[c].attempts = codes[c].attempts
         /\ codes' = [codes EXCEPT ![c].attempts = @ + 1] =>
              /\ \A d \in Code \ {c} : codes'[d] = codes[d]
              /\ RowOf(c)' /\ (Spent(c) => Spent(c)')
              /\ codes'[c].attempts = codes[c].attempts + 1
         /\ codes' = [codes EXCEPT ![c].expired = TRUE] =>
              /\ \A d \in Code \ {c} : codes'[d] = codes[d]
              /\ RowOf(c)' /\ (Spent(c) => Spent(c)')
              /\ codes'[c].attempts = codes[c].attempts
<1>1. codes[c] \in CodeRow /\ codes[c].attempts \in Nat
  BY TableFacts, CodeRowFields
<1>2. NoRow \notin CodeRow
  BY DEF NoRow, CodeRow
<1>3. \A x : codes' = [codes EXCEPT ![c] = x] =>
        codes'[c] = x /\ \A d \in Code \ {c} : codes'[d] = codes[d]
  BY DEF Tables, TypeOK
<1>4. ASSUME codes' = [codes EXCEPT ![c].used = TRUE]
      PROVE  /\ \A d \in Code \ {c} : codes'[d] = codes[d]
             /\ RowOf(c)' /\ Spent(c)' /\ codes'[c].attempts = codes[c].attempts
  <2>1. codes'[c] = [codes[c] EXCEPT !.used = TRUE] /\ \A d \in Code \ {c} : codes'[d] = codes[d]
    BY <1>3, <1>4
  <2>2. codes'[c] \in CodeRow /\ codes'[c].attempts = codes[c].attempts /\ codes'[c].used
    BY <1>1, <2>1 DEF CodeRow
  <2>3. QED
    BY <1>2, <2>1, <2>2 DEF RowOf, Spent
<1>5. ASSUME codes' = [codes EXCEPT ![c].attempts = @ + 1]
      PROVE  /\ \A d \in Code \ {c} : codes'[d] = codes[d]
             /\ RowOf(c)' /\ (Spent(c) => Spent(c)')
             /\ codes'[c].attempts = codes[c].attempts + 1
  <2>1. /\ codes'[c] = [codes[c] EXCEPT !.attempts = codes[c].attempts + 1]
        /\ \A d \in Code \ {c} : codes'[d] = codes[d]
    BY <1>3, <1>5
  <2>2. /\ codes'[c] \in CodeRow /\ codes'[c].attempts = codes[c].attempts + 1
        /\ codes'[c].used = codes[c].used
    BY <1>1, <2>1 DEF CodeRow
  <2>3. QED
    BY <1>2, <2>1, <2>2 DEF RowOf, Spent
<1>6. ASSUME codes' = [codes EXCEPT ![c].expired = TRUE]
      PROVE  /\ \A d \in Code \ {c} : codes'[d] = codes[d]
             /\ RowOf(c)' /\ (Spent(c) => Spent(c)')
             /\ codes'[c].attempts = codes[c].attempts
  <2>1. codes'[c] = [codes[c] EXCEPT !.expired = TRUE] /\ \A d \in Code \ {c} : codes'[d] = codes[d]
    BY <1>3, <1>6
  <2>2. /\ codes'[c] \in CodeRow /\ codes'[c].attempts = codes[c].attempts
        /\ codes'[c].used = codes[c].used
    BY <1>1, <2>1 DEF CodeRow
  <2>3. QED
    BY <1>2, <2>1, <2>2 DEF RowOf, Spent
<1>7. QED
  BY <1>4, <1>5, <1>6

LEMMA CodeInit == Init => CodeInv
<1> SUFFICES ASSUME Init PROVE CodeInv
  OBVIOUS
<1>1. \A r \in Request : req[r].pc = "idle"
  BY HandlerShapes DEF Init
<1>2. guesses \in [Code -> Int] /\ resets \in [Code -> Nat]
  BY DEF Init
<1>3. ASSUME NEW c \in Code PROVE CodeKept(c)
  <2>1. Rights(c) = 0
    <3>1. At({"right", "used"}, c) = {}
      BY <1>1 DEF At
    <3>2. QED
      BY <3>1, FS_EmptySet DEF Rights
  <2>2. guesses[c] = 0 /\ resets[c] = 0 /\ ~RowOf(c)
    BY DEF Init, RowOf
  <2>3. QED
    BY <2>1, <2>2, CountsFinite, AuthAssumption DEF CodeKept
<1>4. \A r \in Request : GuessKept(r)
  BY <1>1 DEF GuessKept
<1>5. QED
  BY <1>2, <1>3, <1>4 DEF CodeInv

CodePc == {"wrong", "charged", "right", "used"}
CodesStill == UNCHANGED <<codes, issued, guesses, resets>>

\* The steps that touch the codes, or a handler at one.
LEMMA CodeSteps ==
  ASSUME Tables, [Next]_vars
  PROVE  \/ /\ CodesStill
            /\ \A q \in Request : req[q].pc \in CodePc \/ req'[q].pc \in CodePc => req'[q] = req[q]
         \/ \E c \in Code : CodeExpires(c)
         \/ \E r \in Request :
              \/ Forgot(r) \/ IssueCode(r) \/ Charge(r) \/ Burn(r) \/ UseCode(r)
              \/ SavePassword(r) \/ Abort(r)
              \/ \E c \in Code : Guess(r, c) \/ Exhausted(r, c)
<1> DEFINE Still == /\ CodesStill
                    /\ \A q \in Request :
                         req[q].pc \in CodePc \/ req'[q].pc \in CodePc => req'[q] = req[q]
<1>1. CASE Environment \/ UNCHANGED vars
  BY <1>1 DEF Environment, AccessLapses, Disconnect, SessionExpires, vars, resetting, CodesStill
<1>2. ASSUME NEW r \in Request, Begin(r) \/ Continue(r), CodesStill,
             req[r].pc \notin CodePc, req'[r].pc \notin CodePc
      PROVE  Still
  <2>1. ASSUME NEW q \in Request, q # r
        PROVE  \/ req'[q] = req[q]
               \/ req[q].pc = "verified" /\ req'[q].pc = "verified"
    BY <1>2, <2>1, OthersStay, MarkedFields, Zenon
  <2>2. QED
    BY <1>2, <2>1 DEF CodePc
<1>3. \A r \in Request : Call(r) => req[r].pc \notin CodePc
  BY HandlerShapes DEF Call, CodePc
<1>4. \A r \in Request : \A h : Goto(r, h) => req'[r] = h
  BY DEF Goto, Tables, TypeOK
<1>5. ASSUME NEW r \in Request, Begin(r)
      PROVE  \/ Still \/ Forgot(r)
             \/ \E c \in Code : Guess(r, c) \/ Exhausted(r, c)
  <2>1. CASE Signup(r) \/ Login(r) \/ Suspend(r) \/ Reinstate(r)
    <3>1. CodesStill /\ req[r].pc \notin CodePc
      BY <1>3, <2>1 DEF Signup, Login, Suspend, Reinstate, resetting, CodesStill
    <3>2. req'[r].pc \notin CodePc
      BY <1>4, <2>1, <3>1 DEF Signup, Login, Suspend, Reinstate, CodePc
    <3>3. QED
      BY <1>2, <1>5, <3>1, <3>2
  <2>2. ASSUME NEW p \in Pair,
               \/ StartRotation(r, p) \/ RefuseRotation(r, p) \/ Handshake(r, p)
               \/ \E body \in Pair \cup {None, Junk} : Logout(r, p, body)
        PROVE  Still
    <3>1. CodesStill /\ req[r].pc \notin CodePc
      BY <1>3, <2>2 DEF StartRotation, RefuseRotation, Handshake, Logout, resetting, CodesStill
    <3>2. req'[r].pc \notin CodePc
      <4>1. CASE StartRotation(r, p) \/ Handshake(r, p)
        BY <1>4, <4>1 DEF StartRotation, Handshake, CodePc
      <4>2. CASE RefuseRotation(r, p)
        BY <3>1, <4>2 DEF RefuseRotation
      <4>3. ASSUME NEW body, Logout(r, p, body) PROVE req'[r].pc \notin CodePc
        BY <1>4, <4>3 DEF Logout, CodePc
      <4>4. QED
        BY <2>2, <4>1, <4>2, <4>3
    <3>3. QED
      BY <1>2, <1>5, <3>1, <3>2
  <2>3. QED
    BY <1>5, <2>1, <2>2 DEF Begin
<1>6. ASSUME NEW r \in Request, Continue(r)
      PROVE  \/ Still \/ IssueCode(r) \/ Charge(r) \/ Burn(r) \/ UseCode(r)
             \/ SavePassword(r) \/ Abort(r)
  <2>1. ASSUME Goto(r, Idle), CodesStill, req[r].pc \notin CodePc PROVE Still
    BY <1>2, <1>4, <1>6, <2>1, HandlerShapes DEF CodePc
  <2>2. CASE \/ \E s \in Session, p \in Pair : OpenSession(r, s, p)
             \/ \E q \in Pair : CommitRotation(r, q)
             \/ RevokeById(r) \/ NothingToRevoke(r) \/ WriteRevoked(r)
             \/ FinishEviction(r) \/ Connect(r)
    BY <2>1, <2>2 DEF OpenSession, CommitRotation, RevokeById, NothingToRevoke, WriteRevoked,
       SignedOut, FinishEviction, Connect, resetting, CodesStill, CodePc
  <2>3. CASE CreateUser(r) \/ Blacklist(r) \/ ReadToRevoke(r) \/ StartEviction(r)
    <3>1. CodesStill /\ req[r].pc \notin CodePc
      BY <2>3 DEF CreateUser, Blacklist, ReadToRevoke, StartEviction, resetting, CodesStill, CodePc
    <3>2. CASE CreateUser(r) \/ ReadToRevoke(r)
      BY <1>2, <1>4, <1>6, <3>1, <3>2 DEF CreateUser, ReadToRevoke, CodePc
    <3>3. CASE Blacklist(r)
      <4>1. req'[r] = [pc |-> "signing_out", pair |-> req[r].pair, body |-> req[r].body]
        BY <1>4, <3>3, HandlerMoves DEF Blacklist, Tables, TypeOK
      <4>2. QED
        BY <1>2, <1>6, <3>1, <4>1 DEF CodePc
    <3>4. CASE StartEviction(r)
      <4>1. req'[r].pc = "evicting"
        BY <3>4 DEF StartEviction
      <4>2. QED
        BY <1>2, <1>6, <3>1, <4>1 DEF CodePc
    <3>5. QED
      BY <2>3, <3>2, <3>3, <3>4
  <2>4. QED
    BY <1>6, <2>2, <2>3 DEF Continue
<1>7. QED
  BY <1>1, <1>5, <1>6 DEF Next, Environment

LEMMA CodeStillStep ==
  ASSUME Tables, CodeInv, CodesStill,
         \A q \in Request : req[q].pc \in CodePc \/ req'[q].pc \in CodePc => req'[q] = req[q]
  PROVE  CodeInv'
<1>1. \A c \in Code : At({"wrong"}, c)' = At({"wrong"}, c)
                      /\ At({"right", "used"}, c)' = At({"right", "used"}, c)
  BY DEF At, CodePc
<1>2. \A c \in Code : CodeKept(c)'
  BY <1>1 DEF CodeInv, CodeKept, CodesStill, RowOf, Spent, Wrongs, Rights
<1>3. \A r \in Request : GuessKept(r)'
  BY DEF CodeInv, GuessKept, CodesStill, CodePc, RowOf, Spent
<1>4. QED
  BY <1>2, <1>3 DEF CodeInv, CodesStill

LEMMA GuessStays ==
  ASSUME Tables, CodeInv, issued' = issued, \A c \in Code : Spent(c) => Spent(c)',
         NEW r \in Request, req'[r] = req[r]
  PROVE  GuessKept(r)'
<1>1. req[r].pc = "used" => req[r].code \in Code
  BY HandlerFields DEF Tables, TypeOK
<1>2. GuessKept(r)
  BY DEF CodeInv
<1>3. QED
  BY <1>1, <1>2 DEF GuessKept, Spent, RowOf

\* No row comes to be, no guess that is not charged for, and no password but by a call
\* that held the code.
Loose(c) ==
  /\ RowOf(c)' => /\ RowOf(c)
                  /\ guesses'[c] + codes[c].attempts + Wrongs(c)
                       <= guesses[c] + codes'[c].attempts + Wrongs(c)'
  /\ guesses'[c] <= guesses[c]
  /\ resets'[c] + Rights(c)' <= resets[c] + Rights(c)
  /\ resets'[c] # 0 => Spent(c)'
  /\ c > issued => guesses'[c] = 0 /\ resets'[c] = 0

LEMMA LooseStep ==
  ASSUME Tables, CodeInv, Tables', issued' = issued,
         guesses' \in [Code -> Int], resets' \in [Code -> Nat],
         \A c \in Code : Loose(c), \A r \in Request : GuessKept(r)'
  PROVE  CodeInv'
<1> SUFFICES ASSUME NEW c \in Code PROVE CodeKept(c)'
  BY DEF CodeInv
<1>1. /\ Wrongs(c) \in Nat /\ Wrongs(c)' \in Nat /\ Rights(c) \in Nat /\ Rights(c)' \in Nat
      /\ Cardinality(Request) \in Nat
  BY CountsFinite DEF Wrongs, Rights, At
<1>2. /\ guesses[c] \in Int /\ guesses'[c] \in Int /\ resets[c] \in Nat /\ resets'[c] \in Nat
      /\ RowOf(c) => codes[c].attempts \in Nat
      /\ CodeKept(c) /\ Loose(c)
  BY CodeRowFields DEF CodeInv
<1>3. RowOf(c)' => codes'[c].attempts \in Nat
  BY DEF Tables, TypeOK, RowOf, CodeRow
<1>4. RowOf(c)' => guesses'[c] <= codes'[c].attempts + Wrongs(c)'
  BY <1>1, <1>2, <1>3 DEF CodeKept, Loose
<1>5. guesses'[c] <= MaxAttempts + Cardinality(Request) - 1
  BY <1>1, <1>2, AuthAssumption DEF CodeKept, Loose
<1>6. resets'[c] + Rights(c)' <= Cardinality(Request)
  BY <1>1, <1>2 DEF CodeKept, Loose
<1>7. QED
  BY <1>2, <1>4, <1>5, <1>6 DEF CodeKept, Loose

\* The rows alone change, and no count of handlers but a charge's.
LEMMA RowsStep ==
  ASSUME Tables, CodeInv, Tables', UNCHANGED <<issued, guesses, resets>>,
         \A c \in Code : Spent(c) => Spent(c)',
         \A c \in Code : Rights(c)' = Rights(c),
         \A c \in Code : RowOf(c)' => /\ RowOf(c)
                                      /\ codes[c].attempts + Wrongs(c) <= codes'[c].attempts + Wrongs(c)',
         \A r \in Request : GuessKept(r)'
  PROVE  CodeInv'
<1> SUFFICES ASSUME NEW c \in Code PROVE Loose(c)
  BY LooseStep DEF CodeInv
<1>1. /\ Wrongs(c) \in Nat /\ Wrongs(c)' \in Nat /\ Rights(c) \in Nat
      /\ guesses[c] \in Int /\ resets[c] \in Nat
      /\ RowOf(c) => codes[c].attempts \in Nat
      /\ RowOf(c)' => codes'[c].attempts \in Nat
      /\ CodeKept(c)
  BY CountsFinite, CodeRowFields DEF Wrongs, Rights, At, CodeInv, Tables, TypeOK, RowOf, CodeRow
<1>2. QED
  BY <1>1 DEF Loose, CodeKept

LEMMA CodeRowsActions ==
  ASSUME Tables, CodeInv, Tables',
         \/ \E c \in Code : CodeExpires(c)
         \/ \E r \in Request : \/ Forgot(r) \/ Charge(r) \/ Burn(r) \/ UseCode(r)
                               \/ \E c \in Code : Exhausted(r, c)
  PROVE  CodeInv'
<1>1. \A c \in Code : RowOf(c) => codes[c].attempts \in Nat
  BY CodeRowFields
<1>2. \A c \in Code : Wrongs(c) \in Nat
  BY CountsFinite DEF Wrongs, At
<1>3. ASSUME NEW c \in Code, RowOf(c), req' = req, UNCHANGED <<issued, guesses, resets>>,
             \/ codes' = [codes EXCEPT ![c].used = TRUE]
             \/ codes' = [codes EXCEPT ![c].expired = TRUE]
      PROVE  CodeInv'
  <2>1. /\ \A d \in Code \ {c} : codes'[d] = codes[d]
        /\ RowOf(c)' /\ (Spent(c) => Spent(c)') /\ codes'[c].attempts = codes[c].attempts
    BY <1>3, CodeRowWritten
  <2>2. \A d \in Code : Spent(d) => Spent(d)'
    BY <2>1 DEF Spent, RowOf
  <2>3. \A d \in Code : Wrongs(d)' = Wrongs(d) /\ Rights(d)' = Rights(d)
    BY <1>3 DEF Wrongs, Rights, At
  <2>4. \A r \in Request : GuessKept(r)'
    BY <1>3, <2>2, GuessStays
  <2>5. \A d \in Code : RowOf(d)' =>
          RowOf(d) /\ codes[d].attempts + Wrongs(d) <= codes'[d].attempts + Wrongs(d)'
    BY <1>1, <1>2, <1>3, <2>1, <2>3 DEF RowOf
  <2>6. QED
    BY <1>3, <2>2, <2>3, <2>4, <2>5, RowsStep
\* A handler at code k goes on to h, which is not at "wrong" any more.
<1>4. ASSUME NEW r \in Request, NEW h \in Handler, Goto(r, h), UNCHANGED <<issued, guesses, resets>>,
             NEW k \in Code, req[r].code = k, req[r].pc \in CodePc,
             h.pc \in {"idle", "charged", "used"}, h.pc \in CodePc => h.code = k,
             h.pc = "used" <=> req[r].pc \in {"right", "used"},
             h.pc = "used" => Spent(k)',
             \/ codes' = codes /\ (req[r].pc = "wrong" => ~RowOf(k))
             \/ RowOf(k) /\ codes' = [codes EXCEPT ![k].used = TRUE] /\ req[r].pc # "wrong"
             \/ RowOf(k) /\ codes' = [codes EXCEPT ![k].attempts = @ + 1]
      PROVE  CodeInv'
  <2>1. \A d \in Code \ {k} : codes'[d] = codes[d]
    BY <1>4, CodeRowWritten
  <2>2. /\ RowOf(k)' <=> RowOf(k)
        /\ Spent(k) => Spent(k)'
        /\ RowOf(k) => \/ codes'[k].attempts = codes[k].attempts /\ req[r].pc # "wrong"
                       \/ codes'[k].attempts = codes[k].attempts + 1
    <3>1. CASE codes' = codes /\ (req[r].pc = "wrong" => ~RowOf(k))
      BY <3>1 DEF RowOf, Spent
    <3>2. CASE RowOf(k) /\ codes' = [codes EXCEPT ![k].used = TRUE] /\ req[r].pc # "wrong"
      BY <3>2, CodeRowWritten
    <3>3. CASE RowOf(k) /\ codes' = [codes EXCEPT ![k].attempts = @ + 1]
      BY <3>3, CodeRowWritten
    <3>4. QED
      BY <1>4, <3>1, <3>2, <3>3
  <2>3. ASSUME NEW d \in Code
        PROVE  /\ Rights(d)' = Rights(d)
               /\ Wrongs(d)' \in Nat
               /\ Wrongs(d)' = Wrongs(d) \/ (d = k /\ req[r].pc = "wrong" /\ Wrongs(d)' = Wrongs(d) - 1)
    BY <1>4, Counts DEF Rights, Wrongs, CodePc
  <2>4. \A d \in Code : RowOf(d)' =>
          RowOf(d) /\ codes[d].attempts + Wrongs(d) <= codes'[d].attempts + Wrongs(d)'
    BY <1>1, <1>2, <2>1, <2>2, <2>3 DEF RowOf
  <2>5. \A d \in Code : Spent(d) => Spent(d)'
    BY <2>1, <2>2 DEF Spent, RowOf
  <2>6. ASSUME NEW q \in Request PROVE GuessKept(q)'
    <3>1. CASE q = r
      <4>1. req'[q] = h
        BY <1>4, <3>1, GotoReq DEF Tables, TypeOK
      <4>2. k <= issued
        BY <1>4 DEF CodeInv, GuessKept, CodePc
      <4>3. QED
        BY <1>4, <4>1, <4>2 DEF GuessKept, CodePc, Spent, RowOf
    <3>2. CASE q # r
      <4>1. req'[q] = req[q]
        BY <1>4, <3>2, GotoReq DEF Tables, TypeOK
      <4>2. QED
        BY <1>4, <2>5, <4>1, GuessStays
    <3>3. QED
      BY <3>1, <3>2
  <2>7. QED
    BY <1>4, <2>3, <2>4, <2>5, <2>6, RowsStep
<1>5. ASSUME NEW c \in Code, CodeExpires(c) PROVE CodeInv'
  BY <1>3, <1>5 DEF CodeExpires
<1>6. ASSUME NEW r \in Request, NEW c \in Code, Exhausted(r, c) PROVE CodeInv'
  BY <1>3, <1>6 DEF Exhausted, Newest, Unused
<1>7. ASSUME NEW r \in Request, req[r].pc \in CodePc
      PROVE  req[r].code \in Code /\ req[r] \in Handler
  BY <1>7, HandlerFields DEF Tables, TypeOK, CodePc
<1>8. ASSUME NEW r \in Request, Charge(r) PROVE CodeInv'
  <2>1. PICK k \in Code : k = req[r].code /\ req[r].pc = "wrong" /\ req[r] \in Handler
    BY <1>7, <1>8 DEF Charge, CodePc
  <2>2. PICK h \in Handler : h = [pc |-> "charged", code |-> k]
    BY HandlerShapes
  <2>3. Goto(r, h) /\ h.pc = "charged" /\ h.code = k
    BY <1>8, <2>1, <2>2, HandlerMoves DEF Charge
  <2>4. \/ codes' = codes /\ ~RowOf(k)
        \/ RowOf(k) /\ codes' = [codes EXCEPT ![k].attempts = @ + 1]
    BY <1>8, <2>1 DEF Charge
  <2>5. QED
    BY <1>4, <1>8, <2>1, <2>3, <2>4 DEF Charge, CodePc
<1>9. ASSUME NEW r \in Request, Burn(r) PROVE CodeInv'
  <2>1. PICK k \in Code : k = req[r].code /\ req[r].pc = "charged"
    BY <1>7, <1>9 DEF Burn, CodePc
  <2>2. \/ codes' = codes
        \/ RowOf(k) /\ codes' = [codes EXCEPT ![k].used = TRUE]
    BY <1>9, <2>1 DEF Burn
  <2>3. QED
    BY <1>4, <1>9, <2>1, <2>2, HandlerShapes DEF Burn, CodePc
<1>10. ASSUME NEW r \in Request, UseCode(r) PROVE CodeInv'
  <2>1. PICK k \in Code : k = req[r].code /\ req[r].pc = "right"
    BY <1>7, <1>10 DEF UseCode, CodePc
  <2>2. PICK h \in Handler : h = [pc |-> "used", code |-> k]
    BY HandlerShapes
  <2>3. Goto(r, h) /\ h.pc = "used" /\ h.code = k
    BY <1>10, <2>1, <2>2 DEF UseCode
  <2>4. \/ codes' = codes /\ ~RowOf(k)
        \/ RowOf(k) /\ codes' = [codes EXCEPT ![k].used = TRUE]
    BY <1>10, <2>1 DEF UseCode
  <2>5. Spent(k)'
    BY <2>4, CodeRowWritten DEF Spent, RowOf
  <2>6. QED
    BY <1>4, <1>10, <2>1, <2>3, <2>4, <2>5 DEF UseCode, CodePc
<1>11. ASSUME NEW r \in Request, Forgot(r) PROVE CodeInv'
  <2>1. PICK h \in Handler : h = [pc |-> "forgot"]
    BY HandlerShapes
  <2>2. Goto(r, h) /\ h.pc = "forgot" /\ req[r].pc = "idle"
    BY <1>11, <2>1, HandlerShapes DEF Forgot, Call
  <2>3. \A c \in Code : ~RowOf(c)' /\ Spent(c)'
    BY <1>11 DEF Forgot, RowOf, Spent
  <2>4. \A c \in Code : Rights(c)' = Rights(c)
    BY <2>2, Counts DEF Rights
  <2>5. ASSUME NEW q \in Request PROVE GuessKept(q)'
    <3>1. CASE q = r
      <4>1. req'[q] = h
        BY <2>2, <3>1, GotoReq DEF Tables, TypeOK
      <4>2. QED
        BY <2>2, <4>1 DEF GuessKept
    <3>2. CASE q # r
      <4>1. req'[q] = req[q]
        BY <2>2, <3>2, GotoReq DEF Tables, TypeOK
      <4>2. QED
        BY <1>11, <2>3, <4>1, GuessStays DEF Forgot
    <3>3. QED
      BY <3>1, <3>2
  <2>6. QED
    BY <1>11, <2>3, <2>4, <2>5, RowsStep DEF Forgot
<1>12. QED
  BY <1>5, <1>6, <1>8, <1>9, <1>10, <1>11

LEMMA SavePasswordCodes ==
  ASSUME Tables, CodeInv, Tables', NEW r \in Request, SavePassword(r)
  PROVE  CodeInv'
<1>1. PICK k \in Code : k = req[r].code /\ req[r].pc = "used" /\ Spent(k) /\ k <= issued
  BY HandlerFields DEF SavePassword, Tables, TypeOK, CodeInv, GuessKept
<1>2. PICK h \in Handler : Goto(r, h) /\ h.pc = "saved"
  <2>1. password + 1 \in Nat
    BY DEF Tables, TypeOK
  <2>2. QED
    BY <2>1, HandlerShapes DEF SavePassword
<1>3. /\ UNCHANGED <<codes, issued, guesses>>
      /\ resets' = [resets EXCEPT ![k] = @ + 1]
  BY <1>1 DEF SavePassword
<1>4. /\ resets' \in [Code -> Nat] /\ resets'[k] = resets[k] + 1
      /\ \A c \in Code \ {k} : resets'[c] = resets[c]
  BY <1>3 DEF CodeInv
<1>5. ASSUME NEW c \in Code
      PROVE  /\ Wrongs(c)' = Wrongs(c) /\ Wrongs(c) \in Nat
             /\ Rights(c) \in Nat /\ Rights(c)' \in Nat
             /\ Rights(c)' = IF c = k THEN Rights(c) - 1 ELSE Rights(c)
  BY <1>1, <1>2, Counts DEF Wrongs, Rights
<1>6. ASSUME NEW c \in Code PROVE Loose(c)
  <2>1. /\ guesses[c] \in Int /\ resets[c] \in Nat /\ CodeKept(c)
        /\ RowOf(c) => codes[c].attempts \in Nat
    BY CodeRowFields DEF CodeInv
  <2>2. (RowOf(c)' <=> RowOf(c)) /\ (Spent(c)' <=> Spent(c))
    BY <1>3 DEF RowOf, Spent
  <2>3. c > issued => c # k
    BY <1>1, AuthAssumption DEF Tables, TypeOK, Code
  <2>4. resets'[c] + Rights(c)' <= resets[c] + Rights(c)
    BY <1>4, <1>5, <2>1
  <2>5. QED
    BY <1>1, <1>3, <1>4, <1>5, <2>1, <2>2, <2>3, <2>4 DEF Loose, CodeKept
<1>7. ASSUME NEW q \in Request PROVE GuessKept(q)'
  <2>1. \A c \in Code : Spent(c) => Spent(c)'
    BY <1>3 DEF Spent, RowOf
  <2>2. CASE q = r
    BY <1>2, <2>2, GotoReq DEF GuessKept, Tables, TypeOK
  <2>3. CASE q # r
    BY <1>2, <1>3, <2>1, <2>3, GotoReq, GuessStays DEF Tables, TypeOK
  <2>4. QED
    BY <2>2, <2>3
<1>8. QED
  BY <1>3, <1>4, <1>6, <1>7, LooseStep DEF CodeInv

LEMMA AbortCodes ==
  ASSUME Tables, CodeInv, Tables', NEW r \in Request, Abort(r)
  PROVE  CodeInv'
<1>1. /\ Goto(r, Idle) /\ UNCHANGED <<codes, issued, resets>>
      /\ guesses' = IF req[r].pc = "wrong" THEN [guesses EXCEPT ![req[r].code] = @ - 1] ELSE guesses
  BY DEF Abort
<1>2. req[r].pc = "wrong" => req[r].code \in Code /\ req[r].code <= issued
  BY HandlerFields DEF Tables, TypeOK, CodeInv, GuessKept
<1>3. ASSUME NEW c \in Code
      PROVE  /\ Wrongs(c) \in Nat /\ Wrongs(c)' \in Nat /\ Rights(c) \in Nat /\ Rights(c)' \in Nat
             /\ Rights(c)' <= Rights(c)
             /\ Wrongs(c)' = IF req[r].pc = "wrong" /\ req[r].code = c
                             THEN Wrongs(c) - 1 ELSE Wrongs(c)
  <2>1. Idle \in Handler /\ Idle.pc = "idle"
    BY HandlerShapes
  <2>2. QED
    BY <1>1, <2>1, Counts DEF Wrongs, Rights
<1>4. /\ guesses' \in [Code -> Int]
      /\ \A c \in Code : guesses'[c] = IF req[r].pc = "wrong" /\ req[r].code = c
                                       THEN guesses[c] - 1 ELSE guesses[c]
  BY <1>1, <1>2 DEF CodeInv
<1>5. ASSUME NEW c \in Code PROVE Loose(c)
  <2>1. /\ guesses[c] \in Int /\ resets[c] \in Nat /\ CodeKept(c)
        /\ RowOf(c) => codes[c].attempts \in Nat
    BY CodeRowFields DEF CodeInv
  <2>2. (RowOf(c)' <=> RowOf(c)) /\ (Spent(c)' <=> Spent(c))
    BY <1>1 DEF RowOf, Spent
  <2>3. c > issued => ~(req[r].pc = "wrong" /\ req[r].code = c)
    BY <1>2, AuthAssumption DEF Tables, TypeOK, Code
  <2>4. QED
    BY <1>1, <1>3, <1>4, <2>1, <2>2, <2>3 DEF Loose, CodeKept
<1>6. ASSUME NEW q \in Request PROVE GuessKept(q)'
  <2>1. \A c \in Code : Spent(c) => Spent(c)'
    BY <1>1 DEF Spent, RowOf
  <2>2. CASE q = r
    BY <1>1, <2>2, HandlerShapes, GotoReq DEF GuessKept, Tables, TypeOK
  <2>3. CASE q # r
    BY <1>1, <2>1, <2>3, HandlerShapes, GotoReq, GuessStays DEF Tables, TypeOK
  <2>4. QED
    BY <2>2, <2>3
<1>7. QED
  BY <1>1, <1>4, <1>5, <1>6, LooseStep DEF CodeInv

\* The new code has no row, no guess and no handler yet.
LEMMA IssueCodes ==
  ASSUME Tables, CodeInv, Tables', NEW r \in Request, IssueCode(r)
  PROVE  CodeInv'
<1>1. PICK n \in Code : n = issued + 1 /\ issued \in Nat
  BY AuthAssumption DEF IssueCode, Tables, TypeOK, Code
<1>2. /\ Goto(r, Idle) /\ issued' = n /\ UNCHANGED <<guesses, resets>> /\ req[r].pc = "forgot"
      /\ codes' = [codes EXCEPT ![n] = [attempts |-> 0, used |-> FALSE, expired |-> FALSE]]
  BY <1>1 DEF IssueCode
<1>3. /\ codes'[n] = [attempts |-> 0, used |-> FALSE, expired |-> FALSE]
      /\ \A c \in Code \ {n} : codes'[c] = codes[c]
  BY <1>2 DEF Tables, TypeOK
<1>4. Idle \in Handler /\ Idle.pc = "idle"
  BY HandlerShapes
<1>5. ASSUME NEW c \in Code
      PROVE  /\ Wrongs(c)' = Wrongs(c) /\ Wrongs(c) \in Nat
             /\ Rights(c)' = Rights(c) /\ Rights(c) \in Nat
  BY <1>2, <1>4, Counts DEF Wrongs, Rights
<1>6. ASSUME NEW c \in Code PROVE CodeKept(c)'
  <2>1. guesses[c] \in Int /\ resets[c] \in Nat /\ CodeKept(c) /\ c \in Int
    BY DEF CodeInv, Code
  <2>2. CASE c = n
    <3>1. guesses[c] = 0 /\ resets[c] = 0
      BY <1>1, <2>1, <2>2 DEF CodeKept
    <3>2. codes'[c].attempts = 0
      BY <1>3, <2>2
    <3>3. QED
      BY <1>2, <1>5, <2>1, <2>2, <3>1, <3>2 DEF CodeKept
  <2>3. CASE c # n
    <3>1. codes'[c] = codes[c]
      BY <1>3, <2>3
    <3>2. (RowOf(c)' <=> RowOf(c)) /\ (Spent(c)' <=> Spent(c))
      BY <3>1 DEF RowOf, Spent
    <3>3. QED
      BY <1>1, <1>2, <1>5, <2>1, <3>1, <3>2 DEF CodeKept
  <2>4. QED
    BY <2>2, <2>3
<1>7. ASSUME NEW q \in Request PROVE GuessKept(q)'
  <2>1. CASE q = r
    BY <1>2, <1>4, <2>1, GotoReq DEF GuessKept, Tables, TypeOK
  <2>2. CASE q # r
    <3>1. req'[q] = req[q]
      BY <1>2, <1>4, <2>2, GotoReq DEF Tables, TypeOK
    <3>2. req[q].pc \in CodePc => req[q].code \in Code /\ req[q].code <= issued
      BY HandlerFields DEF Tables, TypeOK, CodeInv, GuessKept, CodePc
    <3>3. req[q].pc \in CodePc => codes'[req[q].code] = codes[req[q].code]
      BY <1>1, <1>3, <3>2
    <3>4. GuessKept(q)
      BY DEF CodeInv
    <3>5. QED
      BY <1>1, <1>2, <3>1, <3>2, <3>3, <3>4 DEF GuessKept, CodePc, Spent, RowOf, Code
  <2>3. QED
    BY <2>1, <2>2
<1>8. QED
  BY <1>2, <1>6, <1>7 DEF CodeInv

LEMMA GuessCodes ==
  ASSUME Tables, CodeInv, Tables', NEW r \in Request, NEW k \in Code, Guess(r, k)
  PROVE  CodeInv'
<1>1. /\ req[r].pc = "idle" /\ RowOf(k) /\ ~Spent(k) /\ codes[k].attempts < MaxAttempts
      /\ UNCHANGED <<codes, issued, resets>>
  BY HandlerShapes DEF Guess, Call, Newest, Unused, Spent
<1>2. k <= issued /\ resets[k] = 0
  <2>1. CodeKept(k) /\ k \in Int /\ issued \in Int
    BY DEF CodeInv, Code, Tables, TypeOK
  <2>2. QED
    BY <1>1, <2>1 DEF CodeKept
<1>3. PICK h \in Handler :
        /\ Goto(r, h) /\ h.code = k /\ h.pc \in {"wrong", "right"}
        /\ guesses' = IF h.pc = "wrong" THEN [guesses EXCEPT ![k] = @ + 1] ELSE guesses
  <2>1. PICK x \in {"wrong", "right"} :
          /\ Goto(r, [pc |-> x, code |-> k])
          /\ guesses' = IF x = "wrong" THEN [guesses EXCEPT ![k] = @ + 1] ELSE guesses
    BY DEF Guess
  <2>2. PICK h \in Handler : h = [pc |-> x, code |-> k]
    BY HandlerShapes
  <2>3. h.pc = x /\ h.code = k
    BY <2>2
  <2>4. QED
    BY <2>1, <2>2, <2>3
<1>4. /\ guesses' \in [Code -> Int]
      /\ \A c \in Code : guesses'[c] = IF h.pc = "wrong" /\ c = k THEN guesses[c] + 1 ELSE guesses[c]
  BY <1>3 DEF CodeInv
<1>5. ASSUME NEW c \in Code
      PROVE  /\ Wrongs(c) \in Nat /\ Wrongs(c)' \in Nat /\ Wrongs(c)' <= Cardinality(Request)
             /\ Rights(c) \in Nat /\ Rights(c)' \in Nat /\ Rights(c)' <= Cardinality(Request)
             /\ Wrongs(c)' = IF h.pc = "wrong" /\ c = k THEN Wrongs(c) + 1 ELSE Wrongs(c)
             /\ c # k => Rights(c)' = Rights(c)
  BY <1>1, <1>3, Counts DEF Wrongs, Rights
<1>6. ASSUME NEW c \in Code PROVE CodeKept(c)'
  <2>1. /\ guesses[c] \in Int /\ resets[c] \in Nat /\ CodeKept(c)
        /\ RowOf(c) => codes[c].attempts \in Nat
        /\ Cardinality(Request) \in Nat /\ MaxAttempts \in Nat
    BY CodeRowFields, CountsFinite, AuthAssumption DEF CodeInv
  <2>2. (RowOf(c)' <=> RowOf(c)) /\ (Spent(c)' <=> Spent(c))
    BY <1>1 DEF RowOf, Spent
  <2>3. c > issued => c # k
    BY <1>2, AuthAssumption DEF Tables, TypeOK, Code
  <2>4. RowOf(c) => guesses'[c] <= codes[c].attempts + Wrongs(c)'
    BY <1>4, <1>5, <2>1 DEF CodeKept
  <2>5. guesses'[c] <= MaxAttempts + Cardinality(Request) - 1
    <3>1. CASE c = k
      BY <1>1, <1>4, <1>5, <2>1, <2>4, <3>1
    <3>2. CASE c # k
      BY <1>4, <2>1, <3>2 DEF CodeKept
    <3>3. QED
      BY <3>1, <3>2
  <2>6. resets[c] + Rights(c)' <= Cardinality(Request)
    BY <1>2, <1>5, <2>1 DEF CodeKept
  <2>7. QED
    BY <1>1, <1>4, <2>1, <2>2, <2>3, <2>4, <2>5, <2>6 DEF CodeKept
<1>7. ASSUME NEW q \in Request PROVE GuessKept(q)'
  <2>1. \A c \in Code : Spent(c) => Spent(c)'
    BY <1>1 DEF Spent, RowOf
  <2>2. CASE q = r
    <3>1. req'[q] = h
      BY <1>3, <2>2, GotoReq DEF Tables, TypeOK
    <3>2. QED
      BY <1>1, <1>2, <1>3, <3>1 DEF GuessKept
  <2>3. CASE q # r
    BY <1>1, <1>3, <2>1, <2>3, GotoReq, GuessStays DEF Tables, TypeOK
  <2>4. QED
    BY <2>2, <2>3
<1>8. QED
  BY <1>1, <1>4, <1>6, <1>7 DEF CodeInv

LEMMA CodeNext == Tables /\ CodeInv /\ [Next]_vars => CodeInv'
<1> SUFFICES ASSUME Tables, CodeInv, [Next]_vars PROVE CodeInv'
  OBVIOUS
<1>1. Tables'
  BY TablesNext
<1>2. QED
  BY <1>1, CodeSteps, CodeStillStep, CodeRowsActions, SavePasswordCodes, AbortCodes, IssueCodes,
     GuessCodes

\* A code takes no more wrong guesses than its attempts and the calls that read it
\* before the last of them was charged, and sets no more passwords than calls that
\* read it before it was used (resetPassword).
THEOREM TriesBoundedHolds == Spec => []TriesBounded
<1>1. CodeInv => TriesBounded
  <2> SUFFICES ASSUME CodeInv, NEW c \in Code
               PROVE  /\ guesses[c] <= MaxAttempts + Cardinality(Request) - 1
                      /\ resets[c] <= Cardinality(Request)
    BY DEF TriesBounded
  <2>1. Rights(c) \in Nat /\ Cardinality(Request) \in Nat
    BY CountsFinite DEF Rights, At
  <2>2. QED
    BY <2>1 DEF CodeInv, CodeKept
<1>2. QED
  BY <1>1, TablesInit, TablesNext, CodeInit, CodeNext, PTL DEF Spec

================================================================================
