----------------------------- MODULE AuthSession -----------------------------
(***************************************************************************)
(* One account: sign-up and login, refresh sessions that rotate, logout,   *)
(* password reset, and the sockets an access token opens                   *)
(* (authService.ts, authSessionService.ts, middlewares/auth.ts,            *)
(* socketServer.ts).                                                       *)
(*                                                                         *)
(* A login or a rotation mints an access and a refresh token together: a   *)
(* pair. What a client holds, and may send again at any time, is any pair  *)
(* ever minted: a lost answer, a retry and a copied token are all this.    *)
(* Rows of sessions are never deleted: nothing calls                       *)
(* cleanupExpiredOrRevokedSessions.                                        *)
(*                                                                         *)
(* Left out: hashing and signatures, device metadata, the e-mail a code    *)
(* travels by. The variables from `opened` on are history.                 *)
(***************************************************************************)
EXTENDS Integers, FiniteSets

CONSTANTS
  Session,      \* session ids; bounds how many are ever opened
  Pair,         \* token pairs; bounds how many are ever minted
  MaxCodes,     \* bounds the reset codes ever issued
  MaxAttempts,  \* MAX_RESET_ATTEMPTS
  Request,      \* handlers that may be in flight at a time
  MaxCalls      \* bounds the calls ever made

None == "none"
Junk == "junk"
NoRow == [gone |-> TRUE]

ASSUME AuthAssumption ==
  /\ MaxCodes \in Nat
  /\ MaxAttempts \in Nat \ {0}
  /\ MaxCalls \in Nat
  /\ IsFiniteSet(Request)
  /\ None \notin Session /\ {None, Junk} \cap Pair = {}

Code == 1 .. MaxCodes

SessionRow ==
  [refresh : Pair, revoked : {"no", "expired", "refresh_reuse", "logout", "password_change"},
   expired : BOOLEAN]
CodeRow == [attempts : Nat, used : BOOLEAN, expired : BOOLEAN]

Idle == [pc |-> "idle"]
Handler ==
  {Idle}
    \cup [pc : {"signup", "forgot"}]
    \cup [pc : {"verified"}, password : Nat, straddles : BOOLEAN]
    \cup [pc : {"rotating"}, session : Session, pair : Pair]
    \cup [pc : {"logout", "signing_out"}, pair : Pair, body : Pair \cup {None, Junk}]
    \cup [pc : {"revoking"}, pair : Pair, body : Pair, reason : {"logout", "refresh_reuse"}]
    \cup [pc : {"handshake"}, pair : Pair]
    \cup [pc : {"wrong", "charged", "right", "used"}, code : Code]
    \cup [pc : {"saved"}, password : Nat]
    \cup [pc : {"evicting"}, password : Nat, rows : SUBSET Session]

VARIABLES
  account,    \* "none", or the user's row by its is_active
  password,   \* how often the password was set; a login knows one of them
  sessions,   \* the rows of UserSession
  minted,     \* the session each pair was minted for
  lapsed,     \* pairs whose access token is past its exp
  blacklist,  \* pairs whose access token is in RevokedToken
  codes,      \* the rows of PasswordResetCode; codes are numbered as they are issued
  issued,     \* how many codes were issued
  sockets,    \* pairs whose access token opened a socket that is open
  req,        \* the handlers in flight
  calls,      \* how many calls were made
  opened,     \* history: the password each session was opened with
  straddled,  \* history: sessions whose login had verified when a reset revoked the others
  evicted,    \* history: the last password whose reset has revoked the sessions
  exchanged,  \* history: <<pair, pair it was rotated into>>
  ended,      \* history: <<pair, refresh token sent along>> of logouts that answered
  unlisted,   \* history: pairs whose row in the blacklist could not be written
  outlived,   \* history: pairs that had a socket or a handshake when they were revoked
  guesses,    \* history: wrong guesses that were compared with each code
  resets      \* history: passwords set with each code

users == <<account, password>>
tokens == <<sessions, minted, lapsed, blacklist>>
resetting == <<codes, issued, guesses, resets>>
logouts == <<ended, unlisted>>
logins == <<opened, straddled, evicted>>
vars == <<users, tokens, resetting, sockets, req, calls, logins, exchanged, logouts, outlived>>

Goto(r, h) == req' = [req EXCEPT ![r] = h]
Call(r) == req[r] = Idle /\ calls < MaxCalls /\ calls' = calls + 1

Row(s) == sessions[s] # NoRow
Revoked(s) == Row(s) /\ sessions[s].revoked # "no"
Issued(p) == minted[p] # None
RowOf(c) == codes[c] # NoRow

\* assertAccessSessionActive.
Active(s) == Row(s) /\ ~Revoked(s) /\ ~sessions[s].expired

\* authenticate, before it reads the user.
Admitted(p) == Issued(p) /\ p \notin lapsed /\ p \notin blacklist /\ Active(minted[p])

\* A rotation holds its session's row from its read to its commit.
Locked(s) == \E r \in Request : req[r].pc = "rotating" /\ req[r].session = s

Handshaking(p) == \E r \in Request : req[r].pc = "handshake" /\ req[r].pair = p
Outlive(pairs) ==
  outlived' = outlived \cup {p \in pairs : p \in sockets \/ Handshaking(p)}
PairsOf(S) == {p \in Pair : minted[p] \in S}

Revoke(S, reason) ==
  /\ sessions' = [s \in Session |->
       IF s \in S THEN [sessions[s] EXCEPT !.revoked = reason] ELSE sessions[s]]
  /\ Outlive(PairsOf(S))

--------------------------------------------------------------------------------
(* signup, login *)

Signup(r) ==
  /\ Call(r)
  /\ account = "none"
  /\ Goto(r, [pc |-> "signup"])
  /\ UNCHANGED <<users, tokens, resetting, sockets, logins, exchanged, logouts, outlived>>

\* User.create: the unique indexes refuse a second one (Abort).
CreateUser(r) ==
  /\ req[r].pc = "signup"
  /\ account = "none"
  /\ account' = "active"
  /\ Goto(r, [pc |-> "verified", password |-> password, straddles |-> FALSE])
  /\ UNCHANGED <<password, tokens, resetting, sockets, calls, logins, exchanged, logouts, outlived>>

\* The password is compared with the row that was read.
Login(r) ==
  /\ Call(r)
  /\ account = "active"
  /\ Goto(r, [pc |-> "verified", password |-> password, straddles |-> FALSE])
  /\ UNCHANGED <<users, tokens, resetting, sockets, logins, exchanged, logouts, outlived>>

\* createAuthSession.
OpenSession(r, s, p) ==
  /\ req[r].pc = "verified"
  /\ ~Row(s)
  /\ ~Issued(p)
  /\ sessions' = [sessions EXCEPT ![s] = [refresh |-> p, revoked |-> "no", expired |-> FALSE]]
  /\ minted' = [minted EXCEPT ![p] = s]
  /\ opened' = [opened EXCEPT ![s] = req[r].password]
  /\ straddled' = IF req[r].straddles THEN straddled \cup {s} ELSE straddled
  /\ Goto(r, Idle)
  /\ UNCHANGED <<users, lapsed, blacklist, resetting, sockets, calls, evicted, exchanged, logouts, outlived>>

--------------------------------------------------------------------------------
(* rotateRefreshSession *)

\* Mutant: the row is read without its lock.
StartRotation_Unlocked(r, p) ==
  LET s == minted[p] IN
  /\ Call(r)
  /\ Issued(p)
  /\ Active(s)
  /\ sessions[s].refresh = p
  /\ account = "active"
  /\ Goto(r, [pc |-> "rotating", session |-> s, pair |-> p])
  /\ UNCHANGED <<users, tokens, resetting, sockets, logins, exchanged, logouts, outlived>>

\* The transaction up to its write, where the token is good.
StartRotation(r, p) ==
  LET s == minted[p] IN
  /\ Call(r)
  /\ Issued(p)
  /\ ~Locked(s)
  /\ Active(s)
  /\ sessions[s].refresh = p
  /\ account = "active"
  /\ Goto(r, [pc |-> "rotating", session |-> s, pair |-> p])
  /\ UNCHANGED <<users, tokens, resetting, sockets, logins, exchanged, logouts, outlived>>

\* Where it is not: the session that has expired, or whose token was rotated
\* before, is revoked.
RefuseRotation(r, p) ==
  LET s == minted[p] IN
  /\ Call(r)
  /\ Issued(p)
  /\ ~Locked(s)
  /\ ~Revoked(s)
  /\ sessions[s].expired \/ sessions[s].refresh # p
  /\ Revoke({s}, IF sessions[s].expired THEN "expired" ELSE "refresh_reuse")
  /\ UNCHANGED <<users, minted, lapsed, blacklist, resetting, sockets, req, logins, exchanged, logouts>>

\* The new hash and expiry on the same row, and the pair that goes out.
CommitRotation(r, q) ==
  LET s == req[r].session IN
  /\ req[r].pc = "rotating"
  /\ ~Issued(q)
  /\ sessions' = [sessions EXCEPT ![s].refresh = q, ![s].expired = FALSE]
  /\ minted' = [minted EXCEPT ![q] = s]
  /\ exchanged' = exchanged \cup {<<req[r].pair, q>>}
  /\ Goto(r, Idle)
  /\ UNCHANGED <<users, lapsed, blacklist, resetting, sockets, calls, logins, logouts, outlived>>

--------------------------------------------------------------------------------
(* logout *)

\* protect lets the access token through; a refresh token may come along.
Logout(r, p, body) ==
  /\ Call(r)
  /\ Admitted(p)
  /\ account = "active"
  /\ body \in Pair => Issued(body)
  /\ Goto(r, [pc |-> "logout", pair |-> p, body |-> body])
  /\ UNCHANGED <<users, tokens, resetting, sockets, logins, exchanged, logouts, outlived>>

\* revokeAccessToken: an error, and the unique key's too, is logged and swallowed.
Blacklist(r) ==
  LET p == req[r].pair IN
  /\ req[r].pc = "logout"
  /\ \/ /\ blacklist' = blacklist \cup {p}
        /\ Outlive({p})
        /\ UNCHANGED unlisted
     \/ /\ unlisted' = unlisted \cup ({p} \ blacklist)
        /\ UNCHANGED <<blacklist, outlived>>
  /\ Goto(r, [req[r] EXCEPT !.pc = "signing_out"])
  /\ UNCHANGED <<users, sessions, minted, lapsed, resetting, sockets, calls, logins, exchanged, ended>>

SignedOut(r) == ended' = ended \cup {<<req[r].pair, req[r].body>>} /\ Goto(r, Idle)

\* revokeSessionById, where no refresh token came along.
RevokeById(r) ==
  LET s == minted[req[r].pair] IN
  /\ req[r].pc = "signing_out"
  /\ req[r].body = None
  /\ ~Locked(s)
  /\ Revoke({s} \ {q \in Session : Revoked(q)}, "logout")
  /\ SignedOut(r)
  /\ UNCHANGED <<users, minted, lapsed, blacklist, resetting, sockets, calls, logins, exchanged, unlisted>>

\* revokeRefreshSession finds nothing to revoke.
NothingToRevoke(r) ==
  /\ req[r].pc = "signing_out"
  /\ req[r].body # None
  /\ req[r].body \in Pair => Revoked(minted[req[r].body])
  /\ SignedOut(r)
  /\ UNCHANGED <<users, tokens, resetting, sockets, calls, logins, exchanged, unlisted, outlived>>

\* Mutant: a token that was rotated meanwhile ends nothing.
ReadToRevoke_Current(r) ==
  LET p == req[r].body IN
  /\ req[r].pc = "signing_out"
  /\ p \in Pair
  /\ ~Revoked(minted[p])
  /\ IF sessions[minted[p]].refresh = p
     THEN /\ Goto(r, [pc |-> "revoking", pair |-> req[r].pair, body |-> p, reason |-> "logout"])
          /\ UNCHANGED ended
     ELSE SignedOut(r)
  /\ UNCHANGED <<users, tokens, resetting, sockets, calls, logins, exchanged, unlisted, outlived>>

\* revokeRefreshSession, its read: a token that was rotated gives another reason.
ReadToRevoke(r) ==
  LET p == req[r].body IN
  /\ req[r].pc = "signing_out"
  /\ p \in Pair
  /\ ~Revoked(minted[p])
  /\ Goto(r, [pc |-> "revoking", pair |-> req[r].pair, body |-> p,
              reason |-> IF sessions[minted[p]].refresh = p THEN "logout" ELSE "refresh_reuse"])
  /\ UNCHANGED <<users, tokens, resetting, sockets, calls, logins, exchanged, logouts, outlived>>

\* Its write, whatever the row is by now.
WriteRevoked(r) ==
  LET s == minted[req[r].body] IN
  /\ req[r].pc = "revoking"
  /\ ~Locked(s)
  /\ Revoke({s}, req[r].reason)
  /\ SignedOut(r)
  /\ UNCHANGED <<users, minted, lapsed, blacklist, resetting, sockets, calls, logins, exchanged, unlisted>>

--------------------------------------------------------------------------------
(* requestPasswordReset, resetPassword *)

\* The codes issued before go first.
Forgot(r) ==
  /\ Call(r)
  /\ account # "none"
  /\ codes' = [c \in Code |-> NoRow]
  /\ Goto(r, [pc |-> "forgot"])
  /\ UNCHANGED <<users, tokens, issued, guesses, resets, sockets, logins, exchanged, logouts, outlived>>

IssueCode(r) ==
  /\ req[r].pc = "forgot"
  /\ issued < MaxCodes
  /\ issued' = issued + 1
  /\ codes' = [codes EXCEPT ![issued + 1] = [attempts |-> 0, used |-> FALSE, expired |-> FALSE]]
  /\ Goto(r, Idle)
  /\ UNCHANGED <<users, tokens, guesses, resets, sockets, calls, logins, exchanged, logouts, outlived>>

Unused == {c \in Code : RowOf(c) /\ ~codes[c].used}

\* The newest unused code, which may be wrong to guess at: expired.
Newest(c) == c \in Unused /\ (\A d \in Unused : d <= c) /\ ~codes[c].expired

\* Mutant: the attempts are looked at when they are charged only.
Guess_Uncapped(r, c) ==
  /\ Call(r)
  /\ Newest(c)
  /\ \/ /\ Goto(r, [pc |-> "wrong", code |-> c])
        /\ guesses' = [guesses EXCEPT ![c] = @ + 1]
     \/ /\ Goto(r, [pc |-> "right", code |-> c])
        /\ UNCHANGED guesses
  /\ UNCHANGED <<users, tokens, codes, issued, resets, sockets, logins, exchanged, logouts, outlived>>

\* The guess is compared with the row that was read.
Guess(r, c) ==
  /\ Call(r)
  /\ Newest(c)
  /\ codes[c].attempts < MaxAttempts
  /\ \/ /\ Goto(r, [pc |-> "wrong", code |-> c])
        /\ guesses' = [guesses EXCEPT ![c] = @ + 1]
     \/ /\ Goto(r, [pc |-> "right", code |-> c])
        /\ UNCHANGED guesses
  /\ UNCHANGED <<users, tokens, codes, issued, resets, sockets, logins, exchanged, logouts, outlived>>

\* A code that has taken its attempts is burned, right or wrong.
Exhausted(r, c) ==
  /\ Call(r)
  /\ Newest(c)
  /\ codes[c].attempts >= MaxAttempts
  /\ codes' = [codes EXCEPT ![c].used = TRUE]
  /\ UNCHANGED <<users, tokens, issued, guesses, resets, sockets, req, logins, exchanged, logouts, outlived>>

\* row.increment, an UPDATE that adds to the count there is.
Charge(r) ==
  LET c == req[r].code IN
  /\ req[r].pc = "wrong"
  /\ codes' = IF RowOf(c) THEN [codes EXCEPT ![c].attempts = @ + 1] ELSE codes
  /\ Goto(r, [req[r] EXCEPT !.pc = "charged"])
  /\ UNCHANGED <<users, tokens, issued, guesses, resets, sockets, calls, logins, exchanged, logouts, outlived>>

\* row.reload, which throws where the row is gone, and the burn at the cap.
Burn(r) ==
  LET c == req[r].code IN
  /\ req[r].pc = "charged"
  /\ codes' = IF RowOf(c) /\ codes[c].attempts >= MaxAttempts
              THEN [codes EXCEPT ![c].used = TRUE] ELSE codes
  /\ Goto(r, Idle)
  /\ UNCHANGED <<users, tokens, issued, guesses, resets, sockets, calls, logins, exchanged, logouts, outlived>>

\* The row may be gone by now, or used: the update does not look.
UseCode(r) ==
  LET c == req[r].code IN
  /\ req[r].pc = "right"
  /\ codes' = IF RowOf(c) THEN [codes EXCEPT ![c].used = TRUE] ELSE codes
  /\ Goto(r, [pc |-> "used", code |-> c])
  /\ UNCHANGED <<users, tokens, issued, guesses, resets, sockets, calls, logins, exchanged, logouts, outlived>>

SavePassword(r) ==
  /\ req[r].pc = "used"
  /\ password' = password + 1
  /\ resets' = [resets EXCEPT ![req[r].code] = @ + 1]
  /\ Goto(r, [pc |-> "saved", password |-> password + 1])
  /\ UNCHANGED <<account, tokens, codes, issued, guesses, sockets, calls, logins, exchanged, logouts, outlived>>

\* revokeAllUserSessions finds its rows, those not revoked, and waits for the
\* locked ones.
StartEviction(r) ==
  /\ req[r].pc = "saved"
  /\ req' = [q \in Request |->
       CASE q = r -> [pc |-> "evicting", password |-> req[r].password,
                      rows |-> {s \in Session : Row(s) /\ ~Revoked(s)}]
         [] req[q].pc = "verified" -> [req[q] EXCEPT !.straddles = TRUE]
         [] OTHER -> req[q]]
  /\ UNCHANGED <<users, tokens, resetting, sockets, calls, logins, exchanged, logouts, outlived>>

\* Mutant: a row that is locked is passed over.
FinishEviction_SkipsLocked(r) ==
  /\ req[r].pc = "evicting"
  /\ Revoke({s \in req[r].rows : ~Revoked(s) /\ ~Locked(s)}, "password_change")
  /\ evicted' = IF req[r].password > evicted THEN req[r].password ELSE evicted
  /\ Goto(r, Idle)
  /\ UNCHANGED <<users, minted, lapsed, blacklist, resetting, sockets, calls, opened, straddled, exchanged, logouts>>

\* Mutant: those another call revoked meanwhile are revoked again.
FinishEviction_Again(r) ==
  /\ req[r].pc = "evicting"
  /\ \A s \in req[r].rows : ~Locked(s)
  /\ Revoke(req[r].rows, "password_change")
  /\ evicted' = IF req[r].password > evicted THEN req[r].password ELSE evicted
  /\ Goto(r, Idle)
  /\ UNCHANGED <<users, minted, lapsed, blacklist, resetting, sockets, calls, opened, straddled, exchanged, logouts>>

\* It revokes those that are not revoked by then.
FinishEviction(r) ==
  /\ req[r].pc = "evicting"
  /\ \A s \in req[r].rows : ~Locked(s)
  /\ Revoke({s \in req[r].rows : ~Revoked(s)}, "password_change")
  /\ evicted' = IF req[r].password > evicted THEN req[r].password ELSE evicted
  /\ Goto(r, Idle)
  /\ UNCHANGED <<users, minted, lapsed, blacklist, resetting, sockets, calls, opened, straddled, exchanged, logouts>>

--------------------------------------------------------------------------------
(* Sockets *)

\* Mutant: the handshake does not look at the session.
Handshake_TokenOnly(r, p) ==
  /\ Call(r)
  /\ Issued(p) /\ p \notin lapsed /\ p \notin blacklist
  /\ Goto(r, [pc |-> "handshake", pair |-> p])
  /\ UNCHANGED <<users, tokens, resetting, sockets, logins, exchanged, logouts, outlived>>

\* SocketManager.authenticate, its two checks.
Handshake(r, p) ==
  /\ Call(r)
  /\ Admitted(p)
  /\ Goto(r, [pc |-> "handshake", pair |-> p])
  /\ UNCHANGED <<users, tokens, resetting, sockets, logins, exchanged, logouts, outlived>>

\* It reads the user; onConnection hangs up on a token that is past its exp.
Connect(r) ==
  LET p == req[r].pair IN
  /\ req[r].pc = "handshake"
  /\ account = "active"
  /\ sockets' = IF p \in lapsed THEN sockets ELSE sockets \cup {p}
  /\ Goto(r, Idle)
  /\ UNCHANGED <<users, tokens, resetting, calls, logins, exchanged, logouts, outlived>>

\* The timer set for the token's exp, or the client.
Disconnect(p) ==
  /\ p \in sockets
  /\ sockets' = sockets \ {p}
  /\ UNCHANGED <<users, tokens, resetting, req, calls, logins, exchanged, logouts, outlived>>

--------------------------------------------------------------------------------
(* Time, and what others do to the account *)

AccessLapses(p) ==
  /\ Issued(p) /\ p \notin lapsed
  /\ lapsed' = lapsed \cup {p}
  /\ UNCHANGED <<users, sessions, minted, blacklist, resetting, sockets, req, calls, logins, exchanged, logouts, outlived>>

SessionExpires(s) ==
  /\ Row(s) /\ ~sessions[s].expired
  /\ sessions' = [sessions EXCEPT ![s].expired = TRUE]
  /\ UNCHANGED <<users, minted, lapsed, blacklist, resetting, sockets, req, calls, logins, exchanged, logouts, outlived>>

CodeExpires(c) ==
  /\ RowOf(c) /\ ~codes[c].expired
  /\ codes' = [codes EXCEPT ![c].expired = TRUE]
  /\ UNCHANGED <<users, tokens, issued, guesses, resets, sockets, req, calls, logins, exchanged, logouts, outlived>>

\* A moderator suspends the account, or grants the appeal: no session is touched.
Suspend(r) ==
  /\ Call(r)
  /\ account = "active"
  /\ account' = "inactive"
  /\ UNCHANGED <<password, tokens, resetting, sockets, req, logins, exchanged, logouts, outlived>>

Reinstate(r) ==
  /\ Call(r)
  /\ account = "inactive"
  /\ account' = "active"
  /\ UNCHANGED <<password, tokens, resetting, sockets, req, logins, exchanged, logouts, outlived>>

\* A handler dies, or a statement of it throws: a rotation is rolled back, and the
\* wrong guess it had not charged yet is nobody's.
Abort(r) ==
  /\ req[r] # Idle
  /\ guesses' = IF req[r].pc = "wrong" THEN [guesses EXCEPT ![req[r].code] = @ - 1] ELSE guesses
  /\ Goto(r, Idle)
  /\ UNCHANGED <<users, tokens, codes, issued, resets, sockets, calls, logins, exchanged, logouts, outlived>>

--------------------------------------------------------------------------------

Init ==
  /\ account \in {"none", "active"}
  /\ password = 0
  /\ sessions = [s \in Session |-> NoRow]
  /\ minted = [p \in Pair |-> None]
  /\ lapsed = {}
  /\ blacklist = {}
  /\ codes = [c \in Code |-> NoRow]
  /\ issued = 0
  /\ sockets = {}
  /\ req = [r \in Request |-> Idle]
  /\ calls = 0
  /\ opened = [s \in Session |-> 0]
  /\ straddled = {}
  /\ evicted = 0
  /\ exchanged = {}
  /\ ended = {}
  /\ unlisted = {}
  /\ outlived = {}
  /\ guesses = [c \in Code |-> 0]
  /\ resets = [c \in Code |-> 0]

\* The routes of authController, and the socket's handshake.
Begin(r) ==
  \/ Signup(r)
  \/ Login(r)
  \/ Forgot(r)
  \/ Suspend(r)
  \/ Reinstate(r)
  \/ \E c \in Code : Guess(r, c) \/ Exhausted(r, c)
  \/ \E p \in Pair :
       \/ StartRotation(r, p)
       \/ RefuseRotation(r, p)
       \/ Handshake(r, p)
       \/ \E body \in Pair \cup {None, Junk} : Logout(r, p, body)

Continue(r) ==
  \/ CreateUser(r)
  \/ \E s \in Session, p \in Pair : OpenSession(r, s, p)
  \/ \E q \in Pair : CommitRotation(r, q)
  \/ Blacklist(r)
  \/ RevokeById(r)
  \/ NothingToRevoke(r)
  \/ ReadToRevoke(r)
  \/ WriteRevoked(r)
  \/ IssueCode(r)
  \/ Charge(r)
  \/ Burn(r)
  \/ UseCode(r)
  \/ SavePassword(r)
  \/ StartEviction(r)
  \/ FinishEviction(r)
  \/ Connect(r)
  \/ Abort(r)

Environment ==
  \/ \E p \in Pair : AccessLapses(p) \/ Disconnect(p)
  \/ \E s \in Session : SessionExpires(s)
  \/ \E c \in Code : CodeExpires(c)

Next == Environment \/ \E r \in Request : Begin(r) \/ Continue(r)

Spec == Init /\ [][Next]_vars

--------------------------------------------------------------------------------
(* Properties *)

\* Every variable and handler keeps its shape, and the refresh token a session
\* awaits is one that was minted for it (createAuthSession, rotateRefreshSession).
TypeOK ==
  /\ account \in {"none", "active", "inactive"}
  /\ password \in Nat
  /\ sessions \in [Session -> SessionRow \cup {NoRow}]
  /\ minted \in [Pair -> Session \cup {None}]
  /\ lapsed \subseteq Pair /\ blacklist \subseteq Pair /\ sockets \subseteq Pair
  /\ codes \in [Code -> CodeRow \cup {NoRow}]
  /\ issued \in 0 .. MaxCodes
  /\ req \in [Request -> Handler]
  /\ calls \in 0 .. MaxCalls
  /\ \A s \in Session : Row(s) => minted[sessions[s].refresh] = s

\* One-time rotation: a refresh token buys one new pair, however many calls present
\* it at once or again (rotateRefreshSession, its row lock).
OneUse == \A e, f \in exchanged : e[1] = f[1] => e = f

\* Once a reset has answered, the sessions that are not revoked were opened with its
\* password or a later one, or by a login that had verified the old one and not
\* opened its session yet (resetPassword, revokeAllUserSessions, login).
EvictedByReset ==
  \A s \in Session :
    Row(s) /\ ~Revoked(s) /\ opened[s] < evicted => s \in straddled

\* A logout that answered has ended its session, unless the refresh token that came
\* along was of another one or of none: then the access token alone is refused, if
\* its row could be written (logout, revokeRefreshSession, revokeAccessToken).
LogoutSticks ==
  \A e \in ended :
    IF e[2] = None \/ (e[2] \in Pair /\ minted[e[2]] = minted[e[1]])
    THEN Revoked(minted[e[1]])
    ELSE e[1] \in blacklist \cup unlisted

\* A revoked session stays revoked, and for the reason it was revoked for, but for a
\* logout that read it before (revokeRefreshSession).
RevokedForGood ==
  [][\A s \in Session : Revoked(s) =>
       /\ Revoked(s)'
       /\ sessions'[s].revoked # sessions[s].revoked =>
            \E r \in Request : /\ req[r].pc = "revoking"
                               /\ minted[req[r].body] = s
                               /\ req'[r] = Idle]_vars

\* A code takes no more wrong guesses than its attempts and the calls that read it
\* before the last of them was charged, and sets no more passwords than calls that
\* read it before it was used (resetPassword).
TriesBounded ==
  \A c \in Code :
    /\ guesses[c] <= MaxAttempts + Cardinality(Request) - 1
    /\ resets[c] <= Cardinality(Request)

\* A socket whose token or session was revoked was open by then, or shaking hands
\* (SocketManager.authenticate): nothing opens one afterwards.
SocketsAdmitted ==
  \A p \in sockets : p \in blacklist \/ Revoked(minted[p]) => p \in outlived

--------------------------------------------------------------------------------
(* What module Credentials sees *)

\* The pairs whose refresh token a session that is not revoked awaits.
awaited == {p \in Pair : Issued(p) /\ ~Revoked(minted[p]) /\ sessions[minted[p]].refresh = p}
presented == {req[r].pair : r \in {r \in Request : req[r].pc = "rotating"}}
barred == lapsed \cup blacklist
knocking == {p \in Pair : Handshaking(p)}

CredentialView == INSTANCE Credentials WITH bearer <- minted, inside <- sockets

\* AuthSession implements Credentials: whatever is retried, copied, raced or rolled
\* back, a pair is exchanged once, for one call, while its session goes on; no login, rotation or
\* reset revives a session that was revoked; and a socket opens only for a pair that
\* was good, of a session that went on, when it shook hands (rotateRefreshSession,
\* revokeRefreshSession, revokeAllUserSessions, SocketManager.authenticate).
CredentialPromise == CredentialView!Spec

================================================================================
