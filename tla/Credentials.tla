----------------------------- MODULE Credentials -----------------------------
(***************************************************************************)
(* What the sessions of an account promise, with no requests, no locks and *)
(* no passwords in sight: a session has one pair of tokens it will         *)
(* exchange, for one call that presents it at a time, once and for a new   *)
(* one; a session that has ended, which none does in the midst of an       *)
(* exchange, never exchanges again; and a connection is let in with a      *)
(* token that is good when it knocks, of a session that has not ended.     *)
(* Module AuthSession implements it (AuthSession!CredentialPromise).       *)
(***************************************************************************)
CONSTANTS
  Session,
  Pair,      \* an access and a refresh token that are given out together
  None

VARIABLES
  bearer,    \* the session each pair was given out for
  awaited,   \* the pairs that will be exchanged
  presented, \* the pairs of calls that are being answered with a new one
  barred,    \* the pairs that let nobody in
  knocking,  \* the pairs of connections that are being let in
  inside     \* the pairs of connections that are open

vars == <<bearer, awaited, presented, barred, knocking, inside>>

GivenOut(p) == bearer[p] # None

\* A session goes on for as long as one of its pairs is awaited.
Goes(s) == \E p \in awaited : bearer[p] = s

Init ==
  /\ bearer = [p \in Pair |-> None]
  /\ awaited = {}
  /\ presented = {}
  /\ barred = {}
  /\ knocking = {}
  /\ inside = {}

Start(s, p) ==
  /\ \A q \in Pair : bearer[q] # s
  /\ ~GivenOut(p)
  /\ bearer' = [bearer EXCEPT ![p] = s]
  /\ awaited' = awaited \cup {p}
  /\ UNCHANGED <<presented, barred, knocking, inside>>

Present(p) ==
  /\ p \in awaited
  /\ \A q \in presented : bearer[q] # bearer[p]
  /\ presented' = presented \cup {p}
  /\ UNCHANGED <<bearer, awaited, barred, knocking, inside>>

Exchange(p, q) ==
  /\ p \in presented \cap awaited
  /\ ~GivenOut(q)
  /\ bearer' = [bearer EXCEPT ![q] = bearer[p]]
  /\ awaited' = (awaited \ {p}) \cup {q}
  /\ presented' = presented \ {p}
  /\ UNCHANGED <<barred, knocking, inside>>

\* The call fails, and nothing was given for the pair.
TakeBack(p) ==
  /\ p \in presented
  /\ presented' = presented \ {p}
  /\ UNCHANGED <<bearer, awaited, barred, knocking, inside>>

End(S) ==
  /\ \A p \in presented : bearer[p] \notin S
  /\ awaited' = {p \in awaited : bearer[p] \notin S}
  /\ UNCHANGED <<bearer, presented, barred, knocking, inside>>

Bar(p) ==
  /\ GivenOut(p)
  /\ barred' = barred \cup {p}
  /\ UNCHANGED <<bearer, awaited, presented, knocking, inside>>

Knock(p) ==
  /\ GivenOut(p) /\ p \notin barred /\ Goes(bearer[p])
  /\ knocking' = knocking \cup {p}
  /\ UNCHANGED <<bearer, awaited, presented, barred, inside>>

\* Another one may be knocking with the same pair.
Answered(p) == p \in knocking /\ knocking' \in {knocking, knocking \ {p}}

Enter(p) ==
  /\ Answered(p)
  /\ inside' = inside \cup {p}
  /\ UNCHANGED <<bearer, awaited, presented, barred>>

TurnAway(p) ==
  /\ Answered(p)
  /\ UNCHANGED <<bearer, awaited, presented, barred, inside>>

Leave(p) ==
  /\ inside' = inside \ {p}
  /\ UNCHANGED <<bearer, awaited, presented, barred, knocking>>

Next ==
  \/ \E s \in Session, p \in Pair : Start(s, p)
  \/ \E p, q \in Pair : Exchange(p, q)
  \/ \E S \in SUBSET Session : End(S)
  \/ \E p \in Pair :
       \/ Present(p) \/ TakeBack(p)
       \/ Bar(p) \/ Leave(p)
       \/ Knock(p) \/ Enter(p) \/ TurnAway(p)

Spec == Init /\ [][Next]_vars

================================================================================
