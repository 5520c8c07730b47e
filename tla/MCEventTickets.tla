---------------------------- MODULE MCEventTickets ----------------------------
(***************************************************************************)
(* Small instances of EventTickets for TLC.                                *)
(***************************************************************************)
EXTENDS EventTickets, TLC

\* Row ids, requests and users are interchangeable.
Ids == Permutations(Row) \cup Permutations(Request) \cup Permutations(User)

================================================================================
