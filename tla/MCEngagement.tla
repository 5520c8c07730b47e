----------------------------- MODULE MCEngagement -----------------------------
(***************************************************************************)
(* Small instances of Engagement for TLC.                                  *)
(***************************************************************************)
EXTENDS Engagement, TLC

\* Comment ids and requests are interchangeable.
Ids == Permutations(Comment) \cup Permutations(Request)

================================================================================
