--------------------------- MODULE MCMediaRetention ---------------------------
(***************************************************************************)
(* Small instances of MediaRetention for TLC.                              *)
(***************************************************************************)
EXTENDS MediaRetention, TLC

\* Bucket keys are interchangeable.
Keys == Permutations(Object)

================================================================================
