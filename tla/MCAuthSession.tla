---------------------------- MODULE MCAuthSession ----------------------------
\* Small instances of AuthSession for TLC.
EXTENDS AuthSession, TLC

Symmetry == Permutations(Session) \cup Permutations(Pair) \cup Permutations(Request)

================================================================================
