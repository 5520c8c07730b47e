---------------------------- MODULE MCSocialGraph ----------------------------
\* Pairs of users share nothing: two users, and as many handlers as there are
\* statements to interleave.
EXTENDS SocialGraph, TLC

Symmetry == Permutations(User) \cup Permutations(Id) \cup Permutations(Request)

================================================================================
