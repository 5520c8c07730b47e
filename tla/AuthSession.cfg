CONSTANTS
  Session = {s1, s2}
  Pair = {p1, p2, p3}
  MaxCodes = 2
  MaxAttempts = 2
  Request = {r1, r2}
  MaxCalls = 5

SPECIFICATION Spec
SYMMETRY Symmetry

INVARIANTS
  EvictedByReset
  LogoutSticks
  TriesBounded
  SocketsAdmitted

PROPERTY
  RevokedForGood
  CredentialPromise

CHECK_DEADLOCK FALSE
