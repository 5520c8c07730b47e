CONSTANTS
  User = {u1, u2, u3}
  Conversation = {c1, c2}
  Request = {r1, r2}
  NoHeir = NoHeir
  MaxCalls = 5
  PageLimit = 1

SPECIFICATION Spec
SYMMETRY Symmetry

INVARIANTS
  TypeOK
  OneDirect
  OneOwner
  SeenOrUnread
  PreviewNewest

CHECK_DEADLOCK FALSE
CONSTRAINT GroupAlone
