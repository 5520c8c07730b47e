SPECIFICATION Spec
CONSTANTS
  Event = {show, picnic}
  FreeEvent = {picnic}
  User = {ann, ben}
  Row = {w1, w2, w3}
  Request = {r1, r2}
SYMMETRY Ids
INVARIANT CountExact
PROPERTY BoxOfficePromise
CHECK_DEADLOCK FALSE
