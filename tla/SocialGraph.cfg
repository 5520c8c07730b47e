CONSTANTS
  User = {u1, u2}
  Id = {i1, i2, i3}
  Request = {r1, r2, r3}

SPECIFICATION Spec
SYMMETRY Symmetry

INVARIANTS
  OneStanding
  BlockSevers

PROPERTY
  AcquaintancePromise
