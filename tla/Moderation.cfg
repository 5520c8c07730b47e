CONSTANTS
  Content = {c1}
  Account = {u1}
  Reporter = {w1}
  ReportId = {i1, i2, i3}
  AppealId = {a1, a2}
  MaxReports = 1
  Request = {r1, r2}
  MaxCalls = 7

SPECIFICATION Spec
SYMMETRY Symmetry

INVARIANTS
  TakedownAppealable
  AuthorsWordStands
  OneVerdict
  OneOpenCase

CHECK_DEADLOCK FALSE
