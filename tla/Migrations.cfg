SPECIFICATION Spec
CONSTANTS
  MaxCrashes = 1
  Followed = {"participants", "posts"}
INVARIANTS
  FailsOnlyInterrupted
  UndoRestores
  RowsConverted
