SPECIFICATION FairSpec
CONSTANTS
  Clip = {v1, m1, m2}
  FeedVideo = {v1}
  Foreign = {m2}
  Job = {j1, j2}
  NoJob = NoJob
  MAX_ATTEMPTS = 2
  MaxFaults = 2
INVARIANT BudgetPerLoss
PROPERTIES EveryJobEnds QueuePromise
CHECK_DEADLOCK FALSE
