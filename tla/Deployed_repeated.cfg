SPECIFICATION Spec
CONSTANTS
  Instances = {i1, i2}
  NumTasks = 2
  Buyers <- Last
  MaxAttempts = 2
  Scenarios <- Repeated
  MaxDuplicates = 2
  MaxCrashes = 1
INVARIANT ExclusiveRun
CHECK_DEADLOCK FALSE
