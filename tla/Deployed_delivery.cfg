SPECIFICATION FairSpec
CONSTANTS
  Instances = {i1, i2}
  NumTasks = 2
  Buyers <- Last
  MaxAttempts = 2
  Scenarios <- Delivery
  MaxDuplicates = 2
  MaxCrashes = 1
INVARIANTS TypeOK ExclusiveRun
PROPERTIES CompletedStaysCompleted VersionGrows KeepsPromises EndsOrAsks
CHECK_DEADLOCK FALSE
