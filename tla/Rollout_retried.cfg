SPECIFICATION Spec
CONSTANTS
  Invocations <- Guide
  MaxRuns = 4
  MaxMishaps = 2
INVARIANTS ShipsTheBuild NoDoomedBuild RepairWorks
CHECK_DEADLOCK FALSE
