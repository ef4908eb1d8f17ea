SPECIFICATION Spec
CONSTANTS
  SupA = SupA
  SupB = SupB
  None = None
  NumTasks = 2
  Planners <- First
  Buyers <- Second
  Offers <- Suppliers
  FirstOffer = SupA
  NoOffer = None
  Governed <- OnlyB
  MaxAttempts = 2
  Strategies = {"RETRY", "USE_ALTERNATIVE_SUPPLIER"}
  Faults = {"sweep"}
  MaxInterrupts = 1
  MaxResumes = 2
  MaxSuspensions = 0
INVARIANTS WaitingIsBacked NeverFrozen RunningIsHeld
PROPERTIES TerminalIsFinal
CHECK_DEADLOCK FALSE
