SPECIFICATION Spec
CONSTANTS
  SupA = SupA
  SupB = SupB
  None = None
  NumTasks = 2
  Planners <- First
  Buyers <- Second
  Offers <- Suppliers
  FirstOffer = SupA
  NoOffer = None
  Governed <- OnlyB
  MaxAttempts = 2
  Strategies = {"RETRY", "SWITCH_AGENT", "WAIT_AND_REASSESS"}
  Faults = {"late_decision", "sweep"}
  MaxInterrupts = 1
  MaxResumes = 1
  MaxSuspensions = 1
INVARIANTS SafeHold DependencyOrder
PROPERTIES CompletedStaysCompleted
CHECK_DEADLOCK FALSE
