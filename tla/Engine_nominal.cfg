SPECIFICATION FairSpec
CONSTANTS
  SupA = SupA
  SupB = SupB
  None = None
  NumTasks = 3
  Planners <- First
  Buyers <- Third
  Offers <- Suppliers
  FirstOffer = SupA
  NoOffer = None
  Governed <- Suppliers
  MaxAttempts = 2
  Strategies = {"RETRY", "USE_ALTERNATIVE_SUPPLIER", "ESCALATE", "ABORT"}
  Faults = {}
  MaxInterrupts = 0
  MaxResumes = 0
  MaxSuspensions = 0
INVARIANTS RecoveriesAccounted
PROPERTIES EndsOrAsks KeepsPromises
CHECK_DEADLOCK FALSE
