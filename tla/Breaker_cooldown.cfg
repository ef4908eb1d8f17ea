SPECIFICATION FairSpec

CONSTANTS
  Procurement = Procurement
  Suppliers = Suppliers
  Demo = Demo
  C1 = C1
  C2 = C2
  Tools <- AllTools
  Ungated <- Repairs
  Parallel <- Shared
  Callers <- TwoCalls
  Threshold = 3
  Cooldown = 2
  Outcomes <- Anything

INVARIANTS OpenHasCooldown OpenForCause
PROPERTIES CoolsDown CooldownHonoured
