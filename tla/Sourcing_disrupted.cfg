SPECIFICATION FairSpec
CONSTANTS
  Catalogue <- Simulated
  Primary = "SUP-A"
  Needs <- Missions
  Mode = "deterministic"
  Fallible = {"SUP-A", "SUP-C"}
  Suspendable = {"procurement-agent"}
  MaxAttempts = 2
  MaxCrashes = 1
  AutonomousMax = 50
  ApprovalMax = 170
INVARIANTS PaysThePrice BuysOnce BestPermitted
PROPERTIES AsksOnce Settles
CHECK_DEADLOCK FALSE
