SPECIFICATION Spec
CONSTANTS
  Small = Small
  Large = Large
  Huge = Huge
  Buyer = Buyer
  Planner = Planner
  C1 = C1
  C2 = C2
  C3 = C3
  O1 = O1
  O2 = O2
  Calls <- ThreeCalls
  Keys <- AllKeys
  Agents <- JustBuyer
  Holders <- JustBuyer
  Operators <- TwoDesks
  Amount <- Price
  AutonomousMax = 5
  ApprovalMax = 25
  OneProcess = TRUE
  Concurrent = TRUE
  Faults = {"lost_answer", "flagged", "expiry", "suspension"}
INVARIANTS OrdersAreAuthorised OneQuestion
CHECK_DEADLOCK FALSE
