SPECIFICATION Spec
CONSTANTS
  Agents = {"worker", "twin"}
  Twin = "twin"
  Runs = {"r1", "r2", "r3"}
  AgentOf <- RunsOf
  Desks = {"d1"}
  Boots = {"b1", "b2"}
  Builds = {0, 1}
  Scenarios <- Shared
INVARIANTS RestsReady DeclarationsLand
PROPERTIES SuspensionHolds RefusedForCause
CHECK_DEADLOCK FALSE
