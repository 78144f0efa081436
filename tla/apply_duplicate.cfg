SPECIFICATION Spec
CONSTANTS
  Repos = {"r"}
  Slugs = {"a", "b"}
  ListIds = {1, 2, 3, 4}
  Plan <- MCPlanOneRepo
  OtherName = "other"
  NoState = NoState
  MaxFaults = 0
  MaxCrashes = 1
  MaxOwnerEdits = 0
  Lag = TRUE
  Delays = FALSE
INVARIANTS NoDuplicateList
\* Applied, refused for good, or out of budget: the system may really stop.
CHECK_DEADLOCK FALSE
