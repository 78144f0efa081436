SPECIFICATION Spec
CONSTANTS
  Repos = {"r"}
  Slugs = {"a", "b"}
  ListIds = {1, 2, 3, 4}
  Plan <- MCPlanOneRepo
  OtherName = "other"
  NoState = NoState
  MaxFaults = 1
  MaxCrashes = 0
  MaxOwnerEdits = 0
  Lag = TRUE
  Delays = FALSE
PROPERTIES NothingRemoved
\* Applied, refused for good, or out of budget: the system may really stop.
CHECK_DEADLOCK FALSE
