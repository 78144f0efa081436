SPECIFICATION Spec
CONSTANTS
  Repos = {"r"}
  Slugs = {"a", "b"}
  ListIds = {1, 2, 3, 4}
  Plan <- MCPlanOneRepo
  OtherName = "other"
  NoState = NoState
  MaxFaults = 2
  MaxCrashes = 2
  MaxOwnerEdits = 0
  Lag = FALSE
  Delays = FALSE
PROPERTIES ImplementsAdditive
\* Applied, refused for good, or out of budget: the system may really stop.
CHECK_DEADLOCK FALSE
