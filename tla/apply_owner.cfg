SPECIFICATION Spec
CONSTANTS
  Repos = {"r", "s"}
  Slugs = {"a"}
  ListIds = {1, 2, 3}
  Plan <- MCPlanTwoRepos
  OtherName = "other"
  NoState = NoState
  MaxFaults = 1
  MaxCrashes = 0
  MaxOwnerEdits = 1
  Lag = TRUE
  Delays = FALSE
INVARIANTS VerifierListsAll VerdictIsHonest
PROPERTIES BaselineMembershipsKept OnlyPlannedAdditions
\* Applied, refused for good, or out of budget: the system may really stop.
CHECK_DEADLOCK FALSE
