SPECIFICATION FairSpec
CONSTANTS
  Repos = {"r"}
  Slugs = {"a", "b"}
  ListIds = {1, 2, 3, 4}
  Plan <- MCPlanOneRepo
  OtherName = "other"
  NoState = NoState
  MaxFaults = 2
  MaxCrashes = 0
  MaxOwnerEdits = 0
  Lag = TRUE
  Delays = TRUE
INVARIANTS TypeOK CompleteVerifies AccountStaysAllowed MembersAreStarred FailedMeansUntouched
PROPERTIES EvidenceKept EventuallySettled
\* Applied, refused for good, or out of budget: the system may really stop.
CHECK_DEADLOCK FALSE
