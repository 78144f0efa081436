SPECIFICATION Spec
CONSTANTS
  Repos = {"r", "s"}
  Slugs = {"a", "b"}
  OtherName = "other"
  ListIds = {1, 2, 3, 4}
  BaselineIds = {1, 2}
  SlugOrder <- MCSlugOrder
  RepoOrder <- MCRepoOrder
  Caps <- MCCaps
INVARIANTS PlanIsWellSealed PlanLeadsThere EveryOperationIsDue
\* Every behaviour ends when the plan is done.
CHECK_DEADLOCK FALSE
