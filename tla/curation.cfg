SPECIFICATION Spec
CONSTANTS
  Inputs <- MCInputs
  Profiles <- MCProfiles
  LastReview = 4
  NameParts <- MCNameParts
INVARIANTS NothingDropped OrderIrrelevant CompiledIsPublishable LinksLeadThere HiddenStaysHidden
PROPERTIES AgeingIsReported
\* The review time reaches its bound.
CHECK_DEADLOCK FALSE
