SPECIFICATION Spec
CONSTANTS
  Failed = Failed
  NoTarget = NoTarget
  NoCheck = NoCheck
  Specs <- MCSpecs
  Batches <- MCBatches
  SourceCount = 2
  MaxEvents = 2
  MaxCommands = 3
  MaxCrashes = 1
INVARIANTS ReferencesResolve GatesSurvive EvidenceIsWhole OutcomesAreTrue
  WindowIsBest MergeIsFair
\* The commands, edits and days reach their bounds.
CHECK_DEADLOCK FALSE
