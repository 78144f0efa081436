SPECIFICATION CatalogSpec
CONSTANTS
  NoSnapshot = NoSnapshot
  NoRevision = NoRevision
  NoTree = NoTree
  Unmanaged = Unmanaged
  Revisions <- MCTwoRevisions
  SourceCount = 2
  EditWhileBuilding = FALSE
  MaxEdits = 2
  MaxCrashes = 0
  MaxFailures = 0
  MaxKills = 0
  Interruptible = FALSE
INVARIANTS RebuildSucceeds
