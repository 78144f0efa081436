SPECIFICATION CatalogSpec
CONSTANTS
  NoSnapshot = NoSnapshot
  NoRevision = NoRevision
  NoTree = NoTree
  Unmanaged = Unmanaged
  Revisions <- MCRevisions
  SourceCount = 2
  EditWhileBuilding = FALSE
  MaxEdits = 2
  MaxCrashes = 1
  MaxFailures = 2
  MaxKills = 1
  Interruptible = TRUE
INVARIANTS PointersResolve Exportable DiffsResolve
PROPERTIES ReceiptsImmutable ConflictMeansRevert ExportEndsWhole CatalogSurvives
