SPECIFICATION Spec
CONSTANTS
  Repos = {1, 2}
  Unknown = {3}
  ListIds = {1, 2, 3}
  Names = {"x", "y"}
  ListPage = 1
  ItemPage = 1
  StarPage = 1
  MaxPages = 2
  MaxEdits = 2
  MaxFaults = 1
  Directories <- MCDirectories
  Trees <- MCTrees
  Accounts <- MCAccounts
  Skipped = {"modules"}
  Documents <- MCDocuments
  MaxDepth = 2
  MaxFiles = 3
  MaxManifests = 2
  MaxComponents = 2
  NoDocument = NoDocument
  NoSnapshot = NoSnapshot
  MaxTreeEdits = 2
  MaxBadReplies = 2
INVARIANTS ReadIsBracketed EachListIsASnapshot QuietReadSucceeds PointersNameEvidence InventoryIsBracketed DependenciesAreWhole
\* One command runs to its end.
CHECK_DEADLOCK FALSE
