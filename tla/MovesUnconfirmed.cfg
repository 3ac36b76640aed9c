SPECIFICATION Spec
CONSTANTS
  Commands = {"there"}
  Together = {}
  Paths <- MCPaths
  Rank <- MCRank
  Kind <- MCKind
  Folder <- MCFolder
  Source <- MCSource
  Target <- MCTarget
INVARIANT LossesConfirmed
CHECK_DEADLOCK FALSE
