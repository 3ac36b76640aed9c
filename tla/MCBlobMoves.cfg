SPECIFICATION Spec
CONSTANTS
  Commands = {"there", "again", "one", "delete"}
  Together <- MCTogether
  Paths <- MCPaths
  Rank <- MCRank
  Kind <- MCKind
  Folder <- MCFolder
  Source <- MCSource
  Target <- MCTarget
INVARIANT NothingLost
PROPERTY DoneMeansAll
CHECK_DEADLOCK FALSE
