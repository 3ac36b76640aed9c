CONSTANTS
  one = one
  two = two
  copy = copy
  fold = fold
  again = again
  a = a
  b = b
  c = c
  l = l
  m = m
  p = p
  Nothing = Nothing
  NoName = NoName
  Downloads <- MCDownloads
  Prefixes <- MCPrefixes
  Copies <- MCCopies
  Source <- MCSource
  Base <- MCBase
  Blobs <- MCBlobs
  Found <- MCFound
  Openable <- MCOpenable
  LocalName <- MCLocalName
  Pieces <- MCPieces
  Changing <- MCChanging
  Wanted <- MCWanted
  MaxIndex = 1
  MaxVersion = 2
  Format <- MCFormat
  Cap <- MCCap
  Limits <- MCLimits
  DefaultLimit = 2
  MaxLimit = 2
  MaxAsks = 3
SPECIFICATION PSpec
CHECK_DEADLOCK FALSE
INVARIANTS
  DoneIsWhole
  ShowsWhatWasAsked
  PagesShowEveryRow
PROPERTIES
  KeepsWhatWasThere
  DownloadEnds
