CONSTANTS
  a = a
  b = b
  c = c
  d = d
  e = e
  f = f
  NoBlob = NoBlob
  Torn = Torn
  Uploads <- MCUploads
  Creating <- MCCreating
  Alone <- MCAlone
  Late <- MCLate
  Companies <- MCCompanies
  Length <- MCLength
  MaxChunk = 6
  BlockSize = 3
  InlineThreshold = 4
  MaxBlocks = 3
SPECIFICATION Spec
CHECK_DEADLOCK FALSE
INVARIANTS
  BlocksTile
PROPERTIES
  CreateNeverReplaces
  OkIsStored
  ReplacesAtomically
