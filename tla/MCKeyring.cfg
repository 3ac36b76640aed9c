CONSTANTS
  short = short
  long = long
  longer = longer
  other = other
  NoSecret = NoSecret
  Torn = Torn
  Procs = {p}
  Secrets <- MCSecrets
  Size <- MCSize
  MaxChunks = 3
SPECIFICATION Spec
INVARIANTS
  NoMixture
PROPERTIES
  CompletedPutReadable
  NothingLeftBehind
  ActsAtomically
