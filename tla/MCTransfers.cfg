CONSTANTS
  up = up
  down = down
  rec = rec
  Transfers <- MCTransfers
  Uploads <- MCUploads
  Folders <- MCFolders
  Recorded <- MCRecorded
  FileCount <- MCFileCount
  ActivityLimit = 2
SPECIFICATION Spec
CHECK_DEADLOCK FALSE
INVARIANTS
  TokensWhileActive
  RunningRowCancellable
  OutcomeIsTruthful
  LateWorkBounded
PROPERTIES
  FinishedRowFrozen
  RunningRowKept
  CancelEndsTransfer
