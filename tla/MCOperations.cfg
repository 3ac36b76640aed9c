CONSTANTS
  c = c
  d = d
  Nothing = Nothing
  Original = Original
  Calls <- MCCalls
  Shaky <- MCShaky
  Requests <- MCRequests
  Starts <- MCStarts
  MaxAttempts = 2
  MaxBackoff = 0
  Pauses = {0}
SPECIFICATION OSpec
CHECK_DEADLOCK FALSE
INVARIANTS
  HandedOutIsHeld
  NoDoubleWork
  PropertiesPreserved
  OutcomeIsExact
  ExactWhenCertain
PROPERTIES
  NothingLostUnasked
  CommandEnds
