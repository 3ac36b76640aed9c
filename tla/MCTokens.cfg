CONSTANTS
  d = d
  c1 = c1
  c2 = c2
  Never = Never
  Logins = {d}
  Callers = {c1, c2}
  Lead = 2
  Lifetime = 4
  CodeLifetime = 8
  ListenTime = 2
  Interval = 1
  MaxDelay = 2
  LastStart = 0
  MaxTime = 14
SPECIFICATION Spec
CHECK_DEADLOCK FALSE
INVARIANTS
  HandedOutIsValid
PROPERTIES
  RefreshesHardlyGoBack
  ApprovalIsHonoured
  LoginEnds
