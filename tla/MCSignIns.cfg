CONSTANTS
  t1 = t1
  t2 = t2
  Ids = {a, d}
  Direct = {d}
  Keyless = {}
  Tasks = {t1, t2}
  Main = main
  NoId = NoId
SPECIFICATION Spec
SYMMETRY Symmetry
INVARIANTS
  ShownIsStored
  NoStrayToken
  RemovedStaysRemoved
  ConnectionsHaveSignIn
