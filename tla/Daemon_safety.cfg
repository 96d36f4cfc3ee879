SPECIFICATION Spec
CONSTANTS
  t1 = t1
  t2 = t2
  t3 = t3
  Threads = {t1, t2, t3}
  MaxThreads = 2
  Sockets <- MCAllSizes
  ReloadTimes <- MCNoReload
  NoThread = NoThread
  Unstarted = Unstarted
SYMMETRY ThreadSymmetry
INVARIANTS
  TypeOK
  WorkersOwned
  StaleAskedToStop
PROPERTIES
  SlotsNotClobbered
