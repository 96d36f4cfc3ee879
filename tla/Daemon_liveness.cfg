SPECIFICATION FairSpec
CONSTANTS
  t1 = t1
  t2 = t2
  t3 = t3
  Threads = {t1, t2}
  MaxThreads = 1
  Sockets <- MCZero
  ReloadTimes <- MCReloadTimes
  NoThread = NoThread
  Unstarted = Unstarted
PROPERTIES
  RestartLoadsSettings
  PrecompileRuns
  FinishedWorkerReaped
  TermExits
