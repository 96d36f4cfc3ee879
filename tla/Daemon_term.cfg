SPECIFICATION FairSpec
CONSTANTS
  t1 = t1
  t2 = t2
  t3 = t3
  Threads = {t1}
  MaxThreads = 1
  Sockets <- MCOneSocket
  ReloadTimes <- MCNoReload
  NoThread = NoThread
  Unstarted = Unstarted
PROPERTIES
  TermRequestsExit
