SPECIFICATION FairSpec
CONSTANTS
  Threads = {t1, t2}
  NoThread = NoThread
PROPERTIES
  StopRuns
