SPECIFICATION LiveSpec
CONSTANTS
  Threads = {t1, t2, t3}
  NoThread = NoThread
INVARIANTS
  CallbackIsExclusive
  CountIsLeases
PROPERTIES
  ExclusionSpec
  StopRunsUnlessMissed
