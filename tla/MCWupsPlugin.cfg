SPECIFICATION FairSpec
CONSTANTS
  Threads = {t1, t2}
  Inits <- TwoInits
  Hooks = {"end", "exit"}
  Calls = {"start", "exit", "end", "unload"}
  Reenters = {"end", "unload"}
  LastStart = 2
  LastGeneration = 1
CHECK_DEADLOCK FALSE
INVARIANTS
  TeardownAlone
  FinalizersRun
  EndsOnce
PROPERTIES
  FinalizersInOrder
  PostponedIsDone
  CallsReturn
