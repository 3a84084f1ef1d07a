SPECIFICATION FairSpec
CONSTANTS
  Threads = {t1, t2}
  Inits <- TwoInits
  Hooks = {"start"}
  Calls = {"start", "unload"}
  Reenters = {}
  LastStart = 1
  LastGeneration = 1
CHECK_DEADLOCK FALSE
PROPERTIES
  Discarded
