SPECIFICATION Spec
CONSTANTS
  Definitions <- MCDefinitions
  Inputs <- MCInputs
  Additions <- MCAdditions
  Reloaders = {t1}
  Threads = {t1, t2}
  Plugins = {p}
  MayFail = {"map", "link", "hook", "unmap"}
  MaxFailures = 2
INVARIANTS ImportsHeld ApplicationPaired FinalizedFirst NothingLeft
PROPERTY ReloadKeepsGraph
