SPECIFICATION Spec
CONSTANTS
  p = p
  q = q
  m = m
  x = x
  y = y
  Owners = {p, q}
  Modules = {m}
  Addresses = {x, y}
  Requests <- TwoPlugins
  Trampolines = {t1, t2, t3}
  NoModule = NoModule
  NoOwner = NoOwner
  NoTrampoline = NoTrampoline
  Program = Program
  Old = Old
  MayFail = {"install", "restore", "cave"}
  Restarting = {p}
  MaxEvents = 4
  MaxFailures = 1
SYMMETRY Symmetry
CHECK_DEADLOCK FALSE
INVARIANTS
  OnePatchPerTarget
  TitleCodeExact
  CaveExact
  LifetimeCurrent
  RequestsKept
