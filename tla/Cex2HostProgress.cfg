SPECIFICATION Spec
CONSTANTS
  Owners = {o1}
  Correlations = {c1, c2}
  Kinds = {"core", "storage", "captureOpen", "captureClose"}
  Workers = {w1, w2}
  MaxQueue = 2
  MaxSessions = 1
  MaxOpens = 1
  LastSession = 1
  NoTask = NoTask
  NoCorrelation = NoCorrelation
INVARIANTS
  CaptureOwned
  RevocationComplete
PROPERTIES
  StorageAnswered
  EveryRequestAnswered
