SPECIFICATION FairSpec
CONSTANTS
  Callers = {a, b, c}
  Cores = {k, l}
  LastTask = 3
  LastTitle = 2
INVARIANTS
  CallerOutlivesCallback
  AnswerIsTrue
  QueueExact
PROPERTIES
  CallReturns
CHECK_DEADLOCK FALSE
