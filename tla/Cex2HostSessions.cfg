SPECIFICATION Spec
CONSTANTS
  Owners = {o1}
  Correlations = {c1, c2}
  Kinds = {"subscribe", "unsubscribe", "inject", "clipboard"}
  Workers = {}
  MaxQueue = 2
  MaxSessions = 2
  MaxOpens = 1
  LastSession = 2
  NoTask = NoTask
  NoCorrelation = NoCorrelation
SYMMETRY Symmetry
INVARIANTS
  QueueBounded
  ExactlyOnce
  OneSessionPerOwner
  ClipboardFlag
PROPERTIES
  ContractSpec
