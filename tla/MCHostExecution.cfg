SPECIFICATION Spec
CONSTANTS
  Sequence = {1, 2, 3, 4, 5}
  Provider = {"p1"}
  NativeIdentity = {1, 2}
  Profile = {}
  WorkUnits = {}
  LastOperationId = 1
  LastGeneration = 1
  InitialBinding <- MCBinding
  StartedAt = 0
  Time = {0, 1}
  LastTime = 1
  BindingObserver = "adapter"
  WorkerObserver = "worker"
  ResultSinkObserver = "sink"
  NativeSource = "worker"
  SettlementSource = "adapter"
  StopSource = "stop"
  CapabilityObserver = ""
  Clock = {0, 1}
  Deadlines = {1}
  Modes = {"cooperative", "refuse", "none"}
  Completions = {"synchronous", "deferred"}
  Controls = {"sink", "reject", "fail"}
  ObservationLimit = 1
  ReplayLimit = 1
INVARIANTS
  OperationIsCarried
  StopsAgree
