SPECIFICATION Spec
CONSTANTS
  Sequence = {1, 2, 3, 4, 5}
  Provider = {"p1"}
  NativeIdentity = {1, 2}
  Profile = {}
  WorkUnits = {}
  LastOperationId = 2
  LastGeneration = 2
  InitialBinding <- MCBinding
  StartedAt = 0
  Time = {0, 1}
  LastTime = 1
  BindingObserver = "adapter"
  WorkerObserver = "worker"
  ResultSinkObserver = "sink"
  NativeSource = "worker"
  SettlementSource = "adapter"
  StopSource = "stop"
  CapabilityObserver = ""
  Clock = {0}
  Deadlines = {}
  Modes = {}
  Completions = {"deferred"}
  Controls = {"replay"}
  ObservationLimit = 3
  ReplayLimit = 1
INVARIANTS
  SinkAgreesWithGate
PROPERTIES
  DeliveredWithinAuthority
