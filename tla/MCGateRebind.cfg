SPECIFICATION RunningSpec
CONSTANTS
  Time = {0, 1, 2}
  Sequence = {1, 2, 3, 4}
  Provider = {"p1"}
  NativeIdentity = {"n1"}
  Profile = {}
  WorkUnits = {}
  LastOperationId = 2
  LastGeneration = 2
  InitialBinding <- MCBinding
  StartedAt = 0
  BindingObserver = "owner"
  WorkerObserver = "worker"
  ResultSinkObserver = "sink"
  NativeSource = "owner"
  SettlementSource = "owner"
  StopSource = "stop"
  CapabilityObserver = ""
  Offered <- MCOffered
  Reported = {"started", "succeeded"}
  Clock = {0, 1}
  Deadlines = {}
  Expiries = {2}
INVARIANTS
  ReadinessFollowsOldWork
PROPERTIES
  AdmissionIsSerialized
