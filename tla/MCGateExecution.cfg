SPECIFICATION Spec
CONSTANTS
  Time = {0, 1, 2}
  Sequence = {1, 2, 3}
  Provider = {"p1"}
  NativeIdentity = {"n1"}
  Profile = {"finite"}
  WorkUnits = {2}
  LastOperationId = 1
  LastGeneration = 1
  InitialBinding <- MCBinding
  StartedAt = 0
  BindingObserver = "host"
  WorkerObserver = "worker"
  ResultSinkObserver = "sink"
  NativeSource = "native"
  SettlementSource = "adapter"
  StopSource = "stop"
  CapabilityObserver = "catalog"
  Offered <- MCOffered
  Reported = {"accepted", "rejected", "started", "succeeded", "failed", "cancelled"}
  Clock = {0, 1}
  Deadlines = {1}
  Expiries = {2}
INVARIANTS
  DispositionIsFresh
  RevokedWorkIsStopped
  ResultWithinAuthority
  ReleasedIsClosed
PROPERTIES
  ImplementsDomain
  FactsAreKept
