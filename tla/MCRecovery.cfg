SPECIFICATION Spec
CONSTANTS
  Batches = 1
  Grace = 1
  FramesPerPoll = 2
  PipeCapacity = 2
  Time = {0, 1, 2}
  LastTime = 1
  Lifetime = 1
  LastRequest = 3
  Clients = 2
  Sequence = {1, 2, 3, 4, 5, 6, 7, 8}
  Provider = {"recovery-owner"}
  NativeIdentity = {1}
  Profile = {}
  WorkUnits = {}
  LastOperationId = 1
  LastGeneration = 3
  InitialBinding <- MCBinding
  StartedAt = 0
  BindingObserver = "recovery-owner"
  WorkerObserver = "recovery-owner"
  ResultSinkObserver = "recovery-sink"
  NativeSource = "recovery-owner"
  SettlementSource = "recovery-owner"
  StopSource = "control"
  CapabilityObserver = ""
  Faults = {"crash", "executable", "spawn", "close"}
INVARIANTS
  SessionsDoNotOverlap
  OrphanIsStopped
  ResultIsTrue
  EveryResultIsAccounted
CHECK_DEADLOCK FALSE
