SPECIFICATION Spec
CONSTANTS
  Batches = 1
  Grace = 1
  FramesPerPoll = 2
  PipeCapacity = 2
  Time = {0, 1, 2}
  LastTime = 1
  Validity = 1
  Sequence = {1, 2, 3, 4, 5, 6, 7, 8, 9, 10, 11}
  Provider = {"p1"}
  NativeIdentity = {1}
  Profile = {"local"}
  WorkUnits = {1}
  LastOperationId = 1
  LastGeneration = 1
  InitialBinding <- MCBinding
  StartedAt = 0
  BindingObserver = "adapter"
  WorkerObserver = "adapter"
  ResultSinkObserver = "sink"
  NativeSource = "process"
  SettlementSource = "adapter"
  StopSource = "control"
  CapabilityObserver = "adapter"
  Requirement <- MCRequirement
  Deadlines = {1}
  Faults = {"spawn", "crash", "steal", "read", "close"}
INVARIANTS
  SettledIsClosed
PROPERTIES
  ShutdownEnds
