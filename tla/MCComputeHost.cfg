SPECIFICATION Spec
CONSTANTS
  Batches = 1
  Grace = 1
  FramesPerPoll = 2
  PipeCapacity = 2
  Time = {0, 1, 2}
  LastTime = 1
  Validity = 1
  Sequence = {1, 2, 3, 4, 5, 6, 7, 8, 9, 10, 11}
  Provider = {"p1"}
  NativeIdentity = {1, 2}
  Profile = {"local"}
  WorkUnits = {1}
  LastOperationId = 2
  LastGeneration = 2
  InitialBinding <- MCBinding
  StartedAt = 0
  BindingObserver = "adapter"
  WorkerObserver = "adapter"
  ResultSinkObserver = "sink"
  NativeSource = "process"
  SettlementSource = "adapter"
  StopSource = "control"
  CapabilityObserver = "adapter"
  Requirement <- MCRequirement
  Deadlines = {1}
  Faults = {"executable", "close"}
INVARIANTS
  ReportsAreAccepted
PROPERTIES
  ImplementsDomain
