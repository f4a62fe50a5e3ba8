SPECIFICATION FairSpec
CONSTANTS
  LastTime = 1
  Validity = 1
  Renewal = 1
  MaximumRecords = 2
  Chunk = 2
  MaximumSteps = 3
  Steps <- MCSteps
  Deadlines = {1}
  Profiles = {"handoff"}
  Faults = {"crash", "stuck", "foreign", "step", "begin", "reset"}
  Time = {0, 1, 2}
  Sequence = {1, 2, 3, 4, 5, 6, 7, 8, 9, 10, 11}
  Provider = {"worker"}
  NativeIdentity = {1, 2}
  Profile = {"session"}
  WorkUnits = {1, 2, 3}
  LastOperationId = 2
  LastGeneration = 1
  InitialBinding <- MCBinding
  StartedAt = 0
  BindingObserver = "binding"
  WorkerObserver = "worker"
  ResultSinkObserver = "sink"
  NativeSource = "episode"
  SettlementSource = "closure"
  StopSource = "control"
  CapabilityObserver = "capabilities"
INVARIANTS
  RecordsAreTrue
  EndsInOrder
PROPERTIES
  EffectsAreAuthorized
  CloseEnds
CHECK_DEADLOCK FALSE
