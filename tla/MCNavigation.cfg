SPECIFICATION Spec
CONSTANTS
  Sequence = {1, 2, 3, 4, 5, 6}
  Provider = {"p1"}
  NativeIdentity = {1, 2}
  Profile = {"navigation"}
  WorkUnits = {1}
  LastOperationId = 2
  LastGeneration = 1
  InitialBinding <- MCBinding
  StartedAt = 0
  Time = {0, 1}
  BindingObserver = "launcher"
  WorkerObserver = "nav2"
  ResultSinkObserver = "sink"
  NativeSource = "action"
  SettlementSource = "closure"
  StopSource = "stop"
  CapabilityObserver = "example"
  Budget = 2
  ScanLimit = 2
  CostmapLimit = 1
  Frames = 2
  QuietSamples = 2
  QuietTime = 1
  Cases <- MCCases
INVARIANTS
  StopsReachTheGoal
  RetainedIsHarmless
PROPERTIES
  SettlementIsEarned
  OutputIsObserved
  ResumeIsClear
CHECK_DEADLOCK FALSE
