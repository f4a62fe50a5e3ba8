SPECIFICATION FairSpec
CONSTANTS
  s1 = s1
  s2 = s2
  Scope = {s1, s2}
  NoScope = NoScope
  Modes = {"permission", "generation", "one_shot"}
  LastGeneration = 2
  LastOperation = 2
  LastStamp = 4
  Lifetime = 2
  Wheels = 2
  Ramped = TRUE
  ClockRegresses = TRUE
INVARIANTS
  AcknowledgedIsOver
  OnlyCurrentCommands
PROPERTIES
  SealedComesToRest
  LapseIsFinal
  LapseComesToRest
