SPECIFICATION OwnerSpec
CONSTANTS
  s1 = s1
  s2 = s2
  Scope = {s1, s2}
  NoScope = NoScope
  Modes = {"permission"}
  LastGeneration = 3
  LastOperation = 2
  LastStamp = 6
  Lifetime = 3
  Wheels = 1
  Ramped = FALSE
  ClockRegresses = FALSE
  Period = 1
  ScopeOf <- MCScopeOf
INVARIANTS
  SettledIsAtRest
PROPERTIES
  GrantsEnd
  NoFalseAlarm
