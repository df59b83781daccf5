CONSTANTS
  Blocks = 3
  TryLimit = 2
  ProgressLimit = 3
  MaxDoubles = 2
  Files = 2
  Packets = 2
  CacheSize = 3
  MaxTime = 1
  MaxFaults = 1
  MaxSessions = 3
  MaxFds = 4
  MaxFound = 1
  IdLimit = 3
  MaxAdds = 4
  MaxStored = 2
  MaxSwitches = 3
SPECIFICATION Spec
INVARIANTS
  UpgradeSound
  LogsIntact
  SessionsApart
  OutletsKept
PROPERTY ServicesEnd
CHECK_DEADLOCK FALSE
