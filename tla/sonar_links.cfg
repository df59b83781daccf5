SPECIFICATION LinksSpec
CONSTANTS
  MaxChanges = 3
  None = None
  Worlds <- SomeWorlds
  NoReading = NoReading
INVARIANTS
  OneReader
  ConfigReachesSonar
  HeadInField
PROPERTIES
  SonarFound
  SweepGoesOn
  ScansSettle
CHECK_DEADLOCK FALSE
