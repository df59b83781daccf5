SPECIFICATION LinksSpec
CONSTANTS
  MaxChanges = 3
  None = None
  Worlds <- Sectors
  NoReading = NoReading
PROPERTY LatestReadingWritten
CHECK_DEADLOCK FALSE
