SPECIFICATION SceneSpec
CONSTANTS
  LidarCount = 2
  Data = {d1}
  NoData = NoData
  Size = 1
  Modulus = 2
  Format = "Custom"
INVARIANT NoLostWakeup
PROPERTIES
  QueueMoves
  ShutdownCompletes
CHECK_DEADLOCK FALSE
