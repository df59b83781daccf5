SPECIFICATION Spec
CONSTANTS
  LidarCount = 1
  Data = {d1, d2}
  NoData = NoData
  Size = 4
  Modulus = 8
  Format = "PointCloud2"
INVARIANTS
  SlotsApart
PROPERTY ChannelSpec
CHECK_DEADLOCK FALSE
