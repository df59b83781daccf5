CONSTANTS
  DevTypes = {"HAP", "Mid360", "PA"}
  MaxRequests = 1
  Addresses <- SomeAddresses
  Files <- SomeFiles
  MaxSourceLidar = 2
  l1 = l1
  l2 = l2
  Lidars = {l1, l2}
  Interval = 3
  MaxTime = 8
  MaxLost = 1
  MaxQueue = 2
  Slots = {0, 1}
  TypeCodes = {9, 15}
  Translations <- SomeTranslations
  Depth = 2000
  MaxClouds = 1
  MaxImu = 2
  NoTopic = NoTopic
INIT Init
NEXT Next
INVARIANT TopicBearsSensor
SYMMETRY Symmetry
CHECK_DEADLOCK FALSE
