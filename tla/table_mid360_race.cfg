SPECIFICATION Spec
CONSTANTS
  c1 = c1
  c2 = c2
  c3 = c3
  l1 = l1
  Calls = {c1}
  IOThreads = {t1, t2}
  Lidars = {l1}
  LidarOf <- MCLidarOf
  Path <- AllMid360
  NoCall = NoCall
  MaxSeq = 2
  TimeOut = 1
  MaxInits = 1
PROPERTY TimeoutMeansUnanswered
CHECK_DEADLOCK FALSE
