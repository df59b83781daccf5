SPECIFICATION FairSpec
CONSTANTS
  c1 = c1
  c2 = c2
  c3 = c3
  l1 = l1
  Calls = {c1, c3}
  IOThreads = {t1, t2}
  Lidars = {l1}
  LidarOf <- MCLidarOf
  Path <- Mixed
  NoCall = NoCall
  MaxSeq = 2
  TimeOut = 1
  MaxInits = 2
PROPERTY EveryCallReported
CHECK_DEADLOCK FALSE
