SPECIFICATION Spec
CONSTANTS
  c1 = c1
  c2 = c2
  c3 = c3
  l1 = l1
  Calls = {c1, c2, c3}
  IOThreads = {t1, t2}
  Lidars = {l1}
  LidarOf <- MCLidarOf
  Path <- Mixed
  NoCall = NoCall
  MaxSeq = 3
  TimeOut = 1
  MaxInits = 1
INVARIANTS
  TypeOK
  SuccessMeansAnswered
  NoCallbackLost
  HeardAckIsClaimed
PROPERTIES
  PortTimeoutMeansUnanswered
  ServiceSpec
SYMMETRY ThreadSymmetry
CHECK_DEADLOCK FALSE
