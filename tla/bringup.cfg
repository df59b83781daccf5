SPECIFICATION ScenesSpec
CONSTANTS
  hap = hap
  mid = mid
  far = far
  Lidars = {hap, mid}
  Typed = {mid}
  Hap = {hap}
  Loader = {hap}
  Settings <- TwoSettings
  RetryLimit = 0
  MaxFaults = 2
  MaxPending = 1
  Viewed = {hap, mid, far}
  DevType <- SomeTypes
  Near = {hap, mid}
  Starting = {mid}
  Ports = {1, 2}
  PointPort <- SamePort
  ImuPort <- OwnPorts
  QueryLimit = 1
  MaxViewFaults = 2
  MaxOpen = 1
INVARIANTS
  BroughtUpInOrder
  ViewedInOrder
PROPERTY LidarsServed
CHECK_DEADLOCK FALSE
