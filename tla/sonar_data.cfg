CONSTANTS
  MaxRest = 4
  Frames <- SomeFrames
  Known <- SomeKnown
  Garbage = {0, 11, 4106}
  Capacity = 4096
  Noise = {0, 1, 66, 82}
  MaxFrames = 2
  MaxFaults = 1
  Kinds = {"profile", "general_info", "device_data", "auto_device_data"}
  Lengths = {0, 1, 2}
  SetTo = {1, 2}
  Adjusted = {"gain_setting", "range"}
  MaxMessages = 3
  MaxSets = 2
  Values = {"default", "other"}
  TooWide = "wide"
  Automatic = "other"
  Tuned = {"range"}
  MaxTimeouts = 2
  MaxLost = 1
  MaxCalls = 3
  MaxChosen = 1
  Tried <- SomeValues
  NumBeams = 4
  Ranges = {1, 2}
  Resolutions = {1, 3}
  Bearings <- TwoFans
  Frequencies <- TwoFrequencies
  MaxChanges = 1
  MaxPings = 2
  MaxFanChanges = 1
  EchoRanges = {20, 50, 300}
  Bags <- SomeBags
  MaxBuffered = 2
  MaxEchoFrames = 2
  MaxEchoCalls = 2
INIT Init
NEXT Next
INVARIANTS
  FieldsReadBack
  LatestHeld
  SettingsHeld
  FiredAsSet
  FovAsMeasured
PROPERTIES
  FramesDelivered
  SetConfirmed
  PublishedFresh
  PingsShown
CHECK_DEADLOCK FALSE
