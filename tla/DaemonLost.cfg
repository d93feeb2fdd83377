\* Messages lost while the first dump is read, and a second start.
SPECIFICATION FairSpec
CONSTANTS
  b1 = b1
  b2 = b2
  d1 = d1
  d2 = d2
  NoBridge = NoBridge
  NoDevice = NoDevice
  Bridge <- TwoBridges
  Device <- OneDevice
  InitialKernels <- OneIn
  LibStates <- Blocked
  BridgeCfgs <- None
  PortCfgs <- None
  DumpEvery = 2
  QueueLimit = 2
  MaxChanges = 2
  MaxCommands = 0
  MaxInputs = 2
  MaxStarts = 2
PROPERTIES
  MembersFound
\* the daemon may exit for good
CHECK_DEADLOCK FALSE
