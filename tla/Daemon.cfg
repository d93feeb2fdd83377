\* Two bridges and two devices; the kernel's changes overtake the messages
\* that tell of them, among the commands of rstpctl.
SPECIFICATION Spec
CONSTANTS
  b1 = b1
  b2 = b2
  d1 = d1
  d2 = d2
  NoBridge = NoBridge
  NoDevice = NoDevice
  Bridge <- TwoBridges
  Device <- TwoDevices
  InitialKernels <- OneIn
  LibStates <- Blocked
  BridgeCfgs <- MCBridgeCfgs
  PortCfgs <- MCPortCfgs
  DumpEvery = 1
  QueueLimit = 4
  MaxChanges = 4
  MaxCommands = 4
  MaxInputs = 4
  MaxStarts = 1
INVARIANTS
  TypeOK
  ListsAgree
  Tracked
  NoOrphanPort
  ConfigKept
  Speaks
\* the daemon may exit for good
CHECK_DEADLOCK FALSE
