\* The priority of the port towards the root is changed.
SPECIFICATION Spec
CONSTANTS
  HalfWord = 536870912
  MigrateTime = 3
  TxHoldCount = 6
  Port <- TwoPorts
  InitialPorts <- MCInitialPorts
  PortMac <- MCPortMac
  InitialPortCfg <- MCPortCfg
  InitialCfg <- MCCfg
  Received <- OldAndNew
  BridgeCfgs <- None
  PortCfgs <- PrioOnly
  Speeds <- None
  MaxRx = 1
  MaxCalls = 1
  MaxInputs = 2
INVARIANTS
  RootPortSelected
