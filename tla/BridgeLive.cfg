\* One BPDU of any kind, and then silence.
SPECIFICATION FairSpec
CONSTANTS
  HalfWord = 536870912
  MigrateTime = 3
  TxHoldCount = 6
  Port <- TwoPorts
  InitialPorts <- MCInitialPorts
  PortMac <- MCPortMac
  InitialPortCfg <- MCPortCfg
  InitialCfg <- MCCfg
  Received <- EveryKind
  BridgeCfgs <- None
  PortCfgs <- None
  Speeds <- None
  MaxRx = 1
  MaxCalls = 0
  MaxInputs = 1
PROPERTIES
  Returns
  Recovers
  HellosForever
