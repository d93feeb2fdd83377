\* A bridge whose ports come to forward, with a better root or without.
SPECIFICATION Spec
CONSTANTS
  HalfWord = 536870912
  MigrateTime = 3
  TxHoldCount = 6
  Port <- TwoPorts
  InitialPorts <- MCInitialPorts
  PortMac <- MCPortMac
  InitialPortCfg <- MCPortCfg
  InitialCfg <- MCCfg
  Received <- OfferOnly
  BridgeCfgs <- None
  PortCfgs <- None
  Speeds <- None
  MaxRx = 1
  MaxCalls = 0
  MaxInputs = 1
INVARIANTS
  ChangeDetected
