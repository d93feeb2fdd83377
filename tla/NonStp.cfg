\* A port that was designated is taken out of the protocol, and then another hears a proposal.
SPECIFICATION Spec
CONSTANTS
  HalfWord = 536870912
  MigrateTime = 3
  TxHoldCount = 6
  Port <- TwoPorts
  InitialPorts <- MCInitialPorts
  PortMac <- MCPortMac
  InitialPortCfg <- MCPortCfg
  InitialCfg <- MCCfg
  Received <- OfferOnly
  BridgeCfgs <- None
  PortCfgs <- NonStpOnly
  Speeds <- None
  MaxRx = 2
  MaxCalls = 1
  MaxInputs = 3
INVARIANTS
  NonStpKeptForwarding
