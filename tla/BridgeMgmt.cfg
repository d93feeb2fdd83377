\* Two management or link calls in a row, or one of them and one BPDU of an older bridge.
SPECIFICATION Spec
CONSTANTS
  HalfWord = 536870912
  MigrateTime = 3
  TxHoldCount = 6
  Port <- ThreePorts
  InitialPorts <- MCInitialPorts
  PortMac <- MCPortMac
  InitialPortCfg <- MCPortCfg
  InitialCfg <- MCCfg
  Received <- OldOnly
  BridgeCfgs <- BridgeCfgsAll
  PortCfgs <- PortCfgsAll
  Speeds <- SlowLink
  MaxRx = 1
  MaxCalls = 2
  MaxInputs = 2
INVARIANTS
  SelectedOrReselect
  SegmentRule
  NonStpForwards
PROPERTIES
  McheckServed
  RestartBlocks
  EveryPortGated
