\* Any two BPDUs on either of two ports, at any moment.
SPECIFICATION Spec
CONSTANTS
  HalfWord = 536870912
  MigrateTime = 3
  TxHoldCount = 6
  Port <- TwoPorts
  InitialPorts <- MCInitialPorts
  PortMac <- MCPortMac
  InitialPortCfg <- MCPortCfg
  InitialCfg <- MCCfg
  Received <- RootMoves
  BridgeCfgs <- None
  PortCfgs <- None
  Speeds <- None
  MaxRx = 2
  MaxCalls = 0
  MaxInputs = 2
INVARIANTS
  TypeOK
  RolesSettled
  NothingPending
  BlockedDiscards
  SegmentRule
  RootIsBest
  NoOverAge
  HonestHello
  ProposalAnswered
