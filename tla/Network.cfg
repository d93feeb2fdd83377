\* Two bridges are started at once and become a tree; at some moment a BPDU is
\* lost, a link is cut or B is made the root.
SPECIFICATION Spec
CONSTANTS
  HalfWord = 536870912
  MigrateTime = 3
  TxHoldCount = 6
  Port <- TwoPorts
  InitialPorts <- MCInitialPorts
  MacA <- MCMacA
  MacB <- MCMacB
  InitialPortCfg <- MCPortCfg
  InitialCfg <- MCCfg
  NewCfgs <- BecomesRoot
  MaxCalls = 1
  MaxLost = 1
  MaxCuts = 1
  MaxFaults = 1
  Deadline = 2
INVARIANTS
  NoLastingLoop
  Converges
