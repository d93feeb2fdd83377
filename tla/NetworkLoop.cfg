\* Two bridges have become a tree and B is made the root: there is a loop
\* while the new tree is agreed upon.
SPECIFICATION Spec
CONSTANTS
  HalfWord = 536870912
  MigrateTime = 3
  TxHoldCount = 6
  Port <- TwoPorts
  InitialPorts <- MCInitialPorts
  MacA <- MCMacA
  MacB <- MCMacB
  InitialPortCfg <- MCPortCfg
  InitialCfg <- MCCfg
  NewCfgs <- BecomesRoot
  MaxCalls = 1
  MaxLost = 0
  MaxCuts = 0
  MaxFaults = 1
  Deadline = 2
INVARIANTS
  LoopFree
