\* Two commands at once, timeouts, and the daemon stopped and started between
\* any two steps.
SPECIFICATION FairSpec
CONSTANTS
  c1 = c1
  c2 = c2
  Client <- MCClient
  Programs <- AllPrograms
  NoCall = NoCall
  Nothing = Nothing
  Failed = Failed
  MaxCalls = 3
  QueueLimit = 1
  MaxStarts = 2
\* every command comes to an end
CHECK_DEADLOCK FALSE
INVARIANTS
  TypeOK
  ExitZero
PROPERTIES
  Implements
  AllExit
