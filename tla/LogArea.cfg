SPECIFICATION Spec
CONSTANTS
  NoBlock = NoBlock
  Proc = {p, q}
  Block = {a, b}
  MAXOPBLOCKS = 1
  LOGSIZE = 2
  NLog = 2
  MaxWrites = 3
  MaxCrashes = 0
INVARIANTS StaysInLog
CHECK_DEADLOCK FALSE
