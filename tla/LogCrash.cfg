SPECIFICATION LiveSpec
CONSTANTS
  NoBlock = NoBlock
  Proc = {p, q}
  Block = {a, b}
  MAXOPBLOCKS = 2
  LOGSIZE = 4
  NLog = 5
  MaxWrites = 4
  MaxCrashes = 2
INVARIANTS TypeOK Quiesced DurableWhenQuiet
PROPERTIES CrashAtomic SleepersWake
CHECK_DEADLOCK FALSE
