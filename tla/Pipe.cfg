SPECIFICATION LiveSpec
CONSTANTS
  Proc = {p, q}
  Creator = p
  Byte = {0, 1}
  PIPESIZE = 2
  CounterMod = 4
  Counts = {1, 3}
  Nobody = Nobody
INVARIANTS NoLostWakeup FreedLast
PROPERTIES EofOnlyAtEnd FifoQueue HangUp
CHECK_DEADLOCK FALSE
