SPECIFICATION LiveSpec
CONSTANTS
  Kernel = {"xv6", "ex4", "mem"}
  Proc = {p, q}
  Buf = {b1, b2}
  Sector = {1, 2, 3}
  Value = {0, 1}
  Nobody = Nobody
  MaxHeld = 1
  Written = {1}
  MaxFaults = 1
INVARIANTS OneCopy NoLostWakeup
PROPERTIES AtomicSectors IoEnds
CHECK_DEADLOCK TRUE
