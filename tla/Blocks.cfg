SPECIFICATION Spec
CONSTANTS
  Kernel = {"xv6", "ex4"}
  Proc = {p, q}
  File = {f, g}
  NBLOCKS = 8
  NBITS = 9
  NDIRECT = 1
  NINDIRECT = 3
  Sizes = {1, 5}
  MaxCalls = 4
  Nobody = Nobody
INVARIANTS DiskSafe FreeIsZero NothingLeaks
CHECK_DEADLOCK FALSE
SYMMETRY Swap
