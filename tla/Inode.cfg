SPECIFICATION Spec
CONSTANTS
  Proc = {p, q}
  NInodes = 4
  Name = {"a", "b"}
  Path <- Paths
  NewPath <- NewPaths
  Made <- Chain
  Calls = {"open", "create", "mkdir", "mknod", "link", "unlink", "chdir"}
  MaxCalls = 2
INVARIANTS TypeOK NamesCovered CacheBalanced NothingLost PanicOnlyDotDot NoDeadlock
CHECK_DEADLOCK FALSE
SYMMETRY Swap
