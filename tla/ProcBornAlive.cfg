SPECIFICATION Spec
CONSTANTS
  NoCPU = NoCPU
  CPU = {c0}
  BootCPU = c0
  NPROC = 2
  MaxPid = 3
  MaxNap = 0
  MaxTicks = 0
  UINT = 8
  TicketArgs = {1}
  Calls = {"fork", "exit", "wait", "kill"}
PROPERTY BornAlive
CHECK_DEADLOCK FALSE
