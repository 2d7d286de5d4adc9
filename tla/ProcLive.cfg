SPECIFICATION FairSpec
CONSTANTS
  NoCPU = NoCPU
  CPU = {c0,c1}
  BootCPU = c0
  NPROC = 2
  MaxPid = 2
  MaxNap = 1
  MaxTicks = 0
  UINT = 8
  TicketArgs = {1}
  Calls = {"fork", "exit", "wait", "sleep", "kill"}
PROPERTIES KilledExits NapEnds
CHECK_DEADLOCK FALSE
