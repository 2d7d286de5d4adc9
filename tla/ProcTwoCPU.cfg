SPECIFICATION Spec
CONSTANTS
  NoCPU = NoCPU
  CPU = {c0, c1}
  BootCPU = c0
  NPROC = 3
  MaxPid = 3
  MaxNap = 0
  MaxTicks = 0
  UINT = 8
  TicketArgs = {3}
  Calls = {"fork", "exit", "wait", "sleep", "kill", "settickets"}
INVARIANTS TypeOK OneCPUEach StackLive NoLostWakeup ParentAlive
PROPERTY RoundPicks
CHECK_DEADLOCK FALSE
