\* A process that yields at priority 0 is picked again before all others.
SPECIFICATION BestCaseSpec
CONSTANTS
  c1 = c1
  c2 = c2
  ticks = ticks
  NPROC = 2
  Cpus <- OneCpu
  NoCpu = NoCpu
  AgingCpus <- OneCpu
  Chans <- OneChan
  KillPids <- NoPids
  InitPriority = 2
  MaxPid = 3
PROPERTIES
  NoStarvation
