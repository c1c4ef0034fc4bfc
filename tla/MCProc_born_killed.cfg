\* kill(0) marks a free slot, and the next process in it is born killed.
SPECIFICATION Spec
CONSTANTS
  c1 = c1
  c2 = c2
  ticks = ticks
  NPROC = 2
  Cpus <- TwoCpus
  NoCpu = NoCpu
  AgingCpus <- TwoCpus
  Chans <- NoChans
  KillPids <- PidZero
  InitPriority = 2
  MaxPid = 3
PROPERTIES
  NewProcessNotKilled
