\* Liveness: sleep locks, both schedulers, sys_sleep() and the end of a pipe.
SPECIFICATION MCSpec
CONSTANTS
  c1 = c1
  tick = tick
  x = x
  None = None
  Procs <- ThreeProcs
  Nobody = Nobody
  Callers <- TwoCallers
  NoCaller = NoCaller
  Wrap = 3
  Delays <- OneTwo
  Lag = 2
INVARIANTS
  SleepsEnough
PROPERTIES
  IsMutex
  SleeperWoken
  TopPriorityRuns
  NoStarvation
  SleepEnds
  EofReached
