\* Processes on two CPUs with four slots, of which one CPU runs the aging loop;
\* the other services with their small instances.
SPECIFICATION MCSpec
CONSTANTS
  c1 = c1
  c2 = c2
  t1 = t1
  t2 = t2
  None = None
  NPROC = 4
  Cpus <- TwoCpus
  NoCpu = NoCpu
  AgingCpus <- OneCpu
  Chans <- NoChans
  KillPids <- FirstKids
  InitPriority = 1
  MaxPid = 4
  Processors <- TwoCpus
  Threads <- TwoThreads
  Locks <- TwoLocks
  PTABLE = 2
  vertices = 4
  INF = 50
  Weights <- NearFar
  edges = 3
INVARIANTS
  TableInv
  NoMissedChild
  ServicesTypeOK
  NoSelfDeadlock
  InterruptsRestored
  HeapTiled
  MetricsSound
  ShortestPaths
  ParsesAsGrammar
PROPERTIES
  LegalTransitions
