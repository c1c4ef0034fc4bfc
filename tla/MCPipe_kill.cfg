\* A kill() between the test of p->killed and sleep().
SPECIFICATION BestCaseSpec
CONSTANTS
  p1 = p1
  p2 = p2
  p3 = p3
  x = x
  y = y
  NoProc = NoProc
  Procs <- TwoProcs
  Bytes <- OneByte
  Messages <- OneShort
  Sizes <- JustOne
  PIPESIZE = 1
  Wrap = 2
PROPERTIES
  KilledExits
\* The processes end.
CHECK_DEADLOCK FALSE
