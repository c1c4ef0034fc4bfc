\* Three processes share a pipe of two bytes, counted modulo four.
SPECIFICATION Spec
CONSTANTS
  p1 = p1
  p2 = p2
  p3 = p3
  x = x
  y = y
  NoProc = NoProc
  Procs <- ThreeProcs
  Bytes <- TwoBytes
  Messages <- JustLong
  Sizes <- OneTwo
  PIPESIZE = 2
  Wrap = 4
SYMMETRY Alike
INVARIANTS
  NoLostWakeup
  FreedLast
PROPERTIES
  IsStream

\* The processes end.
CHECK_DEADLOCK FALSE
