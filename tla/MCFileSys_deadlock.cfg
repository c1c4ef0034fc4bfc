CONSTANTS
  p1 = p1
  p2 = p2
  NoProc = NoProc
  Procs <- TwoProcs
  Inums <- FourInums
  ROOTINO = 1
  MaxLinks = 3
  Names <- TwoNames
  Calls <- SameFile

SPECIFICATION Spec

INVARIANTS
  NoCircularWait

CHECK_DEADLOCK FALSE
