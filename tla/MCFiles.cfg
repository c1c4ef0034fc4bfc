\* Names with three inodes; descriptors of two processes; two lines typed to a shell in a
\* table of five processes.
CONSTANTS
  p1 = p1
  p2 = p2
  NoProc = NoProc
  Procs <- TwoProcs
  Inums <- ThreeInums
  ROOTINO = 1
  MaxLinks = 2
  Names <- TwoNames
  Calls <- Shallow
  Slots = {1, 2}
  NFILE = 2
  NOFILE = 2
  Pages = {1}

SPECIFICATION MCSpec

INVARIANTS
  FsInv
  InodesSound
  NoPanic
  LockOrder
  FtableInv
  ShellSound
  NoHang

\* Calls may wait for each other's inodes, and a table may be full for good.
CHECK_DEADLOCK FALSE
