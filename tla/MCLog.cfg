\* Two calls of two blocks each share a log of four, where a call that begins again
\* before its group commits has to wait for room; a crash between any two steps.  Two
\* readers at the console, with a ring of two characters and indices modulo four.  Two
\* processes that grow, shrink, fork and exec in eleven pages.
SPECIFICATION MCSpec
CONSTANTS
  p1 = p1
  p2 = p2
  b1 = b1
  b2 = b2
  x = x
  y = y
  t1 = t1
  t2 = t2
  NoBlock = NoBlock
  Procs <- TwoProcs
  Blocks <- TwoBlocks
  Data <- TwoData
  LOGSIZE = 4
  MAXOPBLOCKS = 2
  NLOG = 4
  OpBlocks = 2
  Readers <- TwoReaders
  None = None
  INPUT_BUF = 2
  Wrap = 4
  Sizes <- ShortLong
  Users <- TwoUsers
  NoUser = 0
  FirstUser = 1
  NPages = 11
  PGSIZE = 2
  NPTENTRIES = 2
  KERNBASE = 8
  KernelTables = 1
  Ends <- OneEnd
  Growths <- UpDown
INVARIANTS
  IInv
  ConsInv
  MemorySound
PROPERTIES
  CrashAtomic
  SleeperWoken
  IsLineBuffer
