\* Two buffers for three blocks, of which the log holds one; two files that grow into
\* their indirect blocks on a disk of seven blocks; an image with up to three files.
SPECIFICATION MCSpec
CONSTANTS
  p1 = p1
  p2 = p2
  b1 = b1
  b2 = b2
  x = x
  y = y
  NoProc = NoProc
  NoBuf = NoBuf
  Procs <- TwoProcs
  Bufs <- TwoBufs
  Blocks <- ThreeBlocks
  Values <- TwoValues
  MaxHeld = 2
  MaxPinned = 1
  Outcomes <- NoErrors
  Callers <- TwoCallers
  NoCaller = 0
  Inums <- TwoInums
  NoInum = 0
  NBlocks = 7
  BSIZE = 2
  NDIRECT = 1
  BPB = 1
  MAXOPBLOCKS = 6
  Lengths <- JustThree
  Reserve = 3
INVARIANTS
  PanicOnlyWhenFull
  FilesSound
  TransactionFits
  ImageSound
PROPERTIES
  IsStore
  IoCompletes

CHECK_DEADLOCK FALSE
