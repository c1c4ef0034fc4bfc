------------------------------ MODULE MCStorage ------------------------------
(***************************************************************************)
(* The buffer cache, with fewer buffers than blocks, the contents of       *)
(* files, and the image that mkfs makes.  They share no state in their     *)
(* models; `part' names the one that moves.                                *)
(***************************************************************************)
EXTENDS Bcache, FileData

CONSTANTS p1, p2, b1, b2, x, y

TwoProcs    == {p1, p2}
TwoBufs     == {b1, b2}
ThreeBlocks == 1..3
TwoValues   == {x, y}
NoErrors    == {TRUE}
TwoCallers  == 1..2
TwoInums    == 1..2
JustThree   == {3}

VARIABLES
  part,
  mpc, img, mdinode, mbitmap, freeinode, freeblock, inum, left, call   \* Mkfs

Image == INSTANCE Mkfs
           WITH pc <- mpc, dinode <- mdinode, bitmap <- mbitmap,
                BSIZE <- 2, NDIRECT <- 1, NINDIRECT <- 2, BPB <- 14, nmeta <- 3,
                FSSIZE <- 20, NINODES <- 4, Lengths <- {0, 1, 3, 6, 7}

imageVars == <<mpc, img, mdinode, mbitmap, freeinode, freeblock, inum, left, call>>
otherVars == <<fileVars, imageVars>>

\* The part that does not move stays as it began. Another order of the buffers, or other
\* data in them before they are filled, is this one with b1 and b2, or x and y, exchanged.
MCInit ==
  /\ Init /\ FileInit /\ Image!Init
  /\ lru = <<b1, b2>> /\ data = [b \in Bufs |-> x]
  /\ \/ part = "cache"
     \/ part \in {"file", "image"} /\ disk = [b \in Blocks |-> x]

MCNext ==
  /\ \/ part = "cache" /\ Next /\ UNCHANGED otherVars
     \/ part = "file" /\ FileNext /\ UNCHANGED <<vars, imageVars>>
     \/ part = "image" /\ Image!Next /\ UNCHANGED <<vars, fileVars>>
  /\ UNCHANGED part

MCSpec == MCInit /\ [][MCNext]_<<part, vars, otherVars>> /\ Fairness

-----------------------------------------------------------------------------
\* The property of the other module, stated there.
ImageSound == part = "image" => Image!TypeOK /\ Image!ImageSound
=============================================================================
