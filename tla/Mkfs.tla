--------------------------------- MODULE Mkfs ---------------------------------
(***************************************************************************)
(* mkfs.c: the disk image with the root directory and the files of the     *)
(* command line, which the kernel starts from.  A block holds BSIZE words; *)
(* a word is a directory entry, a datum of a file, a block number, or 0.   *)
(***************************************************************************)
EXTENDS Integers, Sequences, FiniteSets

CONSTANTS
  BSIZE,         \* words of a block
  NDIRECT,       \* block numbers in an inode
  NINDIRECT,     \* block numbers in an indirect block
  BPB,           \* blocks that one block of the bitmap can mark
  nmeta,         \* blocks before the first data block
  FSSIZE,        \* blocks of the image
  NINODES,       \* bound: inodes, and so files
  Lengths        \* bound: the lengths of the files, in words

Root     == 1
MAXFILE  == NDIRECT + NINDIRECT
Sectors  == 0 .. FSSIZE - 1
ImageInums == 1 .. NINODES
Zero     == <<"zero", 0>>
Zeroes   == [j \in 0 .. BSIZE - 1 |-> Zero]

VARIABLES
  pc,            \* where main() is, or "append" in iappend()
  img,           \* the blocks of the image
  dinode,        \* the inodes on it, without those that are free
  bitmap,        \* the blocks marked in use
  freeinode, freeblock,
  inum,          \* the file that is copied
  left,          \* what read() has still to give of it: offsets from and to
  call           \* iappend(): its inode, its copy din, what is left of buf, pc after it

vars == <<pc, img, dinode, bitmap, freeinode, freeblock, inum, left, call>>

NoCall == [inum |-> 0, din |-> 0, p |-> <<>>, ret |-> "done"]

Init ==
  /\ pc = "root" /\ img = [b \in Sectors |-> Zeroes] /\ dinode = <<>> /\ bitmap = {}
  /\ freeinode = Root /\ freeblock = nmeta
  /\ inum = 0 /\ left = <<0, 0>> /\ call = NoCall

\* ialloc(): an inode of size 0 with one link, numbered in order.
NewInode(type) ==
  [type |-> type, nlink |-> 1, size |-> 0, addrs |-> [a \in 0 .. NDIRECT |-> 0]]
Ialloc(inodes, type) == Append(inodes, NewInode(type))

\* The call of iappend(i, words).
Iappend(inodes, i, words, ret) ==
  /\ pc' = "append"
  /\ call' = [inum |-> i, din |-> inodes[i], p |-> words, ret |-> ret]
  /\ dinode' = inodes

MakeRoot ==
  /\ pc = "root"
  /\ Iappend(Ialloc(dinode, "dir"), Root, << <<".", Root>>, <<"..", Root>> >>, "next")
  /\ freeinode' = freeinode + 1
  /\ UNCHANGED <<img, bitmap, freeblock, inum, left>>

\* The next file: its inode, and its entry in the root directory.
NextFile(n) ==
  /\ pc = "next" /\ freeinode <= NINODES
  /\ inum' = freeinode /\ left' = <<0, n>>
  /\ Iappend(Ialloc(dinode, "file"), Root, << <<"name", freeinode>> >>, "copy")
  /\ freeinode' = freeinode + 1
  /\ UNCHANGED <<img, bitmap, freeblock>>

Least(a, b) == IF a <= b THEN a ELSE b

\* read() of up to a block of the file, and iappend() of what it gave, which may be less.
Copy(cc) ==
  /\ pc = "copy" /\ cc <= left[2] - left[1]
  /\ Iappend(dinode, inum, [j \in 1 .. cc |-> <<"datum", inum, left[1] + j - 1>>], "copy")
  /\ left' = <<left[1] + cc, left[2]>>
  /\ UNCHANGED <<img, bitmap, freeinode, freeblock, inum>>

CopyEnd ==
  /\ pc = "copy" /\ left[1] = left[2]
  /\ pc' = "next"
  /\ UNCHANGED <<img, dinode, bitmap, freeinode, freeblock, inum, left, call>>

-----------------------------------------------------------------------------
(* iappend(): a turn of its loop, for the part of p in one block           *)

fbn == call.din.size \div BSIZE

\* The words that still fit in the block.
Fit_Whole == Least(Len(call.p), BSIZE)
Fit == Least(Len(call.p), (fbn + 1) * BSIZE - call.din.size)

\* The block to with the first words of p in it.
Filled(to, before) ==
  [j \in 0 .. BSIZE - 1 |->
     LET k == (j + 1) - (call.din.size % BSIZE) IN IF k \in 1 .. Fit THEN call.p[k] ELSE before[to][j]]

\* bcopy() into block to; off, which is the size of din in the end, moves.
Put(to, before, addrs) ==
  /\ img' = [before EXCEPT ![to] = Filled(to, before)]
  /\ call' = [call EXCEPT !.p = SubSeq(call.p, Fit + 1, Len(call.p)),
                          !.din = [@ EXCEPT !.size = @ + Fit, !.addrs = addrs]]

AppendDirect ==
  /\ pc = "append" /\ call.p # <<>> /\ fbn < NDIRECT
  /\ LET new == call.din.addrs[fbn] = 0
         to  == IF new THEN freeblock ELSE call.din.addrs[fbn] IN
     /\ freeblock' = IF new THEN freeblock + 1 ELSE freeblock
     /\ Put(to, img, [call.din.addrs EXCEPT ![fbn] = to])
  /\ UNCHANGED <<pc, dinode, bitmap, freeinode, inum, left>>

AppendIndirect ==
  /\ pc = "append" /\ call.p # <<>> /\ fbn \in NDIRECT .. MAXFILE - 1
  /\ LET newTable == call.din.addrs[NDIRECT] = 0
         table    == IF newTable THEN freeblock ELSE call.din.addrs[NDIRECT]
         free     == IF newTable THEN freeblock + 1 ELSE freeblock
         new      == img[table][fbn - NDIRECT] = Zero
         to       == IF new THEN free ELSE img[table][fbn - NDIRECT][2] IN
     /\ freeblock' = IF new THEN free + 1 ELSE free
     /\ Put(to, [img EXCEPT ![table][fbn - NDIRECT] = <<"block", to>>],
            [call.din.addrs EXCEPT ![NDIRECT] = table])
  /\ UNCHANGED <<pc, dinode, bitmap, freeinode, inum, left>>

\* The end of iappend(): winode().
AppendEnd ==
  /\ pc = "append" /\ call.p = <<>>
  /\ dinode' = [dinode EXCEPT ![call.inum] = call.din]
  /\ pc' = call.ret /\ call' = NoCall
  /\ UNCHANGED <<img, bitmap, freeinode, freeblock, inum, left>>

\* assert(fbn < MAXFILE)
AppendAbort ==
  /\ pc = "append" /\ call.p # <<>> /\ fbn >= MAXFILE
  /\ pc' = "abort"
  /\ UNCHANGED <<img, dinode, bitmap, freeinode, freeblock, inum, left, call>>

-----------------------------------------------------------------------------
\* After the last file: the size of the root directory in whole blocks, and the bitmap.
RootSize(size) == ((size \div BSIZE) + 1) * BSIZE

Used == 0 .. freeblock - 1

Finish ==
  /\ pc = "next"
  /\ dinode' = [dinode EXCEPT ![Root].size = RootSize(@)]
  /\ IF freeblock < BPB
     THEN bitmap' = Used /\ pc' = "done"
     ELSE pc' = "abort" /\ UNCHANGED bitmap      \* the assert of balloc()
  /\ UNCHANGED <<img, freeinode, freeblock, inum, left, call>>

Next ==
  \/ MakeRoot \/ CopyEnd \/ AppendDirect \/ AppendIndirect \/ AppendEnd \/ AppendAbort \/ Finish
  \/ \E cc \in 1 .. BSIZE : Copy(cc)
  \/ \E n \in Lengths : NextFile(n)

Spec == Init /\ [][Next]_vars

-----------------------------------------------------------------------------
(* Properties                                                              *)

TypeOK ==
  /\ pc \in {"root", "next", "copy", "append", "done", "abort"}
  /\ DOMAIN img = Sectors /\ bitmap \subseteq Sectors
  /\ freeinode \in Root .. NINODES + 1 /\ freeblock \in nmeta .. FSSIZE
  /\ Len(dinode) = freeinode - 1 /\ inum \in 0 .. NINODES

Allocated == {i \in ImageInums : i < freeinode}

\* The number of the block that holds the words from k * BSIZE on of inode i.
BlockOf(i, k) ==
  LET addrs == dinode[i].addrs IN
  IF k < NDIRECT THEN addrs[k]
  ELSE IF addrs[NDIRECT] = 0 THEN 0 ELSE img[addrs[NDIRECT]][k - NDIRECT][2]

\* The places of the image that name a block, and the block they name.
Refs ==
  {<<i, a>> \in Allocated \X (0 .. NDIRECT) : dinode[i].addrs[a] # 0}
    \cup {<<i, k + 1>> : <<i, k>> \in {<<j, m>> \in Allocated \X (NDIRECT .. MAXFILE - 1) :
                                       BlockOf(j, m) # 0}}
Target(ref) ==
  IF ref[2] <= NDIRECT THEN dinode[ref[1]].addrs[ref[2]] ELSE BlockOf(ref[1], ref[2] - 1)

Word(i, o) == img[BlockOf(i, o \div BSIZE)][o % BSIZE]

\* When mkfs has ended, the image is one that the kernel may start from: the bitmap marks the
\* blocks before the data and those that an inode names, each of which is named once; each file
\* has its words in their order; and the root directory has an entry for itself twice
\* and for each file once, with zeroes behind, as many as its whole blocks hold. A directory
\* that fills its blocks exactly is given one block more, which it does not have.
ImageSound ==
  pc = "done" =>
    /\ \A r, s \in Refs : Target(r) = Target(s) => r = s
    /\ bitmap = 0 .. nmeta - 1 \cup {Target(r) : r \in Refs}
    /\ \A i \in Allocated \ {Root} : \A o \in 0 .. dinode[i].size - 1 : Word(i, o) = <<"datum", i, o>>
    /\ Word(Root, 0) = <<".", Root>> /\ Word(Root, 1) = <<"..", Root>>
    /\ \A i \in Allocated \ {Root} : Word(Root, i) = <<"name", i>>
    /\ \A o \in freeinode .. dinode[Root].size - 1 :
         IF BlockOf(Root, o \div BSIZE) = 0 THEN freeinode % BSIZE = 0 ELSE Word(Root, o) = Zero
===============================================================================
