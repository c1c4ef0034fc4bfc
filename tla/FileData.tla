------------------------------- MODULE FileData -------------------------------
(***************************************************************************)
(* The contents of files (fs.c: balloc(), bfree(), bmap(), itrunc(),       *)
(* readi(), writei(); file.c: fileread(), filewrite()): block numbers in   *)
(* the inode and in an indirect block, a bitmap of free blocks, writes cut *)
(* into transactions that the log has room for.                            *)
(*                                                                         *)
(* A block holds BSIZE words, each a datum or a block number. Steps of one *)
(* inode exclude each other (ilock()); steps of two inodes interleave.     *)
(***************************************************************************)
EXTENDS Integers, FiniteSets

CONSTANTS
  Callers, NoCaller,
  Inums,          \* each with one open file, which the processes share
  NoInum,
  NBlocks,        \* blocks for data; 0 is no block
  BSIZE, NDIRECT,
  BPB,            \* bits of a bitmap block
  MAXOPBLOCKS,
  Lengths,        \* bound: of the reads and writes
  Reserve         \* bound: free blocks for each write that is under way, so that
                  \* balloc() does not panic

ASSUME FileDataAssumption ==
  /\ NoCaller \notin Callers /\ NoInum \notin Inums /\ Inums \subseteq Nat
  /\ NBlocks \in Nat /\ NDIRECT \in Nat
  /\ BSIZE \in Nat \ {0} /\ BPB \in Nat \ {0}
  /\ MAXOPBLOCKS \in Nat /\ MAXOPBLOCKS >= 6
  /\ Lengths \subseteq Nat \ {0} /\ Reserve \in Nat

DataBlocks == 1 .. NBlocks
NINDIRECT  == BSIZE
MAXFILE    == NDIRECT + NINDIRECT
Words      == 0 .. BSIZE - 1
Zeroes     == [w \in Words |-> 0]

\* The word that belongs at an offset of a file, no block number: every write
\* writes there what it should hold.
Datum(i, o) == NBlocks + 2 + o + (i * MAXFILE * BSIZE)

\* What a free block holds, a datum of some file.
Junk == [w \in Words |-> NBlocks + 1]

VARIABLES
  bitmap,         \* the blocks in use
  words,          \* what each block holds
  addrs, size,    \* of the inodes in memory
  dinode,         \* the same on disk
  ilk,            \* who holds ip->lock
  off,            \* f->off
  op              \* where each process stands in filewrite()

onDisk   == <<bitmap, words, dinode>>
inMemory == <<addrs, size>>
fileVars == <<onDisk, inMemory, ilk, off, op>>

Idle == [at |-> "out", ip |-> NoInum, n |-> 0, n1 |-> 0, tot |-> 0, log |-> {}]

NoAddrs == [k \in 0 .. NDIRECT |-> 0]

FileInit ==
  /\ bitmap = {}
  /\ words = [b \in DataBlocks |-> Junk]
  /\ addrs = [i \in Inums |-> NoAddrs] /\ size = [i \in Inums |-> 0]
  /\ dinode = [i \in Inums |-> <<NoAddrs, 0>>]
  /\ ilk = [i \in Inums |-> NoCaller] /\ off = [i \in Inums |-> 0]
  /\ op = [p \in Callers |-> Idle]

-----------------------------------------------------------------------------
(* balloc(), bmap()                                                        *)

\* balloc() takes b, the first block that is free, and bzero() clears it. On a full disk
\* it panics.
Balloc(b) ==
  /\ b \in DataBlocks \ bitmap
  /\ \A c \in DataBlocks \ bitmap : b <= c

Cleared_Not(b) == words
Cleared(b) == [words EXCEPT ![b] = Zeroes]

\* The block of a file with number bn, 0 if there is none.
Block(i, bn) ==
  IF bn < NDIRECT THEN addrs[i][bn]
  ELSE IF addrs[i][NDIRECT] = 0 THEN 0
  ELSE words[addrs[i][NDIRECT]][bn - NDIRECT]

\* What an operation may write, for the count of log_write().
BBLOCK(b)  == <<"bitmap", b \div BPB>>
Disk(b)    == <<"block", b>>
Dinode(i)  == <<"inode", i>>

-----------------------------------------------------------------------------
(* filewrite()                                                             *)

\* The words of one transaction.
Max_NoSlop == ((MAXOPBLOCKS - 2) \div 2) * BSIZE
Max == ((MAXOPBLOCKS - 4) \div 2) * BSIZE

At(p, at) == op[p].at = at
Offset(p) == off[op[p].ip] + op[p].tot

Writers == {q \in Callers : ~At(q, "out")}

Write(p, i, n) ==
  /\ At(p, "out")
  /\ Cardinality(bitmap) + Reserve * (1 + Cardinality(Writers)) <= NBlocks
  /\ op' = [op EXCEPT ![p] = [Idle EXCEPT !.at = "chunk", !.ip = i, !.n = n]]
  /\ UNCHANGED <<onDisk, inMemory, ilk, off>>

\* begin_op(), ilock(), and the tests at the head of writei().
Chunk(p) ==
  LET i == op[p].ip
      n1 == IF op[p].n > Max THEN Max ELSE op[p].n
  IN
  /\ At(p, "chunk") /\ ilk[i] = NoCaller
  /\ IF off[i] > size[i] \/ off[i] + n1 > MAXFILE * BSIZE
     THEN op' = [op EXCEPT ![p] = Idle] /\ UNCHANGED ilk
     ELSE /\ op' = [op EXCEPT ![p].at = "write", ![p].n1 = n1, ![p].tot = 0, ![p].log = {}]
          /\ ilk' = [ilk EXCEPT ![i] = p]
  /\ UNCHANGED <<onDisk, inMemory, off>>

\* bmap() finds no block, or no indirect block, and gets b from balloc().
Bmap(p, b) ==
  LET i == op[p].ip
      bn == Offset(p) \div BSIZE
      ind == addrs[i][NDIRECT]
  IN
  /\ At(p, "write") /\ op[p].tot < op[p].n1
  /\ Block(i, bn) = 0
  /\ Balloc(b)
  /\ bitmap' = bitmap \cup {b}
  /\ IF bn >= NDIRECT /\ ind # 0
     THEN /\ words' = [Cleared(b) EXCEPT ![ind][bn - NDIRECT] = b]
          /\ op' = [op EXCEPT ![p].log = @ \cup {BBLOCK(b), Disk(b), Disk(ind)}]
          /\ UNCHANGED addrs
     ELSE /\ words' = Cleared(b)
          /\ op' = [op EXCEPT ![p].log = @ \cup {BBLOCK(b), Disk(b)}]
          /\ addrs' = [addrs EXCEPT ![i][IF bn < NDIRECT THEN bn ELSE NDIRECT] = b]
  /\ UNCHANGED <<dinode, size, ilk, off>>

\* memmove() of m words into block b of inode i, of which the first belongs at offset pos.
Moved(i, b, pos, m) ==
  [w \in Words |-> IF w >= pos % BSIZE /\ w < (pos % BSIZE) + m
                   THEN Datum(i, pos + (w - (pos % BSIZE))) ELSE words[b][w]]

\* A turn of the loop of writei(): to the end of the block or to the end of the write.
Copy(p) ==
  LET i == op[p].ip
      b == Block(i, Offset(p) \div BSIZE)
      left == op[p].n1 - op[p].tot
      room == BSIZE - (Offset(p) % BSIZE)
      m == IF left < room THEN left ELSE room
  IN
  /\ At(p, "write") /\ op[p].tot < op[p].n1 /\ b # 0
  /\ words' = [words EXCEPT ![b] = Moved(i, b, Offset(p), m)]
  /\ op' = [op EXCEPT ![p].tot = @ + m, ![p].log = @ \cup {Disk(b)}]
  /\ UNCHANGED <<bitmap, dinode, inMemory, ilk, off>>

\* The end of writei(), iunlock() and end_op().
Grows(p) == Offset(p) > size[op[p].ip]

EndChunk(p) ==
  LET i == op[p].ip
      end == Offset(p)
  IN
  /\ At(p, "write") /\ op[p].tot = op[p].n1
  /\ IF Grows(p)
     THEN size' = [size EXCEPT ![i] = end] /\ dinode' = [dinode EXCEPT ![i] = <<addrs[i], end>>]
     ELSE UNCHANGED <<size, dinode>>
  /\ off' = [off EXCEPT ![i] = end]
  /\ ilk' = [ilk EXCEPT ![i] = NoCaller]
  /\ op' = [op EXCEPT ![p] = IF op[p].n = op[p].n1 THEN Idle
                             ELSE [Idle EXCEPT !.at = "chunk", !.ip = i,
                                               !.n = op[p].n - op[p].n1]]
  /\ UNCHANGED <<bitmap, words, addrs>>

-----------------------------------------------------------------------------
(* The other operations                                                    *)

\* fileread(): what it returns is in words.
Read(i, n) ==
  /\ ilk[i] = NoCaller /\ off[i] < size[i]
  /\ off' = [off EXCEPT ![i] = IF @ + n > size[i] THEN size[i] ELSE @ + n]
  /\ UNCHANGED <<onDisk, inMemory, ilk, op>>

NotInUse(i) == \A p \in Callers : op[p].ip # i

\* The file is closed and opened again.
Reopen(i) ==
  /\ NotInUse(i) /\ off[i] # 0
  /\ off' = [off EXCEPT ![i] = 0]
  /\ UNCHANGED <<onDisk, inMemory, ilk, op>>

\* Where an inode refers to blocks: the blocks of the file, and then the indirect block.
Places == 0 .. MAXFILE
Ref(i, k) == IF k < MAXFILE THEN Block(i, k) ELSE addrs[i][NDIRECT]
Reached(i) == {Ref(i, k) : k \in Places}

\* iput() drops the last reference to a file without a name: itrunc(), and the
\* inode is for a new file.
Itrunc(i) ==
  /\ NotInUse(i) /\ size[i] # 0
  /\ bitmap' = bitmap \ Reached(i)
  /\ addrs' = [addrs EXCEPT ![i] = NoAddrs] /\ size' = [size EXCEPT ![i] = 0]
  /\ dinode' = [dinode EXCEPT ![i] = <<NoAddrs, 0>>]
  /\ off' = [off EXCEPT ![i] = 0]
  /\ words' = [b \in DataBlocks |-> IF b \in Reached(i) THEN Junk ELSE words[b]]
  /\ UNCHANGED <<ilk, op>>

FileNext ==
  \/ \E p \in Callers :
       \/ \E i \in Inums, n \in Lengths : Write(p, i, n)
       \/ \E b \in DataBlocks : Bmap(p, b)
       \/ Chunk(p) \/ Copy(p) \/ EndChunk(p)
  \/ \E i \in Inums : Reopen(i) \/ Itrunc(i) \/ \E n \in Lengths : Read(i, n)

FileSpec == FileInit /\ [][FileNext]_fileVars

-----------------------------------------------------------------------------
(* Properties                                                              *)

\* Types of the variables.
LogBlocks ==
  ({"bitmap"} \X Nat) \cup ({"block"} \X DataBlocks)

OpType ==
  [at : {"out", "chunk", "write"}, ip : Inums \cup {NoInum},
   n : Nat, n1 : Nat, tot : Nat, log : SUBSET LogBlocks]

AddrsType == [0 .. NDIRECT -> DataBlocks \cup {0}]
SizeType  == 0 .. MAXFILE * BSIZE

FileTypeOK ==
  /\ bitmap \subseteq DataBlocks
  /\ words \in [DataBlocks -> [Words -> Nat]]
  /\ addrs \in [Inums -> AddrsType] /\ size \in [Inums -> SizeType]
  /\ dinode \in [Inums -> AddrsType \X SizeType]
  /\ ilk \in [Inums -> Callers \cup {NoCaller}]
  /\ off \in [Inums -> SizeType]
  /\ op \in [Callers -> OpType]

\* The bitmap marks the blocks that some file reaches, and no block is reached twice,
\* from two files or from one: a block that was freed and is used again, for data or for
\* block numbers, brings nothing along.
BlocksOwned ==
  /\ \A i \in Inums, k \in Places : Ref(i, k) \in bitmap \cup {0}
  /\ \A b \in bitmap : \E i \in Inums, k \in Places : Ref(i, k) = b
  /\ \A i, j \in Inums : \A k, l \in Places :
       Ref(i, k) = Ref(j, l) /\ Ref(i, k) # 0 => i = j /\ k = l

\* The word at offset o of file i is the one that was written there.
Has(i, o) ==
  LET b == Block(i, o \div BSIZE) IN
  b # 0 /\ words[b][o % BSIZE] = Datum(i, o)

\* A file that nobody writes to holds what was written, up to its size, whichever
\* processes wrote the pieces through its one offset; and the inode
\* on disk says so.
ContentKept ==
  \A i \in Inums : ilk[i] = NoCaller =>
    /\ \A o \in 0 .. size[i] - 1 : Has(i, o)
    /\ dinode[i] = <<addrs[i], size[i]>>

\* Blocks have one owner, and a file has its contents.
FilesSound == BlocksOwned /\ ContentKept

\* One transaction of filewrite() fits in what begin_op() has reserved for it,
\* "including i-node, indirect block, allocation blocks, and 2 blocks of slop for
\* non-aligned writes": also when every block has a bitmap block of its own.
TransactionFits ==
  \A p \in Callers : At(p, "write") =>
    Cardinality(op[p].log \cup {Dinode(op[p].ip)}) <= MAXOPBLOCKS

-----------------------------------------------------------------------------
(* The inductive invariant                                                 *)

\* The inode of a write is locked for as long as a transaction lasts.
OpInv ==
  /\ \A i \in Inums : ilk[i] # NoCaller => At(ilk[i], "write") /\ op[ilk[i]].ip = i
  /\ \A p \in Callers :
       /\ ~At(p, "out") => op[p].ip \in Inums /\ op[p].n > 0
       /\ At(p, "write") =>
            /\ ilk[op[p].ip] = p
            /\ op[p].tot <= op[p].n1 /\ op[p].n1 <= op[p].n /\ op[p].n1 \in 1 .. Max
            /\ off[op[p].ip] + op[p].n1 <= MAXFILE * BSIZE

\* What is below the size, and what a write has copied, is there. An inode in memory that
\* has new blocks will be written, as the file grows.
OffInv == \A i \in Inums : off[i] <= size[i]
Copied(p) == \A o \in off[op[p].ip] .. Offset(p) - 1 : Has(op[p].ip, o)
InodeKept(p) ==
  LET i == op[p].ip IN
  dinode[i] = <<addrs[i], size[i]>> \/ off[i] + op[p].n1 > size[i]

DataInv ==
  /\ \A i \in Inums : \A o \in 0 .. size[i] - 1 : Has(i, o)
  /\ \A i \in Inums : ilk[i] = NoCaller => dinode[i] = <<addrs[i], size[i]>>
  /\ \A p \in Callers : At(p, "write") => Copied(p) /\ InodeKept(p)

\* The blocks that a write has begun, each with its bitmap block, but for the block that its
\* first word shares with the words before it.
Started(o) == IF o % BSIZE = 0 THEN o \div BSIZE ELSE (o \div BSIZE) + 1
Begun(p) ==
  LET first == off[op[p].ip] IN
  2 * (Started(Offset(p)) - Started(first)) + IF first % BSIZE = 0 THEN 0 ELSE 1

\* A transaction has logged these and, if there is one, the bitmap block of the indirect
\* block; and the indirect block. A block that bmap() has got for the next turn is ahead.
Indirect(i)  == IF addrs[i][NDIRECT] = 0 THEN 0 ELSE 1
Logged(i, S) == Cardinality(S \ {Disk(addrs[i][NDIRECT])})
NextBlock(p) == Block(op[p].ip, Offset(p) \div BSIZE)

Accounted(p) ==
  LET i == op[p].ip IN
  /\ IsFiniteSet(op[p].log)
  /\ op[p].tot \in {0, op[p].n1} \/ Offset(p) % BSIZE = 0
  /\ IF op[p].tot = op[p].n1 \/ NextBlock(p) = 0
     THEN Logged(i, op[p].log) <= Begun(p) + Indirect(i)
     ELSE Logged(i, op[p].log \cup {Disk(NextBlock(p))})
            <= Begun(p) + Indirect(i) + IF Offset(p) % BSIZE = 0 THEN 2 ELSE 0

LogInv == \A p \in Callers : At(p, "write") => Accounted(p)

FileInv == FileTypeOK /\ BlocksOwned /\ OpInv /\ OffInv /\ DataInv /\ LogInv
===============================================================================
