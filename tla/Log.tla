--------------------------------- MODULE Log ---------------------------------
(***************************************************************************)
(* The redo log of log.c, the part of the buffer cache (bio.c) it relies   *)
(* on, the disk, and crashes: begin_op(), log_write(), end_op(), commit()  *)
(* and recover_from_log().  A bwrite() of one block is atomic and          *)
(* synchronous, as iderw() makes it; between any two of them the machine   *)
(* may stop and boot again, during recovery too.                           *)
(*                                                                         *)
(* A section of code under log.lock is one action.  log_write() looks at   *)
(* lh.n and outstanding before it takes the lock, and that look is an      *)
(* action of its own.                                                      *)
(***************************************************************************)
EXTENDS Integers, Sequences, FiniteSets

CONSTANTS
  Procs,        \* processes that make file system calls
  Blocks,       \* home blocks of the file system
  NoBlock,      \* not a block
  Data,         \* contents of a block
  LOGSIZE,      \* param.h: size of lh.block
  MAXOPBLOCKS,  \* param.h: blocks begin_op() reserves for a call
  NLOG,         \* sb.nlog: blocks of the log on disk, the header included
  OpBlocks      \* the most distinct blocks a call really writes

ASSUME BlocksAssumption == NoBlock \notin Blocks
ASSUME SizesAssumption ==
  /\ LOGSIZE \in Nat /\ MAXOPBLOCKS \in Nat \ {0} /\ NLOG \in Nat
  /\ OpBlocks \in Nat /\ OpBlocks <= MAXOPBLOCKS
  /\ MAXOPBLOCKS <= LOGSIZE
ASSUME FiniteAssumption == IsFiniteSet(Procs)

VARIABLES
  home,         \* disk: the home location of each block
  logData,      \* disk: the data blocks of the log (log.start + 1 onwards)
  head,         \* disk: the block numbers in the log's header block
  cache,        \* contents of the buffers of the cache
  cached,       \* the blocks that have a buffer
  dirty,        \* the blocks whose buffer has B_DIRTY, which bget() keeps
  lh,           \* log.lh, the block numbers of the group
  outstanding,  \* log.outstanding
  committing,   \* log.committing
  mode,         \* "boot", "up", or "panic"
  phase,        \* where commit() or recover_from_log() stands
  tail,         \* their loops' tail
  pc,           \* where each process stands
  hold,         \* the block whose buffer a process has locked
  wset          \* the blocks a process has logged in its call

diskVars == <<home, logData, head>>
bufVars  == <<cache, cached, dirty>>
memVars  == <<lh, outstanding, committing>>
runVars  == <<mode, phase, tail>>
procVars == <<pc, hold, wset>>
vars     == <<diskVars, bufVars, memVars, runVars, procVars>>

\* mkfs leaves an empty log of zeroed blocks; nothing is in memory, and recovery
\* is about to begin.
Init ==
  /\ home \in [Blocks -> Data]
  /\ logData \in {[i \in 1..LOGSIZE |-> v] : v \in Data}
  /\ head = <<>>
  /\ cache = home /\ cached = {} /\ dirty = {}
  /\ lh = <<>> /\ outstanding = 0 /\ committing = FALSE
  /\ mode = "boot" /\ phase = "read" /\ tail = 0
  /\ pc   = [p \in Procs |-> "out"]
  /\ hold = [p \in Procs |-> NoBlock]
  /\ wset = [p \in Procs |-> {}]

-----------------------------------------------------------------------------
(* Helpers                                                                 *)

Up == mode = "up"

\* What bread() returns for a home block.
Contents(b) == IF b \in cached THEN cache[b] ELSE home[b]

Logged(b) == \E i \in 1..Len(lh) : lh[i] = b

\* begin_op() may not let one more call in.
NoRoom_OneOff == Len(lh) + outstanding * MAXOPBLOCKS > LOGSIZE
NoRoom        == Len(lh) + (outstanding + 1) * MAXOPBLOCKS > LOGSIZE

\* begin_op() lets a call in.
MayBegin            == ~committing /\ ~NoRoom

\* The test at the head of log_write().
TooBig == Len(lh) >= LOGSIZE \/ Len(lh) >= NLOG - 1

\* wakeup(&log)
Woken_None(s) == s
Woken(s) == [p \in Procs |-> IF s[p] = "asleep" THEN "woken" ELSE s[p]]

\* A block that log_write() has seen keeps its buffer until it is installed.
Pinned(b) == dirty \cup {b}

-----------------------------------------------------------------------------
(* begin_op(), writes, end_op()                                            *)

\* begin_op() waits for the commit under way, or for room in the log.
BeginSleep(p) ==
  /\ Up /\ pc[p] \in {"out", "woken"}
  /\ ~MayBegin
  /\ pc' = [pc EXCEPT ![p] = "asleep"]
  /\ UNCHANGED <<diskVars, bufVars, memVars, runVars, hold, wset>>

BeginOp(p) ==
  /\ Up /\ pc[p] \in {"out", "woken"}
  /\ MayBegin
  /\ outstanding' = outstanding + 1
  /\ pc'   = [pc EXCEPT ![p] = "op"]
  /\ wset' = [wset EXCEPT ![p] = {}]
  /\ UNCHANGED <<diskVars, bufVars, lh, committing, runVars, hold>>

\* The call gets the buffer of b, locked, and modifies its data.
Modify(p, b, v) ==
  /\ Up /\ pc[p] = "op"
  /\ \A q \in Procs : hold[q] # b
  /\ b \in wset[p] \/ Cardinality(wset[p]) < OpBlocks
  /\ cache'  = [cache EXCEPT ![b] = v]
  /\ cached' = cached \cup {b}
  /\ hold'   = [hold EXCEPT ![p] = b]
  /\ pc'     = [pc EXCEPT ![p] = "modified"]
  /\ UNCHANGED <<diskVars, dirty, memVars, runVars, wset>>

\* log_write() before it takes log.lock.
LogCheck(p) ==
  /\ Up /\ pc[p] = "modified"
  /\ IF TooBig \/ outstanding < 1
       THEN mode' = "panic" /\ UNCHANGED pc
       ELSE pc' = [pc EXCEPT ![p] = "checked"] /\ UNCHANGED mode
  /\ UNCHANGED <<diskVars, bufVars, memVars, phase, tail, hold, wset>>

\* log_write() under log.lock, and the caller's brelse().
LogAppend(p) ==
  /\ Up /\ pc[p] = "checked"
  /\ lh'    = IF Logged(hold[p]) THEN lh ELSE Append(lh, hold[p])
  /\ dirty' = Pinned(hold[p])
  /\ wset'  = [wset EXCEPT ![p] = @ \cup {hold[p]}]
  /\ hold'  = [hold EXCEPT ![p] = NoBlock]
  /\ pc'    = [pc EXCEPT ![p] = "op"]
  /\ UNCHANGED <<diskVars, cache, cached, outstanding, committing, runVars>>

\* end_op() while other calls are under way.
EndOp(p) ==
  /\ Up /\ pc[p] = "op"
  /\ outstanding - 1 # 0
  /\ outstanding' = outstanding - 1
  /\ pc' = [Woken(pc) EXCEPT ![p] = "out"]
  /\ UNCHANGED <<diskVars, bufVars, lh, committing, runVars, hold, wset>>

\* commit() has nothing to do for an empty group.
FirstPhase == IF Len(lh) > 0 THEN "write" ELSE "finish"

\* The last end_op(), up to its call of commit().
EndOpLast(p) ==
  /\ Up /\ pc[p] = "op"
  /\ outstanding - 1 = 0
  /\ outstanding' = 0
  /\ committing'  = TRUE
  /\ phase' = FirstPhase
  /\ tail'  = 0
  /\ pc'    = [pc EXCEPT ![p] = "commit"]
  /\ UNCHANGED <<diskVars, bufVars, lh, mode, hold, wset>>

-----------------------------------------------------------------------------
(* commit()                                                                *)

\* The end of one turn of a loop over lh; the phase after the last.
NextTail(after) ==
  IF tail + 1 < Len(lh) THEN tail' = tail + 1 /\ UNCHANGED phase
                        ELSE tail' = 0 /\ phase' = after

\* One turn of the loop of write_log().
WriteLog ==
  /\ Up /\ phase = "write"
  /\ logData' = [logData EXCEPT ![tail + 1] = Contents(lh[tail + 1])]
  /\ NextTail("head")
  /\ UNCHANGED <<home, head, bufVars, memVars, mode, procVars>>

\* write_head(): the real commit.
WriteHead ==
  /\ Up /\ phase = "head"
  /\ head'  = lh
  /\ phase' = "install"
  /\ UNCHANGED <<home, logData, bufVars, memVars, mode, tail, procVars>>

\* One turn of the loop of install_trans(), in commit() or in recovery: the
\* bwrite() of the home block clears B_DIRTY.
Install ==
  /\ mode \in {"up", "boot"} /\ phase = "install"
  /\ home'   = [home EXCEPT ![lh[tail + 1]] = logData[tail + 1]]
  /\ cache'  = [cache EXCEPT ![lh[tail + 1]] = logData[tail + 1]]
  /\ cached' = cached \cup {lh[tail + 1]}
  /\ dirty'  = dirty \ {lh[tail + 1]}
  /\ NextTail("clear")
  /\ UNCHANGED <<logData, head, memVars, mode, procVars>>

\* log.lh.n = 0 and write_head(): the group leaves the log.
ClearHead ==
  /\ mode \in {"up", "boot"} /\ phase = "clear"
  /\ lh'    = <<>>
  /\ head'  = <<>>
  /\ phase' = "finish"
  /\ UNCHANGED <<home, logData, bufVars, outstanding, committing, mode, tail,
                 procVars>>

\* The end of the last end_op().
EndCommit(p) ==
  /\ Up /\ pc[p] = "commit" /\ phase = "finish"
  /\ committing' = FALSE
  /\ phase' = "idle"
  /\ pc'    = [Woken(pc) EXCEPT ![p] = "out"]
  /\ UNCHANGED <<diskVars, bufVars, lh, outstanding, mode, tail, hold, wset>>

-----------------------------------------------------------------------------
(* Recovery, eviction and crashes                                          *)

\* Recovery installs the group of the header on disk, if there is one.
RecoverPhase_Skip == "clear"
RecoverPhase == IF Len(head) > 0 THEN "install" ELSE "clear"

\* read_head()
ReadHead ==
  /\ mode = "boot" /\ phase = "read"
  /\ lh'    = head
  /\ phase' = RecoverPhase
  /\ tail'  = 0
  /\ UNCHANGED <<diskVars, bufVars, outstanding, committing, mode, procVars>>

\* recover_from_log() returns: file system calls may begin.
BootDone ==
  /\ mode = "boot" /\ phase = "finish"
  /\ mode'  = "up"
  /\ phase' = "idle"
  /\ UNCHANGED <<diskVars, bufVars, memVars, tail, procVars>>

\* bget() recycles a buffer that nobody has locked and that is not B_DIRTY.
Evict(b) ==
  /\ Up
  /\ b \in cached \ dirty
  /\ \A p \in Procs : hold[p] # b
  /\ cached' = cached \ {b}
  /\ cache'  = [cache EXCEPT ![b] = home[b]]
  /\ UNCHANGED <<diskVars, dirty, memVars, runVars, procVars>>

\* The machine stops and boots: only the disk is left.
Crash ==
  /\ UNCHANGED diskVars
  /\ cache' = home /\ cached' = {} /\ dirty' = {}
  /\ lh' = <<>> /\ outstanding' = 0 /\ committing' = FALSE
  /\ mode' = "boot" /\ phase' = "read" /\ tail' = 0
  /\ pc'   = [p \in Procs |-> "out"]
  /\ hold' = [p \in Procs |-> NoBlock]
  /\ wset' = [p \in Procs |-> {}]

-----------------------------------------------------------------------------
(* The specification                                                       *)

OpStep(p) ==
  \/ BeginSleep(p) \/ BeginOp(p)
  \/ \E b \in Blocks, v \in Data : Modify(p, b, v)
  \/ LogCheck(p) \/ LogAppend(p)
  \/ EndOp(p) \/ EndOpLast(p) \/ EndCommit(p)

LogStep == WriteLog \/ WriteHead \/ Install \/ ClearHead \/ ReadHead \/ BootDone

Next ==
  \/ \E p \in Procs : OpStep(p)
  \/ LogStep
  \/ \E b \in Blocks : Evict(b)
  \/ Crash

Spec == Init /\ [][Next]_vars

\* A call that runs gets on; a file system call makes finitely many writes; the
\* commit and the recovery, which wait for the disk only, come to their end.
Fairness ==
  /\ \A p \in Procs :
       /\ WF_vars(LogCheck(p) \/ LogAppend(p) \/ EndCommit(p))
       /\ SF_vars(EndOp(p) \/ EndOpLast(p))
  /\ WF_vars(LogStep)

FairSpec == Spec /\ Fairness

-----------------------------------------------------------------------------
(* Properties                                                              *)

InOp == {p \in Procs : pc[p] \in {"op", "modified", "checked"}}

\* Every variable has its type.
TypeOK ==
  /\ home \in [Blocks -> Data] /\ cache \in [Blocks -> Data]
  /\ logData \in [1..LOGSIZE -> Data]
  /\ head \in Seq(Blocks) /\ lh \in Seq(Blocks)
  /\ cached \subseteq Blocks /\ dirty \subseteq Blocks
  /\ outstanding \in Nat /\ committing \in BOOLEAN
  /\ tail \in Nat /\ (tail = 0 \/ tail < Len(lh))
  /\ mode \in {"boot", "up", "panic"}
  /\ phase \in {"read", "write", "head", "install", "clear", "finish", "idle"}
  /\ pc \in [Procs -> {"out", "asleep", "woken", "op", "modified", "checked",
                       "commit"}]
  /\ hold \in [Procs -> Blocks \cup {NoBlock}]
  /\ wset \in [Procs -> SUBSET Blocks]

\* The disk as recovery would leave it: the log's blocks over their homes.
Replay ==
  [b \in Blocks |->
     IF \E i \in 1..Len(head) : head[i] = b
       THEN logData[CHOOSE i \in 1..Len(head) : head[i] = b]
       ELSE home[b]]

\* What file system calls read, or will after the boot.
View == IF mode = "boot" THEN Replay ELSE [b \in Blocks |-> Contents(b)]

Closing == {p \in Procs : pc[p] = "commit"}

\* A crash at any point leaves whole groups of file system calls, in order, and
\* all those whose end_op() has returned.
Store == INSTANCE AtomicStore
           WITH durable <- Replay, view <- View,
                active <- InOp, closing <- Closing

CrashAtomic == Store!Spec

\* The blocks begin_op() reserves suffice: lh.block never overflows, though
\* log_write() tests lh.n before it takes the lock.
LogFits == Len(lh) <= LOGSIZE

\* While a group commits, no call is inside it and there is one committer.
CommitAlone ==
  committing => /\ InOp = {} /\ outstanding = 0
                /\ Cardinality(Closing) = 1

\* A call asleep in begin_op() has somebody to wake it.
NoLostWakeup ==
  (\E p \in Procs : pc[p] = "asleep") => committing \/ InOp # {}

\* bget() never drops an update that is not on its home block.
NoLostUpdate ==
  \A b \in Blocks : Contents(b) # home[b] =>
    b \in dirty \/ \E p \in Procs : hold[p] = b

\* A call asleep in begin_op() is woken, unless log_write() panics.
SleeperWoken ==
  \A p \in Procs : pc[p] = "asleep" ~> pc[p] # "asleep" \/ mode = "panic"

-----------------------------------------------------------------------------
(* The inductive invariant                                                 *)

\* The turns that the loops of commit() and of recovery have still to make.
TailInv ==
  /\ phase \in {"write", "head", "install"} => tail < Len(lh)
  /\ phase \notin {"write", "install"} => tail = 0

\* outstanding counts the calls under way.
CountInv == outstanding = Cardinality(InOp)

\* A process has a buffer locked from its change to the end of log_write(), and
\* nobody else has that buffer.
HoldInv ==
  /\ \A p \in Procs : hold[p] # NoBlock <=> pc[p] \in {"modified", "checked"}
  /\ \A p, q \in Procs : hold[p] # NoBlock /\ hold[p] = hold[q] => p = q

\* A call has logged the blocks of wset and keeps to its reservation, the block
\* it is about to log included.
CallInv ==
  \A p \in InOp :
    /\ IsFiniteSet(wset[p]) /\ Cardinality(wset[p]) <= MAXOPBLOCKS
    /\ \A b \in wset[p] : Logged(b)
    /\ \/ hold[p] = NoBlock
       \/ hold[p] \in wset[p]
       \/ Cardinality(wset[p]) < MAXOPBLOCKS

\* Recovery runs before any call; a commit runs for one process, between calls.
ModeInv ==
  /\ mode = "boot" => /\ \A p \in Procs : pc[p] = "out"
                      /\ ~committing /\ dirty = {}
                      /\ phase \in {"read", "install", "clear", "finish"}
  /\ mode # "boot" => /\ committing <=> phase # "idle"
                      /\ phase # "read"
  /\ committing =>
       /\ InOp = {}
       /\ \E p \in Procs : \A q \in Procs : pc[q] = "commit" <=> q = p
  /\ ~committing => \A p \in Procs : pc[p] # "commit"

\* A group that nobody is adding to or committing is empty.
EmptyInv ==
  phase \in {"read", "finish"} \/ (phase = "idle" /\ InOp = {}) => lh = <<>>

\* What is left of the reservations of the calls under way.
Reserved ==
  {r \in Procs \X (1..MAXOPBLOCKS) :
     r[1] \in InOp /\ Cardinality(wset[r[1]]) < r[2]}

\* The blocks of the group and those still reserved fit together.
SpaceInv == /\ Len(lh) + Cardinality(Reserved) <= LOGSIZE
            /\ Len(head) <= LOGSIZE

LogInv ==
  /\ TypeOK /\ TailInv /\ CountInv /\ HoldInv /\ CallInv /\ ModeInv
  /\ EmptyInv /\ SpaceInv /\ NoLostWakeup

\* No block is in the group, or in the header on disk, twice.
DistinctInv ==
  /\ \A i, j \in 1..Len(lh) : lh[i] = lh[j] => i = j
  /\ \A i, j \in 1..Len(head) : head[i] = head[j] => i = j

\* The header on disk names the group from write_head() until it is installed.
HeadInv ==
  /\ phase \in {"install", "clear"} => head = lh
  /\ phase = "finish" \/ (mode # "boot" /\ phase \in {"idle", "write", "head"})
       => head = <<>>

\* The blocks copied to the log, and from it to their homes.
CopyInv ==
  /\ mode # "boot" =>
       \A i \in 1..Len(lh) :
          (phase = "write" /\ i <= tail) \/ phase \in {"head", "install", "clear"}
            => logData[i] = Contents(lh[i])
  /\ \A i \in 1..Len(lh) :
        (phase = "install" /\ i <= tail) \/ phase = "clear"
          => home[lh[i]] = logData[i]

\* A pinned buffer is that of a block of the group not yet installed.
DirtyInv ==
  \A b \in dirty : /\ phase \notin {"clear", "finish"}
                   /\ \E i \in 1..Len(lh) :
                        lh[i] = b /\ (phase = "install" => tail < i)

DiskInv == NoLostUpdate /\ DistinctInv /\ HeadInv /\ CopyInv /\ DirtyInv

IInv == LogInv /\ DiskInv
=============================================================================
