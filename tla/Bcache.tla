-------------------------------- MODULE Bcache --------------------------------
(***************************************************************************)
(* The buffer cache (bio.c), the sleep lock of each buffer (sleeplock.c)   *)
(* and the disk driver below it (ide.c), used the way log.c and fs.c do:   *)
(* bread(), a change that log_write() pins or bwrite() writes, brelse().   *)
(*                                                                         *)
(* A call is cut where the code releases a spin lock: bget() between       *)
(* bcache.lock and the sleep lock of the buffer, brelse() between the two  *)
(* again, iderw() where it sleeps.  acquiresleep() is one step here; what  *)
(* it does inside is SleepLock.                                            *)
(***************************************************************************)
EXTENDS Naturals, Sequences, FiniteSets

CONSTANTS
  Procs,
  NoProc,      \* nobody holds the lock
  Bufs,        \* the NBUF buffers
  NoBuf,
  Blocks,      \* block numbers, in the order in which callers lock blocks
  Values,      \* contents of a block
  MaxHeld,     \* the buffers that a call holds at a time: two in the code
  MaxPinned,   \* the blocks that the log holds: LOGSIZE in the code
  Outcomes     \* of a read of the drive; FALSE is an error

NoBlock == 0

ASSUME BcacheAssumption ==
  /\ NoProc \notin Procs /\ NoBuf \notin Bufs
  /\ IsFiniteSet(Procs) /\ IsFiniteSet(Bufs)
  /\ Blocks \subseteq Nat \ {NoBlock}
  /\ MaxHeld \in Nat /\ MaxPinned \in Nat
  /\ Outcomes \subseteq BOOLEAN

VARIABLES
  lru,         \* the buffers, head.next first
  block, valid, dirty, data, refcnt,   \* the fields of each buffer
  lock,        \* who holds its sleep lock
  idequeue,
  drive,       \* what the drive has been told to do
  disk,        \* what is on the disk
  pc,          \* where each process stands
  cur,         \* the buffer that its bread(), bwrite() or brelse() is about
  panic        \* bget() has found no buffer

bufVars == <<block, valid, dirty, data, refcnt>>
ideVars == <<idequeue, drive, disk>>
vars == <<lru, bufVars, lock, ideVars, pc, cur, panic>>

Off == [buf |-> NoBuf, write |-> FALSE, block |-> NoBlock, data |-> NoBlock]

Orders == {s \in [1..Cardinality(Bufs) -> Bufs] : \A i, j \in DOMAIN s : s[i] = s[j] => i = j}

\* binit(): buffers for no block, in some order.
Init ==
  /\ lru    \in Orders
  /\ block  = [b \in Bufs |-> NoBlock]
  /\ valid  = [b \in Bufs |-> FALSE]
  /\ dirty  = [b \in Bufs |-> FALSE]
  /\ \E v \in Values : data = [b \in Bufs |-> v]
  /\ refcnt = [b \in Bufs |-> 0]
  /\ lock   = [b \in Bufs |-> NoProc]
  /\ idequeue = <<>> /\ drive = Off
  /\ disk  \in [Blocks -> Values]
  /\ pc    = [p \in Procs |-> "call"]
  /\ cur   = [p \in Procs |-> NoBuf]
  /\ panic = FALSE

Held(p) == {b \in Bufs : lock[b] = p}
Pinned  == {b \in Bufs : dirty[b]}

Goto(p, s) == pc' = [pc EXCEPT ![p] = s]

-----------------------------------------------------------------------------
(* ide.c                                                                   *)

\* idestart(): a write takes the data out of the buffer.
Command(b, k, w, v) == [buf |-> b, write |-> w, block |-> k, data |-> v]

\* The head of iderw(): insert b, and start the drive if it is idle.
Submit(b, w, v) ==
  /\ idequeue' = Append(idequeue, b)
  /\ drive' = IF idequeue = <<>> THEN Command(b, block[b], w, v) ELSE drive

\* wakeup(b)
Wake(b) == [p \in Procs |-> IF pc[p] = "asleep" /\ cur[p] = b THEN "woken" ELSE pc[p]]

\* What the interrupt leaves the drive to do when q is the queue that is left.
StartNext_Forget(q) == Off
StartNext(q) ==
  IF q = <<>> THEN Off
  ELSE Command(Head(q), block[Head(q)], dirty[Head(q)], data[Head(q)])

\* The drive is done, and ideintr() runs.
IdeIntr(ok) ==
  LET b == Head(idequeue) IN
  /\ ~panic /\ drive # Off
  /\ IF drive.write
       THEN disk' = [disk EXCEPT ![drive.block] = drive.data] /\ UNCHANGED data
       ELSE /\ data' = IF ok THEN [data EXCEPT ![b] = disk[drive.block]] ELSE data
            /\ UNCHANGED disk
  /\ valid' = [valid EXCEPT ![b] = TRUE]
  /\ dirty' = [dirty EXCEPT ![b] = FALSE]
  /\ pc' = Wake(b)
  /\ idequeue' = Tail(idequeue)
  /\ drive' = StartNext(Tail(idequeue))
  /\ UNCHANGED <<lru, block, refcnt, lock, cur, panic>>

\* What iderw() waits for has not happened to b.
Undone(b) == ~valid[b] \/ dirty[b]

\* The loop at the end of iderw().
IoTest(p) ==
  /\ ~panic /\ pc[p] = "woken"
  /\ Goto(p, IF Undone(cur[p]) THEN "asleep" ELSE "call")
  /\ UNCHANGED <<lru, bufVars, lock, ideVars, cur, panic>>

\* kill() makes a process RUNNABLE that sleeps in iderw().
Kill(p) ==
  /\ ~panic /\ pc[p] = "asleep"
  /\ Goto(p, "woken")
  /\ UNCHANGED <<lru, bufVars, lock, ideVars, cur, panic>>

-----------------------------------------------------------------------------
(* bio.c                                                                   *)

\* log.c and fs.c lock blocks in one order, and few at a time.
MayRead(p, k) ==
  /\ ~panic /\ pc[p] = "call"
  /\ Cardinality(Held(p)) < MaxHeld
  /\ \A b \in Held(p) : block[b] < k

\* bget(): the block is cached.
BgetHit(p, b) ==
  /\ block[b] # NoBlock /\ MayRead(p, block[b])
  /\ refcnt' = [refcnt EXCEPT ![b] = @ + 1]
  /\ cur' = [cur EXCEPT ![p] = b]
  /\ Goto(p, "lock")
  /\ UNCHANGED <<lru, block, valid, dirty, data, lock, ideVars, panic>>

Cached(k) == \E b \in Bufs : block[b] = k

\* A buffer that can be recycled; of these bget() takes the last.
Unused_Unpinned(b) == refcnt[b] = 0
Unused(b) == refcnt[b] = 0 /\ ~dirty[b]
Pos(b)    == CHOOSE i \in DOMAIN lru : lru[i] = b
Victim(b) == Unused(b) /\ \A c \in Bufs : Unused(c) => Pos(c) <= Pos(b)

\* The flags of a recycled buffer.
NowValid(b) == [valid EXCEPT ![b] = FALSE]

\* bget(): the block is not cached, and takes the place of another.
BgetMiss(p, b, k) ==
  /\ MayRead(p, k) /\ ~Cached(k) /\ Victim(b)
  /\ block'  = [block EXCEPT ![b] = k]
  /\ valid'  = NowValid(b)
  /\ dirty'  = [dirty EXCEPT ![b] = FALSE]
  /\ refcnt' = [refcnt EXCEPT ![b] = 1]
  /\ cur' = [cur EXCEPT ![p] = b]
  /\ Goto(p, "lock")
  /\ UNCHANGED <<lru, data, lock, ideVars, panic>>

BgetPanic(p, k) ==
  /\ MayRead(p, k) /\ ~Cached(k) /\ \A b \in Bufs : ~Unused(b)
  /\ panic' = TRUE
  /\ UNCHANGED <<lru, bufVars, lock, ideVars, pc, cur>>

\* acquiresleep() returns to bread(), which reads the block if need be.
Lock(p) ==
  LET b == cur[p] IN
  /\ ~panic /\ pc[p] = "lock" /\ lock[b] = NoProc
  /\ lock' = [lock EXCEPT ![b] = p]
  /\ IF valid[b] THEN Goto(p, "call") /\ UNCHANGED <<idequeue, drive>>
                 ELSE Goto(p, "asleep") /\ Submit(b, dirty[b], data[b])
  /\ UNCHANGED <<lru, bufVars, disk, cur, panic>>

\* The holder changes the block and pins it with log_write() ...
LogWrite(p, b, v) ==
  /\ ~panic /\ pc[p] = "call" /\ b \in Held(p)
  /\ Cardinality(Pinned \cup {b}) <= MaxPinned
  /\ data'  = [data EXCEPT ![b] = v]
  /\ dirty' = [dirty EXCEPT ![b] = TRUE]
  /\ UNCHANGED <<lru, block, valid, refcnt, lock, ideVars, pc, cur, panic>>

\* ... or writes it with bwrite().
Bwrite(p, b, v) ==
  /\ ~panic /\ pc[p] = "call" /\ b \in Held(p)
  /\ data'  = [data EXCEPT ![b] = v]
  /\ dirty' = [dirty EXCEPT ![b] = TRUE]
  /\ Submit(b, TRUE, v)
  /\ cur' = [cur EXCEPT ![p] = b]
  /\ Goto(p, "asleep")
  /\ UNCHANGED <<lru, block, valid, refcnt, lock, disk, panic>>

\* brelse(): releasesleep() ...
Unlock(p, b) ==
  /\ ~panic /\ pc[p] = "call" /\ b \in Held(p)
  /\ lock' = [lock EXCEPT ![b] = NoProc]
  /\ cur'  = [cur EXCEPT ![p] = b]
  /\ Goto(p, "release")
  /\ UNCHANGED <<lru, bufVars, ideVars, panic>>

ToFront(b) == <<b>> \o SelectSeq(lru, LAMBDA c : c # b)

RefDown_Missing(b) == refcnt
RefDown(b) == [refcnt EXCEPT ![b] = @ - 1]

\* ... and the reference; the last one makes b the most recently used.
Release(p) ==
  LET b == cur[p] IN
  /\ ~panic /\ pc[p] = "release"
  /\ refcnt' = RefDown(b)
  /\ lru' = IF refcnt[b] = 1 THEN ToFront(b) ELSE lru
  /\ Goto(p, "call")
  /\ UNCHANGED <<block, valid, dirty, data, lock, ideVars, cur, panic>>

-----------------------------------------------------------------------------
Client(p) ==
  \/ \E b \in Bufs, k \in Blocks : BgetMiss(p, b, k)
  \/ \E b \in Bufs : BgetHit(p, b) \/ Unlock(p, b)
  \/ \E b \in Bufs, v \in Values : LogWrite(p, b, v) \/ Bwrite(p, b, v)
  \/ \E k \in Blocks : BgetPanic(p, k)

Next ==
  \/ \E p \in Procs : Client(p) \/ Lock(p) \/ IoTest(p) \/ Kill(p) \/ Release(p)
  \/ \E ok \in Outcomes : IdeIntr(ok)

\* The drive answers, and processes go on.
Fairness ==
  /\ WF_vars(\E ok \in Outcomes : IdeIntr(ok))
  /\ \A p \in Procs : WF_vars(IoTest(p))

Spec == Init /\ [][Next]_vars /\ Fairness

-----------------------------------------------------------------------------
(* Properties                                                              *)

\* Types of the variables.
TypeOK ==
  /\ block \in [Bufs -> Blocks \cup {NoBlock}]
  /\ valid \in [Bufs -> BOOLEAN] /\ dirty \in [Bufs -> BOOLEAN]
  /\ data \in [Bufs -> Values] /\ disk \in [Blocks -> Values]
  /\ refcnt \in [Bufs -> Nat]
  /\ lock \in [Bufs -> Procs \cup {NoProc}]
  /\ idequeue \in Seq(Bufs)
  /\ pc \in [Procs -> {"call", "lock", "asleep", "woken", "release"}]
  /\ cur \in [Procs -> Bufs \cup {NoBuf}]
  /\ panic \in BOOLEAN

\* Who uses a buffer: it holds the lock, waits for it, or has yet to give up
\* its reference.
Uses(p, b) == lock[b] = p \/ (pc[p] \in {"lock", "release"} /\ cur[p] = b)
Users(b)   == {p \in Procs : Uses(p, b)}

\* A block is in one buffer only, though bget() lets bcache.lock go before it
\* has the lock of the buffer.
OneBuffer ==
  \A b, c \in Bufs : block[b] = block[c] /\ block[b] # NoBlock => b = c

\* b->refcnt counts the processes that use b: bget() recycles no buffer under
\* somebody who still waits for its lock.
RefsCounted ==
  \A b \in Bufs :
    /\ refcnt[b] = Cardinality(Users(b))
    /\ Users(b) # {} => block[b] # NoBlock

\* A process is in iderw() and its request has not been served, whether it sleeps or
\* kill() has woken it.
Waiting(p) == pc[p] \in {"asleep", "woken"} /\ Undone(cur[p])

\* A process that waits for the drive holds the buffer, which is in idequeue;
\* so ideintr() will find it, and wake it up.
NoLostWakeup ==
  \A p \in Procs : Waiting(p) =>
    /\ cur[p] \in Bufs /\ lock[cur[p]] = p
    /\ \E i \in DOMAIN idequeue : idequeue[i] = cur[p]

\* The requests in idequeue: each has its process, and none is there twice.
QueueInv ==
  /\ \A i \in DOMAIN idequeue :
       LET b == idequeue[i] IN
       /\ \E p \in Procs : Waiting(p) /\ cur[p] = b /\ lock[b] = p
       /\ block[b] \in Blocks
       /\ Undone(b)
  /\ \A i, j \in DOMAIN idequeue : idequeue[i] = idequeue[j] => i = j

\* The drive works on the head of idequeue, on the block that the buffer is for
\* and with the data that the buffer has.
DriveInv ==
  drive = IF idequeue = <<>> THEN Off
          ELSE Command(Head(idequeue), block[Head(idequeue)],
                       dirty[Head(idequeue)], data[Head(idequeue)])

\* Where a process stands and the buffers that it has.
PcInv ==
  \A p \in Procs :
    /\ pc[p] # "call" => cur[p] \in Bufs
    /\ pc[p] \in {"lock", "release"} => lock[cur[p]] # p
    /\ pc[p] \in {"asleep", "woken"} => lock[cur[p]] = p
    /\ pc[p] = "asleep" => Waiting(p)
    /\ \A b \in Held(p) : ~valid[b] => Waiting(p) /\ cur[p] = b

\* A buffer that has its block and is not marked B_DIRTY is what the disk has:
\* recycling it loses nothing, and a bwrite() that returned is on the disk.
CleanCoherent ==
  \A b \in Bufs :
    /\ valid[b] => block[b] # NoBlock
    /\ valid[b] /\ ~dirty[b] => data[b] = disk[block[b]]
    /\ dirty[b] => valid[b]

\* The inductive invariant.
IInv ==
  /\ TypeOK /\ OneBuffer /\ RefsCounted /\ NoLostWakeup /\ QueueInv
  /\ DriveInv /\ PcInv /\ CleanCoherent

\* "bget: no buffers": only when every buffer is pinned by the log or used by a
\* call; no reference has been leaked.
PanicOnlyWhenFull ==
  panic => \A b \in Bufs : dirty[b] \/ Users(b) # {}

\* Every request that a process sleeps for is answered: the queue is first in,
\* first out, and each interrupt starts the next request. A process that kill()
\* wakes meanwhile goes back to sleep and is still found.
IoCompletes ==
  \A p \in Procs : Waiting(p) ~> (pc[p] = "call" \/ panic)

\* The buffer cache is a store of blocks, each of which one process uses at a
\* time.
InCache(k) == \E b \in Bufs : block[b] = k /\ valid[b]
BufOf(k)   == CHOOSE b \in Bufs : block[b] = k /\ valid[b]
content    == [k \in Blocks |-> IF InCache(k) THEN data[BufOf(k)] ELSE disk[k]]
owner      == [k \in Blocks |-> IF InCache(k) THEN lock[BufOf(k)] ELSE NoProc]

Store == INSTANCE BlockStore WITH stored <- disk

IsStore == Store!Spec
===============================================================================
