--------------------------------- MODULE Pipe ---------------------------------
(***************************************************************************)
(* A pipe (pipe.c), the two struct files that refer to it (file.c), and    *)
(* the processes that share them: they read, write, fork, close, are       *)
(* killed, and exit.                                                       *)
(*                                                                         *)
(* What runs with p->lock held and does not sleep is one action.  A call   *)
(* that goes to sleep is two: its test of p->killed, and sleep(), which    *)
(* puts it to sleep and releases p->lock under ptable.lock.  kill() takes  *)
(* ptable.lock alone and can come between the two.                         *)
(***************************************************************************)
EXTENDS Naturals, Sequences, FiniteSets

CONSTANTS
  Procs,      \* the processes that come to share the pipe
  NoProc,     \* nobody holds p->lock
  Bytes,      \* the contents of a byte
  Messages,   \* what processes write
  Sizes,      \* how many bytes processes ask for
  PIPESIZE,
  Wrap        \* nread and nwrite are counted modulo Wrap; 2^32 in the code

ASSUME PipeAssumption ==
  /\ NoProc \notin Procs
  /\ Messages \subseteq Seq(Bytes)
  /\ Sizes \subseteq Nat \ {0}
  /\ PIPESIZE \in Nat \ {0}
  /\ Wrap \in Nat /\ PIPESIZE < Wrap /\ Wrap % PIPESIZE = 0

Ends == {"r", "w"}

VARIABLES
  data, nread, nwrite,   \* the ring
  open,      \* open["r"] is p->readopen, open["w"] is p->writeopen
  freed,     \* how often the pipe has been freed
  lock,      \* who holds p->lock between two actions
  holders,   \* holders[e]: the processes with an open descriptor of end e
  pc,        \* where each process stands
  rem,       \* the bytes that a pipewrite() has still to copy
  ret,       \* what the latest call of any process to end has returned
  killed,    \* the processes whose p->killed is set
  dying      \* the processes in exit()

ringVars == <<data, nread, nwrite>>
endVars  == <<open, freed, holders>>
callVars == <<rem, ret>>
vars == <<ringVars, endVars, lock, pc, callVars, killed, dying>>

Init ==
  /\ data  \in {[i \in 0..PIPESIZE-1 |-> v] : v \in Bytes}
  /\ nread = 0 /\ nwrite = 0
  /\ open  = [e \in Ends |-> TRUE]
  /\ freed = 0
  /\ lock  = NoProc
  /\ \E p \in Procs :
       /\ holders = [e \in Ends |-> {p}]
       /\ pc = [q \in Procs |-> IF q = p THEN "user" ELSE "unborn"]
  /\ rem    = [p \in Procs |-> <<>>]
  /\ ret    = [ok |-> TRUE, bytes |-> <<>>]
  /\ killed = {} /\ dying = {}

-----------------------------------------------------------------------------
(* Helpers                                                                 *)

\* What is in the ring, and how much more fits.
Count == (nwrite + Wrap - nread) % Wrap
Space         == PIPESIZE - Count
Slot(n, i)    == ((n + i - 1) % Wrap) % PIPESIZE

Least(m, n) == IF m < n THEN m ELSE n

\* wakeup(&p->nread), wakeup(&p->nwrite)
WakeReaders_None(s) == s
WakeReaders(s) == [q \in Procs |-> IF s[q] = "rasleep" THEN "read" ELSE s[q]]
WakeWriters(s) == [q \in Procs |-> IF s[q] = "wasleep" THEN "write" ELSE s[q]]

\* A call of p ends, with the bytes bs if it is a read; s is pc but for p.
Return(p, s, success, bs) ==
  /\ pc'  = [s EXCEPT ![p] = "user"]
  /\ ret' = [ok |-> success, bytes |-> bs]

\* The loop of pipewrite() puts the first k bytes of rem into the ring.
CopyIn_FromStart(p, k) ==
  /\ data'   = [i \in 0..PIPESIZE-1 |-> IF i < k THEN rem[p][i+1] ELSE data[i]]
  /\ nwrite' = (nwrite + k) % Wrap
CopyIn(p, k) ==
  /\ data'   = [i \in 0..PIPESIZE-1 |->
                  IF \E j \in 1..k : Slot(nwrite, j) = i
                    THEN rem[p][CHOOSE j \in 1..k : Slot(nwrite, j) = i]
                    ELSE data[i]]
  /\ nwrite' = (nwrite + k) % Wrap

-----------------------------------------------------------------------------
(* pipewrite()                                                             *)

WriteCall(p, m) ==
  /\ pc[p] = "user" /\ p \in holders["w"] \ killed
  /\ pc'  = [pc EXCEPT ![p] = "write"]
  /\ rem' = [rem EXCEPT ![p] = m]
  /\ UNCHANGED <<ringVars, endVars, lock, ret, killed, dying>>

\* All of the bytes fit: readers are woken and the call returns n.
WriteAll(p) ==
  /\ pc[p] = "write" /\ lock = NoProc
  /\ Len(rem[p]) <= Space
  /\ CopyIn(p, Len(rem[p]))
  /\ rem' = [rem EXCEPT ![p] = <<>>]
  /\ Return(p, WakeReaders(pc), TRUE, <<>>)
  /\ UNCHANGED <<nread, endVars, lock, killed, dying>>

\* The pipe is full and no reader is left, or the writer has been killed: it
\* returns without a wakeup for the bytes it has copied in.
WriteFail(p) ==
  /\ pc[p] = "write" /\ lock = NoProc
  /\ Space < Len(rem[p])
  /\ ~open["r"] \/ p \in killed
  /\ CopyIn(p, Space)
  /\ rem' = [rem EXCEPT ![p] = <<>>]
  /\ Return(p, pc, FALSE, <<>>)
  /\ UNCHANGED <<nread, endVars, lock, killed, dying>>

\* The pipe is full: readers are woken, and the writer is about to sleep.
WriteFull(p) ==
  /\ pc[p] = "write" /\ lock = NoProc
  /\ Space < Len(rem[p])
  /\ open["r"] /\ p \notin killed
  /\ CopyIn(p, Space)
  /\ rem'  = [rem EXCEPT ![p] = SubSeq(@, Space + 1, Len(@))]
  /\ pc'   = [WakeReaders(pc) EXCEPT ![p] = "wsleep"]
  /\ lock' = p
  /\ UNCHANGED <<nread, endVars, ret, killed, dying>>

-----------------------------------------------------------------------------
(* piperead()                                                              *)

ReadCall(p) ==
  /\ pc[p] = "user" /\ p \in holders["r"] \ killed
  /\ pc' = [pc EXCEPT ![p] = "read"]
  /\ UNCHANGED <<ringVars, endVars, lock, callVars, killed, dying>>

\* The loop's condition: nothing to read yet.
MustWait == nread = nwrite /\ open["w"]

ReadEmpty(p) ==
  /\ pc[p] = "read" /\ lock = NoProc
  /\ MustWait
  /\ p \notin killed
  /\ pc'   = [pc EXCEPT ![p] = "rsleep"]
  /\ lock' = p
  /\ UNCHANGED <<ringVars, endVars, callVars, killed, dying>>

ReadFail(p) ==
  /\ pc[p] = "read" /\ lock = NoProc
  /\ MustWait
  /\ p \in killed
  /\ Return(p, pc, FALSE, <<>>)
  /\ UNCHANGED <<ringVars, endVars, lock, rem, killed, dying>>

\* Up to n bytes, the call's argument, are copied out, none at the end of the
\* stream, and writers woken.
ReadBytes(p, n) ==
  LET k == Least(n, Count) IN
  /\ pc[p] = "read" /\ lock = NoProc
  /\ ~MustWait
  /\ nread' = (nread + k) % Wrap
  /\ Return(p, WakeWriters(pc), TRUE, [j \in 1..k |-> data[Slot(nread, j)]])
  /\ UNCHANGED <<data, nwrite, endVars, lock, rem, killed, dying>>

\* sleep(&p->nread, &p->lock) or sleep(&p->nwrite, &p->lock)
SleepOn(p) ==
  /\ pc[p] \in {"rsleep", "wsleep"}
  /\ pc'   = [pc EXCEPT ![p] = IF @ = "rsleep" THEN "rasleep" ELSE "wasleep"]
  /\ lock' = NoProc
  /\ UNCHANGED <<ringVars, endVars, callVars, killed, dying>>

-----------------------------------------------------------------------------
(* fork(), close(), kill(), exit()                                         *)

\* fork() duplicates the descriptors (filedup).
Fork(p, q) ==
  /\ pc[p] = "user" /\ p \notin killed
  /\ pc[q] = "unborn"
  /\ pc'      = [pc EXCEPT ![q] = "user"]
  /\ holders' = [e \in Ends |->
                   IF p \in holders[e] THEN holders[e] \cup {q} ELSE holders[e]]
  /\ UNCHANGED <<ringVars, open, freed, lock, callVars, killed, dying>>

\* Where a process goes on after a close, or the last one of exit().
AfterClose(p) == IF p \in dying THEN "exit" ELSE "user"

\* fileclose(): only the last reference to an end closes the end.
FileClose(p, e) ==
  /\ p \in holders[e]
  /\ holders' = [holders EXCEPT ![e] = @ \ {p}]
  /\ pc' = [pc EXCEPT ![p] = IF holders[e] # {p} THEN AfterClose(p)
                             ELSE IF e = "r" THEN "rclose" ELSE "wclose"]
  /\ UNCHANGED <<ringVars, open, freed, lock, callVars, killed>>

CloseCall(p, e) ==
  /\ pc[p] = "user" /\ p \notin killed
  /\ FileClose(p, e)
  /\ UNCHANGED dying

\* pipeclose() of one end
WakeOther_Same(e) == IF e = "w" THEN WakeWriters(pc) ELSE WakeReaders(pc)
WakeOther(e)      == IF e = "w" THEN WakeReaders(pc) ELSE WakeWriters(pc)

LastEnd_Either(e) == TRUE
LastEnd(e) == \A f \in Ends \ {e} : ~open[f]

PipeClose(p, e) ==
  /\ pc[p] = IF e = "r" THEN "rclose" ELSE "wclose"
  /\ lock = NoProc
  /\ open'  = [open EXCEPT ![e] = FALSE]
  /\ pc'    = [WakeOther(e) EXCEPT ![p] = AfterClose(p)]
  /\ freed' = IF LastEnd(e) THEN freed + 1 ELSE freed
  /\ UNCHANGED <<ringVars, holders, lock, callVars, killed, dying>>

\* kill(), which wakes the process if it is asleep.
KillWakes(q) == CASE pc[q] = "rasleep" -> "read"
                  [] pc[q] = "wasleep" -> "write"
                  [] OTHER -> pc[q]

Kill(q) ==
  /\ pc[q] \notin {"unborn", "gone"}
  /\ killed' = killed \cup {q}
  /\ pc'     = [pc EXCEPT ![q] = KillWakes(q)]
  /\ UNCHANGED <<ringVars, endVars, lock, callVars, dying>>

\* exit(), by a system call or at a trap of a process that has been killed.
ExitCall(p) ==
  /\ pc[p] = "user"
  /\ pc'    = [pc EXCEPT ![p] = "exit"]
  /\ dying' = dying \cup {p}
  /\ UNCHANGED <<ringVars, endVars, lock, callVars, killed>>

\* exit() closes the descriptors, which dup() may have put in any order.
ExitClose(p, e) == pc[p] = "exit" /\ FileClose(p, e) /\ UNCHANGED dying

ExitDone(p) ==
  /\ pc[p] = "exit"
  /\ \A e \in Ends : p \notin holders[e]
  /\ pc' = [pc EXCEPT ![p] = "gone"]
  /\ UNCHANGED <<ringVars, endVars, lock, callVars, killed, dying>>
-----------------------------------------------------------------------------
\* What a process does once it is inside a call, or in exit().
Kernel(p) ==
  \/ WriteAll(p) \/ WriteFail(p) \/ WriteFull(p)
  \/ ReadEmpty(p) \/ ReadFail(p) \/ \E n \in Sizes : ReadBytes(p, n)
  \/ SleepOn(p)
  \/ ExitDone(p)
  \/ \E e \in Ends : PipeClose(p, e) \/ ExitClose(p, e)

User(p) ==
  \/ \E m \in Messages : WriteCall(p, m)
  \/ ReadCall(p)
  \/ \E q \in Procs : Fork(p, q)
  \/ \E e \in Ends : CloseCall(p, e)
  \/ ExitCall(p)

Next == \E p \in Procs : Kernel(p) \/ User(p) \/ Kill(p)

Spec == Init /\ [][Next]_vars

\* A process in the kernel goes on; one that has been killed exits at its next
\* trap, a timer interrupt at the latest.
Fairness ==
  \A p \in Procs : /\ WF_vars(Kernel(p))
                   /\ WF_vars(p \in killed /\ ExitCall(p))

FairSpec == Spec /\ Fairness

\* In addition a process that spins on p->lock gets it at some time.
BestCaseSpec == FairSpec /\ \A p \in Procs : SF_vars(Kernel(p))
-----------------------------------------------------------------------------
(* Properties                                                              *)

\* Every variable has its type.
TypeOK ==
  /\ data \in [0..PIPESIZE-1 -> Bytes]
  /\ nread \in 0..Wrap-1 /\ nwrite \in 0..Wrap-1 /\ Count <= PIPESIZE
  /\ open \in [Ends -> BOOLEAN] /\ freed \in Nat
  /\ lock \in Procs \cup {NoProc}
  /\ holders \in [Ends -> SUBSET Procs]
  /\ pc \in [Procs -> {"unborn", "user", "read", "rsleep", "rasleep", "write",
                       "wsleep", "wasleep", "rclose", "wclose", "exit", "gone"}]
  /\ rem \in [Procs -> Seq(Bytes)]
  /\ ret \in [ok : BOOLEAN, bytes : Seq(Bytes)]
  /\ killed \subseteq Procs /\ dying \subseteq Procs

Reading == {"read", "rsleep", "rasleep"}
Writing == {"write", "wsleep", "wasleep"}

\* The bytes in the ring, from the oldest on.
Queue == [i \in 1..Count |-> data[Slot(nread, i)]]

\* The call that a process at s is in.
CallAt(s) == CASE s \in Reading -> "read"
               [] s \in Writing -> "write"
               [] OTHER -> "none"
Calls == [p \in Procs |-> CallAt(pc[p])]

\* The pipe is the queue of bytes that its users see: nothing is lost, added,
\* doubled or reordered where nread and nwrite wrap, calls that sleep half way,
\* fail or find the other end closed included.
Stream == INSTANCE ByteStream WITH
  Capacity <- PIPESIZE, queue <- Queue, call <- Calls, todo <- rem

IsStream == Stream!Spec

\* Nobody sleeps while it could go on: a writer sleeps on a full pipe that has
\* a reader, a reader on an empty one that has a writer.  The exception is what
\* a killed writer leaves behind: WriteFail wakes no reader for it.
NoLostWakeup ==
  \A p \in Procs :
    /\ pc[p] = "wasleep" => Space = 0 /\ open["r"]
    /\ pc[p] = "rasleep" => open["w"] /\ (Count = 0 \/ killed # {})

\* pipeclose() frees the pipe once, when nobody is left to use it or to close
\* it, and not before.
FreedLast ==
  freed = IF \A p \in Procs : pc[p] \notin {"rclose", "wclose"}
                             /\ \A e \in Ends : p \notin holders[e]
            THEN 1 ELSE 0

\* A reader whose writers are all gone gets the end of the stream.
EofReached ==
  \A p \in Procs :
    ~open["w"] /\ pc[p] \in Reading ~> pc[p] \notin Reading

\* A process that has been killed exits (proc.c:521 has kill() wake it "from
\* sleep if necessary").
KilledExits == \A p \in Procs : p \in killed ~> pc[p] = "gone"

-----------------------------------------------------------------------------
(* The inductive invariant                                                 *)

Closing(e) == {p \in Procs : pc[p] = IF e = "r" THEN "rclose" ELSE "wclose"}

\* p->lock is kept, from one action to the next, by a process about to sleep.
LockInv == \A p \in Procs : pc[p] \in {"rsleep", "wsleep"} <=> lock = p

\* A process in a call has the descriptor; one that is not there has none.
HoldInv ==
  \A p \in Procs : /\ pc[p] \in Reading => p \in holders["r"]
                   /\ pc[p] \in Writing => p \in holders["w"]
                   /\ pc[p] \in {"unborn", "gone"} =>
                        \A e \in Ends : p \notin holders[e]

\* An end is open as long as a process has it, or one is about to close it; at
\* most one is, and nobody has that end any more.
EndInv ==
  \A e \in Ends :
    /\ open[e] <=> holders[e] # {} \/ Closing(e) # {}
    /\ Closing(e) # {} => holders[e] = {}
    /\ \A p, q \in Closing(e) : p = q

FreeInv == freed = IF \E e \in Ends : open[e] THEN 0 ELSE 1

\* What a process has seen with the lock still holds when it falls asleep.
SleepInv ==
  \A p \in Procs :
    /\ pc[p] \in {"wsleep", "wasleep"} => Space = 0 /\ open["r"]
    /\ pc[p] = "rsleep" => open["w"] /\ Count = 0
    /\ pc[p] = "rasleep" => open["w"] /\ (Count = 0 \/ killed # {})

IInv == TypeOK /\ LockInv /\ HoldInv /\ EndInv /\ FreeInv /\ SleepInv
=============================================================================
