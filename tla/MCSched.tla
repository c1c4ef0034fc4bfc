------------------------------ MODULE MCSched ------------------------------
(***************************************************************************)
(* What the parts of the kernel promise in the end: the sleep locks of     *)
(* SleepLock; the two schedulers, sys_sleep() and pipes, which share no    *)
(* state with them.  `part' names the part that moves.                     *)
(***************************************************************************)
EXTENDS SleepLock, Ticks

CONSTANTS c1, tick, x, None

ThreeProcs == 1..3
TwoCallers == 1..2
OneTwo     == {1, 2}

VARIABLES
  part,
  plock, state, ppid, parent, chan, pkilled, priority, ppc, np, nextpid,
  cpuProc, agePc, agePos, ageReg, scan,                      \* Proc, RoundRobin
  data, nread, nwrite, open, freed, lock, holders, qpc, rem, ret, qkilled,
  dying                                                      \* Pipe

\* One CPU, which runs the aging loop, and three slots.
P == INSTANCE Proc
       WITH pid <- ppid, killed <- pkilled, pc <- ppc,
            NPROC <- 3, Cpus <- {c1}, NoCpu <- None, AgingCpus <- {c1},
            Chans <- {tick}, KillPids <- {}, InitPriority <- 1, MaxPid <- 3

\* The round robin of the published kernel on one CPU, with three slots.
RR == INSTANCE RoundRobin
        WITH pid <- ppid, killed <- pkilled, pc <- ppc,
             NPROC <- 3, Cpus <- {c1}, NoCpu <- None, AgingCpus <- {},
             Chans <- {tick}, KillPids <- {}, InitPriority <- 0, MaxPid <- 3

\* A pipe of one byte, counted modulo two.
Q == INSTANCE Pipe
       WITH pc <- qpc, killed <- qkilled, NoProc <- Nobody,
            Procs <- {1, 2}, Bytes <- {x}, Messages <- {<<x>>}, Sizes <- {1},
            PIPESIZE <- 1, Wrap <- 2

procVars == <<plock, state, ppid, parent, chan, pkilled, priority, ppc, np, nextpid,
              cpuProc, agePc, agePos, ageReg>>
pipeVars == <<data, nread, nwrite, open, freed, lock, holders, qpc, rem, ret, qkilled,
              dying>>
allVars  == <<part, vars, procVars, scan, tickVars, pipeVars>>

\* The parts that do not move stay as they began.
MCInit ==
  /\ part \in {"lock", "proc", "rr", "ticks", "pipe"}
  /\ Init /\ TicksInit /\ Q!Init
  /\ part = "pipe" \/ qpc[1] = "user"
  /\ IF part = "rr" THEN RR!RRInit ELSE P!Init /\ scan = [c \in {c1} |-> 0]

\* The processes that share the pipe have all ended.
PipeOver == (\A p \in {1, 2} : qpc[p] \in {"gone", "unborn"}) /\ UNCHANGED pipeVars

MCNext ==
  /\ \/ part = "lock" /\ Next
     \/ part # "lock" /\ UNCHANGED vars
  /\ \/ part = "proc" /\ P!Next /\ UNCHANGED scan
     \/ part = "rr" /\ RR!RRNext
     \/ part \notin {"proc", "rr"} /\ UNCHANGED <<procVars, scan>>
  /\ \/ part = "ticks" /\ TicksNext
     \/ part # "ticks" /\ UNCHANGED tickVars
  /\ \/ part = "pipe" /\ (Q!Next \/ PipeOver)
     \/ part # "pipe" /\ UNCHANGED pipeVars
  /\ UNCHANGED part

\* Each part with its own fairness.
MCFairness ==
  \/ part = "lock"  /\ Fairness
  \/ part = "proc"  /\ P!Fairness
  \/ part = "rr"    /\ RR!RRFairness
  \/ part = "ticks" /\ TicksFairness
  \/ part = "pipe"  /\ Q!Fairness

MCSpec == MCInit /\ [][MCNext]_allVars /\ MCFairness

-----------------------------------------------------------------------------
\* The properties of the modules, stated there.
TopPriorityRuns    == P!TopPriorityRuns
NoStarvation       == part = "rr" => RR!NoStarvation
EofReached         == Q!EofReached
=============================================================================
