------------------------------ MODULE RoundRobin ------------------------------
(***************************************************************************)
(* The scheduler of the published kernel (xv6-public-master/proc.c): round *)
(* robin over the process table.  fork, exit, wait, sleep, wakeup and kill *)
(* are those of Proc, whose priorities are not used: InitPriority is 0,    *)
(* which yield() leaves alone, and AgingCpus is empty.                     *)
(*                                                                         *)
(* Here a scheduler keeps ptable.lock when a process comes back to it, and *)
(* goes on from that process's slot to the end of the table.               *)
(***************************************************************************)
EXTENDS Proc

VARIABLE scan   \* the p of each scheduler's loop; 0 before and after the loop

rrVars == <<vars, scan>>

RRInit == Init /\ scan = [c \in Cpus |-> 0]

\* The processes that the loop of c has still to come to.
Ahead(c) == {p \in Slots : scan[c] < p /\ state[p] = "RUNNABLE"}

\* c is in its loop with ptable.lock, or takes the lock to begin it.
InLoop(c) == /\ cpuProc[c] = NoProc
             /\ plock = c \/ (LockFree /\ scan[c] = 0)

\* The loop finds a RUNNABLE process and switches to it.
RRPick(c, p) ==
  /\ InLoop(c)
  /\ IsFirst(p, Ahead(c))
  /\ plock'   = c
  /\ cpuProc' = [cpuProc EXCEPT ![c] = p]
  /\ state'   = [state EXCEPT ![p] = "RUNNING"]
  /\ scan'    = [scan EXCEPT ![c] = p]
  /\ UNCHANGED <<pid, parent, chan, killed, priority, pc, np, nextpid, ageVars>>

\* The process is done running for now: the loop goes on behind its slot.
Continue_FromTop(c) == scan' = [scan EXCEPT ![c] = 0] /\ plock' = NoCpu
Continue(c) == UNCHANGED <<scan, plock>>

RRReturn(c) ==
  /\ plock = c
  /\ cpuProc[c] # NoProc
  /\ state[cpuProc[c]] # "RUNNING"
  /\ cpuProc' = [cpuProc EXCEPT ![c] = NoProc]
  /\ Continue(c)
  /\ UNCHANGED <<procVars, ageVars>>

\* The end of the table: the lock is released before the next round.
RRLoopEnd(c) ==
  /\ plock = c
  /\ cpuProc[c] = NoProc
  /\ Ahead(c) = {}
  /\ plock' = NoCpu
  /\ scan'  = [scan EXCEPT ![c] = 0]
  /\ UNCHANGED <<procVars, cpuProc, ageVars>>

RRCpuStep(c) ==
  \/ \E p \in Slots : RRPick(c, p)
  \/ RRReturn(c) \/ RRLoopEnd(c)
  \/ Resume(c) /\ UNCHANGED scan
  \/ \E p \in Slots : ProcStep(c, p) /\ UNCHANGED scan

RRNext ==
  \/ \E c \in Cpus : RRCpuStep(c)
  \/ \E ch \in Chans : WakeUp(ch) /\ UNCHANGED scan
  \/ Panicked /\ UNCHANGED scan

RRSpec == RRInit /\ [][RRNext]_rrVars

\* As in Proc: CPUs execute, and a pending timer interrupt is delivered.
RRFairness ==
  \A c \in Cpus :
    /\ WF_rrVars(RRCpuStep(c))
    /\ \A p \in Slots : SF_rrVars(Yield(c, p) /\ UNCHANGED scan)

RRFairSpec == RRSpec /\ RRFairness
=============================================================================
