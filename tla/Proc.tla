-------------------------------- MODULE Proc --------------------------------
(***************************************************************************)
(* The process table of xv6-add_FAIRNESS/proc.c: the life of a process     *)
(* (fork, exit, wait, sleep, wakeup, kill), the priority scheduler that    *)
(* this version puts in the place of round robin, and ptable.lock, which   *)
(* is handed across swtch() from a process to the scheduler of its CPU and *)
(* back.                                                                   *)
(*                                                                         *)
(* A section of code that runs with ptable.lock held from acquire to       *)
(* release is one action.  Where the lock is held ACROSS a context switch  *)
(* the section is cut there, and `plock' names the CPU that holds it.      *)
(* Accesses the code makes without the lock (the aging loop at the head of *)
(* scheduler(), the unlocked writes of allocproc() and fork()) are actions *)
(* of their own, one per load or store.                                    *)
(***************************************************************************)
EXTENDS Integers, FiniteSets

CONSTANTS
  NPROC,         \* slots in ptable.proc (64 in param.h)
  Cpus,          \* the CPUs
  NoCpu,         \* not a CPU: the value of a free lock
  AgingCpus,     \* CPUs that enter scheduler() after userinit()
  Chans,         \* sleep channels other than wait()'s (ticks, buffers, pipes...)
  KillPids,      \* the arguments kill() is called with
  InitPriority,  \* priority of a new process (10 in allocproc)
  MaxPid         \* bound of the model: nextpid stays at or below MaxPid + 1

Slots    == 1..NPROC
InitProc == 1                \* initproc: userinit() takes the first slot
NoProc   == 0                \* a null struct proc *
NoChan   == 0                \* a null channel

ASSUME SlotsAssumption    == NPROC \in Nat \ {0}
ASSUME CpusAssumption     == NoCpu \notin Cpus /\ AgingCpus \subseteq Cpus
ASSUME ChansAssumption    == Chans \cap (0..NPROC) = {}
ASSUME PriorityAssumption == InitPriority \in Nat
ASSUME PidAssumption      == MaxPid \in Nat /\ KillPids \subseteq Nat

States == {"UNUSED", "EMBRYO", "SLEEPING", "RUNNABLE", "RUNNING", "ZOMBIE"}

\* Where a process stands between two of its actions.
\*   user    in user mode              kern   in a system call
\*   fork    allocproc() has returned  copied fork() has set np->parent
\*   wait    in the loop of wait()     exit   in exit(), before ptable.lock
\*   zombie  has called sched() for the last time
\*   failed  initproc, told by fork() that it failed: init.c then exits
\*   panic   in panic(): the for(;;) of console.c
Pcs == {"user", "kern", "fork", "copied", "wait", "exit", "zombie", "failed",
        "panic"}

VARIABLES
  plock,      \* the CPU that holds ptable.lock, or NoCpu
  state, pid, parent, chan, killed, priority,   \* the fields of struct proc
  pc,         \* the point each process has reached
  np,         \* fork()'s local np: the slot of the child being made
  nextpid,
  cpuProc,    \* c->proc of each CPU
  agePc,      \* step of the aging loop a CPU is at, "done" once it is over
  agePos,     \* the loop's p
  ageReg      \* the priority it has loaded into a register

procVars == <<state, pid, parent, chan, killed, priority, pc, np, nextpid>>
ageVars  == <<agePc, agePos, ageReg>>
vars     == <<plock, procVars, cpuProc, ageVars>>

\* main() has called userinit(): initproc is RUNNABLE in the first slot.  The
\* CPUs of AgingCpus (the boot CPU is one) enter scheduler() now, the others
\* have run the aging loop over the empty table.
Init ==
  /\ plock    = NoCpu
  /\ state    = [p \in Slots |-> IF p = InitProc THEN "RUNNABLE" ELSE "UNUSED"]
  /\ pid      = [p \in Slots |-> IF p = InitProc THEN 1 ELSE 0]
  /\ parent   = [p \in Slots |-> NoProc]
  /\ chan     = [p \in Slots |-> NoChan]
  /\ killed   = [p \in Slots |-> FALSE]
  /\ priority = [p \in Slots |-> IF p = InitProc THEN InitPriority ELSE 0]
  /\ pc       = [p \in Slots |-> "user"]
  /\ np       = [p \in Slots |-> NoProc]
  /\ nextpid  = 2
  /\ cpuProc  = [c \in Cpus |-> NoProc]
  /\ agePc    = [c \in Cpus |-> IF c \in AgingCpus THEN "state" ELSE "done"]
  /\ agePos   = [c \in Cpus |-> 1]
  /\ ageReg   = [c \in Cpus |-> 0]

-----------------------------------------------------------------------------
(* Helpers                                                                 *)

LockFree == plock = NoCpu

\* p executes on c, outside any section of ptable.lock.
Runs(c, p) == /\ cpuProc[c] = p
              /\ p \in Slots
              /\ state[p] = "RUNNING"
              /\ plock # c

\* The first slot of S in the order of the table, as the loops over ptable.proc
\* find it.
IsFirst(p, S) == p \in S /\ \A q \in S : p <= q

Unused         == {q \in Slots : state[q] = "UNUSED"}
Sleepers(ch)   == {q \in Slots : state[q] = "SLEEPING" /\ chan[q] = ch}
Children(p)    == {q \in Slots : parent[q] = p}
ZombieKids(p)  == {q \in Children(p) : state[q] = "ZOMBIE"}

\* Into sched() with ptable.lock held: it stays held across swtch().
KeepLock(c) == plock' = c

\* wakeup1() on every channel of a set, on top of the states s.
WakeAll(chs, s) ==
  [q \in Slots |-> IF s[q] = "SLEEPING" /\ chan[q] \in chs
                     THEN "RUNNABLE" ELSE s[q]]

\* What a failed fork() returns to: init.c exits when its fork fails, any
\* other program goes on.
AfterFailedFork(p) == IF p = InitProc THEN "failed" ELSE "user"

-----------------------------------------------------------------------------
(* fork                                                                    *)

\* allocproc() up to its release: the first UNUSED slot becomes EMBRYO.
ForkAlloc(c, p) ==
  /\ Runs(c, p) /\ pc[p] = "kern"
  /\ LockFree
  /\ nextpid <= MaxPid
  /\ \E q \in Slots :
       /\ IsFirst(q, Unused)
       /\ state'    = [state EXCEPT ![q] = "EMBRYO"]
       /\ pid'      = [pid EXCEPT ![q] = nextpid]
       /\ priority' = [priority EXCEPT ![q] = InitPriority]
       /\ np'       = [np EXCEPT ![p] = q]
       /\ pc'       = [pc EXCEPT ![p] = "fork"]
  /\ nextpid' = nextpid + 1
  /\ UNCHANGED <<plock, parent, chan, killed, cpuProc, ageVars>>

\* allocproc() finds no UNUSED slot: fork() returns -1.
ForkNoSlot(c, p) ==
  /\ Runs(c, p) /\ pc[p] = "kern"
  /\ LockFree
  /\ Unused = {}
  /\ pc' = [pc EXCEPT ![p] = AfterFailedFork(p)]
  /\ UNCHANGED <<plock, state, pid, parent, chan, killed, priority, np,
                 nextpid, cpuProc, ageVars>>

\* kalloc() of the stack or copyuvm() fails: the slot becomes UNUSED again,
\* without the lock and with its pid (and killed) left as they are.
ForkNoMemory(c, p) ==
  /\ Runs(c, p) /\ pc[p] = "fork"
  /\ state' = [state EXCEPT ![np[p]] = "UNUSED"]
  /\ np'    = [np EXCEPT ![p] = NoProc]
  /\ pc'    = [pc EXCEPT ![p] = AfterFailedFork(p)]
  /\ UNCHANGED <<plock, pid, parent, chan, killed, priority, nextpid, cpuProc,
                 ageVars>>

\* The child's memory is copied and np->parent set, without the lock.
ForkCopy(c, p) ==
  /\ Runs(c, p) /\ pc[p] = "fork"
  /\ parent' = [parent EXCEPT ![np[p]] = p]
  /\ pc'     = [pc EXCEPT ![p] = "copied", ![np[p]] = "user"]
  /\ UNCHANGED <<plock, state, pid, chan, killed, priority, np, nextpid,
                 cpuProc, ageVars>>

\* The last section of fork(): the child becomes RUNNABLE.
ForkDone(c, p) ==
  /\ Runs(c, p) /\ pc[p] = "copied"
  /\ LockFree
  /\ state' = [state EXCEPT ![np[p]] = "RUNNABLE"]
  /\ np'    = [np EXCEPT ![p] = NoProc]
  /\ pc'    = [pc EXCEPT ![p] = "user"]
  /\ UNCHANGED <<plock, pid, parent, chan, killed, priority, nextpid, cpuProc,
                 ageVars>>

-----------------------------------------------------------------------------
(* System calls that sleep, wakeup and kill                                *)

\* trap() on T_SYSCALL: a killed process does not get past it, but kill() may
\* still come before the system call takes ptable.lock.
EnterKernel(c, p) ==
  /\ Runs(c, p) /\ pc[p] = "user" /\ ~killed[p]
  /\ pc' = [pc EXCEPT ![p] = "kern"]
  /\ UNCHANGED <<plock, state, pid, parent, chan, killed, priority, np,
                 nextpid, cpuProc, ageVars>>

LeaveKernel(c, p) ==
  /\ Runs(c, p) /\ pc[p] = "kern"
  /\ pc' = [pc EXCEPT ![p] = "user"]
  /\ UNCHANGED <<plock, state, pid, parent, chan, killed, priority, np,
                 nextpid, cpuProc, ageVars>>

\* sleep(ch, lk) from a system call, or from the file and log calls of exit():
\* takes ptable.lock and keeps it into sched().
SleepOn(c, p, ch) ==
  /\ Runs(c, p) /\ pc[p] \in {"kern", "exit"}
  /\ LockFree
  /\ KeepLock(c)
  /\ chan'  = [chan EXCEPT ![p] = ch]
  /\ state' = [state EXCEPT ![p] = "SLEEPING"]
  /\ UNCHANGED <<pid, parent, killed, priority, pc, np, nextpid, cpuProc,
                 ageVars>>

\* wakeup(ch), by a process or by an interrupt handler on any CPU.
WakeUp(ch) ==
  /\ LockFree
  /\ Sleepers(ch) # {}
  /\ state' = WakeAll({ch}, state)
  /\ UNCHANGED <<plock, pid, parent, chan, killed, priority, pc, np, nextpid,
                 cpuProc, ageVars>>

\* kill() wakes its victim from sleep.
AfterKill_Always(s) == "RUNNABLE"
AfterKill(s) == IF s = "SLEEPING" THEN "RUNNABLE" ELSE s

\* kill(k): the first slot whose pid is k, whatever its state.
Kill(c, p, k) ==
  /\ Runs(c, p) /\ pc[p] = "kern"
  /\ LockFree
  /\ \E q \in Slots :
       /\ IsFirst(q, {r \in Slots : pid[r] = k})
       /\ killed' = [killed EXCEPT ![q] = TRUE]
       /\ state'  = [state EXCEPT ![q] = AfterKill(@)]
  /\ UNCHANGED <<plock, pid, parent, chan, priority, pc, np, nextpid, cpuProc,
                 ageVars>>

-----------------------------------------------------------------------------
(* exit and wait                                                           *)

\* exit(), called by the program or by trap() for a killed process: initproc
\* panics, the others close their files.  init.c calls it only when its fork
\* has failed.
ExitCall(c, p) ==
  /\ Runs(c, p)
  /\ pc[p] \in {"user", "failed"}
  /\ p = InitProc => killed[p] \/ pc[p] = "failed"
  /\ pc' = [pc EXCEPT ![p] = IF p = InitProc THEN "panic" ELSE "exit"]
  /\ UNCHANGED <<plock, state, pid, parent, chan, killed, priority, np,
                 nextpid, cpuProc, ageVars>>

\* The channels exit() wakes: the parent's, and initproc's when a child that
\* is passed to it is a zombie already.
ExitWakes_ParentOnly(p) == {parent[p]}
ExitWakes(p) == {parent[p]} \cup (IF ZombieKids(p) # {} THEN {InitProc} ELSE {})

\* Abandoned children are passed to initproc.
Reparented(p) ==
  [q \in Slots |-> IF parent[q] = p THEN InitProc ELSE parent[q]]

\* exit() from acquire(&ptable.lock) to sched().
ExitDone(c, p) ==
  /\ Runs(c, p) /\ pc[p] = "exit"
  /\ LockFree
  /\ KeepLock(c)
  /\ state'  = [WakeAll(ExitWakes(p), state) EXCEPT ![p] = "ZOMBIE"]
  /\ parent' = Reparented(p)
  /\ pc'     = [pc EXCEPT ![p] = "zombie"]
  /\ UNCHANGED <<pid, chan, killed, priority, np, nextpid, cpuProc, ageVars>>

\* wait() takes ptable.lock and holds it while it scans the table.
WaitCall(c, p) ==
  /\ Runs(c, p) /\ pc[p] = "kern"
  /\ LockFree
  /\ plock' = c
  /\ pc'    = [pc EXCEPT ![p] = "wait"]
  /\ UNCHANGED <<state, pid, parent, chan, killed, priority, np, nextpid,
                 cpuProc, ageVars>>

\* p is in the loop of wait() with ptable.lock held, on its way in or back
\* from sleep(), whose tail clears chan.
InWait(c, p) ==
  /\ cpuProc[c] = p /\ p \in Slots
  /\ state[p] = "RUNNING" /\ plock = c /\ pc[p] = "wait"

\* p->parent = 0 in the slot that wait() frees.
Orphaned_Not(z) == parent
Orphaned(z) == [parent EXCEPT ![z] = NoProc]

\* The first zombie child is freed, and its slot with it.
WaitReap(c, p) ==
  /\ InWait(c, p)
  /\ \E z \in Slots :
       /\ IsFirst(z, ZombieKids(p))
       /\ pid'    = [pid EXCEPT ![z] = 0]
       /\ parent' = Orphaned(z)
       /\ killed' = [killed EXCEPT ![z] = FALSE]
       /\ state'  = [state EXCEPT ![z] = "UNUSED"]
  /\ chan'  = [chan EXCEPT ![p] = NoChan]
  /\ pc'    = [pc EXCEPT ![p] = "user"]
  /\ plock' = NoCpu
  /\ UNCHANGED <<priority, np, nextpid, cpuProc, ageVars>>

\* No child, or killed: wait() returns -1.
WaitFail(c, p) ==
  /\ InWait(c, p)
  /\ ZombieKids(p) = {}
  /\ Children(p) = {} \/ killed[p]
  /\ chan'  = [chan EXCEPT ![p] = NoChan]
  /\ pc'    = [pc EXCEPT ![p] = "user"]
  /\ plock' = NoCpu
  /\ UNCHANGED <<state, pid, parent, killed, priority, np, nextpid, cpuProc,
                 ageVars>>

\* sleep(curproc, &ptable.lock): the lock stays held into sched().
WaitSleep(c, p) ==
  /\ InWait(c, p)
  /\ ZombieKids(p) = {}
  /\ Children(p) # {} /\ ~killed[p]
  /\ chan'  = [chan EXCEPT ![p] = p]
  /\ state' = [state EXCEPT ![p] = "SLEEPING"]
  /\ UNCHANGED <<plock, pid, parent, killed, priority, pc, np, nextpid,
                 cpuProc, ageVars>>

-----------------------------------------------------------------------------
(* The scheduler                                                           *)

\* The timer interrupt in a process makes it yield(): its priority value goes
\* down by one, that is, it becomes MORE urgent, and the lock is kept into
\* sched().  In user mode a killed process exits instead.
Yield(c, p) ==
  /\ Runs(c, p)
  /\ pc[p] # "panic"
  /\ ~(pc[p] \in {"user", "failed"} /\ killed[p])
  /\ LockFree
  /\ KeepLock(c)
  /\ priority' = [priority EXCEPT ![p] = IF @ > 0 THEN @ - 1 ELSE @]
  /\ state'    = [state EXCEPT ![p] = "RUNNABLE"]
  /\ UNCHANGED <<pid, parent, chan, killed, pc, np, nextpid, cpuProc, ageVars>>

\* swtch() from sched() back into scheduler(): c->proc = 0 and release.
SchedReturn(c) ==
  /\ plock = c
  /\ cpuProc[c] # NoProc
  /\ state[cpuProc[c]] # "RUNNING"
  /\ cpuProc' = [cpuProc EXCEPT ![c] = NoProc]
  /\ plock'   = NoCpu
  /\ UNCHANGED <<procVars, ageVars>>

Chosen_Last(p) ==
  /\ state[p] = "RUNNABLE"
  /\ \A q \in Slots : state[q] = "RUNNABLE" =>
       \/ priority[p] < priority[q]
       \/ priority[p] = priority[q] /\ q <= p

\* The scan of scheduler(): a RUNNABLE process of the least priority value,
\* the first in the table among equals.
Chosen(p) ==
  /\ state[p] = "RUNNABLE"
  /\ \A q \in Slots : state[q] = "RUNNABLE" =>
       \/ priority[p] < priority[q]
       \/ priority[p] = priority[q] /\ p <= q

\* The scan and the swtch() to the process it found.
Pick(c, p) ==
  /\ cpuProc[c] = NoProc /\ agePc[c] = "done"
  /\ LockFree
  /\ Chosen(p)
  /\ plock'   = c
  /\ cpuProc' = [cpuProc EXCEPT ![c] = p]
  /\ state'   = [state EXCEPT ![p] = "RUNNING"]
  /\ UNCHANGED <<pid, parent, chan, killed, priority, pc, np, nextpid, ageVars>>

\* The process goes on where it left off, in forkret(), yield() or sleep(), and
\* releases ptable.lock; the tail of sleep() clears chan.
Resume(c) ==
  /\ plock = c
  /\ \E p \in Slots :
       /\ cpuProc[c] = p
       /\ state[p] = "RUNNING" /\ pc[p] # "wait"
       /\ chan' = [chan EXCEPT ![p] = NoChan]
  /\ plock' = NoCpu
  /\ UNCHANGED <<state, pid, parent, killed, priority, pc, np, nextpid,
                 cpuProc, ageVars>>

-----------------------------------------------------------------------------
(* The aging loop at the head of scheduler(): once per CPU, without the    *)
(* lock, three accesses to memory per slot.                                *)

\* The loop's next slot, or its end.
AgeNext(c) ==
  IF agePos[c] = NPROC
    THEN /\ agePc'  = [agePc EXCEPT ![c] = "done"]
         /\ UNCHANGED agePos
    ELSE /\ agePc'  = [agePc EXCEPT ![c] = "state"]
         /\ agePos' = [agePos EXCEPT ![c] = @ + 1]

\* Reads p->state.
AgeState(c) ==
  /\ agePc[c] = "state"
  /\ IF state[agePos[c]] = "RUNNABLE"
       THEN /\ agePc' = [agePc EXCEPT ![c] = "load"]
            /\ UNCHANGED agePos
       ELSE AgeNext(c)
  /\ UNCHANGED <<plock, procVars, cpuProc, ageReg>>

\* The loop leaves a priority of 0 alone.
Ages(v) == v > 0

\* Reads p->priority.
AgeLoad(c) ==
  /\ agePc[c] = "load"
  /\ IF Ages(priority[agePos[c]])
       THEN /\ agePc'  = [agePc EXCEPT ![c] = "store"]
            /\ ageReg' = [ageReg EXCEPT ![c] = priority[agePos[c]]]
            /\ UNCHANGED agePos
       ELSE AgeNext(c) /\ UNCHANGED ageReg
  /\ UNCHANGED <<plock, procVars, cpuProc>>

\* Writes back the value it read, less one.
AgeStore(c) ==
  /\ agePc[c] = "store"
  /\ priority' = [priority EXCEPT ![agePos[c]] = ageReg[c] - 1]
  /\ ageReg'   = [ageReg EXCEPT ![c] = 0]
  /\ AgeNext(c)
  /\ UNCHANGED <<plock, state, pid, parent, chan, killed, pc, np, nextpid,
                 cpuProc>>

-----------------------------------------------------------------------------
(* The specification                                                       *)

\* What the process that runs on c may do.
ProcStep(c, p) ==
  \/ ForkAlloc(c, p) \/ ForkNoSlot(c, p) \/ ForkNoMemory(c, p)
  \/ ForkCopy(c, p) \/ ForkDone(c, p)
  \/ EnterKernel(c, p) \/ LeaveKernel(c, p)
  \/ \E ch \in Chans : SleepOn(c, p, ch)
  \/ \E k \in KillPids : Kill(c, p, k)
  \/ ExitCall(c, p) \/ ExitDone(c, p)
  \/ WaitCall(c, p) \/ WaitReap(c, p) \/ WaitFail(c, p) \/ WaitSleep(c, p)
  \/ Yield(c, p)

\* What the scheduler of c may do.
SchedStep(c) ==
  \/ SchedReturn(c)
  \/ \E p \in Slots : Pick(c, p)
  \/ Resume(c)
  \/ AgeState(c) \/ AgeLoad(c) \/ AgeStore(c)

Halted == \E p \in Slots : pc[p] = "panic"

\* panic() loops for ever.
Panicked == Halted /\ UNCHANGED vars

Next ==
  \/ \E c \in Cpus : SchedStep(c) \/ \E p \in Slots : ProcStep(c, p)
  \/ \E ch \in Chans : WakeUp(ch)
  \/ Panicked

Spec == Init /\ [][Next]_vars

CpuStep(c) == SchedStep(c) \/ \E p \in Slots : ProcStep(c, p)

\* A CPU goes on executing instructions (an action it can take for ever, it
\* takes), and the timer interrupt, which stays pending while interrupts are
\* off, is delivered to a process that can take it again and again.
Fairness ==
  \A c \in Cpus : /\ WF_vars(CpuStep(c))
                  /\ \A p \in Slots : SF_vars(Yield(c, p))

FairSpec == Spec /\ Fairness

\* In addition a process that is run again and again gets through its system
\* call: only programs in user mode loop for ever.
KernelFinishes(c, p) ==
  \/ ForkNoMemory(c, p) \/ ForkCopy(c, p) \/ ForkDone(c, p)
  \/ LeaveKernel(c, p) \/ ExitDone(c, p)

BestCaseSpec ==
  FairSpec /\ \A c \in Cpus, p \in Slots : SF_vars(KernelFinishes(c, p))

-----------------------------------------------------------------------------
(* Properties                                                              *)

Live == {"SLEEPING", "RUNNABLE", "RUNNING"}

\* Every variable has its type.
TypeOK ==
  /\ plock    \in Cpus \cup {NoCpu}
  /\ state    \in [Slots -> States]
  /\ pid      \in [Slots -> Nat]
  /\ parent   \in [Slots -> 0..NPROC]
  /\ chan     \in [Slots -> Chans \cup 0..NPROC]
  /\ killed   \in [Slots -> BOOLEAN]
  /\ priority \in [Slots -> Int]
  /\ pc       \in [Slots -> Pcs]
  /\ np       \in [Slots -> 0..NPROC]
  /\ nextpid  \in Nat
  /\ cpuProc  \in [Cpus -> 0..NPROC]
  /\ agePc    \in [Cpus -> {"state", "load", "store", "done"}]
  /\ agePos   \in [Cpus -> Slots]
  /\ ageReg   \in [Cpus -> Int]

\* No process runs on two CPUs: ptable.lock, held across swtch() in yield(),
\* sleep() and exit(), keeps a RUNNABLE process from being picked before it
\* has left the stack it is on.
OneCpuPerProc ==
  \A c, d \in Cpus : cpuProc[c] = cpuProc[d] /\ cpuProc[c] # NoProc => c = d

\* A process that a CPU executes is RUNNING, or that CPU holds ptable.lock on
\* its way to the scheduler: no parent frees, in wait(), a kernel stack in use.
StackSafe ==
  \A c \in Cpus : cpuProc[c] # NoProc =>
     state[cpuProc[c]] = "RUNNING" \/ plock = c

\* wait() misses no exit and no kill: a process asleep in wait() has a live
\* child whose exit will wake it, no child that is a zombie already, and has not
\* been killed.
NoMissedChild ==
  \A p \in Slots : state[p] = "SLEEPING" /\ pc[p] = "wait" =>
     /\ \E q \in Children(p) : state[q] \in Live
     /\ ZombieKids(p) = {} /\ ~killed[p]

\* Each process but initproc has a parent that can still wait() for it: exit()
\* leaves no child to a zombie or to the next process in its slot.
ParentAlive ==
  \A p \in Slots :
     /\ parent[p] # NoProc => state[parent[p]] \in Live
     /\ p # InitProc /\ state[p] \in Live \cup {"ZOMBIE"} => parent[p] # NoProc

\* Neither yield() nor the unlocked aging loop takes a priority below 0 or
\* above that of a new process, whatever they overwrite.
PriorityBound == \A p \in Slots : priority[p] \in 0..InitPriority

\* The life of a slot, one step at a time.
Lifecycle ==
  {<<"UNUSED", "EMBRYO">>, <<"EMBRYO", "UNUSED">>, <<"EMBRYO", "RUNNABLE">>,
   <<"RUNNABLE", "RUNNING">>, <<"RUNNING", "RUNNABLE">>,
   <<"RUNNING", "SLEEPING">>, <<"SLEEPING", "RUNNABLE">>,
   <<"RUNNING", "ZOMBIE">>, <<"ZOMBIE", "UNUSED">>}

\* A slot changes state along the arrows of the life cycle only: kill() and
\* wakeup() revive no zombie and start no process that is still being made.
LegalStep ==
  \A p \in Slots : state'[p] = state[p] \/ <<state[p], state'[p]>> \in Lifecycle
LegalTransitions == [][LegalStep]_vars

\* The one promise this scheduler keeps: the first slot, once RUNNABLE at
\* priority 0, gets the CPU.
TopPriorityRuns ==
  state[InitProc] = "RUNNABLE" /\ priority[InitProc] = 0
    ~> state[InitProc] = "RUNNING"

\* What the comment on the aging loop announces for processes that have waited
\* for long, and what the round robin scheduler gave: unless the kernel panics,
\* none waits for ever.
NoStarvation ==
  \A p \in Slots : state[p] = "RUNNABLE" ~> state[p] # "RUNNABLE" \/ Halted

\* `killed' says that this process has been killed: none begins life with it.
NewProcessNotKilled ==
  [][\A p \in Slots : state[p] = "UNUSED" /\ state'[p] = "EMBRYO"
                        => ~killed'[p]]_vars

-----------------------------------------------------------------------------
(* The inductive invariant                                                 *)

Runnable == {"RUNNABLE", "RUNNING"}
Making   == {"fork", "copied"}

\* A process on a CPU is RUNNING there, or has left RUNNING under the lock; in
\* wait() it holds the lock.
OnCpuInv ==
  \A c \in Cpus : cpuProc[c] # NoProc =>
     /\ state[cpuProc[c]] \in Live \cup {"ZOMBIE"}
     /\ state[cpuProc[c]] = "RUNNING" \/ plock = c
     /\ pc[cpuProc[c]] = "wait" => plock = c

\* The lock, when held between two actions, is held on behalf of a process.
LockInv == plock # NoCpu => cpuProc[plock] # NoProc

\* A RUNNING process is on a CPU.
RunningInv ==
  \A p \in Slots : state[p] = "RUNNING" => \E c \in Cpus : cpuProc[c] = p

\* The slot a process is filling is EMBRYO, is nobody else's, and has its parent
\* only from ForkCopy on.
ForkInv ==
  \A p \in Slots :
     /\ state[p] \in Live /\ pc[p] \in Making => np[p] # NoProc
     /\ np[p] # NoProc =>
          /\ state[p] \in Runnable /\ pc[p] \in Making
          /\ state[np[p]] = "EMBRYO"
          /\ parent[np[p]] = IF pc[p] = "fork" THEN NoProc ELSE p
          /\ pc[p] = "copied" => pc[np[p]] = "user"
          /\ \A q \in Slots : np[q] = np[p] => q = p

\* A slot that is EMBRYO is being filled.
EmbryoInv ==
  \A q \in Slots : state[q] = "EMBRYO" => \E p \in Slots : np[p] = q

\* A free slot is nobody's child, a live process but initproc is somebody's, and
\* parents are live.
ParentInv ==
  /\ ParentAlive
  /\ \A p \in Slots : /\ state[p] = "UNUSED" => parent[p] = NoProc
                     /\ parent[p] # p
  /\ state[InitProc] \in Live
  /\ parent[InitProc] = NoProc
  /\ pc[InitProc] \notin {"exit", "zombie"}

\* Where a process can be in each state.
PcInv ==
  \A p \in Slots :
     /\ state[p] = "SLEEPING" => pc[p] \in {"kern", "exit", "wait"}
     /\ state[p] \in Live => pc[p] # "zombie"
     /\ state[p] = "ZOMBIE" => pc[p] = "zombie"
     /\ state[p] = "SLEEPING" /\ pc[p] = "wait" => chan[p] = p

\* wait() went to sleep with a child, none of them a zombie, and not killed.
WaitInv ==
  \A p \in Slots : state[p] = "SLEEPING" /\ pc[p] = "wait" =>
     Children(p) # {} /\ ZombieKids(p) = {} /\ ~killed[p]

IInv == /\ TypeOK
        /\ OneCpuPerProc /\ OnCpuInv /\ LockInv /\ RunningInv
        /\ ForkInv /\ EmbryoInv /\ ParentInv /\ PcInv /\ WaitInv

\* What the aging loop holds in a register is a priority, above 0 when stored.
AgeInv ==
  \A c \in Cpus : /\ ageReg[c] \in 0..InitPriority
                  /\ agePc[c] = "store" => ageReg[c] > 0

PInv == TypeOK /\ PriorityBound /\ AgeInv

\* Both: the process table with its lock, and the priorities, which no lock protects.
TableInv == IInv /\ PInv
=============================================================================
