------------------------------- MODULE Spinlock -------------------------------
(***************************************************************************)
(* Spin locks and interrupts (spinlock.c): acquire() and release() turn    *)
(* the interrupts of the CPU off and on with pushcli() and popcli(), while *)
(* sched() and scheduler() (proc.c) switch threads, with ptable.lock held, *)
(* between CPUs that keep ncli and intena each for itself.                 *)
(***************************************************************************)
EXTENDS Naturals, FiniteSets

CONSTANTS
  Processors,
  Threads,     \* kernel threads, one per process
  None,        \* no thread, no lock, no CPU
  Locks,       \* numbers, in the order in which code nests them
  PTABLE       \* ptable.lock, the innermost

ASSUME SpinlockAssumption ==
  /\ Locks \subseteq Nat /\ IsFiniteSet(Locks) /\ PTABLE \in Locks
  /\ None \notin Locks /\ None \notin Processors /\ None \notin Threads
  /\ Processors \cap Threads = {}

VARIABLES
  holder,      \* the CPU that holds a lock: lk->locked and lk->cpu
  want,        \* the lock that a CPU spins for
  flag,        \* the interrupt flag of a CPU
  ncli, intena,
  run,         \* the thread on a CPU; None is its scheduler
  saved,       \* the local variable intena of a thread in sched(); "new" is a
               \* thread that starts in forkret()
  inIntr       \* the threads and schedulers (by their CPU) that are in an
               \* interrupt handler

spinVars == <<holder, want, flag, ncli, intena, run, saved, inIntr>>

SpinInit ==
  /\ holder = [l \in Locks |-> None]
  /\ want   = [c \in Processors |-> None]
  /\ flag   = [c \in Processors |-> FALSE]
  /\ ncli   = [c \in Processors |-> 0]
  /\ intena = [c \in Processors |-> FALSE]
  /\ run    = [c \in Processors |-> None]
  /\ saved  = [t \in Threads |-> "new"]
  /\ inIntr = {}

Held(c)    == {l \in Locks : holder[l] = c}
Context(c) == IF run[c] = None THEN c ELSE run[c]

-----------------------------------------------------------------------------
(* spinlock.c                                                              *)

Cli_On(c) == flag
Cli(c) == [flag EXCEPT ![c] = FALSE]

\* acquire(): pushcli(), and then the lock is wanted. The code nests locks in one order, so
\* that it never asks for a lock that its CPU has, about which acquire() would panic.
Acquire(c, l) ==
  /\ want[c] = None
  /\ \A m \in Held(c) : m < l
  /\ flag' = Cli(c)
  /\ intena' = IF ncli[c] = 0 THEN [intena EXCEPT ![c] = flag[c]] ELSE intena
  /\ ncli' = [ncli EXCEPT ![c] = @ + 1]
  /\ want' = [want EXCEPT ![c] = l]
  /\ UNCHANGED <<holder, run, saved, inIntr>>

\* xchg() has found the lock free.
Xchg(c) ==
  /\ want[c] # None /\ holder[want[c]] = None
  /\ holder' = [holder EXCEPT ![want[c]] = c]
  /\ want' = [want EXCEPT ![c] = None]
  /\ UNCHANGED <<flag, ncli, intena, run, saved, inIntr>>

\* popcli(), with what release() does to the lock.
PopCli(c, l) ==
  /\ holder' = [holder EXCEPT ![l] = None]
  /\ ncli' = [ncli EXCEPT ![c] = @ - 1]
  /\ flag' = [flag EXCEPT ![c] = @ \/ (ncli[c] = 1 /\ intena[c])]

Release(c, l) ==
  /\ want[c] = None /\ holder[l] = c
  /\ PopCli(c, l)
  /\ UNCHANGED <<want, intena, run, saved, inIntr>>

-----------------------------------------------------------------------------
(* Interrupts: the gate turns them off, iret() turns them on               *)

Intr(c) ==
  /\ flag[c]
  /\ flag' = [flag EXCEPT ![c] = FALSE]
  /\ inIntr' = inIntr \cup {Context(c)}
  /\ UNCHANGED <<holder, want, ncli, intena, run, saved>>

Iret(c) ==
  /\ Context(c) \in inIntr /\ ncli[c] = 0
  /\ flag' = [flag EXCEPT ![c] = TRUE]
  /\ inIntr' = inIntr \ {Context(c)}
  /\ UNCHANGED <<holder, want, ncli, intena, run, saved>>

-----------------------------------------------------------------------------
(* sched() and scheduler()                                                 *)

\* A thread that holds ptable.lock and no other goes back to the scheduler of
\* its CPU, whose next step is the release.
Back(c) ==
  /\ run[c] # None /\ want[c] = None /\ Held(c) = {PTABLE}
  /\ run' = [run EXCEPT ![c] = None]
  /\ PopCli(c, PTABLE)
  /\ UNCHANGED <<want, intena>>

\* sleep() and yield().
Sched(c) ==
  /\ Back(c)
  /\ saved' = [saved EXCEPT ![run[c]] = IF intena[c] THEN "on" ELSE "off"]
  /\ UNCHANGED inIntr

\* exit(), also on the way out of a handler: the process table entry is for a
\* new thread.
Exit(c) ==
  /\ Back(c)
  /\ saved' = [saved EXCEPT ![run[c]] = "new"]
  /\ inIntr' = inIntr \ {run[c]}

\* What a thread that sched() returns to sets the intena of its CPU to.
Restored_None(c, t) == intena[c]
Restored(c, t) == IF saved[t] = "new" THEN intena[c] ELSE saved[t] = "on"

\* The scheduler, with ptable.lock held, switches to a thread: to the end of
\* sched(), or to forkret().
Switch(c, t) ==
  /\ run[c] = None /\ c \notin inIntr
  /\ want[c] = None /\ Held(c) = {PTABLE}
  /\ \A d \in Processors : run[d] # t
  /\ run' = [run EXCEPT ![c] = t]
  /\ intena' = [intena EXCEPT ![c] = Restored(c, t)]
  /\ saved' = [saved EXCEPT ![t] = "off"]
  /\ UNCHANGED <<holder, want, flag, ncli, inIntr>>

\* The head of the loop of scheduler(), where ptable.lock is free.
Sti(c) ==
  /\ run[c] = None /\ c \notin inIntr /\ ncli[c] = 0
  /\ flag' = [flag EXCEPT ![c] = TRUE]
  /\ UNCHANGED <<holder, want, ncli, intena, run, saved, inIntr>>

\* The scheduler takes ptable.lock after it has turned the interrupts on;
\* threads and handlers take any lock.
MayAcquire(c, l) ==
  \/ Context(c) # c \/ c \in inIntr
  \/ l = PTABLE /\ Held(c) = {} /\ flag[c]

SpinNext ==
  \E c \in Processors :
    \/ \E l \in Locks : MayAcquire(c, l) /\ Acquire(c, l)
    \/ \E l \in Locks : Release(c, l)
    \/ Xchg(c) \/ Intr(c) \/ Iret(c)
    \/ Sched(c) \/ Exit(c) \/ Sti(c)
    \/ \E t \in Threads : Switch(c, t)

SpinSpec == SpinInit /\ [][SpinNext]_spinVars

-----------------------------------------------------------------------------
(* Properties                                                              *)

\* Types of the variables.
SpinTypeOK ==
  /\ holder \in [Locks -> Processors \cup {None}]
  /\ want \in [Processors -> Locks \cup {None}]
  /\ flag \in [Processors -> BOOLEAN] /\ intena \in [Processors -> BOOLEAN]
  /\ ncli \in [Processors -> Nat]
  /\ run \in [Processors -> Threads \cup {None}]
  /\ saved \in [Threads -> {"new", "on", "off"}]
  /\ inIntr \subseteq Processors \cup Threads

\* The panics of acquire(), popcli() and sched() are out of reach. No CPU is
\* interrupted while it spins for a lock or has one, so that a handler never
\* waits for a lock of the code that it interrupted; and pushcli() and popcli()
\* match, also where one thread takes ptable.lock and another context releases it.
NoSelfDeadlock ==
  \A c \in Processors :
    /\ want[c] # None => holder[want[c]] # c
    /\ want[c] # None \/ Held(c) # {} => ~flag[c]
    /\ ncli[c] = Cardinality(Held(c)) + (IF want[c] = None THEN 0 ELSE 1)

\* A thread that holds no lock has the interrupts on outside handlers and off
\* inside, whatever thread was switched away from on its CPU before: "intena is
\* a property of this kernel thread, not this CPU".
InterruptsRestored ==
  \A c \in Processors :
    run[c] # None /\ ncli[c] = 0 /\ want[c] = None => (flag[c] <=> run[c] \notin inIntr)

\* What makes them inductive: intena, on the CPU while locks are held there and saved
\* while the thread is away, is FALSE in handlers and TRUE elsewhere; a thread
\* runs on one CPU, and a scheduler that has been interrupted switches to none.
IntrInv ==
  /\ \A c \in Processors :
       /\ Context(c) \in inIntr => ~flag[c]
       /\ ncli[c] > 0 => (intena[c] <=> Context(c) \notin inIntr)
       /\ run[c] # None => c \notin inIntr
       /\ \A d \in Processors : run[c] = run[d] /\ run[c] # None => c = d
  /\ \A t \in Threads :
       (\A c \in Processors : run[c] # t) => (saved[t] = "off" <=> t \in inIntr)

SpinInv == SpinTypeOK /\ NoSelfDeadlock /\ InterruptsRestored /\ IntrInv
===============================================================================
