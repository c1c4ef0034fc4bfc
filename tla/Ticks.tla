-------------------------------- MODULE Ticks --------------------------------
(***************************************************************************)
(* sys_sleep() (sysproc.c) against the timer interrupt (trap.c) and kill() *)
(* (proc.c): unsigned 32-bit arithmetic on a tick counter that wraps.      *)
(***************************************************************************)
EXTENDS Integers

CONSTANTS
  Callers, NoCaller,   \* processes
  Wrap,        \* 2^32 in the code
  Delays,      \* arguments of sleep(), as unsigned numbers
  Lag          \* assumed of the scheduler: a process that is woken runs before
               \* this many ticks

ASSUME TicksAssumption ==
  /\ NoCaller \notin Callers
  /\ Wrap \in Nat \ {0} /\ Delays \subseteq 0 .. Wrap - 1 /\ Lag \in Nat

VARIABLES
  ticks,
  tickslock,     \* the process that has it
  tpc, n, ticks0,  \* sys_sleep()
  tkilled,       \* the processes whose p->killed is set
  elapsed,       \* ghost: the ticks since the call began, up to Wrap
  late           \* ghost: the ticks since the process was woken

tickLocals == <<tpc, n, ticks0>>
tickGhosts == <<elapsed, late>>
tickVars   == <<ticks, tickslock, tickLocals, tkilled, tickGhosts>>

Zero == [p \in Callers |-> 0]

TicksInit ==
  /\ ticks = 0 /\ tickslock = NoCaller
  /\ tpc = [p \in Callers |-> "out"]
  /\ n = Zero /\ ticks0 = Zero
  /\ tkilled = {}
  /\ elapsed = Zero /\ late = Zero

\* The timer interrupt on CPU 0: ticks++ and wakeup(&ticks).
WokenCallers_One ==
  [p \in Callers |-> IF tpc[p] = "asleep" /\ \A q \in Callers : tpc[q] # "runnable"
                    THEN "runnable" ELSE tpc[p]]
WokenCallers == [p \in Callers |-> IF tpc[p] = "asleep" THEN "runnable" ELSE tpc[p]]

Timer ==
  /\ tickslock = NoCaller
  /\ \A p \in Callers : tpc[p] = "runnable" => late[p] + 1 < Lag
  /\ ticks' = (ticks + 1) % Wrap
  /\ tpc' = WokenCallers
  /\ elapsed' = [p \in Callers |-> IF tpc[p] = "out" \/ elapsed[p] = Wrap
                                 THEN elapsed[p] ELSE elapsed[p] + 1]
  /\ late' = [p \in Callers |-> IF tpc[p] = "runnable" THEN late[p] + 1 ELSE 0]
  /\ UNCHANGED <<tickslock, n, ticks0, tkilled>>

CallSleep(p, k) ==
  /\ tpc[p] = "out" /\ tickslock = NoCaller
  /\ tickslock' = p
  /\ tpc' = [tpc EXCEPT ![p] = "test"]
  /\ n' = [n EXCEPT ![p] = k] /\ ticks0' = [ticks0 EXCEPT ![p] = ticks]
  /\ elapsed' = [elapsed EXCEPT ![p] = 0]
  /\ UNCHANGED <<ticks, tkilled, late>>

\* ticks - ticks0 < n, unsigned
Early_Once(p) == elapsed[p] = 0
Early(p) == (ticks + Wrap - ticks0[p]) % Wrap < n[p]

\* Out with 0 when the time is over, with -1 for a process that has been killed.
MayReturn(p) == ~Early(p) \/ p \in tkilled

Returns(p) ==
  /\ tpc[p] = "test" /\ MayReturn(p)
  /\ tpc' = [tpc EXCEPT ![p] = IF Early(p) THEN "failed" ELSE "slept"]
  /\ tickslock' = NoCaller
  /\ UNCHANGED <<ticks, n, ticks0, tkilled, tickGhosts>>

BeforeSleep(p) ==
  /\ tpc[p] = "test" /\ ~MayReturn(p)
  /\ tpc' = [tpc EXCEPT ![p] = "sleep"]
  /\ UNCHANGED <<ticks, tickslock, n, ticks0, tkilled, tickGhosts>>

\* sleep(): a kill() that comes before it does not wake p.
Block(p) ==
  /\ tpc[p] = "sleep"
  /\ tpc' = [tpc EXCEPT ![p] = "asleep"]
  /\ tickslock' = NoCaller
  /\ UNCHANGED <<ticks, n, ticks0, tkilled, tickGhosts>>

Reacquire(p) ==
  /\ tpc[p] = "runnable" /\ tickslock = NoCaller
  /\ tickslock' = p
  /\ tpc' = [tpc EXCEPT ![p] = "test"]
  /\ late' = [late EXCEPT ![p] = 0]
  /\ UNCHANGED <<ticks, n, ticks0, tkilled, elapsed>>

\* Back in user space; a process that was killed exits, and its slot goes to
\* another.
ToUser(p) ==
  /\ tpc[p] \in {"slept", "failed"}
  /\ tpc' = [tpc EXCEPT ![p] = "out"]
  /\ n' = [n EXCEPT ![p] = 0] /\ ticks0' = [ticks0 EXCEPT ![p] = 0]
  /\ elapsed' = [elapsed EXCEPT ![p] = 0]
  /\ tkilled' = tkilled \ {p}
  /\ UNCHANGED <<ticks, tickslock, late>>

KillCaller(p) ==
  /\ tpc[p] # "out" /\ p \notin tkilled
  /\ tkilled' = tkilled \cup {p}
  /\ tpc' = IF tpc[p] = "asleep" THEN [tpc EXCEPT ![p] = "runnable"] ELSE tpc
  /\ UNCHANGED <<ticks, tickslock, n, ticks0, tickGhosts>>

SysSleep(p) == Returns(p) \/ BeforeSleep(p) \/ Block(p) \/ Reacquire(p) \/ ToUser(p)

TicksNext ==
  \/ Timer
  \/ \E p \in Callers : SysSleep(p) \/ KillCaller(p) \/ \E k \in Delays : CallSleep(p, k)

\* The timer ticks; kernel code goes on, and everybody gets tickslock in the end.
TicksFairness == SF_tickVars(Timer) /\ \A p \in Callers : WF_tickVars(SysSleep(p)) /\ SF_tickVars(Reacquire(p))

TicksSpec == TicksInit /\ [][TicksNext]_tickVars /\ TicksFairness

-----------------------------------------------------------------------------
(* Properties                                                              *)

\* Types of the variables.
TicksTypeOK ==
  /\ ticks \in 0 .. Wrap - 1
  /\ tickslock \in Callers \cup {NoCaller}
  /\ tpc \in [Callers -> {"out", "test", "sleep", "asleep", "runnable", "slept", "failed"}]
  /\ n \in [Callers -> Delays \cup {0}] /\ ticks0 \in [Callers -> 0 .. Wrap - 1]
  /\ tkilled \subseteq Callers
  /\ elapsed \in [Callers -> 0 .. Wrap] /\ late \in [Callers -> Nat]

\* sleep(n) returns 0 only when n ticks have passed, also where the counter wraps
\* in between, and -1 only in a process that has been killed.
SleepsEnough ==
  \A p \in Callers :
    /\ tpc[p] = "slept" => elapsed[p] >= n[p]
    /\ tpc[p] = "failed" => p \in tkilled

\* The ghost counts the ticks of a call: as long as it has not reached Wrap, the counter
\* is that far from ticks0, with or without a wrap in between.
Counted(p) ==
  \/ elapsed[p] = Wrap
  \/ elapsed[p] < Wrap /\ ticks \in {ticks0[p] + elapsed[p], ticks0[p] + elapsed[p] - Wrap}

\* The inductive invariant.
TicksInv ==
  /\ TicksTypeOK /\ SleepsEnough
  /\ \A p \in Callers :
       tpc[p] \in {"test", "sleep", "asleep", "runnable"} => Counted(p)

\* sleep(n) ends: no process misses the interval in which the difference is at
\* least n, which is as long as the lag for every n that leaves room for it. And a
\* process that has been killed leaves the call, whatever its n (a negative one is
\* nearly 2^32 ticks): a kill() that comes between the test of killed and sleep(),
\* and wakes nobody, is noticed after the next tick.
SleepEnds ==
  \A p \in Callers :
    /\ tpc[p] = "test" /\ n[p] + Lag <= Wrap ~> tpc[p] = "out"
    /\ p \in tkilled ~> tpc[p] = "out"
===============================================================================
