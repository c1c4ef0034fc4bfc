------------------------------ MODULE SleepLock ------------------------------
(***************************************************************************)
(* One sleep lock (sleeplock.c) and the sleep() and wakeup() below it      *)
(* (proc.c), at the grain of the two spin locks that they nest: the lock   *)
(* lk of the sleep lock, and ptable.lock.                                  *)
(***************************************************************************)
CONSTANTS
  Procs,
  Nobody      \* nobody holds the lock

ASSUME SleepLockAssumption == Nobody \notin Procs

VARIABLES
  lk,         \* who holds lk->lk
  ptable,     \* who holds ptable.lock
  locked, pid,   \* the fields of the sleep lock
  pc,         \* where each process stands
  killed      \* the processes whose p->killed is set

vars == <<lk, ptable, locked, pid, pc, killed>>

Init ==
  /\ lk = Nobody /\ ptable = Nobody
  /\ locked = FALSE /\ pid = Nobody
  /\ pc = [p \in Procs |-> "out"]
  /\ killed = {}

Advance(p, from, to) == pc[p] = from /\ pc' = [pc EXCEPT ![p] = to]

-----------------------------------------------------------------------------
(* acquiresleep()                                                          *)

Enter(p) ==
  /\ Advance(p, "out", "enter")
  /\ UNCHANGED <<lk, ptable, locked, pid, killed>>

\* acquire(&lk->lk), on the way in or after a sleep.
Spin(p) ==
  /\ Advance(p, "enter", "test")
  /\ lk = Nobody /\ lk' = p
  /\ UNCHANGED <<ptable, locked, pid, killed>>

\* The loop ends: the lock is taken.
Take_Untested(p) ==
  /\ Advance(p, "test", "in")
  /\ locked' = TRUE /\ pid' = p
  /\ lk' = Nobody
  /\ UNCHANGED <<ptable, killed>>
Take(p) ==
  /\ Advance(p, "test", "in") /\ ~locked
  /\ locked' = TRUE /\ pid' = p
  /\ lk' = Nobody
  /\ UNCHANGED <<ptable, killed>>

\* sleep(): ptable.lock first ...
SleepBegin(p) ==
  /\ Advance(p, "test", "handover") /\ locked
  /\ ptable = Nobody /\ ptable' = p
  /\ UNCHANGED <<lk, locked, pid, killed>>

\* ... then the release of lk ...
Handover(p) ==
  /\ Advance(p, "handover", "sleep")
  /\ lk' = Nobody
  /\ UNCHANGED <<ptable, locked, pid, killed>>

\* ... and sched(), which leaves ptable.lock to the scheduler.
Sleep(p) ==
  /\ Advance(p, "sleep", "asleep")
  /\ ptable' = Nobody
  /\ UNCHANGED <<lk, locked, pid, killed>>

\* The scheduler switches to p with ptable.lock held; p releases it.
Resume(p) ==
  /\ Advance(p, "runnable", "resumed")
  /\ ptable = Nobody /\ ptable' = p
  /\ UNCHANGED <<lk, locked, pid, killed>>

Resumed(p) ==
  /\ Advance(p, "resumed", "enter")
  /\ ptable' = Nobody
  /\ UNCHANGED <<lk, locked, pid, killed>>

-----------------------------------------------------------------------------
(* releasesleep()                                                          *)

Leave(p) ==
  /\ Advance(p, "in", "clear")
  /\ lk = Nobody /\ lk' = p
  /\ UNCHANGED <<ptable, locked, pid, killed>>

Clear(p) ==
  /\ Advance(p, "clear", "wake")
  /\ locked' = FALSE /\ pid' = Nobody
  /\ UNCHANGED <<lk, ptable, killed>>

\* wakeup1(): every process asleep on the lock.
Woken_None == pc
Woken == [q \in Procs |-> IF pc[q] = "asleep" THEN "runnable" ELSE pc[q]]

\* wakeup() takes and releases ptable.lock.
Wakeup(p) ==
  /\ pc[p] = "wake" /\ ptable = Nobody
  /\ pc' = [Woken EXCEPT ![p] = "done"]
  /\ UNCHANGED <<lk, ptable, locked, pid, killed>>

Done(p) ==
  /\ Advance(p, "done", "out")
  /\ lk' = Nobody
  /\ UNCHANGED <<ptable, locked, pid, killed>>

\* kill() wakes p whatever it sleeps for; the loop of acquiresleep() does not
\* look at p->killed.
Kill(p) ==
  /\ ptable = Nobody /\ p \notin killed
  /\ killed' = killed \cup {p}
  /\ pc' = IF pc[p] = "asleep" THEN [pc EXCEPT ![p] = "runnable"] ELSE pc
  /\ UNCHANGED <<lk, ptable, locked, pid>>

Kernel(p) ==
  \/ Spin(p) \/ Take(p) \/ SleepBegin(p) \/ Handover(p) \/ Sleep(p)
  \/ Resume(p) \/ Resumed(p)
  \/ Leave(p) \/ Clear(p) \/ Wakeup(p) \/ Done(p)

Next == \E p \in Procs : Enter(p) \/ Kernel(p) \/ Kill(p)

\* Kernel code goes on, and a holder releases the lock.
Fairness == \A p \in Procs : WF_vars(Kernel(p))

Spec == Init /\ [][Next]_vars /\ Fairness

-----------------------------------------------------------------------------
(* Properties                                                              *)

\* Types of the variables.
TypeOK ==
  /\ lk \in Procs \cup {Nobody} /\ ptable \in Procs \cup {Nobody}
  /\ locked \in BOOLEAN /\ pid \in Procs \cup {Nobody}
  /\ pc \in [Procs -> {"out", "enter", "test", "handover", "sleep", "asleep", "runnable",
                       "resumed", "in", "clear", "wake", "done"}]
  /\ killed \subseteq Procs

\* Who holds lk, ptable.lock and the sleep lock.
LockInv ==
  \A p \in Procs :
    /\ pc[p] \in {"test", "handover", "clear", "wake", "done"} <=> lk = p
    /\ pc[p] \in {"handover", "sleep", "resumed"} <=> ptable = p
    /\ pc[p] \in {"in", "clear"} <=> pid = p

\* The lock is free when nobody holds it.
HolderInv == locked <=> pid # Nobody

\* A process that is asleep on the lock, or about to be, waits for a holder that
\* has still to release it, or for one that has and is about to call wakeup():
\* sleep() has let lk go only after it had ptable.lock.
NoLostWakeup ==
  \A p \in Procs :
    /\ pc[p] = "handover" => locked
    /\ pc[p] \in {"sleep", "asleep"} => locked \/ \E q \in Procs : pc[q] = "wake"

\* The inductive invariant.
IInv == TypeOK /\ LockInv /\ HolderInv /\ NoLostWakeup

\* The sleep lock is a lock: acquiresleep() and releasesleep() take effect at
\* one point each, and between them nobody else has it.
Lock == INSTANCE Mutex WITH holder <- pid

IsMutex == Lock!Spec

\* A process that sleeps for the lock is woken when it is released.
SleeperWoken ==
  \A p \in Procs : pc[p] = "asleep" ~> pc[p] # "asleep"
===============================================================================
