----------------------------- MODULE ProcProofs -----------------------------
(***************************************************************************)
(* Proofs about Proc, for any number of slots, CPUs, channels and pids.    *)
(***************************************************************************)
EXTENDS Proc, TLAPS

\* The values that steps assign, with their types.
LEMMA Values ==
  /\ "UNUSED" \in States /\ "EMBRYO" \in States /\ "SLEEPING" \in States
  /\ "RUNNABLE" \in States /\ "RUNNING" \in States /\ "ZOMBIE" \in States
  /\ "user" \in Pcs /\ "kern" \in Pcs /\ "fork" \in Pcs /\ "copied" \in Pcs
  /\ "wait" \in Pcs /\ "exit" \in Pcs /\ "zombie" \in Pcs /\ "panic" \in Pcs
  /\ \A p : AfterFailedFork(p) \in Pcs
  /\ \A s \in States : AfterKill(s) \in States
BY DEF States, Pcs, AfterFailedFork, AfterKill

\* Slots, as values of a struct proc pointer or of a channel.
LEMMA SlotFacts ==
  /\ InitProc \in Slots
  /\ NoProc \in 0..NPROC /\ NoProc \notin Slots
  /\ NoChan \in 0..NPROC
  /\ \A q \in Slots : q \in 0..NPROC
  /\ \A q \in 0..NPROC : q # NoProc => q \in Slots
  /\ \A q \in Slots : q # NPROC => q + 1 \in Slots
BY SlotsAssumption DEF Slots, InitProc, NoProc, NoChan

\* The initial states have the type.
LEMMA InitType == Init => TypeOK
BY SlotsAssumption, PriorityAssumption, SlotFacts, Values
   DEF Init, TypeOK, Slots

\* A step of a process keeps the type.
LEMMA ProcStepType ==
  ASSUME TypeOK, NEW c \in Cpus, NEW p \in Slots, ProcStep(c, p)
  PROVE  TypeOK'
<1> USE SlotFacts, Values DEF TypeOK, Runs, KeepLock
<1>1. CASE ForkAlloc(c, p)
  <2>1. PICK q \in Slots :
           /\ state'    = [state EXCEPT ![q] = "EMBRYO"]
           /\ pid'      = [pid EXCEPT ![q] = nextpid]
           /\ priority' = [priority EXCEPT ![q] = InitPriority]
           /\ np'       = [np EXCEPT ![p] = q]
           /\ pc'       = [pc EXCEPT ![p] = "fork"]
    BY <1>1 DEF ForkAlloc
  <2>2. UNCHANGED <<plock, parent, chan, killed, cpuProc, agePc, agePos, ageReg>>
    BY <1>1 DEF ForkAlloc, ageVars
  <2>3. nextpid' \in Nat
    BY <1>1 DEF ForkAlloc
  <2>4. state' \in [Slots -> States] /\ pc' \in [Slots -> Pcs]
    BY <2>1
  <2>5. pid' \in [Slots -> Nat] /\ priority' \in [Slots -> Int]
    BY <2>1, PriorityAssumption
  <2>6. np' \in [Slots -> 0..NPROC]
    BY <2>1
  <2> QED
    BY <2>2, <2>3, <2>4, <2>5, <2>6
<1>2. CASE ForkNoSlot(c, p)
  BY <1>2 DEF ForkNoSlot, ageVars
<1>3. CASE ForkNoMemory(c, p)
  BY <1>3 DEF ForkNoMemory, ageVars
<1>4. CASE ForkCopy(c, p)
  BY <1>4 DEF ForkCopy, ageVars
<1>5. CASE ForkDone(c, p)
  BY <1>5 DEF ForkDone, ageVars
<1>6. CASE EnterKernel(c, p)
  BY <1>6 DEF EnterKernel, ageVars
<1>7. CASE LeaveKernel(c, p)
  BY <1>7 DEF LeaveKernel, ageVars
<1>8. ASSUME NEW ch \in Chans, SleepOn(c, p, ch) PROVE TypeOK'
  BY <1>8 DEF SleepOn, ageVars
<1>9. ASSUME NEW k \in KillPids, Kill(c, p, k) PROVE TypeOK'
  <2>1. PICK q \in Slots :
           /\ killed' = [killed EXCEPT ![q] = TRUE]
           /\ state'  = [state EXCEPT ![q] = AfterKill(@)]
    BY <1>9 DEF Kill
  <2>2. UNCHANGED <<plock, pid, parent, chan, priority, pc, np, nextpid, cpuProc,
                    agePc, agePos, ageReg>>
    BY <1>9 DEF Kill, ageVars
  <2>3. state' \in [Slots -> States]
    BY <2>1
  <2>4. killed' \in [Slots -> BOOLEAN]
    BY <2>1
  <2> QED
    BY <2>2, <2>3, <2>4
<1>10. CASE ExitCall(c, p)
  BY <1>10 DEF ExitCall, ageVars
<1>11. CASE ExitDone(c, p)
  <2>1. UNCHANGED <<pid, chan, killed, priority, np, nextpid, cpuProc, agePc,
                    agePos, ageReg>>
    BY <1>11 DEF ExitDone, ageVars
  <2>2. WakeAll(ExitWakes(p), state) \in [Slots -> States]
    BY DEF WakeAll
  <2>3. state' \in [Slots -> States]
    BY <1>11, <2>2 DEF ExitDone
  <2>4. parent' \in [Slots -> 0..NPROC]
    BY <1>11 DEF ExitDone, Reparented
  <2>5. pc' \in [Slots -> Pcs] /\ plock' = c
    BY <1>11 DEF ExitDone
  <2> QED
    BY <2>1, <2>3, <2>4, <2>5
<1>12. CASE WaitCall(c, p)
  BY <1>12 DEF WaitCall, ageVars
<1>13. CASE WaitReap(c, p)
  <2>1. PICK z \in Slots :
           /\ pid'    = [pid EXCEPT ![z] = 0]
           /\ parent' = [parent EXCEPT ![z] = NoProc]
           /\ killed' = [killed EXCEPT ![z] = FALSE]
           /\ state'  = [state EXCEPT ![z] = "UNUSED"]
    BY <1>13 DEF WaitReap, Orphaned
  <2>2. UNCHANGED <<priority, np, nextpid, cpuProc, agePc, agePos, ageReg>>
    BY <1>13 DEF WaitReap, ageVars
  <2>3. state' \in [Slots -> States] /\ parent' \in [Slots -> 0..NPROC]
    BY <2>1
  <2>4. killed' \in [Slots -> BOOLEAN] /\ pid' \in [Slots -> Nat]
    BY <2>1
  <2>5. chan' \in [Slots -> Chans \cup 0..NPROC] /\ pc' \in [Slots -> Pcs]
        /\ plock' = NoCpu
    BY <1>13 DEF WaitReap
  <2> QED
    BY <2>2, <2>3, <2>4, <2>5
<1>14. CASE WaitFail(c, p)
  BY <1>14 DEF WaitFail, InWait, ageVars
<1>15. CASE WaitSleep(c, p)
  BY <1>15 DEF WaitSleep, InWait, ageVars
<1>16. CASE Yield(c, p)
  <2>1. UNCHANGED <<pid, parent, chan, killed, pc, np, nextpid, cpuProc, agePc,
                    agePos, ageReg>>
    BY <1>16 DEF Yield, ageVars
  <2>2. priority' \in [Slots -> Int]
    BY <1>16 DEF Yield
  <2>3. state' \in [Slots -> States] /\ plock' = c
    BY <1>16 DEF Yield
  <2> QED
    BY <2>1, <2>2, <2>3
<1> QED
  BY <1>1, <1>2, <1>3, <1>4, <1>5, <1>6, <1>7, <1>8, <1>9, <1>10, <1>11,
     <1>12, <1>13, <1>14, <1>15, <1>16 DEF ProcStep

\* A step of a scheduler keeps the type.
LEMMA SchedStepType ==
  ASSUME TypeOK, NEW c \in Cpus, SchedStep(c)
  PROVE  TypeOK'
<1> USE SlotFacts, Values DEF TypeOK, procVars
<1>1. CASE SchedReturn(c)
  BY <1>1 DEF SchedReturn, ageVars
<1>2. ASSUME NEW p \in Slots, Pick(c, p) PROVE TypeOK'
  <2>1. UNCHANGED <<pid, parent, chan, killed, priority, pc, np, nextpid, agePc,
                    agePos, ageReg>>
    BY <1>2 DEF Pick, ageVars
  <2>2. state' \in [Slots -> States] /\ plock' = c
    BY <1>2 DEF Pick
  <2>3. cpuProc' \in [Cpus -> 0..NPROC]
    BY <1>2 DEF Pick
  <2> QED
    BY <2>1, <2>2, <2>3
<1>3. CASE Resume(c)
  <2>1. UNCHANGED <<state, pid, parent, killed, priority, pc, np, nextpid,
                    cpuProc, agePc, agePos, ageReg>>
    BY <1>3 DEF Resume, ageVars
  <2>2. PICK p \in Slots : chan' = [chan EXCEPT ![p] = NoChan]
    BY <1>3 DEF Resume
  <2>3. chan' \in [Slots -> Chans \cup 0..NPROC] /\ plock' = NoCpu
    BY <1>3, <2>2 DEF Resume
  <2> QED
    BY <2>1, <2>3
<1>4. ASSUME AgeNext(c)
      PROVE  /\ agePc' \in [Cpus -> {"state", "load", "store", "done"}]
             /\ agePos' \in [Cpus -> Slots]
  BY <1>4 DEF AgeNext
<1>5. CASE AgeState(c)
  <2>1. UNCHANGED <<plock, state, pid, parent, chan, killed, priority, pc, np,
                    nextpid, cpuProc, ageReg>>
    BY <1>5 DEF AgeState
  <2>2. \/ AgeNext(c)
        \/ agePc' = [agePc EXCEPT ![c] = "load"] /\ agePos' = agePos
    BY <1>5 DEF AgeState
  <2>3. /\ agePc' \in [Cpus -> {"state", "load", "store", "done"}]
        /\ agePos' \in [Cpus -> Slots]
    BY <1>4, <2>2
  <2> QED
    BY <2>1, <2>3
<1>6. CASE AgeLoad(c)
  <2>1. UNCHANGED <<plock, state, pid, parent, chan, killed, priority, pc, np,
                    nextpid, cpuProc>>
    BY <1>6 DEF AgeLoad
  <2>2. \/ AgeNext(c) /\ ageReg' = ageReg
        \/ /\ agePc'  = [agePc EXCEPT ![c] = "store"]
           /\ agePos' = agePos
           /\ ageReg' = [ageReg EXCEPT ![c] = priority[agePos[c]]]
    BY <1>6 DEF AgeLoad
  <2>3. /\ agePc' \in [Cpus -> {"state", "load", "store", "done"}]
        /\ agePos' \in [Cpus -> Slots]
    BY <1>4, <2>2
  <2>4. ageReg' \in [Cpus -> Int]
    BY <2>2
  <2> QED
    BY <2>1, <2>3, <2>4
<1>7. CASE AgeStore(c)
  <2>1. UNCHANGED <<plock, state, pid, parent, chan, killed, pc, np, nextpid,
                    cpuProc>>
    BY <1>7 DEF AgeStore
  <2>2. /\ agePc' \in [Cpus -> {"state", "load", "store", "done"}]
        /\ agePos' \in [Cpus -> Slots]
    BY <1>4, <1>7 DEF AgeStore
  <2>3. ageReg' \in [Cpus -> Int] /\ priority' \in [Slots -> Int]
    BY <1>7 DEF AgeStore
  <2> QED
    BY <2>1, <2>2, <2>3
<1> QED
  BY <1>1, <1>2, <1>3, <1>5, <1>6, <1>7 DEF SchedStep

\* Every step keeps the type.
LEMMA NextType ==
  ASSUME TypeOK, [Next]_vars
  PROVE  TypeOK'
<1>1. ASSUME NEW c \in Cpus, SchedStep(c) PROVE TypeOK'
  BY <1>1, SchedStepType
<1>2. ASSUME NEW c \in Cpus, NEW p \in Slots, ProcStep(c, p) PROVE TypeOK'
  BY <1>2, ProcStepType
<1>3. ASSUME NEW ch \in Chans, WakeUp(ch) PROVE TypeOK'
  BY <1>3, Values DEF TypeOK, WakeUp, WakeAll, ageVars
<1>4. CASE UNCHANGED vars
  BY <1>4 DEF TypeOK, vars, procVars, ageVars
<1> QED
  BY <1>1, <1>2, <1>3, <1>4 DEF Next, Panicked

\* Every variable of the process table has its type, in every reachable state.
THEOREM TypeCorrect == Spec => []TypeOK
BY InitType, NextType, PTL DEF Spec

-----------------------------------------------------------------------------
(* The inductive invariant, one lemma per action                           *)

\* allocproc() touches only a slot that is nobody's child.
LEMMA ForkAllocSafe ==
  ASSUME IInv, TypeOK', NEW c \in Cpus, NEW p \in Slots, ForkAlloc(c, p)
  PROVE  IInv'
<1> USE SlotFacts, CpusAssumption
    DEF IInv, TypeOK, Live, Runnable, Making,
        ForkAlloc, Runs, IsFirst, Unused, LockFree
<1>1. OneCpuPerProc'
  BY DEF OneCpuPerProc
<1>2. OnCpuInv'
  BY DEF OnCpuInv, OneCpuPerProc, PcInv
<1>3. LockInv'
  BY DEF LockInv, OnCpuInv
<1>4. RunningInv'
  BY DEF RunningInv, OnCpuInv
<1>5. ForkInv'
  BY DEF ForkInv, PcInv, ParentInv, ParentAlive
<1>6. ParentInv'
  BY DEF ParentInv, ParentAlive, ForkInv, PcInv
<1>7. PcInv'
  BY DEF PcInv, ForkInv, ParentInv, OnCpuInv
<1>8. WaitInv'
  BY DEF WaitInv, ForkInv, PcInv, ParentInv, ParentAlive, Children, ZombieKids
<1>9. EmbryoInv'
  BY DEF EmbryoInv, ForkInv
<1> QED
  BY <1>1, <1>2, <1>3, <1>4, <1>5, <1>6, <1>7, <1>8, <1>9

\* A fork without a free slot changes no other process.
LEMMA ForkNoSlotSafe ==
  ASSUME IInv, TypeOK', NEW c \in Cpus, NEW p \in Slots, ForkNoSlot(c, p)
  PROVE  IInv'
<1> USE SlotFacts, CpusAssumption
    DEF IInv, TypeOK, Live, Runnable, Making,
        ForkNoSlot, Runs, AfterFailedFork
<1>1. OneCpuPerProc'
  BY DEF OneCpuPerProc
<1>2. OnCpuInv'
  BY DEF OnCpuInv, OneCpuPerProc, PcInv
<1>3. LockInv'
  BY DEF LockInv, OnCpuInv
<1>4. RunningInv'
  BY DEF RunningInv, OnCpuInv
<1>5. ForkInv'
  BY DEF ForkInv, PcInv, ParentInv, ParentAlive
<1>6. ParentInv'
  BY DEF ParentInv, ParentAlive, ForkInv, PcInv
<1>7. PcInv'
  BY DEF PcInv, ForkInv, ParentInv, OnCpuInv
<1>8. WaitInv'
  BY DEF WaitInv, ForkInv, PcInv, ParentInv, ParentAlive, Children, ZombieKids
<1>9. EmbryoInv'
  BY DEF EmbryoInv, ForkInv
<1> QED
  BY <1>1, <1>2, <1>3, <1>4, <1>5, <1>6, <1>7, <1>8, <1>9

\* A failed fork frees, without the lock, a slot that no other process
\* can reach.
LEMMA ForkNoMemorySafe ==
  ASSUME IInv, TypeOK', NEW c \in Cpus, NEW p \in Slots, ForkNoMemory(c, p)
  PROVE  IInv'
<1> USE SlotFacts, CpusAssumption
    DEF IInv, TypeOK, Live, Runnable, Making,
        ForkNoMemory, Runs, AfterFailedFork
<1>1. OneCpuPerProc'
  BY DEF OneCpuPerProc
<1>2. OnCpuInv'
  <2>1. np[p] \in Slots /\ state[np[p]] = "EMBRYO"
    BY DEF ForkInv
  <2> QED
    BY <2>1 DEF OnCpuInv
<1>3. LockInv'
  BY DEF LockInv, OnCpuInv
<1>4. RunningInv'
  BY DEF RunningInv, OnCpuInv
<1>5. ForkInv'
  BY DEF ForkInv, PcInv, ParentInv, ParentAlive
<1>6. ParentInv'
  BY DEF ParentInv, ParentAlive, ForkInv, PcInv
<1>7. PcInv'
  BY DEF PcInv, ForkInv, ParentInv, OnCpuInv
<1>8. WaitInv'
  BY DEF WaitInv, ForkInv, PcInv, ParentInv, ParentAlive, Children, ZombieKids
<1>9. EmbryoInv'
  BY DEF EmbryoInv, ForkInv
<1> QED
  BY <1>1, <1>2, <1>3, <1>4, <1>5, <1>6, <1>7, <1>8, <1>9

\* fork() sets np->parent, without the lock, in a slot that is its own.
LEMMA ForkCopySafe ==
  ASSUME IInv, TypeOK', NEW c \in Cpus, NEW p \in Slots, ForkCopy(c, p)
  PROVE  IInv'
<1> USE SlotFacts, CpusAssumption
    DEF IInv, TypeOK, Live, Runnable, Making,
        ForkCopy, Runs
<1>1. OneCpuPerProc'
  BY DEF OneCpuPerProc
<1>2. OnCpuInv'
  BY DEF OnCpuInv, OneCpuPerProc, PcInv
<1>3. LockInv'
  BY DEF LockInv, OnCpuInv
<1>4. RunningInv'
  BY DEF RunningInv, OnCpuInv
<1>5. ForkInv'
  BY DEF ForkInv, PcInv, ParentInv, ParentAlive
<1>6. ParentInv'
  BY DEF ParentInv, ParentAlive, ForkInv, PcInv
<1>7. PcInv'
  BY DEF PcInv, ForkInv, ParentInv, OnCpuInv
<1>8. WaitInv'
  BY DEF WaitInv, ForkInv, PcInv, ParentInv, ParentAlive, Children, ZombieKids
<1>9. EmbryoInv'
  BY DEF EmbryoInv, ForkInv
<1> QED
  BY <1>1, <1>2, <1>3, <1>4, <1>5, <1>6, <1>7, <1>8, <1>9

\* The new process is live, its parent too.
LEMMA ForkDoneSafe ==
  ASSUME IInv, TypeOK', NEW c \in Cpus, NEW p \in Slots, ForkDone(c, p)
  PROVE  IInv'
<1> USE SlotFacts, CpusAssumption
    DEF IInv, TypeOK, Live, Runnable, Making,
        ForkDone, Runs, LockFree
<1>1. OneCpuPerProc'
  BY DEF OneCpuPerProc
<1>2. OnCpuInv'
  <2>1. np[p] \in Slots /\ state[np[p]] = "EMBRYO"
    BY DEF ForkInv
  <2> QED
    BY <2>1 DEF OnCpuInv
<1>3. LockInv'
  BY DEF LockInv, OnCpuInv
<1>4. RunningInv'
  BY DEF RunningInv, OnCpuInv
<1>5. ForkInv'
  BY DEF ForkInv, PcInv, ParentInv, ParentAlive
<1>6. ParentInv'
  BY DEF ParentInv, ParentAlive, ForkInv, PcInv
<1>7. PcInv'
  BY DEF PcInv, ForkInv, ParentInv, OnCpuInv
<1>8. WaitInv'
  BY DEF WaitInv, ForkInv, PcInv, ParentInv, ParentAlive, Children, ZombieKids
<1>9. EmbryoInv'
  BY DEF EmbryoInv, ForkInv
<1> QED
  BY <1>1, <1>2, <1>3, <1>4, <1>5, <1>6, <1>7, <1>8, <1>9

\* Entering a system call.
LEMMA EnterKernelSafe ==
  ASSUME IInv, TypeOK', NEW c \in Cpus, NEW p \in Slots, EnterKernel(c, p)
  PROVE  IInv'
<1> USE SlotFacts, CpusAssumption
    DEF IInv, TypeOK, Live, Runnable, Making,
        EnterKernel, Runs
<1>1. OneCpuPerProc'
  BY DEF OneCpuPerProc
<1>2. OnCpuInv'
  BY DEF OnCpuInv, OneCpuPerProc, PcInv
<1>3. LockInv'
  BY DEF LockInv, OnCpuInv
<1>4. RunningInv'
  BY DEF RunningInv, OnCpuInv
<1>5. ForkInv'
  BY DEF ForkInv, PcInv, ParentInv, ParentAlive
<1>6. ParentInv'
  BY DEF ParentInv, ParentAlive, ForkInv, PcInv
<1>7. PcInv'
  BY DEF PcInv, ForkInv, ParentInv, OnCpuInv
<1>8. WaitInv'
  BY DEF WaitInv, ForkInv, PcInv, ParentInv, ParentAlive, Children, ZombieKids
<1>9. EmbryoInv'
  BY DEF EmbryoInv, ForkInv
<1> QED
  BY <1>1, <1>2, <1>3, <1>4, <1>5, <1>6, <1>7, <1>8, <1>9

\* Leaving a system call.
LEMMA LeaveKernelSafe ==
  ASSUME IInv, TypeOK', NEW c \in Cpus, NEW p \in Slots, LeaveKernel(c, p)
  PROVE  IInv'
<1> USE SlotFacts, CpusAssumption
    DEF IInv, TypeOK, Live, Runnable, Making,
        LeaveKernel, Runs
<1>1. OneCpuPerProc'
  BY DEF OneCpuPerProc
<1>2. OnCpuInv'
  BY DEF OnCpuInv, OneCpuPerProc, PcInv
<1>3. LockInv'
  BY DEF LockInv, OnCpuInv
<1>4. RunningInv'
  BY DEF RunningInv, OnCpuInv
<1>5. ForkInv'
  BY DEF ForkInv, PcInv, ParentInv, ParentAlive
<1>6. ParentInv'
  BY DEF ParentInv, ParentAlive, ForkInv, PcInv
<1>7. PcInv'
  BY DEF PcInv, ForkInv, ParentInv, OnCpuInv
<1>8. WaitInv'
  BY DEF WaitInv, ForkInv, PcInv, ParentInv, ParentAlive, Children, ZombieKids
<1>9. EmbryoInv'
  BY DEF EmbryoInv, ForkInv
<1> QED
  BY <1>1, <1>2, <1>3, <1>4, <1>5, <1>6, <1>7, <1>8, <1>9

\* sleep() on a channel that is not wait()'s.
LEMMA SleepOnSafe ==
  ASSUME IInv, TypeOK', NEW c \in Cpus, NEW p \in Slots, NEW ch \in Chans, SleepOn(c, p, ch)
  PROVE  IInv'
<1> USE SlotFacts, CpusAssumption
    DEF IInv, TypeOK, Live, Runnable, Making,
        SleepOn, Runs, KeepLock, LockFree
<1>1. OneCpuPerProc'
  BY DEF OneCpuPerProc
<1>2. OnCpuInv'
  BY DEF OnCpuInv, OneCpuPerProc, PcInv
<1>3. LockInv'
  BY DEF LockInv, OnCpuInv
<1>4. RunningInv'
  BY DEF RunningInv, OnCpuInv
<1>5. ForkInv'
  BY DEF ForkInv, PcInv, ParentInv, ParentAlive
<1>6. ParentInv'
  BY DEF ParentInv, ParentAlive, ForkInv, PcInv
<1>7. PcInv'
  BY DEF PcInv, ForkInv, ParentInv, OnCpuInv
<1>8. WaitInv'
  BY DEF WaitInv, ForkInv, PcInv, ParentInv, ParentAlive, Children, ZombieKids
<1>9. EmbryoInv'
  BY DEF EmbryoInv, ForkInv
<1> QED
  BY <1>1, <1>2, <1>3, <1>4, <1>5, <1>6, <1>7, <1>8, <1>9

\* kill() leaves no killed process asleep in wait().
LEMMA KillSafe ==
  ASSUME IInv, TypeOK', NEW c \in Cpus, NEW p \in Slots, NEW k \in KillPids, Kill(c, p, k)
  PROVE  IInv'
<1> USE SlotFacts, CpusAssumption
    DEF IInv, TypeOK, Live, Runnable, Making,
        Kill, Runs, AfterKill, IsFirst, LockFree
<1>1. OneCpuPerProc'
  BY DEF OneCpuPerProc
<1>2. OnCpuInv'
  BY DEF OnCpuInv, OneCpuPerProc, PcInv
<1>3. LockInv'
  BY DEF LockInv, OnCpuInv
<1>4. RunningInv'
  BY DEF RunningInv, OnCpuInv
<1>5. ForkInv'
  BY DEF ForkInv, PcInv, ParentInv, ParentAlive
<1>6. ParentInv'
  BY DEF ParentInv, ParentAlive, ForkInv, PcInv
<1>7. PcInv'
  BY DEF PcInv, ForkInv, ParentInv, OnCpuInv
<1>8. WaitInv'
  BY DEF WaitInv, ForkInv, PcInv, ParentInv, ParentAlive, Children, ZombieKids
<1>9. EmbryoInv'
  BY DEF EmbryoInv, ForkInv
<1> QED
  BY <1>1, <1>2, <1>3, <1>4, <1>5, <1>6, <1>7, <1>8, <1>9

\* exit() of initproc panics, so initproc never gets to ExitDone.
LEMMA ExitCallSafe ==
  ASSUME IInv, TypeOK', NEW c \in Cpus, NEW p \in Slots, ExitCall(c, p)
  PROVE  IInv'
<1> USE SlotFacts, CpusAssumption
    DEF IInv, TypeOK, Live, Runnable, Making,
        ExitCall, Runs
<1>1. OneCpuPerProc'
  BY DEF OneCpuPerProc
<1>2. OnCpuInv'
  BY DEF OnCpuInv, OneCpuPerProc, PcInv
<1>3. LockInv'
  BY DEF LockInv, OnCpuInv
<1>4. RunningInv'
  BY DEF RunningInv, OnCpuInv
<1>5. ForkInv'
  BY DEF ForkInv, PcInv, ParentInv, ParentAlive
<1>6. ParentInv'
  BY DEF ParentInv, ParentAlive, ForkInv, PcInv
<1>7. PcInv'
  BY DEF PcInv, ForkInv, ParentInv, OnCpuInv
<1>8. WaitInv'
  BY DEF WaitInv, ForkInv, PcInv, ParentInv, ParentAlive, Children, ZombieKids
<1>9. EmbryoInv'
  BY DEF EmbryoInv, ForkInv
<1> QED
  BY <1>1, <1>2, <1>3, <1>4, <1>5, <1>6, <1>7, <1>8, <1>9

\* exit() wakes whoever waits for the new zombie or inherits an old one.
LEMMA ExitDoneSafe ==
  ASSUME IInv, TypeOK', NEW c \in Cpus, NEW p \in Slots, ExitDone(c, p)
  PROVE  IInv'
<1> USE SlotFacts, CpusAssumption
    DEF IInv, TypeOK, Live, Runnable, Making,
        ExitDone, Runs, KeepLock, WakeAll, ExitWakes, Reparented, LockFree
<1>0. /\ p # InitProc
      /\ \A q \in Slots :
           /\ parent'[q] = IF parent[q] = p THEN InitProc ELSE parent[q]
           /\ state[q] # "SLEEPING" /\ q # p => state'[q] = state[q]
           /\ state[q] = "SLEEPING" => state'[q] \in {"SLEEPING", "RUNNABLE"}
      /\ state'[p] = "ZOMBIE"
  BY DEF ParentInv
<1>1. OneCpuPerProc'
  BY DEF OneCpuPerProc
<1>2. OnCpuInv'
  BY DEF OnCpuInv, OneCpuPerProc, PcInv
<1>3. LockInv'
  BY DEF LockInv, OnCpuInv
<1>4. RunningInv'
  BY DEF RunningInv, OnCpuInv
<1>5. ForkInv'
  BY DEF ForkInv, PcInv, ParentInv, ParentAlive
<1>6. ParentInv'
  <2>1. ParentAlive'
    BY <1>0 DEF ParentInv, ParentAlive
  <2> QED
    BY <1>0, <2>1 DEF ParentInv
<1>7. PcInv'
  BY DEF PcInv, ForkInv, ParentInv, OnCpuInv
<1>8. WaitInv'
  <2> SUFFICES ASSUME NEW q \in Slots, state'[q] = "SLEEPING", pc'[q] = "wait"
               PROVE  Children(q)' # {} /\ ZombieKids(q)' = {} /\ ~killed'[q]
    BY DEF WaitInv
  <2>1. q # p /\ state[q] = "SLEEPING" /\ pc[q] = "wait" /\ chan[q] = q
    BY <1>0 DEF PcInv
  <2>2. Children(q) # {} /\ ZombieKids(q) = {} /\ ~killed[q]
    BY <2>1 DEF WaitInv
  <2>3. q \notin ExitWakes(p)
    BY <2>1
  <2>4. q # parent[p]
    BY <2>3
  <2>5. q = InitProc => ZombieKids(p) = {}
    BY <2>3
  <2>6. Children(q)' # {}
    <3>1. PICK r \in Slots : parent[r] = q
      BY <2>2 DEF Children
    <3>2. parent'[r] = q
      BY <1>0, <2>1, <3>1
    <3> QED
      BY <3>2 DEF Children
  <2>7. ASSUME NEW r \in Slots, parent'[r] = q, state'[r] = "ZOMBIE" PROVE FALSE
    <3>0. parent[p] # p
      BY DEF ParentInv
    <3>1. r # p
      BY <1>0, <2>4, <2>7, <3>0
    <3>2. state[r] = "ZOMBIE"
      BY <1>0, <2>7, <3>1
    <3>3. parent[r] # q
      BY <2>2, <3>2 DEF ZombieKids, Children
    <3>4. parent[r] = p /\ q = InitProc
      BY <1>0, <2>7, <3>3
    <3> QED
      BY <2>5, <3>2, <3>4 DEF ZombieKids, Children
  <2>8. ZombieKids(q)' = {}
    BY <2>7 DEF ZombieKids, Children
  <2> QED
    BY <2>2, <2>6, <2>8
<1>9. EmbryoInv'
  BY DEF EmbryoInv, ForkInv
<1> QED
  BY <1>1, <1>2, <1>3, <1>4, <1>5, <1>6, <1>7, <1>8, <1>9

\* wait() takes the lock.
LEMMA WaitCallSafe ==
  ASSUME IInv, TypeOK', NEW c \in Cpus, NEW p \in Slots, WaitCall(c, p)
  PROVE  IInv'
<1> USE SlotFacts, CpusAssumption
    DEF IInv, TypeOK, Live, Runnable, Making,
        WaitCall, Runs, LockFree
<1>1. OneCpuPerProc'
  BY DEF OneCpuPerProc
<1>2. OnCpuInv'
  BY DEF OnCpuInv, OneCpuPerProc, PcInv
<1>3. LockInv'
  BY DEF LockInv, OnCpuInv
<1>4. RunningInv'
  BY DEF RunningInv, OnCpuInv
<1>5. ForkInv'
  BY DEF ForkInv, PcInv, ParentInv, ParentAlive
<1>6. ParentInv'
  BY DEF ParentInv, ParentAlive, ForkInv, PcInv
<1>7. PcInv'
  BY DEF PcInv, ForkInv, ParentInv, OnCpuInv
<1>8. WaitInv'
  BY DEF WaitInv, ForkInv, PcInv, ParentInv, ParentAlive, Children, ZombieKids
<1>9. EmbryoInv'
  BY DEF EmbryoInv, ForkInv
<1> QED
  BY <1>1, <1>2, <1>3, <1>4, <1>5, <1>6, <1>7, <1>8, <1>9

\* The zombie that wait() frees is on no CPU and is nobody's parent.
LEMMA WaitReapSafe ==
  ASSUME IInv, TypeOK', NEW c \in Cpus, NEW p \in Slots, WaitReap(c, p)
  PROVE  IInv'
<1> USE SlotFacts, CpusAssumption
    DEF IInv, TypeOK, Live, Runnable, Making,
        WaitReap, InWait, IsFirst
<1>0. PICK z \in Slots :
         /\ parent[z] = p /\ state[z] = "ZOMBIE"
         /\ pid'    = [pid EXCEPT ![z] = 0]
         /\ parent' = [parent EXCEPT ![z] = NoProc]
         /\ killed' = [killed EXCEPT ![z] = FALSE]
         /\ state'  = [state EXCEPT ![z] = "UNUSED"]
  BY DEF ZombieKids, Children, Orphaned
<1>1. OneCpuPerProc'
  BY DEF OneCpuPerProc
<1>2. OnCpuInv'
  <2>1. \A d \in Cpus : cpuProc[d] # z
    BY <1>0 DEF OnCpuInv
  <2> QED
    BY <1>0, <2>1 DEF OnCpuInv
<1>3. LockInv'
  BY DEF LockInv, OnCpuInv
<1>4. RunningInv'
  BY DEF RunningInv, OnCpuInv
<1>5. ForkInv'
  <2>1. \A q \in Slots : np[q] # z
    BY <1>0 DEF ForkInv
  <2> QED
    BY <1>0, <2>1 DEF ForkInv, PcInv
<1>6. ParentInv'
  <2>1. \A q \in Slots : parent[q] # z
    BY <1>0 DEF ParentInv, ParentAlive
  <2>2. z # InitProc
    BY <1>0 DEF ParentInv
  <2> QED
    BY <1>0, <2>1, <2>2 DEF ParentInv, ParentAlive
<1>7. PcInv'
  BY DEF PcInv, ForkInv, ParentInv, OnCpuInv
<1>8. WaitInv'
  <2> SUFFICES ASSUME NEW q \in Slots, state'[q] = "SLEEPING", pc'[q] = "wait"
               PROVE  Children(q)' # {} /\ ZombieKids(q)' = {} /\ ~killed'[q]
    BY DEF WaitInv
  <2>1. q # p /\ q # z /\ state[q] = "SLEEPING" /\ pc[q] = "wait"
    BY <1>0
  <2>2. Children(q) # {} /\ ZombieKids(q) = {} /\ ~killed[q]
    BY <2>1 DEF WaitInv
  <2>3. \A r \in Slots : (parent'[r] = q) <=> (parent[r] = q)
    BY <1>0, <2>1
  <2>4. \A r \in Slots : parent[r] = q => state'[r] = state[r]
    BY <1>0, <2>1
  <2>5. Children(q)' = Children(q)
    BY <2>3 DEF Children
  <2>6. ZombieKids(q)' = ZombieKids(q)
    BY <2>4, <2>5 DEF ZombieKids, Children
  <2>7. killed'[q] = killed[q]
    BY <1>0, <2>1
  <2> QED
    BY <2>2, <2>5, <2>6, <2>7
<1>9. EmbryoInv'
  BY DEF EmbryoInv, ForkInv
<1> QED
  BY <1>1, <1>2, <1>3, <1>4, <1>5, <1>6, <1>7, <1>8, <1>9

\* wait() returns -1.
LEMMA WaitFailSafe ==
  ASSUME IInv, TypeOK', NEW c \in Cpus, NEW p \in Slots, WaitFail(c, p)
  PROVE  IInv'
<1> USE SlotFacts, CpusAssumption
    DEF IInv, TypeOK, Live, Runnable, Making,
        WaitFail, InWait
<1>1. OneCpuPerProc'
  BY DEF OneCpuPerProc
<1>2. OnCpuInv'
  BY DEF OnCpuInv, OneCpuPerProc, PcInv
<1>3. LockInv'
  BY DEF LockInv, OnCpuInv
<1>4. RunningInv'
  BY DEF RunningInv, OnCpuInv
<1>5. ForkInv'
  BY DEF ForkInv, PcInv, ParentInv, ParentAlive
<1>6. ParentInv'
  BY DEF ParentInv, ParentAlive, ForkInv, PcInv
<1>7. PcInv'
  BY DEF PcInv, ForkInv, ParentInv, OnCpuInv
<1>8. WaitInv'
  BY DEF WaitInv, ForkInv, PcInv, ParentInv, ParentAlive, Children, ZombieKids
<1>9. EmbryoInv'
  BY DEF EmbryoInv, ForkInv
<1> QED
  BY <1>1, <1>2, <1>3, <1>4, <1>5, <1>6, <1>7, <1>8, <1>9

\* wait() sleeps only when its scan, under the lock, found nothing.
LEMMA WaitSleepSafe ==
  ASSUME IInv, TypeOK', NEW c \in Cpus, NEW p \in Slots, WaitSleep(c, p)
  PROVE  IInv'
<1> USE SlotFacts, CpusAssumption
    DEF IInv, TypeOK, Live, Runnable, Making,
        WaitSleep, InWait
<1>1. OneCpuPerProc'
  BY DEF OneCpuPerProc
<1>2. OnCpuInv'
  BY DEF OnCpuInv, OneCpuPerProc, PcInv
<1>3. LockInv'
  BY DEF LockInv, OnCpuInv
<1>4. RunningInv'
  BY DEF RunningInv, OnCpuInv
<1>5. ForkInv'
  BY DEF ForkInv, PcInv, ParentInv, ParentAlive
<1>6. ParentInv'
  BY DEF ParentInv, ParentAlive, ForkInv, PcInv
<1>7. PcInv'
  BY DEF PcInv, ForkInv, ParentInv, OnCpuInv
<1>8. WaitInv'
  BY DEF WaitInv, ForkInv, PcInv, ParentInv, ParentAlive, Children, ZombieKids
<1>9. EmbryoInv'
  BY DEF EmbryoInv, ForkInv
<1> QED
  BY <1>1, <1>2, <1>3, <1>4, <1>5, <1>6, <1>7, <1>8, <1>9

\* yield() keeps the lock while it is on the way to the scheduler.
LEMMA YieldSafe ==
  ASSUME IInv, TypeOK', NEW c \in Cpus, NEW p \in Slots, Yield(c, p)
  PROVE  IInv'
<1> USE SlotFacts, CpusAssumption
    DEF IInv, TypeOK, Live, Runnable, Making,
        Yield, Runs, KeepLock, LockFree
<1>1. OneCpuPerProc'
  BY DEF OneCpuPerProc
<1>2. OnCpuInv'
  BY DEF OnCpuInv, OneCpuPerProc, PcInv
<1>3. LockInv'
  BY DEF LockInv, OnCpuInv
<1>4. RunningInv'
  BY DEF RunningInv, OnCpuInv
<1>5. ForkInv'
  BY DEF ForkInv, PcInv, ParentInv, ParentAlive
<1>6. ParentInv'
  BY DEF ParentInv, ParentAlive, ForkInv, PcInv
<1>7. PcInv'
  BY DEF PcInv, ForkInv, ParentInv, OnCpuInv
<1>8. WaitInv'
  BY DEF WaitInv, ForkInv, PcInv, ParentInv, ParentAlive, Children, ZombieKids
<1>9. EmbryoInv'
  BY DEF EmbryoInv, ForkInv
<1> QED
  BY <1>1, <1>2, <1>3, <1>4, <1>5, <1>6, <1>7, <1>8, <1>9

\* The scheduler lets go of the process and of the lock.
LEMMA SchedReturnSafe ==
  ASSUME IInv, TypeOK', NEW c \in Cpus, SchedReturn(c)
  PROVE  IInv'
<1> USE SlotFacts, CpusAssumption
    DEF IInv, TypeOK, Live, Runnable, Making,
        SchedReturn, procVars
<1>1. OneCpuPerProc'
  BY DEF OneCpuPerProc
<1>2. OnCpuInv'
  BY DEF OnCpuInv, OneCpuPerProc, PcInv
<1>3. LockInv'
  BY DEF LockInv, OnCpuInv
<1>4. RunningInv'
  BY DEF RunningInv, OnCpuInv
<1>5. ForkInv'
  BY DEF ForkInv, PcInv, ParentInv, ParentAlive
<1>6. ParentInv'
  BY DEF ParentInv, ParentAlive, ForkInv, PcInv
<1>7. PcInv'
  BY DEF PcInv, ForkInv, ParentInv, OnCpuInv
<1>8. WaitInv'
  BY DEF WaitInv, ForkInv, PcInv, ParentInv, ParentAlive, Children, ZombieKids
<1>9. EmbryoInv'
  BY DEF EmbryoInv, ForkInv
<1> QED
  BY <1>1, <1>2, <1>3, <1>4, <1>5, <1>6, <1>7, <1>8, <1>9

\* The scheduler picks no process that another CPU still executes.
LEMMA PickSafe ==
  ASSUME IInv, TypeOK', NEW c \in Cpus, NEW p \in Slots, Pick(c, p)
  PROVE  IInv'
<1> USE SlotFacts, CpusAssumption
    DEF IInv, TypeOK, Live, Runnable, Making,
        Pick, Chosen, LockFree
<1>1. OneCpuPerProc'
  BY DEF OneCpuPerProc, OnCpuInv
<1>2. OnCpuInv'
  BY DEF OnCpuInv, OneCpuPerProc, PcInv
<1>3. LockInv'
  BY DEF LockInv, OnCpuInv
<1>4. RunningInv'
  BY DEF RunningInv, OnCpuInv
<1>5. ForkInv'
  BY DEF ForkInv, PcInv, ParentInv, ParentAlive
<1>6. ParentInv'
  BY DEF ParentInv, ParentAlive, ForkInv, PcInv
<1>7. PcInv'
  BY DEF PcInv, ForkInv, ParentInv, OnCpuInv
<1>8. WaitInv'
  BY DEF WaitInv, ForkInv, PcInv, ParentInv, ParentAlive, Children, ZombieKids
<1>9. EmbryoInv'
  BY DEF EmbryoInv, ForkInv
<1> QED
  BY <1>1, <1>2, <1>3, <1>4, <1>5, <1>6, <1>7, <1>8, <1>9

\* The process that was picked releases the lock.
LEMMA ResumeSafe ==
  ASSUME IInv, TypeOK', NEW c \in Cpus, Resume(c)
  PROVE  IInv'
<1> USE SlotFacts, CpusAssumption
    DEF IInv, TypeOK, Live, Runnable, Making,
        Resume
<1>1. OneCpuPerProc'
  BY DEF OneCpuPerProc
<1>2. OnCpuInv'
  BY DEF OnCpuInv, OneCpuPerProc, PcInv
<1>3. LockInv'
  BY DEF LockInv, OnCpuInv
<1>4. RunningInv'
  BY DEF RunningInv, OnCpuInv
<1>5. ForkInv'
  BY DEF ForkInv, PcInv, ParentInv, ParentAlive
<1>6. ParentInv'
  BY DEF ParentInv, ParentAlive, ForkInv, PcInv
<1>7. PcInv'
  BY DEF PcInv, ForkInv, ParentInv, OnCpuInv
<1>8. WaitInv'
  BY DEF WaitInv, ForkInv, PcInv, ParentInv, ParentAlive, Children, ZombieKids
<1>9. EmbryoInv'
  BY DEF EmbryoInv, ForkInv
<1> QED
  BY <1>1, <1>2, <1>3, <1>4, <1>5, <1>6, <1>7, <1>8, <1>9

\* wakeup() only makes sleepers RUNNABLE.
LEMMA WakeUpSafe ==
  ASSUME IInv, TypeOK', NEW ch \in Chans, WakeUp(ch)
  PROVE  IInv'
<1> USE SlotFacts, CpusAssumption
    DEF IInv, TypeOK, Live, Runnable, Making,
        WakeUp, WakeAll, LockFree
<1>1. OneCpuPerProc'
  BY DEF OneCpuPerProc
<1>2. OnCpuInv'
  BY DEF OnCpuInv, OneCpuPerProc, PcInv
<1>3. LockInv'
  BY DEF LockInv, OnCpuInv
<1>4. RunningInv'
  BY DEF RunningInv, OnCpuInv
<1>5. ForkInv'
  BY DEF ForkInv, PcInv, ParentInv, ParentAlive
<1>6. ParentInv'
  BY DEF ParentInv, ParentAlive, ForkInv, PcInv
<1>7. PcInv'
  BY DEF PcInv, ForkInv, ParentInv, OnCpuInv
<1>8. WaitInv'
  BY DEF WaitInv, ForkInv, PcInv, ParentInv, ParentAlive, Children, ZombieKids
<1>9. EmbryoInv'
  BY DEF EmbryoInv, ForkInv
<1> QED
  BY <1>1, <1>2, <1>3, <1>4, <1>5, <1>6, <1>7, <1>8, <1>9

\* The aging loop changes nothing the invariant speaks of.
LEMMA OthersUnchangedSafe ==
  ASSUME IInv, TypeOK',
         UNCHANGED <<plock, state, pid, parent, chan, killed, pc, np, nextpid,
                     cpuProc>>
  PROVE  IInv'
<1> USE DEF IInv
<1>1. OneCpuPerProc' /\ OnCpuInv' /\ LockInv' /\ RunningInv'
  BY DEF OneCpuPerProc, OnCpuInv, LockInv, RunningInv
<1>2. ForkInv' /\ PcInv' /\ WaitInv'
  BY DEF ForkInv, PcInv, WaitInv, ZombieKids, Children
<1>4. EmbryoInv'
  BY DEF EmbryoInv
<1>3. ParentInv'
  BY DEF ParentInv, ParentAlive
<1> QED
  BY <1>1, <1>2, <1>3, <1>4

\* The initial states satisfy the invariant.
LEMMA InitSafe == Init => IInv
<1> SUFFICES ASSUME Init PROVE IInv
  OBVIOUS
<1>1. TypeOK
  BY InitType
<1>2. OneCpuPerProc /\ OnCpuInv /\ LockInv /\ RunningInv
  BY CpusAssumption DEF Init, OneCpuPerProc, OnCpuInv, LockInv, RunningInv
<1>3. ForkInv /\ EmbryoInv /\ ParentInv /\ PcInv /\ WaitInv
  BY SlotFacts DEF Init, ForkInv, EmbryoInv, ParentInv, ParentAlive, PcInv, WaitInv,
                   Live, Making
<1> QED
  BY <1>1, <1>2, <1>3 DEF IInv

\* Every step keeps the invariant.
LEMMA NextSafe ==
  ASSUME IInv, [Next]_vars
  PROVE  IInv'
<1>1. TypeOK'
  BY NextType DEF IInv
<1>2. ASSUME NEW c \in Cpus, SchedStep(c) PROVE IInv'
  <2>1. CASE AgeState(c) \/ AgeLoad(c) \/ AgeStore(c)
    BY <1>1, <2>1, OthersUnchangedSafe DEF AgeState, AgeLoad, AgeStore, procVars
  <2> QED
    BY <1>1, <1>2, <2>1, SchedReturnSafe, PickSafe, ResumeSafe DEF SchedStep
<1>3. ASSUME NEW c \in Cpus, NEW p \in Slots, ProcStep(c, p) PROVE IInv'
  BY <1>1, <1>3, ForkAllocSafe, ForkNoSlotSafe, ForkNoMemorySafe, ForkCopySafe,
     ForkDoneSafe, EnterKernelSafe, LeaveKernelSafe, SleepOnSafe, KillSafe,
     ExitCallSafe, ExitDoneSafe, WaitCallSafe, WaitReapSafe, WaitFailSafe,
     WaitSleepSafe, YieldSafe DEF ProcStep
<1>4. ASSUME NEW ch \in Chans, WakeUp(ch) PROVE IInv'
  BY <1>1, <1>4, WakeUpSafe
<1>5. CASE UNCHANGED vars
  BY <1>1, <1>5, OthersUnchangedSafe DEF vars, procVars
<1> QED
  BY <1>2, <1>3, <1>4, <1>5 DEF Next, Panicked

\* The inductive invariant holds in every reachable state.
THEOREM Invariance == Spec => []IInv
BY InitSafe, NextSafe, PTL DEF Spec

\* No process runs on two CPUs.
THEOREM NeverOnTwoCpus == Spec => []OneCpuPerProc
<1>1. IInv => OneCpuPerProc
  BY DEF IInv
<1> QED
  BY <1>1, Invariance, PTL

\* No kernel stack is in use by a process another CPU may pick or reap.
THEOREM StacksSafe == Spec => []StackSafe
<1>1. IInv => StackSafe
  BY DEF IInv, OnCpuInv, StackSafe
<1> QED
  BY <1>1, Invariance, PTL

\* exit() and kill() cannot slip past a wait().
THEOREM WaitMissesNothing == Spec => []NoMissedChild
<1>1. IInv => NoMissedChild
  <2> SUFFICES ASSUME IInv, NEW p \in Slots, state[p] = "SLEEPING", pc[p] = "wait"
               PROVE  /\ \E q \in Children(p) : state[q] \in Live
                      /\ ZombieKids(p) = {} /\ ~killed[p]
    BY DEF NoMissedChild
  <2>1. Children(p) # {} /\ ZombieKids(p) = {} /\ ~killed[p]
    BY DEF IInv, WaitInv
  <2>2. PICK q \in Slots : parent[q] = p
    BY <2>1 DEF Children
  <2>3. state[q] # "ZOMBIE"
    BY <2>1, <2>2 DEF ZombieKids, Children
  <2>4. state[q] # "UNUSED"
    BY <2>2, SlotFacts DEF IInv, ParentInv
  <2>5. state[q] # "EMBRYO"
    BY <2>2, SlotFacts DEF IInv, EmbryoInv, ForkInv, Runnable
  <2>6. state[q] \in Live
    BY <2>3, <2>4, <2>5 DEF IInv, TypeOK, States, Live
  <2> QED
    BY <2>1, <2>2, <2>6 DEF Children
<1> QED
  BY <1>1, Invariance, PTL

\* Every process can be waited for by a live parent.
THEOREM ParentsAlive == Spec => []ParentAlive
<1>1. IInv => ParentAlive
  BY DEF IInv, ParentInv
<1> QED
  BY <1>1, Invariance, PTL

\* The states of a slot follow the life cycle.
THEOREM LifecycleFollowed == Spec => LegalTransitions
<1>1. IInv /\ [Next]_vars => [LegalStep]_vars
  <2> SUFFICES ASSUME IInv, Next PROVE LegalStep
    BY DEF LegalStep, vars, procVars
  <2> USE SlotFacts DEF LegalStep, Lifecycle, IInv, TypeOK
  <2>1. ASSUME NEW c \in Cpus, SchedStep(c) PROVE LegalStep
    BY <2>1 DEF SchedStep, SchedReturn, Pick, Chosen, Resume, AgeState, AgeLoad,
                AgeStore, procVars
  <2>2. ASSUME NEW c \in Cpus, NEW p \in Slots, ProcStep(c, p) PROVE LegalStep
    <3>1. CASE ForkAlloc(c, p)
      BY <3>1 DEF ForkAlloc, IsFirst, Unused
    <3>2. CASE ForkNoMemory(c, p) \/ ForkDone(c, p)
      BY <3>2 DEF ForkNoMemory, ForkDone, ForkInv, Runs, Making, Live
    <3>3. ASSUME NEW k \in KillPids, Kill(c, p, k) PROVE LegalStep
      BY <3>3 DEF Kill, AfterKill, IsFirst
    <3>4. CASE ExitDone(c, p)
      BY <3>4 DEF ExitDone, WakeAll, Runs
    <3>5. CASE WaitReap(c, p)
      BY <3>5 DEF WaitReap, IsFirst, ZombieKids, Children
    <3>6. CASE WaitSleep(c, p) \/ Yield(c, p) \/ \E ch \in Chans : SleepOn(c, p, ch)
      BY <3>6 DEF WaitSleep, InWait, Yield, SleepOn, Runs
    <3>7. CASE UNCHANGED state
      BY <3>7
    <3> QED
      BY <2>2, <3>1, <3>2, <3>3, <3>4, <3>5, <3>6, <3>7
         DEF ProcStep, ForkNoSlot, ForkCopy, EnterKernel, LeaveKernel, ExitCall,
             WaitCall, WaitFail
  <2>3. ASSUME NEW ch \in Chans, WakeUp(ch) PROVE LegalStep
    BY <2>3 DEF WakeUp, WakeAll
  <2> QED
    BY <2>1, <2>2, <2>3 DEF Next, Panicked, vars, procVars
<1> QED
  BY <1>1, Invariance, PTL DEF Spec, LegalTransitions

-----------------------------------------------------------------------------
(* Priorities                                                              *)

\* The arithmetic of priorities, apart from the state.
LEMMA PriorityFacts ==
  /\ 0 \in 0..InitPriority /\ InitPriority \in 0..InitPriority
  /\ \A v \in 0..InitPriority : v > 0 => v - 1 \in 0..InitPriority
BY PriorityAssumption

\* The initial priorities are within their bounds.
LEMMA InitPriorities == Init => PInv
BY InitType, PriorityFacts DEF Init, PInv, PriorityBound, AgeInv

\* Every step keeps priorities and registers within their bounds.
LEMMA NextPriorities ==
  ASSUME PInv, [Next]_vars
  PROVE  PInv'
<1> USE SlotFacts, PriorityFacts DEF PInv, PriorityBound, AgeInv
<1>1. TypeOK'
  BY NextType
<1>2. ASSUME UNCHANGED <<priority, agePc, ageReg>> PROVE PInv'
  BY <1>1, <1>2
<1>3. ASSUME NEW c \in Cpus, NEW p \in Slots, ForkAlloc(c, p) PROVE PInv'
  <2>1. PICK q \in Slots : priority' = [priority EXCEPT ![q] = InitPriority]
    BY <1>3 DEF ForkAlloc
  <2>2. UNCHANGED <<agePc, ageReg>>
    BY <1>3 DEF ForkAlloc, ageVars
  <2> QED
    BY <1>1, <2>1, <2>2 DEF TypeOK
<1>4. ASSUME NEW c \in Cpus, NEW p \in Slots, Yield(c, p) PROVE PInv'
  <2>1. /\ priority' = [priority EXCEPT ![p] = IF @ > 0 THEN @ - 1 ELSE @]
        /\ UNCHANGED <<agePc, ageReg>>
    BY <1>4 DEF Yield, ageVars
  <2> QED
    BY <1>1, <2>1 DEF TypeOK
<1>5. ASSUME NEW c \in Cpus, AgeLoad(c) PROVE PInv'
  <2>1. agePos[c] \in Slots
    BY DEF TypeOK
  <2> QED
    BY <1>1, <1>5, <2>1 DEF AgeLoad, AgeNext, Ages, TypeOK, procVars
<1>6. ASSUME NEW c \in Cpus, AgeStore(c) PROVE PInv'
  <2>1. agePos[c] \in Slots
    BY DEF TypeOK
  <2> QED
    BY <1>1, <1>6, <2>1 DEF AgeStore, AgeNext, TypeOK
<1>7. ASSUME NEW c \in Cpus, AgeState(c) PROVE PInv'
  BY <1>1, <1>7 DEF AgeState, AgeNext, TypeOK, procVars
<1>8. ASSUME NEW c \in Cpus, SchedStep(c) PROVE PInv'
  BY <1>2, <1>5, <1>6, <1>7, <1>8
     DEF SchedStep, SchedReturn, Pick, Resume, procVars, ageVars
<1>9. ASSUME NEW c \in Cpus, NEW p \in Slots, ProcStep(c, p) PROVE PInv'
  BY <1>2, <1>3, <1>4, <1>9
     DEF ProcStep, ForkNoSlot, ForkNoMemory, ForkCopy, ForkDone, EnterKernel,
         LeaveKernel, SleepOn, Kill, ExitCall, ExitDone, WaitCall, WaitReap,
         WaitFail, WaitSleep, ageVars
<1> QED
  BY <1>2, <1>8, <1>9 DEF Next, Panicked, WakeUp, vars, procVars, ageVars

\* Priorities and the aging loop's registers: the invariant of the aging loop.
THEOREM AgingInvariance == Spec => []PInv
BY InitPriorities, NextPriorities, PTL DEF Spec

\* The unlocked read and write of the aging loop, whatever they race with,
\* never take a priority out of its range.
THEOREM PrioritiesBounded == Spec => []PriorityBound
<1>1. PInv => PriorityBound
  BY DEF PInv
<1> QED
  BY <1>1, AgingInvariance, PTL

\* Table and priorities together, for any number of slots and CPUs.
THEOREM TableInvariance == Spec => []TableInv
<1>1. IInv /\ PInv => TableInv
  BY DEF TableInv
<1> QED
  BY <1>1, Invariance, AgingInvariance, PTL
=============================================================================
