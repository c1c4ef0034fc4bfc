------------------------------ MODULE Experiment ------------------------------
(***************************************************************************)
(* The experiment (user/run_experiment.c): rounds that fork CPU-bound and  *)
(* I/O-bound programs, wait for them and compute metrics in unsigned       *)
(* 32-bit arithmetic from the times and the statistics that they leave.    *)
(***************************************************************************)
EXTENDS Integers, FiniteSets, FiniteSetsExt

CONSTANTS
  CpuProcs, IoProcs,    \* how many programs of each kind
  Pause,                \* the sleep() between two pairs of forks, in ticks
  SCALE_FACTOR,
  Wrap,                 \* 2^32 in the code
  Rounds, MaxTicks,     \* bounds: rounds, and the length of a round in ticks,
                        \* which only the pauses exceed
  Stats                 \* bound: the totals of a statistics file

Slots == 0 .. CpuProcs + IoProcs - 1     \* pids[]: MAX_PROCS is large enough

VARIABLES
  pc, i,                \* of run_experiment(): its step, the counter of its loop
  clock,                \* uptime(), since the round began
  wake,                 \* when sleep() returns
  kind,                 \* of the children in pids[]; pid_index is its length
  start_times, execution_times,
  ended,                \* when a child has exited
  waited,               \* the children that wait() has returned
  stats,                \* what a child has written: I/O time and memory time
  min_throughput, max_throughput,
  norm, J_cpu, E_fs, M_over,
  round

children == <<kind, start_times, execution_times, ended, waited, stats>>
metrics  == <<min_throughput, max_throughput, norm, J_cpu, E_fs, M_over>>
vars == <<pc, i, clock, wake, children, metrics, round>>

Empty == [s \in {} |-> 0]

NewRound ==
  /\ pc' = "cpu" /\ i' = 0 /\ clock' = 0 /\ wake' = 0
  /\ kind' = Empty /\ start_times' = Empty /\ execution_times' = Empty
  /\ ended' = Empty /\ waited' = {} /\ stats' = Empty

Init ==
  /\ pc = "cpu" /\ i = 0 /\ clock = 0 /\ wake = 0
  /\ kind = Empty /\ start_times = Empty /\ execution_times = Empty
  /\ ended = Empty /\ waited = {} /\ stats = Empty
  /\ min_throughput = Wrap - 1 /\ max_throughput = 0
  /\ norm = 0 /\ J_cpu = 0 /\ E_fs = 0 /\ M_over = 0
  /\ round = 1

pid_index == Cardinality(DOMAIN kind)
Extended(f, v) == [s \in DOMAIN f \cup {pid_index} |-> IF s = pid_index THEN v ELSE f[s]]

-----------------------------------------------------------------------------
(* The forks and the waits                                                 *)

\* fork() of a program; the call may fail, and then nothing is recorded.
Start(from, k, to) ==
  /\ pc = from /\ pc' = to
  /\ \/ /\ i < (IF k = "cpu" THEN CpuProcs ELSE IoProcs)
        /\ kind' = Extended(kind, k)
        /\ start_times' = Extended(start_times, clock)
     \/ UNCHANGED <<kind, start_times>>
  /\ wake' = IF to = "pause" THEN clock + Pause ELSE wake
  /\ UNCHANGED <<i, clock, execution_times, ended, waited, stats, metrics, round>>

StartCpu == Start("cpu", "cpu", "io")
StartIo  == Start("io", "io", "pause")

Continue ==
  /\ pc = "pause" /\ clock >= wake
  /\ i' = i + 1 /\ wake' = 0
  /\ pc' = IF i + 1 < CpuProcs \/ i + 1 < IoProcs THEN "cpu" ELSE "wait"
  /\ UNCHANGED <<clock, children, metrics, round>>

Tick ==
  /\ pc # "done"
  /\ clock < MaxTicks \/ clock < wake
  /\ clock' = clock + 1
  /\ UNCHANGED <<pc, i, wake, children, metrics, round>>

\* A child ends, with the totals of its statistics file.
Exit(s, io, mem) ==
  /\ s \in DOMAIN kind \ DOMAIN ended
  /\ kind[s] = "cpu" => io = 0
  /\ ended' = [x \in DOMAIN ended \cup {s} |-> IF x = s THEN clock ELSE ended[x]]
  /\ stats' = [x \in DOMAIN stats \cup {s} |-> IF x = s THEN <<io, mem>> ELSE stats[x]]
  /\ UNCHANGED <<pc, i, clock, wake, kind, start_times, execution_times, waited, metrics, round>>

\* wait() returns one of the children that have ended, and its slot is found.
Found_Latest(s) == Cardinality(waited)
Found(s) == s

Wait(s) ==
  /\ pc = "wait"
  /\ s \in DOMAIN ended \ waited
  /\ waited' = waited \cup {s}
  /\ execution_times' =
       [x \in DOMAIN execution_times \cup {Found(s)} |->
          IF x = Found(s) THEN clock - start_times[x] ELSE execution_times[x]]
  /\ UNCHANGED <<pc, i, clock, wake, kind, start_times, ended, stats, metrics, round>>

-----------------------------------------------------------------------------
(* The metrics                                                             *)

Times(a, b) == (a * b) % Wrap
Capped(n) == IF n > SCALE_FACTOR THEN SCALE_FACTOR ELSE n
Total(f) == MapThenSumSet(LAMBDA s : f[s], DOMAIN kind)

\* J_cpu: (sum of x)^2 over n times the sum of the x^2, scaled.
Jain(n, sum, squares) ==
  Capped(Times(sum, Times(sum, SCALE_FACTOR)) \div Times(n, squares))

\* A file with some I/O time is that of an I/O-bound program; the memory times of
\* the others are in another file.
IsIo(s) == stats[s][1] > 0
Counted(s) == kind[s] = "cpu" \/ IsIo(s)

Sum     == Total(execution_times)
Squares == Total([s \in DOMAIN kind |-> execution_times[s] * execution_times[s]])
IoTime  == Total([s \in DOMAIN kind |-> stats[s][1]])
MemTime == Total([s \in DOMAIN kind |-> IF Counted(s) THEN stats[s][2] ELSE 0])

\* The last child has been waited for: the metrics.  One that cannot be computed
\* keeps the value of the round before.
Metrics ==
  LET throughput == IF clock > 0 THEN Times(Cardinality(waited), SCALE_FACTOR) \div clock ELSE 0
      lowest  == IF throughput < min_throughput THEN throughput ELSE min_throughput
      highest == IF throughput > max_throughput THEN throughput ELSE max_throughput
      above   == Times(throughput - lowest, SCALE_FACTOR) \div (highest - lowest)
  IN
  /\ pc = "wait" /\ Cardinality(waited) = pid_index
  /\ pc' = "done"
  /\ min_throughput' = lowest /\ max_throughput' = highest
  /\ norm' = IF highest > lowest THEN Capped((SCALE_FACTOR + Wrap - above) % Wrap) ELSE norm
  /\ E_fs' = IF IoTime > 0 THEN SCALE_FACTOR \div IoTime ELSE E_fs
  /\ M_over' = IF MemTime > 0 THEN SCALE_FACTOR \div MemTime ELSE M_over
  /\ J_cpu' = IF Squares % Wrap > 0 /\ Times(pid_index, Squares) > 0
              THEN Jain(pid_index, Sum % Wrap, Squares % Wrap) ELSE J_cpu
  /\ UNCHANGED <<i, clock, wake, children, round>>

Again ==
  /\ pc = "done" /\ round < Rounds
  /\ round' = round + 1
  /\ NewRound
  /\ UNCHANGED metrics

Over == pc = "done" /\ round = Rounds /\ UNCHANGED vars

Next ==
  \/ StartCpu \/ StartIo \/ Continue \/ Tick
  \/ \E s \in Slots : Wait(s) \/ \E io, mem \in Stats : Exit(s, io, mem)
  \/ Metrics \/ Again \/ Over

Spec == Init /\ [][Next]_vars

-----------------------------------------------------------------------------
(* Properties                                                              *)

\* Types of the variables.
TypeOK ==
  /\ pc \in {"cpu", "io", "pause", "wait", "done"}
  /\ DOMAIN kind \subseteq Slots /\ pid_index <= CpuProcs + IoProcs
  /\ {norm, J_cpu, E_fs, M_over} \subseteq 0 .. SCALE_FACTOR

\* Whatever the order in which the children end and some of the forks fail, the
\* metrics are computed from one time for each child, none left over from the
\* stack, and a time covers the life of its child.
TimesRecorded ==
  pc = "done" =>
    /\ DOMAIN execution_times = DOMAIN kind
    /\ \A s \in DOMAIN kind : execution_times[s] >= ended[s] - start_times[s]

EqualTimes == \A s, t \in DOMAIN kind : execution_times[s] = execution_times[t]

\* As long as nothing overflows, the division rounded down included, J_cpu is a
\* fairness index: from 1/n, when one process has all the time, to 1, and 1
\* exactly for processes that have been treated alike.
JainFair ==
  (pc = "done" /\ Sum > 0 /\ Sum * Sum * SCALE_FACTOR < Wrap) =>
    /\ SCALE_FACTOR \div pid_index <= J_cpu
    /\ J_cpu = SCALE_FACTOR <=> EqualTimes

\* The metrics are computed from the right times, and J_cpu as it is defined.
MetricsSound == TimesRecorded /\ JainFair

\* "Mede a justiça entre processos": processes that all took the same time have
\* been treated with perfect fairness.
EqualTimesFair ==
  pc = "done" /\ Sum > 0 /\ EqualTimes => J_cpu = SCALE_FACTOR
===============================================================================
