------------------------------ MODULE MCKernel ------------------------------
(***************************************************************************)
(* The safety of the parts of the kernel, and of the programs, that share  *)
(* no state in their models.  `part' names the one that moves; the others  *)
(* stay as they began.                                                     *)
(***************************************************************************)
EXTENDS Proc, Spinlock, CpuBound

CONSTANTS c1, c2, t1, t2

TwoCpus    == {c1, c2}
OneCpu     == {c1}
NoChans    == {}
FirstKids  == {2, 3}
TwoThreads == {t1, t2}
TwoLocks   == {1, 2}
NearFar    == {1, 3}

VARIABLES
  part,
  h, brk, used,                                                        \* Umalloc
  epc, i, clock, wake, kind, start_times, execution_times, ended,      \* Experiment
  waited, stats, min_throughput, max_throughput, norm, J_cpu, E_fs, M_over, round,
  line                                                                 \* ShParser

Heap == INSTANCE Umalloc
          WITH HEADER <- 8, MINUNITS <- 4, Requests <- {1, 16, 40}, Gaps <- {1},
               HeapEnd <- 13

Exp == INSTANCE Experiment
         WITH pc <- epc, CpuProcs <- 1, IoProcs <- 1, Pause <- 1,
              SCALE_FACTOR <- 10, Wrap <- 256, Rounds <- 2, MaxTicks <- 2,
              Stats <- {0, 1}

\* Every line of up to five characters.
Parser == INSTANCE ShParser
            WITH buf <- line, NBUF <- 6, MAXARGS <- 3,
                 Chars <- {"a", " ", "|", "&", ";", "<", ">", "(", ")"}

heapVars == <<h, brk, used>>
expVars  == <<epc, i, clock, wake, kind, start_times, execution_times, ended, waited,
              stats, min_throughput, max_throughput, norm, J_cpu, E_fs, M_over, round>>

\* The variables of a service that does not move.
HeapIdle ==
  /\ h = None /\ brk = None /\ used = None
ExpIdle ==
  /\ epc = None /\ i = None /\ clock = None /\ wake = None /\ kind = None
  /\ start_times = None /\ execution_times = None /\ ended = None /\ waited = None
  /\ stats = None /\ min_throughput = None /\ max_throughput = None /\ norm = None
  /\ J_cpu = None /\ E_fs = None /\ M_over = None /\ round = None

MCInit ==
  /\ part \in {"proc", "spin", "heap", "exp", "dijk", "line"}
  /\ Init /\ SpinInit /\ GraphInit /\ Parser!Init
  /\ IF part = "heap" THEN Heap!Init ELSE HeapIdle
  /\ IF part = "exp"  THEN Exp!Init  ELSE ExpIdle

MCNext ==
  /\ \/ part = "proc" /\ Next
     \/ part # "proc" /\ UNCHANGED vars
  /\ \/ part = "spin" /\ SpinNext
     \/ part # "spin" /\ UNCHANGED spinVars
  /\ \/ part = "heap" /\ Heap!Next
     \/ part # "heap" /\ UNCHANGED heapVars
  /\ \/ part = "exp" /\ Exp!Next
     \/ part # "exp" /\ UNCHANGED expVars
  /\ \/ part = "dijk" /\ GraphNext
     \/ part # "dijk" /\ UNCHANGED graphVars
  /\ \/ part = "line" /\ Parser!Next
     \/ part # "line" /\ UNCHANGED line
  /\ UNCHANGED part

MCSpec ==
  MCInit /\ [][MCNext]_<<part, vars, spinVars, heapVars, expVars, graphVars, line>>

-----------------------------------------------------------------------------
\* The properties of the modules, stated there.
HeapTiled    == part = "heap" => Heap!HeapTiled
MetricsSound == part = "exp" => Exp!MetricsSound
ParsesAsGrammar == part = "line" => Parser!ParsesAsGrammar

\* Types of the variables of the services.
ServicesTypeOK ==
  /\ part = "spin" => SpinTypeOK
  /\ part = "heap" => Heap!TypeOK
  /\ part = "exp"  => Exp!TypeOK
  /\ part = "dijk" => GraphInv
=============================================================================
