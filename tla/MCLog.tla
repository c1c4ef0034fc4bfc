-------------------------------- MODULE MCLog --------------------------------
(***************************************************************************)
(* Instances of Log, Console and Memory for TLC.  They share no state;     *)
(* `part' names the one that moves.                                        *)
(***************************************************************************)
EXTENDS Log, Console, Memory

CONSTANTS p1, p2, b1, b2, x, y, t1, t2

TwoProcs   == {p1, p2}
TwoBlocks  == {b1, b2}
TwoData    == {x, y}
TwoReaders == {t1, t2}
ShortLong  == {1, 3}
TwoUsers   == 1..2
OneEnd     == {1}
UpDown     == {3, -3}

VARIABLE part

\* While another part moves, the log stays at one of its beginnings.
MCInit ==
  /\ Init /\ ConsInit /\ MemInit
  /\ \/ part = "log"
     \/ /\ part \in {"cons", "mem"}
        /\ home = [b \in Blocks |-> x] /\ logData = [i \in 1..LOGSIZE |-> x]

MCNext ==
  /\ \/ part = "log" /\ Next /\ UNCHANGED <<consVars, pageVars>>
     \/ part = "cons" /\ ConsNext /\ UNCHANGED <<vars, pageVars>>
     \/ part = "mem" /\ MemNext /\ UNCHANGED <<vars, consVars>>
  /\ UNCHANGED part

MCSpec == MCInit /\ [][MCNext]_<<part, vars, consVars, pageVars>> /\ Fairness
=============================================================================
