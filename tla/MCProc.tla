------------------------------- MODULE MCProc -------------------------------
(***************************************************************************)
(* Instances of Proc for TLC.                                              *)
(***************************************************************************)
EXTENDS Proc

CONSTANTS c1, c2, ticks

OneCpu    == {c1}
TwoCpus   == {c1, c2}
OneChan   == {ticks}
NoChans   == {}
PidZero   == {0}
NoPids    == {}
=============================================================================
