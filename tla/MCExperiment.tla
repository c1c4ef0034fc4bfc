---------------------------- MODULE MCExperiment ----------------------------
(***************************************************************************)
(* An instance of Experiment for TLC, with numbers so narrow that rounds   *)
(* of a few ticks overflow them, as those of thousands do in 32 bits.      *)
(***************************************************************************)
EXTENDS Experiment

NoStats == {0}
=============================================================================
