-------------------------------- MODULE MCPipe --------------------------------
(***************************************************************************)
(* Instances of Pipe for TLC.                                              *)
(***************************************************************************)
EXTENDS Pipe, TLC

CONSTANTS p1, p2, p3, x, y

TwoProcs   == {p1, p2}
ThreeProcs == {p1, p2, p3}
Alike      == Permutations(Procs)
OneByte    == {x}
TwoBytes   == {x, y}
OneShort   == {<<x>>}
JustLong   == {<<x, y, x>>}
JustOne    == {1}
OneTwo     == {1, 2}
=============================================================================
