-------------------------------- MODULE Mutex --------------------------------
(***************************************************************************)
(* What acquiresleep() and releasesleep() promise to bio.c and fs.c: the   *)
(* lock has one holder at a time, and is free when it has none.            *)
(***************************************************************************)
CONSTANTS Procs, Nobody

VARIABLE holder

Init == holder = Nobody

Acquire(p) == holder = Nobody /\ holder' = p
Release(p) == holder = p /\ holder' = Nobody

Next == \E p \in Procs : Acquire(p) \/ Release(p)

Spec == Init /\ [][Next]_holder
===============================================================================
