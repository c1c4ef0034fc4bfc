------------------------------ MODULE BlockStore ------------------------------
(***************************************************************************)
(* What bio.c promises to log.c and fs.c: one copy of each block, which at *)
(* most one process uses at a time, from its bread() to its brelse().      *)
(***************************************************************************)
CONSTANTS Procs, NoProc, Blocks, Values

VARIABLES
  content,   \* what bread() of a block returns
  stored,    \* what is on the disk
  owner      \* who has read and not released a block

storeVars == <<content, stored, owner>>

Init ==
  /\ content \in [Blocks -> Values]
  /\ stored = content
  /\ owner  = [k \in Blocks |-> NoProc]

\* bread() returns, with content[k].
Read(p, k) ==
  /\ owner[k] = NoProc
  /\ owner' = [owner EXCEPT ![k] = p]
  /\ UNCHANGED <<content, stored>>

\* The owner changes the block, for log_write() or for bwrite().
Change(p, k, v) ==
  /\ owner[k] = p
  /\ content' = [content EXCEPT ![k] = v]
  /\ UNCHANGED <<stored, owner>>

\* A bwrite() of the owner reaches the disk.
Write(p, k) ==
  /\ owner[k] = p
  /\ stored' = [stored EXCEPT ![k] = content[k]]
  /\ UNCHANGED <<content, owner>>

\* brelse().
Release(p, k) ==
  /\ owner[k] = p
  /\ owner' = [owner EXCEPT ![k] = NoProc]
  /\ UNCHANGED <<content, stored>>

Next ==
  \E p \in Procs, k \in Blocks :
    \/ Read(p, k) \/ Write(p, k) \/ Release(p, k)
    \/ \E v \in Values : Change(p, k, v)

Spec == Init /\ [][Next]_storeVars
===============================================================================
