----------------------------- MODULE AtomicStore -----------------------------
(***************************************************************************)
(* What log.c promises to the file system calls above it: a store of       *)
(* blocks in which the writes of the calls between begin_op() and end_op() *)
(* become durable together, only when no call is under way, and at the     *)
(* latest when the end_op() that closes the group returns.  A crash takes  *)
(* the store back to the last group that became durable.                   *)
(***************************************************************************)
CONSTANTS Procs, Blocks, Data

VARIABLES
  durable,   \* the contents of the blocks that a crash leaves
  view,      \* the contents that file system calls see
  active,    \* the processes inside a file system call
  closing    \* the process whose end_op() makes the group durable, if any

storeVars == <<durable, view, active, closing>>

Init ==
  /\ durable \in [Blocks -> Data]
  /\ view    = durable
  /\ active  = {}
  /\ closing = {}

\* begin_op() returns.
Begin(p) ==
  /\ closing = {}
  /\ p \notin active
  /\ active' = active \cup {p}
  /\ UNCHANGED <<durable, view, closing>>

\* A call writes a block.
Write(p, b, v) ==
  /\ p \in active
  /\ view' = [view EXCEPT ![b] = v]
  /\ UNCHANGED <<durable, active, closing>>

\* end_op() while other calls are under way: nothing is durable yet.
End(p) ==
  /\ p \in active /\ active # {p}
  /\ active' = active \ {p}
  /\ UNCHANGED <<durable, view, closing>>

\* The last end_op() of the group: calls that begin wait.
Close(p) ==
  /\ active = {p}
  /\ active'  = {}
  /\ closing' = {p}
  /\ UNCHANGED <<durable, view>>

\* The whole group becomes durable, in one step.
Commit ==
  /\ closing # {}
  /\ durable' = view
  /\ UNCHANGED <<view, active, closing>>

\* The last end_op() returns.
Return ==
  /\ closing # {}
  /\ durable = view
  /\ closing' = {}
  /\ UNCHANGED <<durable, view, active>>

\* Power failure, or a panic and a reboot.
Crash ==
  /\ view'    = durable
  /\ active'  = {}
  /\ closing' = {}
  /\ UNCHANGED durable

Next ==
  \/ \E p \in Procs : Begin(p) \/ End(p) \/ Close(p)
  \/ \E p \in Procs, b \in Blocks, v \in Data : Write(p, b, v)
  \/ Commit \/ Return \/ Crash

Spec == Init /\ [][Next]_storeVars
=============================================================================
