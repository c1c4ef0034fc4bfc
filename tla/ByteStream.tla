------------------------------ MODULE ByteStream ------------------------------
(***************************************************************************)
(* What a pipe promises to the processes that share it: one queue of bytes *)
(* of bounded length.  A write that succeeds has put all of its bytes into *)
(* the queue, in order, and one that fails a prefix of them; a read takes  *)
(* bytes from the front; it finds the end of the stream when the queue is  *)
(* empty and can get no more bytes.                                        *)
(***************************************************************************)
EXTENDS Naturals, Sequences

CONSTANTS Procs, Messages, Capacity

VARIABLES
  queue,    \* the bytes written and not yet read
  open,     \* open["r"], open["w"]: some process may still read, write
  call,     \* the call each process is in
  todo,     \* the bytes a write has still to put into the queue
  ret,      \* what the latest call to end has returned
  killed    \* the processes that have been killed

vars == <<queue, open, call, todo, ret, killed>>

Init ==
  /\ queue  = <<>>
  /\ open   = [e \in {"r", "w"} |-> TRUE]
  /\ call   = [p \in Procs |-> "none"]
  /\ todo   = [p \in Procs |-> <<>>]
  /\ ret    = [ok |-> TRUE, bytes |-> <<>>]
  /\ killed = {}

Return(p, success, bs) ==
  /\ call' = [call EXCEPT ![p] = "none"]
  /\ ret'  = [ok |-> success, bytes |-> bs]

Read(p) ==
  /\ call[p] = "none"
  /\ call' = [call EXCEPT ![p] = "read"]
  /\ UNCHANGED <<queue, open, todo, ret, killed>>

Write(p, m) ==
  /\ call[p] = "none"
  /\ call' = [call EXCEPT ![p] = "write"]
  /\ todo' = [todo EXCEPT ![p] = m]
  /\ UNCHANGED <<queue, open, ret, killed>>

\* Bytes enter the queue.  The write returns when there are no more, or, with
\* an error, when nobody can read them or its process has been killed.
Put(p) ==
  /\ call[p] = "write"
  /\ \E k \in 0..Len(todo[p]) :
       /\ Len(queue) + k <= Capacity
       /\ queue' = queue \o SubSeq(todo[p], 1, k)
       /\ \/ /\ k = Len(todo[p])
             /\ todo' = [todo EXCEPT ![p] = <<>>]
             /\ Return(p, TRUE, <<>>)
          \/ /\ k < Len(todo[p])
             /\ todo' = [todo EXCEPT ![p] = SubSeq(@, k + 1, Len(@))]
             /\ UNCHANGED <<call, ret>>
          \/ /\ k < Len(todo[p])
             /\ ~open["r"] \/ p \in killed
             /\ todo' = [todo EXCEPT ![p] = <<>>]
             /\ Return(p, FALSE, <<>>)
  /\ UNCHANGED <<open, killed>>

Get(p) ==
  /\ call[p] = "read"
  /\ \E k \in 0..Len(queue) :
       /\ k = 0 => queue = <<>> /\ ~open["w"]
       /\ queue' = SubSeq(queue, k + 1, Len(queue))
       /\ Return(p, TRUE, SubSeq(queue, 1, k))
  /\ UNCHANGED <<open, todo, killed>>

GetFails(p) ==
  /\ call[p] = "read"
  /\ p \in killed
  /\ Return(p, FALSE, <<>>)
  /\ UNCHANGED <<queue, open, todo, killed>>

Close(e) ==
  /\ open[e]
  /\ open' = [open EXCEPT ![e] = FALSE]
  /\ UNCHANGED <<queue, call, todo, ret, killed>>

Kill(p) ==
  /\ killed' = killed \cup {p}
  /\ UNCHANGED <<queue, open, call, todo, ret>>

Next ==
  \/ \E p \in Procs :
       \/ Read(p) \/ \E m \in Messages : Write(p, m)
       \/ Put(p) \/ Get(p) \/ GetFails(p) \/ Kill(p)
  \/ \E e \in {"r", "w"} : Close(e)

Spec == Init /\ [][Next]_vars
=============================================================================
