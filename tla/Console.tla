------------------------------- MODULE Console -------------------------------
(***************************************************************************)
(* Console input (console.c): consoleintr() edits a line in a ring buffer  *)
(* at interrupt time, consoleread() takes committed characters out of it.  *)
(* The three indices are 32-bit counters that wrap; the ring size divides  *)
(* their range.                                                            *)
(***************************************************************************)
EXTENDS Integers, Sequences

CONSTANTS
  Readers, None,
  INPUT_BUF,
  Wrap,         \* the range of the indices, 2^32 in the code
  Sizes         \* bound: the sizes n of the reads

ASSUME ConsoleAssumption ==
  /\ None \notin Readers
  /\ INPUT_BUF \in Nat \ {0} /\ Wrap \in Nat \ {0}
  /\ INPUT_BUF < Wrap /\ Wrap % INPUT_BUF = 0
  /\ Sizes \subseteq Nat

Chars == {"x", "nl", "eof"}   \* any other character, '\n' or '\r', ^D

VARIABLES
  buf, r, w, e,       \* the struct input
  cons,               \* the reader that has cons.lock
  rpc, n, target,     \* consoleread(): where it is, what it is asked for
  out,                \* dst of the latest read
  killed

input    == <<buf, r, w, e>>
locals   == <<rpc, n, target, out>>
consVars == <<input, cons, locals, killed>>

Plus(i, k)  == (i + k) % Wrap
Minus(i, k) == (i + Wrap - k) % Wrap
Slot(i)     == i % INPUT_BUF

ConsInit ==
  /\ buf = [i \in 0 .. INPUT_BUF - 1 |-> "x"]
  /\ r = 0 /\ w = 0 /\ e = 0
  /\ cons = None
  /\ rpc = [p \in Readers |-> "out"]
  /\ n = [p \in Readers |-> 0] /\ target = [p \in Readers |-> 0]
  /\ out = [p \in Readers |-> <<>>]
  /\ killed = {}

-----------------------------------------------------------------------------
(* consoleintr(), one character                                            *)

\* wakeup(&input.r)
ReadersWoken == [p \in Readers |-> IF rpc[p] = "asleep" THEN "runnable" ELSE rpc[p]]

\* When a character ends the line.
Commits_Line(c, i) == c # "x"
Commits(c, i) == c # "x" \/ i = Plus(r, INPUT_BUF)

HasRoom_OneMore == Minus(e, r) <= INPUT_BUF
HasRoom == Minus(e, r) < INPUT_BUF

Type(c) ==
  /\ cons = None /\ HasRoom
  /\ buf' = [buf EXCEPT ![Slot(e)] = c]
  /\ e' = Plus(e, 1)
  /\ IF Commits(c, e') THEN w' = e' /\ rpc' = ReadersWoken ELSE UNCHANGED <<w, rpc>>
  /\ UNCHANGED <<r, cons, n, target, out, killed>>

Erase ==
  /\ cons = None /\ e # w
  /\ e' = Minus(e, 1)
  /\ UNCHANGED <<buf, r, w, cons, locals, killed>>

\* ^U: back to the end of the line before.
KillLine ==
  /\ cons = None
  /\ \E k \in 1 .. INPUT_BUF :
       /\ k <= Minus(e, w)
       /\ \A j \in 1 .. k : buf[Slot(Minus(e, j))] # "nl"
       /\ k = Minus(e, w) \/ buf[Slot(Minus(e, k + 1))] = "nl"
       /\ e' = Minus(e, k)
  /\ UNCHANGED <<buf, r, w, cons, locals, killed>>

-----------------------------------------------------------------------------
(* consoleread()                                                           *)

Read(p, k) ==
  /\ rpc[p] = "out" /\ cons = None
  /\ cons' = p
  /\ rpc' = [rpc EXCEPT ![p] = "loop"]
  /\ n' = [n EXCEPT ![p] = k] /\ target' = [target EXCEPT ![p] = k]
  /\ out' = [out EXCEPT ![p] = <<>>]
  /\ UNCHANGED <<input, killed>>

Return(p) ==
  /\ cons' = None
  /\ rpc' = [rpc EXCEPT ![p] = "out"]
  /\ n' = [n EXCEPT ![p] = 0] /\ target' = [target EXCEPT ![p] = 0]

\* The next character: ^D ends the read, and is kept if there is data before it.
Keep(p) == n[p] < target[p]

Byte(p) ==
  LET c == buf[Slot(r)] IN
  /\ rpc[p] = "loop" /\ n[p] > 0 /\ r # w
  /\ IF c = "eof"
     THEN /\ r' = IF Keep(p) THEN r ELSE Plus(r, 1)
          /\ Return(p)
          /\ UNCHANGED out
     ELSE /\ r' = Plus(r, 1)
          /\ out' = [out EXCEPT ![p] = Append(@, c)]
          /\ IF c = "nl" THEN Return(p)
             ELSE n' = [n EXCEPT ![p] = @ - 1] /\ UNCHANGED <<cons, rpc, target>>
  /\ UNCHANGED <<buf, w, e, killed>>

\* The read is complete, or its process has been killed.
Done(p) ==
  /\ rpc[p] = "loop"
  /\ \/ n[p] = 0
     \/ r = w /\ p \in killed
  /\ Return(p)
  /\ killed' = killed \ {p}
  /\ UNCHANGED <<input, out>>

\* The process is not killed yet when it calls sleep() ...
BeforeSleep(p) ==
  /\ rpc[p] = "loop" /\ n[p] > 0 /\ r = w /\ p \notin killed
  /\ rpc' = [rpc EXCEPT ![p] = "sleep"]
  /\ UNCHANGED <<input, cons, n, target, out, killed>>

\* ... which gives up the lock.
Sleep(p) ==
  /\ rpc[p] = "sleep"
  /\ cons' = None
  /\ rpc' = [rpc EXCEPT ![p] = "asleep"]
  /\ UNCHANGED <<input, n, target, out, killed>>

Resume(p) ==
  /\ rpc[p] = "runnable" /\ cons = None
  /\ cons' = p
  /\ rpc' = [rpc EXCEPT ![p] = "loop"]
  /\ UNCHANGED <<input, n, target, out, killed>>

\* kill() of a process that reads.
Kill(p) ==
  /\ rpc[p] # "out" /\ p \notin killed
  /\ killed' = killed \cup {p}
  /\ rpc' = IF rpc[p] = "asleep" THEN [rpc EXCEPT ![p] = "runnable"] ELSE rpc
  /\ UNCHANGED <<input, cons, n, target, out>>

ConsNext ==
  \/ \E c \in Chars : Type(c)
  \/ Erase \/ KillLine
  \/ \E p \in Readers :
       \/ \E k \in Sizes : Read(p, k)
       \/ Byte(p) \/ Done(p)
       \/ BeforeSleep(p) \/ Sleep(p) \/ Resume(p) \/ Kill(p)

ConsSpec == ConsInit /\ [][ConsNext]_consVars

-----------------------------------------------------------------------------
(* Properties                                                              *)

\* Types of the variables.
ConsTypeOK ==
  /\ buf \in [0 .. INPUT_BUF - 1 -> Chars]
  /\ {r, w, e} \subseteq 0 .. Wrap - 1
  /\ cons \in Readers \cup {None}
  /\ rpc \in [Readers -> {"out", "loop", "sleep", "asleep", "runnable"}]
  /\ n \in [Readers -> Nat] /\ target \in [Readers -> Nat]
  /\ out \in [Readers -> Seq(Chars)]
  /\ killed \subseteq Readers

\* Nobody sleeps while there is input, and a ring that is full has input: a
\* reader that waits for a line too long to be ended gets its head.
InputWakes ==
  /\ \A p \in Readers : rpc[p] = "asleep" => r = w
  /\ Minus(e, r) = INPUT_BUF => w = e

\* The indices come in the order r, w, e, whatever their wrap, and do not lap.
RingInv ==
  /\ Minus(w, r) + Minus(e, w) = Minus(e, r)
  /\ Minus(e, r) <= INPUT_BUF

\* cons.lock has the reader that is in the loop; one on its way to sleep has it
\* too, so that no character comes in between its test and its sleep.
LockInv ==
  \A p \in Readers : /\ rpc[p] \in {"loop", "sleep"} <=> cons = p
                     /\ rpc[p] = "sleep" => r = w

\* A read that goes on has got what it has counted, and no end of line.
ReadInv ==
  \A p \in Readers : rpc[p] # "out" =>
    /\ n[p] <= target[p] /\ Len(out[p]) = target[p] - n[p]
    /\ \A i \in 1 .. Len(out[p]) : out[p][i] # "nl"

\* The inductive invariant: nobody sleeps while there is input, because the
\* reader holds cons.lock from its test to its sleep.
ConsInv == ConsTypeOK /\ RingInv /\ LockInv /\ ReadInv /\ InputWakes

\* The reads together get what was typed, in the order in which it was typed,
\* whatever the wrap of the counters, the erasures and the ^D that consoleread()
\* puts back.
Between(i, j) == [k \in 1 .. Minus(j, i) |-> buf[Slot((i + k - 1) % Wrap)]]

Lines == INSTANCE LineBuffer WITH
           Size <- INPUT_BUF, ready <- Between(r, w), edit <- Between(w, e)

IsLineBuffer == Lines!Spec
===============================================================================
