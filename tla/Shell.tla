-------------------------------- MODULE Shell --------------------------------
(***************************************************************************)
(* The shell runs the commands that it has parsed (sh.c), started by init  *)
(* (init.c): forks, pipes, descriptors and waits.  The programs that it    *)
(* runs copy their input to their output (cat.c); they may also end        *)
(* earlier.  Of a pipe the model has whether there is something in it and  *)
(* who has its ends; Pipe has the rest.                                    *)
(***************************************************************************)
EXTENDS ShParser

CONSTANTS
  Pids,          \* slots of the process table; init is 1
  NOFILE,        \* descriptors of a process
  Lines,         \* the lines that are typed
  MaxJobs        \* bound: how many of them

init == 1
Fds  == 0 .. NOFILE - 1

Object(kind, id) == [kind |-> kind, id |-> id]
Console == Object("console", <<>>)
Closed  == Object("closed", <<>>)

VARIABLES
  trees,         \* what the lines were parsed to
  pc,            \* where each process stands
  at,            \* the command that it runs: a line, and the way down its tree
  parent,
  sh,            \* pid in init: the shell
  fds,           \* the descriptors of each process
  local,         \* p[0], p[1] in runcmd()
  full           \* the pipes with something in them

vars == <<buf, trees, pc, at, parent, sh, fds, local, full>>

ShellInit ==
  /\ Init /\ trees = <<>> /\ sh = 0 /\ full = {}
  /\ pc = [p \in Pids |-> IF p = init THEN "start" ELSE "unused"]
  /\ at = [p \in Pids |-> <<>>] /\ parent = [p \in Pids |-> 0]
  /\ fds = [p \in Pids |-> [d \in Fds |-> IF p = init /\ d <= 2 THEN Console ELSE Closed]]
  /\ local = [p \in Pids |-> <<0, 0>>]

\* The command at place a: each of the cases of runcmd() goes on with one of its parts.
Node(a) == FoldLeft(LAMBDA cmd, part : cmd[part], trees[Head(a)], Tail(a))

-----------------------------------------------------------------------------
(* System calls                                                            *)

Goto(p, label) == pc' = [pc EXCEPT ![p] = label]

Unused == {q \in Pids : pc[q] = "unused"}

\* fork1(), after which p goes on at `then' and the child at label, with the command at a.
\* Without a free slot it panics.
Fork(p, then, label, a) ==
  \/ /\ Unused # {}
     /\ LET q == Least(Unused) IN
        /\ pc' = [pc EXCEPT ![p] = then, ![q] = label]
        /\ at' = [at EXCEPT ![q] = a] /\ parent' = [parent EXCEPT ![q] = p]
        /\ fds' = [fds EXCEPT ![q] = fds[p]] /\ local' = [local EXCEPT ![q] = local[p]]
  \/ Unused = {} /\ Goto(p, "exit") /\ UNCHANGED <<at, parent, fds, local>>

Children(p) == {q \in Pids : pc[q] # "unused" /\ parent[q] = p}
Zombies(p)  == {q \in Children(p) : pc[q] = "zombie"}

\* wait(), which returns at once for a process without children.
Wait(p, then) ==
  \/ \E q \in Zombies(p) : pc' = [pc EXCEPT ![p] = then, ![q] = "unused"]
  \/ Children(p) = {} /\ Goto(p, then)

Exit(p) ==
  /\ pc[p] = "exit" /\ p # init
  /\ Goto(p, "zombie")
  /\ fds' = [fds EXCEPT ![p] = [d \in Fds |-> Closed]]
  /\ parent' = [q \in Pids |-> IF parent[q] = p THEN init ELSE parent[q]]
  /\ UNCHANGED <<buf, trees, at, sh, local, full>>

Close(t, d) == [t EXCEPT ![d] = Closed]
Free(t)     == {d \in Fds : t[d] = Closed}
Dup(t, d)   == IF Free(t) = {} THEN t ELSE [t EXCEPT ![Least(Free(t))] = t[d]]

\* Somebody has the end of kind `kind' of pipe g.
HasEnd(kind, g) == \E p \in Pids, d \in Fds : fds[p][d] = Object(kind, g)

-----------------------------------------------------------------------------
(* init                                                                    *)

Start ==
  /\ pc[init] = "start"
  /\ Fork(init, "reap", "prompt", <<>>)
  /\ sh' = IF Unused = {} THEN 0 ELSE Least(Unused)
  /\ UNCHANGED <<buf, trees, full>>

Reap ==
  /\ pc[init] = "reap"
  /\ \/ \E q \in Zombies(init) :
          pc' = [pc EXCEPT ![init] = IF q = sh THEN "start" ELSE "reap", ![q] = "unused"]
     \/ Children(init) = {} /\ Goto(init, "start")
  /\ UNCHANGED <<buf, trees, at, parent, sh, fds, local, full>>

-----------------------------------------------------------------------------
(* main() of the shell                                                     *)

\* gets(), of the lines that are typed.
TypeChar(p, c) ==
  /\ pc[p] = "prompt" /\ Len(trees) < MaxJobs
  /\ Gets(c) /\ \E l \in Lines : IsPrefix(buf', l)
  /\ UNCHANGED <<trees, pc, at, parent, sh, fds, local, full>>

EndOfInput(p) ==
  /\ pc[p] = "prompt" /\ buf = <<>>
  /\ Goto(p, "exit")
  /\ UNCHANGED <<buf, trees, at, parent, sh, fds, local, full>>

\* The child parses the line, and ends if it cannot.
RunLine(p) ==
  /\ pc[p] = "prompt" /\ Getcmd
  /\ \E cmd \in {ParseCmd(buf)} :
       /\ trees' = Append(trees, cmd)
       /\ Fork(p, "wait", IF cmd = Syntax THEN "exit" ELSE "run", <<Len(trees) + 1>>)
  /\ UNCHANGED <<sh, full>>

WaitCommand(p) ==
  /\ pc[p] = "wait" /\ Wait(p, "prompt")
  /\ UNCHANGED <<buf, trees, at, parent, sh, fds, local, full>>

-----------------------------------------------------------------------------
(* runcmd()                                                                *)

Runs(p, type) == pc[p] = "run" /\ Node(at[p]).type = type
Part(p, x)    == Append(at[p], x)

RunExec(p) ==
  /\ Runs(p, "EXEC")
  /\ Goto(p, IF Node(at[p]).argv = <<>> THEN "exit" ELSE "program")
  /\ UNCHANGED <<buf, trees, at, parent, sh, fds, local, full>>

\* exec() fails.
ExecFails(p) ==
  /\ Runs(p, "EXEC") /\ Goto(p, "exit")
  /\ UNCHANGED <<buf, trees, at, parent, sh, fds, local, full>>

RunRedir(p) ==
  LET t == Close(fds[p], Node(at[p]).fd) IN
  /\ Runs(p, "REDIR")
  /\ fds' = [fds EXCEPT ![p] = [t EXCEPT ![Least(Free(t))] = Object("file", at[p])]]
  /\ at' = [at EXCEPT ![p] = Part(p, "cmd")]
  /\ UNCHANGED <<buf, trees, pc, parent, sh, local, full>>

\* open() fails.
RedirFails(p) ==
  /\ Runs(p, "REDIR")
  /\ fds' = [fds EXCEPT ![p] = Close(@, Node(at[p]).fd)] /\ Goto(p, "exit")
  /\ UNCHANGED <<buf, trees, at, parent, sh, local, full>>

RunList(p) ==
  /\ Runs(p, "LIST")
  /\ Fork(p, "listwait", "run", Part(p, "left"))
  /\ UNCHANGED <<buf, trees, sh, full>>

ListNext_AtOnce(p) ==
  pc[p] = "listwait" /\ Goto(p, "run")
ListNext(p) ==
  pc[p] = "listwait" /\ Wait(p, "run")

RunNext(p) ==
  /\ ListNext(p)
  /\ at' = [at EXCEPT ![p] = Part(p, "right")]
  /\ UNCHANGED <<buf, trees, parent, sh, fds, local, full>>

RunBack(p) ==
  /\ Runs(p, "BACK")
  /\ Fork(p, "exit", "run", Part(p, "cmd"))
  /\ UNCHANGED <<buf, trees, sh, full>>

RunPipe(p) ==
  LET rfd == Least(Free(fds[p]))
      wfd == Least(Free(fds[p]) \ {rfd}) IN
  /\ Runs(p, "PIPE")
  /\ fds' = [fds EXCEPT ![p][rfd] = Object("r", at[p]), ![p][wfd] = Object("w", at[p])]
  /\ local' = [local EXCEPT ![p] = <<rfd, wfd>>] /\ Goto(p, "forkleft")
  /\ UNCHANGED <<buf, trees, at, parent, sh, full>>

\* pipe() fails, for want of memory.
PipeFails(p) ==
  /\ Runs(p, "PIPE") /\ Goto(p, "exit")
  /\ UNCHANGED <<buf, trees, at, parent, sh, fds, local, full>>

\* close(p[0]) and close(p[1]).
ClosePipe(p, t) == Close(Close(t, local[p][1]), local[p][2])

ForkSide(p) ==
  /\ \/ pc[p] = "forkleft"  /\ Fork(p, "forkright", "left", Part(p, "left"))
     \/ pc[p] = "forkright" /\ Fork(p, "closepipe", "right", Part(p, "right"))
  /\ UNCHANGED <<buf, trees, sh, full>>

\* The children, with the pipe in the place of descriptor 1 or 0. Nobody sees them
\* between these calls.
Left(t, ends)  == Dup(Close(t, 1), ends[2])
Right(t, ends) == Dup(Close(t, 0), ends[1])

Side(p) ==
  /\ \/ pc[p] = "left"  /\ fds' = [fds EXCEPT ![p] = ClosePipe(p, Left(@, local[p]))]
     \/ pc[p] = "right" /\ fds' = [fds EXCEPT ![p] = ClosePipe(p, Right(@, local[p]))]
  /\ Goto(p, "run")
  /\ UNCHANGED <<buf, trees, at, parent, sh, local, full>>

CloseBoth_ReadEnd(p) ==
  /\ pc[p] = "closepipe"
  /\ fds' = [fds EXCEPT ![p] = Close(@, local[p][1])] /\ Goto(p, "wait1")
  /\ UNCHANGED <<buf, trees, at, parent, sh, local, full>>
CloseBoth(p) ==
  /\ pc[p] = "closepipe"
  /\ fds' = [fds EXCEPT ![p] = ClosePipe(p, @)] /\ Goto(p, "wait1")
  /\ UNCHANGED <<buf, trees, at, parent, sh, local, full>>

WaitSides(p) ==
  /\ \/ pc[p] = "wait1" /\ Wait(p, "wait2")
     \/ pc[p] = "wait2" /\ Wait(p, "exit")
  /\ UNCHANGED <<buf, trees, at, parent, sh, fds, local, full>>

-----------------------------------------------------------------------------
(* Programs: cat()                                                         *)

Endless(o) == o.kind \in {"console", "file"}

\* read() from descriptor 0: something, or the end when no writer is left.
Read(p) ==
  LET o == fds[p][0] IN
  /\ pc[p] = "program"
  /\ \/ Endless(o) /\ Goto(p, "write") /\ UNCHANGED full
     \/ o.kind = "r" /\ o.id \in full /\ Goto(p, "write") /\ full' = full \ {o.id}
     \/ o.kind = "r" /\ o.id \notin full /\ ~HasEnd("w", o.id)
        /\ Goto(p, "exit") /\ UNCHANGED full
     \/ o.kind \in {"w", "closed"} /\ Goto(p, "exit") /\ UNCHANGED full
  /\ UNCHANGED <<buf, trees, at, parent, sh, fds, local>>

\* The end of a file, or of what is typed.
ReadEnd(p) ==
  /\ pc[p] = "program" /\ Endless(fds[p][0]) /\ Goto(p, "exit")
  /\ UNCHANGED <<buf, trees, at, parent, sh, fds, local, full>>

\* write() to descriptor 1, which fails when no reader is left.
Write(p) ==
  LET o == fds[p][1] IN
  /\ pc[p] = "write"
  /\ \/ Endless(o) /\ Goto(p, "program") /\ UNCHANGED full
     \/ o.kind = "w" /\ HasEnd("r", o.id) /\ o.id \notin full
        /\ Goto(p, "program") /\ full' = full \cup {o.id}
     \/ (o.kind = "w" => ~HasEnd("r", o.id)) /\ ~Endless(o)
        /\ Goto(p, "exit") /\ UNCHANGED full
  /\ UNCHANGED <<buf, trees, at, parent, sh, fds, local>>

\* A program that ends before its input does.
Quit(p) ==
  /\ pc[p] = "program" /\ Goto(p, "exit")
  /\ UNCHANGED <<buf, trees, at, parent, sh, fds, local, full>>

Step(p) ==
  \/ Exit(p) \/ WaitCommand(p)
  \/ RunExec(p) \/ RunRedir(p) \/ RunList(p) \/ RunNext(p) \/ RunBack(p)
  \/ RunPipe(p) \/ ForkSide(p) \/ Side(p) \/ CloseBoth(p) \/ WaitSides(p)
  \/ Read(p) \/ Write(p)

ShellNext ==
  \/ Start \/ Reap
  \/ \E p \in Pids :
       \/ Step(p) \/ ExecFails(p) \/ RedirFails(p) \/ PipeFails(p) \/ ReadEnd(p) \/ Quit(p)
       \/ \E c \in Chars : TypeChar(p, c)
       \/ EndOfInput(p) \/ RunLine(p)

Spec == ShellInit /\ [][ShellNext]_vars

-----------------------------------------------------------------------------
(* Properties                                                              *)

ShellTypeOK ==
  /\ pc \in [Pids -> {"unused", "zombie", "exit", "start", "reap", "prompt", "wait", "run",
                      "listwait", "forkleft", "forkright", "left", "right", "closepipe",
                      "wait1", "wait2", "program", "write"}]
  /\ \A p \in Pids : at[p] # <<>> => Head(at[p]) \in DOMAIN trees
  /\ parent \in [Pids -> Pids \cup {0}] /\ sh \in Pids \cup {0}

\* What the command at a reads and writes, by the pipes and redirections above it.
Connected(a) ==
  FoldLeft(
    LAMBDA io, k :
      LET above == SubSeq(a, 1, k) cmd == Node(above) IN
      CASE cmd.type = "PIPE" /\ a[k + 1] = "left"  -> [io EXCEPT ![1] = Object("w", above)]
        [] cmd.type = "PIPE" /\ a[k + 1] = "right" -> [io EXCEPT ![0] = Object("r", above)]
        [] cmd.type = "REDIR" -> [io EXCEPT ![cmd.fd] = Object("file", above)]
        [] cmd.type \in {"LIST", "BACK"} -> io,
    [d \in Fds |-> IF d <= 2 THEN Console ELSE Closed],
    [k \in 1 .. Len(a) - 1 |-> k])

\* A program is connected as its line says, and has no other end of a pipe open, which
\* would keep the reader of that pipe from its end of file.
Wiring ==
  \A p \in Pids : pc[p] = "program" => fds[p] = Connected(at[p])

\* The processes that p has started, and those that they have, as far as they have not
\* been left to init.
Descendants(p) ==
  LET of[n \in 0 .. Cardinality(Pids)] ==
        IF n = 0 THEN {p} ELSE of[n - 1] \cup UNION {Children(q) : q \in of[n - 1]}
  IN of[Cardinality(Pids)] \ {p}

Active(p) == pc[p] \notin {"unused", "exit", "zombie"}

\* a is in the second part of a list whose first part has b.
ComesAfter(a, b) ==
  \E k \in 1 .. Len(a) - 1 :
    /\ k < Len(b) /\ SubSeq(a, 1, k) = SubSeq(b, 1, k)
    /\ Node(SubSeq(a, 1, k)).type = "LIST" /\ a[k + 1] = "right" /\ b[k + 1] = "left"

\* The commands of a list run one after another, and the prompt comes back when all have
\* ended, but for those in the background and those left over when a fork() has failed.
InOrder ==
  /\ \A p, q \in Pids :
       Active(p) /\ Active(q) /\ q \in Descendants(p) => ~ComesAfter(at[p], at[q])
  /\ \A p \in Pids : pc[p] = "prompt" => Children(p) = {}

ShellSound == Wiring /\ InOrder

\* The shell that waits for a command does not hang: of the processes of the command
\* somebody can go on, whoever of a pipeline ends first, and even if a fork() in the middle
\* of it has failed.
NoHang == \A p \in Pids : pc[p] = "wait" => \E q \in {p} \cup Descendants(p) : ENABLED Step(q)
==============================================================================
