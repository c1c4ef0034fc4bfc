------------------------------ MODULE MCFileSys ------------------------------
(* FileSys with two processes, on a small disk. *)
EXTENDS FileSys, TLC

CONSTANTS p1, p2

TwoProcs  == {p1, p2}
FourInums == 1..4
ThreeInums == 1..3
TwoNames  == {"a", "d"}

ToOpen(s)   == [op |-> "open", write |-> FALSE, path |-> s]
ToWrite(s)  == [op |-> "open", write |-> TRUE, path |-> s]
Creat(s)    == [op |-> "create", path |-> s]
Mkdir(s)    == [op |-> "mkdir", path |-> s]
Rm(s)       == [op |-> "unlink", path |-> s]
Ln(s, t)    == [op |-> "link", path |-> s, new |-> t]
Cd(s)       == [op |-> "chdir", path |-> s]

\* One process makes and removes a file and a second name for it, the other the
\* directory that this name is in; there are calls that fail.
Shallow ==
  p1 :> {Creat(<<"a">>), Ln(<<"a">>, <<"/", "d", "a">>), Rm(<<"a">>), Rm(<<"d", "..">>)} @@
  p2 :> {Mkdir(<<"/", "d">>), Rm(<<"/", "d">>), Cd(<<"/", "d">>), Rm(<<"a">>),
         Ln(<<"d", "..">>, <<"a">>), ToOpen(<<"d", "a">>), ToWrite(<<"d">>), Rm(<<"/">>)}

\* Two processes create and remove the same file.
SameFile == [p \in TwoProcs |-> {Creat(<<"a">>), Rm(<<"a">>)}]

\* A directory in a directory, entered and removed.
Nested ==
  p1 :> {Mkdir(<<"/", "d">>), Mkdir(<<"/", "d", "d">>), Cd(<<"/", "d", "d">>),
         Rm(<<"/", "d", "d">>), Rm(<<"/", "d">>)} @@
  p2 :> {}
=============================================================================
