------------------------------- MODULE MCFiles -------------------------------
(***************************************************************************)
(* What programs see of files: names, descriptors, and the pipes and       *)
(* redirections of the shell.  They share no state in their models; `part' *)
(* names the one that moves, and the others stay as they began.            *)
(***************************************************************************)
EXTENDS MCFileSys, Descriptors

VARIABLES
  part,
  buf, trees, spc, sat, parent, sh, fds, local, full            \* Shell

\* Two of these lines typed to a shell, in a table of five slots.
S == INSTANCE Shell
       WITH pc <- spc, at <- sat,
            Chars <- {"a", "|", "&", ";", "<", "\n"}, NBUF <- 9, MAXARGS <- 3,
            Pids <- 1..5, NOFILE <- 5, MaxJobs <- 2,
            Lines <- {<<"a", "|", "a", "\n">>, <<"a", "|", "a", "|", "a", "\n">>,
                      <<"a", "&", ";", "a", "\n">>, <<"a", ";", "a", "<", "a", "\n">>}

shVars   == <<buf, trees, spc, sat, parent, sh, fds, local, full>>

MCInit ==
  /\ Init /\ FtableInit /\ S!ShellInit
  /\ part \in {"names", "descriptors", "shell"}

MCNext ==
  /\ \/ part = "names" /\ Next /\ UNCHANGED <<ftableVars, shVars>>
     \/ part = "descriptors" /\ FtableNext /\ UNCHANGED <<vars, shVars>>
     \/ part = "shell" /\ S!ShellNext /\ UNCHANGED <<vars, ftableVars>>
  /\ UNCHANGED part

MCSpec == MCInit /\ [][MCNext]_<<part, vars, ftableVars, shVars>>

-----------------------------------------------------------------------------
\* The properties of the other modules, stated there.
ShellSound      == part = "shell" => S!ShellTypeOK /\ S!ShellSound
NoHang          == part = "shell" => S!NoHang
=============================================================================
