----------------------------- MODULE Descriptors -----------------------------
(***************************************************************************)
(* File descriptors: the table of open files (file.c), the calls that      *)
(* make and give up references to its entries, and pipe(), which must      *)
(* give back what it has when files, memory or descriptors run out.        *)
(* ftable.lock is held for one step; between two of them any other process *)
(* may come.                                                               *)
(***************************************************************************)
EXTENDS Integers, Sequences, FiniteSets

CONSTANTS
  Slots,       \* slots of the process table
  NFILE,       \* entries of ftable
  NOFILE,      \* descriptors of a process
  Pages        \* what kalloc() has for pipes

ASSUME DescriptorsAssumption == IsFiniteSet(Slots) /\ NFILE \in Nat /\ NOFILE \in Nat

Files == 1 .. NFILE
Fds   == 0 .. NOFILE - 1
NoFile  == 0

VARIABLES
  fref,        \* f->ref
  type,        \* f->type: "none", "inode", or the end "r" or "w" of a pipe
  pipe,        \* f->pipe
  ofile,       \* the descriptors of each process
  open,        \* the ends that each allocated pipe has open
  at,          \* where each process stands
  loc,         \* the locals of its call: files f0 and f1, the fd or child fork() is at
  drop,        \* the files that it still has to pass to fileclose()
  ends,        \* <<pipe, end>> of the pipeclose() that it is about to make
  fpanic

ftableVars == <<fref, type, pipe, ofile, open, at, loc, drop, ends, fpanic>>

\* Where a call can be; "user" is outside of any.
Places == {"unused", "embryo", "user", "f0", "f1", "page", "fds", "open", "fd", "dup",
           "fork", "close", "exit"}

Locs  == [f0 : Files \cup {NoFile}, f1 : Files \cup {NoFile},
          fd : 0 .. NOFILE, child : Slots \cup {NoFile}]
NoLoc == [f0 |-> NoFile, f1 |-> NoFile, fd |-> 0, child |-> NoFile]
NoEnd == <<NoFile, "none">>
Lowest(S) == CHOOSE d \in S : \A x \in S : d <= x

NoFds == [d \in Fds |-> NoFile]

FtableInit ==
  /\ fref = [f \in Files |-> 0] /\ type = [f \in Files |-> "none"]
  /\ pipe = [f \in Files |-> NoFile]
  /\ ofile = [p \in Slots |-> NoFds] /\ open = [g \in {} |-> {}]
  /\ at = [p \in Slots |-> IF p = Lowest(Slots) THEN "user" ELSE "unused"]
  /\ loc = [p \in Slots |-> NoLoc] /\ drop = [p \in Slots |-> <<>>]
  /\ ends = [p \in Slots |-> NoEnd] /\ fpanic = FALSE

Goto(p, label) == at' = [at EXCEPT ![p] = label]

\* The descriptor that fdalloc() finds in table t, if there is one.
FreeFds(t) == {d \in Fds : t[d] = NoFile}

-----------------------------------------------------------------------------
(* filealloc(), filedup(), fileclose()                                     *)

\* filealloc() gives the first free entry to the local x of p, or 0.
FileAlloc(p, x, then, fails) ==
  LET free == {f \in Files : fref[f] = 0} IN
  \/ /\ free # {}
     /\ fref' = [fref EXCEPT ![Lowest(free)] = 1]
     /\ loc' = [loc EXCEPT ![p][x] = Lowest(free)]
     /\ Goto(p, then) /\ UNCHANGED drop
  \/ /\ free = {} /\ Goto(p, fails)
     /\ drop' = [drop EXCEPT ![p] = IF x = "f1" THEN <<loc[p].f0>> ELSE <<>>]
     /\ loc' = [loc EXCEPT ![p] = NoLoc] /\ UNCHANGED fref

\* The state of an entry whose last reference is gone: fileclose() clears its type, so
\* that the next call to have it may close it before it has given it one.
Cleared_Not(f) == type
Cleared(f) == [type EXCEPT ![f] = "none"]

FileClose(p) ==
  LET f == Head(drop[p]) IN
  /\ drop[p] # <<>> /\ ends[p] = NoEnd
  /\ drop' = [drop EXCEPT ![p] = Tail(@)]
  /\ IF fref[f] < 1
     THEN fpanic' = TRUE /\ UNCHANGED <<fref, type, ends>>
     ELSE /\ fref' = [fref EXCEPT ![f] = @ - 1]
          /\ IF fref[f] > 1
             THEN UNCHANGED <<type, ends>>
             ELSE /\ type' = Cleared(f)
                  /\ ends' = IF type[f] \in {"r", "w"}
                             THEN [ends EXCEPT ![p] = <<pipe[f], type[f]>>] ELSE ends
          /\ UNCHANGED fpanic
  /\ UNCHANGED <<pipe, ofile, open, at, loc>>

\* pipeclose(), which frees the pipe with its second end.
LastEnd(g, end) == open[g] \ {end} = {}

PipeClose(p) ==
  /\ ends[p] # NoEnd
  /\ LET g == ends[p][1] end == ends[p][2] IN
     open' = IF g \notin DOMAIN open THEN open
             ELSE IF LastEnd(g, end) THEN [h \in DOMAIN open \ {g} |-> open[h]]
             ELSE [open EXCEPT ![g] = @ \ {end}]
  /\ fpanic' = (fpanic \/ ends[p][1] \notin DOMAIN open)     \* a pipe freed before
  /\ ends' = [ends EXCEPT ![p] = NoEnd]
  /\ UNCHANGED <<fref, type, pipe, ofile, at, loc, drop>>

Closed(p) == drop[p] = <<>> /\ ends[p] = NoEnd

\* The call returns when it has closed what it had to.
Returned(p) ==
  /\ at[p] = "close" /\ Closed(p)
  /\ Goto(p, "user")
  /\ UNCHANGED <<fref, type, pipe, ofile, open, loc, drop, ends, fpanic>>

FileDup(f) ==
  /\ fref' = [fref EXCEPT ![f] = @ + 1]
  /\ fpanic' = (fpanic \/ fref[f] < 1)

-----------------------------------------------------------------------------
(* pipe()                                                                  *)

Begin(p, label) ==
  /\ at[p] = "user" /\ Goto(p, label)
  /\ UNCHANGED <<fref, type, pipe, ofile, open, loc, drop, ends, fpanic>>

PipeFiles(p) ==
  /\ \/ at[p] = "f0" /\ FileAlloc(p, "f0", "f1", "close")
     \/ at[p] = "f1" /\ FileAlloc(p, "f1", "page", "close")
  /\ UNCHANGED <<type, pipe, ofile, open, ends, fpanic>>

\* fileclose() of both files of a pipe() that fails.
GiveUp(p, files) ==
  /\ drop' = [drop EXCEPT ![p] = files]
  /\ loc' = [loc EXCEPT ![p] = NoLoc] /\ Goto(p, "close")

NoPage(p) ==
  /\ at[p] = "page" /\ DOMAIN open = Pages
  /\ GiveUp(p, <<loc[p].f0, loc[p].f1>>)
  /\ UNCHANGED <<fref, type, pipe, ofile, open, ends, fpanic>>

PipeMade(p, g) ==
  /\ at[p] = "page" /\ g \in Pages \ DOMAIN open
  /\ open' = [h \in DOMAIN open \cup {g} |-> IF h = g THEN {"r", "w"} ELSE open[h]]
  /\ type' = [type EXCEPT ![loc[p].f0] = "r", ![loc[p].f1] = "w"]
  /\ pipe' = [pipe EXCEPT ![loc[p].f0] = g, ![loc[p].f1] = g]
  /\ Goto(p, "fds")
  /\ UNCHANGED <<fref, ofile, loc, drop, ends, fpanic>>

\* Both calls of fdalloc(): the second may fail after the first has succeeded.
PipeFds(p) ==
  LET free == FreeFds(ofile[p])
      fd0  == Lowest(free)
      fd1  == Lowest(free \ {fd0}) IN
  /\ at[p] = "fds"
  /\ \/ /\ Cardinality(free) >= 2
        /\ ofile' = [ofile EXCEPT ![p][fd0] = loc[p].f0, ![p][fd1] = loc[p].f1]
        /\ loc' = [loc EXCEPT ![p] = NoLoc] /\ Goto(p, "user") /\ UNCHANGED drop
     \/ Cardinality(free) < 2 /\ GiveUp(p, <<loc[p].f0, loc[p].f1>>) /\ UNCHANGED ofile
  /\ UNCHANGED <<fref, type, pipe, open, ends, fpanic>>

-----------------------------------------------------------------------------
(* open(), dup(), close(), fork(), exit()                                  *)

OpenFile(p) ==
  /\ at[p] = "open" /\ FileAlloc(p, "f0", "fd", "close")
  /\ UNCHANGED <<type, pipe, ofile, open, ends, fpanic>>

\* fdalloc(), and the type, which is set when everything else is done.
OpenFd(p) ==
  LET free == FreeFds(ofile[p]) IN
  /\ at[p] = "fd"
  /\ \/ /\ free # {}
        /\ ofile' = [ofile EXCEPT ![p][Lowest(free)] = loc[p].f0]
        /\ type' = [type EXCEPT ![loc[p].f0] = "inode"]
        /\ loc' = [loc EXCEPT ![p] = NoLoc] /\ Goto(p, "user") /\ UNCHANGED drop
     \/ free = {} /\ GiveUp(p, <<loc[p].f0>>) /\ UNCHANGED <<ofile, type>>
  /\ UNCHANGED <<fref, pipe, open, ends, fpanic>>

\* sys_dup() has its descriptor before it has its reference.
Dup(p, d) ==
  /\ at[p] = "user" /\ ofile[p][d] # NoFile /\ FreeFds(ofile[p]) # {}
  /\ ofile' = [ofile EXCEPT ![p][Lowest(FreeFds(ofile[p]))] = ofile[p][d]]
  /\ loc' = [loc EXCEPT ![p].f0 = ofile[p][d]] /\ Goto(p, "dup")
  /\ UNCHANGED <<fref, type, pipe, open, drop, ends, fpanic>>

DupRef(p) ==
  /\ at[p] = "dup"
  /\ FileDup(loc[p].f0)
  /\ loc' = [loc EXCEPT ![p] = NoLoc] /\ Goto(p, "user")
  /\ UNCHANGED <<type, pipe, ofile, open, drop, ends>>

CloseFd(p, d) ==
  /\ at[p] = "user" /\ ofile[p][d] # NoFile
  /\ drop' = [drop EXCEPT ![p] = <<ofile[p][d]>>]
  /\ ofile' = [ofile EXCEPT ![p][d] = NoFile] /\ Goto(p, "close")
  /\ UNCHANGED <<fref, type, pipe, open, loc, ends, fpanic>>

\* fork() of p into the slot of q, once memory is there: one descriptor after another.
Fork(p, q) ==
  /\ at[p] = "user" /\ at[q] = "unused"
  /\ at' = [at EXCEPT ![p] = "fork", ![q] = "embryo"]
  /\ loc' = [loc EXCEPT ![p] = [NoLoc EXCEPT !.child = q]]
  /\ UNCHANGED <<fref, type, pipe, ofile, open, drop, ends, fpanic>>

ForkFd(p) ==
  LET d == loc[p].fd f == ofile[p][d] IN
  /\ at[p] = "fork" /\ d \in Fds
  /\ loc' = [loc EXCEPT ![p].fd = d + 1]
  /\ \/ f # NoFile /\ FileDup(f) /\ ofile' = [ofile EXCEPT ![loc[p].child][d] = f]
     \/ f = NoFile /\ UNCHANGED <<fref, fpanic, ofile>>
  /\ UNCHANGED <<type, pipe, open, at, drop, ends>>

ForkDone(p) ==
  /\ at[p] = "fork" /\ loc[p].fd = NOFILE
  /\ at' = [at EXCEPT ![p] = "user", ![loc[p].child] = "user"]
  /\ loc' = [loc EXCEPT ![p] = NoLoc]
  /\ UNCHANGED <<fref, type, pipe, ofile, open, drop, ends, fpanic>>

\* exit() closes its descriptors in turn. It clears each after fileclose(); nobody else
\* reads them, and here each is cleared before.
ExitFd(p) ==
  LET d == Lowest({i \in Fds : ofile[p][i] # NoFile}) IN
  /\ at[p] = "exit" /\ Closed(p) /\ FreeFds(ofile[p]) # Fds
  /\ drop' = [drop EXCEPT ![p] = <<ofile[p][d]>>]
  /\ ofile' = [ofile EXCEPT ![p][d] = NoFile]
  /\ UNCHANGED <<fref, type, pipe, open, at, loc, ends, fpanic>>

ExitDone(p) ==
  /\ at[p] = "exit" /\ Closed(p) /\ FreeFds(ofile[p]) = Fds
  /\ Goto(p, "unused")
  /\ UNCHANGED <<fref, type, pipe, ofile, open, loc, drop, ends, fpanic>>

FileStep(p) ==
  \/ FileClose(p) \/ PipeClose(p) \/ Returned(p)
  \/ PipeFiles(p) \/ NoPage(p) \/ PipeFds(p) \/ \E g \in Pages : PipeMade(p, g)
  \/ OpenFile(p) \/ OpenFd(p) \/ DupRef(p) \/ ForkFd(p) \/ ForkDone(p)
  \/ ExitFd(p) \/ ExitDone(p)

UserStep(p) ==
  \/ Begin(p, "f0") \/ Begin(p, "open")
  \/ (\E q \in Slots \ {p} : at[q] = "user") /\ Begin(p, "exit")
  \/ \E d \in Fds : Dup(p, d) \/ CloseFd(p, d)
  \/ \E q \in Slots : Fork(p, q)

FtableNext == ~fpanic /\ \E p \in Slots : FileStep(p) \/ UserStep(p)

FtableSpec == FtableInit /\ [][FtableNext]_ftableVars

-----------------------------------------------------------------------------
(* Properties                                                              *)

FtableTypeOK ==
  /\ fref \in [Files -> Nat] /\ type \in [Files -> {"none", "inode", "r", "w"}]
  /\ pipe \in [Files -> Pages \cup {NoFile}]
  /\ ofile \in [Slots -> [Fds -> Files \cup {NoFile}]]
  /\ DOMAIN open \subseteq Pages
  /\ \A g \in DOMAIN open : open[g] \subseteq {"r", "w"}
  /\ at \in [Slots -> Places]
  /\ loc \in [Slots -> Locs]
  /\ drop \in [Slots -> Seq(Files)] /\ \A p \in Slots : Len(drop[p]) <= 2
  /\ ends \in [Slots -> (Pages \X {"r", "w"}) \cup {NoEnd}]
  /\ fpanic \in BOOLEAN

\* The references to f: descriptors, files that a pipe() or open() has not yet given
\* a descriptor, and those that still have to be closed.
Descs(f)   == {h \in Slots \X Fds : ofile[h[1]][h[2]] = f}
Locals(f)  == {h \in Slots \X {"f0", "f1"} : at[h[1]] # "dup" /\ loc[h[1]][h[2]] = f}
ToClose(f) == {h \in Slots \X {1, 2} : h[2] \in DOMAIN drop[h[1]] /\ drop[h[1]][h[2]] = f}

\* dup() has a descriptor more than references.
Owed(f) == {p \in Slots : at[p] = "dup" /\ loc[p].f0 = f}

\* The files of an end of a pipe, and the processes that are closing it.
FilesOf(g, end) == {f \in Files : fref[f] > 0 /\ type[f] = end /\ pipe[f] = g}
Closing(g, end) == {p \in Slots : ends[p] = <<g, end>>}
IsOpen(g, end)  == g \in DOMAIN open /\ end \in open[g]

Counted(f) == fref[f] + Cardinality(Owed(f))
                = Cardinality(Descs(f)) + Cardinality(Locals(f)) + Cardinality(ToClose(f))

EndCounted(g, end) == Cardinality(FilesOf(g, end)) + Cardinality(Closing(g, end))
                        = IF IsOpen(g, end) THEN 1 ELSE 0

EndsCounted ==
  /\ ~fpanic
  /\ \A g \in Pages, end \in {"r", "w"} : EndCounted(g, end)
  /\ \A g \in DOMAIN open : open[g] # {}

\* Whatever fails in pipe(), open() or fork(), and in whatever order processes close what
\* they share: an entry of ftable has as many references as there are, so that none is
\* lost and none is used again too early; each open end of a pipe has one file, or one
\* process that is closing it; and a pipe is freed once, with the last of them.
FilesCounted ==
  /\ \A f \in Files : Counted(f)
  /\ EndsCounted

-----------------------------------------------------------------------------
(* The inductive invariant                                                 *)

\* What the locals of a call hold where it stands. Only close() and exit() have files to
\* close; the two descriptors of a dup() have been filled in, in its own table.
LocalsFit(p) ==
  LET l == loc[p] IN
  /\ at[p] \in {"f1", "fd"}    => l.f0 # NoFile /\ l.f1 = NoFile
  /\ at[p] \in {"page", "fds"} => l.f0 # NoFile /\ l.f1 # NoFile
  /\ at[p] = "dup" => /\ l.f0 # NoFile
                      /\ \E c, d \in Fds : c # d /\ ofile[p][c] = l.f0 /\ ofile[p][d] = l.f0
  /\ at[p] \notin {"f1", "fd", "page", "fds", "dup"} => l.f0 = NoFile /\ l.f1 = NoFile
  /\ at[p] \notin {"close", "exit"} => Closed(p)

\* An unused slot has no descriptors. A child belongs to one fork(), and has none of the
\* descriptors that the loop has not come to.
TablesFit(p) ==
  /\ at[p] = "unused" => \A d \in Fds : ofile[p][d] = NoFile
  /\ at[p] = "fork" =>
       LET q == loc[p].child IN
       /\ q \in Slots /\ at[q] = "embryo"
       /\ \A d \in Fds : d >= loc[p].fd => ofile[q][d] = NoFile
       /\ \A s \in Slots \ {p} : at[s] = "fork" => loc[s].child # q

\* A file that pipe() or open() has no descriptor for yet is known to nobody else, and has
\* no type before the call gives it one.
Fresh(f) ==
  \A h \in Locals(f) :
    /\ Descs(f) = {} /\ ToClose(f) = {} /\ Locals(f) = {h}
    /\ at[h[1]] # "fds" => type[f] = "none"

\* An entry that is free has no type, and the file of a pipe has a pipe.
EntryFits(f) ==
  /\ fref[f] = 0 => type[f] = "none"
  /\ type[f] \in {"r", "w"} => pipe[f] \in Pages

FtableInv ==
  /\ FtableTypeOK /\ FilesCounted
  /\ \A p \in Slots : LocalsFit(p) /\ TablesFit(p)
  /\ \A f \in Files : Fresh(f) /\ EntryFits(f)
===============================================================================
