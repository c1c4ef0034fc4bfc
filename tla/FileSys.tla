-------------------------------- MODULE FileSys --------------------------------
(***************************************************************************)
(* The inodes, directories and path names of fs.c and the calls of         *)
(* sysfile.c that work on them: open, mkdir, link, unlink, chdir, close.   *)
(*                                                                         *)
(* What a process has still to do in its call is the sequence todo[p] of   *)
(* steps.  A step that takes the lock of an inode waits for it; what the   *)
(* code does from there to the release, or to the next lock it needs, is   *)
(* one action, since the lock keeps everybody else away.  iput() is three: *)
(* its test, freeing the inode, and dropping the reference.                *)
(***************************************************************************)
EXTENDS Integers, Sequences, FiniteSets

CONSTANTS
  Procs,
  NoProc,     \* nobody holds the lock
  Inums,      \* the inode numbers of the disk
  ROOTINO,
  Names,      \* the names files are given
  Calls,      \* the calls that each process makes
  MaxLinks    \* bound: link() of an inode with fewer links only

NoIno     == 0
AllNames == Names \cup {".", ".."}

\* The names of a path from where it starts; "/" is in front of one from the root.
Elems(s) == IF Head(s) = "/" THEN Tail(s) ELSE s

\* A path is not empty, and a call has the paths that it needs.
IsPath(s) == s # <<>> /\ Elems(s) \in Seq(AllNames)
IsCall(c) ==
  /\ c.op \in {"open", "create", "mkdir", "unlink", "link", "chdir"} /\ IsPath(c.path)
  /\ c.op = "link" => IsPath(c.new)

ASSUME FileSysAssumption ==
  /\ IsFiniteSet(Procs) /\ NoProc \notin Procs
  /\ Inums \subseteq Nat \ {NoIno} /\ ROOTINO \in Inums /\ MaxLinks \in Nat
  /\ Names \cap {".", "..", "/"} = {}
  /\ \A p \in Procs : \A c \in Calls[p] : IsCall(c)

VARIABLES
  disk,       \* disk: type and nlink of each inode
  ents,       \* disk: the entries of each directory
  ref,        \* icache: references to an inode, 0 when it is not cached
  valid,      \* icache: mem has been read from disk
  mem,        \* icache: the copy of disk
  lock,       \* icache: who holds the sleep lock of an inode
  cwd,        \* the current directory of a process
  fd,         \* the inode a process has open; a process has one descriptor
  call,       \* the arguments of its call
  path,       \* what namex() has still to look up
  todo,       \* what it has still to do
  panic       \* the reason the machine has stopped

diskVars == <<disk, ents>>
memVars  == <<ref, valid, mem>>
userVars == <<cwd, fd, call>>
vars     == <<diskVars, memVars, lock, userVars, path, todo, panic>>

Free == [type |-> "free", nlink |-> 0]

NoEnts == [nm \in AllNames |-> NoIno]

\* The file system of mkfs has a root directory; every process starts in it.
Init ==
  /\ disk  = [i \in Inums |-> IF i = ROOTINO THEN [type |-> "dir", nlink |-> 1] ELSE Free]
  /\ ents  = [i \in Inums |-> IF i = ROOTINO
                                THEN [NoEnts EXCEPT !["."] = i, ![".."] = i] ELSE NoEnts]
  /\ ref   = [i \in Inums |-> IF i = ROOTINO THEN Cardinality(Procs) ELSE 0]
  /\ valid = [i \in Inums |-> FALSE]
  /\ mem   = [i \in Inums |-> Free]
  /\ lock  = [i \in Inums |-> NoProc]
  /\ cwd   = [p \in Procs |-> ROOTINO]
  /\ fd    = [p \in Procs |-> NoIno]
  /\ call  = [p \in Procs |-> [op |-> "close"]]
  /\ path  = [p \in Procs |-> <<>>]
  /\ todo  = [p \in Procs |-> <<>>]
  /\ panic = "none"

-----------------------------------------------------------------------------
(* Steps, the inode cache                                                  *)

\* A step and the inodes it works on.
Step(do, i, d) == [do |-> do, ino |-> i, dir |-> d]
ToPut(i)         == Step("put", i, NoIno)

At(p, do) == panic = "none" /\ todo[p] # <<>> /\ Head(todo[p]).do = do
Ino(p)    == Head(todo[p]).ino
Dir(p)    == Head(todo[p]).dir

\* The call of p goes on with the steps s, then with those after its first.
Then(p, s) == todo' = [todo EXCEPT ![p] = s \o Tail(@)]

Unlocked(i) == lock[i] = NoProc

\* iget() of i: a new entry of the cache is not valid.
IgetRef(c, i) == [c EXCEPT ![i] = @ + 1]
IgetValid(i)  == IF ref[i] = 0 THEN [valid EXCEPT ![i] = FALSE] ELSE valid
Iget(i) == ref' = IgetRef(ref, i) /\ valid' = IgetValid(i)

\* What ilock() has in memory when it returns, and what it panics about.
Info(i)   == IF valid[i] THEN mem[i] ELSE disk[i]
NoType(i) == Info(i).type = "free"

\* ilock() fills the cache.
Loaded(i) == [mem EXCEPT ![i] = Info(i)]
NowValid(v, i) == [v EXCEPT ![i] = TRUE]

\* ilock() of i, and a change to it with iupdate().
Update(i, new) ==
  /\ mem'   = [mem EXCEPT ![i] = new]
  /\ disk'  = [disk EXCEPT ![i] = new]

AddLinks(i, k) == [Info(i) EXCEPT !.nlink = @ + k]

-----------------------------------------------------------------------------
(* namex()                                                                 *)

Start(p, s) == IF Head(s) = "/" THEN ROOTINO ELSE cwd[p]
Name(p)     == Head(path[p])

\* create(), unlink() and the new name of link() look for the parent.
WalkFor(op) == IF op \in {"create", "mkdir", "unlink"} THEN "walkp" ELSE "walk"

\* A call with a path: begin_op(), and the head of namex().
Call(p, c) ==
  /\ panic = "none" /\ todo[p] = <<>>
  /\ call' = [call EXCEPT ![p] = c]
  /\ path' = [path EXCEPT ![p] = Elems(c.path)]
  /\ todo' = [todo EXCEPT ![p] = <<Step(WalkFor(c.op), Start(p, c.path), NoIno)>>]
  /\ Iget(Start(p, c.path))
  /\ UNCHANGED <<diskVars, mem, lock, cwd, fd, panic>>

\* The last element of the path has been looked up.
WalkEnd(p) ==
  /\ At(p, "walk") /\ path[p] = <<>>
  /\ Then(p, <<Step(call[p].op, Ino(p), NoIno)>>)
  /\ UNCHANGED <<diskVars, memVars, lock, userVars, path, panic>>

\* A link() whose new name cannot be made takes its count back.
Fail(p) == IF Dir(p) = NoIno THEN <<>> ELSE <<Step("undo", Dir(p), NoIno)>>

\* There is no parent: the path was "/".
NoParent(p) ==
  /\ At(p, "walkp") /\ path[p] = <<>>
  /\ Then(p, <<ToPut(Ino(p))>> \o Fail(p))
  /\ UNCHANGED <<diskVars, memVars, lock, userVars, path, panic>>

Walking(p) == (At(p, "walk") \/ At(p, "walkp")) /\ path[p] # <<>>

\* One turn of the loop of namex().
WalkStep(p) ==
  LET i == Ino(p)
      kid == ents[i][Name(p)]
      found == Info(i).type = "dir" /\ kid # NoIno
      stop  == Info(i).type = "dir" /\ At(p, "walkp") /\ Len(path[p]) = 1 IN
  /\ Walking(p) /\ Unlocked(i) /\ ~NoType(i)
  /\ mem' = Loaded(i)
  /\ IF stop
       THEN /\ Then(p, <<IF Dir(p) = NoIno THEN Step(call[p].op, NoIno, i)
                                          ELSE Step("linkadd", Dir(p), i)>>)
            /\ valid' = NowValid(valid, i)
            /\ UNCHANGED <<ref, path>>
     ELSE IF found
       THEN /\ Then(p, <<ToPut(i), [Head(todo[p]) EXCEPT !.ino = kid]>>)
            /\ ref'   = IgetRef(ref, kid)
            /\ valid' = NowValid(IgetValid(kid), i)
            /\ path'  = [path EXCEPT ![p] = Tail(@)]
       ELSE /\ Then(p, <<ToPut(i)>> \o Fail(p))
            /\ valid' = NowValid(valid, i)
            /\ UNCHANGED <<ref, path>>
  /\ UNCHANGED <<diskVars, lock, userVars, panic>>

-----------------------------------------------------------------------------
(* iput()                                                                  *)

LastRef_Any(i) == TRUE
LastRef(i) == ref[i] = 1

\* iput() under the lock: is this the last reference to an inode without names?
PutTest(p) ==
  LET i == Ino(p) IN
  /\ At(p, "put") /\ Unlocked(i)
  /\ IF valid[i] /\ mem[i].nlink = 0 /\ LastRef(i)
       THEN Then(p, <<Step("free", i, NoIno)>>) /\ lock' = [lock EXCEPT ![i] = p]
       ELSE Then(p, <<Step("drop", i, NoIno)>>) /\ UNCHANGED lock
  /\ UNCHANGED <<diskVars, memVars, userVars, path, panic>>

\* itrunc(), type = 0, iupdate(), valid = 0 and the release of the lock.
FreedValid(i) == [valid EXCEPT ![i] = FALSE]

PutFree(p) ==
  LET i == Ino(p) IN
  /\ At(p, "free")
  /\ Update(i, [mem[i] EXCEPT !.type = "free"])
  /\ ents'  = [ents EXCEPT ![i] = NoEnts]
  /\ valid' = FreedValid(i)
  /\ lock'  = [lock EXCEPT ![i] = NoProc]
  /\ Then(p, <<Step("drop", i, NoIno)>>)
  /\ UNCHANGED <<ref, userVars, path, panic>>

PutDrop(p) ==
  /\ At(p, "drop")
  /\ ref' = [ref EXCEPT ![Ino(p)] = @ - 1]
  /\ Then(p, <<>>)
  /\ UNCHANGED <<diskVars, valid, mem, lock, userVars, path, panic>>

\* iunlock() of a directory that was locked over an iput().
Unlock(p) ==
  /\ At(p, "unlock")
  /\ lock' = [lock EXCEPT ![Ino(p)] = NoProc]
  /\ Then(p, <<>>)
  /\ UNCHANGED <<diskVars, memVars, userVars, path, panic>>

-----------------------------------------------------------------------------
(* open(), create(), mkdir()                                               *)

\* filealloc() and fdalloc() find a descriptor, or the reference is put.
TakeFd_Leak(p, i) == fd' = [fd EXCEPT ![p] = i] /\ Then(p, <<>>)
TakeFd(p, i) ==
  IF fd[p] = NoIno THEN fd' = [fd EXCEPT ![p] = i] /\ Then(p, <<>>)
                  ELSE UNCHANGED fd /\ Then(p, <<ToPut(i)>>)

\* open() of a file that exists; a directory is not opened for writing.
Open(p) ==
  LET i == Ino(p) IN
  /\ At(p, "open") /\ Unlocked(i) /\ ~NoType(i)
  /\ mem' = Loaded(i) /\ valid' = NowValid(valid, i)
  /\ IF Info(i).type = "dir" /\ call[p].write
       THEN Then(p, <<ToPut(i)>>) /\ UNCHANGED fd
       ELSE TakeFd(p, i)
  /\ UNCHANGED <<diskVars, ref, lock, cwd, call, path, panic>>

\* create() locks the parent and finds the name taken ...
CreateExists(p) ==
  LET d == Dir(p)
      kid == ents[d][Name(p)] IN
  /\ At(p, "create") \/ At(p, "mkdir")
  /\ Unlocked(d) /\ ~NoType(d) /\ kid # NoIno
  /\ mem'   = Loaded(d)
  /\ ref'   = IgetRef(ref, kid)
  /\ valid' = NowValid(IgetValid(kid), d)
  /\ Then(p, <<ToPut(d), Step("exists", kid, NoIno)>>)
  /\ UNCHANGED <<diskVars, lock, userVars, path, panic>>

\* ... and gives the file back if it is one, and was asked for.
Exists(p) ==
  LET i == Ino(p) IN
  /\ At(p, "exists") /\ Unlocked(i) /\ ~NoType(i)
  /\ mem' = Loaded(i) /\ valid' = NowValid(valid, i)
  /\ IF call[p].op = "create" /\ Info(i).type = "file"
       THEN TakeFd(p, i)
       ELSE Then(p, <<ToPut(i)>>) /\ UNCHANGED fd
  /\ UNCHANGED <<diskVars, ref, lock, cwd, call, path, panic>>

\* create() locks the parent and finds the name free: ialloc().  The parent
\* stays locked.
CreateAlloc(p, i) ==
  LET d == Dir(p)
      t == IF call[p].op = "mkdir" THEN "dir" ELSE "file" IN
  /\ At(p, "create") \/ At(p, "mkdir")
  /\ Unlocked(d) /\ ~NoType(d) /\ ents[d][Name(p)] = NoIno
  /\ disk[i].type = "free"
  /\ disk'  = [disk EXCEPT ![i] = [type |-> t, nlink |-> 0]]
  /\ mem'   = Loaded(d)
  /\ ref'   = IgetRef(ref, i)
  /\ valid' = NowValid(IgetValid(i), d)
  /\ lock'  = [lock EXCEPT ![d] = p]
  /\ Then(p, <<Step("fill", i, d)>>)
  /\ UNCHANGED <<ents, userVars, path, panic>>

\* create() locks the new inode, makes its entries, and releases the parent,
\* but not the new inode.
Fill(p) ==
  LET i == Ino(p)
      d == Dir(p)
      isdir == call[p].op = "mkdir"
      new == [Info(i) EXCEPT !.nlink = 1]
      dnew == IF isdir THEN AddLinks(d, 1) ELSE Info(d) IN
  /\ At(p, "fill") /\ Unlocked(i) /\ ~NoType(i)
  /\ mem'   = [mem EXCEPT ![i] = new, ![d] = dnew]
  /\ disk'  = [disk EXCEPT ![i] = new, ![d] = dnew]
  /\ valid' = NowValid(valid, i)
  /\ ents'  = [ents EXCEPT ![i] = IF isdir THEN [NoEnts EXCEPT !["."] = i, ![".."] = d]
                                           ELSE @,
                           ![d][Name(p)] = i]
  /\ lock'  = [lock EXCEPT ![d] = NoProc, ![i] = p]
  /\ Then(p, <<ToPut(d), Step("finish", i, NoIno)>>)
  /\ UNCHANGED <<ref, userVars, path, panic>>

\* The caller of create() releases the new inode; open() keeps a reference.
Finish(p) ==
  LET i == Ino(p) IN
  /\ At(p, "finish")
  /\ lock' = [lock EXCEPT ![i] = NoProc]
  /\ IF call[p].op = "create" THEN TakeFd(p, i)
                              ELSE Then(p, <<ToPut(i)>>) /\ UNCHANGED fd
  /\ UNCHANGED <<diskVars, memVars, cwd, call, path, panic>>

\* close() of the last reference to the struct file.
Close(p) ==
  /\ panic = "none" /\ todo[p] = <<>> /\ fd[p] # NoIno
  /\ call' = [call EXCEPT ![p] = [op |-> "close"]]
  /\ todo' = [todo EXCEPT ![p] = <<ToPut(fd[p])>>]
  /\ fd'   = [fd EXCEPT ![p] = NoIno]
  /\ UNCHANGED <<diskVars, memVars, lock, cwd, path, panic>>

-----------------------------------------------------------------------------
(* unlink(), link(), chdir()                                               *)

\* "Cannot unlink . or ..".
Removable_Any(nm) == TRUE
Removable(nm) == nm \notin {".", ".."}

\* unlink() locks the parent and finds nothing that it may remove ...
UnlinkBad(p) ==
  LET d == Dir(p) IN
  /\ At(p, "unlink") /\ Unlocked(d) /\ ~NoType(d)
  /\ ~Removable(Name(p)) \/ ents[d][Name(p)] = NoIno
  /\ mem' = Loaded(d) /\ valid' = NowValid(valid, d)
  /\ Then(p, <<ToPut(d)>>)
  /\ UNCHANGED <<diskVars, ref, lock, userVars, path, panic>>

\* ... or an entry, and keeps the parent locked.
Unlink(p) ==
  LET d == Dir(p)
      kid == ents[d][Name(p)] IN
  /\ At(p, "unlink") /\ Unlocked(d) /\ ~NoType(d)
  /\ Removable(Name(p)) /\ kid # NoIno
  /\ mem'   = Loaded(d)
  /\ ref'   = IgetRef(ref, kid)
  /\ valid' = NowValid(IgetValid(kid), d)
  /\ lock'  = [lock EXCEPT ![d] = p]
  /\ Then(p, <<Step("erase", kid, d)>>)
  /\ UNCHANGED <<diskVars, userVars, path, panic>>

IsDirEmpty(i) == \A nm \in Names : ents[i][nm] = NoIno

\* What follows the put of an inode that is done with its parent d locked.
WithParent(i, d) == <<ToPut(i), Step("unlock", d, NoIno), ToPut(d)>>

\* A directory that is not empty stays; it is put with its parent locked.
NotEmpty(p) ==
  LET i == Ino(p)
      d == Dir(p) IN
  /\ At(p, "erase") /\ Unlocked(i) /\ ~NoType(i)
  /\ Info(i).nlink >= 1
  /\ Info(i).type = "dir" /\ ~IsDirEmpty(i)
  /\ mem' = Loaded(i) /\ valid' = NowValid(valid, i)
  /\ Then(p, WithParent(i, d))
  /\ UNCHANGED <<diskVars, ref, lock, userVars, path, panic>>

\* A directory that goes takes the ".." away that its parent was counted for.
ParentLeft(i, d) == IF Info(i).type = "dir" THEN AddLinks(d, -1) ELSE Info(d)

\* The entry is erased and the parent released, but not the inode.
EraseName(p) ==
  LET i == Ino(p)
      d == Dir(p)
      dnew == ParentLeft(i, d) IN
  /\ At(p, "erase") /\ Unlocked(i) /\ ~NoType(i)
  /\ Info(i).nlink >= 1
  /\ ~(Info(i).type = "dir" /\ ~IsDirEmpty(i))
  /\ mem'   = [mem EXCEPT ![i] = Info(i), ![d] = dnew]
  /\ disk'  = [disk EXCEPT ![d] = dnew]
  /\ valid' = NowValid(valid, i)
  /\ ents'  = [ents EXCEPT ![d][Name(p)] = NoIno]
  /\ lock'  = [lock EXCEPT ![d] = NoProc, ![i] = p]
  /\ Then(p, <<ToPut(d), Step("dropname", i, NoIno)>>)
  /\ UNCHANGED <<ref, userVars, path, panic>>

\* The inode has one name less.
DropName(p) ==
  LET i == Ino(p) IN
  /\ At(p, "dropname")
  /\ Update(i, AddLinks(i, -1))
  /\ lock' = [lock EXCEPT ![i] = NoProc]
  /\ Then(p, <<ToPut(i)>>)
  /\ UNCHANGED <<ents, ref, valid, userVars, path, panic>>

\* link(): the old name must not be a directory; the count goes up first.
LinkCount_Later(i) == Info(i)
LinkCount(i) == AddLinks(i, 1)

Link(p) ==
  LET i == Ino(p)
      s == Start(p, call[p].new) IN
  /\ At(p, "link") /\ Unlocked(i) /\ ~NoType(i)
  /\ Info(i).nlink < MaxLinks
  /\ IF Info(i).type = "dir"
       THEN /\ mem' = Loaded(i) /\ valid' = NowValid(valid, i)
            /\ Then(p, <<ToPut(i)>>)
            /\ UNCHANGED <<disk, ref, path>>
       ELSE /\ Update(i, LinkCount(i))
            /\ ref'   = IgetRef(ref, s)
            /\ valid' = NowValid(IgetValid(s), i)
            /\ path'  = [path EXCEPT ![p] = Elems(call[p].new)]
            /\ Then(p, <<Step("walkp", s, i)>>)
  /\ UNCHANGED <<ents, lock, userVars, panic>>

\* dirlink(): the name is taken; its inode is put with the parent locked.
LinkExists(p) ==
  LET d == Dir(p)
      kid == ents[d][Name(p)] IN
  /\ At(p, "linkadd") /\ Unlocked(d) /\ ~NoType(d) /\ kid # NoIno
  /\ mem'   = Loaded(d)
  /\ ref'   = IgetRef(ref, kid)
  /\ valid' = NowValid(IgetValid(kid), d)
  /\ lock'  = [lock EXCEPT ![d] = p]
  /\ Then(p, WithParent(kid, d) \o <<Step("undo", Ino(p), NoIno)>>)
  /\ UNCHANGED <<diskVars, userVars, path, panic>>

\* dirlink(): the new name is entered.
LinkAdd(p) ==
  LET d == Dir(p) IN
  /\ At(p, "linkadd") /\ Unlocked(d) /\ ~NoType(d) /\ ents[d][Name(p)] = NoIno
  /\ mem' = Loaded(d) /\ valid' = NowValid(valid, d)
  /\ ents' = [ents EXCEPT ![d][Name(p)] = Ino(p)]
  /\ Then(p, <<ToPut(d), ToPut(Ino(p))>>)
  /\ UNCHANGED <<disk, ref, lock, userVars, path, panic>>

\* The end of link() that has failed.
Undo(p) ==
  LET i == Ino(p) IN
  /\ At(p, "undo") /\ Unlocked(i) /\ ~NoType(i)
  /\ Update(i, AddLinks(i, -1)) /\ valid' = NowValid(valid, i)
  /\ Then(p, <<ToPut(i)>>)
  /\ UNCHANGED <<ents, ref, lock, userVars, path, panic>>

\* chdir() puts the old directory before it takes the new one.
Chdir(p) ==
  LET i == Ino(p) IN
  /\ At(p, "chdir") /\ Unlocked(i) /\ ~NoType(i)
  /\ mem' = Loaded(i) /\ valid' = NowValid(valid, i)
  /\ Then(p, IF Info(i).type = "dir" THEN <<ToPut(cwd[p]), Step("setcwd", i, NoIno)>>
                                     ELSE <<ToPut(i)>>)
  /\ UNCHANGED <<diskVars, ref, lock, userVars, path, panic>>

SetCwd(p) ==
  /\ At(p, "setcwd")
  /\ cwd' = [cwd EXCEPT ![p] = Ino(p)]
  /\ Then(p, <<>>)
  /\ UNCHANGED <<diskVars, memVars, lock, fd, call, path, panic>>

-----------------------------------------------------------------------------
(* panic()                                                                 *)

\* The lock that a step needs: NoIno if it needs none.
Wants(p) ==
  IF todo[p] = <<>> THEN NoIno
  ELSE IF Head(todo[p]).do \in {"create", "mkdir", "unlink", "linkadd"} THEN Dir(p)
  ELSE IF Head(todo[p]).do \in {"put", "open", "exists", "fill", "erase", "link",
                                "undo", "chdir"} \/ Walking(p) THEN Ino(p)
  ELSE NoIno

\* What p panics about: ilock() of an inode that has been freed, ialloc() when
\* there is no inode, unlink() of an inode that has no name.
Panics(p) ==
  {why \in {"ilock: no type", "ialloc: no inodes", "unlink: nlink < 1"} :
     LET i == Wants(p) IN
     /\ i # NoIno /\ ~At(p, "put") /\ Unlocked(i)
     /\ \/ why = "ilock: no type" /\ NoType(i)
        \/ /\ why = "ialloc: no inodes" /\ ~NoType(i)
           /\ At(p, "create") \/ At(p, "mkdir")
           /\ ents[i][Name(p)] = NoIno
           /\ \A j \in Inums : disk[j].type # "free"
        \/ /\ why = "unlink: nlink < 1" /\ ~NoType(i)
           /\ At(p, "erase") /\ Info(i).nlink < 1}

Panic(p) ==
  /\ panic = "none"
  /\ \E why \in Panics(p) : panic' = why
  /\ UNCHANGED <<diskVars, memVars, lock, userVars, path, todo>>

-----------------------------------------------------------------------------
Kernel(p) ==
  \/ WalkEnd(p) \/ NoParent(p) \/ WalkStep(p)
  \/ PutTest(p) \/ PutFree(p) \/ PutDrop(p) \/ Unlock(p)
  \/ Open(p) \/ CreateExists(p) \/ Exists(p) \/ Fill(p) \/ Finish(p)
  \/ \E i \in Inums : CreateAlloc(p, i)
  \/ UnlinkBad(p) \/ Unlink(p) \/ NotEmpty(p) \/ EraseName(p) \/ DropName(p)
  \/ Link(p) \/ LinkExists(p) \/ LinkAdd(p) \/ Undo(p)
  \/ Chdir(p) \/ SetCwd(p)
  \/ Panic(p)

User(p) == Close(p) \/ \E c \in Calls[p] : Call(p, c)

Next == \E p \in Procs : Kernel(p) \/ User(p)

Spec == Init /\ [][Next]_vars

-----------------------------------------------------------------------------
(* Properties                                                              *)

Steps(p) == {todo[p][k] : k \in DOMAIN todo[p]}

StepNames ==
  {"walk", "walkp", "put", "free", "drop", "unlock", "open", "create", "mkdir", "exists",
   "fill", "finish", "unlink", "erase", "dropname", "link", "linkadd", "undo", "chdir",
   "setcwd"}

StepType == [do : StepNames, ino : Inums \cup {NoIno}, dir : Inums \cup {NoIno}]

InodeType == [type : {"free", "dir", "file"}, nlink : Int]

TypeOK ==
  /\ disk \in [Inums -> InodeType] /\ mem \in [Inums -> InodeType]
  /\ ents \in [Inums -> [AllNames -> Inums \cup {NoIno}]]
  /\ ref \in [Inums -> Nat] /\ valid \in [Inums -> BOOLEAN]
  /\ lock \in [Inums -> Procs \cup {NoProc}]
  /\ cwd \in [Procs -> Inums] /\ fd \in [Procs -> Inums \cup {NoIno}]
  /\ path \in [Procs -> Seq(AllNames)] /\ todo \in [Procs -> Seq(StepType)]
  /\ DOMAIN call = Procs /\ \A p \in Procs : call[p].op = "close" \/ IsCall(call[p])

\* The references that p has to i: its steps own theirs, iput(cwd) in chdir()
\* takes over that of the old directory.
StepRefs(q, i) ==
  {x \in (DOMAIN q) \X {"ino", "dir"} : q[x[1]][x[2]] = i /\ q[x[1]].do # "unlock"}

References(p, i) ==
  StepRefs(todo[p], i)
  \cup {f \in {<<0, "cwd">>} : cwd[p] = i /\ \A s \in Steps(p) : s.do # "setcwd"}
  \cup {f \in {<<0, "fd">>} : fd[p] = i}

\* The reference count of an inode (iget(), idup(), iput()) is the number of
\* references that processes have to it: none is leaked by an error path and
\* none is put twice.
RefsCounted ==
  \A i \in Inums :
    ref[i] = Cardinality(UNION {{p} \X References(p, i) : p \in Procs})

\* The lock that a call has until it is past a step.
HeldFor(s) ==
  IF s.do \in {"free", "finish", "dropname", "unlock"} THEN s.ino
  ELSE IF s.do \in {"fill", "erase"} THEN s.dir ELSE NoIno

LocksOf(p) == {HeldFor(s) : s \in Steps(p)} \ {NoIno}

\* A lock that a call has taken is one it is going to release: no way out of
\* create(), link() or unlink() leaves an inode locked.
LocksReleased ==
  \A p \in Procs, i \in Inums : lock[i] = p <=> i \in LocksOf(p)

\* Every way out of a call gives back what the call has taken.
NothingLeaked == RefsCounted /\ LocksReleased

\* The inode that is in the cache is the one on the disk (iupdate() after every
\* change, valid cleared when the inode is freed), also when it has been freed
\* and allocated again while another process still had the entry.
CacheCoherent ==
  \A i \in Inums : ref[i] > 0 /\ valid[i] => mem[i] = disk[i]

\* The names of i, and the directories with a name whose ".." it is.
NamesOf(i)   == {dn \in Inums \X Names : ents[dn[1]][dn[2]] = i}
SubdirsOf(i) == {d \in Inums \ {ROOTINO} : ents[d][".."] = i /\ NamesOf(d) # {}}

\* Calls that have added to the count of i and not yet made the name, or
\* erased the name and not yet taken it from the count.
Pending(i) ==
  {p \in Procs : \E s \in Steps(p) :
     \/ s.do = "walkp" /\ s.dir = i
     \/ s.do \in {"linkadd", "undo", "dropname"} /\ s.ino = i}

\* The link count on the disk is never below the names that the inode has, with
\* those that calls under way are about to make or have just erased: iput() of
\* one process cannot free what another still names.  Like NoPanic, this holds while
\* every ".." leads to an inode that is still there.
LinksSuffice ==
  \A i \in Inums :
    disk[i].nlink >= Cardinality(NamesOf(i)) + Cardinality(SubdirsOf(i))
                       + Cardinality(Pending(i))

\* What a process sees of an inode is what is on the disk, and no inode with a name is
\* freed.
InodesSound == CacheCoherent /\ LinksSuffice

\* "Only called when the inode has no links to it (no directory entries
\* referring to it)", fs.c says of itrunc(): an entry refers to an inode that
\* has not been freed.
EntriesAllocated ==
  \A d \in Inums : disk[d].type = "dir" =>
    \A nm \in AllNames : ents[d][nm] # NoIno => disk[ents[d][nm]].type # "free"

\* The machine stops only for want of inodes: no path leads to a freed inode and
\* no unlink() meets one without links.  So it is while every ".." leads to an inode
\* that is still there; where EntriesAllocated fails, a path through ".." panics.
NoPanic == panic \in {"none", "ialloc: no inodes"}

\* p waits for a lock that q has.
WaitsFor(p, q) == Wants(p) # NoIno /\ lock[Wants(p)] = q

\* P is a set of processes each of which waits for one in P.
Stuck(P) == P # {} /\ \A p \in P : \E q \in P : WaitsFor(p, q)

\* The processes that ilock() an inode, other than to put it, never wait in a
\* circle: parents are locked before children, "." and ".." included, and
\* namex() and link() hold no lock when they take the next.
Putting(p) == todo[p] # <<>> /\ Head(todo[p]).do = "put"
LockOrder ==
  \A P \in SUBSET {p \in Procs : ~Putting(p)} : ~Stuck(P)

\* usertests.c makes, links and unlinks one name from two processes "to look for
\* deadlocks": processes never wait for each other's locks in a circle.
NoCircularWait == \A P \in SUBSET Procs : ~Stuck(P)

-----------------------------------------------------------------------------
(* The inductive invariant                                                 *)

\* Steps that are on the way to another; any other step is the last of its call.
Passing == {"put", "free", "drop", "unlock"}

\* What a step works on, and what the call that it belongs to is.
StepFits(p, s) ==
  \/ /\ s.do \in Passing \cup {"exists", "finish", "dropname", "undo", "setcwd"}
     /\ s.ino # NoIno /\ s.dir = NoIno
  \/ /\ s.do = "walk" /\ call[p].op \in {"open", "link", "chdir"}
     /\ s.ino # NoIno /\ s.dir = NoIno
  \/ /\ s.do = "walkp" /\ s.ino # NoIno
     /\ s.dir # NoIno \/ call[p].op \in {"create", "mkdir", "unlink"}
  \/ /\ s.do = call[p].op /\ s.do \in {"open", "link", "chdir"}
     /\ s.ino # NoIno /\ s.dir = NoIno
  \/ /\ s.do = call[p].op /\ s.do \in {"create", "mkdir", "unlink"}
     /\ s.ino = NoIno /\ s.dir # NoIno /\ path[p] # <<>>
  \/ /\ s.do \in {"fill", "erase", "linkadd"}
     /\ s.ino # NoIno /\ s.dir # NoIno /\ path[p] # <<>>

TodoFits ==
  \A p \in Procs : \A k \in DOMAIN todo[p] :
    StepFits(p, todo[p][k]) /\ (k # Len(todo[p]) => todo[p][k].do \in Passing)

\* No two steps of a call release the same lock.
HeldOnce ==
  \A p \in Procs : \A k, l \in DOMAIN todo[p] :
    k # l /\ HeldFor(todo[p][k]) # NoIno => HeldFor(todo[p][k]) # HeldFor(todo[p][l])

\* What is in the cache has not been freed.
CacheFits ==
  \A i \in Inums : ref[i] > 0 /\ valid[i] => mem[i] = disk[i] /\ disk[i].type # "free"

\* The directories and the files that a call has found to be such, and still refers to.
KnownDirs(s)  == IF s.do \in {"create", "mkdir", "unlink", "fill", "erase", "linkadd"}
                 THEN {s.dir} ELSE {}
KnownFiles(s) == IF s.do = "walkp" THEN {s.dir} \ {NoIno}
                 ELSE IF s.do = "linkadd" THEN {s.ino} ELSE {}

\* They stay what they are: nobody frees an inode that another has found.
TypesKept ==
  \A p \in Procs : \A s \in Steps(p) :
    /\ \A i \in KnownDirs(s) : disk[i].type = "dir"
    /\ \A i \in KnownFiles(s) : disk[i].type = "file"
    /\ s.do = "free" =>
         \A q \in Procs : \A t \in Steps(q) : s.ino \notin KnownDirs(t) \cup KnownFiles(t)

\* Only directories have names in them, and an unlink() with the directory locked has the
\* inode that its name is of.
EntsFit ==
  /\ \A i \in Inums : disk[i].type # "dir" => \A nm \in Names : ents[i][nm] = NoIno
  /\ \A p \in Procs : \A s \in Steps(p) :
       s.do = "erase" => Removable(Name(p)) /\ ents[s.dir][Name(p)] = s.ino

\* i has a name in d, or create() is about to give it one.
Under(d, i) ==
  \/ \E nm \in Names : ents[d][nm] = i
  \/ \E p \in Procs : \E s \in Steps(p) : s.do = "fill" /\ s.dir = d /\ s.ino = i

\* Directories are in no circle of names.
NoLoop ==
  \A S \in SUBSET Inums : S # {} => \E d \in S : \A i \in S : ~Under(d, i)

FsInv ==
  /\ TypeOK /\ TodoFits
  /\ HeldOnce /\ LocksReleased /\ RefsCounted
  /\ CacheFits /\ TypesKept /\ EntsFit /\ NoLoop
=============================================================================
