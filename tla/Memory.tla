-------------------------------- MODULE Memory --------------------------------
(***************************************************************************)
(* Physical pages and address spaces: kalloc.c, vm.c, and the calls that   *)
(* build, grow and drop an address space (fork(), growproc(), wait() of    *)
(* proc.c; exec.c), one page at a time, each able to run out of memory.    *)
(***************************************************************************)
EXTENDS Integers, FiniteSets

CONSTANTS
  Users, NoUser, FirstUser,   \* slots of processes, of which init's is one
  NPages,         \* of physical memory
  PGSIZE,
  NPTENTRIES,     \* the pages that one page table maps
  KERNBASE,       \* the end of user memory
  KernelTables,   \* how many page tables the mappings of kmap[] take
  Ends,           \* bound: where the segments of a program end
  Growths         \* bound: arguments of sbrk()

ASSUME MemoryAssumption ==
  /\ NoUser \notin Users /\ FirstUser \in Users
  /\ PGSIZE \in Nat \ {0} /\ NPTENTRIES \in Nat \ {0}
  /\ KERNBASE \in Nat /\ KERNBASE > PGSIZE /\ KERNBASE % PGSIZE = 0
  /\ KernelTables \in Nat /\ NPages \in Nat /\ NPages >= KernelTables + 4
  /\ Ends \subseteq Nat /\ Growths \subseteq Int

Pages  == 1 .. NPages
Index  == 0 .. (KERNBASE \div PGSIZE) - 1      \* of the pages of user memory
Tables == {i \div NPTENTRIES : i \in Index}

PGROUNDUP(n) == ((n + PGSIZE) - 1) \div PGSIZE

\* What an address space consists of: the page directory, which is number 0 of what
\* setupkvm() allocates, and the page tables of the kernel; page tables and
\* pages of user memory.
Parts == ({"kvm"} \X (0 .. KernelTables)) \cup ({"tab"} \X Tables) \cup ({"pg"} \X Index)
Whole == <<"page", 0>>

\* Where the kernel refers to pages: p->pgdir and p->kstack of each process, and
\* the address space and the page (mem) that its call is about to add.
Place == (Users \X {"as", "new"} \X Parts) \cup (Users \X {"kstack", "mem"} \X {Whole})

KernelStack(p) == <<p, "kstack", Whole>>
InHand(p)      == <<p, "mem", Whole>>
Space(p, s)    == {p} \X {s} \X Parts
PageAt(p, s, i)  == <<p, s, <<"pg", i>>>>
TableAt(p, s, t) == <<p, s, <<"tab", t>>>>

VARIABLES
  free,       \* kmem.freelist, as a set
  page,       \* the page at each place; 0 is no page
  mstate, sz, \* of the processes
  kcall       \* where each process is in the kernel: its call, and the loop
              \* variables of the call

pageVars == <<free, page, mstate, sz, kcall>>

NoCall == [at |-> "user", call |-> "", child |-> NoUser, a |-> 0, from |-> 0, to |-> 0]

\* userinit(): a kernel stack and one page of user memory.
FirstPages(l) ==
  CASE l[1] = "kvm" -> 2 + l[2]
    [] l = <<"tab", 0>> -> KernelTables + 3
    [] l = <<"pg", 0>>  -> KernelTables + 4
    [] OTHER -> 0

MemInit ==
  /\ free   = KernelTables + 5 .. NPages
  /\ page   = [pl \in Place |-> IF pl = KernelStack(FirstUser) THEN 1
                                ELSE IF pl \in Space(FirstUser, "as") THEN FirstPages(pl[3])
                                ELSE 0]
  /\ mstate = [p \in Users |-> IF p = FirstUser THEN "user" ELSE "unused"]
  /\ sz     = [p \in Users |-> IF p = FirstUser THEN PGSIZE ELSE 0]
  /\ kcall  = [p \in Users |-> NoCall]

-----------------------------------------------------------------------------
(* kalloc.c, vm.c                                                          *)

\* kalloc() returns some free page.
NewPage == CHOOSE x \in free : TRUE

Kalloc(pl) ==
  /\ page' = [page EXCEPT ![pl] = NewPage]
  /\ free' = free \ {NewPage}

\* The pages at places, and what is left when these are dropped.
PagesIn(S) == {page[pl] : pl \in S} \ {0}
Emptied(S) == [pl \in Place |-> IF pl \in S THEN 0 ELSE page[pl]]

\* The pages from newsz to oldsz, for deallocuvm(); the tables stay.
Beyond(p, s, oldsz, newsz) ==
  {PageAt(p, s, i) : i \in {j \in Index : j >= PGROUNDUP(newsz) /\ j * PGSIZE < oldsz}}

-----------------------------------------------------------------------------
(* Steps of a call                                                         *)

At(p, step) == mstate[p] = "user" /\ kcall[p].at = step
Goto(p, step) == kcall' = [kcall EXCEPT ![p].at = step]

\* The call of p ends without effect. What it was about to add is gone with its locals;
\* given is what it gives back.
Fails(p, given) ==
  LET c == kcall[p].child
      stack == IF kcall[p].call = "fork" THEN {KernelStack(c)} ELSE {}
  IN
  /\ page' = Emptied(given \cup Space(p, "new") \cup {InHand(p)} \cup stack)
  /\ free' = free \cup PagesIn(given) \cup PagesIn(stack)
  /\ mstate' = IF kcall[p].call = "fork" THEN [mstate EXCEPT ![c] = "unused"] ELSE mstate
  /\ kcall' = [kcall EXCEPT ![p] = NoCall]
  /\ UNCHANGED sz

\* fork(): allocproc() ...
Fork(p) ==
  /\ At(p, "user")
  /\ \E c \in Users :
       /\ mstate[c] = "unused"
       /\ mstate' = [mstate EXCEPT ![c] = "embryo"]
       /\ kcall' = [kcall EXCEPT ![p].at = "kstack", ![p].call = "fork", ![p].child = c]
  /\ UNCHANGED <<free, page, sz>>

\* ... with its kernel stack.
Kstack(p) ==
  /\ At(p, "kstack")
  /\ IF free = {} THEN Fails(p, {})
     ELSE /\ Kalloc(KernelStack(kcall[p].child))
          /\ Goto(p, "kvm")
          /\ UNCHANGED <<mstate, sz>>

Exec(p) ==
  /\ At(p, "user")
  /\ kcall' = [kcall EXCEPT ![p].at = "kvm", ![p].call = "exec"]
  /\ UNCHANGED <<free, page, mstate, sz>>

\* setupkvm(): the page directory, then one page table of the kernel after
\* another.
Setupkvm(p) ==
  /\ At(p, "kvm") /\ kcall[p].a <= KernelTables
  /\ IF free = {} THEN Fails(p, Space(p, "new"))
     ELSE /\ Kalloc(<<p, "new", <<"kvm", kcall[p].a>>>>)
          /\ kcall' = [kcall EXCEPT ![p].a = @ + 1]
          /\ UNCHANGED <<mstate, sz>>

KvmReady(p) ==
  LET forks == kcall[p].call = "fork" IN
  /\ At(p, "kvm") /\ kcall[p].a > KernelTables
  /\ kcall' = [kcall EXCEPT ![p].at = IF forks THEN "copy" ELSE "seg",
                            ![p].a = 0, ![p].to = IF forks THEN sz[p] ELSE 0]
  /\ UNCHANGED <<free, page, mstate, sz>>

\* The address space that a call allocates pages for.
Target(p) == IF kcall[p].call = "sbrk" THEN "as" ELSE "new"

\* kalloc() or mappages() fails: exec() and fork() drop the whole address space,
\* allocuvm() gives back the pages of this call.
GivenBack_Lost(p) ==
  IF kcall[p].call = "sbrk" THEN Beyond(p, "as", kcall[p].to, kcall[p].from)
  ELSE Space(p, "new")
GivenBack(p) ==
  {InHand(p)} \cup IF kcall[p].call = "sbrk" THEN Beyond(p, "as", kcall[p].to, kcall[p].from)
                   ELSE Space(p, "new")

\* A page for the next address of allocuvm() or copyuvm() ...
AllocPage(p) ==
  /\ At(p, "alloc") \/ At(p, "copy")
  /\ kcall[p].a * PGSIZE < kcall[p].to
  /\ IF free = {} THEN Fails(p, GivenBack(p))
     ELSE /\ Kalloc(InHand(p))
          /\ Goto(p, IF kcall[p].at = "copy" THEN "mapcopy" ELSE "map")
          /\ UNCHANGED <<mstate, sz>>

\* ... and mappages(), which may need a page for the page table.
MapPage(p) ==
  LET i == kcall[p].a
      pl == PageAt(p, Target(p), i)
      t == TableAt(p, Target(p), i \div NPTENTRIES)
      Moved == [page EXCEPT ![pl] = page[InHand(p)], ![InHand(p)] = 0]
  IN
  /\ At(p, "map") \/ At(p, "mapcopy")
  /\ IF page[t] = 0 /\ free = {} THEN Fails(p, GivenBack(p))
     ELSE /\ IF page[t] # 0
             THEN page' = Moved /\ UNCHANGED free
             ELSE page' = [Moved EXCEPT ![t] = NewPage] /\ free' = free \ {NewPage}
          /\ kcall' = [kcall EXCEPT ![p].at = IF @ = "mapcopy" THEN "copy" ELSE "alloc",
                                    ![p].a = i + 1]
          /\ UNCHANGED <<mstate, sz>>

\* allocuvm(): the tests before the loop.
Allocuvm(p, call, oldsz, newsz) ==
  /\ newsz < KERNBASE
  /\ kcall' = [kcall EXCEPT ![p].call = call, ![p].at = "alloc", ![p].a = PGROUNDUP(oldsz),
                            ![p].from = oldsz, ![p].to = newsz]

\* The loop of allocuvm() or copyuvm() is over.
Allocated(p, call) ==
  At(p, "alloc") /\ kcall[p].call = call /\ kcall[p].a * PGSIZE >= kcall[p].to

\* The address space that the call of p has made becomes that of q.
Handed(p, q) ==
  [pl \in Place |-> IF pl \in Space(q, "as") THEN page[<<p, "new", pl[3]>>]
                    ELSE IF pl \in Space(p, "new") THEN 0 ELSE page[pl]]

-----------------------------------------------------------------------------
(* fork(), from copyuvm() to the end                                       *)

Forked(p) ==
  LET c == kcall[p].child IN
  /\ At(p, "copy") /\ kcall[p].a * PGSIZE >= kcall[p].to
  /\ page' = Handed(p, c)
  /\ sz' = [sz EXCEPT ![c] = sz[p]]
  /\ mstate' = [mstate EXCEPT ![c] = "user"]
  /\ kcall' = [kcall EXCEPT ![p] = NoCall]
  /\ UNCHANGED free

-----------------------------------------------------------------------------
(* exec()                                                                  *)

\* The next segment; sz is kcall[p].to.
Segment(p) ==
  /\ At(p, "seg")
  /\ \E end \in Ends : end > kcall[p].to /\ Allocuvm(p, "exec", kcall[p].to, end)
  /\ UNCHANGED <<free, page, mstate, sz>>

SegmentDone(p) ==
  /\ Allocated(p, "exec")
  /\ Goto(p, "seg")
  /\ UNCHANGED <<free, page, mstate, sz>>

\* The guard page and the stack.
Stack(p) ==
  LET top == PGROUNDUP(kcall[p].to) * PGSIZE IN
  /\ At(p, "seg")
  /\ Allocuvm(p, "stack", top, top + 2 * PGSIZE)
  /\ UNCHANGED <<free, page, mstate, sz>>

\* A header or a segment that cannot be read, sizes beyond KERNBASE, arguments
\* that do not fit.
Bad(p) ==
  /\ At(p, "seg") \/ Allocated(p, "stack")
  /\ Fails(p, Space(p, "new"))

Commit(p) ==
  /\ Allocated(p, "stack")
  /\ page' = Handed(p, p)
  /\ free' = free \cup PagesIn(Space(p, "as"))
  /\ sz' = [sz EXCEPT ![p] = kcall[p].to]
  /\ kcall' = [kcall EXCEPT ![p] = NoCall]
  /\ UNCHANGED mstate

-----------------------------------------------------------------------------
(* growproc()                                                              *)

Grow(p, n) ==
  /\ At(p, "user") /\ n > 0
  /\ Allocuvm(p, "sbrk", sz[p], sz[p] + n)
  /\ UNCHANGED <<free, page, mstate, sz>>

GrowDone(p) ==
  /\ Allocated(p, "sbrk")
  /\ sz' = [sz EXCEPT ![p] = kcall[p].to]
  /\ kcall' = [kcall EXCEPT ![p] = NoCall]
  /\ UNCHANGED <<free, page, mstate>>

\* Without any memory left growproc() returns -1 before it sets sz: the process
\* faults at its next instruction (init does not do this).
Shrink(p, n) ==
  LET newsz == sz[p] + n
      given == Beyond(p, "as", sz[p], newsz)
  IN
  /\ At(p, "user") /\ n < 0 /\ newsz >= 0
  /\ newsz = 0 => p # FirstUser
  /\ page' = Emptied(given) /\ free' = free \cup PagesIn(given)
  /\ IF newsz = 0 THEN Goto(p, "fault") /\ UNCHANGED sz
                  ELSE sz' = [sz EXCEPT ![p] = newsz] /\ UNCHANGED kcall
  /\ UNCHANGED mstate

-----------------------------------------------------------------------------
(* exit() and the part of wait() that frees; another process stands for the *)
(* parent                                                                  *)

ExitProc(p) ==
  /\ At(p, "user") \/ At(p, "fault")
  /\ p # FirstUser
  /\ mstate' = [mstate EXCEPT ![p] = "zombie"]
  /\ UNCHANGED <<free, page, sz, kcall>>

Wait(p, c) ==
  LET given == Space(c, "as") \cup {KernelStack(c)} IN
  /\ At(p, "user") /\ c # p
  /\ mstate[c] = "zombie"
  /\ page' = Emptied(given) /\ free' = free \cup PagesIn(given)
  /\ mstate' = [mstate EXCEPT ![c] = "unused"]
  /\ sz' = [sz EXCEPT ![c] = 0]
  /\ kcall' = [kcall EXCEPT ![c] = NoCall]

MemNext ==
  \E p \in Users :
    \/ Fork(p) \/ Kstack(p) \/ Exec(p) \/ Setupkvm(p) \/ KvmReady(p)
    \/ AllocPage(p) \/ MapPage(p) \/ Forked(p)
    \/ Segment(p) \/ SegmentDone(p) \/ Stack(p) \/ Bad(p) \/ Commit(p)
    \/ \E n \in Growths : Grow(p, n) \/ Shrink(p, n)
    \/ GrowDone(p) \/ ExitProc(p) \/ \E c \in Users : Wait(p, c)

MemSpec == MemInit /\ [][MemNext]_pageVars

-----------------------------------------------------------------------------
(* Properties                                                              *)

\* Types of the variables.
CallType ==
  [at : {"user", "fault", "kstack", "kvm", "copy", "mapcopy", "seg", "alloc", "map"},
   call : {"", "fork", "exec", "stack", "sbrk"}, child : Users \cup {NoUser},
   a : Nat, from : Nat, to : Nat]

MemTypeOK ==
  /\ free \subseteq Pages
  /\ page \in [Place -> Pages \cup {0}]
  /\ mstate \in [Users -> {"unused", "embryo", "user", "zombie"}]
  /\ sz \in [Users -> 0 .. KERNBASE - 1]
  /\ kcall \in [Users -> CallType]

\* On every path through fork(), exec(), sbrk(), exit() and wait(), the error
\* paths too, each page is free or in one place: none is lost, free while somebody
\* has it, or in two address spaces.
PlacesOf(x) == {pl \in Place : page[pl] = x}

PagesPartitioned ==
  \A x \in Pages : IF x \in free THEN PlacesOf(x) = {}
                   ELSE \E pl \in PlacesOf(x) : PlacesOf(x) = {pl}

\* sz and the page table agree in a process that is not growing, so that fork()
\* finds every page that it copies; and mappages() never maps an address again.
SizeMapped ==
  \A p \in Users : mstate[p] = "user" =>
    /\ kcall[p].call # "sbrk" /\ kcall[p].at # "fault"
         => \A i \in Index : page[PageAt(p, "as", i)] # 0 <=> i * PGSIZE < sz[p]
    /\ kcall[p].at \in {"map", "mapcopy"} => page[PageAt(p, Target(p), kcall[p].a)] = 0

\* Every page has one owner, and sizes and page tables agree.
MemorySound == PagesPartitioned /\ SizeMapped

-----------------------------------------------------------------------------
(* The inductive invariant                                                 *)

NoPages(S) == \A pl \in S : page[pl] = 0

\* Where a call of p may be.
StepOf(p) ==
  LET c == kcall[p] IN
  /\ c.at = "user" => c = NoCall
  /\ c.at = "fault" => c.call = ""
  /\ c.at = "kstack" => c.call = "fork" /\ c.a = 0
  /\ c.at = "kvm" => c.call \in {"fork", "exec"} /\ c.a <= KernelTables + 1
  /\ c.at \in {"copy", "mapcopy"} => c.call = "fork" /\ c.to = sz[p]
  /\ c.at = "seg" => c.call = "exec"
  /\ c.at \in {"alloc", "map"} => c.call \in {"exec", "stack", "sbrk"}
  /\ c.call = "sbrk" => c.from = sz[p] /\ PGROUNDUP(c.from) <= c.a
  /\ c.to < KERNBASE
  /\ mstate[p] # "user" => c.at \in {"user", "fault"}
  /\ mstate[p] \in {"unused", "embryo"} => c.at = "user"

\* Where there are no pages: in a slot without a process, in a call that has not allocated
\* any yet.
Vacant(p) ==
  LET c == kcall[p] IN
  /\ mstate[p] \in {"unused", "embryo"} => NoPages(Space(p, "as"))
  /\ mstate[p] = "unused" => page[KernelStack(p)] = 0
  /\ c.at = "kstack" => page[KernelStack(c.child)] = 0
  /\ c.at \in {"user", "fault", "kstack"} \/ c.call = "sbrk" => NoPages(Space(p, "new"))
  /\ page[InHand(p)] # 0 <=> c.at \in {"map", "mapcopy"}
  /\ c.at = "kvm" =>
       \A l \in Parts : l[1] # "kvm" \/ l[2] >= c.a => page[<<p, "new", l>>] = 0

\* What is mapped: the pages of a process below its size, those of a loop below its variable.
MappedTo(p, s, n) == \A i \in Index : page[PageAt(p, s, i)] # 0 <=> i < n

Mapped(p) ==
  LET c == kcall[p] IN
  /\ mstate[p] = "user" /\ c.at # "fault" /\ c.call # "sbrk"
       => MappedTo(p, "as", PGROUNDUP(sz[p]))
  /\ c.at = "seg" => MappedTo(p, "new", PGROUNDUP(c.to))
  /\ c.at \in {"alloc", "map", "copy", "mapcopy"} =>
       /\ MappedTo(p, Target(p), c.a)
       /\ c.a <= PGROUNDUP(c.to)
       /\ c.at \in {"map", "mapcopy"} => c.a < PGROUNDUP(c.to)

\* A slot that is being made belongs to one fork().
ChildInv ==
  \A p \in Users : kcall[p].call = "fork" =>
    /\ kcall[p].child \in Users /\ mstate[kcall[p].child] = "embryo"
    /\ \A q \in Users : kcall[q].call = "fork" /\ kcall[q].child = kcall[p].child => q = p

UsersInv == \A p \in Users : StepOf(p) /\ Vacant(p) /\ Mapped(p)

MemInv == MemTypeOK /\ PagesPartitioned /\ ChildInv /\ UsersInv
===============================================================================
