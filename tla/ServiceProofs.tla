---------------------------- MODULE ServiceProofs ----------------------------
(***************************************************************************)
(* Proofs about the modules that stand beside the process table.  Memory:  *)
(* every page of physical memory has one owner, and what is mapped agrees  *)
(* with the sizes, whatever fails, for any number of processes and pages   *)
(* and any size of a page.  CpuBound: Dijkstra's algorithm as the program  *)
(* runs it ends with the distances of shortest paths, for every number of  *)
(* vertices and all weights.  SleepLock, Spinlock, Ticks, for every number *)
(* of processes, CPUs, threads and locks: the sleep lock is a lock, and no *)
(* wakeup of it is lost; spin locks never wait for their own CPU, and      *)
(* interrupts are on and off where they should; a process that sleeps on   *)
(* the clock sleeps as long as it has asked for.                           *)
(***************************************************************************)
EXTENDS Memory, CpuBound, SleepLock, Spinlock, Ticks, FiniteSetTheorems, TLAPS

-----------------------------------------------------------------------------
(* Pages and sizes                                                         *)

\* A product is strictly monotonic.
LEMMA ProductLess ==
  ASSUME NEW B \in Nat \ {0}, NEW q \in Int, NEW r \in Int, q < r
  PROVE  B * q + B <= B * r
<1> DEFINE d == r - (q + 1)
<1>1. d \in Nat
  OBVIOUS
<1>2. r = (q + 1) + d
  OBVIOUS
<1> HIDE DEF d
<1>3. B * d >= 0
  BY <1>1, SMT
<1>4. B * r = B * q + B + B * d
  BY <1>1, <1>2, SMT
<1> QED
  BY <1>1, <1>3, <1>4

\* PGROUNDUP(z) pages are those that begin below z.
LEMMA Rounding ==
  ASSUME NEW z \in Nat
  PROVE  /\ PGROUNDUP(z) \in Nat
         /\ \A i \in Int : i * PGSIZE < z <=> i < PGROUNDUP(z)
<1> DEFINE B == PGSIZE
           m == (z + B) - 1
           q == m \div B
           r == m % B
<1>1. B \in Nat \ {0} /\ m \in Nat
  BY MemoryAssumption
<1> HIDE DEF B
<1>2. r \in 0 .. B - 1
  BY <1>1, SMT
<1>3. q \in Int
  BY <1>1, SMT
<1>4. m = B * q + r
  BY <1>1, SMT
<1>5. PGROUNDUP(z) = q
  BY DEF PGROUNDUP, B
<1> HIDE DEF q, r
<1>6. B * q \in Int /\ B * q >= z /\ B * q < z + B
  BY <1>1, <1>2, <1>3, <1>4 
<1>7. q >= 0
  <2>1. ASSUME q < 0 PROVE FALSE
    <3>1. B * q + B <= B * 0
      BY <1>1, <1>3, <2>1, ProductLess
    <3>2. B * 0 = 0
      BY <1>1
    <3> QED
      BY <3>1, <3>2, <1>1, <1>6
  <2> QED
    BY <2>1, <1>3
<1>8. ASSUME NEW i \in Int
      PROVE  i * B < z <=> i < q
  <2>1. B * i \in Int /\ i * B = B * i
    BY <1>1
  <2>2. CASE i < q
    <3>1. B * i + B <= B * q
      BY <1>1, <1>3, <2>2, ProductLess
    <3> QED
      BY <1>1, <1>6, <2>1, <2>2, <3>1
  <2>3. CASE i = q
    BY <1>6, <2>1, <2>3
  <2>4. CASE i > q
    <3>1. B * q + B <= B * i
      BY <1>1, <1>3, <2>4, ProductLess
    <3> QED
      BY <1>1, <1>3, <1>6, <2>1, <2>4, <3>1
  <2> QED
    BY <1>3, <2>2, <2>3, <2>4
<1> QED
  BY <1>3, <1>5, <1>7, <1>8 DEF B

\* The size of user memory in pages.
LEMMA UserPages ==
  /\ (KERNBASE \div PGSIZE) \in Nat
  /\ KERNBASE = PGSIZE * (KERNBASE \div PGSIZE)
<1> DEFINE B == PGSIZE
           q == KERNBASE \div B
<1>1. B \in Nat \ {0} /\ KERNBASE \in Nat /\ KERNBASE % B = 0
  BY MemoryAssumption
<1> HIDE DEF B
<1>2. q \in Int
  BY <1>1, SMT
<1>3. KERNBASE = B * q + (KERNBASE % B)
  BY <1>1, SMT
<1> HIDE DEF q
<1>4. ASSUME q < 0 PROVE FALSE
  <2>1. B * q + B <= B * 0
    BY <1>1, <1>2, <1>4, ProductLess
  <2>2. B * 0 = 0 /\ B * q \in Int
    BY <1>1, <1>2
  <2> QED
    BY <1>1, <1>3, <2>1, <2>2
<1>5. B * q \in Int
  BY <1>1, <1>2
<1> QED
  BY <1>1, <1>2, <1>3, <1>4, <1>5 DEF B, q

\* An address below a size that is below KERNBASE is one of user memory.
LEMMA InUserMemory ==
  ASSUME NEW z \in Nat, z < KERNBASE, NEW i \in Nat, i < PGROUNDUP(z)
  PROVE  i \in Index
<1> DEFINE B == PGSIZE
           q == KERNBASE \div PGSIZE
<1>1. B \in Nat \ {0} /\ q \in Nat /\ KERNBASE = B * q
  BY UserPages, MemoryAssumption
<1>2. i * B < z
  BY Rounding
<1>3. Index = 0 .. q - 1
  BY DEF Index
<1> HIDE DEF B, q
<1>4. B * i \in Int /\ i * B = B * i /\ B * q \in Int
  BY <1>1
<1>5. i < q
  <2>1. CASE i = q
    BY <1>1, <1>2, <1>4, <2>1
  <2>2. CASE q < i
    <3>1. B * q + B <= B * i
      BY <1>1, <2>2, ProductLess
    <3> QED
      BY <1>1, <1>2, <1>4, <3>1
  <2> QED
    BY <1>1, <2>1, <2>2
<1> QED
  BY <1>1, <1>3, <1>5

\* A size that is rounded up is a number of whole pages.
LEMMA WholePages ==
  ASSUME NEW z \in Nat
  PROVE  /\ PGROUNDUP(z) * PGSIZE \in Nat
         /\ PGROUNDUP(PGROUNDUP(z) * PGSIZE) = PGROUNDUP(z)
<1> DEFINE B == PGSIZE
           q == PGROUNDUP(z)
<1>1. B \in Nat \ {0} /\ q \in Nat
  BY Rounding, MemoryAssumption
<1>2. q * B \in Nat
  BY <1>1, SMT
<1> DEFINE t == PGROUNDUP(q * B)
<1>3. t \in Nat /\ \A i \in Int : i * B < q * B <=> i < t
  BY <1>2, Rounding
<1> HIDE DEF B, q, t
<1>4. ~(q < t)
  BY <1>1, <1>2, <1>3
<1>5. ASSUME t < q PROVE FALSE
  <2>1. B * t + B <= B * q
    BY <1>1, <1>3, <1>5, ProductLess
  <2>2. t * B = B * t /\ q * B = B * q /\ B * t \in Int
    BY <1>1, <1>3
  <2>3. ~(t * B < q * B)
    BY <1>3
  <2> QED
    BY <1>1, <1>2, <2>1, <2>2, <2>3
<1>6. t = q
  BY <1>1, <1>3, <1>4, <1>5
<1> QED
  BY <1>2, <1>6 DEF B, q, t

\* A larger size has as many pages or more.
LEMMA RoundingMonotone ==
  ASSUME NEW m \in Nat, NEW z \in Nat, m <= z
  PROVE  PGROUNDUP(m) <= PGROUNDUP(z)
<1> DEFINE q == PGROUNDUP(m)
           r == PGROUNDUP(z)
<1>1. q \in Nat /\ r \in Nat /\ (r * PGSIZE < m <=> r < q) /\ (r * PGSIZE < z <=> r < r)
  BY Rounding
<1> HIDE DEF q, r
<1>2. r * PGSIZE \in Int
  BY <1>1, MemoryAssumption
<1> QED
  BY <1>1, <1>2 DEF q, r

-----------------------------------------------------------------------------
(* Places and their pages                                                  *)

\* The places of a process.
Own(p) == Space(p, "as") \cup Space(p, "new") \cup {KernelStack(p), InHand(p)}

\* What Place is made of.
LEMMA PlaceFacts ==
  /\ \A p \in Users :
       /\ Space(p, "as") \subseteq Place /\ Space(p, "new") \subseteq Place
       /\ KernelStack(p) \in Place /\ InHand(p) \in Place
  /\ \A pl \in Place : \E p \in Users : pl \in Own(p)
BY DEF Place, Space, KernelStack, InHand, Own

\* Nobody else has them.
LEMMA OwnApart ==
  ASSUME NEW p \in Users, NEW q \in Users, p # q, NEW pl \in Own(p)
  PROVE  pl \notin Own(q)
BY DEF Space, KernelStack, InHand, Own

\* The kinds of places of one process are distinct.
LEMMA KindsApart ==
  ASSUME NEW p \in Users
  PROVE  /\ KernelStack(p) # InHand(p)
         /\ Space(p, "as") \cap Space(p, "new") = {}
         /\ \A s \in {"as", "new"} : KernelStack(p) \notin Space(p, s) /\ InHand(p) \notin Space(p, s)
BY DEF Space, KernelStack, InHand

\* Parts of an address space.
LEMMA PartFacts ==
  ASSUME NEW p \in Users, NEW s \in {"as", "new"}
  PROVE  /\ \A i \in Index : PageAt(p, s, i) \in Space(p, s) /\ TableAt(p, s, i \div NPTENTRIES) \in Space(p, s)
         /\ \A i, j \in Index : PageAt(p, s, i) = PageAt(p, s, j) => i = j
         /\ \A i \in Index : \A t : PageAt(p, s, i) # TableAt(p, s, t)
         /\ \A z \in 0 .. KernelTables : <<p, s, <<"kvm", z>>>> \in Space(p, s)
BY DEF Space, Parts, PageAt, TableAt, Tables

\* A partition of the pages, said of a function from places.
Owned(f, F) ==
  /\ \A pl \in Place : f[pl] \notin F
  /\ \A pl, pm \in Place : f[pl] = f[pm] /\ f[pl] # 0 => pl = pm
  /\ \A x \in Pages \ F : \E pl \in Place : f[pl] = x

\* It is the one of PagesPartitioned.
LEMMA PartitionOwned == MemTypeOK => (PagesPartitioned <=> Owned(page, free))
<1> SUFFICES ASSUME MemTypeOK PROVE PagesPartitioned <=> Owned(page, free)
  OBVIOUS
<1>1. \A pl \in Place : page[pl] \in Pages \cup {0}
  BY DEF MemTypeOK
<1>2. 0 \notin Pages
  BY DEF Pages
<1>3. free \subseteq Pages
  BY DEF MemTypeOK
<1>4. ASSUME PagesPartitioned PROVE Owned(page, free)
  <2>1. ASSUME NEW pl \in Place PROVE page[pl] \notin free
    BY <1>1, <1>2, <1>3, <1>4 DEF PagesPartitioned, PlacesOf
  <2>2. ASSUME NEW pl \in Place, NEW pm \in Place, page[pl] = page[pm], page[pl] # 0 PROVE pl = pm
    <3>1. page[pl] \in Pages /\ page[pl] \notin free
      BY <1>1, <2>1, <2>2
    <3>2. PICK po \in PlacesOf(page[pl]) : PlacesOf(page[pl]) = {po}
      BY <1>4, <3>1 DEF PagesPartitioned
    <3>3. pl \in PlacesOf(page[pl]) /\ pm \in PlacesOf(page[pl])
      BY <2>2 DEF PlacesOf
    <3> QED
      BY <3>2, <3>3
  <2>3. ASSUME NEW x \in Pages \ free PROVE \E pl \in Place : page[pl] = x
    BY <1>4 DEF PagesPartitioned, PlacesOf
  <2> QED
    BY <2>1, <2>2, <2>3 DEF Owned
<1>5. ASSUME Owned(page, free) PROVE PagesPartitioned
  <2> SUFFICES ASSUME NEW x \in Pages
               PROVE IF x \in free THEN PlacesOf(x) = {} ELSE \E pl \in PlacesOf(x) : PlacesOf(x) = {pl}
    BY DEF PagesPartitioned
  <2>1. CASE x \in free
    BY <1>5, <2>1 DEF Owned, PlacesOf
  <2>2. CASE x \notin free
    <3>1. PICK pl \in Place : page[pl] = x
      BY <1>5, <2>2 DEF Owned
    <3>2. \A pm \in PlacesOf(x) : pm = pl
      BY <1>2, <1>5, <3>1 DEF Owned, PlacesOf
    <3>3. pl \in PlacesOf(x)
      BY <3>1 DEF PlacesOf
    <3> QED
      BY <2>2, <3>2, <3>3
  <2> QED
    BY <2>1, <2>2
<1> QED
  BY <1>4, <1>5

\* The same of the next state.
LEMMA PartitionOwnedNext == MemTypeOK' => (PagesPartitioned <=> Owned(page, free))'
BY PartitionOwned, PTL

\* A page that was free is at a place that had none.
LEMMA OwnedTake ==
  ASSUME NEW f \in [Place -> Pages \cup {0}], NEW F \in SUBSET Pages, Owned(f, F),
         NEW x \in F, NEW pl \in Place, f[pl] = 0
  PROVE  Owned([f EXCEPT ![pl] = x], F \ {x})
BY DEF Owned, Pages

\* Places give up their pages.
LEMMA OwnedGive ==
  ASSUME NEW f \in [Place -> Pages \cup {0}], NEW F \in SUBSET Pages, Owned(f, F),
         NEW S, NEW G, G = F \cup ({f[pl] : pl \in S} \ {0}), S \subseteq Place
  PROVE  Owned([pl \in Place |-> IF pl \in S THEN 0 ELSE f[pl]], G)
<1> DEFINE g == [pl \in Place |-> IF pl \in S THEN 0 ELSE f[pl]]
<1>1. \A pl \in Place : g[pl] = IF pl \in S THEN 0 ELSE f[pl]
  OBVIOUS
<1> HIDE DEF g
<1>2. 0 \notin F
  BY DEF Pages
<1>3. ASSUME NEW pl \in Place PROVE g[pl] \notin G
  BY <1>1, <1>2 DEF Owned
<1>4. ASSUME NEW pl \in Place, NEW pm \in Place, g[pl] = g[pm], g[pl] # 0 PROVE pl = pm
  BY <1>1, <1>4 DEF Owned
<1>5. ASSUME NEW x \in Pages \ G PROVE \E pl \in Place : g[pl] = x
  <2>1. PICK pl \in Place : f[pl] = x
    BY DEF Owned
  <2>2. x # 0
    BY DEF Pages
  <2> QED
    BY <1>1, <2>1, <2>2
<1> QED
  BY <1>3, <1>4, <1>5 DEF Owned, g

\* Places exchange their pages.
LEMMA OwnedSwap ==
  ASSUME NEW f \in [Place -> Pages \cup {0}], NEW F \in SUBSET Pages, Owned(f, F),
         NEW g \in [Place -> Pages \cup {0}], NEW s \in [Place -> Place],
         \A pl \in Place : s[s[pl]] = pl /\ g[pl] = f[s[pl]]
  PROVE  Owned(g, F)
<1>1. ASSUME NEW pl \in Place PROVE g[pl] \notin F
  BY DEF Owned
<1>2. ASSUME NEW pl \in Place, NEW pm \in Place, g[pl] = g[pm], g[pl] # 0 PROVE pl = pm
  <2>1. s[pl] = s[pm]
    BY <1>2 DEF Owned
  <2> QED
    BY <2>1
<1>3. ASSUME NEW x \in Pages \ F PROVE \E pl \in Place : g[pl] = x
  <2>1. PICK pl \in Place : f[pl] = x
    BY DEF Owned
  <2>2. s[pl] \in Place /\ s[s[pl]] = pl
    OBVIOUS
  <2> QED
    BY <2>1, <2>2
<1> QED
  BY <1>1, <1>2, <1>3 DEF Owned

\* In the form in which the lemmas on actions use it.
LEMMA PartitionNext ==
  ASSUME MemTypeOK', Owned(page', free')
  PROVE  PagesPartitioned'
BY PartitionOwnedNext DEF Owned

-----------------------------------------------------------------------------
(* One process and the others                                              *)

\* What the invariant says of one process.
ProcInv(q) == StepOf(q) /\ Vacant(q) /\ Mapped(q)

\* It remains true of a process that a step leaves alone.
LEMMA Untouched ==
  ASSUME NEW q \in Users, ProcInv(q),
         kcall'[q] = kcall[q], mstate'[q] = mstate[q], sz'[q] = sz[q],
         \A pl \in Own(q) : page'[pl] = page[pl],
         kcall[q].at = "kstack" =>
           page'[KernelStack(kcall[q].child)] = page[KernelStack(kcall[q].child)]
  PROVE  ProcInv(q)'
<1>1. \A i \in Index : PageAt(q, "as", i) \in Own(q) /\ PageAt(q, "new", i) \in Own(q)
  BY PartFacts DEF Own
<1>2. \A l \in Parts : <<q, "new", l>> \in Own(q)
  BY DEF Own, Space
<1>3. StepOf(q)'
  BY DEF ProcInv, StepOf
<1>4. Vacant(q)'
  BY <1>2 DEF ProcInv, Vacant, NoPages, Own
<1>5. Mapped(q)'
  BY <1>1 DEF ProcInv, Mapped, MappedTo, Target
<1> QED
  BY <1>3, <1>4, <1>5 DEF ProcInv

\* A step that is about the processes of S keeps the invariant if it keeps these parts.
LEMMA OthersSafe ==
  ASSUME MemInv, MemTypeOK', PagesPartitioned', ChildInv',
         NEW S, \A q \in S : ProcInv(q)',
         \A q \in Users \ S :
           /\ kcall'[q] = kcall[q] /\ mstate'[q] = mstate[q] /\ sz'[q] = sz[q]
           /\ \A pl \in Own(q) : page'[pl] = page[pl]
           /\ kcall[q].at = "kstack" =>
                page'[KernelStack(kcall[q].child)] = page[KernelStack(kcall[q].child)]
  PROVE  MemInv'
<1> SUFFICES ASSUME NEW q \in Users \ S PROVE ProcInv(q)'
  BY DEF MemInv, UsersInv, ProcInv
<1>1. ProcInv(q)
  BY DEF MemInv, UsersInv, ProcInv
<1> QED
  BY <1>1, Untouched

\* A step that moves no pages and leaves the children alone.
LEMMA NoPagesMove ==
  ASSUME MemInv, MemTypeOK', UNCHANGED <<free, page>>
  PROVE  PagesPartitioned'
BY DEF MemInv, PagesPartitioned, PlacesOf

\* A step that moves no pages keeps the invariant if it keeps it of the processes of S and
\* changes nothing of the others.
LEMMA QuietSafe ==
  ASSUME MemInv, MemTypeOK', UNCHANGED <<free, page>>, ChildInv',
         NEW S, \A q \in S : ProcInv(q)',
         \A q \in Users \ S : kcall'[q] = kcall[q] /\ mstate'[q] = mstate[q] /\ sz'[q] = sz[q]
  PROVE  MemInv'
<1>1. PagesPartitioned'
  BY NoPagesMove
<1> QED
  BY <1>1, OthersSafe

\* A step of p that changes neither which calls are fork() nor their children.
LEMMA SameChildren ==
  ASSUME MemInv, mstate' = mstate,
         \A q \in Users : kcall'[q].call = "fork" <=> kcall[q].call = "fork",
         \A q \in Users : kcall'[q].call = "fork" => kcall'[q].child = kcall[q].child
  PROVE  ChildInv'
BY DEF MemInv, ChildInv


\* The fields of a call.
LEMMA CallFacts ==
  ASSUME MemInv, NEW p \in Users
  PROVE  /\ kcall[p] \in CallType
         /\ kcall[p].a \in Nat /\ kcall[p].from \in Nat /\ kcall[p].to \in Nat
         /\ sz[p] \in Nat /\ sz[p] < KERNBASE
         /\ StepOf(p) /\ Vacant(p) /\ Mapped(p)
<1>1. kcall[p] \in CallType /\ sz[p] \in 0 .. KERNBASE - 1
  BY DEF MemInv, MemTypeOK
<1>2. kcall[p].a \in Nat /\ kcall[p].from \in Nat /\ kcall[p].to \in Nat
  BY <1>1 DEF CallType
<1>3. sz[p] \in Nat /\ sz[p] < KERNBASE
  BY <1>1, MemoryAssumption
<1> QED
  BY <1>1, <1>2, <1>3 DEF MemInv, UsersInv

\* A process in user mode has no call.
LEMMA UserFacts ==
  ASSUME MemInv, NEW p \in Users, kcall[p].at = "user"
  PROVE  /\ kcall[p] = NoCall /\ kcall[p].call = "" /\ kcall[p].child = NoUser
         /\ kcall[p].a = 0 /\ kcall[p].from = 0 /\ kcall[p].to = 0
<1>1. kcall[p] = NoCall
  BY CallFacts DEF StepOf
<1>2. /\ NoCall.call = "" /\ NoCall.child = NoUser
      /\ NoCall.a = 0 /\ NoCall.from = 0 /\ NoCall.to = 0
  BY DEF NoCall
<1> QED
  BY <1>1, <1>2

\* At the end of a loop everything up to the new size is mapped.
LEMMA LoopEnds ==
  ASSUME MemInv, NEW p \in Users, kcall[p].at \in {"alloc", "copy"}, kcall[p].a * PGSIZE >= kcall[p].to
  PROVE  kcall[p].a = PGROUNDUP(kcall[p].to)
<1>1. kcall[p].a \in Nat /\ kcall[p].to \in Nat /\ kcall[p].a <= PGROUNDUP(kcall[p].to)
  BY CallFacts DEF Mapped
<1>2. PGROUNDUP(kcall[p].to) \in Nat
  BY <1>1, Rounding
<1>3. ~(kcall[p].a * PGSIZE < kcall[p].to)
  BY <1>1, MemoryAssumption
<1>4. ~(kcall[p].a < PGROUNDUP(kcall[p].to))
  BY <1>1, <1>3, Rounding
<1> QED
  BY <1>1, <1>2, <1>4

\* exec() begins.
LEMMA ExecSafe ==
  ASSUME MemInv, NEW p \in Users, Exec(p)
  PROVE  MemInv'
<1>1. /\ kcall[p] \in CallType /\ mstate[p] = "user" /\ kcall[p].at = "user"
      /\ StepOf(p) /\ Vacant(p) /\ Mapped(p)
      /\ kcall[p].call = "" /\ kcall[p].a = 0 /\ kcall[p].from = 0 /\ kcall[p].to = 0
  BY CallFacts, UserFacts DEF Exec, At
<1>2. /\ kcall'[p].at = "kvm" /\ kcall'[p].call = "exec" /\ kcall'[p].a = 0
      /\ kcall'[p].from = 0 /\ kcall'[p].to = 0 /\ kcall'[p] \in CallType
      /\ kcall' \in [Users -> CallType]
      /\ \A q \in Users : q # p => kcall'[q] = kcall[q]
  BY <1>1 DEF Exec, MemInv, MemTypeOK, CallType
<1>3. UNCHANGED <<free, page, mstate, sz>>
  BY DEF Exec
<1>4. MemTypeOK'
  BY <1>2, <1>3 DEF MemInv, MemTypeOK
<1>6. ChildInv'
  BY <1>1, <1>2, <1>3, SameChildren
<1>7. StepOf(p)'
  <2>1. 0 <= KernelTables + 1 /\ 0 < KERNBASE
    BY MemoryAssumption
  <2> QED
    BY <1>1, <1>2, <1>3, <2>1 DEF StepOf
<1>8. Vacant(p)'
  <2>1. NoPages(Space(p, "new")) /\ page[InHand(p)] = 0
    BY <1>1 DEF Vacant
  <2>2. \A l \in Parts : page[<<p, "new", l>>] = 0
    BY <2>1 DEF NoPages, Space
  <2> QED
    BY <1>1, <1>2, <1>3, <2>1, <2>2 DEF Vacant
<1>9. Mapped(p)'
  BY <1>1, <1>2, <1>3 DEF Mapped, MappedTo
<1> DEFINE S == {p}
<1>s. \A q \in S : ProcInv(q)'
  BY <1>7, <1>8, <1>9 DEF ProcInv
<1>t. \A q \in Users \ S : kcall'[q] = kcall[q] /\ mstate'[q] = mstate[q] /\ sz'[q] = sz[q]
  BY <1>2, <1>3
<1> HIDE DEF S
<1> QED
  BY <1>3, <1>4, <1>6, <1>s, <1>t, QuietSafe

\* The slot of a child is another, and only one fork() makes it.
LEMMA ChildFacts ==
  ASSUME MemInv, NEW p \in Users, kcall[p].call = "fork", mstate[p] = "user"
  PROVE  /\ kcall[p].child \in Users /\ kcall[p].child # p
         /\ mstate[kcall[p].child] = "embryo" /\ kcall[kcall[p].child].at = "user"
         /\ \A q \in Users : q # p /\ kcall[q].call = "fork" => kcall[q].child # kcall[p].child
BY CallFacts DEF MemInv, ChildInv, StepOf

\* fork() takes a slot.
LEMMA ForkSafe ==
  ASSUME MemInv, NEW p \in Users, Fork(p)
  PROVE  MemInv'
<1>1. /\ kcall[p] \in CallType /\ mstate[p] = "user" /\ kcall[p].at = "user"
      /\ StepOf(p) /\ Vacant(p) /\ Mapped(p)
      /\ kcall[p].call = "" /\ kcall[p].a = 0 /\ kcall[p].from = 0 /\ kcall[p].to = 0
  BY CallFacts, UserFacts DEF Fork, At
<1>2. PICK c \in Users :
        /\ mstate[c] = "unused" /\ mstate' = [mstate EXCEPT ![c] = "embryo"]
        /\ kcall' = [kcall EXCEPT ![p].at = "kstack", ![p].call = "fork", ![p].child = c]
  BY DEF Fork
<1>3. UNCHANGED <<free, page, sz>>
  BY DEF Fork
<1>4. c # p /\ mstate'[c] = "embryo" /\ \A q \in Users : q # c => mstate'[q] = mstate[q]
  BY <1>1, <1>2 DEF MemInv, MemTypeOK
<1>5. /\ kcall'[p].at = "kstack" /\ kcall'[p].call = "fork" /\ kcall'[p].child = c
      /\ kcall'[p].a = 0 /\ kcall'[p].from = 0 /\ kcall'[p].to = 0
      /\ kcall' \in [Users -> CallType]
      /\ \A q \in Users : q # p => kcall'[q] = kcall[q]
  BY <1>1, <1>2 DEF MemInv, MemTypeOK, CallType
<1>6. MemTypeOK'
  <2>1. mstate' \in [Users -> {"unused", "embryo", "user", "zombie"}]
    BY <1>2 DEF MemInv, MemTypeOK
  <2> QED
    BY <1>3, <1>5, <2>1 DEF MemInv, MemTypeOK
<1>8. ChildInv'
  BY <1>2, <1>4, <1>5 DEF MemInv, ChildInv
<1>9. StepOf(c) /\ Vacant(c) /\ kcall[c].at = "user" /\ kcall'[c] = kcall[c]
  BY <1>2, <1>4, <1>5, CallFacts DEF StepOf
<1>10. ProcInv(p)'
  <2>1. StepOf(p)'
    <3>1. 0 < KERNBASE
      BY MemoryAssumption
    <3> QED
      BY <1>1, <1>3, <1>4, <1>5, <3>1 DEF StepOf
  <2>2. Vacant(p)'
    BY <1>1, <1>2, <1>3, <1>4, <1>5, <1>9 DEF Vacant, NoPages
  <2>3. Mapped(p)'
    BY <1>1, <1>3, <1>4, <1>5 DEF Mapped, MappedTo
  <2> QED
    BY <2>1, <2>2, <2>3 DEF ProcInv
<1>11. ProcInv(c)'
  <2>1. StepOf(c)'
    BY <1>3, <1>4, <1>9 DEF StepOf
  <2>2. Vacant(c)'
    BY <1>2, <1>3, <1>4, <1>9 DEF Vacant, NoPages
  <2>3. Mapped(c)'
    BY <1>4, <1>9 DEF Mapped
  <2> QED
    BY <2>1, <2>2, <2>3 DEF ProcInv
<1> DEFINE S == {p, c}
<1>s. \A q \in S : ProcInv(q)'
  BY <1>10, <1>11
<1>t. \A q \in Users \ S : kcall'[q] = kcall[q] /\ mstate'[q] = mstate[q] /\ sz'[q] = sz[q]
  BY <1>3, <1>4, <1>5
<1> HIDE DEF S
<1> QED
  BY <1>3, <1>6, <1>8, <1>s, <1>t, QuietSafe

\* kalloc(): a place that had no page has one that was free.
LEMMA KallocSafe ==
  ASSUME MemInv, NEW pl \in Place, page[pl] = 0, free # {}, Kalloc(pl)
  PROVE  /\ page' \in [Place -> Pages \cup {0}] /\ free' \subseteq Pages
         /\ page'[pl] # 0 /\ \A pm \in Place : pm # pl => page'[pm] = page[pm]
         /\ Owned(page', free')
<1>1. NewPage \in free
  BY DEF NewPage
<1>2. page \in [Place -> Pages \cup {0}] /\ free \subseteq Pages /\ Owned(page, free)
  BY PartitionOwned DEF MemInv, MemTypeOK
<1>3. NewPage # 0
  BY <1>1, <1>2 DEF Pages
<1>4. Owned(page', free')
  BY <1>1, <1>2, OwnedTake DEF Kalloc
<1> QED
  BY <1>1, <1>2, <1>3, <1>4 DEF Kalloc

\* What a call that fails does not give back of the address space stays as it was.
LEMMA FailsKeep ==
  ASSUME MemInv, NEW p \in Users, mstate[p] = "user", NEW S, Fails(p, S),
         S \cap Space(p, "as") = {}, NEW z, MappedTo(p, "as", z)
  PROVE  \A i \in Index : page'[PageAt(p, "as", i)] # 0 <=> i < z
<1> SUFFICES ASSUME NEW i \in Index PROVE page'[PageAt(p, "as", i)] = page[PageAt(p, "as", i)]
  BY DEF MappedTo
<1> DEFINE c == kcall[p].child
           pl == PageAt(p, "as", i)
           stack == IF kcall[p].call = "fork" THEN {KernelStack(c)} ELSE {}
<1>1. pl \in Space(p, "as") /\ pl \in Place
  BY PartFacts, PlaceFacts
<1>2. pl \notin Space(p, "new") /\ pl # InHand(p)
  BY <1>1, KindsApart
<1>3. pl \notin stack
  BY DEF PageAt, KernelStack
<1>4. pl \notin S
  BY <1>1
<1> HIDE DEF pl, stack
<1>5. page' = Emptied(S \cup Space(p, "new") \cup {InHand(p)} \cup stack)
  BY DEF Fails, stack
<1>6. page'[pl] = page[pl]
  BY <1>1, <1>2, <1>3, <1>4, <1>5 DEF Emptied
<1> QED
  BY <1>6 DEF pl

\* A call that fails gives back what it has taken, and leaves the address space as it was.
LEMMA FailsSafe ==
  ASSUME MemInv, NEW p \in Users, mstate[p] = "user", kcall[p].at \notin {"user", "fault"},
         NEW S, S \subseteq Space(p, "as") \cup Space(p, "new") \cup {InHand(p)}, Fails(p, S),
         \A pl \in Space(p, "new") \cup {InHand(p)} : pl \in S \/ page[pl] = 0,
         MappedTo(p, "as", PGROUNDUP(sz[p]))'
  PROVE  MemInv'
<1> DEFINE c == kcall[p].child
           stack == IF kcall[p].call = "fork" THEN {KernelStack(c)} ELSE {}
           E == S \cup Space(p, "new") \cup {InHand(p)} \cup stack
<1>1. kcall[p].call = "fork" =>
        /\ c \in Users /\ c # p /\ mstate[c] = "embryo" /\ kcall[c].at = "user"
        /\ \A q \in Users : q # p /\ kcall[q].call = "fork" => kcall[q].child # c
  BY ChildFacts
<1>2. /\ page' = Emptied(E)
      /\ free' = free \cup PagesIn(S) \cup PagesIn(stack)
      /\ mstate' = IF kcall[p].call = "fork" THEN [mstate EXCEPT ![c] = "unused"] ELSE mstate
      /\ kcall' = [kcall EXCEPT ![p] = NoCall]
      /\ sz' = sz
  BY DEF Fails
<1>3. page \in [Place -> Pages \cup {0}] /\ free \subseteq Pages /\ Owned(page, free)
  BY PartitionOwned DEF MemInv, MemTypeOK
<1>4. stack \subseteq Place /\ E \subseteq Place
  BY <1>1, PlaceFacts
<1>5. free' = free \cup ({page[pl] : pl \in E} \ {0})
  <2>1. \A pl \in E : page[pl] = 0 \/ pl \in S \/ pl \in stack
    OBVIOUS
  <2> HIDE DEF stack
  <2> QED
    BY <1>2, <2>1 DEF PagesIn
<1> HIDE DEF E
<1>6. \A pl \in Place : page'[pl] = IF pl \in E THEN 0 ELSE page[pl]
  BY <1>2 DEF Emptied
<1>7. Owned(page', free')
  BY <1>2, <1>3, <1>4, <1>5, OwnedGive DEF Emptied
<1>8. NoCall \in CallType /\ NoCall.at = "user" /\ NoCall.call = "" /\ NoCall.to = 0
  BY DEF NoCall, CallType
<1>9. /\ kcall' \in [Users -> CallType] /\ kcall'[p] = NoCall
      /\ \A q \in Users : q # p => kcall'[q] = kcall[q]
  BY <1>2, <1>8 DEF MemInv, MemTypeOK
<1>10. /\ mstate'[p] = "user"
       /\ \A q \in Users : kcall[p].call # "fork" \/ q # c => mstate'[q] = mstate[q]
       /\ kcall[p].call = "fork" => mstate'[c] = "unused"
  BY <1>1, <1>2 DEF MemInv, MemTypeOK
<1>11. MemTypeOK'
  <2>1. mstate' \in [Users -> {"unused", "embryo", "user", "zombie"}]
    BY <1>2 DEF MemInv, MemTypeOK
  <2>2. page' \in [Place -> Pages \cup {0}]
    BY <1>2, <1>3 DEF Emptied
  <2>3. free' \subseteq Pages
    BY <1>3, <1>4, <1>5
  <2> QED
    BY <1>2, <1>9, <2>1, <2>2, <2>3 DEF MemInv, MemTypeOK
<1>12. PagesPartitioned'
  BY <1>7, <1>11, PartitionNext
<1>13. ChildInv'
  <2> SUFFICES ASSUME NEW q \in Users, kcall'[q].call = "fork"
               PROVE  /\ kcall'[q].child \in Users /\ mstate'[kcall'[q].child] = "embryo"
                      /\ \A r \in Users : kcall'[r].call = "fork" /\ kcall'[r].child = kcall'[q].child => r = q
    BY DEF ChildInv
  <2>1. q # p /\ kcall'[q] = kcall[q] /\ kcall[q].call = "fork"
    BY <1>8, <1>9
  <2>2. /\ kcall[q].child \in Users /\ mstate[kcall[q].child] = "embryo"
        /\ \A r \in Users : kcall[r].call = "fork" /\ kcall[r].child = kcall[q].child => r = q
    BY <2>1 DEF MemInv, ChildInv
  <2>3. mstate'[kcall[q].child] = "embryo"
    BY <1>1, <1>10, <2>1, <2>2
  <2>4. \A r \in Users : kcall'[r].call = "fork" => kcall'[r] = kcall[r]
    BY <1>8, <1>9
  <2> QED
    BY <2>1, <2>2, <2>3, <2>4
<1>14. ProcInv(p)'
  <2>1. StepOf(p)'
    <3>1. 0 < KERNBASE
      BY MemoryAssumption
    <3> QED
      BY <1>8, <1>9, <1>10, <3>1 DEF StepOf
  <2>2. Vacant(p)'
    <3>1. \A pl \in Space(p, "new") \cup {InHand(p)} : page'[pl] = 0
      BY <1>6, PlaceFacts DEF E
    <3> QED
      BY <1>8, <1>9, <1>10, <3>1 DEF Vacant, NoPages
  <2>3. Mapped(p)'
    BY <1>8, <1>9 DEF Mapped, MappedTo
  <2> QED
    BY <2>1, <2>2, <2>3 DEF ProcInv
<1>15. ASSUME kcall[p].call = "fork", NEW d \in Users, d = c PROVE ProcInv(d)'
  <2>1. /\ d \in Users /\ d # p /\ mstate[d] = "embryo" /\ kcall[d].at = "user"
        /\ StepOf(d) /\ Vacant(d) /\ kcall'[d] = kcall[d] /\ mstate'[d] = "unused"
    BY <1>1, <1>9, <1>10, <1>15, CallFacts
  <2>2. StepOf(d)'
    BY <1>2, <2>1 DEF StepOf
  <2>3. Vacant(d)'
    <3>1. page'[KernelStack(d)] = 0
      BY <1>6, <1>15, <2>1, PlaceFacts DEF E, stack
    <3>2. \A pl \in Space(d, "as") \cup Space(d, "new") \cup {InHand(d)} : page[pl] = 0
      BY <2>1 DEF Vacant, NoPages
    <3>3. \A pl \in Space(d, "as") \cup Space(d, "new") \cup {InHand(d)} : page'[pl] = 0
      BY <1>6, <2>1, <3>2, PlaceFacts
    <3> QED
      BY <2>1, <3>1, <3>3 DEF Vacant, NoPages
  <2>4. Mapped(d)'
    BY <2>1 DEF Mapped
  <2> QED
    BY <2>2, <2>3, <2>4 DEF ProcInv
<1> DEFINE Q == {p} \cup {q \in Users : kcall[p].call = "fork" /\ q = c}
<1>16. \A q \in Q : ProcInv(q)'
  BY <1>14, <1>15
<1>17. ASSUME NEW q \in Users \ Q
       PROVE  /\ kcall'[q] = kcall[q] /\ mstate'[q] = mstate[q] /\ sz'[q] = sz[q]
              /\ \A pl \in Own(q) : page'[pl] = page[pl]
              /\ kcall[q].at = "kstack" =>
                   page'[KernelStack(kcall[q].child)] = page[KernelStack(kcall[q].child)]
  <2>1. q # p /\ (kcall[p].call = "fork" => q # c)
    OBVIOUS
  <2>2. S \subseteq Own(p) /\ Space(p, "new") \subseteq Own(p) /\ InHand(p) \in Own(p)
    BY DEF Own
  <2>3. kcall[p].call = "fork" => KernelStack(c) \in Own(c)
    BY DEF Own
  <2>4. \A pl \in Own(q) : pl \in Place /\ pl \notin E
    <3>1. \A pl \in Own(q) : pl \notin Own(p)
      BY <2>1, OwnApart
    <3>2. kcall[p].call = "fork" => \A pl \in Own(q) : pl \notin Own(c)
      BY <1>1, <2>1, OwnApart
    <3>3. \A pl \in Own(q) : pl \in Place
      BY PlaceFacts DEF Own
    <3> QED
      BY <2>2, <2>3, <3>1, <3>2, <3>3 DEF E
  <2>5. ASSUME kcall[q].at = "kstack"
        PROVE  page'[KernelStack(kcall[q].child)] = page[KernelStack(kcall[q].child)]
    <3> DEFINE d == kcall[q].child
    <3>1. kcall[q].call = "fork" /\ mstate[q] = "user"
      BY <2>5, CallFacts DEF StepOf
    <3>2. d \in Users /\ d # p /\ (kcall[p].call = "fork" => d # c)
      BY <1>1, <2>1, <3>1, ChildFacts
    <3>3. KernelStack(d) \in Own(d) /\ KernelStack(d) \in Place
      BY <3>2, PlaceFacts DEF Own
    <3>4. KernelStack(d) \notin Own(p) /\ (kcall[p].call = "fork" => KernelStack(d) \notin Own(c))
      BY <1>1, <3>2, <3>3, OwnApart
    <3> QED
      BY <1>6, <2>2, <2>3, <3>3, <3>4 DEF E
  <2> QED
    BY <1>2, <1>6, <1>9, <1>10, <2>1, <2>4, <2>5
<1> HIDE DEF Q
<1> QED
  BY <1>11, <1>12, <1>13, <1>16, <1>17, OthersSafe

\* A step of the call of p that moves no pages.
LEMMA CallStep ==
  ASSUME MemInv, NEW p \in Users, UNCHANGED <<free, page, mstate>>, ProcInv(p)',
         kcall' \in [Users -> CallType], sz' \in [Users -> 0 .. KERNBASE - 1],
         \A q \in Users : q # p => kcall'[q] = kcall[q] /\ sz'[q] = sz[q],
         kcall'[p].call = "fork" <=> kcall[p].call = "fork",
         kcall'[p].call = "fork" => kcall'[p].child = kcall[p].child
  PROVE  MemInv'
<1> DEFINE S == {p}
<1>1. MemTypeOK'
  BY DEF MemInv, MemTypeOK
<1>2. ChildInv'
  BY SameChildren
<1>3. \A q \in S : ProcInv(q)'
  OBVIOUS
<1>4. \A q \in Users \ S : kcall'[q] = kcall[q] /\ mstate'[q] = mstate[q] /\ sz'[q] = sz[q]
  OBVIOUS
<1> HIDE DEF S
<1> QED
  BY <1>1, <1>2, <1>3, <1>4, QuietSafe

\* No pages are those of size 0.
LEMMA NoneMapped ==
  ASSUME NEW p \in Users, NEW s \in {"as", "new"}, \A i \in Index : page[PageAt(p, s, i)] = 0
  PROVE  MappedTo(p, s, 0) /\ PGROUNDUP(0) = 0
<1>1. \A i \in Index : i \in Int /\ ~(i < 0)
  <2>1. (KERNBASE \div PGSIZE) \in Nat
    BY UserPages
  <2> QED
    BY <2>1 DEF Index
<1>2. PGROUNDUP(0) \in Nat /\ (0 * PGSIZE < 0 <=> 0 < PGROUNDUP(0))
  BY Rounding
<1>3. 0 * PGSIZE = 0
  BY MemoryAssumption
<1> QED
  BY <1>1, <1>2, <1>3 DEF MappedTo

\* setupkvm() is done, and the loop of copyuvm() or of exec() begins with no user pages.
LEMMA KvmReadySafe ==
  ASSUME MemInv, NEW p \in Users, KvmReady(p)
  PROVE  MemInv'
<1>1. /\ kcall[p] \in CallType /\ mstate[p] = "user" /\ kcall[p].at = "kvm"
      /\ StepOf(p) /\ Vacant(p) /\ Mapped(p) /\ kcall[p].call \in {"fork", "exec"}
      /\ sz[p] \in Nat /\ sz[p] < KERNBASE
  BY CallFacts DEF KvmReady, At, StepOf
<1>2. UNCHANGED <<free, page, mstate, sz>>
  BY DEF KvmReady
<1>3. /\ kcall'[p].at = IF kcall[p].call = "fork" THEN "copy" ELSE "seg"
      /\ kcall'[p].a = 0 /\ kcall'[p].to = IF kcall[p].call = "fork" THEN sz[p] ELSE 0
      /\ kcall'[p].call = kcall[p].call /\ kcall'[p].child = kcall[p].child
      /\ kcall' \in [Users -> CallType]
      /\ \A q \in Users : q # p => kcall'[q] = kcall[q]
  BY <1>1 DEF KvmReady, MemInv, MemTypeOK, CallType
<1>4. StepOf(p)'
  <2>1. 0 < KERNBASE
    BY MemoryAssumption
  <2> QED
    BY <1>1, <1>2, <1>3, <2>1 DEF StepOf
<1>5. Vacant(p)'
  BY <1>1, <1>2, <1>3 DEF Vacant
<1>6. Mapped(p)'
  <2>1. \A i \in Index : page[PageAt(p, "new", i)] = 0
    <3>1. \A i \in Index : <<"pg", i>> \in Parts
      BY DEF Parts
    <3> QED
      BY <1>1, <3>1 DEF Vacant, PageAt
  <2>2. MappedTo(p, "new", 0) /\ PGROUNDUP(0) = 0
    BY <2>1, NoneMapped
  <2>3. PGROUNDUP(sz[p]) \in Nat
    BY <1>1, Rounding
  <2> QED
    BY <1>1, <1>2, <1>3, <2>2, <2>3 DEF Mapped, MappedTo, Target
<1>7. sz' \in [Users -> 0 .. KERNBASE - 1]
  BY <1>2 DEF MemInv, MemTypeOK
<1> QED
  BY <1>1, <1>2, <1>3, <1>4, <1>5, <1>6, <1>7, CallStep DEF ProcInv

\* The next segment of exec(): its pages begin where those of the last one end.
LEMMA SegmentSafe ==
  ASSUME MemInv, NEW p \in Users, Segment(p)
  PROVE  MemInv'
<1>1. /\ kcall[p] \in CallType /\ mstate[p] = "user" /\ kcall[p].at = "seg"
      /\ StepOf(p) /\ Vacant(p) /\ Mapped(p) /\ kcall[p].call = "exec" /\ kcall[p].to \in Nat
      /\ sz[p] \in Nat
  BY CallFacts DEF Segment, At, StepOf
<1>2. UNCHANGED <<free, page, mstate, sz>>
  BY DEF Segment
<1>3. PICK end \in Ends : end > kcall[p].to /\ Allocuvm(p, "exec", kcall[p].to, end)
  BY DEF Segment
<1>4. end \in Nat /\ PGROUNDUP(kcall[p].to) \in Nat /\ PGROUNDUP(end) \in Nat
  BY <1>1, Rounding, MemoryAssumption
<1>5. /\ kcall'[p].at = "alloc" /\ kcall'[p].call = "exec" /\ kcall'[p].a = PGROUNDUP(kcall[p].to)
      /\ kcall'[p].to = end /\ end < KERNBASE
      /\ kcall' \in [Users -> CallType]
      /\ \A q \in Users : q # p => kcall'[q] = kcall[q]
  BY <1>1, <1>3, <1>4 DEF Allocuvm, MemInv, MemTypeOK, CallType
<1>6. StepOf(p)'
  BY <1>1, <1>2, <1>5 DEF StepOf
<1>7. Vacant(p)'
  BY <1>1, <1>2, <1>5 DEF Vacant
<1>8. Mapped(p)'
  <2>1. PGROUNDUP(kcall[p].to) <= PGROUNDUP(end)
    BY <1>1, <1>3, <1>4, RoundingMonotone
  <2> QED
    BY <1>1, <1>2, <1>5, <2>1 DEF Mapped, MappedTo, Target
<1>9. sz' \in [Users -> 0 .. KERNBASE - 1]
  BY <1>2 DEF MemInv, MemTypeOK
<1> QED
  BY <1>1, <1>2, <1>5, <1>6, <1>7, <1>8, <1>9, CallStep DEF ProcInv

\* The stack of exec() begins at a whole page.
LEMMA StackSafe ==
  ASSUME MemInv, NEW p \in Users, Stack(p)
  PROVE  MemInv'
<1> DEFINE top == PGROUNDUP(kcall[p].to) * PGSIZE
<1>1. /\ kcall[p] \in CallType /\ mstate[p] = "user" /\ kcall[p].at = "seg"
      /\ StepOf(p) /\ Vacant(p) /\ Mapped(p) /\ kcall[p].call = "exec" /\ kcall[p].to \in Nat
      /\ sz[p] \in Nat
  BY CallFacts DEF Stack, At, StepOf
<1>2. UNCHANGED <<free, page, mstate, sz>>
  BY DEF Stack
<1>3. Allocuvm(p, "stack", top, top + 2 * PGSIZE)
  BY DEF Stack
<1>4. top \in Nat /\ PGROUNDUP(top) = PGROUNDUP(kcall[p].to)
  BY <1>1, WholePages
<1> HIDE DEF top
<1>e. PICK end \in Nat : end = top + 2 * PGSIZE /\ end >= top
  BY <1>4, MemoryAssumption
<1>5. PGROUNDUP(top) \in Nat /\ PGROUNDUP(end) \in Nat /\ PGROUNDUP(top) <= PGROUNDUP(end)
  BY <1>4, <1>e, Rounding, RoundingMonotone
<1>6. /\ kcall'[p].at = "alloc" /\ kcall'[p].call = "stack" /\ kcall'[p].a = PGROUNDUP(top)
      /\ kcall'[p].to = end /\ end < KERNBASE
      /\ kcall' \in [Users -> CallType]
      /\ \A q \in Users : q # p => kcall'[q] = kcall[q]
  BY <1>1, <1>3, <1>4, <1>e, <1>5 DEF Allocuvm, MemInv, MemTypeOK, CallType
<1>7. StepOf(p)'
  BY <1>1, <1>2, <1>6 DEF StepOf
<1>8. Vacant(p)'
  BY <1>1, <1>2, <1>6 DEF Vacant
<1>9. Mapped(p)'
  BY <1>1, <1>2, <1>4, <1>5, <1>6 DEF Mapped, MappedTo, Target
<1>10. sz' \in [Users -> 0 .. KERNBASE - 1]
  BY <1>2 DEF MemInv, MemTypeOK
<1> QED
  BY <1>1, <1>2, <1>6, <1>7, <1>8, <1>9, <1>10, CallStep DEF ProcInv

\* The loop for a segment is over.
LEMMA SegmentDoneSafe ==
  ASSUME MemInv, NEW p \in Users, SegmentDone(p)
  PROVE  MemInv'
<1>1. /\ kcall[p] \in CallType /\ mstate[p] = "user" /\ kcall[p].at = "alloc"
      /\ StepOf(p) /\ Vacant(p) /\ Mapped(p) /\ kcall[p].call = "exec"
      /\ kcall[p].a * PGSIZE >= kcall[p].to
  BY CallFacts DEF SegmentDone, Allocated, At
<1>2. UNCHANGED <<free, page, mstate, sz>>
  BY DEF SegmentDone
<1>3. /\ kcall'[p].at = "seg" /\ kcall'[p].call = "exec" /\ kcall'[p].to = kcall[p].to
      /\ kcall' \in [Users -> CallType]
      /\ \A q \in Users : q # p => kcall'[q] = kcall[q]
  BY <1>1 DEF SegmentDone, Goto, MemInv, MemTypeOK, CallType
<1>4. kcall[p].a = PGROUNDUP(kcall[p].to)
  BY <1>1, LoopEnds
<1>5. StepOf(p)'
  BY <1>1, <1>2, <1>3 DEF StepOf
<1>6. Vacant(p)'
  BY <1>1, <1>2, <1>3 DEF Vacant
<1>7. Mapped(p)'
  BY <1>1, <1>2, <1>3, <1>4 DEF Mapped, MappedTo, Target
<1>8. sz' \in [Users -> 0 .. KERNBASE - 1]
  BY <1>2 DEF MemInv, MemTypeOK
<1> QED
  BY <1>1, <1>2, <1>3, <1>5, <1>6, <1>7, <1>8, CallStep DEF ProcInv

\* growproc() with a positive argument begins.
LEMMA GrowSafe ==
  ASSUME MemInv, NEW p \in Users, NEW z \in Growths, Grow(p, z)
  PROVE  MemInv'
<1>1. /\ kcall[p] \in CallType /\ mstate[p] = "user" /\ kcall[p].at = "user"
      /\ StepOf(p) /\ Vacant(p) /\ Mapped(p) /\ kcall[p].call = "" /\ sz[p] \in Nat
  BY CallFacts, UserFacts DEF Grow, At
<1>2. UNCHANGED <<free, page, mstate, sz>>
  BY DEF Grow
<1>3. z > 0 /\ Allocuvm(p, "sbrk", sz[p], sz[p] + z)
  BY DEF Grow
<1> DEFINE end == sz[p] + z
<1>e. end \in Nat /\ end >= sz[p]
  <2>1. z \in Int /\ z > 0 /\ sz[p] \in Nat
    BY <1>1, <1>3, MemoryAssumption
  <2> QED
    BY <2>1
<1> HIDE DEF end
<1>5. PGROUNDUP(sz[p]) \in Nat /\ PGROUNDUP(end) \in Nat /\ PGROUNDUP(sz[p]) <= PGROUNDUP(end)
  BY <1>1, <1>e, Rounding, RoundingMonotone
<1>6. /\ kcall'[p].at = "alloc" /\ kcall'[p].call = "sbrk" /\ kcall'[p].a = PGROUNDUP(sz[p])
      /\ kcall'[p].from = sz[p] /\ kcall'[p].to = end /\ end < KERNBASE
      /\ kcall' \in [Users -> CallType]
      /\ \A q \in Users : q # p => kcall'[q] = kcall[q]
  BY <1>1, <1>3, <1>e, <1>5 DEF Allocuvm, MemInv, MemTypeOK, CallType, end
<1>7. StepOf(p)'
  <2>1. PGROUNDUP(kcall'[p].from) <= kcall'[p].a
    BY <1>5, <1>6
  <2>2. sz'[p] = sz[p] /\ mstate'[p] = "user"
    BY <1>1, <1>2
  <2> HIDE DEF end
  <2> QED
    BY <1>6, <2>1, <2>2 DEF StepOf
<1>8. Vacant(p)'
  BY <1>1, <1>2, <1>6 DEF Vacant, NoPages
<1>9. Mapped(p)'
  BY <1>1, <1>2, <1>5, <1>6 DEF Mapped, MappedTo, Target
<1>10. sz' \in [Users -> 0 .. KERNBASE - 1]
  BY <1>2 DEF MemInv, MemTypeOK
<1> QED
  BY <1>1, <1>2, <1>6, <1>7, <1>8, <1>9, <1>10, CallStep DEF ProcInv

\* A process that has grown has the pages of its new size.
LEMMA GrowDoneSafe ==
  ASSUME MemInv, NEW p \in Users, GrowDone(p)
  PROVE  MemInv'
<1>1. /\ kcall[p] \in CallType /\ mstate[p] = "user" /\ kcall[p].at = "alloc"
      /\ StepOf(p) /\ Vacant(p) /\ Mapped(p) /\ kcall[p].call = "sbrk"
      /\ kcall[p].a * PGSIZE >= kcall[p].to /\ kcall[p].to \in Nat /\ kcall[p].to < KERNBASE
  BY CallFacts DEF GrowDone, Allocated, At, StepOf
<1>2. UNCHANGED <<free, page, mstate>>
  BY DEF GrowDone
<1>3. NoCall \in CallType /\ NoCall.at = "user" /\ NoCall.call = "" /\ NoCall.to = 0
  BY DEF NoCall, CallType
<1>4. /\ kcall'[p] = NoCall /\ kcall' \in [Users -> CallType]
      /\ \A q \in Users : q # p => kcall'[q] = kcall[q]
  BY <1>3 DEF GrowDone, MemInv, MemTypeOK
<1>5. /\ sz'[p] = kcall[p].to /\ sz' \in [Users -> 0 .. KERNBASE - 1]
      /\ \A q \in Users : q # p => sz'[q] = sz[q]
  BY <1>1, MemoryAssumption DEF GrowDone, MemInv, MemTypeOK
<1>6. kcall[p].a = PGROUNDUP(kcall[p].to)
  BY <1>1, LoopEnds
<1>7. StepOf(p)'
  <2>1. 0 < KERNBASE
    BY MemoryAssumption
  <2> QED
    BY <1>1, <1>2, <1>3, <1>4, <2>1 DEF StepOf
<1>8. Vacant(p)'
  BY <1>1, <1>2, <1>3, <1>4 DEF Vacant, NoPages
<1>9. Mapped(p)'
  BY <1>1, <1>2, <1>3, <1>4, <1>5, <1>6 DEF Mapped, MappedTo, Target
<1> QED
  BY <1>1, <1>2, <1>3, <1>4, <1>5, <1>7, <1>8, <1>9, CallStep DEF ProcInv

\* exit() keeps the memory until wait().
LEMMA MemExitSafe ==
  ASSUME MemInv, NEW p \in Users, ExitProc(p)
  PROVE  MemInv'
<1>1. /\ mstate[p] = "user" /\ kcall[p].at \in {"user", "fault"}
      /\ StepOf(p) /\ Vacant(p) /\ kcall[p].call = ""
  BY CallFacts, UserFacts DEF ExitProc, At, StepOf
<1>2. UNCHANGED <<free, page, sz, kcall>> /\ mstate' = [mstate EXCEPT ![p] = "zombie"]
  BY DEF ExitProc
<1>3. mstate'[p] = "zombie" /\ \A q \in Users : q # p => mstate'[q] = mstate[q]
  BY <1>2 DEF MemInv, MemTypeOK
<1>4. MemTypeOK'
  BY <1>2 DEF MemInv, MemTypeOK
<1>5. ChildInv'
  BY <1>1, <1>2, <1>3 DEF MemInv, ChildInv
<1>6. StepOf(p)'
  BY <1>1, <1>2, <1>3 DEF StepOf
<1>7. Vacant(p)'
  BY <1>1, <1>2, <1>3 DEF Vacant, NoPages
<1>8. Mapped(p)'
  BY <1>1, <1>2, <1>3 DEF Mapped
<1> DEFINE S == {p}
<1>9. \A q \in S : ProcInv(q)'
  BY <1>6, <1>7, <1>8 DEF ProcInv
<1>10. \A q \in Users \ S : kcall'[q] = kcall[q] /\ mstate'[q] = mstate[q] /\ sz'[q] = sz[q]
  BY <1>2, <1>3
<1> HIDE DEF S
<1> QED
  BY <1>2, <1>4, <1>5, <1>9, <1>10, QuietSafe

-----------------------------------------------------------------------------
(* Steps that take or give back a page                                     *)

\* A step of the call of p that changes pages of its own places.
LEMMA OwnStep ==
  ASSUME MemInv, NEW p \in Users, mstate' = mstate, ProcInv(p)', mstate[p] = "user",
         sz' \in [Users -> 0 .. KERNBASE - 1], \A q \in Users : q # p => sz'[q] = sz[q],
         page' \in [Place -> Pages \cup {0}], free' \subseteq Pages, Owned(page', free'),
         kcall' \in [Users -> CallType], \A q \in Users : q # p => kcall'[q] = kcall[q],
         \A pl \in Place : pl \notin Own(p) => page'[pl] = page[pl],
         kcall'[p].call = "fork" <=> kcall[p].call = "fork",
         kcall'[p].call = "fork" => kcall'[p].child = kcall[p].child
  PROVE  MemInv'
<1> DEFINE S == {p}
<1>1. MemTypeOK'
  BY DEF MemInv, MemTypeOK
<1>2. PagesPartitioned'
  BY <1>1, PartitionNext
<1>3. ChildInv'
  BY SameChildren
<1>4. \A q \in S : ProcInv(q)'
  OBVIOUS
<1>5. ASSUME NEW q \in Users \ S
      PROVE  /\ kcall'[q] = kcall[q] /\ mstate'[q] = mstate[q] /\ sz'[q] = sz[q]
             /\ \A pl \in Own(q) : page'[pl] = page[pl]
             /\ kcall[q].at = "kstack" =>
                  page'[KernelStack(kcall[q].child)] = page[KernelStack(kcall[q].child)]
  <2>1. \A pl \in Own(q) : pl \in Place /\ pl \notin Own(p)
    BY OwnApart, PlaceFacts DEF Own
  <2>2. ASSUME kcall[q].at = "kstack"
        PROVE  page'[KernelStack(kcall[q].child)] = page[KernelStack(kcall[q].child)]
    <3> DEFINE d == kcall[q].child
    <3>1. kcall[q].call = "fork" /\ mstate[q] = "user"
      BY <2>2, CallFacts DEF StepOf
    <3>2. d \in Users /\ d # p
      BY <3>1, ChildFacts
    <3>3. KernelStack(d) \in Own(d) /\ KernelStack(d) \in Place
      BY <3>2, PlaceFacts DEF Own
    <3> QED
      BY <3>2, <3>3, OwnApart
  <2> QED
    BY <2>1, <2>2
<1> HIDE DEF S
<1> QED
  BY <1>1, <1>2, <1>3, <1>4, <1>5, OthersSafe

\* Such a step inside of the call, which leaves the size alone.
LEMMA PageStep ==
  ASSUME MemInv, NEW p \in Users, UNCHANGED <<mstate, sz>>, ProcInv(p)', mstate[p] = "user",
         page' \in [Place -> Pages \cup {0}], free' \subseteq Pages, Owned(page', free'),
         kcall' \in [Users -> CallType], \A q \in Users : q # p => kcall'[q] = kcall[q],
         \A pl \in Place : pl \notin Own(p) => page'[pl] = page[pl],
         kcall'[p].call = "fork" <=> kcall[p].call = "fork",
         kcall'[p].call = "fork" => kcall'[p].child = kcall[p].child
  PROVE  MemInv'
<1>1. sz' \in [Users -> 0 .. KERNBASE - 1]
  BY DEF MemInv, MemTypeOK
<1> QED
  BY <1>1, OwnStep

\* Pages of user memory, in the address space of a process and of its call.
LEMMA UserPageFacts ==
  ASSUME NEW p \in Users, NEW s \in {"as", "new"}, NEW i \in Index
  PROVE  /\ PageAt(p, s, i) \in Place /\ PageAt(p, s, i) \in Space(p, s) /\ PageAt(p, s, i) \in Own(p)
         /\ PageAt(p, s, i) # KernelStack(p) /\ PageAt(p, s, i) # InHand(p)
         /\ \A z : PageAt(p, s, i) # <<p, s, <<"kvm", z>>>>
         /\ PageAt(p, "as", i) # PageAt(p, "new", i)
BY DEF PageAt, Space, Parts, Place, KernelStack, InHand, Own

\* A call that fails, and is not sbrk(), gives back the address space that it was making.
LEMMA FailsNew ==
  ASSUME MemInv, NEW p \in Users, mstate[p] = "user", kcall[p].at \notin {"user", "fault"},
         kcall[p].call # "sbrk",
         NEW S, S \subseteq Space(p, "new") \cup {InHand(p)}, Fails(p, S),
         \A pl \in Space(p, "new") \cup {InHand(p)} : pl \in S \/ page[pl] = 0
  PROVE  MemInv'
<1>1. S \cap Space(p, "as") = {} /\ S \subseteq Space(p, "as") \cup Space(p, "new") \cup {InHand(p)}
  BY KindsApart
<1>2. MappedTo(p, "as", PGROUNDUP(sz[p]))
  BY CallFacts DEF Mapped
<1>3. \A i \in Index : page'[PageAt(p, "as", i)] # 0 <=> i < PGROUNDUP(sz[p])
  BY <1>1, <1>2, FailsKeep
<1>4. sz' = sz
  BY DEF Fails
<1>5. MappedTo(p, "as", PGROUNDUP(sz[p]))'
  BY <1>3, <1>4 DEF MappedTo
<1> QED
  BY <1>1, <1>5, FailsSafe

\* A page of the new address space for the kernel.
LEMMA SetupkvmSafe ==
  ASSUME MemInv, NEW p \in Users, Setupkvm(p)
  PROVE  MemInv'
<1>1. /\ kcall[p] \in CallType /\ mstate[p] = "user" /\ kcall[p].at = "kvm"
      /\ StepOf(p) /\ Vacant(p) /\ Mapped(p) /\ kcall[p].call \in {"fork", "exec"}
      /\ kcall[p].a \in Nat /\ kcall[p].a <= KernelTables
  BY CallFacts DEF Setupkvm, At, StepOf
<1>2. CASE free = {}
  <2>1. Fails(p, Space(p, "new"))
    BY <1>2 DEF Setupkvm
  <2>2. page[InHand(p)] = 0
    BY <1>1 DEF Vacant
  <2> DEFINE S == Space(p, "new")
  <2>4. S \subseteq Space(p, "new") \cup {InHand(p)}
    OBVIOUS
  <2>5. \A pl \in Space(p, "new") \cup {InHand(p)} : pl \in S \/ page[pl] = 0
    BY <2>2
  <2>6. Fails(p, S)
    BY <2>1
  <2> HIDE DEF S
  <2> QED
    BY <1>1, <2>4, <2>5, <2>6, FailsNew
<1>3. CASE free # {}
  <2> DEFINE pl == <<p, "new", <<"kvm", kcall[p].a>>>>
             l == <<"kvm", kcall[p].a>>
  <2>1. /\ Kalloc(pl) /\ kcall' = [kcall EXCEPT ![p].a = @ + 1] /\ UNCHANGED <<mstate, sz>>
    BY <1>3 DEF Setupkvm
  <2>2. l \in Parts /\ pl \in Space(p, "new")
    <3>1. kcall[p].a \in 0 .. KernelTables
      BY <1>1, MemoryAssumption
    <3> QED
      BY <3>1 DEF Parts, Space
  <2>3. pl \in Place /\ page[pl] = 0 /\ pl \in Own(p) /\ pl # InHand(p)
    <3>1. l[1] = "kvm" /\ l[2] = kcall[p].a
      OBVIOUS
    <3>2. page[<<p, "new", l>>] = 0
      BY <1>1, <2>2, <3>1 DEF Vacant
    <3> QED
      BY <2>2, <3>2, PlaceFacts, KindsApart DEF Own
  <2>4. /\ page' \in [Place -> Pages \cup {0}] /\ free' \subseteq Pages /\ Owned(page', free')
        /\ \A pm \in Place : pm # pl => page'[pm] = page[pm]
    BY <1>3, <2>1, <2>3, KallocSafe
  <2>5. /\ kcall'[p].at = "kvm" /\ kcall'[p].a = kcall[p].a + 1 /\ kcall'[p].call = kcall[p].call
        /\ kcall'[p].child = kcall[p].child /\ kcall'[p].to = kcall[p].to
        /\ kcall' \in [Users -> CallType]
        /\ \A q \in Users : q # p => kcall'[q] = kcall[q]
    <3>1. kcall[p].a + 1 \in Nat /\ kcall \in [Users -> CallType]
      BY <1>1 DEF MemInv, MemTypeOK
    <3>2. kcall' = [kcall EXCEPT ![p] = [kcall[p] EXCEPT !.a = kcall[p].a + 1]]
      BY <2>1
    <3>3. [kcall[p] EXCEPT !.a = kcall[p].a + 1] \in CallType
      BY <1>1, <3>1 DEF CallType
    <3> QED
      BY <1>1, <3>1, <3>2, <3>3 DEF CallType
  <2>6. StepOf(p)'
    <3>1. kcall[p].a + 1 <= KernelTables + 1
      BY <1>1, MemoryAssumption
    <3> QED
      BY <1>1, <2>1, <2>5, <3>1 DEF StepOf
  <2>7. Vacant(p)'
    <3>1. page'[InHand(p)] = 0
      BY <1>1, <2>3, <2>4, PlaceFacts DEF Vacant
    <3>2. ASSUME NEW m \in Parts, m[1] # "kvm" \/ m[2] >= kcall[p].a + 1
          PROVE  page'[<<p, "new", m>>] = 0
      <4>1. m[1] # "kvm" \/ (m[2] \in Int /\ m[2] >= kcall[p].a /\ m[2] # kcall[p].a)
        BY <1>1, <3>2, MemoryAssumption DEF Parts
      <4>2. page[<<p, "new", m>>] = 0
        BY <1>1, <4>1 DEF Vacant
      <4>3. <<p, "new", m>> \in Place /\ <<p, "new", m>> # pl
        BY <4>1 DEF Place
      <4> QED
        BY <2>4, <4>2, <4>3
    <3> QED
      BY <1>1, <2>1, <2>5, <3>1, <3>2 DEF Vacant
  <2>8. Mapped(p)'
    <3>1. \A i \in Index : page'[PageAt(p, "as", i)] = page[PageAt(p, "as", i)]
      <4>1. \A i \in Index : PageAt(p, "as", i) \in Place /\ PageAt(p, "as", i) \notin Space(p, "new")
        BY UserPageFacts, KindsApart
      <4> QED
        BY <2>2, <2>4, <4>1
    <3> QED
      BY <1>1, <2>1, <2>5, <3>1 DEF Mapped, MappedTo
  <2>9. \A pm \in Place : pm \notin Own(p) => page'[pm] = page[pm]
    BY <2>3, <2>4
  <2> QED
    BY <1>1, <2>1, <2>4, <2>5, <2>6, <2>7, <2>8, <2>9, PageStep DEF ProcInv
<1> QED
  BY <1>2, <1>3

\* allocproc(): the child gets its kernel stack, or fork() fails.
LEMMA KstackSafe ==
  ASSUME MemInv, NEW p \in Users, Kstack(p)
  PROVE  MemInv'
<1>1. /\ kcall[p] \in CallType /\ mstate[p] = "user" /\ kcall[p].at = "kstack"
      /\ StepOf(p) /\ Vacant(p) /\ Mapped(p) /\ kcall[p].call = "fork" /\ kcall[p].a = 0
  BY CallFacts DEF Kstack, At, StepOf
<1>2. \A pl \in Space(p, "new") \cup {InHand(p)} : page[pl] = 0
  BY <1>1 DEF Vacant, NoPages
<1>3. CASE free = {}
  <2> DEFINE S == {}
  <2>1. S \subseteq Space(p, "new") \cup {InHand(p)} /\ Fails(p, S)
    BY <1>3 DEF Kstack
  <2> HIDE DEF S
  <2> QED
    BY <1>1, <1>2, <2>1, FailsNew
<1>4. CASE free # {}
  <2>1. PICK c \in Users : c = kcall[p].child
    BY <1>1, ChildFacts
  <2>2. /\ c # p /\ mstate[c] = "embryo" /\ kcall[c].at = "user"
        /\ \A q \in Users : q # p /\ kcall[q].call = "fork" => kcall[q].child # c
    BY <1>1, <2>1, ChildFacts
  <2> DEFINE pl == KernelStack(c)
  <2>3. Kalloc(pl) /\ Goto(p, "kvm") /\ UNCHANGED <<mstate, sz>>
    BY <1>4, <2>1 DEF Kstack
  <2>4. pl \in Place /\ page[pl] = 0 /\ pl \in Own(c)
    BY <1>1, <2>1, PlaceFacts DEF Vacant, Own
  <2>5. /\ page' \in [Place -> Pages \cup {0}] /\ free' \subseteq Pages /\ Owned(page', free')
        /\ \A pm \in Place : pm # pl => page'[pm] = page[pm]
    BY <1>4, <2>3, <2>4, KallocSafe
  <2>6. /\ kcall'[p].at = "kvm" /\ kcall'[p].a = 0 /\ kcall'[p].call = "fork"
        /\ kcall'[p].child = kcall[p].child /\ kcall'[p].to = kcall[p].to
        /\ kcall' \in [Users -> CallType]
        /\ \A q \in Users : q # p => kcall'[q] = kcall[q]
    BY <1>1, <2>3 DEF Goto, MemInv, MemTypeOK, CallType
  <2>7. ProcInv(p)'
    <3>1. \A pm \in Own(p) : page'[pm] = page[pm]
      BY <2>2, <2>4, <2>5, OwnApart, PlaceFacts DEF Own
    <3>2. StepOf(p)'
      <4>1. 0 <= KernelTables + 1
        BY MemoryAssumption
      <4> QED
        BY <1>1, <2>3, <2>6, <4>1 DEF StepOf
    <3>3. Vacant(p)'
      <4>1. \A l \in Parts : page'[<<p, "new", l>>] = 0
        BY <1>2, <3>1 DEF Own, Space
      <4>2. page'[InHand(p)] = 0
        BY <1>2, <3>1 DEF Own
      <4> QED
        BY <1>1, <2>3, <2>6, <4>1, <4>2 DEF Vacant
    <3>4. Mapped(p)'
      <4>1. \A i \in Index : page'[PageAt(p, "as", i)] = page[PageAt(p, "as", i)]
        BY <3>1, UserPageFacts
      <4> QED
        BY <1>1, <2>3, <2>6, <4>1 DEF Mapped, MappedTo
    <3> QED
      BY <3>2, <3>3, <3>4 DEF ProcInv
  <2>8. ProcInv(c)'
    <3>1. StepOf(c) /\ Vacant(c) /\ kcall'[c] = kcall[c]
      BY <2>2, <2>6, CallFacts
    <3>2. StepOf(c)'
      BY <2>2, <2>3, <3>1 DEF StepOf
    <3>3. Vacant(c)'
      <4>1. \A pm \in Space(c, "as") \cup Space(c, "new") \cup {InHand(c)} : page'[pm] = page[pm]
        BY <2>5, PlaceFacts, KindsApart
      <4>2. \A pm \in Space(c, "as") \cup Space(c, "new") \cup {InHand(c)} : page[pm] = 0
        BY <2>2, <3>1 DEF Vacant, NoPages
      <4> QED
        BY <2>2, <2>3, <3>1, <4>1, <4>2 DEF Vacant, NoPages
    <3>4. Mapped(c)'
      BY <2>2, <2>3, <3>1 DEF Mapped
    <3> QED
      BY <3>2, <3>3, <3>4 DEF ProcInv
  <2>9. MemTypeOK'
    BY <2>3, <2>5, <2>6 DEF MemInv, MemTypeOK
  <2>10. PagesPartitioned'
    BY <2>5, <2>9, PartitionNext
  <2>11. ChildInv'
    BY <1>1, <2>3, <2>6, SameChildren
  <2> DEFINE S == {p, c}
  <2>12. \A q \in S : ProcInv(q)'
    BY <2>7, <2>8
  <2>13. ASSUME NEW q \in Users \ S
         PROVE  /\ kcall'[q] = kcall[q] /\ mstate'[q] = mstate[q] /\ sz'[q] = sz[q]
                /\ \A pm \in Own(q) : page'[pm] = page[pm]
                /\ kcall[q].at = "kstack" =>
                     page'[KernelStack(kcall[q].child)] = page[KernelStack(kcall[q].child)]
    <3>1. \A pm \in Own(q) : pm \in Place /\ pm # pl
      BY <2>4, OwnApart, PlaceFacts DEF Own
    <3>2. ASSUME kcall[q].at = "kstack"
          PROVE  page'[KernelStack(kcall[q].child)] = page[KernelStack(kcall[q].child)]
      <4> DEFINE d == kcall[q].child
      <4>1. kcall[q].call = "fork" /\ mstate[q] = "user"
        BY <3>2, CallFacts DEF StepOf
      <4>2. d \in Users /\ d # c
        BY <2>2, <4>1, ChildFacts
      <4>3. KernelStack(d) \in Place /\ KernelStack(d) # pl
        BY <4>2, PlaceFacts DEF KernelStack
      <4> QED
        BY <2>5, <4>3
    <3> QED
      BY <2>3, <2>5, <2>6, <3>1, <3>2
  <2> HIDE DEF S, pl
  <2> QED
    BY <2>9, <2>10, <2>11, <2>12, <2>13, OthersSafe
<1> QED
  BY <1>3, <1>4

\* An image that exec() cannot use.
LEMMA BadSafe ==
  ASSUME MemInv, NEW p \in Users, Bad(p)
  PROVE  MemInv'
<1>1. /\ mstate[p] = "user" /\ kcall[p].at \in {"seg", "alloc"} /\ kcall[p].call # "sbrk"
      /\ Vacant(p)
  BY CallFacts DEF Bad, At, Allocated, StepOf
<1>2. page[InHand(p)] = 0
  BY <1>1 DEF Vacant
<1> DEFINE S == Space(p, "new")
<1>3. /\ S \subseteq Space(p, "new") \cup {InHand(p)} /\ Fails(p, S)
      /\ \A pl \in Space(p, "new") \cup {InHand(p)} : pl \in S \/ page[pl] = 0
  BY <1>2 DEF Bad
<1> HIDE DEF S
<1> QED
  BY <1>1, <1>3, FailsNew

\* What a failing step of allocuvm() or copyuvm() gives back is all that the call has taken.
LEMMA GivenBackSafe ==
  ASSUME MemInv, NEW p \in Users, mstate[p] = "user",
         kcall[p].at \in {"alloc", "copy", "map", "mapcopy"}, Fails(p, GivenBack(p))
  PROVE  MemInv'
<1>1. /\ StepOf(p) /\ Vacant(p) /\ Mapped(p) /\ sz[p] \in Nat
      /\ kcall[p].a \in Nat /\ kcall[p].from \in Nat /\ kcall[p].to \in Nat
  BY CallFacts
<1>2. CASE kcall[p].call # "sbrk"
  <2> DEFINE S == GivenBack(p)
  <2>1. S = {InHand(p)} \cup Space(p, "new")
    BY <1>2 DEF GivenBack
  <2>2. /\ S \subseteq Space(p, "new") \cup {InHand(p)} /\ Fails(p, S)
        /\ \A pl \in Space(p, "new") \cup {InHand(p)} : pl \in S \/ page[pl] = 0
    BY <2>1
  <2> HIDE DEF S
  <2> QED
    BY <1>2, <2>2, FailsNew
<1>3. CASE kcall[p].call = "sbrk"
  <2> DEFINE B == Beyond(p, "as", kcall[p].to, kcall[p].from)
             S == GivenBack(p)
  <2>1. S = {InHand(p)} \cup B
    BY <1>3 DEF GivenBack
  <2>2. B \subseteq Space(p, "as")
    BY PartFacts DEF Beyond
  <2>3. NoPages(Space(p, "new"))
    BY <1>1, <1>3 DEF Vacant
  <2>4. /\ S \subseteq Space(p, "as") \cup Space(p, "new") \cup {InHand(p)} /\ Fails(p, S)
        /\ \A pl \in Space(p, "new") \cup {InHand(p)} : pl \in S \/ page[pl] = 0
    BY <2>1, <2>2, <2>3 DEF NoPages
  <2>5. /\ kcall[p].from = sz[p] /\ PGROUNDUP(sz[p]) <= kcall[p].a /\ kcall[p].call # "fork"
        /\ Target(p) = "as" /\ PGROUNDUP(sz[p]) \in Nat
    BY <1>1, <1>3, Rounding DEF StepOf, Target
  <2>6. MappedTo(p, "as", kcall[p].a) /\ kcall[p].a <= PGROUNDUP(kcall[p].to)
    BY <1>1, <2>5 DEF Mapped
  <2>7. ASSUME NEW i \in Index PROVE page'[PageAt(p, "as", i)] # 0 <=> i < PGROUNDUP(sz[p])
    <3> DEFINE pl == PageAt(p, "as", i)
    <3>1. pl \in Place /\ pl \notin Space(p, "new") /\ pl # InHand(p)
      BY UserPageFacts, KindsApart
    <3>2. i \in Nat
      BY UserPages DEF Index
    <3>3. pl \in B <=> i >= PGROUNDUP(sz[p]) /\ i * PGSIZE < kcall[p].to
      BY <2>5, PartFacts DEF Beyond
    <3>4. i * PGSIZE < kcall[p].to <=> i < PGROUNDUP(kcall[p].to)
      BY <1>1, <3>2, Rounding
    <3>5. PGROUNDUP(kcall[p].to) \in Nat
      BY <1>1, Rounding
    <3>6. page[pl] # 0 <=> i < kcall[p].a
      BY <2>6 DEF MappedTo
    <3> HIDE DEF pl, B
    <3>7. page' = Emptied(S \cup Space(p, "new") \cup {InHand(p)} \cup {})
      BY <2>4, <2>5 DEF Fails
    <3>8. page'[pl] = IF pl \in B THEN 0 ELSE page[pl]
      BY <2>1, <3>1, <3>7 DEF Emptied
    <3>9. page'[pl] # 0 <=> i < PGROUNDUP(sz[p])
      BY <1>1, <2>5, <2>6, <3>2, <3>3, <3>4, <3>5, <3>6, <3>8
    <3> QED
      BY <3>9 DEF pl
  <2>8. MappedTo(p, "as", PGROUNDUP(sz[p]))'
    <3>1. sz' = sz
      BY DEF Fails
    <3> QED
      BY <2>7, <3>1 DEF MappedTo
  <2> HIDE DEF S
  <2> QED
    BY <2>4, <2>8, FailsSafe
<1> QED
  BY <1>2, <1>3

\* A page is allocated for the next address of a loop.
LEMMA AllocPageSafe ==
  ASSUME MemInv, NEW p \in Users, AllocPage(p)
  PROVE  MemInv'
<1>1. /\ kcall[p] \in CallType /\ mstate[p] = "user" /\ kcall[p].at \in {"alloc", "copy"}
      /\ StepOf(p) /\ Vacant(p) /\ Mapped(p) /\ kcall[p].a \in Nat /\ kcall[p].to \in Nat
      /\ kcall[p].a * PGSIZE < kcall[p].to
  BY CallFacts DEF AllocPage, At
<1>2. CASE free = {}
  <2>1. Fails(p, GivenBack(p))
    BY <1>2 DEF AllocPage
  <2> QED
    BY <1>1, <2>1, GivenBackSafe
<1>3. CASE free # {}
  <2> DEFINE h == InHand(p)
  <2>1. /\ Kalloc(h) /\ UNCHANGED <<mstate, sz>>
        /\ Goto(p, IF kcall[p].at = "copy" THEN "mapcopy" ELSE "map")
    BY <1>3 DEF AllocPage
  <2>2. h \in Place /\ h \in Own(p) /\ page[h] = 0
    BY <1>1, PlaceFacts DEF Vacant, Own
  <2>3. /\ page' \in [Place -> Pages \cup {0}] /\ free' \subseteq Pages /\ Owned(page', free')
        /\ page'[h] # 0 /\ \A pm \in Place : pm # h => page'[pm] = page[pm]
    BY <1>3, <2>1, <2>2, KallocSafe
  <2>4. /\ kcall'[p].at = IF kcall[p].at = "copy" THEN "mapcopy" ELSE "map"
        /\ kcall'[p].a = kcall[p].a /\ kcall'[p].call = kcall[p].call
        /\ kcall'[p].child = kcall[p].child /\ kcall'[p].to = kcall[p].to
        /\ kcall'[p].from = kcall[p].from
        /\ kcall' \in [Users -> CallType]
        /\ \A q \in Users : q # p => kcall'[q] = kcall[q]
    BY <1>1, <2>1 DEF Goto, MemInv, MemTypeOK, CallType
  <2>5. StepOf(p)'
    BY <1>1, <2>1, <2>4 DEF StepOf
  <2>6. Vacant(p)'
    <3>1. kcall[p].call = "sbrk" => \A pm \in Space(p, "new") : page'[pm] = 0
      BY <1>1, <2>3, KindsApart, PlaceFacts DEF Vacant, NoPages
    <3> QED
      BY <1>1, <2>1, <2>3, <2>4, <3>1 DEF Vacant, NoPages
  <2>7. Mapped(p)'
    <3>1. \A s \in {"as", "new"} : \A i \in Index : page'[PageAt(p, s, i)] = page[PageAt(p, s, i)]
      BY <2>3, UserPageFacts
    <3>2. kcall[p].a < PGROUNDUP(kcall[p].to)
      BY <1>1, Rounding
    <3>3. Target(p) \in {"as", "new"} /\ Target(p)' = Target(p)
      BY <2>4 DEF Target
    <3> QED
      BY <1>1, <2>1, <2>4, <3>1, <3>2, <3>3 DEF Mapped, MappedTo
  <2>8. \A pm \in Place : pm \notin Own(p) => page'[pm] = page[pm]
    BY <2>2, <2>3
  <2> HIDE DEF h
  <2> QED
    BY <1>1, <2>1, <2>3, <2>4, <2>5, <2>6, <2>7, <2>8, PageStep DEF ProcInv
<1> QED
  BY <1>2, <1>3

\* mappages(): the page in hand becomes a page of the address space; a page table may be
\* allocated for it.
LEMMA MapPageSafe ==
  ASSUME MemInv, NEW p \in Users, MapPage(p)
  PROVE  MemInv'
<1>1. /\ kcall[p] \in CallType /\ mstate[p] = "user" /\ kcall[p].at \in {"map", "mapcopy"}
      /\ StepOf(p) /\ Vacant(p) /\ Mapped(p) /\ kcall[p].a \in Nat /\ kcall[p].to \in Nat
      /\ kcall[p].from \in Nat /\ kcall[p].to < KERNBASE /\ page[InHand(p)] # 0
  BY CallFacts DEF MapPage, At, StepOf, Vacant
<1>2. PICK i \in Index : i = kcall[p].a
  <2>1. kcall[p].a < PGROUNDUP(kcall[p].to)
    BY <1>1 DEF Mapped
  <2> QED
    BY <1>1, <2>1, InUserMemory
<1>3. PICK s \in {"as", "new"} : s = Target(p)
  BY DEF Target
<1> DEFINE pl == PageAt(p, s, i)
           h == InHand(p)
           t == TableAt(p, s, i \div NPTENTRIES)
           Moved == [page EXCEPT ![pl] = page[h], ![h] = 0]
<1>4. CASE page[t] = 0 /\ free = {}
  <2>1. Fails(p, GivenBack(p))
    BY <1>2, <1>3, <1>4 DEF MapPage
  <2> QED
    BY <1>1, <2>1, GivenBackSafe
<1>5. CASE ~(page[t] = 0 /\ free = {})
  <2>1. /\ IF page[t] # 0 THEN page' = Moved /\ UNCHANGED free
           ELSE page' = [Moved EXCEPT ![t] = NewPage] /\ free' = free \ {NewPage}
        /\ kcall' = [kcall EXCEPT ![p].at = IF @ = "mapcopy" THEN "copy" ELSE "alloc", ![p].a = i + 1]
        /\ UNCHANGED <<mstate, sz>>
    BY <1>2, <1>3, <1>5 DEF MapPage
  <2>2. /\ pl \in Place /\ t \in Place /\ h \in Place
        /\ pl \in Own(p) /\ t \in Own(p) /\ h \in Own(p)
        /\ pl # t /\ pl # h /\ t # h /\ t \in Space(p, s)
    BY PartFacts, PlaceFacts, KindsApart DEF Own
  <2>3. page[pl] = 0 /\ MappedTo(p, s, i)
    <3>1. MappedTo(p, s, i)
      BY <1>1, <1>2, <1>3 DEF Mapped
    <3> QED
      BY <1>1, <1>2, <3>1 DEF MappedTo
  <2>4. page \in [Place -> Pages \cup {0}] /\ free \subseteq Pages /\ Owned(page, free)
    BY PartitionOwned DEF MemInv, MemTypeOK
  <2> DEFINE w == [x \in Place |-> IF x = pl THEN h ELSE IF x = h THEN pl ELSE x]
  <2>5. w \in [Place -> Place] /\ Moved \in [Place -> Pages \cup {0}] 
    BY <2>2, <2>4
  <2>6. \A x \in Place : w[w[x]] = x /\ Moved[x] = page[w[x]]
    BY <2>2, <2>3, <2>4
  <2>7. /\ Moved[pl] = page[h] /\ Moved[h] = 0
        /\ \A x \in Place : x \notin {pl, h} => Moved[x] = page[x]
    BY <2>2, <2>4
  <2> HIDE DEF w, Moved, pl, h, t
  <2>8. Owned(Moved, free)
    BY <2>4, <2>5, <2>6, OwnedSwap
  <2>9. /\ page' \in [Place -> Pages \cup {0}] /\ free' \subseteq Pages /\ Owned(page', free')
        /\ page'[pl] = page[h] /\ page'[h] = 0
        /\ \A x \in Place : x \notin {pl, h, t} => page'[x] = page[x]
    <3>1. CASE page[t] # 0
      BY <2>1, <2>2, <2>4, <2>5, <2>7, <2>8, <3>1
    <3>2. CASE page[t] = 0
      <4>1. NewPage \in free
        BY <1>5, <3>2 DEF NewPage, t
      <4>2. Moved[t] = 0
        BY <2>2, <2>7, <3>2
      <4>3. page' = [Moved EXCEPT ![t] = NewPage] /\ free' = free \ {NewPage}
        BY <2>1, <3>2
      <4>4. Owned(page', free')
        BY <2>2, <2>4, <2>5, <2>8, <4>1, <4>2, <4>3, OwnedTake
      <4> QED
        BY <2>2, <2>4, <2>5, <2>7, <4>1, <4>3, <4>4
    <3> QED
      BY <3>1, <3>2
  <2>10. /\ kcall'[p].at = IF kcall[p].at = "mapcopy" THEN "copy" ELSE "alloc"
         /\ kcall'[p].a = i + 1 /\ kcall'[p].call = kcall[p].call
         /\ kcall'[p].child = kcall[p].child /\ kcall'[p].to = kcall[p].to
         /\ kcall'[p].from = kcall[p].from
         /\ kcall' \in [Users -> CallType]
         /\ \A q \in Users : q # p => kcall'[q] = kcall[q]
    <3>1. i + 1 \in Nat /\ kcall \in [Users -> CallType]
      BY <1>1, <1>2 DEF MemInv, MemTypeOK
    <3> DEFINE new == [kcall[p] EXCEPT !.at = IF kcall[p].at = "mapcopy" THEN "copy" ELSE "alloc",
                                       !.a = i + 1]
    <3>2. kcall' = [kcall EXCEPT ![p] = new]
      BY <2>1
    <3>3. new \in CallType
      BY <1>1, <3>1 DEF CallType
    <3>4. /\ new.at = IF kcall[p].at = "mapcopy" THEN "copy" ELSE "alloc"
          /\ new.a = i + 1 /\ new.call = kcall[p].call /\ new.child = kcall[p].child
          /\ new.to = kcall[p].to /\ new.from = kcall[p].from
      BY <1>1 DEF CallType
    <3> HIDE DEF new
    <3>5. /\ kcall'[p] = new /\ kcall' \in [Users -> CallType]
          /\ \A q \in Users : q # p => kcall'[q] = kcall[q]
      BY <3>1, <3>2, <3>3
    <3> QED
      BY <3>4, <3>5
  <2>11. StepOf(p)'
    <3>1. kcall[p].call = "sbrk" => PGROUNDUP(kcall[p].from) <= i + 1
      <4>1. PGROUNDUP(kcall[p].from) \in Nat /\ i \in Nat
        BY <1>1, <1>2, Rounding
      <4> QED
        BY <1>1, <1>2, <4>1 DEF StepOf
    <3>2. /\ sz'[p] = sz[p] /\ mstate'[p] = "user"
          /\ kcall[p].at = "mapcopy" => kcall[p].call = "fork" /\ kcall[p].to = sz[p]
          /\ kcall[p].at = "map" => kcall[p].call \in {"exec", "stack", "sbrk"}
          /\ kcall[p].call = "sbrk" => kcall[p].from = sz[p]
      BY <1>1, <2>1 DEF StepOf
    <3>3. kcall'[p].at \in {"copy", "alloc"} /\ (kcall'[p].at = "copy" <=> kcall[p].at = "mapcopy")
      BY <2>10
    <3> QED
      BY <1>1, <2>10, <3>1, <3>2, <3>3 DEF StepOf
  <2>12. Target(p)' = s /\ (kcall[p].call = "sbrk" <=> s = "as")
    BY <1>3, <2>10 DEF Target
  <2>13. Vacant(p)'
    <3>1. kcall[p].call = "sbrk" => \A pm \in Space(p, "new") : page'[pm] = 0
      <4>1. kcall[p].call = "sbrk" => \A pm \in Space(p, "new") : pm \in Place /\ pm \notin {pl, h, t}
        BY <2>2, <2>12, KindsApart, PlaceFacts, PartFacts DEF pl, h
      <4> QED
        BY <1>1, <2>9, <4>1 DEF Vacant, NoPages
    <3>2. page'[InHand(p)] = 0
      BY <2>9 DEF h
    <3> QED
      BY <1>1, <2>1, <2>10, <3>1, <3>2 DEF Vacant, NoPages
  <2>14. Mapped(p)'
    <3>1. kcall[p].call # "sbrk" => MappedTo(p, "as", PGROUNDUP(sz[p]))'
      <4>1. kcall[p].call # "sbrk" =>
              \A j \in Index : page'[PageAt(p, "as", j)] = page[PageAt(p, "as", j)]
        <5>1. kcall[p].call # "sbrk" =>
                \A j \in Index : PageAt(p, "as", j) \in Place /\ PageAt(p, "as", j) \notin {pl, h, t}
          BY <2>2, <2>12, KindsApart, UserPageFacts DEF pl, h
        <5> QED
          BY <2>9, <5>1
      <4> QED
        BY <1>1, <2>1, <4>1 DEF Mapped, MappedTo
    <3>2. ASSUME NEW j \in Index PROVE page'[PageAt(p, s, j)] # 0 <=> j < i + 1
      <4>1. i \in Nat /\ j \in Nat
        BY <1>1, <1>2, UserPages DEF Index
      <4>2. CASE j = i
        BY <1>1, <2>9, <4>1, <4>2 DEF pl, h
      <4>3. CASE j # i
        <5>1. PageAt(p, s, j) \in Place /\ PageAt(p, s, j) \notin {pl, h, t}
          BY <4>3, PartFacts, UserPageFacts DEF pl, h, t
        <5> QED
          BY <2>3, <2>9, <4>1, <4>3, <5>1 DEF MappedTo
      <4> QED
        BY <4>2, <4>3
    <3>3. MappedTo(p, s, i + 1)'
      BY <3>2 DEF MappedTo
    <3>4. i + 1 <= PGROUNDUP(kcall[p].to)
      <4>1. PGROUNDUP(kcall[p].to) \in Nat /\ i < PGROUNDUP(kcall[p].to) /\ i \in Nat
        BY <1>1, <1>2, Rounding DEF Mapped
      <4> QED
        BY <4>1
    <3> QED
      BY <1>1, <2>1, <2>10, <2>12, <3>1, <3>3, <3>4 DEF Mapped
  <2>15. \A pm \in Place : pm \notin Own(p) => page'[pm] = page[pm]
    BY <2>2, <2>9
  <2> QED
    BY <1>1, <2>1, <2>9, <2>10, <2>11, <2>13, <2>14, <2>15, PageStep DEF ProcInv
<1> QED
  BY <1>4, <1>5

\* growproc() with a negative argument: the pages beyond the new size are free.
LEMMA ShrinkSafe ==
  ASSUME MemInv, NEW p \in Users, NEW z \in Growths, Shrink(p, z)
  PROVE  MemInv'
<1>1. /\ kcall[p] \in CallType /\ mstate[p] = "user" /\ kcall[p].at = "user"
      /\ StepOf(p) /\ Vacant(p) /\ Mapped(p) /\ kcall[p].call = "" /\ kcall[p].to = 0
      /\ sz[p] \in Nat /\ sz[p] < KERNBASE
  BY CallFacts, UserFacts DEF Shrink, At
<1> DEFINE newsz == sz[p] + z
           B == Beyond(p, "as", sz[p], newsz)
<1>2. newsz \in Nat /\ newsz <= sz[p]
  <2>1. z \in Int /\ z < 0 /\ sz[p] \in Nat /\ newsz >= 0
    BY <1>1, MemoryAssumption DEF Shrink
  <2> QED
    BY <2>1
<1>3. /\ page' = Emptied(B) /\ free' = free \cup PagesIn(B) /\ mstate' = mstate
      /\ IF newsz = 0 THEN Goto(p, "fault") /\ UNCHANGED sz
                      ELSE sz' = [sz EXCEPT ![p] = newsz] /\ UNCHANGED kcall
  BY DEF Shrink
<1>4. B \subseteq Space(p, "as") /\ B \subseteq Place
  BY PartFacts, PlaceFacts DEF Beyond
<1>5. page \in [Place -> Pages \cup {0}] /\ free \subseteq Pages /\ Owned(page, free)
  BY PartitionOwned DEF MemInv, MemTypeOK
<1>6. \A i \in Index : PageAt(p, "as", i) \in B <=> i >= PGROUNDUP(newsz) /\ i * PGSIZE < sz[p]
  BY PartFacts DEF Beyond
<1> HIDE DEF newsz, B
<1>7. /\ page' \in [Place -> Pages \cup {0}] /\ free' \subseteq Pages
      /\ \A pl \in Place : page'[pl] = IF pl \in B THEN 0 ELSE page[pl]
  BY <1>3, <1>4, <1>5 DEF Emptied, PagesIn
<1>8. Owned(page', free')
  BY <1>3, <1>4, <1>5, OwnedGive DEF Emptied, PagesIn
<1>9. /\ kcall'[p].at \in {"user", "fault"} /\ kcall'[p].call = "" /\ kcall'[p].to = 0
      /\ kcall' \in [Users -> CallType] /\ \A q \in Users : q # p => kcall'[q] = kcall[q]
      /\ newsz # 0 => kcall'[p] = NoCall
      /\ newsz = 0 => kcall'[p].at = "fault"
  <2>1. CASE newsz = 0
    <3> DEFINE new == [kcall[p] EXCEPT !.at = "fault"]
    <3>1. /\ new \in CallType /\ new.at = "fault" /\ new.call = "" /\ new.to = 0
      BY <1>1 DEF CallType
    <3>2. kcall' = [kcall EXCEPT ![p] = new] /\ kcall \in [Users -> CallType]
      BY <1>3, <2>1 DEF Goto, MemInv, MemTypeOK
    <3> HIDE DEF new
    <3> QED
      BY <2>1, <3>1, <3>2
  <2>2. CASE newsz # 0
    BY <1>1, <1>3, <2>2, UserFacts DEF MemInv, MemTypeOK
  <2> QED
    BY <2>1, <2>2
<1>10. /\ sz' \in [Users -> 0 .. KERNBASE - 1] /\ \A q \in Users : q # p => sz'[q] = sz[q]
       /\ newsz # 0 => sz'[p] = newsz
  <2>1. newsz \in 0 .. KERNBASE - 1
    <3>1. sz[p] \in Nat /\ sz[p] < KERNBASE /\ KERNBASE \in Nat
      BY <1>1, MemoryAssumption
    <3> QED
      BY <1>2, <3>1
  <2> QED
    BY <1>3, <2>1 DEF MemInv, MemTypeOK
<1>11. StepOf(p)'
  <2>1. 0 < KERNBASE
    BY MemoryAssumption
  <2>2. newsz = 0 \/ kcall'[p] = NoCall
    BY <1>9
  <2> QED
    BY <1>1, <1>3, <1>9, <2>1, <2>2 DEF StepOf
<1>12. \A pl \in Space(p, "new") \cup {InHand(p)} : page'[pl] = page[pl] /\ page[pl] = 0
  BY <1>1, <1>4, <1>7, KindsApart, PlaceFacts DEF Vacant, NoPages
<1>13. Vacant(p)'
  BY <1>1, <1>3, <1>9, <1>12 DEF Vacant, NoPages
<1>14. Mapped(p)'
  <2>1. ASSUME newsz # 0, NEW i \in Index
        PROVE page'[PageAt(p, "as", i)] # 0 <=> i < PGROUNDUP(newsz)
    <3>1. /\ i \in Nat /\ PGROUNDUP(newsz) \in Nat /\ PGROUNDUP(sz[p]) \in Nat
          /\ PGROUNDUP(newsz) <= PGROUNDUP(sz[p])
      <4>1. i \in Nat
        BY UserPages DEF Index
      <4>2. sz[p] \in Nat
        BY <1>1
      <4> QED
        BY <1>2, <4>1, <4>2, Rounding, RoundingMonotone
    <3>2. i * PGSIZE < sz[p] <=> i < PGROUNDUP(sz[p])
      <4>1. sz[p] \in Nat
        BY <1>1
      <4> QED
        BY <3>1, <4>1, Rounding
    <3>3. page[PageAt(p, "as", i)] # 0 <=> i < PGROUNDUP(sz[p])
      BY <1>1 DEF Mapped, MappedTo
    <3>4. PageAt(p, "as", i) \in Place
      BY UserPageFacts
    <3> QED
      BY <1>6, <1>7, <3>1, <3>2, <3>3, <3>4
  <2>2. newsz # 0 => MappedTo(p, "as", PGROUNDUP(sz[p]))'
    BY <1>10, <2>1 DEF MappedTo
  <2> QED
    BY <1>9, <2>2 DEF Mapped
<1>15. \A pl \in Place : pl \notin Own(p) => page'[pl] = page[pl]
  BY <1>4, <1>7 DEF Own
<1> QED
  BY <1>1, <1>3, <1>7, <1>8, <1>9, <1>10, <1>11, <1>13, <1>14, <1>15, OwnStep DEF ProcInv

-----------------------------------------------------------------------------
(* Steps that hand over or drop an address space                           *)

\* An address space that is handed over to a process without one keeps its pages.
LEMMA HandedOwned ==
  ASSUME NEW f \in [Place -> Pages \cup {0}], NEW F \in SUBSET Pages, Owned(f, F),
         NEW p \in Users, NEW q \in Users, \A pl \in Space(q, "as") : f[pl] = 0,
         NEW g, g = [pl \in Place |-> IF pl \in Space(q, "as") THEN f[<<p, "new", pl[3]>>]
                                      ELSE IF pl \in Space(p, "new") THEN 0 ELSE f[pl]]
  PROVE  g \in [Place -> Pages \cup {0}] /\ Owned(g, F)
<1> DEFINE w == [pl \in Place |-> IF pl \in Space(q, "as") THEN <<p, "new", pl[3]>>
                                  ELSE IF pl \in Space(p, "new") THEN <<q, "as", pl[3]>> ELSE pl]
<1>1. ASSUME NEW pl \in Space(q, "as")
      PROVE  /\ <<p, "new", pl[3]>> \in Space(p, "new") /\ pl = <<q, "as", pl[3]>>
             /\ pl \in Place /\ pl \notin Space(p, "new")
  BY PlaceFacts DEF Space
<1>2. ASSUME NEW pl \in Space(p, "new")
      PROVE  /\ <<q, "as", pl[3]>> \in Space(q, "as") /\ pl = <<p, "new", pl[3]>>
             /\ pl \in Place /\ pl \notin Space(q, "as")
  BY PlaceFacts DEF Space
<1>3. \A l : <<p, "new", l>>[3] = l /\ <<q, "as", l>>[3] = l
  OBVIOUS
<1>4. w \in [Place -> Place]
  BY <1>1, <1>2, PlaceFacts
<1>5. ASSUME NEW pl \in Place PROVE w[w[pl]] = pl /\ g[pl] = f[w[pl]]
  <2>1. CASE pl \in Space(q, "as")
    <3>1. w[pl] = <<p, "new", pl[3]>> /\ w[pl] \in Space(p, "new")
      BY <1>1, <2>1
    <3>2. w[w[pl]] = <<q, "as", pl[3]>>
      BY <1>2, <1>3, <3>1
    <3> QED
      BY <1>1, <2>1, <3>1, <3>2
  <2>2. CASE pl \in Space(p, "new")
    <3>1. w[pl] = <<q, "as", pl[3]>> /\ w[pl] \in Space(q, "as")
      BY <1>2, <2>2
    <3>2. w[w[pl]] = <<p, "new", pl[3]>>
      BY <1>1, <1>3, <3>1
    <3> QED
      BY <1>2, <2>2, <3>1, <3>2
  <2>3. CASE pl \notin Space(q, "as") /\ pl \notin Space(p, "new")
    BY <2>3
  <2> QED
    BY <2>1, <2>2, <2>3
<1>6. g \in [Place -> Pages \cup {0}]
  BY <1>1, <1>2, PlaceFacts
<1> HIDE DEF w
<1>7. Owned(g, F)
  <2> SUFFICES ASSUME NEW h \in [Place -> Pages \cup {0}], h = g PROVE Owned(h, F)
    BY <1>6
  <2>1. \A pl \in Place : w[w[pl]] = pl /\ h[pl] = f[w[pl]]
    BY <1>5
  <2> QED
    BY ONLY <1>4, <2>1, OwnedSwap, f \in [Place -> Pages \cup {0}], Owned(f, F),
            F \in SUBSET Pages, h \in [Place -> Pages \cup {0}]
<1> QED
  BY <1>6, <1>7

\* The pages of user memory go with it.
LEMMA HandedPages ==
  ASSUME NEW p \in Users, NEW q \in Users, page' = Handed(p, q)
  PROVE  /\ \A i \in Index : page'[PageAt(q, "as", i)] = page[PageAt(p, "new", i)]
         /\ \A pl \in Space(p, "new") : page'[pl] = 0
         /\ \A pl \in Place : pl \notin Space(q, "as") /\ pl \notin Space(p, "new") => page'[pl] = page[pl]
<1>1. ASSUME NEW i \in Index PROVE page'[PageAt(q, "as", i)] = page[PageAt(p, "new", i)]
  <2>1. PageAt(q, "as", i) \in Space(q, "as") /\ PageAt(q, "as", i) \in Place
    BY UserPageFacts
  <2>2. <<p, "new", PageAt(q, "as", i)[3]>> = PageAt(p, "new", i)
    BY DEF PageAt
  <2> QED
    BY <2>1, <2>2 DEF Handed
<1>2. ASSUME NEW pl \in Space(p, "new") PROVE page'[pl] = 0
  <2>1. pl \in Place /\ pl \notin Space(q, "as")
    BY PlaceFacts DEF Space
  <2> QED
    BY <2>1 DEF Handed
<1> QED
  BY <1>1, <1>2 DEF Handed

\* exec() replaces the address space.
LEMMA CommitSafe ==
  ASSUME MemInv, NEW p \in Users, Commit(p)
  PROVE  MemInv'
<1>1. /\ kcall[p] \in CallType /\ mstate[p] = "user" /\ kcall[p].at = "alloc"
      /\ StepOf(p) /\ Vacant(p) /\ Mapped(p) /\ kcall[p].call = "stack"
      /\ kcall[p].a * PGSIZE >= kcall[p].to /\ kcall[p].to \in Nat /\ kcall[p].to < KERNBASE
  BY CallFacts DEF Commit, Allocated, At, StepOf
<1>2. /\ page' = Handed(p, p) /\ free' = free \cup PagesIn(Space(p, "as")) /\ mstate' = mstate
  BY DEF Commit
<1> DEFINE B == Space(p, "as")
           f == [pl \in Place |-> IF pl \in B THEN 0 ELSE page[pl]]
<1>3. page \in [Place -> Pages \cup {0}] /\ free \subseteq Pages /\ Owned(page, free) /\ B \subseteq Place
  BY PartitionOwned, PlaceFacts DEF MemInv, MemTypeOK
<1>4. free' \subseteq Pages /\ free' = free \cup ({page[pl] : pl \in B} \ {0})
  BY <1>2, <1>3 DEF PagesIn
<1>5. f \in [Place -> Pages \cup {0}] /\ \A pl \in B : f[pl] = 0
  BY <1>3
<1>6. Owned(f, free')
  <2> HIDE DEF B
  <2> QED
    BY <1>3, <1>4, OwnedGive
<1>7. page' = [pl \in Place |-> IF pl \in Space(p, "as") THEN f[<<p, "new", pl[3]>>]
                                ELSE IF pl \in Space(p, "new") THEN 0 ELSE f[pl]]
  <2>1. \A pl \in Space(p, "as") : f[<<p, "new", pl[3]>>] = page[<<p, "new", pl[3]>>]
    <3>1. \A pl \in Space(p, "as") : <<p, "new", pl[3]>> \in Space(p, "new")
      BY DEF Space
    <3> QED
      BY <3>1, KindsApart, PlaceFacts
  <2> QED
    BY <1>2, <2>1 DEF Handed
<1> HIDE DEF f
<1>8. page' \in [Place -> Pages \cup {0}] /\ Owned(page', free')
  BY <1>4, <1>5, <1>6, <1>7, HandedOwned
<1>9. NoCall \in CallType /\ NoCall.at = "user" /\ NoCall.call = "" /\ NoCall.to = 0
  BY DEF NoCall, CallType
<1>10. /\ kcall'[p] = NoCall /\ kcall' \in [Users -> CallType]
       /\ \A q \in Users : q # p => kcall'[q] = kcall[q]
  BY <1>9 DEF Commit, MemInv, MemTypeOK
<1>11. /\ sz'[p] = kcall[p].to /\ sz' \in [Users -> 0 .. KERNBASE - 1]
       /\ \A q \in Users : q # p => sz'[q] = sz[q]
  BY <1>1, MemoryAssumption DEF Commit, MemInv, MemTypeOK
<1>12. /\ \A i \in Index : page'[PageAt(p, "as", i)] = page[PageAt(p, "new", i)]
       /\ \A pl \in Space(p, "new") : page'[pl] = 0
       /\ \A pl \in Place : pl \notin Own(p) => page'[pl] = page[pl]
       /\ page'[InHand(p)] = page[InHand(p)]
  BY <1>2, HandedPages, KindsApart, PlaceFacts DEF Own
<1>13. StepOf(p)'
  <2>1. 0 < KERNBASE
    BY MemoryAssumption
  <2> QED
    BY <1>1, <1>2, <1>9, <1>10, <2>1 DEF StepOf
<1>14. Vacant(p)'
  BY <1>1, <1>2, <1>9, <1>10, <1>12 DEF Vacant, NoPages
<1>15. Mapped(p)'
  <2>1. MappedTo(p, "new", PGROUNDUP(kcall[p].to))
    BY <1>1, LoopEnds DEF Mapped, Target
  <2> QED
    BY <1>9, <1>10, <1>11, <1>12, <2>1 DEF Mapped, MappedTo
<1> QED
  BY <1>1, <1>2, <1>4, <1>8, <1>9, <1>10, <1>11, <1>12, <1>13, <1>14, <1>15, OwnStep DEF ProcInv

\* fork() ends: the copy becomes the memory of the child.
LEMMA ForkedSafe ==
  ASSUME MemInv, NEW p \in Users, Forked(p)
  PROVE  MemInv'
<1>1. /\ mstate[p] = "user" /\ kcall[p].at = "copy"
      /\ StepOf(p) /\ Vacant(p) /\ Mapped(p) /\ kcall[p].call = "fork" /\ kcall[p].to = sz[p]
      /\ kcall[p].a * PGSIZE >= kcall[p].to
  BY CallFacts DEF Forked, At, StepOf
<1>2. PICK c \in Users : c = kcall[p].child
  BY <1>1, ChildFacts
<1>3. /\ c # p /\ mstate[c] = "embryo" /\ kcall[c].at = "user"
      /\ \A q \in Users : q # p /\ kcall[q].call = "fork" => kcall[q].child # c
      /\ StepOf(c) /\ Vacant(c)
  BY <1>1, <1>2, ChildFacts, CallFacts
<1>4. /\ page' = Handed(p, c) /\ free' = free
      /\ sz' = [sz EXCEPT ![c] = sz[p]] /\ mstate' = [mstate EXCEPT ![c] = "user"]
      /\ kcall' = [kcall EXCEPT ![p] = NoCall]
  BY <1>2 DEF Forked
<1>5. page \in [Place -> Pages \cup {0}] /\ free \subseteq Pages /\ Owned(page, free)
  BY PartitionOwned DEF MemInv, MemTypeOK
<1>6. page' \in [Place -> Pages \cup {0}] /\ Owned(page', free')
  <2>1. \A pl \in Space(c, "as") : page[pl] = 0
    BY <1>3 DEF Vacant, NoPages
  <2> QED
    BY <1>4, <1>5, <2>1, HandedOwned DEF Handed
<1>7. NoCall \in CallType /\ NoCall.at = "user" /\ NoCall.call = "" /\ NoCall.to = 0
  BY DEF NoCall, CallType
<1>8. /\ kcall' \in [Users -> CallType] /\ kcall'[p] = NoCall
      /\ \A q \in Users : q # p => kcall'[q] = kcall[q]
  BY <1>4, <1>7 DEF MemInv, MemTypeOK
<1>9. /\ mstate'[c] = "user" /\ sz'[c] = sz[p]
      /\ \A q \in Users : q # c => mstate'[q] = mstate[q] /\ sz'[q] = sz[q]
  BY <1>4 DEF MemInv, MemTypeOK
<1>10. MemTypeOK'
  <2>1. mstate' \in [Users -> {"unused", "embryo", "user", "zombie"}] /\ sz' \in [Users -> 0 .. KERNBASE - 1]
    BY <1>4 DEF MemInv, MemTypeOK
  <2> QED
    BY <1>4, <1>5, <1>6, <1>8, <2>1 DEF MemInv, MemTypeOK
<1>11. PagesPartitioned'
  BY <1>6, <1>10, PartitionNext
<1>12. ChildInv'
  <2> SUFFICES ASSUME NEW q \in Users, kcall'[q].call = "fork"
               PROVE  /\ kcall'[q].child \in Users /\ mstate'[kcall'[q].child] = "embryo"
                      /\ \A r \in Users : kcall'[r].call = "fork" /\ kcall'[r].child = kcall'[q].child => r = q
    BY DEF ChildInv
  <2>1. q # p /\ kcall'[q] = kcall[q] /\ kcall[q].call = "fork"
    BY <1>7, <1>8
  <2>2. /\ kcall[q].child \in Users /\ mstate[kcall[q].child] = "embryo"
        /\ \A r \in Users : kcall[r].call = "fork" /\ kcall[r].child = kcall[q].child => r = q
    BY <2>1 DEF MemInv, ChildInv
  <2>3. mstate'[kcall[q].child] = "embryo"
    BY <1>3, <1>9, <2>1, <2>2
  <2>4. \A r \in Users : kcall'[r].call = "fork" => kcall'[r] = kcall[r]
    BY <1>7, <1>8
  <2> QED
    BY <2>1, <2>2, <2>3, <2>4
<1>13. /\ \A i \in Index : page'[PageAt(c, "as", i)] = page[PageAt(p, "new", i)]
       /\ \A pl \in Space(p, "new") : page'[pl] = 0
       /\ \A pl \in Place : pl \notin Space(c, "as") /\ pl \notin Space(p, "new") => page'[pl] = page[pl]
  BY <1>4, HandedPages
<1>14. ProcInv(p)'
  <2>1. \A pl \in Space(p, "as") \cup {InHand(p)} : page'[pl] = page[pl]
    <3>1. \A pl \in Space(p, "as") \cup {InHand(p)} :
            pl \in Place /\ pl \notin Space(c, "as") /\ pl \notin Space(p, "new")
      BY <1>3, OwnApart, KindsApart, PlaceFacts DEF Own
    <3> QED
      BY <1>13, <3>1
  <2>2. StepOf(p)'
    <3>1. 0 < KERNBASE
      BY MemoryAssumption
    <3> QED
      BY <1>1, <1>3, <1>7, <1>8, <1>9, <3>1 DEF StepOf
  <2>3. Vacant(p)'
    BY <1>1, <1>3, <1>7, <1>8, <1>9, <1>13, <2>1 DEF Vacant, NoPages
  <2>4. Mapped(p)'
    <3>1. \A i \in Index : page'[PageAt(p, "as", i)] = page[PageAt(p, "as", i)]
      BY <2>1, UserPageFacts
    <3> QED
      BY <1>1, <1>3, <1>7, <1>8, <1>9, <3>1 DEF Mapped, MappedTo
  <2> QED
    BY <2>2, <2>3, <2>4 DEF ProcInv
<1>15. ProcInv(c)'
  <2>1. kcall'[c] = kcall[c]
    BY <1>3, <1>8
  <2>2. \A pl \in Space(c, "new") \cup {InHand(c)} : page'[pl] = page[pl]
    <3>1. \A pl \in Space(c, "new") \cup {InHand(c)} :
            pl \in Place /\ pl \notin Space(c, "as") /\ pl \notin Space(p, "new")
      BY <1>3, OwnApart, KindsApart, PlaceFacts DEF Own
    <3> QED
      BY <1>13, <3>1
  <2>3. StepOf(c)'
    <3>1. 0 < KERNBASE
      BY MemoryAssumption
    <3>2. kcall[c] = NoCall
      BY <1>3, UserFacts
    <3> QED
      BY <1>7, <1>9, <2>1, <3>1, <3>2 DEF StepOf
  <2>4. Vacant(c)'
    BY <1>3, <1>9, <2>1, <2>2 DEF Vacant, NoPages
  <2>5. Mapped(c)'
    <3>1. MappedTo(p, "new", PGROUNDUP(sz[p]))
      BY <1>1, LoopEnds DEF Mapped, Target
    <3>2. MappedTo(c, "as", PGROUNDUP(sz[c]))'
      BY <1>9, <1>13, <3>1 DEF MappedTo
    <3> QED
      BY <1>3, <2>1, <3>2 DEF Mapped
  <2> QED
    BY <2>3, <2>4, <2>5 DEF ProcInv
<1> DEFINE S == {p, c}
<1>16. \A q \in S : ProcInv(q)'
  BY <1>14, <1>15
<1>17. ASSUME NEW q \in Users \ S
       PROVE  /\ kcall'[q] = kcall[q] /\ mstate'[q] = mstate[q] /\ sz'[q] = sz[q]
              /\ \A pl \in Own(q) : page'[pl] = page[pl]
              /\ kcall[q].at = "kstack" =>
                   page'[KernelStack(kcall[q].child)] = page[KernelStack(kcall[q].child)]
  <2>1. \A pl \in Own(q) : pl \in Place /\ pl \notin Space(c, "as") /\ pl \notin Space(p, "new")
    BY OwnApart, PlaceFacts DEF Own
  <2>2. ASSUME kcall[q].at = "kstack"
        PROVE  page'[KernelStack(kcall[q].child)] = page[KernelStack(kcall[q].child)]
    <3>1. kcall[q].call = "fork" /\ mstate[q] = "user"
      BY <2>2, CallFacts DEF StepOf
    <3>2. PICK d \in Users : d = kcall[q].child
      BY <3>1, ChildFacts
    <3>3. KernelStack(d) \in Place /\ KernelStack(d) \notin Space(c, "as") /\ KernelStack(d) \notin Space(p, "new")
      BY PlaceFacts DEF KernelStack, Space
    <3> QED
      BY <1>13, <3>2, <3>3
  <2> QED
    BY <1>8, <1>9, <1>13, <2>1, <2>2
<1> HIDE DEF S
<1> QED
  BY <1>10, <1>11, <1>12, <1>16, <1>17, OthersSafe

\* wait() frees the memory and the kernel stack of a zombie.
LEMMA WaitSafe ==
  ASSUME MemInv, NEW p \in Users, NEW c \in Users, Wait(p, c)
  PROVE  MemInv'
<1> DEFINE B == Space(c, "as") \cup {KernelStack(c)}
<1>1. /\ mstate[c] = "zombie" /\ kcall[c].at \in {"user", "fault"} /\ kcall[c].call = ""
      /\ StepOf(c) /\ Vacant(c)
  BY CallFacts, UserFacts DEF Wait, StepOf
<1>2. /\ page' = Emptied(B) /\ free' = free \cup PagesIn(B)
      /\ mstate' = [mstate EXCEPT ![c] = "unused"] /\ sz' = [sz EXCEPT ![c] = 0]
      /\ kcall' = [kcall EXCEPT ![c] = NoCall]
  BY DEF Wait
<1>3. B \subseteq Place /\ B \subseteq Own(c) /\ InHand(c) \notin B
      /\ \A pl \in Space(c, "new") : pl \notin B
  BY PlaceFacts, KindsApart DEF Own
<1>4. page \in [Place -> Pages \cup {0}] /\ free \subseteq Pages /\ Owned(page, free)
  BY PartitionOwned DEF MemInv, MemTypeOK
<1>5. \A pl \in Space(c, "as") \cup {KernelStack(c)} : pl \in B
  OBVIOUS
<1> HIDE DEF B
<1>6. /\ page' \in [Place -> Pages \cup {0}] /\ free' \subseteq Pages
      /\ \A pl \in Place : page'[pl] = IF pl \in B THEN 0 ELSE page[pl]
  BY <1>2, <1>3, <1>4 DEF Emptied, PagesIn
<1>7. Owned(page', free')
  BY <1>2, <1>3, <1>4, OwnedGive DEF Emptied, PagesIn
<1>8. NoCall \in CallType /\ NoCall.at = "user" /\ NoCall.call = "" /\ NoCall.to = 0
  BY DEF NoCall, CallType
<1>9. /\ kcall' \in [Users -> CallType] /\ kcall'[c] = NoCall
      /\ \A q \in Users : q # c => kcall'[q] = kcall[q]
  BY <1>2, <1>8 DEF MemInv, MemTypeOK
<1>10. /\ mstate'[c] = "unused"
       /\ \A q \in Users : q # c => mstate'[q] = mstate[q] /\ sz'[q] = sz[q]
  BY <1>2 DEF MemInv, MemTypeOK
<1>11. MemTypeOK'
  <2>1. mstate' \in [Users -> {"unused", "embryo", "user", "zombie"}]
    BY <1>2 DEF MemInv, MemTypeOK
  <2>2. 0 \in 0 .. KERNBASE - 1
    BY MemoryAssumption
  <2>3. sz' \in [Users -> 0 .. KERNBASE - 1]
    BY <1>2, <2>2 DEF MemInv, MemTypeOK
  <2> QED
    BY <1>6, <1>9, <2>1, <2>3 DEF MemTypeOK
<1>12. PagesPartitioned'
  BY <1>7, <1>11, PartitionNext
<1>13. ChildInv'
  <2> SUFFICES ASSUME NEW q \in Users, kcall'[q].call = "fork"
               PROVE  /\ kcall'[q].child \in Users /\ mstate'[kcall'[q].child] = "embryo"
                      /\ \A r \in Users : kcall'[r].call = "fork" /\ kcall'[r].child = kcall'[q].child => r = q
    BY DEF ChildInv
  <2>1. q # c /\ kcall'[q] = kcall[q] /\ kcall[q].call = "fork"
    BY <1>8, <1>9
  <2>2. /\ kcall[q].child \in Users /\ mstate[kcall[q].child] = "embryo"
        /\ \A r \in Users : kcall[r].call = "fork" /\ kcall[r].child = kcall[q].child => r = q
    BY <2>1 DEF MemInv, ChildInv
  <2>3. mstate'[kcall[q].child] = "embryo"
    BY <1>1, <1>10, <2>2
  <2>4. \A r \in Users : kcall'[r].call = "fork" => kcall'[r] = kcall[r]
    BY <1>8, <1>9
  <2> QED
    BY <2>1, <2>2, <2>3, <2>4
<1>14. ProcInv(c)'
  <2>1. StepOf(c)'
    <3>1. 0 < KERNBASE
      BY MemoryAssumption
    <3> QED
      BY <1>8, <1>9, <1>10, <3>1 DEF StepOf
  <2>2. \A pl \in Space(c, "as") \cup {KernelStack(c)} : page'[pl] = 0
    BY <1>3, <1>5, <1>6
  <2>3. \A pl \in Space(c, "new") \cup {InHand(c)} : page'[pl] = 0
    <3>1. \A pl \in Space(c, "new") \cup {InHand(c)} : page[pl] = 0
      BY <1>1 DEF Vacant, NoPages
    <3> QED
      BY <1>3, <1>6, <3>1, PlaceFacts
  <2>4. Vacant(c)'
    BY <1>8, <1>9, <1>10, <2>2, <2>3 DEF Vacant, NoPages
  <2>5. Mapped(c)'
    BY <1>8, <1>9, <1>10 DEF Mapped
  <2> QED
    BY <2>1, <2>4, <2>5 DEF ProcInv
<1> DEFINE S == {c}
<1>15. \A q \in S : ProcInv(q)'
  BY <1>14
<1>16. ASSUME NEW q \in Users \ S
       PROVE  /\ kcall'[q] = kcall[q] /\ mstate'[q] = mstate[q] /\ sz'[q] = sz[q]
              /\ \A pl \in Own(q) : page'[pl] = page[pl]
              /\ kcall[q].at = "kstack" =>
                   page'[KernelStack(kcall[q].child)] = page[KernelStack(kcall[q].child)]
  <2>1. \A pl \in Own(q) : pl \in Place /\ pl \notin B
    BY <1>3, OwnApart, PlaceFacts DEF Own
  <2>2. ASSUME kcall[q].at = "kstack"
        PROVE  page'[KernelStack(kcall[q].child)] = page[KernelStack(kcall[q].child)]
    <3>1. kcall[q].call = "fork" /\ mstate[q] = "user"
      BY <2>2, CallFacts DEF StepOf
    <3>2. PICK d \in Users : d = kcall[q].child /\ d # c
      BY <1>1, <3>1, ChildFacts
    <3>3. KernelStack(d) \in Own(d) /\ KernelStack(d) \in Place
      BY PlaceFacts DEF Own
    <3>4. KernelStack(d) \notin B
      BY <1>3, <3>2, <3>3, OwnApart
    <3> QED
      BY <1>6, <3>2, <3>3, <3>4
  <2> QED
    BY <1>6, <1>9, <1>10, <2>1, <2>2
<1> HIDE DEF S
<1> QED
  BY <1>11, <1>12, <1>13, <1>15, <1>16, OthersSafe

-----------------------------------------------------------------------------
(* The theorems                                                            *)

\* The pages of init: pages 2 to KernelTables + 4 are one part each.
LEMMA FirstPagesFacts ==
  /\ \A l \in Parts : FirstPages(l) \in {0} \cup (2 .. KernelTables + 4)
  /\ \A l, m \in Parts : FirstPages(l) = FirstPages(m) /\ FirstPages(l) # 0 => l = m
  /\ \A x \in 2 .. KernelTables + 4 : \E l \in Parts : FirstPages(l) = x
  /\ \A i \in Index : FirstPages(<<"pg", i>>) # 0 <=> i < 1
<1>1. KernelTables \in Nat
  BY MemoryAssumption
<1>2. \A z \in 0 .. KernelTables : <<"kvm", z>> \in Parts /\ FirstPages(<<"kvm", z>>) = 2 + z
  BY DEF Parts, FirstPages
<1>3. \A t \in Tables :
        <<"tab", t>> \in Parts /\ FirstPages(<<"tab", t>>) = IF t = 0 THEN KernelTables + 3 ELSE 0
  BY DEF Parts, FirstPages
<1>4. \A i \in Index :
        <<"pg", i>> \in Parts /\ FirstPages(<<"pg", i>>) = IF i = 0 THEN KernelTables + 4 ELSE 0
  BY DEF Parts, FirstPages
<1>5. \A l \in Parts : \/ \E z \in 0 .. KernelTables : l = <<"kvm", z>>
                       \/ \E t \in Tables : l = <<"tab", t>>
                       \/ \E i \in Index : l = <<"pg", i>>
  BY DEF Parts
<1>6. 0 \in Index /\ 0 \in Tables
  <2> DEFINE q == KERNBASE \div PGSIZE
  <2>1. q \in Nat /\ KERNBASE = PGSIZE * q /\ PGSIZE \in Nat \ {0} /\ KERNBASE > PGSIZE
    BY UserPages, MemoryAssumption
  <2>2. Index = 0 .. q - 1
    BY DEF Index
  <2> HIDE DEF q
  <2>3. q # 0
    <3>1. PGSIZE * 0 = 0
      BY <2>1
    <3> QED
      BY <2>1, <3>1
  <2>4. 0 \in Index
    BY <2>1, <2>2, <2>3
  <2>5. 0 \div NPTENTRIES = 0
    BY MemoryAssumption
  <2> QED
    BY <2>4, <2>5 DEF Tables
<1>7. ASSUME NEW l \in Parts PROVE FirstPages(l) \in {0} \cup (2 .. KernelTables + 4)
  BY <1>1, <1>2, <1>3, <1>4, <1>5
<1>8. ASSUME NEW l \in Parts, FirstPages(l) # 0
      PROVE  \/ \E z \in 0 .. KernelTables : l = <<"kvm", z>> /\ FirstPages(l) = 2 + z
             \/ l = <<"tab", 0>> /\ FirstPages(l) = KernelTables + 3
             \/ l = <<"pg", 0>> /\ FirstPages(l) = KernelTables + 4
  BY <1>2, <1>3, <1>4, <1>5, <1>8
<1>9. ASSUME NEW l \in Parts, NEW m \in Parts, FirstPages(l) = FirstPages(m), FirstPages(l) # 0
      PROVE  l = m
  BY <1>1, <1>8, <1>9
<1>10. ASSUME NEW x \in 2 .. KernelTables + 4 PROVE \E l \in Parts : FirstPages(l) = x
  <2>1. CASE x = KernelTables + 3
    BY <1>3, <1>6, <2>1
  <2>2. CASE x = KernelTables + 4
    BY <1>4, <1>6, <2>2
  <2>3. CASE x < KernelTables + 3
    <3>1. x - 2 \in 0 .. KernelTables /\ 2 + (x - 2) = x
      BY <1>1, <2>3
    <3> QED
      BY <1>2, <3>1
  <2> QED
    BY <1>1, <2>1, <2>2, <2>3
<1>11. \A i \in Index : i \in Nat
  BY UserPages DEF Index
<1> QED
  BY <1>1, <1>4, <1>7, <1>9, <1>10, <1>11

\* The invariant holds when init is made.
LEMMA MemInitSafe == MemInit => MemInv
<1> SUFFICES ASSUME MemInit PROVE MemInv
  OBVIOUS
<1> DEFINE f == FirstUser
           ks == KernelStack(f)
           A == Space(f, "as")
<1>1. /\ KernelTables \in Nat /\ NPages \in Nat /\ NPages >= KernelTables + 4
      /\ f \in Users /\ NoUser \notin Users
  BY MemoryAssumption
<1>2. /\ free = KernelTables + 5 .. NPages
      /\ mstate = [p \in Users |-> IF p = f THEN "user" ELSE "unused"]
      /\ sz = [p \in Users |-> IF p = f THEN PGSIZE ELSE 0]
      /\ kcall = [p \in Users |-> NoCall]
      /\ page = [pl \in Place |-> IF pl = ks THEN 1 ELSE IF pl \in A THEN FirstPages(pl[3]) ELSE 0]
  BY DEF MemInit
<1>3. /\ ks \in Place /\ ks \notin A /\ A \subseteq Place
      /\ \A pl \in A : pl[3] \in Parts /\ pl = <<f, "as", pl[3]>>
      /\ \A l \in Parts : <<f, "as", l>> \in A /\ <<f, "as", l>>[3] = l
  BY <1>1, PlaceFacts, KindsApart DEF Space
<1>4. \A pl \in A : FirstPages(pl[3]) \in {0} \cup (2 .. KernelTables + 4)
  BY <1>3, FirstPagesFacts
<1> HIDE DEF ks, A, f
<1>5. /\ page[ks] = 1 /\ \A pl \in A : page[pl] = FirstPages(pl[3])
      /\ \A pl \in Place : pl # ks /\ pl \notin A => page[pl] = 0
  BY <1>2, <1>3
<1>6. \A pl \in Place : page[pl] \in 0 .. KernelTables + 4
  BY <1>1, <1>4, <1>5
<1>7. MemTypeOK
  <2>1. NoCall \in CallType
    BY DEF NoCall, CallType
  <2>2. PGSIZE \in 0 .. KERNBASE - 1 /\ 0 \in 0 .. KERNBASE - 1
    BY MemoryAssumption
  <2>3. free \subseteq Pages
    BY <1>1, <1>2 DEF Pages
  <2>4. 0 .. KernelTables + 4 \subseteq Pages \cup {0}
    BY <1>1 DEF Pages
  <2>5. page \in [Place -> Pages \cup {0}]
    BY <1>2, <1>6, <2>4
  <2> QED
    BY <1>2, <2>1, <2>2, <2>3, <2>5 DEF MemTypeOK
<1>8. Owned(page, free)
  <2>1. \A pl \in Place : page[pl] \notin free
    BY <1>1, <1>2, <1>6
  <2>2. ASSUME NEW pl \in Place, NEW pm \in Place, page[pl] = page[pm], page[pl] # 0 PROVE pl = pm
    <3>1. CASE pl \in A /\ pm \in A
      BY <1>3, <1>5, <2>2, <3>1, FirstPagesFacts
    <3>2. CASE pl = ks \/ pm = ks
      BY <1>4, <1>5, <2>2, <3>2
    <3> QED
      BY <1>5, <2>2, <3>1, <3>2
  <2>3. ASSUME NEW x \in Pages \ free PROVE \E pl \in Place : page[pl] = x
    <3>1. x = 1 \/ x \in 2 .. KernelTables + 4
      BY <1>1, <1>2 DEF Pages
    <3>2. CASE x = 1
      BY <1>3, <1>5, <3>2
    <3>3. CASE x \in 2 .. KernelTables + 4
      <4>1. PICK l \in Parts : FirstPages(l) = x
        BY <3>3, FirstPagesFacts
      <4> QED
        BY <1>3, <1>5, <4>1
    <3> QED
      BY <3>1, <3>2, <3>3
  <2> QED
    BY <2>1, <2>2, <2>3 DEF Owned
<1>9. PagesPartitioned
  BY <1>7, <1>8, PartitionOwned
<1>10. /\ NoCall.at = "user" /\ NoCall.call = "" /\ NoCall.to = 0
  BY DEF NoCall
<1>11. ChildInv
  BY <1>2, <1>10 DEF ChildInv
<1>12. ASSUME NEW p \in Users PROVE StepOf(p) /\ Vacant(p) /\ Mapped(p)
  <2>1. 0 < KERNBASE
    BY MemoryAssumption
  <2>2. /\ kcall[p] = NoCall /\ mstate[p] = IF p = f THEN "user" ELSE "unused"
        /\ sz[p] = IF p = f THEN PGSIZE ELSE 0
    BY <1>2
  <2>3. StepOf(p)
    BY <1>10, <2>1, <2>2 DEF StepOf
  <2>4. \A pl \in Space(p, "new") \cup {InHand(p)} : page[pl] = 0
    <3>1. \A pl \in Space(p, "new") \cup {InHand(p)} : pl \in Place /\ pl # ks /\ pl \notin A
      <4>1. \A pl \in Space(p, "new") \cup {InHand(p)} : pl \in Place /\ pl \in Own(p)
        BY PlaceFacts DEF Own
      <4>2. CASE p = f
        BY <4>1, <4>2, KindsApart DEF ks, A
      <4>3. CASE p # f
        <5>1. ks \in Own(f) /\ A \subseteq Own(f)
          BY DEF ks, A, Own
        <5> QED
          BY <1>1, <4>1, <4>3, <5>1, OwnApart
      <4> QED
        BY <4>2, <4>3
    <3> QED
      BY <1>5, <3>1
  <2>5. p # f => \A pl \in Space(p, "as") \cup {KernelStack(p)} : page[pl] = 0
    <3>1. p # f => \A pl \in Space(p, "as") \cup {KernelStack(p)} : pl \in Place /\ pl # ks /\ pl \notin A
      <4>1. \A pl \in Space(p, "as") \cup {KernelStack(p)} : pl \in Place /\ pl \in Own(p)
        BY PlaceFacts DEF Own
      <4>2. ks \in Own(f) /\ A \subseteq Own(f)
        BY DEF ks, A, Own
      <4> QED
        BY <1>1, <4>1, <4>2, OwnApart
    <3> QED
      BY <1>5, <3>1
  <2>6. Vacant(p)
    BY <1>10, <2>2, <2>4, <2>5 DEF Vacant, NoPages
  <2>7. Mapped(p)
    <3>1. CASE p = f
      <4>1. PGROUNDUP(PGSIZE) = 1
        <5>1. PGSIZE \in Nat \ {0}
          BY MemoryAssumption
        <5>2. PGROUNDUP(PGSIZE) \in Nat /\ (0 * PGSIZE < PGSIZE <=> 0 < PGROUNDUP(PGSIZE))
              /\ (1 * PGSIZE < PGSIZE <=> 1 < PGROUNDUP(PGSIZE))
          BY <5>1, Rounding
        <5>3. 0 * PGSIZE = 0 /\ 1 * PGSIZE = PGSIZE
          BY <5>1
        <5> QED
          BY <5>1, <5>2, <5>3
      <4>2. \A i \in Index : page[PageAt(f, "as", i)] = FirstPages(<<"pg", i>>)
        <5>1. \A i \in Index : <<"pg", i>> \in Parts /\ PageAt(f, "as", i) = <<f, "as", <<"pg", i>>>>
          BY DEF Parts, PageAt
        <5> QED
          BY <1>3, <1>5, <5>1
      <4>3. PGROUNDUP(sz[p]) = 1
        BY <2>2, <3>1, <4>1
      <4>4. \A i \in Index : FirstPages(<<"pg", i>>) # 0 <=> i < 1
        BY FirstPagesFacts
      <4>5. MappedTo(f, "as", 1)
        BY <4>2, <4>4 DEF MappedTo
      <4>6. MappedTo(p, "as", PGROUNDUP(sz[p]))
        BY <3>1, <4>3, <4>5
      <4> QED
        BY <1>10, <2>2, <4>6 DEF Mapped
    <3>2. CASE p # f
      BY <1>10, <2>2, <3>2 DEF Mapped
    <3> QED
      BY <3>1, <3>2
  <2> QED
    BY <2>3, <2>6, <2>7
<1> QED
  BY <1>7, <1>9, <1>11, <1>12 DEF MemInv, UsersInv

\* Every step keeps it.
LEMMA MemStepSafe == MemInv /\ [MemNext]_pageVars => MemInv'
<1> SUFFICES ASSUME MemInv, [MemNext]_pageVars PROVE MemInv'
  OBVIOUS
<1>1. CASE UNCHANGED pageVars
  <2> DEFINE S == {}
  <2>1. free' = free /\ page' = page /\ mstate' = mstate /\ sz' = sz /\ kcall' = kcall
    BY <1>1 DEF pageVars
  <2>2. MemTypeOK'
    BY <2>1 DEF MemInv, MemTypeOK
  <2>3. ChildInv'
    BY <2>1, SameChildren
  <2>4. \A q \in S : ProcInv(q)'
    OBVIOUS
  <2> HIDE DEF S
  <2> QED
    BY <2>1, <2>2, <2>3, <2>4, QuietSafe
<1>2. CASE MemNext
  <2> SUFFICES ASSUME NEW p \in Users,
                      \/ Fork(p) \/ Kstack(p) \/ Exec(p) \/ Setupkvm(p) \/ KvmReady(p)
                      \/ AllocPage(p) \/ MapPage(p) \/ Forked(p)
                      \/ Segment(p) \/ SegmentDone(p) \/ Stack(p) \/ Bad(p) \/ Commit(p)
                      \/ \E z \in Growths : Grow(p, z) \/ Shrink(p, z)
                      \/ GrowDone(p) \/ ExitProc(p) \/ \E c \in Users : Wait(p, c)
               PROVE  MemInv'
    BY <1>2 DEF MemNext
  <2>1. CASE Fork(p) \/ Kstack(p) \/ Exec(p) \/ Setupkvm(p) \/ KvmReady(p)
    BY <2>1, ForkSafe, KstackSafe, ExecSafe, SetupkvmSafe, KvmReadySafe
  <2>2. CASE AllocPage(p) \/ MapPage(p) \/ Forked(p)
    BY <2>2, AllocPageSafe, MapPageSafe, ForkedSafe
  <2>3. CASE Segment(p) \/ SegmentDone(p) \/ Stack(p) \/ Bad(p) \/ Commit(p)
    BY <2>3, SegmentSafe, SegmentDoneSafe, StackSafe, BadSafe, CommitSafe
  <2>4. CASE \E z \in Growths : Grow(p, z) \/ Shrink(p, z)
    BY <2>4, GrowSafe, ShrinkSafe
  <2>5. CASE GrowDone(p) \/ ExitProc(p)
    BY <2>5, GrowDoneSafe, MemExitSafe
  <2>6. CASE \E c \in Users : Wait(p, c)
    BY <2>6, WaitSafe
  <2> QED
    BY <2>1, <2>2, <2>3, <2>4, <2>5, <2>6
<1> QED
  BY <1>1, <1>2

\* The invariant gives the property that the run checks.
LEMMA MemInvSound == MemInv => MemorySound
<1> SUFFICES ASSUME MemInv PROVE SizeMapped
  BY DEF MemInv, MemorySound
<1> SUFFICES ASSUME NEW p \in Users, mstate[p] = "user"
             PROVE  /\ kcall[p].call # "sbrk" /\ kcall[p].at # "fault"
                         => \A i \in Index : page[PageAt(p, "as", i)] # 0 <=> i * PGSIZE < sz[p]
                    /\ kcall[p].at \in {"map", "mapcopy"} => page[PageAt(p, Target(p), kcall[p].a)] = 0
  BY DEF SizeMapped
<1>1. /\ sz[p] \in Nat /\ StepOf(p) /\ Vacant(p) /\ Mapped(p)
      /\ kcall[p].a \in Nat /\ kcall[p].to \in Nat
  BY CallFacts
<1>2. ASSUME kcall[p].call # "sbrk", kcall[p].at # "fault", NEW i \in Index
      PROVE  page[PageAt(p, "as", i)] # 0 <=> i * PGSIZE < sz[p]
  <2>1. i \in Int
    BY UserPages DEF Index
  <2>2. i * PGSIZE < sz[p] <=> i < PGROUNDUP(sz[p])
    BY <1>1, <2>1, Rounding
  <2> QED
    BY <1>1, <1>2, <2>2 DEF Mapped, MappedTo
<1>3. ASSUME kcall[p].at \in {"map", "mapcopy"} PROVE page[PageAt(p, Target(p), kcall[p].a)] = 0
  <2>1. kcall[p].a < PGROUNDUP(kcall[p].to) /\ kcall[p].to < KERNBASE
    BY <1>1, <1>3 DEF Mapped, StepOf
  <2>2. kcall[p].a \in Index
    BY <1>1, <2>1, InUserMemory
  <2>3. ~(kcall[p].a < kcall[p].a)
    BY <1>1
  <2> QED
    BY <1>1, <1>3, <2>2, <2>3 DEF Mapped, MappedTo
<1> QED
  BY <1>2, <1>3

\* Through fork(), exec(), sbrk(), exit() and wait(), with any of their allocations failing,
\* each page of memory stays free or in one place, and what is mapped agrees with the sizes
\* and with the loops that allocate.
THEOREM MemSafety == MemSpec => []MemInv
BY MemInitSafe, MemStepSafe, PTL DEF MemSpec

\* No page is lost or has two owners, no address is mapped twice, and fork() finds every
\* page that it copies.
THEOREM PagesSound == MemSpec => []MemorySound
BY MemSafety, MemInvSound, PTL

-----------------------------------------------------------------------------
(* The shortest paths                                                      *)

\* The set of vertices is finite and has as many members as vertices.
LEMMA VertexCount ==
  IsFiniteSet(V) /\ Cardinality(V) = vertices
BY FS_Interval, CpuBoundAssumption DEF V

\* One vertex more is counted when it is visited.
LEMMA OneMoreSeen ==
  ASSUME GraphTypeOK, NEW u \in V, Visit(u)
  PROVE  Seen' = Seen \cup {u} /\ Cardinality(Seen') = Cardinality(Seen) + 1
<1>1. Seen' = Seen \cup {u} /\ u \notin Seen
  BY DEF Seen, Visit, MinDistance, GraphTypeOK
<1>2. IsFiniteSet(Seen)
  BY VertexCount, FS_Subset DEF Seen
<1> QED
  BY <1>1, <1>2, FS_AddElement

\* A graph with its diagonal of zeroes and no vertex visited.
LEMMA GraphInitSafe == GraphInit => GraphInv
BY CpuBoundAssumption DEF GraphInit, GraphInv, GraphTypeOK, LoopInv, EndInv, V

\* dijkstra() begins with the source at distance 0 and nothing visited.
LEMMA DijkstraSafe ==
  ASSUME GraphInv, NEW s \in V, Dijkstra(s)
  PROVE  GraphInv'
<1> USE DEF GraphInv
<1>1. GraphTypeOK' /\ EndInv'
  BY CpuBoundAssumption DEF Dijkstra, GraphTypeOK, EndInv, V
<1>2. Seen' = {}
  BY DEF Dijkstra, Seen
<1>3. Cardinality(Seen') = 0
  BY <1>2, FS_EmptySet
<1>4. LoopInv'
  BY <1>2, <1>3 DEF Dijkstra, LoopInv, NoShortcut, Explained, GraphTypeOK
<1> QED
  BY <1>1, <1>4

\* A turn of the loop.
LEMMA VisitSafe ==
  ASSUME GraphInv, NEW u \in V, Visit(u)
  PROVE  GraphInv'
<1> USE DEF GraphInv
<1>1. GraphTypeOK' /\ EndInv'
  <2>1. \A v \in V : Relaxed(u, v) \in 0 .. INF
    BY CpuBoundAssumption DEF GraphTypeOK, Relaxed
  <2>2. dist' \in [V -> 0 .. INF]
    BY <2>1 DEF Visit
  <2>3. visited' \in [V -> BOOLEAN]
    BY DEF Visit, GraphTypeOK
  <2> QED
    BY <2>2, <2>3, CpuBoundAssumption DEF Visit, GraphTypeOK, EndInv
<1>2. Seen' = Seen \cup {u} /\ Cardinality(Seen') = Cardinality(Seen) + 1
  BY OneMoreSeen
<1>3. /\ at = "loop" /\ u \notin Seen
      /\ dist' = [v \in V |-> Relaxed(u, v)] /\ graph' = graph /\ src' = src
  BY DEF Visit, MinDistance, Seen
<1>4. /\ dist \in [V -> 0 .. INF] /\ graph \in [V -> [V -> Nat]] /\ src \in V
      /\ Seen \subseteq V
  BY DEF GraphTypeOK, Seen
<1>5. \A v \in V : dist'[v] <= dist[v] /\ dist'[v] \in Nat
  BY <1>3, <1>4 DEF Relaxed
<1>6. \A v \in Seen' : dist'[v] = dist[v]
  BY <1>2, <1>3, <1>4 DEF Relaxed, Seen
<1>7. \A v \in V \ Seen : dist[u] <= dist[v]
  BY <1>4 DEF Visit, MinDistance, Seen
<1>8. /\ dist[src] = 0 /\ NoShortcut(Seen) /\ Explained(Seen)
      /\ \A x \in Seen, v \in V \ Seen : dist[x] <= dist[v]
      /\ Cardinality(Seen) = count
  BY <1>3 DEF LoopInv
<1>9. dist'[src'] = 0
  BY <1>3, <1>4, <1>5, <1>8
<1>10. NoShortcut(Seen)'
  <2> SUFFICES ASSUME NEW x \in Seen', NEW v \in V, graph[x][v] # INF, dist'[x] # INF
               PROVE  dist'[v] <= dist'[x] + graph[x][v]
    BY <1>3 DEF NoShortcut
  <2>1. dist'[x] = dist[x] /\ graph[x][v] \in Nat /\ x \in V
    BY <1>2, <1>4, <1>6
  <2>2. CASE x # u
    BY <1>2, <1>4, <1>5, <1>8, <2>1, <2>2 DEF NoShortcut
  <2>3. CASE x = u /\ v \in Seen'
    <3>1. dist[v] <= dist[u]
      BY <1>2, <1>3, <1>4, <1>8, <2>3
    <3> QED
      BY <1>4, <1>6, <2>1, <2>3, <3>1
  <2>4. CASE x = u /\ v \notin Seen'
    <3>1. ~visited[v] /\ v # u
      BY <1>2, <2>4 DEF Seen
    <3> QED
      BY <1>3, <1>4, <2>1, <2>4, <3>1 DEF Relaxed
  <2> QED
    BY <2>2, <2>3, <2>4
<1>11. Explained(Seen)'
  <2> SUFFICES ASSUME NEW v \in V \ {src}, dist'[v] # INF
               PROVE  \E x \in Seen' : /\ x # v /\ graph[x][v] # INF /\ dist'[x] # INF
                                   /\ dist'[v] = dist'[x] + graph[x][v]
    BY <1>3 DEF Explained
  <2>1. CASE dist'[v] = dist[v]
    <3>1. PICK x \in Seen : /\ x # v /\ graph[x][v] # INF /\ dist[x] # INF
                         /\ dist[v] = dist[x] + graph[x][v]
      BY <1>8, <2>1 DEF Explained
    <3> QED
      BY <1>2, <1>6, <2>1, <3>1
  <2>2. CASE dist'[v] # dist[v]
    BY <1>2, <1>3, <1>4, <1>6, <2>2 DEF Relaxed
  <2> QED
    BY <2>1, <2>2
<1>12. \A x \in Seen', v \in V \ Seen' : dist'[x] <= dist'[v]
  <2> SUFFICES ASSUME NEW x \in Seen', NEW v \in V \ Seen' PROVE dist'[x] <= dist'[v]
    OBVIOUS
  <2>1. dist'[x] = dist[x] /\ x \in V /\ v \in V \ Seen /\ dist[x] <= dist[u]
    <3>1. x \in V /\ v \in V \ Seen /\ dist'[x] = dist[x]
      BY <1>2, <1>4, <1>6
    <3>2. CASE x = u
      BY <1>4, <3>1, <3>2
    <3>3. CASE x \in Seen
      BY <1>3, <1>8, <3>1, <3>3
    <3> QED
      BY <1>2, <3>1, <3>2, <3>3
  <2>2. dist[x] <= dist[v] /\ dist[u] <= dist[v]
    BY <1>2, <1>4, <1>7, <2>1
  <2>3. graph[u][v] \in Nat
    BY <1>4
  <2> QED
    BY <1>3, <1>4, <2>1, <2>2, <2>3 DEF Relaxed
<1>13. Cardinality(Seen') = count'
  BY <1>2, <1>8 DEF Visit
<1>14. LoopInv'
  BY <1>9, <1>10, <1>11, <1>12, <1>13 DEF LoopInv
<1> QED
  BY <1>1, <1>14

\* The array is certified when the loop has left out one vertex only.
LEMMA GraphReturnSafe ==
  ASSUME GraphInv, Return
  PROVE  GraphInv'
<1> USE DEF GraphInv
<1>1. UNCHANGED <<graph, drawn, src, dist, visited, count>> /\ at = "loop"
  BY DEF Return
<1>2. GraphTypeOK' /\ LoopInv'
  BY <1>1 DEF Return, GraphTypeOK, LoopInv, NoShortcut, Explained, Seen
<1>3. EndInv'
  BY <1>1, CpuBoundAssumption DEF Return, GraphTypeOK, EndInv
<1> QED
  BY <1>2, <1>3

\* The inductive invariant of the program.
LEMMA GraphStepSafe == GraphInv /\ [GraphNext]_graphVars => GraphInv'
<1> SUFFICES ASSUME GraphInv, [GraphNext]_graphVars PROVE GraphInv'
  OBVIOUS
<1>1. ASSUME NEW u \in V, NEW v \in V, NEW weight \in Weights, Draw(u, v, weight)
      PROVE  GraphInv'
  BY <1>1, CpuBoundAssumption DEF Draw, GraphInv, GraphTypeOK, LoopInv, EndInv
<1>2. ASSUME NEW s \in V, Dijkstra(s) PROVE GraphInv'
  BY <1>2, DijkstraSafe
<1>3. ASSUME NEW u \in V, Visit(u) PROVE GraphInv'
  BY <1>3, VisitSafe
<1>4. CASE Return
  BY <1>4, GraphReturnSafe
<1>5. CASE Again
  BY <1>5, CpuBoundAssumption DEF Again, GraphInv, GraphTypeOK, LoopInv, EndInv, V
<1>6. CASE UNCHANGED graphVars
  BY <1>6 DEF graphVars, GraphInv, GraphTypeOK, LoopInv, EndInv, NoShortcut, Explained, Seen
<1> QED
  BY <1>1, <1>2, <1>3, <1>4, <1>5, <1>6 DEF GraphNext

\* The loop of dijkstra() keeps its invariant.
THEOREM Invariance == GraphSpec => []GraphInv
<1>1. GraphInit => GraphInv
  BY GraphInitSafe
<1>2. GraphInv /\ [GraphNext]_graphVars => GraphInv'
  BY GraphStepSafe
<1> QED
  BY <1>1, <1>2, PTL DEF GraphSpec

\* At the end of dijkstra() one vertex at most is not visited.
LEMMA OneLeft ==
  ASSUME GraphInv, at = "done", NEW x \in V \ Seen, NEW y \in V \ Seen
  PROVE  x = y
<1> SUFFICES ASSUME x # y PROVE FALSE
  OBVIOUS
<1>1. IsFiniteSet(V) /\ Cardinality(V) = vertices
  BY VertexCount
<1>2. Seen \cup {x} \cup {y} \subseteq V /\ IsFiniteSet(Seen)
  BY <1>1, FS_Subset DEF Seen
<1>3. Cardinality(Seen \cup {x}) = Cardinality(Seen) + 1 /\ IsFiniteSet(Seen \cup {x})
  BY <1>2, FS_AddElement
<1>4. Cardinality((Seen \cup {x}) \cup {y}) = (Cardinality(Seen) + 1) + 1
  BY <1>3, FS_AddElement
<1>5. Cardinality((Seen \cup {x}) \cup {y}) <= vertices
  BY <1>1, <1>2, FS_Subset
<1>6. Cardinality(Seen) = vertices - 1
  BY DEF GraphInv, LoopInv, EndInv
<1> QED
  BY <1>4, <1>5, <1>6, CpuBoundAssumption

\* What makes the array one of shortest distances holds whenever dijkstra() returns.
THEOREM DistancesCertified == GraphSpec => []Certificate
<1>1. GraphInv => Certificate
  <2> SUFFICES ASSUME GraphInv, at = "done"
               PROVE  dist[src] = 0 /\ NoShortcut(V) /\ Explained(V)
    BY DEF Certificate
  <2>1. /\ dist[src] = 0 /\ NoShortcut(Seen) /\ Explained(Seen)
        /\ \A u \in Seen, v \in V \ Seen : dist[u] <= dist[v]
    BY DEF GraphInv, LoopInv
  <2>2. /\ dist \in [V -> 0 .. INF] /\ graph \in [V -> [V -> Nat]]
        /\ Seen \subseteq V
    BY DEF GraphInv, GraphTypeOK, Seen
  <2>3. ASSUME NEW u \in V, NEW v \in V, graph[u][v] # INF, dist[u] # INF
        PROVE  dist[v] <= dist[u] + graph[u][v]
    <3>1. CASE u \in Seen
      BY <2>1, <2>3, <3>1 DEF NoShortcut
    <3>2. CASE u \notin Seen
      <4>1. v \in Seen \/ v = u
        BY <3>2, OneLeft
      <4>2. dist[v] <= dist[u]
        BY <2>1, <2>2, <3>2, <4>1
      <4> QED
        BY <2>2, <4>2, CpuBoundAssumption
    <3> QED
      BY <3>1, <3>2
  <2>4. Explained(V)
    BY <2>1, <2>2 DEF Explained
  <2> QED
    BY <2>1, <2>3, <2>4 DEF NoShortcut
<1> QED
  BY <1>1, Invariance, PTL


-----------------------------------------------------------------------------
(* Sleep locks                                                             *)

\* acquiresleep() and releasesleep() start from a free lock.
LEMMA SleepInitSafe == Init => IInv
BY SleepLockAssumption
   DEF Init, IInv, TypeOK, LockInv, HolderInv, NoLostWakeup

\* Every step of a process keeps the invariant.
LEMMA SleepStepSafe == IInv /\ [Next]_vars => IInv'
<1> SUFFICES ASSUME IInv, [Next]_vars PROVE IInv'
  OBVIOUS
<1> USE SleepLockAssumption DEF IInv, TypeOK, LockInv, HolderInv, NoLostWakeup, Advance
<1>1. ASSUME NEW p \in Procs, Enter(p) PROVE IInv'
  BY <1>1 DEF Enter
<1>2. ASSUME NEW p \in Procs, Spin(p) PROVE IInv'
  BY <1>2 DEF Spin
<1>3. ASSUME NEW p \in Procs, Take(p) PROVE IInv'
  BY <1>3 DEF Take
<1>4. ASSUME NEW p \in Procs, SleepBegin(p) PROVE IInv'
  BY <1>4 DEF SleepBegin
<1>5. ASSUME NEW p \in Procs, Handover(p) PROVE IInv'
  BY <1>5 DEF Handover
<1>6. ASSUME NEW p \in Procs, Sleep(p) PROVE IInv'
  BY <1>6 DEF Sleep
<1>7. ASSUME NEW p \in Procs, Resume(p) PROVE IInv'
  BY <1>7 DEF Resume
<1>8. ASSUME NEW p \in Procs, Resumed(p) PROVE IInv'
  BY <1>8 DEF Resumed
<1>9. ASSUME NEW p \in Procs, Leave(p) PROVE IInv'
  BY <1>9 DEF Leave
<1>10. ASSUME NEW p \in Procs, Clear(p) PROVE IInv'
  BY <1>10 DEF Clear
<1>11. ASSUME NEW p \in Procs, Wakeup(p) PROVE IInv'
  BY <1>11 DEF Wakeup, Woken
<1>12. ASSUME NEW p \in Procs, Done(p) PROVE IInv'
  BY <1>12 DEF Done
<1>13. ASSUME NEW p \in Procs, Kill(p) PROVE IInv'
  BY <1>13 DEF Kill
<1>14. CASE UNCHANGED vars
  BY <1>14 DEF vars
<1> QED
  BY <1>1, <1>2, <1>3, <1>4, <1>5, <1>6, <1>7, <1>8, <1>9, <1>10, <1>11, <1>12, <1>13,
     <1>14 DEF Next, Kernel

\* The invariant holds of the two spin locks and the sleep lock above them.
THEOREM SleepLockInvariant == Spec => []IInv
BY SleepInitSafe, SleepStepSafe, PTL DEF Spec

\* sleep() holds ptable.lock before it lets lk go: whoever is asleep on the lock,
\* or about to be, has a releasesleep() to come that will wake it.
THEOREM NoWakeupIsLost == Spec => []NoLostWakeup
BY SleepLockInvariant, PTL DEF IInv

\* Each step of the code is a step of a lock, or none.
LEMMA StepImplements == IInv /\ [Next]_vars => [Lock!Next]_pid
<1> SUFFICES ASSUME IInv, [Next]_vars PROVE Lock!Next \/ UNCHANGED pid
  OBVIOUS
<1> USE SleepLockAssumption DEF IInv, TypeOK, LockInv, HolderInv, Advance
<1>1. ASSUME NEW p \in Procs, Take(p) PROVE Lock!Next
  BY <1>1 DEF Take, Lock!Next, Lock!Acquire
<1>2. ASSUME NEW p \in Procs, Clear(p) PROVE Lock!Next
  BY <1>2 DEF Clear, Lock!Next, Lock!Release
<1>3. CASE UNCHANGED pid
  BY <1>3
<1> QED
  BY <1>1, <1>2, <1>3
  DEF Next, Kernel, vars, Enter, Spin, SleepBegin, Handover, Sleep, Resume, Resumed,
      Leave, Wakeup, Done, Kill

\* acquiresleep() and releasesleep() implement a lock with one holder.
THEOREM ImplementsMutex == Spec => IsMutex
<1>1. Init => Lock!Init
  BY DEF Init, Lock!Init
<1> QED
  BY <1>1, SleepLockInvariant, StepImplements, PTL DEF Spec, IsMutex, Lock!Spec

-----------------------------------------------------------------------------
(* Spin locks                                                              *)

\* The locks of a CPU can be counted, and are none if their number is 0.
LEMMA HeldFinite ==
  ASSUME NEW c \in Processors
  PROVE  /\ IsFiniteSet(Held(c)) /\ Cardinality(Held(c)) \in Nat
         /\ Cardinality(Held(c)) = 0 <=> Held(c) = {}
<1>1. IsFiniteSet(Held(c))
  BY FS_Subset, SpinlockAssumption DEF Held
<1> QED
  BY <1>1, FS_CardinalityType, FS_EmptySet

\* Taking a lock adds it to those of one CPU.
LEMMA HeldMore ==
  ASSUME SpinTypeOK, NEW c \in Processors, NEW l \in Locks, holder[l] = None,
         holder' = [holder EXCEPT ![l] = c], NEW d \in Processors
  PROVE  /\ d = c => Cardinality(Held(d)') = Cardinality(Held(d)) + 1
         /\ d # c => Held(d)' = Held(d)
<1>1. d = c => Held(d)' = Held(d) \cup {l} /\ l \notin Held(d)
  BY SpinlockAssumption DEF Held, SpinTypeOK
<1>2. d # c => Held(d)' = Held(d)
  BY SpinlockAssumption DEF Held, SpinTypeOK
<1> QED
  BY <1>1, <1>2, HeldFinite, FS_AddElement

\* Giving a lock back takes it from those of one CPU.
LEMMA HeldLess ==
  ASSUME SpinTypeOK, NEW c \in Processors, NEW l \in Locks, holder[l] = c,
         holder' = [holder EXCEPT ![l] = None], NEW d \in Processors
  PROVE  /\ d = c => Cardinality(Held(d)') = Cardinality(Held(d)) - 1
         /\ d = c => Held(d)' \subseteq Held(d)
         /\ d # c => Held(d)' = Held(d)
<1>1. d = c => Held(d)' = Held(d) \ {l} /\ l \in Held(d)
  BY SpinlockAssumption DEF Held, SpinTypeOK
<1>2. d # c => Held(d)' = Held(d)
  BY SpinlockAssumption DEF Held, SpinTypeOK
<1> QED
  BY <1>1, <1>2, HeldFinite, FS_RemoveElement

\* All CPUs start in their scheduler with interrupts off and no lock.
LEMMA SpinInitSafe == ASSUME SpinInit PROVE SpinInv
<1> USE DEF SpinInit
<1>1. SpinTypeOK
  BY DEF SpinTypeOK
<1>2. \A c \in Processors : Held(c) = {}
  BY SpinlockAssumption DEF Held
<1>3. NoSelfDeadlock
  BY <1>2, FS_EmptySet DEF NoSelfDeadlock
<1> QED
  BY <1>1, <1>3 DEF SpinInv, InterruptsRestored, IntrInv, Context

\* acquire() turns the interrupts off before it looks at the lock.
LEMMA AcquireSafe ==
  ASSUME SpinInv, NEW c \in Processors, NEW l \in Locks, MayAcquire(c, l), Acquire(c, l)
  PROVE  SpinInv'
<1> USE DEF SpinInv, Acquire
<1>1. SpinTypeOK'
  BY DEF SpinTypeOK, Cli
<1>2. \A d \in Processors : Held(d)' = Held(d) /\ Cardinality(Held(d)) \in Nat
  BY HeldFinite DEF Held
<1>3. holder[l] # c
  BY SpinlockAssumption DEF Held, SpinTypeOK
<1>4. NoSelfDeadlock'
  BY <1>2, <1>3, SpinlockAssumption DEF NoSelfDeadlock, SpinTypeOK, Cli
<1>5. InterruptsRestored'
  BY DEF InterruptsRestored, SpinTypeOK, Cli
<1>6. ncli[c] = 0 => (flag[c] <=> Context(c) \notin inIntr)
  BY DEF MayAcquire, InterruptsRestored, IntrInv, Context, SpinTypeOK
<1>7. \A d \in Processors : Context(d)' = Context(d)
  BY DEF Context
<1>8. IntrInv'
  <2>1. ASSUME NEW d \in Processors
        PROVE  /\ Context(d)' \in inIntr' => ~flag'[d]
               /\ ncli'[d] > 0 => (intena'[d] <=> Context(d)' \notin inIntr')
    BY <1>6, <1>7 DEF IntrInv, SpinTypeOK, Cli
  <2> QED
    BY <2>1 DEF IntrInv, SpinTypeOK
<1> QED
  BY <1>1, <1>4, <1>5, <1>8

\* xchg() gives the lock to a CPU with interrupts off.
LEMMA XchgSafe ==
  ASSUME SpinInv, NEW c \in Processors, Xchg(c)
  PROVE  SpinInv'
<1> USE DEF SpinInv
<1> DEFINE l == want[c]
<1>1. /\ l \in Locks /\ l # None /\ holder[l] = None /\ holder' = [holder EXCEPT ![l] = c]
      /\ want' = [want EXCEPT ![c] = None]
      /\ UNCHANGED <<flag, ncli, intena, run, saved, inIntr>>
  BY DEF Xchg, SpinTypeOK
<1>2. SpinTypeOK'
  BY <1>1 DEF SpinTypeOK
<1>3. \A d \in Processors : /\ d = c => Cardinality(Held(d)') = Cardinality(Held(d)) + 1
                            /\ d # c => Held(d)' = Held(d)
  BY <1>1, HeldMore
<1>4. NoSelfDeadlock'
  BY <1>1, <1>3 DEF NoSelfDeadlock, SpinTypeOK
<1>5. ncli[c] # 0
  BY <1>1, HeldFinite DEF NoSelfDeadlock
<1>6. InterruptsRestored' /\ IntrInv'
  BY <1>1, <1>5 DEF InterruptsRestored, IntrInv, SpinTypeOK, Context
<1> QED
  BY <1>2, <1>4, <1>6

\* What popcli() leaves on each CPU: the count of locks, and interrupts only where
\* they are on without a lock.
LEMMA PopCliSafe ==
  ASSUME SpinInv, NEW c \in Processors, NEW l \in Locks, holder[l] = c, want[c] = None,
         PopCli(c, l), UNCHANGED want
  PROVE  /\ NoSelfDeadlock'
         /\ holder' \in [Locks -> Processors \cup {None}] /\ ncli' \in [Processors -> Nat]
         /\ flag' \in [Processors -> BOOLEAN]
         /\ ncli[c] \in Nat \ {0} /\ ~flag[c]
<1> USE DEF SpinInv, PopCli
<1>1. \A d \in Processors : /\ d = c => Cardinality(Held(d)') = Cardinality(Held(d)) - 1
                            /\ d = c => Held(d)' \subseteq Held(d)
                            /\ d # c => Held(d)' = Held(d)
  BY HeldLess
<1>2. l \in Held(c) /\ Cardinality(Held(c)) \in Nat \ {0}
  BY HeldFinite DEF Held
<1>3. ncli[c] = Cardinality(Held(c)) /\ ~flag[c]
  BY <1>2 DEF NoSelfDeadlock
<1>4. Cardinality(Held(c)') = 0 => Held(c)' = {}
  <2>1. IsFiniteSet(Held(c)')
    BY <1>1, HeldFinite, FS_Subset
  <2> QED
    BY <2>1, FS_EmptySet
<1>5. /\ holder' \in [Locks -> Processors \cup {None}] /\ ncli' \in [Processors -> Nat]
      /\ flag' \in [Processors -> BOOLEAN]
  BY <1>2, <1>3 DEF SpinTypeOK
<1>6. ASSUME NEW d \in Processors
      PROVE  /\ want'[d] # None => holder'[want'[d]] # d
             /\ want'[d] # None \/ Held(d)' # {} => ~flag'[d]
             /\ ncli'[d] = Cardinality(Held(d)') + (IF want'[d] = None THEN 0 ELSE 1)
  <2>1. CASE d = c
    BY <1>1, <1>2, <1>3, <1>4, <2>1 DEF SpinTypeOK
  <2>2. CASE d # c
    BY <1>1, <2>2, SpinlockAssumption DEF SpinTypeOK, NoSelfDeadlock
  <2> QED
    BY <2>1, <2>2
<1> QED
  BY <1>2, <1>3, <1>5, <1>6 DEF NoSelfDeadlock

\* release() turns the interrupts on again with the last lock, outside handlers.
LEMMA ReleaseSafe ==
  ASSUME SpinInv, NEW c \in Processors, NEW l \in Locks, Release(c, l)
  PROVE  SpinInv'
<1> USE DEF SpinInv
<1>1. /\ holder[l] = c /\ want[c] = None /\ PopCli(c, l)
      /\ UNCHANGED <<want, intena, run, saved, inIntr>>
  BY DEF Release
<1>2. /\ NoSelfDeadlock'
      /\ holder' \in [Locks -> Processors \cup {None}] /\ ncli' \in [Processors -> Nat]
      /\ flag' \in [Processors -> BOOLEAN]
      /\ ncli[c] \in Nat \ {0} /\ ~flag[c]
  BY <1>1, PopCliSafe
<1>3. SpinTypeOK'
  BY <1>1, <1>2 DEF SpinTypeOK
<1>4. /\ ncli' = [ncli EXCEPT ![c] = @ - 1]
      /\ flag' = [flag EXCEPT ![c] = @ \/ (ncli[c] = 1 /\ intena[c])]
  BY <1>1 DEF PopCli
<1>5. InterruptsRestored'
  BY <1>1, <1>2, <1>4 DEF InterruptsRestored, IntrInv, SpinTypeOK, Context
<1>6. IntrInv'
  BY <1>1, <1>2, <1>4 DEF IntrInv, SpinTypeOK, Context
<1> QED
  BY <1>2, <1>3, <1>5, <1>6

\* An interrupt comes when there is no lock, and its handler runs with interrupts off.
LEMMA IntrSafe ==
  ASSUME SpinInv, NEW c \in Processors, Intr(c)
  PROVE  SpinInv'
<1> USE DEF SpinInv, Intr
<1>1. SpinTypeOK'
  BY DEF SpinTypeOK, Context
<1>2. \A d \in Processors : Held(d)' = Held(d) /\ Context(d)' = Context(d)
  BY DEF Held, Context
<1>3. NoSelfDeadlock'
  BY <1>2 DEF NoSelfDeadlock, SpinTypeOK
<1>4. \A d \in Processors : d # c => Context(d) # Context(c)
  BY SpinlockAssumption DEF Context, IntrInv, SpinTypeOK
<1>5. ncli[c] = 0
  BY HeldFinite DEF NoSelfDeadlock
<1>6. InterruptsRestored'
  BY <1>4 DEF InterruptsRestored, Context, SpinTypeOK
<1>7. IntrInv'
  <2>1. ASSUME NEW d \in Processors
        PROVE  /\ Context(d)' \in inIntr' => ~flag'[d]
               /\ ncli'[d] > 0 => (intena'[d] <=> Context(d)' \notin inIntr')
               /\ run'[d] # None => d \notin inIntr'
    BY <1>2, <1>4, <1>5, SpinlockAssumption DEF IntrInv, SpinTypeOK, Context
  <2>2. ASSUME NEW t \in Threads, \A d \in Processors : run'[d] # t
        PROVE  saved'[t] = "off" <=> t \in inIntr'
    BY <2>2, SpinlockAssumption DEF IntrInv, SpinTypeOK, Context
  <2> QED
    BY <2>1, <2>2 DEF IntrInv
<1> QED
  BY <1>1, <1>3, <1>6, <1>7

\* A handler returns without locks.
LEMMA IretSafe ==
  ASSUME SpinInv, NEW c \in Processors, Iret(c)
  PROVE  SpinInv'
<1> USE DEF SpinInv, Iret
<1>1. SpinTypeOK'
  BY DEF SpinTypeOK
<1>2. \A d \in Processors : Held(d)' = Held(d) /\ Context(d)' = Context(d)
  BY DEF Held, Context
<1>3. want[c] = None /\ Held(c) = {}
  BY HeldFinite DEF NoSelfDeadlock
<1>4. NoSelfDeadlock'
  BY <1>2, <1>3 DEF NoSelfDeadlock, SpinTypeOK
<1>5. \A d \in Processors : d # c => Context(d) # Context(c)
  BY SpinlockAssumption DEF Context, IntrInv, SpinTypeOK
<1>6. InterruptsRestored'
  BY <1>5 DEF InterruptsRestored, Context, SpinTypeOK
<1>7. IntrInv'
  <2>1. ASSUME NEW d \in Processors
        PROVE  /\ Context(d)' \in inIntr' => ~flag'[d]
               /\ ncli'[d] > 0 => (intena'[d] <=> Context(d)' \notin inIntr')
               /\ run'[d] # None => d \notin inIntr'
    BY <1>2, <1>5 DEF IntrInv, SpinTypeOK
  <2>2. ASSUME NEW t \in Threads, \A d \in Processors : run'[d] # t
        PROVE  saved'[t] = "off" <=> t \in inIntr'
    BY <2>2, SpinlockAssumption DEF IntrInv, SpinTypeOK, Context
  <2> QED
    BY <2>1, <2>2 DEF IntrInv
<1> QED
  BY <1>1, <1>4, <1>6, <1>7

\* The scheduler has turned its interrupts on.
LEMMA StiSafe ==
  ASSUME SpinInv, NEW c \in Processors, Sti(c)
  PROVE  SpinInv'
<1> USE DEF SpinInv, Sti
<1>1. SpinTypeOK'
  BY DEF SpinTypeOK
<1>2. \A d \in Processors : Held(d)' = Held(d) /\ Context(d)' = Context(d)
  BY DEF Held, Context
<1>3. want[c] = None /\ Held(c) = {}
  BY HeldFinite DEF NoSelfDeadlock
<1>4. NoSelfDeadlock'
  BY <1>2, <1>3 DEF NoSelfDeadlock, SpinTypeOK
<1>5. InterruptsRestored'
  BY DEF InterruptsRestored, SpinTypeOK
<1>6. IntrInv'
  BY <1>2 DEF IntrInv, SpinTypeOK, Context
<1> QED
  BY <1>1, <1>4, <1>5, <1>6

\* A thread gives its CPU back with ptable.lock, which the scheduler releases: the
\* scheduler is not in a handler.
LEMMA BackSafe ==
  ASSUME SpinInv, NEW c \in Processors, Back(c),
         NEW t, t = run[c], saved' \in [Threads -> {"new", "on", "off"}],
         inIntr' \subseteq inIntr, inIntr \ inIntr' \subseteq {t},
         \A s \in Threads : s # t => saved'[s] = saved[s],
         saved'[t] = "off" <=> t \in inIntr'
  PROVE  SpinInv'
<1> USE DEF SpinInv
<1>1. /\ t \in Threads /\ run' = [run EXCEPT ![c] = None]
      /\ holder[PTABLE] = c /\ want[c] = None /\ PopCli(c, PTABLE)
      /\ UNCHANGED <<want, intena>>
  BY DEF Back, SpinTypeOK, Held
<1>2. /\ NoSelfDeadlock'
      /\ holder' \in [Locks -> Processors \cup {None}] /\ ncli' \in [Processors -> Nat]
      /\ flag' \in [Processors -> BOOLEAN]
      /\ ncli[c] \in Nat \ {0} /\ ~flag[c]
  BY <1>1, PopCliSafe, SpinlockAssumption
<1>3. SpinTypeOK'
  BY <1>1, <1>2 DEF SpinTypeOK
<1>4. /\ ncli' = [ncli EXCEPT ![c] = @ - 1]
      /\ flag' = [flag EXCEPT ![c] = @ \/ (ncli[c] = 1 /\ intena[c])]
  BY <1>1 DEF PopCli
<1>5. ncli[c] = 1
  <2>1. Held(c) = {PTABLE}
    BY DEF Back
  <2>2. Cardinality({PTABLE}) = 1
    BY FS_Singleton
  <2>3. ncli[c] = Cardinality(Held(c)) + 0
    BY <1>1 DEF NoSelfDeadlock
  <2> QED
    BY <2>1, <2>2, <2>3
<1>6. \A d \in Processors : d # c => run[d] # t
  BY <1>1, SpinlockAssumption DEF IntrInv, SpinTypeOK
<1>7. InterruptsRestored'
  BY <1>1, <1>4, <1>6 DEF InterruptsRestored, SpinTypeOK
<1>8. IntrInv'
  <2>1. ASSUME NEW d \in Processors
        PROVE  /\ Context(d)' \in inIntr' => ~flag'[d]
               /\ ncli'[d] > 0 => (intena'[d] <=> Context(d)' \notin inIntr')
               /\ run'[d] # None => d \notin inIntr'
    <3>1. CASE d = c
      BY <1>1, <1>4, <1>5, <3>1 DEF IntrInv, SpinTypeOK, Context
    <3>2. CASE d # c
      BY <1>1, <1>4, <1>6, <3>2, SpinlockAssumption DEF IntrInv, SpinTypeOK, Context
    <3> QED
      BY <3>1, <3>2
  <2>2. ASSUME NEW s \in Threads, \A d \in Processors : run'[d] # s
        PROVE  saved'[s] = "off" <=> s \in inIntr'
    BY <1>1, <2>2 DEF IntrInv, SpinTypeOK
  <2>3. \A d, e \in Processors : run'[d] = run'[e] /\ run'[d] # None => d = e
    BY <1>1 DEF IntrInv, SpinTypeOK
  <2> QED
    BY <2>1, <2>2, <2>3 DEF IntrInv
<1> QED
  BY <1>2, <1>3, <1>7, <1>8

\* sched() saves intena with the thread.
LEMMA SchedSafe ==
  ASSUME SpinInv, NEW c \in Processors, Sched(c)
  PROVE  SpinInv'
<1>1. Back(c) /\ run[c] \in Threads /\ UNCHANGED inIntr
  BY DEF Sched, Back, SpinInv, SpinTypeOK
<1>2. saved' = [saved EXCEPT ![run[c]] = IF intena[c] THEN "on" ELSE "off"]
  BY DEF Sched
<1>3. intena[c] <=> run[c] \notin inIntr
  <2>1. ncli[c] > 0
    <3>1. Held(c) = {PTABLE} /\ want[c] = None
      BY <1>1 DEF Back
    <3>2. Held(c) # {}
      BY <3>1
    <3> QED
      BY <3>1, <3>2, HeldFinite DEF SpinInv, NoSelfDeadlock
  <2> QED
    BY <1>1, <2>1, SpinlockAssumption DEF SpinInv, IntrInv, Context
<1> QED
  BY <1>1, <1>2, <1>3, BackSafe DEF SpinInv, SpinTypeOK

\* exit() leaves the entry of the process to a new thread.
LEMMA ExitSafe ==
  ASSUME SpinInv, NEW c \in Processors, Exit(c)
  PROVE  SpinInv'
<1>1. Back(c) /\ run[c] \in Threads /\ inIntr' = inIntr \ {run[c]}
  BY DEF Exit, Back, SpinInv, SpinTypeOK
<1>2. saved' = [saved EXCEPT ![run[c]] = "new"]
  BY DEF Exit
<1> QED
  BY <1>1, <1>2, BackSafe DEF SpinInv, SpinTypeOK

\* The thread finds the intena that it left, or that of the scheduler if it is new.
LEMMA SwitchSafe ==
  ASSUME SpinInv, NEW c \in Processors, NEW t \in Threads, Switch(c, t)
  PROVE  SpinInv'
<1> USE DEF SpinInv, Switch
<1>1. SpinTypeOK'
  BY DEF SpinTypeOK, Restored
<1>2. \A d \in Processors : Held(d)' = Held(d)
  BY DEF Held
<1>3. NoSelfDeadlock'
  BY <1>2 DEF NoSelfDeadlock
<1>4. ncli[c] > 0
  BY HeldFinite DEF NoSelfDeadlock
<1>5. InterruptsRestored'
  BY <1>4 DEF InterruptsRestored, SpinTypeOK
<1>6. ~flag[c]
  BY DEF NoSelfDeadlock
<1>7. Restored(c, t) <=> t \notin inIntr
  BY <1>4 DEF Restored, IntrInv, SpinTypeOK, Context
<1>8. IntrInv'
  <2>1. ASSUME NEW d \in Processors
        PROVE  /\ Context(d)' \in inIntr' => ~flag'[d]
               /\ ncli'[d] > 0 => (intena'[d] <=> Context(d)' \notin inIntr')
               /\ run'[d] # None => d \notin inIntr'
    <3>1. CASE d = c
      BY <1>6, <1>7, <3>1 DEF SpinTypeOK, Context
    <3>2. CASE d # c
      BY <3>2 DEF IntrInv, SpinTypeOK, Context
    <3> QED
      BY <3>1, <3>2
  <2>2. ASSUME NEW s \in Threads, \A d \in Processors : run'[d] # s
        PROVE  saved'[s] = "off" <=> s \in inIntr'
    BY <2>2, SpinlockAssumption DEF IntrInv, SpinTypeOK
  <2>3. \A d, e \in Processors : run'[d] = run'[e] /\ run'[d] # None => d = e
    BY DEF IntrInv, SpinTypeOK
  <2> QED
    BY <2>1, <2>2, <2>3 DEF IntrInv
<1> QED
  BY <1>1, <1>3, <1>5, <1>8

\* Every step keeps the invariant.
LEMMA SpinStepSafe ==
  ASSUME SpinInv, [SpinNext]_spinVars
  PROVE  SpinInv'
<1>1. ASSUME NEW c \in Processors, NEW l \in Locks, MayAcquire(c, l), Acquire(c, l)
      PROVE  SpinInv'
  BY <1>1, AcquireSafe
<1>2. ASSUME NEW c \in Processors, NEW l \in Locks, Release(c, l) PROVE SpinInv'
  BY <1>2, ReleaseSafe
<1>3. ASSUME NEW c \in Processors, Xchg(c) PROVE SpinInv'
  BY <1>3, XchgSafe
<1>4. ASSUME NEW c \in Processors, Intr(c) PROVE SpinInv'
  BY <1>4, IntrSafe
<1>5. ASSUME NEW c \in Processors, Iret(c) PROVE SpinInv'
  BY <1>5, IretSafe
<1>6. ASSUME NEW c \in Processors, Sched(c) PROVE SpinInv'
  BY <1>6, SchedSafe
<1>7. ASSUME NEW c \in Processors, Exit(c) PROVE SpinInv'
  BY <1>7, ExitSafe
<1>8. ASSUME NEW c \in Processors, Sti(c) PROVE SpinInv'
  BY <1>8, StiSafe
<1>9. ASSUME NEW c \in Processors, NEW t \in Threads, Switch(c, t) PROVE SpinInv'
  BY <1>9, SwitchSafe
<1>10. CASE UNCHANGED spinVars
  <2>1. \A c \in Processors : Held(c)' = Held(c) /\ Context(c)' = Context(c)
    BY <1>10 DEF spinVars, Held, Context
  <2> QED
    BY <1>10, <2>1
    DEF spinVars, SpinInv, SpinTypeOK, NoSelfDeadlock, InterruptsRestored, IntrInv
<1> QED
  BY <1>1, <1>2, <1>3, <1>4, <1>5, <1>6, <1>7, <1>8, <1>9, <1>10 DEF SpinNext

\* The inductive invariant of locks and interrupts.
THEOREM SpinInvariance == SpinSpec => []SpinInv
<1>1. SpinInit => SpinInv
  BY SpinInitSafe
<1>2. SpinInv /\ [SpinNext]_spinVars => SpinInv'
  BY SpinStepSafe
<1> QED
  BY <1>1, <1>2, PTL DEF SpinSpec

\* No CPU waits for a lock that it has, or that the code it interrupted has.
THEOREM NoCpuWaitsForItself == SpinSpec => []NoSelfDeadlock
<1>1. SpinInv => NoSelfDeadlock
  BY DEF SpinInv
<1> QED
  BY <1>1, SpinInvariance, PTL

\* A thread gets its interrupt flag back when it has released its locks, on any CPU.
THEOREM InterruptsComeBack == SpinSpec => []InterruptsRestored
<1>1. SpinInv => InterruptsRestored
  BY DEF SpinInv
<1> QED
  BY <1>1, SpinInvariance, PTL

-----------------------------------------------------------------------------
(* sys_sleep()                                                             *)

\* What is left of a count below the wrap, and of one that has wrapped.
LEMMA WrappedCount ==
  ASSUME NEW W \in Nat \ {0}, NEW e \in 0 .. W - 1
  PROVE  (e % W) = e
OBVIOUS

\* The same after a wrap.
LEMMA WrappedOnce ==
  ASSUME NEW W \in Nat \ {0}, NEW e \in 0 .. W - 1
  PROVE  ((e + W) % W) = e
OBVIOUS

\* One more tick is one more, or none and a wrap.
LEMMA NextTick ==
  ASSUME NEW W \in Nat \ {0}, NEW t \in 0 .. W - 1
  PROVE  (t + 1) % W = IF t + 1 = W THEN 0 ELSE t + 1
OBVIOUS

\* The delay of a call is below the wrap.
LEMMA DelayType ==
  ASSUME TicksTypeOK, NEW p \in Callers
  PROVE  n[p] \in 0 .. Wrap - 1
<1>1. n[p] \in Delays \cup {0}
  BY DEF TicksTypeOK
<1>2. \A x \in Delays : x \in 0 .. Wrap - 1
  BY TicksAssumption
<1>3. 0 \in 0 .. Wrap - 1
  BY TicksAssumption
<1> QED
  BY <1>1, <1>2, <1>3, Zenon

\* Nobody has called sys_sleep() when the clock starts.
LEMMA TicksInitSafe == TicksInit => TicksInv
BY TicksAssumption DEF TicksInit, TicksInv, TicksTypeOK, SleepsEnough, Zero

\* A tick is counted by every call under way.
LEMMA TimerSafe == TicksInv /\ Timer => TicksInv'
<1> SUFFICES ASSUME TicksInv, Timer PROVE TicksInv'
  OBVIOUS
<1> USE TicksAssumption DEF TicksInv, TicksTypeOK
<1>1. ticks' = IF ticks + 1 = Wrap THEN 0 ELSE ticks + 1
  BY NextTick DEF Timer
<1>2. TicksTypeOK'
  BY <1>1 DEF Timer, WokenCallers
<1>3. SleepsEnough'
  <2>1. \A p \in Callers : n[p] \in 0 .. Wrap - 1
    BY DelayType
  <2> QED
    BY <2>1 DEF Timer, WokenCallers, SleepsEnough
<1>4. ASSUME NEW p \in Callers, tpc'[p] \in {"test", "sleep", "asleep", "runnable"}
      PROVE  Counted(p)'
  <2>1. tpc[p] \in {"test", "sleep", "asleep", "runnable"}
    BY <1>4 DEF Timer, WokenCallers
  <2>2. elapsed'[p] = IF elapsed[p] = Wrap THEN Wrap ELSE elapsed[p] + 1
    BY <2>1 DEF Timer
  <2> QED
    BY <1>1, <2>1, <2>2 DEF Timer, Counted
<1> QED
  BY <1>2, <1>3, <1>4

\* A call that has not been early has slept for as long as it was told to.
LEMMA ReturnsSafe ==
  ASSUME TicksInv, NEW p \in Callers, Returns(p)
  PROVE  TicksInv'
<1> USE TicksAssumption DEF TicksInv, TicksTypeOK
<1>1. TicksTypeOK'
  BY DEF Returns, tickGhosts
<1>2. ~Early(p) => elapsed[p] >= n[p]
  <2> SUFFICES ASSUME ~Early(p) PROVE elapsed[p] >= n[p]
    OBVIOUS
  <2>1. Counted(p) /\ n[p] \in 0 .. Wrap - 1
    BY DelayType DEF Returns
  <2>2. CASE elapsed[p] = Wrap
    BY <2>1, <2>2
  <2>3. CASE elapsed[p] < Wrap
    <3> DEFINE e == elapsed[p]
    <3>1. e \in 0 .. Wrap - 1
      BY <2>3
    <3>2. (e % Wrap) = e /\ ((e + Wrap) % Wrap) = e
      <4> HIDE DEF e
      <4> QED  BY <3>1, WrappedCount, WrappedOnce
    <3>3. ticks + Wrap - ticks0[p] = e \/ ticks + Wrap - ticks0[p] = e + Wrap
      BY <2>1, <2>3 DEF Counted
    <3>4. ((ticks + Wrap - ticks0[p]) % Wrap) = e
      BY <3>2, <3>3
    <3> QED
      BY <2>1, <3>1, <3>4 DEF Early
  <2> QED
    BY <2>1, <2>2, <2>3 DEF Counted
<1>3. SleepsEnough'
  BY <1>2 DEF Returns, SleepsEnough, MayReturn, tickGhosts
<1> QED
  BY <1>1, <1>3 DEF Returns, Counted, tickGhosts

\* Every other step of a call leaves what it has counted alone.
LEMMA CallSafe ==
  ASSUME TicksInv, NEW p \in Callers,
         \/ BeforeSleep(p) \/ Block(p) \/ Reacquire(p) \/ ToUser(p) \/ KillCaller(p)
         \/ \E k \in Delays : CallSleep(p, k)
  PROVE  TicksInv'
<1> USE TicksAssumption DEF TicksInv, TicksTypeOK, SleepsEnough, Counted
<1>1. CASE BeforeSleep(p)
  BY <1>1 DEF BeforeSleep, tickGhosts
<1>2. CASE Block(p)
  BY <1>2 DEF Block, tickGhosts
<1>3. CASE Reacquire(p)
  BY <1>3 DEF Reacquire
<1>4. CASE ToUser(p)
  BY <1>4 DEF ToUser
<1>5. CASE KillCaller(p)
  BY <1>5 DEF KillCaller, tickGhosts
<1>6. ASSUME NEW k \in Delays, CallSleep(p, k) PROVE TicksInv'
  BY <1>6 DEF CallSleep
<1> QED
  BY <1>1, <1>2, <1>3, <1>4, <1>5, <1>6

\* sleep(n) that returns 0 has slept n ticks, whichever counts the clock has wrapped at,
\* for every n below the wrap; and one that returns -1 was killed.
THEOREM NobodySleepsLess == TicksSpec => []SleepsEnough
<1>1. TicksInv /\ [TicksNext]_tickVars => TicksInv'
  <2> SUFFICES ASSUME TicksInv, [TicksNext]_tickVars PROVE TicksInv'
    OBVIOUS
  <2>1. CASE UNCHANGED tickVars
    BY <2>1 DEF tickVars, tickLocals, tickGhosts, TicksInv, TicksTypeOK, SleepsEnough, Counted
  <2> QED
    BY <2>1, TimerSafe, ReturnsSafe, CallSafe DEF TicksNext, SysSleep
<1>2. TicksInv => SleepsEnough
  BY DEF TicksInv
<1> QED
  BY <1>1, <1>2, TicksInitSafe, PTL DEF TicksSpec
===============================================================================
