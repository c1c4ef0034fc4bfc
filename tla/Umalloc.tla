------------------------------- MODULE Umalloc -------------------------------
(***************************************************************************)
(* The allocator of user programs (umalloc.c): a circular list of free     *)
(* blocks in address order, searched from freep, with blocks cut from the  *)
(* end and merged when they are freed. Addresses are counted in headers.   *)
(***************************************************************************)
EXTENDS Integers, FiniteSets

CONSTANTS
  HEADER,       \* sizeof(Header), in bytes
  MINUNITS,     \* the least that morecore() asks for
  Requests,     \* bound: the sizes, in bytes, that the program asks for
  Gaps,         \* bound: what the program takes with sbrk() for itself
  HeapEnd       \* bound: where sbrk() fails

Base == 0       \* the address of the static base, below the heap
Addr == 0 .. HeapEnd

VARIABLES
  h,            \* ptr and size of the headers (0 where there is none), freep
  brk,
  used          \* ghost: the blocks of the program, with the bytes asked for

vars == <<h, brk, used>>

Init ==
  /\ h = [ptr |-> [a \in Addr |-> 0], size |-> [a \in Addr |-> 0], freep |-> Base]
  /\ brk = Base + 1
  /\ used = {}

UsedAt == {b[1] : b \in used}
FreeAt(s) == {Base} \cup {a \in Addr : s.size[a] > 0 /\ a \notin UsedAt}

\* The i-th block of the list after freep, and the first that P holds for.
Walk(s) ==
  LET walk[i \in Nat] == IF i = 0 THEN s.freep ELSE s.ptr[walk[i - 1]] IN walk
Least(I) == CHOOSE i \in I : \A j \in I : i <= j

-----------------------------------------------------------------------------
(* free()                                                                  *)

\* bp is between p and the next block, or at the end of the list.
Belongs(s, bp, p) ==
  \/ p < bp /\ bp < s.ptr[p]
  \/ p >= s.ptr[p] /\ (bp > p \/ bp < s.ptr[p])

Place(s, bp) ==
  Walk(s)[Least({i \in 0 .. Cardinality(FreeAt(s)) : Belongs(s, bp, Walk(s)[i])})]

\* The block above joins bp, or follows it.
JoinNext_Never(s, bp, q) == [s EXCEPT !.ptr[bp] = q]
JoinNext(s, bp, q) ==
  IF bp + s.size[bp] = q
  THEN [s EXCEPT !.size[bp] = @ + s.size[q], !.ptr[bp] = s.ptr[q],
                 !.size[q] = 0, !.ptr[q] = 0]
  ELSE [s EXCEPT !.ptr[bp] = q]

\* bp joins the block below, or follows it.
JoinPrevious(s, bp, p) ==
  IF p + s.size[p] = bp
  THEN [s EXCEPT !.size[p] = @ + s.size[bp], !.ptr[p] = s.ptr[bp],
                 !.size[bp] = 0, !.ptr[bp] = 0, !.freep = p]
  ELSE [s EXCEPT !.ptr[p] = bp, !.freep = p]

Freed(s, bp) ==
  LET p == Place(s, bp) IN JoinPrevious(JoinNext(s, bp, s.ptr[p]), bp, p)

Free(b) ==
  /\ h' = Freed(h, b[1])
  /\ used' = used \ {b}
  /\ UNCHANGED brk

-----------------------------------------------------------------------------
(* malloc()                                                                *)

Units(nbytes) == (((nbytes + HEADER) - 1) \div HEADER) + 1

Fits(s, n) == {i \in 1 .. Cardinality(FreeAt(s)) : s.size[Walk(s)[i]] >= n}

\* Where a block is cut.
Cut(s, p, n) == p + (s.size[p] - n)

\* The first block that is large enough is taken whole, or from its end.
Take(s, n, nbytes) ==
  LET i == Least(Fits(s, n))
      prevp == Walk(s)[i - 1]
      p == Walk(s)[i]
      a == Cut(s, p, n)
  IN
  /\ h' = IF s.size[p] = n
          THEN [s EXCEPT !.ptr[prevp] = s.ptr[p], !.ptr[p] = 0, !.freep = prevp]
          ELSE [s EXCEPT !.size[p] = @ - n, !.size[a] = n, !.freep = prevp]
  /\ used' = used \cup {<<a, nbytes>>}

Malloc(nbytes) ==
  /\ Fits(h, Units(nbytes)) # {}
  /\ Take(h, Units(nbytes), nbytes)
  /\ UNCHANGED brk

\* morecore() in between; when sbrk() fails, malloc() returns 0.
MallocMore(nbytes) ==
  LET n  == Units(nbytes)
      nu == IF n < MINUNITS THEN MINUNITS ELSE n
  IN
  /\ Fits(h, n) = {}
  /\ IF brk + nu <= HeapEnd
     THEN /\ Take(Freed([h EXCEPT !.size[brk] = nu], brk), n, nbytes)
          /\ brk' = brk + nu
     ELSE UNCHANGED vars

\* The program calls sbrk() itself.
Sbrk(k) ==
  /\ brk + k <= HeapEnd
  /\ brk' = brk + k
  /\ UNCHANGED <<h, used>>

Next ==
  \/ \E n \in Requests : Malloc(n) \/ MallocMore(n)
  \/ \E b \in used : Free(b)
  \/ \E k \in Gaps : Sbrk(k)

Spec == Init /\ [][Next]_vars

-----------------------------------------------------------------------------
(* Properties                                                              *)

\* Types of the variables.
TypeOK ==
  /\ h \in [ptr : [Addr -> Addr], size : [Addr -> Addr], freep : Addr]
  /\ brk \in Addr
  /\ used \subseteq Addr \X Requests

Block(a) == a .. (a + h.size[a]) - 1

\* Each block of the program is large enough for what it asked for, lies in the
\* heap, and shares no byte with another block or with a free one.
BlocksApart ==
  /\ \A b \in used : (h.size[b[1]] - 1) * HEADER >= b[2]
  /\ \A a \in UsedAt \cup FreeAt(h) :
       /\ a + h.size[a] <= brk
       /\ \A c \in (UsedAt \cup FreeAt(h)) \ {a} : Block(a) \cap Block(c) = {}

\* The list goes once around the free blocks, upwards, from wherever freep is,
\* and no two of them touch: free() has merged whatever can be merged.
ListCoalesced ==
  LET n == Cardinality(FreeAt(h)) IN
  /\ {Walk(h)[i] : i \in 0 .. n - 1} = FreeAt(h) /\ Walk(h)[n] = h.freep
  /\ Cardinality({a \in FreeAt(h) : h.ptr[a] <= a}) = 1
  /\ \A a \in FreeAt(h) : h.size[a] > 0 => a + h.size[a] \notin FreeAt(h)

\* What malloc(), free() and morecore() keep together, in a heap with gaps.
HeapTiled == BlocksApart /\ ListCoalesced
===============================================================================
