----------------------------- MODULE FileProofs -----------------------------
(***************************************************************************)
(* What is behind a descriptor.  The table of open files: for any number   *)
(* of processes, descriptors, files and pipes, no call loses a reference   *)
(* and none is used after the last.  The console: nobody waits at it while *)
(* there is input, and it implements the line buffer that its readers are  *)
(* promised (LineBuffer), for any number of readers, any size of the ring  *)
(* and any range of its indices.                                           *)
(***************************************************************************)
EXTENDS Console, Rings, Descriptors, FiniteSetTheorems, WellFoundedInduction

-----------------------------------------------------------------------------
(* Counting references                                                     *)

\* The first of a table's free entries is one of them.
LEMMA LowestIn ==
  ASSUME NEW S \in SUBSET Nat, S # {}
  PROVE  Lowest(S) \in S
<1>1. PICK R : IsWellFoundedOn(R, Nat) /\ \A x, y \in Nat : <<x, y>> \in R <=> x < y
  BY NatLessThanWellFounded DEF OpToRel
<1>2. PICK x \in S : \A y \in S : ~(<<y, x>> \in R)
  <2>1. S \subseteq Nat
    OBVIOUS
  <2>2. IsWellFoundedOn(R, Nat)
    BY <1>1
  <2> HIDE <1>1
  <2> QED
    BY <2>1, <2>2, WFMin, Zenon
<1>3. \A y \in S : x \in Nat /\ y \in Nat /\ ~(y < x)
  BY <1>1, <1>2
<1>4. \A y \in S : x <= y
  BY <1>3
<1> QED
  BY <1>2, <1>4 DEF Lowest

\* One more.
LEMMA OneMore ==
  ASSUME NEW S, IsFiniteSet(S), NEW x, x \notin S, NEW T, T = S \cup {x}
  PROVE  IsFiniteSet(T) /\ Cardinality(S) \in Nat /\ Cardinality(T) = Cardinality(S) + 1
BY FS_AddElement, FS_CardinalityType

\* One fewer.
LEMMA OneFewer ==
  ASSUME NEW S, IsFiniteSet(S), NEW x \in S, NEW T, T = S \ {x}
  PROVE  IsFiniteSet(T) /\ Cardinality(T) \in Nat /\ Cardinality(S) = Cardinality(T) + 1
<1>1. IsFiniteSet(T) /\ Cardinality(T) = Cardinality(S) - 1
  BY FS_RemoveElement
<1>2. Cardinality(T) \in Nat /\ Cardinality(S) \in Nat
  BY <1>1, FS_CardinalityType
<1> QED
  BY <1>1, <1>2

\* The sets that are counted are finite.
LEMMA Countable ==
  ASSUME NEW f
  PROVE  /\ IsFiniteSet(Owed(f)) /\ IsFiniteSet(Descs(f))
         /\ IsFiniteSet(Locals(f)) /\ IsFiniteSet(ToClose(f))
         /\ Cardinality(Owed(f)) \in Nat /\ Cardinality(Descs(f)) \in Nat
         /\ Cardinality(Locals(f)) \in Nat /\ Cardinality(ToClose(f)) \in Nat
<1>1. IsFiniteSet(Slots) /\ IsFiniteSet(Fds)
  BY DescriptorsAssumption, FS_Interval DEF Fds
<1>2. IsFiniteSet({"f0", "f1"}) /\ IsFiniteSet({1, 2})
  <2>1. {"f0", "f1"} = {"f0"} \cup {"f1"} /\ {1, 2} = {1} \cup {2}
    OBVIOUS
  <2>2. IsFiniteSet({"f0"}) /\ IsFiniteSet({1})
    BY FS_Singleton
  <2>3. IsFiniteSet({"f0"} \cup {"f1"}) /\ IsFiniteSet({1} \cup {2})
    BY <2>2, FS_AddElement
  <2> QED
    BY <2>1, <2>3
<1>3. /\ IsFiniteSet(Slots \X Fds) /\ IsFiniteSet(Slots \X {"f0", "f1"})
      /\ IsFiniteSet(Slots \X {1, 2})
  BY <1>1, <1>2, FS_Product
<1>4. /\ IsFiniteSet(Owed(f)) /\ IsFiniteSet(Descs(f))
      /\ IsFiniteSet(Locals(f)) /\ IsFiniteSet(ToClose(f))
  <2>1. /\ Owed(f) \subseteq Slots /\ Descs(f) \subseteq Slots \X Fds
        /\ Locals(f) \subseteq Slots \X {"f0", "f1"} /\ ToClose(f) \subseteq Slots \X {1, 2}
    BY DEF Owed, Descs, Locals, ToClose
  <2> QED
    BY <2>1, <1>1, <1>3, FS_Subset
<1> QED
  BY <1>4, FS_CardinalityType

\* A file that has a descriptor, a local or is to be closed has a reference: dup() runs
\* ahead by one descriptor of two.
LEMMA HasRef ==
  ASSUME FtableInv, NEW f \in Files,
         \/ Descs(f) # {} \/ Locals(f) # {} \/ ToClose(f) # {}
  PROVE  fref[f] >= 1
<1> DEFINE A == Owed(f)
           first == [p \in A |-> CHOOSE d \in Fds : ofile[p][d] = f]
           B == {<<p, first[p]>> : p \in A}
<1>1. /\ fref[f] \in Nat
      /\ fref[f] + Cardinality(A)
            = Cardinality(Descs(f)) + Cardinality(Locals(f)) + Cardinality(ToClose(f))
  BY DEF FtableInv, FtableTypeOK, FilesCounted, Counted
<1>2. \A p \in A : \E c, d \in Fds : c # d /\ ofile[p][c] = f /\ ofile[p][d] = f
  BY DEF FtableInv, LocalsFit, Owed
<1>3. \A p \in A : p \in Slots /\ first[p] \in Fds /\ ofile[p][first[p]] = f
  BY <1>2 DEF Owed
<1> HIDE DEF first
<1>4. B \subseteq Descs(f)
  BY <1>3 DEF Descs
<1>5. IsFiniteSet(A) /\ IsFiniteSet(B) /\ Cardinality(B) = Cardinality(A)
  <2> DEFINE g == [p \in A |-> <<p, first[p]>>]
  <2>1. g \in Bijection(A, B)
    <3>1. g \in [A -> B] /\ \A b \in B : \E a \in A : g[a] = b
      OBVIOUS
    <3>2. \A a, b \in A : g[a] = g[b] => a = b
      OBVIOUS
    <3> QED
      BY <3>1, <3>2 DEF Bijection, Injection, Surjection, IsInjective
  <2>2. ExistsBijection(A, B)
    BY <2>1 DEF ExistsBijection
  <2> QED
    BY <2>2, FS_Bijection, Countable
<1> HIDE DEF A, B
<1>6. Cardinality(B) <= Cardinality(Descs(f))
  BY <1>4, Countable, FS_Subset
<1>7. ASSUME Locals(f) # {} \/ ToClose(f) # {}
      PROVE  fref[f] >= 1
  <2>1. Cardinality(Locals(f)) >= 1 \/ Cardinality(ToClose(f)) >= 1
    BY <1>7, Countable, FS_EmptySet
  <2> QED
    BY <2>1, <1>1, <1>5, <1>6, Countable DEF A
<1>8. ASSUME Descs(f) # {}
      PROVE  fref[f] >= 1
  <2>1. PICK h \in Descs(f) : h \notin B
    <3>1. PICK i \in Descs(f) : TRUE
      BY <1>8
    <3>2. i[1] \in Slots /\ i[2] \in Fds /\ i = <<i[1], i[2]>> /\ ofile[i[1]][i[2]] = f
      BY <3>1 DEF Descs
    <3>3. CASE i[1] \notin A
      BY <3>1, <3>2, <3>3 DEF B
    <3>4. CASE i[1] \in A
      <4>1. PICK c \in Fds : ofile[i[1]][c] = f /\ c # first[i[1]]
        BY <3>4, <1>2
      <4>2. <<i[1], c>> \in Descs(f) /\ <<i[1], c>> \notin B
        BY <4>1, <3>2 DEF Descs, B
      <4> QED
        BY <4>2
    <3> QED
      BY <3>3, <3>4
  <2>2. IsFiniteSet(B \cup {h}) /\ Cardinality(B \cup {h}) = Cardinality(B) + 1
    BY <2>1, <1>5, OneMore
  <2>3. Cardinality(B \cup {h}) <= Cardinality(Descs(f))
    BY <1>4, <2>1, Countable, FS_Subset
  <2> QED
    BY <2>2, <2>3, <1>1, <1>5, Countable DEF A
<1> QED
  BY <1>7, <1>8

-----------------------------------------------------------------------------
(* What a step leaves alone                                                *)

\* What the invariant says of one entry of ftable.
EntrySound(f) == Counted(f) /\ Fresh(f) /\ EntryFits(f)

\* What it says of one process.
ProcFits(p) == LocalsFit(p) /\ TablesFit(p)

\* The parts are the invariant, after a step too.
LEMMA FileParts ==
  ASSUME FtableTypeOK', EndsCounted',
         \A p \in Slots : ProcFits(p)', \A f \in Files : EntrySound(f)'
  PROVE  FtableInv'
BY DEF FtableInv, FilesCounted, EntrySound, ProcFits

\* An entry whose references stay where they are.
LEMMA EntryKept ==
  ASSUME FtableInv, NEW f \in Files,
         fref'[f] = fref[f], type'[f] = type[f], pipe'[f] = pipe[f],
         Descs(f)' = Descs(f), Locals(f)' = Locals(f), Owed(f)' = Owed(f),
         \/ ToClose(f)' = ToClose(f)
         \/ Locals(f) = {} /\ Cardinality(ToClose(f)') = Cardinality(ToClose(f)),
         \A h \in Locals(f) : at[h[1]] = "fds" => at'[h[1]] = "fds"
  PROVE  EntrySound(f)'
BY DEF FtableInv, FilesCounted, EntrySound, Counted, Fresh, EntryFits

\* The ends of the pipes, when nobody opens or closes one, and no file of a pipe comes or
\* goes.
LEMMA EndsKept ==
  ASSUME FtableInv, UNCHANGED <<open, ends>>, ~fpanic',
         \A f \in Files :
           \/ /\ fref'[f] > 0 <=> fref[f] > 0
              /\ type'[f] = type[f] /\ pipe'[f] = pipe[f]
           \/ type[f] \notin {"r", "w"} /\ type'[f] \notin {"r", "w"}
  PROVE  EndsCounted'
<1>1. ASSUME NEW g \in Pages, NEW end \in {"r", "w"} PROVE EndCounted(g, end)'
  <2>1. FilesOf(g, end)' = FilesOf(g, end)
    BY DEF FilesOf
  <2>2. Closing(g, end)' = Closing(g, end) /\ IsOpen(g, end)' = IsOpen(g, end)
    BY DEF Closing, IsOpen
  <2> QED
    BY <2>1, <2>2 DEF FtableInv, FilesCounted, EndsCounted, EndCounted
<1> QED
  BY <1>1 DEF FtableInv, FilesCounted, EndsCounted

\* The processes that a step of p does not look at.
LEMMA OthersFit ==
  ASSUME FtableInv, NEW p \in Slots, at[p] # "embryo",
         at'[p] = "fork" => at[p] = "fork" /\ loc'[p].child = loc[p].child,
         \A q \in Slots \ {p} :
           /\ at'[q] = at[q] /\ loc'[q] = loc[q] /\ ofile'[q] = ofile[q]
           /\ drop'[q] = drop[q] /\ ends'[q] = ends[q]
  PROVE  \A q \in Slots \ {p} : ProcFits(q)'
<1> SUFFICES ASSUME NEW q \in Slots \ {p} PROVE ProcFits(q)'
  OBVIOUS
<1>1. LocalsFit(q) /\ TablesFit(q)
  BY DEF FtableInv
<1>2. LocalsFit(q)'
  BY <1>1 DEF LocalsFit, Closed
<1>3. TablesFit(q)'
  <2>1. CASE at[q] # "fork"
    BY <1>1, <2>1 DEF TablesFit
  <2>2. CASE at[q] = "fork"
    <3>1. PICK c \in Slots : c = loc[q].child
      BY <1>1, <2>2 DEF TablesFit
    <3>2. at[c] = "embryo" /\ c # p /\ loc'[q].child = c /\ loc'[q].fd = loc[q].fd
      BY <1>1, <2>2, <3>1 DEF TablesFit
    <3>3. at'[c] = "embryo" /\ ofile'[c] = ofile[c]
      BY <3>2
    <3>4. ASSUME NEW s \in Slots \ {q}, at'[s] = "fork" PROVE loc'[s].child # c
      BY <1>1, <2>2, <3>1, <3>4 DEF TablesFit
    <3> QED
      BY <1>1, <2>2, <3>1, <3>2, <3>3, <3>4 DEF TablesFit
  <2> QED
    BY <2>1, <2>2
<1> QED
  BY <1>2, <1>3 DEF ProcFits

\* A step that moves p from one place to another, with no files in its locals.
LEMMA MoveSafe ==
  ASSUME FtableInv, NEW p \in Slots, NEW b \in Places,
         at[p] \in {"user", "close", "exit"}, Closed(p),
         b \in {"user", "f0", "open", "exit", "unused"},
         b = "unused" => FreeFds(ofile[p]) = Fds,
         at' = [at EXCEPT ![p] = b],
         UNCHANGED <<fref, type, pipe, ofile, open, loc, drop, ends, fpanic>>
  PROVE  FtableInv'
<1>1. FtableTypeOK /\ LocalsFit(p) /\ ~fpanic
  BY DEF FtableInv, FilesCounted, EndsCounted
<1>2. FtableTypeOK'
  BY <1>1 DEF FtableTypeOK
<1>3. EndsCounted'
  BY <1>1, EndsKept
<1>4. at'[p] = b /\ \A q \in Slots \ {p} : at'[q] = at[q]
  BY <1>1 DEF FtableTypeOK
<1>5. loc[p].f0 = NoFile /\ loc[p].f1 = NoFile
  BY <1>1 DEF LocalsFit
<1>6. ProcFits(p)'
  BY <1>4, <1>5 DEF ProcFits, LocalsFit, TablesFit, Closed, FreeFds
<1>7. \A q \in Slots \ {p} : ProcFits(q)'
  BY <1>4, OthersFit
<1>8. ASSUME NEW f \in Files PROVE EntrySound(f)'
  <2>1. NoFile # f
    BY DEF Files, NoFile
  <2>2. Descs(f)' = Descs(f) /\ ToClose(f)' = ToClose(f)
    BY DEF Descs, ToClose
  <2>3. Owed(f)' = Owed(f)
    BY <1>4, <1>5, <2>1 DEF Owed
  <2>4. Locals(f)' = Locals(f) /\ \A h \in Locals(f) : at'[h[1]] = at[h[1]]
    BY <1>4, <1>5, <2>1 DEF Locals
  <2> QED
    BY <2>2, <2>3, <2>4, EntryKept
<1> QED
  BY <1>2, <1>3, <1>6, <1>7, <1>8, FileParts

\* The files of an end, and who closes it, can be counted; there are none of an end that
\* is not open.
LEMMA EndsCountable ==
  ASSUME NEW g, NEW end
  PROVE  /\ IsFiniteSet(FilesOf(g, end)) /\ Cardinality(FilesOf(g, end)) \in Nat
         /\ IsFiniteSet(Closing(g, end)) /\ Cardinality(Closing(g, end)) \in Nat
<1>1. IsFiniteSet(Files) /\ IsFiniteSet(Slots)
  BY DescriptorsAssumption, FS_Interval DEF Files
<1>2. FilesOf(g, end) \subseteq Files /\ Closing(g, end) \subseteq Slots
  BY DEF FilesOf, Closing
<1>3. IsFiniteSet(FilesOf(g, end)) /\ IsFiniteSet(Closing(g, end))
  BY <1>1, <1>2, FS_Subset
<1> QED
  BY <1>3, FS_CardinalityType

LEMMA NoneCounted ==
  ASSUME NEW g, NEW end, EndCounted(g, end), ~IsOpen(g, end)
  PROVE  FilesOf(g, end) = {} /\ Closing(g, end) = {}
<1>1. Cardinality(FilesOf(g, end)) = 0 /\ Cardinality(Closing(g, end)) = 0
  BY EndsCountable DEF EndCounted
<1> QED
  BY <1>1, EndsCountable, FS_EmptySet

-----------------------------------------------------------------------------
(* pipe() and open()                                                       *)

\* A file with a dup() that is ahead has descriptors.
LEMMA OwedHasFd ==
  ASSUME FtableInv, NEW f, Descs(f) = {}
  PROVE  Owed(f) = {}
<1> SUFFICES ASSUME NEW p \in Owed(f) PROVE FALSE
  OBVIOUS
<1>1. PICK c \in Fds : p \in Slots /\ ofile[p][c] = f
  BY DEF Owed, FtableInv, LocalsFit
<1>2. <<p, c>> \in Descs(f)
  BY <1>1 DEF Descs
<1> QED
  BY <1>2

\* An entry without references is nobody's.
LEMMA NoRef ==
  ASSUME FtableInv, NEW f \in Files, fref[f] = 0
  PROVE  Descs(f) = {} /\ Locals(f) = {} /\ ToClose(f) = {} /\ Owed(f) = {}
<1>1. Descs(f) = {} /\ Locals(f) = {} /\ ToClose(f) = {}
  BY HasRef
<1> QED
  BY <1>1, OwedHasFd

\* filealloc() finds an entry: it was nobody's, and is the caller's now.
LEMMA AllocSafe ==
  ASSUME FtableInv, NEW p \in Slots, NEW x \in {"f0", "f1"}, NEW b \in {"f1", "page", "fd"},
         NEW new \in Files, fref[new] = 0,
         \/ at[p] = "f0" /\ x = "f0" /\ b = "f1"
         \/ at[p] = "f1" /\ x = "f1" /\ b = "page"
         \/ at[p] = "open" /\ x = "f0" /\ b = "fd",
         fref' = [fref EXCEPT ![new] = 1],
         loc' = [loc EXCEPT ![p][x] = new],
         at' = [at EXCEPT ![p] = b],
         UNCHANGED <<type, pipe, ofile, open, drop, ends, fpanic>>
  PROVE  FtableInv'
<1>1. FtableTypeOK /\ LocalsFit(p) /\ ~fpanic /\ new # NoFile
  BY DEF FtableInv, FilesCounted, EndsCounted, Files, NoFile
<1>2. /\ loc[p] \in Locs /\ loc[p][x] = NoFile /\ Closed(p)
      /\ x = "f0" => loc[p].f1 = NoFile
      /\ x = "f1" => loc[p].f0 # NoFile
  BY <1>1 DEF FtableTypeOK, LocalsFit
<1> DEFINE l == [loc[p] EXCEPT ![x] = new]
<1>3. /\ l \in Locs /\ l[x] = new
      /\ x = "f0" => l.f0 = new /\ l.f1 = loc[p].f1
      /\ x = "f1" => l.f1 = new /\ l.f0 = loc[p].f0
  BY <1>2 DEF Locs
<1>4. loc' = [loc EXCEPT ![p] = l]
  OBVIOUS
<1> HIDE DEF l
<1>5. /\ at'[p] = b /\ loc'[p] = l
      /\ \A q \in Slots \ {p} : at'[q] = at[q] /\ loc'[q] = loc[q]
  BY <1>1, <1>4 DEF FtableTypeOK
<1>6. FtableTypeOK'
  <2>1. fref' \in [Files -> Nat] /\ loc' \in [Slots -> Locs]
    BY <1>1, <1>3, <1>4 DEF FtableTypeOK
  <2>2. at' \in [Slots -> Places]
    BY <1>1 DEF FtableTypeOK, Places
  <2> QED
    BY <1>1, <2>1, <2>2 DEF FtableTypeOK
<1>7. type[new] = "none" /\ fref'[new] = 1 /\ \A f \in Files \ {new} : fref'[f] = fref[f]
  BY <1>1 DEF FtableInv, EntryFits, FtableTypeOK
<1>8. EndsCounted'
  BY <1>1, <1>7, EndsKept
<1>9. ProcFits(p)'
  BY <1>1, <1>2, <1>3, <1>5 DEF ProcFits, LocalsFit, TablesFit, Closed
<1>10. \A q \in Slots \ {p} : ProcFits(q)'
  BY <1>5, OthersFit
<1>11. ASSUME NEW f \in Files PROVE EntrySound(f)'
  <2>1. Descs(f)' = Descs(f) /\ ToClose(f)' = ToClose(f)
    BY DEF Descs, ToClose
  <2>2. Owed(f)' = Owed(f)
    BY <1>5 DEF Owed
  <2>3. CASE f = new
    <3>1. Descs(f) = {} /\ Locals(f) = {} /\ ToClose(f) = {} /\ Owed(f) = {}
      BY <2>3, NoRef
    <3>2. Locals(f)' = {<<p, x>>}
      <4>1. \A q \in Slots, y \in {"f0", "f1"} :
              ~(at[q] # "dup" /\ loc[q][y] = f)
        <5>1. ASSUME NEW q \in Slots, NEW y \in {"f0", "f1"}, at[q] # "dup", loc[q][y] = f
              PROVE  <<q, y>> \in Locals(f)
          BY <5>1 DEF Locals
        <5> QED
          BY <5>1, <3>1
      <4>2. \A q \in Slots, y \in {"f0", "f1"} :
              at'[q] # "dup" /\ loc'[q][y] = f <=> q = p /\ y = x
        <5>1. ASSUME NEW y \in {"f0", "f1"}
              PROVE  at'[p] # "dup" /\ (loc'[p][y] = f <=> y = x)
          <6>1. y # x => loc'[p][y] = loc[p][y]
            BY <1>3, <1>5
          <6>2. at[p] # "dup" /\ at'[p] # "dup" /\ loc'[p][x] = f
            BY <1>3, <1>5, <2>3
          <6> QED
            BY <4>1, <6>1, <6>2
        <5>2. ASSUME NEW q \in Slots \ {p}, NEW y \in {"f0", "f1"}
              PROVE  ~(at'[q] # "dup" /\ loc'[q][y] = f)
          BY <1>5, <4>1
        <5> QED
          BY <5>1, <5>2
      <4> QED
        BY <4>2 DEF Locals
    <3>3. Counted(f)'
      <4>1. /\ Cardinality(Owed(f)') = 0 /\ Cardinality(Descs(f)') = 0
            /\ Cardinality(ToClose(f)') = 0 /\ Cardinality(Locals(f)') = 1
        BY <2>1, <2>2, <3>1, <3>2, FS_EmptySet, FS_Singleton
      <4> QED
        BY <1>7, <2>3, <4>1 DEF Counted
    <3>4. Fresh(f)' /\ EntryFits(f)'
      BY <1>7, <2>1, <2>3, <3>1, <3>2 DEF Fresh, EntryFits
    <3> QED
      BY <3>3, <3>4 DEF EntrySound
  <2>4. CASE f # new
    <3>1. Locals(f)' = Locals(f)
      <4>1. \A q \in Slots, y \in {"f0", "f1"} :
              at'[q] # "dup" /\ loc'[q][y] = f <=> at[q] # "dup" /\ loc[q][y] = f
        BY <1>2, <1>3, <1>5, <2>4 DEF Files, NoFile
      <4> QED
        BY <4>1 DEF Locals
    <3>2. \A h \in Locals(f) : at[h[1]] = "fds" => at'[h[1]] = "fds"
      BY <1>5 DEF Locals
    <3> QED
      BY <1>7, <2>1, <2>2, <2>4, <3>1, <3>2, EntryKept
  <2> QED
    BY <2>3, <2>4
<1> QED
  BY <1>6, <1>8, <1>9, <1>10, <1>11, FileParts

\* A file that a call has no descriptor for yet is its own.
LEMMA LocalIsFresh ==
  ASSUME FtableInv, NEW p \in Slots, NEW x \in {"f0", "f1"}, NEW f,
         at[p] # "dup", loc[p][x] = f, f # NoFile
  PROVE  /\ f \in Files /\ fref[f] = 1
         /\ Locals(f) = {<<p, x>>} /\ Descs(f) = {} /\ ToClose(f) = {} /\ Owed(f) = {}
         /\ at[p] # "fds" => type[f] = "none"
<1>1. f \in Files
  BY DEF FtableInv, FtableTypeOK, Locs
<1>2. <<p, x>> \in Locals(f)
  BY DEF Locals
<1>3. Locals(f) = {<<p, x>>} /\ Descs(f) = {} /\ ToClose(f) = {}
  BY <1>1, <1>2 DEF FtableInv, Fresh
<1>4. Owed(f) = {}
  BY <1>3, OwedHasFd
<1>5. at[p] # "fds" => type[f] = "none"
  BY <1>1, <1>2 DEF FtableInv, Fresh
<1>6. fref[f] = 1
  <2>1. /\ Cardinality(Owed(f)) = 0 /\ Cardinality(Descs(f)) = 0
        /\ Cardinality(ToClose(f)) = 0 /\ Cardinality(Locals(f)) = 1
    BY <1>3, <1>4, FS_EmptySet, FS_Singleton
  <2>2. fref[f] \in Nat /\ Counted(f)
    BY <1>1 DEF FtableInv, FtableTypeOK, FilesCounted
  <2> QED
    BY <2>1, <2>2 DEF Counted
<1> QED
  BY <1>1, <1>3, <1>4, <1>5, <1>6

\* A call that fails passes the files in its locals to fileclose().
LEMMA GiveUpSafe ==
  ASSUME FtableInv, NEW p \in Slots, NEW s \in Seq(Files), Len(s) <= 2,
         at[p] \in {"f0", "f1", "page", "fds", "open", "fd"},
         \/ s = <<>> /\ loc[p].f0 = NoFile /\ loc[p].f1 = NoFile
         \/ s = <<loc[p].f0>> /\ loc[p].f0 # NoFile /\ loc[p].f1 = NoFile
         \/ s = <<loc[p].f0, loc[p].f1>> /\ loc[p].f0 # NoFile /\ loc[p].f1 # NoFile,
         drop' = [drop EXCEPT ![p] = s],
         loc' = [loc EXCEPT ![p] = NoLoc],
         at' = [at EXCEPT ![p] = "close"],
         UNCHANGED <<fref, type, pipe, ofile, open, ends, fpanic>>
  PROVE  FtableInv'
<1>1. FtableTypeOK /\ LocalsFit(p) /\ ~fpanic
  BY DEF FtableInv, FilesCounted, EndsCounted
<1>2. NoLoc \in Locs /\ NoLoc.f0 = NoFile /\ NoLoc.f1 = NoFile
  BY DescriptorsAssumption DEF Locs, NoLoc
<1>3. /\ at'[p] = "close" /\ loc'[p] = NoLoc /\ drop'[p] = s /\ drop[p] = <<>>
      /\ \A q \in Slots \ {p} : at'[q] = at[q] /\ loc'[q] = loc[q] /\ drop'[q] = drop[q]
  BY <1>1 DEF FtableTypeOK, LocalsFit, Closed
<1>4. FtableTypeOK'
  <2>1. loc' \in [Slots -> Locs] /\ at' \in [Slots -> Places] /\ drop' \in [Slots -> Seq(Files)]
    BY <1>1, <1>2 DEF FtableTypeOK, Places
  <2>3. \A q \in Slots : Len(drop'[q]) <= 2
    BY <1>1, <1>3 DEF FtableTypeOK
  <2> QED
    BY <1>1, <2>1, <2>3 DEF FtableTypeOK
<1>5. EndsCounted'
  BY <1>1, EndsKept
<1>6. ProcFits(p)'
  BY <1>2, <1>3 DEF ProcFits, LocalsFit, TablesFit
<1>7. \A q \in Slots \ {p} : ProcFits(q)'
  BY <1>3, OthersFit
<1>8. ASSUME NEW f \in Files PROVE EntrySound(f)'
  <2>1. Descs(f)' = Descs(f) /\ f # NoFile
    BY DEF Descs, Files, NoFile
  <2>2. Owed(f)' = Owed(f)
    BY <1>3 DEF Owed
  <2>3. CASE f # loc[p].f0 /\ f # loc[p].f1
    <3>1. \A q \in Slots, y \in {"f0", "f1"} :
            at'[q] # "dup" /\ loc'[q][y] = f <=> at[q] # "dup" /\ loc[q][y] = f
      BY <1>2, <1>3, <2>1, <2>3
    <3>2. \A q \in Slots, k \in {1, 2} :
            k \in DOMAIN drop'[q] /\ drop'[q][k] = f <=> k \in DOMAIN drop[q] /\ drop[q][k] = f
      BY <1>3, <2>3
    <3>3. Locals(f)' = Locals(f) /\ ToClose(f)' = ToClose(f)
      BY <3>1, <3>2 DEF Locals, ToClose
    <3>4. \A h \in Locals(f) : at[h[1]] = "fds" => at'[h[1]] = "fds"
      BY <1>3, <2>3 DEF Locals
    <3> QED
      BY <2>1, <2>2, <3>3, <3>4, EntryKept
  <2>4. ASSUME NEW x \in {"f0", "f1"}, loc[p][x] = f
        PROVE  EntrySound(f)'
    <3>0. PICK k \in {1, 2} : k = IF x = "f0" THEN 1 ELSE 2
      OBVIOUS
    <3>1. /\ fref[f] = 1 /\ Locals(f) = {<<p, x>>} /\ Descs(f) = {} /\ ToClose(f) = {}
          /\ Owed(f) = {}
      <4>1. at[p] # "dup"
        OBVIOUS
      <4> QED
        BY <2>1, <2>4, <4>1, LocalIsFresh
    <3>2. \A q \in Slots, y \in {"f0", "f1"} :
            at[q] # "dup" /\ loc[q][y] = f => <<q, y>> = <<p, x>>
      <4>1. ASSUME NEW q \in Slots, NEW y \in {"f0", "f1"}, at[q] # "dup", loc[q][y] = f
            PROVE  <<q, y>> \in Locals(f)
        BY <4>1 DEF Locals
      <4> QED
        BY <4>1, <3>1
    <3>3. \A q \in Slots, j \in {1, 2} : ~(j \in DOMAIN drop[q] /\ drop[q][j] = f)
      <4>1. ASSUME NEW q \in Slots, NEW j \in {1, 2}, j \in DOMAIN drop[q], drop[q][j] = f
            PROVE  <<q, j>> \in ToClose(f)
        BY <4>1 DEF ToClose
      <4> QED
        BY <4>1, <3>1
    <3>4. Locals(f)' = {}
      BY <1>2, <1>3, <2>1, <3>2 DEF Locals
    <3>5. k \in DOMAIN s /\ s[k] = f /\ \A j \in DOMAIN s : s[j] = f => j = k
      <4>1. x = "f0" => loc[p].f1 # f
        BY <3>2, <2>4
      <4>2. x = "f1" => loc[p].f0 # f
        BY <3>2, <2>4
      <4> QED
        BY <2>1, <2>4, <3>0, <4>1, <4>2
    <3>6. ToClose(f)' = {<<p, k>>}
      <4>1. \A q \in Slots, j \in {1, 2} :
              j \in DOMAIN drop'[q] /\ drop'[q][j] = f <=> q = p /\ j = k
        BY <1>3, <3>3, <3>5
      <4> QED
        BY <4>1 DEF ToClose
    <3>7. Counted(f)'
      <4>1. /\ Cardinality(Owed(f)') = 0 /\ Cardinality(Descs(f)') = 0
            /\ Cardinality(ToClose(f)') = 1 /\ Cardinality(Locals(f)') = 0
        BY <2>1, <2>2, <3>1, <3>4, <3>6, FS_EmptySet, FS_Singleton
      <4> QED
        BY <3>1, <4>1 DEF Counted
    <3>8. Fresh(f)' /\ EntryFits(f)'
      BY <3>4 DEF Fresh, EntryFits, FtableInv
    <3> QED
      BY <3>7, <3>8 DEF EntrySound
  <2>5. "f0" \in {"f0", "f1"} /\ "f1" \in {"f0", "f1"}
    OBVIOUS
  <2>6. loc[p].f0 = f \/ loc[p].f1 = f => EntrySound(f)'
    BY <2>4, <2>5
  <2> QED
    BY <2>3, <2>6
<1> QED
  BY <1>4, <1>5, <1>6, <1>7, <1>8, FileParts

\* pipealloc() has its page: the two files, which had no type, are the ends of a new pipe.
LEMMA PipeMadeSafe ==
  ASSUME FtableInv, ~fpanic, NEW p \in Slots, NEW g \in Pages, PipeMade(p, g)
  PROVE  FtableInv'
<1> DEFINE a == loc[p].f0
           b == loc[p].f1
<1>1. FtableTypeOK /\ LocalsFit(p) /\ at[p] = "page"
  BY DEF FtableInv, PipeMade
<1>2. loc[p] \in Locs /\ a # NoFile /\ b # NoFile /\ Closed(p)
  BY <1>1 DEF FtableTypeOK, LocalsFit
<1>3. /\ a \in Files /\ fref[a] = 1 /\ type[a] = "none" /\ Locals(a) = {<<p, "f0">>}
      /\ b \in Files /\ fref[b] = 1 /\ type[b] = "none" /\ Locals(b) = {<<p, "f1">>}
  BY <1>1, <1>2, LocalIsFresh
<1>4. a # b
  <2>1. <<p, "f0">> # <<p, "f1">>
    OBVIOUS
  <2> QED
    BY <1>3, <2>1
<1> HIDE DEF a, b
<1>5. /\ type' \in [Files -> {"none", "inode", "r", "w"}]
      /\ pipe' \in [Files -> Pages \cup {NoFile}]
      /\ type'[a] = "r" /\ type'[b] = "w" /\ pipe'[a] = g /\ pipe'[b] = g
      /\ \A f \in Files \ {a, b} : type'[f] = type[f] /\ pipe'[f] = pipe[f]
  BY <1>1, <1>3, <1>4 DEF FtableTypeOK, PipeMade, a, b
<1>6. /\ at'[p] = "fds" /\ at' \in [Slots -> Places]
      /\ \A q \in Slots \ {p} : at'[q] = at[q]
      /\ UNCHANGED <<fref, ofile, loc, drop, ends, fpanic>>
  BY <1>1 DEF FtableTypeOK, PipeMade, Goto, Places
<1>7. /\ g \notin DOMAIN open /\ DOMAIN open' = DOMAIN open \cup {g}
      /\ open'[g] = {"r", "w"} /\ \A h \in DOMAIN open : open'[h] = open[h]
  BY DEF PipeMade
<1>8. FtableTypeOK'
  <2>1. DOMAIN open' \subseteq Pages /\ \A h \in DOMAIN open' : open'[h] \subseteq {"r", "w"}
    BY <1>1, <1>7 DEF FtableTypeOK
  <2> QED
    BY <1>1, <1>5, <1>6, <2>1 DEF FtableTypeOK
<1>9. EndsCounted'
  <2>1. ASSUME NEW h \in Pages, NEW end \in {"r", "w"} PROVE EndCounted(h, end)'
    <3>1. EndCounted(h, end) /\ Closing(h, end)' = Closing(h, end)
      BY <1>6 DEF FtableInv, FilesCounted, EndsCounted, Closing
    <3>2. CASE h # g
      <4>1. FilesOf(h, end)' = FilesOf(h, end)
        BY <1>3, <1>5, <1>6, <3>2 DEF FilesOf
      <4>2. IsOpen(h, end)' <=> IsOpen(h, end)
        BY <1>7, <3>2 DEF IsOpen
      <4> QED
        BY <3>1, <4>1, <4>2 DEF EndCounted
    <3>3. CASE h = g
      <4>1. FilesOf(h, end) = {} /\ Closing(h, end) = {}
        <5>1. ~IsOpen(h, end)
          BY <1>7, <3>3 DEF IsOpen
        <5> QED
          BY <3>1, <5>1, NoneCounted
      <4>2. FilesOf(h, end)' = {IF end = "r" THEN a ELSE b}
        <5>1. \A f \in Files : ~(fref[f] > 0 /\ type[f] = end /\ pipe[f] = h)
          BY <4>1 DEF FilesOf
        <5>2. \A f \in Files : fref'[f] > 0 /\ type'[f] = end /\ pipe'[f] = h
                                 <=> f = IF end = "r" THEN a ELSE b
          BY <1>3, <1>5, <1>6, <3>3, <5>1
        <5>3. (IF end = "r" THEN a ELSE b) \in Files
          BY <1>3
        <5> QED
          BY <5>2, <5>3 DEF FilesOf
      <4>3. Cardinality(FilesOf(h, end)') = 1 /\ Cardinality(Closing(h, end)') = 0
        BY <3>1, <4>1, <4>2, FS_EmptySet, FS_Singleton
      <4>4. IsOpen(h, end)'
        BY <1>7, <3>3 DEF IsOpen
      <4> QED
        BY <4>3, <4>4 DEF EndCounted
    <3> QED
      BY <3>2, <3>3
  <2>2. \A h \in DOMAIN open' : open'[h] # {}
    BY <1>7 DEF FtableInv, FilesCounted, EndsCounted
  <2> QED
    BY <1>6, <2>1, <2>2 DEF EndsCounted
<1>10. ProcFits(p)'
  BY <1>1, <1>2, <1>6 DEF ProcFits, LocalsFit, TablesFit, Closed, a, b
<1>11. \A q \in Slots \ {p} : ProcFits(q)'
  BY <1>1, <1>6, OthersFit
<1>12. ASSUME NEW f \in Files PROVE EntrySound(f)'
  <2>1. /\ Descs(f)' = Descs(f) /\ ToClose(f)' = ToClose(f) /\ Owed(f)' = Owed(f)
        /\ Locals(f)' = Locals(f)
    BY <1>1, <1>6 DEF Descs, ToClose, Owed, Locals
  <2>2. CASE f \notin {a, b}
    <3>1. \A h \in Locals(f) : at[h[1]] = "fds" => at'[h[1]] = "fds"
      BY <1>6 DEF Locals
    <3> QED
      BY <1>5, <1>6, <2>1, <2>2, <3>1, EntryKept
  <2>3. CASE f \in {a, b}
    <3>1. Counted(f)'
      BY <1>6, <2>1 DEF Counted, FtableInv, FilesCounted
    <3>2. \A h \in Locals(f) : at'[h[1]] = "fds"
      BY <1>3, <1>6, <2>3
    <3>3. Fresh(f)'
      BY <2>1, <3>2 DEF Fresh, FtableInv
    <3>4. EntryFits(f)'
      BY <1>3, <1>5, <1>6, <2>3 DEF EntryFits
    <3> QED
      BY <3>1, <3>3, <3>4 DEF EntrySound
  <2> QED
    BY <2>2, <2>3
<1> QED
  BY <1>8, <1>9, <1>10, <1>11, <1>12, FileParts

\* fdalloc() has a slot in the table of p for one file of its locals.
LEMMA FdGiven ==
  ASSUME FtableInv, NEW p \in Slots, NEW x \in {"f0", "f1"}, NEW d \in Fds, NEW f \in Files,
         at[p] \in {"fds", "fd"}, loc[p][x] = f, ofile[p][d] = NoFile, ofile'[p][d] = f,
         \A c \in Fds \ {d} : ofile'[p][c] = f => ofile[p][c] = f,
         \A q \in Slots \ {p}, c \in Fds : ofile'[q][c] = ofile[q][c],
         loc' = [loc EXCEPT ![p] = NoLoc], at' = [at EXCEPT ![p] = "user"],
         type'[f] \in {"r", "w"} => type'[f] = type[f],
         UNCHANGED <<fref, pipe, drop>>
  PROVE  EntrySound(f)'
<1>1. f # NoFile
  BY DEF Files, NoFile
<1>2. at[p] # "dup" /\ p \in Slots /\ x \in {"f0", "f1"} /\ loc[p][x] = f /\ f # NoFile
  BY <1>1
<1>3. /\ fref[f] = 1 /\ Locals(f) = {<<p, x>>} /\ Descs(f) = {} /\ ToClose(f) = {}
      /\ Owed(f) = {}
  BY ONLY FtableInv, <1>2, LocalIsFresh
<1>4. /\ loc'[p] = NoLoc /\ NoLoc.f0 = NoFile /\ NoLoc.f1 = NoFile /\ at'[p] = "user"
      /\ \A q \in Slots \ {p} : loc'[q] = loc[q] /\ at'[q] = at[q]
  BY DEF FtableInv, FtableTypeOK, NoLoc
<1>5. Locals(f)' = {}
  <2>1. ASSUME NEW q \in Slots \ {p}, NEW y \in {"f0", "f1"}, at[q] # "dup", loc[q][y] = f
        PROVE  FALSE
    <3>1. <<q, y>> \in Locals(f)
      BY <2>1 DEF Locals
    <3> QED
      BY <1>3, <3>1
  <2> QED
    BY <1>1, <1>4, <2>1 DEF Locals
<1>6. Descs(f)' = {<<p, d>>}
  <2>1. ASSUME NEW q \in Slots, NEW c \in Fds, ofile[q][c] = f
        PROVE  FALSE
    <3>1. <<q, c>> \in Descs(f)
      BY <2>1 DEF Descs
    <3> QED
      BY <1>3, <3>1
  <2>2. \A q \in Slots, c \in Fds : ofile'[q][c] = f <=> q = p /\ c = d
    BY <1>1, <2>1
  <2> QED
    BY <2>2 DEF Descs
<1>7. ToClose(f)' = {} /\ Owed(f)' = {}
  <2>1. ToClose(f)' = {}
    BY <1>3 DEF ToClose
  <2>2. Owed(f)' = {}
    BY <1>3, <1>4 DEF Owed
  <2> QED
    BY <2>1, <2>2
<1>8. Counted(f)'
  <2>1. /\ Cardinality(Owed(f)') = 0 /\ Cardinality(Descs(f)') = 1
        /\ Cardinality(ToClose(f)') = 0 /\ Cardinality(Locals(f)') = 0
    BY <1>5, <1>6, <1>7, FS_EmptySet, FS_Singleton
  <2> QED
    BY <1>3, <2>1 DEF Counted
<1>9. Fresh(f)' /\ EntryFits(f)'
  BY <1>1, <1>3, <1>5 DEF Fresh, EntryFits, FtableInv
<1> QED
  BY <1>8, <1>9 DEF EntrySound

\* The entries that fdalloc() does not touch.
LEMMA FdsKept ==
  ASSUME FtableInv, NEW p \in Slots, NEW f \in Files,
         at[p] \in {"fds", "fd"}, f # loc[p].f0, f # loc[p].f1,
         \A q \in Slots, c \in Fds : ofile'[q][c] = f <=> ofile[q][c] = f,
         loc' = [loc EXCEPT ![p] = NoLoc], at' = [at EXCEPT ![p] = "user"],
         type'[f] = type[f], UNCHANGED <<fref, pipe, drop>>
  PROVE  EntrySound(f)'
<1>1. /\ loc'[p] = NoLoc /\ NoLoc.f0 = NoFile /\ NoLoc.f1 = NoFile /\ at'[p] = "user"
      /\ \A q \in Slots \ {p} : loc'[q] = loc[q] /\ at'[q] = at[q]
  BY DEF FtableInv, FtableTypeOK, NoLoc
<1>2. Descs(f)' = Descs(f) /\ ToClose(f)' = ToClose(f) /\ f # NoFile
  BY DEF Descs, ToClose, Files, NoFile
<1>3. Owed(f)' = Owed(f)
  BY <1>1 DEF Owed
<1>4. \A q \in Slots, y \in {"f0", "f1"} :
        at'[q] # "dup" /\ loc'[q][y] = f <=> at[q] # "dup" /\ loc[q][y] = f
  BY <1>1, <1>2
<1>5. Locals(f)' = Locals(f)
  BY <1>4 DEF Locals
<1>6. \A h \in Locals(f) : at[h[1]] = "fds" => at'[h[1]] = "fds"
  BY <1>1 DEF Locals
<1> QED
  BY <1>2, <1>3, <1>5, <1>6, EntryKept

\* pipe() has its two descriptors.
LEMMA PipeFdsSafe ==
  ASSUME FtableInv, ~fpanic, NEW p \in Slots, PipeFds(p)
  PROVE  FtableInv'
<1> DEFINE free == FreeFds(ofile[p])
           fd0 == Lowest(free)
           fd1 == Lowest(free \ {fd0})
<1>1. FtableTypeOK /\ LocalsFit(p) /\ at[p] = "fds"
  BY DEF FtableInv, PipeFds
<1>2. /\ loc[p] \in Locs /\ loc[p].f0 # NoFile /\ loc[p].f1 # NoFile /\ Closed(p)
      /\ loc[p].f0 \in Files /\ loc[p].f1 \in Files
  BY <1>1 DEF FtableTypeOK, LocalsFit, Locs
<1>3. UNCHANGED <<fref, type, pipe, open, ends, fpanic>>
  BY DEF PipeFds
<1>4. CASE Cardinality(free) < 2
  <2>1. GiveUp(p, <<loc[p].f0, loc[p].f1>>) /\ UNCHANGED ofile
    <3>1. IsFiniteSet(free) /\ Cardinality(free) \in Nat
      <4>1. IsFiniteSet(Fds) /\ free \subseteq Fds
        BY DescriptorsAssumption, FS_Interval DEF Fds, FreeFds
      <4> QED
        BY <4>1, FS_Subset, FS_CardinalityType
    <3> QED
      BY <1>4, <3>1 DEF PipeFds
  <2>2. <<loc[p].f0, loc[p].f1>> \in Seq(Files) /\ Len(<<loc[p].f0, loc[p].f1>>) <= 2
    BY <1>2
  <2> QED
    BY <1>1, <1>2, <1>3, <2>1, <2>2, GiveUpSafe DEF GiveUp, Goto
<1>5. CASE ~(Cardinality(free) < 2)
  <2>1. /\ ofile' = [ofile EXCEPT ![p][fd0] = loc[p].f0, ![p][fd1] = loc[p].f1]
        /\ loc' = [loc EXCEPT ![p] = NoLoc] /\ at' = [at EXCEPT ![p] = "user"]
        /\ UNCHANGED drop /\ Cardinality(free) >= 2
    BY <1>5 DEF PipeFds, Goto
  <2>2. fd0 \in free /\ fd1 \in free /\ fd0 # fd1
    <3>1. IsFiniteSet(free) /\ free \subseteq Fds /\ free \subseteq Nat
      <4>1. IsFiniteSet(Fds) /\ free \subseteq Fds /\ Fds \subseteq Nat
        BY DescriptorsAssumption, FS_Interval DEF Fds, FreeFds
      <4> QED
        BY <4>1, FS_Subset
    <3>2. free # {}
      BY <2>1, FS_EmptySet
    <3>3. fd0 \in free
      BY <3>1, <3>2, LowestIn
    <3>4. free \ {fd0} # {}
      <4>1. Cardinality(free \ {fd0}) = Cardinality(free) - 1 /\ Cardinality(free) \in Nat
        BY <3>1, <3>3, FS_RemoveElement, FS_CardinalityType
      <4>2. Cardinality(free \ {fd0}) # 0
        BY <2>1, <4>1
      <4> QED
        BY <4>2, FS_EmptySet
    <3>5. fd1 \in free \ {fd0}
      BY <3>1, <3>4, LowestIn
    <3> QED
      BY <3>3, <3>5
  <2>3. PICK a, b \in Fds : a = fd0 /\ b = fd1
    BY <2>2 DEF FreeFds
  <2>4. a # b /\ ofile[p][a] = NoFile /\ ofile[p][b] = NoFile
    BY <2>2, <2>3 DEF FreeFds
  <2>5. ofile' = [ofile EXCEPT ![p] = [ofile[p] EXCEPT ![a] = loc[p].f0, ![b] = loc[p].f1]]
    BY <2>1, <2>3
  <2> HIDE DEF free, fd0, fd1
  <2>6. /\ ofile'[p][a] = loc[p].f0 /\ ofile'[p][b] = loc[p].f1
        /\ \A c \in Fds \ {a, b} : ofile'[p][c] = ofile[p][c]
        /\ \A q \in Slots \ {p} : ofile'[q] = ofile[q]
        /\ ofile' \in [Slots -> [Fds -> Files \cup {NoFile}]]
    BY <1>1, <1>2, <2>4, <2>5 DEF FtableTypeOK
  <2>7. /\ NoLoc \in Locs /\ NoLoc.f0 = NoFile /\ NoLoc.f1 = NoFile
        /\ loc'[p] = NoLoc /\ at'[p] = "user" /\ at' \in [Slots -> Places]
        /\ loc' \in [Slots -> Locs]
        /\ \A q \in Slots \ {p} : loc'[q] = loc[q] /\ at'[q] = at[q]
    <3>1. NoLoc \in Locs /\ NoLoc.f0 = NoFile /\ NoLoc.f1 = NoFile
      BY DescriptorsAssumption DEF Locs, NoLoc
    <3> QED
      BY <1>1, <2>1, <3>1 DEF FtableTypeOK, Places
  <2>8. FtableTypeOK'
    BY <1>1, <1>3, <2>1, <2>6, <2>7 DEF FtableTypeOK
  <2>9. EndsCounted'
    BY <1>3, EndsKept DEF FtableInv, FilesCounted, EndsCounted
  <2>10. ProcFits(p)'
    BY <1>2, <1>3, <2>1, <2>7 DEF ProcFits, LocalsFit, TablesFit, Closed
  <2>11. \A q \in Slots \ {p} : ProcFits(q)'
    BY <1>1, <1>3, <2>1, <2>6, <2>7, OthersFit
  <2>12. loc[p].f0 # loc[p].f1
    <3>1. <<p, "f0">> # <<p, "f1">> /\ at[p] # "dup"
      BY <1>1
    <3>2. <<p, "f0">> \in Locals(loc[p].f0) /\ <<p, "f1">> \in Locals(loc[p].f1)
      BY <3>1 DEF Locals
    <3>3. Locals(loc[p].f0) = {<<p, "f0">>}
      BY <1>2, <3>2 DEF FtableInv, Fresh
    <3> QED
      BY <3>1, <3>2, <3>3
  <2>13. ASSUME NEW f \in Files PROVE EntrySound(f)'
    <3>1. f # NoFile
      BY DEF Files, NoFile
    <3>2. CASE f = loc[p].f0
      <4>1. \A c \in Fds \ {a} : ofile'[p][c] = f => ofile[p][c] = f
        BY <2>6, <2>12, <3>2
      <4>2. loc[p]["f0"] = f /\ "f0" \in {"f0", "f1"} /\ ofile'[p][a] = f
        BY <2>6, <3>2
      <4> QED
        BY <1>1, <1>3, <2>1, <2>4, <2>6, <4>1, <4>2, FdGiven
    <3>3. CASE f = loc[p].f1
      <4>1. \A c \in Fds \ {b} : ofile'[p][c] = f => ofile[p][c] = f
        BY <2>6, <2>12, <3>3
      <4>2. loc[p]["f1"] = f /\ "f1" \in {"f0", "f1"} /\ ofile'[p][b] = f
        BY <2>6, <3>3
      <4> QED
        BY <1>1, <1>3, <2>1, <2>4, <2>6, <4>1, <4>2, FdGiven
    <3>4. CASE f # loc[p].f0 /\ f # loc[p].f1
      <4>1. \A q \in Slots, c \in Fds : ofile'[q][c] = f <=> ofile[q][c] = f
        BY <2>4, <2>6, <3>1, <3>4
      <4> QED
        BY <1>1, <1>3, <2>1, <3>4, <4>1, FdsKept
    <3> QED
      BY <3>2, <3>3, <3>4
  <2> QED
    BY <2>8, <2>9, <2>10, <2>11, <2>13, FileParts
<1> QED
  BY <1>4, <1>5

\* open() has its descriptor: the file gets its type.
LEMMA OpenFdSafe ==
  ASSUME FtableInv, ~fpanic, NEW p \in Slots, OpenFd(p)
  PROVE  FtableInv'
<1> DEFINE free == FreeFds(ofile[p])
<1>1. FtableTypeOK /\ LocalsFit(p) /\ at[p] = "fd"
  BY DEF FtableInv, OpenFd
<1>2. PICK f \in Files : f = loc[p].f0 /\ f # NoFile
  BY <1>1 DEF FtableTypeOK, LocalsFit, Locs
<1>3. loc[p] \in Locs /\ loc[p].f1 = NoFile /\ Closed(p)
  BY <1>1 DEF FtableTypeOK, LocalsFit
<1>4. UNCHANGED <<fref, pipe, open, ends, fpanic>>
  BY DEF OpenFd
<1>5. CASE free = {}
  <2>1. GiveUp(p, <<f>>) /\ UNCHANGED <<ofile, type>>
    BY <1>2, <1>5 DEF OpenFd
  <2>2. <<f>> \in Seq(Files) /\ Len(<<f>>) <= 2
    BY <1>2
  <2> QED
    BY <1>1, <1>2, <1>3, <1>4, <2>1, <2>2, GiveUpSafe DEF GiveUp, Goto
<1>6. CASE free # {}
  <2>1. Lowest(free) \in free
    <3>1. free \in SUBSET Nat
      BY DescriptorsAssumption DEF FreeFds, Fds
    <3> QED
      BY <1>6, <3>1, LowestIn
  <2>2. PICK d \in Fds : d = Lowest(free) /\ ofile[p][d] = NoFile
    BY <2>1 DEF FreeFds
  <2>3. /\ ofile' = [ofile EXCEPT ![p][d] = f] /\ type' = [type EXCEPT ![f] = "inode"]
        /\ loc' = [loc EXCEPT ![p] = NoLoc] /\ at' = [at EXCEPT ![p] = "user"]
        /\ UNCHANGED drop
    BY <1>2, <1>6, <2>2 DEF OpenFd, Goto
  <2> HIDE DEF free
  <2>4. /\ ofile'[p][d] = f /\ \A c \in Fds \ {d} : ofile'[p][c] = ofile[p][c]
        /\ \A q \in Slots \ {p} : ofile'[q] = ofile[q]
        /\ ofile' \in [Slots -> [Fds -> Files \cup {NoFile}]]
    BY <1>1, <2>3 DEF FtableTypeOK
  <2>5. /\ type' \in [Files -> {"none", "inode", "r", "w"}] /\ type'[f] = "inode"
        /\ \A k \in Files \ {f} : type'[k] = type[k]
    BY <1>1, <2>3 DEF FtableTypeOK
  <2>6. /\ NoLoc \in Locs /\ NoLoc.f0 = NoFile /\ NoLoc.f1 = NoFile
        /\ loc'[p] = NoLoc /\ at'[p] = "user" /\ at' \in [Slots -> Places]
        /\ loc' \in [Slots -> Locs]
        /\ \A q \in Slots \ {p} : loc'[q] = loc[q] /\ at'[q] = at[q]
    <3>1. NoLoc \in Locs /\ NoLoc.f0 = NoFile /\ NoLoc.f1 = NoFile
      BY DescriptorsAssumption DEF Locs, NoLoc
    <3> QED
      BY <1>1, <2>3, <3>1 DEF FtableTypeOK, Places
  <2>7. FtableTypeOK'
    BY <1>1, <1>4, <2>3, <2>4, <2>5, <2>6 DEF FtableTypeOK
  <2>8. at[p] # "dup" /\ loc[p]["f0"] = f /\ "f0" \in {"f0", "f1"}
    BY <1>1, <1>2
  <2>9. type[f] = "none"
    BY <1>1, <1>2, <2>8, LocalIsFresh
  <2>10. EndsCounted'
    BY <1>4, <2>5, <2>9, EndsKept
  <2>11. ProcFits(p)'
    BY <1>3, <1>4, <2>3, <2>6 DEF ProcFits, LocalsFit, TablesFit, Closed
  <2>12. \A q \in Slots \ {p} : ProcFits(q)'
    BY <1>1, <1>4, <2>3, <2>4, <2>6, OthersFit
  <2>13. ASSUME NEW k \in Files PROVE EntrySound(k)'
    <3>1. k # NoFile
      BY DEF Files, NoFile
    <3>2. CASE k = f
      <4>1. \A c \in Fds \ {d} : ofile'[p][c] = f => ofile[p][c] = f
        BY <2>4
      <4>2. EntrySound(f)'
        BY <1>1, <1>4, <2>2, <2>3, <2>4, <2>5, <2>8, <4>1, FdGiven
      <4> QED
        BY <3>2, <4>2
    <3>3. CASE k # f
      <4>1. \A q \in Slots, c \in Fds : ofile'[q][c] = k <=> ofile[q][c] = k
        BY <2>2, <2>4, <3>1, <3>3
      <4> QED
        BY <1>1, <1>2, <1>3, <1>4, <2>3, <2>5, <3>1, <3>3, <4>1, FdsKept
    <3> QED
      BY <3>2, <3>3
  <2> QED
    BY <2>7, <2>10, <2>11, <2>12, <2>13, FileParts
<1> QED
  BY <1>5, <1>6

-----------------------------------------------------------------------------
(* dup(), close() and exit()                                               *)

\* close() and exit() take a file out of their table to close it.
LEMMA DropFdSafe ==
  ASSUME FtableInv, NEW p \in Slots, NEW d \in Fds, NEW f \in Files, ofile[p][d] = f,
         \/ at[p] = "user" /\ at' = [at EXCEPT ![p] = "close"]
         \/ at[p] = "exit" /\ at' = at,
         Closed(p),
         drop' = [drop EXCEPT ![p] = <<f>>],
         ofile' = [ofile EXCEPT ![p][d] = NoFile],
         UNCHANGED <<fref, type, pipe, open, loc, ends, fpanic>>
  PROVE  FtableInv'
<1>1. FtableTypeOK /\ LocalsFit(p) /\ ~fpanic /\ f # NoFile
  BY DEF FtableInv, FilesCounted, EndsCounted, Files, NoFile
<1>2. /\ at'[p] \in {"close", "exit"} /\ at' \in [Slots -> Places]
      /\ \A q \in Slots \ {p} : at'[q] = at[q]
  BY <1>1 DEF FtableTypeOK, Places
<1>3. /\ drop[p] = <<>> /\ drop'[p] = <<f>> /\ drop' \in [Slots -> Seq(Files)]
      /\ \A q \in Slots \ {p} : drop'[q] = drop[q]
  BY <1>1 DEF FtableTypeOK, Closed
<1>4. /\ ofile'[p][d] = NoFile /\ \A c \in Fds \ {d} : ofile'[p][c] = ofile[p][c]
      /\ \A q \in Slots \ {p} : ofile'[q] = ofile[q]
      /\ ofile' \in [Slots -> [Fds -> Files \cup {NoFile}]]
  BY <1>1 DEF FtableTypeOK
<1>5. FtableTypeOK'
  <2>1. Len(<<f>>) <= 2
    OBVIOUS
  <2>2. \A q \in Slots : Len(drop'[q]) <= 2
    BY <1>1, <1>3, <2>1 DEF FtableTypeOK
  <2> QED
    BY <1>1, <1>2, <1>3, <1>4, <2>2 DEF FtableTypeOK
<1>6. EndsCounted'
  BY <1>1, EndsKept
<1>7. loc[p].f0 = NoFile /\ loc[p].f1 = NoFile
  BY <1>1 DEF LocalsFit
<1>8. ProcFits(p)'
  BY <1>2, <1>7 DEF ProcFits, LocalsFit, TablesFit
<1>9. \A q \in Slots \ {p} : ProcFits(q)'
  BY <1>2, <1>3, <1>4, OthersFit
<1>10. ASSUME NEW k \in Files PROVE EntrySound(k)'
  <2>1. k # NoFile
    BY DEF Files, NoFile
  <2>2. Locals(k)' = Locals(k) /\ \A h \in Locals(k) : at[h[1]] = "fds" => at'[h[1]] = "fds"
    <3>1. \A q \in Slots, y \in {"f0", "f1"} : loc[q][y] = k => q # p
      BY <1>7, <2>1
    <3> QED
      BY <1>2, <3>1 DEF Locals
  <2>3. Owed(k)' = Owed(k)
    BY <1>2, <1>7, <2>1 DEF Owed
  <2>4. CASE k # f
    <3>1. \A q \in Slots, c \in Fds : ofile'[q][c] = k <=> ofile[q][c] = k
      BY <1>4, <2>1, <2>4
    <3>2. \A q \in Slots, j \in {1, 2} :
            j \in DOMAIN drop'[q] /\ drop'[q][j] = k <=> j \in DOMAIN drop[q] /\ drop[q][j] = k
      BY <1>3, <2>4
    <3>3. Descs(k)' = Descs(k) /\ ToClose(k)' = ToClose(k)
      BY <3>1, <3>2 DEF Descs, ToClose
    <3> QED
      BY <2>2, <2>3, <3>3, EntryKept
  <2>5. CASE k = f
    <3>1. <<p, d>> \in Descs(k) /\ Descs(k)' = Descs(k) \ {<<p, d>>}
      BY <1>1, <1>4, <2>5 DEF Descs
    <3>2. <<p, 1>> \notin ToClose(k) /\ ToClose(k)' = ToClose(k) \cup {<<p, 1>>}
      <4>1. \A q \in Slots, j \in {1, 2} :
              j \in DOMAIN drop'[q] /\ drop'[q][j] = k
                <=> (j \in DOMAIN drop[q] /\ drop[q][j] = k) \/ (q = p /\ j = 1)
        BY <1>3, <2>5
      <4> QED
        BY <1>3, <4>1 DEF ToClose
    <3>3. /\ Cardinality(Descs(k)') \in Nat
          /\ Cardinality(Descs(k)) = Cardinality(Descs(k)') + 1
      BY <3>1, Countable, OneFewer
    <3>4. Cardinality(ToClose(k)') = Cardinality(ToClose(k)) + 1
      BY <3>2, Countable, OneMore
    <3>5. Counted(k)'
      <4>1. Counted(k) /\ fref[k] \in Nat
        BY <1>1 DEF FtableInv, FilesCounted, FtableTypeOK
      <4> QED
        BY <2>2, <2>3, <3>3, <3>4, <4>1, Countable DEF Counted
    <3>6. Locals(k) = {}
      BY <3>1 DEF FtableInv, Fresh
    <3>7. Fresh(k)' /\ EntryFits(k)'
      BY <2>2, <3>6 DEF Fresh, EntryFits, FtableInv
    <3> QED
      BY <3>5, <3>7 DEF EntrySound
  <2> QED
    BY <2>4, <2>5
<1> QED
  BY <1>5, <1>6, <1>8, <1>9, <1>10, FileParts

\* dup() fills in a second descriptor.
LEMMA DupSafe ==
  ASSUME FtableInv, ~fpanic, NEW p \in Slots, NEW d \in Fds, Dup(p, d)
  PROVE  FtableInv'
<1> DEFINE free == FreeFds(ofile[p])
<1>1. FtableTypeOK /\ LocalsFit(p) /\ at[p] = "user" /\ free # {}
  BY DEF FtableInv, Dup
<1>2. PICK f \in Files : f = ofile[p][d] /\ f # NoFile
  BY <1>1 DEF FtableTypeOK, Dup
<1>3. PICK c \in Fds : c = Lowest(free) /\ ofile[p][c] = NoFile
  <2>1. free \in SUBSET Nat
    BY DescriptorsAssumption DEF FreeFds, Fds
  <2>2. Lowest(free) \in free
    BY <1>1, <2>1, LowestIn
  <2> QED
    BY <2>2 DEF FreeFds
<1>4. /\ ofile' = [ofile EXCEPT ![p][c] = f] /\ at' = [at EXCEPT ![p] = "dup"]
      /\ loc' = [loc EXCEPT ![p] = [loc[p] EXCEPT !.f0 = f]]
      /\ UNCHANGED <<fref, type, pipe, open, drop, ends, fpanic>>
  BY <1>2, <1>3 DEF Dup, Goto
<1> HIDE DEF free
<1>5. /\ loc[p] \in Locs /\ loc[p].f0 = NoFile /\ loc[p].f1 = NoFile /\ Closed(p)
  BY <1>1 DEF FtableTypeOK, LocalsFit
<1> DEFINE l == [loc[p] EXCEPT !.f0 = f]
<1>6. l \in Locs /\ l.f0 = f
  BY <1>5 DEF Locs
<1>7. loc' = [loc EXCEPT ![p] = l]
  BY <1>4
<1> HIDE DEF l
<1>8. /\ ofile'[p][c] = f /\ \A b \in Fds \ {c} : ofile'[p][b] = ofile[p][b]
      /\ \A q \in Slots \ {p} : ofile'[q] = ofile[q]
      /\ ofile' \in [Slots -> [Fds -> Files \cup {NoFile}]]
  BY <1>1, <1>4 DEF FtableTypeOK
<1>9. /\ at'[p] = "dup" /\ loc'[p] = l
      /\ at' \in [Slots -> Places] /\ loc' \in [Slots -> Locs]
      /\ \A q \in Slots \ {p} : at'[q] = at[q] /\ loc'[q] = loc[q]
  <2>1. /\ at'[p] = "dup" /\ at' \in [Slots -> Places]
        /\ \A q \in Slots \ {p} : at'[q] = at[q]
    BY <1>1, <1>4 DEF FtableTypeOK, Places
  <2>2. /\ loc'[p] = l /\ loc' \in [Slots -> Locs]
        /\ \A q \in Slots \ {p} : loc'[q] = loc[q]
    BY <1>1, <1>6, <1>7 DEF FtableTypeOK
  <2> QED
    BY <2>1, <2>2
<1>10. FtableTypeOK'
  BY <1>1, <1>4, <1>8, <1>9 DEF FtableTypeOK
<1>11. EndsCounted'
  BY <1>4, EndsKept
<1>12. ProcFits(p)'
  <2>1. c # d /\ ofile'[p][c] = f /\ ofile'[p][d] = f
    BY <1>2, <1>3, <1>8
  <2>2. LocalsFit(p)'
    BY <1>2, <1>4, <1>5, <1>6, <1>9, <2>1 DEF LocalsFit, Closed
  <2> QED
    BY <1>9, <2>2 DEF ProcFits, TablesFit
<1>13. \A q \in Slots \ {p} : ProcFits(q)'
  BY <1>1, <1>4, <1>8, <1>9, OthersFit
<1>14. ASSUME NEW k \in Files PROVE EntrySound(k)'
  <2>1. k # NoFile /\ ToClose(k)' = ToClose(k)
    BY <1>4 DEF Files, NoFile, ToClose
  <2>2. Locals(k)' = Locals(k) /\ \A h \in Locals(k) : at[h[1]] = "fds" => at'[h[1]] = "fds"
    <3>1. \A y \in {"f0", "f1"} : loc[p][y] # k
      BY <1>5, <2>1
    <3>2. \A q \in Slots, y \in {"f0", "f1"} :
            at'[q] # "dup" /\ loc'[q][y] = k <=> at[q] # "dup" /\ loc[q][y] = k
      BY <1>9, <3>1
    <3> QED
      BY <1>9, <3>1, <3>2 DEF Locals
  <2>3. CASE k # f
    <3>1. \A q \in Slots, b \in Fds : ofile'[q][b] = k <=> ofile[q][b] = k
      BY <1>3, <1>8, <2>1, <2>3
    <3>2. Descs(k)' = Descs(k)
      BY <3>1 DEF Descs
    <3>3. Owed(k)' = Owed(k)
      BY <1>1, <1>6, <1>9, <2>3 DEF Owed
    <3> QED
      BY <1>4, <2>1, <2>2, <3>2, <3>3, EntryKept
  <2>4. CASE k = f
    <3>1. \A q \in Slots, b \in Fds :
            ofile'[q][b] = k <=> ofile[q][b] = k \/ (q = p /\ b = c)
      BY <1>8, <2>4
    <3>2. <<p, c>> \notin Descs(k) /\ Descs(k)' = Descs(k) \cup {<<p, c>>}
      BY <1>3, <2>1, <3>1 DEF Descs
    <3>3. p \notin Owed(k) /\ Owed(k)' = Owed(k) \cup {p}
      BY <1>1, <1>6, <1>9, <2>4 DEF Owed
    <3>4. /\ Cardinality(Descs(k)') = Cardinality(Descs(k)) + 1
          /\ Cardinality(Owed(k)') = Cardinality(Owed(k)) + 1
      BY <3>2, <3>3, Countable, OneMore
    <3>5. Counted(k)'
      <4>1. Counted(k) /\ fref[k] \in Nat /\ fref'[k] = fref[k]
        BY <1>1, <1>4 DEF FtableInv, FilesCounted, FtableTypeOK
      <4> QED
        BY <2>1, <2>2, <3>4, <4>1, Countable DEF Counted
    <3>6. Locals(k) = {}
      <4>1. <<p, d>> \in Descs(k)
        BY <1>2, <2>4 DEF Descs
      <4> QED
        BY <4>1 DEF FtableInv, Fresh
    <3>7. Fresh(k)' /\ EntryFits(k)'
      BY <1>4, <2>2, <3>6 DEF Fresh, EntryFits, FtableInv
    <3> QED
      BY <3>5, <3>7 DEF EntrySound
  <2> QED
    BY <2>3, <2>4
<1> QED
  BY <1>10, <1>11, <1>12, <1>13, <1>14, FileParts

\* filedup() does not panic about a file that has a reference.
LEMMA NotBroken ==
  ASSUME ~fpanic, NEW f, fref[f] \in Nat, fref[f] >= 1, FileDup(f)
  PROVE  fpanic' \in BOOLEAN /\ ~fpanic'
<1>1. ~(fref[f] < 1)
  OBVIOUS
<1>2. fpanic' = (fpanic \/ fref[f] < 1)
  BY DEF FileDup
<1> QED
  BY ONLY <1>1, <1>2, ~fpanic, Zenon

\* filedup() of a file that has a descriptor finds a reference.
LEMMA DupFinds ==
  ASSUME FtableInv, NEW p \in Slots, NEW d \in Fds, NEW f \in Files, ofile[p][d] = f
  PROVE  Locals(f) = {} /\ fref[f] >= 1 /\ fref[f] \in Nat
<1>1. <<p, d>> \in Descs(f)
  BY DEF Descs
<1>2. fref[f] >= 1 /\ fref[f] \in Nat
  BY <1>1, HasRef DEF FtableInv, FtableTypeOK
<1> QED
  BY <1>1, <1>2 DEF FtableInv, Fresh

\* ... and the reference that goes with it.
LEMMA DupRefSafe ==
  ASSUME FtableInv, ~fpanic, NEW p \in Slots, DupRef(p)
  PROVE  FtableInv'
<1>1. FtableTypeOK /\ LocalsFit(p) /\ at[p] = "dup"
  BY DEF FtableInv, DupRef
<1>2. PICK f \in Files : f = loc[p].f0 /\ f # NoFile
  BY <1>1 DEF FtableTypeOK, LocalsFit, Locs
<1>3. PICK d \in Fds : ofile[p][d] = f
  BY <1>1, <1>2 DEF LocalsFit
<1>4. Locals(f) = {} /\ fref[f] >= 1 /\ fref[f] \in Nat
  BY <1>3, DupFinds
<1>5. /\ fref' = [fref EXCEPT ![f] = @ + 1] /\ fpanic' \in BOOLEAN /\ ~fpanic'
      /\ loc' = [loc EXCEPT ![p] = NoLoc] /\ at' = [at EXCEPT ![p] = "user"]
      /\ UNCHANGED <<type, pipe, ofile, open, drop, ends>>
  <2>1. FileDup(f)
    BY <1>2 DEF DupRef
  <2>2. fpanic' \in BOOLEAN /\ ~fpanic'
    BY <1>4, <2>1, NotBroken
  <2> QED
    BY <1>2, <2>1, <2>2 DEF DupRef, FileDup, Goto
<1>6. /\ fref' \in [Files -> Nat] /\ fref'[f] = fref[f] + 1
      /\ \A k \in Files \ {f} : fref'[k] = fref[k]
  BY <1>1, <1>4, <1>5 DEF FtableTypeOK
<1>7. /\ NoLoc \in Locs /\ NoLoc.f0 = NoFile /\ NoLoc.f1 = NoFile
      /\ loc'[p] = NoLoc /\ at'[p] = "user" /\ at' \in [Slots -> Places]
      /\ loc' \in [Slots -> Locs]
      /\ \A q \in Slots \ {p} : loc'[q] = loc[q] /\ at'[q] = at[q]
  <2>1. NoLoc \in Locs /\ NoLoc.f0 = NoFile /\ NoLoc.f1 = NoFile
    BY DescriptorsAssumption DEF Locs, NoLoc
  <2> QED
    BY <1>1, <1>5, <2>1 DEF FtableTypeOK, Places
<1>8. FtableTypeOK'
  BY <1>1, <1>5, <1>6, <1>7 DEF FtableTypeOK
<1>9. EndsCounted'
  BY <1>4, <1>5, <1>6, EndsKept
<1>10. ProcFits(p)'
  BY <1>1, <1>5, <1>7 DEF ProcFits, LocalsFit, TablesFit, Closed
<1>11. \A q \in Slots \ {p} : ProcFits(q)'
  BY <1>1, <1>5, <1>7, OthersFit
<1>12. ASSUME NEW k \in Files PROVE EntrySound(k)'
  <2>1. k # NoFile /\ ToClose(k)' = ToClose(k) /\ Descs(k)' = Descs(k)
    BY <1>5 DEF Files, NoFile, ToClose, Descs
  <2>2. Locals(k)' = Locals(k) /\ \A h \in Locals(k) : at[h[1]] = "fds" => at'[h[1]] = "fds"
    <3>1. \A q \in Slots, y \in {"f0", "f1"} :
            at'[q] # "dup" /\ loc'[q][y] = k <=> at[q] # "dup" /\ loc[q][y] = k
      BY <1>1, <1>7, <2>1
    <3> QED
      BY <1>1, <1>7, <3>1 DEF Locals
  <2>3. CASE k # f
    <3>1. Owed(k)' = Owed(k)
      BY <1>2, <1>7, <2>3 DEF Owed
    <3> QED
      BY <1>5, <1>6, <2>1, <2>2, <2>3, <3>1, EntryKept
  <2>4. CASE k = f
    <3>1. p \in Owed(k) /\ Owed(k)' = Owed(k) \ {p}
      BY <1>1, <1>2, <1>7, <2>4 DEF Owed
    <3>2. /\ Cardinality(Owed(k)') \in Nat
          /\ Cardinality(Owed(k)) = Cardinality(Owed(k)') + 1
      BY <3>1, Countable, OneFewer
    <3>3. Counted(k)'
      <4>1. Counted(k)
        BY DEF FtableInv, FilesCounted
      <4> QED
        BY <1>4, <1>6, <2>1, <2>2, <2>4, <3>2, <4>1, Countable DEF Counted
    <3>4. Fresh(k)' /\ EntryFits(k)'
      BY <1>4, <1>5, <1>6, <2>2, <2>4 DEF Fresh, EntryFits, FtableInv
    <3> QED
      BY <3>3, <3>4 DEF EntrySound
  <2> QED
    BY <2>3, <2>4
<1> QED
  BY <1>8, <1>9, <1>10, <1>11, <1>12, FileParts

-----------------------------------------------------------------------------
(* fileclose() and pipeclose()                                             *)

\* Only close() and exit() have something to close.
LEMMA WhoCloses ==
  ASSUME FtableInv, NEW p \in Slots, ~Closed(p)
  PROVE  at[p] \in {"close", "exit"} /\ loc[p].f0 = NoFile /\ loc[p].f1 = NoFile
BY DEF FtableInv, LocalsFit

\* What the list of files to close is when its first has been taken.
LEMMA NextToClose ==
  ASSUME FtableTypeOK, NEW p \in Slots, drop[p] # <<>>, drop' = [drop EXCEPT ![p] = Tail(@)]
  PROVE  /\ Head(drop[p]) \in Files
         /\ 1 \in DOMAIN drop[p] /\ drop[p][1] = Head(drop[p])
         /\ drop' \in [Slots -> Seq(Files)] /\ Len(drop'[p]) <= 2
         /\ \A q \in Slots \ {p} : drop'[q] = drop[q]
         /\ \A j \in {1, 2} : j \in DOMAIN drop'[p]
                                <=> j = 1 /\ 2 \in DOMAIN drop[p]
         /\ 2 \in DOMAIN drop[p] => drop'[p][1] = drop[p][2]
<1>1. drop[p] \in Seq(Files) /\ Len(drop[p]) <= 2 /\ Len(drop[p]) \in Nat
  BY DEF FtableTypeOK
<1>2. /\ drop'[p] = Tail(drop[p]) /\ \A q \in Slots \ {p} : drop'[q] = drop[q]
      /\ Tail(drop[p]) \in Seq(Files) => drop' \in [Slots -> Seq(Files)]
  BY DEF FtableTypeOK
<1>3. /\ Head(drop[p]) \in Files /\ Head(drop[p]) = drop[p][1] /\ Len(drop[p]) >= 1
      /\ Tail(drop[p]) \in Seq(Files) /\ Len(Tail(drop[p])) = Len(drop[p]) - 1
      /\ \A j \in 1 .. Len(drop[p]) - 1 : Tail(drop[p])[j] = drop[p][j + 1]
  BY <1>1
<1>4. DOMAIN drop[p] = 1 .. Len(drop[p]) /\ DOMAIN drop'[p] = 1 .. Len(drop[p]) - 1
  BY <1>1, <1>2, <1>3
<1>5. 2 \in DOMAIN drop[p] => drop'[p][1] = drop[p][2]
  BY <1>1, <1>2, <1>3, <1>4
<1>6. \A j \in {1, 2} : j \in DOMAIN drop'[p] <=> j = 1 /\ 2 \in DOMAIN drop[p]
  BY <1>1, <1>4
<1> QED
  BY <1>1, <1>2, <1>3, <1>4, <1>5, <1>6

\* What is to be closed, when one has been taken from the list: one fewer of it, as many
\* of the others.
LEMMA ToCloseTaken ==
  ASSUME FtableTypeOK, NEW p \in Slots, drop[p] # <<>>,
         drop' = [drop EXCEPT ![p] = Tail(@)], NEW k \in Files
  PROVE  /\ k = Head(drop[p]) =>
              /\ Cardinality(ToClose(k)') \in Nat
              /\ Cardinality(ToClose(k)) = Cardinality(ToClose(k)') + 1
         /\ k # Head(drop[p]) =>
              \/ ToClose(k)' = ToClose(k)
              \/ /\ ToClose(k) # {}
                 /\ Cardinality(ToClose(k)') = Cardinality(ToClose(k))
<1> DEFINE T == ToClose(k) \ {<<p, 1>>, <<p, 2>>}
           first == drop[p][1] = k
           second == 2 \in DOMAIN drop[p] /\ drop[p][2] = k
<1>1. /\ 1 \in DOMAIN drop[p] /\ drop[p][1] = Head(drop[p])
      /\ \A q \in Slots \ {p} : drop'[q] = drop[q]
      /\ \A j \in {1, 2} : j \in DOMAIN drop'[p]
                             <=> j = 1 /\ 2 \in DOMAIN drop[p]
      /\ 2 \in DOMAIN drop[p] => drop'[p][1] = drop[p][2]
  BY NextToClose
<1>2. IsFiniteSet(T) /\ <<p, 1>> \notin T /\ <<p, 2>> \notin T /\ <<p, 1>> # <<p, 2>>
  BY Countable, FS_Subset
<1>3. ToClose(k) = T \cup (IF first THEN {<<p, 1>>} ELSE {})
                     \cup (IF second THEN {<<p, 2>>} ELSE {})
  BY <1>1 DEF ToClose
<1>4. ToClose(k)' = T \cup (IF second THEN {<<p, 1>>} ELSE {})
  <2>1. \A q \in Slots, j \in {1, 2} :
          j \in DOMAIN drop'[q] /\ drop'[q][j] = k
            <=> \/ q # p /\ j \in DOMAIN drop[q] /\ drop[q][j] = k
                \/ q = p /\ j = 1 /\ second
    BY <1>1
  <2> QED
    BY <2>1 DEF ToClose
<1>5. first <=> k = Head(drop[p])
  BY <1>1
<1> HIDE DEF T, first, second
<1>6. /\ Cardinality(T) \in Nat
      /\ IsFiniteSet(T \cup {<<p, 1>>}) /\ Cardinality(T \cup {<<p, 1>>}) = Cardinality(T) + 1
      /\ IsFiniteSet(T \cup {<<p, 2>>}) /\ Cardinality(T \cup {<<p, 2>>}) = Cardinality(T) + 1
  BY <1>2, OneMore, FS_CardinalityType
<1>7. Cardinality((T \cup {<<p, 1>>}) \cup {<<p, 2>>}) = Cardinality(T) + 2
  <2> DEFINE U == T \cup {<<p, 1>>}
  <2>1. <<p, 2>> \notin U /\ IsFiniteSet(U) /\ Cardinality(U) = Cardinality(T) + 1
    BY <1>2, <1>6
  <2> HIDE DEF U
  <2>2. Cardinality(U \cup {<<p, 2>>}) = Cardinality(U) + 1
    BY ONLY <2>1, OneMore
  <2>3. Cardinality(U \cup {<<p, 2>>}) = Cardinality(T) + 2
    BY ONLY <1>6, <2>1, <2>2
  <2> QED
    BY <2>3 DEF U
<1>8. CASE first /\ second
  <2>1. ToClose(k) = (T \cup {<<p, 1>>}) \cup {<<p, 2>>} /\ ToClose(k)' = T \cup {<<p, 1>>}
    BY <1>3, <1>4, <1>8
  <2> QED
    BY <1>5, <1>6, <1>7, <1>8, <2>1
<1>9. CASE first /\ ~second
  <2>1. ToClose(k) = T \cup {<<p, 1>>} /\ ToClose(k)' = T
    BY <1>3, <1>4, <1>9
  <2> QED
    BY <1>5, <1>6, <1>9, <2>1
<1>10. CASE ~first /\ second
  <2>1. ToClose(k) = T \cup {<<p, 2>>} /\ ToClose(k)' = T \cup {<<p, 1>>}
    BY <1>3, <1>4, <1>10
  <2>2. ToClose(k) # {} /\ Cardinality(ToClose(k)') = Cardinality(ToClose(k))
    BY <1>6, <2>1
  <2> QED
    BY <1>5, <1>10, <2>2
<1>11. CASE ~first /\ ~second
  <2>1. ToClose(k)' = ToClose(k)
    BY <1>3, <1>4, <1>11
  <2> QED
    BY <1>5, <1>11, <2>1
<1> QED
  BY <1>8, <1>9, <1>10, <1>11

\* The last fileclose() of a file of a pipe goes on to pipeclose() with its end.
LEMMA EndPassedOn ==
  ASSUME FtableInv, NEW p \in Slots, NEW f \in Files, fref[f] = 1, type[f] \in {"r", "w"},
         fref'[f] = 0, type'[f] = "none",
         \A k \in Files \ {f} : fref'[k] = fref[k] /\ type'[k] = type[k],
         ends[p] = NoEnd, ends' = [ends EXCEPT ![p] = <<pipe[f], type[f]>>],
         UNCHANGED <<pipe, open>>, ~fpanic'
  PROVE  EndsCounted'
<1>1. ASSUME NEW g \in Pages, NEW end \in {"r", "w"} PROVE EndCounted(g, end)'
  <2>1. EndCounted(g, end) /\ IsOpen(g, end)' = IsOpen(g, end)
    BY DEF FtableInv, FilesCounted, EndsCounted, IsOpen
  <2>2. ends'[p] = <<pipe[f], type[f]>> /\ \A q \in Slots \ {p} : ends'[q] = ends[q]
    BY DEF FtableInv, FtableTypeOK
  <2>3. ends[p] # <<g, end>>
    BY DEF NoEnd
  <2>4. CASE g = pipe[f] /\ end = type[f]
    <3>1. f \in FilesOf(g, end) /\ FilesOf(g, end)' = FilesOf(g, end) \ {f}
      BY <2>4 DEF FilesOf
    <3>2. p \notin Closing(g, end) /\ Closing(g, end)' = Closing(g, end) \cup {p}
      BY <2>2, <2>3, <2>4 DEF Closing
    <3>3. /\ Cardinality(FilesOf(g, end)') \in Nat
          /\ Cardinality(FilesOf(g, end)) = Cardinality(FilesOf(g, end)') + 1
      BY <3>1, EndsCountable, OneFewer
    <3>4. Cardinality(Closing(g, end)') = Cardinality(Closing(g, end)) + 1
      BY <3>2, EndsCountable, OneMore
    <3> QED
      BY <2>1, <3>3, <3>4, EndsCountable DEF EndCounted
  <2>5. CASE ~(g = pipe[f] /\ end = type[f])
    <3>1. FilesOf(g, end)' = FilesOf(g, end)
      BY <2>5 DEF FilesOf
    <3>2. Closing(g, end)' = Closing(g, end)
      BY <2>2, <2>3, <2>5 DEF Closing
    <3> QED
      BY <2>1, <3>1, <3>2 DEF EndCounted
  <2> QED
    BY <2>4, <2>5
<1> QED
  BY <1>1 DEF FtableInv, FilesCounted, EndsCounted

\* fileclose() takes one reference, and the last one takes the file.
LEMMA FileCloseSafe ==
  ASSUME FtableInv, ~fpanic, NEW p \in Slots, FileClose(p)
  PROVE  FtableInv'
<1>1. /\ FtableTypeOK /\ drop[p] # <<>> /\ ends[p] = NoEnd
      /\ drop' = [drop EXCEPT ![p] = Tail(@)]
      /\ UNCHANGED <<pipe, ofile, open, at, loc>>
  BY DEF FtableInv, FileClose
<1>2. /\ Head(drop[p]) \in Files /\ 1 \in DOMAIN drop[p] /\ drop[p][1] = Head(drop[p])
      /\ drop' \in [Slots -> Seq(Files)] /\ Len(drop'[p]) <= 2
      /\ \A q \in Slots \ {p} : drop'[q] = drop[q]
  BY <1>1, NextToClose
<1>3. PICK f \in Files : f = Head(drop[p])
  BY <1>2
<1>4. <<p, 1>> \in ToClose(f)
  BY <1>2, <1>3 DEF ToClose
<1>5. fref[f] >= 1 /\ fref[f] \in Nat /\ Locals(f) = {}
  BY <1>1, <1>4, HasRef DEF FtableTypeOK, FtableInv, Fresh
<1>6. at[p] \in {"close", "exit"} /\ loc[p].f0 = NoFile /\ loc[p].f1 = NoFile
  BY <1>1, WhoCloses DEF Closed
<1>7. ~(fref[f] < 1)
  BY <1>5
<1>8. /\ fref' = [fref EXCEPT ![f] = @ - 1] /\ UNCHANGED fpanic
      /\ fref[f] > 1 => UNCHANGED <<type, ends>>
      /\ ~(fref[f] > 1) =>
           /\ type' = [type EXCEPT ![f] = "none"]
           /\ type[f] \in {"r", "w"} => ends' = [ends EXCEPT ![p] = <<pipe[f], type[f]>>]
           /\ type[f] \notin {"r", "w"} => ends' = ends
  BY <1>3, <1>7 DEF FileClose, Cleared
<1>9. /\ fref' \in [Files -> Nat] /\ fref'[f] = fref[f] - 1
      /\ \A k \in Files \ {f} : fref'[k] = fref[k]
  BY <1>1, <1>5, <1>8 DEF FtableTypeOK
<1>10. /\ type' \in [Files -> {"none", "inode", "r", "w"}]
       /\ fref[f] = 1 => type'[f] = "none"
       /\ fref[f] > 1 => type'[f] = type[f]
       /\ \A k \in Files \ {f} : type'[k] = type[k]
  <2>1. CASE fref[f] > 1
    BY <1>1, <1>8, <2>1 DEF FtableTypeOK
  <2>2. CASE fref[f] = 1
    <3>1. type' = [type EXCEPT ![f] = "none"]
      BY <1>8, <2>2
    <3> QED
      BY <1>1, <2>2, <3>1 DEF FtableTypeOK
  <2> QED
    BY <1>5, <2>1, <2>2
<1>11. type[f] \in {"r", "w"} => pipe[f] \in Pages
  BY DEF FtableInv, EntryFits
<1>12. /\ ends' \in [Slots -> (Pages \X {"r", "w"}) \cup {NoEnd}]
       /\ \A q \in Slots \ {p} : ends'[q] = ends[q]
  <2>1. CASE ends' = ends
    BY <1>1, <2>1 DEF FtableTypeOK
  <2>2. CASE type[f] \in {"r", "w"} /\ ends' = [ends EXCEPT ![p] = <<pipe[f], type[f]>>]
    <3>1. <<pipe[f], type[f]>> \in Pages \X {"r", "w"}
      BY <1>11, <2>2
    <3> QED
      BY <1>1, <2>2, <3>1 DEF FtableTypeOK
  <2> QED
    BY <1>8, <2>1, <2>2
<1>13. FtableTypeOK'
  <2>1. \A q \in Slots : Len(drop'[q]) <= 2
    BY <1>1, <1>2 DEF FtableTypeOK
  <2> QED
    BY <1>1, <1>2, <1>8, <1>9, <1>10, <1>12, <2>1 DEF FtableTypeOK
<1>14. EndsCounted'
  <2>1. CASE fref[f] > 1
    <3>1. fref'[f] > 0 <=> fref[f] > 0
      BY <1>5, <1>9, <2>1
    <3> QED
      BY <1>1, <1>8, <1>9, <1>10, <2>1, <3>1, EndsKept
  <2>2. CASE fref[f] = 1 /\ type[f] \notin {"r", "w"}
    BY <1>1, <1>8, <1>9, <1>10, <2>2, EndsKept
  <2>3. CASE fref[f] = 1 /\ type[f] \in {"r", "w"}
    <3>1. fref'[f] = 0
      BY <1>9, <2>3
    <3> QED
      BY <1>1, <1>8, <1>9, <1>10, <2>3, <3>1, EndPassedOn
  <2> QED
    BY <1>5, <2>1, <2>2, <2>3
<1>15. ProcFits(p)'
  BY <1>1, <1>6 DEF ProcFits, LocalsFit, TablesFit
<1>16. \A q \in Slots \ {p} : ProcFits(q)'
  BY <1>1, <1>2, <1>6, <1>12, OthersFit
<1>17. ASSUME NEW k \in Files PROVE EntrySound(k)'
  <2>1. Descs(k)' = Descs(k) /\ Locals(k)' = Locals(k) /\ Owed(k)' = Owed(k)
    BY <1>1 DEF Descs, Locals, Owed
  <2>2. CASE k # f
    <3>1. \/ ToClose(k)' = ToClose(k)
          \/ ToClose(k) # {} /\ Cardinality(ToClose(k)') = Cardinality(ToClose(k))
      BY <1>1, <1>3, <2>2, ToCloseTaken
    <3>2. ToClose(k) # {} => Locals(k) = {}
      BY DEF FtableInv, Fresh
    <3>3. \A h \in Locals(k) : at[h[1]] = "fds" => at'[h[1]] = "fds"
      BY <1>1
    <3> QED
      BY <1>1, <1>9, <1>10, <2>1, <2>2, <3>1, <3>2, <3>3, EntryKept
  <2>3. CASE k = f
    <3>1. /\ Cardinality(ToClose(k)') \in Nat
          /\ Cardinality(ToClose(k)) = Cardinality(ToClose(k)') + 1
      BY <1>1, <1>3, <2>3, ToCloseTaken
    <3>2. Counted(k)'
      <4>1. Counted(k)
        BY DEF FtableInv, FilesCounted
      <4> QED
        BY <1>5, <1>9, <2>1, <2>3, <3>1, <4>1, Countable DEF Counted
    <3>3. Fresh(k)'
      BY <1>5, <2>1, <2>3 DEF Fresh
    <3>4. EntryFits(k)'
      BY <1>1, <1>5, <1>9, <1>10, <1>11, <2>3 DEF EntryFits
    <3> QED
      BY <3>2, <3>3, <3>4 DEF EntrySound
  <2> QED
    BY <2>2, <2>3
<1> QED
  BY <1>13, <1>14, <1>15, <1>16, <1>17, FileParts

\* pipeclose() finds its end open and nobody else at it; the second one frees the pipe.
LEMMA PipeCloseSafe ==
  ASSUME FtableInv, ~fpanic, NEW p \in Slots, PipeClose(p)
  PROVE  FtableInv'
<1>1. /\ FtableTypeOK /\ ends[p] # NoEnd /\ ends' = [ends EXCEPT ![p] = NoEnd]
      /\ UNCHANGED <<fref, type, pipe, ofile, at, loc, drop>>
  BY DEF FtableInv, PipeClose
<1>2. ends[p] \in Pages \X {"r", "w"}
  BY <1>1 DEF FtableTypeOK
<1>3. PICK g \in Pages, end \in {"r", "w"} : ends[p] = <<g, end>>
  BY <1>2
<1>4. /\ ends'[p] = NoEnd /\ \A q \in Slots \ {p} : ends'[q] = ends[q]
      /\ ends' \in [Slots -> (Pages \X {"r", "w"}) \cup {NoEnd}]
  BY <1>1 DEF FtableTypeOK
<1>5. IsOpen(g, end) /\ FilesOf(g, end) = {} /\ Closing(g, end) = {p}
  <2>1. p \in Closing(g, end) /\ EndCounted(g, end)
    BY <1>3 DEF Closing, FtableInv, FilesCounted, EndsCounted
  <2>2. Cardinality(Closing(g, end)) # 0
    BY <2>1, EndsCountable, FS_EmptySet
  <2>3. Cardinality(Closing(g, end)) = 1 /\ Cardinality(FilesOf(g, end)) = 0 /\ IsOpen(g, end)
    BY <2>1, <2>2, EndsCountable DEF EndCounted
  <2>4. FilesOf(g, end) = {}
    BY <2>3, EndsCountable, FS_EmptySet
  <2>5. PICK x : Closing(g, end) = {x}
    BY <2>3, EndsCountable, FS_Singleton
  <2> QED
    BY <2>1, <2>3, <2>4, <2>5
<1>6. g \in DOMAIN open /\ end \in open[g]
  BY <1>5 DEF IsOpen
<1>7. open' = IF LastEnd(g, end) THEN [h \in DOMAIN open \ {g} |-> open[h]]
              ELSE [open EXCEPT ![g] = @ \ {end}]
  BY <1>3, <1>6 DEF PipeClose
<1>8. fpanic' \in BOOLEAN /\ ~fpanic'
  <2>1. fpanic' = (fpanic \/ g \notin DOMAIN open)
    BY <1>3 DEF PipeClose
  <2> QED
    BY ONLY <1>6, <2>1, ~fpanic, Zenon
<1>9. /\ DOMAIN open' \subseteq DOMAIN open
      /\ \A h \in DOMAIN open' : open'[h] \subseteq open[h] /\ open'[h] # {}
      /\ \A h \in Pages, b \in {"r", "w"} : IsOpen(h, b)' <=> IsOpen(h, b) /\ <<h, b>> # <<g, end>>
  <2>1. \A h \in DOMAIN open : open[h] # {} /\ open[h] \subseteq {"r", "w"}
    BY <1>1 DEF FtableInv, FilesCounted, EndsCounted, FtableTypeOK
  <2>2. CASE LastEnd(g, end)
    <3>1. DOMAIN open' = DOMAIN open \ {g} /\ \A h \in DOMAIN open \ {g} : open'[h] = open[h]
      BY <1>7, <2>2
    <3>2. \A b \in {"r", "w"} : b \in open[g] => b = end
      BY <2>2 DEF LastEnd
    <3> QED
      BY <2>1, <3>1, <3>2 DEF IsOpen
  <2>3. CASE ~LastEnd(g, end)
    <3>1. /\ DOMAIN open' = DOMAIN open /\ open'[g] = open[g] \ {end}
          /\ \A h \in DOMAIN open \ {g} : open'[h] = open[h]
      BY <1>6, <1>7, <2>3
    <3>2. open[g] \ {end} # {}
      BY <2>3 DEF LastEnd
    <3> QED
      BY <2>1, <3>1, <3>2 DEF IsOpen
  <2> QED
    BY <2>2, <2>3
<1>10. FtableTypeOK'
  <2>1. DOMAIN open' \subseteq Pages /\ \A h \in DOMAIN open' : open'[h] \subseteq {"r", "w"}
    BY <1>1, <1>9 DEF FtableTypeOK
  <2> QED
    BY <1>1, <1>4, <1>8, <2>1 DEF FtableTypeOK
<1>11. EndsCounted'
  <2>1. ASSUME NEW h \in Pages, NEW b \in {"r", "w"} PROVE EndCounted(h, b)'
    <3>1. EndCounted(h, b) /\ FilesOf(h, b)' = FilesOf(h, b)
      BY <1>1 DEF FtableInv, FilesCounted, EndsCounted, FilesOf
    <3>2. CASE <<h, b>> = <<g, end>>
      <4>1. Closing(h, b)' = {} /\ FilesOf(h, b)' = {} /\ ~IsOpen(h, b)'
        <5>1. NoEnd # <<h, b>>
          BY DEF NoEnd
        <5>2. \A q \in Slots : ends[q] = <<h, b>> => q = p
          BY <1>5, <3>2 DEF Closing
        <5> QED
          BY <1>4, <1>5, <1>9, <3>1, <3>2, <5>1, <5>2 DEF Closing
      <4> QED
        BY <4>1, FS_EmptySet DEF EndCounted
    <3>3. CASE <<h, b>> # <<g, end>>
      <4>1. NoEnd # <<h, b>>
        BY DEF NoEnd
      <4>2. Closing(h, b)' = Closing(h, b)
        BY <1>3, <1>4, <3>3, <4>1 DEF Closing
      <4>3. IsOpen(h, b)' <=> IsOpen(h, b)
        BY <1>9, <3>3
      <4> QED
        BY <3>1, <4>2, <4>3 DEF EndCounted
    <3> QED
      BY <3>2, <3>3
  <2> QED
    BY <1>8, <1>9, <2>1 DEF EndsCounted
<1>12. at[p] \in {"close", "exit"} /\ loc[p].f0 = NoFile /\ loc[p].f1 = NoFile
  BY <1>1, WhoCloses DEF Closed
<1>13. ProcFits(p)'
  BY <1>1, <1>12 DEF ProcFits, LocalsFit, TablesFit
<1>14. \A q \in Slots \ {p} : ProcFits(q)'
  BY <1>1, <1>4, <1>12, OthersFit
<1>15. ASSUME NEW f \in Files PROVE EntrySound(f)'
  <2>1. /\ Descs(f)' = Descs(f) /\ Locals(f)' = Locals(f) /\ Owed(f)' = Owed(f)
        /\ ToClose(f)' = ToClose(f)
    BY <1>1 DEF Descs, Locals, Owed, ToClose
  <2>2. \A h \in Locals(f) : at[h[1]] = "fds" => at'[h[1]] = "fds"
    BY <1>1
  <2> QED
    BY <1>1, <2>1, <2>2, EntryKept
<1> QED
  BY <1>10, <1>11, <1>13, <1>14, <1>15, FileParts

-----------------------------------------------------------------------------
(* fork()                                                                  *)

\* No process is in two places.
LEMMA ForkSafe ==
  ASSUME FtableInv, ~fpanic, NEW p \in Slots, NEW q \in Slots, Fork(p, q)
  PROVE  FtableInv'
<1>1. /\ FtableTypeOK /\ at[p] = "user" /\ at[q] = "unused" /\ p # q
      /\ UNCHANGED <<fref, type, pipe, ofile, open, drop, ends, fpanic>>
  BY DEF FtableInv, Fork
<1>2. /\ \A s \in {p, q} : loc[s].f0 = NoFile /\ loc[s].f1 = NoFile /\ Closed(s)
      /\ \A d \in Fds : ofile[q][d] = NoFile
  BY <1>1 DEF FtableInv, LocalsFit, TablesFit
<1> DEFINE l == [NoLoc EXCEPT !.child = q]
<1>3. l \in Locs /\ l.f0 = NoFile /\ l.f1 = NoFile /\ l.child = q
  BY DescriptorsAssumption DEF Locs, NoLoc
<1>4. loc' = [loc EXCEPT ![p] = l]
  BY DEF Fork
<1> HIDE DEF l
<1>5. /\ loc'[p] = l /\ \A s \in Slots \ {p} : loc'[s] = loc[s]
      /\ loc' \in [Slots -> Locs]
  BY <1>1, <1>3, <1>4 DEF FtableTypeOK
<1>6. /\ at'[p] = "fork" /\ at'[q] = "embryo" /\ at' \in [Slots -> Places]
      /\ \A s \in Slots \ {p, q} : at'[s] = at[s]
  BY <1>1 DEF FtableTypeOK, Fork, Places
<1>7. FtableTypeOK'
  BY <1>1, <1>5, <1>6 DEF FtableTypeOK
<1>8. EndsCounted'
  BY <1>1, EndsKept
<1>9. \A s \in Slots : at[s] = "fork" => loc[s].child # q /\ s # p /\ s # q
  BY <1>1 DEF FtableInv, TablesFit
<1>10. ProcFits(p)'
  <2>1. LocalsFit(p)'
    BY <1>1, <1>2, <1>3, <1>5, <1>6 DEF LocalsFit, Closed
  <2>2. \A s \in Slots \ {p} : at'[s] = "fork" => loc'[s].child # q
    BY <1>5, <1>6, <1>9
  <2>3. TablesFit(p)'
    BY <1>1, <1>2, <1>3, <1>5, <1>6, <2>2 DEF TablesFit
  <2> QED
    BY <2>1, <2>3 DEF ProcFits
<1>11. ProcFits(q)'
  BY <1>1, <1>2, <1>5, <1>6 DEF ProcFits, LocalsFit, TablesFit, Closed
<1>12. ASSUME NEW s \in Slots \ {p, q} PROVE ProcFits(s)'
  <2>1. LocalsFit(s) /\ TablesFit(s) /\ at'[s] = at[s] /\ loc'[s] = loc[s]
    BY <1>5, <1>6 DEF FtableInv
  <2>2. LocalsFit(s)'
    BY <1>1, <2>1 DEF LocalsFit, Closed
  <2>3. TablesFit(s)'
    <3>1. CASE at[s] # "fork"
      BY <1>1, <2>1, <3>1 DEF TablesFit
    <3>2. CASE at[s] = "fork"
      <4>1. PICK c \in Slots : c = loc[s].child
        BY <2>1, <3>2 DEF TablesFit
      <4>2. at[c] = "embryo" /\ c # p /\ c # q
        BY <1>1, <2>1, <3>2, <4>1 DEF TablesFit
      <4>3. \A z \in Slots \ {s} : at'[z] = "fork" => loc'[z].child # c
        BY <1>3, <1>5, <1>6, <2>1, <3>2, <4>1, <4>2 DEF TablesFit
      <4>4. at'[c] = "embryo" /\ ofile'[c] = ofile[c]
        BY <1>1, <1>6, <4>2
      <4> QED
        BY <2>1, <3>2, <4>1, <4>3, <4>4 DEF TablesFit
    <3> QED
      BY <3>1, <3>2
  <2> QED
    BY <2>2, <2>3 DEF ProcFits
<1>13. ASSUME NEW f \in Files PROVE EntrySound(f)'
  <2>1. f # NoFile /\ Descs(f)' = Descs(f) /\ ToClose(f)' = ToClose(f)
    BY <1>1 DEF Files, NoFile, Descs, ToClose
  <2>2. \A s \in Slots, y \in {"f0", "f1"} :
          at'[s] # "dup" /\ loc'[s][y] = f <=> at[s] # "dup" /\ loc[s][y] = f
    BY <1>2, <1>3, <1>5, <1>6, <2>1
  <2>3. Locals(f)' = Locals(f)
    BY <2>2 DEF Locals
  <2>4. Owed(f)' = Owed(f)
    BY <1>1, <1>5, <1>6 DEF Owed
  <2>5. \A h \in Locals(f) : at[h[1]] = "fds" => at'[h[1]] = "fds"
    BY <1>1, <1>6 DEF Locals
  <2> QED
    BY <1>1, <2>1, <2>3, <2>4, <2>5, EntryKept
<1> QED
  BY <1>7, <1>8, <1>10, <1>11, <1>12, <1>13, FileParts

\* The loop of fork() fills in an empty descriptor of the child.
LEMMA ForkFdSafe ==
  ASSUME FtableInv, ~fpanic, NEW p \in Slots, ForkFd(p)
  PROVE  FtableInv'
<1>1. /\ FtableTypeOK /\ LocalsFit(p) /\ TablesFit(p) /\ at[p] = "fork"
      /\ UNCHANGED <<type, pipe, open, at, drop, ends>>
  BY DEF FtableInv, ForkFd
<1>2. PICK c \in Slots, d \in Fds : c = loc[p].child /\ d = loc[p].fd
  BY <1>1 DEF TablesFit, ForkFd
<1>3. /\ at[c] = "embryo" /\ c # p /\ \A b \in Fds : b >= d => ofile[c][b] = NoFile
      /\ \A s \in Slots \ {p} : at[s] = "fork" => loc[s].child # c
  BY <1>1, <1>2 DEF TablesFit
<1> DEFINE l == [loc[p] EXCEPT !.fd = d + 1]
<1>4. /\ l \in Locs /\ l.f0 = NoFile /\ l.f1 = NoFile /\ l.child = c /\ l.fd = d + 1
      /\ loc[p].f0 = NoFile /\ loc[p].f1 = NoFile
  <2>1. loc[p] \in Locs /\ loc[p].f0 = NoFile /\ loc[p].f1 = NoFile
    BY <1>1 DEF FtableTypeOK, LocalsFit
  <2>2. d + 1 \in 0 .. NOFILE
    BY DescriptorsAssumption DEF Fds
  <2> QED
    BY <1>2, <2>1, <2>2 DEF Locs
<1>5. loc' = [loc EXCEPT ![p] = l]
  BY <1>2 DEF ForkFd
<1> HIDE DEF l
<1>6. /\ loc'[p] = l /\ \A s \in Slots \ {p} : loc'[s] = loc[s]
      /\ loc' \in [Slots -> Locs]
  BY <1>1, <1>4, <1>5 DEF FtableTypeOK
<1>7. /\ \A s \in Slots \ {c} : ofile'[s] = ofile[s]
      /\ \A b \in Fds \ {d} : ofile'[c][b] = ofile[c][b]
      /\ ofile'[c][d] = ofile[p][d]
      /\ ofile' \in [Slots -> [Fds -> Files \cup {NoFile}]]
  <2>1. CASE ofile[p][d] = NoFile
    <3>1. ofile' = ofile
      BY <1>2, <2>1 DEF ForkFd
    <3>2. d >= d
      BY DescriptorsAssumption DEF Fds
    <3> QED
      BY <1>1, <1>3, <2>1, <3>1, <3>2 DEF FtableTypeOK
  <2>2. CASE ofile[p][d] # NoFile
    <3>1. ofile' = [ofile EXCEPT ![c][d] = ofile[p][d]]
      BY <1>2, <2>2 DEF ForkFd
    <3> QED
      BY <1>1, <3>1 DEF FtableTypeOK
  <2> QED
    BY <2>1, <2>2
<1>8. \/ ofile[p][d] = NoFile /\ UNCHANGED <<fref, fpanic>>
      \/ ofile[p][d] # NoFile /\ FileDup(ofile[p][d])
  BY <1>2 DEF ForkFd
<1>9. /\ fpanic' \in BOOLEAN /\ ~fpanic'
      /\ fref' \in [Files -> Nat]
      /\ \A k \in Files : /\ k = ofile[p][d] => fref'[k] = fref[k] + 1 /\ fref[k] >= 1
                          /\ k # ofile[p][d] => fref'[k] = fref[k]
  <2>1. CASE ofile[p][d] = NoFile
    BY <1>1, <1>8, <2>1 DEF FtableTypeOK, Files, NoFile
  <2>2. CASE ofile[p][d] # NoFile
    <3>1. PICK f \in Files : f = ofile[p][d]
      BY <1>1, <2>2 DEF FtableTypeOK
    <3>2. FileDup(f) /\ fref[f] >= 1 /\ fref[f] \in Nat
      BY <1>8, <2>2, <3>1, DupFinds
    <3>3. fref' = [fref EXCEPT ![f] = @ + 1]
      BY <3>2 DEF FileDup
    <3>4. fref' \in [Files -> Nat] /\ \A k \in Files : k # f => fref'[k] = fref[k]
      BY <1>1, <3>2, <3>3 DEF FtableTypeOK
    <3>5. fref'[f] = fref[f] + 1
      BY <1>1, <3>3 DEF FtableTypeOK
    <3> QED
      BY <3>1, <3>2, <3>4, <3>5, NotBroken
  <2> QED
    BY <2>1, <2>2
<1>10. FtableTypeOK'
  BY <1>1, <1>6, <1>7, <1>9 DEF FtableTypeOK
<1>11. EndsCounted'
  <2>1. \A k \in Files : fref'[k] > 0 <=> fref[k] > 0
    <3>1. fref \in [Files -> Nat]
      BY <1>1 DEF FtableTypeOK
    <3> QED
      BY <1>9, <3>1
  <2> QED
    BY <1>1, <1>9, <2>1, EndsKept
<1>12. ASSUME NEW s \in Slots PROVE LocalsFit(s)'
  <2>1. LocalsFit(s) /\ at'[s] = at[s] /\ Closed(s)' = Closed(s)
    BY <1>1 DEF FtableInv, Closed
  <2>2. CASE s = p
    BY <1>1, <1>4, <1>6, <2>1, <2>2 DEF LocalsFit
  <2>3. CASE s = c
    BY <1>3, <1>6, <2>1, <2>3 DEF LocalsFit
  <2>4. CASE s # p /\ s # c
    BY <1>6, <1>7, <2>1, <2>4 DEF LocalsFit
  <2> QED
    BY <2>2, <2>3, <2>4
<1>13. ASSUME NEW s \in Slots PROVE TablesFit(s)'
  <2>1. TablesFit(s) /\ at'[s] = at[s]
    BY <1>1 DEF FtableInv
  <2>2. CASE s = p
    <3>1. \A b \in Fds : b >= d + 1 => ofile'[c][b] = NoFile
      <4>1. \A b \in Fds : b >= d + 1 => b # d /\ b >= d
        BY DescriptorsAssumption DEF Fds
      <4> QED
        BY <1>3, <1>7, <4>1
    <3>2. \A z \in Slots \ {p} : at'[z] = "fork" => loc'[z].child # c
      BY <1>1, <1>3, <1>6
    <3> QED
      BY <1>1, <1>3, <1>4, <1>6, <2>2, <3>1, <3>2 DEF TablesFit
  <2>3. CASE s # p /\ at[s] = "fork"
    <3>1. PICK z \in Slots : z = loc[s].child
      BY <2>1, <2>3 DEF TablesFit
    <3>2. z # c /\ loc'[s] = loc[s] /\ ofile'[z] = ofile[z]
      BY <1>3, <1>6, <1>7, <2>3, <3>1
    <3>3. \A y \in Slots \ {s} : at'[y] = "fork" => loc'[y].child # z
      BY <1>1, <1>2, <1>4, <1>6, <2>1, <2>3, <3>1, <3>2 DEF TablesFit
    <3> QED
      BY <1>1, <2>1, <2>3, <3>1, <3>2, <3>3 DEF TablesFit
  <2>4. CASE s # p /\ at[s] # "fork"
    <3>1. at[s] = "unused" => ofile'[s] = ofile[s]
      BY <1>3, <1>7
    <3> QED
      BY <2>1, <2>4, <3>1 DEF TablesFit
  <2> QED
    BY <2>2, <2>3, <2>4
<1>14. ASSUME NEW k \in Files PROVE EntrySound(k)'
  <2>1. k # NoFile /\ ToClose(k)' = ToClose(k)
    BY <1>1 DEF Files, NoFile, ToClose
  <2>2. Locals(k)' = Locals(k) /\ Owed(k)' = Owed(k)
    <3>1. \A s \in Slots, y \in {"f0", "f1"} : loc'[s][y] = loc[s][y]
      BY <1>4, <1>6
    <3>2. \A s \in Slots : loc'[s].f0 = loc[s].f0
      BY <1>4, <1>6
    <3> QED
      BY <1>1, <3>1, <3>2 DEF Locals, Owed
  <2>3. CASE k # ofile[p][d]
    <3>1. \A s \in Slots, b \in Fds : ofile'[s][b] = k <=> ofile[s][b] = k
      <4>1. ofile[c][d] = NoFile
        <5>1. d >= d
          BY DescriptorsAssumption DEF Fds
        <5> QED
          BY <1>3, <5>1
      <4> QED
        BY <1>7, <2>1, <2>3, <4>1
    <3>2. Descs(k)' = Descs(k)
      BY <3>1 DEF Descs
    <3> QED
      BY <1>1, <1>9, <2>1, <2>2, <2>3, <3>2, EntryKept
  <2>4. CASE k = ofile[p][d]
    <3>1. <<c, d>> \notin Descs(k) /\ Descs(k)' = Descs(k) \cup {<<c, d>>}
      <4>1. ofile[c][d] = NoFile
        <5>1. d >= d
          BY DescriptorsAssumption DEF Fds
        <5> QED
          BY <1>3, <5>1
      <4>2. \A s \in Slots, b \in Fds :
              ofile'[s][b] = k <=> ofile[s][b] = k \/ (s = c /\ b = d)
        BY <1>7, <2>4
      <4> QED
        BY <2>1, <4>1, <4>2 DEF Descs
    <3>2. Cardinality(Descs(k)') = Cardinality(Descs(k)) + 1
      BY <3>1, Countable, OneMore
    <3>3. Counted(k)'
      <4>1. Counted(k) /\ fref[k] \in Nat
        BY <1>1 DEF FtableInv, FilesCounted, FtableTypeOK
      <4> QED
        BY <1>9, <2>1, <2>2, <2>4, <3>2, <4>1, Countable DEF Counted
    <3>4. Locals(k) = {} /\ fref[k] \in Nat
      BY <2>4, DupFinds
    <3>5. Fresh(k)' /\ EntryFits(k)'
      BY <1>1, <1>9, <2>2, <2>4, <3>4 DEF Fresh, EntryFits, FtableInv
    <3> QED
      BY <3>3, <3>5 DEF EntrySound
  <2> QED
    BY <2>3, <2>4
<1> QED
  BY <1>10, <1>11, <1>12, <1>13, <1>14, FileParts DEF ProcFits

\* fork() returns, in two processes.
LEMMA ForkDoneSafe ==
  ASSUME FtableInv, ~fpanic, NEW p \in Slots, ForkDone(p)
  PROVE  FtableInv'
<1>1. /\ FtableTypeOK /\ LocalsFit(p) /\ TablesFit(p) /\ at[p] = "fork"
      /\ UNCHANGED <<fref, type, pipe, ofile, open, drop, ends, fpanic>>
  BY DEF FtableInv, ForkDone
<1>2. PICK c \in Slots : c = loc[p].child
  BY <1>1 DEF TablesFit
<1>3. /\ at[c] = "embryo" /\ c # p
      /\ \A s \in Slots \ {p} : at[s] = "fork" => loc[s].child # c
  BY <1>1, <1>2 DEF TablesFit
<1>4. /\ NoLoc \in Locs /\ NoLoc.f0 = NoFile /\ NoLoc.f1 = NoFile
      /\ \A s \in {p, c} : loc[s].f0 = NoFile /\ loc[s].f1 = NoFile /\ Closed(s)
  <2>1. NoLoc \in Locs /\ NoLoc.f0 = NoFile /\ NoLoc.f1 = NoFile
    BY DescriptorsAssumption DEF Locs, NoLoc
  <2> QED
    BY <1>1, <1>3, <2>1 DEF FtableInv, LocalsFit
<1>5. /\ loc'[p] = NoLoc /\ \A s \in Slots \ {p} : loc'[s] = loc[s]
      /\ loc' \in [Slots -> Locs]
  BY <1>1, <1>4 DEF FtableTypeOK, ForkDone
<1>6. /\ at'[p] = "user" /\ at'[c] = "user" /\ at' \in [Slots -> Places]
      /\ \A s \in Slots \ {p, c} : at'[s] = at[s]
  BY <1>1, <1>2, <1>3 DEF FtableTypeOK, ForkDone, Places
<1>7. FtableTypeOK'
  BY <1>1, <1>5, <1>6 DEF FtableTypeOK
<1>8. EndsCounted'
  BY <1>1, EndsKept DEF FtableInv, FilesCounted, EndsCounted
<1>9. ProcFits(p)' /\ ProcFits(c)'
  BY <1>1, <1>3, <1>4, <1>5, <1>6 DEF ProcFits, LocalsFit, TablesFit, Closed
<1>10. ASSUME NEW s \in Slots \ {p, c} PROVE ProcFits(s)'
  <2>1. LocalsFit(s) /\ TablesFit(s) /\ at'[s] = at[s] /\ loc'[s] = loc[s]
    BY <1>5, <1>6 DEF FtableInv
  <2>2. LocalsFit(s)'
    BY <1>1, <2>1 DEF LocalsFit, Closed
  <2>3. TablesFit(s)'
    <3>1. CASE at[s] # "fork"
      BY <1>1, <2>1, <3>1 DEF TablesFit
    <3>2. CASE at[s] = "fork"
      <4>1. PICK z \in Slots : z = loc[s].child
        BY <2>1, <3>2 DEF TablesFit
      <4>2. at[z] = "embryo" /\ z # p /\ z # c
        BY <1>1, <1>3, <2>1, <3>2, <4>1 DEF TablesFit
      <4>3. \A y \in Slots \ {s} : at'[y] = "fork" => loc'[y].child # z
        BY <1>5, <1>6, <2>1, <3>2, <4>1 DEF TablesFit
      <4>4. at'[z] = "embryo" /\ ofile'[z] = ofile[z]
        BY <1>1, <1>6, <4>2
      <4> QED
        BY <2>1, <3>2, <4>1, <4>3, <4>4 DEF TablesFit
    <3> QED
      BY <3>1, <3>2
  <2> QED
    BY <2>2, <2>3 DEF ProcFits
<1>11. ASSUME NEW f \in Files PROVE EntrySound(f)'
  <2>1. f # NoFile /\ Descs(f)' = Descs(f) /\ ToClose(f)' = ToClose(f)
    BY <1>1 DEF Files, NoFile, Descs, ToClose
  <2>2. \A s \in Slots, y \in {"f0", "f1"} :
          at'[s] # "dup" /\ loc'[s][y] = f <=> at[s] # "dup" /\ loc[s][y] = f
    BY <1>4, <1>5, <1>6, <2>1
  <2>3. Locals(f)' = Locals(f)
    BY <2>2 DEF Locals
  <2>4. Owed(f)' = Owed(f)
    BY <1>1, <1>3, <1>5, <1>6 DEF Owed
  <2>5. \A h \in Locals(f) : at[h[1]] = "fds" => at'[h[1]] = "fds"
    BY <1>1, <1>3, <1>6 DEF Locals
  <2> QED
    BY <1>1, <2>1, <2>3, <2>4, <2>5, EntryKept
<1> QED
  BY <1>7, <1>8, <1>9, <1>10, <1>11, FileParts

-----------------------------------------------------------------------------
(* The steps together                                                      *)

\* filealloc() finds an entry, or the call fails.
LEMMA FileAllocSafe ==
  ASSUME FtableInv, NEW p \in Slots, NEW x \in {"f0", "f1"}, NEW b \in {"f1", "page", "fd"},
         FileAlloc(p, x, b, "close"),
         \/ at[p] = "f0" /\ x = "f0" /\ b = "f1"
         \/ at[p] = "f1" /\ x = "f1" /\ b = "page"
         \/ at[p] = "open" /\ x = "f0" /\ b = "fd",
         UNCHANGED <<type, pipe, ofile, open, ends, fpanic>>
  PROVE  FtableInv'
<1> DEFINE free == {f \in Files : fref[f] = 0}
<1>1. CASE free # {}
  <2>1. Lowest(free) \in free
    <3>1. free \in SUBSET Nat
      BY DescriptorsAssumption DEF Files
    <3> QED
      BY <1>1, <3>1, LowestIn
  <2>2. PICK new \in Files : new = Lowest(free) /\ fref[new] = 0
    BY <2>1
  <2>3. /\ fref' = [fref EXCEPT ![new] = 1] /\ loc' = [loc EXCEPT ![p][x] = new]
        /\ at' = [at EXCEPT ![p] = b] /\ UNCHANGED drop
    BY <1>1, <2>2 DEF FileAlloc, Goto
  <2> HIDE DEF free
  <2> QED
    BY <2>2, <2>3, AllocSafe
<1>2. CASE free = {}
  <2> DEFINE s == IF x = "f1" THEN <<loc[p].f0>> ELSE <<>>
  <2>1. /\ drop' = [drop EXCEPT ![p] = s] /\ loc' = [loc EXCEPT ![p] = NoLoc]
        /\ at' = [at EXCEPT ![p] = "close"] /\ UNCHANGED fref
    BY <1>2 DEF FileAlloc, Goto
  <2>2. /\ loc[p].f1 = NoFile
        /\ x = "f1" => loc[p].f0 \in Files /\ loc[p].f0 # NoFile
        /\ x = "f0" => loc[p].f0 = NoFile
    BY DEF FtableInv, FtableTypeOK, Locs, LocalsFit
  <2>3. CASE x = "f1"
    <3>1. s = <<loc[p].f0>> /\ s \in Seq(Files) /\ Len(s) <= 2
      BY <2>2, <2>3
    <3> HIDE DEF s
    <3> QED
      BY <2>1, <2>2, <2>3, <3>1, GiveUpSafe
  <2>4. CASE x = "f0"
    <3>1. s = <<>> /\ s \in Seq(Files) /\ Len(s) <= 2
      BY <2>4
    <3> HIDE DEF s
    <3> QED
      BY <2>1, <2>2, <2>4, <3>1, GiveUpSafe
  <2> QED
    BY <2>3, <2>4
<1> QED
  BY <1>1, <1>2

\* The table of files starts empty.
LEMMA FtableInitSafe == FtableInit => FtableInv
<1> SUFFICES ASSUME FtableInit PROVE FtableInv
  OBVIOUS
<1>1. /\ NoLoc \in Locs /\ NoLoc.f0 = NoFile /\ NoLoc.f1 = NoFile
      /\ NoFds \in [Fds -> Files \cup {NoFile}]
      /\ \A f \in Files : f # NoFile
  BY DescriptorsAssumption DEF Locs, NoLoc, NoFds, Files, NoFile
<1>2. FtableTypeOK
  <2>1. /\ loc \in [Slots -> Locs] /\ ofile \in [Slots -> [Fds -> Files \cup {NoFile}]]
        /\ at \in [Slots -> Places]
    BY <1>1 DEF FtableInit, Places
  <2>2. drop \in [Slots -> Seq(Files)] /\ \A p \in Slots : Len(drop[p]) <= 2
    <3>1. <<>> \in Seq(Files) /\ Len(<<>>) <= 2
      OBVIOUS
    <3> QED
      BY <3>1 DEF FtableInit
  <2> QED
    BY <2>1, <2>2 DEF FtableTypeOK, FtableInit
<1>3. \A p \in Slots : LocalsFit(p) /\ TablesFit(p)
  BY <1>1 DEF FtableInit, LocalsFit, TablesFit, Closed, NoFds
<1>4. ASSUME NEW f \in Files PROVE Counted(f) /\ Fresh(f) /\ EntryFits(f)
  <2>1. Descs(f) = {} /\ Locals(f) = {} /\ ToClose(f) = {} /\ Owed(f) = {}
    <3>1. Descs(f) = {}
      BY <1>1 DEF FtableInit, NoFds, Descs
    <3>2. Locals(f) = {}
      BY <1>1 DEF FtableInit, Locals
    <3>3. ToClose(f) = {} /\ Owed(f) = {}
      BY <1>1 DEF FtableInit, ToClose, Owed
    <3> QED
      BY <3>1, <3>2, <3>3
  <2> QED
    BY <2>1, FS_EmptySet DEF FtableInit, Counted, Fresh, EntryFits
<1>5. EndsCounted
  <2>1. ASSUME NEW g \in Pages, NEW end \in {"r", "w"} PROVE EndCounted(g, end)
    <3>1. FilesOf(g, end) = {} /\ Closing(g, end) = {} /\ ~IsOpen(g, end)
      BY DEF FtableInit, FilesOf, Closing, IsOpen, NoEnd
    <3> QED
      BY <3>1, FS_EmptySet DEF EndCounted
  <2> QED
    BY <2>1 DEF FtableInit, EndsCounted
<1> QED
  BY <1>2, <1>3, <1>4, <1>5 DEF FtableInv, FilesCounted

\* No step of the kernel breaks the invariant.
LEMMA FileStepSafe ==
  ASSUME FtableInv, ~fpanic, NEW p \in Slots, FileStep(p)
  PROVE  FtableInv'
<1>1. CASE FileClose(p)  BY <1>1, FileCloseSafe
<1>2. CASE PipeClose(p)  BY <1>2, PipeCloseSafe
<1>3. CASE Returned(p)
  BY <1>3, MoveSafe DEF Returned, Goto, Places
<1>4. CASE PipeFiles(p)
  <2>1. CASE at[p] = "f0"
    BY <1>4, <2>1, FileAllocSafe DEF PipeFiles
  <2>2. CASE at[p] = "f1"
    BY <1>4, <2>2, FileAllocSafe DEF PipeFiles
  <2> QED
    BY <1>4, <2>1, <2>2 DEF PipeFiles
<1>5. CASE NoPage(p)
  <2>1. /\ loc[p].f0 \in Files /\ loc[p].f1 \in Files
        /\ loc[p].f0 # NoFile /\ loc[p].f1 # NoFile
    BY <1>5 DEF NoPage, FtableInv, FtableTypeOK, Locs, LocalsFit
  <2>2. <<loc[p].f0, loc[p].f1>> \in Seq(Files) /\ Len(<<loc[p].f0, loc[p].f1>>) <= 2
    BY <2>1
  <2> QED
    BY <1>5, <2>1, <2>2, GiveUpSafe DEF NoPage, GiveUp, Goto
<1>6. CASE PipeFds(p)    BY <1>6, PipeFdsSafe
<1>7. CASE \E g \in Pages : PipeMade(p, g)
  BY <1>7, PipeMadeSafe
<1>8. CASE OpenFile(p)
  BY <1>8, FileAllocSafe DEF OpenFile
<1>9. CASE OpenFd(p)     BY <1>9, OpenFdSafe
<1>10. CASE DupRef(p)    BY <1>10, DupRefSafe
<1>11. CASE ForkFd(p)    BY <1>11, ForkFdSafe
<1>12. CASE ForkDone(p)  BY <1>12, ForkDoneSafe
<1>13. CASE ExitFd(p)
  <2> DEFINE held == {i \in Fds : ofile[p][i] # NoFile}
  <2>1. held # {} /\ held \in SUBSET Nat
    BY <1>13, DescriptorsAssumption DEF ExitFd, FreeFds, Fds
  <2>2. Lowest(held) \in held
    BY <2>1, LowestIn
  <2>3. PICK d \in Fds : d = Lowest(held) /\ ofile[p][d] # NoFile
    BY <2>2
  <2> HIDE DEF held
  <2>4. PICK f \in Files : ofile[p][d] = f
    <3>1. ofile[p] \in [Fds -> Files \cup {NoFile}]
      BY DEF FtableInv, FtableTypeOK
    <3>2. ofile[p][d] \in Files
      BY ONLY <3>1, <2>3, d \in Fds
    <3> QED
      BY <3>2
  <2>5. /\ at[p] = "exit" /\ Closed(p) /\ at' = at
        /\ drop' = [drop EXCEPT ![p] = <<f>>] /\ ofile' = [ofile EXCEPT ![p][d] = NoFile]
        /\ UNCHANGED <<fref, type, pipe, open, loc, ends, fpanic>>
    BY <1>13, <2>3, <2>4 DEF ExitFd, held
  <2> QED
    BY <2>4, <2>5, DropFdSafe
<1>14. CASE ExitDone(p)
  BY <1>14, MoveSafe DEF ExitDone, Goto, Places
<1> QED
  BY <1>1, <1>2, <1>3, <1>4, <1>5, <1>6, <1>7, <1>8, <1>9, <1>10, <1>11, <1>12, <1>13,
     <1>14 DEF FileStep

\* No call does.
LEMMA UserStepSafe ==
  ASSUME FtableInv, ~fpanic, NEW p \in Slots, UserStep(p)
  PROVE  FtableInv'
<1>1. ASSUME NEW label \in {"f0", "open", "exit"}, Begin(p, label)
      PROVE  FtableInv'
  <2>1. at[p] = "user" /\ Closed(p)
    BY <1>1 DEF Begin, FtableInv, LocalsFit
  <2> QED
    BY <1>1, <2>1, MoveSafe DEF Begin, Goto, Places
<1>2. ASSUME NEW d \in Fds, Dup(p, d) PROVE FtableInv'
  BY <1>2, DupSafe
<1>3. ASSUME NEW d \in Fds, CloseFd(p, d) PROVE FtableInv'
  <2>1. PICK f \in Files : ofile[p][d] = f
    BY <1>3 DEF CloseFd, FtableInv, FtableTypeOK
  <2>2. /\ at[p] = "user" /\ at' = [at EXCEPT ![p] = "close"] /\ Closed(p)
        /\ drop' = [drop EXCEPT ![p] = <<f>>] /\ ofile' = [ofile EXCEPT ![p][d] = NoFile]
        /\ UNCHANGED <<fref, type, pipe, open, loc, ends, fpanic>>
    BY <1>3, <2>1 DEF CloseFd, Goto, FtableInv, LocalsFit
  <2> QED
    BY <2>1, <2>2, DropFdSafe
<1>4. ASSUME NEW q \in Slots, Fork(p, q) PROVE FtableInv'
  BY <1>4, ForkSafe
<1> QED
  BY <1>1, <1>2, <1>3, <1>4 DEF UserStep

\* Nor does a step that changes none of its variables.
LEMMA StutterSafe ==
  ASSUME FtableInv, UNCHANGED ftableVars
  PROVE  FtableInv'
<1>1. /\ fref' = fref /\ type' = type /\ pipe' = pipe /\ ofile' = ofile /\ open' = open
      /\ at' = at /\ loc' = loc /\ drop' = drop /\ ends' = ends
  BY DEF ftableVars
<1>2. fpanic' = fpanic
  BY DEF ftableVars
<1>3. FtableTypeOK'
  BY <1>1, <1>2 DEF FtableInv, FtableTypeOK
<1>4. \A p \in Slots : LocalsFit(p)' /\ TablesFit(p)'
  BY <1>1 DEF FtableInv, LocalsFit, TablesFit, Closed
<1>5. ASSUME NEW f \in Files PROVE Counted(f)' /\ Fresh(f)' /\ EntryFits(f)'
  <2>1. /\ Descs(f)' = Descs(f) /\ Locals(f)' = Locals(f)
        /\ ToClose(f)' = ToClose(f) /\ Owed(f)' = Owed(f)
    BY <1>1 DEF Descs, Locals, ToClose, Owed
  <2>2. Counted(f) /\ Fresh(f) /\ EntryFits(f)
    BY DEF FtableInv, FilesCounted
  <2> QED
    BY <1>1, <2>1, <2>2 DEF Counted, Fresh, EntryFits
<1>6. EndsCounted'
  <2>1. EndsCounted
    BY DEF FtableInv, FilesCounted
  <2>2. ~fpanic'
    BY ONLY <2>1, <1>2, Zenon DEF EndsCounted
  <2>3. ASSUME NEW g \in Pages, NEW end \in {"r", "w"} PROVE EndCounted(g, end)'
    <3>1. /\ FilesOf(g, end)' = FilesOf(g, end) /\ Closing(g, end)' = Closing(g, end)
          /\ IsOpen(g, end)' <=> IsOpen(g, end)
      BY <1>1 DEF FilesOf, Closing, IsOpen
    <3> QED
      BY <2>1, <3>1 DEF EndsCounted, EndCounted
  <2> QED
    BY <1>1, <2>1, <2>2, <2>3 DEF EndsCounted
<1> QED
  BY <1>3, <1>4, <1>5, <1>6 DEF FtableInv, FilesCounted

\* Whatever processes do with files, in whatever order, and whatever fails, the invariant
\* holds: the references of every entry of ftable and the ends of every pipe are counted.
THEOREM FilesInvariant == FtableSpec => []FtableInv
<1>1. FtableInv /\ [FtableNext]_ftableVars => FtableInv'
  <2> SUFFICES ASSUME FtableInv, [FtableNext]_ftableVars PROVE FtableInv'
    OBVIOUS
  <2>1. CASE FtableNext
    BY <2>1, FileStepSafe, UserStepSafe DEF FtableNext
  <2>2. CASE UNCHANGED ftableVars
    BY <2>2, StutterSafe
  <2> QED
    BY <2>1, <2>2
<1> QED
  BY <1>1, FtableInitSafe, PTL DEF FtableSpec

\* fileclose() and filedup() never panic, and as many references are counted as there are.
THEOREM ReferencesCounted == FtableSpec => []FilesCounted
<1>1. FtableInv => FilesCounted
  BY DEF FtableInv
<1> QED
  BY <1>1, FilesInvariant, PTL

\* What a descriptor names is not a free entry of ftable, and the pipe of a file has not
\* been freed: its end is open.
NothingDangles ==
  /\ \A p \in Slots, d \in Fds : ofile[p][d] # NoFile => fref[ofile[p][d]] >= 1
  /\ \A f \in Files : type[f] \in {"r", "w"} => IsOpen(pipe[f], type[f])

\* No file is freed under a descriptor, and no pipe under a file.
THEOREM NeverDangling == FtableSpec => []NothingDangles
<1>1. FtableInv => NothingDangles
  <2> SUFFICES ASSUME FtableInv PROVE NothingDangles
    OBVIOUS
  <2>1. ASSUME NEW p \in Slots, NEW d \in Fds, ofile[p][d] # NoFile
        PROVE  fref[ofile[p][d]] >= 1
    <3>1. PICK f \in Files : f = ofile[p][d]
      BY <2>1 DEF FtableInv, FtableTypeOK
    <3> QED
      BY <3>1, DupFinds
  <2>2. ASSUME NEW f \in Files, type[f] \in {"r", "w"} PROVE IsOpen(pipe[f], type[f])
    <3>1. pipe[f] \in Pages /\ fref[f] > 0
      BY <2>2 DEF FtableInv, FtableTypeOK, EntryFits
    <3>2. f \in FilesOf(pipe[f], type[f])
      BY <3>1 DEF FilesOf
    <3>3. EndCounted(pipe[f], type[f])
      BY <2>2, <3>1 DEF FtableInv, FilesCounted, EndsCounted
    <3> QED
      BY <3>2, <3>3, NoneCounted
  <2> QED
    BY <2>1, <2>2 DEF NothingDangles
<1> QED
  BY <1>1, FilesInvariant, PTL

-----------------------------------------------------------------------------
(* The indices of the console                                               *)

Index == 0..Wrap-1

\* Indices stay in their range.
LEMMA InRange ==
  ASSUME NEW i \in Index, NEW k \in Index
  PROVE  Plus(i, k) \in Index /\ Minus(i, k) \in Index
<1>1. Wrap \in Nat \ {0}  BY ConsoleAssumption
<1>2. i + k \in Nat /\ i + Wrap - k \in Nat  BY <1>1 DEF Index
<1>3. \A x \in Nat : x % Wrap \in 0..Wrap-1  BY <1>1, ModRange
<1> QED  BY <1>2, <1>3 DEF Plus, Minus, Index

\* An index that moves on and one that is behind, without the remainder.
LEMMA IndexIs ==
  ASSUME NEW i \in Index, NEW k \in Index
  PROVE  /\ Plus(i, k) = IF i + k < Wrap THEN i + k ELSE i + k - Wrap
         /\ Minus(i, k) = IF k <= i THEN i - k ELSE i + Wrap - k
<1>1. Wrap \in Nat \ {0}  BY ConsoleAssumption
<1>2. Plus(i, k) = IF i + k < Wrap THEN i + k ELSE i + k - Wrap
  BY <1>1, Moved DEF Plus, Index
<1>3. Minus(i, k) = IF k <= i THEN i - k ELSE i + Wrap - k
  BY <1>1, Ahead DEF Minus, Index
<1> QED  BY <1>2, <1>3

\* The index in front moves on.
LEMMA Later ==
  ASSUME NEW i \in Index, NEW j \in Index, NEW k \in Index, Minus(i, j) + k < Wrap
  PROVE  Minus(Plus(i, k), j) = Minus(i, j) + k
<1>1. Wrap \in Nat \ {0}  BY ConsoleAssumption
<1> DEFINE f == Plus(i, k)
<1>2. f = IF i + k < Wrap THEN i + k ELSE i + k - Wrap  BY IndexIs
<1>3. f \in Index  BY InRange
<1> HIDE DEF f
<1>4. Minus(f, j) = IF j <= f THEN f - j ELSE f + Wrap - j  BY <1>3, IndexIs
<1>5. Minus(i, j) = IF j <= i THEN i - j ELSE i + Wrap - j  BY IndexIs
<1>6. Minus(f, j) = Minus(i, j) + k  BY <1>1, <1>2, <1>3, <1>4, <1>5 DEF Index
<1> QED  BY <1>6 DEF f

\* It is taken back, no further than the index behind.
LEMMA Sooner ==
  ASSUME NEW i \in Index, NEW j \in Index, NEW k \in Index, k <= Minus(i, j)
  PROVE  Minus(Minus(i, k), j) = Minus(i, j) - k
<1>1. Wrap \in Nat \ {0}  BY ConsoleAssumption
<1> DEFINE f == Minus(i, k)
<1>2. f = IF k <= i THEN i - k ELSE i + Wrap - k  BY IndexIs
<1>3. f \in Index  BY InRange
<1> HIDE DEF f
<1>4. Minus(f, j) = IF j <= f THEN f - j ELSE f + Wrap - j  BY <1>3, IndexIs
<1>5. Minus(i, j) = IF j <= i THEN i - j ELSE i + Wrap - j  BY IndexIs
<1>6. Minus(f, j) = Minus(i, j) - k  BY <1>1, <1>2, <1>3, <1>4, <1>5 DEF Index
<1> QED  BY <1>6 DEF f

\* The index behind moves on, no further than the one in front.
LEMMA Closer ==
  ASSUME NEW i \in Index, NEW j \in Index, NEW k \in Index, k <= Minus(i, j)
  PROVE  Minus(i, Plus(j, k)) = Minus(i, j) - k
<1>1. Wrap \in Nat \ {0}  BY ConsoleAssumption
<1> DEFINE f == Plus(j, k)
<1>2. f = IF j + k < Wrap THEN j + k ELSE j + k - Wrap  BY IndexIs
<1>3. f \in Index  BY InRange
<1> HIDE DEF f
<1>4. Minus(i, f) = IF f <= i THEN i - f ELSE i + Wrap - f  BY <1>3, IndexIs
<1>5. Minus(i, j) = IF j <= i THEN i - j ELSE i + Wrap - j  BY IndexIs
<1>6. Minus(i, f) = Minus(i, j) - k  BY <1>1, <1>2, <1>3, <1>4, <1>5 DEF Index
<1> QED  BY <1>6 DEF f

\* Where an index is, counted from another.
LEMMA There ==
  ASSUME NEW i \in Index, NEW j \in Index
  PROVE  /\ Plus(j, Minus(i, j)) = i
         /\ Minus(i, j) = 0 <=> i = j
<1>1. Wrap \in Nat \ {0}  BY ConsoleAssumption
<1> DEFINE k == Minus(i, j)
<1>2. k = IF j <= i THEN i - j ELSE i + Wrap - j  BY IndexIs
<1>3. k \in Index  BY InRange
<1> HIDE DEF k
<1>4. Plus(j, k) = IF j + k < Wrap THEN j + k ELSE j + k - Wrap  BY <1>3, IndexIs
<1>5. Plus(j, k) = i /\ (k = 0 <=> i = j)  BY <1>1, <1>2, <1>3, <1>4 DEF Index
<1> QED  BY <1>5 DEF k

\* What ConsInv and the assumption say of the ring, in one place.
LEMMA RingIs ==
  ASSUME ConsTypeOK, RingInv
  PROVE  /\ Wrap \in Nat \ {0} /\ INPUT_BUF \in Nat \ {0} /\ INPUT_BUF < Wrap
         /\ r \in Index /\ w \in Index /\ e \in Index
         /\ Minus(w, r) \in 0..INPUT_BUF /\ Minus(e, w) \in 0..INPUT_BUF
         /\ Minus(e, r) \in 0..INPUT_BUF
         /\ Minus(w, r) + Minus(e, w) = Minus(e, r)
<1>1. Wrap \in Nat \ {0} /\ INPUT_BUF \in Nat \ {0} /\ INPUT_BUF < Wrap
  BY ConsoleAssumption
<1>2. r \in Index /\ w \in Index /\ e \in Index  BY DEF ConsTypeOK, Index
<1>3. Minus(w, r) \in Index /\ Minus(e, w) \in Index /\ Minus(e, r) \in Index
  BY <1>2, InRange
<1> QED  BY <1>1, <1>2, <1>3 DEF RingInv, Index

-----------------------------------------------------------------------------
(* The invariant, action by action                                         *)

\* Typing a character.
LEMMA TypeKeeps ==
  ASSUME ConsInv, NEW c \in Chars, Type(c)
  PROVE  ConsInv'
<1> USE DEF ConsInv
<1>1. /\ Wrap \in Nat \ {0} /\ INPUT_BUF \in Nat \ {0} /\ INPUT_BUF < Wrap
      /\ r \in Index /\ w \in Index /\ e \in Index
      /\ Minus(w, r) \in 0..INPUT_BUF /\ Minus(e, w) \in 0..INPUT_BUF
      /\ Minus(e, r) \in 0..INPUT_BUF-1
      /\ Minus(w, r) + Minus(e, w) = Minus(e, r)
  BY RingIs DEF Type, HasRoom
<1>2. 1 \in Index /\ e' = Plus(e, 1) /\ e' \in Index
  BY <1>1, InRange DEF Type, Index
<1>3. Minus(e', r) = Minus(e, r) + 1 /\ Minus(e', w) = Minus(e, w) + 1
  BY <1>1, <1>2, Later
<1>4. Commits(c, e') => w' = e' /\ rpc' = ReadersWoken
  BY DEF Type
<1>5. ~Commits(c, e') => w' = w /\ rpc' = rpc /\ Minus(e', r) # INPUT_BUF
  <2>1. SUFFICES ASSUME ~Commits(c, e'), Minus(e', r) = INPUT_BUF PROVE FALSE
    BY DEF Type
  <2>2. e' = Plus(r, INPUT_BUF)  BY <1>1, <1>2, <2>1, There
  <2> QED  BY <2>1, <2>2 DEF Commits
<1>6. UNCHANGED <<r, cons, n, target, out, killed>>  BY DEF Type
<1>7. RingInv'
  <2>1. Minus(e', e') = 0  BY <1>2, There
  <2>2. Minus(w', r) + Minus(e', w') = Minus(e', r)
    BY <1>1, <1>3, <1>4, <1>5, <2>1
  <2>3. Minus(e', r) <= INPUT_BUF  BY <1>1, <1>3
  <2> QED  BY <1>6, <2>2, <2>3 DEF RingInv, Minus
<1>8. ConsTypeOK'
  <2>1. w' \in Index  BY <1>1, <1>2, <1>4, <1>5
  <2>2. rpc' \in [Readers -> {"out", "loop", "sleep", "asleep", "runnable"}]
    BY <1>4, <1>5 DEF ConsTypeOK, ReadersWoken
  <2>3. buf' \in [0..INPUT_BUF-1 -> Chars]  BY DEF ConsTypeOK, Type
  <2> QED  BY <1>2, <1>6, <2>1, <2>2, <2>3 DEF ConsTypeOK, Index
<1>9. \A p \in Readers : /\ rpc[p] # "sleep" /\ rpc'[p] # "sleep"
                         /\ rpc'[p] = "asleep" => ~Commits(c, e')
                         /\ rpc'[p] = "loop" <=> rpc[p] = "loop"
                         /\ rpc'[p] = "out" <=> rpc[p] = "out"
  <2> SUFFICES ASSUME NEW p \in Readers
               PROVE  /\ rpc'[p] = IF Commits(c, e') /\ rpc[p] = "asleep"
                                   THEN "runnable" ELSE rpc[p]
                      /\ rpc[p] # "sleep"
    OBVIOUS
  <2>1. cons = None /\ None \notin Readers  BY ConsoleAssumption DEF Type
  <2> QED  BY <1>4, <1>5, <2>1 DEF ReadersWoken, LockInv
<1>10. LockInv'  BY <1>6, <1>9 DEF LockInv
<1>11. ReadInv'  BY <1>6, <1>9 DEF ReadInv
<1>12. InputWakes'
  <2>1. \A p \in Readers : rpc'[p] = "asleep" => w' = w /\ rpc[p] = "asleep"
    BY <1>5, <1>9
  <2>2. Minus(e', r) = INPUT_BUF => w' = e'  BY <1>4, <1>5
  <2> QED  BY <1>6, <2>1, <2>2 DEF InputWakes, Minus
<1> QED  BY <1>7, <1>8, <1>10, <1>11, <1>12

\* Taking k characters of the line back.
LEMMA TakenBack ==
  ASSUME ConsInv, NEW k \in 1..INPUT_BUF, k <= Minus(e, w), e' = Minus(e, k),
         UNCHANGED <<buf, r, w, cons, locals, killed>>
  PROVE  ConsInv'
<1> USE DEF ConsInv
<1>1. /\ Wrap \in Nat \ {0} /\ INPUT_BUF \in Nat \ {0} /\ INPUT_BUF < Wrap
      /\ r \in Index /\ w \in Index /\ e \in Index
      /\ Minus(w, r) \in 0..INPUT_BUF /\ Minus(e, w) \in 0..INPUT_BUF
      /\ Minus(e, r) \in 0..INPUT_BUF
      /\ Minus(w, r) + Minus(e, w) = Minus(e, r)
  BY RingIs
<1>2. k \in Index /\ k <= Minus(e, r) /\ e' \in Index  BY <1>1, InRange DEF Index
<1>3. Minus(e', r) = Minus(e, r) - k /\ Minus(e', w) = Minus(e, w) - k
  BY <1>1, <1>2, Sooner
<1>4. UNCHANGED <<buf, r, w, cons, rpc, n, target, out, killed>>  BY DEF locals
<1>5. RingInv'  BY <1>1, <1>3, <1>4 DEF RingInv, Minus
<1>6. ConsTypeOK'  BY <1>2, <1>4 DEF ConsTypeOK, Index
<1>7. Minus(e', r) # INPUT_BUF  BY <1>1, <1>3
<1>8. InputWakes'  BY <1>4, <1>7 DEF InputWakes, Minus
<1> QED  BY <1>4, <1>5, <1>6, <1>8 DEF LockInv, ReadInv

\* ^H and ^U take characters back.
LEMMA EditsKeep ==
  ASSUME ConsInv, Erase \/ KillLine
  PROVE  ConsInv'
<1>1. CASE Erase
  <2>1. Minus(e, w) # 0 /\ Minus(e, w) \in 0..INPUT_BUF /\ INPUT_BUF \in Nat \ {0}
    <3>1. e \in Index /\ w \in Index  BY RingIs DEF ConsInv
    <3> QED  BY <1>1, <3>1, RingIs, There DEF Erase, ConsInv
  <2>2. 1 \in 1..INPUT_BUF /\ 1 <= Minus(e, w)  BY <2>1
  <2> QED  BY <1>1, <2>2, TakenBack DEF Erase
<1>2. CASE KillLine
  <2>1. PICK k \in 1..INPUT_BUF : k <= Minus(e, w) /\ e' = Minus(e, k)
    BY <1>2 DEF KillLine
  <2> QED  BY <1>2, <2>1, TakenBack DEF KillLine
<1> QED  BY <1>1, <1>2

\* A step of a reader that leaves the ring alone.
LEMMA RingKept ==
  ASSUME ConsInv, UNCHANGED input,
         \A p \in Readers : rpc'[p] = "asleep" => rpc[p] \in {"sleep", "asleep"}
  PROVE  RingInv' /\ InputWakes'
<1>1. UNCHANGED <<buf, r, w, e>>  BY DEF input
<1>2. RingInv'  BY <1>1 DEF ConsInv, RingInv, Minus
<1>3. InputWakes'  BY <1>1 DEF ConsInv, InputWakes, LockInv, Minus
<1> QED  BY <1>2, <1>3

\* The beginning of a call.
LEMMA ReadKeeps ==
  ASSUME ConsInv, NEW p \in Readers, NEW k \in Sizes, Read(p, k)
  PROVE  ConsInv'
<1> USE DEF ConsInv
<1>1. k \in Nat /\ None \notin Readers  BY ConsoleAssumption
<1>2. ConsTypeOK'
  <2>1. <<>> \in Seq(Chars)  OBVIOUS
  <2> QED  BY <1>1, <2>1 DEF ConsTypeOK, Read, input
<1>3. LockInv'  BY <1>1 DEF ConsTypeOK, LockInv, Read, input
<1>4. ReadInv'
  <2>1. Len(<<>>) = 0 /\ k <= k /\ k - k = 0  BY <1>1
  <2>2. /\ n'[p] = k /\ target'[p] = k /\ out'[p] = <<>>
        /\ \A q \in Readers \ {p} : /\ rpc'[q] = rpc[q] /\ n'[q] = n[q]
                                    /\ target'[q] = target[q] /\ out'[q] = out[q]
    BY DEF ConsTypeOK, Read
  <2> QED  BY <2>1, <2>2 DEF ReadInv
<1>5. UNCHANGED input /\ \A q \in Readers : rpc'[q] = "asleep" => rpc[q] = "asleep"
  BY DEF ConsTypeOK, Read
<1>6. RingInv' /\ InputWakes'  BY <1>5, RingKept
<1> QED  BY <1>2, <1>3, <1>4, <1>6

\* The end of a call, whatever the counters do.
LEMMA ReturnKeeps ==
  ASSUME ConsInv, NEW p \in Readers, rpc[p] = "loop", Return(p), UNCHANGED <<w, e>>,
         \A q \in Readers \ {p} : out'[q] = out[q]
  PROVE  LockInv' /\ ReadInv'
         /\ \A q \in Readers : rpc'[q] = "asleep" => rpc[q] = "asleep"
<1> USE DEF ConsInv
<1>1. cons = p /\ None \notin Readers /\ cons' = None
  BY ConsoleAssumption DEF LockInv, Return
<1>2. rpc'[p] = "out"  BY DEF ConsTypeOK, Return
<1>3. \A q \in Readers \ {p} : /\ rpc'[q] = rpc[q] /\ n'[q] = n[q]
                               /\ target'[q] = target[q]
  BY DEF ConsTypeOK, Return
<1>4. \A q \in Readers \ {p} : rpc[q] \notin {"loop", "sleep"}  BY <1>1 DEF LockInv
<1>5. LockInv'  BY <1>1, <1>2, <1>3, <1>4 DEF LockInv
<1>6. ReadInv'  BY <1>2, <1>3 DEF ReadInv
<1> QED  BY <1>2, <1>3, <1>5, <1>6

\* Taking a character.
LEMMA ByteKeeps ==
  ASSUME ConsInv, NEW p \in Readers, Byte(p)
  PROVE  ConsInv'
<1> USE DEF ConsInv
<1>1. /\ Wrap \in Nat \ {0} /\ INPUT_BUF \in Nat \ {0} /\ INPUT_BUF < Wrap
      /\ r \in Index /\ w \in Index /\ e \in Index
      /\ Minus(w, r) \in 0..INPUT_BUF /\ Minus(e, w) \in 0..INPUT_BUF
      /\ Minus(e, r) \in 0..INPUT_BUF
      /\ Minus(w, r) + Minus(e, w) = Minus(e, r)
  BY RingIs
<1>2. UNCHANGED <<buf, w, e, killed>> /\ r # w /\ rpc[p] = "loop" /\ n[p] > 0
  BY DEF Byte
<1>3. 1 \in Index /\ Plus(r, 1) \in Index /\ 1 <= Minus(w, r) /\ 1 <= Minus(e, r)
  <2>1. 1 \in Index  BY <1>1 DEF Index
  <2>2. Minus(w, r) # 0  BY <1>1, <1>2, There
  <2> QED  BY <1>1, <2>1, <2>2, InRange
<1>4. /\ Minus(w, Plus(r, 1)) = Minus(w, r) - 1
      /\ Minus(e, Plus(r, 1)) = Minus(e, r) - 1
  BY <1>1, <1>3, Closer
<1>5. r' = r \/ r' = Plus(r, 1)
  BY DEF Byte
<1>6. RingInv'  BY <1>1, <1>2, <1>4, <1>5 DEF RingInv, Minus
<1> DEFINE c == buf[Slot(r)]
<1>7. c \in Chars
  <2>1. r \in Nat  BY <1>1 DEF Index
  <2>2. Slot(r) \in 0..INPUT_BUF-1  BY <1>1, <2>1, ModRange DEF Slot
  <2> QED  BY <2>2 DEF ConsTypeOK
<1>a. out \in [Readers -> Seq(Chars)]  BY DEF ConsTypeOK
<1>b. IF c = "eof" THEN out' = out ELSE out' = [out EXCEPT ![p] = Append(@, c)]
  BY DEF Byte
<1> HIDE DEF c
<1>c. Append(out[p], c) \in Seq(Chars)  BY <1>7, <1>a
<1>8. out' \in [Readers -> Seq(Chars)]  BY <1>a, <1>b, <1>c
<1>d. \A q \in Readers \ {p} : out'[q] = out[q]  BY <1>a, <1>b
<1>e. c # "eof" => out'[p] = Append(out[p], c)  BY <1>a, <1>b
<1>9. ASSUME c = "eof" \/ c = "nl" PROVE ConsInv'
  <2>1. Return(p)  BY <1>9 DEF Byte, c
  <2>2. LockInv' /\ ReadInv' /\ \A q \in Readers : rpc'[q] = "asleep" => rpc[q] = "asleep"
    BY <1>2, <1>d, <2>1, ReturnKeeps
  <2>3. ConsTypeOK'
    BY <1>1, <1>2, <1>3, <1>5, <1>8, <2>1 DEF ConsTypeOK, Return, Index
  <2>4. \A q \in Readers : rpc[q] # "asleep"  BY <1>2 DEF InputWakes
  <2>5. InputWakes'
    <3>1. \A q \in Readers : rpc'[q] # "asleep"  BY <2>2, <2>4
    <3>2. Minus(e', r') = INPUT_BUF => Minus(e, r) = INPUT_BUF
      BY <1>1, <1>2, <1>4, <1>5
    <3> QED  BY <1>2, <3>1, <3>2 DEF InputWakes
  <2> QED  BY <1>6, <2>2, <2>3, <2>5
<1>10. ASSUME c = "x" PROVE ConsInv'
  <2>1. /\ n' = [n EXCEPT ![p] = @ - 1] /\ UNCHANGED <<cons, rpc, target>>
        /\ r' = Plus(r, 1)
    BY <1>10 DEF Byte, c
  <2>2. n[p] \in Nat /\ target[p] \in Nat /\ out[p] \in Seq(Chars)  BY DEF ConsTypeOK
  <2>3. n'[p] = n[p] - 1 /\ n'[p] \in Nat  BY <1>2, <2>1, <2>2 DEF ConsTypeOK
  <2>4. ConsTypeOK'
    <3>1. n' \in [Readers -> Nat]  BY <2>1, <2>3 DEF ConsTypeOK
    <3> QED  BY <1>1, <1>2, <1>3, <1>8, <2>1, <3>1 DEF ConsTypeOK, Index
  <2>5. LockInv'
    <3>1. rpc[p] = "loop" /\ cons = p  BY <1>2 DEF LockInv
    <3>2. \A q \in Readers : rpc[q] # "sleep"  BY <1>2, <3>1 DEF LockInv
    <3> QED  BY <2>1, <3>1, <3>2 DEF LockInv
  <2>6. ReadInv'
    <3>1. /\ n[p] <= target[p] /\ Len(out[p]) = target[p] - n[p]
          /\ \A i \in 1..Len(out[p]) : out[p][i] # "nl"
      BY <1>2 DEF ReadInv
    <3>2. out'[p] = Append(out[p], "x")  BY <1>e, <1>10
    <3>3. /\ Len(out'[p]) = Len(out[p]) + 1
          /\ \A i \in 1..Len(out[p]) : out'[p][i] = out[p][i]
          /\ out'[p][Len(out[p]) + 1] = "x"
      <4>1. "x" \in Chars  BY DEF Chars
      <4> QED  BY <2>2, <3>2, <4>1, AppendProperties
    <3>4. \A i \in 1..Len(out'[p]) : out'[p][i] # "nl"
      <4> SUFFICES ASSUME NEW i \in 1..Len(out[p])+1 PROVE out'[p][i] # "nl"
        BY <3>3
      <4>1. Len(out[p]) \in Nat  BY <2>2
      <4>2. CASE i = Len(out[p]) + 1  BY <3>3, <4>2
      <4>3. CASE i # Len(out[p]) + 1
        <5>1. i \in 1..Len(out[p])  BY <4>1, <4>3
        <5> QED  BY <3>1, <3>3, <5>1
      <4> QED  BY <4>2, <4>3
    <3>5. n'[p] <= target'[p] /\ Len(out'[p]) = target'[p] - n'[p]
      BY <2>1, <2>2, <2>3, <3>1, <3>3
    <3>6. \A q \in Readers \ {p} : n'[q] = n[q] /\ out'[q] = out[q]
      BY <1>d, <2>1 DEF ConsTypeOK
    <3> QED  BY <2>1, <3>4, <3>5, <3>6 DEF ReadInv
  <2>7. InputWakes'
    <3>1. \A q \in Readers : rpc'[q] # "asleep"  BY <1>2, <2>1 DEF InputWakes
    <3>2. Minus(e', r') # INPUT_BUF  BY <1>1, <1>2, <1>4, <2>1
    <3> QED  BY <3>1, <3>2 DEF InputWakes
  <2> QED  BY <1>6, <2>4, <2>5, <2>6, <2>7
<1> QED  BY <1>7, <1>9, <1>10 DEF Chars

\* The ends of a read that finds no character to take.
LEMMA DoneKeeps ==
  ASSUME ConsInv, NEW p \in Readers, Done(p)
  PROVE  ConsInv'
<1>1. rpc[p] = "loop" /\ Return(p) /\ UNCHANGED <<input, out>> /\ killed' = killed \ {p}
  BY DEF Done
<1>2. UNCHANGED <<buf, r, w, e>>  BY <1>1 DEF input
<1>3. LockInv' /\ ReadInv' /\ \A q \in Readers : rpc'[q] = "asleep" => rpc[q] = "asleep"
  BY <1>1, <1>2, ReturnKeeps
<1>4. RingInv' /\ InputWakes'  BY <1>1, <1>3, RingKept
<1>5. ConsTypeOK'  BY <1>1, <1>2 DEF ConsInv, ConsTypeOK, Return
<1> QED  BY <1>3, <1>4, <1>5 DEF ConsInv

\* Going to sleep, waking up, and being killed.
LEMMA SleepKeeps ==
  ASSUME ConsInv, NEW p \in Readers, BeforeSleep(p) \/ Sleep(p) \/ Resume(p) \/ Kill(p)
  PROVE  ConsInv'
<1> USE DEF ConsInv
<1>1. UNCHANGED <<input, n, target, out>>
  BY DEF BeforeSleep, Sleep, Resume, Kill
<1>2. UNCHANGED <<buf, r, w, e>>  BY <1>1 DEF input
<1>3. \A q \in Readers \ {p} : rpc'[q] = rpc[q]
  BY DEF ConsTypeOK, BeforeSleep, Sleep, Resume, Kill
<1>4. /\ rpc'[p] = "asleep" => rpc[p] \in {"sleep", "asleep"}
      /\ rpc'[p] = "out" <=> rpc[p] = "out"
  BY DEF ConsTypeOK, BeforeSleep, Sleep, Resume, Kill
<1>5. RingInv' /\ InputWakes'  BY <1>1, <1>3, <1>4, RingKept
<1>6. ConsTypeOK'
  BY <1>1, <1>2 DEF ConsTypeOK, BeforeSleep, Sleep, Resume, Kill
<1>7. ReadInv'  BY <1>1, <1>3, <1>4 DEF ReadInv
<1>8. LockInv'
  <2>1. None \notin Readers  BY ConsoleAssumption
  <2>2. \A q \in Readers : cons = p => (q # p => rpc[q] \notin {"loop", "sleep"})
    BY DEF LockInv
  <2>3. CASE BeforeSleep(p)
    <3>1. cons' = cons /\ rpc'[p] = "sleep" /\ rpc[p] = "loop" /\ r = w
      BY <2>3 DEF ConsTypeOK, BeforeSleep
    <3> QED  BY <1>2, <1>3, <3>1 DEF LockInv
  <2>4. CASE Sleep(p)
    <3>1. cons' = None /\ rpc'[p] = "asleep" /\ cons = p
      BY <2>4 DEF ConsTypeOK, Sleep, LockInv
    <3> QED  BY <1>2, <1>3, <2>1, <2>2, <3>1 DEF LockInv
  <2>5. CASE Resume(p)
    <3>1. cons' = p /\ rpc'[p] = "loop" /\ cons = None
      BY <2>5 DEF ConsTypeOK, Resume
    <3> QED  BY <1>2, <1>3, <2>1, <3>1 DEF LockInv
  <2>6. CASE Kill(p)
    <3>1. cons' = cons /\ (rpc'[p] = rpc[p] \/ (rpc[p] = "asleep" /\ rpc'[p] = "runnable"))
      BY <2>6 DEF ConsTypeOK, Kill
    <3> QED  BY <1>2, <1>3, <3>1 DEF LockInv
  <2> QED  BY <2>3, <2>4, <2>5, <2>6
<1> QED  BY <1>5, <1>6, <1>7, <1>8

-----------------------------------------------------------------------------
(* The invariant                                                           *)

\* It holds at the beginning.
LEMMA ConsInitHolds == ConsInit => ConsInv
<1> SUFFICES ASSUME ConsInit PROVE ConsInv  OBVIOUS
<1>1. Wrap \in Nat \ {0} /\ INPUT_BUF \in Nat \ {0} /\ None \notin Readers
  BY ConsoleAssumption
<1>2. 0 \in Index /\ Minus(0, 0) = 0
  <2>1. 0 \in Index  BY <1>1 DEF Index
  <2> QED  BY <2>1, There
<1>3. ConsTypeOK
  <2>1. <<>> \in Seq(Chars) /\ "x" \in Chars  BY DEF Chars
  <2> QED  BY <1>1, <2>1 DEF ConsInit, ConsTypeOK
<1>4. RingInv /\ InputWakes  BY <1>1, <1>2 DEF ConsInit, RingInv, InputWakes
<1>5. LockInv /\ ReadInv  BY <1>1 DEF ConsInit, LockInv, ReadInv
<1> QED  BY <1>3, <1>4, <1>5 DEF ConsInv

\* Every step keeps it.
LEMMA ConsStepKeeps == ConsInv /\ [ConsNext]_consVars => ConsInv'
<1> SUFFICES ASSUME ConsInv, [ConsNext]_consVars PROVE ConsInv'  OBVIOUS
<1>1. CASE UNCHANGED consVars
  <2>1. UNCHANGED <<buf, r, w, e, cons, rpc, n, target, out, killed>>
    BY <1>1 DEF consVars, input, locals
  <2> QED  BY <2>1 DEF ConsInv, ConsTypeOK, RingInv, LockInv, ReadInv, InputWakes, Minus
<1>2. ASSUME NEW c \in Chars, Type(c) PROVE ConsInv'  BY <1>2, TypeKeeps
<1>3. CASE Erase \/ KillLine  BY <1>3, EditsKeep
<1>4. ASSUME NEW p \in Readers, NEW k \in Sizes, Read(p, k) PROVE ConsInv'
  BY <1>4, ReadKeeps
<1>5. ASSUME NEW p \in Readers, Byte(p) PROVE ConsInv'  BY <1>5, ByteKeeps
<1>6. ASSUME NEW p \in Readers, Done(p) PROVE ConsInv'  BY <1>6, DoneKeeps
<1>7. ASSUME NEW p \in Readers, BeforeSleep(p) \/ Sleep(p) \/ Resume(p) \/ Kill(p)
      PROVE  ConsInv'
  BY <1>7, SleepKeeps
<1> QED  BY <1>1, <1>2, <1>3, <1>4, <1>5, <1>6, <1>7 DEF ConsNext

\* ConsInv is an invariant of consoleintr() and consoleread(): indices that wrap
\* never lap, and nobody sleeps while there is input, for any readers and ring.
THEOREM ConsInvariance == ConsSpec => []ConsInv
<1>1. ConsInit => ConsInv  BY ConsInitHolds
<1>2. ConsInv /\ [ConsNext]_consVars => ConsInv'  BY ConsStepKeeps
<1> QED  BY <1>1, <1>2, PTL DEF ConsSpec

-----------------------------------------------------------------------------
(* The ring as two sequences                                               *)

Ready == Between(r, w)
Edit  == Between(w, e)

\* The two parts of the ring are sequences of characters, of the lengths that
\* the indices say.
LEMMA Parts ==
  ASSUME ConsInv
  PROVE  /\ Ring(INPUT_BUF, Wrap) /\ IsRing(buf, INPUT_BUF)
         /\ Ready = RingSeq(buf, r, Minus(w, r), INPUT_BUF, Wrap)
         /\ Edit = RingSeq(buf, w, Minus(e, w), INPUT_BUF, Wrap)
         /\ Ready \in Seq(Chars) /\ Len(Ready) = Minus(w, r)
         /\ Edit \in Seq(Chars) /\ Len(Edit) = Minus(e, w)
<1>1. /\ Wrap \in Nat \ {0} /\ INPUT_BUF \in Nat \ {0}
      /\ r \in 0..Wrap-1 /\ w \in 0..Wrap-1
      /\ Minus(w, r) \in 0..INPUT_BUF /\ Minus(e, w) \in 0..INPUT_BUF
  BY RingIs DEF ConsInv, Index
<1>2. Ring(INPUT_BUF, Wrap)  BY ConsoleAssumption DEF Ring
<1>3. buf \in [0..INPUT_BUF-1 -> Chars]  BY DEF ConsInv, ConsTypeOK
<1>4. IsRing(buf, INPUT_BUF)  BY <1>3 DEF IsRing
<1>5. Ready = RingSeq(buf, r, Minus(w, r), INPUT_BUF, Wrap)
  BY DEF Ready, Between, RingSeq, RingSlot, Slot
<1>6. Edit = RingSeq(buf, w, Minus(e, w), INPUT_BUF, Wrap)
  BY DEF Edit, Between, RingSeq, RingSlot, Slot
<1>7. RingSeq(buf, r, Minus(w, r), INPUT_BUF, Wrap) \in Seq(Chars)
  BY <1>1, <1>2, <1>3, RingSeqType
<1>8. RingSeq(buf, w, Minus(e, w), INPUT_BUF, Wrap) \in Seq(Chars)
  BY <1>1, <1>2, <1>3, RingSeqType
<1>n. Minus(w, r) \in Nat /\ Minus(e, w) \in Nat  BY <1>1
<1>9. Size(RingSeq(buf, r, Minus(w, r), INPUT_BUF, Wrap)) = Minus(w, r)
  BY <1>n, RingSeqSize
<1>10. Size(RingSeq(buf, w, Minus(e, w), INPUT_BUF, Wrap)) = Minus(e, w)
  BY <1>n, RingSeqSize
<1> QED  BY <1>2, <1>4, <1>5, <1>6, <1>7, <1>8, <1>9, <1>10 DEF Size

\* The two parts together are the ring from r to e.
LEMMA Together ==
  ASSUME ConsInv
  PROVE  RingSeq(buf, r, Minus(e, r), INPUT_BUF, Wrap) = Ready \o Edit
<1> DEFINE m == Minus(w, r)
           k == Minus(e, w)
           P == INPUT_BUF
           W == Wrap
<1>1. /\ W \in Nat \ {0} /\ P \in Nat \ {0} /\ r \in 0..W-1
      /\ r \in Index /\ w \in Index
      /\ m \in 0..P /\ k \in 0..P-m /\ Minus(e, r) = m + k
  BY RingIs DEF ConsInv, Index
<1>2. (r + m) % W = w  BY <1>1, There DEF Plus
<1>3. Ring(P, W) /\ Ready = RingSeq(buf, r, m, P, W) /\ Edit = RingSeq(buf, w, k, P, W)
  BY Parts
<1> HIDE DEF m, k, P, W
<1>4. RingSeq(buf, r, m + k, P, W)
        = Join(RingSeq(buf, r, m, P, W), RingSeq(buf, (r + m) % W, k, P, W))
  BY <1>1, <1>3, RingSeqSplit
<1> QED  BY <1>1, <1>2, <1>3, <1>4 DEF Join, P, W

\* A character is put behind the last one, counted from r and from w.
LEMMA Typed ==
  ASSUME ConsInv, NEW c \in Chars, Type(c)
  PROVE  /\ buf' = Put(buf, r, Minus(e, r), c, INPUT_BUF, Wrap)
         /\ buf' = Put(buf, w, Minus(e, w), c, INPUT_BUF, Wrap)
<1>1. /\ Wrap \in Nat \ {0} /\ r \in Index /\ w \in Index /\ e \in Index
      /\ Minus(e, r) \in Nat /\ Minus(e, w) \in Nat /\ r \in Nat /\ w \in Nat
  BY RingIs DEF ConsInv, Index
<1>2. (r + Minus(e, r)) % Wrap = e /\ (w + Minus(e, w)) % Wrap = e
  BY <1>1, There DEF Plus
<1>3. /\ r + (Minus(e, r) + 1) - 1 = r + Minus(e, r)
      /\ w + (Minus(e, w) + 1) - 1 = w + Minus(e, w)
  BY <1>1
<1>4. /\ RingSlot(r, Minus(e, r) + 1, INPUT_BUF, Wrap) = Slot(e)
      /\ RingSlot(w, Minus(e, w) + 1, INPUT_BUF, Wrap) = Slot(e)
  BY <1>2, <1>3 DEF RingSlot, Slot
<1> QED  BY <1>4 DEF Put, Type

-----------------------------------------------------------------------------
(* Every step is a step of the line buffer, or does not show               *)

\* Typing.
LEMMA TypeRefines ==
  ASSUME ConsInv, ConsInv', NEW c \in Chars, Type(c)
  PROVE  Lines!Type(c)
<1> DEFINE P == INPUT_BUF
           W == Wrap
           m == Minus(e, r)
           k == Minus(e, w)
           l == Minus(w, r)
<1>1. /\ W \in Nat \ {0} /\ P \in Nat \ {0} /\ P < W
      /\ r \in Index /\ w \in Index /\ e \in Index /\ 1 \in Index
      /\ r \in 0..W-1 /\ w \in 0..W-1
      /\ m \in 0..P-1 /\ k \in 0..P-1 /\ l \in 0..m /\ m = l + k
  BY RingIs DEF ConsInv, Index, Type, HasRoom
<1>2. e' = Plus(e, 1) /\ e' \in Index  BY <1>1, InRange DEF Type
<1>3. Minus(e', r) = m + 1 /\ Minus(e', w) = k + 1  BY <1>1, <1>2, Later
<1>4. /\ Ring(P, W) /\ IsRing(buf, P)
      /\ Ready = RingSeq(buf, r, l, P, W) /\ Edit = RingSeq(buf, w, k, P, W)
      /\ Ready \in Seq(Chars) /\ Len(Ready) = l
      /\ Edit \in Seq(Chars) /\ Len(Edit) = k
  BY Parts
<1>5. /\ buf' = Put(buf, r, m, c, P, W) /\ buf' = Put(buf, w, k, c, P, W)
  BY Typed
<1>6. RingSeq(buf, r, m, P, W) = Ready \o Edit  BY Together
<1>7. /\ r' = r /\ out' = out
      /\ Commits(c, e') => w' = e'
      /\ ~Commits(c, e') => w' = w
  BY DEF Type
<1>8. Ready' = RingSeq(buf', r', Minus(w', r'), P, W)
      /\ Edit' = RingSeq(buf', w', Minus(e', w'), P, W)
  BY DEF Ready, Edit, Between, RingSeq, RingSlot, Slot, Minus
<1>9. Commits(c, e') <=> c # "x" \/ m + 1 = P
  <2>1. e' = Plus(r, P) <=> Minus(e', r) = P
    <3>1. P \in Index /\ Minus(r, r) = 0  BY <1>1, There DEF Index
    <3>2. Minus(Plus(r, P), r) = P  BY <1>1, <3>1, Later
    <3>3. Plus(r, Minus(e', r)) = e'  BY <1>1, <1>2, There
    <3> QED  BY <3>2, <3>3
  <2> QED  BY <1>3, <2>1 DEF Commits
<1> HIDE DEF P, W, m, k, l
<1>10. RingSeq(Put(buf, r, m, c, P, W), r, m + 1, P, W)
         = Join(RingSeq(buf, r, m, P, W), <<c>>)
  BY <1>1, <1>4, RingSeqPut
<1>11. RingSeq(Put(buf, w, k, c, P, W), w, k + 1, P, W)
         = Join(RingSeq(buf, w, k, P, W), <<c>>)
  BY <1>1, <1>4, RingSeqPut
<1>12. RingSeq(Put(buf, r, m, c, P, W), r, l, P, W) = RingSeq(buf, r, l, P, W)
  <2>1. /\ W \in Nat \ {0} /\ P \in Nat \ {0} /\ r \in 0..W-1
        /\ m \in 0..P-1 /\ l \in 0..m
    BY <1>1
  <2>2. Ring(P, W) /\ IsRing(buf, P)  BY <1>4
  <2>3. Alike(Put(buf, r, m, c, P, W), buf, r, l, P, W)
    BY <2>1, <2>2, RingSeqOther
  <2> QED  BY <2>3 DEF Alike
<1>13. Append(Edit, c) = Edit \o <<c>>  BY <1>4, AppendIsConcat
<1>14. CASE Commits(c, e')
  <2>1. Ready' = (Ready \o Edit) \o <<c>>
    BY <1>3, <1>5, <1>6, <1>7, <1>8, <1>10, <1>14 DEF Join, m, P, W
  <2>2. (Ready \o Edit) \o <<c>> = Ready \o (Edit \o <<c>>)
    <3>1. <<c>> \in Seq(Chars)  OBVIOUS
    <3> QED  BY <1>4, <3>1, ConcatAssociative
  <2>3. Edit' = <<>>
    <3>1. Minus(e', w') = 0  BY <1>2, <1>7, <1>14, There
    <3>2. \A d, i : RingSeq(d, i, 0, P, W) = <<>>  BY DEF RingSeq
    <3> QED  BY <1>8, <3>1, <3>2
  <2>4. Ready' = Ready \o Append(Edit, c)  BY <1>13, <2>1, <2>2
  <2>5. P - Len(Ready) - Len(Edit) > 0
        /\ (c # "x" \/ P - Len(Ready) - Len(Edit) = 1)
    BY <1>1, <1>4, <1>9, <1>14
  <2> QED  BY <1>7, <2>3, <2>4, <2>5 DEF Lines!Type, Ready, Edit, P
<1>15. CASE ~Commits(c, e')
  <2>1. Edit' = Append(Edit, c)
    BY <1>3, <1>4, <1>5, <1>7, <1>8, <1>11, <1>13, <1>15 DEF Join, k, P, W
  <2>2. Ready' = Ready
    BY <1>4, <1>5, <1>7, <1>8, <1>12, <1>15 DEF l, P, W, Minus
  <2>3. P - Len(Ready) - Len(Edit) > 0
        /\ ~(c # "x" \/ P - Len(Ready) - Len(Edit) = 1)
    BY <1>1, <1>4, <1>9, <1>15
  <2> QED  BY <1>7, <2>1, <2>2, <2>3 DEF Lines!Type, Ready, Edit, P
<1> QED  BY <1>14, <1>15

\* Characters taken back.
LEMMA EraseRefines ==
  ASSUME ConsInv, NEW k \in 1..INPUT_BUF, k <= Minus(e, w), e' = Minus(e, k),
         UNCHANGED <<buf, r, w, out>>
  PROVE  Lines!Erase(k)
<1> DEFINE P == INPUT_BUF
           W == Wrap
           m == Minus(e, w)
<1>1. /\ W \in Nat \ {0} /\ P \in Nat \ {0} /\ P < W
      /\ w \in 0..W-1 /\ w \in Index /\ e \in Index /\ k \in Index /\ m \in 0..P
      /\ m - k \in 0..m /\ k \in 1..m
  BY RingIs DEF ConsInv, Index
<1>2. Minus(e', w) = m - k  BY <1>1, Sooner
<1>3. /\ Ring(P, W) /\ Edit = RingSeq(buf, w, m, P, W) /\ Len(Edit) = m
  BY Parts
<1>4. Edit' = RingSeq(buf, w, Minus(e', w), P, W)
  BY DEF Edit, Between, RingSeq, RingSlot, Slot, Minus
<1>5. Ready' = Ready  BY DEF Ready, Between, Slot, Minus
<1> HIDE DEF P, W, m
<1> DEFINE l == m - k
<1>6. l \in 0..m  BY <1>1
<1> HIDE DEF l
<1>7. RingSeq(buf, w, l, P, W) = Part(RingSeq(buf, w, m, P, W), 1, l)
  BY <1>1, <1>3, <1>6, RingSeqFront
<1>8. Edit' = SubSeq(Edit, 1, Len(Edit) - k)
  BY <1>2, <1>3, <1>4, <1>7 DEF Part, l
<1> QED  BY <1>1, <1>3, <1>5, <1>8 DEF Lines!Erase, Ready, Edit

\* Taking a character off the front.
LEMMA Taken ==
  ASSUME ConsInv, r # w, UNCHANGED <<buf, w, e>>, r' = Plus(r, 1)
  PROVE  /\ Ready # <<>> /\ Head(Ready) = buf[Slot(r)]
         /\ Ready' = Tail(Ready) /\ Edit' = Edit
<1> DEFINE P == INPUT_BUF
           W == Wrap
           m == Minus(w, r)
<1>1. /\ W \in Nat \ {0} /\ P \in Nat \ {0} /\ P < W
      /\ r \in 0..W-1 /\ w \in Index /\ r \in Index /\ 1 \in Index
      /\ m \in 0..P /\ m # 0 /\ 1 \in 0..m
  <2>1. r \in Index /\ w \in Index  BY RingIs DEF ConsInv
  <2>2. m # 0  BY <2>1, There
  <2> QED  BY <2>1, <2>2, RingIs DEF ConsInv, Index
<1>2. /\ Ring(P, W) /\ Ready = RingSeq(buf, r, m, P, W) /\ Len(Ready) = m
      /\ Ready \in Seq(Chars)
  BY Parts
<1>3. Minus(w, r') = m - 1  BY <1>1, Closer
<1>4. Ready' = RingSeq(buf, r', Minus(w, r'), P, W)
  BY DEF Ready, Between, RingSeq, RingSlot, Slot, Minus
<1>5. Edit' = Edit  BY DEF Edit, Between, Slot, Minus
<1>6. Ready[1] = buf[Slot(r)]
  <2>1. r + 1 - 1 = r /\ r % W = r /\ 1 \in 1..m  BY <1>1, ModSmall DEF Index
  <2>2. RingSlot(r, 1, P, W) = Slot(r)  BY <2>1 DEF RingSlot, Slot
  <2> HIDE DEF P, W, m
  <2> QED  BY <1>2, <2>1, <2>2 DEF RingSeq
<1>7. r' = (r + 1) % W  BY DEF Plus
<1> HIDE DEF P, W, m
<1>8. RingSeq(buf, (r + 1) % W, m - 1, P, W) = Part(RingSeq(buf, r, m, P, W), 1 + 1, m)
  BY <1>1, <1>2, RingSeqRest
<1>9. Ready # <<>>  BY <1>1, <1>2
<1>10. Ready' = SubSeq(Ready, 2, Len(Ready))
  BY <1>2, <1>3, <1>4, <1>7, <1>8 DEF Part
<1>11. Tail(Ready) = SubSeq(Ready, 2, Len(Ready))  BY <1>2, <1>9, TailIsSubSeq
<1>12. Head(Ready) = Ready[1]  BY <1>2, <1>9
<1> QED  BY <1>5, <1>6, <1>9, <1>10, <1>11, <1>12

\* A character goes to the reader; ^D ends the read, and is taken when there is
\* nothing before it.
LEMMA ByteRefines ==
  ASSUME ConsInv, NEW p \in Readers, Byte(p)
  PROVE  Lines!Take(p) \/ Lines!EndOfFile(p) \/ UNCHANGED <<Ready, Edit, out>>
<1> DEFINE c == buf[Slot(r)]
<1>1. r # w /\ UNCHANGED <<buf, w, e>> /\ rpc[p] = "loop" /\ n[p] > 0
  BY DEF Byte
<1>2. /\ n[p] \in Nat /\ target[p] \in Nat /\ out[p] \in Seq(Chars)
      /\ n[p] <= target[p] /\ Len(out[p]) = target[p] - n[p]
      /\ \A i \in 1..Len(out[p]) : out[p][i] # "nl"
  BY <1>1 DEF ConsInv, ConsTypeOK, ReadInv
<1>3. CASE c = "eof" /\ Keep(p)
  <2>1. r' = r /\ out' = out  BY <1>3 DEF Byte
  <2> QED  BY <1>1, <2>1 DEF Ready, Edit, Between, Slot, Minus
<1>4. CASE c = "eof" /\ ~Keep(p)
  <2>1. r' = Plus(r, 1) /\ out' = out  BY <1>4 DEF Byte
  <2>2. Len(out[p]) = 0  BY <1>2, <1>4 DEF Keep
  <2>3. out[p] = <<>>  BY <1>2, <2>2
  <2>4. /\ Ready # <<>> /\ Head(Ready) = "eof"
        /\ Ready' = Tail(Ready) /\ Edit' = Edit
    BY <1>1, <1>4, <2>1, Taken
  <2> QED  BY <2>1, <2>3, <2>4 DEF Lines!EndOfFile, Ready, Edit
<1>5. CASE c # "eof"
  <2>1. r' = Plus(r, 1) /\ out' = [out EXCEPT ![p] = Append(@, c)]
    BY <1>5 DEF Byte
  <2>2. /\ Ready # <<>> /\ Head(Ready) = c
        /\ Ready' = Tail(Ready) /\ Edit' = Edit
    BY <1>1, <2>1, Taken
  <2> HIDE DEF c
  <2>3. out[p] # <<>> => out[p][Len(out[p])] # "nl"
    <3> SUFFICES ASSUME out[p] # <<>> PROVE Len(out[p]) \in 1..Len(out[p])
      BY <1>2
    <3> QED  BY <1>2
  <2> QED  BY <1>5, <2>1, <2>2, <2>3 DEF Lines!Take, Ready, Edit
<1> QED  BY <1>3, <1>4, <1>5

\* The beginning.
LEMMA InitRefines == ConsInit => Lines!Init
<1> SUFFICES ASSUME ConsInit PROVE Lines!Init  OBVIOUS
<1>1. 0 \in Index  BY ConsoleAssumption DEF Index
<1>2. Minus(0, 0) = 0  BY <1>1, There
<1>3. Ready = <<>> /\ Edit = <<>>
  <2>1. \A f : [i \in 1..0 |-> f[i]] = <<>>  OBVIOUS
  <2> QED  BY <1>2 DEF ConsInit, Ready, Edit, Between
<1> QED  BY <1>3 DEF ConsInit, Lines!Init, Ready, Edit

\* Every step.
LEMMA StepRefines ==
  ConsInv /\ ConsInv' /\ [ConsNext]_consVars => [Lines!Next]_(Lines!vars)
<1> DEFINE Step == Lines!Next \/ UNCHANGED <<Ready, Edit, out>>
<1> SUFFICES ASSUME ConsInv, ConsInv', [ConsNext]_consVars PROVE Step
  BY DEF Lines!vars, Ready, Edit
<1>k. ASSUME UNCHANGED <<buf, r, w, e, out>> PROVE Step
  BY <1>k DEF Ready, Edit, Between, Slot, Minus
<1>1. CASE UNCHANGED consVars
  <2>1. UNCHANGED <<buf, r, w, e, out>>  BY <1>1 DEF consVars, input, locals
  <2> QED  BY <1>k, <2>1
<1>2. ASSUME NEW c \in Chars, Type(c) PROVE Step
  <2>1. Lines!Type(c)  BY <1>2, TypeRefines
  <2>2. c \in Lines!Chars  BY DEF Chars, Lines!Chars
  <2> QED  BY <2>1, <2>2 DEF Lines!Next
<1>3. CASE Erase \/ KillLine
  <2>1. ASSUME NEW k \in 1..INPUT_BUF, Lines!Erase(k) PROVE Step
    BY <2>1 DEF Lines!Next
  <2>2. CASE Erase
    <3>1. Minus(e, w) \in Nat /\ Minus(e, w) # 0 /\ INPUT_BUF \in Nat \ {0}
      <4>1. e \in Index /\ w \in Index  BY RingIs DEF ConsInv
      <4> QED  BY <2>2, <4>1, RingIs, There DEF Erase, ConsInv
    <3>2. 1 \in 1..INPUT_BUF /\ 1 <= Minus(e, w)  BY <3>1
    <3>3. e' = Minus(e, 1) /\ UNCHANGED <<buf, r, w, out>>
      BY <2>2 DEF Erase, locals
    <3> QED  BY <2>1, <3>2, <3>3, EraseRefines
  <2>3. CASE KillLine
    <3>1. PICK k \in 1..INPUT_BUF : k <= Minus(e, w) /\ e' = Minus(e, k)
      BY <2>3 DEF KillLine
    <3>2. UNCHANGED <<buf, r, w, out>>  BY <2>3 DEF KillLine, locals
    <3> QED  BY <2>1, <3>1, <3>2, EraseRefines
  <2> QED  BY <1>3, <2>2, <2>3
<1>4. ASSUME NEW p \in Readers, NEW k \in Sizes, Read(p, k) PROVE Step
  <2>1. UNCHANGED <<buf, r, w, e>> /\ out' = [out EXCEPT ![p] = <<>>]
    BY <1>4 DEF Read, input
  <2>2. Ready' = Ready /\ Edit' = Edit  BY <2>1 DEF Ready, Edit, Between, Slot, Minus
  <2>3. Lines!Read(p)  BY <2>1, <2>2 DEF Lines!Read, Ready, Edit
  <2> QED  BY <2>3 DEF Lines!Next
<1>5. ASSUME NEW p \in Readers, Byte(p) PROVE Step
  BY <1>5, ByteRefines DEF Lines!Next
<1>6. ASSUME NEW p \in Readers,
             Done(p) \/ BeforeSleep(p) \/ Sleep(p) \/ Resume(p) \/ Kill(p)
      PROVE  Step
  <2>1. UNCHANGED <<buf, r, w, e, out>>
    BY <1>6 DEF Done, BeforeSleep, Sleep, Resume, Kill, input
  <2> QED  BY <1>k, <2>1
<1> QED  BY <1>1, <1>2, <1>3, <1>4, <1>5, <1>6 DEF ConsNext

\* The console implements the line buffer: its readers together get what was
\* typed and not erased, in order and once, and a read ends with its line.
THEOREM ConsoleIsLineBuffer == ConsSpec => IsLineBuffer
<1>1. ConsInit => Lines!Init  BY InitRefines
<1>2. ConsInv /\ ConsInv' /\ [ConsNext]_consVars => [Lines!Next]_(Lines!vars)
  BY StepRefines
<1> QED  BY <1>1, <1>2, ConsInvariance, PTL DEF ConsSpec, Lines!Spec, IsLineBuffer
=============================================================================
