---------------------------- MODULE StorageProofs ----------------------------
(***************************************************************************)
(* Blocks in the buffer cache and blocks in files.                         *)
(*                                                                         *)
(* The buffer cache keeps one copy of each block, which one process uses   *)
(* at a time: for every number of processes, buffers and blocks, when the  *)
(* drive reports no errors. A file keeps what was written, no block has    *)
(* two owners, and a write fits in the log: for every number of processes, *)
(* files and blocks, and every size of a block.                            *)
(***************************************************************************)
EXTENDS Bcache, FileData, FiniteSetTheorems, TLAPS

-----------------------------------------------------------------------------
(* The buffer cache                                                        *)

\* Finitely many processes use a buffer.
LEMMA UsersFinite ==
  ASSUME NEW b
  PROVE  IsFiniteSet(Users(b))
<1>1. Users(b) \subseteq Procs
  BY DEF Users
<1> QED
  BY <1>1, BcacheAssumption, FS_Subset

\* The head of a queue is its first element.
LEMMA HeadKnown ==
  ASSUME NEW S, NEW q \in Seq(S), q # <<>>
  PROVE  /\ 1 \in DOMAIN q /\ Head(q) = q[1] /\ Head(q) \in S
         /\ DOMAIN q = 1..Len(q)
OBVIOUS

\* What Append() does to a queue.
LEMMA Appended ==
  ASSUME NEW S, NEW q \in Seq(S), NEW e \in S
  PROVE  /\ Append(q, e) \in Seq(S)
         /\ DOMAIN q \subseteq DOMAIN Append(q, e)
         /\ \E n \in DOMAIN Append(q, e) :
              /\ Append(q, e)[n] = e
              /\ DOMAIN Append(q, e) = DOMAIN q \cup {n} /\ n \notin DOMAIN q
         /\ \A i \in DOMAIN q : Append(q, e)[i] = q[i]
         /\ Append(q, e) # <<>>
         /\ Head(Append(q, e)) = IF q = <<>> THEN e ELSE Head(q)
<1>1. /\ DOMAIN q = 1..Len(q) /\ Len(q) \in Nat
      /\ DOMAIN Append(q, e) = 1..(Len(q) + 1)
      /\ Append(q, e)[Len(q) + 1] = e
      /\ \A i \in 1..Len(q) : Append(q, e)[i] = q[i]
      /\ Append(q, e) \in Seq(S) /\ Append(q, e) # <<>>
  OBVIOUS
<1>2. Head(Append(q, e)) = Append(q, e)[1]
  BY <1>1, HeadKnown
<1>3. CASE q = <<>>
  BY <1>1, <1>2, <1>3
<1>4. CASE q # <<>>
  <2>1. Head(q) = q[1] /\ 1 \in DOMAIN q
    BY <1>4, HeadKnown
  <2> QED
    BY <1>1, <1>2, <1>4, <2>1
<1> QED
  BY <1>3, <1>4

\* The same of idequeue, which becomes q when iderw() inserts b.
AppendFacts(b, q) ==
  /\ q \in Seq(Bufs)
  /\ DOMAIN idequeue \subseteq DOMAIN q
  /\ \E n \in DOMAIN q :
       /\ q[n] = b
       /\ DOMAIN q = DOMAIN idequeue \cup {n} /\ n \notin DOMAIN idequeue
  /\ \A i \in DOMAIN idequeue : q[i] = idequeue[i]
  /\ q # <<>>
  /\ Head(q) = IF idequeue = <<>> THEN b ELSE Head(idequeue)

\* What an interrupt finds: the drive works on the head of the queue, which
\* is not in the rest.
IntrFacts ==
  LET b == Head(idequeue)
      q == Tail(idequeue) IN
  /\ b \in Bufs /\ drive = Command(b, block[b], dirty[b], data[b])
  /\ block[b] \in Blocks /\ (~valid[b] \/ dirty[b])
  /\ \E p \in Procs : Waiting(p) /\ cur[p] = b /\ lock[b] = p
  /\ q \in Seq(Bufs)
  /\ q # <<>> => Head(q) = q[1] /\ 1 \in DOMAIN q
  /\ \A i \in DOMAIN q : /\ q[i] # b /\ q[i] \in Bufs
                          /\ \E j \in DOMAIN idequeue : q[i] = idequeue[j]
  /\ \A j \in DOMAIN idequeue : idequeue[j] = b \/ \E i \in DOMAIN q : q[i] = idequeue[j]
  /\ \A i, j \in DOMAIN q : q[i] = q[j] => i = j

\* The invariant says so.
LEMMA IntrKnows ==
  ASSUME IInv, drive # Off
  PROVE  IntrFacts
<1> DEFINE b == Head(idequeue)
           q == Tail(idequeue)
<1>1. idequeue # <<>> /\ drive = Command(b, block[b], dirty[b], data[b])
  BY DEF IInv, DriveInv
<1>2. /\ idequeue \in Seq(Bufs) /\ Len(idequeue) \in Nat /\ Len(idequeue) > 0
      /\ DOMAIN idequeue = 1..Len(idequeue) /\ b = idequeue[1] /\ b \in Bufs
  BY <1>1 DEF IInv, TypeOK
<1>3. /\ q \in Seq(Bufs) /\ DOMAIN q = 1..(Len(idequeue) - 1)
      /\ \A i \in 1..(Len(idequeue) - 1) : q[i] = idequeue[i + 1]
  BY <1>1, <1>2
<1>4. q # <<>> => Head(q) = q[1] /\ 1 \in DOMAIN q
  BY <1>3, HeadKnown
<1>5. /\ block[b] \in Blocks /\ (~valid[b] \/ dirty[b])
      /\ \E p \in Procs : Waiting(p) /\ cur[p] = b /\ lock[b] = p
      /\ \A i, j \in DOMAIN idequeue : idequeue[i] = idequeue[j] => i = j
  BY <1>2 DEF IInv, QueueInv, Undone
<1> HIDE DEF b, q
<1>6. \A i \in DOMAIN q : /\ q[i] # b /\ q[i] \in Bufs
                         /\ \E j \in DOMAIN idequeue : q[i] = idequeue[j]
  BY <1>2, <1>3, <1>5
<1>7. \A j \in DOMAIN idequeue : idequeue[j] = b \/ \E i \in DOMAIN q : q[i] = idequeue[j]
  <2> SUFFICES ASSUME NEW j \in DOMAIN idequeue, j # 1
               PROVE  \E i \in DOMAIN q : q[i] = idequeue[j]
    BY <1>2
  <2>1. j - 1 \in DOMAIN q /\ q[j - 1] = idequeue[j]
    BY <1>2, <1>3
  <2> QED
    BY <2>1
<1>8. \A i, j \in DOMAIN q : q[i] = q[j] => i = j
  <2> SUFFICES ASSUME NEW i \in DOMAIN q, NEW j \in DOMAIN q, q[i] = q[j]
               PROVE  i = j
    OBVIOUS
  <2>1. i + 1 \in DOMAIN idequeue /\ j + 1 \in DOMAIN idequeue
    BY <1>2, <1>3
  <2>2. idequeue[i + 1] = idequeue[j + 1]
    BY <1>3
  <2>3. i + 1 = j + 1
    BY <1>5, <2>1, <2>2
  <2> QED
    BY <1>3, <2>3
<1> QED
  BY <1>1, <1>2, <1>3, <1>4, <1>5, <1>6, <1>7, <1>8 DEF b, q, IntrFacts

-----------------------------------------------------------------------------
\* The interrupt of the drive keeps the invariant.
LEMMA IdeIntrSafe ==
  ASSUME IInv, Outcomes = {TRUE}, NEW ok \in Outcomes, IdeIntr(ok)
  PROVE  IInv'
<1> USE BcacheAssumption DEF IdeIntr, StartNext, Command, Wake, Off, Held, NoBlock, bufVars, ideVars
<1>0. IntrFacts
  BY IntrKnows
<1>2. TypeOK'
  <2>1. idequeue' \in Seq(Bufs)
    BY <1>0 DEF IntrFacts
  <2>2. disk' \in [Blocks -> Values] /\ data' \in [Bufs -> Values]
    <3>1. /\ Head(idequeue) \in Bufs /\ drive.block \in Blocks /\ drive.data \in Values
          /\ drive.block = block[Head(idequeue)]
      BY <1>0 DEF IntrFacts, IInv, TypeOK
    <3>2. CASE drive.write
      BY <3>1, <3>2 DEF IInv, TypeOK
    <3>3. CASE ~drive.write
      <4>1. ok = TRUE
        OBVIOUS
      <4>2. data' = [data EXCEPT ![Head(idequeue)] = disk[drive.block]] /\ disk' = disk
        BY <3>3, <4>1
      <4> QED
        BY <3>1, <4>2 DEF IInv, TypeOK
    <3> QED
      BY <3>2, <3>3
  <2>3. pc' \in [Procs -> {"call", "lock", "asleep", "woken", "release"}]
    BY DEF IInv, TypeOK
  <2> QED
    BY <2>1, <2>2, <2>3 DEF IInv, TypeOK
<1>3. OneBuffer'
  BY DEF IInv, TypeOK, OneBuffer, CleanCoherent, Waiting, Undone, Users, Uses
<1>4. RefsCounted'
  <2>1. \A c \in Bufs : Users(c)' = Users(c)
    BY DEF IInv, TypeOK, PcInv, Users, Uses
  <2> QED
    BY <2>1 DEF IInv, RefsCounted
<1>5. NoLostWakeup'
  <2> SUFFICES ASSUME NEW r \in Procs, Waiting(r)'
               PROVE  /\ cur[r] \in Bufs /\ lock[cur[r]] = r
                      /\ \E i \in DOMAIN Tail(idequeue) : Tail(idequeue)[i] = cur[r]
    BY DEF NoLostWakeup
  <2>1. Waiting(r) /\ cur[r] # Head(idequeue)
    <3>1. pc[r] \in {"asleep", "woken"} /\ cur[r] \in Bufs
      BY DEF IInv, TypeOK, PcInv, Waiting
    <3>2. cur[r] # Head(idequeue)
      BY <3>1 DEF IInv, TypeOK, Waiting, Undone
    <3> QED
      BY <3>1, <3>2 DEF IInv, TypeOK, Waiting, Undone
  <2>2. PICK j \in DOMAIN idequeue : idequeue[j] = cur[r]
    BY <2>1 DEF IInv, NoLostWakeup
  <2>3. \E i \in DOMAIN Tail(idequeue) : Tail(idequeue)[i] = idequeue[j]
    BY <1>0, <2>1, <2>2 DEF IntrFacts
  <2> QED
    BY <2>1, <2>2, <2>3 DEF IInv, NoLostWakeup
<1>6. QueueInv'
  <2>1. ASSUME NEW i \in DOMAIN Tail(idequeue)
        PROVE  LET c == Tail(idequeue)[i] IN
               /\ \E r \in Procs : Waiting(r)' /\ cur[r] = c /\ lock[c] = r
               /\ block[c] \in Blocks
               /\ ~valid'[c] \/ dirty'[c]
    <3> DEFINE c == Tail(idequeue)[i]
    <3>1. c # Head(idequeue) /\ c \in Bufs
      BY <1>0 DEF IntrFacts
    <3>2. PICK j \in DOMAIN idequeue : c = idequeue[j]
      BY <1>0 DEF IntrFacts
    <3>3. /\ \E r \in Procs : Waiting(r) /\ cur[r] = c /\ lock[c] = r
          /\ block[c] \in Blocks /\ (~valid[c] \/ dirty[c])
      BY <3>2 DEF IInv, QueueInv, Undone
    <3>4. PICK r \in Procs : Waiting(r) /\ cur[r] = c /\ lock[c] = r
      BY <3>3
    <3>5. Waiting(r)'
      BY <3>1, <3>4 DEF Waiting, Undone, IInv, TypeOK
    <3>6. valid'[c] = valid[c] /\ dirty'[c] = dirty[c]
      BY <3>1 DEF IInv, TypeOK
    <3> QED
      BY <3>3, <3>4, <3>5, <3>6
  <2>2. \A i, j \in DOMAIN Tail(idequeue) : Tail(idequeue)[i] = Tail(idequeue)[j] => i = j
    BY <1>0 DEF IntrFacts
  <2> QED
    BY <2>1, <2>2 DEF QueueInv, Undone
<1>7. DriveInv'
  <2> DEFINE q == Tail(idequeue)
  <2>1. CASE q = <<>>
    BY <2>1 DEF DriveInv
  <2>2. CASE q # <<>>
    <3>1. q \in Seq(Bufs) /\ Head(q) = q[1] /\ 1 \in DOMAIN q
      BY <1>0, <2>2 DEF IntrFacts
    <3>2. Head(q) \in Bufs /\ Head(q) # Head(idequeue)
      <4>1. \A i \in DOMAIN q : q[i] # Head(idequeue) /\ q[i] \in Bufs
        BY <1>0 DEF IntrFacts
      <4> QED
        BY <3>1, <4>1
    <3>3. /\ dirty'[Head(q)] = dirty[Head(q)] /\ data'[Head(q)] = data[Head(q)]
          /\ block' = block
      BY <3>2 DEF IInv, TypeOK
    <3> QED
      BY <2>2, <3>3 DEF DriveInv
  <2> QED
    BY <2>1, <2>2
<1>8. PcInv'
  BY DEF IInv, TypeOK, PcInv, QueueInv, CleanCoherent, Waiting, Undone, Users, Uses
<1>9. CleanCoherent'
  <2>1. CASE drive.write
    BY <1>0, <2>1 DEF IInv, TypeOK, CleanCoherent, OneBuffer, PcInv, IntrFacts
  <2>2. CASE ~drive.write
    BY <1>0, <2>2 DEF IInv, TypeOK, CleanCoherent, OneBuffer, PcInv, IntrFacts
  <2> QED
    BY <2>1, <2>2
<1> QED
  BY <1>2, <1>3, <1>4, <1>5, <1>6, <1>7, <1>8, <1>9 DEF IInv

\* A process that the interrupt has woken keeps the invariant.
LEMMA IoTestSafe ==
  ASSUME IInv, NEW p \in Procs, IoTest(p)
  PROVE  IInv'
<1> USE BcacheAssumption DEF IoTest, Goto, Held, NoBlock, bufVars, ideVars
<1>2. TypeOK'
  BY DEF IInv, TypeOK, Waiting, Undone, Users, Uses
<1>3. OneBuffer'
  BY DEF IInv, TypeOK, OneBuffer, CleanCoherent, Waiting, Undone, Users, Uses
<1>4. RefsCounted'
  <2>1. \A c \in Bufs : Users(c)' = Users(c)
    BY DEF IInv, TypeOK, PcInv, Users, Uses
  <2> QED
    BY <2>1 DEF IInv, RefsCounted
<1>5. NoLostWakeup'
  BY DEF IInv, TypeOK, NoLostWakeup, PcInv, QueueInv, Waiting, Undone, Users, Uses
<1>6. QueueInv'
  BY DEF IInv, TypeOK, QueueInv, NoLostWakeup, PcInv, CleanCoherent, OneBuffer, Waiting, Undone, Users, Uses
<1>7. DriveInv'
  BY DEF IInv, TypeOK, DriveInv, QueueInv, Waiting, Undone, Users, Uses
<1>8. PcInv'
  BY DEF IInv, TypeOK, PcInv, QueueInv, CleanCoherent, Waiting, Undone, Users, Uses
<1>9. CleanCoherent'
  BY DEF IInv, TypeOK, CleanCoherent, QueueInv, DriveInv, PcInv, Waiting, Undone, Users, Uses
<1> QED
  BY <1>2, <1>3, <1>4, <1>5, <1>6, <1>7, <1>8, <1>9 DEF IInv

\* A process that kill() wakes keeps the invariant.
LEMMA KillSafe ==
  ASSUME IInv, NEW p \in Procs, Kill(p)
  PROVE  IInv'
<1> USE BcacheAssumption DEF Kill, Goto, Held, NoBlock, bufVars, ideVars
<1>2. TypeOK'
  BY DEF IInv, TypeOK, Waiting, Undone, Users, Uses
<1>3. OneBuffer'
  BY DEF IInv, TypeOK, OneBuffer, CleanCoherent, Waiting, Undone, Users, Uses
<1>4. RefsCounted'
  <2>1. \A c \in Bufs : Users(c)' = Users(c)
    BY DEF IInv, TypeOK, PcInv, Users, Uses
  <2> QED
    BY <2>1 DEF IInv, RefsCounted
<1>5. NoLostWakeup'
  BY DEF IInv, TypeOK, NoLostWakeup, PcInv, QueueInv, Waiting, Undone, Users, Uses
<1>6. QueueInv'
  BY DEF IInv, TypeOK, QueueInv, NoLostWakeup, PcInv, CleanCoherent, OneBuffer, Waiting, Undone, Users, Uses
<1>7. DriveInv'
  BY DEF IInv, TypeOK, DriveInv, QueueInv, Waiting, Undone, Users, Uses
<1>8. PcInv'
  BY DEF IInv, TypeOK, PcInv, QueueInv, CleanCoherent, Waiting, Undone, Users, Uses
<1>9. CleanCoherent'
  BY DEF IInv, TypeOK, CleanCoherent, QueueInv, DriveInv, PcInv, Waiting, Undone, Users, Uses
<1> QED
  BY <1>2, <1>3, <1>4, <1>5, <1>6, <1>7, <1>8, <1>9 DEF IInv

\* bget() of a block that is cached keeps the invariant.
LEMMA BgetHitSafe ==
  ASSUME IInv, NEW p \in Procs, NEW b \in Bufs, BgetHit(p, b)
  PROVE  IInv'
<1> USE BcacheAssumption DEF BgetHit, Goto, MayRead, Held, NoBlock, bufVars, ideVars
<1>1. lock[b] # p
  <2>1. block[b] \in Nat
    BY DEF IInv, TypeOK
  <2> QED
    BY <2>1
<1>2. TypeOK'
  BY DEF IInv, TypeOK, Waiting, Undone, Users, Uses
<1>3. OneBuffer'
  BY DEF IInv, TypeOK, OneBuffer, CleanCoherent, Waiting, Undone, Users, Uses
<1>4. RefsCounted'
  <2>1. p \notin Users(b)
    BY <1>1 DEF IInv, TypeOK, PcInv, Users, Uses
  <2>2. Users(b)' = Users(b) \cup {p}
    BY DEF IInv, TypeOK, PcInv, Users, Uses
  <2>3. \A c \in Bufs : c # b => Users(c)' = Users(c)
    BY DEF IInv, TypeOK, PcInv, Users, Uses
  <2>4. Cardinality(Users(b) \cup {p}) = Cardinality(Users(b)) + 1
    BY <2>1, UsersFinite, FS_AddElement
  <2> QED
    BY <2>2, <2>3, <2>4 DEF IInv, TypeOK, RefsCounted
<1>w. \A s \in Procs : Waiting(s)' = Waiting(s) /\ (Waiting(s) => cur'[s] = cur[s])
  BY DEF IInv, TypeOK, Waiting, Undone
<1>5. NoLostWakeup'
  BY <1>w DEF IInv, NoLostWakeup
<1>6. QueueInv'
  BY <1>w DEF IInv, QueueInv, Undone
<1>7. DriveInv'
  BY DEF IInv, TypeOK, DriveInv, QueueInv, Waiting, Undone, Users, Uses
<1>8. PcInv'
  BY <1>1 DEF IInv, TypeOK, PcInv, Waiting, Undone
<1>9. CleanCoherent'
  BY DEF IInv, TypeOK, CleanCoherent, QueueInv, DriveInv, PcInv, Waiting, Undone, Users, Uses
<1> QED
  BY <1>2, <1>3, <1>4, <1>5, <1>6, <1>7, <1>8, <1>9 DEF IInv

\* bget() that recycles a buffer nobody uses keeps the invariant.
LEMMA BgetMissSafe ==
  ASSUME IInv, NEW p \in Procs, NEW b \in Bufs, NEW k \in Blocks, BgetMiss(p, b, k)
  PROVE  IInv'
<1> USE BcacheAssumption DEF BgetMiss, Goto, MayRead, Cached, Victim, Unused, NowValid, Held, NoBlock, bufVars, ideVars
<1>0. Users(b) = {}
  <2>1. Cardinality(Users(b)) = 0
    BY DEF IInv, RefsCounted
  <2> QED
    BY <2>1, UsersFinite, FS_EmptySet
<1>e. lock[b] \notin Procs
  BY <1>0 DEF Users, Uses
<1>2. TypeOK'
  BY DEF IInv, TypeOK, Waiting, Undone, Users, Uses
<1>3. OneBuffer'
  BY DEF IInv, TypeOK, OneBuffer, CleanCoherent, Waiting, Undone, Users, Uses
<1>4. RefsCounted'
  <2>1. Users(b)' = {p}
    BY <1>0 DEF IInv, TypeOK, PcInv, Users, Uses
  <2>2. \A c \in Bufs : c # b => Users(c)' = Users(c)
    BY <1>0 DEF IInv, TypeOK, PcInv, Users, Uses
  <2>3. Cardinality({p}) = 1
    BY FS_Singleton
  <2> QED
    BY <2>1, <2>2, <2>3 DEF IInv, TypeOK, RefsCounted
<1>w. \A s \in Procs : Waiting(s)' = Waiting(s) /\ (Waiting(s) => cur'[s] = cur[s])
  <2> SUFFICES ASSUME NEW s \in Procs
               PROVE  Waiting(s)' = Waiting(s) /\ (Waiting(s) => cur'[s] = cur[s])
    OBVIOUS
  <2>1. CASE s = p
    BY <2>1 DEF IInv, TypeOK, Waiting
  <2>2. CASE s # p
    <3>1. pc[s] \in {"asleep", "woken"} => cur[s] \in Bufs /\ cur[s] # b
      BY <1>e DEF IInv, PcInv
    <3> QED
      BY <2>2, <3>1 DEF IInv, TypeOK, Waiting, Undone
  <2> QED
    BY <2>1, <2>2
<1>5. NoLostWakeup'
  BY <1>w DEF IInv, NoLostWakeup
<1>6. QueueInv'
  BY DEF IInv, TypeOK, QueueInv, NoLostWakeup, PcInv, CleanCoherent, OneBuffer, Waiting, Undone, Users, Uses
<1>7. DriveInv'
  <2>1. CASE idequeue = <<>>
    BY <2>1 DEF IInv, DriveInv
  <2>2. CASE idequeue # <<>>
    <3>1. Head(idequeue) \in Bufs /\ Head(idequeue) # b
      BY <1>e, <2>2, HeadKnown DEF IInv, TypeOK, QueueInv
    <3> QED
      BY <2>2, <3>1 DEF IInv, TypeOK, DriveInv, Command
  <2> QED
    BY <2>1, <2>2
<1>8. PcInv'
  BY <1>0, <1>e DEF IInv, TypeOK, PcInv, Users, Uses, Waiting, Undone
<1>9. CleanCoherent'
  BY DEF IInv, TypeOK, CleanCoherent, QueueInv, DriveInv, PcInv, Waiting, Undone, Users, Uses
<1> QED
  BY <1>2, <1>3, <1>4, <1>5, <1>6, <1>7, <1>8, <1>9 DEF IInv

\* acquiresleep() and the read that may follow it keep the invariant.
LEMMA LockSafe ==
  ASSUME IInv, NEW p \in Procs, Lock(p)
  PROVE  IInv'
<1> USE BcacheAssumption DEF Lock, Goto, Submit, Command, Held, NoBlock, bufVars, ideVars
<1>0. cur[p] \in Bufs
  BY DEF IInv, PcInv
<1>q. AppendFacts(cur[p], Append(idequeue, cur[p]))
  <2>1. idequeue \in Seq(Bufs)
    BY DEF IInv, TypeOK
  <2> QED
    BY <1>0, <2>1, Appended DEF AppendFacts
<1>r. PICK q : q = Append(idequeue, cur[p]) /\ AppendFacts(cur[p], q)
  BY <1>q
<1>2. TypeOK'
  <2>1. idequeue' \in Seq(Bufs)
    BY <1>r DEF AppendFacts, IInv, TypeOK
  <2>2. pc' = [pc EXCEPT ![p] = "call"] \/ pc' = [pc EXCEPT ![p] = "asleep"]
    OBVIOUS
  <2>3. pc' \in [Procs -> {"call", "lock", "asleep", "woken", "release"}]
    BY <2>2 DEF IInv, TypeOK
  <2> QED
    BY <2>1, <2>2, <2>3 DEF IInv, TypeOK
<1>3. OneBuffer'
  BY DEF IInv, TypeOK, OneBuffer, CleanCoherent, Waiting, Undone, Users, Uses
<1>4. RefsCounted'
  <2>1. \A c \in Bufs : Users(c)' = Users(c)
    BY DEF IInv, TypeOK, PcInv, Users, Uses
  <2> QED
    BY <2>1 DEF IInv, RefsCounted
<1>5. NoLostWakeup'
  <2> SUFFICES ASSUME NEW s \in Procs, Waiting(s)'
               PROVE  /\ cur'[s] \in Bufs /\ lock'[cur'[s]] = s
                      /\ \E i \in DOMAIN idequeue' : idequeue'[i] = cur'[s]
    BY DEF NoLostWakeup
  <2>1. CASE s = p
    BY <1>0, <1>r, <2>1 DEF AppendFacts, IInv, TypeOK, Waiting, Undone, NoLostWakeup
  <2>2. CASE s # p
    <3>1. Waiting(s)
      BY <2>2 DEF Waiting, Undone, IInv, TypeOK
    <3>2. PICK i \in DOMAIN idequeue : idequeue[i] = cur[s] /\ cur[s] \in Bufs /\ lock[cur[s]] = s
      BY <3>1 DEF IInv, NoLostWakeup
    <3>3. cur'[s] = cur[s] /\ lock'[cur[s]] = s
      BY <1>0, <2>2, <3>2 DEF IInv, TypeOK
    <3> QED
      BY <1>r, <3>2, <3>3 DEF AppendFacts
  <2> QED
    BY <2>1, <2>2
<1>6. QueueInv'
  <2>1. CASE valid[cur[p]]
    BY <1>0, <2>1 DEF IInv, TypeOK, QueueInv, PcInv, Waiting, Undone
  <2>2. CASE ~valid[cur[p]]
    <3>1. \A i \in DOMAIN idequeue : idequeue[i] # cur[p]
      BY DEF IInv, TypeOK, QueueInv, PcInv, Waiting, Undone
    <3>2. block[cur[p]] \in Blocks
      BY <1>0 DEF IInv, TypeOK, RefsCounted, Users, Uses
    <3> QED
      <4>1. idequeue' = q /\ Waiting(p)' /\ lock'[cur[p]] = p
        BY <1>0, <1>r, <2>2 DEF IInv, TypeOK, Waiting, Undone
      <4>2. ASSUME NEW i \in DOMAIN idequeue
            PROVE  LET c == idequeue[i] IN
                   /\ \E s \in Procs : Waiting(s)' /\ cur[s] = c /\ lock'[c] = s
                   /\ block[c] \in Blocks /\ (~valid[c] \/ dirty[c])
        <5>1. idequeue[i] # cur[p]
          BY <3>1
        <5>2. PICK s \in Procs : Waiting(s) /\ cur[s] = idequeue[i] /\ lock[idequeue[i]] = s
          BY DEF IInv, QueueInv
        <5>3. Waiting(s)' /\ lock'[idequeue[i]] = s
          BY <5>1, <5>2 DEF IInv, TypeOK, Waiting, Undone
        <5> QED
          BY <5>2, <5>3 DEF IInv, QueueInv, Undone
      <4>3. \A i, j \in DOMAIN q : q[i] = q[j] => i = j
        BY <1>r, <3>1 DEF AppendFacts, IInv, QueueInv
      <4>4. PICK n \in DOMAIN q : q[n] = cur[p] /\ DOMAIN q = DOMAIN idequeue \cup {n}
        BY <1>r DEF AppendFacts
      <4>5. ASSUME NEW i \in DOMAIN q
            PROVE  LET c == q[i] IN
                   /\ \E s \in Procs : Waiting(s)' /\ cur[s] = c /\ lock'[c] = s
                   /\ block[c] \in Blocks /\ (~valid[c] \/ dirty[c])
        <5>1. CASE i = n
          BY <2>2, <3>2, <4>1, <4>4, <5>1
        <5>2. CASE i # n
          BY <1>r, <4>2, <4>4, <5>2 DEF AppendFacts
        <5> QED
          BY <5>1, <5>2
      <4> QED
        BY <4>1, <4>3, <4>5 DEF QueueInv, Undone
  <2> QED
    BY <2>1, <2>2
<1>7. DriveInv'
  <2>1. CASE idequeue = <<>>
    BY <1>0, <1>r, <2>1 DEF AppendFacts, IInv, TypeOK, DriveInv, Command
  <2>2. CASE idequeue # <<>>
    <3>1. Head(idequeue) \in Bufs /\ Head(idequeue) # cur[p]
      BY <1>0, <2>2, HeadKnown DEF IInv, TypeOK, QueueInv, PcInv, Waiting, Undone
    <3> QED
      BY <1>0, <1>r, <2>2, <3>1 DEF AppendFacts, IInv, TypeOK, DriveInv, Command
  <2> QED
    BY <2>1, <2>2
<1>8. PcInv'
  BY DEF IInv, TypeOK, PcInv, QueueInv, CleanCoherent, Waiting, Undone, Users, Uses
<1>9. CleanCoherent'
  BY DEF IInv, TypeOK, CleanCoherent, QueueInv, DriveInv, PcInv, Waiting, Undone, Users, Uses
<1> QED
  BY <1>2, <1>3, <1>4, <1>5, <1>6, <1>7, <1>8, <1>9 DEF IInv

\* A change that is pinned keeps the invariant.
LEMMA LogWriteSafe ==
  ASSUME IInv, NEW p \in Procs, NEW b \in Bufs, NEW v \in Values, LogWrite(p, b, v)
  PROVE  IInv'
<1> USE BcacheAssumption DEF LogWrite, Held, NoBlock, bufVars, ideVars
<1>v. valid[b]
  BY DEF IInv, PcInv, Waiting
<1>2. TypeOK'
  BY DEF IInv, TypeOK, Waiting, Undone, Users, Uses
<1>3. OneBuffer'
  BY DEF IInv, TypeOK, OneBuffer, CleanCoherent, Waiting, Undone, Users, Uses
<1>4. RefsCounted'
  <2>1. \A c \in Bufs : Users(c)' = Users(c)
    BY DEF IInv, TypeOK, PcInv, Users, Uses
  <2> QED
    BY <2>1 DEF IInv, RefsCounted
<1>5. NoLostWakeup'
  BY DEF IInv, TypeOK, NoLostWakeup, PcInv, QueueInv, Waiting, Undone, Users, Uses
<1>6. QueueInv'
  BY DEF IInv, TypeOK, QueueInv, NoLostWakeup, PcInv, CleanCoherent, OneBuffer, Waiting, Undone, Users, Uses
<1>7. DriveInv'
  <2>1. CASE idequeue = <<>>
    BY <2>1 DEF IInv, DriveInv
  <2>2. CASE idequeue # <<>>
    <3>1. Head(idequeue) \in Bufs /\ Head(idequeue) # b
      <4>1. /\ Head(idequeue) = idequeue[1] /\ 1 \in DOMAIN idequeue
            /\ idequeue[1] \in Bufs
        BY <2>2, HeadKnown DEF IInv, TypeOK
      <4>2. PICK s \in Procs : Waiting(s) /\ cur[s] = idequeue[1] /\ lock[idequeue[1]] = s
        BY <4>1 DEF IInv, QueueInv
      <4>3. s # p
        BY <4>2 DEF Waiting
      <4> QED
        BY <4>1, <4>2, <4>3
    <3> QED
      BY <2>2, <3>1 DEF IInv, TypeOK, DriveInv, Command
  <2> QED
    BY <2>1, <2>2
<1>8. PcInv'
  BY DEF IInv, TypeOK, PcInv, QueueInv, CleanCoherent, Waiting, Undone, Users, Uses
<1>9. CleanCoherent'
  BY <1>v DEF IInv, TypeOK, CleanCoherent
<1> QED
  BY <1>2, <1>3, <1>4, <1>5, <1>6, <1>7, <1>8, <1>9 DEF IInv

\* The request of bwrite() keeps the invariant.
LEMMA BwriteSafe ==
  ASSUME IInv, NEW p \in Procs, NEW b \in Bufs, NEW v \in Values, Bwrite(p, b, v)
  PROVE  IInv'
<1> USE BcacheAssumption DEF Bwrite, Goto, Submit, Command, Held, NoBlock, bufVars, ideVars
<1>0. b \in Bufs
  BY DEF IInv, PcInv
<1>q. AppendFacts(b, Append(idequeue, b))
  <2>1. idequeue \in Seq(Bufs)
    BY DEF IInv, TypeOK
  <2> QED
    BY <1>0, <2>1, Appended DEF AppendFacts
<1>r. PICK q : q = Append(idequeue, b) /\ AppendFacts(b, q)
  BY <1>q
<1>v. valid[b]
  BY DEF IInv, PcInv, Waiting
<1>2. TypeOK'
  BY <1>0, <1>r DEF AppendFacts, IInv, TypeOK, PcInv
<1>3. OneBuffer'
  BY DEF IInv, TypeOK, OneBuffer, CleanCoherent, Waiting, Undone, Users, Uses
<1>4. RefsCounted'
  <2>1. \A c \in Bufs : Users(c)' = Users(c)
    BY DEF IInv, TypeOK, PcInv, Users, Uses
  <2> QED
    BY <2>1 DEF IInv, RefsCounted
<1>5. NoLostWakeup'
  <2> SUFFICES ASSUME NEW s \in Procs, Waiting(s)'
               PROVE  /\ cur'[s] \in Bufs /\ lock'[cur'[s]] = s
                      /\ \E i \in DOMAIN idequeue' : idequeue'[i] = cur'[s]
    BY DEF NoLostWakeup
  <2>1. CASE s = p
    BY <1>0, <1>r, <2>1 DEF AppendFacts, IInv, TypeOK, Waiting, Undone, NoLostWakeup
  <2>2. CASE s # p
    <3>1. Waiting(s)
      <4>1. pc[s] \in {"asleep", "woken"} /\ cur[s] \in Bufs /\ cur[s] # b
        BY <2>2 DEF Waiting, IInv, TypeOK, PcInv
      <4> QED
        BY <2>2, <4>1 DEF Waiting, Undone, IInv, TypeOK
    <3>2. PICK i \in DOMAIN idequeue : idequeue[i] = cur[s] /\ cur[s] \in Bufs /\ lock[cur[s]] = s
      BY <3>1 DEF IInv, NoLostWakeup
    <3>3. cur'[s] = cur[s] /\ lock'[cur[s]] = s
      BY <1>0, <2>2, <3>2 DEF IInv, TypeOK
    <3> QED
      BY <1>r, <3>2, <3>3 DEF AppendFacts
  <2> QED
    BY <2>1, <2>2
<1>6. QueueInv'
  BY DEF IInv, TypeOK, QueueInv, NoLostWakeup, PcInv, CleanCoherent, OneBuffer, Waiting, Undone, Users, Uses
<1>7. DriveInv'
  <2>1. CASE idequeue = <<>>
    BY <1>0, <1>r, <2>1 DEF AppendFacts, IInv, TypeOK, DriveInv, Command
  <2>2. CASE idequeue # <<>>
    <3>1. Head(idequeue) \in Bufs /\ Head(idequeue) # b
      BY <1>0, <2>2, HeadKnown DEF IInv, TypeOK, QueueInv, PcInv, Waiting, Undone
    <3> QED
      BY <1>0, <1>r, <2>2, <3>1 DEF AppendFacts, IInv, TypeOK, DriveInv, Command
  <2> QED
    BY <2>1, <2>2
<1>8. PcInv'
  BY DEF IInv, TypeOK, PcInv, QueueInv, CleanCoherent, Waiting, Undone, Users, Uses
<1>9. CleanCoherent'
  BY <1>v DEF IInv, TypeOK, CleanCoherent
<1> QED
  BY <1>2, <1>3, <1>4, <1>5, <1>6, <1>7, <1>8, <1>9 DEF IInv

\* releasesleep() in brelse() keeps the invariant.
LEMMA UnlockSafe ==
  ASSUME IInv, NEW p \in Procs, NEW b \in Bufs, Unlock(p, b)
  PROVE  IInv'
<1> USE BcacheAssumption DEF Unlock, Goto, Held, NoBlock, bufVars, ideVars
<1>2. TypeOK'
  BY DEF IInv, TypeOK, Waiting, Undone, Users, Uses
<1>3. OneBuffer'
  BY DEF IInv, TypeOK, OneBuffer, CleanCoherent, Waiting, Undone, Users, Uses
<1>4. RefsCounted'
  <2>1. \A c \in Bufs : Users(c)' = Users(c)
    BY DEF IInv, TypeOK, PcInv, Users, Uses
  <2> QED
    BY <2>1 DEF IInv, RefsCounted
<1>5. NoLostWakeup'
  BY DEF IInv, TypeOK, NoLostWakeup, PcInv, QueueInv, Waiting, Undone, Users, Uses
<1>6. QueueInv'
  BY DEF IInv, TypeOK, QueueInv, NoLostWakeup, PcInv, CleanCoherent, OneBuffer, Waiting, Undone, Users, Uses
<1>7. DriveInv'
  BY DEF IInv, TypeOK, DriveInv, QueueInv, Waiting, Undone, Users, Uses
<1>8. PcInv'
  BY DEF IInv, TypeOK, PcInv, QueueInv, CleanCoherent, Waiting, Undone, Users, Uses
<1>9. CleanCoherent'
  BY DEF IInv, TypeOK, CleanCoherent, QueueInv, DriveInv, PcInv, Waiting, Undone, Users, Uses
<1> QED
  BY <1>2, <1>3, <1>4, <1>5, <1>6, <1>7, <1>8, <1>9 DEF IInv

\* The end of brelse() keeps the invariant.
LEMMA ReleaseSafe ==
  ASSUME IInv, NEW p \in Procs, Release(p)
  PROVE  IInv'
<1> USE BcacheAssumption DEF Release, Goto, RefDown, Held, NoBlock, bufVars, ideVars
<1>0. cur[p] \in Bufs /\ p \in Users(cur[p])
  BY DEF IInv, PcInv, Users, Uses
<1>1. refcnt[cur[p]] - 1 \in Nat /\ Cardinality(Users(cur[p]) \ {p}) = refcnt[cur[p]] - 1
  <2>1. Cardinality(Users(cur[p]) \ {p}) = Cardinality(Users(cur[p])) - 1
    BY <1>0, UsersFinite, FS_RemoveElement
  <2>2. Cardinality(Users(cur[p]) \ {p}) \in Nat
    BY UsersFinite, FS_RemoveElement, FS_CardinalityType, FS_Subset
  <2> QED
    BY <1>0, <2>1, <2>2 DEF IInv, RefsCounted
<1>2. TypeOK'
  BY <1>0, <1>1 DEF IInv, TypeOK
<1>3. OneBuffer'
  BY DEF IInv, TypeOK, OneBuffer, CleanCoherent, Waiting, Undone, Users, Uses
<1>4. RefsCounted'
  <2>1. Users(cur[p])' = Users(cur[p]) \ {p}
    BY <1>0 DEF IInv, TypeOK, PcInv, Users, Uses
  <2>2. \A c \in Bufs : c # cur[p] => Users(c)' = Users(c)
    BY <1>0 DEF IInv, TypeOK, PcInv, Users, Uses
  <2> QED
    BY <1>0, <1>1, <2>1, <2>2 DEF IInv, TypeOK, RefsCounted
<1>5. NoLostWakeup'
  BY DEF IInv, TypeOK, NoLostWakeup, PcInv, QueueInv, Waiting, Undone, Users, Uses
<1>6. QueueInv'
  BY DEF IInv, TypeOK, QueueInv, NoLostWakeup, PcInv, CleanCoherent, OneBuffer, Waiting, Undone, Users, Uses
<1>7. DriveInv'
  BY DEF IInv, TypeOK, DriveInv, QueueInv, Waiting, Undone, Users, Uses
<1>8. PcInv'
  BY DEF IInv, TypeOK, PcInv, QueueInv, CleanCoherent, Waiting, Undone, Users, Uses
<1>9. CleanCoherent'
  BY DEF IInv, TypeOK, CleanCoherent, QueueInv, DriveInv, PcInv, Waiting, Undone, Users, Uses
<1> QED
  BY <1>2, <1>3, <1>4, <1>5, <1>6, <1>7, <1>8, <1>9 DEF IInv
-----------------------------------------------------------------------------
\* binit() starts with the invariant.
LEMMA InitSafe == Init => IInv
<1> SUFFICES ASSUME Init PROVE IInv
  OBVIOUS
<1> USE BcacheAssumption DEF Init, NoBlock
<1>1. \A b \in Bufs : Users(b) = {}
  BY DEF Users, Uses
<1>2. RefsCounted
  BY <1>1, FS_EmptySet DEF RefsCounted
<1>3. TypeOK
  <2>1. data \in [Bufs -> Values]
    OBVIOUS
  <2>2. idequeue \in Seq(Bufs)
    OBVIOUS
  <2> QED
    BY <2>1, <2>2 DEF TypeOK
<1>4. OneBuffer /\ NoLostWakeup /\ QueueInv /\ DriveInv
  BY DEF OneBuffer, NoLostWakeup, QueueInv, DriveInv, Waiting, Undone
<1>5. PcInv /\ CleanCoherent
  BY DEF PcInv, CleanCoherent, Waiting, Undone, Held
<1> QED
  BY <1>2, <1>3, <1>4, <1>5 DEF IInv

\* The invariant does not look at the order of the buffers, nor at panic.
LEMMA SameSafe ==
  ASSUME IInv, UNCHANGED <<bufVars, lock, ideVars, pc, cur>>, panic' \in BOOLEAN
  PROVE  IInv'
<1> USE DEF IInv, bufVars, ideVars
<1>1. TypeOK'
  BY DEF TypeOK
<1>2. RefsCounted'
  <2>1. \A b : Users(b)' = Users(b)
    BY DEF Users, Uses
  <2> QED
    BY <2>1 DEF RefsCounted
<1>3. OneBuffer' /\ NoLostWakeup' /\ QueueInv'
  BY DEF OneBuffer, NoLostWakeup, QueueInv, Waiting, Undone
<1>4. DriveInv'
  BY DEF DriveInv, Command, Off
<1>5. PcInv' /\ CleanCoherent'
  BY DEF PcInv, CleanCoherent, Waiting, Undone, Held
<1> QED
  BY <1>1, <1>2, <1>3, <1>4, <1>5

\* Every step keeps the invariant.
LEMMA StepSafe ==
  ASSUME Outcomes = {TRUE}
  PROVE  IInv /\ [Next]_vars => IInv'
<1> SUFFICES ASSUME IInv, [Next]_vars PROVE IInv'
  OBVIOUS
<1>1. CASE UNCHANGED vars
  BY <1>1, SameSafe DEF vars, IInv, TypeOK
<1>2. ASSUME NEW p \in Procs, NEW k \in Blocks, BgetPanic(p, k) PROVE IInv'
  BY <1>2, SameSafe DEF BgetPanic
<1>3. ASSUME NEW p \in Procs, Client(p) PROVE IInv'
  BY <1>2, <1>3, BgetMissSafe, BgetHitSafe, UnlockSafe, LogWriteSafe, BwriteSafe DEF Client
<1> QED
  BY <1>1, <1>3, LockSafe, IoTestSafe, KillSafe, ReleaseSafe, IdeIntrSafe DEF Next

\* The invariant of the buffers, the disk queue and the processes that wait in
\* either.
THEOREM Invariant ==
  ASSUME Outcomes = {TRUE}
  PROVE  Spec => []IInv
<1>1. IInv /\ [Next]_vars => IInv'
  BY StepSafe
<1> QED
  BY <1>1, InitSafe, PTL DEF Spec

\* bget() does not run out of buffers while there is one that no call uses and
\* that the log has not pinned.
THEOREM PanicIsFull ==
  ASSUME Outcomes = {TRUE}
  PROVE  Spec => []PanicOnlyWhenFull
<1>1. Init => PanicOnlyWhenFull
  BY DEF Init, PanicOnlyWhenFull
<1>2. IInv /\ PanicOnlyWhenFull /\ [Next]_vars => PanicOnlyWhenFull'
  <2> SUFFICES ASSUME IInv, PanicOnlyWhenFull, [Next]_vars, panic', NEW b \in Bufs
               PROVE  (dirty[b] \/ Users(b) # {})'
    BY DEF PanicOnlyWhenFull
  <2>1. CASE UNCHANGED vars
    BY <2>1 DEF vars, bufVars, PanicOnlyWhenFull, Users, Uses
  <2>2. ASSUME NEW p \in Procs, NEW k \in Blocks, BgetPanic(p, k)
        PROVE  (dirty[b] \/ Users(b) # {})'
    <3>1. refcnt[b] # 0 \/ dirty[b]
      BY <2>2 DEF BgetPanic, Unused
    <3>2. Users(b) # {} \/ dirty[b]
      BY <3>1, FS_EmptySet DEF IInv, RefsCounted
    <3> QED
      BY <2>2, <3>2 DEF BgetPanic, bufVars, Users, Uses
  <2> QED
    BY <2>1, <2>2 DEF Next, Client, IdeIntr, IoTest, Kill, BgetHit, BgetMiss, MayRead, Lock, LogWrite,
                      Bwrite, Unlock, Release
<1> QED
  BY <1>1, <1>2, Invariant, PTL DEF Spec

-----------------------------------------------------------------------------
(* The buffer cache implements BlockStore                                  *)

\* What the refinement mapping makes of the buffers.
MappedFacts ==
  /\ \A b \in Bufs : valid[b] =>
       /\ block[b] \in Blocks
       /\ content[block[b]] = data[b] /\ owner[block[b]] = lock[b]
  /\ \A k \in Blocks : (\A b \in Bufs : valid[b] => block[b] # k) =>
       content[k] = disk[k] /\ owner[k] = NoProc

\* The invariant makes the mapping a function of the buffers that are valid.
LEMMA Mapped == IInv => MappedFacts
<1> SUFFICES ASSUME IInv PROVE MappedFacts
  OBVIOUS
<1>1. ASSUME NEW b \in Bufs, valid[b]
      PROVE  /\ block[b] \in Blocks
             /\ content[block[b]] = data[b] /\ owner[block[b]] = lock[b]
  <2>1. block[b] \in Blocks /\ InCache(block[b])
    BY <1>1 DEF IInv, TypeOK, CleanCoherent, InCache
  <2>2. BufOf(block[b]) \in Bufs /\ block[BufOf(block[b])] = block[b]
    BY <2>1 DEF InCache, BufOf
  <2>3. BufOf(block[b]) = b
    BY <1>1, <2>2 DEF IInv, OneBuffer, CleanCoherent
  <2> QED
    BY <2>1, <2>3 DEF content, owner
<1>2. ASSUME NEW k \in Blocks, \A b \in Bufs : valid[b] => block[b] # k
      PROVE  content[k] = disk[k] /\ owner[k] = NoProc
  BY <1>2 DEF content, owner, InCache
<1> QED
  BY <1>1, <1>2 DEF MappedFacts

\* The same after a step.
LEMMA MappedNext == IInv' => MappedFacts'
BY Mapped, PTL

\* content and owner are functions on the blocks.
LEMMA Extensional ==
  /\ content = [k \in Blocks |-> content[k]] /\ owner = [k \in Blocks |-> owner[k]]
  /\ content' = [k \in Blocks |-> content'[k]] /\ owner' = [k \in Blocks |-> owner'[k]]
BY DEF content, owner

\* A step that leaves the mapped buffers alone leaves the store alone.
LEMMA Stutter ==
  ASSUME disk' = disk, data' = data, valid' = valid, block' = block,
         \A b \in Bufs : valid[b] => lock'[b] = lock[b]
  PROVE  UNCHANGED Store!storeVars
<1>1. \A k : InCache(k)' = InCache(k) /\ BufOf(k)' = BufOf(k)
  BY DEF InCache, BufOf
<1>2. \A k : InCache(k) => BufOf(k) \in Bufs /\ valid[BufOf(k)]
  BY DEF InCache, BufOf
<1> QED
  BY <1>1, <1>2 DEF content, owner, Store!storeVars

\* An interrupt makes a block durable, or ends a bread().
LEMMA IdeIntrImplements ==
  ASSUME IInv, IInv', Outcomes = {TRUE}, NEW ok \in Outcomes, IdeIntr(ok)
  PROVE  Store!Next
<1> DEFINE b == Head(idequeue)
           k == block[b]
<1>1. IntrFacts
  BY IntrKnows DEF IdeIntr
<1>2. PICK p \in Procs : Waiting(p) /\ cur[p] = b /\ lock[b] = p
  BY <1>1 DEF IntrFacts
<1>3. /\ b \in Bufs /\ k \in Blocks /\ drive.block = k /\ drive.data = data[b]
      /\ drive.write = dirty[b] /\ (~valid[b] \/ dirty[b])
  BY <1>1 DEF IntrFacts, Command
<1>4. MappedFacts /\ MappedFacts'
  BY Mapped, MappedNext
<1>5. /\ block' = block /\ lock' = lock /\ valid' = [valid EXCEPT ![b] = TRUE]
  BY DEF IdeIntr
<1>6. \A c \in Bufs : c # b => valid'[c] = valid[c]
  BY <1>5 DEF IInv, TypeOK
<1>7. valid'[b]
  BY <1>3, <1>5 DEF IInv, TypeOK
<1>8. \A c \in Bufs : c # b => block[c] # k
  BY <1>3, BcacheAssumption DEF IInv, OneBuffer, NoBlock
<1>9. CASE dirty[b]
  <2>1. disk' = [disk EXCEPT ![k] = data[b]] /\ data' = data
    BY <1>3, <1>9 DEF IdeIntr
  <2>2. valid[b]
    BY <1>3, <1>9 DEF IInv, CleanCoherent
  <2>3. \A c \in Bufs : valid'[c] = valid[c]
    BY <1>6, <1>7, <2>2 DEF IInv, TypeOK
  <2>4. content[k] = data[b] /\ owner[k] = p
    BY <1>2, <1>3, <1>4, <2>2 DEF MappedFacts
  <2>5. ASSUME NEW j \in Blocks
        PROVE  content'[j] = content[j] /\ owner'[j] = owner[j]
    <3>1. CASE \E c \in Bufs : valid[c] /\ block[c] = j
      BY <1>4, <1>5, <2>1, <2>3, <3>1 DEF MappedFacts
    <3>2. CASE \A c \in Bufs : valid[c] => block[c] # j
      <4>1. disk'[j] = disk[j]
        BY <1>3, <2>1, <2>2, <3>2 DEF IInv, TypeOK
      <4>2. \A c \in Bufs : valid'[c] => block'[c] # j
        BY <1>5, <2>3, <3>2
      <4> QED
        BY <1>4, <3>2, <4>1, <4>2 DEF MappedFacts
    <3> QED
      BY <3>1, <3>2
  <2>6. content' = content /\ owner' = owner
    BY <2>5, Extensional
  <2>7. Store!Write(p, k)
    BY <2>1, <2>4, <2>6 DEF Store!Write
  <2> QED
    BY <1>3, <2>7 DEF Store!Next
<1>10. CASE ~dirty[b]
  <2>1. data' = [data EXCEPT ![b] = disk[k]] /\ disk' = disk
    <3>1. ok = TRUE
      OBVIOUS
    <3> QED
      BY <1>3, <1>10, <3>1 DEF IdeIntr
  <2>2. ~valid[b]
    BY <1>3, <1>10
  <2>3. content[k] = disk[k] /\ owner[k] = NoProc
    BY <1>3, <1>4, <1>8, <2>2 DEF MappedFacts
  <2>4. content'[k] = disk[k] /\ owner'[k] = p
    <3>1. data'[b] = disk[k]
      BY <1>3, <2>1 DEF IInv, TypeOK
    <3> QED
      BY <1>2, <1>3, <1>4, <1>5, <1>7, <3>1 DEF MappedFacts
  <2>5. ASSUME NEW j \in Blocks, j # k
        PROVE  content'[j] = content[j] /\ owner'[j] = owner[j]
    <3>1. CASE \E c \in Bufs : valid[c] /\ block[c] = j
      <4>1. PICK c \in Bufs : valid[c] /\ block[c] = j
        BY <3>1
      <4>2. valid'[c] /\ data'[c] = data[c] /\ block'[c] = j /\ lock'[c] = lock[c]
        BY <1>5, <1>6, <2>1, <2>5, <4>1 DEF IInv, TypeOK
      <4> QED
        BY <1>4, <4>1, <4>2 DEF MappedFacts
    <3>2. CASE \A c \in Bufs : valid[c] => block[c] # j
      <4>1. \A c \in Bufs : valid'[c] => block'[c] # j
        BY <1>5, <1>6, <2>5, <3>2
      <4> QED
        BY <1>4, <2>1, <3>2, <4>1 DEF MappedFacts
    <3> QED
      BY <3>1, <3>2
  <2>6. content' = content /\ owner' = [owner EXCEPT ![k] = p]
    BY <1>3, <2>3, <2>4, <2>5, Extensional
  <2>7. Store!Read(p, k)
    BY <2>1, <2>3, <2>6 DEF Store!Read
  <2> QED
    BY <1>3, <2>7 DEF Store!Next
<1> QED
  BY <1>9, <1>10

\* Recycling a buffer changes no block: it is on the disk already.
LEMMA BgetMissImplements ==
  ASSUME IInv, IInv', NEW p \in Procs, NEW b \in Bufs, NEW k \in Blocks, BgetMiss(p, b, k)
  PROVE  UNCHANGED Store!storeVars
<1>1. Users(b) = {}
  <2>1. Cardinality(Users(b)) = 0
    BY DEF IInv, RefsCounted, BgetMiss, Victim, Unused
  <2> QED
    BY <2>1, UsersFinite, FS_EmptySet
<1>2. lock[b] = NoProc /\ ~dirty[b]
  BY <1>1 DEF Users, Uses, IInv, TypeOK, BgetMiss, Victim, Unused
<1>3. /\ data' = data /\ lock' = lock /\ disk' = disk /\ block' = [block EXCEPT ![b] = k]
      /\ valid' = [valid EXCEPT ![b] = FALSE]
  BY DEF BgetMiss, NowValid, ideVars
<1>4. /\ ~valid'[b] /\ block'[b] = k
      /\ \A c \in Bufs : c # b => valid'[c] = valid[c] /\ block'[c] = block[c]
  BY <1>3 DEF IInv, TypeOK
<1>5. MappedFacts /\ MappedFacts'
  BY Mapped, MappedNext
<1>6. ASSUME NEW j \in Blocks
      PROVE  content'[j] = content[j] /\ owner'[j] = owner[j]
  <2>1. CASE \E c \in Bufs : c # b /\ valid[c] /\ block[c] = j
    BY <1>3, <1>4, <1>5, <2>1 DEF MappedFacts
  <2>2. CASE \A c \in Bufs : c # b => ~(valid[c] /\ block[c] = j)
    <3>1. content'[j] = disk[j] /\ owner'[j] = NoProc
      BY <1>3, <1>4, <1>5, <2>2 DEF MappedFacts
    <3>2. CASE valid[b] /\ block[b] = j
      BY <1>2, <1>5, <3>1, <3>2 DEF MappedFacts, IInv, CleanCoherent
    <3>3. CASE ~(valid[b] /\ block[b] = j)
      BY <1>5, <2>2, <3>1, <3>3 DEF MappedFacts
    <3> QED
      BY <3>2, <3>3
  <2> QED
    BY <2>1, <2>2
<1> QED
  BY <1>3, <1>6, Extensional DEF Store!storeVars

\* acquiresleep() or releasesleep() of a buffer that has its block.
LEMMA LockImplements ==
  ASSUME IInv, IInv', NEW b \in Bufs, valid[b], NEW p \in Procs, NEW q,
         lock' = [lock EXCEPT ![b] = q],
         disk' = disk, data' = data, valid' = valid, block' = block
  PROVE  /\ block[b] \in Blocks /\ owner[block[b]] = lock[b]
         /\ content' = content /\ owner' = [owner EXCEPT ![block[b]] = q]
<1>1. MappedFacts /\ MappedFacts'
  BY Mapped, MappedNext
<1>2. block[b] \in Blocks /\ owner[block[b]] = lock[b]
  BY <1>1 DEF MappedFacts
<1>3. lock'[b] = q /\ \A c \in Bufs : c # b => lock'[c] = lock[c]
  BY DEF IInv, TypeOK
<1>4. ASSUME NEW j \in Blocks
      PROVE  content'[j] = content[j] /\ owner'[j] = IF j = block[b] THEN q ELSE owner[j]
  <2>1. CASE j = block[b]
    BY <1>1, <1>3, <2>1 DEF MappedFacts
  <2>2. CASE j # block[b] /\ \E c \in Bufs : valid[c] /\ block[c] = j
    <3>1. PICK c \in Bufs : valid[c] /\ block[c] = j /\ c # b
      BY <2>2
    <3> QED
      BY <1>1, <1>3, <2>2, <3>1 DEF MappedFacts
  <2>3. CASE j # block[b] /\ \A c \in Bufs : valid[c] => block[c] # j
    BY <1>1, <2>3 DEF MappedFacts
  <2> QED
    BY <2>1, <2>2, <2>3
<1> QED
  BY <1>2, <1>4, Extensional

\* A change of the data of a buffer that p holds.
LEMMA ChangeImplements ==
  ASSUME IInv, IInv', NEW p \in Procs, NEW b \in Bufs, NEW v \in Values,
         pc[p] = "call", b \in Held(p), data' = [data EXCEPT ![b] = v],
         disk' = disk, lock' = lock, valid' = valid, block' = block
  PROVE  Store!Next
<1>1. MappedFacts /\ MappedFacts'
  BY Mapped, MappedNext
<1>2. valid[b] /\ lock[b] = p
  BY DEF IInv, PcInv, Waiting, Undone, Held
<1>3. block[b] \in Blocks /\ owner[block[b]] = p
  BY <1>1, <1>2 DEF MappedFacts
<1>4. data'[b] = v /\ \A c \in Bufs : c # b => data'[c] = data[c]
  BY DEF IInv, TypeOK
<1>5. ASSUME NEW j \in Blocks
      PROVE  owner'[j] = owner[j] /\ content'[j] = IF j = block[b] THEN v ELSE content[j]
  <2>1. CASE j = block[b]
    BY <1>1, <1>2, <1>4, <2>1 DEF MappedFacts
  <2>2. CASE j # block[b] /\ \E c \in Bufs : valid[c] /\ block[c] = j
    <3>1. PICK c \in Bufs : valid[c] /\ block[c] = j /\ c # b
      BY <2>2
    <3> QED
      BY <1>1, <1>4, <2>2, <3>1 DEF MappedFacts
  <2>3. CASE j # block[b] /\ \A c \in Bufs : valid[c] => block[c] # j
    BY <1>1, <2>3 DEF MappedFacts
  <2> QED
    BY <2>1, <2>2, <2>3
<1>6. content' = [content EXCEPT ![block[b]] = v] /\ owner' = owner
  BY <1>3, <1>5, Extensional
<1>7. Store!Change(p, block[b], v)
  BY <1>3, <1>6 DEF Store!Change
<1> QED
  BY <1>3, <1>7 DEF Store!Next

\* Each step is a step of the store of blocks, or none.
LEMMA StepImplements ==
  ASSUME Outcomes = {TRUE}, IInv, IInv', [Next]_vars
  PROVE  [Store!Next]_(Store!storeVars)
<1> SUFFICES Store!Next \/ UNCHANGED Store!storeVars
  OBVIOUS
<1> USE DEF bufVars, ideVars
<1>1. ASSUME NEW p \in Procs, Lock(p) PROVE Store!Next \/ UNCHANGED Store!storeVars
  <2>1. cur[p] \in Bufs
    BY <1>1 DEF Lock, IInv, PcInv
  <2>2. CASE valid[cur[p]]
    <3>1. /\ block[cur[p]] \in Blocks /\ owner[block[cur[p]]] = NoProc
          /\ content' = content /\ owner' = [owner EXCEPT ![block[cur[p]]] = p]
      BY <1>1, <2>1, <2>2, LockImplements DEF Lock
    <3>2. Store!Read(p, block[cur[p]])
      BY <1>1, <3>1 DEF Lock, Store!Read
    <3> QED
      BY <3>1, <3>2 DEF Store!Next
  <2>3. CASE ~valid[cur[p]]
    <3>1. \A b \in Bufs : valid[b] => lock'[b] = lock[b]
      BY <1>1, <2>3 DEF Lock, IInv, TypeOK
    <3> QED
      BY <1>1, <3>1, Stutter DEF Lock
  <2> QED
    BY <2>2, <2>3
<1>2. ASSUME NEW p \in Procs, NEW b \in Bufs, Unlock(p, b) PROVE Store!Next
  <2>1. valid[b] /\ lock[b] = p
    BY <1>2 DEF Unlock, Held, IInv, PcInv, Waiting, Undone
  <2>2. /\ block[b] \in Blocks /\ owner[block[b]] = p
        /\ content' = content /\ owner' = [owner EXCEPT ![block[b]] = NoProc]
    BY <1>2, <2>1, LockImplements DEF Unlock
  <2>3. Store!Release(p, block[b])
    BY <1>2, <2>2 DEF Unlock, Store!Release
  <2> QED
    BY <2>2, <2>3 DEF Store!Next
<1>3. ASSUME NEW p \in Procs, NEW b \in Bufs, NEW v \in Values, LogWrite(p, b, v)
      PROVE  Store!Next
  BY <1>3, ChangeImplements DEF LogWrite
<1>4. ASSUME NEW p \in Procs, NEW b \in Bufs, NEW v \in Values, Bwrite(p, b, v)
      PROVE  Store!Next
  BY <1>4, ChangeImplements DEF Bwrite
<1>5. ASSUME NEW p \in Procs, Client(p) PROVE Store!Next \/ UNCHANGED Store!storeVars
  <2>1. ASSUME NEW b \in Bufs, BgetHit(p, b) PROVE UNCHANGED Store!storeVars
    BY <2>1, Stutter DEF BgetHit
  <2>2. ASSUME NEW k \in Blocks, BgetPanic(p, k) PROVE UNCHANGED Store!storeVars
    BY <2>2, Stutter DEF BgetPanic
  <2> QED
    BY <1>2, <1>3, <1>4, <1>5, <2>1, <2>2, BgetMissImplements DEF Client
<1>6. ASSUME NEW p \in Procs, IoTest(p) \/ Kill(p) \/ Release(p) PROVE UNCHANGED Store!storeVars
  BY <1>6, Stutter DEF IoTest, Kill, Release
<1>7. CASE UNCHANGED vars
  BY <1>7, Stutter DEF vars
<1> QED
  BY <1>1, <1>5, <1>6, <1>7, IdeIntrImplements DEF Next

\* The buffer cache implements a store in which a process that has read a block
\* has it to itself until brelse(), and reads what was last written.
THEOREM ImplementsStore ==
  ASSUME Outcomes = {TRUE}
  PROVE  Spec => IsStore
<1>1. Init => Store!Init
  <2> SUFFICES ASSUME Init PROVE Store!Init
    OBVIOUS
  <2>1. \A k : ~InCache(k)
    BY DEF Init, InCache
  <2>2. content = [k \in Blocks |-> disk[k]] /\ owner = [k \in Blocks |-> NoProc]
    BY <2>1 DEF content, owner
  <2>3. content = disk /\ disk \in [Blocks -> Values]
    BY <2>2 DEF Init
  <2> QED
    BY <2>2, <2>3 DEF Store!Init
<1>2. IInv /\ IInv' /\ [Next]_vars => [Store!Next]_(Store!storeVars)
  BY StepImplements
<1> QED
  BY <1>1, <1>2, Invariant, PTL DEF Spec, IsStore, Store!Spec

-----------------------------------------------------------------------------
(* Offsets and blocks                                                      *)

\* A product is strictly monotonic.
LEMMA ProductLess ==
  ASSUME NEW B \in Nat \ {0}, NEW q \in Int, NEW k \in Int, q < k
  PROVE  B * q + B <= B * k
<1> DEFINE d == k - (q + 1)
<1>1. d \in Nat
  OBVIOUS
<1>2. k = (q + 1) + d
  OBVIOUS
<1> HIDE DEF d
<1>3. B * d >= 0
  BY <1>1, SMT
<1>4. B * k = B * q + B + B * d
  BY <1>1, <1>2, SMT
<1> QED
  BY <1>1, <1>3, <1>4

\* Quotient and remainder.
LEMMA Quotient ==
  ASSUME NEW B \in Nat \ {0}, NEW n \in Nat
  PROVE  /\ (n % B) \in 0 .. B - 1
         /\ (n \div B) \in Int
         /\ n = B * (n \div B) + (n % B)
<1>1. (n % B) \in 0 .. B - 1  BY SMT
<1>2. (n \div B) \in Int  BY SMT
<1>3. n = B * (n \div B) + (n % B)  BY SMT
<1> QED  BY <1>1, <1>2, <1>3

\* A quotient and a remainder that fit are those of the division.
LEMMA QuotientUnique ==
  ASSUME NEW B \in Nat \ {0}, NEW q \in Int, NEW r \in 0 .. B - 1, NEW n \in Nat, n = B * q + r
  PROVE  (n \div B) = q /\ (n % B) = r
<1> DEFINE k == n \div B
           s == n % B
<1>1. s \in 0 .. B - 1 /\ k \in Int /\ n = B * k + s
  BY Quotient
<1> HIDE DEF k, s
<1>2. k = q
  <2>1. ASSUME k < q PROVE FALSE
    <3>1. B * k + B <= B * q  BY <1>1, <2>1, ProductLess
    <3>2. B * k \in Int /\ B * q \in Int  BY <1>1
    <3> QED  BY <1>1, <3>1, <3>2
  <2>2. ASSUME q < k PROVE FALSE
    <3>1. B * q + B <= B * k  BY <1>1, <2>2, ProductLess
    <3>2. B * k \in Int /\ B * q \in Int  BY <1>1
    <3> QED  BY <1>1, <3>1, <3>2
  <2> QED  BY <1>1, <2>1, <2>2
<1>3. B * q \in Int  OBVIOUS
<1>4. s = r  BY <1>1, <1>2, <1>3
<1> QED  BY <1>2, <1>4 DEF k, s

-----------------------------------------------------------------------------
(* Blocks and what they hold                                               *)

\* The constants are numbers, and a file has a block at least.
LEMMA Sizes ==
  /\ NDIRECT \in Nat /\ BSIZE \in Nat \ {0} /\ NBlocks \in Nat
  /\ MAXFILE \in Nat \ {0} /\ MAXFILE = NDIRECT + BSIZE /\ MAXFILE * BSIZE \in Nat
BY FileDataAssumption DEF MAXFILE, NINDIRECT

\* Blocks are numbered.
LEMMA QuotientType ==
  ASSUME NEW o \in Nat
  PROVE  (o \div BSIZE) \in Int
BY Sizes, Quotient

\* And so are the words in each.
LEMMA RemainderType ==
  ASSUME NEW o \in Nat
  PROVE  (o % BSIZE) \in Words
BY Sizes, Quotient DEF Words

\* The number of blocks that begin before an offset.
LEMMA StartedType ==
  ASSUME NEW o \in Nat
  PROVE  Started(o) \in Int
BY QuotientType DEF Started

\* The block of an offset within the largest file is one of a file.
LEMMA OffsetBlock ==
  ASSUME NEW o \in 0 .. MAXFILE * BSIZE - 1
  PROVE  (o \div BSIZE) \in 0 .. MAXFILE - 1 /\ (o % BSIZE) \in Words
<1> DEFINE q == o \div BSIZE
<1>1. o \in Nat  BY Sizes
<1>2. q \in Int /\ (o % BSIZE) \in 0 .. BSIZE - 1 /\ o = BSIZE * q + (o % BSIZE)
  BY <1>1, Sizes, Quotient
<1> HIDE DEF q
<1>3. q >= 0
  <2> SUFFICES ASSUME q < 0 PROVE FALSE  BY <1>2
  <2>1. BSIZE * q + BSIZE <= BSIZE * 0  BY <1>2, Sizes, ProductLess
  <2>2. BSIZE * q \in Int  BY <1>2, Sizes
  <2> QED  BY <1>1, <1>2, <2>1, <2>2, Sizes
<1>4. q < MAXFILE
  <2> SUFFICES ASSUME ~(q < MAXFILE) PROVE FALSE  OBVIOUS
  <2>1. q - MAXFILE \in Nat  BY <1>2, Sizes
  <2>2. BSIZE * (q - MAXFILE) \in Nat  BY <2>1, Sizes
  <2>3. BSIZE * q = BSIZE * (q - MAXFILE) + BSIZE * MAXFILE  BY <1>2, Sizes
  <2>4. BSIZE * MAXFILE = MAXFILE * BSIZE /\ BSIZE * MAXFILE \in Nat  BY Sizes
  <2>5. BSIZE * q \in Int  BY <1>2, Sizes
  <2> QED  BY <1>1, <1>2, <2>2, <2>3, <2>4, <2>5
<1> QED  BY <1>2, <1>3, <1>4, Sizes DEF q, Words

\* A block of a file is a place of its inode.
LEMMA BlockRef ==
  ASSUME NEW i \in Inums, NEW k \in 0 .. MAXFILE - 1
  PROVE  k \in Places /\ Block(i, k) = Ref(i, k)
BY Sizes DEF Places, Ref

\* The indirect block is one too.
LEMMA IndirectRef ==
  ASSUME NEW i \in Inums
  PROVE  MAXFILE \in Places /\ addrs[i][NDIRECT] = Ref(i, MAXFILE)
BY Sizes DEF Places, Ref

\* What an inode refers to is a block for data, and in use.
LEMMA RefType ==
  ASSUME FileTypeOK, BlocksOwned, NEW i \in Inums, NEW k \in Places, Ref(i, k) # 0
  PROVE  Ref(i, k) \in bitmap /\ Ref(i, k) \in DataBlocks
BY DEF FileTypeOK, BlocksOwned

\* A step that changes neither addrs nor an indirect block leaves each reference alone.
LEMMA SameRefs ==
  ASSUME NEW i \in Inums, addrs'[i] = addrs[i],
         addrs[i][NDIRECT] # 0 => words'[addrs[i][NDIRECT]] = words[addrs[i][NDIRECT]],
         NEW k \in Int
  PROVE  Block(i, k)' = Block(i, k) /\ Ref(i, k)' = Ref(i, k)
BY DEF Block, Ref

\* The same, for all of them.
LEMMA SameOwners ==
  ASSUME BlocksOwned, bitmap' = bitmap,
         \A i \in Inums : \A k \in Places : Ref(i, k)' = Ref(i, k)
  PROVE  BlocksOwned'
BY DEF BlocksOwned, Places

\* Nobody owns any block of an empty disk.
LEMMA FileInitSafe == FileInit => FileInv
<1> SUFFICES ASSUME FileInit PROVE FileInv
  OBVIOUS
<1> USE Sizes, FileDataAssumption DEF FileInit
<1>1. FileTypeOK
  BY DEF FileTypeOK, DataBlocks, Junk, NoAddrs, AddrsType, SizeType, OpType, Idle, LogBlocks
<1>2. \A i \in Inums, k \in Places : Ref(i, k) = 0
  BY DEF Ref, Block, NoAddrs, Places
<1>3. BlocksOwned
  BY <1>2 DEF BlocksOwned
<1> QED
  BY <1>1, <1>3 DEF FileInv, OpInv, OffInv, DataInv, LogInv, At, Idle

-----------------------------------------------------------------------------
(* Steps that change no block                                              *)

\* A step changes the account of no write whose inode, offset and next block it leaves alone.
LEMMA SameAccount ==
  ASSUME NEW p \in Callers, Accounted(p), op'[p] = op[p],
         off'[op[p].ip] = off[op[p].ip], addrs'[op[p].ip] = addrs[op[p].ip],
         NextBlock(p)' = NextBlock(p)
  PROVE  Accounted(p)'
BY DEF Accounted, Logged, Begun, Indirect, Offset

\* What such a write has copied is still there if the file is.
LEMMA SameCopied ==
  ASSUME NEW p \in Callers, op'[p] = op[p], off'[op[p].ip] = off[op[p].ip],
         addrs'[op[p].ip] = addrs[op[p].ip], size'[op[p].ip] = size[op[p].ip],
         dinode'[op[p].ip] = dinode[op[p].ip],
         \A o \in Int : Has(op[p].ip, o)' = Has(op[p].ip, o)
  PROVE  Copied(p)' = Copied(p) /\ InodeKept(p)' = InodeKept(p)
BY DEF Copied, InodeKept, Offset

\* References and contents depend on blocks and inodes only.
LEMMA SameData ==
  ASSUME UNCHANGED <<bitmap, words, addrs>>
  PROVE  /\ BlocksOwned => BlocksOwned'
         /\ \A i \in Inums : \A o \in Int : Has(i, o)' = Has(i, o)
         /\ \A i \in Inums : \A k \in Int : Block(i, k)' = Block(i, k)
BY DEF BlocksOwned, Has, Block, Ref

\* A write begins.
LEMMA WriteSafe ==
  ASSUME FileInv, NEW p \in Callers, NEW i \in Inums, NEW n \in Lengths, Write(p, i, n)
  PROVE  FileInv'
<1> USE DEF FileInv, Write, onDisk, inMemory
<1>n. n \in Nat /\ n > 0
  BY FileDataAssumption
<1>1. op'[p].at = "chunk" /\ \A q \in Callers : q # p => op'[q] = op[q]
  BY DEF FileTypeOK, Idle
<1>2. FileTypeOK'
  BY <1>n DEF FileTypeOK, OpType, Idle
<1>3. BlocksOwned'
  BY SameData
<1>4. OpInv'
  BY <1>n, <1>1 DEF OpInv, At, FileTypeOK, Idle
<1>5. OffInv'
  BY DEF OffInv
<1>6. DataInv'
  BY <1>1, SameData, SameCopied DEF DataInv, OpInv, At, FileTypeOK
<1>7. LogInv'
  BY <1>1, SameAccount DEF LogInv, At, NextBlock, Offset, Block
<1> QED
  BY <1>2, <1>3, <1>4, <1>5, <1>6, <1>7

\* The words of a transaction are those of some blocks, at least one, and the log has room for
\* two blocks for each and four more.
LEMMA MaxBlocks ==
  \E k \in Nat \ {0} : Max = k * BSIZE /\ 2 * k + 4 <= MAXOPBLOCKS /\ Max \in Nat \ {0}
<1> DEFINE k == (MAXOPBLOCKS - 4) \div 2
<1>1. k \in Nat \ {0} /\ 2 * k + 4 <= MAXOPBLOCKS
  BY FileDataAssumption
<1>2. Max = k * BSIZE
  BY DEF Max
<1> HIDE DEF k
<1>3. k * BSIZE \in Nat \ {0}
  BY <1>1, Sizes
<1> QED
  BY <1>1, <1>2, <1>3

\* A transaction begins, with the account at zero.
LEMMA ChunkSafe ==
  ASSUME FileInv, NEW p \in Callers, Chunk(p)
  PROVE  FileInv'
<1> USE DEF FileInv, onDisk, inMemory
<1> DEFINE i == op[p].ip
           n1 == IF op[p].n > Max THEN Max ELSE op[p].n
<1>1. i \in Inums /\ op[p] \in OpType /\ op[p].n > 0 /\ At(p, "chunk") /\ ilk[i] = NoCaller
  BY DEF Chunk, OpInv, At, FileTypeOK
<1>2. UNCHANGED <<bitmap, words, addrs, size, dinode, off>>
  BY DEF Chunk
<1>3. BlocksOwned'
  BY <1>2, SameData
<1>4. OffInv'
  BY <1>2 DEF OffInv
<1>5. \A q \in Callers : At(q, "write") => op[q].ip # i /\ q # p /\ op[q].ip \in Inums
  BY <1>1, FileDataAssumption DEF OpInv, At
<1>6. CASE off[i] > size[i] \/ off[i] + n1 > MAXFILE * BSIZE
  <2>1. op' = [op EXCEPT ![p] = Idle] /\ UNCHANGED ilk
    BY <1>6 DEF Chunk
  <2>2. FileTypeOK'
    BY <1>2, <2>1 DEF FileTypeOK, OpType, Idle
  <2>3. op'[p].at = "out" /\ \A q \in Callers : q # p => op'[q] = op[q]
    BY <2>1 DEF FileTypeOK, Idle
  <2>4. OpInv'
    BY <1>1, <1>2, <2>1, <2>3 DEF OpInv, At, FileTypeOK
  <2>5. DataInv'
    BY <1>2, <1>5, <2>1, <2>3, SameData, SameCopied DEF DataInv, At, FileTypeOK
  <2>6. LogInv'
    BY <1>2, <2>3, SameAccount DEF LogInv, At, NextBlock, Offset, Block
  <2> QED
    BY <1>3, <1>4, <2>2, <2>4, <2>5, <2>6
<1>7. CASE ~(off[i] > size[i] \/ off[i] + n1 > MAXFILE * BSIZE)
  <2>1. /\ op' = [op EXCEPT ![p].at = "write", ![p].n1 = n1, ![p].tot = 0, ![p].log = {}]
        /\ ilk' = [ilk EXCEPT ![i] = p]
    BY <1>7 DEF Chunk
  <2>2. n1 \in 1 .. Max /\ n1 <= op[p].n
    BY <1>1, MaxBlocks DEF OpType
  <2>3. /\ op'[p].at = "write" /\ op'[p].ip = i /\ op'[p].n = op[p].n /\ op'[p].n1 = n1
        /\ op'[p].tot = 0 /\ op'[p].log = {}
        /\ \A q \in Callers : q # p => op'[q] = op[q]
    BY <1>1, <2>1 DEF FileTypeOK, OpType
  <2>4. FileTypeOK'
    <3> HIDE DEF n1
    <3>1. n1 \in Nat
      BY <2>2, MaxBlocks
    <3>2. op' \in [Callers -> OpType]
      <4> DEFINE r == [op[p] EXCEPT !.at = "write", !.n1 = n1, !.tot = 0, !.log = {}]
      <4>1. r \in OpType
        BY <1>1, <3>1 DEF OpType
      <4>2. op' = [op EXCEPT ![p] = r]
        BY <2>1
      <4> HIDE DEF r
      <4> QED  BY <4>1, <4>2 DEF FileTypeOK
    <3>3. ilk' \in [Inums -> Callers \cup {NoCaller}]
      BY <2>1 DEF FileTypeOK
    <3> QED  BY <1>2, <3>2, <3>3 DEF FileTypeOK
  <2>5. OpInv'
    <3> HIDE DEF n1
    <3>1. off[i] + n1 <= MAXFILE * BSIZE
      <4>1. off[i] \in Nat /\ n1 \in Nat /\ MAXFILE * BSIZE \in Nat
        BY <1>1, <2>2, MaxBlocks, Sizes DEF FileTypeOK, SizeType
      <4> QED  BY <1>7, <4>1
    <3>2. \A j \in Inums : ilk'[j] = IF j = i THEN p ELSE ilk[j]
      BY <2>1 DEF FileTypeOK
    <3>3. \A j \in Inums : ilk'[j] # NoCaller => op'[ilk'[j]].at = "write" /\ op'[ilk'[j]].ip = j
      BY <1>1, <2>3, <3>2 DEF OpInv, At, FileTypeOK
    <3> QED
      BY <1>1, <1>2, <1>5, <2>2, <2>3, <3>1, <3>2, <3>3 DEF OpInv, At
  <2>6. DataInv'
    <3>1. \A q \in Callers : q # p /\ op'[q].at = "write" => Copied(q)' /\ InodeKept(q)'
      BY <1>2, <1>5, <2>3, SameData, SameCopied DEF DataInv, At
    <3>2. Copied(p)'
      <4>1. off[i] \in Int  BY <1>1 DEF FileTypeOK, SizeType
      <4> QED  BY <1>2, <2>3, <4>1 DEF Copied, Offset
    <3>3. InodeKept(p)'
      BY <1>1, <1>2, <2>3 DEF DataInv, InodeKept
    <3>4. \A j \in Inums : ilk'[j] = NoCaller => ilk[j] = NoCaller
      BY <1>1, <2>1 DEF FileTypeOK
    <3>5. \A j \in Inums : size'[j] = size[j] /\ size[j] \in Int
      BY <1>2 DEF FileTypeOK, SizeType
    <3>6. \A j \in Inums : \A o \in 0 .. size'[j] - 1 : Has(j, o)'
      BY <1>2, <3>5, SameData DEF DataInv
    <3> QED
      BY <1>2, <3>1, <3>2, <3>3, <3>4, <3>6 DEF DataInv, At
  <2>7. LogInv'
    <3>1. \A q \in Callers : q # p /\ op'[q].at = "write" => Accounted(q)'
      BY <1>2, <2>3, SameAccount DEF LogInv, At, NextBlock, Offset, Block
    <3>2. Accounted(p)'
      <4>1. off[i] \in Nat  BY <1>1 DEF FileTypeOK, SizeType
      <4>2. Offset(p)' = off'[i] /\ off'[i] = off[i]
        BY <1>2, <2>3, <4>1 DEF Offset
      <4>3. Started(off[i]) \in Int
        BY <4>1, StartedType
      <4>4. Begun(p)' = IF off[i] % BSIZE = 0 THEN 0 ELSE 1
        <5>1. Started(Offset(p))' = Started(off[i]) /\ Started(off[op[p].ip])' = Started(off[i])
          BY <1>2, <2>3, <4>2 DEF Started
        <5>2. op'[p].ip = i  BY <2>3
        <5> QED  BY <1>2, <4>2, <4>3, <5>1, <5>2 DEF Begun, Started
      <4>6. \A b : Cardinality({b} \ {Disk(addrs'[i][NDIRECT])}) \in {0, 1}
        <5> TAKE b
        <5>1. {b} \ {Disk(addrs'[i][NDIRECT])} = {} \/ {b} \ {Disk(addrs'[i][NDIRECT])} = {b}
          OBVIOUS
        <5> QED  BY <5>1, FS_EmptySet, FS_Singleton
      <4>7. Indirect(i)' \in {0, 1}
        BY DEF Indirect
      <4>8. Logged(op[p].ip, op[p].log \cup {Disk(NextBlock(p))})' \in {0, 1}
        <5> DEFINE nb == <<"block", NextBlock(p)'>>
                   dk == <<"block", addrs'[i][NDIRECT]>>
        <5>1. op'[p].log \cup {nb} = {nb}
          BY <2>3
        <5>2. Cardinality({nb} \ {dk}) \in {0, 1}
          <6> HIDE DEF nb
          <6> QED  BY <4>6 DEF Disk
        <5>3. op'[p].ip = i  BY <2>3
        <5> HIDE DEF i
        <5> QED  BY <5>1, <5>2, <5>3 DEF Logged, Disk
      <4>9. Logged(op[p].ip, op[p].log)' = 0
        <5> DEFINE dk == <<"block", addrs'[i][NDIRECT]>>
        <5>1. op'[p].log \ {dk} = {}  BY <2>3
        <5>2. op'[p].ip = i  BY <2>3
        <5> HIDE DEF i
        <5> QED  BY <5>1, <5>2, FS_EmptySet DEF Logged, Disk
      <4>10. op'[p].ip = i /\ op'[p].log = {} /\ op'[p].tot = 0
        BY <2>3
      <4>11. /\ 0 <= Begun(p)' + Indirect(i)'
             /\ 1 <= Begun(p)' + Indirect(i)' + IF off[i] % BSIZE = 0 THEN 2 ELSE 0
        BY <4>4, <4>7
      <4>12. Begun(p)' + Indirect(op[p].ip)' = Begun(p)' + Indirect(i)'
        BY <1>2, <2>3 DEF Indirect
      <4>13. IsFiniteSet(op[p].log)'
        BY <4>10, FS_EmptySet
      <4>14. (Offset(p) % BSIZE)' = off[i] % BSIZE
        BY <4>2
      <4>15. Begun(p)' \in Int /\ Indirect(i)' \in Int
        BY <4>4, <4>7
      <4>16. (op[p].tot \in {0, op[p].n1})'
        BY <4>10
      <4> HIDE DEF i
      <4> QED
        BY <4>8, <4>9, <4>11, <4>12, <4>13, <4>14, <4>15, <4>16 DEF Accounted
    <3> QED
      BY <3>1, <3>2 DEF LogInv, At
  <2> QED
    BY <1>3, <1>4, <2>4, <2>5, <2>6, <2>7
<1> QED
  BY <1>6, <1>7

\* A read moves the offset of a file that nobody writes to, and opening a file again does.
LEMMA OffsetSafe ==
  ASSUME FileInv, NEW i \in Inums, ilk[i] = NoCaller,
         NEW o \in 0 .. size[i], off' = [off EXCEPT ![i] = o],
         UNCHANGED <<onDisk, inMemory, ilk, op>>
  PROVE  FileInv'
<1> USE DEF FileInv, onDisk, inMemory
<1>1. \A p \in Callers : At(p, "write") => op[p].ip \in Inums /\ op[p].ip # i
  BY FileDataAssumption DEF OpInv, At
<1>2. \A j \in Inums : j # i => off'[j] = off[j]
  BY DEF FileTypeOK
<1>3. off'[i] = o
  BY DEF FileTypeOK
<1>4. o \in SizeType
  BY Sizes DEF FileTypeOK, SizeType
<1>5. FileTypeOK'
  BY <1>4 DEF FileTypeOK
<1>6. BlocksOwned'
  BY SameData
<1>7. OpInv'
  BY <1>1, <1>2 DEF OpInv, At
<1>8. OffInv'
  BY <1>2, <1>3 DEF OffInv, FileTypeOK, SizeType
<1>9. DataInv'
  BY <1>1, <1>2, SameData, SameCopied DEF DataInv, At, FileTypeOK
<1>10. LogInv'
  BY <1>1, <1>2, SameAccount DEF LogInv, At, NextBlock, Offset, Block
<1> QED
  BY <1>5, <1>6, <1>7, <1>8, <1>9, <1>10

\* fileread().
LEMMA ReadSafe ==
  ASSUME FileInv, NEW i \in Inums, NEW n \in Lengths, Read(i, n)
  PROVE  FileInv'
<1> DEFINE o == IF off[i] + n > size[i] THEN size[i] ELSE off[i] + n
<1>1. o \in 0 .. size[i]
  BY FileDataAssumption, Sizes DEF FileInv, FileTypeOK, SizeType
<1>2. off' = [off EXCEPT ![i] = o]
  BY DEF Read
<1> HIDE DEF o
<1>3. ilk[i] = NoCaller /\ UNCHANGED <<onDisk, inMemory, ilk, op>>
  BY DEF Read
<1> QED
  BY <1>1, <1>2, <1>3, OffsetSafe

\* A file that no operation is under way for is not locked.
LEMMA Unlocked ==
  ASSUME FileInv, NEW i \in Inums, NotInUse(i)
  PROVE  ilk[i] = NoCaller
BY DEF FileInv, FileTypeOK, OpInv, NotInUse

\* The file is closed and opened.
LEMMA ReopenSafe ==
  ASSUME FileInv, NEW i \in Inums, Reopen(i)
  PROVE  FileInv'
<1>1. ilk[i] = NoCaller
  BY Unlocked DEF Reopen
<1>2. 0 \in 0 .. size[i]
  BY Sizes DEF FileInv, FileTypeOK, SizeType
<1>3. off' = [off EXCEPT ![i] = 0] /\ UNCHANGED <<onDisk, inMemory, ilk, op>>
  BY DEF Reopen
<1> QED
  BY <1>1, <1>2, <1>3, OffsetSafe

\* A transaction ends. If the write goes beyond the size, the inode is written.
LEMMA EndChunkSafe ==
  ASSUME FileInv, NEW p \in Callers, EndChunk(p)
  PROVE  FileInv'
<1> USE DEF FileInv
<1> DEFINE i == op[p].ip
           end == Offset(p)
           rest == [Idle EXCEPT !.at = "chunk", !.ip = i, !.n = op[p].n - op[p].n1]
           r == IF op[p].n = op[p].n1 THEN Idle ELSE rest
<1>1. /\ i \in Inums /\ op[p] \in OpType /\ At(p, "write") /\ ilk[i] = p /\ p # NoCaller
      /\ op[p].tot = op[p].n1 /\ op[p].n1 <= op[p].n
      /\ off[i] \in Nat /\ size[i] \in Nat /\ off[i] <= size[i]
  BY FileDataAssumption, Sizes DEF EndChunk, OpInv, At, FileTypeOK, SizeType, OffInv
<1>2. end = off[i] + op[p].n1 /\ end \in SizeType /\ off[i] <= end
  BY <1>1, Sizes DEF OpInv, Offset, OpType, SizeType
<1>3. /\ off' = [off EXCEPT ![i] = end] /\ ilk' = [ilk EXCEPT ![i] = NoCaller]
      /\ op' = [op EXCEPT ![p] = r] /\ UNCHANGED <<bitmap, words, addrs>>
  BY DEF EndChunk
<1>4. /\ size' = [size EXCEPT ![i] = IF end > size[i] THEN end ELSE size[i]]
      /\ dinode' = [dinode EXCEPT ![i] = <<addrs[i], size'[i]>>]
  <2>1. CASE Grows(p)
    <3>1. end > size[i]  BY <2>1 DEF Grows
    <3>2. size' = [size EXCEPT ![i] = end] /\ dinode' = [dinode EXCEPT ![i] = <<addrs[i], end>>]
      BY <2>1 DEF EndChunk
    <3>3. size'[i] = end  BY <1>1, <3>2 DEF FileTypeOK
    <3> QED  BY <3>1, <3>2, <3>3
  <2>2. CASE ~Grows(p)
    <3>1. ~(end > size[i])  BY <2>2 DEF Grows
    <3>2. size' = size /\ dinode' = dinode  BY <2>2 DEF EndChunk
    <3>3. InodeKept(p)  BY <1>1 DEF DataInv
    <3>4. dinode[i] = <<addrs[i], size[i]>>  BY <1>2, <3>1, <3>3 DEF InodeKept
    <3> HIDE DEF end
    <3> QED  BY <1>1, <3>1, <3>2, <3>4 DEF FileTypeOK
  <2> QED  BY <2>1, <2>2
<1>5. /\ \A q \in Callers : q # p => op'[q] = op[q]
      /\ \A j \in Inums : j # i => /\ off'[j] = off[j] /\ size'[j] = size[j]
                                   /\ dinode'[j] = dinode[j] /\ ilk'[j] = ilk[j]
      /\ off'[i] = end /\ ilk'[i] = NoCaller /\ op'[p] = r
      /\ size'[i] = IF end > size[i] THEN end ELSE size[i]
      /\ dinode'[i] = <<addrs[i], size'[i]>>
  <2> HIDE DEF end, r
  <2> QED  BY <1>1, <1>3, <1>4 DEF FileTypeOK
<1>6. \A q \in Callers : At(q, "write") /\ q # p => op[q].ip # i /\ op[q].ip \in Inums
  BY <1>1 DEF OpInv, At
<1>7. r \in OpType /\ (r.at = "out" \/ (r.at = "chunk" /\ r.ip = i /\ r.n > 0))
  <2>1. op[p].n \in Nat /\ op[p].n1 \in Nat
    BY <1>1 DEF OpType
  <2>2. Idle \in OpType /\ Idle.at = "out"
    BY DEF Idle, OpType
  <2>3. op[p].n # op[p].n1 => op[p].n - op[p].n1 \in Nat /\ op[p].n - op[p].n1 > 0
    BY <1>1, <2>1
  <2>4. op[p].n # op[p].n1 => rest \in OpType /\ rest.at = "chunk" /\ rest.ip = i /\ rest.n > 0
    BY <1>1, <2>3 DEF Idle, OpType
  <2> HIDE DEF rest
  <2>5. (op[p].n = op[p].n1 => r = Idle) /\ (op[p].n # op[p].n1 => r = rest)
    OBVIOUS
  <2> HIDE DEF r
  <2>6. CASE op[p].n = op[p].n1
    BY <2>2, <2>5, <2>6
  <2>7. CASE op[p].n # op[p].n1
    BY <2>4, <2>5, <2>7
  <2> QED  BY <2>6, <2>7
<1> HIDE DEF r, end
<1>8. FileTypeOK'
  <2>1. size'[i] \in SizeType
    BY <1>1, <1>2, <1>5 DEF FileTypeOK
  <2>2. addrs[i] \in AddrsType
    BY <1>1 DEF FileTypeOK
  <2>3. op' \in [Callers -> OpType]
    BY <1>3, <1>7 DEF FileTypeOK
  <2>4. dinode' \in [Inums -> AddrsType \X SizeType]
    BY <1>4, <2>1, <2>2 DEF FileTypeOK
  <2>5. size' \in [Inums -> SizeType]
    BY <1>1, <1>2, <1>4 DEF FileTypeOK
  <2>6. ilk' \in [Inums -> Callers \cup {NoCaller}] /\ off' \in [Inums -> SizeType]
    BY <1>2, <1>3 DEF FileTypeOK
  <2> QED  BY <1>3, <2>3, <2>4, <2>5, <2>6 DEF FileTypeOK
<1>9. BlocksOwned'
  BY <1>3, SameData
<1>10. OpInv'
  <2>1. \A j \in Inums : ilk'[j] # NoCaller =>
          j # i /\ ilk[j] = ilk'[j] /\ ilk[j] # p /\ ilk[j] \in Callers
    BY <1>1, <1>5 DEF OpInv, FileTypeOK
  <2> QED  BY <1>1, <1>5, <1>6, <1>7, <2>1 DEF OpInv, At
<1>11. OffInv'
  BY <1>1, <1>2, <1>5 DEF OffInv, FileTypeOK, SizeType
<1>12. DataInv'
  <2>1. \A o \in 0 .. size'[i] - 1 : Has(i, o)
    <3> SUFFICES ASSUME NEW o \in 0 .. size'[i] - 1 PROVE Has(i, o)
      OBVIOUS
    <3>1. CASE o < size[i]
      BY <1>1, <3>1 DEF DataInv
    <3>2. CASE ~(o < size[i])
      <4>1. size'[i] = end /\ end \in Int
        BY <1>1, <1>2, <1>5, <3>2, Sizes DEF SizeType
      <4>2. o \in off[i] .. end - 1
        BY <1>1, <3>2, <4>1
      <4>3. Copied(p)
        BY <1>1 DEF DataInv
      <4> QED  BY <4>2, <4>3 DEF Copied, end
    <3> QED  BY <3>1, <3>2
  <2>2. \A j \in Inums : \A o \in 0 .. size'[j] - 1 : Has(j, o)
    BY <1>5, <2>1 DEF DataInv
  <2>3. \A j \in Inums : \A o \in 0 .. size'[j] - 1 : Has(j, o)'
    <3>1. \A j \in Inums : size'[j] \in Int  BY <1>8 DEF FileTypeOK, SizeType
    <3> QED  BY <1>3, <2>2, <3>1, SameData
  <2>4. \A j \in Inums : ilk'[j] = NoCaller => dinode'[j] = <<addrs'[j], size'[j]>>
    BY <1>3, <1>5 DEF DataInv
  <2>5. \A q \in Callers : op'[q].at = "write" => q # p
    BY <1>5, <1>7
  <2>6. \A q \in Callers : op'[q].at = "write" => Copied(q)' /\ InodeKept(q)'
    BY <1>3, <1>5, <1>6, <2>5, SameData, SameCopied DEF DataInv, At
  <2> QED  BY <2>3, <2>4, <2>6 DEF DataInv, At
<1>13. LogInv'
  <2>1. \A q \in Callers : op'[q].at = "write" => q # p
    BY <1>5, <1>7
  <2>2. \A q \in Callers : op'[q].at = "write" => op'[q] = op[q] /\ At(q, "write")
    BY <1>5, <2>1 DEF At
  <2>3. \A q \in Callers : op'[q].at = "write" =>
          off'[op[q].ip] = off[op[q].ip] /\ addrs'[op[q].ip] = addrs[op[q].ip]
    BY <1>3, <1>5, <1>6, <2>1, <2>2
  <2>4. \A q \in Callers : op'[q].at = "write" => NextBlock(q)' = NextBlock(q)
    BY <1>3, <2>2, <2>3 DEF NextBlock, Offset, Block
  <2> QED  BY <2>2, <2>3, <2>4, SameAccount DEF LogInv, At
<1> QED
  BY <1>8, <1>9, <1>10, <1>11, <1>12, <1>13

-----------------------------------------------------------------------------
(* Steps that change blocks                                                *)

\* What a write has copied, and what it has logged, survives a step that leaves its inode
\* alone, with the indirect block, and each word of the file that is there.
LEMMA OtherWrite ==
  ASSUME FileInv, NEW p \in Callers, At(p, "write"), NEW i \in Inums, op[p].ip = i,
         op'[p] = op[p], off'[i] = off[i], addrs'[i] = addrs[i], size'[i] = size[i],
         dinode'[i] = dinode[i],
         addrs[i][NDIRECT] # 0 => words'[addrs[i][NDIRECT]] = words[addrs[i][NDIRECT]],
         \A o \in 0 .. MAXFILE * BSIZE - 1 : Has(i, o) => Has(i, o)'
  PROVE  Copied(p)' /\ InodeKept(p)' /\ Accounted(p)'
<1> USE DEF FileInv
<1>1. Offset(p) \in 0 .. MAXFILE * BSIZE /\ off[i] \in 0 .. MAXFILE * BSIZE
  BY Sizes DEF Offset, OpInv, FileTypeOK, OpType, SizeType
<1>2. Offset(p)' = Offset(p)
  BY DEF Offset
<1>3. Copied(p)'
  <2>1. \A o \in off[i] .. Offset(p) - 1 : Has(i, o)
    BY DEF DataInv, Copied
  <2>2. \A o \in off[i] .. Offset(p) - 1 : o \in 0 .. MAXFILE * BSIZE - 1
    BY <1>1, Sizes
  <2>3. \A o \in off[i] .. Offset(p) - 1 : Has(i, o)'
    BY <2>1, <2>2
  <2>4. off'[op'[p].ip] = off[i] /\ op'[p].ip = i
    OBVIOUS
  <2> QED  BY <1>2, <2>3, <2>4 DEF Copied
<1>4. InodeKept(p)'
  BY DEF DataInv, InodeKept
<1>5. Accounted(p)'
  <2>1. Offset(p) \div BSIZE \in Int
    BY <1>1, QuotientType
  <2>2. NextBlock(p)' = NextBlock(p)
    <3>1. Block(i, Offset(p) \div BSIZE)' = Block(i, Offset(p) \div BSIZE)
      BY <1>2, <2>1 DEF Block
    <3>2. op'[p].ip = i
      OBVIOUS
    <3> QED  BY <1>2, <3>1, <3>2 DEF NextBlock, Block
  <2> QED  BY <2>2, SameAccount DEF LogInv
<1> QED
  BY <1>3, <1>4, <1>5

\* Another element makes a finite set larger by one at most.
LEMMA AddOne ==
  ASSUME NEW S, IsFiniteSet(S), NEW x
  PROVE  /\ IsFiniteSet(S \cup {x})
         /\ Cardinality(S \cup {x}) <= Cardinality(S) + 1
         /\ Cardinality(S) \in Nat /\ Cardinality(S \cup {x}) \in Nat
<1>1. Cardinality(S) \in Nat
  BY FS_CardinalityType
<1>2. CASE x \in S
  <2>1. Cardinality(S \cup {x}) = Cardinality(S) /\ IsFiniteSet(S \cup {x})
    <3>1. S \cup {x} = S  BY <1>2
    <3> QED  BY <3>1, Zenon
  <2> QED  BY <1>1, <2>1
<1>3. CASE x \notin S
  <2>1. IsFiniteSet(S \cup {x}) /\ Cardinality(S \cup {x}) = Cardinality(S) + 1
    BY <1>3, FS_AddElement
  <2> QED  BY <1>1, <2>1
<1> QED
  BY <1>2, <1>3

\* Logging a block takes room for one block at most.
LEMMA LogAdd ==
  ASSUME NEW S, IsFiniteSet(S), NEW x, NEW d
  PROVE  /\ IsFiniteSet(S \cup {x})
         /\ Cardinality((S \cup {x}) \ {d}) <= Cardinality(S \ {d}) + 1
         /\ Cardinality(S \ {d}) \in Nat /\ Cardinality((S \cup {x}) \ {d}) \in Nat
<1> DEFINE T == S \ {d}
           U == (S \cup {x}) \ {d}
<1>1. IsFiniteSet(S \cup {x})
  BY AddOne
<1>2. IsFiniteSet(T) /\ IsFiniteSet(U)
  BY <1>1, FS_Subset
<1>3. U \subseteq T \cup {x}
  OBVIOUS
<1> HIDE DEF T, U
<1>4. /\ IsFiniteSet(T \cup {x}) /\ Cardinality(T \cup {x}) <= Cardinality(T) + 1
      /\ Cardinality(T) \in Nat /\ Cardinality(T \cup {x}) \in Nat
  BY <1>2, AddOne
<1>5. Cardinality(U) <= Cardinality(T \cup {x}) /\ Cardinality(U) \in Nat
  BY <1>2, <1>3, <1>4, FS_Subset, FS_CardinalityType
<1>6. Cardinality(U) <= Cardinality(T) + 1
  BY <1>4, <1>5
<1> QED
  BY <1>1, <1>4, <1>5, <1>6 DEF T, U

\* A writer's offset is in its file, and so is the block it stands in; it holds the lock of
\* the inode.
LEMMA Writing ==
  ASSUME FileInv, NEW p \in Callers, At(p, "write"), op[p].tot < op[p].n1
  PROVE  /\ op[p] \in OpType /\ op[p].ip \in Inums /\ ilk[op[p].ip] = p
         /\ off[op[p].ip] \in Nat
         /\ Offset(p) = off[op[p].ip] + op[p].tot
         /\ Offset(p) \in 0 .. MAXFILE * BSIZE - 1
         /\ (Offset(p) \div BSIZE) \in 0 .. MAXFILE - 1 /\ (Offset(p) % BSIZE) \in Words
         /\ Offset(p) = BSIZE * (Offset(p) \div BSIZE) + (Offset(p) % BSIZE)
         /\ \A q \in Callers : At(q, "write") /\ q # p => op[q].ip # op[p].ip
<1> USE DEF FileInv
<1>1. op[p] \in OpType /\ op[p].ip \in Inums /\ ilk[op[p].ip] = p /\ off[op[p].ip] \in Nat
  BY Sizes DEF OpInv, At, FileTypeOK, SizeType
<1>2. Offset(p) \in 0 .. MAXFILE * BSIZE - 1
  BY <1>1, Sizes DEF OpInv, Offset, OpType
<1>3. (Offset(p) \div BSIZE) \in 0 .. MAXFILE - 1 /\ (Offset(p) % BSIZE) \in Words
  BY <1>2, OffsetBlock
<1>4. Offset(p) = BSIZE * (Offset(p) \div BSIZE) + (Offset(p) % BSIZE)
  <2>1. PICK pos \in Nat : pos = Offset(p)
    BY <1>2, Sizes
  <2>2. pos = BSIZE * (pos \div BSIZE) + (pos % BSIZE)
    BY Sizes, Quotient
  <2> QED  BY <2>1, <2>2
<1>5. \A q \in Callers : At(q, "write") /\ q # p => op[q].ip # op[p].ip
  BY <1>1 DEF OpInv
<1> QED
  BY <1>1, <1>2, <1>3, <1>4, <1>5 DEF Offset

\* The words copied to a block are those that belong there.
LEMMA MovedWords ==
  ASSUME NEW i \in Inums, NEW b \in Nat, NEW pos \in Nat, NEW m \in Nat,
         (pos % BSIZE) + m <= BSIZE,
         NEW o \in Nat
  PROVE  /\ o \in pos .. pos + m - 1 =>
              /\ (o \div BSIZE) = (pos \div BSIZE)
              /\ Moved(i, b, pos, m)[o % BSIZE] = Datum(i, o)
         /\ (o \div BSIZE) = (pos \div BSIZE) /\ words[b][o % BSIZE] = Datum(i, o)
              => Moved(i, b, pos, m)[o % BSIZE] = Datum(i, o)
<1> DEFINE q == pos \div BSIZE
           r == pos % BSIZE
<1>1. q \in Int /\ r \in 0 .. BSIZE - 1 /\ pos = BSIZE * q + r /\ BSIZE \in Nat \ {0}
  BY Sizes, Quotient
<1>2. BSIZE * q \in Int
  BY <1>1
<1>3. \A w \in Words : Moved(i, b, pos, m)[w] =
        IF w >= r /\ w < r + m THEN Datum(i, pos + (w - r)) ELSE words[b][w]
  BY DEF Moved
<1> HIDE DEF q, r
<1>4. ASSUME o \in pos .. pos + m - 1
      PROVE  (o \div BSIZE) = q /\ Moved(i, b, pos, m)[o % BSIZE] = Datum(i, o)
  <2> DEFINE w == r + (o - pos)
  <2>1. w \in 0 .. BSIZE - 1 /\ w >= r /\ w < r + m /\ pos + (w - r) = o
    BY <1>1, <1>4 DEF r
  <2>2. o = BSIZE * q + w
    BY <1>1, <1>2
  <2> HIDE DEF w
  <2>3. (o \div BSIZE) = q /\ (o % BSIZE) = w
    BY <1>1, <2>1, <2>2, QuotientUnique
  <2>4. w \in Words
    BY <2>1 DEF Words
  <2> QED  BY <1>3, <2>1, <2>3, <2>4
<1>5. ASSUME (o \div BSIZE) = q, words[b][o % BSIZE] = Datum(i, o)
      PROVE  Moved(i, b, pos, m)[o % BSIZE] = Datum(i, o)
  <2> DEFINE w == o % BSIZE
  <2>1. w \in Words /\ w \in 0 .. BSIZE - 1 /\ o = BSIZE * q + w
    BY <1>1, <1>5, Quotient, RemainderType
  <2> HIDE DEF w
  <2>2. pos + (w - r) = o
    BY <1>1, <1>2, <2>1
  <2> QED  BY <1>3, <1>5, <2>1, <2>2 DEF w
<1> QED
  BY <1>4, <1>5 DEF q, r

\* A turn of the loop of writei(): the account has the block that the words go to.
LEMMA CopySafe ==
  ASSUME FileInv, NEW p \in Callers, Copy(p)
  PROVE  FileInv'
<1> USE DEF FileInv, inMemory
<1>1. At(p, "write") /\ op[p].tot < op[p].n1 /\ NextBlock(p) # 0
  BY DEF Copy, NextBlock
<1> DEFINE room == BSIZE - (Offset(p) % BSIZE)
           left == op[p].n1 - op[p].tot
<1>2. PICK i, pos, q, b, m :
         /\ i = op[p].ip /\ pos = Offset(p) /\ q = pos \div BSIZE /\ b = Block(i, q)
         /\ m = IF left < room THEN left ELSE room
  OBVIOUS
<1>3. /\ words' = [words EXCEPT ![b] = Moved(i, b, pos, m)]
      /\ op' = [op EXCEPT ![p].tot = @ + m, ![p].log = @ \cup {Disk(b)}]
      /\ UNCHANGED <<bitmap, dinode, addrs, size, ilk, off>>
  BY <1>2 DEF Copy
<1>4. /\ i \in Inums /\ op[p] \in OpType /\ ilk[i] = p /\ off[i] \in Nat
      /\ pos = off[i] + op[p].tot /\ pos \in 0 .. MAXFILE * BSIZE - 1 /\ pos \in Nat
      /\ q \in 0 .. MAXFILE - 1 /\ (pos % BSIZE) \in 0 .. BSIZE - 1
      /\ pos = BSIZE * q + (pos % BSIZE)
      /\ \A c \in Callers : At(c, "write") /\ c # p => op[c].ip # i
  <2>1. /\ i \in Inums /\ op[p] \in OpType /\ ilk[i] = p /\ off[i] \in Nat
        /\ pos = off[i] + op[p].tot /\ pos \in 0 .. MAXFILE * BSIZE - 1
        /\ q \in 0 .. MAXFILE - 1 /\ (pos % BSIZE) \in Words
        /\ pos = BSIZE * q + (pos % BSIZE)
        /\ \A c \in Callers : At(c, "write") /\ c # p => op[c].ip # i
    BY <1>1, <1>2, Writing
  <2>2. pos \in Nat  BY <2>1, Sizes
  <2> QED  BY <2>1, <2>2 DEF Words
<1>5. b # 0 /\ q \in Places /\ b = Ref(i, q) /\ b \in bitmap /\ b \in DataBlocks /\ b \in Nat
  <2>1. b # 0 /\ q \in Places /\ b = Ref(i, q)
    BY <1>1, <1>2, <1>4, BlockRef DEF NextBlock
  <2>2. b \in bitmap /\ b \in DataBlocks
    BY <1>4, <2>1, RefType
  <2> QED  BY <2>1, <2>2, Sizes DEF DataBlocks
<1>6. op[p].tot \in Nat /\ op[p].n1 \in Nat
  BY <1>4 DEF OpType
<1>7. /\ m \in Nat \ {0} /\ (pos % BSIZE) + m <= BSIZE /\ op[p].tot + m <= op[p].n1
      /\ op[p].tot + m = op[p].n1 \/ (pos % BSIZE) + m = BSIZE
  <2>1. PICK r : r = pos % BSIZE
    OBVIOUS
  <2>2. /\ r \in 0 .. BSIZE - 1 /\ BSIZE \in Nat
        /\ m = IF op[p].n1 - op[p].tot < BSIZE - r THEN op[p].n1 - op[p].tot ELSE BSIZE - r
    BY <1>2, <1>4, <2>1, Sizes
  <2>3. /\ m \in Nat \ {0} /\ r + m <= BSIZE /\ op[p].tot + m <= op[p].n1
        /\ op[p].tot + m = op[p].n1 \/ r + m = BSIZE
    BY <1>1, <1>6, <2>2
  <2> QED  BY <2>1, <2>3
<1> HIDE DEF room, left
<1>8. \A j \in Inums :
        /\ addrs[j][NDIRECT] # 0 => words'[addrs[j][NDIRECT]] = words[addrs[j][NDIRECT]]
        /\ \A k \in Int : Block(j, k)' = Block(j, k) /\ Ref(j, k)' = Ref(j, k)
  <2> SUFFICES ASSUME NEW j \in Inums
               PROVE  /\ addrs[j][NDIRECT] # 0
                           => words'[addrs[j][NDIRECT]] = words[addrs[j][NDIRECT]]
                      /\ \A k \in Int : Block(j, k)' = Block(j, k) /\ Ref(j, k)' = Ref(j, k)
    OBVIOUS
  <2>1. MAXFILE \in Places /\ addrs[j][NDIRECT] = Ref(j, MAXFILE)
    BY IndirectRef
  <2>2. addrs[j][NDIRECT] # b
    <3>1. q # MAXFILE  BY <1>4, Sizes
    <3>2. Ref(j, MAXFILE) # Ref(i, q)
      BY <1>3, <1>4, <1>5, <2>1, <3>1 DEF BlocksOwned
    <3> QED  BY <1>5, <2>1, <3>2
  <2>3. addrs[j][NDIRECT] # 0 => words'[addrs[j][NDIRECT]] = words[addrs[j][NDIRECT]]
    BY <1>3, <2>2 DEF FileTypeOK, AddrsType
  <2> QED  BY <1>3, <2>3, SameRefs
<1>9. BlocksOwned'
  <2>1. \A j \in Inums : \A k \in Places : Ref(j, k)' = Ref(j, k)
    BY <1>8, Sizes DEF Places
  <2> QED  BY <1>3, <2>1, SameOwners

<1>10. \A c \in DataBlocks : words'[c] = IF c = b THEN Moved(i, b, pos, m) ELSE words[c]
  BY <1>3, <1>5 DEF FileTypeOK
<1>11. \A j \in Inums : \A o \in 0 .. MAXFILE * BSIZE - 1 : Has(j, o) => Has(j, o)'
  <2> SUFFICES ASSUME NEW j \in Inums, NEW o \in 0 .. MAXFILE * BSIZE - 1, Has(j, o)
               PROVE  Has(j, o)'
    OBVIOUS
  <2> DEFINE k == o \div BSIZE
             c == Block(j, k)
  <2>1. k \in 0 .. MAXFILE - 1 /\ k \in Int /\ o \in Nat
    BY OffsetBlock, Sizes
  <2>2. c # 0 /\ words[c][o % BSIZE] = Datum(j, o)
    BY DEF Has
  <2>3. k \in Places /\ c = Ref(j, k)
    BY <2>1, BlockRef
  <2> HIDE DEF k, c
  <2>4. c \in DataBlocks
    BY <2>2, <2>3, RefType
  <2>5. Block(j, k)' = c
    BY <1>8, <2>1 DEF c
  <2>6. words'[c][o % BSIZE] = Datum(j, o)
    <3>1. CASE c # b
      BY <1>10, <2>2, <2>4, <3>1
    <3>2. CASE c = b
      <4>1. j = i /\ k = q
        <5>1. k \in Places /\ q \in Places /\ Ref(j, k) = Ref(i, q) /\ Ref(j, k) # 0
          BY <1>5, <2>3, <3>2
        <5> QED  BY <1>4, <5>1 DEF BlocksOwned
      <4>2. Moved(i, b, pos, m)[o % BSIZE] = Datum(i, o)
        <5>1. (o \div BSIZE) = (pos \div BSIZE) /\ words[b][o % BSIZE] = Datum(i, o)
          BY <1>2, <2>2, <3>2, <4>1 DEF k
        <5>2. pos \in Nat /\ m \in Nat /\ b \in Nat /\ o \in Nat /\ i \in Inums
              /\ (pos % BSIZE) + m <= BSIZE
          BY <1>4, <1>5, <1>7, <2>1
        <5> QED  BY <5>1, <5>2, MovedWords
      <4> QED  BY <1>5, <1>10, <3>2, <4>1, <4>2
    <3> QED  BY <3>1, <3>2
  <2> QED  BY <2>2, <2>5, <2>6 DEF Has, k
<1>12. \A o \in pos .. pos + m - 1 : Has(i, o)'
  <2> SUFFICES ASSUME NEW o \in pos .. pos + m - 1
               PROVE  Has(i, o)'
    OBVIOUS
  <2>1. o \in Nat /\ pos \in Nat /\ m \in Nat
    BY <1>4, <1>7
  <2>2. (o \div BSIZE) = q /\ Moved(i, b, pos, m)[o % BSIZE] = Datum(i, o)
    <3>1. i \in Inums /\ b \in Nat /\ (pos % BSIZE) + m <= BSIZE
      BY <1>4, <1>5, <1>7
    <3> QED  BY <1>2, <2>1, <3>1, MovedWords
  <2>3. Block(i, o \div BSIZE) = b /\ Block(i, o \div BSIZE)' = b
    <3>1. q \in Int  BY <1>4
    <3>2. Block(i, q)' = b  BY <1>2, <1>4, <1>8, <3>1
    <3> QED  BY <1>2, <2>2, <3>2
  <2>4. words'[b][o % BSIZE] = Datum(i, o)
    BY <1>5, <1>10, <2>2
  <2> QED  BY <1>5, <2>3, <2>4 DEF Has
<1>13. /\ \A c \in Callers : c # p => op'[c] = op[c]
       /\ op'[p] = [op[p] EXCEPT !.tot = op[p].tot + m, !.log = op[p].log \cup {Disk(b)}]
       /\ op'[p].ip = i /\ op'[p].at = "write" /\ op'[p].n = op[p].n /\ op'[p].n1 = op[p].n1
       /\ op'[p].tot = op[p].tot + m /\ op'[p].log = op[p].log \cup {Disk(b)}
  BY <1>1, <1>2, <1>3, <1>4 DEF FileTypeOK, OpType, At
<1>14. FileTypeOK'
  <2>1. Disk(b) \in LogBlocks
    BY <1>5 DEF Disk, LogBlocks
  <2>2. op'[p] \in OpType
    <3>1. op[p].tot + m \in Nat
      BY <1>6, <1>7
    <3>2. op[p].log \in SUBSET LogBlocks
      BY <1>4 DEF OpType
    <3>3. op[p].log \cup {Disk(b)} \in SUBSET LogBlocks
      BY <2>1, <3>2
    <3> QED  BY <1>4, <1>13, <3>1, <3>3 DEF OpType
  <2>3. op' \in [Callers -> OpType]
    BY <1>3, <1>13, <2>2 DEF FileTypeOK
  <2>4. \A o \in Int : o >= 0 => Datum(i, o) \in Nat
    <3>1. i \in Nat /\ MAXFILE \in Nat /\ BSIZE \in Nat /\ NBlocks \in Nat
      BY <1>4, Sizes, FileDataAssumption
    <3>2. i * MAXFILE \in Nat
      BY <3>1
    <3>3. i * MAXFILE * BSIZE \in Nat
      BY <3>1, <3>2
    <3> QED  BY <3>1, <3>3 DEF Datum
  <2>5. Moved(i, b, pos, m) \in [Words -> Nat]
    <3>1. words[b] \in [Words -> Nat]  BY <1>5 DEF FileTypeOK
    <3>2. \A w \in Words : w \in Int
      BY Sizes DEF Words
    <3>3. \A w \in Words : w >= pos % BSIZE =>
            pos + (w - (pos % BSIZE)) \in Int /\ pos + (w - (pos % BSIZE)) >= 0
      BY <1>4, <3>2
    <3> QED  BY <2>4, <3>1, <3>3 DEF Moved
  <2>6. words' \in [DataBlocks -> [Words -> Nat]]
    BY <1>3, <2>5 DEF FileTypeOK
  <2> QED  BY <1>3, <2>3, <2>6 DEF FileTypeOK
<1>15. OpInv'
  <2>1. \A c \in Callers : op'[c].at = op[c].at /\ op'[c].ip = op[c].ip /\ op'[c].n = op[c].n
                           /\ op'[c].n1 = op[c].n1
    BY <1>1, <1>2, <1>13 DEF At
  <2>2. \A c \in Callers : op[c].tot <= op[c].n1 => op'[c].tot <= op'[c].n1
    BY <1>7, <1>13, <2>1
  <2>3. \A j \in Inums : ilk[j] # NoCaller => ilk[j] \in Callers
    BY DEF FileTypeOK
  <2>4. \A j \in Inums : ilk'[j] # NoCaller => op'[ilk'[j]].at = "write" /\ op'[ilk'[j]].ip = j
    BY <1>3, <2>1, <2>3 DEF OpInv, At
  <2>5. \A c \in Callers : op'[c].at # "out" => op'[c].ip \in Inums /\ op'[c].n > 0
    BY <2>1 DEF OpInv, At
  <2>6. \A c \in Callers : op'[c].at = "write" =>
          /\ ilk'[op'[c].ip] = c /\ op'[c].tot <= op'[c].n1
          /\ op'[c].n1 <= op'[c].n /\ op'[c].n1 \in 1 .. Max
          /\ off'[op'[c].ip] + op'[c].n1 <= MAXFILE * BSIZE
    BY <1>3, <2>1, <2>2 DEF OpInv, At
  <2> QED  BY <2>4, <2>5, <2>6 DEF OpInv, At, Max, MAXFILE, NINDIRECT
<1>16. OffInv'
  BY <1>3 DEF OffInv

<1>17. \A c \in Callers : c # p /\ op'[c].at = "write" =>
         Copied(c)' /\ InodeKept(c)' /\ Accounted(c)'
  <2> SUFFICES ASSUME NEW c \in Callers, c # p, op'[c].at = "write"
               PROVE  Copied(c)' /\ InodeKept(c)' /\ Accounted(c)'
    OBVIOUS
  <2> DEFINE j == op[c].ip
  <2>1. At(c, "write") /\ op'[c] = op[c] /\ j \in Inums
    BY <1>13 DEF At, OpInv
  <2> HIDE DEF j
  <2> QED  BY <1>3, <1>8, <1>11, <2>1, OtherWrite DEF j
<1>18. Offset(p)' = pos + m /\ off'[i] = off[i] /\ pos + m \in Nat
  <2>1. Offset(p)' = off[i] + (op[p].tot + m)
    BY <1>3, <1>13 DEF Offset
  <2> QED  BY <1>3, <1>4, <1>6, <1>7, <2>1
<1>19. DataInv'
  <2>1. \A j \in Inums : \A o \in 0 .. size'[j] - 1 : Has(j, o)'
    <3>1. \A j \in Inums : \A o \in 0 .. size[j] - 1 : o \in 0 .. MAXFILE * BSIZE - 1
      BY Sizes DEF FileTypeOK, SizeType
    <3> QED  BY <1>3, <1>11, <3>1 DEF DataInv
  <2>2. Copied(p)'
    <3> DEFINE n == pos + m
    <3>1. \A o \in off[i] .. n - 1 : Has(i, o)'
      <4> TAKE o \in off[i] .. n - 1
      <4>1. CASE o < pos
        <5>1. o \in off[i] .. pos - 1 /\ o \in 0 .. MAXFILE * BSIZE - 1
          BY <1>4, <4>1, Sizes
        <5>2. Copied(p)
          BY <1>1 DEF DataInv
        <5>3. Has(i, o)
          BY <1>2, <5>1, <5>2 DEF Copied
        <5> QED  BY <1>4, <1>11, <5>1, <5>3
      <4>2. CASE ~(o < pos)
        <5>1. o \in pos .. pos + m - 1
          BY <1>4, <1>7, <4>2
        <5> QED  BY <1>12, <5>1
      <4> QED  BY <4>1, <4>2
    <3>2. off'[op'[p].ip] = off[i] /\ op'[p].ip = i /\ Offset(p)' = n
      BY <1>13, <1>18
    <3> HIDE DEF n
    <3> QED  BY <3>1, <3>2 DEF Copied
  <2>3. InodeKept(p)'
    <3>1. InodeKept(p)  BY <1>1 DEF DataInv
    <3> QED  BY <1>2, <1>3, <1>13, <3>1 DEF InodeKept
  <2> QED  BY <1>3, <1>17, <2>1, <2>2, <2>3 DEF DataInv, At
<1>20. Accounted(p)
  BY <1>1 DEF LogInv
<1>21. Started(pos) = q + IF pos % BSIZE = 0 THEN 0 ELSE 1
  BY <1>2, <1>4 DEF Started
<1>22. /\ Started(pos + m) = q + 1
       /\ op[p].tot + m = op[p].n1 \/ (pos + m) % BSIZE = 0
  <2>1. CASE (pos % BSIZE) + m = BSIZE
    <3> DEFINE n == pos + m
               k == q + 1
    <3>1. BSIZE * k = BSIZE * q + BSIZE
      BY <1>4, Sizes
    <3>2. n \in Nat /\ k \in Int /\ n = BSIZE * k + 0
      BY <1>4, <1>7, <2>1, <3>1, Sizes
    <3>3. 0 \in 0 .. BSIZE - 1 /\ BSIZE \in Nat \ {0}
      BY Sizes
    <3> HIDE DEF n, k
    <3>4. (n \div BSIZE) = k /\ (n % BSIZE) = 0
      BY <3>2, <3>3, QuotientUnique
    <3> QED  BY <3>4 DEF Started, n, k
  <2>2. CASE (pos % BSIZE) + m # BSIZE
    <3> DEFINE n == pos + m
               r == (pos % BSIZE) + m
    <3>1. r \in 1 .. BSIZE - 1
      BY <1>4, <1>7, <2>2, Sizes
    <3>2. n \in Nat /\ n = BSIZE * q + r
      <4>1. BSIZE * q \in Int  BY <1>4, Sizes
      <4>2. PICK u, v : u = pos % BSIZE /\ v = BSIZE * q
        OBVIOUS
      <4>3. u \in Int /\ v \in Int /\ pos = v + u /\ m \in Nat /\ pos \in Nat
        BY <1>4, <1>7, <4>1, <4>2
      <4>4. pos + m \in Nat /\ pos + m = v + (u + m)
        BY <4>3
      <4> QED  BY <4>2, <4>4
    <3>3. r \in 0 .. BSIZE - 1 /\ r # 0 /\ q \in Int /\ BSIZE \in Nat \ {0}
      BY <1>4, <3>1, Sizes
    <3> HIDE DEF n, r
    <3>4. (n \div BSIZE) = q /\ (n % BSIZE) = r
      BY <3>2, <3>3, QuotientUnique
    <3> QED  BY <1>7, <2>2, <3>3, <3>4 DEF Started, n
  <2> QED  BY <2>1, <2>2

<1>23. /\ Begun(p)' = Begun(p) + IF pos % BSIZE = 0 THEN 2 ELSE 0
       /\ Begun(p) \in Int
  <2>1. Started(off[i]) \in Int /\ q \in Int
    BY <1>4, StartedType
  <2>2. Started(Offset(p))' = q + 1
    BY <1>18, <1>22 DEF Started
  <2>3. Started(off[op[p].ip])' = Started(off[i])
    BY <1>13, <1>18 DEF Started
  <2>4. (off[op[p].ip] % BSIZE)' = off[i] % BSIZE
    BY <1>13, <1>18
  <2>5. Begun(p) = 2 * (q + (IF pos % BSIZE = 0 THEN 0 ELSE 1) - Started(off[i]))
                   + IF off[i] % BSIZE = 0 THEN 0 ELSE 1
    <3>1. Begun(p) = 2 * (Started(pos) - Started(off[i])) + IF off[i] % BSIZE = 0 THEN 0 ELSE 1
      BY <1>2 DEF Begun
    <3>2. CASE pos % BSIZE = 0
      BY <1>21, <2>1, <3>1, <3>2
    <3>3. CASE pos % BSIZE # 0
      BY <1>21, <2>1, <3>1, <3>3
    <3> QED  BY <3>2, <3>3
  <2>6. Begun(p)' = 2 * (q + 1 - Started(off[i])) + IF off[i] % BSIZE = 0 THEN 0 ELSE 1
    BY <2>1, <2>2, <2>3, <2>4 DEF Begun, Started
  <2> QED  BY <2>1, <2>5, <2>6
<1> DEFINE S == op[p].log \cup {Disk(b)}
           d == Disk(addrs[i][NDIRECT])
<1>24. /\ IsFiniteSet(op[p].log)
       /\ Cardinality(S \ {d}) <= Begun(p) + Indirect(i) + IF pos % BSIZE = 0 THEN 2 ELSE 0
  <2>1. NextBlock(p) = b /\ b # 0 /\ op[p].tot # op[p].n1
    BY <1>1, <1>2, <1>5, <1>6 DEF NextBlock
  <2> QED  BY <1>2, <1>20, <2>1 DEF Accounted, Logged
<1> HIDE DEF d
<1>25. /\ IsFiniteSet(S) /\ Cardinality(S \ {d}) \in Nat
       /\ \A x : Cardinality((S \cup {x}) \ {d}) <= Cardinality(S \ {d}) + 1
                 /\ Cardinality((S \cup {x}) \ {d}) \in Nat
  BY <1>24, LogAdd
<1> HIDE DEF S
<1>26. Indirect(i) \in {0, 1} /\ Indirect(op[p].ip)' = Indirect(i)
  BY <1>3, <1>13 DEF Indirect
<1>27. Cardinality(S \ {d}) <= Begun(p)' + Indirect(i) /\ Begun(p)' \in Int
  BY <1>23, <1>24, <1>25, <1>26
<1>28. Accounted(p)'
  <2>1. op'[p].log = S /\ addrs'[op'[p].ip] = addrs[i] /\ op'[p].ip = i
    BY <1>3, <1>13 DEF S
  <2>2. Logged(op[p].ip, op[p].log)' = Cardinality(S \ {d})
    BY <2>1 DEF Logged, Disk, d
  <2>3. Logged(op[p].ip, op[p].log \cup {Disk(NextBlock(p))})' =
          Cardinality((S \cup {<<"block", NextBlock(p)'>>}) \ {d})
    BY <2>1 DEF Logged, Disk, d
  <2>4. (op[p].tot \in {0, op[p].n1})' \/ (Offset(p) % BSIZE = 0)'
    BY <1>13, <1>18, <1>22
  <2>5. ~(op[p].tot = op[p].n1)' => (Offset(p) % BSIZE)' = 0
    BY <1>13, <1>18, <1>22
  <2>6. Logged(op[p].ip, op[p].log)' <= Begun(p)' + Indirect(op[p].ip)'
    BY <1>26, <1>27, <2>2
  <2>7. Logged(op[p].ip, op[p].log \cup {Disk(NextBlock(p))})'
          <= Begun(p)' + Indirect(op[p].ip)' + 2
    <3>1. Cardinality((S \cup {<<"block", NextBlock(p)'>>}) \ {d}) <= Cardinality(S \ {d}) + 1
          /\ Cardinality((S \cup {<<"block", NextBlock(p)'>>}) \ {d}) \in Nat
      BY <1>25
    <3> QED  BY <1>25, <1>26, <1>27, <2>3, <3>1
  <2>8. IsFiniteSet(op[p].log)'
    BY <1>25, <2>1
  <2> QED  BY <2>4, <2>5, <2>6, <2>7, <2>8 DEF Accounted
<1>29. LogInv'
  BY <1>17, <1>28 DEF LogInv, At
<1> QED
  BY <1>9, <1>14, <1>15, <1>16, <1>19, <1>29

\* A free block that one place is given: nobody else has it, and the words of files stay.
LEMMA Granted ==
  ASSUME FileInv, NEW b \in DataBlocks, b \notin bitmap, bitmap' = bitmap \cup {b},
         NEW i \in Inums, NEW k \in Places, Ref(i, k) = 0, Ref(i, k)' = b,
         \A j \in Inums : \A l \in Places : (j = i /\ l = k) \/ Ref(j, l)' = Ref(j, l),
         \A c \in bitmap : words'[c] = words[c] \/ \E j \in Inums : c = addrs[j][NDIRECT]
  PROVE  /\ BlocksOwned'
         /\ \A j \in Inums : \A o \in 0 .. MAXFILE * BSIZE - 1 : Has(j, o) => Has(j, o)'
<1> USE DEF FileInv
<1>1. b # 0
  BY Sizes DEF DataBlocks
<1>2. \A j \in Inums : \A l \in Places : Ref(j, l) # b
  BY <1>1 DEF BlocksOwned
<1>3. BlocksOwned'
  <2>1. \A j \in Inums, l \in Places : Ref(j, l)' \in bitmap' \cup {0}
    BY DEF BlocksOwned
  <2>2. \A c \in bitmap' : \E j \in Inums, l \in Places : Ref(j, l)' = c
    <3> TAKE c \in bitmap'
    <3>1. CASE c = b
      BY <3>1
    <3>2. CASE c # b
      <4>1. c \in bitmap
        BY <3>2
      <4>2. PICK j \in Inums, l \in Places : Ref(j, l) = c
        BY <4>1 DEF BlocksOwned
      <4>3. c # 0
        BY <4>1, Sizes DEF FileTypeOK, DataBlocks
      <4>4. Ref(j, l)' = c
        BY <4>2, <4>3
      <4> QED  BY <4>4
    <3> QED  BY <3>1, <3>2
  <2>3. \A j1, j2 \in Inums : \A l1, l2 \in Places :
          Ref(j1, l1)' = Ref(j2, l2)' /\ Ref(j1, l1)' # 0 => j1 = j2 /\ l1 = l2
    BY <1>1, <1>2 DEF BlocksOwned
  <2> QED  BY <2>1, <2>2, <2>3 DEF BlocksOwned, Places
<1>4. ASSUME NEW j \in Inums, NEW o \in 0 .. MAXFILE * BSIZE - 1, Has(j, o)
      PROVE  Has(j, o)'
  <2>1. PICK l \in 0 .. MAXFILE - 1 : l = o \div BSIZE
    BY OffsetBlock
  <2>2. PICK c : c = Block(j, l)
    OBVIOUS
  <2>3. c # 0 /\ words[c][o % BSIZE] = Datum(j, o)
    BY <1>4, <2>1, <2>2 DEF Has
  <2>4. l \in Places /\ c = Ref(j, l) /\ l # MAXFILE
    BY <2>1, <2>2, BlockRef, Sizes
  <2>5. c \in bitmap
    BY <2>3, <2>4 DEF BlocksOwned
  <2>6. Ref(j, l)' = c
    BY <2>3, <2>4
  <2>7. Block(j, l)' = c
    BY <2>4, <2>6, Sizes DEF Ref, Places
  <2>8. \A h \in Inums : c # addrs[h][NDIRECT]
    <3> TAKE h \in Inums
    <3>1. MAXFILE \in Places /\ addrs[h][NDIRECT] = Ref(h, MAXFILE)
      BY IndirectRef
    <3> QED  BY <2>3, <2>4, <3>1 DEF BlocksOwned
  <2>9. words'[c] = words[c]
    BY <2>5, <2>8
  <2> QED  BY <2>1, <2>3, <2>7, <2>9 DEF Has
<1> QED
  BY <1>3, <1>4

\* bmap() gets a block at the start of a block of the file, beyond its size.
LEMMA NewBlock ==
  ASSUME FileInv, NEW p \in Callers, At(p, "write"), op[p].tot < op[p].n1, NextBlock(p) = 0
  PROVE  /\ Offset(p) % BSIZE = 0
         /\ off[op[p].ip] + op[p].n1 > size[op[p].ip]
<1> USE DEF FileInv
<1>1. PICK i, pos, q, r : /\ i = op[p].ip /\ pos = Offset(p)
                          /\ q = pos \div BSIZE /\ r = pos % BSIZE
  OBVIOUS
<1>2. /\ i \in Inums /\ op[p] \in OpType /\ off[i] \in Nat
      /\ pos = off[i] + op[p].tot /\ pos \in 0 .. MAXFILE * BSIZE - 1 /\ pos \in Nat
      /\ q \in 0 .. MAXFILE - 1 /\ r \in 0 .. BSIZE - 1 /\ pos = BSIZE * q + r
  <2>1. /\ i \in Inums /\ op[p] \in OpType /\ off[i] \in Nat
        /\ pos = off[i] + op[p].tot /\ pos \in 0 .. MAXFILE * BSIZE - 1
        /\ q \in 0 .. MAXFILE - 1 /\ r \in Words /\ pos = BSIZE * q + r
    BY <1>1, Writing
  <2>2. pos \in Nat  BY <2>1, Sizes
  <2> QED  BY <2>1, <2>2 DEF Words
<1>3. op[p].tot \in Nat /\ op[p].n1 \in Nat
  BY <1>2 DEF OpType
<1>4. size[i] \in Nat /\ off[i] <= size[i]
  BY <1>2, Sizes DEF FileTypeOK, SizeType, OffInv
<1>5. ~Has(i, pos)
  BY <1>1 DEF Has, NextBlock
<1>6. pos >= size[i]
  BY <1>2, <1>4, <1>5 DEF DataInv
<1>7. r = 0
  <2> SUFFICES ASSUME r # 0 PROVE FALSE
    OBVIOUS
  <2>1. op[p].tot = 0
    <3>1. Accounted(p)
      BY DEF LogInv
    <3>2. op[p].tot \in {0, op[p].n1} \/ Offset(p) % BSIZE = 0
      BY <3>1 DEF Accounted
    <3> QED  BY <1>1, <1>3, <3>2
  <2>2. PICK n, t : n = pos - 1 /\ t = r - 1
    OBVIOUS
  <2>3. n \in Nat /\ t \in 0 .. BSIZE - 1 /\ n = BSIZE * q + t /\ n < size[i]
    <3>1. PICK v : v = BSIZE * q
      OBVIOUS
    <3>2. v \in Int  BY <1>2, <3>1, Sizes
    <3>3. n = v + t /\ t \in 0 .. BSIZE - 1
      BY <1>2, <2>2, <3>1, <3>2, Sizes
    <3>4. n \in Nat /\ n < size[i]
      <4>1. pos > 0
        <5>1. CASE pos = 0
          <6>1. 0 = BSIZE * 0 + 0 /\ 0 \in 0 .. BSIZE - 1
            BY Sizes
          <6>2. (0 % BSIZE) = 0
            BY <6>1, Sizes, QuotientUnique
          <6> QED  BY <1>1, <5>1, <6>2
        <5> QED  BY <1>2, <5>1
      <4> QED  BY <1>2, <1>4, <2>1, <2>2, <4>1
    <3> QED  BY <3>1, <3>3, <3>4
  <2>4. (n \div BSIZE) = q
    <3>1. q \in Int /\ BSIZE \in Nat \ {0}
      BY <1>2, Sizes
    <3> QED  BY <2>3, <3>1, QuotientUnique
  <2>5. Has(i, n)
    <3>1. n \in 0 .. size[i] - 1
      BY <1>4, <2>3
    <3> QED  BY <1>2, <3>1 DEF DataInv
  <2> QED  BY <1>1, <2>4, <2>5 DEF Has, NextBlock
<1> QED
  BY <1>1, <1>2, <1>3, <1>4, <1>6, <1>7

\* Logging two blocks takes room for two.
LEMMA LogAddTwo ==
  ASSUME NEW S, IsFiniteSet(S), NEW x, NEW y, NEW d
  PROVE  /\ IsFiniteSet(S \cup {x, y})
         /\ Cardinality((S \cup {x, y}) \ {d}) <= Cardinality(S \ {d}) + 2
         /\ Cardinality(S \ {d}) \in Nat /\ Cardinality((S \cup {x, y}) \ {d}) \in Nat
<1> DEFINE T == S \cup {x}
<1>1. /\ IsFiniteSet(T) /\ Cardinality(T \ {d}) <= Cardinality(S \ {d}) + 1
      /\ Cardinality(S \ {d}) \in Nat /\ Cardinality(T \ {d}) \in Nat
  BY LogAdd
<1>2. S \cup {x, y} = T \cup {y}
  OBVIOUS
<1> HIDE DEF T
<1>3. /\ IsFiniteSet(T \cup {y}) /\ Cardinality((T \cup {y}) \ {d}) <= Cardinality(T \ {d}) + 1
      /\ Cardinality((T \cup {y}) \ {d}) \in Nat
  BY <1>1, LogAdd
<1>4. /\ IsFiniteSet(T \cup {y}) /\ Cardinality((T \cup {y}) \ {d}) <= Cardinality(S \ {d}) + 2
      /\ Cardinality(S \ {d}) \in Nat /\ Cardinality((T \cup {y}) \ {d}) \in Nat
  BY <1>1, <1>3
<1> QED
  BY <1>2, <1>4

\* bmap() gets a block of the file or its indirect block.
LEMMA BmapSafe ==
  ASSUME FileInv, NEW p \in Callers, NEW b \in DataBlocks, Bmap(p, b)
  PROVE  FileInv'
<1> USE DEF FileInv
<1>1. /\ At(p, "write") /\ op[p].tot < op[p].n1 /\ NextBlock(p) = 0
      /\ b \notin bitmap /\ bitmap' = bitmap \cup {b} /\ UNCHANGED <<dinode, size, ilk, off>>
  BY DEF Bmap, NextBlock, Balloc
<1>2. PICK i, pos, q, ind : /\ i = op[p].ip /\ pos = Offset(p) /\ q = pos \div BSIZE
                            /\ ind = addrs[i][NDIRECT]
  OBVIOUS
<1>3. PICK L :
        /\ op' = [op EXCEPT ![p].log = L]
        /\ IF q >= NDIRECT /\ ind # 0
           THEN /\ words' = [Cleared(b) EXCEPT ![ind][q - NDIRECT] = b] /\ addrs' = addrs
                /\ L = op[p].log \cup {BBLOCK(b), Disk(b), Disk(ind)}
           ELSE /\ words' = Cleared(b)
                /\ addrs' = [addrs EXCEPT ![i][IF q < NDIRECT THEN q ELSE NDIRECT] = b]
                /\ L = op[p].log \cup {BBLOCK(b), Disk(b)}
  <2>1. CASE q >= NDIRECT /\ ind # 0
    BY <1>2, <2>1 DEF Bmap
  <2>2. CASE ~(q >= NDIRECT /\ ind # 0)
    BY <1>2, <2>2 DEF Bmap
  <2> QED  BY <2>1, <2>2
<1>4. /\ i \in Inums /\ op[p] \in OpType /\ off[i] \in Nat
      /\ pos = off[i] + op[p].tot /\ pos \in 0 .. MAXFILE * BSIZE - 1
      /\ q \in 0 .. MAXFILE - 1 /\ (pos % BSIZE) = 0 /\ off[i] + op[p].n1 > size[i]
      /\ \A c \in Callers : At(c, "write") /\ c # p => op[c].ip # i
  BY <1>1, <1>2, Writing, NewBlock
<1>5. q \in Places /\ Ref(i, q) = 0 /\ Block(i, q) = 0 /\ q # MAXFILE
  <2>1. Block(i, q) = 0
    BY <1>1, <1>2 DEF NextBlock
  <2> QED  BY <1>4, <2>1, BlockRef, Sizes
<1>6. b # 0 /\ b \in Nat /\ \A j \in Inums : addrs[j][NDIRECT] # b
  <2>1. b # 0 /\ b \in Nat
    BY Sizes DEF DataBlocks
  <2>2. \A j \in Inums : \A k \in Places : Ref(j, k) # b
    BY <1>1, <2>1 DEF BlocksOwned
  <2> QED  BY <2>1, <2>2, IndirectRef
<1>7. ind \in DataBlocks \cup {0} /\ ind # b
  <2>1. addrs[i] \in [0 .. NDIRECT -> DataBlocks \cup {0}] /\ NDIRECT \in 0 .. NDIRECT
    BY <1>4, Sizes DEF FileTypeOK, AddrsType
  <2> QED  BY <1>2, <1>4, <1>6, <2>1
<1>8. \A c \in DataBlocks : words'[c] =
        IF c = b THEN Zeroes
        ELSE IF q >= NDIRECT /\ ind # 0 /\ c = ind THEN [words[ind] EXCEPT ![q - NDIRECT] = b]
        ELSE words[c]
  <2>1. \A c \in DataBlocks : Cleared(b)[c] = IF c = b THEN Zeroes ELSE words[c]
    BY DEF Cleared, FileTypeOK
  <2>2. DOMAIN Cleared(b) = DataBlocks
    BY DEF Cleared, FileTypeOK
  <2> HIDE DEF Cleared
  <2>3. CASE q >= NDIRECT /\ ind # 0
    <3>1. words' = [Cleared(b) EXCEPT ![ind][q - NDIRECT] = b]
      BY <1>3, <2>3
    <3>2. words' = [Cleared(b) EXCEPT ![ind] = [Cleared(b)[ind] EXCEPT ![q - NDIRECT] = b]]
      BY <3>1
    <3> QED  BY <1>7, <2>1, <2>2, <2>3, <3>2
  <2>4. CASE ~(q >= NDIRECT /\ ind # 0)
    BY <1>3, <2>1, <2>4
  <2> QED  BY <2>3, <2>4
<1>9. /\ \A c \in Callers : c # p => op'[c] = op[c]
      /\ op'[p] = [op[p] EXCEPT !.log = L]
      /\ op'[p].ip = i /\ op'[p].at = "write" /\ op'[p].n = op[p].n /\ op'[p].n1 = op[p].n1
      /\ op'[p].tot = op[p].tot /\ op'[p].log = L
  BY <1>1, <1>2, <1>3, <1>4 DEF FileTypeOK, OpType, At
<1>10. \A j \in Inums : j # i =>
         /\ addrs'[j] = addrs[j]
         /\ addrs[j][NDIRECT] # 0 => words'[addrs[j][NDIRECT]] = words[addrs[j][NDIRECT]]
         /\ \A k \in Places : Ref(j, k)' = Ref(j, k)
  <2> TAKE j \in Inums
  <2> SUFFICES ASSUME j # i
               PROVE  /\ addrs'[j] = addrs[j]
                      /\ addrs[j][NDIRECT] # 0
                           => words'[addrs[j][NDIRECT]] = words[addrs[j][NDIRECT]]
                      /\ \A k \in Places : Ref(j, k)' = Ref(j, k)
    OBVIOUS
  <2>1. addrs'[j] = addrs[j]
    BY <1>3 DEF FileTypeOK
  <2>2. addrs[j][NDIRECT] # 0 => addrs[j][NDIRECT] # ind
    BY <1>2, <1>4, IndirectRef DEF BlocksOwned
  <2>3. addrs[j][NDIRECT] # 0 => words'[addrs[j][NDIRECT]] = words[addrs[j][NDIRECT]]
    <3>1. addrs[j][NDIRECT] \in DataBlocks \cup {0}
      BY Sizes DEF FileTypeOK, AddrsType
    <3> QED  BY <1>6, <1>8, <2>2, <3>1
  <2>4. \A k \in Places : k \in Int
    BY Sizes DEF Places
  <2> QED  BY <2>1, <2>3, <2>4, SameRefs
<1>11. \A c \in bitmap : words'[c] = words[c] \/ \E j \in Inums : c = addrs[j][NDIRECT]
  BY <1>1, <1>2, <1>4, <1>8 DEF FileTypeOK
<1>12. FileTypeOK'
  <2>1. L \in SUBSET LogBlocks
    <3>1. b \div BPB \in Nat
      BY <1>6, FileDataAssumption
    <3>2. op[p].log \in SUBSET LogBlocks
      BY <1>4 DEF OpType
    <3>3. ind # 0 => ind \in DataBlocks
      BY <1>7
    <3> QED  BY <1>3, <3>1, <3>2, <3>3 DEF LogBlocks, BBLOCK, Disk
  <2>2. op'[p] \in OpType
    BY <1>4, <1>9, <2>1 DEF OpType
  <2>3. op' \in [Callers -> OpType]
    BY <1>3, <1>9, <2>2 DEF FileTypeOK
  <2>4. Zeroes \in [Words -> Nat]
    BY DEF Zeroes
  <2>5. Cleared(b) \in [DataBlocks -> [Words -> Nat]]
    BY <2>4 DEF FileTypeOK, Cleared
  <2>6. words' \in [DataBlocks -> [Words -> Nat]]
    <3>1. CASE q >= NDIRECT /\ ind # 0
      <4>1. words' = [Cleared(b) EXCEPT ![ind][q - NDIRECT] = b]
        BY <1>3, <3>1
      <4> HIDE DEF Cleared
      <4> QED  BY <1>6, <2>5, <4>1
    <3>2. CASE ~(q >= NDIRECT /\ ind # 0)
      BY <1>3, <2>5, <3>2
    <3> QED  BY <3>1, <3>2
  <2>7. addrs' \in [Inums -> AddrsType]
    <3>1. CASE q >= NDIRECT /\ ind # 0
      BY <1>3, <3>1 DEF FileTypeOK
    <3>2. CASE ~(q >= NDIRECT /\ ind # 0)
      <4>1. PICK k : k = IF q < NDIRECT THEN q ELSE NDIRECT
        OBVIOUS
      <4>2. k \in 0 .. NDIRECT
        BY <1>4, <4>1, Sizes
      <4>3. addrs' = [addrs EXCEPT ![i][k] = b]
        BY <1>3, <3>2, <4>1
      <4>4. addrs' = [addrs EXCEPT ![i] = [addrs[i] EXCEPT ![k] = b]]
        BY <4>3
      <4>5. [addrs[i] EXCEPT ![k] = b] \in AddrsType
        BY <1>4, <4>2 DEF FileTypeOK, AddrsType
      <4> QED  BY <4>4, <4>5 DEF FileTypeOK
    <3> QED  BY <3>1, <3>2
  <2>8. bitmap' \subseteq DataBlocks
    BY <1>1 DEF FileTypeOK
  <2> QED  BY <1>1, <2>3, <2>6, <2>7, <2>8 DEF FileTypeOK
<1>13. OpInv'
  <2>1. \A c \in Callers : op'[c].at = op[c].at /\ op'[c].ip = op[c].ip /\ op'[c].n = op[c].n
                           /\ op'[c].n1 = op[c].n1 /\ op'[c].tot = op[c].tot
    BY <1>1, <1>2, <1>9 DEF At
  <2>2. \A j \in Inums : ilk[j] # NoCaller => ilk[j] \in Callers
    BY DEF FileTypeOK
  <2>3. \A j \in Inums : ilk'[j] # NoCaller => op'[ilk'[j]].at = "write" /\ op'[ilk'[j]].ip = j
    BY <1>1, <2>1, <2>2 DEF OpInv, At
  <2>4. \A c \in Callers : op'[c].at # "out" => op'[c].ip \in Inums /\ op'[c].n > 0
    BY <2>1 DEF OpInv, At
  <2>5. \A c \in Callers : op'[c].at = "write" =>
          /\ ilk'[op'[c].ip] = c /\ op'[c].tot <= op'[c].n1
          /\ op'[c].n1 <= op'[c].n /\ op'[c].n1 \in 1 .. Max
          /\ off'[op'[c].ip] + op'[c].n1 <= MAXFILE * BSIZE
    BY <1>1, <2>1 DEF OpInv, At
  <2> QED  BY <2>3, <2>4, <2>5 DEF OpInv, At, Max, MAXFILE, NINDIRECT
<1>14. OffInv'
  BY <1>1 DEF OffInv
<1>15. Offset(p)' = pos /\ Begun(p)' = Begun(p) /\ Begun(p) \in Int
  <2>1. Offset(p)' = pos
    BY <1>1, <1>4, <1>9 DEF Offset
  <2>2. Offset(p)' = Offset(p) /\ off'[op'[p].ip] = off[op[p].ip]
    BY <1>1, <1>2, <1>9, <2>1
  <2>3. Begun(p)' = Begun(p)
    BY <2>2 DEF Begun, Started
  <2>4. Started(off[i]) \in Int /\ Started(pos) \in Int
    BY <1>4, Sizes, StartedType
  <2>5. Begun(p) = 2 * (Started(pos) - Started(off[i])) + IF off[i] % BSIZE = 0 THEN 0 ELSE 1
    BY <1>2 DEF Begun
  <2> QED  BY <2>1, <2>3, <2>4, <2>5
<1> DEFINE d == <<"block", ind>>
<1>16. /\ IsFiniteSet(op[p].log)
       /\ Cardinality(op[p].log \ {d}) <= Begun(p) + IF ind = 0 THEN 0 ELSE 1
  <2>1. Accounted(p)
    BY <1>1 DEF LogInv
  <2> QED  BY <1>1, <1>2, <2>1 DEF Accounted, Logged, Indirect, Disk
<1> HIDE DEF d
<1>17. NextBlock(p)' = Block(i, q)'
  <2>1. op'[p].ip = i /\ (Offset(p) \div BSIZE)' = q
    BY <1>2, <1>9, <1>15
  <2> QED  BY <2>1 DEF NextBlock, Block
<1>18. /\ Indirect(op[p].ip)' = IF addrs'[i][NDIRECT] = 0 THEN 0 ELSE 1
       /\ Logged(op[p].ip, op[p].log)' = Cardinality(L \ {<<"block", addrs'[i][NDIRECT]>>})
       /\ Logged(op[p].ip, op[p].log \cup {Disk(NextBlock(p))})' =
            Cardinality((L \cup {<<"block", NextBlock(p)'>>})
                          \ {<<"block", addrs'[i][NDIRECT]>>})
  BY <1>9 DEF Indirect, Logged, Disk
<1>19. ASSUME IsFiniteSet(L),
              IF NextBlock(p)' = 0
              THEN Logged(op[p].ip, op[p].log)' <= Begun(p) + Indirect(op[p].ip)'
              ELSE Logged(op[p].ip, op[p].log \cup {Disk(NextBlock(p))})'
                     <= Begun(p) + Indirect(op[p].ip)' + 2
       PROVE  Accounted(p)'
  <2>1. op[p].tot \in Nat /\ op[p].n1 \in Nat
    BY <1>4 DEF OpType
  <2>2. (Offset(p) % BSIZE)' = 0 /\ op'[p].tot # op'[p].n1 /\ op'[p].log = L
    BY <1>1, <1>4, <1>9, <1>15, <2>1
  <2> QED  BY <1>15, <1>19, <2>2 DEF Accounted
<1> DEFINE Given(k) == /\ Ref(i, k) = 0 /\ Ref(i, k)' = b
                       /\ \A l \in Places : l # k => Ref(i, l)' = Ref(i, l)
<1>20. (\E k \in Places : Given(k)) /\ Accounted(p)'
  <2>0. /\ addrs[i] \in [0 .. NDIRECT -> DataBlocks \cup {0}] /\ NDIRECT \in 0 .. NDIRECT
        /\ \A l \in Places : l \in Int /\ l >= 0 /\ (l < MAXFILE \/ l = MAXFILE)
        /\ \A l \in Places : l < MAXFILE /\ ~(l < NDIRECT) => l - NDIRECT \in Words
        /\ q \in Int /\ NDIRECT < MAXFILE
    <3>1. addrs[i] \in [0 .. NDIRECT -> DataBlocks \cup {0}] /\ NDIRECT \in 0 .. NDIRECT
      BY <1>4, Sizes DEF FileTypeOK, AddrsType
    <3>2. \A l \in Places : l \in Int /\ l >= 0 /\ (l < MAXFILE \/ l = MAXFILE)
      BY Sizes DEF Places
    <3>3. \A l \in Places : l < MAXFILE /\ ~(l < NDIRECT) => l - NDIRECT \in Words
      BY <3>2, Sizes DEF Words
    <3>4. q \in Int /\ NDIRECT < MAXFILE
      BY <1>4, Sizes
    <3> QED  BY <3>1, <3>2, <3>3, <3>4
  <2>1. CASE q < NDIRECT
    <3>1. /\ addrs'[i] = [addrs[i] EXCEPT ![q] = b]
          /\ L = op[p].log \cup {BBLOCK(b), Disk(b)}
      <4>1. ~(q >= NDIRECT /\ ind # 0)
        BY <1>4, <2>0, <2>1, Sizes
      <4>2. addrs' = [addrs EXCEPT ![i][q] = b] /\ L = op[p].log \cup {BBLOCK(b), Disk(b)}
        BY <1>3, <2>1, <4>1
      <4> QED  BY <1>4, <4>2 DEF FileTypeOK
    <3>2. addrs'[i][q] = b /\ \A l \in 0 .. NDIRECT : l # q => addrs'[i][l] = addrs[i][l]
      BY <1>4, <2>0, <2>1, <3>1
    <3>3. addrs'[i][NDIRECT] = ind
      BY <1>2, <2>0, <2>1, <3>2
    <3>4. ind # 0 => words'[ind] = words[ind]
      BY <1>7, <1>8, <2>1, <2>0
    <3>5. Block(i, q)' = b
      BY <2>1, <3>2 DEF Block
    <3>6. Given(q)
      <4>1. Ref(i, q)' = b
        BY <1>4, <3>5, Sizes DEF Ref
      <4>2. \A l \in Places : l # q => Ref(i, l)' = Ref(i, l)
        BY <1>2, <2>0, <3>2, <3>3, <3>4 DEF Ref, Block
      <4> QED  BY <1>5, <4>1, <4>2
    <3>7. /\ IsFiniteSet(L) /\ Cardinality(L \ {d}) <= Cardinality(op[p].log \ {d}) + 2
          /\ Cardinality(L \ {d}) \in Nat /\ Cardinality(op[p].log \ {d}) \in Nat
      BY <1>16, <3>1, LogAddTwo
    <3>8. L \cup {<<"block", b>>} = L
      BY <3>1 DEF Disk
    <3>9. Logged(op[p].ip, op[p].log \cup {Disk(NextBlock(p))})' = Cardinality(L \ {d})
      BY <1>17, <1>18, <3>3, <3>5, <3>8 DEF d
    <3>10. Indirect(op[p].ip)' = IF ind = 0 THEN 0 ELSE 1
      BY <1>18, <3>3
    <3>11. Logged(op[p].ip, op[p].log \cup {Disk(NextBlock(p))})'
             <= Begun(p) + Indirect(op[p].ip)' + 2
      BY <1>15, <1>16, <3>7, <3>9, <3>10
    <3>12. NextBlock(p)' # 0
      BY <1>6, <1>17, <3>5
    <3> QED  BY <1>5, <1>19, <3>6, <3>7, <3>11, <3>12
  <2>2. CASE q >= NDIRECT /\ ind = 0
    <3>1. /\ addrs'[i] = [addrs[i] EXCEPT ![NDIRECT] = b]
          /\ L = op[p].log \cup {BBLOCK(b), Disk(b)}
      BY <1>3, <1>4, <2>0, <2>2 DEF FileTypeOK
    <3>2. /\ addrs'[i][NDIRECT] = b
          /\ \A l \in 0 .. NDIRECT : l # NDIRECT => addrs'[i][l] = addrs[i][l]
      BY <1>4, <2>0, <3>1
    <3>3. words'[b] = Zeroes
      BY <1>8
    <3>4. \A l \in Places : l < MAXFILE /\ ~(l < NDIRECT) => Block(i, l)' = 0 /\ Block(i, l) = 0
      BY <1>2, <1>6, <2>0, <2>2, <3>2, <3>3 DEF Block, Zeroes
    <3>5. Given(MAXFILE)
      <4>1. MAXFILE \in Places /\ Ref(i, MAXFILE) = 0
        BY <1>2, <1>4, <2>2, IndirectRef
      <4>2. Ref(i, MAXFILE)' = b
        BY <3>2, <2>0, Sizes DEF Ref
      <4>3. \A l \in Places : l # MAXFILE => Ref(i, l)' = Ref(i, l)
        <5> TAKE l \in Places
        <5>1. CASE l < NDIRECT
          <6>1. l \in 0 .. NDIRECT /\ l # NDIRECT
            BY <2>0, <5>1, Sizes
          <6> QED  BY <2>0, <3>2, <5>1, <6>1, Sizes DEF Ref, Block
        <5>2. CASE ~(l < NDIRECT)
          BY <2>0, <3>4, <5>2 DEF Ref
        <5> QED  BY <5>1, <5>2
      <4> QED  BY <4>1, <4>2, <4>3
    <3>6. NextBlock(p)' = 0
      BY <1>4, <1>5, <1>17, <2>0, <2>2, <3>4, Sizes
    <3> DEFINE e == <<"block", b>>
               y == BBLOCK(b)
    <3>7. d \notin op[p].log
      <4>1. op[p].log \subseteq LogBlocks  BY <1>4 DEF OpType
      <4>2. 0 \notin DataBlocks  BY Sizes DEF DataBlocks
      <4> QED  BY <2>2, <4>1, <4>2 DEF LogBlocks, d
    <3>8. Cardinality(op[p].log \ {d}) = Cardinality(op[p].log)
      <4>1. op[p].log \ {d} = op[p].log  BY <3>7
      <4> QED  BY <4>1, Zenon
    <3>9. L \ {e} = (op[p].log \cup {y}) \ {e}
      BY <3>1 DEF Disk
    <3> HIDE DEF e, y
    <3>10. /\ IsFiniteSet(op[p].log \cup {y})
           /\ Cardinality((op[p].log \cup {y}) \ {e}) <= Cardinality(op[p].log \ {e}) + 1
           /\ Cardinality(op[p].log \ {e}) \in Nat
           /\ Cardinality((op[p].log \cup {y}) \ {e}) \in Nat
      BY <1>16, LogAdd
    <3>11. /\ Cardinality(op[p].log \ {e}) <= Cardinality(op[p].log)
           /\ Cardinality(op[p].log) \in Nat
      BY <1>16, FS_Subset, FS_CardinalityType
    <3>12. Cardinality(op[p].log) <= Begun(p)
      <4>1. Cardinality(op[p].log \ {d}) <= Begun(p) + 0
        BY <1>16, <2>2
      <4> QED  BY <1>15, <3>8, <3>11, <4>1
    <3>13. Logged(op[p].ip, op[p].log)' = Cardinality((op[p].log \cup {y}) \ {e})
      BY <1>18, <3>2, <3>9 DEF e
    <3>14. Indirect(op[p].ip)' = 1
      BY <1>6, <1>18, <3>2
    <3>15. Logged(op[p].ip, op[p].log)' <= Begun(p) + Indirect(op[p].ip)'
      BY <1>15, <3>10, <3>11, <3>12, <3>13, <3>14
    <3>16. IsFiniteSet(L)
      <4>1. L = (op[p].log \cup {y}) \cup {e}
        BY <3>1 DEF y, e, Disk
      <4> QED  BY <3>10, <4>1, FS_AddElement
    <3>17. MAXFILE \in Places
      BY <1>4, IndirectRef
    <3> QED  BY <1>19, <3>5, <3>6, <3>15, <3>16, <3>17
  <2>3. CASE q >= NDIRECT /\ ind # 0
    <3>1. /\ addrs' = addrs
          /\ L = op[p].log \cup {BBLOCK(b), Disk(b), Disk(ind)}
      BY <1>3, <2>3
    <3>2. words'[ind] = [words[ind] EXCEPT ![q - NDIRECT] = b]
      BY <1>7, <1>8, <2>3
    <3>3. words[ind] \in [Words -> Nat] /\ q - NDIRECT \in Words
      BY <1>4, <1>5, <1>7, <2>0, <2>3 DEF FileTypeOK
    <3>4. /\ words'[ind][q - NDIRECT] = b
          /\ \A w \in Words : w # q - NDIRECT => words'[ind][w] = words[ind][w]
      BY <3>2, <3>3
    <3>5. Block(i, q)' = b
      BY <1>2, <2>0, <2>3, <3>1, <3>4, Sizes DEF Block
    <3>6. Given(q)
      <4>1. Ref(i, q)' = b
        BY <1>4, <3>5, Sizes DEF Ref
      <4>2. \A l \in Places : l # q => Ref(i, l)' = Ref(i, l)
        <5> SUFFICES ASSUME NEW l \in Places, l # q PROVE Ref(i, l)' = Ref(i, l)
          OBVIOUS
        <5>1. CASE l < NDIRECT \/ l = MAXFILE
          BY <2>0, <3>1, <5>1, Sizes DEF Ref, Block
        <5>2. CASE ~(l < NDIRECT) /\ l < MAXFILE
          <6>1. l - NDIRECT \in Words /\ l - NDIRECT # q - NDIRECT
            BY <2>0, <5>2, Sizes
          <6> QED  BY <1>2, <2>3, <3>1, <3>4, <5>2, <6>1 DEF Ref, Block
        <5> QED  BY <2>0, <5>1, <5>2
      <4> QED  BY <1>5, <4>1, <4>2
    <3> DEFINE T == op[p].log \cup {BBLOCK(b), Disk(b)}
    <3>7. /\ IsFiniteSet(T) /\ Cardinality(T \ {d}) <= Cardinality(op[p].log \ {d}) + 2
          /\ Cardinality(T \ {d}) \in Nat /\ Cardinality(op[p].log \ {d}) \in Nat
      BY <1>16, LogAddTwo
    <3>8. (L \cup {<<"block", b>>}) \ {d} = T \ {d} /\ L = T \cup {d}
      BY <3>1 DEF Disk, d
    <3> HIDE DEF T
    <3>9. Logged(op[p].ip, op[p].log \cup {Disk(NextBlock(p))})' = Cardinality(T \ {d})
      BY <1>2, <1>17, <1>18, <3>1, <3>5, <3>8 DEF d
    <3>10. Indirect(op[p].ip)' = 1
      BY <1>2, <1>18, <2>3, <3>1
    <3>11. Logged(op[p].ip, op[p].log \cup {Disk(NextBlock(p))})'
             <= Begun(p) + Indirect(op[p].ip)' + 2
      BY <1>15, <1>16, <2>3, <3>7, <3>9, <3>10
    <3>12. NextBlock(p)' # 0
      BY <1>6, <1>17, <3>5
    <3>13. IsFiniteSet(L)
      BY <3>7, <3>8, FS_AddElement
    <3> QED  BY <1>5, <1>19, <3>6, <3>11, <3>12, <3>13
  <2> QED  BY <1>4, <2>1, <2>2, <2>3, Sizes
<1>21. PICK k \in Places : Given(k)
  BY <1>20
<1>22. \A j \in Inums : \A l \in Places : (j = i /\ l = k) \/ Ref(j, l)' = Ref(j, l)
  BY <1>10, <1>21
<1>23. /\ BlocksOwned'
       /\ \A j \in Inums : \A o \in 0 .. MAXFILE * BSIZE - 1 : Has(j, o) => Has(j, o)'
  BY <1>1, <1>4, <1>11, <1>21, <1>22, Granted
<1>24. \A c \in Callers : c # p /\ op'[c].at = "write" =>
         Copied(c)' /\ InodeKept(c)' /\ Accounted(c)'
  <2> SUFFICES ASSUME NEW c \in Callers, c # p, op'[c].at = "write"
               PROVE  Copied(c)' /\ InodeKept(c)' /\ Accounted(c)'
    OBVIOUS
  <2>1. PICK j \in Inums : j = op[c].ip
    BY <1>9 DEF At, OpInv
  <2>2. At(c, "write") /\ op'[c] = op[c] /\ j # i
    BY <1>4, <1>9, <2>1 DEF At
  <2> QED  BY <1>1, <1>10, <1>23, <2>1, <2>2, OtherWrite
<1>25. DataInv'
  <2>1. \A j \in Inums : \A o \in 0 .. size'[j] - 1 : Has(j, o)'
    <3>1. \A j \in Inums : \A o \in 0 .. size[j] - 1 : o \in 0 .. MAXFILE * BSIZE - 1
      BY Sizes DEF FileTypeOK, SizeType
    <3> QED  BY <1>1, <1>23, <3>1 DEF DataInv
  <2>2. Copied(p)'
    <3>1. \A o \in off[i] .. pos - 1 : Has(i, o)'
      <4>1. \A o \in off[i] .. pos - 1 : o \in 0 .. MAXFILE * BSIZE - 1
        BY <1>4, Sizes
      <4>2. Copied(p)
        BY <1>1 DEF DataInv
      <4> QED  BY <1>2, <1>4, <1>23, <4>1, <4>2 DEF Copied
    <3>2. off'[op'[p].ip] = off[i] /\ op'[p].ip = i /\ Offset(p)' = pos
      BY <1>1, <1>9, <1>15
    <3> QED  BY <3>1, <3>2 DEF Copied
  <2>3. InodeKept(p)'
    <3>1. off'[op'[p].ip] + op'[p].n1 > size'[op'[p].ip]
      BY <1>1, <1>4, <1>9
    <3> QED  BY <3>1 DEF InodeKept
  <2>4. \A j \in Inums : ilk'[j] = NoCaller => dinode'[j] = <<addrs'[j], size'[j]>>
    <3>1. ilk[i] = p /\ p # NoCaller
      BY <1>1, <1>2, FileDataAssumption DEF OpInv
    <3> QED  BY <1>1, <1>10, <3>1 DEF DataInv
  <2> QED  BY <1>24, <2>1, <2>2, <2>3, <2>4 DEF DataInv, At
<1>26. LogInv'
  BY <1>20, <1>24 DEF LogInv, At
<1> QED
  BY <1>12, <1>13, <1>14, <1>23, <1>25, <1>26

\* itrunc() frees what the inode reaches, and nothing else.
LEMMA ItruncSafe ==
  ASSUME FileInv, NEW i \in Inums, Itrunc(i)
  PROVE  FileInv'
<1> USE DEF FileInv
<1>1. /\ bitmap' = bitmap \ Reached(i) /\ addrs' = [addrs EXCEPT ![i] = NoAddrs]
      /\ size' = [size EXCEPT ![i] = 0] /\ dinode' = [dinode EXCEPT ![i] = <<NoAddrs, 0>>]
      /\ off' = [off EXCEPT ![i] = 0]
      /\ words' = [c \in DataBlocks |-> IF c \in Reached(i) THEN Junk ELSE words[c]]
      /\ UNCHANGED <<ilk, op>> /\ NotInUse(i)
  BY DEF Itrunc
<1>2. /\ addrs'[i] = NoAddrs /\ size'[i] = 0 /\ dinode'[i] = <<NoAddrs, 0>> /\ off'[i] = 0
      /\ \A j \in Inums : j # i => /\ addrs'[j] = addrs[j] /\ size'[j] = size[j]
                                   /\ dinode'[j] = dinode[j] /\ off'[j] = off[j]
  BY <1>1 DEF FileTypeOK
<1>3. \A k \in Places : Ref(i, k)' = 0
  BY <1>2, Sizes DEF Ref, Block, NoAddrs, Places
<1>4. \A j \in Inums : \A k \in Places : j # i /\ Ref(j, k) # 0 =>
         Ref(j, k) \in bitmap /\ Ref(j, k) \in DataBlocks /\ Ref(j, k) \notin Reached(i)
  <2> TAKE j \in Inums
  <2> TAKE k \in Places
  <2> SUFFICES ASSUME j # i, Ref(j, k) # 0
               PROVE  /\ Ref(j, k) \in bitmap /\ Ref(j, k) \in DataBlocks
                      /\ Ref(j, k) \notin Reached(i)
    OBVIOUS
  <2>1. Ref(j, k) \in bitmap /\ Ref(j, k) \in DataBlocks
    BY RefType
  <2>2. \A l \in Places : Ref(i, l) # Ref(j, k)
    BY DEF BlocksOwned
  <2> QED  BY <2>1, <2>2 DEF Reached
<1>5. \A j \in Inums : j # i =>
         /\ addrs[j][NDIRECT] # 0 => words'[addrs[j][NDIRECT]] = words[addrs[j][NDIRECT]]
         /\ \A k \in Places : Ref(j, k)' = Ref(j, k)
  <2> TAKE j \in Inums
  <2> SUFFICES ASSUME j # i
               PROVE  /\ addrs[j][NDIRECT] # 0
                           => words'[addrs[j][NDIRECT]] = words[addrs[j][NDIRECT]]
                      /\ \A k \in Places : Ref(j, k)' = Ref(j, k)
    OBVIOUS
  <2>1. MAXFILE \in Places /\ addrs[j][NDIRECT] = Ref(j, MAXFILE)
    BY IndirectRef
  <2>2. addrs[j][NDIRECT] # 0 => words'[addrs[j][NDIRECT]] = words[addrs[j][NDIRECT]]
    BY <1>1, <1>4, <2>1
  <2>3. \A k \in Places : k \in Int
    BY Sizes DEF Places
  <2> QED  BY <1>2, <2>2, <2>3, SameRefs
<1>6. FileTypeOK'
  <2>1. Junk \in [Words -> Nat] /\ NoAddrs \in AddrsType /\ 0 \in SizeType
    BY Sizes DEF Junk, NoAddrs, AddrsType, SizeType
  <2>2. words' \in [DataBlocks -> [Words -> Nat]]
    BY <1>1, <2>1 DEF FileTypeOK
  <2>3. /\ addrs' \in [Inums -> AddrsType] /\ size' \in [Inums -> SizeType]
        /\ off' \in [Inums -> SizeType]
    BY <1>1, <2>1 DEF FileTypeOK
  <2>4. dinode' \in [Inums -> AddrsType \X SizeType]
    BY <1>1, <2>1 DEF FileTypeOK
  <2> QED  BY <1>1, <2>2, <2>3, <2>4 DEF FileTypeOK
<1>7. BlocksOwned'
  <2>1. \A j \in Inums, k \in Places : Ref(j, k)' \in bitmap' \cup {0}
    BY <1>1, <1>3, <1>4, <1>5 DEF BlocksOwned
  <2>2. \A c \in bitmap' : \E j \in Inums, k \in Places : Ref(j, k)' = c
    <3> TAKE c \in bitmap'
    <3>1. c \in bitmap /\ c \notin Reached(i)
      BY <1>1
    <3>2. PICK j \in Inums, k \in Places : Ref(j, k) = c
      BY <3>1 DEF BlocksOwned
    <3>3. j # i
      BY <3>1, <3>2 DEF Reached
    <3> QED  BY <1>5, <3>2, <3>3
  <2>3. \A j1, j2 \in Inums : \A l1, l2 \in Places :
          Ref(j1, l1)' = Ref(j2, l2)' /\ Ref(j1, l1)' # 0 => j1 = j2 /\ l1 = l2
    BY <1>3, <1>5 DEF BlocksOwned
  <2> QED  BY <2>1, <2>2, <2>3 DEF BlocksOwned, Places
<1>8. \A j \in Inums : \A o \in 0 .. MAXFILE * BSIZE - 1 : j # i /\ Has(j, o) => Has(j, o)'
  <2> SUFFICES ASSUME NEW j \in Inums, NEW o \in 0 .. MAXFILE * BSIZE - 1, j # i, Has(j, o)
               PROVE  Has(j, o)'
    OBVIOUS
  <2>1. PICK l \in 0 .. MAXFILE - 1 : l = o \div BSIZE
    BY OffsetBlock
  <2>2. PICK c : c = Block(j, l)
    OBVIOUS
  <2>3. c # 0 /\ words[c][o % BSIZE] = Datum(j, o)
    BY <2>1, <2>2 DEF Has
  <2>4. l \in Places /\ c = Ref(j, l) /\ l # MAXFILE
    BY <2>1, <2>2, BlockRef, Sizes
  <2>5. words'[c] = words[c]
    BY <1>1, <1>4, <2>3, <2>4
  <2>6. Ref(j, l)' = c
    BY <1>5, <2>4
  <2>7. Block(j, l)' = c
    BY <2>4, <2>6, Sizes DEF Ref, Places
  <2> QED  BY <2>1, <2>3, <2>5, <2>7 DEF Has
<1>9. \A q \in Callers : op[q].ip # i
  BY <1>1 DEF NotInUse
<1>10. OpInv'
  BY <1>1, <1>2, <1>9 DEF OpInv, At, FileTypeOK
<1>11. OffInv'
  BY <1>2, Sizes DEF OffInv
<1>12. \A q \in Callers : At(q, "write") => Copied(q)' /\ InodeKept(q)' /\ Accounted(q)'
  <2> SUFFICES ASSUME NEW q \in Callers, At(q, "write")
               PROVE  Copied(q)' /\ InodeKept(q)' /\ Accounted(q)'
    OBVIOUS
  <2>1. PICK j \in Inums : j = op[q].ip
    BY DEF At, OpInv
  <2>2. op'[q] = op[q] /\ j # i
    BY <1>1, <1>9, <2>1
  <2> QED  BY <1>2, <1>5, <1>8, <2>1, <2>2, OtherWrite
<1>13. DataInv'
  <2>1. \A j \in Inums : \A o \in 0 .. size'[j] - 1 : Has(j, o)'
    <3> TAKE j \in Inums
    <3>1. CASE j = i
      BY <1>2, <3>1
    <3>2. CASE j # i
      <4>1. \A o \in 0 .. size[j] - 1 : o \in 0 .. MAXFILE * BSIZE - 1
        BY Sizes DEF FileTypeOK, SizeType
      <4> QED  BY <1>2, <1>8, <3>2, <4>1 DEF DataInv
    <3> QED  BY <3>1, <3>2
  <2>2. \A j \in Inums : ilk'[j] = NoCaller => dinode'[j] = <<addrs'[j], size'[j]>>
    BY <1>1, <1>2 DEF DataInv
  <2> QED  BY <1>1, <1>12, <2>1, <2>2 DEF DataInv, At
<1>14. LogInv'
  BY <1>1, <1>12 DEF LogInv, At
<1> QED
  BY <1>6, <1>7, <1>10, <1>11, <1>13, <1>14

-----------------------------------------------------------------------------
(* Theorems                                                                *)

\* A step that changes nothing.
LEMMA FileStutter ==
  ASSUME FileInv, UNCHANGED fileVars
  PROVE  FileInv'
<1> USE DEF FileInv, fileVars, onDisk, inMemory
<1>1. FileTypeOK' /\ OpInv' /\ OffInv'
  BY DEF FileTypeOK, OpInv, OffInv, At
<1>2. BlocksOwned' /\ DataInv'
  BY SameData, SameCopied DEF DataInv, At, OpInv, FileTypeOK
<1>3. LogInv'
  BY SameAccount DEF LogInv, At, NextBlock, Offset, Block
<1> QED
  BY <1>1, <1>2, <1>3

\* Every step keeps the invariant: the blocks of files, their words, and the accounts of the
\* writes that are under way.
THEOREM FileSafety == FileSpec => []FileInv
<1>1. FileInit => FileInv
  BY FileInitSafe
<1>2. FileInv /\ [FileNext]_fileVars => FileInv'
  <2> SUFFICES ASSUME FileInv, [FileNext]_fileVars PROVE FileInv'
    OBVIOUS
  <2>1. CASE UNCHANGED fileVars
    BY <2>1, FileStutter
  <2>2. CASE FileNext
    <3>1. ASSUME NEW p \in Callers, NEW i \in Inums, NEW n \in Lengths, Write(p, i, n)
          PROVE  FileInv'
      BY <3>1, WriteSafe
    <3>2. ASSUME NEW p \in Callers, NEW b \in DataBlocks, Bmap(p, b) PROVE FileInv'
      BY <3>2, BmapSafe
    <3>3. ASSUME NEW p \in Callers, Chunk(p) PROVE FileInv'
      BY <3>3, ChunkSafe
    <3>4. ASSUME NEW p \in Callers, Copy(p) PROVE FileInv'
      BY <3>4, CopySafe
    <3>5. ASSUME NEW p \in Callers, EndChunk(p) PROVE FileInv'
      BY <3>5, EndChunkSafe
    <3>6. ASSUME NEW i \in Inums, Reopen(i) PROVE FileInv'
      BY <3>6, ReopenSafe
    <3>7. ASSUME NEW i \in Inums, Itrunc(i) PROVE FileInv'
      BY <3>7, ItruncSafe
    <3>8. ASSUME NEW i \in Inums, NEW n \in Lengths, Read(i, n) PROVE FileInv'
      BY <3>8, ReadSafe
    <3> QED  BY <2>2, <3>1, <3>2, <3>3, <3>4, <3>5, <3>6, <3>7, <3>8 DEF FileNext
  <2> QED  BY <2>1, <2>2
<1> QED
  BY <1>1, <1>2, PTL DEF FileSpec

\* Blocks have one owner, and a file has its contents.
THEOREM FilesKept == FileSpec => []FilesSound
<1>1. FileInv => FilesSound
  BY DEF FileInv, FilesSound, ContentKept, DataInv
<1> QED
  BY <1>1, FileSafety, PTL

\* The blocks that begin within the words of a transaction.
LEMMA StartedBound ==
  ASSUME NEW k \in Nat \ {0}, NEW first \in Nat, NEW t \in Nat, t <= k * BSIZE
  PROVE  /\ Started(first + t) - Started(first) <= k
         /\ (first + t) % BSIZE = 0 /\ t < k * BSIZE
              => Started(first + t) - Started(first) <= k - 1
<1>1. PICK pos : pos = first + t
  OBVIOUS
<1>2. PICK q, s, f, r : q = pos \div BSIZE /\ s = pos % BSIZE
                        /\ f = first \div BSIZE /\ r = first % BSIZE
  OBVIOUS
<1>3. /\ q \in Int /\ s \in 0 .. BSIZE - 1 /\ pos = BSIZE * q + s
      /\ f \in Int /\ r \in 0 .. BSIZE - 1 /\ first = BSIZE * f + r
      /\ BSIZE \in Nat \ {0} /\ pos \in Nat
  <2>1. pos \in Nat /\ BSIZE \in Nat \ {0}
    BY <1>1, Sizes
  <2> QED  BY <1>2, <2>1, Quotient
<1>4. PICK u, v, w : u = BSIZE * q /\ v = BSIZE * f /\ w = BSIZE * k
  OBVIOUS
<1>5. /\ u \in Int /\ v \in Int /\ w \in Int /\ k * BSIZE = w
      /\ BSIZE * (f + k) = v + w
  BY <1>3, <1>4
<1>6. u + s = v + r + t /\ t <= w
  BY <1>1, <1>3, <1>4, <1>5
<1>7. q <= f + k
  <2> SUFFICES ASSUME f + k < q PROVE FALSE
    BY <1>3
  <2>1. PICK n : n = f + k
    OBVIOUS
  <2>2. n \in Int /\ n < q /\ BSIZE * n = v + w
    BY <1>3, <1>5, <2>1
  <2>3. BSIZE * n + BSIZE <= BSIZE * q
    BY <1>3, <2>2, ProductLess
  <2>4. v + w + BSIZE <= u
    BY <1>4, <2>2, <2>3
  <2> QED  BY <1>3, <1>5, <1>6, <2>4
<1>8. q = f + k => u = v + w
  BY <1>4, <1>5
<1>9. /\ Started(pos) = IF s = 0 THEN q ELSE q + 1
      /\ Started(first) = IF r = 0 THEN f ELSE f + 1
  BY <1>2 DEF Started
<1>10. r = 0 /\ s # 0 => q <= f + k - 1
  BY <1>3, <1>5, <1>6, <1>7, <1>8
<1>11. r = 0 /\ s = 0 /\ t < w => q <= f + k - 1
  BY <1>3, <1>5, <1>6, <1>7, <1>8
<1>12. Started(pos) - Started(first) <= k
  BY <1>3, <1>7, <1>9, <1>10
<1>13. s = 0 /\ t < w => Started(pos) - Started(first) <= k - 1
  BY <1>3, <1>7, <1>9, <1>11
<1> QED
  BY <1>1, <1>2, <1>5, <1>12, <1>13

\* A transaction logs no more blocks than begin_op() has reserved: two for each block that
\* its words begin, one for a block that others begin, and the inode, the indirect block and
\* the bitmap block of that.
LEMMA RoomForWrite == FileInv => TransactionFits
<1> SUFFICES ASSUME FileInv, NEW p \in Callers, At(p, "write")
             PROVE  Cardinality(op[p].log \cup {Dinode(op[p].ip)}) <= MAXOPBLOCKS
  BY DEF TransactionFits
<1> USE DEF FileInv
<1>1. PICK i, pos, first, t, S, d, x :
        /\ i = op[p].ip /\ pos = Offset(p) /\ first = off[i] /\ t = op[p].tot
        /\ S = op[p].log /\ d = Disk(addrs[i][NDIRECT]) /\ x = Dinode(i)
  OBVIOUS
<1>2. PICK k \in Nat \ {0} : Max = k * BSIZE /\ 2 * k + 4 <= MAXOPBLOCKS
  BY MaxBlocks
<1>3. /\ first \in Nat /\ t \in Nat /\ pos = first + t /\ op[p].n1 \in Nat
      /\ t <= op[p].n1 /\ op[p].n1 <= k * BSIZE /\ k * BSIZE \in Nat
  <2>1. i \in Inums /\ op[p] \in OpType
    BY <1>1 DEF OpInv, At, FileTypeOK
  <2>2. first \in Nat /\ t \in Nat /\ op[p].n1 \in Nat
    BY <1>1, <2>1, Sizes DEF FileTypeOK, OpType, SizeType
  <2>3. t <= op[p].n1 /\ op[p].n1 <= Max
    BY <1>1, <1>2, MaxBlocks DEF OpInv
  <2> QED  BY <1>1, <1>2, <2>2, <2>3, MaxBlocks DEF Offset
<1>4. Accounted(p)
  BY DEF LogInv
<1>5. PICK g : g = Started(pos) - Started(first)
  OBVIOUS
<1>6. /\ g \in Int /\ g <= k /\ (pos % BSIZE = 0 /\ t < k * BSIZE => g <= k - 1)
  <2>1. pos \in Nat /\ t <= k * BSIZE
    BY <1>3
  <2>2. Started(pos) \in Int /\ Started(first) \in Int
    BY <1>3, <2>1, StartedType
  <2> QED  BY <1>3, <1>5, <2>1, <2>2, StartedBound
<1>7. Begun(p) \in Int /\ Begun(p) <= 2 * g + 1
  <2>1. Begun(p) = 2 * g + IF first % BSIZE = 0 THEN 0 ELSE 1
    BY <1>1, <1>5 DEF Begun
  <2> QED  BY <1>6, <2>1
<1>8. Indirect(i) \in {0, 1}
  BY DEF Indirect
<1>9. /\ IsFiniteSet(S) /\ Cardinality(S \ {d}) \in Nat
      /\ \A y : /\ Cardinality((S \cup {y}) \ {d}) \in Nat
                /\ Cardinality(S \ {d}) <= Cardinality((S \cup {y}) \ {d})
  <2>1. IsFiniteSet(S)
    BY <1>1, <1>4 DEF Accounted
  <2> SUFFICES ASSUME NEW y
               PROVE  /\ Cardinality(S \ {d}) \in Nat
                      /\ Cardinality((S \cup {y}) \ {d}) \in Nat
                      /\ Cardinality(S \ {d}) <= Cardinality((S \cup {y}) \ {d})
    BY <2>1
  <2>2. IsFiniteSet(S \cup {y}) /\ S \ {d} \subseteq (S \cup {y}) \ {d}
    BY <2>1, AddOne
  <2>3. IsFiniteSet((S \cup {y}) \ {d})
    BY <2>2, FS_Subset
  <2> QED  BY <2>1, <2>2, <2>3, LogAdd, FS_Subset
<1>10. Cardinality(S \ {d}) <= 2 * k + 2
  <2>1. CASE op[p].tot = op[p].n1 \/ NextBlock(p) = 0
    <3>1. Cardinality(S \ {d}) <= Begun(p) + Indirect(i)
      BY <1>1, <1>4, <2>1 DEF Accounted, Logged
    <3> QED  BY <1>6, <1>7, <1>8, <1>9, <3>1
  <2>2. CASE ~(op[p].tot = op[p].n1 \/ NextBlock(p) = 0)
    <3>1. PICK y : y = Disk(NextBlock(p))
      OBVIOUS
    <3>2. Cardinality((S \cup {y}) \ {d})
            <= Begun(p) + Indirect(i) + IF pos % BSIZE = 0 THEN 2 ELSE 0
      BY <1>1, <1>4, <2>2, <3>1 DEF Accounted, Logged
    <3>3. t < k * BSIZE
      BY <1>1, <1>3, <2>2
    <3>4. Cardinality((S \cup {y}) \ {d}) \in Nat
          /\ Cardinality(S \ {d}) <= Cardinality((S \cup {y}) \ {d})
      BY <1>9
    <3>5. CASE pos % BSIZE = 0
      <4>1. g <= k - 1  BY <1>6, <3>3, <3>5
      <4>2. Cardinality((S \cup {y}) \ {d}) <= Begun(p) + Indirect(i) + 2  BY <3>2, <3>5
      <4> QED  BY <1>6, <1>7, <1>8, <1>9, <3>4, <4>1, <4>2
    <3>6. CASE pos % BSIZE # 0
      <4>1. Cardinality((S \cup {y}) \ {d}) <= Begun(p) + Indirect(i) + 0  BY <3>2, <3>6
      <4> QED  BY <1>6, <1>7, <1>8, <1>9, <3>4, <4>1
    <3> QED  BY <3>5, <3>6
  <2> QED  BY <2>1, <2>2
<1>11. Cardinality(S \cup {x}) <= Cardinality(S \ {d}) + 2 /\ Cardinality(S \cup {x}) \in Nat
  <2> DEFINE T == S \ {d}
             U == T \cup {d}
             V == U \cup {x}
  <2>1. IsFiniteSet(T)
    BY <1>9, FS_Subset
  <2>2. S \cup {x} \subseteq V
    OBVIOUS
  <2> HIDE DEF T
  <2>3. /\ IsFiniteSet(U) /\ Cardinality(U) <= Cardinality(T) + 1
        /\ Cardinality(T) \in Nat /\ Cardinality(U) \in Nat
    BY <2>1, AddOne
  <2> HIDE DEF U
  <2>4. IsFiniteSet(V) /\ Cardinality(V) <= Cardinality(U) + 1 /\ Cardinality(V) \in Nat
    BY <2>3, AddOne
  <2> HIDE DEF V
  <2>5. Cardinality(S \cup {x}) <= Cardinality(V) /\ IsFiniteSet(S \cup {x})
    BY <2>2, <2>4, FS_Subset
  <2>6. Cardinality(S \cup {x}) \in Nat
    BY <2>5, FS_CardinalityType
  <2> QED  BY <2>3, <2>4, <2>5, <2>6 DEF T
<1>12. Cardinality(S \cup {x}) <= 2 * k + 4
  BY <1>9, <1>10, <1>11
<1>13. MAXOPBLOCKS \in Nat
  BY FileDataAssumption
<1> QED
  BY <1>1, <1>2, <1>11, <1>12, <1>13

\* One transaction of filewrite() fits in what begin_op() has reserved for it.
THEOREM WritesFit == FileSpec => []TransactionFits
BY FileSafety, RoomForWrite, PTL
===============================================================================
