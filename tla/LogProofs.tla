------------------------------ MODULE LogProofs ------------------------------
(***************************************************************************)
(* Proofs about Log, for any processes, blocks, contents and sizes that    *)
(* satisfy its assumptions: its invariant, and that the log implements the *)
(* atomic store, because the disk as recovery would leave it is what the   *)
(* store calls durable, in every state.                                    *)
(***************************************************************************)
EXTENDS Log, FiniteSetTheorems, SequenceTheorems, TLAPS

-----------------------------------------------------------------------------
(* Counting calls and reservations                                         *)

\* Sets of processes and of reservations are finite.
LEMMA Finite ==
  /\ \A S \in SUBSET Procs :
       IsFiniteSet(S) /\ Cardinality(S) \in Nat
  /\ \A R \in SUBSET (Procs \X (1..MAXOPBLOCKS)) :
       /\ IsFiniteSet(R) /\ Cardinality(R) \in Nat
       /\ \A T \in SUBSET R : Cardinality(T) <= Cardinality(R)
<1>1. IsFiniteSet(1..MAXOPBLOCKS)
  BY SizesAssumption, FS_Interval
<1>2. IsFiniteSet(Procs \X (1..MAXOPBLOCKS))
  BY <1>1, FiniteAssumption, FS_Product
<1>3. \A S \in SUBSET Procs : IsFiniteSet(S)
  BY FiniteAssumption, FS_Subset
<1>4. \A R \in SUBSET (Procs \X (1..MAXOPBLOCKS)) : IsFiniteSet(R)
  BY <1>2, FS_Subset
<1> QED
  BY <1>3, <1>4, FS_CardinalityType, FS_Subset

\* A set of calls has reserved at most MAXOPBLOCKS blocks for each.
LEMMA ReservedBound ==
  ASSUME NEW I \in SUBSET Procs, NEW R \in SUBSET (I \X (1..MAXOPBLOCKS))
  PROVE  Cardinality(R) <= Cardinality(I) * MAXOPBLOCKS
<1>1. IsFiniteSet(1..MAXOPBLOCKS) /\ Cardinality(1..MAXOPBLOCKS) = MAXOPBLOCKS
  BY SizesAssumption, FS_Interval
<1>2. IsFiniteSet(I)
  BY Finite
<1>3. /\ IsFiniteSet(I \X (1..MAXOPBLOCKS))
      /\ Cardinality(I \X (1..MAXOPBLOCKS)) = Cardinality(I) * MAXOPBLOCKS
  BY <1>1, <1>2, FS_Product
<1> QED
  BY <1>3, FS_Subset

\* The reservations are a set of pairs.
LEMMA ReservedType ==
  /\ InOp \in SUBSET Procs
  /\ Reserved \in SUBSET (Procs \X (1..MAXOPBLOCKS))
  /\ Reserved \in SUBSET (InOp \X (1..MAXOPBLOCKS))
<1>1. InOp \in SUBSET Procs
  BY DEF InOp
<1>2. Reserved \in SUBSET (Procs \X (1..MAXOPBLOCKS))
  BY DEF Reserved
<1>3. ASSUME NEW r \in Reserved PROVE r \in InOp \X (1..MAXOPBLOCKS)
  BY <1>3 DEF Reserved
<1> QED
  BY <1>1, <1>2, <1>3

\* The space invariant survives a step that lets no call in, adds nothing to
\* the group and takes no reservation back.
LEMMA SpaceFrame ==
  ASSUME SpaceInv, InOp' \subseteq InOp,
         \A p \in InOp' : wset'[p] = wset[p],
         UNCHANGED <<lh, head>>
  PROVE  SpaceInv'
<1>1. Reserved' \in SUBSET Reserved
  BY DEF Reserved
<1>2. /\ Cardinality(Reserved') <= Cardinality(Reserved)
      /\ Cardinality(Reserved) \in Nat /\ Cardinality(Reserved') \in Nat
  BY <1>1, ReservedType, Finite
<1>3. Len(lh) = Len(lh') /\ Len(head) = Len(head')
  OBVIOUS
<1> QED
  BY <1>2, <1>3, SizesAssumption DEF SpaceInv

\* Nothing is reserved when no call is under way.
LEMMA NothingReserved ==
  ASSUME InOp' = {} PROVE Cardinality(Reserved') = 0
<1>1. Reserved' = {}
  BY DEF Reserved
<1> QED
  BY <1>1, FS_EmptySet

\* During a commit and during recovery no call is under way.
LEMMA NoCalls ==
  ASSUME LogInv, phase # "idle" PROVE InOp = {}
BY DEF LogInv, ModeInv, InOp

-----------------------------------------------------------------------------
(* The steps of a call                                                     *)

\* begin_op() waits.
LEMMA BeginSleepSafe ==
  ASSUME LogInv, NEW p \in Procs, BeginSleep(p) PROVE LogInv'
<1> USE DEF BeginSleep, Up, diskVars, bufVars, memVars, runVars
<1>1. InOp' = InOp
  BY DEF LogInv, TypeOK, InOp
<1>2. TypeOK' /\ TailInv'
  BY DEF LogInv, TypeOK, TailInv
<1>3. CountInv' /\ EmptyInv'
  BY <1>1 DEF LogInv, CountInv, EmptyInv
<1>4. HoldInv'
  BY DEF LogInv, TypeOK, HoldInv
<1>5. CallInv'
  BY <1>1 DEF LogInv, CallInv, Logged
<1>6. ModeInv'
  BY <1>1 DEF LogInv, TypeOK, ModeInv
<1>7. SpaceInv'
  BY <1>1, SpaceFrame DEF LogInv
<1>8. NoLostWakeup'
  <2>1. CASE committing
    BY <2>1 DEF NoLostWakeup
  <2>2. CASE ~committing /\ InOp # {}
    BY <1>1, <2>2 DEF NoLostWakeup
  <2>3. CASE ~committing /\ InOp = {}
    <3>1. lh = <<>>
      BY <2>3 DEF LogInv, ModeInv, EmptyInv
    <3>2. outstanding = 0
      BY <2>3, FS_EmptySet DEF LogInv, CountInv
    <3>3. ~NoRoom
      BY <3>1, <3>2, SizesAssumption DEF NoRoom
    <3> QED
      BY <2>3, <3>3 DEF MayBegin
  <2> QED
    BY <2>1, <2>2, <2>3
<1> QED
  BY <1>2, <1>3, <1>4, <1>5, <1>6, <1>7, <1>8 DEF LogInv

\* begin_op() lets a call in and reserves its blocks.
LEMMA BeginOpSafe ==
  ASSUME LogInv, NEW p \in Procs, BeginOp(p) PROVE LogInv'
<1> USE DEF BeginOp, Up, MayBegin, diskVars, bufVars, memVars, runVars
<1>1. InOp' = InOp \cup {p} /\ p \notin InOp
  BY DEF LogInv, TypeOK, InOp
<1>2. TypeOK' /\ TailInv'
  BY DEF LogInv, TypeOK, TailInv
<1>3. outstanding' = Cardinality(InOp')
  <2>1. IsFiniteSet(InOp)
    BY Finite, ReservedType
  <2> QED
    BY <1>1, <2>1, FS_AddElement DEF LogInv, CountInv
<1>4. CountInv'
  BY <1>3 DEF CountInv
<1>5. HoldInv'
  BY DEF LogInv, TypeOK, HoldInv
<1>6. CallInv'
  <2>1. ASSUME NEW q \in InOp', q # p
        PROVE  wset'[q] = wset[q] /\ hold'[q] = hold[q] /\ q \in InOp
    BY <1>1, <2>1 DEF LogInv, TypeOK
  <2>2. wset'[p] = {} /\ hold'[p] = NoBlock
    BY DEF LogInv, TypeOK, HoldInv
  <2>3. IsFiniteSet(wset'[p]) /\ Cardinality(wset'[p]) = 0
    BY <2>2, FS_EmptySet
  <2>4. Cardinality(wset'[p]) <= MAXOPBLOCKS
    BY <2>3, SizesAssumption
  <2> QED
    BY <1>1, <2>1, <2>2, <2>3, <2>4 DEF LogInv, CallInv, Logged
<1>7. ModeInv'
  BY <1>1 DEF LogInv, TypeOK, ModeInv
<1>8. EmptyInv' /\ NoLostWakeup'
  BY <1>1 DEF LogInv, EmptyInv, NoLostWakeup, ModeInv
<1>9. SpaceInv'
  <2>1. InOp' \in SUBSET Procs /\ Reserved' \in SUBSET (InOp' \X (1..MAXOPBLOCKS))
    BY <1>1, ReservedType DEF Reserved
  <2>2. Cardinality(Reserved') <= (outstanding + 1) * MAXOPBLOCKS
    BY <1>3, <2>1, ReservedBound
  <2>3. Cardinality(Reserved') \in Nat
    <3>1. Reserved' \in SUBSET (Procs \X (1..MAXOPBLOCKS))
      BY <2>1
    <3> QED
      BY <3>1, Finite
  <2>4. Len(lh) + (outstanding + 1) * MAXOPBLOCKS <= LOGSIZE
    BY SizesAssumption DEF NoRoom, LogInv, TypeOK
  <2>5. Len(lh) \in Nat /\ (outstanding + 1) * MAXOPBLOCKS \in Nat
    BY SizesAssumption DEF LogInv, TypeOK
  <2> QED
    BY <2>2, <2>3, <2>4, <2>5, SizesAssumption DEF LogInv, SpaceInv
<1> QED
  BY <1>2, <1>4, <1>5, <1>6, <1>7, <1>8, <1>9 DEF LogInv

\* A call changes a buffer.
LEMMA ModifySafe ==
  ASSUME LogInv, NEW p \in Procs, NEW b \in Blocks, NEW v \in Data,
         Modify(p, b, v)
  PROVE  LogInv'
<1> USE DEF Modify, Up, diskVars, bufVars, memVars, runVars
<1>1. InOp' = InOp /\ p \in InOp
  BY DEF LogInv, TypeOK, InOp
<1>2. TypeOK' /\ TailInv'
  BY DEF LogInv, TypeOK, TailInv
<1>3. CountInv' /\ EmptyInv'
  BY <1>1 DEF LogInv, CountInv, EmptyInv
<1>4. HoldInv'
  BY BlocksAssumption DEF LogInv, TypeOK, HoldInv
<1>5. CallInv'
  <2>1. \A q \in InOp : q # p => hold'[q] = hold[q]
    BY DEF LogInv, TypeOK, InOp
  <2>2. hold'[p] = b
    BY DEF LogInv, TypeOK
  <2>3. Cardinality(wset[p]) \in Nat
    BY <1>1, FS_CardinalityType DEF LogInv, CallInv
  <2>4. b \in wset[p] \/ Cardinality(wset[p]) < MAXOPBLOCKS
    BY <2>3, SizesAssumption
  <2> QED
    BY <1>1, <2>1, <2>2, <2>4 DEF LogInv, CallInv, Logged
<1>6. ModeInv'
  BY <1>1 DEF LogInv, TypeOK, ModeInv
<1>7. SpaceInv'
  BY <1>1, SpaceFrame DEF LogInv
<1>8. NoLostWakeup'
  BY <1>1 DEF NoLostWakeup
<1> QED
  BY <1>2, <1>3, <1>4, <1>5, <1>6, <1>7, <1>8 DEF LogInv

\* The tests at the head of log_write().
LEMMA LogCheckSafe ==
  ASSUME LogInv, NEW p \in Procs, LogCheck(p) PROVE LogInv'
<1> USE DEF LogCheck, Up, diskVars, bufVars, memVars
<1>1. InOp' = InOp /\ p \in InOp
  BY DEF LogInv, TypeOK, InOp
<1>2. TypeOK' /\ TailInv'
  BY DEF LogInv, TypeOK, TailInv
<1>3. CountInv' /\ EmptyInv'
  BY <1>1 DEF LogInv, CountInv, EmptyInv
<1>4. HoldInv'
  BY DEF LogInv, TypeOK, HoldInv
<1>5. CallInv'
  BY <1>1 DEF LogInv, CallInv, Logged
<1>6. ModeInv'
  BY <1>1 DEF LogInv, TypeOK, ModeInv
<1>7. SpaceInv'
  BY <1>1, SpaceFrame DEF LogInv
<1>8. NoLostWakeup'
  BY <1>1 DEF NoLostWakeup
<1> QED
  BY <1>2, <1>3, <1>4, <1>5, <1>6, <1>7, <1>8 DEF LogInv
\* log_write() under log.lock: of the blocks reserved, one is used if the group
\* grows.
LEMMA LogAppendSafe ==
  ASSUME LogInv, NEW p \in Procs, LogAppend(p) PROVE LogInv'
<1> DEFINE b == hold[p]
<1> USE DEF LogAppend, Up, diskVars, runVars
<1>1. InOp' = InOp /\ p \in InOp
  BY DEF LogInv, TypeOK, InOp
<1>2. b \in Blocks /\ b # NoBlock
  BY BlocksAssumption DEF LogInv, TypeOK, HoldInv
<1>3. ~committing /\ phase = "idle" /\ tail = 0
  BY <1>1 DEF LogInv, ModeInv, TailInv
<1>4. lh \in Seq(Blocks) /\ Len(lh) \in Nat
  BY DEF LogInv, TypeOK
<1>5. /\ lh' \in Seq(Blocks)
      /\ Len(lh') = IF Logged(b) THEN Len(lh) ELSE Len(lh) + 1
      /\ \A i \in 1..Len(lh) : lh'[i] = lh[i]
      /\ ~Logged(b) => lh'[Len(lh) + 1] = b
  <2>1. CASE Logged(b)
    BY <2>1, <1>4
  <2>2. CASE ~Logged(b)
    BY <2>2, <1>2, <1>4, AppendProperties
  <2> QED
    BY <2>1, <2>2
<1>6. \A d : Logged(d) \/ d = b => Logged(d)'
  <2>1. CASE Logged(b)
    BY <2>1 DEF Logged
  <2>2. CASE ~Logged(b)
    BY <2>2, <1>4, <1>5 DEF Logged
  <2> QED
    BY <2>1, <2>2
<1>7. TypeOK'
  BY <1>2, <1>3, <1>5 DEF LogInv, TypeOK, Pinned
<1>8. TailInv'
  BY <1>3 DEF TailInv
<1>9. CountInv' /\ NoLostWakeup'
  BY <1>1 DEF LogInv, CountInv, NoLostWakeup
<1>10. HoldInv'
  BY DEF LogInv, TypeOK, HoldInv
<1>11. /\ \A q \in Procs : q # p => hold'[q] = hold[q] /\ wset'[q] = wset[q]
       /\ hold'[p] = NoBlock /\ wset'[p] = wset[p] \cup {b}
  BY DEF LogInv, TypeOK
<1>12. /\ IsFiniteSet(wset'[p]) /\ Cardinality(wset[p]) \in Nat
       /\ Cardinality(wset'[p]) =
            IF b \in wset[p] THEN Cardinality(wset[p])
                             ELSE Cardinality(wset[p]) + 1
  <2>1. IsFiniteSet(wset[p])
    BY <1>1 DEF LogInv, CallInv
  <2>2. Cardinality(wset[p]) \in Nat
    BY <2>1, FS_CardinalityType
  <2>3. /\ IsFiniteSet(wset[p] \cup {b})
        /\ Cardinality(wset[p] \cup {b}) =
             IF b \in wset[p] THEN Cardinality(wset[p])
                              ELSE Cardinality(wset[p]) + 1
    BY <2>1, FS_AddElement
  <2> QED
    BY <1>11, <2>2, <2>3
<1>13. b \notin wset[p] => Cardinality(wset[p]) < MAXOPBLOCKS
  BY <1>1, <1>2 DEF LogInv, CallInv
<1>14. CallInv'
  <2>1. Cardinality(wset'[p]) <= MAXOPBLOCKS
    BY <1>1, <1>12, <1>13, SizesAssumption DEF LogInv, CallInv
  <2>2. \A d \in wset'[p] : Logged(d)'
    BY <1>1, <1>6, <1>11 DEF LogInv, CallInv
  <2>3. ASSUME NEW q \in InOp, q # p
        PROVE  /\ IsFiniteSet(wset'[q]) /\ Cardinality(wset'[q]) <= MAXOPBLOCKS
               /\ \A d \in wset'[q] : Logged(d)'
               /\ \/ hold'[q] = NoBlock
                  \/ hold'[q] \in wset'[q]
                  \/ Cardinality(wset'[q]) < MAXOPBLOCKS
    BY <2>3, <1>6, <1>11 DEF LogInv, CallInv, InOp
  <2> QED
    BY <1>1, <1>11, <1>12, <2>1, <2>2, <2>3 DEF CallInv
<1>15. ModeInv'
  BY <1>1, <1>3 DEF LogInv, TypeOK, ModeInv
<1>16. EmptyInv'
  BY <1>1, <1>3 DEF EmptyInv
<1>17. SpaceInv'
  <2>1. CASE b \in wset[p]
    <3>1. Logged(b)
      BY <2>1, <1>1 DEF LogInv, CallInv
    <3>2. lh' = lh /\ wset'[p] = wset[p]
      BY <2>1, <3>1, <1>11
    <3>3. \A q \in InOp' : wset'[q] = wset[q]
      BY <1>1, <1>11, <3>2 DEF InOp
    <3> QED
      BY <1>1, <3>2, <3>3, SpaceFrame DEF LogInv
  <2>2. CASE b \notin wset[p]
    <3> DEFINE t == <<p, Cardinality(wset[p]) + 1>>
    <3>1. t \in Reserved
      BY <1>1, <1>12, <1>13, <2>2, SizesAssumption DEF Reserved
    <3>2. Reserved' \in SUBSET (Reserved \ {t})
      <4>1. ASSUME NEW r \in Reserved' PROVE r \in Reserved /\ r # t
        <5>1. /\ r \in Procs \X (1..MAXOPBLOCKS) /\ r[1] \in InOp
              /\ Cardinality(wset'[r[1]]) < r[2]
          BY <4>1, <1>1 DEF Reserved
        <5>2. CASE r[1] = p
          BY <5>1, <5>2, <1>12, <2>2, SizesAssumption DEF Reserved
        <5>3. CASE r[1] # p
          BY <5>1, <5>3, <1>11 DEF Reserved
        <5> QED
          BY <5>2, <5>3
      <4> QED
        BY <4>1
    <3>3. /\ Cardinality(Reserved) \in Nat
          /\ Cardinality(Reserved \ {t}) = Cardinality(Reserved) - 1
      BY <3>1, ReservedType, Finite, FS_RemoveElement
    <3>4. Cardinality(Reserved') <= Cardinality(Reserved \ {t})
      <4>1. Reserved \ {t} \in SUBSET (Procs \X (1..MAXOPBLOCKS))
        BY ReservedType
      <4> QED
        BY <4>1, <3>2, Finite
    <3>5. Cardinality(Reserved') \in Nat
      <4>1. Reserved' \in SUBSET (Procs \X (1..MAXOPBLOCKS))
        BY <3>2, ReservedType
      <4> QED
        BY <4>1, Finite
    <3>6. Len(lh') \in Nat /\ Len(lh') <= Len(lh) + 1
      BY <1>4, <1>5
    <3>7. Len(lh) + Cardinality(Reserved) <= LOGSIZE /\ Len(head') <= LOGSIZE
      BY DEF LogInv, SpaceInv
    <3> HIDE DEF t
    <3> QED
      BY <1>4, <3>3, <3>4, <3>5, <3>6, <3>7, SizesAssumption DEF SpaceInv
  <2> QED
    BY <2>1, <2>2
<1> QED
  BY <1>7, <1>8, <1>9, <1>10, <1>14, <1>15, <1>16, <1>17 DEF LogInv

\* end_op() of a call that is not the last of its group.
LEMMA EndOpSafe ==
  ASSUME LogInv, NEW p \in Procs, EndOp(p) PROVE LogInv'
<1> USE DEF EndOp, Up, diskVars, bufVars, runVars
<1>1. InOp' = InOp \ {p} /\ p \in InOp
  BY DEF LogInv, TypeOK, InOp, Woken
<1>2. IsFiniteSet(InOp) /\ Cardinality(InOp) \in Nat
  BY Finite, ReservedType
<1>3. outstanding' = Cardinality(InOp') /\ outstanding' \in Nat /\ InOp' # {}
  <2>1. Cardinality(InOp') = Cardinality(InOp) - 1 /\ IsFiniteSet(InOp')
    BY <1>1, <1>2, FS_RemoveElement
  <2>2. outstanding = Cardinality(InOp) /\ outstanding # 0
    BY <1>1, <1>2, FS_EmptySet DEF LogInv, CountInv
  <2>3. outstanding' = Cardinality(InOp') /\ outstanding' \in Nat /\ outstanding' # 0
    BY <1>2, <2>1, <2>2
  <2> QED
    BY <2>3, FS_EmptySet
<1>4. ~committing /\ phase = "idle"
  BY <1>1 DEF LogInv, ModeInv
<1>5. TypeOK' /\ TailInv'
  BY <1>3 DEF LogInv, TypeOK, TailInv, Woken
<1>6. CountInv' /\ EmptyInv' /\ NoLostWakeup'
  BY <1>3, <1>4 DEF LogInv, CountInv, EmptyInv, NoLostWakeup
<1>7. HoldInv'
  BY DEF LogInv, TypeOK, HoldInv, Woken
<1>8. CallInv'
  BY <1>1 DEF LogInv, CallInv, Logged
<1>9. ModeInv'
  BY <1>4 DEF LogInv, TypeOK, ModeInv, Woken
<1>10. SpaceInv'
  BY <1>1, SpaceFrame DEF LogInv
<1> QED
  BY <1>5, <1>6, <1>7, <1>8, <1>9, <1>10 DEF LogInv

\* The last end_op() of a group, up to commit().
LEMMA EndOpLastSafe ==
  ASSUME LogInv, NEW p \in Procs, EndOpLast(p) PROVE LogInv'
<1> USE DEF EndOpLast, Up, diskVars, bufVars
<1>1. InOp' = InOp \ {p} /\ p \in InOp
  BY DEF LogInv, TypeOK, InOp
<1>2. InOp' = {}
  <2>1. IsFiniteSet(InOp) /\ Cardinality(InOp) = 1
    BY Finite, ReservedType DEF LogInv, CountInv, TypeOK
  <2>2. \E x : InOp = {x}
    BY <2>1, FS_Singleton
  <2> QED
    BY <2>2, <1>1
<1>3. ~committing /\ phase = "idle"
  BY <1>1 DEF LogInv, ModeInv
<1>4. Len(lh) \in Nat /\ (Len(lh) = 0 => lh = <<>>)
  BY EmptySeq DEF LogInv, TypeOK
<1>5. TypeOK' /\ TailInv'
  BY <1>4 DEF LogInv, TypeOK, TailInv, FirstPhase
<1>6. CountInv'
  BY <1>2, FS_EmptySet DEF CountInv
<1>7. HoldInv'
  BY DEF LogInv, TypeOK, HoldInv
<1>8. CallInv'
  BY <1>2 DEF CallInv
<1>9. ModeInv'
  BY <1>2, <1>3 DEF LogInv, TypeOK, ModeInv, FirstPhase
<1>10. EmptyInv' /\ NoLostWakeup'
  BY <1>4 DEF EmptyInv, NoLostWakeup, FirstPhase
<1>11. SpaceInv'
  BY <1>2, SpaceFrame DEF LogInv
<1> QED
  BY <1>5, <1>6, <1>7, <1>8, <1>9, <1>10, <1>11 DEF LogInv

\* The committer returns.
LEMMA EndCommitSafe ==
  ASSUME LogInv, NEW p \in Procs, EndCommit(p) PROVE LogInv'
<1> USE DEF EndCommit, Up, diskVars, bufVars
<1>1. InOp = {} /\ InOp' = {} /\ committing /\ lh = <<>>
  BY NoCalls DEF LogInv, TypeOK, ModeInv, EmptyInv, InOp, Woken
<1>2. TypeOK' /\ TailInv'
  BY DEF LogInv, TypeOK, TailInv, Woken
<1>3. CountInv' /\ EmptyInv'
  BY <1>1 DEF LogInv, CountInv, EmptyInv
<1>4. HoldInv'
  BY DEF LogInv, TypeOK, HoldInv, Woken
<1>5. CallInv'
  BY <1>1 DEF CallInv
<1>6. ModeInv'
  BY <1>1 DEF LogInv, TypeOK, ModeInv, Woken
<1>7. NoLostWakeup'
  BY DEF LogInv, TypeOK, NoLostWakeup, Woken
<1>8. SpaceInv'
  BY <1>1, SpaceFrame DEF LogInv
<1> QED
  BY <1>2, <1>3, <1>4, <1>5, <1>6, <1>7, <1>8 DEF LogInv
-----------------------------------------------------------------------------
(* The steps of commit() and of recovery, eviction and crashes             *)

\* The end of a turn of a loop over the group.
LEMMA NextTailType ==
  ASSUME LogInv, NEW after \in {"head", "clear"}, NextTail(after),
         phase \in {"write", "install"}
  PROVE  /\ tail + 1 \in 1..Len(lh)
         /\ \/ /\ tail' = tail + 1 /\ tail' < Len(lh) /\ phase' = phase
            \/ /\ tail' = 0 /\ phase' = after /\ Len(lh) = tail + 1
BY DEF LogInv, TypeOK, TailInv, NextTail

\* The group fits in the data blocks that lh and the log have room for.
LEMMA GroupInLog == ASSUME LogInv PROVE Len(lh) \in Nat /\ Len(lh) <= LOGSIZE
<1>1. Cardinality(Reserved) \in Nat
  BY ReservedType, Finite
<1> QED
  BY <1>1, SizesAssumption DEF LogInv, SpaceInv, TypeOK

\* What every step of commit() and of recovery leaves alone.
LEMMA DiskStepFrame ==
  ASSUME LogInv, phase # "idle", phase' # "idle", TypeOK', TailInv',
         SpaceInv', EmptyInv', mode' = mode, phase' # "read",
         dirty' \subseteq dirty, mode = "boot" => phase' \notin {"write", "head"},
         UNCHANGED <<outstanding, committing, procVars>>
  PROVE  LogInv'
<1> USE DEF procVars
<1>1. InOp = {} /\ InOp' = InOp
  BY NoCalls DEF InOp
<1>2. CountInv' /\ NoLostWakeup'
  BY <1>1 DEF LogInv, CountInv, NoLostWakeup
<1>3. HoldInv' /\ CallInv'
  BY <1>1 DEF LogInv, HoldInv, CallInv
<1>4. ModeInv'
  BY <1>1 DEF LogInv, TypeOK, ModeInv
<1> QED
  BY <1>2, <1>3, <1>4 DEF LogInv

\* write_log() copies a block to the log.
LEMMA WriteLogSafe == ASSUME LogInv, WriteLog PROVE LogInv'
<1> USE DEF WriteLog, Up, bufVars, memVars, procVars
<1>1. /\ tail + 1 \in 1..Len(lh)
      /\ \/ /\ tail' = tail + 1 /\ tail' < Len(lh) /\ phase' = "write"
         \/ /\ tail' = 0 /\ phase' = "head"
  BY NextTailType
<1>2. Contents(lh[tail + 1]) \in Data
  BY <1>1 DEF LogInv, TypeOK, Contents
<1>3. TailInv' /\ tail' \in Nat /\ (tail' = 0 \/ tail' < Len(lh'))
  BY <1>1 DEF LogInv, TypeOK, TailInv
<1>4. logData' \in [1..LOGSIZE -> Data]
  BY <1>2 DEF LogInv, TypeOK
<1>5. TypeOK'
  BY <1>1, <1>3, <1>4 DEF LogInv, TypeOK
<1>6. SpaceInv'
  BY SpaceFrame DEF LogInv, InOp
<1>7. EmptyInv'
  BY <1>1 DEF EmptyInv
<1> QED
  BY <1>1, <1>3, <1>5, <1>6, <1>7, DiskStepFrame

\* write_head() commits the group.
LEMMA WriteHeadSafe == ASSUME LogInv, WriteHead PROVE LogInv'
<1> USE DEF WriteHead, Up, bufVars, memVars, procVars
<1>1. InOp = {} /\ InOp' = {}
  BY NoCalls DEF InOp
<1>2. TypeOK' /\ TailInv' /\ EmptyInv'
  BY DEF LogInv, TypeOK, TailInv, EmptyInv
<1>3. SpaceInv'
  <2>1. Len(lh) + Cardinality(Reserved) <= LOGSIZE /\ Len(lh) \in Nat
    BY DEF LogInv, SpaceInv, TypeOK
  <2>2. Cardinality(Reserved) \in Nat /\ Cardinality(Reserved') = 0
    BY <1>1, ReservedType, Finite, NothingReserved
  <2> QED
    BY <2>1, <2>2, SizesAssumption DEF SpaceInv
<1> QED
  BY <1>2, <1>3, DiskStepFrame

\* install_trans() writes a block to its home.
LEMMA InstallSafe == ASSUME LogInv, Install PROVE LogInv'
<1> USE DEF Install, memVars, procVars
<1>1. /\ tail + 1 \in 1..Len(lh)
      /\ \/ /\ tail' = tail + 1 /\ tail' < Len(lh) /\ phase' = "install"
         \/ /\ tail' = 0 /\ phase' = "clear"
  BY NextTailType
<1>2. lh[tail + 1] \in Blocks /\ logData[tail + 1] \in Data
  <2>1. tail + 1 \in 1..LOGSIZE
    BY <1>1, GroupInLog, SizesAssumption
  <2> QED
    BY <1>1, <2>1 DEF LogInv, TypeOK
<1>3. TailInv' /\ tail' \in Nat /\ (tail' = 0 \/ tail' < Len(lh'))
  BY <1>1 DEF LogInv, TypeOK, TailInv
<1>4. home' \in [Blocks -> Data] /\ cache' \in [Blocks -> Data]
  BY <1>2 DEF LogInv, TypeOK
<1>5. cached' \subseteq Blocks /\ dirty' \subseteq dirty
  BY <1>2 DEF LogInv, TypeOK
<1>6. TypeOK'
  BY <1>1, <1>3, <1>4, <1>5 DEF LogInv, TypeOK
<1>7. SpaceInv'
  BY SpaceFrame DEF LogInv, InOp
<1>8. EmptyInv'
  BY <1>1 DEF EmptyInv
<1> QED
  BY <1>1, <1>3, <1>5, <1>6, <1>7, <1>8, DiskStepFrame

\* The group leaves the log.
LEMMA ClearHeadSafe == ASSUME LogInv, ClearHead PROVE LogInv'
<1> USE DEF ClearHead, bufVars, procVars
<1>1. InOp = {} /\ InOp' = {}
  BY NoCalls DEF InOp
<1>2. <<>> \in Seq(Blocks) /\ Len(<<>>) = 0
  BY EmptySeq
<1>3. TypeOK' /\ TailInv' /\ EmptyInv'
  BY <1>2 DEF LogInv, TypeOK, TailInv, EmptyInv
<1>4. SpaceInv'
  BY <1>1, <1>2, NothingReserved, SizesAssumption DEF SpaceInv
<1> QED
  BY <1>3, <1>4, DiskStepFrame

\* read_head()
LEMMA ReadHeadSafe == ASSUME LogInv, ReadHead PROVE LogInv'
<1> USE DEF ReadHead, diskVars, bufVars, procVars
<1>1. InOp = {} /\ InOp' = {}
  BY NoCalls DEF InOp
<1>2. head \in Seq(Blocks) /\ Len(head) \in Nat
  BY DEF LogInv, TypeOK
<1>3. TypeOK' /\ TailInv' /\ EmptyInv'
  BY <1>2 DEF LogInv, TypeOK, TailInv, EmptyInv, RecoverPhase
<1>4. SpaceInv'
  BY <1>1, <1>2, NothingReserved, SizesAssumption DEF LogInv, SpaceInv
<1> QED
  BY <1>3, <1>4, DiskStepFrame DEF RecoverPhase

\* Recovery is over.
LEMMA BootDoneSafe == ASSUME LogInv, BootDone PROVE LogInv'
<1> USE DEF BootDone, diskVars, bufVars, memVars, procVars
<1>1. InOp = {} /\ InOp' = {}
  BY NoCalls DEF InOp
<1>2. TypeOK' /\ TailInv' /\ EmptyInv'
  BY DEF LogInv, TypeOK, TailInv, EmptyInv
<1>3. CountInv' /\ HoldInv' /\ CallInv'
  BY <1>1 DEF LogInv, CountInv, HoldInv, CallInv
<1>4. ModeInv'
  BY <1>1 DEF LogInv, ModeInv
<1>5. SpaceInv'
  BY <1>1, SpaceFrame DEF LogInv
<1>6. NoLostWakeup'
  BY DEF LogInv, ModeInv, NoLostWakeup
<1> QED
  BY <1>2, <1>3, <1>4, <1>5, <1>6 DEF LogInv

\* bget() recycles a clean buffer.
LEMMA EvictSafe == ASSUME LogInv, NEW b \in Blocks, Evict(b) PROVE LogInv'
<1> USE DEF Evict, Up, diskVars, memVars, runVars, procVars
<1>1. InOp' = InOp
  BY DEF InOp
<1>2. TypeOK' /\ TailInv' /\ EmptyInv'
  BY <1>1 DEF LogInv, TypeOK, TailInv, EmptyInv
<1>3. CountInv' /\ HoldInv' /\ NoLostWakeup'
  BY <1>1 DEF LogInv, CountInv, HoldInv, NoLostWakeup
<1>4. CallInv'
  BY <1>1 DEF LogInv, CallInv, Logged
<1>5. ModeInv'
  BY <1>1 DEF LogInv, ModeInv
<1>6. SpaceInv'
  BY <1>1, SpaceFrame DEF LogInv
<1> QED
  BY <1>2, <1>3, <1>4, <1>5, <1>6 DEF LogInv

\* A crash leaves the disk.
LEMMA CrashSafe == ASSUME LogInv, Crash PROVE LogInv'
<1> USE DEF Crash, diskVars
<1>1. InOp' = {}
  BY DEF InOp
<1>2. <<>> \in Seq(Blocks) /\ Len(<<>>) = 0
  BY EmptySeq
<1>3. TypeOK' /\ TailInv' /\ EmptyInv'
  BY <1>2 DEF LogInv, TypeOK, TailInv, EmptyInv
<1>4. CountInv' /\ CallInv'
  BY <1>1, FS_EmptySet DEF CountInv, CallInv
<1>5. HoldInv' /\ NoLostWakeup'
  BY DEF HoldInv, NoLostWakeup
<1>6. ModeInv'
  BY DEF ModeInv
<1>7. SpaceInv'
  <2>1. Len(head) <= LOGSIZE
    BY DEF LogInv, SpaceInv
  <2> QED
    BY <1>1, <1>2, <2>1, NothingReserved, SizesAssumption DEF SpaceInv
<1> QED
  BY <1>3, <1>4, <1>5, <1>6, <1>7 DEF LogInv

-----------------------------------------------------------------------------
(* Theorems                                                                *)

\* The file system mkfs makes satisfies the invariant.
LEMMA InitSafe == Init => LogInv
<1> SUFFICES ASSUME Init PROVE LogInv
  OBVIOUS
<1> USE DEF Init
<1>1. InOp = {}
  BY DEF InOp
<1>2. <<>> \in Seq(Blocks) /\ Len(<<>>) = 0
  BY EmptySeq
<1>3. TypeOK /\ TailInv /\ EmptyInv
  BY <1>2 DEF TypeOK, TailInv, EmptyInv
<1>4. CountInv /\ CallInv
  BY <1>1, FS_EmptySet DEF CountInv, CallInv
<1>5. HoldInv /\ NoLostWakeup
  BY DEF HoldInv, NoLostWakeup
<1>6. ModeInv
  BY DEF ModeInv
<1>7. SpaceInv
  <2>1. Reserved = {}
    BY <1>1 DEF Reserved
  <2> QED
    BY <1>2, <2>1, FS_EmptySet, SizesAssumption DEF SpaceInv
<1> QED
  BY <1>3, <1>4, <1>5, <1>6, <1>7 DEF LogInv

\* Every step keeps the invariant.
LEMMA NextSafe == LogInv /\ [Next]_vars => LogInv'
<1> SUFFICES ASSUME LogInv, [Next]_vars PROVE LogInv'
  OBVIOUS
<1>1. ASSUME NEW p \in Procs, OpStep(p) PROVE LogInv'
  BY <1>1, BeginSleepSafe, BeginOpSafe, ModifySafe, LogCheckSafe,
     LogAppendSafe, EndOpSafe, EndOpLastSafe, EndCommitSafe DEF OpStep
<1>2. CASE LogStep
  BY <1>2, WriteLogSafe, WriteHeadSafe, InstallSafe, ClearHeadSafe,
     ReadHeadSafe, BootDoneSafe DEF LogStep
<1>3. CASE UNCHANGED vars
  BY <1>3 DEF vars, diskVars, bufVars, memVars, runVars, procVars,
     LogInv, TypeOK, TailInv, CountInv, HoldInv, CallInv, ModeInv, EmptyInv,
     SpaceInv, NoLostWakeup, InOp, Logged, Reserved
<1> QED
  BY <1>1, <1>2, <1>3, EvictSafe, CrashSafe DEF Next

\* The invariant of the log, in every reachable state.
THEOREM LogInvariance == Spec => []LogInv
<1> QED
  BY InitSafe, NextSafe, PTL DEF Spec

\* Every variable of the log keeps its type.
THEOREM LogTypeCorrect == Spec => []TypeOK
<1>1. LogInv => TypeOK
  BY DEF LogInv
<1> QED
  BY <1>1, LogInvariance, PTL

\* What begin_op() reserves keeps lh.block from overflowing, although
\* log_write() looks at lh.n before it takes log.lock.
THEOREM GroupFits == Spec => []LogFits
<1>1. LogInv => LogFits
  BY GroupInLog DEF LogFits
<1> QED
  BY <1>1, LogInvariance, PTL

\* A commit runs alone, without log.lock: log.committing keeps calls out.
THEOREM CommitsAlone == Spec => []CommitAlone
<1>1. LogInv => CommitAlone
  <2> SUFFICES ASSUME LogInv, committing PROVE CommitAlone
    BY DEF CommitAlone
  <2>1. InOp = {} /\ outstanding = 0
    BY FS_EmptySet DEF LogInv, ModeInv, CountInv
  <2>2. PICK p \in Procs : \A q \in Procs : pc[q] = "commit" <=> q = p
    BY DEF LogInv, ModeInv
  <2>3. Closing = {p}
    BY <2>2 DEF Closing
  <2>4. Cardinality(Closing) = 1
    BY <2>3, FS_Singleton
  <2> QED
    BY <2>1, <2>4 DEF CommitAlone
<1> QED
  BY <1>1, LogInvariance, PTL

\* Whoever sleeps in begin_op() has a call or a commit under way to wake it.
THEOREM NoWakeupLost == Spec => []NoLostWakeup
<1>1. LogInv => NoLostWakeup
  BY DEF LogInv
<1> QED
  BY <1>1, LogInvariance, PTL

-----------------------------------------------------------------------------
(* The invariant of the disk                                               *)

\* The invariant of the disk survives a step that leaves the disk, the buffers
\* and the group alone and unlocks no buffer.
LEMMA DiskFrame ==
  ASSUME DiskInv, UNCHANGED <<diskVars, bufVars, lh, phase, tail, hold>>,
         mode = "boot" <=> mode' = "boot"
  PROVE  DiskInv'
BY DEF diskVars, bufVars, DiskInv, NoLostUpdate, DistinctInv, HeadInv, CopyInv,
       DirtyInv, Contents

\* A call is under way, so that nothing is being committed or recovered.
LEMMA CallMode ==
  ASSUME LogInv, NEW p \in InOp
  PROVE  mode # "boot" /\ phase = "idle" /\ tail = 0 /\ ~committing
BY DEF LogInv, ModeInv, TailInv, InOp

\* The buffer that a call changes is locked.
LEMMA ModifyDisk ==
  ASSUME IInv, NEW p \in Procs, NEW b \in Blocks, NEW v \in Data,
         Modify(p, b, v)
  PROVE  DiskInv'
<1> USE DEF Modify, Up, diskVars, memVars, runVars, IInv
<1>1. phase = "idle" /\ mode # "boot"
  BY CallMode DEF InOp
<1>2. hold'[p] = b /\ \A q \in Procs : q # p => hold'[q] = hold[q]
  BY DEF LogInv, TypeOK
<1>3. hold[p] = NoBlock
  BY DEF LogInv, HoldInv
<1>4. \A d \in Blocks : d # b => Contents(d)' = Contents(d)
  BY DEF LogInv, TypeOK, Contents
<1>5. NoLostUpdate'
  BY <1>2, <1>3, <1>4, BlocksAssumption DEF DiskInv, NoLostUpdate
<1>6. DistinctInv' /\ HeadInv' /\ DirtyInv'
  BY DEF DiskInv, DistinctInv, HeadInv, DirtyInv
<1>7. CopyInv'
  BY <1>1 DEF CopyInv
<1> QED
  BY <1>5, <1>6, <1>7 DEF DiskInv

\* log_write() pins the buffer before the caller unlocks it.
LEMMA LogAppendDisk ==
  ASSUME IInv, NEW p \in Procs, LogAppend(p) PROVE DiskInv'
<1> DEFINE b == hold[p]
<1> USE DEF LogAppend, Up, diskVars, runVars, IInv
<1>1. phase = "idle" /\ mode # "boot"
  BY CallMode DEF InOp
<1>2. b \in Blocks /\ dirty' = dirty \cup {b}
  BY BlocksAssumption DEF LogInv, TypeOK, HoldInv, Pinned
<1>3. \A q \in Procs : q # p => hold'[q] = hold[q]
  BY DEF LogInv, TypeOK
<1>4. lh \in Seq(Blocks) /\ Len(lh) \in Nat
  BY DEF LogInv, TypeOK
<1>5. \/ Logged(b) /\ lh' = lh
      \/ /\ ~Logged(b) /\ Len(lh') = Len(lh) + 1 /\ lh'[Len(lh) + 1] = b
         /\ \A i \in 1..Len(lh) : lh'[i] = lh[i]
  <2>1. CASE Logged(b)
    BY <2>1
  <2>2. CASE ~Logged(b)
    BY <2>2, <1>2, <1>4, AppendProperties
  <2> QED
    BY <2>1, <2>2
<1>6. NoLostUpdate'
  BY <1>2, <1>3 DEF DiskInv, NoLostUpdate, Contents
<1>7. DistinctInv'
  BY <1>4, <1>5 DEF DiskInv, DistinctInv, Logged
<1>8. HeadInv'
  BY <1>1 DEF DiskInv, HeadInv
<1>9. CopyInv'
  BY <1>1 DEF CopyInv
<1>10. DirtyInv'
  <2>1. \A d \in dirty : \E i \in 1..Len(lh) : lh[i] = d
    BY DEF DiskInv, DirtyInv
  <2>2. \A d \in dirty \cup {b} : \E i \in 1..Len(lh') : lh'[i] = d
    BY <1>4, <1>5, <2>1 DEF Logged
  <2> QED
    BY <1>1, <1>2, <2>2 DEF DirtyInv
<1> QED
  BY <1>6, <1>7, <1>8, <1>9, <1>10 DEF DiskInv

\* The last end_op() starts the loop of write_log(), or has nothing to write.
LEMMA EndOpLastDisk ==
  ASSUME IInv, NEW p \in Procs, EndOpLast(p) PROVE DiskInv'
<1> USE DEF EndOpLast, Up, diskVars, bufVars, FirstPhase, IInv
<1>1. phase = "idle" /\ mode # "boot"
  BY CallMode DEF InOp
<1>2. Len(lh) \in Nat
  BY DEF LogInv, TypeOK
<1>3. NoLostUpdate' /\ DistinctInv' /\ HeadInv'
  BY <1>1 DEF DiskInv, NoLostUpdate, DistinctInv, HeadInv, Contents
<1>4. CopyInv'
  BY <1>2 DEF CopyInv
<1>5. DirtyInv'
  BY <1>1, <1>2 DEF DiskInv, DirtyInv
<1> QED
  BY <1>3, <1>4, <1>5 DEF DiskInv

\* A block is copied to the log while nobody changes it.
LEMMA WriteLogDisk == ASSUME IInv, WriteLog PROVE DiskInv'
<1> USE DEF WriteLog, Up, bufVars, memVars, procVars, IInv
<1>1. /\ tail + 1 \in 1..Len(lh) /\ tail \in Nat /\ Len(lh) \in Nat
      /\ \/ /\ tail' = tail + 1 /\ phase' = "write"
         \/ /\ tail' = 0 /\ phase' = "head" /\ Len(lh) = tail + 1
  BY NextTailType DEF LogInv, TypeOK
<1>2. \A d : Contents(d)' = Contents(d)
  BY DEF Contents
<1>3. NoLostUpdate' /\ DistinctInv'
  BY <1>2 DEF DiskInv, NoLostUpdate, DistinctInv
<1>4. HeadInv' /\ DirtyInv'
  BY <1>1 DEF DiskInv, HeadInv, DirtyInv
<1>5. tail + 1 \in 1..LOGSIZE
  BY <1>1, GroupInLog, SizesAssumption
<1>6. /\ logData'[tail + 1] = Contents(lh[tail + 1])
      /\ \A i \in 1..Len(lh) : i <= tail => logData'[i] = logData[i]
  BY <1>1, <1>5 DEF LogInv, TypeOK
<1>7. \A i \in 1..Len(lh) : i <= tail + 1 => logData'[i] = Contents(lh[i])
  BY <1>1, <1>6 DEF DiskInv, CopyInv
<1>8. CopyInv'
  BY <1>1, <1>2, <1>7 DEF CopyInv
<1> QED
  BY <1>3, <1>4, <1>8 DEF DiskInv

\* write_head() writes the header of a group that is all in the log.
LEMMA WriteHeadDisk == ASSUME IInv, WriteHead PROVE DiskInv'
<1> USE DEF WriteHead, Up, bufVars, memVars, procVars, IInv
<1>1. tail = 0 /\ Len(lh) \in Nat
  BY DEF LogInv, TailInv, TypeOK
<1>2. NoLostUpdate' /\ DistinctInv' /\ HeadInv'
  BY DEF DiskInv, NoLostUpdate, DistinctInv, HeadInv, Contents
<1>3. CopyInv'
  BY <1>1 DEF DiskInv, CopyInv, Contents
<1>4. DirtyInv'
  BY <1>1 DEF DiskInv, DirtyInv
<1> QED
  BY <1>2, <1>3, <1>4 DEF DiskInv

\* What install_trans() does to a home block and to its buffer.
LEMMA InstallContents ==
  ASSUME IInv, Install, NEW d \in Blocks
  PROVE  /\ home'[d] = IF d = lh[tail + 1] THEN logData[tail + 1] ELSE home[d]
         /\ Contents(d)' = IF d = lh[tail + 1] THEN logData[tail + 1]
                                                ELSE Contents(d)
<1> DEFINE b == lh[tail + 1]
<1>1. tail + 1 \in 1..Len(lh)
  BY NextTailType DEF IInv, Install
<1>2. b \in Blocks
  BY <1>1 DEF IInv, LogInv, TypeOK
<1>3. /\ home' = [home EXCEPT ![b] = logData[tail + 1]]
      /\ cache' = [cache EXCEPT ![b] = logData[tail + 1]]
      /\ cached' = cached \cup {b}
  BY DEF Install
<1> HIDE DEF b
<1>4. /\ home'[d] = IF d = b THEN logData[tail + 1] ELSE home[d]
      /\ Contents(d)' = IF d = b THEN logData[tail + 1] ELSE Contents(d)
  BY <1>2, <1>3 DEF IInv, LogInv, TypeOK, Contents
<1> QED
  BY <1>4 DEF b

\* A block is written to its home.
LEMMA InstallDisk == ASSUME IInv, Install PROVE DiskInv'
<1> DEFINE b == lh[tail + 1]
<1> USE DEF Install, memVars, procVars, IInv
<1>1. /\ tail + 1 \in 1..Len(lh) /\ tail \in Nat /\ Len(lh) \in Nat
      /\ \/ /\ tail' = tail + 1 /\ phase' = "install"
         \/ /\ tail' = 0 /\ phase' = "clear" /\ Len(lh) = tail + 1
  BY NextTailType DEF LogInv, TypeOK
<1>2. \A i \in 1..Len(lh) : lh[i] \in Blocks
  BY DEF LogInv, TypeOK
<1>3. \A i \in 1..Len(lh) : lh[i] = b => i = tail + 1
  BY <1>1 DEF DiskInv, DistinctInv
<1>4. \A d \in Blocks :
         /\ home'[d] = IF d = b THEN logData[tail + 1] ELSE home[d]
         /\ Contents(d)' = IF d = b THEN logData[tail + 1] ELSE Contents(d)
  BY InstallContents
<1>5. NoLostUpdate'
  <2>1. \A d \in dirty : d # b => d \in dirty'
    OBVIOUS
  <2> QED
    BY <1>4, <2>1 DEF DiskInv, NoLostUpdate
<1>6. DistinctInv' /\ HeadInv'
  BY <1>1 DEF DiskInv, DistinctInv, HeadInv
<1>7. CopyInv'
  <2>1. mode # "boot" => \A i \in 1..Len(lh) : logData[i] = Contents(lh[i])'
    <3>1. mode # "boot" => \A i \in 1..Len(lh) : logData[i] = Contents(lh[i])
      BY DEF DiskInv, CopyInv
    <3>2. ASSUME NEW d \in Blocks
          PROVE  Contents(d)' = IF d = b THEN logData[tail + 1] ELSE Contents(d)
      BY <1>4
    <3> QED
      BY <1>2, <1>3, <3>1, <3>2
  <2>2. \A i \in 1..Len(lh) : i <= tail + 1 => home'[lh[i]] = logData[i]
    BY <1>1, <1>2, <1>3, <1>4 DEF DiskInv, CopyInv
  <2> QED
    BY <1>1, <2>1, <2>2 DEF CopyInv
<1>8. DirtyInv'
  <2>1. \A d \in dirty' : \E i \in 1..Len(lh) : lh[i] = d /\ tail + 1 < i
    BY <1>1, <1>3 DEF DiskInv, DirtyInv
  <2> QED
    BY <1>1, <2>1 DEF DirtyInv
<1> QED
  BY <1>5, <1>6, <1>7, <1>8 DEF DiskInv

\* The header is cleared when the whole group is on its home blocks.
LEMMA ClearHeadDisk == ASSUME IInv, ClearHead PROVE DiskInv'
<1> USE DEF ClearHead, bufVars, procVars, IInv
<1>1. Len(<<>>) = 0
  BY EmptySeq
<1>2. dirty = {}
  BY DEF DiskInv, DirtyInv
<1>3. NoLostUpdate'
  BY DEF DiskInv, NoLostUpdate, Contents
<1>4. DistinctInv' /\ HeadInv' /\ CopyInv'
  BY <1>1 DEF DistinctInv, HeadInv, CopyInv
<1>5. DirtyInv'
  BY <1>2 DEF DirtyInv
<1> QED
  BY <1>3, <1>4, <1>5 DEF DiskInv

\* Recovery begins with the group of the header.
LEMMA ReadHeadDisk == ASSUME IInv, ReadHead PROVE DiskInv'
<1> USE DEF ReadHead, diskVars, bufVars, procVars, RecoverPhase, IInv
<1>1. dirty = {} /\ Len(head) \in Nat
  BY DEF LogInv, ModeInv, TypeOK
<1>2. NoLostUpdate' /\ DistinctInv' /\ HeadInv'
  BY DEF DiskInv, NoLostUpdate, DistinctInv, HeadInv, Contents
<1>3. CopyInv'
  BY <1>1 DEF CopyInv
<1>4. DirtyInv'
  BY <1>1 DEF DirtyInv
<1> QED
  BY <1>2, <1>3, <1>4 DEF DiskInv

\* The ends of recovery and of a commit find the disk at rest.
LEMMA FinishDisk ==
  ASSUME IInv, phase = "finish", phase' = "idle", tail' = tail,
         UNCHANGED <<diskVars, bufVars, lh, hold>>
  PROVE  DiskInv'
BY DEF diskVars, bufVars, IInv, DiskInv, NoLostUpdate, DistinctInv, HeadInv,
       CopyInv, DirtyInv, Contents

\* bget() drops a buffer whose contents are on disk.
LEMMA EvictContents ==
  ASSUME IInv, NEW b \in Blocks, Evict(b)
  PROVE  \A d \in Blocks : Contents(d)' = Contents(d)
BY DEF Evict, diskVars, IInv, LogInv, TypeOK, DiskInv, NoLostUpdate, Contents

\* Eviction keeps the invariant of the disk.
LEMMA EvictDisk == ASSUME IInv, NEW b \in Blocks, Evict(b) PROVE DiskInv'
<1> USE DEF Evict, Up, diskVars, memVars, runVars, procVars, IInv
<1>1. \A d \in Blocks : Contents(d)' = Contents(d)
  BY EvictContents
<1>2. \A i \in 1..Len(lh) : lh[i] \in Blocks
  BY DEF LogInv, TypeOK
<1>3. NoLostUpdate' /\ CopyInv'
  BY <1>1, <1>2 DEF DiskInv, NoLostUpdate, CopyInv
<1>4. DistinctInv' /\ HeadInv' /\ DirtyInv'
  BY DEF DiskInv, DistinctInv, HeadInv, DirtyInv
<1> QED
  BY <1>3, <1>4 DEF DiskInv

\* A crash leaves no buffer, and recovery to be done.
LEMMA CrashDisk == ASSUME IInv, Crash PROVE DiskInv'
<1> USE DEF Crash, diskVars, IInv
<1>1. Len(<<>>) = 0
  BY EmptySeq
<1>2. NoLostUpdate' /\ DistinctInv' /\ HeadInv'
  BY <1>1 DEF DiskInv, NoLostUpdate, DistinctInv, HeadInv, Contents
<1>3. CopyInv' /\ DirtyInv'
  BY <1>1 DEF CopyInv, DirtyInv
<1> QED
  BY <1>2, <1>3 DEF DiskInv

-----------------------------------------------------------------------------
(* Each step is one of the atomic store, or none                           *)

\* The variables of the abstract store, as functions of those of the log.
LEMMA Frame ==
  ASSUME UNCHANGED <<home, logData, head>>
  PROVE  Replay' = Replay
BY DEF Replay

\* With an empty header, the homes are what a crash leaves.
LEMMA ReplayHome ==
  ASSUME TypeOK, head = <<>> PROVE Replay = home
<1>1. Len(head) = 0
  BY EmptySeq
<1> QED
  BY <1>1 DEF Replay, TypeOK

\* The header's group lies over the homes.
LEMMA ReplayLog ==
  ASSUME DistinctInv
  PROVE  /\ \A i \in 1..Len(head) : head[i] \in Blocks => Replay[head[i]] = logData[i]
         /\ \A b \in Blocks : (\A i \in 1..Len(head) : head[i] # b)
                                => Replay[b] = home[b]
BY DEF DistinctInv, Replay

\* Between groups no update is in a buffer only.
LEMMA AtRest ==
  ASSUME IInv, phase = "finish", mode # "boot" PROVE View = Replay
<1>1. InOp = {} /\ head = <<>> /\ dirty = {}
  BY NoCalls DEF IInv, DiskInv, HeadInv, DirtyInv
<1>2. \A p \in Procs : hold[p] = NoBlock
  BY <1>1 DEF IInv, LogInv, HoldInv, InOp
<1>3. \A b \in Blocks : Contents(b) = home[b]
  BY <1>1, <1>2, BlocksAssumption DEF IInv, DiskInv, NoLostUpdate
<1>4. Replay = home /\ home \in [Blocks -> Data]
  BY <1>1, ReplayHome DEF IInv, LogInv, TypeOK
<1> QED
  BY <1>3, <1>4 DEF View

StoreStep == [Store!Next]_(Store!storeVars)

\* A step that is none of the store's.
LEMMA Stutters ==
  ASSUME UNCHANGED <<Replay, View, InOp, Closing>> PROVE StoreStep
BY DEF StoreStep, Store!storeVars

\* A wait in begin_op() is not visible.
LEMMA BeginSleepRefines ==
  ASSUME IInv, NEW p \in Procs, BeginSleep(p) PROVE StoreStep
<1> USE DEF BeginSleep, Up, diskVars, bufVars, memVars, runVars, IInv
<1>1. InOp' = InOp /\ Closing' = Closing
  BY DEF LogInv, TypeOK, InOp, Closing
<1>2. Replay' = Replay /\ View' = View
  BY Frame DEF View, Contents
<1> QED
  BY <1>1, <1>2, Stutters

\* begin_op() returns.
LEMMA BeginOpRefines ==
  ASSUME IInv, NEW p \in Procs, BeginOp(p) PROVE StoreStep
<1> USE DEF BeginOp, MayBegin, Up, diskVars, bufVars, memVars, runVars, IInv
<1>1. InOp' = InOp \cup {p} /\ p \notin InOp
  BY DEF LogInv, TypeOK, InOp
<1>2. Closing = {} /\ Closing' = {}
  BY DEF LogInv, TypeOK, ModeInv, Closing
<1>3. Replay' = Replay /\ View' = View
  BY Frame DEF View, Contents
<1>4. Store!Begin(p)
  BY <1>1, <1>2, <1>3 DEF Store!Begin
<1> QED
  BY <1>4 DEF StoreStep, Store!Next

\* A change of a buffer is a write to the store.
LEMMA ModifyRefines ==
  ASSUME IInv, NEW p \in Procs, NEW b \in Blocks, NEW v \in Data,
         Modify(p, b, v)
  PROVE  StoreStep
<1> USE DEF Modify, Up, diskVars, memVars, runVars, IInv
<1>1. InOp' = InOp /\ p \in InOp /\ Closing' = Closing
  BY DEF LogInv, TypeOK, InOp, Closing
<1>2. Replay' = Replay
  BY Frame
<1>3. \A d \in Blocks : Contents(d)' = IF d = b THEN v ELSE Contents(d)
  BY DEF LogInv, TypeOK, Contents
<1>4. View' = [View EXCEPT ![b] = v]
  BY <1>3 DEF View
<1>5. Store!Write(p, b, v)
  BY <1>1, <1>2, <1>4 DEF Store!Write
<1> QED
  BY <1>5 DEF StoreStep, Store!Next

\* The tests of log_write() are not visible.
LEMMA LogCheckRefines ==
  ASSUME IInv, NEW p \in Procs, LogCheck(p) PROVE StoreStep
<1> USE DEF LogCheck, Up, diskVars, bufVars, memVars, IInv
<1>1. InOp' = InOp /\ Closing' = Closing
  BY DEF LogInv, TypeOK, InOp, Closing
<1>2. Replay' = Replay /\ View' = View
  BY Frame DEF View, Contents
<1> QED
  BY <1>1, <1>2, Stutters

\* Neither is the growth of the group.
LEMMA LogAppendRefines ==
  ASSUME IInv, NEW p \in Procs, LogAppend(p) PROVE StoreStep
<1> USE DEF LogAppend, Up, diskVars, runVars, IInv
<1>1. InOp' = InOp /\ Closing' = Closing
  BY DEF LogInv, TypeOK, InOp, Closing
<1>2. Replay' = Replay /\ View' = View
  BY Frame DEF View, Contents
<1> QED
  BY <1>1, <1>2, Stutters

\* end_op() while other calls are under way.
LEMMA EndOpRefines ==
  ASSUME IInv, NEW p \in Procs, EndOp(p) PROVE StoreStep
<1> USE DEF EndOp, Up, diskVars, bufVars, runVars, IInv
<1>1. InOp' = InOp \ {p} /\ p \in InOp /\ Closing' = Closing
  BY DEF LogInv, TypeOK, InOp, Closing, Woken
<1>2. InOp # {p}
  <2>1. Cardinality({p}) = 1
    BY FS_Singleton
  <2> QED
    BY <2>1 DEF LogInv, CountInv
<1>3. Replay' = Replay /\ View' = View
  BY Frame DEF View, Contents
<1>4. Store!End(p)
  BY <1>1, <1>2, <1>3 DEF Store!End
<1> QED
  BY <1>4 DEF StoreStep, Store!Next

\* The last end_op() closes the group.
LEMMA EndOpLastRefines ==
  ASSUME IInv, NEW p \in Procs, EndOpLast(p) PROVE StoreStep
<1> USE DEF EndOpLast, Up, diskVars, bufVars, IInv
<1>1. InOp' = InOp \ {p} /\ p \in InOp
  BY DEF LogInv, TypeOK, InOp
<1>2. InOp = {p}
  <2>1. IsFiniteSet(InOp) /\ Cardinality(InOp) = 1
    BY Finite, ReservedType DEF LogInv, CountInv, TypeOK
  <2>2. \E x : InOp = {x}
    BY <2>1, FS_Singleton
  <2> QED
    BY <2>2, <1>1
<1>3. Closing' = {p}
  BY <1>1, CallMode DEF LogInv, TypeOK, ModeInv, Closing
<1>4. Replay' = Replay /\ View' = View
  BY Frame DEF View, Contents
<1>5. Store!Close(p)
  BY <1>1, <1>2, <1>3, <1>4 DEF Store!Close
<1> QED
  BY <1>5 DEF StoreStep, Store!Next

\* The end of end_op() finds the group durable.
LEMMA EndCommitRefines ==
  ASSUME IInv, NEW p \in Procs, EndCommit(p) PROVE StoreStep
<1> USE DEF EndCommit, Up, diskVars, bufVars, IInv
<1>1. InOp' = InOp
  BY NoCalls DEF LogInv, TypeOK, InOp, Woken
<1>2. Closing # {} /\ Closing' = {}
  BY DEF LogInv, TypeOK, ModeInv, Closing, Woken
<1>3. Replay' = Replay /\ View' = View
  BY Frame DEF View, Contents
<1>4. Replay = View
  BY AtRest
<1>5. Store!Return
  BY <1>1, <1>2, <1>3, <1>4 DEF Store!Return
<1> QED
  BY <1>5 DEF StoreStep, Store!Next

\* The log's data blocks mean nothing while the header is empty.
LEMMA WriteLogRefines == ASSUME IInv, WriteLog PROVE StoreStep
<1> USE DEF WriteLog, Up, bufVars, memVars, procVars, IInv
<1>1. InOp' = InOp /\ Closing' = Closing
  BY DEF InOp, Closing
<1>2. head = <<>> /\ Len(head) = 0
  BY EmptySeq DEF DiskInv, HeadInv
<1>3. Replay' = Replay /\ View' = View
  BY <1>2 DEF Replay, View, Contents
<1> QED
  BY <1>1, <1>3, Stutters

\* The one write that makes the group durable.
LEMMA WriteHeadRefines == ASSUME IInv, WriteHead PROVE StoreStep
<1> USE DEF WriteHead, Up, bufVars, memVars, procVars, IInv
<1>1. InOp' = InOp /\ Closing' = Closing /\ InOp = {}
  BY NoCalls DEF InOp, Closing
<1>2. Closing # {}
  BY DEF LogInv, ModeInv, Closing
<1>3. View' = View
  BY DEF View, Contents
<1>4. \A b \in Blocks : Replay'[b] = Contents(b)
  <2>1. /\ \A i \in 1..Len(lh) : lh[i] \in Blocks => Replay'[lh[i]] = logData[i]
        /\ \A b \in Blocks : (\A i \in 1..Len(lh) : lh[i] # b)
                               => Replay'[b] = home[b]
    BY DEF Replay, DiskInv, DistinctInv
  <2>2. \A i \in 1..Len(lh) : logData[i] = Contents(lh[i])
    BY DEF DiskInv, CopyInv
  <2>3. \A p \in Procs : hold[p] = NoBlock
    BY <1>1 DEF LogInv, HoldInv, InOp
  <2>4. \A b \in Blocks : (\A i \in 1..Len(lh) : lh[i] # b)
                            => Contents(b) = home[b]
    BY <2>3, BlocksAssumption DEF DiskInv, NoLostUpdate, DirtyInv
  <2> QED
    BY <2>1, <2>2, <2>4
<1>5. Replay' = View
  <2>1. Replay' = [b \in Blocks |-> Replay'[b]]
    BY DEF Replay
  <2>2. View = [b \in Blocks |-> Contents(b)]
    BY DEF View
  <2> QED
    BY <1>4, <2>1, <2>2
<1>6. Store!Commit
  BY <1>1, <1>2, <1>3, <1>5 DEF Store!Commit
<1> QED
  BY <1>6 DEF StoreStep, Store!Next

\* What is installed is what the header's group says already.
LEMMA InstallRefines == ASSUME IInv, Install PROVE StoreStep
<1> DEFINE b == lh[tail + 1]
<1> USE DEF Install, memVars, procVars, IInv
<1>1. InOp' = InOp /\ Closing' = Closing
  BY DEF InOp, Closing
<1>2. tail + 1 \in 1..Len(lh) /\ head = lh
  BY NextTailType DEF DiskInv, HeadInv
<1>3. Replay' = Replay
  <2>1. \A d \in Blocks : d # b => home'[d] = home[d]
    BY DEF LogInv, TypeOK
  <2>2. \E i \in 1..Len(head) : head[i] = b
    BY <1>2
  <2>3. logData' = logData /\ head' = head
    OBVIOUS
  <2> HIDE DEF b
  <2> QED
    BY <2>1, <2>2, <2>3 DEF Replay
<1>4. View' = View
  <2>1. CASE mode = "boot"
    BY <1>3, <2>1 DEF View
  <2>2. CASE mode # "boot"
    <3>1. logData[tail + 1] = Contents(b)
      BY <1>2, <2>2 DEF DiskInv, CopyInv
    <3>2. \A d \in Blocks : Contents(d)' = IF d = b THEN logData[tail + 1] ELSE Contents(d)
      BY InstallContents
    <3>3. \A d \in Blocks : Contents(d)' = Contents(d)
      BY <3>1, <3>2
    <3> QED
      BY <2>2, <3>3 DEF View
  <2> QED
    BY <2>1, <2>2
<1> QED
  BY <1>1, <1>3, <1>4, Stutters

\* The header is cleared when the homes say the same.
LEMMA ClearHeadRefines == ASSUME IInv, ClearHead PROVE StoreStep
<1> USE DEF ClearHead, bufVars, procVars, IInv
<1>1. InOp' = InOp /\ Closing' = Closing
  BY DEF InOp, Closing
<1>2. Replay = home
  <2>1. head = lh /\ \A i \in 1..Len(head) : home[head[i]] = logData[i]
    BY DEF DiskInv, HeadInv, CopyInv
  <2>2. \A i \in 1..Len(head) : head[i] \in Blocks
    BY DEF LogInv, TypeOK
  <2>3. \A b \in Blocks : Replay[b] = home[b]
    BY <2>1, <2>2, ReplayLog DEF DiskInv
  <2>4. Replay = [b \in Blocks |-> Replay[b]] /\ home = [b \in Blocks |-> home[b]]
    BY DEF Replay, LogInv, TypeOK
  <2> QED
    BY <2>3, <2>4
<1>3. Replay' = home
  <2>1. home' = home /\ head' = <<>> /\ Len(<<>>) = 0
    BY EmptySeq
  <2> QED
    BY <2>1 DEF Replay, LogInv, TypeOK
<1>4. View' = View
  BY <1>2, <1>3 DEF View, Contents
<1> QED
  BY <1>1, <1>2, <1>3, <1>4, Stutters

\* The log in memory is not visible during recovery.
LEMMA ReadHeadRefines == ASSUME IInv, ReadHead PROVE StoreStep
<1> USE DEF ReadHead, diskVars, bufVars, procVars
<1>1. InOp' = InOp /\ Closing' = Closing
  BY DEF InOp, Closing
<1>2. Replay' = Replay /\ View' = View
  BY Frame DEF View
<1> QED
  BY <1>1, <1>2, Stutters

\* Calls begin to read what recovery has left.
LEMMA BootDoneRefines == ASSUME IInv, BootDone PROVE StoreStep
<1> USE DEF BootDone, diskVars, bufVars, memVars, procVars, IInv
<1>1. InOp' = InOp /\ Closing' = Closing
  BY DEF InOp, Closing
<1>2. head = <<>> /\ dirty = {} /\ \A p \in Procs : hold[p] = NoBlock
  BY DEF LogInv, ModeInv, HoldInv, DiskInv, HeadInv
<1>3. \A b \in Blocks : Contents(b) = home[b]
  BY <1>2, BlocksAssumption DEF DiskInv, NoLostUpdate
<1>4. Replay' = Replay /\ Replay = home /\ home \in [Blocks -> Data]
  BY <1>2, Frame, ReplayHome DEF LogInv, TypeOK
<1>5. View = Replay
  BY DEF View
<1>6. View' = [b \in Blocks |-> Contents(b)]
  BY DEF View, Contents
<1> QED
  BY <1>1, <1>3, <1>4, <1>5, <1>6, Stutters

\* Eviction is not visible.
LEMMA EvictRefines ==
  ASSUME IInv, NEW b \in Blocks, Evict(b) PROVE StoreStep
<1> USE DEF Evict, Up, diskVars, memVars, runVars, procVars
<1>1. InOp' = InOp /\ Closing' = Closing
  BY DEF InOp, Closing
<1>2. Replay' = Replay
  BY Frame
<1>3. View' = View
  BY EvictContents DEF View
<1> QED
  BY <1>1, <1>2, <1>3, Stutters

\* A crash takes the store back to what is durable.
LEMMA CrashRefines == ASSUME IInv, Crash PROVE StoreStep
<1> USE DEF Crash, diskVars
<1>1. InOp' = {} /\ Closing' = {}
  BY DEF InOp, Closing
<1>2. Replay' = Replay /\ View' = Replay
  BY Frame DEF View
<1>3. Store!Crash
  BY <1>1, <1>2 DEF Store!Crash
<1> QED
  BY <1>3 DEF StoreStep, Store!Next

-----------------------------------------------------------------------------
(* Theorems                                                                *)

\* The initial states satisfy the invariant of the disk.
LEMMA DiskInit == Init => DiskInv
<1> SUFFICES ASSUME Init PROVE DiskInv
  OBVIOUS
<1>1. Len(<<>>) = 0
  BY EmptySeq
<1> QED
  BY <1>1 DEF Init, DiskInv, NoLostUpdate, DistinctInv, HeadInv, CopyInv,
              DirtyInv, Contents

\* Every step keeps the invariant of the disk.
LEMMA DiskNext == IInv /\ [Next]_vars => DiskInv'
<1> SUFFICES ASSUME IInv, [Next]_vars PROVE DiskInv'
  OBVIOUS
<1>1. ASSUME NEW p \in Procs, OpStep(p) PROVE DiskInv'
  <2>1. CASE BeginSleep(p) \/ BeginOp(p)
    BY <2>1, DiskFrame
       DEF BeginSleep, BeginOp, IInv, runVars, memVars
  <2>2. CASE LogCheck(p)
    BY <2>2, DiskFrame DEF LogCheck, Up, IInv, memVars
  <2>3. CASE EndOp(p)
    BY <2>3, DiskFrame DEF EndOp, IInv, runVars
  <2>4. CASE EndCommit(p)
    BY <2>4, FinishDisk DEF EndCommit
  <2> QED
    BY <1>1, <2>1, <2>2, <2>3, <2>4, ModifyDisk, LogAppendDisk, EndOpLastDisk
       DEF OpStep
<1>2. CASE LogStep
  <2>1. CASE BootDone
    BY <2>1, FinishDisk DEF BootDone, memVars, procVars
  <2> QED
    BY <1>2, <2>1, WriteLogDisk, WriteHeadDisk, InstallDisk, ClearHeadDisk,
       ReadHeadDisk DEF LogStep
<1>3. CASE UNCHANGED vars
  BY <1>3, DiskFrame DEF vars, memVars, runVars, procVars, IInv
<1> QED
  BY <1>1, <1>2, <1>3, EvictDisk, CrashDisk DEF Next

\* The invariant of the log and the disk, in every reachable state.
THEOREM DiskInvariance == Spec => []IInv
<1>1. Init => IInv
  BY InitSafe, DiskInit DEF IInv
<1>2. IInv /\ [Next]_vars => IInv'
  BY NextSafe, DiskNext DEF IInv
<1> QED
  BY <1>1, <1>2, PTL DEF Spec

\* bget() drops no update that is not on its home block: log_write() pins a
\* buffer before its lock is released.
THEOREM UpdatesKept == Spec => []NoLostUpdate
<1>1. IInv => NoLostUpdate
  BY DEF IInv, DiskInv
<1> QED
  BY <1>1, DiskInvariance, PTL

\* Every step of the log is a step of the atomic store or leaves it alone.
LEMMA StepRefines == IInv /\ [Next]_vars => StoreStep
<1> SUFFICES ASSUME IInv, [Next]_vars PROVE StoreStep
  OBVIOUS
<1>1. ASSUME NEW p \in Procs, OpStep(p) PROVE StoreStep
  BY <1>1, BeginSleepRefines, BeginOpRefines, ModifyRefines, LogCheckRefines,
     LogAppendRefines, EndOpRefines, EndOpLastRefines, EndCommitRefines
     DEF OpStep
<1>2. CASE LogStep
  BY <1>2, WriteLogRefines, WriteHeadRefines, InstallRefines,
     ClearHeadRefines, ReadHeadRefines, BootDoneRefines DEF LogStep
<1>3. CASE UNCHANGED vars
  <2>1. Replay' = Replay /\ View' = View /\ InOp' = InOp /\ Closing' = Closing
    BY <1>3, Frame DEF vars, diskVars, bufVars, memVars, runVars, procVars,
       View, Contents, InOp, Closing
  <2> QED
    BY <2>1, Stutters
<1> QED
  BY <1>1, <1>2, <1>3, EvictRefines, CrashRefines DEF Next

\* The file system mkfs makes is an initial state of the store.
LEMMA InitRefines == Init => Store!Init
<1> SUFFICES ASSUME Init PROVE Store!Init
  OBVIOUS
<1> USE DEF Init
<1>1. Replay = home
  <2>1. Len(<<>>) = 0
    BY EmptySeq
  <2> QED
    BY <2>1 DEF Replay
<1>2. View = Replay /\ InOp = {} /\ Closing = {}
  BY DEF View, InOp, Closing
<1> QED
  BY <1>1, <1>2 DEF Store!Init

\* The log implements the atomic store: whatever steps a crash falls between, it
\* leaves whole groups of file system calls, in order, and every group whose
\* last end_op() has returned.
THEOREM LogImplementsStore == Spec => CrashAtomic
<1>1. IInv /\ [Next]_vars => [Store!Next]_(Store!storeVars)
  BY StepRefines DEF StoreStep
<1> QED
  BY <1>1, InitRefines, DiskInvariance, PTL DEF Spec, CrashAtomic, Store!Spec
=============================================================================
