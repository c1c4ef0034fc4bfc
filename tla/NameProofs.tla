----------------------------- MODULE NameProofs -----------------------------
(***************************************************************************)
(* The names of FileSys, for any number of processes, inodes, names and    *)
(* calls: every way out of a call gives back the locks and the references  *)
(* that it has taken, what is in the inode cache is on the disk,           *)
(* directories are in no circle of names, and processes that take locks    *)
(* for anything but iput() never wait for each other in a circle.          *)
(***************************************************************************)
EXTENDS FileSys, FiniteSetTheorems, SequenceTheorems, TLAPS

-----------------------------------------------------------------------------
(* The steps of a call that works on names                                 *)

\* What is left of a call when s takes the place of its first step.
LEMMA Moved ==
  ASSUME NEW q \in Seq(StepType), q # <<>>, NEW s \in Seq(StepType)
  PROVE  /\ s \o Tail(q) \in Seq(StepType)
         /\ Len(s \o Tail(q)) = Len(s) + Len(q) - 1
         /\ \A k \in 1 .. Len(s) : (s \o Tail(q))[k] = s[k]
         /\ \A k \in Len(s) + 1 .. Len(s) + Len(q) - 1 :
              /\ k - Len(s) + 1 \in 2 .. Len(q)
              /\ (s \o Tail(q))[k] = q[k - Len(s) + 1]
<1>1. /\ Tail(q) \in Seq(StepType) /\ Len(Tail(q)) = Len(q) - 1 /\ Len(q) \in Nat
      /\ \A k \in 1 .. Len(q) - 1 : Tail(q)[k] = q[k + 1]
  BY HeadTailProperties
<1>2. /\ s \o Tail(q) \in Seq(StepType) /\ Len(s \o Tail(q)) = Len(s) + Len(Tail(q))
      /\ \A k \in 1 .. Len(s) + Len(Tail(q)) :
           (s \o Tail(q))[k] = IF k <= Len(s) THEN s[k] ELSE Tail(q)[k - Len(s)]
  BY <1>1, ConcatProperties
<1>3. Len(s) \in Nat
  OBVIOUS
<1>4. ASSUME NEW k \in Len(s) + 1 .. Len(s) + Len(q) - 1
      PROVE  /\ k - Len(s) + 1 \in 2 .. Len(q)
             /\ (s \o Tail(q))[k] = q[k - Len(s) + 1]
  <2>1. k - Len(s) \in 1 .. Len(q) - 1 /\ k > Len(s)
    BY <1>1, <1>3
  <2>2. Tail(q)[k - Len(s)] = q[k - Len(s) + 1]
    BY <1>1, <2>1
  <2> QED
    BY <1>1, <1>2, <1>3, <2>1, <2>2
<1> QED
  BY <1>1, <1>2, <1>3, <1>4

\* A step that is not on the way to another is the last of its call.
LEMMA MainLast ==
  ASSUME TypeOK, TodoFits, NEW p \in Procs, todo[p] # <<>>, Head(todo[p]).do \notin Passing
  PROVE  Len(todo[p]) = 1 /\ todo[p] = <<Head(todo[p])>>
<1>1. todo[p] \in Seq(StepType)
  BY DEF TypeOK
<1>2. Len(todo[p]) \in Nat \ {0} /\ todo[p][1] = Head(todo[p])
  BY <1>1
<1>3. 1 \in DOMAIN todo[p]
  BY <1>1, <1>2
<1>4. Len(todo[p]) = 1
  BY <1>2, <1>3 DEF TodoFits
<1> QED
  BY <1>1, <1>2, <1>4

\* The steps of p after its first has been replaced by s.
LEMMA Turned ==
  ASSUME TypeOK, NEW p \in Procs, NEW s \in Seq(StepType), todo[p] # <<>>, Then(p, s)
  PROVE  /\ todo' \in [Procs -> Seq(StepType)]
         /\ \A q \in Procs \ {p} : todo'[q] = todo[q]
         /\ Len(todo'[p]) = Len(s) + Len(todo[p]) - 1
         /\ \A k \in 1 .. Len(s) : todo'[p][k] = s[k]
         /\ \A k \in Len(s) + 1 .. Len(s) + Len(todo[p]) - 1 :
              /\ k - Len(s) + 1 \in 2 .. Len(todo[p])
              /\ todo'[p][k] = todo[p][k - Len(s) + 1]
         /\ Len(todo[p]) \in Nat \ {0} /\ todo[p][1] = Head(todo[p])
         /\ \A x \in Steps(p)' : \/ \E k \in 1 .. Len(s) : x = s[k]
                                 \/ (x \in Steps(p) /\ Len(todo[p]) # 1)
         /\ \A q \in Procs \ {p} : Steps(q)' = Steps(q)
<1>1. todo \in [Procs -> Seq(StepType)] /\ todo[p] \in Seq(StepType)
  BY DEF TypeOK
<1>2. todo'[p] = s \o Tail(todo[p]) /\ \A q \in Procs \ {p} : todo'[q] = todo[q]
  BY <1>1 DEF Then
<1>3. /\ todo'[p] \in Seq(StepType)
      /\ Len(todo'[p]) = Len(s) + Len(todo[p]) - 1
      /\ \A k \in 1 .. Len(s) : todo'[p][k] = s[k]
      /\ \A k \in Len(s) + 1 .. Len(s) + Len(todo[p]) - 1 :
           /\ k - Len(s) + 1 \in 2 .. Len(todo[p])
           /\ todo'[p][k] = todo[p][k - Len(s) + 1]
  BY <1>1, <1>2, Moved
<1>4. todo' \in [Procs -> Seq(StepType)]
  BY <1>1, <1>3 DEF Then
<1>5. ASSUME NEW x \in Steps(p)'
      PROVE  (\E k \in 1 .. Len(s) : x = s[k]) \/ (x \in Steps(p) /\ Len(todo[p]) # 1)
  <2>1. PICK k \in 1 .. Len(s) + Len(todo[p]) - 1 : x = todo'[p][k]
    BY <1>3 DEF Steps
  <2>2. CASE k \in 1 .. Len(s)
    <3>1. x = s[k]
      BY <1>3, <2>1, <2>2
    <3> QED
      BY <2>2, <3>1
  <2>3. CASE k \in Len(s) + 1 .. Len(s) + Len(todo[p]) - 1
    <3>1. x = todo[p][k - Len(s) + 1] /\ k - Len(s) + 1 \in DOMAIN todo[p]
      BY <1>1, <1>3, <2>1, <2>3
    <3>2. Len(todo[p]) # 1
      <4>1. k - Len(s) + 1 \in 2 .. Len(todo[p])
        BY <1>3, <2>3
      <4>2. Len(todo[p]) \in Nat /\ Len(todo[p]) > 1
        BY <1>1, <4>1
      <4>3. \A n \in Nat : n > 1 => n # 1
        OBVIOUS
      <4> QED
        BY ONLY <4>2, <4>3
    <3> QED
      BY <3>1, <3>2 DEF Steps
  <2> QED
    BY <2>2, <2>3
<1> QED
  BY <1>1, <1>2, <1>3, <1>4, <1>5 DEF Steps

\* The steps of p in its place of the call.
LEMMA TodoKept ==
  ASSUME TypeOK, TodoFits, NEW p \in Procs, NEW s \in Seq(StepType),
         todo[p] # <<>>, Then(p, s),
         \A k \in 1 .. Len(s) : StepFits(p, s[k])' /\ (k # Len(s) => s[k].do \in Passing),
         \/ Len(todo[p]) = 1
         \/ /\ \A k \in 1 .. Len(s) : s[k].do \in Passing
            /\ call'[p] = call[p] /\ path'[p] = path[p],
         \A q \in Procs \ {p} : call'[q] = call[q] /\ path'[q] = path[q]
  PROVE  TodoFits'
<1>1. ASSUME NEW q \in Procs \ {p}, NEW k \in DOMAIN todo'[q]
      PROVE  StepFits(q, todo[q][k])' /\ (k # Len(todo'[q]) => todo'[q][k].do \in Passing)
  <2>1. todo'[q] = todo[q] /\ call'[q] = call[q] /\ path'[q] = path[q]
    BY Turned
  <2>2. StepFits(q, todo[q][k]) /\ (k # Len(todo[q]) => todo[q][k].do \in Passing)
    BY <2>1 DEF TodoFits
  <2> QED
    BY <2>1, <2>2 DEF StepFits
<1>2. ASSUME NEW k \in DOMAIN todo'[p]
      PROVE  StepFits(p, todo[p][k])' /\ (k # Len(todo'[p]) => todo'[p][k].do \in Passing)
  <2>1. /\ k \in 1 .. Len(s) + Len(todo[p]) - 1 /\ Len(s) \in Nat
        /\ Len(todo'[p]) = Len(s) + Len(todo[p]) - 1 /\ Len(todo[p]) \in Nat \ {0}
    BY Turned
  <2>2. CASE k \in 1 .. Len(s)
    <3>1. todo'[p][k] = s[k]
      BY <2>2, Turned
    <3>2. StepFits(p, s[k])' /\ (k # Len(s) => s[k].do \in Passing)
      BY <2>2
    <3>3. k # Len(todo'[p]) => s[k].do \in Passing
      <4>1. CASE Len(todo[p]) = 1
        <5>1. Len(todo'[p]) = Len(s)
          BY <2>1, <4>1
        <5> QED
          BY <3>2, <5>1
      <4>2. CASE Len(todo[p]) # 1
        BY <2>2, <4>2
      <4> QED
        BY <4>1, <4>2
    <3> QED
      BY <3>1, <3>2, <3>3 DEF StepFits
  <2>3. CASE k \in Len(s) + 1 .. Len(s) + Len(todo[p]) - 1
    <3>1. /\ k - Len(s) + 1 \in DOMAIN todo[p] /\ Len(todo[p]) # 1
          /\ todo'[p][k] = todo[p][k - Len(s) + 1]
          /\ k # Len(todo'[p]) => k - Len(s) + 1 # Len(todo[p])
      <4>1. todo[p] \in Seq(StepType)
        BY DEF TypeOK
      <4> QED
        <5>1. /\ k - Len(s) + 1 \in 2 .. Len(todo[p])
              /\ todo'[p][k] = todo[p][k - Len(s) + 1]
          BY <2>3, Turned
        <5>2. DOMAIN todo[p] = 1 .. Len(todo[p])
          BY <4>1
        <5>3. k - Len(s) + 1 \in DOMAIN todo[p] /\ Len(todo[p]) # 1
          BY <2>1, <5>1, <5>2
        <5>4. k # Len(todo'[p]) => k - Len(s) + 1 # Len(todo[p])
          BY <2>1, <2>3
        <5> QED
          BY <5>1, <5>3, <5>4
    <3>2. /\ StepFits(p, todo[p][k - Len(s) + 1])
          /\ k - Len(s) + 1 # Len(todo[p]) => todo[p][k - Len(s) + 1].do \in Passing
      BY <3>1 DEF TodoFits
    <3> QED
      BY <3>1, <3>2 DEF StepFits
  <2> QED
    BY <2>1, <2>2, <2>3
<1> QED
  BY <1>1, <1>2 DEF TodoFits

-----------------------------------------------------------------------------
(* The locks of a call                                                     *)

\* A call takes a lock that is free, and has the locks that its steps release.
LEMMA LocksKept ==
  ASSUME TypeOK, HeldOnce, LocksReleased, NEW p \in Procs, NEW s \in Seq(StepType),
         todo[p] # <<>>, Then(p, s),
         \A k, l \in 1 .. Len(s) :
           k # l /\ HeldFor(s[k]) # NoIno => HeldFor(s[k]) # HeldFor(s[l]),
         \A k \in 1 .. Len(s) :
           \/ HeldFor(s[k]) = NoIno \/ HeldFor(s[k]) = HeldFor(Head(todo[p]))
           \/ lock[HeldFor(s[k])] = NoProc,
         \A i \in Inums :
           lock'[i] = IF \E k \in 1 .. Len(s) : HeldFor(s[k]) = i THEN p
                      ELSE IF HeldFor(Head(todo[p])) = i THEN NoProc ELSE lock[i]
  PROVE  HeldOnce' /\ LocksReleased'
<1> DEFINE q == todo[p]
           h == Head(q)
           x == todo'[p]
<1>1. /\ q \in Seq(StepType) /\ Len(q) \in Nat \ {0} /\ q[1] = h /\ Len(s) \in Nat
      /\ DOMAIN q = 1 .. Len(q) /\ DOMAIN s = 1 .. Len(s)
      /\ x \in Seq(StepType) /\ DOMAIN x = 1 .. Len(s) + Len(q) - 1
      /\ \A k \in 1 .. Len(s) : x[k] = s[k]
      /\ \A k \in Len(s) + 1 .. Len(s) + Len(q) - 1 :
           k - Len(s) + 1 \in 2 .. Len(q) /\ x[k] = q[k - Len(s) + 1]
      /\ \A y \in Procs \ {p} : todo'[y] = todo[y]
  BY Turned DEF TypeOK
<1>2. /\ \A k \in 1 .. Len(q) : HeldFor(q[k]) \in Inums \cup {NoIno}
      /\ \A k \in 1 .. Len(s) : HeldFor(s[k]) \in Inums \cup {NoIno}
      /\ NoIno \notin Inums /\ p # NoProc
  <2>1. ASSUME NEW a \in StepType PROVE HeldFor(a) \in Inums \cup {NoIno}
    BY DEF HeldFor, StepType
  <2> QED
    BY <1>1, <2>1, FileSysAssumption DEF NoIno
<1>3. \A k, l \in 1 .. Len(q) :
        k # l /\ HeldFor(q[k]) # NoIno => HeldFor(q[k]) # HeldFor(q[l])
  BY <1>1 DEF HeldOnce
<1>4. \A i \in Inums : lock[i] = p <=> \E k \in 1 .. Len(q) : HeldFor(q[k]) = i
  <2> SUFFICES ASSUME NEW i \in Inums
               PROVE  lock[i] = p <=> \E k \in 1 .. Len(q) : HeldFor(q[k]) = i
    OBVIOUS
  <2>1. lock[i] = p <=> i \in LocksOf(p)
    BY DEF LocksReleased
  <2>2. Steps(p) = {q[k] : k \in 1 .. Len(q)}
    BY <1>1 DEF Steps
  <2>3. i \in LocksOf(p) <=> \E y \in Steps(p) : HeldFor(y) = i
    BY <1>2 DEF LocksOf
  <2> QED
    BY ONLY <2>1, <2>2, <2>3
<1> HIDE DEF q, h, x
<1>13. \A k \in Len(s) + 1 .. Len(s) + Len(q) - 1 :
         k - Len(s) + 1 \in 2 .. Len(q) /\ x[k] = q[k - Len(s) + 1]
  BY <1>1
<1>14. Len(s) \in Nat /\ Len(q) \in Nat \ {0} /\ DOMAIN x = 1 .. Len(s) + Len(q) - 1
  BY <1>1
\* Positions of x: those of s, and those of q after the first.
<1>5. ASSUME NEW k \in DOMAIN x
      PROVE  \/ k \in 1 .. Len(s) /\ x[k] = s[k]
             \/ \E j \in 2 .. Len(q) : k = j + Len(s) - 1 /\ x[k] = q[j]
  <2>1. CASE k \in 1 .. Len(s)
    BY <1>1, <2>1
  <2>2. CASE k \in Len(s) + 1 .. Len(s) + Len(q) - 1
    <3>1. k - Len(s) + 1 \in 2 .. Len(q) /\ x[k] = q[k - Len(s) + 1]
      BY ONLY <1>13, <2>2
    <3>2. k = (k - Len(s) + 1) + Len(s) - 1
      BY ONLY <1>14, <2>2
    <3> QED
      BY <3>1, <3>2
  <2> QED
    BY ONLY <1>14, <1>5, <2>1, <2>2
<1>6. \A j \in 2 .. Len(q) : j + Len(s) - 1 \in DOMAIN x /\ x[j + Len(s) - 1] = q[j]
  <2> SUFFICES ASSUME NEW j \in 2 .. Len(q)
               PROVE  j + Len(s) - 1 \in DOMAIN x /\ x[j + Len(s) - 1] = q[j]
    OBVIOUS
  <2>1. j + Len(s) - 1 \in Len(s) + 1 .. Len(s) + Len(q) - 1 /\ (j + Len(s) - 1) - Len(s) + 1 = j
    BY <1>14
  <2>2. x[j + Len(s) - 1] = q[j]
    BY ONLY <1>13, <2>1
  <2>3. j + Len(s) - 1 \in DOMAIN x
    BY ONLY <1>14, j \in 2 .. Len(q)
  <2> QED
    BY <2>2, <2>3
<1>7. \A k \in 1 .. Len(s) : k \in DOMAIN x
  BY <1>1
\* What the rest of the call holds is held before, and s has none of it.
<1>8. ASSUME NEW j \in 2 .. Len(q), HeldFor(q[j]) # NoIno
      PROVE  /\ HeldFor(q[j]) # HeldFor(h) /\ lock[HeldFor(q[j])] = p
             /\ \A k \in 1 .. Len(s) : HeldFor(s[k]) # HeldFor(q[j])
  <2>1. j \in 1 .. Len(q) /\ 1 \in 1 .. Len(q) /\ j # 1
    BY <1>1
  <2>2. HeldFor(q[j]) # HeldFor(h)
    BY <1>1, <1>3, <1>8, <2>1
  <2>3. lock[HeldFor(q[j])] = p
    BY <1>2, <1>4, <1>8, <2>1
  <2> QED
    BY <1>2, <1>8, <2>2, <2>3 DEF q, h
<1>9. HeldOnce'
  <2>1. ASSUME NEW k \in DOMAIN x, NEW l \in DOMAIN x, k # l, HeldFor(x[k]) # NoIno
        PROVE  HeldFor(x[k]) # HeldFor(x[l])
    <3>1. CASE k \in 1 .. Len(s) /\ x[k] = s[k] /\ l \in 1 .. Len(s) /\ x[l] = s[l]
      BY <2>1, <3>1
    <3>2. CASE /\ k \in 1 .. Len(s) /\ x[k] = s[k]
               /\ \E j \in 2 .. Len(q) : l = j + Len(s) - 1 /\ x[l] = q[j]
      BY <1>8, <2>1, <3>2
    <3>3. CASE /\ l \in 1 .. Len(s) /\ x[l] = s[l]
               /\ \E j \in 2 .. Len(q) : k = j + Len(s) - 1 /\ x[k] = q[j]
      BY <1>8, <2>1, <3>3
    <3>4. CASE /\ \E j \in 2 .. Len(q) : k = j + Len(s) - 1 /\ x[k] = q[j]
               /\ \E j \in 2 .. Len(q) : l = j + Len(s) - 1 /\ x[l] = q[j]
      <4>1. PICK j \in 2 .. Len(q) : k = j + Len(s) - 1 /\ x[k] = q[j]
        BY <3>4
      <4>2. PICK m \in 2 .. Len(q) : l = m + Len(s) - 1 /\ x[l] = q[m]
        BY <3>4
      <4>3. j # m /\ j \in 1 .. Len(q) /\ m \in 1 .. Len(q)
        <5>1. j # m
          BY ONLY k # l, <4>1, <4>2
        <5>2. \A y \in 2 .. Len(q) : y \in 1 .. Len(q)
          BY <1>14
        <5> QED
          BY <5>1, <5>2
      <4> QED
        BY <1>3, <2>1, <4>1, <4>2, <4>3
    <3> QED
      BY <1>5, <3>1, <3>2, <3>3, <3>4
  <2> QED
    <3> SUFFICES ASSUME NEW y \in Procs
                 PROVE  \A k, l \in DOMAIN todo'[y] :
                          k # l /\ HeldFor(todo'[y][k]) # NoIno
                            => HeldFor(todo'[y][k]) # HeldFor(todo'[y][l])
      BY DEF HeldOnce
    <3>1. CASE y = p
      BY <2>1, <3>1 DEF x
    <3>2. CASE y # p
      <4>1. todo'[y] = todo[y]
        BY <1>1, <3>2
      <4> QED
        BY <4>1 DEF HeldOnce
    <3> QED
      BY <3>1, <3>2
<1>10. \A i \in Inums : lock'[i] = p <=> \E k \in DOMAIN x : HeldFor(x[k]) = i
  <2> SUFFICES ASSUME NEW i \in Inums
               PROVE  lock'[i] = p <=> \E k \in DOMAIN x : HeldFor(x[k]) = i
    OBVIOUS
  <2>0. i # NoIno
    BY <1>2
  <2>1. CASE \E k \in 1 .. Len(s) : HeldFor(s[k]) = i
    BY <1>1, <1>7, <2>1
  <2>2. CASE ~(\E k \in 1 .. Len(s) : HeldFor(s[k]) = i) /\ HeldFor(h) = i
    <3>1. lock'[i] # p
      BY <1>2, <2>2 DEF h, q
    <3>2. \A j \in 2 .. Len(q) : HeldFor(q[j]) # i
      BY <1>8, <2>0, <2>2
    <3> QED
      BY <1>5, <2>2, <3>1, <3>2
  <2>3. CASE ~(\E k \in 1 .. Len(s) : HeldFor(s[k]) = i) /\ HeldFor(h) # i
    <3>1. lock'[i] = lock[i]
      BY <2>3 DEF h, q
    <3>2. lock[i] = p <=> \E j \in 2 .. Len(q) : HeldFor(q[j]) = i
      <4>1. \A j \in 1 .. Len(q) : j = 1 \/ j \in 2 .. Len(q)
        BY <1>1
      <4>2. \A j \in 2 .. Len(q) : j \in 1 .. Len(q)
        BY <1>1
      <4> QED
        BY <1>1, <1>4, <2>3, <4>1, <4>2
    <3>3. (\E k \in DOMAIN x : HeldFor(x[k]) = i) <=> \E j \in 2 .. Len(q) : HeldFor(q[j]) = i
      BY <1>5, <1>6, <2>3
    <3> QED
      BY <3>1, <3>2, <3>3
  <2> QED
    BY <2>1, <2>2, <2>3
<1>11. \A y \in Procs \ {p}, i \in Inums : lock'[i] = y <=> lock[i] = y
  <2> SUFFICES ASSUME NEW y \in Procs \ {p}, NEW i \in Inums
               PROVE  lock'[i] = y <=> lock[i] = y
    OBVIOUS
  <2>0. y # NoProc
    BY FileSysAssumption
  <2>1. CASE \E k \in 1 .. Len(s) : HeldFor(s[k]) = i
    <3>1. lock[i] = p \/ lock[i] = NoProc
      <4>1. PICK k \in 1 .. Len(s) : HeldFor(s[k]) = i
        BY <2>1
      <4>2. CASE HeldFor(s[k]) = HeldFor(h)
        <5>1. 1 \in 1 .. Len(q)
          BY <1>1
        <5> QED
          BY <1>1, <1>4, <4>1, <4>2, <5>1
      <4>3. HeldFor(s[k]) # NoIno
        BY <1>2, <4>1
      <4> QED
        BY <4>1, <4>2, <4>3 DEF h, q
    <3> QED
      BY <2>0, <2>1, <3>1
  <2>2. CASE ~(\E k \in 1 .. Len(s) : HeldFor(s[k]) = i) /\ HeldFor(h) = i
    <3>1. lock[i] = p
      <4>1. 1 \in 1 .. Len(q)
        BY <1>1
      <4> QED
        BY <1>1, <1>4, <2>2, <4>1
    <3> QED
      BY <2>0, <2>2, <3>1 DEF h, q
  <2>3. CASE ~(\E k \in 1 .. Len(s) : HeldFor(s[k]) = i) /\ HeldFor(h) # i
    BY <2>3 DEF h, q
  <2> QED
    BY <2>1, <2>2, <2>3
<1>12. LocksReleased'
  <2>1. ASSUME NEW i \in Inums PROVE (lock[i] = p <=> i \in LocksOf(p))'
    BY <1>2, <1>10 DEF LocksOf, Steps, x
  <2>2. ASSUME NEW y \in Procs \ {p}, NEW i \in Inums
        PROVE  (lock[i] = y <=> i \in LocksOf(y))'
    <3>1. lock[i] = y <=> i \in LocksOf(y)
      BY DEF LocksReleased
    <3> QED
      BY <1>1, <1>11, <3>1 DEF LocksOf, Steps
  <2> QED
    BY <2>1, <2>2 DEF LocksReleased
<1> QED
  BY <1>9, <1>12

-----------------------------------------------------------------------------
(* The references of processes                                             *)

\* How many references to i the steps q have.
Weight(q, i) == Cardinality(StepRefs(q, i))

\* How many a step has.
Refers(a, i) == IF a.do = "unlock" THEN 0
                ELSE (IF a.ino = i THEN 1 ELSE 0) + (IF a.dir = i THEN 1 ELSE 0)

\* They can be counted.
LEMMA WeightType ==
  ASSUME NEW q \in Seq(StepType), NEW i
  PROVE  IsFiniteSet(StepRefs(q, i)) /\ Weight(q, i) \in Nat
<1>1. IsFiniteSet(DOMAIN q)
  <2>1. DOMAIN q = 1 .. Len(q) /\ Len(q) \in Nat
    OBVIOUS
  <2> QED
    BY <2>1, FS_Interval
<1>2. IsFiniteSet({"ino", "dir"})
  <2>1. {"ino", "dir"} = {"ino"} \cup {"dir"} /\ IsFiniteSet({"ino"})
    BY FS_Singleton
  <2>2. IsFiniteSet({"ino"} \cup {"dir"})
    BY <2>1, FS_AddElement
  <2> QED
    BY <2>1, <2>2
<1>3. IsFiniteSet((DOMAIN q) \X {"ino", "dir"})
  BY <1>1, <1>2, FS_Product
<1>4. IsFiniteSet(StepRefs(q, i))
  BY <1>3, FS_Subset DEF StepRefs
<1> QED
  BY <1>4, FS_CardinalityType DEF Weight

\* No steps, no references.
LEMMA NoWeight ==
  ASSUME NEW i
  PROVE  Weight(<<>>, i) = 0
<1>1. StepRefs(<<>>, i) = {}
  BY DEF StepRefs
<1> QED
  BY <1>1, FS_EmptySet DEF Weight

\* The references of steps after others are added to theirs.
LEMMA WeightAdds ==
  ASSUME NEW s \in Seq(StepType), NEW q \in Seq(StepType), NEW i
  PROVE  Weight(s \o q, i) = Weight(s, i) + Weight(q, i)
<1> DEFINE x == s \o q
           S == StepRefs(s, i)
           Q == StepRefs(q, i)
           F == [y \in Q |-> <<y[1] + Len(s), y[2]>>]
           T == {F[y] : y \in Q}
<1>1. /\ Len(q) \in Nat /\ DOMAIN q = 1 .. Len(q)
      /\ Len(s) \in Nat /\ DOMAIN s = 1 .. Len(s)
      /\ DOMAIN x = 1 .. Len(s) + Len(q)
      /\ \A k \in 1 .. Len(s) : x[k] = s[k]
      /\ \A k \in 1 .. Len(q) : x[k + Len(s)] = q[k]
  <2>1. /\ x \in Seq(StepType) /\ Len(x) = Len(s) + Len(q)
        /\ \A k \in 1 .. Len(s) + Len(q) :
             x[k] = IF k <= Len(s) THEN s[k] ELSE q[k - Len(s)]
    BY ConcatProperties
  <2> QED
    BY <2>1
<1>2. \A y \in Q : y[1] \in 1 .. Len(q) /\ y[2] \in {"ino", "dir"} /\ y = <<y[1], y[2]>>
  BY <1>1 DEF StepRefs
<1>3. StepRefs(x, i) = S \cup T
  <2>1. ASSUME NEW y \in StepRefs(x, i) PROVE y \in S \cup T
    <3>1. PICK k \in 1 .. Len(s) + Len(q), f \in {"ino", "dir"} :
            y = <<k, f>> /\ x[k][f] = i /\ x[k].do # "unlock"
      BY <1>1 DEF StepRefs
    <3>2. CASE k \in 1 .. Len(s)
      BY <1>1, <3>1, <3>2 DEF StepRefs
    <3>3. CASE k \notin 1 .. Len(s)
      <4>1. k - Len(s) \in 1 .. Len(q) /\ (k - Len(s)) + Len(s) = k
        BY <1>1, <3>3
      <4>2. x[k] = q[k - Len(s)]
        BY <1>1, <4>1
      <4>3. <<k - Len(s), f>> \in Q
        BY <1>1, <3>1, <4>1, <4>2 DEF StepRefs
      <4>4. F[<<k - Len(s), f>>] = <<k, f>>
        BY <4>1, <4>3
      <4> QED
        BY <3>1, <4>3, <4>4
    <3> QED
      BY <3>2, <3>3
  <2>2. ASSUME NEW y \in T PROVE y \in StepRefs(x, i)
    <3>1. PICK z \in Q : y = <<z[1] + Len(s), z[2]>>
      OBVIOUS
    <3>2. /\ z[1] \in 1 .. Len(q) /\ z[2] \in {"ino", "dir"}
          /\ q[z[1]][z[2]] = i /\ q[z[1]].do # "unlock"
      BY <1>2 DEF StepRefs
    <3>3. x[z[1] + Len(s)] = q[z[1]] /\ z[1] + Len(s) \in DOMAIN x
      BY <1>1, <3>2
    <3> QED
      BY <3>1, <3>2, <3>3 DEF StepRefs
  <2>3. S \subseteq StepRefs(x, i)
    <3> SUFFICES ASSUME NEW k \in 1 .. Len(s), NEW f \in {"ino", "dir"}, <<k, f>> \in S
                 PROVE  <<k, f>> \in StepRefs(x, i)
      BY <1>1 DEF StepRefs
    <3>1. k \in DOMAIN x /\ x[k] = s[k]
      BY <1>1
    <3> QED
      BY <3>1 DEF StepRefs
  <2> QED
    BY <2>1, <2>2, <2>3
<1>4. IsFiniteSet(Q) /\ IsFiniteSet(S)
  BY WeightType
<1>5. IsFiniteSet(T) /\ Cardinality(T) = Cardinality(Q)
  <2>1. \A y, z \in Q : F[y] = F[z] => y = z
    <3> SUFFICES ASSUME NEW y \in Q, NEW z \in Q, F[y] = F[z] PROVE y = z
      OBVIOUS
    <3>1. y[1] + Len(s) = z[1] + Len(s) /\ y[2] = z[2]
      OBVIOUS
    <3>2. y[1] = z[1]
      <4>1. y[1] \in 1 .. Len(q) /\ z[1] \in 1 .. Len(q)
        BY <1>2
      <4> QED
        BY ONLY <1>1, <3>1, <4>1
    <3> QED
      BY <1>2, <3>1, <3>2
  <2>2. F \in Bijection(Q, T)
    BY <2>1 DEF Bijection, Injection, Surjection, IsInjective
  <2> QED
    BY <1>4, <2>2, FS_Bijection DEF ExistsBijection
<1>6. S \cap T = {}
  <2>1. \A y \in T : y[1] \notin 1 .. Len(s)
    <3> SUFFICES ASSUME NEW z \in Q PROVE F[z][1] \notin 1 .. Len(s)
      OBVIOUS
    <3>1. z[1] \in 1 .. Len(q) /\ F[z][1] = z[1] + Len(s)
      BY <1>2
    <3> QED
      BY <1>1, <3>1
  <2>2. \A y \in S : y[1] \in 1 .. Len(s)
    BY <1>1 DEF StepRefs
  <2> HIDE DEF T, S
  <2> QED
    BY <2>1, <2>2
<1> HIDE DEF Q, F, T, S
<1>7. Cardinality(S \cap T) = 0 /\ Cardinality(S) \in Nat /\ Cardinality(Q) \in Nat
  BY <1>4, <1>6, FS_EmptySet, FS_CardinalityType
<1>8. Cardinality(S \cup T) = Cardinality(S) + Cardinality(T) - Cardinality(S \cap T)
  BY <1>4, <1>5, FS_Union
<1>9. Weight(x, i) = Cardinality(S) + Cardinality(Q)
  BY <1>3, <1>5, <1>7, <1>8 DEF Weight
<1> QED
  BY <1>9 DEF Weight, Q, S

\* One step.
LEMMA WeightOne ==
  ASSUME NEW a \in StepType, NEW i
  PROVE  Weight(<<a>>, i) = Refers(a, i)
<1> DEFINE A == {y \in {<<1, "ino">>} : a.ino = i /\ a.do # "unlock"}
           B == {y \in {<<1, "dir">>} : a.dir = i /\ a.do # "unlock"}
<1>1. StepRefs(<<a>>, i) = A \cup B
  <2>1. <<a>>[1] = a /\ DOMAIN <<a>> = {1}
    OBVIOUS
  <2>2. \A y \in {1} \X {"ino", "dir"} : y = <<1, "ino">> \/ y = <<1, "dir">>
    OBVIOUS
  <2>3. \A y \in StepRefs(<<a>>, i) : y \in A \cup B
    <3> SUFFICES ASSUME NEW y \in StepRefs(<<a>>, i) PROVE y \in A \cup B
      OBVIOUS
    <3>1. y \in {1} \X {"ino", "dir"} /\ a[y[2]] = i /\ a.do # "unlock"
      BY <2>1 DEF StepRefs
    <3> QED
      BY <2>2, <3>1
  <2>4. A \cup B \subseteq StepRefs(<<a>>, i)
    BY <2>1 DEF StepRefs
  <2> QED
    BY <2>3, <2>4
<1>2. /\ A = IF a.ino = i /\ a.do # "unlock" THEN {<<1, "ino">>} ELSE {}
      /\ B = IF a.dir = i /\ a.do # "unlock" THEN {<<1, "dir">>} ELSE {}
  OBVIOUS
<1>3. A \cap B = {}
  OBVIOUS
<1> HIDE DEF A, B
<1>4. /\ IsFiniteSet(A) /\ Cardinality(A) = IF a.ino = i /\ a.do # "unlock" THEN 1 ELSE 0
      /\ IsFiniteSet(B) /\ Cardinality(B) = IF a.dir = i /\ a.do # "unlock" THEN 1 ELSE 0
  BY <1>2, FS_EmptySet, FS_Singleton
<1>5. Cardinality(A \cap B) = 0
  BY <1>3, FS_EmptySet
<1>6. Cardinality(A \cup B) = Cardinality(A) + Cardinality(B) - Cardinality(A \cap B)
  BY <1>4, FS_Union
<1> QED
  BY <1>1, <1>4, <1>5, <1>6 DEF Weight, Refers

\* The references of a process: those of its steps, and at most two others.
LEMMA RefsCard ==
  ASSUME NEW q \in Seq(StepType), NEW i,
         NEW A \in SUBSET {<<0, "cwd">>}, NEW B \in SUBSET {<<0, "fd">>}
  PROVE  /\ IsFiniteSet(StepRefs(q, i) \cup A \cup B)
         /\ Cardinality(StepRefs(q, i) \cup A \cup B)
              = Weight(q, i) + (IF A = {} THEN 0 ELSE 1) + (IF B = {} THEN 0 ELSE 1)
<1> DEFINE Q == StepRefs(q, i)
<1>1. /\ IsFiniteSet(A) /\ Cardinality(A) = IF A = {} THEN 0 ELSE 1
      /\ IsFiniteSet(B) /\ Cardinality(B) = IF B = {} THEN 0 ELSE 1
  <2>1. ASSUME NEW x, NEW C \in SUBSET {x}
        PROVE  IsFiniteSet(C) /\ Cardinality(C) = IF C = {} THEN 0 ELSE 1
    <3>1. CASE C = {}
      BY <3>1, FS_EmptySet
    <3>2. CASE C = {x}
      BY <3>2, FS_Singleton
    <3> QED
      BY <3>1, <3>2
  <2> QED
    BY <2>1
<1>2. IsFiniteSet(Q) /\ Weight(q, i) = Cardinality(Q) /\ Cardinality(Q) \in Nat
  BY WeightType DEF Weight
<1>3. Q \cap A = {} /\ (Q \cup A) \cap B = {}
  <2>1. ASSUME NEW y \in Q PROVE y # <<0, "cwd">> /\ y # <<0, "fd">>
    <3>1. y[1] \in DOMAIN q /\ DOMAIN q = 1 .. Len(q) /\ Len(q) \in Nat
      BY DEF StepRefs
    <3> QED
      BY <3>1
  <2> QED
    BY <2>1
<1> HIDE DEF Q
<1>4. IsFiniteSet(Q \cup A) /\ Cardinality(Q \cup A) = Cardinality(Q) + Cardinality(A)
  <2>1. Cardinality(Q \cap A) = 0
    BY <1>3, FS_EmptySet
  <2>2. /\ IsFiniteSet(Q \cup A)
        /\ Cardinality(Q \cup A) = Cardinality(Q) + Cardinality(A) - Cardinality(Q \cap A)
    BY <1>1, <1>2, FS_Union
  <2> QED
    BY <1>1, <1>2, <2>1, <2>2
<1>5. /\ IsFiniteSet(Q \cup A \cup B)
      /\ Cardinality(Q \cup A \cup B) = Cardinality(Q) + Cardinality(A) + Cardinality(B)
  <2>1. Cardinality((Q \cup A) \cap B) = 0
    BY <1>3, FS_EmptySet
  <2>2. /\ IsFiniteSet((Q \cup A) \cup B)
        /\ Cardinality((Q \cup A) \cup B)
             = Cardinality(Q \cup A) + Cardinality(B) - Cardinality((Q \cup A) \cap B)
    BY <1>1, <1>4, FS_Union
  <2> QED
    BY <1>1, <1>2, <1>4, <2>1, <2>2
<1> QED
  BY <1>1, <1>2, <1>5 DEF Q

\* The members of the sets of a family, each with whose it is; there are finitely many.
Tagged(f) == UNION {{y} \X f[y] : y \in Procs}

\* The references of finitely many processes can be counted.
LEMMA FamilyFinite ==
  ASSUME NEW P, IsFiniteSet(P), NEW f, \A y \in P : IsFiniteSet(f[y])
  PROVE  IsFiniteSet(UNION {{y} \X f[y] : y \in P})
<1> DEFINE H == [y \in P |-> {y} \X f[y]]
           T == {H[y] : y \in P}
<1>1. IsFiniteSet(T)
  <2>1. H \in Surjection(P, T)
    BY DEF Surjection
  <2> QED
    BY <2>1, FS_Surjection
<1>2. \A y \in T : IsFiniteSet(y)
  <2> SUFFICES ASSUME NEW y \in P PROVE IsFiniteSet({y} \X f[y])
    OBVIOUS
  <2> QED
    BY FS_Singleton, FS_Product
<1>3. IsFiniteSet(UNION T)
  BY <1>1, <1>2, FS_UNION
<1>4. UNION {{y} \X f[y] : y \in P} = UNION T
  OBVIOUS
<1> QED
  BY <1>3, <1>4

\* A family of finite sets of which one changes.
LEMMA OneChanges ==
  ASSUME NEW F, NEW G, NEW p \in Procs,
         \A y \in Procs : IsFiniteSet(F[y]) /\ IsFiniteSet(G[y]),
         \A y \in Procs \ {p} : F[y] = G[y]
  PROVE  /\ Cardinality(Tagged(F)) \in Nat
         /\ Cardinality(Tagged(G)) \in Nat
         /\ Cardinality(Tagged(F)) + Cardinality(G[p])
              = Cardinality(Tagged(G)) + Cardinality(F[p])
<1> DEFINE R == UNION {{y} \X F[y] : y \in Procs \ {p}}
<1>1. IsFiniteSet(R)
  <2>1. IsFiniteSet(Procs \ {p})
    BY FileSysAssumption, FS_RemoveElement
  <2>2. \A y \in Procs \ {p} : IsFiniteSet(F[y])
    OBVIOUS
  <2> QED
    BY ONLY <2>1, <2>2, FamilyFinite
<1>2. ASSUME NEW A, IsFiniteSet(A)
      PROVE  /\ Cardinality(R \cup ({p} \X A)) = Cardinality(R) + Cardinality(A)
             /\ Cardinality(A) \in Nat /\ Cardinality(R) \in Nat
  <2>1. IsFiniteSet({p} \X A) /\ Cardinality({p} \X A) = Cardinality(A) /\ Cardinality(A) \in Nat
    <3>1. IsFiniteSet({p}) /\ Cardinality({p}) = 1 /\ Cardinality(A) \in Nat
      BY <1>2, FS_Singleton, FS_CardinalityType
    <3>2. /\ IsFiniteSet({p} \X A)
          /\ Cardinality({p} \X A) = Cardinality({p}) * Cardinality(A)
      BY <1>2, <3>1, FS_Product
    <3> QED
      BY <3>1, <3>2
  <2>2. R \cap ({p} \X A) = {}
    <3>1. \A y \in R : y[1] # p
      OBVIOUS
    <3>2. \A y \in {p} \X A : y[1] = p
      OBVIOUS
    <3> QED
      BY <3>1, <3>2
  <2>3. Cardinality(R \cap ({p} \X A)) = 0 /\ Cardinality(R) \in Nat
    BY <1>1, <2>2, FS_EmptySet, FS_CardinalityType
  <2>4. Cardinality(R \cup ({p} \X A))
          = Cardinality(R) + Cardinality({p} \X A) - Cardinality(R \cap ({p} \X A))
    BY <1>1, <2>1, FS_Union
  <2> QED
    BY <2>1, <2>3, <2>4
<1>3. /\ Tagged(F) = R \cup ({p} \X F[p])
      /\ Tagged(G) = R \cup ({p} \X G[p])
  <2>1. ASSUME NEW f
        PROVE  UNION {{y} \X f[y] : y \in Procs}
                 = (UNION {{y} \X f[y] : y \in Procs \ {p}}) \cup ({p} \X f[p])
    <3>1. ASSUME NEW z \in UNION {{y} \X f[y] : y \in Procs}
          PROVE  z \in (UNION {{y} \X f[y] : y \in Procs \ {p}}) \cup ({p} \X f[p])
      <4>1. PICK y \in Procs : z \in {y} \X f[y]
        OBVIOUS
      <4>2. CASE y = p
        BY <4>1, <4>2
      <4>3. CASE y \in Procs \ {p}
        BY <4>1, <4>3
      <4> QED
        BY <4>2, <4>3
    <3>2. ASSUME NEW z \in (UNION {{y} \X f[y] : y \in Procs \ {p}}) \cup ({p} \X f[p])
          PROVE  z \in UNION {{y} \X f[y] : y \in Procs}
      <4>1. PICK y \in Procs : z \in {y} \X f[y]
        OBVIOUS
      <4> QED
        BY <4>1
    <3> QED
      BY <3>1, <3>2
  <2>2. {{y} \X F[y] : y \in Procs \ {p}} = {{y} \X G[y] : y \in Procs \ {p}}
    OBVIOUS
  <2>3. /\ R = UNION {{y} \X F[y] : y \in Procs \ {p}}
        /\ R = UNION {{y} \X G[y] : y \in Procs \ {p}}
    BY <2>2
  <2> HIDE DEF R
  <2>4. Tagged(F) = R \cup ({p} \X F[p])
    BY <2>1, <2>3 DEF Tagged
  <2>5. Tagged(G) = R \cup ({p} \X G[p])
    BY <2>1, <2>3 DEF Tagged
  <2> QED
    BY <2>4, <2>5
<1> HIDE DEF R
<1>4. /\ Cardinality(R \cup ({p} \X F[p])) = Cardinality(R) + Cardinality(F[p])
      /\ Cardinality(F[p]) \in Nat /\ Cardinality(R) \in Nat
  BY <1>2
<1>5. /\ Cardinality(R \cup ({p} \X G[p])) = Cardinality(R) + Cardinality(G[p])
      /\ Cardinality(G[p]) \in Nat
  BY <1>2
<1>6. Cardinality(Tagged(F)) = Cardinality(R) + Cardinality(F[p])
  BY <1>3, <1>4
<1>7. Cardinality(Tagged(G)) = Cardinality(R) + Cardinality(G[p])
  BY <1>3, <1>5
<1> QED
  BY <1>4, <1>5, <1>6, <1>7

\* The references of a process that are in no step.
OfCwd(p, i) == IF cwd[p] = i /\ \A s \in Steps(p) : s.do # "setcwd" THEN 1 ELSE 0
OfFd(p, i)  == IF fd[p] = i THEN 1 ELSE 0

\* A step of p that gives back what it has no more, and counts what it has got.
LEMMA RefsKept ==
  ASSUME TypeOK, RefsCounted, NEW p \in Procs, todo' \in [Procs -> Seq(StepType)],
         \A q \in Procs \ {p} : todo'[q] = todo[q] /\ cwd'[q] = cwd[q] /\ fd'[q] = fd[q],
         \A i \in Inums :
           /\ ref'[i] \in Int
           /\ ref'[i] + Weight(todo[p], i) + OfCwd(p, i) + OfFd(p, i)
                = ref[i] + Weight(todo'[p], i) + OfCwd(p, i)' + OfFd(p, i)'
  PROVE  RefsCounted' /\ \A i \in Inums : ref'[i] \in Nat
<1> SUFFICES ASSUME NEW i \in Inums
             PROVE  /\ ref'[i] = Cardinality(UNION {{y} \X References(y, i)' : y \in Procs})
                    /\ ref'[i] \in Nat
  BY DEF RefsCounted
<1> DEFINE F == [y \in Procs |-> References(y, i)]
           G == [y \in Procs |-> References(y, i)']
<1>1. ASSUME NEW y \in Procs
      PROVE  /\ IsFiniteSet(F[y])
             /\ Cardinality(F[y]) = Weight(todo[y], i) + OfCwd(y, i) + OfFd(y, i)
  <2> DEFINE A == {f \in {<<0, "cwd">>} : cwd[y] = i /\ \A s \in Steps(y) : s.do # "setcwd"}
             B == {f \in {<<0, "fd">>} : fd[y] = i}
  <2>1. F[y] = StepRefs(todo[y], i) \cup A \cup B
    BY DEF References
  <2>2. OfCwd(y, i) = (IF A = {} THEN 0 ELSE 1) /\ OfFd(y, i) = (IF B = {} THEN 0 ELSE 1)
    BY DEF OfCwd, OfFd
  <2>3. /\ todo[y] \in Seq(StepType)
        /\ A \in SUBSET {<<0, "cwd">>} /\ B \in SUBSET {<<0, "fd">>}
    BY DEF TypeOK
  <2> HIDE DEF A, B, F
  <2>4. /\ IsFiniteSet(StepRefs(todo[y], i) \cup A \cup B)
        /\ Cardinality(StepRefs(todo[y], i) \cup A \cup B)
             = Weight(todo[y], i) + (IF A = {} THEN 0 ELSE 1) + (IF B = {} THEN 0 ELSE 1)
    BY ONLY <2>3, RefsCard
  <2> QED
    BY <2>1, <2>2, <2>4
<1>2. ASSUME NEW y \in Procs
      PROVE  /\ IsFiniteSet(G[y])
             /\ Cardinality(G[y]) = Weight(todo'[y], i) + OfCwd(y, i)' + OfFd(y, i)'
  <2> DEFINE A == {f \in {<<0, "cwd">>} : cwd'[y] = i /\ \A s \in Steps(y)' : s.do # "setcwd"}
             B == {f \in {<<0, "fd">>} : fd'[y] = i}
  <2>1. G[y] = StepRefs(todo'[y], i) \cup A \cup B
    BY DEF References, StepRefs
  <2>2. OfCwd(y, i)' = (IF A = {} THEN 0 ELSE 1) /\ OfFd(y, i)' = (IF B = {} THEN 0 ELSE 1)
    BY DEF OfCwd, OfFd
  <2>3. /\ todo'[y] \in Seq(StepType)
        /\ A \in SUBSET {<<0, "cwd">>} /\ B \in SUBSET {<<0, "fd">>}
    OBVIOUS
  <2> HIDE DEF A, B, G
  <2>4. /\ IsFiniteSet(StepRefs(todo'[y], i) \cup A \cup B)
        /\ Cardinality(StepRefs(todo'[y], i) \cup A \cup B)
             = Weight(todo'[y], i) + (IF A = {} THEN 0 ELSE 1) + (IF B = {} THEN 0 ELSE 1)
    BY ONLY <2>3, RefsCard
  <2> QED
    BY <2>1, <2>2, <2>4
<1>3. \A y \in Procs \ {p} : F[y] = G[y]
  BY DEF References, Steps, StepRefs
<1>4. /\ UNION {{y} \X References(y, i) : y \in Procs} = Tagged(F)
      /\ UNION {{y} \X References(y, i)' : y \in Procs} = Tagged(G)
  BY DEF Tagged
<1> HIDE DEF F, G
<1>5. /\ Cardinality(Tagged(F)) \in Nat
      /\ Cardinality(Tagged(G)) \in Nat
      /\ Cardinality(Tagged(F)) + Cardinality(G[p])
           = Cardinality(Tagged(G)) + Cardinality(F[p])
  <2>1. \A y \in Procs : IsFiniteSet(F[y]) /\ IsFiniteSet(G[y])
    BY <1>1, <1>2
  <2>2. \A y \in Procs \ {p} : F[y] = G[y]
    BY <1>3
  <2> QED
    BY <2>1, <2>2, OneChanges
<1>6. ref[i] = Cardinality(Tagged(F))
  BY <1>4 DEF RefsCounted
<1>7. /\ Weight(todo[p], i) \in Nat /\ Weight(todo'[p], i) \in Nat
      /\ OfCwd(p, i) \in Nat /\ OfCwd(p, i)' \in Nat /\ OfFd(p, i) \in Nat /\ OfFd(p, i)' \in Nat
  BY WeightType DEF TypeOK, OfCwd, OfFd
<1>8. /\ Cardinality(F[p]) = Weight(todo[p], i) + OfCwd(p, i) + OfFd(p, i)
      /\ Cardinality(G[p]) = Weight(todo'[p], i) + OfCwd(p, i)' + OfFd(p, i)'
  BY <1>1, <1>2
<1>9. ref'[i] = Cardinality(Tagged(G))
  <2>1. /\ ref'[i] \in Int
        /\ ref'[i] + Weight(todo[p], i) + OfCwd(p, i) + OfFd(p, i)
             = ref[i] + Weight(todo'[p], i) + OfCwd(p, i)' + OfFd(p, i)'
    OBVIOUS
  <2> QED
    BY ONLY <1>5, <1>6, <1>7, <1>8, <2>1
<1> QED
  BY <1>4, <1>5, <1>9

\* Two steps one after the other, and a third.
LEMMA Joined ==
  ASSUME NEW a \in StepType, NEW b \in StepType
  PROVE  /\ <<a>> \o <<b>> = <<a, b>>
         /\ \A c \in StepType : <<a, b>> \o <<c>> = <<a, b, c>>
<1>1. ASSUME NEW x \in Seq(StepType), NEW y \in StepType
      PROVE  Append(x, y) = x \o <<y>>
  BY <1>1, AppendIsConcat
<1>2. /\ <<a, b>> = Append(<<a>>, b) /\ <<a>> \in Seq(StepType) /\ <<a, b>> \in Seq(StepType)
      /\ \A c \in StepType : <<a, b, c>> = Append(<<a, b>>, c)
  OBVIOUS
<1> QED
  BY <1>1, <1>2

\* The references of two steps, of three, and of four.
LEMMA WeightTwo ==
  ASSUME NEW a \in StepType, NEW b \in StepType, NEW i
  PROVE  Weight(<<a, b>>, i) = Refers(a, i) + Refers(b, i)
<1>1. <<a>> \in Seq(StepType) /\ <<b>> \in Seq(StepType)
  OBVIOUS
<1>2. Weight(<<a>> \o <<b>>, i) = Weight(<<a>>, i) + Weight(<<b>>, i)
  BY <1>1, WeightAdds
<1> QED
  BY <1>2, Joined, WeightOne

\* Three.
LEMMA WeightThree ==
  ASSUME NEW a \in StepType, NEW b \in StepType, NEW c \in StepType, NEW i
  PROVE  Weight(<<a, b, c>>, i) = Refers(a, i) + Refers(b, i) + Refers(c, i)
<1>1. <<a, b>> \in Seq(StepType) /\ <<c>> \in Seq(StepType)
  OBVIOUS
<1>2. Weight(<<a, b>> \o <<c>>, i) = Weight(<<a, b>>, i) + Weight(<<c>>, i)
  BY <1>1, WeightAdds
<1>3. <<a, b>> \o <<c>> = <<a, b, c>>
  BY Joined
<1> QED
  BY <1>2, <1>3, WeightOne, WeightTwo

\* Four.
LEMMA WeightFour ==
  ASSUME NEW a \in StepType, NEW b \in StepType, NEW c \in StepType, NEW d \in StepType, NEW i
  PROVE  Weight(<<a, b, c, d>>, i) = Refers(a, i) + Refers(b, i) + Refers(c, i) + Refers(d, i)
<1>1. <<a, b, c>> \in Seq(StepType) /\ <<d>> \in Seq(StepType)
  OBVIOUS
<1>2. Weight(<<a, b, c>> \o <<d>>, i) = Weight(<<a, b, c>>, i) + Weight(<<d>>, i)
  BY <1>1, WeightAdds
<1>3. <<a, b, c>> \o <<d>> = <<a, b, c, d>>
  <2>1. <<a, b, c, d>> = Append(<<a, b, c>>, d)
    OBVIOUS
  <2> QED
    BY <1>1, <2>1, AppendIsConcat
<1>4. /\ Weight(<<d>>, i) = Refers(d, i)
      /\ Weight(<<a, b, c>>, i) = Refers(a, i) + Refers(b, i) + Refers(c, i)
  BY WeightOne, WeightThree
<1> QED
  BY <1>2, <1>3, <1>4

\* A step of p gives back what it has no more, and counts what it has got.
LEMMA RefsTurned ==
  ASSUME TypeOK, RefsCounted, NEW p \in Procs, NEW s \in Seq(StepType), todo[p] # <<>>,
         Then(p, s), Head(todo[p]).do # "setcwd", \A k \in 1 .. Len(s) : s[k].do # "setcwd",
         cwd' = cwd, \A q \in Procs \ {p} : fd'[q] = fd[q],
         \A i \in Inums :
           /\ ref'[i] \in Int
           /\ ref'[i] + Refers(Head(todo[p]), i) + OfFd(p, i)
                = ref[i] + Weight(s, i) + OfFd(p, i)'
  PROVE  RefsCounted' /\ \A i \in Inums : ref'[i] \in Nat
<1>1. /\ todo' \in [Procs -> Seq(StepType)] /\ todo[p] \in Seq(StepType)
      /\ \A q \in Procs \ {p} : todo'[q] = todo[q]
  BY Turned DEF TypeOK
<1>2. todo[p] = <<Head(todo[p])>> \o Tail(todo[p]) /\ Head(todo[p]) \in StepType
      /\ Tail(todo[p]) \in Seq(StepType) /\ todo'[p] = s \o Tail(todo[p])
  BY <1>1 DEF Then, TypeOK
<1>3. ASSUME NEW i \in Inums
      PROVE  ref'[i] + Weight(todo[p], i) + OfCwd(p, i) + OfFd(p, i)
                = ref[i] + Weight(todo'[p], i) + OfCwd(p, i)' + OfFd(p, i)'
  <2>1. Weight(todo[p], i) = Refers(Head(todo[p]), i) + Weight(Tail(todo[p]), i)
    <3>1. <<Head(todo[p])>> \in Seq(StepType)
      BY <1>2
    <3> QED
      BY <1>2, <3>1, WeightAdds, WeightOne
  <2>2. Weight(todo'[p], i) = Weight(s, i) + Weight(Tail(todo[p]), i)
    BY <1>2, WeightAdds
  <2>3. OfCwd(p, i)' = OfCwd(p, i)
    <3>1. (\A x \in Steps(p)' : x.do # "setcwd") <=> (\A x \in Steps(p) : x.do # "setcwd")
      <4>1. ASSUME NEW x \in Steps(p)', x.do = "setcwd" PROVE x \in Steps(p)
        BY <4>1, Turned
      <4>2. ASSUME NEW x \in Steps(p), x.do = "setcwd" PROVE x \in Steps(p)'
        <5>1. PICK k \in DOMAIN todo[p] : x = todo[p][k]
          BY DEF Steps
        <5>2. /\ todo[p][1] = Head(todo[p]) /\ Len(todo[p]) \in Nat \ {0} /\ k \in 1 .. Len(todo[p])
              /\ Len(s) \in Nat
          BY <1>1, <5>1, Turned
        <5>3. k # 1
          BY <4>2, <5>1, <5>2
        <5>4. LET j == Len(s) + k - 1 IN
              j \in Len(s) + 1 .. Len(s) + Len(todo[p]) - 1 /\ j - Len(s) + 1 = k
          BY ONLY <5>2, <5>3
        <5>5. todo'[p][Len(s) + k - 1] = todo[p][k]
          <6>1. \A l \in Len(s) + 1 .. Len(s) + Len(todo[p]) - 1 :
                  todo'[p][l] = todo[p][l - Len(s) + 1]
            BY Turned
          <6> QED
            BY ONLY <5>4, <6>1
        <5>6. Len(s) + k - 1 \in DOMAIN todo'[p]
          <6>1. Len(todo'[p]) = Len(s) + Len(todo[p]) - 1
            BY Turned
          <6>2. DOMAIN todo'[p] = 1 .. Len(todo'[p])
            BY <1>1
          <6> QED
            BY ONLY <5>2, <5>4, <6>1, <6>2
        <5> QED
          BY <5>1, <5>5, <5>6 DEF Steps
      <4> QED
        BY <4>1, <4>2
    <3> QED
      BY <3>1 DEF OfCwd
  <2>4. /\ Weight(Tail(todo[p]), i) \in Nat /\ Weight(s, i) \in Nat /\ OfCwd(p, i) \in Nat
        /\ OfFd(p, i) \in Nat /\ OfFd(p, i)' \in Nat /\ ref[i] \in Nat
        /\ Refers(Head(todo[p]), i) \in Nat
    <3>1. Weight(Tail(todo[p]), i) \in Nat /\ Weight(s, i) \in Nat
      BY <1>2, WeightType
    <3>2. /\ OfCwd(p, i) \in Nat /\ OfFd(p, i) \in Nat /\ OfFd(p, i)' \in Nat
          /\ Refers(Head(todo[p]), i) \in Nat
      BY DEF OfCwd, OfFd, Refers
    <3>3. ref[i] \in Nat
      BY DEF TypeOK
    <3> QED
      BY <3>1, <3>2, <3>3
  <2>5. /\ ref'[i] \in Int
        /\ ref'[i] + Refers(Head(todo[p]), i) + OfFd(p, i)
                = ref[i] + Weight(s, i) + OfFd(p, i)'
    OBVIOUS
  <2> DEFINE t == Weight(Tail(todo[p]), i)
             h == Refers(Head(todo[p]), i)
  <2>6. /\ Weight(todo[p], i) = h + t /\ Weight(todo'[p], i) = Weight(s, i) + t
        /\ t \in Nat /\ h \in Nat /\ ref'[i] \in Int
        /\ ref'[i] + h + OfFd(p, i) = ref[i] + Weight(s, i) + OfFd(p, i)'
    BY <2>1, <2>2, <2>4, <2>5
  <2>7. /\ Weight(s, i) \in Nat /\ OfCwd(p, i) \in Nat /\ ref[i] \in Nat
        /\ OfFd(p, i) \in Nat /\ OfFd(p, i)' \in Nat
    BY <2>4
  <2> HIDE DEF t, h
  <2>8. ref'[i] + (h + t) + OfCwd(p, i) + OfFd(p, i)
          = ref[i] + (Weight(s, i) + t) + OfCwd(p, i) + OfFd(p, i)'
    <3>2. /\ ref'[i] \in Int /\ h \in Int /\ t \in Int /\ OfCwd(p, i) \in Int
          /\ OfFd(p, i) \in Int /\ OfFd(p, i)' \in Int /\ ref[i] \in Int
          /\ Weight(s, i) \in Int
      BY <2>6, <2>7
    <3>3. ref'[i] + h + OfFd(p, i) = ref[i] + Weight(s, i) + OfFd(p, i)'
      BY ONLY <2>6
    <3>5. ref[i] + (Weight(s, i) + t) + OfCwd(p, i) + OfFd(p, i)' = (ref[i] + Weight(s, i) + OfFd(p, i)') + t + OfCwd(p, i)
      BY ONLY <3>2
    <3>6. ref'[i] + (h + t) + OfCwd(p, i) + OfFd(p, i) = (ref'[i] + h + OfFd(p, i)) + t + OfCwd(p, i)
      BY ONLY <3>2
    <3> QED
      BY ONLY <3>3, <3>5, <3>6
  <2> QED
    BY ONLY <2>3, <2>6, <2>8
<1>4. \A q \in Procs \ {p} : cwd'[q] = cwd[q] /\ fd'[q] = fd[q]
  OBVIOUS
<1> QED
  BY <1>1, <1>3, <1>4, RefsKept

\* Whoever refers to an inode is counted.
LEMMA Referred ==
  ASSUME TypeOK, RefsCounted, NEW i \in Inums, NEW p \in Procs, NEW x \in References(p, i)
  PROVE  /\ ref[i] >= 1
         /\ \A q \in Procs : \A y \in References(q, i) : <<q, y>> # <<p, x>> => ref[i] >= 2
<1> DEFINE F == [q \in Procs |-> References(q, i)]
<1>1. IsFiniteSet(Tagged(F)) /\ Cardinality(Tagged(F)) = ref[i]
  <2>1. ASSUME NEW y \in Procs PROVE IsFiniteSet(F[y])
    <3> DEFINE A == {f \in {<<0, "cwd">>} : cwd[y] = i /\ \A s \in Steps(y) : s.do # "setcwd"}
               B == {f \in {<<0, "fd">>} : fd[y] = i}
    <3>1. F[y] = StepRefs(todo[y], i) \cup A \cup B
      BY DEF References
    <3>2. /\ todo[y] \in Seq(StepType)
          /\ A \in SUBSET {<<0, "cwd">>} /\ B \in SUBSET {<<0, "fd">>}
      BY DEF TypeOK
    <3> HIDE DEF A, B, F
    <3>3. IsFiniteSet(StepRefs(todo[y], i) \cup A \cup B)
      BY ONLY <3>2, RefsCard
    <3> QED
      BY <3>1, <3>3
  <2>2. Tagged(F) = UNION {{y} \X References(y, i) : y \in Procs}
    BY DEF Tagged
  <2>3. ref[i] = Cardinality(Tagged(F))
    BY <2>2 DEF RefsCounted
  <2>4. IsFiniteSet(Tagged(F))
    <3> HIDE DEF F
    <3> QED
      BY <2>1, FileSysAssumption, FamilyFinite DEF Tagged
  <2> QED
    BY <2>3, <2>4
<1>2. \A q \in Procs : \A y \in References(q, i) : <<q, y>> \in Tagged(F)
  BY DEF Tagged
<1> HIDE DEF F
<1>3. ref[i] >= 1
  <2>1. Tagged(F) # {}
    BY <1>2
  <2>2. Cardinality(Tagged(F)) # 0 /\ Cardinality(Tagged(F)) \in Nat
    BY <1>1, <2>1, FS_EmptySet, FS_CardinalityType
  <2> QED
    BY <1>1, <2>2
<1>4. ASSUME NEW q \in Procs, NEW y \in References(q, i), <<q, y>> # <<p, x>>
      PROVE  ref[i] >= 2
  <2>1. {<<p, x>>, <<q, y>>} \subseteq Tagged(F)
    BY <1>2
  <2>2. Cardinality({<<p, x>>, <<q, y>>}) <= Cardinality(Tagged(F))
    BY <1>1, <2>1, FS_Subset
  <2>3. Cardinality({<<p, x>>, <<q, y>>}) = 2
    <3>1. IsFiniteSet({<<p, x>>}) /\ Cardinality({<<p, x>>}) = 1
      BY FS_Singleton
    <3>2. <<q, y>> \notin {<<p, x>>}
      BY <1>4
    <3>3. Cardinality({<<p, x>>} \cup {<<q, y>>}) = 1 + 1
      BY <3>1, <3>2, FS_AddElement
    <3>4. {<<p, x>>, <<q, y>>} = {<<p, x>>} \cup {<<q, y>>}
      OBVIOUS
    <3> QED
      BY <3>3, <3>4
  <2>4. Cardinality(Tagged(F)) \in Nat
    BY <1>1, FS_CardinalityType
  <2> QED
    BY <1>1, <2>2, <2>3, <2>4
<1> QED
  BY <1>3, <1>4

-----------------------------------------------------------------------------
(* What a step works on                                                     *)

\* The first step of a call.
LEMMA AtHead ==
  ASSUME TypeOK, TodoFits, NEW p \in Procs, todo[p] # <<>>
  PROVE  /\ Head(todo[p]) \in StepType /\ StepFits(p, Head(todo[p]))
         /\ Head(todo[p]) \in Steps(p) /\ todo[p][1] = Head(todo[p]) /\ 1 \in DOMAIN todo[p]
         /\ Ino(p) \in Inums \cup {NoIno} /\ Dir(p) \in Inums \cup {NoIno}
         /\ Head(todo[p]).do \notin Passing => Len(todo[p]) = 1
<1>1. todo[p] \in Seq(StepType)
  BY DEF TypeOK
<1>2. Head(todo[p]) \in StepType /\ todo[p][1] = Head(todo[p]) /\ 1 \in DOMAIN todo[p]
  BY <1>1
<1>3. StepFits(p, Head(todo[p]))
  BY <1>2 DEF TodoFits
<1>4. Ino(p) \in Inums \cup {NoIno} /\ Dir(p) \in Inums \cup {NoIno}
  BY <1>2 DEF Ino, Dir, StepType
<1> QED
  BY <1>2, <1>3, <1>4, MainLast DEF Steps

\* An inode that a step works on is in the cache.
LEMMA StepHolds ==
  ASSUME TypeOK, RefsCounted, NEW p \in Procs, NEW x \in Steps(p), x.do # "unlock",
         NEW i \in Inums, x.ino = i \/ x.dir = i
  PROVE  ref[i] >= 1
<1>1. PICK k \in DOMAIN todo[p] : x = todo[p][k]
  BY DEF Steps
<1>2. <<k, "ino">> \in References(p, i) \/ <<k, "dir">> \in References(p, i)
  BY <1>1 DEF References, StepRefs
<1> QED
  BY <1>2, Referred

\* The last reference to an inode is its only one.
LEMMA Alone ==
  ASSUME TypeOK, TodoFits, RefsCounted, NEW p \in Procs, todo[p] # <<>>,
         Head(todo[p]).do = "put", Ino(p) \in Inums, ref[Ino(p)] = 1,
         NEW q \in Procs, NEW t \in Steps(q)
  PROVE  Ino(p) \notin KnownDirs(t) \cup KnownFiles(t)
<1> DEFINE i == Ino(p)
<1> SUFFICES ASSUME i \in KnownDirs(t) \cup KnownFiles(t)
             PROVE  FALSE
  OBVIOUS
<1>1. PICK k \in DOMAIN todo[q] : t = todo[q][k]
  BY DEF Steps
<1>2. /\ <<1, "ino">> \in References(p, i)
  BY AtHead DEF References, StepRefs, Ino
<1>3. /\ t.do # "unlock" /\ t.do # "put" /\ (t.ino = i \/ t.dir = i)
  BY DEF KnownDirs, KnownFiles
<1>4. PICK f \in {"ino", "dir"} : <<k, f>> \in References(q, i)
  BY <1>1, <1>3 DEF References, StepRefs
<1>5. <<q, <<k, f>>>> # <<p, <<1, "ino">>>>
  BY <1>1, <1>3, AtHead
<1>6. ref[i] >= 2
  BY <1>2, <1>4, <1>5, Referred
<1> QED
  BY <1>6

\* The lock that a step releases is taken.
LEMMA StepLocks ==
  ASSUME TypeOK, LocksReleased, NEW p \in Procs, NEW x \in Steps(p), HeldFor(x) # NoIno
  PROVE  HeldFor(x) \in Inums /\ lock[HeldFor(x)] = p /\ p # NoProc
<1>1. x \in StepType
  BY DEF Steps, TypeOK
<1>2. HeldFor(x) \in Inums
  BY <1>1 DEF HeldFor, StepType
<1>3. HeldFor(x) \in LocksOf(p)
  BY DEF LocksOf
<1>4. lock[HeldFor(x)] = p
  BY <1>2, <1>3 DEF LocksReleased
<1> QED
  BY <1>2, <1>4, FileSysAssumption

\* What a process sees of an inode that it refers to.
LEMMA InfoIs ==
  ASSUME TypeOK, CacheFits, NEW i \in Inums, ref[i] >= 1
  PROVE  Info(i) = disk[i]
BY DEF CacheFits, Info, TypeOK

\* The locks without the one that a step releases.
Released(h) ==
  IF HeldFor(h) = NoIno THEN lock ELSE [lock EXCEPT ![HeldFor(h)] = NoProc]

\* A step that takes no lock.
LEMMA LocksFreed ==
  ASSUME TypeOK, TodoFits, HeldOnce, LocksReleased, NEW p \in Procs,
         NEW s \in Seq(StepType), todo[p] # <<>>, Then(p, s),
         lock' = Released(Head(todo[p])), \A k \in 1 .. Len(s) : HeldFor(s[k]) = NoIno
  PROVE  HeldOnce' /\ LocksReleased' /\ lock' \in [Inums -> Procs \cup {NoProc}]
<1>1. NoIno \notin Inums
  BY FileSysAssumption DEF NoIno
<1>2. lock \in [Inums -> Procs \cup {NoProc}]
  BY DEF TypeOK
<1>3. \A i \in Inums :
           lock'[i] = IF \E k \in 1 .. Len(s) : HeldFor(s[k]) = i THEN p
                      ELSE IF HeldFor(Head(todo[p])) = i THEN NoProc ELSE lock[i]
  BY <1>1, <1>2 DEF Released
<1>4. lock' \in [Inums -> Procs \cup {NoProc}]
  BY <1>2 DEF Released
<1> QED
  BY <1>3, <1>4, LocksKept

-----------------------------------------------------------------------------
(* The tree of names                                                        *)

\* What a step has found, of either type.
Known(s) == KnownDirs(s) \cup KnownFiles(s)

\* No name, or less.
LEMMA LoopFree ==
  ASSUME NoLoop, \A d, i \in Inums : Under(d, i)' => Under(d, i)
  PROVE  NoLoop'
BY DEF NoLoop

\* A name for an inode in which there are none.
LEMMA LoopSink ==
  ASSUME NoLoop, NEW e \in Inums, NEW k \in Inums,
         \A d, i \in Inums : Under(d, i)' => Under(d, i) \/ (d = e /\ i = k),
         \A i \in Inums : ~Under(k, i)'
  PROVE  NoLoop'
<1> SUFFICES ASSUME NEW S \in SUBSET Inums, S # {}
             PROVE  \E d \in S : \A i \in S : ~Under(d, i)'
  BY DEF NoLoop
<1>1. CASE k \in S
  BY <1>1
<1>2. CASE k \notin S
  <2>1. PICK d \in S : \A i \in S : ~Under(d, i)
    BY DEF NoLoop
  <2> QED
    BY <1>2, <2>1
<1> QED
  BY <1>1, <1>2

\* A step that changes neither what inodes are nor the names in them.
LEMMA TreeKept ==
  ASSUME TypeOK, TodoFits, LocksReleased, TypesKept, EntsFit, NoLoop,
         NEW p \in Procs, NEW s \in Seq(StepType), todo[p] # <<>>, Then(p, s),
         ents' = ents, \A i \in Inums : disk'[i].type = disk[i].type,
         \A q \in Procs \ {p} : path'[q] = path[q],
         Len(todo[p]) = 1 \/ path'[p] = path[p],
         \A k \in 1 .. Len(s) :
           /\ s[k].do \notin {"fill", "free", "erase"}
           /\ \A i \in KnownDirs(s[k]) : disk[i].type = "dir"
           /\ \A i \in KnownFiles(s[k]) : disk[i].type = "file"
           /\ \A i \in Known(s[k]) : i \in Inums /\ (Unlocked(i) \/ i \in Known(Head(todo[p])))
  PROVE  TypesKept' /\ EntsFit' /\ NoLoop'
<1>1. ASSUME NEW q \in Procs, NEW x \in Steps(q)'
      PROVE  \/ x \in Steps(q) /\ (q = p => Len(todo[p]) # 1)
             \/ q = p /\ \E k \in 1 .. Len(s) : x = s[k]
  BY Turned
<1>2. Head(todo[p]) \in Steps(p)
  BY AtHead
<1>3. ASSUME NEW q \in Procs, NEW x \in Steps(q)'
      PROVE  /\ \A i \in KnownDirs(x) : i \in Inums /\ disk'[i].type = "dir"
             /\ \A i \in KnownFiles(x) : i \in Inums /\ disk'[i].type = "file"
             /\ x.do = "free" => \A r \in Procs : \A t \in Steps(r)' : x.ino \notin Known(t)
  <2>1. CASE \E k \in 1 .. Len(s) : x = s[k]
    BY <2>1 DEF Known
  <2>2. CASE x \in Steps(q)
    <3>1. /\ \A i \in KnownDirs(x) : i \in Inums /\ disk[i].type = "dir"
          /\ \A i \in KnownFiles(x) : i \in Inums /\ disk[i].type = "file"
      <4>1. PICK k \in DOMAIN todo[q] : x = todo[q][k]
        BY <2>2 DEF Steps
      <4>2. x \in StepType /\ StepFits(q, x)
        BY <4>1 DEF TypeOK, TodoFits
      <4>3. \A i \in Known(x) : i \in Inums
        BY <4>2 DEF Known, KnownDirs, KnownFiles, StepFits, StepType, Passing
      <4> QED
        BY <2>2, <4>3 DEF TypesKept, Known
    <3>2. ASSUME x.do = "free", NEW r \in Procs, NEW t \in Steps(r)', x.ino \in Known(t)
          PROVE  FALSE
      <4>1. ASSUME NEW y \in Procs, NEW u \in Steps(y) PROVE x.ino \notin Known(u)
        BY <2>2, <3>2 DEF TypesKept, Known
      <4>2. PICK k \in 1 .. Len(s) : t = s[k]
        BY <1>1, <3>2, <4>1
      <4>3. x.ino \in Inums /\ Unlocked(x.ino)
        BY <1>2, <3>2, <4>1, <4>2
      <4>4. HeldFor(x) = x.ino /\ x.ino # NoIno
        BY <3>2, <4>3, FileSysAssumption DEF HeldFor, NoIno
      <4> QED
        BY <2>2, <4>3, <4>4, StepLocks DEF Unlocked
    <3> QED
      BY <3>1, <3>2
  <2> QED
    BY <1>1, <2>1, <2>2
<1>4. TypesKept'
  BY <1>3 DEF TypesKept, Known
<1>5. EntsFit'
  <2>1. ASSUME NEW q \in Procs, NEW x \in Steps(q)', x.do = "erase"
        PROVE  Removable(Name(q))' /\ ents'[x.dir][Name(q)'] = x.ino
    <3>1. x \in Steps(q) /\ path'[q] = path[q]
      BY <1>1, <2>1
    <3> QED
      BY <2>1, <3>1 DEF EntsFit, Removable, Name
  <2>2. \A i \in Inums : disk'[i].type # "dir" => \A nm \in Names : ents'[i][nm] = NoIno
    BY DEF EntsFit
  <2> QED
    BY <2>1, <2>2 DEF EntsFit
<1>6. NoLoop'
  <2>1. ASSUME NEW d \in Inums, NEW i \in Inums, Under(d, i)' PROVE Under(d, i)
    <3>1. CASE \E nm \in Names : ents'[d][nm] = i
      BY <3>1 DEF Under
    <3>2. ASSUME NEW q \in Procs, NEW x \in Steps(q)', x.do = "fill", x.dir = d, x.ino = i
          PROVE  Under(d, i)
      BY <1>1, <3>2 DEF Under
    <3> QED
      BY <2>1, <3>1, <3>2 DEF Under
  <2> QED
    BY <2>1, LoopFree
<1> QED
  BY <1>4, <1>5, <1>6

-----------------------------------------------------------------------------
(* Steps that take no lock                                                  *)

\* The steps s of p work on what they should.
Fitting(p, s) ==
  \A k \in 1 .. Len(s) : StepFits(p, s[k])' /\ (k # Len(s) => s[k].do \in Passing)

\* The counts change by what s and the descriptor of p refer to.
Counted(p, s) ==
  \A i \in Inums :
    ref'[i] + Refers(Head(todo[p]), i) + OfFd(p, i) = ref[i] + Weight(s, i) + OfFd(p, i)'

\* Only p has changed its path and its descriptor.
OnlyOf(p) ==
  /\ cwd' = cwd /\ call' = call
  /\ fd' \in [Procs -> Inums \cup {NoIno}] /\ path' \in [Procs -> Seq(AllNames)]
  /\ \A q \in Procs \ {p} : path'[q] = path[q] /\ fd'[q] = fd[q]

\* The locks are those that steps are going to release.
LocksRight == HeldOnce' /\ LocksReleased' /\ lock' \in [Inums -> Procs \cup {NoProc}]

\* What a step has to keep of the invariant, apart from the inodes themselves.
LEMMA Turn ==
  ASSUME FsInv, NEW p \in Procs, NEW s \in Seq(StepType), todo[p] # <<>>, Then(p, s),
         /\ disk' \in [Inums -> InodeType] /\ mem' \in [Inums -> InodeType]
         /\ ents' \in [Inums -> [AllNames -> Inums \cup {NoIno}]]
         /\ ref' \in [Inums -> Int] /\ valid' \in [Inums -> BOOLEAN],
         Fitting(p, s), Counted(p, s), OnlyOf(p), LocksRight,
         \/ Len(todo[p]) = 1
         \/ (\A k \in 1 .. Len(s) : s[k].do \in Passing) /\ path'[p] = path[p],
         Head(todo[p]).do # "setcwd", \A k \in 1 .. Len(s) : s[k].do # "setcwd"
  PROVE  TypeOK' /\ TodoFits' /\ HeldOnce' /\ LocksReleased' /\ RefsCounted'
<1> USE DEF OnlyOf, LocksRight
<1>1. TypeOK /\ TodoFits /\ RefsCounted
  BY DEF FsInv
<1>2. \A i \in Inums : ref'[i] \in Int
  OBVIOUS
<1>3. RefsCounted' /\ \A i \in Inums : ref'[i] \in Nat
  BY <1>1, <1>2, RefsTurned DEF Counted
<1>4. ref' \in [Inums -> Nat]
  BY <1>3
<1>5. todo' \in [Procs -> Seq(StepType)]
  BY <1>1, Turned
<1>6. /\ cwd' \in [Procs -> Inums]
      /\ DOMAIN call' = Procs /\ \A q \in Procs : call'[q].op = "close" \/ IsCall(call'[q])
  BY <1>1 DEF TypeOK
<1>7. TypeOK'
  BY <1>4, <1>5, <1>6 DEF TypeOK
<1>8. TodoFits'
  BY <1>1, TodoKept DEF Fitting
<1> QED
  BY <1>3, <1>7, <1>8

\* Steps with what they work on.
LEMMA StepIs ==
  ASSUME NEW do \in StepNames, NEW i \in Inums \cup {NoIno}, NEW d \in Inums \cup {NoIno}
  PROVE  \E a \in StepType : a = Step(do, i, d) /\ a.do = do /\ a.ino = i /\ a.dir = d
<1>1. /\ Step(do, i, d) \in StepType /\ Step(do, i, d).do = do
      /\ Step(do, i, d).ino = i /\ Step(do, i, d).dir = d
  BY DEF Step, StepType
<1> QED
  BY <1>1

\* The step that puts an inode.
LEMMA PutIs ==
  ASSUME NEW i \in Inums \cup {NoIno}
  PROVE  \E a \in StepType : a = ToPut(i) /\ a.do = "put" /\ a.ino = i /\ a.dir = NoIno
BY StepIs DEF ToPut, StepNames

\* The steps s of p are ones that may come in the place of its first, if that is its last
\* too: they fit, and what they know of the types of inodes is so.
Follows(p, s) ==
  \A k \in 1 .. Len(s) :
    /\ StepFits(p, s[k])' /\ (k # Len(s) => s[k].do \in Passing)
    /\ s[k].do \notin {"fill", "free", "erase", "setcwd"}
    /\ \A i \in KnownDirs(s[k]) : disk[i].type = "dir"
    /\ \A i \in KnownFiles(s[k]) : disk[i].type = "file"
    /\ \A i \in Known(s[k]) : i \in Inums /\ (Unlocked(i) \/ i \in Known(Head(todo[p])))

\* The inodes are well formed, and none has changed its type.
InodesSame ==
  /\ disk' \in [Inums -> InodeType] /\ mem' \in [Inums -> InodeType]
  /\ valid' \in [Inums -> BOOLEAN] /\ ref' \in [Inums -> Int]
  /\ \A i \in Inums : disk'[i].type = disk[i].type
  /\ CacheFits'

\* A step that changes neither what inodes are nor the names in them.
LEMMA Same ==
  ASSUME FsInv, NEW p \in Procs, NEW s \in Seq(StepType), todo[p] # <<>>, Then(p, s),
         Len(todo[p]) = 1, Head(todo[p]).do # "setcwd", ents' = ents,
         Follows(p, s), Counted(p, s), OnlyOf(p), InodesSame, LocksRight
  PROVE  FsInv'
<1>1. TypeOK' /\ TodoFits' /\ RefsCounted'
  <2>1. ents' \in [Inums -> [AllNames -> Inums \cup {NoIno}]]
    BY DEF FsInv, TypeOK
  <2>2. Fitting(p, s) /\ \A k \in 1 .. Len(s) : s[k].do # "setcwd"
    BY DEF Follows, Fitting
  <2> QED
    BY <2>1, <2>2, Turn DEF InodesSame
<1>2. TypesKept' /\ EntsFit' /\ NoLoop'
  BY TreeKept DEF FsInv, Follows, OnlyOf, InodesSame
<1> QED
  BY <1>1, <1>2 DEF FsInv, InodesSame, LocksRight

\* A step with one inode, which is put.
LEMMA GivesBack ==
  ASSUME FsInv, NEW p \in Procs, NEW i \in Inums, todo[p] # <<>>,
         Head(todo[p]).do \notin Passing \cup {"setcwd"},
         \/ Head(todo[p]).ino = i /\ Head(todo[p]).dir = NoIno
         \/ Head(todo[p]).ino = NoIno /\ Head(todo[p]).dir = i,
         Then(p, <<ToPut(i)>>), UNCHANGED <<ents, ref, cwd, fd, call, path>>,
         lock' = Released(Head(todo[p])), InodesSame
  PROVE  FsInv'
<1> USE DEF FsInv
<1> DEFINE h == Head(todo[p])
<1>1. h \in StepType /\ Len(todo[p]) = 1 /\ i # NoIno
  BY AtHead, FileSysAssumption DEF NoIno
<1>2. PICK a \in StepType : a = ToPut(i) /\ a.do = "put" /\ a.ino = i /\ a.dir = NoIno
  BY PutIs
<1> DEFINE s == <<a>>
<1>3. Then(p, s) /\ s \in Seq(StepType) /\ Len(s) = 1 /\ s[1] = a
  BY <1>2
<1> HIDE DEF s
<1>4. \A k \in 1 .. Len(s) : HeldFor(s[k]) = NoIno
  BY <1>2, <1>3 DEF HeldFor
<1>5. LocksRight
  BY <1>3, <1>4, LocksFreed DEF LocksRight
<1>6. Follows(p, s)
  <2>1. StepFits(p, a)' /\ KnownDirs(a) = {} /\ KnownFiles(a) = {} /\ Known(a) = {}
    BY <1>1, <1>2 DEF StepFits, KnownDirs, KnownFiles, Known, Passing
  <2> QED
    BY <1>2, <1>3, <2>1 DEF Follows
<1>7. Counted(p, s)
  <2> SUFFICES ASSUME NEW j \in Inums
               PROVE  ref'[j] + Refers(h, j) + OfFd(p, j)
                        = ref[j] + Weight(s, j) + OfFd(p, j)'
    BY DEF Counted
  <2>1. Weight(s, j) = Refers(a, j) /\ OfFd(p, j)' = OfFd(p, j)
    BY <1>2, WeightOne DEF OfFd, s
  <2>2. Refers(a, j) = Refers(h, j) /\ NoIno # j
    BY <1>2, FileSysAssumption DEF Refers, Passing, NoIno
  <2> QED
    BY <2>1, <2>2 DEF Refers, OfFd, TypeOK
<1>8. OnlyOf(p)
  BY DEF TypeOK, OnlyOf
<1> QED
  BY <1>1, <1>3, <1>5, <1>6, <1>7, <1>8, Same

\* A step with one inode, of which the descriptor takes the reference.
LEMMA TakesFd ==
  ASSUME FsInv, NEW p \in Procs, NEW i \in Inums, todo[p] # <<>>,
         Head(todo[p]).do \notin Passing \cup {"setcwd"},
         Head(todo[p]).ino = i /\ Head(todo[p]).dir = NoIno,
         TakeFd(p, i), UNCHANGED <<ents, ref, cwd, call, path>>,
         lock' = Released(Head(todo[p])), InodesSame
  PROVE  FsInv'
<1> USE DEF FsInv
<1> DEFINE h == Head(todo[p])
<1>1. CASE fd[p] # NoIno
  BY <1>1, GivesBack DEF TakeFd
<1>2. CASE fd[p] = NoIno
  <2> DEFINE s == <<>>
  <2>1. /\ h \in StepType /\ Len(todo[p]) = 1 /\ i # NoIno
        /\ fd' = [fd EXCEPT ![p] = i] /\ Then(p, s)
    BY <1>2, AtHead, FileSysAssumption DEF NoIno, TakeFd
  <2>2. s \in Seq(StepType) /\ 1 .. Len(s) = {}
    OBVIOUS
  <2> HIDE DEF s
  <2>3. LocksRight /\ Follows(p, s)
    BY <2>1, <2>2, LocksFreed DEF LocksRight, Follows
  <2>4. Counted(p, s)
    <3> SUFFICES ASSUME NEW j \in Inums
                 PROVE  ref'[j] + Refers(h, j) + OfFd(p, j)
                          = ref[j] + Weight(s, j) + OfFd(p, j)'
      BY DEF Counted
    <3>1. Weight(s, j) = 0 /\ OfFd(p, j) = 0 /\ j # NoIno
      BY <1>2, NoWeight, FileSysAssumption DEF s, OfFd, NoIno
    <3>2. Refers(h, j) = OfFd(p, j)'
      BY <2>1, <3>1 DEF Refers, OfFd, Passing, TypeOK
    <3> QED
      BY <3>1, <3>2 DEF TypeOK, OfFd
  <2>5. OnlyOf(p)
    BY <2>1 DEF TypeOK, OnlyOf
  <2> QED
    BY <2>1, <2>2, <2>3, <2>4, <2>5, Same
<1> QED
  BY <1>1, <1>2

\* ilock() of an inode, a reference to another taken, and a new count of links.
LEMMA CacheUpdated ==
  ASSUME TypeOK, CacheFits, NEW i \in Inums, ref[i] >= 1, NEW new \in InodeType,
         new.type = Info(i).type, Update(i, new),
         \/ ref' = ref /\ valid' = valid
         \/ ~NoType(i) /\ ref' = ref /\ valid' = NowValid(valid, i)
         \/ ~NoType(i) /\ \E k \in Inums : ref' = IgetRef(ref, k)
                                           /\ valid' = NowValid(IgetValid(k), i)
  PROVE  InodesSame
<1>1. Info(i) = disk[i]
  BY InfoIs
<1>2. /\ disk' \in [Inums -> InodeType] /\ mem' \in [Inums -> InodeType]
      /\ disk'[i] = new /\ mem'[i] = new
      /\ \A j \in Inums \ {i} : disk'[j] = disk[j] /\ mem'[j] = mem[j]
  BY DEF Update, TypeOK
<1>3. \A j \in Inums : disk'[j].type = disk[j].type
  BY <1>1, <1>2
<1>4. ASSUME NEW k \in Inums
      PROVE  /\ valid \in [Inums -> BOOLEAN] /\ IgetValid(k) \in [Inums -> BOOLEAN]
             /\ ref \in [Inums -> Int] /\ IgetRef(ref, k) \in [Inums -> Int]
  <2>1. valid \in [Inums -> BOOLEAN] /\ IgetValid(k) \in [Inums -> BOOLEAN]
    BY DEF IgetValid, TypeOK
  <2>2. ref \in [Inums -> Int] /\ IgetRef(ref, k) \in [Inums -> Int]
    BY DEF IgetRef, TypeOK
  <2> QED
    BY <2>1, <2>2
<1>5. valid' \in [Inums -> BOOLEAN] /\ ref' \in [Inums -> Int]
  BY <1>4 DEF NowValid
<1>6. ASSUME NEW j \in Inums \ {i}, ref'[j] > 0, valid'[j]
      PROVE  ref[j] > 0 /\ valid[j]
  <2>1. CASE ref' = ref /\ (valid' = valid \/ valid' = NowValid(valid, i))
    BY <1>6, <2>1 DEF NowValid, TypeOK
  <2>2. ASSUME NEW k \in Inums, ref' = IgetRef(ref, k), valid' = NowValid(IgetValid(k), i)
        PROVE  ref[j] > 0 /\ valid[j]
    <3>1. valid'[j] = IgetValid(k)[j]
      BY <1>4, <2>2 DEF NowValid
    <3>2. CASE j = k /\ ref[k] = 0
      BY <1>4, <1>6, <3>1, <3>2 DEF IgetValid
    <3>3. CASE j = k /\ ref[k] # 0
      <4>1. valid[j] /\ ref[k] \in Nat
        BY <1>6, <3>1, <3>3 DEF IgetValid, TypeOK
      <4> QED
        BY <3>3, <4>1
    <3>4. CASE j # k
      BY <1>6, <2>2, <3>1, <3>4 DEF IgetValid, IgetRef, TypeOK
    <3> QED
      BY <3>2, <3>3, <3>4
  <2> QED
    BY <2>1, <2>2
<1>7. CacheFits'
  <2> SUFFICES ASSUME NEW j \in Inums, ref'[j] > 0, valid'[j]
               PROVE  mem'[j] = disk'[j] /\ disk'[j].type # "free"
    BY DEF CacheFits
  <2>1. CASE j # i
    BY <1>2, <1>6, <2>1 DEF CacheFits
  <2>2. CASE j = i
    <3>1. disk[i].type # "free"
      <4>1. CASE ~NoType(i)
        BY <1>1, <4>1 DEF NoType
      <4>2. CASE ref' = ref /\ valid' = valid
        BY <2>2, <4>2 DEF CacheFits
      <4> QED
        BY <4>1, <4>2
    <3> QED
      BY <1>1, <1>2, <2>2, <3>1
  <2> QED
    BY <2>1, <2>2
<1> QED
  BY <1>2, <1>3, <1>5, <1>7 DEF InodesSame

\* ilock() of an inode, and a reference to another taken.
LEMMA CacheLoaded ==
  ASSUME TypeOK, CacheFits, NEW i \in Inums, ref[i] >= 1, ~NoType(i),
         disk' = disk, mem' = Loaded(i),
         \/ ref' = ref /\ valid' = NowValid(valid, i)
         \/ \E k \in Inums : ref' = IgetRef(ref, k) /\ valid' = NowValid(IgetValid(k), i)
  PROVE  InodesSame
<1>1. Info(i) = disk[i] /\ disk[i] \in InodeType
  BY InfoIs DEF TypeOK
<1>2. Update(i, Info(i))
  BY <1>1 DEF Update, Loaded, TypeOK
<1> QED
  BY <1>1, <1>2, CacheUpdated

-----------------------------------------------------------------------------
(* namex()                                                                 *)

\* The last element of a path has been looked up.
LEMMA WalkEndKept ==
  ASSUME FsInv, NEW p \in Procs, WalkEnd(p)
  PROVE  FsInv'
<1> USE DEF FsInv
<1> DEFINE h == Head(todo[p])
<1>1. /\ todo[p] # <<>> /\ h.do = "walk"
      /\ UNCHANGED <<diskVars, memVars, lock, userVars, path, panic>>
  BY DEF WalkEnd, At
<1>2. /\ h \in StepType /\ StepFits(p, h) /\ Len(todo[p]) = 1 /\ Ino(p) = h.ino
      /\ h.ino \in Inums /\ h.dir = NoIno /\ call[p].op \in {"open", "link", "chdir"}
  BY <1>1, AtHead DEF StepFits, Passing, Ino, IsCall, TypeOK
<1>3. PICK a \in StepType : /\ a = Step(call[p].op, Ino(p), NoIno)
                            /\ a.do = call[p].op /\ a.ino = h.ino /\ a.dir = h.dir
  <2>1. call[p].op \in StepNames
    BY <1>2 DEF StepNames
  <2> QED
    BY <1>2, <2>1, StepIs
<1> DEFINE s == <<a>>
<1>4. Then(p, s) /\ s \in Seq(StepType) /\ Len(s) = 1 /\ s[1] = a
  BY <1>3 DEF WalkEnd
<1> HIDE DEF s
<1>5. lock' = Released(h) /\ \A k \in 1 .. Len(s) : HeldFor(s[k]) = NoIno
  BY <1>1, <1>2, <1>3, <1>4 DEF HeldFor, Released
<1>6. LocksRight
  BY <1>1, <1>4, <1>5, LocksFreed DEF LocksRight
<1>7. Follows(p, s)
  <2>1. StepFits(p, a)' /\ KnownDirs(a) = {} /\ KnownFiles(a) = {} /\ Known(a) = {}
    BY <1>1, <1>2, <1>3 DEF StepFits, KnownDirs, KnownFiles, userVars, Known
  <2> QED
    BY <1>2, <1>3, <1>4, <2>1 DEF Follows
<1>8. Counted(p, s)
  <2> SUFFICES ASSUME NEW i \in Inums
               PROVE  ref'[i] + Refers(h, i) + OfFd(p, i)
                        = ref[i] + Weight(s, i) + OfFd(p, i)'
    BY DEF Counted
  <2>1. Weight(s, i) = Refers(a, i) /\ Refers(a, i) = Refers(h, i) /\ OfFd(p, i)' = OfFd(p, i)
    BY <1>1, <1>2, <1>3, WeightOne DEF Refers, OfFd, userVars, s
  <2> QED
    BY <1>1, <2>1 DEF memVars, Refers, OfFd, TypeOK
<1>9. InodesSame
  BY <1>1 DEF CacheFits, diskVars, memVars, TypeOK, InodesSame
<1>10. OnlyOf(p) /\ ents' = ents
  BY <1>1 DEF diskVars, userVars, TypeOK, OnlyOf
<1> QED
  BY <1>1, <1>2, <1>4, <1>6, <1>7, <1>8, <1>9, <1>10, Same

\* The way out of a walk that finds nothing.
LEMMA GivesUp ==
  ASSUME FsInv, NEW p \in Procs, todo[p] # <<>>, Head(todo[p]).do \in {"walk", "walkp"},
         Then(p, <<ToPut(Ino(p))>> \o Fail(p)),
         UNCHANGED <<disk, ents, ref, lock, cwd, fd, call, path>>, InodesSame
  PROVE  FsInv'
<1> USE DEF FsInv
<1> DEFINE h == Head(todo[p])
<1>1. /\ h \in StepType /\ StepFits(p, h) /\ Len(todo[p]) = 1 /\ h.ino \in Inums
      /\ Ino(p) = h.ino /\ Dir(p) = h.dir
  BY AtHead DEF StepFits, Passing, Ino, Dir, StepType
<1>2. CASE h.dir = NoIno
  <2>1. Then(p, <<ToPut(Ino(p))>>)
    <3>1. <<ToPut(Ino(p))>> \o Fail(p) = <<ToPut(Ino(p))>>
      BY <1>1, <1>2 DEF Fail
    <3> QED
      BY <3>1
  <2>2. lock' = Released(h)
    BY DEF Released, HeldFor
  <2> QED
    BY <1>1, <1>2, <2>1, <2>2, GivesBack DEF Passing, TypeOK
<1>3. CASE h.dir # NoIno
  <2>a. PICK a \in StepType :
           a = ToPut(Ino(p)) /\ a.do = "put" /\ a.ino = h.ino /\ a.dir = NoIno
    BY <1>1, PutIs
  <2>b. PICK b \in StepType :
           b = Step("undo", Dir(p), NoIno) /\ b.do = "undo" /\ b.ino = Dir(p) /\ b.dir = NoIno
    <3>1. "undo" \in StepNames /\ Dir(p) \in Inums \cup {NoIno} /\ NoIno \in Inums \cup {NoIno}
      BY <1>1 DEF StepNames, StepType
    <3> QED
      BY <3>1, StepIs
  <2> DEFINE s == <<a, b>>
  <2>2. <<ToPut(Ino(p))>> \o Fail(p) = s
    <3>1. Fail(p) = <<b>>
      BY <1>1, <1>3, <2>a, <2>b DEF Fail
    <3>2. <<ToPut(Ino(p))>> = <<a>> /\ <<a>> \o <<b>> = <<a, b>>
      BY <2>a, <2>b, Joined
    <3> QED
      BY <3>1, <3>2
  <2>3. Then(p, s) /\ s \in Seq(StepType) /\ Len(s) = 2 /\ s[1] = a /\ s[2] = b
    <3>1. Then(p, s)
      BY <2>2
    <3> QED
      BY <3>1
  <2> HIDE DEF s
  <2>4. lock' = Released(h) /\ \A k \in 1 .. Len(s) : HeldFor(s[k]) = NoIno
    BY <1>1, <2>a, <2>b, <2>3 DEF HeldFor, Released
  <2>5. LocksRight
    BY <2>3, <2>4, LocksFreed DEF LocksRight
  <2>6. Follows(p, s)
    <3>1. /\ StepFits(p, a)' /\ KnownDirs(a) = {} /\ KnownFiles(a) = {} /\ Known(a) = {}
          /\ StepFits(p, b)' /\ KnownDirs(b) = {} /\ KnownFiles(b) = {} /\ Known(b) = {}
          /\ a.do \in Passing
      BY <1>1, <1>3, <2>a, <2>b, FileSysAssumption
      DEF StepFits, KnownDirs, KnownFiles, Known, Passing, NoIno
    <3> QED
      BY <2>a, <2>b, <2>3, <3>1 DEF Follows
  <2>7. Counted(p, s)
    <3> SUFFICES ASSUME NEW i \in Inums
                 PROVE  ref'[i] + Refers(h, i) + OfFd(p, i)
                          = ref[i] + Weight(s, i) + OfFd(p, i)'
      BY DEF Counted
    <3>1. Weight(s, i) = Refers(a, i) + Refers(b, i)
      BY WeightTwo DEF s
    <3>2. Refers(a, i) + Refers(b, i) = Refers(h, i) /\ OfFd(p, i)' = OfFd(p, i)
      BY <1>1, <2>a, <2>b, FileSysAssumption DEF Refers, OfFd, NoIno
    <3> QED
      BY <3>1, <3>2 DEF Refers, OfFd, TypeOK
  <2>8. OnlyOf(p)
    BY DEF TypeOK, OnlyOf
  <2> QED
    BY <1>1, <2>3, <2>5, <2>6, <2>7, <2>8, Same
<1> QED
  BY <1>2, <1>3

\* A path without a parent.
LEMMA NoParentKept ==
  ASSUME FsInv, NEW p \in Procs, NoParent(p)
  PROVE  FsInv'
<1>1. /\ todo[p] # <<>> /\ Head(todo[p]).do = "walkp" /\ Then(p, <<ToPut(Ino(p))>> \o Fail(p))
      /\ UNCHANGED <<disk, ents, ref, valid, mem, lock, cwd, fd, call, path>>
  BY DEF NoParent, At, diskVars, memVars, userVars
<1>2. InodesSame
  BY <1>1 DEF FsInv, TypeOK, CacheFits, InodesSame
<1> QED
  BY <1>1, <1>2, GivesUp

\* One turn of the loop of namex().
LEMMA WalkStepKept ==
  ASSUME FsInv, NEW p \in Procs, WalkStep(p)
  PROVE  FsInv'
<1> USE DEF FsInv
<1> DEFINE h == Head(todo[p])
           i == Ino(p)
           kid == ents[i][Name(p)]
<1>1. /\ todo[p] # <<>> /\ h.do \in {"walk", "walkp"} /\ path[p] # <<>> /\ i = h.ino
      /\ Unlocked(i) /\ ~NoType(i) /\ mem' = Loaded(i) /\ Dir(p) = h.dir
      /\ UNCHANGED <<disk, ents, lock, cwd, fd, call>>
  BY DEF WalkStep, Walking, At, diskVars, userVars, Ino, Dir
<1>2. /\ h \in StepType /\ StepFits(p, h) /\ h \in Steps(p) /\ Len(todo[p]) = 1
      /\ i \in Inums /\ h.dir \in Inums \cup {NoIno}
  BY <1>1, AtHead DEF StepFits, Passing, StepType
<1>3. /\ path[p] \in Seq(AllNames) /\ Name(p) \in AllNames /\ Tail(path[p]) \in Seq(AllNames)
      /\ ents[i] \in [AllNames -> Inums \cup {NoIno}]
  BY <1>1, <1>2 DEF TypeOK, Name
<1>4. ref[i] >= 1 /\ Info(i) = disk[i] /\ lock' = Released(h)
  <2>1. ref[i] >= 1
    BY <1>1, <1>2, StepHolds
  <2> QED
    BY <1>1, <1>2, <2>1, InfoIs DEF Released, HeldFor
<1>5. CASE /\ Info(i).type = "dir" /\ h.do = "walkp"
           /\ Then(p, <<IF Dir(p) = NoIno THEN Step(call[p].op, NoIno, i)
                                          ELSE Step("linkadd", Dir(p), i)>>)
           /\ valid' = NowValid(valid, i) /\ UNCHANGED <<ref, path>>
  <2>1. InodesSame
    BY <1>1, <1>2, <1>4, <1>5, CacheLoaded
  <2>a. PICK a \in StepType :
          /\ a = IF Dir(p) = NoIno THEN Step(call[p].op, NoIno, i)
                                   ELSE Step("linkadd", Dir(p), i)
          /\ a.do = (IF h.dir = NoIno THEN call[p].op ELSE "linkadd")
          /\ a.ino = h.dir /\ a.dir = i
    <3>1. CASE h.dir = NoIno
      <4>1. call[p].op \in StepNames /\ NoIno \in Inums \cup {NoIno} /\ i \in Inums \cup {NoIno}
        BY <1>2, <1>5, <3>1 DEF StepFits, StepNames, Passing
      <4>2. /\ Step(call[p].op, NoIno, i) \in StepType
            /\ Step(call[p].op, NoIno, i).do = call[p].op
            /\ Step(call[p].op, NoIno, i).ino = NoIno /\ Step(call[p].op, NoIno, i).dir = i
        BY <4>1 DEF Step, StepType
      <4> QED
        BY <1>1, <3>1, <4>2
    <3>2. CASE h.dir # NoIno
      <4>1. "linkadd" \in StepNames
        BY DEF StepNames
      <4> QED
        BY <1>1, <1>2, <3>2, <4>1, StepIs
    <3> QED
      BY <3>1, <3>2
  <2> DEFINE s == <<a>>
  <2>2. Then(p, s) /\ s \in Seq(StepType) /\ Len(s) = 1 /\ s[1] = a
    BY <1>5, <2>a
  <2> HIDE DEF s
  <2>3. \/ a.do \in {"create", "mkdir", "unlink"} /\ h.dir = NoIno /\ a.do = call[p].op
        \/ a.do = "linkadd" /\ h.dir # NoIno
    BY <1>2, <1>5, <2>a DEF StepFits, Passing
  <2>4. \A k \in 1 .. Len(s) : HeldFor(s[k]) = NoIno
    BY <2>2, <2>3 DEF HeldFor
  <2>5. LocksRight
    BY <1>1, <1>4, <2>2, <2>4, LocksFreed DEF LocksRight
  <2>6. StepFits(p, a)'
    BY <1>1, <1>2, <1>5, <2>3, <2>a, FileSysAssumption DEF StepFits, NoIno
  <2>7. /\ KnownDirs(a) = {i} /\ KnownFiles(a) \subseteq KnownFiles(h)
        /\ disk[i].type = "dir" /\ Unlocked(i)
    BY <1>1, <1>4, <1>5, <2>3, <2>a DEF KnownDirs, KnownFiles
  <2>8. \A k \in KnownFiles(h) : k \in Inums /\ disk[k].type = "file"
    <3>1. \A k \in KnownFiles(h) : disk[k].type = "file"
      BY <1>2 DEF TypesKept
    <3>2. KnownFiles(h) \subseteq Inums
      BY <1>2, <1>5 DEF KnownFiles
    <3> QED
      BY <3>1, <3>2
  <2>9. Follows(p, s)
    BY <1>2, <2>2, <2>3, <2>6, <2>7, <2>8 DEF Known, Follows
  <2>10. Counted(p, s)
    <3> SUFFICES ASSUME NEW j \in Inums
                 PROVE  ref'[j] + Refers(h, j) + OfFd(p, j)
                          = ref[j] + Weight(s, j) + OfFd(p, j)'
      BY DEF Counted
    <3>1. Weight(s, j) = Refers(a, j) /\ OfFd(p, j)' = OfFd(p, j)
      BY <1>1, WeightOne DEF s, OfFd
    <3>2. Refers(a, j) = Refers(h, j)
      BY <1>1, <1>5, <2>3, <2>a DEF Refers
    <3> QED
      BY <1>5, <3>1, <3>2 DEF Refers, OfFd, TypeOK
  <2>11. OnlyOf(p) /\ ents' = ents
    BY <1>1, <1>5 DEF TypeOK, OnlyOf
  <2> QED
    BY <1>1, <1>2, <2>1, <2>2, <2>5, <2>9, <2>10, <2>11, Same
<1>6. CASE /\ kid # NoIno /\ Then(p, <<ToPut(i), [h EXCEPT !.ino = kid]>>)
           /\ ref' = IgetRef(ref, kid) /\ valid' = NowValid(IgetValid(kid), i)
           /\ path' = [path EXCEPT ![p] = Tail(@)]
  <2>0. kid \in Inums
    BY <1>3, <1>6
  <2>1. InodesSame
    <3>1. \E k \in Inums : ref' = IgetRef(ref, k) /\ valid' = NowValid(IgetValid(k), i)
      BY <1>6, <2>0
    <3> QED
      BY <1>1, <1>2, <1>4, <3>1, CacheLoaded
  <2>a. PICK a \in StepType : a = ToPut(i) /\ a.do = "put" /\ a.ino = i /\ a.dir = NoIno
    BY <1>2, PutIs
  <2>b. PICK b \in StepType :
          b = [h EXCEPT !.ino = kid] /\ b.do = h.do /\ b.ino = kid /\ b.dir = h.dir
    <3>1. [h EXCEPT !.ino = kid] \in StepType
      BY <1>2, <2>0 DEF StepType
    <3>2. /\ [h EXCEPT !.ino = kid].do = h.do /\ [h EXCEPT !.ino = kid].ino = kid
          /\ [h EXCEPT !.ino = kid].dir = h.dir
      BY <1>2 DEF StepType
    <3> QED
      BY <3>1, <3>2
  <2> DEFINE s == <<a, b>>
  <2>2. Then(p, s) /\ s \in Seq(StepType) /\ Len(s) = 2 /\ s[1] = a /\ s[2] = b
    BY <1>6, <2>a, <2>b
  <2> HIDE DEF s
  <2>3. \A k \in 1 .. Len(s) : HeldFor(s[k]) = NoIno
    <3>1. HeldFor(a) = NoIno /\ HeldFor(b) = NoIno
      BY <1>1, <2>a, <2>b DEF HeldFor
    <3> QED
      BY <2>2, <3>1
  <2>4. LocksRight
    BY <1>1, <1>4, <2>2, <2>3, LocksFreed DEF LocksRight
  <2>5. StepFits(p, a)' /\ StepFits(p, b)'
    BY <1>1, <1>2, <2>0, <2>a, <2>b, FileSysAssumption DEF StepFits, Passing, NoIno
  <2>6. /\ Known(a) = {} /\ KnownDirs(a) = {} /\ KnownFiles(a) = {}
        /\ KnownDirs(b) = {} /\ KnownFiles(b) = KnownFiles(h) /\ Known(b) = Known(h)
    BY <1>1, <2>a, <2>b DEF Known, KnownDirs, KnownFiles
  <2>7. \A k \in KnownFiles(h) : k \in Inums /\ disk[k].type = "file"
    <3>1. \A k \in KnownFiles(h) : disk[k].type = "file"
      BY <1>2 DEF TypesKept
    <3>2. KnownFiles(h) \subseteq Inums
      BY <1>1, <1>2 DEF KnownFiles
    <3> QED
      BY <3>1, <3>2
  <2>8. \A j \in Known(h) : j \in Inums
    BY <1>1, <2>7 DEF Known, KnownDirs
  <2>9. Follows(p, s)
    <3>1. ASSUME NEW k \in 1 .. Len(s) PROVE (k = 1 /\ s[k] = a) \/ (k = 2 /\ s[k] = b)
      BY <2>2
    <3>2. a.do \in Passing
      BY <2>a DEF Passing
    <3> QED
      BY <1>1, <2>2, <2>a, <2>b, <2>5, <2>6, <2>7, <2>8, <3>1, <3>2 DEF Follows
  <2>10. Counted(p, s)
    <3> SUFFICES ASSUME NEW j \in Inums
                 PROVE  ref'[j] + Refers(h, j) + OfFd(p, j)
                          = ref[j] + Weight(s, j) + OfFd(p, j)'
      BY DEF Counted
    <3>1. Weight(s, j) = Refers(a, j) + Refers(b, j) /\ OfFd(p, j)' = OfFd(p, j)
      BY <1>1, WeightTwo DEF s, OfFd
    <3>2. /\ ref'[j] = IF j = kid THEN ref[j] + 1 ELSE ref[j]
          /\ Refers(a, j) = (IF i = j THEN 1 ELSE 0)
          /\ Refers(h, j) = (IF i = j THEN 1 ELSE 0) + (IF h.dir = j THEN 1 ELSE 0)
          /\ Refers(b, j) = (IF kid = j THEN 1 ELSE 0) + (IF h.dir = j THEN 1 ELSE 0)
      <4>1. ref'[j] = IF j = kid THEN ref[j] + 1 ELSE ref[j]
        BY <1>6 DEF IgetRef, TypeOK
      <4>2. j # NoIno
        BY FileSysAssumption
      <4>3. Refers(a, j) = (IF i = j THEN 1 ELSE 0)
        BY <2>a, <4>2 DEF Refers
      <4>4. Refers(h, j) = (IF i = j THEN 1 ELSE 0) + (IF h.dir = j THEN 1 ELSE 0)
        BY <1>1 DEF Refers
      <4>5. Refers(b, j) = (IF kid = j THEN 1 ELSE 0) + (IF h.dir = j THEN 1 ELSE 0)
        BY <1>1, <2>b DEF Refers
      <4> QED
        BY <4>1, <4>3, <4>4, <4>5
    <3>3. ref[j] \in Int /\ OfFd(p, j) \in Int
      BY DEF TypeOK, OfFd
    <3> HIDE DEF h, i, kid
    <3> QED
      BY <3>1, <3>2, <3>3
  <2>11. OnlyOf(p) /\ ents' = ents
    BY <1>1, <1>3, <1>6 DEF TypeOK, OnlyOf
  <2> QED
    BY <1>1, <1>2, <2>1, <2>2, <2>4, <2>9, <2>10, <2>11, Same
<1>7. CASE /\ Then(p, <<ToPut(i)>> \o Fail(p))
           /\ valid' = NowValid(valid, i) /\ UNCHANGED <<ref, path>>
  <2>1. InodesSame
    BY <1>1, <1>2, <1>4, <1>7, CacheLoaded
  <2> QED
    BY <1>1, <1>7, <2>1, GivesUp
<1> QED
  BY <1>5, <1>6, <1>7 DEF WalkStep, At

-----------------------------------------------------------------------------
(* Calls that work on one inode                                             *)

\* A count of links.
LEMMA LinksType ==
  ASSUME TypeOK, NEW i \in Inums, NEW k \in Int
  PROVE  AddLinks(i, k) \in InodeType /\ AddLinks(i, k).type = Info(i).type
<1>1. Info(i) \in InodeType
  BY DEF Info, TypeOK
<1>2. Info(i).nlink + k \in Int
  BY <1>1 DEF InodeType
<1>3. AddLinks(i, k) = [Info(i) EXCEPT !.nlink = Info(i).nlink + k]
  BY DEF AddLinks
<1> QED
  BY <1>1, <1>2, <1>3 DEF InodeType

\* The step of a call that works on one inode.
LEMMA OneInode ==
  ASSUME FsInv, NEW p \in Procs, todo[p] # <<>>,
         Head(todo[p]).do \in {"open", "exists", "link", "undo", "chdir", "finish", "dropname"}
  PROVE  /\ Head(todo[p]) \in StepType /\ Head(todo[p]) \in Steps(p) /\ Len(todo[p]) = 1
         /\ Head(todo[p]).dir = NoIno /\ Head(todo[p]).ino = Ino(p)
         /\ Ino(p) \in Inums /\ Ino(p) # NoIno
         /\ ref[Ino(p)] >= 1 /\ Info(Ino(p)) = disk[Ino(p)]
<1> USE DEF FsInv
<1> DEFINE h == Head(todo[p])
<1>1. h \in StepType /\ h \in Steps(p) /\ Len(todo[p]) = 1 /\ StepFits(p, h)
  BY AtHead DEF Passing
<1>2. h.dir = NoIno /\ h.ino = Ino(p) /\ h.ino # NoIno
  BY <1>1 DEF StepFits, Ino
<1>3. Ino(p) \in Inums
  BY <1>1, <1>2 DEF StepType
<1>4. ref[Ino(p)] >= 1
  BY <1>1, <1>2, <1>3, StepHolds
<1> QED
  BY <1>1, <1>2, <1>3, <1>4, InfoIs

\* The step of a call that works in a directory.
LEMMA InDir ==
  ASSUME FsInv, NEW p \in Procs, todo[p] # <<>>,
         Head(todo[p]).do \in {"create", "mkdir", "unlink", "fill", "erase", "linkadd"}
  PROVE  /\ Head(todo[p]) \in StepType /\ Head(todo[p]) \in Steps(p) /\ Len(todo[p]) = 1
         /\ Head(todo[p]).dir = Dir(p) /\ Dir(p) \in Inums /\ Dir(p) # NoIno
         /\ ref[Dir(p)] >= 1 /\ Info(Dir(p)) = disk[Dir(p)] /\ disk[Dir(p)].type = "dir"
         /\ path[p] # <<>> /\ Name(p) \in AllNames
         /\ ents[Dir(p)] \in [AllNames -> Inums \cup {NoIno}]
<1> USE DEF FsInv
<1> DEFINE h == Head(todo[p])
<1>1. h \in StepType /\ h \in Steps(p) /\ Len(todo[p]) = 1 /\ StepFits(p, h)
  BY AtHead DEF Passing
<1>2. h.dir # NoIno /\ h.dir = Dir(p) /\ path[p] # <<>>
  BY <1>1 DEF StepFits, Dir, Passing
<1>3. Dir(p) \in Inums
  BY <1>1, <1>2 DEF StepType
<1>4. ref[Dir(p)] >= 1
  BY <1>1, <1>2, <1>3, StepHolds
<1>5. disk[Dir(p)].type = "dir"
  BY <1>1, <1>2 DEF TypesKept, KnownDirs
<1>6. path[p] \in Seq(AllNames)
  BY DEF TypeOK
<1>7. Name(p) \in AllNames /\ ents[Dir(p)] \in [AllNames -> Inums \cup {NoIno}]
  BY <1>2, <1>3, <1>6 DEF Name, TypeOK
<1> QED
  BY <1>1, <1>2, <1>3, <1>4, <1>5, <1>7, InfoIs

\* open() of a file that exists.
LEMMA OpenKept ==
  ASSUME FsInv, NEW p \in Procs, Open(p)
  PROVE  FsInv'
<1> DEFINE h == Head(todo[p])
           i == Ino(p)
<1>1. /\ todo[p] # <<>> /\ h.do = "open" /\ ~NoType(i) /\ mem' = Loaded(i)
      /\ valid' = NowValid(valid, i) /\ UNCHANGED <<disk, ents, ref, lock, cwd, call, path>>
      /\ (Then(p, <<ToPut(i)>>) /\ fd' = fd) \/ TakeFd(p, i)
  BY DEF Open, At, diskVars
<1>2. /\ h.dir = NoIno /\ h.ino = i /\ i \in Inums /\ ref[i] >= 1 /\ lock' = Released(h)
      /\ h.do \notin Passing \cup {"setcwd"}
  BY <1>1, OneInode DEF Released, HeldFor, Passing
<1>3. InodesSame
  BY <1>1, <1>2, CacheLoaded DEF FsInv
<1> QED
  BY <1>1, <1>2, <1>3, GivesBack, TakesFd

\* create() has found a file, or what is none.
LEMMA ExistsKept ==
  ASSUME FsInv, NEW p \in Procs, Exists(p)
  PROVE  FsInv'
<1> DEFINE h == Head(todo[p])
           i == Ino(p)
<1>1. /\ todo[p] # <<>> /\ h.do = "exists" /\ ~NoType(i) /\ mem' = Loaded(i)
      /\ valid' = NowValid(valid, i) /\ UNCHANGED <<disk, ents, ref, lock, cwd, call, path>>
      /\ \/ Then(p, <<ToPut(i)>>) /\ fd' = fd
         \/ TakeFd(p, i)
  BY DEF Exists, At, diskVars
<1>2. /\ h.dir = NoIno /\ h.ino = i /\ i \in Inums /\ ref[i] >= 1 /\ lock' = Released(h)
      /\ h.do \notin Passing \cup {"setcwd"}
  BY <1>1, OneInode DEF Released, HeldFor, Passing
<1>3. InodesSame
  BY <1>1, <1>2, CacheLoaded DEF FsInv
<1> QED
  BY <1>1, <1>2, <1>3, GivesBack, TakesFd

\* The caller of create() releases the new inode.
LEMMA FinishKept ==
  ASSUME FsInv, NEW p \in Procs, Finish(p)
  PROVE  FsInv'
<1> DEFINE h == Head(todo[p])
           i == Ino(p)
<1>1. /\ todo[p] # <<>> /\ h.do = "finish" /\ lock' = [lock EXCEPT ![i] = NoProc]
      /\ UNCHANGED <<disk, ents, ref, valid, mem, cwd, call, path>>
      /\ \/ Then(p, <<ToPut(i)>>) /\ fd' = fd
         \/ TakeFd(p, i)
  BY DEF Finish, At, diskVars, memVars
<1>2. /\ h.dir = NoIno /\ h.ino = i /\ i \in Inums /\ lock' = Released(h)
      /\ h.do \notin Passing \cup {"setcwd"}
  BY <1>1, OneInode DEF Released, HeldFor, Passing
<1>3. InodesSame
  BY <1>1 DEF FsInv, TypeOK, CacheFits, InodesSame
<1> QED
  BY <1>1, <1>2, <1>3, GivesBack, TakesFd

\* The inode whose name is erased has one name less.
LEMMA DropNameKept ==
  ASSUME FsInv, NEW p \in Procs, DropName(p)
  PROVE  FsInv'
<1> DEFINE h == Head(todo[p])
           i == Ino(p)
<1>1. /\ todo[p] # <<>> /\ h.do = "dropname" /\ lock' = [lock EXCEPT ![i] = NoProc]
      /\ Update(i, AddLinks(i, -1)) /\ Then(p, <<ToPut(i)>>)
      /\ UNCHANGED <<ents, ref, valid, cwd, fd, call, path>>
  BY DEF DropName, At, userVars
<1>2. /\ h.dir = NoIno /\ h.ino = i /\ i \in Inums /\ ref[i] >= 1 /\ lock' = Released(h)
      /\ h.do \notin Passing \cup {"setcwd"} /\ Info(i) = disk[i]
  BY <1>1, OneInode DEF Released, HeldFor, Passing
<1>3. AddLinks(i, -1) \in InodeType /\ AddLinks(i, -1).type = Info(i).type
  BY <1>2, LinksType DEF FsInv
<1>4. InodesSame
  BY <1>1, <1>2, <1>3, CacheUpdated DEF FsInv
<1> QED
  BY <1>1, <1>2, <1>4, GivesBack

\* The end of a link() that has failed.
LEMMA UndoKept ==
  ASSUME FsInv, NEW p \in Procs, Undo(p)
  PROVE  FsInv'
<1> DEFINE h == Head(todo[p])
           i == Ino(p)
<1>1. /\ todo[p] # <<>> /\ h.do = "undo" /\ ~NoType(i)
      /\ Update(i, AddLinks(i, -1)) /\ valid' = NowValid(valid, i) /\ Then(p, <<ToPut(i)>>)
      /\ UNCHANGED <<ents, ref, lock, cwd, fd, call, path>>
  BY DEF Undo, At, userVars
<1>2. /\ h.dir = NoIno /\ h.ino = i /\ i \in Inums /\ ref[i] >= 1 /\ lock' = Released(h)
      /\ h.do \notin Passing \cup {"setcwd"} /\ Info(i) = disk[i]
  BY <1>1, OneInode DEF Released, HeldFor, Passing
<1>3. AddLinks(i, -1) \in InodeType /\ AddLinks(i, -1).type = Info(i).type
  BY <1>2, LinksType DEF FsInv
<1>4. InodesSame
  BY <1>1, <1>2, <1>3, CacheUpdated DEF FsInv
<1> QED
  BY <1>1, <1>2, <1>4, GivesBack

\* unlink() finds nothing that it may remove.
LEMMA UnlinkBadKept ==
  ASSUME FsInv, NEW p \in Procs, UnlinkBad(p)
  PROVE  FsInv'
<1> DEFINE h == Head(todo[p])
           d == Dir(p)
<1>1. /\ todo[p] # <<>> /\ h.do = "unlink" /\ ~NoType(d) /\ mem' = Loaded(d)
      /\ valid' = NowValid(valid, d) /\ Then(p, <<ToPut(d)>>)
      /\ UNCHANGED <<disk, ents, ref, lock, cwd, fd, call, path>>
  BY DEF UnlinkBad, At, diskVars, userVars
<1>2. /\ h.dir = d /\ d \in Inums /\ ref[d] >= 1 /\ lock' = Released(h)
      /\ h.do \notin Passing \cup {"setcwd"}
  BY <1>1, InDir DEF Released, HeldFor, Passing
<1>3. h.ino = NoIno
  BY <1>1, AtHead DEF FsInv, StepFits, Passing
<1>4. InodesSame
  BY <1>1, <1>2, CacheLoaded DEF FsInv
<1> QED
  BY <1>1, <1>2, <1>3, <1>4, GivesBack

-----------------------------------------------------------------------------
(* Names that are taken, and link()                                         *)

\* create() finds the name taken.
LEMMA CreateExistsKept ==
  ASSUME FsInv, NEW p \in Procs, CreateExists(p)
  PROVE  FsInv'
<1> USE DEF FsInv
<1> DEFINE h == Head(todo[p])
           d == Dir(p)
           kid == ents[d][Name(p)]
<1>1. /\ todo[p] # <<>> /\ h.do \in {"create", "mkdir"} /\ ~NoType(d) /\ kid # NoIno
      /\ mem' = Loaded(d) /\ ref' = IgetRef(ref, kid)
      /\ valid' = NowValid(IgetValid(kid), d)
      /\ Then(p, <<ToPut(d), Step("exists", kid, NoIno)>>)
      /\ UNCHANGED <<disk, ents, lock, cwd, fd, call, path>>
  BY DEF CreateExists, At, diskVars, userVars
<1>2. /\ h \in StepType /\ Len(todo[p]) = 1 /\ h.dir = d /\ d \in Inums /\ d # NoIno
      /\ ref[d] >= 1 /\ kid \in Inums /\ NoIno \notin Inums
  <2>1. /\ h \in StepType /\ Len(todo[p]) = 1 /\ h.dir = d /\ d \in Inums /\ d # NoIno
        /\ ref[d] >= 1 /\ Name(p) \in AllNames /\ ents[d] \in [AllNames -> Inums \cup {NoIno}]
    BY <1>1, InDir
  <2>2. kid \in Inums
    BY <1>1, <2>1
  <2> QED
    BY <2>1, <2>2, FileSysAssumption DEF NoIno
<1>3. h.ino = NoIno /\ lock' = Released(h)
  BY <1>1, AtHead DEF StepFits, Passing, Released, HeldFor
<1>4. InodesSame
  <2>1. \E k \in Inums : ref' = IgetRef(ref, k) /\ valid' = NowValid(IgetValid(k), d)
    BY <1>1, <1>2
  <2> QED
    BY <1>1, <1>2, <2>1, CacheLoaded
<1>a. PICK a \in StepType : a = ToPut(d) /\ a.do = "put" /\ a.ino = d /\ a.dir = NoIno
  BY <1>2, PutIs
<1>b. PICK b \in StepType :
        b = Step("exists", kid, NoIno) /\ b.do = "exists" /\ b.ino = kid /\ b.dir = NoIno
  <2>1. "exists" \in StepNames /\ kid \in Inums \cup {NoIno} /\ NoIno \in Inums \cup {NoIno}
    BY <1>2 DEF StepNames
  <2> QED
    BY <2>1, StepIs
<1> DEFINE s == <<a, b>>
<1>5. Then(p, s) /\ s \in Seq(StepType) /\ Len(s) = 2 /\ s[1] = a /\ s[2] = b
  BY <1>1, <1>a, <1>b
<1> HIDE DEF s
<1>6. LocksRight
  <2>1. \A k \in 1 .. Len(s) : HeldFor(s[k]) = NoIno
    BY <1>5, <1>a, <1>b DEF HeldFor
  <2> QED
    BY <1>1, <1>3, <1>5, <2>1, LocksFreed DEF LocksRight
<1>7. Follows(p, s)
  <2>1. /\ StepFits(p, a)' /\ KnownDirs(a) = {} /\ KnownFiles(a) = {} /\ Known(a) = {}
        /\ StepFits(p, b)' /\ KnownDirs(b) = {} /\ KnownFiles(b) = {} /\ Known(b) = {}
        /\ a.do \in Passing
    BY <1>2, <1>a, <1>b DEF StepFits, KnownDirs, KnownFiles, Known, Passing
  <2> QED
    BY <1>5, <1>a, <1>b, <2>1 DEF Follows
<1>8. Counted(p, s)
  <2> SUFFICES ASSUME NEW j \in Inums
               PROVE  ref'[j] + Refers(h, j) + OfFd(p, j)
                        = ref[j] + Weight(s, j) + OfFd(p, j)'
    BY DEF Counted
  <2>1. Weight(s, j) = Refers(a, j) + Refers(b, j) /\ OfFd(p, j)' = OfFd(p, j)
    BY <1>1, WeightTwo DEF s, OfFd
  <2>2. /\ ref'[j] = IF j = kid THEN ref[j] + 1 ELSE ref[j]
        /\ Refers(a, j) = (IF d = j THEN 1 ELSE 0)
        /\ Refers(b, j) = (IF kid = j THEN 1 ELSE 0)
        /\ Refers(h, j) = (IF d = j THEN 1 ELSE 0)
    BY <1>1, <1>2, <1>3, <1>a, <1>b DEF Refers, IgetRef, TypeOK
  <2>3. ref[j] \in Int /\ OfFd(p, j) \in Int
    BY DEF TypeOK, OfFd
  <2> HIDE DEF h, d, kid
  <2> QED
    BY <2>1, <2>2, <2>3
<1>9. OnlyOf(p) /\ ents' = ents
  BY <1>1 DEF TypeOK, OnlyOf
<1> QED
  BY <1>1, <1>2, <1>4, <1>5, <1>6, <1>7, <1>8, <1>9, Same

\* A directory that unlink() leaves alone.
LEMMA NotEmptyKept ==
  ASSUME FsInv, NEW p \in Procs, NotEmpty(p)
  PROVE  FsInv'
<1> USE DEF FsInv
<1> DEFINE h == Head(todo[p])
           i == Ino(p)
           d == Dir(p)
<1>1. /\ todo[p] # <<>> /\ h.do = "erase" /\ ~NoType(i) /\ mem' = Loaded(i)
      /\ valid' = NowValid(valid, i) /\ i = h.ino
      /\ Then(p, <<ToPut(i), Step("unlock", d, NoIno), ToPut(d)>>)
      /\ UNCHANGED <<disk, ents, ref, lock, cwd, fd, call, path>>
  BY DEF NotEmpty, At, diskVars, userVars, WithParent, Ino
<1>2. /\ h \in StepType /\ h \in Steps(p) /\ Len(todo[p]) = 1 /\ h.dir = d /\ d \in Inums
      /\ d # NoIno /\ NoIno \notin Inums
  BY <1>1, InDir, FileSysAssumption DEF NoIno
<1>3. i \in Inums /\ i # NoIno /\ ref[i] >= 1
  <2>1. i # NoIno /\ i \in Inums
    BY <1>1, <1>2, AtHead DEF StepFits, Passing
  <2> QED
    BY <1>1, <1>2, <2>1, StepHolds
<1>4. InodesSame
  BY <1>1, <1>3, CacheLoaded
<1>a. PICK a \in StepType : a = ToPut(i) /\ a.do = "put" /\ a.ino = i /\ a.dir = NoIno
  BY <1>3, PutIs
<1>b. PICK b \in StepType :
        b = Step("unlock", d, NoIno) /\ b.do = "unlock" /\ b.ino = d /\ b.dir = NoIno
  <2>1. "unlock" \in StepNames /\ d \in Inums \cup {NoIno} /\ NoIno \in Inums \cup {NoIno}
    BY <1>2 DEF StepNames
  <2> QED
    BY <2>1, StepIs
<1>c. PICK c \in StepType : c = ToPut(d) /\ c.do = "put" /\ c.ino = d /\ c.dir = NoIno
  BY <1>2, PutIs
<1> DEFINE s == <<a, b, c>>
<1>5. /\ Then(p, s) /\ s \in Seq(StepType) /\ Len(s) = 3
      /\ s[1] = a /\ s[2] = b /\ s[3] = c
  BY <1>1, <1>a, <1>b, <1>c
<1> HIDE DEF s
<1>6. LocksRight
  <2>1. HeldFor(a) = NoIno /\ HeldFor(b) = d /\ HeldFor(c) = NoIno /\ HeldFor(h) = d
    BY <1>1, <1>2, <1>a, <1>b, <1>c DEF HeldFor
  <2>2. lock[d] = p
    BY <1>2, <2>1, StepLocks
  <2>3. \A j \in Inums :
          lock'[j] = IF \E k \in 1 .. Len(s) : HeldFor(s[k]) = j THEN p
                     ELSE IF HeldFor(h) = j THEN NoProc ELSE lock[j]
    BY <1>1, <1>2, <1>5, <2>1, <2>2
  <2>4. /\ \A k, l \in 1 .. Len(s) :
             k # l /\ HeldFor(s[k]) # NoIno => HeldFor(s[k]) # HeldFor(s[l])
        /\ \A k \in 1 .. Len(s) :
             HeldFor(s[k]) = NoIno \/ HeldFor(s[k]) = HeldFor(h) \/ lock[HeldFor(s[k])] = NoProc
    <3>1. \A k \in 1 .. Len(s) : IF k = 2 THEN HeldFor(s[k]) = d ELSE HeldFor(s[k]) = NoIno
      BY <1>5, <2>1
    <3> QED
      BY <1>2, <2>1, <3>1
  <2> QED
    BY <1>1, <1>5, <2>3, <2>4, LocksKept DEF LocksRight, TypeOK
<1>7. Follows(p, s)
  <2>1. /\ StepFits(p, a)' /\ KnownDirs(a) = {} /\ KnownFiles(a) = {} /\ Known(a) = {}
        /\ StepFits(p, b)' /\ KnownDirs(b) = {} /\ KnownFiles(b) = {} /\ Known(b) = {}
        /\ StepFits(p, c)' /\ KnownDirs(c) = {} /\ KnownFiles(c) = {} /\ Known(c) = {}
        /\ a.do \in Passing /\ b.do \in Passing /\ c.do \in Passing
    BY <1>2, <1>3, <1>a, <1>b, <1>c DEF StepFits, KnownDirs, KnownFiles, Known, Passing
  <2> QED
    BY <1>5, <1>a, <1>b, <1>c, <2>1 DEF Follows
<1>8. Counted(p, s)
  <2> SUFFICES ASSUME NEW j \in Inums
               PROVE  ref'[j] + Refers(h, j) + OfFd(p, j)
                        = ref[j] + Weight(s, j) + OfFd(p, j)'
    BY DEF Counted
  <2>1. Weight(s, j) = Refers(a, j) + Refers(b, j) + Refers(c, j) /\ OfFd(p, j)' = OfFd(p, j)
    BY <1>1, WeightThree DEF s, OfFd
  <2>2. /\ ref'[j] = ref[j]
        /\ Refers(a, j) = (IF i = j THEN 1 ELSE 0)
        /\ Refers(b, j) = 0
        /\ Refers(c, j) = (IF d = j THEN 1 ELSE 0)
        /\ Refers(h, j) = (IF i = j THEN 1 ELSE 0) + (IF d = j THEN 1 ELSE 0)
    BY <1>1, <1>2, <1>a, <1>b, <1>c DEF Refers
  <2>3. ref[j] \in Int /\ OfFd(p, j) \in Int
    BY DEF TypeOK, OfFd
  <2> HIDE DEF h, d, i
  <2> QED
    BY <2>1, <2>2, <2>3
<1>9. OnlyOf(p)
  BY <1>1 DEF TypeOK, OnlyOf
<1> QED
  BY <1>1, <1>2, <1>4, <1>5, <1>6, <1>7, <1>8, <1>9, Same

\* The name that link() would make is taken.
LEMMA LinkExistsKept ==
  ASSUME FsInv, NEW p \in Procs, LinkExists(p)
  PROVE  FsInv'
<1> USE DEF FsInv
<1> DEFINE h == Head(todo[p])
           i == Ino(p)
           d == Dir(p)
           kid == ents[d][Name(p)]
<1>1. /\ todo[p] # <<>> /\ h.do = "linkadd" /\ Unlocked(d) /\ ~NoType(d) /\ kid # NoIno
      /\ mem' = Loaded(d) /\ ref' = IgetRef(ref, kid) /\ i = h.ino
      /\ valid' = NowValid(IgetValid(kid), d) /\ lock' = [lock EXCEPT ![d] = p]
      /\ Then(p, <<ToPut(kid), Step("unlock", d, NoIno), ToPut(d)>> \o <<Step("undo", i, NoIno)>>)
      /\ UNCHANGED <<disk, ents, cwd, fd, call, path>>
  BY DEF LinkExists, At, diskVars, userVars, WithParent, Ino
<1>2. /\ h \in StepType /\ h \in Steps(p) /\ Len(todo[p]) = 1 /\ h.dir = d /\ d \in Inums
      /\ d # NoIno /\ ref[d] >= 1 /\ NoIno \notin Inums /\ kid \in Inums
  <2>1. /\ h \in StepType /\ h \in Steps(p) /\ Len(todo[p]) = 1 /\ h.dir = d /\ d \in Inums
        /\ d # NoIno /\ ref[d] >= 1 /\ Name(p) \in AllNames
        /\ ents[d] \in [AllNames -> Inums \cup {NoIno}]
    BY <1>1, InDir
  <2>2. kid \in Inums
    BY <1>1, <2>1
  <2> QED
    BY <2>1, <2>2, FileSysAssumption DEF NoIno
<1>3. i \in Inums /\ i # NoIno
  BY <1>1, <1>2, AtHead DEF StepFits, Passing
<1>4. InodesSame
  <2>1. \E k \in Inums : ref' = IgetRef(ref, k) /\ valid' = NowValid(IgetValid(k), d)
    BY <1>1, <1>2
  <2> QED
    BY <1>1, <1>2, <2>1, CacheLoaded
<1>a. PICK a \in StepType : a = ToPut(kid) /\ a.do = "put" /\ a.ino = kid /\ a.dir = NoIno
  BY <1>2, PutIs
<1>b. PICK b \in StepType :
        b = Step("unlock", d, NoIno) /\ b.do = "unlock" /\ b.ino = d /\ b.dir = NoIno
  <2>1. "unlock" \in StepNames /\ d \in Inums \cup {NoIno} /\ NoIno \in Inums \cup {NoIno}
    BY <1>2 DEF StepNames
  <2> QED
    BY <2>1, StepIs
<1>c. PICK c \in StepType : c = ToPut(d) /\ c.do = "put" /\ c.ino = d /\ c.dir = NoIno
  BY <1>2, PutIs
<1>d. PICK e \in StepType :
        e = Step("undo", i, NoIno) /\ e.do = "undo" /\ e.ino = i /\ e.dir = NoIno
  <2>1. "undo" \in StepNames /\ i \in Inums \cup {NoIno} /\ NoIno \in Inums \cup {NoIno}
    BY <1>3 DEF StepNames
  <2> QED
    BY <2>1, StepIs
<1> DEFINE s == <<a, b, c, e>>
<1>5. /\ Then(p, s) /\ s \in Seq(StepType) /\ Len(s) = 4
      /\ s[1] = a /\ s[2] = b /\ s[3] = c /\ s[4] = e
  <2>1. <<a, b, c>> \o <<e>> = <<a, b, c, e>>
    <3>1. <<a, b, c, e>> = Append(<<a, b, c>>, e) /\ <<a, b, c>> \in Seq(StepType)
      OBVIOUS
    <3> QED
      BY <3>1, AppendIsConcat
  <2>2. Then(p, s)
    BY <1>1, <1>a, <1>b, <1>c, <1>d, <2>1
  <2> QED
    BY <2>2
<1> HIDE DEF s
<1>6. LocksRight
  <2>1. /\ HeldFor(a) = NoIno /\ HeldFor(b) = d /\ HeldFor(c) = NoIno /\ HeldFor(e) = NoIno
        /\ HeldFor(h) = NoIno
    BY <1>1, <1>2, <1>a, <1>b, <1>c, <1>d DEF HeldFor
  <2>2. \A k \in 1 .. Len(s) : IF k = 2 THEN HeldFor(s[k]) = d ELSE HeldFor(s[k]) = NoIno
    BY <1>5, <2>1
  <2>3. \A j \in Inums :
          lock'[j] = IF \E k \in 1 .. Len(s) : HeldFor(s[k]) = j THEN p
                     ELSE IF HeldFor(h) = j THEN NoProc ELSE lock[j]
    <3>1. 2 \in 1 .. Len(s)
      BY <1>5
    <3> QED
      BY <1>1, <1>2, <2>1, <2>2, <3>1 DEF TypeOK
  <2>4. /\ \A k, l \in 1 .. Len(s) :
             k # l /\ HeldFor(s[k]) # NoIno => HeldFor(s[k]) # HeldFor(s[l])
        /\ \A k \in 1 .. Len(s) :
             HeldFor(s[k]) = NoIno \/ HeldFor(s[k]) = HeldFor(h) \/ lock[HeldFor(s[k])] = NoProc
    BY <1>1, <1>2, <2>1, <2>2 DEF Unlocked
  <2>5. lock' \in [Inums -> Procs \cup {NoProc}]
    BY <1>1 DEF TypeOK
  <2> QED
    BY <1>1, <1>5, <2>3, <2>4, <2>5, LocksKept DEF LocksRight
<1>7. Follows(p, s)
  <2>1. /\ StepFits(p, a)' /\ KnownDirs(a) = {} /\ KnownFiles(a) = {} /\ Known(a) = {}
        /\ StepFits(p, b)' /\ KnownDirs(b) = {} /\ KnownFiles(b) = {} /\ Known(b) = {}
        /\ StepFits(p, c)' /\ KnownDirs(c) = {} /\ KnownFiles(c) = {} /\ Known(c) = {}
        /\ StepFits(p, e)' /\ KnownDirs(e) = {} /\ KnownFiles(e) = {} /\ Known(e) = {}
        /\ a.do \in Passing /\ b.do \in Passing /\ c.do \in Passing
    BY <1>2, <1>3, <1>a, <1>b, <1>c, <1>d DEF StepFits, KnownDirs, KnownFiles, Known, Passing
  <2>2. ASSUME NEW k \in 1 .. Len(s)
        PROVE  s[k] \in {a, b, c, e} /\ (k # Len(s) => s[k] \in {a, b, c})
    BY <1>5
  <2> QED
    BY <1>a, <1>b, <1>c, <1>d, <2>1, <2>2 DEF Follows
<1>8. Counted(p, s)
  <2> SUFFICES ASSUME NEW j \in Inums
               PROVE  ref'[j] + Refers(h, j) + OfFd(p, j)
                        = ref[j] + Weight(s, j) + OfFd(p, j)'
    BY DEF Counted
  <2>1. /\ Weight(s, j) = Refers(a, j) + Refers(b, j) + Refers(c, j) + Refers(e, j)
        /\ OfFd(p, j)' = OfFd(p, j)
    BY <1>1, WeightFour DEF s, OfFd
  <2>2. /\ ref'[j] = IF j = kid THEN ref[j] + 1 ELSE ref[j]
        /\ Refers(a, j) = (IF kid = j THEN 1 ELSE 0)
        /\ Refers(b, j) = 0
        /\ Refers(c, j) = (IF d = j THEN 1 ELSE 0)
        /\ Refers(e, j) = (IF i = j THEN 1 ELSE 0)
        /\ Refers(h, j) = (IF i = j THEN 1 ELSE 0) + (IF d = j THEN 1 ELSE 0)
    BY <1>1, <1>2, <1>a, <1>b, <1>c, <1>d DEF Refers, IgetRef, TypeOK
  <2>3. ref[j] \in Int /\ OfFd(p, j) \in Int
    BY DEF TypeOK, OfFd
  <2> HIDE DEF h, d, i, kid
  <2> QED
    BY <2>1, <2>2, <2>3
<1>9. OnlyOf(p)
  BY <1>1 DEF TypeOK, OnlyOf
<1> QED
  BY <1>1, <1>2, <1>4, <1>5, <1>6, <1>7, <1>8, <1>9, Same

\* link() of a file, that goes on with the new name.
LEMMA LinkKept ==
  ASSUME FsInv, NEW p \in Procs, Link(p)
  PROVE  FsInv'
<1> USE DEF FsInv
<1> DEFINE h == Head(todo[p])
           i == Ino(p)
           r == Start(p, call[p].new)
<1>1. /\ todo[p] # <<>> /\ h.do = "link" /\ Unlocked(i) /\ ~NoType(i)
      /\ UNCHANGED <<ents, lock, cwd, fd, call>>
  BY DEF Link, At, userVars
<1>2. /\ h \in StepType /\ Len(todo[p]) = 1 /\ h.dir = NoIno /\ h.ino = i /\ i \in Inums
      /\ i # NoIno /\ ref[i] >= 1 /\ Info(i) = disk[i] /\ lock' = Released(h)
      /\ h.do \notin Passing \cup {"setcwd"}
  BY <1>1, OneInode DEF Released, HeldFor, Passing
<1>3. CASE /\ mem' = Loaded(i) /\ valid' = NowValid(valid, i) /\ Then(p, <<ToPut(i)>>)
           /\ UNCHANGED <<disk, ref, path>>
  <2>1. InodesSame
    BY <1>1, <1>2, <1>3, CacheLoaded
  <2> QED
    BY <1>1, <1>2, <1>3, <2>1, GivesBack
<1>4. CASE /\ Info(i).type # "dir" /\ Update(i, LinkCount(i)) /\ ref' = IgetRef(ref, r)
           /\ valid' = NowValid(IgetValid(r), i)
           /\ path' = [path EXCEPT ![p] = Elems(call[p].new)]
           /\ Then(p, <<Step("walkp", r, i)>>)
  <2>1. IsCall(call[p]) /\ call[p].op = "link"
    BY <1>1, AtHead DEF StepFits, Passing, TypeOK
  <2>2. Elems(call[p].new) \in Seq(AllNames) /\ r \in Inums /\ r # NoIno /\ NoIno \notin Inums
    <3>1. NoIno \notin Inums /\ ROOTINO \in Inums /\ cwd[p] \in Inums
      BY FileSysAssumption DEF NoIno, TypeOK
    <3> QED
      BY <2>1, <3>1 DEF IsCall, IsPath, Start
  <2>3. InodesSame
    <3>1. LinkCount(i) \in InodeType /\ LinkCount(i).type = Info(i).type
      BY <1>2, LinksType DEF LinkCount
    <3>2. \E k \in Inums : ref' = IgetRef(ref, k) /\ valid' = NowValid(IgetValid(k), i)
      BY <1>4, <2>2
    <3> QED
      BY <1>1, <1>2, <1>4, <3>1, <3>2, CacheUpdated
  <2>a. PICK a \in StepType : /\ a = Step("walkp", r, i)
                              /\ a.do = "walkp" /\ a.ino = r /\ a.dir = i
    <3>1. "walkp" \in StepNames /\ r \in Inums \cup {NoIno} /\ i \in Inums \cup {NoIno}
      BY <1>2, <2>2 DEF StepNames
    <3> QED
      BY <3>1, StepIs
  <2> DEFINE s == <<a>>
  <2>4. Then(p, s) /\ s \in Seq(StepType) /\ Len(s) = 1 /\ s[1] = a
    BY <1>4, <2>a
  <2> HIDE DEF s
  <2>5. LocksRight
    <3>1. \A k \in 1 .. Len(s) : HeldFor(s[k]) = NoIno
      BY <2>4, <2>a DEF HeldFor
    <3> QED
      BY <1>1, <1>2, <2>4, <3>1, LocksFreed DEF LocksRight
  <2>6. disk[i].type = "file"
    <3>1. disk[i] \in InodeType
      BY <1>2 DEF TypeOK
    <3>2. disk[i].type # "free" /\ disk[i].type # "dir"
      BY <1>1, <1>2, <1>4 DEF NoType
    <3> QED
      BY <3>1, <3>2 DEF InodeType
  <2>7. Follows(p, s)
    <3>1. /\ StepFits(p, a)' /\ KnownDirs(a) = {} /\ KnownFiles(a) = {i} /\ Known(a) = {i}
      BY <1>2, <2>2, <2>a DEF StepFits, KnownDirs, KnownFiles, Known, Passing
    <3> QED
      BY <1>1, <1>2, <2>4, <2>6, <2>a, <3>1 DEF Follows
  <2>8. Counted(p, s)
    <3> SUFFICES ASSUME NEW j \in Inums
                 PROVE  ref'[j] + Refers(h, j) + OfFd(p, j)
                          = ref[j] + Weight(s, j) + OfFd(p, j)'
      BY DEF Counted
    <3>1. Weight(s, j) = Refers(a, j) /\ OfFd(p, j)' = OfFd(p, j)
      BY <1>1, WeightOne DEF s, OfFd
    <3>2. /\ ref'[j] = IF j = r THEN ref[j] + 1 ELSE ref[j]
          /\ Refers(a, j) = (IF r = j THEN 1 ELSE 0) + (IF i = j THEN 1 ELSE 0)
          /\ Refers(h, j) = (IF i = j THEN 1 ELSE 0)
      BY <1>1, <1>2, <1>4, <2>2, <2>a DEF Refers, IgetRef, TypeOK
    <3>3. ref[j] \in Int /\ OfFd(p, j) \in Int
      BY DEF TypeOK, OfFd
    <3> HIDE DEF h, i, r
    <3> QED
      BY <3>1, <3>2, <3>3
  <2>9. OnlyOf(p) /\ ents' = ents
    BY <1>1, <1>4, <2>2 DEF TypeOK, OnlyOf
  <2> QED
    BY <1>1, <1>2, <2>3, <2>4, <2>5, <2>7, <2>8, <2>9, Same
<1> QED
  BY <1>3, <1>4 DEF Link

-----------------------------------------------------------------------------
(* Calls begin, and iput() ends                                             *)

\* iunlock() of a directory over an iput().
LEMMA UnlockKept ==
  ASSUME FsInv, NEW p \in Procs, Unlock(p)
  PROVE  FsInv'
<1> USE DEF FsInv
<1> DEFINE h == Head(todo[p])
<1>1. /\ todo[p] # <<>> /\ h.do = "unlock" /\ lock' = [lock EXCEPT ![h.ino] = NoProc]
      /\ Then(p, <<>>)
      /\ UNCHANGED <<disk, ents, ref, valid, mem, cwd, fd, call, path>>
  BY DEF Unlock, At, diskVars, memVars, userVars, Ino
<1>2. h \in StepType /\ StepFits(p, h) /\ h.ino \in Inums /\ h.ino # NoIno
  BY <1>1, AtHead DEF StepFits, StepType, Passing
<1> DEFINE s == <<>>
<1>3. Then(p, s) /\ s \in Seq(StepType) /\ 1 .. Len(s) = {}
  BY <1>1
<1>4. \A j \in Inums : Weight(s, j) = 0
  BY NoWeight
<1> HIDE DEF s
<1>5. LocksRight
  <2>1. lock' = Released(h)
    BY <1>1, <1>2 DEF Released, HeldFor
  <2> QED
    BY <1>1, <1>3, <2>1, LocksFreed DEF LocksRight
<1>6. Fitting(p, s) /\ OnlyOf(p)
  BY <1>1, <1>3 DEF Fitting, OnlyOf, TypeOK
<1>7. Counted(p, s)
  BY <1>1, <1>4 DEF Counted, Refers, OfFd, TypeOK
<1>8. /\ disk' \in [Inums -> InodeType] /\ mem' \in [Inums -> InodeType]
      /\ ents' \in [Inums -> [AllNames -> Inums \cup {NoIno}]]
      /\ ref' \in [Inums -> Int] /\ valid' \in [Inums -> BOOLEAN]
  BY <1>1 DEF TypeOK
<1>9. TypeOK' /\ TodoFits' /\ HeldOnce' /\ LocksReleased' /\ RefsCounted'
  BY <1>1, <1>3, <1>5, <1>6, <1>7, <1>8, Turn
<1>10. TypesKept' /\ EntsFit' /\ NoLoop'
  BY <1>1, <1>3, TreeKept
<1>11. CacheFits'
  BY <1>1 DEF CacheFits
<1> QED
  BY <1>9, <1>10, <1>11

\* The end of iput().
LEMMA PutDropKept ==
  ASSUME FsInv, NEW p \in Procs, PutDrop(p)
  PROVE  FsInv'
<1> USE DEF FsInv
<1> DEFINE h == Head(todo[p])
<1>1. /\ todo[p] # <<>> /\ h.do = "drop" /\ ref' = [ref EXCEPT ![h.ino] = @ - 1]
      /\ Then(p, <<>>)
      /\ UNCHANGED <<disk, ents, valid, mem, lock, cwd, fd, call, path>>
  BY DEF PutDrop, At, diskVars, userVars, Ino
<1>2. h \in StepType /\ h.ino \in Inums /\ h.dir = NoIno /\ NoIno \notin Inums
  BY <1>1, AtHead, FileSysAssumption DEF StepFits, StepType, Passing, NoIno
<1> DEFINE s == <<>>
<1>3. Then(p, s) /\ s \in Seq(StepType) /\ 1 .. Len(s) = {}
  BY <1>1
<1>4. \A j \in Inums : Weight(s, j) = 0
  BY NoWeight
<1> HIDE DEF s
<1>5. LocksRight
  <2>1. lock' = Released(h)
    BY <1>1, <1>2 DEF Released, HeldFor
  <2> QED
    BY <1>1, <1>3, <2>1, LocksFreed DEF LocksRight
<1>6. Fitting(p, s) /\ OnlyOf(p)
  BY <1>1, <1>3 DEF Fitting, OnlyOf, TypeOK
<1>7. Counted(p, s)
  <2> SUFFICES ASSUME NEW j \in Inums
               PROVE  ref'[j] + Refers(h, j) + OfFd(p, j)
                        = ref[j] + Weight(s, j) + OfFd(p, j)'
    BY DEF Counted
  <2>1. /\ ref'[j] = IF j = h.ino THEN ref[j] - 1 ELSE ref[j]
        /\ Refers(h, j) = IF h.ino = j THEN 1 ELSE 0
        /\ Weight(s, j) = 0 /\ OfFd(p, j)' = OfFd(p, j)
    BY <1>1, <1>2, <1>4 DEF Refers, OfFd, TypeOK
  <2>2. ref[j] \in Int /\ OfFd(p, j) \in Int
    BY DEF TypeOK, OfFd
  <2> HIDE DEF h
  <2> QED
    BY <2>1, <2>2
<1>8. /\ disk' \in [Inums -> InodeType] /\ mem' \in [Inums -> InodeType]
      /\ ents' \in [Inums -> [AllNames -> Inums \cup {NoIno}]]
      /\ ref' \in [Inums -> Int] /\ valid' \in [Inums -> BOOLEAN]
  <2>1. ref \in [Inums -> Int] /\ ref[h.ino] - 1 \in Int
    BY <1>2 DEF TypeOK
  <2>2. ref' \in [Inums -> Int]
    BY <1>1, <2>1
  <2> QED
    BY <1>1, <2>2 DEF TypeOK
<1>9. TypeOK' /\ TodoFits' /\ HeldOnce' /\ LocksReleased' /\ RefsCounted'
  BY <1>1, <1>3, <1>5, <1>6, <1>7, <1>8, Turn
<1>10. TypesKept' /\ EntsFit' /\ NoLoop'
  BY <1>1, <1>3, TreeKept
<1>11. CacheFits'
  BY <1>1, <1>2 DEF CacheFits, TypeOK
<1> QED
  BY <1>9, <1>10, <1>11

\* What p and the cache have when a call of p begins with the step a.
Beginning(p, a) ==
  /\ todo[p] = <<>> /\ todo' = [todo EXCEPT ![p] = <<a>>]
  /\ HeldFor(a) = NoIno /\ Known(a) = {} /\ StepFits(p, a)'
  /\ a.do \notin {"fill", "free", "erase", "setcwd"}
  /\ UNCHANGED <<disk, mem, ents, lock, cwd>>
  /\ valid' \in [Inums -> BOOLEAN] /\ ref' \in [Inums -> Int] /\ CacheFits'
  /\ fd' \in [Procs -> Inums \cup {NoIno}] /\ path' \in [Procs -> Seq(AllNames)]
  /\ DOMAIN call' = Procs /\ \A q \in Procs : call'[q].op = "close" \/ IsCall(call'[q])
  /\ \A q \in Procs \ {p} : path'[q] = path[q] /\ fd'[q] = fd[q] /\ call'[q] = call[q]
  /\ \A i \in Inums : ref'[i] + OfFd(p, i) = ref[i] + Refers(a, i) + OfFd(p, i)'

\* A call of p begins.
LEMMA Begins ==
  ASSUME FsInv, NEW p \in Procs, NEW a \in StepType, Beginning(p, a)
  PROVE  FsInv'
<1> USE DEF Beginning
<1> USE DEF FsInv
<1> DEFINE s == <<a>>
<1>1. /\ todo' \in [Procs -> Seq(StepType)] /\ todo'[p] = s /\ s \in Seq(StepType)
      /\ DOMAIN s = {1} /\ s[1] = a /\ Len(s) = 1
      /\ \A q \in Procs \ {p} : todo'[q] = todo[q]
  BY DEF TypeOK
<1>2. \A i \in Inums : Weight(s, i) = Refers(a, i) /\ Weight(todo[p], i) = 0
  BY WeightOne, NoWeight
<1>3. Steps(p) = {}
  BY DEF Steps
<1>4. Steps(p)' = {a} /\ \A q \in Procs \ {p} : Steps(q)' = Steps(q)
  BY <1>1 DEF Steps
<1> HIDE DEF s
<1>5. RefsCounted' /\ \A i \in Inums : ref'[i] \in Nat
  <2>1. ASSUME NEW i \in Inums
        PROVE  ref'[i] + Weight(todo[p], i) + OfCwd(p, i) + OfFd(p, i)
                 = ref[i] + Weight(todo'[p], i) + OfCwd(p, i)' + OfFd(p, i)'
    <3>1. OfCwd(p, i)' = OfCwd(p, i)
      BY <1>3, <1>4 DEF OfCwd
    <3>2. /\ ref'[i] + OfFd(p, i) = ref[i] + Refers(a, i) + OfFd(p, i)'
          /\ Weight(todo[p], i) = 0 /\ Weight(todo'[p], i) = Refers(a, i)
      BY <1>1, <1>2
    <3>3. /\ ref'[i] \in Int /\ ref[i] \in Int /\ OfFd(p, i) \in Int /\ OfFd(p, i)' \in Int
          /\ Refers(a, i) \in Int /\ OfCwd(p, i) \in Int
      BY DEF OfFd, Refers, OfCwd, TypeOK
    <3> QED
      BY ONLY <3>1, <3>2, <3>3
  <2>2. \A q \in Procs \ {p} : todo'[q] = todo[q] /\ cwd'[q] = cwd[q] /\ fd'[q] = fd[q]
    BY <1>1
  <2> QED
    BY <1>1, <2>1, <2>2, RefsKept
<1>6. TypeOK'
  <2>1. ref' \in [Inums -> Nat]
    BY <1>5
  <2> QED
    BY <1>1, <2>1 DEF TypeOK
<1>7. TodoFits'
  <2>1. ASSUME NEW q \in Procs, NEW k \in DOMAIN todo'[q]
        PROVE  StepFits(q, todo[q][k])' /\ (k # Len(todo'[q]) => todo'[q][k].do \in Passing)
    <3>1. CASE q = p
      <4>1. k = 1 /\ todo'[q][k] = a /\ Len(todo'[q]) = 1
        BY <1>1, <3>1
      <4> QED
        BY <3>1, <4>1 DEF StepFits
    <3>2. CASE q # p
      <4>1. todo'[q] = todo[q] /\ call'[q] = call[q] /\ path'[q] = path[q]
        BY <1>1, <3>2
      <4>2. StepFits(q, todo[q][k]) /\ (k # Len(todo[q]) => todo[q][k].do \in Passing)
        BY <4>1 DEF TodoFits
      <4> QED
        BY <4>1, <4>2 DEF StepFits
    <3> QED
      BY <3>1, <3>2
  <2> QED
    BY <2>1 DEF TodoFits
<1>8. HeldOnce'
  <2> SUFFICES ASSUME NEW q \in Procs
               PROVE  \A k, l \in DOMAIN todo'[q] :
                        k # l /\ HeldFor(todo'[q][k]) # NoIno
                          => HeldFor(todo'[q][k]) # HeldFor(todo'[q][l])
    BY DEF HeldOnce
  <2>1. CASE q = p
    BY <1>1, <2>1
  <2>2. CASE q # p
    <3>1. todo'[q] = todo[q]
      BY <1>1, <2>2
    <3>2. \A k, l \in DOMAIN todo[q] :
            k # l /\ HeldFor(todo[q][k]) # NoIno => HeldFor(todo[q][k]) # HeldFor(todo[q][l])
      BY DEF HeldOnce
    <3> QED
      BY ONLY <3>1, <3>2
  <2> QED
    BY <2>1, <2>2
<1>9. LocksReleased'
  <2>1. LocksOf(p)' = {} /\ LocksOf(p) = {}
    BY <1>3, <1>4 DEF LocksOf
  <2>2. \A q \in Procs \ {p} : LocksOf(q)' = LocksOf(q)
    BY <1>4 DEF LocksOf
  <2> QED
    BY <2>1, <2>2 DEF LocksReleased
<1>10. TypesKept'
  <2>1. ASSUME NEW q \in Procs, NEW x \in Steps(q)'
        PROVE  x \in Steps(q) \/ (x = a /\ x.do # "free" /\ Known(x) = {})
    BY <1>4
  <2> QED
    BY <2>1 DEF TypesKept, Known
<1>11. EntsFit'
  <2>1. ASSUME NEW q \in Procs, NEW x \in Steps(q)', x.do = "erase"
        PROVE  Removable(Name(q))' /\ ents'[x.dir][Name(q)'] = x.ino
    <3>1. q # p /\ x \in Steps(q)
      BY <1>4, <2>1
    <3>2. path'[q] = path[q]
      BY <3>1
    <3> QED
      BY <2>1, <3>1, <3>2 DEF EntsFit, Removable, Name
  <2> QED
    BY <2>1 DEF EntsFit
<1>12. NoLoop'
  <2>1. ASSUME NEW d \in Inums, NEW i \in Inums, Under(d, i)' PROVE Under(d, i)
    <3>1. \A q \in Procs : \A x \in Steps(q)' : x.do = "fill" => x \in Steps(q)
      BY <1>4
    <3> QED
      BY <2>1, <3>1 DEF Under
  <2> QED
    BY <2>1, LoopFree
<1> QED
  BY <1>5, <1>6, <1>7, <1>8, <1>9, <1>10, <1>11, <1>12

\* close() of the descriptor.
LEMMA CloseKept ==
  ASSUME FsInv, NEW p \in Procs, Close(p)
  PROVE  FsInv'
<1> USE DEF FsInv
<1>1. /\ todo[p] = <<>> /\ fd[p] # NoIno /\ call' = [call EXCEPT ![p] = [op |-> "close"]]
      /\ todo' = [todo EXCEPT ![p] = <<ToPut(fd[p])>>] /\ fd' = [fd EXCEPT ![p] = NoIno]
      /\ UNCHANGED <<disk, ents, ref, valid, mem, lock, cwd, path>>
  BY DEF Close, diskVars, memVars
<1>2. fd[p] \in Inums /\ NoIno \notin Inums
  BY <1>1, FileSysAssumption DEF TypeOK, NoIno
<1>a. PICK a \in StepType : a = ToPut(fd[p]) /\ a.do = "put" /\ a.ino = fd[p] /\ a.dir = NoIno
  BY <1>2, PutIs
<1>3. todo' = [todo EXCEPT ![p] = <<a>>]
  BY <1>1, <1>a
<1>4. HeldFor(a) = NoIno /\ Known(a) = {} /\ StepFits(p, a)'
  BY <1>1, <1>a DEF HeldFor, Known, KnownDirs, KnownFiles, StepFits, Passing
<1>5. ASSUME NEW i \in Inums
      PROVE  ref'[i] + OfFd(p, i) = ref[i] + Refers(a, i) + OfFd(p, i)'
  <2>1. fd'[p] = NoIno
    BY <1>1 DEF TypeOK
  <2>2. OfFd(p, i)' = 0 /\ Refers(a, i) = OfFd(p, i)
    BY <1>2, <1>a, <2>1 DEF OfFd, Refers
  <2> QED
    BY <1>1, <2>2 DEF OfFd, TypeOK
<1>6. /\ fd' \in [Procs -> Inums \cup {NoIno}] /\ path' \in [Procs -> Seq(AllNames)]
      /\ valid' \in [Inums -> BOOLEAN] /\ ref' \in [Inums -> Int] /\ CacheFits'
  BY <1>1 DEF TypeOK, CacheFits
<1>7. /\ DOMAIN call' = Procs /\ \A q \in Procs : call'[q].op = "close" \/ IsCall(call'[q])
      /\ \A q \in Procs \ {p} : path'[q] = path[q] /\ fd'[q] = fd[q] /\ call'[q] = call[q]
  BY <1>1 DEF TypeOK
<1>8. a.do \notin {"fill", "free", "erase", "setcwd"}
  BY <1>a
<1>9. Beginning(p, a)
  BY <1>1, <1>3, <1>4, <1>5, <1>6, <1>7, <1>8 DEF Beginning
<1> QED
  BY <1>9, Begins

\* A call with a path.
LEMMA CallKept ==
  ASSUME FsInv, NEW p \in Procs, NEW c \in Calls[p], Call(p, c)
  PROVE  FsInv'
<1> USE DEF FsInv
<1> DEFINE r == Start(p, c.path)
<1>1. /\ todo[p] = <<>> /\ call' = [call EXCEPT ![p] = c]
      /\ path' = [path EXCEPT ![p] = Elems(c.path)]
      /\ todo' = [todo EXCEPT ![p] = <<Step(WalkFor(c.op), r, NoIno)>>]
      /\ ref' = IgetRef(ref, r) /\ valid' = IgetValid(r)
      /\ UNCHANGED <<disk, ents, mem, lock, cwd, fd>>
  BY DEF Call, diskVars, Iget
<1>2. IsCall(c) /\ NoIno \notin Inums /\ ROOTINO \in Inums /\ cwd[p] \in Inums
  BY FileSysAssumption DEF TypeOK, NoIno
<1>3. r \in Inums /\ r # NoIno
  BY <1>2 DEF Start
<1>4. Elems(c.path) \in Seq(AllNames)
  BY <1>2 DEF IsCall, IsPath
<1>a. PICK a \in StepType : /\ a = Step(WalkFor(c.op), r, NoIno)
                            /\ a.do = WalkFor(c.op) /\ a.ino = r /\ a.dir = NoIno
  <2>1. WalkFor(c.op) \in StepNames
    BY DEF WalkFor, StepNames
  <2> QED
    BY <1>3, <2>1, StepIs
<1>5. todo' = [todo EXCEPT ![p] = <<a>>]
  BY <1>1, <1>a
<1>6. \/ a.do = "walkp" /\ c.op \in {"create", "mkdir", "unlink"}
      \/ a.do = "walk" /\ c.op \in {"open", "link", "chdir"}
  BY <1>2, <1>a DEF WalkFor, IsCall
<1>7. HeldFor(a) = NoIno /\ Known(a) = {}
  BY <1>6, <1>a DEF HeldFor, Known, KnownDirs, KnownFiles
<1>8. /\ DOMAIN call' = Procs /\ \A q \in Procs : call'[q].op = "close" \/ IsCall(call'[q])
      /\ \A q \in Procs \ {p} : path'[q] = path[q] /\ fd'[q] = fd[q] /\ call'[q] = call[q]
      /\ call'[p] = c
  BY <1>1, <1>2 DEF TypeOK
<1>9. StepFits(p, a)'
  BY <1>3, <1>6, <1>8, <1>a DEF StepFits
<1>10. ASSUME NEW i \in Inums
       PROVE  ref'[i] + OfFd(p, i) = ref[i] + Refers(a, i) + OfFd(p, i)'
  <2>1. /\ ref'[i] = IF i = r THEN ref[i] + 1 ELSE ref[i]
        /\ Refers(a, i) = IF r = i THEN 1 ELSE 0
    BY <1>1, <1>2, <1>3, <1>6, <1>a DEF Refers, IgetRef, TypeOK
  <2>2. OfFd(p, i)' = OfFd(p, i) /\ ref[i] \in Int /\ OfFd(p, i) \in Int
    BY <1>1 DEF OfFd, TypeOK
  <2> HIDE DEF r
  <2> QED
    BY <2>1, <2>2
<1>11. /\ fd' \in [Procs -> Inums \cup {NoIno}] /\ path' \in [Procs -> Seq(AllNames)]
  BY <1>1, <1>4 DEF TypeOK
<1>12. valid' \in [Inums -> BOOLEAN] /\ ref' \in [Inums -> Int]
  <2>1. valid' \in [Inums -> BOOLEAN]
    BY <1>1 DEF TypeOK, IgetValid
  <2>2. ref' \in [Inums -> Int]
    <3>1. ref \in [Inums -> Int] /\ ref[r] + 1 \in Int
      BY <1>3 DEF TypeOK
    <3> QED
      BY <1>1, <3>1 DEF IgetRef
  <2> QED
    BY <2>1, <2>2
<1>13. CacheFits'
  <2> SUFFICES ASSUME NEW i \in Inums, ref'[i] > 0, valid'[i]
               PROVE  ref[i] > 0 /\ valid[i]
    BY <1>1 DEF CacheFits
  <2>1. CASE i = r
    BY <1>1, <2>1 DEF IgetValid, TypeOK
  <2>2. CASE i # r
    BY <1>1, <2>2 DEF IgetValid, IgetRef, TypeOK
  <2> QED
    BY <2>1, <2>2
<1>14. a.do \notin {"fill", "free", "erase", "setcwd"}
  BY <1>6
<1>15. Beginning(p, a)
  BY <1>1, <1>5, <1>7, <1>8, <1>9, <1>10, <1>11, <1>12, <1>13, <1>14 DEF Beginning
<1> QED
  BY <1>15, Begins

-----------------------------------------------------------------------------
(* chdir()                                                                  *)

\* What a step of chdir() changes: the steps s hold no lock, and the references of p move
\* between them and its current directory.
Moving(p, s) ==
  /\ todo[p] # <<>> /\ Then(p, s) /\ Len(todo[p]) = 1 /\ HeldFor(Head(todo[p])) = NoIno
  /\ UNCHANGED <<ents, ref, lock, fd, call, path>> /\ InodesSame
  /\ \A k \in 1 .. Len(s) :
       /\ HeldFor(s[k]) = NoIno /\ Known(s[k]) = {} /\ StepFits(p, s[k])'
       /\ s[k].do \notin {"fill", "free", "erase"} /\ (k # Len(s) => s[k].do \in Passing)
  /\ cwd' \in [Procs -> Inums] /\ \A q \in Procs \ {p} : cwd'[q] = cwd[q]
  /\ \A i \in Inums : Refers(Head(todo[p]), i) + OfCwd(p, i) = Weight(s, i) + OfCwd(p, i)'

\* A step of chdir().
LEMMA Moves ==
  ASSUME FsInv, NEW p \in Procs, NEW s \in Seq(StepType), Moving(p, s)
  PROVE  FsInv'
<1> USE DEF FsInv
<1> DEFINE h == Head(todo[p])
<1>1. /\ todo[p] # <<>> /\ Then(p, s) /\ Len(todo[p]) = 1 /\ HeldFor(h) = NoIno
      /\ UNCHANGED <<ents, ref, lock, fd, call, path>> /\ InodesSame
      /\ cwd' \in [Procs -> Inums] /\ \A q \in Procs \ {p} : cwd'[q] = cwd[q]
  BY DEF Moving
<1>2. \A k \in 1 .. Len(s) :
        /\ HeldFor(s[k]) = NoIno /\ Known(s[k]) = {} /\ StepFits(p, s[k])'
        /\ s[k].do \notin {"fill", "free", "erase"} /\ (k # Len(s) => s[k].do \in Passing)
  BY DEF Moving
<1>3. /\ todo' \in [Procs -> Seq(StepType)] /\ todo'[p] = s /\ todo[p] = <<h>>
      /\ h \in StepType /\ \A q \in Procs \ {p} : todo'[q] = todo[q]
  <2>1. h \in StepType /\ todo[p] \in Seq(StepType)
    BY <1>1, AtHead DEF TypeOK
  <2>2. todo[p] = <<h>>
    BY <1>1, <2>1
  <2>3. Tail(todo[p]) = <<>>
    <3>1. Tail(todo[p]) \in Seq(StepType) /\ Len(Tail(todo[p])) = 0
      BY <1>1, <2>1, HeadTailProperties
    <3> QED
      BY <3>1, EmptySeq
  <2>4. s \o <<>> = s
    OBVIOUS
  <2>5. todo'[p] = s
    BY <1>1, <2>1, <2>3, <2>4 DEF Then, TypeOK
  <2> QED
    BY <1>1, <2>1, <2>2, <2>5, Turned
<1>4. RefsCounted'
  <2>1. ASSUME NEW i \in Inums
        PROVE  /\ ref'[i] \in Int
               /\ ref'[i] + Weight(todo[p], i) + OfCwd(p, i) + OfFd(p, i)
                    = ref[i] + Weight(todo'[p], i) + OfCwd(p, i)' + OfFd(p, i)'
    <3>1. Weight(todo[p], i) = Refers(h, i) /\ Weight(todo'[p], i) = Weight(s, i)
      BY <1>3, WeightOne
    <3>2. Refers(h, i) + OfCwd(p, i) = Weight(s, i) + OfCwd(p, i)'
      BY DEF Moving
    <3>3. OfFd(p, i)' = OfFd(p, i) /\ ref'[i] = ref[i] /\ ref[i] \in Int
      BY <1>1 DEF OfFd, TypeOK
    <3>4. /\ Refers(h, i) \in Int /\ Weight(s, i) \in Int /\ OfCwd(p, i) \in Int
          /\ OfCwd(p, i)' \in Int /\ OfFd(p, i) \in Int
      BY WeightType DEF OfFd, Refers, OfCwd
    <3> HIDE DEF h
    <3>5. /\ ref[i] + Refers(h, i) + OfCwd(p, i) + OfFd(p, i)
               = ref[i] + (Refers(h, i) + OfCwd(p, i)) + OfFd(p, i)
          /\ ref[i] + Weight(s, i) + OfCwd(p, i)' + OfFd(p, i)
               = ref[i] + (Weight(s, i) + OfCwd(p, i)') + OfFd(p, i)
      BY ONLY <3>3, <3>4
    <3>6. Refers(h, i) + OfCwd(p, i) = Weight(s, i) + OfCwd(p, i)'
      BY <3>2 DEF h
    <3> QED
      BY ONLY <3>1, <3>3, <3>5, <3>6
  <2>2. \A q \in Procs \ {p} : todo'[q] = todo[q] /\ cwd'[q] = cwd[q] /\ fd'[q] = fd[q]
    BY <1>1, <1>3
  <2> QED
    BY <1>3, <2>1, <2>2, RefsKept
<1>5. HeldOnce' /\ LocksReleased'
  <2>1. lock' = Released(h)
    BY <1>1 DEF Released
  <2> QED
    BY <1>1, <1>2, <2>1, LocksFreed
<1>6. TypeOK'
  BY <1>1, <1>3 DEF InodesSame, TypeOK
<1>7. TodoFits'
  <2>1. \A k \in 1 .. Len(s) : StepFits(p, s[k])' /\ (k # Len(s) => s[k].do \in Passing)
    BY <1>2
  <2>2. \A q \in Procs \ {p} : call'[q] = call[q] /\ path'[q] = path[q]
    BY <1>1
  <2> QED
    BY <1>1, <2>1, <2>2, TodoKept
<1>8. TypesKept' /\ EntsFit' /\ NoLoop'
  <2>1. \A k \in 1 .. Len(s) :
          /\ s[k].do \notin {"fill", "free", "erase"}
          /\ \A i \in KnownDirs(s[k]) : disk[i].type = "dir"
          /\ \A i \in KnownFiles(s[k]) : disk[i].type = "file"
          /\ \A i \in Known(s[k]) : i \in Inums /\ (Unlocked(i) \/ i \in Known(Head(todo[p])))
    BY <1>2 DEF Known
  <2>2. /\ \A i \in Inums : disk'[i].type = disk[i].type
        /\ \A q \in Procs \ {p} : path'[q] = path[q]
    BY <1>1 DEF InodesSame
  <2> QED
    BY <1>1, <2>1, <2>2, TreeKept
<1> QED
  BY <1>1, <1>4, <1>5, <1>6, <1>7, <1>8 DEF InodesSame

\* chdir() has found what it looked for.
LEMMA ChdirKept ==
  ASSUME FsInv, NEW p \in Procs, Chdir(p)
  PROVE  FsInv'
<1> USE DEF FsInv
<1> DEFINE h == Head(todo[p])
           i == Ino(p)
<1>1. /\ todo[p] # <<>> /\ h.do = "chdir" /\ ~NoType(i) /\ mem' = Loaded(i)
      /\ valid' = NowValid(valid, i)
      /\ \/ Then(p, <<ToPut(cwd[p]), Step("setcwd", i, NoIno)>>)
         \/ Then(p, <<ToPut(i)>>)
      /\ UNCHANGED <<disk, ents, ref, lock, cwd, fd, call, path>>
  BY DEF Chdir, At, diskVars, userVars
<1>2. /\ h \in StepType /\ h \in Steps(p) /\ Len(todo[p]) = 1 /\ h.dir = NoIno /\ h.ino = i
      /\ i \in Inums /\ i # NoIno /\ ref[i] >= 1 /\ lock' = Released(h) /\ HeldFor(h) = NoIno
      /\ h.do \notin Passing \cup {"setcwd"} /\ NoIno \notin Inums /\ cwd[p] \in Inums
  BY <1>1, OneInode, FileSysAssumption DEF Released, HeldFor, Passing, NoIno, TypeOK
<1>3. InodesSame
  BY <1>1, <1>2, CacheLoaded
<1>4. CASE Then(p, <<ToPut(i)>>)
  BY <1>1, <1>2, <1>3, <1>4, GivesBack
<1>5. CASE Then(p, <<ToPut(cwd[p]), Step("setcwd", i, NoIno)>>)
  <2>a. PICK a \in StepType :
          a = ToPut(cwd[p]) /\ a.do = "put" /\ a.ino = cwd[p] /\ a.dir = NoIno
    BY <1>2, PutIs
  <2>b. PICK b \in StepType :
          b = Step("setcwd", i, NoIno) /\ b.do = "setcwd" /\ b.ino = i /\ b.dir = NoIno
    <3>1. "setcwd" \in StepNames /\ i \in Inums \cup {NoIno} /\ NoIno \in Inums \cup {NoIno}
      BY <1>2 DEF StepNames
    <3> QED
      BY <3>1, StepIs
  <2> DEFINE s == <<a, b>>
  <2>1. Then(p, s) /\ s \in Seq(StepType) /\ Len(s) = 2 /\ s[1] = a /\ s[2] = b
    BY <1>5, <2>a, <2>b
  <2> HIDE DEF s
  <2>2. /\ StepFits(p, a)' /\ Known(a) = {} /\ HeldFor(a) = NoIno
        /\ StepFits(p, b)' /\ Known(b) = {} /\ HeldFor(b) = NoIno /\ a.do \in Passing
    BY <1>2, <2>a, <2>b DEF StepFits, Known, KnownDirs, KnownFiles, HeldFor, Passing
  <2>3. \A k \in 1 .. Len(s) :
          /\ HeldFor(s[k]) = NoIno /\ Known(s[k]) = {} /\ StepFits(p, s[k])'
          /\ s[k].do \notin {"fill", "free", "erase"} /\ (k # Len(s) => s[k].do \in Passing)
    BY <2>1, <2>2, <2>a, <2>b
  <2>4. ASSUME NEW j \in Inums
        PROVE  Refers(h, j) + OfCwd(p, j) = Weight(s, j) + OfCwd(p, j)'
    <3>1. Weight(s, j) = Refers(a, j) + Refers(b, j)
      BY WeightTwo DEF s
    <3>2. /\ Refers(h, j) = (IF i = j THEN 1 ELSE 0)
          /\ Refers(a, j) = (IF cwd[p] = j THEN 1 ELSE 0)
          /\ Refers(b, j) = (IF i = j THEN 1 ELSE 0)
      BY <1>1, <1>2, <2>a, <2>b DEF Refers
    <3>3. OfCwd(p, j) = IF cwd[p] = j THEN 1 ELSE 0
      <4>1. \A x \in Steps(p) : x = h
        <5>1. todo[p] \in Seq(StepType) /\ todo[p][1] = h /\ DOMAIN todo[p] = {1}
          BY <1>1, <1>2 DEF TypeOK
        <5> QED
          BY <5>1 DEF Steps
      <4> QED
        BY <1>2, <4>1 DEF OfCwd
    <3>4. OfCwd(p, j)' = 0
      <4>1. todo'[p][2] = b /\ 2 \in DOMAIN todo'[p]
        <5>1. /\ todo' \in [Procs -> Seq(StepType)]
              /\ \A k \in 1 .. Len(s) : todo'[p][k] = s[k]
              /\ Len(todo'[p]) = Len(s) + Len(todo[p]) - 1
          <6>1. TypeOK
            OBVIOUS
          <6> QED
            BY ONLY <1>1, <2>1, <6>1, p \in Procs, Turned
        <5>2. todo'[p][2] = b /\ Len(todo'[p]) = 2
          BY ONLY <1>2, <2>1, <5>1
        <5> QED
          BY <5>1, <5>2
      <4>2. b \in Steps(p)'
        BY <4>1 DEF Steps
      <4> QED
        BY <2>b, <4>2 DEF OfCwd
    <3> HIDE DEF h, i
    <3> QED
      BY <3>1, <3>2, <3>3, <3>4
  <2>5. cwd' \in [Procs -> Inums] /\ \A q \in Procs \ {p} : cwd'[q] = cwd[q]
    BY <1>1 DEF TypeOK
  <2>6. Moving(p, s)
    BY <1>1, <1>2, <1>3, <2>1, <2>3, <2>4, <2>5 DEF Moving
  <2> QED
    BY <2>1, <2>6, Moves
<1> QED
  BY <1>1, <1>4, <1>5

\* The new directory takes the place of the old one.
LEMMA SetCwdKept ==
  ASSUME FsInv, NEW p \in Procs, SetCwd(p)
  PROVE  FsInv'
<1> USE DEF FsInv
<1> DEFINE h == Head(todo[p])
<1>1. /\ todo[p] # <<>> /\ h.do = "setcwd" /\ cwd' = [cwd EXCEPT ![p] = h.ino]
      /\ Then(p, <<>>) /\ UNCHANGED <<disk, ents, ref, valid, mem, lock, fd, call, path>>
  BY DEF SetCwd, At, diskVars, memVars, Ino
<1>2. /\ h \in StepType /\ h \in Steps(p) /\ Len(todo[p]) = 1 /\ h.dir = NoIno
      /\ h.ino \in Inums /\ NoIno \notin Inums /\ HeldFor(h) = NoIno
  BY <1>1, AtHead, FileSysAssumption DEF StepFits, StepType, HeldFor, Passing, NoIno
<1> DEFINE s == <<>>
<1>3. Then(p, s) /\ s \in Seq(StepType) /\ 1 .. Len(s) = {}
  BY <1>1
<1>4. \A j \in Inums : Weight(s, j) = 0
  BY NoWeight
<1> HIDE DEF s
<1>5. ASSUME NEW j \in Inums
      PROVE  Refers(h, j) + OfCwd(p, j) = Weight(s, j) + OfCwd(p, j)'
  <2>1. Refers(h, j) = IF h.ino = j THEN 1 ELSE 0
    BY <1>1, <1>2 DEF Refers
  <2>2. OfCwd(p, j) = 0
    BY <1>1, <1>2 DEF OfCwd
  <2>3. OfCwd(p, j)' = IF h.ino = j THEN 1 ELSE 0
    <3>1. cwd'[p] = h.ino
      BY <1>1 DEF TypeOK
    <3>2. Steps(p)' = {}
      BY <1>1, <1>2, <1>3, Turned
    <3> QED
      BY <3>1, <3>2 DEF OfCwd
  <2> HIDE DEF h
  <2> QED
    BY <1>4, <2>1, <2>2, <2>3
<1>6. cwd' \in [Procs -> Inums] /\ \A q \in Procs \ {p} : cwd'[q] = cwd[q]
  BY <1>1, <1>2 DEF TypeOK
<1>7. InodesSame
  BY <1>1 DEF InodesSame, TypeOK, CacheFits
<1>8. Moving(p, s)
  BY <1>1, <1>2, <1>3, <1>5, <1>6, <1>7 DEF Moving
<1> QED
  BY <1>3, <1>8, Moves

-----------------------------------------------------------------------------
(* iput()                                                                   *)

\* The directories and files that a step has found are inodes.
LEMMA KnownIs ==
  ASSUME TypeOK, TodoFits, NEW p \in Procs, NEW x \in Steps(p)
  PROVE  x \in StepType /\ StepFits(p, x) /\ \A i \in Known(x) : i \in Inums
<1>1. PICK k \in DOMAIN todo[p] : x = todo[p][k]
  BY DEF Steps
<1>2. x \in StepType /\ StepFits(p, x)
  BY <1>1 DEF TypeOK, TodoFits
<1> QED
  BY <1>2 DEF Known, KnownDirs, KnownFiles, StepFits, StepType, Passing

\* What steps have found stays of its type, also when an inode is allocated; s frees none.
LEMMA TypesTurned ==
  ASSUME TypeOK, TodoFits, LocksReleased, TypesKept, NEW p \in Procs,
         NEW s \in Seq(StepType), todo[p] # <<>>, Then(p, s),
         \A i \in Inums : disk[i].type # "free" => disk'[i].type = disk[i].type,
         \A k \in 1 .. Len(s) :
           /\ s[k].do # "free"
           /\ \A i \in KnownDirs(s[k]) : disk[i].type = "dir"
           /\ \A i \in KnownFiles(s[k]) : disk[i].type = "file"
           /\ \A i \in Known(s[k]) : i \in Inums /\ (Unlocked(i) \/ i \in Known(Head(todo[p])))
  PROVE  TypesKept'
<1>1. ASSUME NEW q \in Procs, NEW x \in Steps(q)'
      PROVE  x \in Steps(q) \/ (q = p /\ \E k \in 1 .. Len(s) : x = s[k])
  BY Turned
<1>2. Head(todo[p]) \in Steps(p)
  BY AtHead
<1> SUFFICES ASSUME NEW q \in Procs, NEW x \in Steps(q)'
             PROVE  /\ \A i \in KnownDirs(x) : disk'[i].type = "dir"
                    /\ \A i \in KnownFiles(x) : disk'[i].type = "file"
                    /\ x.do = "free" =>
                         \A y \in Procs : \A t \in Steps(y)' : x.ino \notin Known(t)
  BY DEF TypesKept, Known
<1>3. CASE \E k \in 1 .. Len(s) : x = s[k]
  BY <1>3 DEF Known
<1>4. CASE x \in Steps(q)
  <2>1. /\ \A i \in KnownDirs(x) : i \in Inums /\ disk[i].type = "dir"
        /\ \A i \in KnownFiles(x) : i \in Inums /\ disk[i].type = "file"
    BY <1>4, KnownIs DEF TypesKept, Known
  <2>2. ASSUME x.do = "free", NEW y \in Procs, NEW t \in Steps(y)', x.ino \in Known(t)
        PROVE  FALSE
    <3>1. \A z \in Procs : \A u \in Steps(z) : x.ino \notin Known(u)
      BY <1>4, <2>2 DEF TypesKept, Known
    <3>2. PICK k \in 1 .. Len(s) : t = s[k]
      BY <1>1, <2>2, <3>1
    <3>3. x.ino \in Inums /\ Unlocked(x.ino)
      BY <1>2, <2>2, <3>1, <3>2
    <3>4. HeldFor(x) = x.ino /\ x.ino # NoIno
      BY <2>2, <3>3, FileSysAssumption DEF HeldFor, NoIno
    <3> QED
      BY <1>4, <3>3, <3>4, StepLocks DEF Unlocked
  <2> QED
    BY <2>1, <2>2
<1> QED
  BY <1>1, <1>3, <1>4

\* Nobody else erases a name in a directory that is not locked, or that p has locked.
LEMMA OthersErase ==
  ASSUME TypeOK, LocksReleased, NEW p \in Procs, NEW d \in Inums,
         Unlocked(d) \/ lock[d] = p,
         NEW q \in Procs \ {p}, NEW x \in Steps(q), x.do = "erase"
  PROVE  x.dir # d
<1>1. HeldFor(x) = x.dir
  BY DEF HeldFor
<1>2. d # NoIno
  BY FileSysAssumption DEF NoIno
<1> QED
  BY <1>1, <1>2, StepLocks DEF Unlocked

\* The names in inodes after a step of p that does not begin to erase one.
LEMMA EntsTurned ==
  ASSUME TypeOK, EntsFit, NEW p \in Procs, NEW s \in Seq(StepType), todo[p] # <<>>, Then(p, s),
         \A q \in Procs \ {p} : path'[q] = path[q], Len(todo[p]) = 1 \/ path'[p] = path[p],
         \A k \in 1 .. Len(s) : s[k].do # "erase",
         \A i \in Inums : disk'[i].type # "dir" => \A nm \in Names : ents'[i][nm] = NoIno,
         \A q \in Procs : \A x \in Steps(q) :
           x.do = "erase" => (q = p /\ Len(todo[p]) = 1) \/ ents'[x.dir] = ents[x.dir]
  PROVE  EntsFit'
<1> SUFFICES ASSUME NEW q \in Procs, NEW x \in Steps(q)', x.do = "erase"
             PROVE  Removable(Name(q))' /\ ents'[x.dir][Name(q)'] = x.ino
  BY DEF EntsFit
<1>1. x \in Steps(q) /\ ~(q = p /\ Len(todo[p]) = 1)
  BY Turned
<1>2. path'[q] = path[q] /\ ents'[x.dir] = ents[x.dir]
  BY <1>1
<1> QED
  BY <1>1, <1>2 DEF EntsFit, Removable, Name

\* The test of iput().
LEMMA PutTestKept ==
  ASSUME FsInv, NEW p \in Procs, PutTest(p)
  PROVE  FsInv'
<1> USE DEF FsInv
<1> DEFINE h == Head(todo[p])
           i == Ino(p)
<1>1. /\ todo[p] # <<>> /\ h.do = "put" /\ Unlocked(i) /\ h.ino = i
      /\ UNCHANGED <<disk, ents, ref, valid, mem, cwd, fd, call, path>>
  BY DEF PutTest, At, diskVars, memVars, userVars, Ino
<1>2. /\ h \in StepType /\ h \in Steps(p) /\ i \in Inums /\ i # NoIno /\ h.dir = NoIno
      /\ NoIno \notin Inums /\ HeldFor(h) = NoIno
  BY <1>1, AtHead, FileSysAssumption DEF StepFits, StepType, HeldFor, Passing, NoIno
<1>3. /\ disk' \in [Inums -> InodeType] /\ mem' \in [Inums -> InodeType]
      /\ ents' \in [Inums -> [AllNames -> Inums \cup {NoIno}]]
      /\ ref' \in [Inums -> Int] /\ valid' \in [Inums -> BOOLEAN] /\ OnlyOf(p) /\ CacheFits'
  BY <1>1 DEF TypeOK, OnlyOf, CacheFits
<1>4. CASE LastRef(i) /\ Then(p, <<Step("free", i, NoIno)>>) /\ lock' = [lock EXCEPT ![i] = p]
  <2>a. PICK a \in StepType :
          a = Step("free", i, NoIno) /\ a.do = "free" /\ a.ino = i /\ a.dir = NoIno
    <3>1. "free" \in StepNames /\ i \in Inums \cup {NoIno} /\ NoIno \in Inums \cup {NoIno}
      BY <1>2 DEF StepNames
    <3> QED
      BY <3>1, StepIs
  <2> DEFINE s == <<a>>
  <2>1. Then(p, s) /\ s \in Seq(StepType) /\ Len(s) = 1 /\ s[1] = a
    BY <1>4, <2>a
  <2> HIDE DEF s
  <2>2. /\ StepFits(p, a)' /\ KnownDirs(a) = {} /\ KnownFiles(a) = {} /\ Known(a) = {}
        /\ HeldFor(a) = i /\ a.do \in Passing
    BY <1>2, <2>a DEF StepFits, Known, KnownDirs, KnownFiles, HeldFor, Passing
  <2>3. LocksRight
    <3>1. \A j \in Inums :
            lock'[j] = IF \E k \in 1 .. Len(s) : HeldFor(s[k]) = j THEN p
                       ELSE IF HeldFor(h) = j THEN NoProc ELSE lock[j]
      <4>1. 1 \in 1 .. Len(s) /\ \A k \in 1 .. Len(s) : HeldFor(s[k]) = i
        BY <2>1, <2>2
      <4> QED
        BY <1>2, <1>4, <4>1 DEF TypeOK
    <3>2. /\ \A k, l \in 1 .. Len(s) :
               k # l /\ HeldFor(s[k]) # NoIno => HeldFor(s[k]) # HeldFor(s[l])
          /\ \A k \in 1 .. Len(s) :
               HeldFor(s[k]) = NoIno \/ HeldFor(s[k]) = HeldFor(h)
                 \/ lock[HeldFor(s[k])] = NoProc
      BY <1>1, <2>1, <2>2 DEF Unlocked
    <3>3. lock' \in [Inums -> Procs \cup {NoProc}]
      BY <1>4 DEF TypeOK
    <3> QED
      BY <1>1, <2>1, <3>1, <3>2, <3>3, LocksKept DEF LocksRight
  <2>4. Counted(p, s)
    <3> SUFFICES ASSUME NEW j \in Inums
                 PROVE  ref'[j] + Refers(h, j) + OfFd(p, j)
                          = ref[j] + Weight(s, j) + OfFd(p, j)'
      BY DEF Counted
    <3>1. Weight(s, j) = Refers(a, j) /\ OfFd(p, j)' = OfFd(p, j) /\ ref'[j] = ref[j]
      BY <1>1, WeightOne DEF s, OfFd
    <3>2. Refers(a, j) = Refers(h, j)
      BY <1>1, <1>2, <2>a DEF Refers
    <3> QED
      BY <3>1, <3>2
  <2>5. \A k \in 1 .. Len(s) : s[k].do \in Passing /\ s[k].do # "setcwd" /\ StepFits(p, s[k])'
    BY <2>1, <2>2, <2>a
  <2>6. TypeOK' /\ TodoFits' /\ HeldOnce' /\ LocksReleased' /\ RefsCounted'
    <3>1. Fitting(p, s)
      BY <2>5 DEF Fitting
    <3> QED
      BY <1>1, <1>3, <2>1, <2>3, <2>4, <2>5, <3>1, Turn
  <2>7. ASSUME NEW q \in Procs, NEW x \in Steps(q)'
        PROVE  x \in Steps(q) \/ x = a
    BY <1>1, <2>1, Turned
  <2>8. TypesKept'
    <3>1. \A q \in Procs : \A t \in Steps(q) : i \notin Known(t)
      BY <1>1, <1>2, <1>4, Alone DEF LastRef, Known
    <3> SUFFICES ASSUME NEW q \in Procs, NEW x \in Steps(q)'
                 PROVE  /\ \A j \in KnownDirs(x) : disk'[j].type = "dir"
                        /\ \A j \in KnownFiles(x) : disk'[j].type = "file"
                        /\ x.do = "free" =>
                             \A y \in Procs : \A t \in Steps(y)' : x.ino \notin Known(t)
      BY DEF TypesKept, Known
    <3>2. CASE x \in Steps(q)
      BY <1>1, <2>2, <2>7, <3>2 DEF TypesKept, Known
    <3>3. CASE x = a
      BY <2>2, <2>7, <2>a, <3>1, <3>3
    <3> QED
      BY <2>7, <3>2, <3>3
  <2>9. EntsFit'
    <3>1. \A k \in 1 .. Len(s) : s[k].do # "erase"
      BY <2>1, <2>a
    <3>2. \A j \in Inums : disk'[j].type # "dir" => \A nm \in Names : ents'[j][nm] = NoIno
      BY <1>1 DEF EntsFit
    <3> QED
      BY <1>1, <2>1, <3>1, <3>2, EntsTurned
  <2>10. NoLoop'
    <3>1. ASSUME NEW d \in Inums, NEW j \in Inums, Under(d, j)' PROVE Under(d, j)
      BY <1>1, <2>7, <2>a, <3>1 DEF Under
    <3> QED
      BY <3>1, LoopFree
  <2> QED
    BY <1>3, <2>6, <2>8, <2>9, <2>10
<1>5. CASE Then(p, <<Step("drop", i, NoIno)>>) /\ lock' = lock
  <2>a. PICK a \in StepType :
          a = Step("drop", i, NoIno) /\ a.do = "drop" /\ a.ino = i /\ a.dir = NoIno
    <3>1. "drop" \in StepNames /\ i \in Inums \cup {NoIno} /\ NoIno \in Inums \cup {NoIno}
      BY <1>2 DEF StepNames
    <3> QED
      BY <3>1, StepIs
  <2> DEFINE s == <<a>>
  <2>1. Then(p, s) /\ s \in Seq(StepType) /\ Len(s) = 1 /\ s[1] = a
    BY <1>5, <2>a
  <2> HIDE DEF s
  <2>2. /\ StepFits(p, a)' /\ KnownDirs(a) = {} /\ KnownFiles(a) = {} /\ Known(a) = {}
        /\ HeldFor(a) = NoIno /\ a.do \in Passing
    BY <1>2, <2>a DEF StepFits, Known, KnownDirs, KnownFiles, HeldFor, Passing
  <2>3. LocksRight
    <3>1. lock' = Released(h) /\ \A k \in 1 .. Len(s) : HeldFor(s[k]) = NoIno
      BY <1>2, <1>5, <2>1, <2>2 DEF Released
    <3> QED
      BY <1>1, <2>1, <3>1, LocksFreed DEF LocksRight
  <2>4. Counted(p, s)
    <3> SUFFICES ASSUME NEW j \in Inums
                 PROVE  ref'[j] + Refers(h, j) + OfFd(p, j)
                          = ref[j] + Weight(s, j) + OfFd(p, j)'
      BY DEF Counted
    <3>1. Weight(s, j) = Refers(a, j) /\ OfFd(p, j)' = OfFd(p, j) /\ ref'[j] = ref[j]
      BY <1>1, WeightOne DEF s, OfFd
    <3>2. Refers(a, j) = Refers(h, j)
      BY <1>1, <1>2, <2>a DEF Refers
    <3> QED
      BY <3>1, <3>2
  <2>5. \A k \in 1 .. Len(s) :
          s[k].do \in Passing /\ s[k].do \notin {"setcwd", "fill", "free", "erase"}
            /\ StepFits(p, s[k])' /\ Known(s[k]) = {}
    BY <2>1, <2>2, <2>a
  <2>6. TypeOK' /\ TodoFits' /\ HeldOnce' /\ LocksReleased' /\ RefsCounted'
    <3>1. Fitting(p, s)
      BY <2>5 DEF Fitting
    <3> QED
      BY <1>1, <1>3, <2>1, <2>3, <2>4, <2>5, <3>1, Turn
  <2>7. TypesKept' /\ EntsFit' /\ NoLoop'
    <3>1. \A k \in 1 .. Len(s) :
            /\ s[k].do \notin {"fill", "free", "erase"}
            /\ \A j \in KnownDirs(s[k]) : disk[j].type = "dir"
            /\ \A j \in KnownFiles(s[k]) : disk[j].type = "file"
            /\ \A j \in Known(s[k]) : j \in Inums /\ (Unlocked(j) \/ j \in Known(Head(todo[p])))
      BY <2>5 DEF Known
    <3> QED
      BY <1>1, <2>1, <3>1, TreeKept
  <2> QED
    BY <1>3, <2>6, <2>7
<1> QED
  BY <1>4, <1>5 DEF PutTest

\* The inode is freed.
LEMMA PutFreeKept ==
  ASSUME FsInv, NEW p \in Procs, PutFree(p)
  PROVE  FsInv'
<1> USE DEF FsInv
<1> DEFINE h == Head(todo[p])
           i == Ino(p)
           new == [mem[i] EXCEPT !.type = "free"]
<1>1. /\ todo[p] # <<>> /\ h.do = "free" /\ h.ino = i
      /\ Update(i, new) /\ ents' = [ents EXCEPT ![i] = NoEnts]
      /\ valid' = FreedValid(i) /\ lock' = [lock EXCEPT ![i] = NoProc]
      /\ Then(p, <<Step("drop", i, NoIno)>>)
      /\ UNCHANGED <<ref, cwd, fd, call, path>>
  BY DEF PutFree, At, userVars, Ino
<1>2. /\ h \in StepType /\ h \in Steps(p) /\ i \in Inums /\ i # NoIno /\ h.dir = NoIno
      /\ NoIno \notin Inums /\ HeldFor(h) = i
  BY <1>1, AtHead, FileSysAssumption DEF StepFits, StepType, HeldFor, Passing, NoIno
<1>3. new \in InodeType /\ new.type = "free"
  <2>1. mem[i] \in InodeType
    BY <1>2 DEF TypeOK
  <2> QED
    BY <2>1 DEF InodeType
<1>4. NoEnts \in [AllNames -> Inums \cup {NoIno}] /\ \A nm \in Names : NoEnts[nm] = NoIno
  BY DEF NoEnts, AllNames
<1>5. /\ disk' \in [Inums -> InodeType] /\ mem' \in [Inums -> InodeType]
      /\ disk'[i] = new /\ \A j \in Inums \ {i} : disk'[j] = disk[j] /\ mem'[j] = mem[j]
  BY <1>1, <1>2, <1>3 DEF Update, TypeOK
<1>6. /\ ents' \in [Inums -> [AllNames -> Inums \cup {NoIno}]]
      /\ ents'[i] = NoEnts /\ \A j \in Inums \ {i} : ents'[j] = ents[j]
  BY <1>1, <1>2, <1>4 DEF TypeOK
<1>7. /\ ref' \in [Inums -> Int] /\ valid' \in [Inums -> BOOLEAN] /\ valid'[i] = FALSE
      /\ \A j \in Inums \ {i} : valid'[j] = valid[j]
  BY <1>1, <1>2 DEF TypeOK, FreedValid
<1>8. CacheFits'
  BY <1>1, <1>5, <1>7 DEF CacheFits
<1>a. PICK a \in StepType :
        a = Step("drop", i, NoIno) /\ a.do = "drop" /\ a.ino = i /\ a.dir = NoIno
  <2>1. "drop" \in StepNames /\ i \in Inums \cup {NoIno} /\ NoIno \in Inums \cup {NoIno}
    BY <1>2 DEF StepNames
  <2> QED
    BY <2>1, StepIs
<1>b. /\ todo[p] # <<>> /\ h.do = "free" /\ lock' = [lock EXCEPT ![i] = NoProc]
      /\ UNCHANGED <<ref, cwd, fd, call, path>>
  BY <1>1
<1> DEFINE s == <<a>>
<1>9. Then(p, s) /\ s \in Seq(StepType) /\ Len(s) = 1 /\ s[1] = a
  BY <1>1, <1>a
<1> HIDE DEF s, new
<1>10. /\ StepFits(p, a)' /\ KnownDirs(a) = {} /\ KnownFiles(a) = {} /\ Known(a) = {}
       /\ HeldFor(a) = NoIno /\ a.do \in Passing
  BY <1>2, <1>a DEF StepFits, Known, KnownDirs, KnownFiles, HeldFor, Passing
<1>11. LocksRight
  <2>1. \A k \in 1 .. Len(s) : HeldFor(s[k]) = NoIno
    BY <1>9, <1>10
  <2>2. lock' = Released(h)
    BY <1>b, <1>2 DEF Released
  <2> QED
    BY <1>b, <1>9, <2>1, <2>2, LocksFreed DEF LocksRight
<1>12. Counted(p, s)
  <2> SUFFICES ASSUME NEW j \in Inums
               PROVE  ref'[j] + Refers(h, j) + OfFd(p, j)
                        = ref[j] + Weight(s, j) + OfFd(p, j)'
    BY DEF Counted
  <2>1. Weight(s, j) = Refers(a, j) /\ OfFd(p, j)' = OfFd(p, j) /\ ref'[j] = ref[j]
    BY <1>1, WeightOne DEF s, OfFd
  <2>2. Refers(a, j) = Refers(h, j)
    BY <1>1, <1>2, <1>a DEF Refers
  <2> QED
    BY <2>1, <2>2
<1>13. \A k \in 1 .. Len(s) :
         s[k].do \in Passing /\ s[k].do \notin {"setcwd", "fill", "free", "erase"}
           /\ StepFits(p, s[k])' /\ Known(s[k]) = {}
  BY <1>9, <1>10, <1>a
<1>14. TypeOK' /\ TodoFits' /\ HeldOnce' /\ LocksReleased' /\ RefsCounted'
  <2>1. Fitting(p, s)
    BY <1>13 DEF Fitting
  <2>2. OnlyOf(p)
    BY <1>1 DEF OnlyOf, TypeOK
  <2> QED
    BY <1>1, <1>5, <1>6, <1>7, <1>9, <1>11, <1>12, <1>13, <2>1, <2>2, Turn
<1>15. ASSUME NEW q \in Procs, NEW x \in Steps(q)'
       PROVE  x \in Steps(q) \/ x = a
  <2>1. /\ \A y \in Steps(p)' : (\E k \in 1 .. Len(s) : y = s[k]) \/ y \in Steps(p)
        /\ \A y \in Procs \ {p} : Steps(y)' = Steps(y)
    BY <1>b, <1>9, Turned
  <2>2. \A k \in 1 .. Len(s) : s[k] = a
    BY <1>9
  <2> QED
    BY <2>1, <2>2
<1>16. \A q \in Procs : \A t \in Steps(q) : i \notin Known(t)
  BY <1>1, <1>2 DEF TypesKept, Known
<1>17. TypesKept'
  <2> SUFFICES ASSUME NEW q \in Procs, NEW x \in Steps(q)'
               PROVE  /\ \A j \in KnownDirs(x) : disk'[j].type = "dir"
                      /\ \A j \in KnownFiles(x) : disk'[j].type = "file"
                      /\ x.do = "free" =>
                           \A y \in Procs : \A t \in Steps(y)' : x.ino \notin Known(t)
    BY DEF TypesKept, Known
  <2>1. CASE x \in Steps(q)
    <3>1. \A j \in Known(x) : j \in Inums \ {i}
      BY <1>16, <2>1, KnownIs
    <3>2. /\ \A j \in KnownDirs(x) : disk'[j].type = "dir"
          /\ \A j \in KnownFiles(x) : disk'[j].type = "file"
      BY <1>5, <2>1, <3>1 DEF TypesKept, Known
    <3>3. x.do = "free" => \A y \in Procs : \A t \in Steps(y) : x.ino \notin Known(t)
      BY <2>1 DEF TypesKept, Known
    <3> QED
      BY <1>10, <1>15, <3>2, <3>3
  <2>2. CASE x = a
    BY <1>10, <1>a, <2>2
  <2> QED
    BY <1>15, <2>1, <2>2
<1>18. EntsFit'
  <2>1. \A k \in 1 .. Len(s) : s[k].do # "erase"
    BY <1>13
  <2>2. \A j \in Inums : disk'[j].type # "dir" => \A nm \in Names : ents'[j][nm] = NoIno
    BY <1>4, <1>5, <1>6 DEF EntsFit
  <2>3. ASSUME NEW q \in Procs, NEW x \in Steps(q), x.do = "erase"
        PROVE  ents'[x.dir] = ents[x.dir]
    <3>1. x.dir \in Known(x)
      BY <2>3 DEF Known, KnownDirs
    <3>2. x.dir \in Inums \ {i}
      BY <1>16, <3>1, KnownIs
    <3> QED
      BY <1>6, <3>2
  <2> QED
    BY <1>1, <1>9, <2>1, <2>2, <2>3, EntsTurned
<1>19. NoLoop'
  <2>1. ASSUME NEW d \in Inums, NEW j \in Inums, Under(d, j)' PROVE Under(d, j)
    <3>1. CASE \E nm \in Names : ents'[d][nm] = j
      BY <1>2, <1>4, <1>6, <3>1 DEF Under
    <3>2. CASE \E q \in Procs : \E x \in Steps(q)' : x.do = "fill" /\ x.dir = d /\ x.ino = j
      BY <1>15, <1>a, <3>2 DEF Under
    <3> QED
      BY <2>1, <3>1, <3>2 DEF Under
  <2> QED
    BY <2>1, LoopFree
<1> QED
  BY <1>8, <1>14, <1>17, <1>18, <1>19

-----------------------------------------------------------------------------
(* unlink() and link() in a directory                                       *)

\* A step that takes the lock of one inode and is about to release no other.
LEMMA LockTaken ==
  ASSUME TypeOK, HeldOnce, LocksReleased, NEW p \in Procs, NEW s \in Seq(StepType),
         todo[p] # <<>>, Then(p, s), NEW i \in Inums, NEW m \in 1 .. Len(s), Unlocked(i),
         HeldFor(s[m]) = i, \A k \in 1 .. Len(s) : k # m => HeldFor(s[k]) = NoIno,
         \A j \in Inums :
           lock'[j] = IF j = i THEN p
                      ELSE IF HeldFor(Head(todo[p])) = j THEN NoProc ELSE lock[j],
         lock' \in [Inums -> Procs \cup {NoProc}]
  PROVE  LocksRight
<1>1. i # NoIno
  BY FileSysAssumption DEF NoIno
<1>2. \A k, l \in 1 .. Len(s) :
        k # l /\ HeldFor(s[k]) # NoIno => HeldFor(s[k]) # HeldFor(s[l])
  BY <1>1
<1>3. \A k \in 1 .. Len(s) :
        HeldFor(s[k]) = NoIno \/ HeldFor(s[k]) = HeldFor(Head(todo[p]))
          \/ lock[HeldFor(s[k])] = NoProc
  BY DEF Unlocked
<1>4. \A j \in Inums : (\E k \in 1 .. Len(s) : HeldFor(s[k]) = j) <=> j = i
  BY FileSysAssumption DEF NoIno
<1>5. \A j \in Inums :
        lock'[j] = IF \E k \in 1 .. Len(s) : HeldFor(s[k]) = j THEN p
                   ELSE IF HeldFor(Head(todo[p])) = j THEN NoProc ELSE lock[j]
  BY <1>4
<1> QED
  BY <1>2, <1>3, <1>5, LocksKept DEF LocksRight

\* unlink() has found the name and keeps the directory locked.
LEMMA UnlinkKept ==
  ASSUME FsInv, NEW p \in Procs, Unlink(p)
  PROVE  FsInv'
<1> USE DEF FsInv
<1> DEFINE h == Head(todo[p])
           d == Dir(p)
           kid == ents[d][Name(p)]
<1>1. /\ todo[p] # <<>> /\ h.do = "unlink" /\ Unlocked(d) /\ ~NoType(d)
      /\ Removable(Name(p)) /\ kid # NoIno /\ mem' = Loaded(d) /\ ref' = IgetRef(ref, kid)
      /\ valid' = NowValid(IgetValid(kid), d) /\ lock' = [lock EXCEPT ![d] = p]
      /\ Then(p, <<Step("erase", kid, d)>>)
      /\ UNCHANGED <<disk, ents, cwd, fd, call, path>>
  BY DEF Unlink, At, diskVars, userVars
<1>2. /\ h \in StepType /\ h \in Steps(p) /\ Len(todo[p]) = 1 /\ h.dir = d /\ d \in Inums
      /\ d # NoIno /\ ref[d] >= 1 /\ NoIno \notin Inums /\ kid \in Inums
      /\ disk[d].type = "dir" /\ path[p] # <<>>
  <2>1. /\ h \in StepType /\ h \in Steps(p) /\ Len(todo[p]) = 1 /\ h.dir = d /\ d \in Inums
        /\ d # NoIno /\ ref[d] >= 1 /\ Name(p) \in AllNames /\ disk[d].type = "dir"
        /\ ents[d] \in [AllNames -> Inums \cup {NoIno}] /\ path[p] # <<>>
    BY <1>1, InDir
  <2>2. kid \in Inums
    BY <1>1, <2>1
  <2> QED
    BY <2>1, <2>2, FileSysAssumption DEF NoIno
<1>3. h.ino = NoIno /\ HeldFor(h) = NoIno
  BY <1>1, AtHead DEF StepFits, Passing, HeldFor
<1>4. InodesSame
  <2>1. \E k \in Inums : ref' = IgetRef(ref, k) /\ valid' = NowValid(IgetValid(k), d)
    BY <1>1, <1>2
  <2> QED
    BY <1>1, <1>2, <2>1, CacheLoaded
<1>a. PICK a \in StepType :
        a = Step("erase", kid, d) /\ a.do = "erase" /\ a.ino = kid /\ a.dir = d
  <2>1. "erase" \in StepNames /\ kid \in Inums \cup {NoIno} /\ d \in Inums \cup {NoIno}
    BY <1>2 DEF StepNames
  <2> QED
    BY <2>1, StepIs
<1> DEFINE s == <<a>>
<1>5. Then(p, s) /\ s \in Seq(StepType) /\ Len(s) = 1 /\ s[1] = a
  BY <1>1, <1>a
<1> HIDE DEF s
<1>6. /\ StepFits(p, a)' /\ KnownDirs(a) = {d} /\ KnownFiles(a) = {} /\ Known(a) = {d}
      /\ HeldFor(a) = d
  BY <1>1, <1>2, <1>a DEF StepFits, KnownDirs, KnownFiles, Known, Passing, HeldFor
<1>7. LocksRight
  <2>1. /\ lock' \in [Inums -> Procs \cup {NoProc}]
        /\ \A j \in Inums :
             lock'[j] = IF j = d THEN p
                        ELSE IF HeldFor(Head(todo[p])) = j THEN NoProc ELSE lock[j]
    BY <1>1, <1>2, <1>3 DEF TypeOK
  <2>2. 1 \in 1 .. Len(s) /\ HeldFor(s[1]) = d /\ \A k \in 1 .. Len(s) : k = 1
    BY <1>5, <1>6
  <2> QED
    BY <1>1, <1>2, <1>5, <2>1, <2>2, LockTaken
<1>8. Counted(p, s)
  <2> SUFFICES ASSUME NEW j \in Inums
               PROVE  ref'[j] + Refers(h, j) + OfFd(p, j)
                        = ref[j] + Weight(s, j) + OfFd(p, j)'
    BY DEF Counted
  <2>1. Weight(s, j) = Refers(a, j) /\ OfFd(p, j)' = OfFd(p, j)
    BY <1>1, WeightOne DEF s, OfFd
  <2>2. /\ ref'[j] = IF j = kid THEN ref[j] + 1 ELSE ref[j]
        /\ Refers(a, j) = (IF kid = j THEN 1 ELSE 0) + (IF d = j THEN 1 ELSE 0)
        /\ Refers(h, j) = (IF d = j THEN 1 ELSE 0)
    BY <1>1, <1>2, <1>3, <1>a DEF Refers, IgetRef, TypeOK
  <2>3. ref[j] \in Int /\ OfFd(p, j) \in Int
    BY DEF TypeOK, OfFd
  <2> HIDE DEF h, d, kid
  <2> QED
    BY <2>1, <2>2, <2>3
<1>9. \A k \in 1 .. Len(s) : s[k] = a /\ k = Len(s)
  BY <1>5
<1>10. OnlyOf(p)
  BY <1>1 DEF TypeOK, OnlyOf
<1>11. TypeOK' /\ TodoFits' /\ HeldOnce' /\ LocksReleased' /\ RefsCounted'
  <2>1. Fitting(p, s) /\ \A k \in 1 .. Len(s) : s[k].do # "setcwd"
    BY <1>6, <1>9, <1>a DEF Fitting
  <2>2. ents' \in [Inums -> [AllNames -> Inums \cup {NoIno}]]
    BY <1>1 DEF TypeOK
  <2> QED
    BY <1>1, <1>2, <1>4, <1>5, <1>7, <1>8, <1>10, <2>1, <2>2, Turn DEF InodesSame
<1>12. TypesKept'
  <2>1. \A k \in 1 .. Len(s) :
          /\ s[k].do # "free"
          /\ \A i \in KnownDirs(s[k]) : disk[i].type = "dir"
          /\ \A i \in KnownFiles(s[k]) : disk[i].type = "file"
          /\ \A i \in Known(s[k]) : i \in Inums /\ (Unlocked(i) \/ i \in Known(Head(todo[p])))
    BY <1>1, <1>2, <1>6, <1>9, <1>a
  <2>2. \A i \in Inums : disk[i].type # "free" => disk'[i].type = disk[i].type
    BY <1>1
  <2> QED
    BY <1>1, <1>5, <2>1, <2>2, TypesTurned
<1>13. ASSUME NEW q \in Procs, NEW x \in Steps(q)'
       PROVE  x \in Steps(q) \/ (q = p /\ x = a)
  <2>1. /\ \A y \in Steps(p)' : (\E k \in 1 .. Len(s) : y = s[k]) \/ y \in Steps(p)
        /\ \A y \in Procs \ {p} : Steps(y)' = Steps(y)
    BY <1>1, <1>5, Turned
  <2> QED
    BY <1>9, <2>1
<1>14. EntsFit'
  <2>1. ASSUME NEW q \in Procs, NEW x \in Steps(q)', x.do = "erase"
        PROVE  Removable(Name(q))' /\ ents'[x.dir][Name(q)'] = x.ino
    <3>1. Name(q)' = Name(q) /\ Removable(Name(q))' = Removable(Name(q))
      BY <1>1 DEF Name, Removable
    <3>2. CASE x \in Steps(q)
      BY <1>1, <2>1, <3>1, <3>2 DEF EntsFit
    <3>3. CASE q = p /\ x = a
      BY <1>1, <1>a, <3>1, <3>3
    <3> QED
      BY <1>13, <3>2, <3>3
  <2>2. \A i \in Inums : disk'[i].type # "dir" => \A nm \in Names : ents'[i][nm] = NoIno
    BY <1>1 DEF EntsFit
  <2> QED
    BY <2>1, <2>2 DEF EntsFit
<1>15. NoLoop'
  <2>1. ASSUME NEW e \in Inums, NEW j \in Inums, Under(e, j)' PROVE Under(e, j)
    BY <1>1, <1>13, <1>a, <2>1 DEF Under
  <2> QED
    BY <2>1, LoopFree
<1> QED
  BY <1>4, <1>11, <1>12, <1>14, <1>15 DEF InodesSame

\* link() enters the new name.
LEMMA LinkAddKept ==
  ASSUME FsInv, NEW p \in Procs, LinkAdd(p)
  PROVE  FsInv'
<1> USE DEF FsInv
<1> DEFINE h == Head(todo[p])
           i == Ino(p)
           d == Dir(p)
<1>1. /\ todo[p] # <<>> /\ h.do = "linkadd" /\ h.ino = i /\ Unlocked(d) /\ ~NoType(d)
      /\ mem' = Loaded(d) /\ valid' = NowValid(valid, d)
      /\ ents' = [ents EXCEPT ![d][Name(p)] = i]
      /\ Then(p, <<ToPut(d), ToPut(i)>>)
      /\ UNCHANGED <<disk, ref, lock, cwd, fd, call, path>>
  BY DEF LinkAdd, At, userVars, Ino
<1>2. /\ h \in StepType /\ h \in Steps(p) /\ Len(todo[p]) = 1 /\ h.dir = d /\ d \in Inums
      /\ d # NoIno /\ ref[d] >= 1 /\ disk[d].type = "dir" /\ Name(p) \in AllNames
      /\ ents[d] \in [AllNames -> Inums \cup {NoIno}] /\ NoIno \notin Inums
  BY <1>1, InDir, FileSysAssumption DEF NoIno
<1>3. /\ i \in Inums /\ i # NoIno /\ disk[i].type = "file" /\ i # d /\ HeldFor(h) = NoIno
  <2>1. i \in Inums /\ i # NoIno /\ HeldFor(h) = NoIno
    BY <1>1, <1>2, AtHead DEF StepFits, Passing, HeldFor
  <2>2. disk[i].type = "file"
    BY <1>1, <1>2 DEF TypesKept, KnownFiles
  <2> QED
    BY <1>2, <2>1, <2>2
<1>4. InodesSame
  BY <1>1, <1>2, CacheLoaded
<1>5. /\ ents' \in [Inums -> [AllNames -> Inums \cup {NoIno}]]
      /\ ents'[d] = [ents[d] EXCEPT ![Name(p)] = i]
      /\ \A j \in Inums \ {d} : ents'[j] = ents[j]
  <2>1. [ents[d] EXCEPT ![Name(p)] = i] \in [AllNames -> Inums \cup {NoIno}]
    BY <1>2, <1>3
  <2>2. ents' = [ents EXCEPT ![d] = [ents[d] EXCEPT ![Name(p)] = i]]
    BY <1>1
  <2> QED
    BY <1>2, <2>1, <2>2 DEF TypeOK
<1>a. PICK a \in StepType : a = ToPut(d) /\ a.do = "put" /\ a.ino = d /\ a.dir = NoIno
  BY <1>2, PutIs
<1>b. PICK b \in StepType : b = ToPut(i) /\ b.do = "put" /\ b.ino = i /\ b.dir = NoIno
  BY <1>3, PutIs
<1>c. /\ todo[p] # <<>> /\ h.do = "linkadd" /\ Unlocked(d)
      /\ UNCHANGED <<disk, ref, lock, cwd, fd, call, path>>
  BY <1>1
<1> DEFINE s == <<a, b>>
<1>6. Then(p, s) /\ s \in Seq(StepType) /\ Len(s) = 2 /\ s[1] = a /\ s[2] = b
  BY <1>1, <1>a, <1>b
<1> HIDE DEF s
<1>7. \A k \in 1 .. Len(s) :
        /\ StepFits(p, s[k])' /\ Known(s[k]) = {} /\ HeldFor(s[k]) = NoIno
        /\ s[k].do \in Passing /\ s[k].do = "put"
  <2>1. /\ StepFits(p, a)' /\ Known(a) = {} /\ HeldFor(a) = NoIno
        /\ StepFits(p, b)' /\ Known(b) = {} /\ HeldFor(b) = NoIno
        /\ a.do \in Passing /\ b.do \in Passing
    BY <1>2, <1>3, <1>a, <1>b
    DEF StepFits, KnownDirs, KnownFiles, Known, Passing, HeldFor
  <2> QED
    BY <1>6, <1>a, <1>b, <2>1
<1>8. LocksRight
  <2>1. lock' = Released(h)
    BY <1>c, <1>3 DEF Released
  <2> QED
    BY <1>c, <1>6, <1>7, <2>1, LocksFreed DEF LocksRight
<1>9. Counted(p, s)
  <2> SUFFICES ASSUME NEW j \in Inums
               PROVE  ref'[j] + Refers(h, j) + OfFd(p, j)
                        = ref[j] + Weight(s, j) + OfFd(p, j)'
    BY DEF Counted
  <2>1. Weight(s, j) = Refers(a, j) + Refers(b, j) /\ OfFd(p, j)' = OfFd(p, j)
    BY <1>c, WeightTwo DEF s, OfFd
  <2>2. /\ ref'[j] = ref[j]
        /\ Refers(a, j) = (IF d = j THEN 1 ELSE 0)
        /\ Refers(b, j) = (IF i = j THEN 1 ELSE 0)
        /\ Refers(h, j) = (IF i = j THEN 1 ELSE 0) + (IF d = j THEN 1 ELSE 0)
    BY <1>1, <1>c, <1>2, <1>3, <1>a, <1>b DEF Refers
  <2>3. ref[j] \in Int /\ OfFd(p, j) \in Int
    BY DEF TypeOK, OfFd
  <2> HIDE DEF h, d, i
  <2> QED
    BY <2>1, <2>2, <2>3
<1>10. OnlyOf(p)
  BY <1>c DEF TypeOK, OnlyOf
<1>11. TypeOK' /\ TodoFits' /\ HeldOnce' /\ LocksReleased' /\ RefsCounted'
  <2>1. Fitting(p, s) /\ \A k \in 1 .. Len(s) : s[k].do # "setcwd"
    BY <1>7 DEF Fitting
  <2> QED
    BY <1>c, <1>2, <1>4, <1>5, <1>6, <1>8, <1>9, <1>10, <2>1, Turn DEF InodesSame
<1>12. TypesKept'
  <2>1. \A k \in 1 .. Len(s) :
          /\ s[k].do # "free"
          /\ \A j \in KnownDirs(s[k]) : disk[j].type = "dir"
          /\ \A j \in KnownFiles(s[k]) : disk[j].type = "file"
          /\ \A j \in Known(s[k]) : j \in Inums /\ (Unlocked(j) \/ j \in Known(Head(todo[p])))
    BY <1>7 DEF Known
  <2>2. \A j \in Inums : disk[j].type # "free" => disk'[j].type = disk[j].type
    BY <1>c
  <2> QED
    BY <1>c, <1>6, <2>1, <2>2, TypesTurned
<1>13. EntsFit'
  <2>1. \A k \in 1 .. Len(s) : s[k].do # "erase"
    BY <1>7
  <2>2. \A j \in Inums : disk'[j].type # "dir" => \A nm \in Names : ents'[j][nm] = NoIno
    BY <1>c, <1>2, <1>5 DEF EntsFit
  <2>3. ASSUME NEW q \in Procs, NEW x \in Steps(q), x.do = "erase"
        PROVE  (q = p /\ Len(todo[p]) = 1) \/ ents'[x.dir] = ents[x.dir]
    <3>1. CASE q # p
      <4>1. x.dir # d
        BY <1>c, <1>2, <2>3, <3>1, OthersErase
      <4>2. x.dir \in Inums
        BY <2>3, KnownIs DEF Known, KnownDirs
      <4> QED
        BY <1>5, <4>1, <4>2
    <3> QED
      BY <1>2, <3>1
  <2> QED
    BY <1>c, <1>6, <2>1, <2>2, <2>3, EntsTurned
<1>14. NoLoop'
  <2>1. ASSUME NEW q \in Procs, NEW x \in Steps(q)', x.do = "fill"
        PROVE  x \in Steps(q)
    <3>1. /\ \A y \in Steps(p)' : (\E k \in 1 .. Len(s) : y = s[k]) \/ y \in Steps(p)
          /\ \A y \in Procs \ {p} : Steps(y)' = Steps(y)
      BY <1>c, <1>6, Turned
    <3> QED
      BY <1>7, <2>1, <3>1
  <2>f. PICK f \in Inums, g \in Inums : f = i /\ g = d
    BY <1>2, <1>3
  <2>2. ASSUME NEW e \in Inums, NEW j \in Inums, Under(e, j)'
        PROVE  Under(e, j) \/ (e = g /\ j = f)
    <3>1. CASE \E nm \in Names : ents'[e][nm] = j
      <4>1. PICK nm \in Names : ents'[e][nm] = j
        BY <3>1
      <4>2. nm \in AllNames
        BY DEF AllNames
      <4>3. ents[e][nm] = j \/ (e = g /\ j = f)
        BY <2>f, <1>2, <1>5, <4>1, <4>2
      <4> QED
        BY <4>3 DEF Under
    <3>2. CASE \E q \in Procs : \E x \in Steps(q)' : x.do = "fill" /\ x.dir = e /\ x.ino = j
      BY <2>1, <3>2 DEF Under
    <3> QED
      BY <2>2, <3>1, <3>2 DEF Under
  <2>3. ASSUME NEW j \in Inums, Under(f, j)' PROVE FALSE
    <3>1. ~\E nm \in Names : ents'[f][nm] = j
      BY <2>f, <1>2, <1>3, <1>5 DEF EntsFit
    <3>2. PICK q \in Procs : \E x \in Steps(q)' : x.do = "fill" /\ x.dir = f /\ x.ino = j
      BY <2>3, <3>1 DEF Under
    <3>3. PICK x \in Steps(q) : x.do = "fill" /\ x.dir = f
      BY <2>1, <3>2
    <3> QED
      BY <2>f, <1>3, <3>3 DEF TypesKept, KnownDirs
  <2> QED
    BY <2>2, <2>3, LoopSink
<1> QED
  BY <1>4, <1>11, <1>12, <1>13, <1>14 DEF InodesSame

-----------------------------------------------------------------------------
(* create()                                                                 *)

\* ialloc() of the inode i for a name in d, that stays locked.
LEMMA CreateAllocKept ==
  ASSUME FsInv, NEW p \in Procs, NEW i \in Inums, CreateAlloc(p, i)
  PROVE  FsInv'
<1> USE DEF FsInv
<1> DEFINE h == Head(todo[p])
           d == Dir(p)
           t == IF call[p].op = "mkdir" THEN "dir" ELSE "file"
           new == [type |-> t, nlink |-> 0]
<1>1. /\ todo[p] # <<>> /\ h.do \in {"create", "mkdir"} /\ Unlocked(d) /\ ~NoType(d)
      /\ disk[i].type = "free" /\ disk' = [disk EXCEPT ![i] = new]
      /\ mem' = Loaded(d) /\ ref' = IgetRef(ref, i)
      /\ valid' = NowValid(IgetValid(i), d) /\ lock' = [lock EXCEPT ![d] = p]
      /\ Then(p, <<Step("fill", i, d)>>)
      /\ UNCHANGED <<ents, cwd, fd, call, path>>
  BY DEF CreateAlloc, At, userVars
<1>2. /\ h \in StepType /\ h \in Steps(p) /\ Len(todo[p]) = 1 /\ h.dir = d /\ d \in Inums
      /\ d # NoIno /\ ref[d] >= 1 /\ NoIno \notin Inums /\ i # NoIno
      /\ Info(d) = disk[d] /\ disk[d].type = "dir" /\ path[p] # <<>> /\ i # d
  <2>1. /\ h \in StepType /\ h \in Steps(p) /\ Len(todo[p]) = 1 /\ h.dir = d /\ d \in Inums
        /\ d # NoIno /\ ref[d] >= 1 /\ disk[d].type = "dir" /\ Info(d) = disk[d]
        /\ path[p] # <<>>
    BY <1>1, InDir
  <2> QED
    BY <1>1, <2>1, FileSysAssumption DEF NoIno
<1>3. h.ino = NoIno /\ HeldFor(h) = NoIno
  BY <1>1, AtHead DEF StepFits, Passing, HeldFor
<1>4. new \in InodeType /\ new.type # "free"
  BY DEF InodeType
<1>5. /\ disk' \in [Inums -> InodeType] /\ mem' \in [Inums -> InodeType] /\ disk'[i] = new
      /\ \A j \in Inums \ {i} : disk'[j] = disk[j]
      /\ mem'[d] = disk[d] /\ \A j \in Inums \ {d} : mem'[j] = mem[j]
  BY <1>1, <1>2, <1>4 DEF TypeOK, Loaded
<1>6. /\ valid' \in [Inums -> BOOLEAN] /\ ref' \in [Inums -> Int] /\ valid'[d]
      /\ \A j \in Inums \ {d} : valid'[j] = IgetValid(i)[j]
      /\ ref'[i] = ref[i] + 1 /\ \A j \in Inums \ {i} : ref'[j] = ref[j]
  <2>1. IgetValid(i) \in [Inums -> BOOLEAN]
    BY DEF IgetValid, TypeOK
  <2>2. valid' \in [Inums -> BOOLEAN] /\ valid'[d] /\ \A j \in Inums \ {d} : valid'[j] = IgetValid(i)[j]
    BY <1>1, <1>2, <2>1 DEF NowValid
  <2>3. ref \in [Inums -> Int] /\ ref[i] + 1 \in Int
    BY DEF TypeOK
  <2>4. ref' \in [Inums -> Int] /\ ref'[i] = ref[i] + 1 /\ \A j \in Inums \ {i} : ref'[j] = ref[j]
    BY <1>1, <2>3 DEF IgetRef
  <2> QED
    BY <2>2, <2>4
<1>7. CacheFits'
  <2> SUFFICES ASSUME NEW j \in Inums, ref'[j] > 0, valid'[j]
               PROVE  mem'[j] = disk'[j] /\ disk'[j].type # "free"
    BY DEF CacheFits
  <2>1. CASE j = d
    BY <1>2, <1>5, <2>1
  <2>2. CASE j = i
    <3>1. IgetValid(i)[i]
      BY <1>2, <1>6, <2>2
    <3>2. valid[i] /\ ref[i] # 0
      BY <3>1 DEF IgetValid, TypeOK
    <3>3. ref[i] > 0
      BY <3>2 DEF TypeOK
    <3> QED
      BY <1>1, <3>2, <3>3 DEF CacheFits
  <2>3. CASE j # i /\ j # d
    <3>1. valid[j] /\ ref[j] > 0
      BY <1>6, <2>3 DEF IgetValid, TypeOK
    <3> QED
      BY <1>5, <2>3, <3>1 DEF CacheFits
  <2> QED
    BY <2>1, <2>2, <2>3
<1>a. PICK a \in StepType :
        a = Step("fill", i, d) /\ a.do = "fill" /\ a.ino = i /\ a.dir = d
  <2>1. "fill" \in StepNames /\ i \in Inums \cup {NoIno} /\ d \in Inums \cup {NoIno}
    BY <1>2 DEF StepNames
  <2> QED
    BY <2>1, StepIs
<1>b. /\ todo[p] # <<>> /\ h.do \in {"create", "mkdir"} /\ Unlocked(d)
      /\ lock' = [lock EXCEPT ![d] = p] /\ UNCHANGED <<ents, cwd, fd, call, path>>
  BY <1>1
<1> DEFINE s == <<a>>
<1>8. Then(p, s) /\ s \in Seq(StepType) /\ Len(s) = 1 /\ s[1] = a
  BY <1>1, <1>a
<1> HIDE DEF s, new
<1>9. /\ StepFits(p, a)' /\ KnownDirs(a) = {d} /\ KnownFiles(a) = {} /\ Known(a) = {d}
      /\ HeldFor(a) = d
  BY <1>b, <1>2, <1>a DEF StepFits, KnownDirs, KnownFiles, Known, Passing, HeldFor
<1>10. \A k \in 1 .. Len(s) : s[k] = a /\ k = Len(s)
  BY <1>8
<1>11. LocksRight
  <2>1. /\ lock' \in [Inums -> Procs \cup {NoProc}]
        /\ \A j \in Inums :
             lock'[j] = IF j = d THEN p
                        ELSE IF HeldFor(Head(todo[p])) = j THEN NoProc ELSE lock[j]
    BY <1>b, <1>2, <1>3 DEF TypeOK
  <2>2. 1 \in 1 .. Len(s) /\ HeldFor(s[1]) = d /\ \A k \in 1 .. Len(s) : k = 1
    BY <1>8, <1>9
  <2> QED
    BY <1>b, <1>2, <1>8, <2>1, <2>2, LockTaken
<1>12. Counted(p, s)
  <2> SUFFICES ASSUME NEW j \in Inums
               PROVE  ref'[j] + Refers(h, j) + OfFd(p, j)
                        = ref[j] + Weight(s, j) + OfFd(p, j)'
    BY DEF Counted
  <2>1. Weight(s, j) = Refers(a, j) /\ OfFd(p, j)' = OfFd(p, j)
    BY <1>b, WeightOne DEF s, OfFd
  <2>2. /\ ref'[j] = IF j = i THEN ref[j] + 1 ELSE ref[j]
        /\ Refers(a, j) = (IF i = j THEN 1 ELSE 0) + (IF d = j THEN 1 ELSE 0)
        /\ Refers(h, j) = (IF d = j THEN 1 ELSE 0)
    BY <1>b, <1>2, <1>3, <1>6, <1>a DEF Refers
  <2>3. ref[j] \in Int /\ OfFd(p, j) \in Int
    BY DEF TypeOK, OfFd
  <2> HIDE DEF h, d
  <2> QED
    BY <2>1, <2>2, <2>3
<1>13. OnlyOf(p)
  BY <1>b DEF TypeOK, OnlyOf
<1>14. TypeOK' /\ TodoFits' /\ HeldOnce' /\ LocksReleased' /\ RefsCounted'
  <2>1. Fitting(p, s) /\ \A k \in 1 .. Len(s) : s[k].do # "setcwd"
    BY <1>9, <1>10, <1>a DEF Fitting
  <2>2. ents' \in [Inums -> [AllNames -> Inums \cup {NoIno}]]
    BY <1>b DEF TypeOK
  <2>3. h.do # "setcwd"
    BY <1>b
  <2> QED
    BY <1>b, <1>2, <1>5, <1>6, <1>8, <1>11, <1>12, <1>13, <2>1, <2>2, <2>3, Turn
<1>15. TypesKept'
  <2>1. \A k \in 1 .. Len(s) :
          /\ s[k].do # "free"
          /\ \A j \in KnownDirs(s[k]) : disk[j].type = "dir"
          /\ \A j \in KnownFiles(s[k]) : disk[j].type = "file"
          /\ \A j \in Known(s[k]) : j \in Inums /\ (Unlocked(j) \/ j \in Known(Head(todo[p])))
    BY <1>b, <1>2, <1>9, <1>10, <1>a
  <2>2. \A j \in Inums : disk[j].type # "free" => disk'[j].type = disk[j].type
    BY <1>1, <1>5
  <2> QED
    BY <1>b, <1>8, <2>1, <2>2, TypesTurned
<1>16. ASSUME NEW q \in Procs, NEW x \in Steps(q)'
       PROVE  x \in Steps(q) \/ (q = p /\ x = a)
  <2>1. /\ \A y \in Steps(p)' : (\E k \in 1 .. Len(s) : y = s[k]) \/ y \in Steps(p)
        /\ \A y \in Procs \ {p} : Steps(y)' = Steps(y)
    BY <1>b, <1>8, Turned
  <2> QED
    BY <1>10, <2>1
<1>17. EntsFit'
  <2>1. \A k \in 1 .. Len(s) : s[k].do # "erase"
    BY <1>10, <1>a
  <2>2. \A j \in Inums : disk'[j].type # "dir" => \A nm \in Names : ents'[j][nm] = NoIno
    <3>1. \A j \in Inums : disk'[j].type # "dir" => disk[j].type # "dir"
      BY <1>1, <1>5
    <3> QED
      BY <1>b, <3>1 DEF EntsFit
  <2> QED
    BY <1>b, <1>8, <2>1, <2>2, EntsTurned
<1>18. NoLoop'
  <2>f. PICK f \in Inums : f = d
    BY <1>2
  <2>1. ASSUME NEW e \in Inums, NEW j \in Inums, Under(e, j)'
        PROVE  Under(e, j) \/ (e = f /\ j = i)
    <3>1. CASE \E nm \in Names : ents'[e][nm] = j
      BY <1>b, <3>1 DEF Under
    <3>2. CASE \E q \in Procs : \E x \in Steps(q)' : x.do = "fill" /\ x.dir = e /\ x.ino = j
      BY <1>16, <1>a, <2>f, <3>2 DEF Under
    <3> QED
      BY <2>1, <3>1, <3>2 DEF Under
  <2>2. ASSUME NEW j \in Inums, Under(i, j)' PROVE FALSE
    <3>1. ~\E nm \in Names : ents'[i][nm] = j
      BY <1>b, <1>1, <1>2 DEF EntsFit
    <3>2. PICK q \in Procs : \E x \in Steps(q)' : x.do = "fill" /\ x.dir = i /\ x.ino = j
      BY <2>2, <3>1 DEF Under
    <3>3. PICK x \in Steps(q)' : x.do = "fill" /\ x.dir = i
      BY <3>2
    <3>4. x \in Steps(q)
      BY <1>16, <1>2, <1>a, <3>3
    <3> QED
      BY <1>1, <3>3, <3>4 DEF TypesKept, KnownDirs
  <2> QED
    BY <2>1, <2>2, LoopSink
<1> QED
  BY <1>7, <1>14, <1>15, <1>17, <1>18

\* A step that has an inode and its directory locked: both are in the cache.
LEMMA InBoth ==
  ASSUME FsInv, NEW p \in Procs, todo[p] # <<>>, Head(todo[p]).do \in {"fill", "erase"},
         Unlocked(Ino(p))
  PROVE  /\ Head(todo[p]).ino = Ino(p) /\ Ino(p) \in Inums /\ Ino(p) # NoIno
         /\ ref[Ino(p)] >= 1 /\ Info(Ino(p)) = disk[Ino(p)]
         /\ HeldFor(Head(todo[p])) = Dir(p) /\ lock[Dir(p)] = p /\ Ino(p) # Dir(p)
<1> USE DEF FsInv
<1> DEFINE h == Head(todo[p])
<1>1. h \in StepType /\ h \in Steps(p) /\ h.dir = Dir(p) /\ Dir(p) \in Inums /\ Dir(p) # NoIno
  BY InDir
<1>2. h.ino = Ino(p) /\ Ino(p) \in Inums /\ Ino(p) # NoIno
  BY <1>1, AtHead DEF StepFits, Passing, Ino, StepType
<1>3. ref[Ino(p)] >= 1 /\ Info(Ino(p)) = disk[Ino(p)]
  <2>1. ref[Ino(p)] >= 1
    BY <1>1, <1>2, StepHolds
  <2> QED
    BY <1>2, <2>1, InfoIs
<1>4. HeldFor(h) = Dir(p)
  BY <1>1 DEF HeldFor
<1>5. lock[Dir(p)] = p /\ p # NoProc
  BY <1>1, <1>4, StepLocks
<1> QED
  BY <1>2, <1>3, <1>4, <1>5 DEF Unlocked

\* The step after a name has been made or erased: the directory d is put, the inode i
\* stays locked for the step "late".
LEMMA HandOver ==
  ASSUME FsInv, NEW p \in Procs, todo[p] # <<>>, Head(todo[p]).do \in {"fill", "erase"},
         Unlocked(Ino(p)), NEW late \in {"finish", "dropname"},
         Then(p, <<ToPut(Dir(p)), Step(late, Ino(p), NoIno)>>),
         lock' = [lock EXCEPT ![Dir(p)] = NoProc, ![Ino(p)] = p],
         UNCHANGED <<ref, cwd, fd, call, path>>,
         /\ disk' \in [Inums -> InodeType] /\ mem' \in [Inums -> InodeType]
         /\ ents' \in [Inums -> [AllNames -> Inums \cup {NoIno}]]
         /\ valid' \in [Inums -> BOOLEAN],
         \A j \in Inums : disk'[j].type = disk[j].type
  PROVE  /\ TypeOK' /\ TodoFits' /\ HeldOnce' /\ LocksReleased' /\ RefsCounted' /\ TypesKept'
         /\ \A q \in Procs : \A x \in Steps(q)' :
              x.do \in {"fill", "erase"} => q # p /\ x \in Steps(q)
<1> USE DEF FsInv
<1> DEFINE h == Head(todo[p])
           i == Ino(p)
           d == Dir(p)
<1>1. /\ h \in StepType /\ h \in Steps(p) /\ Len(todo[p]) = 1 /\ h.dir = d /\ d \in Inums
      /\ d # NoIno /\ NoIno \notin Inums
  BY InDir, FileSysAssumption DEF NoIno
<1>2. /\ h.ino = i /\ i \in Inums /\ i # NoIno /\ HeldFor(h) = d /\ lock[d] = p /\ i # d
  BY InBoth
<1>a. PICK a \in StepType : a = ToPut(d) /\ a.do = "put" /\ a.ino = d /\ a.dir = NoIno
  BY <1>1, PutIs
<1>b. PICK b \in StepType :
        b = Step(late, i, NoIno) /\ b.do = late /\ b.ino = i /\ b.dir = NoIno
  <2>1. late \in StepNames
    BY DEF StepNames
  <2>2. /\ Step(late, i, NoIno) \in StepType /\ Step(late, i, NoIno).do = late
        /\ Step(late, i, NoIno).ino = i /\ Step(late, i, NoIno).dir = NoIno
    BY <1>2, <2>1 DEF Step, StepType
  <2> QED
    BY <2>2
<1> DEFINE s == <<a, b>>
<1>3. Then(p, s) /\ s \in Seq(StepType) /\ Len(s) = 2 /\ s[1] = a /\ s[2] = b
  BY <1>a, <1>b
<1> HIDE DEF s
<1>4. /\ StepFits(p, a)' /\ Known(a) = {} /\ HeldFor(a) = NoIno /\ a.do \in Passing
      /\ StepFits(p, b)' /\ Known(b) = {} /\ HeldFor(b) = i
  BY <1>1, <1>2, <1>a, <1>b DEF StepFits, KnownDirs, KnownFiles, Known, Passing, HeldFor
<1>5. \A k \in 1 .. Len(s) :
        /\ StepFits(p, s[k])' /\ Known(s[k]) = {} /\ (k # Len(s) => s[k].do \in Passing)
        /\ s[k].do \notin {"setcwd", "free", "fill", "erase"}
        /\ k # 2 => HeldFor(s[k]) = NoIno
  BY <1>3, <1>4, <1>a, <1>b
<1>6. LocksRight
  <2>1. /\ lock' \in [Inums -> Procs \cup {NoProc}]
        /\ \A j \in Inums :
             lock'[j] = IF j = i THEN p
                        ELSE IF HeldFor(Head(todo[p])) = j THEN NoProc ELSE lock[j]
    BY <1>1, <1>2 DEF TypeOK
  <2>2. 2 \in 1 .. Len(s) /\ HeldFor(s[2]) = i
    BY <1>3, <1>4
  <2>3. \A k \in 1 .. Len(s) : k # 2 => HeldFor(s[k]) = NoIno
    BY <1>5
  <2>4. i \in Inums /\ Unlocked(i)
    BY <1>2
  <2>5. TypeOK /\ HeldOnce /\ LocksReleased /\ todo[p] # <<>>
    OBVIOUS
  <2>6. PICK f \in Inums : f = i
    BY <2>4
  <2>7. PICK m \in 1 .. Len(s) : m = 2
    BY <2>2
  <2>8. /\ Unlocked(f) /\ HeldFor(s[m]) = f
        /\ \A k \in 1 .. Len(s) : k # m => HeldFor(s[k]) = NoIno
    BY <2>2, <2>3, <2>4, <2>6, <2>7
  <2>9. \A j \in Inums :
          lock'[j] = IF j = f THEN p
                     ELSE IF HeldFor(Head(todo[p])) = j THEN NoProc ELSE lock[j]
    BY <2>1, <2>6
  <2> QED
    BY ONLY p \in Procs, f \in Inums, m \in 1 .. Len(s),
            <1>3, <2>1, <2>5, <2>8, <2>9, LockTaken
<1>7. Counted(p, s)
  <2> SUFFICES ASSUME NEW j \in Inums
               PROVE  ref'[j] + Refers(h, j) + OfFd(p, j)
                        = ref[j] + Weight(s, j) + OfFd(p, j)'
    BY DEF Counted
  <2>1. Weight(s, j) = Refers(a, j) + Refers(b, j) /\ OfFd(p, j)' = OfFd(p, j)
    BY WeightTwo DEF s, OfFd
  <2>2. /\ ref'[j] = ref[j]
        /\ Refers(a, j) = (IF d = j THEN 1 ELSE 0)
        /\ Refers(b, j) = (IF i = j THEN 1 ELSE 0)
        /\ Refers(h, j) = (IF i = j THEN 1 ELSE 0) + (IF d = j THEN 1 ELSE 0)
    BY <1>1, <1>2, <1>a, <1>b DEF Refers
  <2>3. ref[j] \in Int /\ OfFd(p, j) \in Int
    BY DEF TypeOK, OfFd
  <2> HIDE DEF h, d, i
  <2> QED
    BY <2>1, <2>2, <2>3
<1>8. OnlyOf(p) /\ ref' \in [Inums -> Int]
  BY DEF TypeOK, OnlyOf
<1>9. TypeOK' /\ TodoFits' /\ HeldOnce' /\ LocksReleased' /\ RefsCounted'
  <2>1. Fitting(p, s) /\ \A k \in 1 .. Len(s) : s[k].do # "setcwd"
    BY <1>5 DEF Fitting
  <2>2. h.do # "setcwd"
    OBVIOUS
  <2> QED
    BY <1>1, <1>3, <1>6, <1>7, <1>8, <2>1, <2>2, Turn
<1>10. TypesKept'
  <2>1. \A k \in 1 .. Len(s) :
          /\ s[k].do # "free"
          /\ \A j \in KnownDirs(s[k]) : disk[j].type = "dir"
          /\ \A j \in KnownFiles(s[k]) : disk[j].type = "file"
          /\ \A j \in Known(s[k]) : j \in Inums /\ (Unlocked(j) \/ j \in Known(Head(todo[p])))
    BY <1>5 DEF Known
  <2> QED
    BY <1>3, <2>1, TypesTurned
<1>11. ASSUME NEW q \in Procs, NEW x \in Steps(q)', x.do \in {"fill", "erase"}
       PROVE  q # p /\ x \in Steps(q)
  <2>1. /\ \A y \in Steps(p)' : (\E k \in 1 .. Len(s) : y = s[k])
        /\ \A y \in Procs \ {p} : Steps(y)' = Steps(y)
    BY <1>1, <1>3, Turned
  <2>2. q # p
    BY <1>5, <1>11, <2>1
  <2> QED
    BY <2>1, <2>2
<1> QED
  BY <1>9, <1>10, <1>11

\* create() makes the names of a new inode.
LEMMA FillKept ==
  ASSUME FsInv, NEW p \in Procs, Fill(p)
  PROVE  FsInv'
<1> USE DEF FsInv
<1> DEFINE h == Head(todo[p])
           i == Ino(p)
           d == Dir(p)
           isdir == call[p].op = "mkdir"
           new == [Info(i) EXCEPT !.nlink = 1]
           dnew == IF isdir THEN AddLinks(d, 1) ELSE Info(d)
           inew == IF isdir THEN [NoEnts EXCEPT !["."] = i, ![".."] = d] ELSE ents[i]
<1>1. /\ todo[p] # <<>> /\ h.do = "fill" /\ Unlocked(i) /\ ~NoType(i)
      /\ mem' = [mem EXCEPT ![i] = new, ![d] = dnew]
      /\ disk' = [disk EXCEPT ![i] = new, ![d] = dnew]
      /\ valid' = NowValid(valid, i)
      /\ ents' = [ents EXCEPT ![i] = IF isdir THEN [NoEnts EXCEPT !["."] = i, ![".."] = d] ELSE @,
                              ![d][Name(p)] = i]
      /\ lock' = [lock EXCEPT ![d] = NoProc, ![i] = p]
      /\ Then(p, <<ToPut(d), Step("finish", i, NoIno)>>)
      /\ UNCHANGED <<ref, cwd, fd, call, path>>
  BY DEF Fill, At, userVars
<1>b. /\ todo[p] # <<>> /\ h.do \in {"fill", "erase"} /\ h.do = "fill" /\ Unlocked(i)
      /\ lock' = [lock EXCEPT ![d] = NoProc, ![i] = p]
      /\ Then(p, <<ToPut(d), Step("finish", i, NoIno)>>)
      /\ UNCHANGED <<ref, cwd, fd, call, path>>
  BY <1>1
<1>2. /\ h \in Steps(p) /\ Len(todo[p]) = 1 /\ h.dir = d /\ d \in Inums /\ Name(p) \in AllNames
      /\ NoIno \notin Inums /\ ref[d] >= 1 /\ Info(d) = disk[d] /\ disk[d].type = "dir"
      /\ ents[d] \in [AllNames -> Inums \cup {NoIno}]
  BY <1>b, InDir, FileSysAssumption DEF NoIno
<1>3. /\ h.ino = i /\ i \in Inums /\ ref[i] >= 1 /\ Info(i) = disk[i] /\ lock[d] = p /\ i # d
  BY <1>b, InBoth
<1>4. new \in InodeType /\ new.type = disk[i].type /\ new.type # "free"
  <2>1. Info(i) \in InodeType
    BY <1>3 DEF TypeOK
  <2> QED
    BY <1>1, <1>3, <2>1 DEF InodeType, NoType
<1>5. dnew \in InodeType /\ dnew.type = "dir"
  <2>1. AddLinks(d, 1) \in InodeType /\ AddLinks(d, 1).type = Info(d).type
    BY <1>2, LinksType
  <2>2. Info(d) \in InodeType
    BY <1>2 DEF TypeOK
  <2> QED
    BY <1>2, <2>1, <2>2
<1>6. /\ inew \in [AllNames -> Inums \cup {NoIno}]
      /\ \A nm \in Names : inew[nm] = NoIno \/ inew[nm] = ents[i][nm]
  <2>1. ents[i] \in [AllNames -> Inums \cup {NoIno}]
    BY <1>3 DEF TypeOK
  <2>2. \A nm \in Names : nm # "." /\ nm # ".." /\ nm \in AllNames
    BY FileSysAssumption DEF AllNames
  <2>3. NoEnts \in [AllNames -> Inums \cup {NoIno}] /\ \A nm \in AllNames : NoEnts[nm] = NoIno
    BY DEF NoEnts
  <2> QED
    BY <1>2, <1>3, <2>1, <2>2, <2>3
<1> HIDE DEF new, dnew
<1>7. /\ disk' \in [Inums -> InodeType] /\ mem' \in [Inums -> InodeType]
      /\ disk'[i] = new /\ mem'[i] = new /\ disk'[d] = dnew /\ mem'[d] = dnew
      /\ \A j \in Inums \ {i, d} : disk'[j] = disk[j] /\ mem'[j] = mem[j]
  BY <1>1, <1>2, <1>3, <1>4, <1>5 DEF TypeOK
<1>8. /\ ents' \in [Inums -> [AllNames -> Inums \cup {NoIno}]]
      /\ ents'[i] = inew /\ ents'[d] = [ents[d] EXCEPT ![Name(p)] = i]
      /\ \A j \in Inums \ {i, d} : ents'[j] = ents[j]
  <2>1. [ents[d] EXCEPT ![Name(p)] = i] \in [AllNames -> Inums \cup {NoIno}]
    BY <1>2, <1>3
  <2>2. ents \in [Inums -> [AllNames -> Inums \cup {NoIno}]]
    BY DEF TypeOK
  <2>3. ents' = [ents EXCEPT ![i] = inew, ![d] = [ents[d] EXCEPT ![Name(p)] = i]]
    BY <1>1, <1>2, <1>3, <2>2
  <2> HIDE DEF inew
  <2> QED
    BY <1>2, <1>3, <1>6, <2>1, <2>2, <2>3
<1>9. valid' \in [Inums -> BOOLEAN] /\ \A j \in Inums \ {i} : valid'[j] = valid[j]
  BY <1>1, <1>3 DEF TypeOK, NowValid
<1> HIDE DEF inew, isdir
<1>10. \A j \in Inums : disk'[j].type = disk[j].type
  BY <1>2, <1>4, <1>5, <1>7
<1>11. CacheFits'
  <2> SUFFICES ASSUME NEW j \in Inums, ref'[j] > 0, valid'[j]
               PROVE  mem'[j] = disk'[j] /\ disk'[j].type # "free"
    BY DEF CacheFits
  <2>1. CASE j \in {i, d}
    BY <1>4, <1>5, <1>7, <2>1
  <2>2. CASE j \notin {i, d}
    BY <1>b, <1>7, <1>9, <2>2 DEF CacheFits
  <2> QED
    BY <2>1, <2>2
<1>12. /\ TypeOK' /\ TodoFits' /\ HeldOnce' /\ LocksReleased' /\ RefsCounted' /\ TypesKept'
       /\ \A q \in Procs : \A x \in Steps(q)' :
            x.do \in {"fill", "erase"} => q # p /\ x \in Steps(q)
  <2>1. "finish" \in {"finish", "dropname"}
    OBVIOUS
  <2> QED
    BY <1>b, <1>7, <1>8, <1>9, <1>10, <2>1, HandOver
<1>13. EntsFit'
  <2>1. ASSUME NEW q \in Procs, NEW x \in Steps(q)', x.do = "erase"
        PROVE  Removable(Name(q))' /\ ents'[x.dir][Name(q)'] = x.ino
    <3>1. q # p /\ x \in Steps(q)
      BY <1>12, <2>1
    <3>2. x.dir # d /\ x.dir \in Inums /\ disk[x.dir].type = "dir"
      <4>1. x.dir # d
        BY <1>2, <1>3, <2>1, <3>1, OthersErase
      <4>2. x.dir \in Inums
        BY <2>1, <3>1, KnownIs DEF Known, KnownDirs
      <4>3. disk[x.dir].type = "dir"
        BY <2>1, <3>1 DEF TypesKept, KnownDirs
      <4> QED
        BY <4>1, <4>2, <4>3
    <3>3. x.dir # i
      <4>1. HeldFor(x) = x.dir
        BY <2>1 DEF HeldFor
      <4>2. lock[x.dir] = q /\ q # NoProc
        BY <1>2, <3>1, <3>2, <4>1, StepLocks
      <4> QED
        BY <1>b, <4>2 DEF Unlocked
    <3>4. ents'[x.dir] = ents[x.dir]
      BY <1>8, <3>2, <3>3
    <3>5. Removable(Name(q)) /\ ents[x.dir][Name(q)] = x.ino
      BY <2>1, <3>1 DEF EntsFit
    <3>6. Name(q)' = Name(q) /\ Removable(Name(q))' = Removable(Name(q))
      BY <1>b DEF Name, Removable
    <3> QED
      BY <3>4, <3>5, <3>6
  <2>2. ASSUME NEW j \in Inums, disk'[j].type # "dir", NEW nm \in Names
        PROVE  ents'[j][nm] = NoIno
    <3>1. disk[j].type # "dir" /\ ents[j][nm] = NoIno /\ j # d
      BY <1>2, <1>10, <2>2 DEF EntsFit
    <3>2. CASE j = i
      BY <1>6, <1>8, <3>1, <3>2
    <3>3. CASE j # i
      BY <1>8, <3>1, <3>3
    <3> QED
      BY <3>2, <3>3
  <2> QED
    BY <2>1, <2>2 DEF EntsFit
<1>14. NoLoop'
  <2>1. Under(d, i)
    BY <1>b, <1>2, <1>3 DEF Under
  <2>f. PICK f \in Inums, g \in Inums : f = i /\ g = d
    BY <1>2, <1>3
  <2>2. ASSUME NEW e \in Inums, NEW j \in Inums, Under(e, j)' PROVE Under(e, j)
    <3>1. CASE \E nm \in Names : ents'[e][nm] = j
      <4>1. PICK nm \in Names : ents'[e][nm] = j
        BY <3>1
      <4>2. nm \in AllNames /\ j # NoIno
        BY <1>2 DEF AllNames
      <4>3. ents[e][nm] = j \/ (e = g /\ j = f)
        BY <2>f, <1>2, <1>6, <1>8, <4>1, <4>2
      <4>4. Under(g, f)
        BY <2>1, <2>f
      <4> QED
        BY <4>3, <4>4 DEF Under
    <3>2. CASE \E q \in Procs : \E x \in Steps(q)' : x.do = "fill" /\ x.dir = e /\ x.ino = j
      BY <1>12, <3>2 DEF Under
    <3> QED
      BY <2>2, <3>1, <3>2 DEF Under
  <2> QED
    BY <2>2, LoopFree
<1> QED
  BY <1>11, <1>12, <1>13, <1>14

\* unlink() erases a name.
LEMMA EraseNameKept ==
  ASSUME FsInv, NEW p \in Procs, EraseName(p)
  PROVE  FsInv'
<1> USE DEF FsInv
<1> DEFINE h == Head(todo[p])
           i == Ino(p)
           d == Dir(p)
           dnew == ParentLeft(i, d)
<1>1. /\ todo[p] # <<>> /\ h.do = "erase" /\ Unlocked(i) /\ ~NoType(i)
      /\ mem' = [mem EXCEPT ![i] = Info(i), ![d] = dnew]
      /\ disk' = [disk EXCEPT ![d] = dnew]
      /\ valid' = NowValid(valid, i)
      /\ ents' = [ents EXCEPT ![d][Name(p)] = NoIno]
      /\ lock' = [lock EXCEPT ![d] = NoProc, ![i] = p]
      /\ Then(p, <<ToPut(d), Step("dropname", i, NoIno)>>)
      /\ UNCHANGED <<ref, cwd, fd, call, path>>
  BY DEF EraseName, At, userVars
<1>b. /\ todo[p] # <<>> /\ h.do \in {"fill", "erase"} /\ h.do = "erase" /\ Unlocked(i)
      /\ lock' = [lock EXCEPT ![d] = NoProc, ![i] = p]
      /\ Then(p, <<ToPut(d), Step("dropname", i, NoIno)>>)
      /\ UNCHANGED <<ref, cwd, fd, call, path>>
  BY <1>1
<1>2. /\ h \in Steps(p) /\ Len(todo[p]) = 1 /\ h.dir = d /\ d \in Inums /\ Name(p) \in AllNames
      /\ NoIno \notin Inums /\ ref[d] >= 1 /\ Info(d) = disk[d] /\ disk[d].type = "dir"
      /\ ents[d] \in [AllNames -> Inums \cup {NoIno}]
  BY <1>b, InDir, FileSysAssumption DEF NoIno
<1>3. /\ h.ino = i /\ i \in Inums /\ ref[i] >= 1 /\ Info(i) = disk[i] /\ lock[d] = p /\ i # d
      /\ disk[i].type # "free"
  BY <1>1, <1>b, InBoth DEF NoType
<1>4. dnew \in InodeType /\ dnew.type = "dir"
  <2>1. AddLinks(d, -1) \in InodeType /\ AddLinks(d, -1).type = Info(d).type
    BY <1>2, LinksType
  <2>2. Info(d) \in InodeType
    BY <1>2 DEF TypeOK
  <2> QED
    BY <1>2, <2>1, <2>2 DEF ParentLeft
<1> HIDE DEF dnew
<1>5. /\ disk' \in [Inums -> InodeType] /\ mem' \in [Inums -> InodeType]
      /\ disk'[i] = disk[i] /\ mem'[i] = disk[i] /\ disk'[d] = dnew /\ mem'[d] = dnew
      /\ \A j \in Inums \ {i, d} : disk'[j] = disk[j] /\ mem'[j] = mem[j]
  BY <1>1, <1>2, <1>3, <1>4 DEF TypeOK
<1>6. /\ ents' \in [Inums -> [AllNames -> Inums \cup {NoIno}]]
      /\ ents'[d] = [ents[d] EXCEPT ![Name(p)] = NoIno]
      /\ \A j \in Inums \ {d} : ents'[j] = ents[j]
  <2>1. [ents[d] EXCEPT ![Name(p)] = NoIno] \in [AllNames -> Inums \cup {NoIno}]
    BY <1>2
  <2>2. ents \in [Inums -> [AllNames -> Inums \cup {NoIno}]]
    BY DEF TypeOK
  <2>3. ents' = [ents EXCEPT ![d] = [ents[d] EXCEPT ![Name(p)] = NoIno]]
    BY <1>1
  <2> QED
    BY <1>2, <2>1, <2>2, <2>3
<1>7. valid' \in [Inums -> BOOLEAN] /\ \A j \in Inums \ {i} : valid'[j] = valid[j]
  BY <1>1, <1>3 DEF TypeOK, NowValid
<1>8. \A j \in Inums : disk'[j].type = disk[j].type
  BY <1>2, <1>3, <1>4, <1>5
<1>9. CacheFits'
  <2> SUFFICES ASSUME NEW j \in Inums, ref'[j] > 0, valid'[j]
               PROVE  mem'[j] = disk'[j] /\ disk'[j].type # "free"
    BY DEF CacheFits
  <2>1. CASE j \in {i, d}
    BY <1>3, <1>4, <1>5, <2>1
  <2>2. CASE j \notin {i, d}
    BY <1>b, <1>5, <1>7, <2>2 DEF CacheFits
  <2> QED
    BY <2>1, <2>2
<1>10. /\ TypeOK' /\ TodoFits' /\ HeldOnce' /\ LocksReleased' /\ RefsCounted' /\ TypesKept'
       /\ \A q \in Procs : \A x \in Steps(q)' :
            x.do \in {"fill", "erase"} => q # p /\ x \in Steps(q)
  <2>1. "dropname" \in {"finish", "dropname"}
    OBVIOUS
  <2> QED
    BY <1>b, <1>5, <1>6, <1>7, <1>8, <2>1, HandOver
<1>11. EntsFit'
  <2>1. ASSUME NEW q \in Procs, NEW x \in Steps(q)', x.do = "erase"
        PROVE  Removable(Name(q))' /\ ents'[x.dir][Name(q)'] = x.ino
    <3>1. q # p /\ x \in Steps(q)
      BY <1>10, <2>1
    <3>2. x.dir # d /\ x.dir \in Inums
      <4>1. x.dir # d
        BY <1>2, <1>3, <2>1, <3>1, OthersErase
      <4>2. x.dir \in Inums
        BY <2>1, <3>1, KnownIs DEF Known, KnownDirs
      <4> QED
        BY <4>1, <4>2
    <3>3. ents'[x.dir] = ents[x.dir]
      BY <1>6, <3>2
    <3>4. Removable(Name(q)) /\ ents[x.dir][Name(q)] = x.ino
      BY <2>1, <3>1 DEF EntsFit
    <3>5. Name(q)' = Name(q) /\ Removable(Name(q))' = Removable(Name(q))
      BY <1>b DEF Name, Removable
    <3> QED
      BY <3>3, <3>4, <3>5
  <2>2. ASSUME NEW j \in Inums, disk'[j].type # "dir", NEW nm \in Names
        PROVE  ents'[j][nm] = NoIno
    <3>1. disk[j].type # "dir" /\ ents[j][nm] = NoIno /\ j # d
      BY <1>2, <1>8, <2>2 DEF EntsFit
    <3> QED
      BY <1>6, <3>1
  <2> QED
    BY <2>1, <2>2 DEF EntsFit
<1>12. NoLoop'
  <2>1. ASSUME NEW e \in Inums, NEW j \in Inums, Under(e, j)' PROVE Under(e, j)
    <3>1. CASE \E nm \in Names : ents'[e][nm] = j
      <4>1. PICK nm \in Names : ents'[e][nm] = j
        BY <3>1
      <4>2. nm \in AllNames /\ j # NoIno
        BY <1>2 DEF AllNames
      <4>3. ents[e][nm] = j
        BY <1>2, <1>6, <4>1, <4>2
      <4> QED
        BY <4>3 DEF Under
    <3>2. CASE \E q \in Procs : \E x \in Steps(q)' : x.do = "fill" /\ x.dir = e /\ x.ino = j
      BY <1>10, <3>2 DEF Under
    <3> QED
      BY <2>1, <3>1, <3>2 DEF Under
  <2> QED
    BY <2>1, LoopFree
<1> QED
  BY <1>9, <1>10, <1>11, <1>12

-----------------------------------------------------------------------------
(* The steps of the names together                                          *)

\* panic() stops the machine, and nothing else changes.
LEMMA PanicKept ==
  ASSUME FsInv,
         UNCHANGED <<disk, ents, ref, valid, mem, lock, cwd, fd, call, path, todo>>
  PROVE  FsInv'
<1> USE DEF FsInv
<1>1. TypeOK'
  BY DEF TypeOK
<1>2. \A p \in Procs : Steps(p)' = Steps(p)
  BY DEF Steps
<1>3. \A p \in Procs : Name(p)' = Name(p)
  BY DEF Name
<1>4. TodoFits'
  <2>1. \A p \in Procs : \A s : StepFits(p, s)' = StepFits(p, s)
    BY DEF StepFits
  <2> QED
    BY <2>1 DEF TodoFits
<1>5. HeldOnce'
  BY DEF HeldOnce
<1>6. LocksReleased'
  <2>1. \A p \in Procs : LocksOf(p)' = LocksOf(p)
    BY <1>2 DEF LocksOf
  <2> QED
    BY <2>1 DEF LocksReleased
<1>7. RefsCounted'
  <2>1. \A p \in Procs, i \in Inums : References(p, i)' = References(p, i)
    BY <1>2 DEF References
  <2>2. \A i \in Inums : (UNION {{p} \X References(p, i) : p \in Procs})'
                           = UNION {{p} \X References(p, i) : p \in Procs}
    BY <2>1
  <2> QED
    BY <2>2 DEF RefsCounted
<1>8. CacheFits'
  BY DEF CacheFits
<1>9. TypesKept'
  BY <1>2 DEF TypesKept
<1>10. EntsFit'
  BY <1>2, <1>3 DEF EntsFit
<1>11. NoLoop'
  <2>1. \A d, i \in Inums : Under(d, i)' => Under(d, i)
    BY <1>2 DEF Under
  <2> QED
    BY <2>1, LoopFree
<1> QED
  BY <1>1, <1>4, <1>5, <1>6, <1>7, <1>8, <1>9, <1>10, <1>11

\* The file system of mkfs, every process in its root directory.
LEMMA FsInit ==
  ASSUME Init
  PROVE  FsInv
<1>1. /\ Inums \subseteq Nat \ {NoIno} /\ ROOTINO \in Inums /\ NoProc \notin Procs
      /\ IsFiniteSet(Procs) /\ "." \notin Names /\ ".." \notin Names
  BY FileSysAssumption
<1>2. Cardinality(Procs) \in Nat
  BY <1>1, FS_CardinalityType
<1>3. \A p \in Procs : todo[p] = <<>> /\ cwd[p] = ROOTINO /\ fd[p] = NoIno /\ path[p] = <<>>
  BY DEF Init
<1>4. \A p \in Procs : Steps(p) = {}
  BY <1>3 DEF Steps
<1>5. NoEnts \in [AllNames -> Inums \cup {NoIno}] /\ \A nm \in AllNames : NoEnts[nm] = NoIno
  BY DEF NoEnts
<1>6. \A i \in Inums :
        /\ ents[i] \in [AllNames -> Inums \cup {NoIno}]
        /\ \A nm \in Names : ents[i][nm] = NoIno
  <2> TAKE i \in Inums
  <2>1. CASE i = ROOTINO
    <3>1. ents[i] = [NoEnts EXCEPT !["."] = i, ![".."] = i]
      BY <2>1 DEF Init
    <3> QED
      BY <1>1, <1>5, <3>1 DEF AllNames
  <2>2. CASE i # ROOTINO
    BY <1>5, <2>2 DEF Init, AllNames
  <2> QED
    BY <2>1, <2>2
<1>7. TypeOK
  <2>1. [type |-> "dir", nlink |-> 1] \in InodeType /\ Free \in InodeType
    BY DEF InodeType, Free
  <2>2. disk \in [Inums -> InodeType] /\ mem \in [Inums -> InodeType]
    BY <2>1 DEF Init
  <2>3. ents \in [Inums -> [AllNames -> Inums \cup {NoIno}]]
    <3>1. DOMAIN ents = Inums /\ ents = [i \in Inums |-> ents[i]]
      BY DEF Init
    <3> QED
      BY <1>6, <3>1
  <2>4. ref \in [Inums -> Nat] /\ valid \in [Inums -> BOOLEAN]
    BY <1>2 DEF Init
  <2>5. lock \in [Inums -> Procs \cup {NoProc}]
    BY DEF Init
  <2>6. cwd \in [Procs -> Inums] /\ fd \in [Procs -> Inums \cup {NoIno}]
    BY <1>1 DEF Init
  <2>7. path \in [Procs -> Seq(AllNames)] /\ todo \in [Procs -> Seq(StepType)]
    BY DEF Init
  <2>8. DOMAIN call = Procs /\ \A p \in Procs : call[p].op = "close"
    BY DEF Init
  <2> QED
    BY <2>2, <2>3, <2>4, <2>5, <2>6, <2>7, <2>8 DEF TypeOK
<1>8. TodoFits /\ HeldOnce
  BY <1>3 DEF TodoFits, HeldOnce
<1>9. LocksReleased
  <2>1. \A i \in Inums : lock[i] = NoProc
    BY DEF Init
  <2>2. \A p \in Procs : LocksOf(p) = {}
    BY <1>4 DEF LocksOf
  <2> QED
    BY <1>1, <2>1, <2>2 DEF LocksReleased
<1>10. RefsCounted
  <2>1. ASSUME NEW i \in Inums, NEW p \in Procs
        PROVE  References(p, i) = IF i = ROOTINO THEN {<<0, "cwd">>} ELSE {}
    <3>1. StepRefs(todo[p], i) = {}
      BY <1>3 DEF StepRefs
    <3>2. NoIno # i
      BY <1>1
    <3> QED
      BY <1>3, <1>4, <3>1, <3>2 DEF References
  <2>2. SUFFICES ASSUME NEW i \in Inums
                 PROVE  ref[i] = Cardinality(UNION {{p} \X References(p, i) : p \in Procs})
    BY DEF RefsCounted
  <2>3. CASE i = ROOTINO
    <3>1. UNION {{p} \X References(p, i) : p \in Procs} = Procs \X {<<0, "cwd">>}
      BY <2>1, <2>3
    <3>2. IsFiniteSet({<<0, "cwd">>}) /\ Cardinality({<<0, "cwd">>}) = 1
      BY FS_Singleton
    <3>3. Cardinality(Procs \X {<<0, "cwd">>}) = Cardinality(Procs) * 1
      BY <1>1, <3>2, FS_Product
    <3>4. Cardinality(Procs) * 1 = Cardinality(Procs)
      BY <1>2
    <3>5. ref[i] = Cardinality(Procs)
      BY <2>3 DEF Init
    <3> QED
      BY <3>1, <3>3, <3>4, <3>5
  <2>4. CASE i # ROOTINO
    <3>1. UNION {{p} \X References(p, i) : p \in Procs} = {}
      BY <2>1, <2>4
    <3> QED
      BY <2>4, <3>1, FS_EmptySet DEF Init
  <2> QED
    BY <2>3, <2>4
<1>11. CacheFits
  BY DEF Init, CacheFits
<1>12. TypesKept
  BY <1>4 DEF TypesKept
<1>13. EntsFit
  BY <1>4, <1>6 DEF EntsFit
<1>14. NoLoop
  <2>1. \A d, i \in Inums : ~Under(d, i)
    BY <1>1, <1>4, <1>6 DEF Under
  <2> QED
    BY <2>1 DEF NoLoop
<1> QED
  BY <1>7, <1>8, <1>9, <1>10, <1>11, <1>12, <1>13, <1>14 DEF FsInv

\* A step of the kernel, or a call.
LEMMA FsNext ==
  ASSUME FsInv, [Next]_vars
  PROVE  FsInv'
<1>1. CASE UNCHANGED vars
  BY <1>1, PanicKept DEF vars, diskVars, memVars, userVars
<1>2. ASSUME NEW p \in Procs, Kernel(p)
      PROVE  FsInv'
  <2>1. CASE WalkEnd(p) \/ NoParent(p) \/ WalkStep(p)
    BY <2>1, WalkEndKept, NoParentKept, WalkStepKept
  <2>2. CASE PutTest(p) \/ PutFree(p) \/ PutDrop(p) \/ Unlock(p)
    BY <2>2, PutTestKept, PutFreeKept, PutDropKept, UnlockKept
  <2>3. CASE Open(p) \/ CreateExists(p) \/ Exists(p) \/ Fill(p) \/ Finish(p)
    BY <2>3, OpenKept, CreateExistsKept, ExistsKept, FillKept, FinishKept
  <2>4. CASE \E i \in Inums : CreateAlloc(p, i)
    BY <2>4, CreateAllocKept
  <2>5. CASE UnlinkBad(p) \/ Unlink(p) \/ NotEmpty(p) \/ EraseName(p) \/ DropName(p)
    BY <2>5, UnlinkBadKept, UnlinkKept, NotEmptyKept, EraseNameKept, DropNameKept
  <2>6. CASE Link(p) \/ LinkExists(p) \/ LinkAdd(p) \/ Undo(p)
    BY <2>6, LinkKept, LinkExistsKept, LinkAddKept, UndoKept
  <2>7. CASE Chdir(p) \/ SetCwd(p)
    BY <2>7, ChdirKept, SetCwdKept
  <2>8. CASE Panic(p)
    BY <2>8, PanicKept DEF Panic, diskVars, memVars, userVars
  <2> QED
    BY <1>2, <2>1, <2>2, <2>3, <2>4, <2>5, <2>6, <2>7, <2>8 DEF Kernel
<1>3. ASSUME NEW p \in Procs, User(p)
      PROVE  FsInv'
  BY <1>3, CloseKept, CallKept DEF User
<1> QED
  BY <1>1, <1>2, <1>3 DEF Next

\* In every reachable state the references are counted, the locks are those that calls are
\* going to release, and directories are in no circle of names.
THEOREM NamesInvariant == Spec => []FsInv
<1>1. Init => FsInv
  BY FsInit
<1>2. FsInv /\ [Next]_vars => FsInv'
  BY FsNext
<1> QED
  BY <1>1, <1>2, PTL DEF Spec

\* iget(), idup() and iput() keep the count, and no way out of a call leaves a lock: every
\* way out of a system call of sysfile.c gives back what the call has taken.
THEOREM CallsGiveBack == Spec => []NothingLeaked
<1>1. FsInv => NothingLeaked
  BY DEF FsInv, NothingLeaked
<1> QED
  BY <1>1, NamesInvariant, PTL

\* An inode in the cache is the one on the disk.
THEOREM CacheIsDisk == Spec => []CacheCoherent
<1>1. FsInv => CacheCoherent
  BY DEF FsInv, CacheFits, CacheCoherent
<1> QED
  BY <1>1, NamesInvariant, PTL

\* What a call waits for while it holds the lock of another inode is under that inode.
LEMMA HeldAbove ==
  ASSUME FsInv, NEW q \in Procs, ~Putting(q), Wants(q) # NoIno, NEW d \in Inums, lock[d] = q
  PROVE  Wants(q) \in Inums /\ Under(d, Wants(q))
<1> USE DEF FsInv
<1> DEFINE h == Head(todo[q])
<1>1. todo[q] # <<>> /\ h.do \notin {"put", "free", "drop", "unlock"}
  <2>1. todo[q] # <<>> /\ h.do # "put"
    BY DEF Wants, Putting
  <2>2. h.do \notin {"free", "drop", "unlock"}
    BY <2>1 DEF Wants, Walking, At
  <2> QED
    BY <2>1, <2>2
<1>2. h \in StepType /\ StepFits(q, h) /\ h \in Steps(q) /\ Len(todo[q]) = 1 /\ todo[q] = <<h>>
  BY <1>1, AtHead, MainLast DEF Passing
<1>3. Steps(q) = {h}
  <2>1. DOMAIN todo[q] = {1} /\ todo[q][1] = h
    BY <1>2
  <2> QED
    BY <2>1 DEF Steps
<1>4. NoIno \notin Inums
  BY FileSysAssumption
<1>5. HeldFor(h) = d
  <2>1. d \in LocksOf(q)
    BY DEF LocksReleased
  <2> QED
    BY <1>3, <2>1 DEF LocksOf
<1>6. h.do \in {"fill", "erase"} /\ h.dir = d
  <2>1. h.do \notin {"finish", "dropname"}
    BY <1>1 DEF Wants, Walking, At
  <2>2. d # NoIno
    BY <1>4
  <2> QED
    BY <1>1, <1>5, <2>1, <2>2 DEF HeldFor
<1>7. Wants(q) = h.ino /\ h.ino \in Inums
  <2>1. Wants(q) = h.ino
    BY <1>1, <1>6 DEF Wants, Ino
  <2>2. h.ino \in Inums \cup {NoIno}
    BY <1>2 DEF StepType
  <2> QED
    BY <2>1, <2>2
<1>8. Under(d, h.ino)
  <2>1. CASE h.do = "fill"
    BY <1>2, <1>6, <2>1 DEF Under
  <2>2. CASE h.do = "erase"
    <3>1. Removable(Name(q)) /\ ents[d][Name(q)] = h.ino
      BY <1>2, <1>6, <2>2 DEF EntsFit
    <3>2. Name(q) \in AllNames
      <4>1. path[q] # <<>>
        BY <1>2, <2>2 DEF StepFits, Passing, TypeOK
      <4>2. path[q] \in Seq(AllNames)
        BY DEF TypeOK
      <4> QED
        BY <4>1, <4>2 DEF Name
    <3>3. Name(q) \in Names
      BY <3>1, <3>2 DEF Removable, AllNames
    <3> QED
      BY <3>1, <3>3 DEF Under
  <2> QED
    BY <1>6, <2>1, <2>2
<1> QED
  BY <1>7, <1>8

\* Processes that ilock() an inode, other than to put it, never wait in a circle, however
\* many there are: what each of them waits for would be under what another waits for.
THEOREM ParentsFirst == Spec => []LockOrder
<1>1. FsInv => LockOrder
  <2> SUFFICES ASSUME FsInv, NEW P \in SUBSET {p \in Procs : ~Putting(p)}, Stuck(P)
               PROVE  FALSE
    BY DEF LockOrder
  <2>1. P # {} /\ \A p \in P : p \in Procs /\ ~Putting(p)
    BY DEF Stuck
  <2>2. \A p \in P : Wants(p) # NoIno /\ \E q \in P : lock[Wants(p)] = q
    BY DEF Stuck, WaitsFor
  <2> DEFINE S == {Wants(p) : p \in P}
  <2>3. \A p \in P : Wants(p) \in Inums
    <3>1. ASSUME NEW p \in P PROVE Wants(p) \in Inums
      <4>1. Wants(p) # NoIno /\ todo[p] # <<>>
        BY <2>2 DEF Wants
      <4>2. Ino(p) \in Inums \cup {NoIno} /\ Dir(p) \in Inums \cup {NoIno}
        BY <2>1, <4>1, AtHead DEF FsInv
      <4> QED
        BY <4>1, <4>2 DEF Wants
    <3> QED
      BY <3>1
  <2>4. PICK d \in S : \A i \in S : ~Under(d, i)
    <3>1. S \in SUBSET Inums /\ S # {}
      BY <2>1, <2>3
    <3> QED
      BY <3>1 DEF FsInv, NoLoop
  <2>5. PICK p \in P : d = Wants(p)
    BY <2>4
  <2>6. PICK q \in P : lock[d] = q
    BY <2>2, <2>5
  <2>7. Under(d, Wants(q)) /\ Wants(q) \in S
    BY <2>1, <2>2, <2>3, <2>5, <2>6, HeldAbove
  <2> QED
    BY <2>4, <2>7
<1> QED
  BY <1>1, NamesInvariant, PTL
=============================================================================
