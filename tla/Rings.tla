--------------------------------- MODULE Rings ---------------------------------
(***************************************************************************)
(* Ring buffers with counters that wrap: the arithmetic that the proofs    *)
(* about pipes and about the console share.  A ring of P slots is indexed  *)
(* by counters modulo W, a multiple of P.                                  *)
(***************************************************************************)
EXTENDS Integers, Sequences, SequenceTheorems, TLAPS

-----------------------------------------------------------------------------
(* The counters                                                            *)

\* The arithmetic of counters that wrap, in the only two cases that occur.
LEMMA ModSmall ==
  ASSUME NEW W \in Nat \ {0}, NEW n \in 0..W-1
  PROVE  n % W = n
  BY SMT

\* The second of the two cases.
LEMMA ModOnce ==
  ASSUME NEW W \in Nat \ {0}, NEW n \in W..W+W-1
  PROVE  n % W = n - W
  BY SMT

\* A counter stays below what it is counted modulo.
LEMMA ModRange ==
  ASSUME NEW W \in Nat \ {0}, NEW n \in Nat
  PROVE  n % W \in 0..W-1
  BY SMT

\* How far w is ahead of r, without the remainder.
LEMMA Ahead ==
  ASSUME NEW W \in Nat \ {0}, NEW r \in 0..W-1, NEW w \in 0..W-1
  PROVE  (w + W - r) % W = IF r <= w THEN w - r ELSE w + W - r
<1>1. CASE r <= w
  <2>1. w + W - r \in W..W+W-1  BY <1>1
  <2> QED  BY <1>1, <2>1, ModOnce
<1>2. CASE ~(r <= w)
  <2>1. w + W - r \in 0..W-1  BY <1>2
  <2> QED  BY <1>2, <2>1, ModSmall
<1> QED  BY <1>1, <1>2

\* A counter that is moved on by less than W.
LEMMA Moved ==
  ASSUME NEW W \in Nat \ {0}, NEW w \in 0..W-1, NEW k \in 0..W-1
  PROVE  (w + k) % W = IF w + k < W THEN w + k ELSE w + k - W
<1>1. CASE w + k < W
  <2>1. w + k \in 0..W-1  BY <1>1
  <2> QED  BY <1>1, <2>1, ModSmall
<1>2. CASE ~(w + k < W)
  <2>1. w + k \in W..W+W-1  BY <1>2
  <2> QED  BY <1>2, <2>1, ModOnce
<1> QED  BY <1>1, <1>2

\* Writing k bytes that fit makes the ring k bytes fuller.
LEMMA AheadWrite ==
  ASSUME NEW W \in Nat \ {0}, NEW r \in 0..W-1, NEW w \in 0..W-1,
         NEW k \in Nat, ((w + W - r) % W) + k < W
  PROVE  /\ (w + k) % W \in 0..W-1
         /\ (((w + k) % W) + W - r) % W = ((w + W - r) % W) + k
<1>1. (w + W - r) % W = IF r <= w THEN w - r ELSE w + W - r  BY Ahead
<1>2. k \in 0..W-1  BY <1>1
<1> DEFINE v == (w + k) % W
<1>3. v = IF w + k < W THEN w + k ELSE w + k - W  BY <1>2, Moved
<1>4. v \in 0..W-1  BY <1>2, <1>3
<1> HIDE DEF v
<1>5. (v + W - r) % W = IF r <= v THEN v - r ELSE v + W - r  BY <1>4, Ahead
<1>6. (v + W - r) % W = ((w + W - r) % W) + k  BY <1>1, <1>2, <1>3, <1>5
<1> QED  BY <1>4, <1>6 DEF v

\* Reading k bytes that are there makes it k bytes emptier.
LEMMA AheadRead ==
  ASSUME NEW W \in Nat \ {0}, NEW r \in 0..W-1, NEW w \in 0..W-1,
         NEW k \in Nat, k <= (w + W - r) % W
  PROVE  \E v \in 0..W-1 : /\ v = (r + k) % W
                           /\ (w + W - v) % W = ((w + W - r) % W) - k
<1>1. (w + W - r) % W = IF r <= w THEN w - r ELSE w + W - r  BY Ahead
<1>2. k \in 0..W-1  BY <1>1
<1> DEFINE v == (r + k) % W
<1>3. v = IF r + k < W THEN r + k ELSE r + k - W  BY <1>2, Moved
<1>4. v \in 0..W-1  BY <1>2, <1>3
<1>v. v = (r + k) % W  OBVIOUS
<1> HIDE DEF v
<1>5. (w + W - v) % W = IF v <= w THEN w - v ELSE w + W - v  BY <1>4, Ahead
<1>6. (w + W - v) % W = ((w + W - r) % W) - k  BY <1>1, <1>2, <1>3, <1>5
<1> QED  BY <1>4, <1>6, <1>v

-----------------------------------------------------------------------------
(* Remainders                                                              *)

\* Quotient and remainder, of integers.
LEMMA IntDivision ==
  ASSUME NEW P \in Int, NEW n \in Int, P > 0
  PROVE  n = P * (n \div P) + (n % P)
  BY SMT

\* Quotient and remainder.
LEMMA Division ==
  ASSUME NEW P \in Nat \ {0}, NEW n \in Nat
  PROVE  /\ n % P \in 0..P-1
         /\ n \div P \in Nat
         /\ n = P * (n \div P) + (n % P)
<1>1. n % P \in 0..P-1  BY SMT
<1>2. n \div P \in Int  BY SMT
<1>3. n = P * (n \div P) + (n % P)  BY IntDivision
<1>4. n \div P \in Nat
  <2> SUFFICES ASSUME n \div P <= -1 PROVE FALSE  BY <1>2
  <2> DEFINE q == n \div P
  <2>1. q \in Int /\ q <= -1 /\ n = P * q + (n % P)  BY <1>2, <1>3
  <2> HIDE DEF q
  <2>2. P * q <= -P  BY <2>1
  <2> QED  BY <1>1, <2>1, <2>2
<1> QED  BY <1>1, <1>2, <1>3, <1>4

\* Different multiples are P apart.
LEMMA Multiples ==
  ASSUME NEW P \in Nat \ {0}, NEW q1 \in Nat, NEW q2 \in Nat, q1 < q2
  PROVE  P * q1 + P <= P * q2
<1>1. PICK d \in Nat : q2 = q1 + 1 + d
  <2>1. q2 - q1 - 1 \in Nat  OBVIOUS
  <2> QED  BY <2>1
<1>2. P * q2 = P * q1 + P + P * d /\ P * d >= 0  BY <1>1
<1> QED  BY <1>2

\* Numbers less than P apart have different remainders.
LEMMA NearDistinct ==
  ASSUME NEW P \in Nat \ {0}, NEW a \in Nat, NEW b \in Nat, a < b, b < a + P
  PROVE  a % P # b % P
<1> SUFFICES ASSUME a % P = b % P PROVE FALSE  OBVIOUS
<1> DEFINE qa == a \div P
<1> DEFINE qb == b \div P
<1>1. qa \in Nat /\ qb \in Nat /\ a = P * qa + (a % P) /\ b = P * qb + (b % P)
      /\ a % P \in 0..P-1
  BY Division
<1> HIDE DEF qa, qb
<1>2. CASE qa < qb
  <2>1. P * qa + P <= P * qb  BY <1>1, <1>2, Multiples
  <2> QED  BY <1>1, <2>1
<1>3. CASE qb < qa
  <2>1. P * qb + P <= P * qa  BY <1>1, <1>3, Multiples
  <2> QED  BY <1>1, <2>1
<1>4. CASE qa = qb  BY <1>1, <1>4
<1> QED  BY <1>1, <1>2, <1>3, <1>4

\* A whole number of rounds leaves the remainder alone.
LEMMA WholeRounds ==
  ASSUME NEW P \in Nat \ {0}, NEW W \in Nat, NEW n \in Nat, NEW m \in Nat,
         W % P = 0, n = m + W
  PROVE  n % P = m % P
<1> DEFINE qa == n \div P
           qb == m \div P
           qw == W \div P
           ra == n % P
           rb == m % P
           s  == qb + qw
<1>1. qa \in Nat /\ n = P * qa + ra /\ ra \in 0..P-1
  BY Division
<1>2. qb \in Nat /\ m = P * qb + rb /\ rb \in 0..P-1
  BY Division
<1>3. qw \in Nat /\ W = P * qw
  BY Division
<1>4. P * s = P * qb + P * qw /\ s \in Nat  BY <1>2, <1>3
<1> DEFINE x == P * qa
           y == P * s
<1> HIDE DEF qa, qb, qw, ra, rb, s
<1>5. x \in Nat /\ y \in Nat /\ x + ra = y + rb /\ ra \in 0..P-1 /\ rb \in 0..P-1
  BY <1>1, <1>2, <1>3, <1>4
<1>6. /\ qa < s => x + P <= y
      /\ s < qa => y + P <= x
      /\ qa = s => x = y
      /\ qa < s \/ s < qa \/ qa = s
  BY <1>1, <1>4, Multiples
<1> HIDE DEF x, y
<1>7. ra = rb  BY <1>5, <1>6
<1> QED  BY <1>7 DEF ra, rb

-----------------------------------------------------------------------------
(* Slots                                                                   *)

\* Slots and counters of a ring.
Ring(P, W) == P \in Nat \ {0} /\ W \in Nat \ {0} /\ P < W /\ W % P = 0

\* The slot of the i-th byte from counter n on.
RingSlot(n, i, P, W) == ((n + i - 1) % W) % P

\* The wrap of the counters is a whole number of rounds.
LEMMA WrapRounds ==
  ASSUME NEW P \in Nat \ {0}, NEW W \in Nat \ {0}, NEW n \in Nat, NEW m \in Nat,
         Ring(P, W), n = m + W
  PROVE  n % P = m % P
<1>1. P \in Nat \ {0} /\ W \in Nat /\ W % P = 0  BY DEF Ring
<1> QED  BY <1>1, WholeRounds

\* A slot is one of the ring's, and the wrap of the counters does not show.
LEMMA SlotIs ==
  ASSUME NEW P \in Nat \ {0}, NEW W \in Nat \ {0}, NEW n \in 0..W-1, NEW i \in 1..P,
         Ring(P, W)
  PROVE  RingSlot(n, i, P, W) = (n + i - 1) % P /\ RingSlot(n, i, P, W) \in 0..P-1
<1>z. P \in Nat \ {0} /\ W \in Nat \ {0} /\ P < W  BY DEF Ring
<1>1. n + i - 1 \in Nat  BY <1>z
<1>2. (n + i - 1) % P \in 0..P-1  BY <1>z, <1>1, ModRange
<1>3. CASE n + i - 1 < W
  <2>1. n + i - 1 \in 0..W-1  BY <1>z, <1>1, <1>3
  <2>2. (n + i - 1) % W = n + i - 1  BY <1>z, <2>1, ModSmall
  <2> QED  BY <1>z, <1>2, <2>2 DEF RingSlot
<1>4. CASE ~(n + i - 1 < W)
  <2>1. n + i - 1 \in W..W+W-1  BY <1>z, <1>1, <1>4
  <2>2. (n + i - 1) % W = (n + i - 1) - W
    <3> DEFINE a == n + i - 1
    <3>1. a \in W..W+W-1  BY <2>1
    <3> HIDE DEF a
    <3>2. a % W = a - W  BY <1>z, <3>1, ModOnce
    <3> QED  BY <3>2 DEF a
  <2>3. ((n + i - 1) - W) % P = (n + i - 1) % P
    <3> DEFINE a == n + i - 1
               b == (n + i - 1) - W
    <3>1. a \in Nat /\ b \in Nat /\ a = b + W  BY <1>z, <1>1, <2>1
    <3> HIDE DEF a, b
    <3>2. a % P = b % P  BY <3>1, WrapRounds
    <3> QED  BY <1>z, <3>2 DEF a, b
  <2> QED  BY <1>z, <1>2, <2>2, <2>3 DEF RingSlot
<1> QED  BY <1>z, <1>3, <1>4

\* No two of P consecutive bytes share a slot.
LEMMA SlotsDistinct ==
  ASSUME NEW P \in Nat \ {0}, NEW W \in Nat \ {0}, NEW n \in 0..W-1,
         NEW i \in 1..P, NEW j \in 1..P,
         Ring(P, W), RingSlot(n, i, P, W) = RingSlot(n, j, P, W)
  PROVE  i = j
<1>z. P \in Nat \ {0} /\ W \in Nat \ {0} /\ P < W  BY DEF Ring
<1>1. (n + i - 1) % P = (n + j - 1) % P  BY <1>z, SlotIs
<1>2. n + i - 1 \in Nat /\ n + j - 1 \in Nat  BY <1>z
<1>3. CASE i < j
  <2>1. n + i - 1 < n + j - 1 /\ n + j - 1 < n + i - 1 + P  BY <1>z, <1>3
  <2> QED  BY <1>z, <1>1, <1>2, <2>1, NearDistinct
<1>4. CASE j < i
  <2>1. n + j - 1 < n + i - 1 /\ n + i - 1 < n + j - 1 + P  BY <1>z, <1>4
  <2> QED  BY <1>z, <1>1, <1>2, <2>1, NearDistinct
<1> QED  BY <1>z, <1>3, <1>4

\* Slots counted from a counter that has moved on by k.
LEMMA SlotMoved ==
  ASSUME NEW P \in Nat \ {0}, NEW W \in Nat \ {0}, NEW n \in 0..W-1,
         NEW k \in 0..P, NEW i \in 1..P-k, Ring(P, W)
  PROVE  RingSlot((n + k) % W, i, P, W) = RingSlot(n, k + i, P, W)
<1>z. /\ P \in Nat \ {0} /\ W \in Nat \ {0} /\ P < W
      /\ k \in Nat /\ i \in Nat \ {0} /\ k + i <= P
  BY DEF Ring
<1> DEFINE v == (n + k) % W
<1>1. v = IF n + k < W THEN n + k ELSE n + k - W
  <2>1. k \in 0..W-1  BY <1>z
  <2> QED  BY <1>z, <2>1, Moved
<1> HIDE DEF v
<1>2. v \in 0..W-1 /\ i \in 1..P /\ k + i \in 1..P  BY <1>z, <1>1
<1>3. RingSlot(v, i, P, W) = (v + i - 1) % P
      /\ RingSlot(n, k + i, P, W) = (n + (k + i) - 1) % P
  BY <1>z, <1>2, SlotIs
<1>4. (v + i - 1) % P = (n + (k + i) - 1) % P
  <2>1. CASE n + k < W
    <3>1. v + i - 1 = n + (k + i) - 1  BY <1>z, <1>1, <2>1
    <3> QED  BY <1>z, <3>1
  <2>2. CASE ~(n + k < W)
    <3> DEFINE a == n + (k + i) - 1
               b == v + i - 1
    <3>1. a \in Nat /\ b \in Nat /\ a = b + W  BY <1>z, <1>1, <2>2
    <3> HIDE DEF a, b
    <3>2. a % P = b % P  BY <3>1, WrapRounds
    <3> QED  BY <1>z, <3>2 DEF a, b
  <2> QED  BY <1>z, <2>1, <2>2
<1> QED  BY <1>z, <1>2, <1>3, <1>4 DEF v

-----------------------------------------------------------------------------
(* The contents of a ring as a sequence                                    *)

\* m bytes of the ring d, from counter n on.
RingSeq(d, n, m, P, W) == [i \in 1..m |-> d[RingSlot(n, i, P, W)]]

\* What is in the ring, of P slots.
Held(d, P) == {d[z] : z \in 0..P-1}

\* Operators of sequences under names of their own: a lemma whose conclusion has
\* only operators that are not expanded is one that the provers can instantiate.
Part(q, i, j) == SubSeq(q, i, j)
Join(q, s)    == q \o s
Size(q)       == Len(q)

\* The bytes of a ring are a sequence of what is in the ring,
LEMMA RingSeqIn ==
  ASSUME NEW P \in Nat \ {0}, NEW W \in Nat \ {0}, NEW d,
         NEW n \in 0..W-1, NEW m \in 0..P, Ring(P, W)
  PROVE  RingSeq(d, n, m, P, W) \in Seq(Held(d, P))
<1> DEFINE S == Held(d, P)
           q == RingSeq(d, n, m, P, W)
<1>1. ASSUME NEW i \in 1..m PROVE d[RingSlot(n, i, P, W)] \in S
  <2>1. i \in 1..P  OBVIOUS
  <2>2. RingSlot(n, i, P, W) \in 0..P-1  BY <2>1, SlotIs
  <2> QED  BY <2>2 DEF Held
<1>2. m \in Nat  OBVIOUS
<1> HIDE DEF S
<1>3. q \in [1..m -> S]  BY <1>1 DEF RingSeq
<1> HIDE DEF q
<1>4. q \in Seq(S)  BY <1>2, <1>3
<1> QED  BY <1>4 DEF q, S

\* of the length asked for.
LEMMA RingSeqSize ==
  ASSUME NEW P, NEW W, NEW d, NEW n, NEW m \in Nat
  PROVE  Size(RingSeq(d, n, m, P, W)) = m
<1> DEFINE q == RingSeq(d, n, m, P, W)
           S == {q[i] : i \in 1..m}
<1>1. q \in [1..m -> S]  BY DEF RingSeq
<1> HIDE DEF q, S
<1>2. q \in Seq(S) /\ Len(q) = m  BY <1>1
<1> QED  BY <1>2 DEF q, Size

\* Their type.
LEMMA RingSeqType ==
  ASSUME NEW P \in Nat \ {0}, NEW W \in Nat \ {0}, NEW S, NEW d \in [0..P-1 -> S],
         NEW n \in 0..W-1, NEW m \in 0..P, Ring(P, W)
  PROVE  RingSeq(d, n, m, P, W) \in Seq(S)
<1> DEFINE q == RingSeq(d, n, m, P, W)
           D == Held(d, P)
<1>0. m \in Nat  OBVIOUS
<1>a. q \in Seq(D)  BY RingSeqIn
<1>b. Size(q) = m  BY <1>0, RingSeqSize
<1>1. q \in Seq(D) /\ Len(q) = m  BY <1>a, <1>b DEF Size
<1>2. D \subseteq S  BY DEF Held
<1> HIDE DEF q, D
<1>3. q \in [1..m -> S] /\ m \in Nat  BY <1>1, <1>2
<1>4. q \in Seq(S)  BY <1>3
<1> QED  BY <1>4 DEF q

\* A sequence, whatever is in it.
IsSeq(s) == s \in Seq({s[i] : i \in 1..Len(s)})

\* Every sequence is one of what is in it.
LEMMA SeqIsSeq ==
  ASSUME NEW S, NEW s \in Seq(S)
  PROVE  IsSeq(s)
<1> DEFINE D == {s[i] : i \in 1..Len(s)}
<1>1. Len(s) \in Nat /\ s \in [1..Len(s) -> D]  OBVIOUS
<1> HIDE DEF D
<1>2. s \in Seq(D)  BY <1>1
<1> QED  BY <1>2 DEF IsSeq, D

\* The ring f holds m bytes of d and then s, l bytes together.
Appended(f, d, n, m, s, l, P, W) ==
  /\ l = m + Len(s)
  /\ \A i \in 1..m : f[RingSlot(n, i, P, W)] = d[RingSlot(n, i, P, W)]
  /\ \A j \in 1..Len(s) : f[RingSlot(n, m + j, P, W)] = s[j]

\* More bytes behind those that were there.
LEMMA RingSeqGrows ==
  ASSUME NEW P \in Nat \ {0}, NEW W \in Nat \ {0}, NEW d, NEW f, NEW s,
         NEW n \in 0..W-1, NEW m \in 0..P, NEW l \in 0..P,
         Ring(P, W), IsSeq(s), Appended(f, d, n, m, s, l, P, W)
  PROVE  RingSeq(f, n, l, P, W) = Join(RingSeq(d, n, m, P, W), s)
<1> DEFINE D == Held(d, P)
           F == Held(f, P)
           E == {s[i] : i \in 1..Len(s)}
           S == D \cup F \cup E
           k == Len(s)
           q == RingSeq(d, n, m, P, W)
           t == RingSeq(f, n, l, P, W)
<1>m. m \in Nat /\ l \in Nat  OBVIOUS
<1>a. q \in Seq(D) /\ t \in Seq(F)  BY RingSeqIn
<1>b. Size(q) = m  BY <1>m, RingSeqSize
<1>c. Size(t) = l  BY <1>m, RingSeqSize
<1>q. q \in Seq(D) /\ Len(q) = m  BY <1>a, <1>b DEF Size
<1>1. \A i \in 1..m : q[i] = d[RingSlot(n, i, P, W)]  BY DEF RingSeq
<1>t. t \in Seq(F) /\ Len(t) = l  BY <1>a, <1>c DEF Size
<1>2. \A i \in 1..l : t[i] = f[RingSlot(n, i, P, W)]  BY DEF RingSeq
<1>3. s \in Seq(E)  BY DEF IsSeq
<1> HIDE DEF D, E, F, q, t
<1>4. q \in Seq(S) /\ t \in Seq(S) /\ s \in Seq(S)
  <2>1. \A A : A \subseteq S => Seq(A) \subseteq Seq(S)  OBVIOUS
  <2>2. D \subseteq S /\ E \subseteq S /\ F \subseteq S  OBVIOUS
  <2> HIDE DEF S
  <2> QED  BY <1>q, <1>t, <1>3, <2>1, <2>2
<1> HIDE DEF S
<1>5. k \in Nat /\ l = m + k /\ m \in Nat  BY <1>4, <1>m DEF Appended
<1>6. /\ q \o s \in Seq(S) /\ Len(q \o s) = m + k
      /\ \A i \in 1..m+k : (q \o s)[i] = IF i <= m THEN q[i] ELSE s[i - m]
  BY <1>q, <1>4, ConcatProperties
<1>7. ASSUME NEW i \in 1..l PROVE t[i] = (q \o s)[i]
  <2>1. CASE i <= m
    <3>1. i \in 1..m /\ i \in 1..m+k  BY <1>5, <2>1
    <3> QED  BY <1>1, <1>2, <1>5, <1>6, <2>1, <3>1 DEF Appended
  <2>2. CASE ~(i <= m)
    <3>1. i - m \in 1..k /\ m + (i - m) = i /\ i \in 1..m+k  BY <1>5, <2>2
    <3>2. f[RingSlot(n, m + (i - m), P, W)] = s[i - m]  BY <3>1 DEF Appended
    <3>3. t[i] = s[i - m]  BY <1>2, <3>1, <3>2
    <3> QED  BY <1>6, <2>2, <3>1, <3>3
  <2> QED  BY <2>1, <2>2
<1>8. t = q \o s  BY <1>t, <1>4, <1>5, <1>6, <1>7, SeqEqual
<1> QED  BY <1>8 DEF q, t, Join

\* The first k bytes are the front of the first m.
LEMMA RingSeqFront ==
  ASSUME NEW P \in Nat \ {0}, NEW W \in Nat \ {0}, NEW d,
         NEW n \in 0..W-1, NEW m \in 0..P, NEW k \in 0..m, Ring(P, W)
  PROVE  RingSeq(d, n, k, P, W) = Part(RingSeq(d, n, m, P, W), 1, k)
<1> DEFINE S == Held(d, P)
           q == RingSeq(d, n, m, P, W)
           s == RingSeq(d, n, k, P, W)
<1>m. m \in Nat /\ k \in 0..P /\ k \in Nat  OBVIOUS
<1>a. q \in Seq(S) /\ s \in Seq(S)  BY <1>m, RingSeqIn
<1>b. Size(q) = m  BY <1>m, RingSeqSize
<1>c. Size(s) = k  BY <1>m, RingSeqSize
<1>q. q \in Seq(S) /\ Len(q) = m  BY <1>a, <1>b DEF Size
<1>1. /\ q \in Seq(S) /\ Len(q) = m
      /\ \A i \in 1..m : q[i] = d[RingSlot(n, i, P, W)]
  BY <1>q DEF RingSeq
<1>2. k \in Nat /\ m \in Nat  OBVIOUS
<1>s. s \in Seq(S) /\ Len(s) = k  BY <1>a, <1>c DEF Size
<1>3. /\ s \in Seq(S) /\ Len(s) = k
      /\ \A i \in 1..k : s[i] = d[RingSlot(n, i, P, W)]
  BY <1>s DEF RingSeq
<1> HIDE DEF q, s, S
<1>6. s = SubSeq(q, 1, k)
  <2> DEFINE u == SubSeq(q, 1, k)
  <2>1. \A i \in 1..k : q[i] \in S  BY <1>1, <1>2
  <2>2. /\ u \in Seq(S) /\ Len(u) = IF 1 <= k THEN k - 1 + 1 ELSE 0
        /\ \A i \in 1..k-1+1 : u[i] = q[1+i-1]
    BY <1>2, <2>1, SubSeqProperties
  <2> HIDE DEF u
  <2>3. Len(u) = k /\ \A i \in 1..k : s[i] = u[i]  BY <1>1, <1>2, <1>3, <2>2
  <2> QED  BY <1>3, <2>2, <2>3, SeqEqual DEF u
<1> QED  BY <1>6 DEF q, s, Part

\* The bytes from counter n + k on are what is behind the front.
LEMMA RingSeqRest ==
  ASSUME NEW P \in Nat \ {0}, NEW W \in Nat \ {0}, NEW d,
         NEW n \in 0..W-1, NEW m \in 0..P, NEW k \in 0..m, Ring(P, W)
  PROVE  RingSeq(d, (n + k) % W, m - k, P, W) = Part(RingSeq(d, n, m, P, W), k + 1, m)
<1> DEFINE S == Held(d, P)
           q == RingSeq(d, n, m, P, W)
           v == (n + k) % W
           l == m - k
           t == RingSeq(d, v, l, P, W)
<1>0. v \in 0..W-1
  <2>1. n + k \in Nat  OBVIOUS
  <2> QED  BY <2>1, ModRange
<1>m. m \in Nat  OBVIOUS
<1>a. q \in Seq(S)  BY RingSeqIn
<1>b. Size(q) = m  BY <1>m, RingSeqSize
<1>q. q \in Seq(S) /\ Len(q) = m  BY <1>a, <1>b DEF Size
<1>1. /\ q \in Seq(S) /\ Len(q) = m
      /\ \A i \in 1..m : q[i] = d[RingSlot(n, i, P, W)]
  BY <1>q DEF RingSeq
<1>2. k \in 0..P /\ l \in 0..P /\ k \in Nat /\ m \in Nat  OBVIOUS
<1>4. ASSUME NEW i \in 1..l
      PROVE  RingSlot(v, i, P, W) = RingSlot(n, k + i, P, W)
  <2>1. k \in 0..P /\ i \in 1..P-k  OBVIOUS
  <2> QED  BY <2>1, SlotMoved
<1>5. /\ t \in Seq(S) /\ Len(t) = l
      /\ \A i \in 1..l : t[i] = d[RingSlot(v, i, P, W)]
  <2> HIDE DEF v, l
  <2>0. l \in 0..P /\ l \in Nat  BY <1>2
  <2>1. t \in Seq(S)  BY <1>0, <2>0, RingSeqIn
  <2>2. Size(t) = l  BY <2>0, RingSeqSize
  <2> QED  BY <2>1, <2>2 DEF RingSeq, Size
<1> HIDE DEF q, t, v, S
<1>7. t = SubSeq(q, k + 1, m)
  <2> DEFINE u == SubSeq(q, k + 1, m)
  <2>1. \A i \in k+1..m : q[i] \in S  BY <1>1, <1>2
  <2>2. /\ u \in Seq(S) /\ Len(u) = IF k + 1 <= m THEN m - (k + 1) + 1 ELSE 0
        /\ \A i \in 1..m-(k+1)+1 : u[i] = q[(k+1)+i-1]
    BY <1>2, <2>1, SubSeqProperties
  <2> HIDE DEF u
  <2>3. Len(u) = l  BY <1>2, <2>2
  <2>4. ASSUME NEW i \in 1..l PROVE t[i] = u[i]
    <3>1. (k + 1) + i - 1 = k + i /\ i \in 1..m-(k+1)+1 /\ k + i \in 1..m  BY <1>2
    <3>2. u[i] = q[k + i]  BY <2>2, <3>1
    <3>3. q[k + i] = d[RingSlot(n, k + i, P, W)]  BY <1>1, <3>1
    <3>4. t[i] = d[RingSlot(n, k + i, P, W)]  BY <1>4, <1>5
    <3> QED  BY <3>2, <3>3, <3>4
  <2> QED  BY <1>5, <2>2, <2>3, <2>4, SeqEqual DEF u
<1> QED  BY <1>7 DEF q, t, v, Part

\* The front and what is behind it, together again.
LEMMA RingSeqSplit ==
  ASSUME NEW P \in Nat \ {0}, NEW W \in Nat \ {0}, NEW d,
         NEW n \in 0..W-1, NEW m \in 0..P, NEW k \in 0..P-m, Ring(P, W)
  PROVE  RingSeq(d, n, m + k, P, W)
           = Join(RingSeq(d, n, m, P, W), RingSeq(d, (n + m) % W, k, P, W))
<1> DEFINE v == (n + m) % W
           l == m + k
           s == RingSeq(d, v, k, P, W)
<1>1. v \in 0..W-1
  <2>1. n + m \in Nat  OBVIOUS
  <2> QED  BY <2>1, ModRange
<1>2. k \in 0..P /\ k \in Nat /\ m \in Nat /\ l \in 0..P  OBVIOUS
<1>3. \A j \in 1..k : RingSlot(v, j, P, W) = RingSlot(n, m + j, P, W)
  <2> SUFFICES ASSUME NEW j \in 1..k
               PROVE  RingSlot(v, j, P, W) = RingSlot(n, m + j, P, W)
    OBVIOUS
  <2>1. m \in 0..P /\ j \in 1..P-m  OBVIOUS
  <2> QED  BY <2>1, SlotMoved
<1> HIDE DEF v
<1>4. s \in Seq(Held(d, P))  BY <1>1, <1>2, RingSeqIn
<1>5. Size(s) = k  BY <1>2, RingSeqSize
<1>6. \A j \in 1..k : s[j] = d[RingSlot(v, j, P, W)]  BY DEF RingSeq
<1> HIDE DEF s
<1>7. IsSeq(s)  BY <1>4, SeqIsSeq
<1>8. Appended(d, d, n, m, s, l, P, W)  BY <1>3, <1>5, <1>6 DEF Appended, Size
<1> HIDE DEF l
<1>9. RingSeq(d, n, l, P, W) = Join(RingSeq(d, n, m, P, W), s)
  BY <1>2, <1>7, <1>8, RingSeqGrows
<1> QED  BY <1>9 DEF l, s, v

\* The array of a ring, and the ring with one more byte.
IsRing(d, P) == d = [z \in 0..P-1 |-> d[z]]
Put(d, n, m, c, P, W) == [d EXCEPT ![RingSlot(n, m + 1, P, W)] = c]

\* One more byte behind those that were there,
LEMMA RingSeqPut ==
  ASSUME NEW P \in Nat \ {0}, NEW W \in Nat \ {0}, NEW d, NEW c,
         NEW n \in 0..W-1, NEW m \in 0..P-1, Ring(P, W), IsRing(d, P)
  PROVE  RingSeq(Put(d, n, m, c, P, W), n, m + 1, P, W)
           = Join(RingSeq(d, n, m, P, W), <<c>>)
<1> DEFINE f == Put(d, n, m, c, P, W)
           s == <<c>>
           l == m + 1
           z == RingSlot(n, l, P, W)
<1>1. l \in 1..P /\ l \in 0..P /\ m \in Nat /\ m \in 0..P  OBVIOUS
<1>2. \A i \in 1..m : RingSlot(n, i, P, W) # z
  <2> SUFFICES ASSUME NEW i \in 1..m, RingSlot(n, i, P, W) = z PROVE FALSE
    OBVIOUS
  <2>1. i \in 1..P /\ i # l  OBVIOUS
  <2> HIDE DEF l
  <2> QED  BY <1>1, <2>1, SlotsDistinct
<1>3. z \in 0..P-1
  <2> HIDE DEF l
  <2> QED  BY <1>1, SlotIs
<1> HIDE DEF z
<1>4. f = [d EXCEPT ![z] = c]  BY DEF Put, z
<1>5. f[z] = c /\ \A x \in 0..P-1 : x # z => f[x] = d[x]  BY <1>3, <1>4 DEF IsRing
<1>6. \A i \in 1..m : RingSlot(n, i, P, W) \in 0..P-1
  <2> SUFFICES ASSUME NEW i \in 1..m PROVE RingSlot(n, i, P, W) \in 0..P-1
    OBVIOUS
  <2>1. i \in 1..P  OBVIOUS
  <2> QED  BY <2>1, SlotIs
<1>7. Len(s) = 1 /\ s[1] = c /\ IsSeq(s)
  <2>1. s \in Seq({c})  OBVIOUS
  <2>2. IsSeq(s)  BY <2>1, SeqIsSeq
  <2> QED  BY <2>2
<1> HIDE DEF f, s
<1>8. \A j \in 1..1 : f[RingSlot(n, m + j, P, W)] = s[j]
  <2> SUFFICES f[RingSlot(n, m + 1, P, W)] = s[1]  OBVIOUS
  <2> QED  BY <1>5, <1>7 DEF z
<1>9. Appended(f, d, n, m, s, l, P, W)
  BY <1>2, <1>5, <1>6, <1>7, <1>8 DEF Appended
<1> HIDE DEF l
<1>10. RingSeq(f, n, l, P, W) = Join(RingSeq(d, n, m, P, W), s)
  BY <1>1, <1>7, <1>9, RingSeqGrows
<1> QED  BY <1>10 DEF f, s, l

\* The same bytes in two rings.
Alike(f, d, n, l, P, W) == RingSeq(f, n, l, P, W) = RingSeq(d, n, l, P, W)

\* which are what they were.
LEMMA RingSeqOther ==
  ASSUME NEW P \in Nat \ {0}, NEW W \in Nat \ {0}, NEW d, NEW c,
         NEW n \in 0..W-1, NEW m \in 0..P-1, NEW l \in 0..m, Ring(P, W), IsRing(d, P)
  PROVE  Alike(Put(d, n, m, c, P, W), d, n, l, P, W)
<1> DEFINE f == Put(d, n, m, c, P, W)
           z == RingSlot(n, m + 1, P, W)
<1>1. ASSUME NEW i \in 1..l
      PROVE  f[RingSlot(n, i, P, W)] = d[RingSlot(n, i, P, W)]
  <2> DEFINE k == m + 1
  <2>1. i \in 1..P /\ k \in 1..P /\ i # k  OBVIOUS
  <2> HIDE DEF k
  <2>2. RingSlot(n, i, P, W) # RingSlot(n, k, P, W)  BY <2>1, SlotsDistinct
  <2>3. RingSlot(n, i, P, W) \in 0..P-1  BY <2>1, SlotIs
  <2>4. f = [d EXCEPT ![z] = c]  BY DEF Put
  <2> QED  BY <2>2, <2>3, <2>4 DEF k, IsRing
<1> HIDE DEF f
<1>2. RingSeq(f, n, l, P, W) = RingSeq(d, n, l, P, W)  BY <1>1 DEF RingSeq
<1> QED  BY <1>2 DEF f, Alike
=============================================================================
