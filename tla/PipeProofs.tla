------------------------------ MODULE PipeProofs ------------------------------
(***************************************************************************)
(* The safety of the pipe, and that it implements one bounded queue of     *)
(* bytes (ByteStream), for any number of processes, any size of the ring   *)
(* and any range of its counters.                                          *)
(***************************************************************************)
EXTENDS Pipe, Rings

-----------------------------------------------------------------------------
(* The ring                                                                *)

\* What TypeOK and the assumption say of the ring, in one place.
LEMMA RingFacts ==
  ASSUME TypeOK
  PROVE  /\ Wrap \in Nat \ {0} /\ PIPESIZE \in Nat \ {0} /\ PIPESIZE < Wrap
         /\ nread \in 0..Wrap-1 /\ nwrite \in 0..Wrap-1
         /\ Count \in 0..PIPESIZE /\ Space \in 0..PIPESIZE
         /\ Space = PIPESIZE - Count
         /\ nread = nwrite <=> Count = 0
<1>1. Wrap \in Nat \ {0} /\ PIPESIZE \in Nat \ {0} /\ PIPESIZE < Wrap
  BY PipeAssumption
<1>2. nread \in 0..Wrap-1 /\ nwrite \in 0..Wrap-1 /\ Count <= PIPESIZE
  BY DEF TypeOK
<1>3. Count = IF nread <= nwrite THEN nwrite - nread ELSE nwrite + Wrap - nread
  BY <1>1, <1>2, Ahead DEF Count
<1>4. Count \in 0..PIPESIZE  BY <1>1, <1>2, <1>3
<1>5. Space \in 0..PIPESIZE /\ Space = PIPESIZE - Count
  BY <1>1, <1>4 DEF Space
<1> QED  BY <1>1, <1>2, <1>3, <1>4, <1>5

\* What the loop of pipewrite() does to the ring.
LEMMA CopyInFacts ==
  ASSUME TypeOK, NEW p \in Procs, NEW k \in Nat, k <= Space, k <= Len(rem[p]),
         CopyIn(p, k), nread' = nread
  PROVE  /\ data' \in [0..PIPESIZE-1 -> Bytes]
         /\ nwrite' \in 0..Wrap-1
         /\ Count' = Count + k /\ Space' = Space - k
<1>1. /\ Wrap \in Nat \ {0} /\ PIPESIZE < Wrap /\ PIPESIZE \in Nat
      /\ nread \in 0..Wrap-1 /\ nwrite \in 0..Wrap-1
      /\ Count \in 0..PIPESIZE /\ Space = PIPESIZE - Count
  BY RingFacts
<1>2. Count + k < Wrap  BY <1>1
<1>3. /\ nwrite' \in 0..Wrap-1
      /\ Count' = Count + k
  BY <1>1, <1>2, AheadWrite DEF Count, CopyIn
<1>4. Space' = Space - k  BY <1>1, <1>3 DEF Space
<1>5. data' \in [0..PIPESIZE-1 -> Bytes]
  <2>1. rem[p] \in Seq(Bytes) /\ data \in [0..PIPESIZE-1 -> Bytes]
    BY DEF TypeOK
  <2>2. \A j \in 1..k : rem[p][j] \in Bytes  BY <2>1
  <2> QED  BY <2>1, <2>2 DEF CopyIn
<1> QED  BY <1>3, <1>4, <1>5

\* Closers are untouched by a step that leaves the ends alone.
LEMMA EndFrame ==
  ASSUME EndInv, UNCHANGED <<holders, open>>,
         \A q \in Procs : /\ pc'[q] = "rclose" <=> pc[q] = "rclose"
                          /\ pc'[q] = "wclose" <=> pc[q] = "wclose"
  PROVE  EndInv'
<1>1. \A e \in Ends : Closing(e)' = Closing(e)  BY DEF Closing, Ends
<1> QED  BY <1>1 DEF EndInv

USE DEF Ends, Reading, Writing

-----------------------------------------------------------------------------
(* One lemma per action: it keeps the inductive invariant                  *)

\* Init establishes it.
LEMMA InitSafe == Init => IInv
<1> SUFFICES ASSUME Init PROVE IInv  OBVIOUS
<1>0. /\ Wrap \in Nat \ {0} /\ PIPESIZE \in Nat \ {0} /\ PIPESIZE < Wrap
      /\ NoProc \notin Procs
  BY PipeAssumption
<1>1. Count = 0 /\ Space = PIPESIZE
  <2>1. nread = 0 /\ nwrite = 0  BY DEF Init
  <2>2. (0 + Wrap - 0) % Wrap = 0  BY <1>0, Ahead
  <2> QED  BY <2>1, <2>2, <1>0 DEF Count, Space
<1>2. PICK p \in Procs :
        /\ holders = [e \in Ends |-> {p}]
        /\ pc = [q \in Procs |-> IF q = p THEN "user" ELSE "unborn"]
  BY DEF Init
<1>3. TypeOK  BY <1>0, <1>1, <1>2 DEF Init, TypeOK
<1>4. LockInv  BY <1>0, <1>2 DEF Init, LockInv
<1>5. HoldInv  BY <1>2 DEF HoldInv
<1>6. EndInv
  <2>1. \A e \in Ends : Closing(e) = {}  BY <1>2 DEF Closing
  <2> QED  BY <1>2, <2>1 DEF Init, EndInv
<1>7. FreeInv  BY DEF Init, FreeInv
<1>8. SleepInv  BY <1>2 DEF SleepInv
<1> QED  BY <1>3, <1>4, <1>5, <1>6, <1>7, <1>8 DEF IInv

\* Steps that leave the ring, the ends and those killed alone, and for one
\* process change what it does, but not from or to sleeping or closing.
LEMMA CallSafe ==
  ASSUME IInv, NEW p \in Procs, NEW s,
         UNCHANGED <<ringVars, endVars, lock, ret, killed, dying>>,
         rem' \in [Procs -> Seq(Bytes)],
         pc[p] \in {"user", "read", "exit"},
         pc' = [pc EXCEPT ![p] = s],
         \/ s = "user"
         \/ s = "read" /\ p \in holders["r"]
         \/ s = "write" /\ p \in holders["w"]
  PROVE  IInv'
<1> USE DEF ringVars, endVars
<1>0. Count' = Count /\ Space' = Space  BY DEF Count, Space
<1>1. TypeOK'  BY <1>0 DEF IInv, TypeOK
<1>2. LockInv'  BY DEF IInv, TypeOK, LockInv
<1>3. HoldInv'  BY DEF IInv, TypeOK, HoldInv
<1>4. EndInv'
  <2>1. \A q \in Procs : /\ pc'[q] = "rclose" <=> pc[q] = "rclose"
                         /\ pc'[q] = "wclose" <=> pc[q] = "wclose"
    BY DEF IInv, TypeOK
  <2> QED  BY <2>1, EndFrame DEF IInv
<1>5. FreeInv'  BY DEF IInv, FreeInv
<1>6. SleepInv'  BY <1>0 DEF IInv, TypeOK, SleepInv
<1> QED  BY <1>1, <1>2, <1>3, <1>4, <1>5, <1>6 DEF IInv

\* The head of pipewrite() and of piperead().
LEMMA WriteCallSafe ==
  ASSUME IInv, NEW p \in Procs, NEW m \in Messages, WriteCall(p, m)
  PROVE  IInv'
<1>1. rem' \in [Procs -> Seq(Bytes)]  BY PipeAssumption DEF IInv, TypeOK, WriteCall
<1> QED  BY <1>1, CallSafe DEF WriteCall

\* piperead() is called.
LEMMA ReadCallSafe ==
  ASSUME IInv, NEW p \in Procs, ReadCall(p)
  PROVE  IInv'
<1>1. rem' \in [Procs -> Seq(Bytes)]  BY DEF IInv, TypeOK, ReadCall, callVars
<1> QED  BY <1>1, CallSafe DEF ReadCall, callVars

\* pipewrite() that succeeds.
LEMMA WriteAllSafe ==
  ASSUME IInv, NEW p \in Procs, WriteAll(p)
  PROVE  IInv'
<1> USE DEF endVars
<1>0. TypeOK /\ rem[p] \in Seq(Bytes)  BY DEF IInv, TypeOK
<1>1. /\ data' \in [0..PIPESIZE-1 -> Bytes] /\ nwrite' \in 0..Wrap-1
      /\ Count' = Count + Len(rem[p]) /\ Space' = Space - Len(rem[p])
  BY <1>0, CopyInFacts DEF WriteAll
<1>2. Count \in 0..PIPESIZE /\ Space \in 0..PIPESIZE /\ Space = PIPESIZE - Count
      /\ PIPESIZE \in Nat \ {0}
  BY <1>0, RingFacts
<1>3. pc' = [q \in Procs |-> IF q = p THEN "user"
                             ELSE IF pc[q] = "rasleep" THEN "read" ELSE pc[q]]
  BY DEF WriteAll, Return, WakeReaders
<1>4. lock = NoProc /\ lock' = NoProc /\ pc[p] = "write"  BY DEF WriteAll
<1>5. TypeOK'
  <2>1. ret' \in [ok : BOOLEAN, bytes : Seq(Bytes)]  BY DEF WriteAll, Return
  <2>2. rem' \in [Procs -> Seq(Bytes)]  BY <1>0 DEF WriteAll, TypeOK
  <2>3. Count' <= PIPESIZE  BY <1>0, <1>1, <1>2 DEF WriteAll
  <2> QED  BY <1>0, <1>1, <1>3, <2>1, <2>2, <2>3 DEF TypeOK, WriteAll
<1>6. LockInv'  BY <1>3, <1>4, PipeAssumption DEF IInv, LockInv
<1>7. HoldInv'  BY <1>3 DEF IInv, HoldInv, WriteAll
<1>8. EndInv'
  <2>1. \A q \in Procs : /\ pc'[q] = "rclose" <=> pc[q] = "rclose"
                         /\ pc'[q] = "wclose" <=> pc[q] = "wclose"
    BY <1>3, <1>4
  <2> QED  BY <2>1, EndFrame DEF IInv, WriteAll
<1>9. FreeInv'  BY DEF IInv, FreeInv, WriteAll
<1>10. SleepInv'
  <2>1. \A q \in Procs : pc[q] \notin {"rsleep", "wsleep"}
    BY <1>4, PipeAssumption DEF IInv, LockInv
  <2>2. \A q \in Procs : pc'[q] \notin {"rsleep", "wsleep", "rasleep"}
    BY <1>3, <2>1
  <2>3. \A q \in Procs : pc'[q] = "wasleep" => Space' = 0 /\ open'["r"]
    BY <1>0, <1>1, <1>2, <1>3 DEF IInv, SleepInv, WriteAll
  <2> QED  BY <2>2, <2>3 DEF SleepInv
<1> QED  BY <1>5, <1>6, <1>7, <1>8, <1>9, <1>10 DEF IInv

\* pipewrite() that fails.
LEMMA WriteFailSafe ==
  ASSUME IInv, NEW p \in Procs, WriteFail(p)
  PROVE  IInv'
<1> USE DEF endVars
<1>0. TypeOK /\ rem[p] \in Seq(Bytes)  BY DEF IInv, TypeOK
<1>2. Count \in 0..PIPESIZE /\ Space \in 0..PIPESIZE /\ Space = PIPESIZE - Count
      /\ PIPESIZE \in Nat \ {0}
  BY <1>0, RingFacts
<1>1. /\ data' \in [0..PIPESIZE-1 -> Bytes] /\ nwrite' \in 0..Wrap-1
      /\ Count' = PIPESIZE /\ Space' = 0
  <2>1. Space <= Len(rem[p])  BY <1>0, <1>2 DEF WriteFail
  <2>2. Count' = Count + Space /\ Space' = Space - Space
        /\ data' \in [0..PIPESIZE-1 -> Bytes] /\ nwrite' \in 0..Wrap-1
    BY <1>0, <1>2, <2>1, CopyInFacts DEF WriteFail
  <2> QED  BY <1>2, <2>2
<1>3. pc' = [pc EXCEPT ![p] = "user"]  BY DEF WriteFail, Return
<1>4. lock = NoProc /\ lock' = NoProc /\ pc[p] = "write"  BY DEF WriteFail
<1>5. TypeOK'
  <2>1. ret' \in [ok : BOOLEAN, bytes : Seq(Bytes)]  BY DEF WriteFail, Return
  <2>2. rem' \in [Procs -> Seq(Bytes)]  BY <1>0 DEF WriteFail, TypeOK
  <2>3. Count' <= PIPESIZE  BY <1>1, <1>2
  <2> QED  BY <1>0, <1>1, <1>3, <2>1, <2>2, <2>3 DEF TypeOK, WriteFail
<1>6. LockInv'  BY <1>0, <1>3, <1>4, PipeAssumption DEF IInv, LockInv, TypeOK
<1>7. HoldInv'  BY <1>0, <1>3 DEF IInv, HoldInv, WriteFail, TypeOK
<1>8. EndInv'
  <2>1. \A q \in Procs : /\ pc'[q] = "rclose" <=> pc[q] = "rclose"
                         /\ pc'[q] = "wclose" <=> pc[q] = "wclose"
    BY <1>0, <1>3, <1>4 DEF TypeOK
  <2> QED  BY <2>1, EndFrame DEF IInv, WriteFail
<1>9. FreeInv'  BY DEF IInv, FreeInv, WriteFail
<1>10. SleepInv'
  <2>1. \A q \in Procs : pc'[q] \notin {"rsleep", "wsleep"}
    BY <1>0, <1>3, <1>4, PipeAssumption DEF IInv, LockInv, TypeOK
  <2>2. \A q \in Procs : pc'[q] = "wasleep" => Space' = 0 /\ open'["r"]
    BY <1>0, <1>1, <1>3 DEF IInv, SleepInv, WriteFail, TypeOK
  <2>3. ASSUME NEW q \in Procs, pc'[q] = "rasleep"
        PROVE  open'["w"] /\ (Count' = 0 \/ killed' # {})
    <3>1. pc[q] = "rasleep"  BY <1>0, <1>3, <2>3 DEF TypeOK
    <3>2. open["w"]  BY <3>1 DEF IInv, SleepInv
    <3>3. CASE p \in killed  BY <3>2, <3>3 DEF WriteFail
    <3>4. open["r"]
      <4>1. q \in holders["r"]  BY <3>1 DEF IInv, HoldInv
      <4> QED  BY <4>1 DEF IInv, EndInv
    <3> QED  BY <3>3, <3>4 DEF WriteFail
  <2> QED  BY <2>1, <2>2, <2>3 DEF SleepInv
<1> QED  BY <1>5, <1>6, <1>7, <1>8, <1>9, <1>10 DEF IInv

\* pipewrite() that finds the pipe full and keeps the lock, about to sleep.
LEMMA WriteFullSafe ==
  ASSUME IInv, NEW p \in Procs, WriteFull(p)
  PROVE  IInv'
<1> USE DEF endVars
<1>0. TypeOK /\ rem[p] \in Seq(Bytes)  BY DEF IInv, TypeOK
<1>2. Count \in 0..PIPESIZE /\ Space \in 0..PIPESIZE /\ Space = PIPESIZE - Count
      /\ PIPESIZE \in Nat \ {0}
  BY <1>0, RingFacts
<1>1. /\ data' \in [0..PIPESIZE-1 -> Bytes] /\ nwrite' \in 0..Wrap-1
      /\ Count' = PIPESIZE /\ Space' = 0
  <2>1. Space <= Len(rem[p])  BY <1>0, <1>2 DEF WriteFull
  <2>2. Count' = Count + Space /\ Space' = Space - Space
        /\ data' \in [0..PIPESIZE-1 -> Bytes] /\ nwrite' \in 0..Wrap-1
    BY <1>0, <1>2, <2>1, CopyInFacts DEF WriteFull
  <2> QED  BY <1>2, <2>2
<1>3. pc' = [q \in Procs |-> IF q = p THEN "wsleep"
                             ELSE IF pc[q] = "rasleep" THEN "read" ELSE pc[q]]
  BY DEF WriteFull, WakeReaders
<1>4. lock = NoProc /\ lock' = p /\ pc[p] = "write"  BY DEF WriteFull
<1>5. TypeOK'
  <2>1. rem' \in [Procs -> Seq(Bytes)]
    <3>1. SubSeq(rem[p], Space + 1, Len(rem[p])) \in Seq(Bytes)
      BY <1>0, <1>2
    <3> QED  BY <1>0, <3>1 DEF WriteFull, TypeOK
  <2>2. Count' <= PIPESIZE  BY <1>1, <1>2
  <2> QED  BY <1>0, <1>1, <1>3, <2>1, <2>2 DEF TypeOK, WriteFull
<1>6. LockInv'  BY <1>3, <1>4, PipeAssumption DEF IInv, LockInv
<1>7. HoldInv'  BY <1>3, <1>4 DEF IInv, HoldInv, WriteFull
<1>8. EndInv'
  <2>1. \A q \in Procs : /\ pc'[q] = "rclose" <=> pc[q] = "rclose"
                         /\ pc'[q] = "wclose" <=> pc[q] = "wclose"
    BY <1>3, <1>4
  <2> QED  BY <2>1, EndFrame DEF IInv, WriteFull
<1>9. FreeInv'  BY DEF IInv, FreeInv, WriteFull
<1>10. SleepInv'
  <2>1. \A q \in Procs : pc[q] \notin {"rsleep", "wsleep"}
    BY <1>4, PipeAssumption DEF IInv, LockInv
  <2>2. \A q \in Procs : pc'[q] \notin {"rsleep", "rasleep"}
    BY <1>3, <2>1
  <2>3. Space' = 0 /\ open'["r"]  BY <1>1 DEF WriteFull
  <2> QED  BY <2>2, <2>3 DEF SleepInv
<1> QED  BY <1>5, <1>6, <1>7, <1>8, <1>9, <1>10 DEF IInv

\* piperead() that finds the pipe empty and keeps the lock, about to sleep.
LEMMA ReadEmptySafe ==
  ASSUME IInv, NEW p \in Procs, ReadEmpty(p)
  PROVE  IInv'
<1> USE DEF ringVars, endVars, callVars
<1>0. TypeOK /\ Count' = Count /\ Space' = Space
  BY DEF IInv, ReadEmpty, Count, Space
<1>1. pc' = [pc EXCEPT ![p] = "rsleep"] /\ pc[p] = "read"  BY DEF ReadEmpty
<1>2. lock = NoProc /\ lock' = p  BY DEF ReadEmpty
<1>3. TypeOK'  BY <1>0, <1>1 DEF TypeOK, ReadEmpty
<1>4. LockInv'  BY <1>0, <1>1, <1>2, PipeAssumption DEF IInv, LockInv, TypeOK
<1>5. HoldInv'  BY <1>0, <1>1 DEF IInv, HoldInv, ReadEmpty, TypeOK
<1>6. EndInv'
  <2>1. \A q \in Procs : /\ pc'[q] = "rclose" <=> pc[q] = "rclose"
                         /\ pc'[q] = "wclose" <=> pc[q] = "wclose"
    BY <1>0, <1>1 DEF TypeOK
  <2> QED  BY <2>1, EndFrame DEF IInv, ReadEmpty
<1>7. FreeInv'  BY DEF IInv, FreeInv, ReadEmpty
<1>8. SleepInv'
  <2>1. Count = 0 /\ open["w"]  BY <1>0, RingFacts DEF ReadEmpty, MustWait
  <2> QED  BY <1>0, <1>1, <2>1 DEF IInv, SleepInv, ReadEmpty, TypeOK
<1> QED  BY <1>3, <1>4, <1>5, <1>6, <1>7, <1>8 DEF IInv

\* piperead() that returns because its process has been killed.
LEMMA ReadFailSafe ==
  ASSUME IInv, NEW p \in Procs, ReadFail(p)
  PROVE  IInv'
<1> USE DEF ringVars, endVars
<1>0. TypeOK /\ Count' = Count /\ Space' = Space
  BY DEF IInv, ReadFail, Count, Space
<1>1. pc' = [pc EXCEPT ![p] = "user"] /\ pc[p] = "read"
  BY DEF ReadFail, Return
<1>3. TypeOK'
  <2>1. ret' \in [ok : BOOLEAN, bytes : Seq(Bytes)]  BY DEF ReadFail, Return
  <2> QED  BY <1>0, <1>1, <2>1 DEF TypeOK, ReadFail
<1>4. LockInv'  BY <1>0, <1>1 DEF IInv, LockInv, ReadFail, TypeOK
<1>5. HoldInv'  BY <1>0, <1>1 DEF IInv, HoldInv, ReadFail, TypeOK
<1>6. EndInv'
  <2>1. \A q \in Procs : /\ pc'[q] = "rclose" <=> pc[q] = "rclose"
                         /\ pc'[q] = "wclose" <=> pc[q] = "wclose"
    BY <1>0, <1>1 DEF TypeOK
  <2> QED  BY <2>1, EndFrame DEF IInv, ReadFail
<1>7. FreeInv'  BY DEF IInv, FreeInv, ReadFail
<1>8. SleepInv'  BY <1>0, <1>1 DEF IInv, SleepInv, ReadFail, TypeOK
<1> QED  BY <1>3, <1>4, <1>5, <1>6, <1>7, <1>8 DEF IInv

\* piperead() that returns bytes, or none at the end of the stream.
LEMMA ReadBytesSafe ==
  ASSUME IInv, NEW p \in Procs, NEW n \in Sizes, ReadBytes(p, n)
  PROVE  IInv'
<1> USE DEF endVars
<1>0. TypeOK  BY DEF IInv
<1>1. /\ Wrap \in Nat \ {0} /\ PIPESIZE \in Nat \ {0}
      /\ nread \in 0..Wrap-1 /\ nwrite \in 0..Wrap-1
      /\ Count \in 0..PIPESIZE /\ Space \in 0..PIPESIZE /\ n \in Nat
  BY <1>0, RingFacts, PipeAssumption
<1>2. PICK k \in 0..Count : k = Least(n, Count)  BY <1>1 DEF Least
<1>3. /\ nread' = (nread + k) % Wrap /\ nwrite' = nwrite
      /\ ret' = [ok |-> TRUE, bytes |-> [j \in 1..k |-> data[Slot(nread, j)]]]
      /\ pc' = [q \in Procs |-> IF q = p THEN "user"
                                ELSE IF pc[q] = "wasleep" THEN "write" ELSE pc[q]]
      /\ lock = NoProc /\ lock' = NoProc /\ pc[p] = "read" /\ ~MustWait
  BY <1>2 DEF ReadBytes, Return, WakeWriters
<1>4. nread' \in 0..Wrap-1 /\ Count' = Count - k
  <2>1. k \in Nat /\ k <= (nwrite + Wrap - nread) % Wrap
    BY <1>1, <1>2 DEF Count
  <2>2. nread' = (nread + k) % Wrap /\ nwrite' = nwrite  BY <1>3
  <2>3. PICK v \in 0..Wrap-1 :
          /\ v = (nread + k) % Wrap
          /\ (nwrite + Wrap - v) % Wrap = ((nwrite + Wrap - nread) % Wrap) - k
    BY <1>1, <2>1, AheadRead
  <2>4. nread' = v  BY <2>2, <2>3
  <2>5. Count' = (nwrite + Wrap - v) % Wrap  BY <2>2, <2>4 DEF Count
  <2> QED  BY <2>3, <2>4, <2>5 DEF Count
<1>5. TypeOK'
  <2>1. \A j \in 1..k : Slot(nread, j) \in 0..PIPESIZE-1
    <3> SUFFICES ASSUME NEW j \in 1..k PROVE Slot(nread, j) \in 0..PIPESIZE-1
      OBVIOUS
    <3>1. nread + j - 1 \in Nat  BY <1>1, <1>2
    <3>2. (nread + j - 1) % Wrap \in 0..Wrap-1  BY <1>1, <3>1, ModRange
    <3>3. (nread + j - 1) % Wrap \in Nat  BY <1>1, <3>2
    <3>4. ((nread + j - 1) % Wrap) % PIPESIZE \in 0..PIPESIZE-1
      BY <1>1, <3>3, ModRange
    <3> QED  BY <3>4 DEF Slot
  <2>2. [j \in 1..k |-> data[Slot(nread, j)]] \in Seq(Bytes)
    <3>1. k \in Nat  BY <1>1, <1>2
    <3>2. \A j \in 1..k : data[Slot(nread, j)] \in Bytes
      BY <1>0, <2>1 DEF TypeOK
    <3> QED  BY <3>1, <3>2
  <2>3. ret' \in [ok : BOOLEAN, bytes : Seq(Bytes)]  BY <1>3, <2>2
  <2>4. Count' <= PIPESIZE  BY <1>1, <1>2, <1>4
  <2>5. pc' \in [Procs -> {"unborn", "user", "read", "rsleep", "rasleep", "write",
                  "wsleep", "wasleep", "rclose", "wclose", "exit", "gone"}]
    BY <1>0, <1>3 DEF TypeOK
  <2> QED  BY <1>0, <1>4, <2>3, <2>4, <2>5 DEF TypeOK, ReadBytes
<1>6. LockInv'  BY <1>3, PipeAssumption DEF IInv, LockInv
<1>7. HoldInv'  BY <1>3 DEF IInv, HoldInv, ReadBytes
<1>8. EndInv'
  <2>1. \A q \in Procs : /\ pc'[q] = "rclose" <=> pc[q] = "rclose"
                         /\ pc'[q] = "wclose" <=> pc[q] = "wclose"
    BY <1>3
  <2> QED  BY <2>1, EndFrame DEF IInv, ReadBytes
<1>9. FreeInv'  BY DEF IInv, FreeInv, ReadBytes
<1>10. SleepInv'
  <2>1. \A q \in Procs : pc[q] \notin {"rsleep", "wsleep"}
    BY <1>3, PipeAssumption DEF IInv, LockInv
  <2>2. \A q \in Procs : pc'[q] \notin {"rsleep", "wsleep", "wasleep"}
    BY <1>3, <2>1
  <2>3. ASSUME NEW q \in Procs, pc'[q] = "rasleep"
        PROVE  open'["w"] /\ (Count' = 0 \/ killed' # {})
    <3>1. pc[q] = "rasleep"  BY <1>3, <2>3
    <3>2. open["w"] /\ (Count = 0 \/ killed # {})  BY <3>1 DEF IInv, SleepInv
    <3>3. Count = 0 => Count' = 0  BY <1>1, <1>2, <1>4
    <3> QED  BY <3>2, <3>3 DEF ReadBytes
  <2> QED  BY <2>2, <2>3 DEF SleepInv
<1> QED  BY <1>5, <1>6, <1>7, <1>8, <1>9, <1>10 DEF IInv

\* sleep()
LEMMA SleepOnSafe ==
  ASSUME IInv, NEW p \in Procs, SleepOn(p)
  PROVE  IInv'
<1> USE DEF ringVars, endVars, callVars
<1>0. TypeOK /\ Count' = Count /\ Space' = Space
  BY DEF IInv, SleepOn, Count, Space
<1>1. /\ pc[p] \in {"rsleep", "wsleep"}
      /\ pc' = [pc EXCEPT ![p] = IF pc[p] = "rsleep" THEN "rasleep" ELSE "wasleep"]
  BY <1>0 DEF SleepOn, TypeOK
<1>2. lock = p /\ lock' = NoProc  BY <1>1 DEF SleepOn, IInv, LockInv
<1>3. TypeOK'  BY <1>0, <1>1 DEF TypeOK, SleepOn
<1>4. LockInv'  BY <1>0, <1>1, <1>2, PipeAssumption DEF IInv, LockInv, TypeOK
<1>5. HoldInv'  BY <1>0, <1>1 DEF IInv, HoldInv, SleepOn, TypeOK
<1>6. EndInv'
  <2>1. \A q \in Procs : /\ pc'[q] = "rclose" <=> pc[q] = "rclose"
                         /\ pc'[q] = "wclose" <=> pc[q] = "wclose"
    BY <1>0, <1>1 DEF TypeOK
  <2> QED  BY <2>1, EndFrame DEF IInv, SleepOn
<1>7. FreeInv'  BY DEF IInv, FreeInv, SleepOn
<1>8. SleepInv'  BY <1>0, <1>1 DEF IInv, SleepInv, SleepOn, TypeOK
<1> QED  BY <1>3, <1>4, <1>5, <1>6, <1>7, <1>8 DEF IInv

\* fork()
LEMMA ForkSafe ==
  ASSUME IInv, NEW p \in Procs, NEW c \in Procs, Fork(p, c)
  PROVE  IInv'
<1> USE DEF ringVars, callVars
<1>0. TypeOK /\ Count' = Count /\ Space' = Space
  BY DEF IInv, Fork, Count, Space
<1>1. /\ pc' = [pc EXCEPT ![c] = "user"] /\ pc[p] = "user" /\ pc[c] = "unborn"
      /\ UNCHANGED <<open, freed, lock, killed>>
  BY DEF Fork
<1>2. /\ holders' \in [Ends -> SUBSET Procs]
      /\ \A e \in Ends : /\ holders[e] \subseteq holders'[e]
                         /\ holders'[e] \subseteq holders[e] \cup {c}
                         /\ holders[e] = {} => holders'[e] = {}
  BY <1>0 DEF Fork, TypeOK
<1>3. TypeOK'  BY <1>0, <1>1, <1>2 DEF TypeOK, Fork
<1>4. LockInv'  BY <1>0, <1>1 DEF IInv, LockInv, TypeOK
<1>5. HoldInv'  BY <1>0, <1>1, <1>2 DEF IInv, HoldInv, TypeOK
<1>6. EndInv'
  <2>1. \A e \in Ends : Closing(e)' = Closing(e)
    BY <1>0, <1>1 DEF Closing, TypeOK
  <2>2. \A e \in Ends : holders'[e] = {} <=> holders[e] = {}  BY <1>2
  <2> QED  BY <1>1, <2>1, <2>2 DEF IInv, EndInv
<1>7. FreeInv'  BY <1>1 DEF IInv, FreeInv
<1>8. SleepInv'  BY <1>0, <1>1 DEF IInv, SleepInv, TypeOK
<1> QED  BY <1>3, <1>4, <1>5, <1>6, <1>7, <1>8 DEF IInv

\* fileclose() by a process that is in no call on the pipe.
LEMMA FileCloseSafe ==
  ASSUME IInv, NEW p \in Procs, NEW e \in Ends, pc[p] \in {"user", "exit"},
         FileClose(p, e), UNCHANGED dying
  PROVE  IInv'
<1> USE DEF ringVars, callVars
<1>0. TypeOK /\ Count' = Count /\ Space' = Space
  BY DEF IInv, FileClose, Count, Space
<1>1. PICK s \in {"user", "exit", "rclose", "wclose"} :
        /\ pc' = [pc EXCEPT ![p] = s]
        /\ s = "rclose" <=> holders[e] = {p} /\ e = "r"
        /\ s = "wclose" <=> holders[e] = {p} /\ e = "w"
  BY DEF FileClose, AfterClose
<1>2. /\ holders' = [holders EXCEPT ![e] = @ \ {p}] /\ p \in holders[e]
      /\ UNCHANGED <<open, freed, lock, killed>>
  BY DEF FileClose
<1>3. TypeOK'  BY <1>0, <1>1, <1>2 DEF TypeOK, FileClose
<1>4. LockInv'  BY <1>0, <1>1, <1>2 DEF IInv, LockInv, TypeOK
<1>5. HoldInv'  BY <1>0, <1>1, <1>2 DEF IInv, HoldInv, TypeOK
<1>6. EndInv'
  <2>1. ASSUME NEW f \in Ends, f # e
        PROVE  Closing(f)' = Closing(f) /\ holders'[f] = holders[f]
    BY <1>0, <1>1, <1>2, <2>1 DEF Closing, TypeOK
  <2>2. Closing(e) = {} /\ open[e]  BY <1>2 DEF IInv, EndInv
  <2>3. CASE holders[e] = {p}
    <3>1. Closing(e)' = {p}  BY <1>0, <1>1, <2>2, <2>3 DEF Closing, TypeOK
    <3>2. holders'[e] = {}  BY <1>0, <1>2, <2>3 DEF TypeOK
    <3> QED  BY <1>2, <2>1, <2>2, <3>1, <3>2 DEF IInv, EndInv
  <2>4. CASE holders[e] # {p}
    <3>1. Closing(e)' = {}  BY <1>0, <1>1, <2>2, <2>4 DEF Closing, TypeOK
    <3>2. holders'[e] # {}  BY <1>0, <1>2, <2>4 DEF TypeOK
    <3> QED  BY <1>2, <2>1, <2>2, <3>1, <3>2 DEF IInv, EndInv
  <2> QED  BY <2>3, <2>4
<1>7. FreeInv'  BY <1>2 DEF IInv, FreeInv
<1>8. SleepInv'  BY <1>0, <1>1, <1>2 DEF IInv, SleepInv, TypeOK
<1> QED  BY <1>3, <1>4, <1>5, <1>6, <1>7, <1>8 DEF IInv

\* pipeclose()
LEMMA PipeCloseSafe ==
  ASSUME IInv, NEW p \in Procs, NEW e \in Ends, PipeClose(p, e)
  PROVE  IInv'
<1> USE DEF ringVars, callVars
<1>0. TypeOK /\ Count' = Count /\ Space' = Space
  BY DEF IInv, PipeClose, Count, Space
<1>1. /\ p \in Closing(e)
      /\ open' = [open EXCEPT ![e] = FALSE]
      /\ freed' = IF \A f \in Ends \ {e} : ~open[f] THEN freed + 1 ELSE freed
      /\ lock = NoProc
      /\ UNCHANGED <<holders, lock, killed>>
  BY DEF PipeClose, Closing, LastEnd
<1>2. PICK s \in {"user", "exit"} :
        pc' = [q \in Procs |->
                 IF q = p THEN s
                 ELSE IF e = "w" /\ pc[q] = "rasleep" THEN "read"
                 ELSE IF e = "r" /\ pc[q] = "wasleep" THEN "write" ELSE pc[q]]
  BY DEF PipeClose, WakeOther, WakeReaders, WakeWriters, AfterClose
<1>3. /\ open[e] /\ holders[e] = {}
      /\ \A q \in Closing(e) : q = p
  BY <1>1 DEF IInv, EndInv
<1>4. TypeOK'
  <2>1. freed' \in Nat  BY <1>0, <1>1 DEF TypeOK
  <2>2. pc' \in [Procs -> {"unborn", "user", "read", "rsleep", "rasleep", "write",
                  "wsleep", "wasleep", "rclose", "wclose", "exit", "gone"}]
    BY <1>0, <1>2 DEF TypeOK
  <2> QED  BY <1>0, <1>1, <2>1, <2>2 DEF TypeOK, PipeClose
<1>5. LockInv'  BY <1>1, <1>2, PipeAssumption DEF IInv, LockInv
<1>6. HoldInv'  BY <1>1, <1>2 DEF IInv, HoldInv
<1>7. EndInv'
  <2>1. Closing(e)' = {}  BY <1>2, <1>3 DEF Closing
  <2>2. ASSUME NEW f \in Ends, f # e
        PROVE  Closing(f)' = Closing(f) /\ open'[f] = open[f]
    BY <1>0, <1>1, <1>2, <2>2 DEF Closing, TypeOK
  <2>3. ~open'[e]  BY <1>0, <1>1 DEF TypeOK
  <2> QED  BY <1>1, <1>3, <2>1, <2>2, <2>3 DEF IInv, EndInv
<1>8. FreeInv'
  <2>1. freed = 0  BY <1>3 DEF IInv, FreeInv
  <2>2. (\E f \in Ends : open'[f]) <=> ~(\A f \in Ends \ {e} : ~open[f])
    BY <1>0, <1>1 DEF TypeOK
  <2> QED  BY <1>1, <2>1, <2>2 DEF FreeInv
<1>9. SleepInv'
  <2>1. \A q \in Procs : pc[q] \notin {"rsleep", "wsleep"}
    BY <1>1, PipeAssumption DEF IInv, LockInv
  <2>2. ASSUME NEW q \in Procs, pc'[q] = "wasleep"
        PROVE  Space' = 0 /\ open'["r"]
    <3>1. pc[q] = "wasleep" /\ e # "r"  BY <1>2, <2>2
    <3> QED  BY <1>0, <1>1, <3>1 DEF IInv, SleepInv, TypeOK
  <2>3. ASSUME NEW q \in Procs, pc'[q] = "rasleep"
        PROVE  open'["w"] /\ (Count' = 0 \/ killed' # {})
    <3>1. pc[q] = "rasleep" /\ e # "w"  BY <1>2, <2>3
    <3> QED  BY <1>0, <1>1, <3>1 DEF IInv, SleepInv, TypeOK
  <2>4. \A q \in Procs : pc'[q] \notin {"rsleep", "wsleep"}  BY <1>2, <2>1
  <2> QED  BY <2>2, <2>3, <2>4 DEF SleepInv
<1> QED  BY <1>4, <1>5, <1>6, <1>7, <1>8, <1>9 DEF IInv

\* kill()
LEMMA KillSafe ==
  ASSUME IInv, NEW p \in Procs, Kill(p)
  PROVE  IInv'
<1> USE DEF ringVars, endVars, callVars
<1>0. TypeOK /\ Count' = Count /\ Space' = Space
  BY DEF IInv, Kill, Count, Space
<1>1. /\ pc' = [pc EXCEPT ![p] = IF pc[p] = "rasleep" THEN "read"
                                ELSE IF pc[p] = "wasleep" THEN "write" ELSE pc[p]]
      /\ pc[p] \notin {"unborn", "gone"}
      /\ killed' = killed \cup {p}
      /\ UNCHANGED <<open, freed, holders, lock>>
  BY DEF Kill, KillWakes
<1>3. TypeOK'  BY <1>0, <1>1 DEF TypeOK, Kill
<1>4. LockInv'  BY <1>0, <1>1 DEF IInv, LockInv, TypeOK
<1>5. HoldInv'  BY <1>0, <1>1 DEF IInv, HoldInv, TypeOK
<1>6. EndInv'
  <2>1. \A q \in Procs : /\ pc'[q] = "rclose" <=> pc[q] = "rclose"
                         /\ pc'[q] = "wclose" <=> pc[q] = "wclose"
    BY <1>0, <1>1 DEF TypeOK
  <2> QED  BY <1>1, <2>1, EndFrame DEF IInv
<1>7. FreeInv'  BY <1>1 DEF IInv, FreeInv
<1>8. SleepInv'  BY <1>0, <1>1 DEF IInv, SleepInv, TypeOK
<1> QED  BY <1>3, <1>4, <1>5, <1>6, <1>7, <1>8 DEF IInv

\* exit() begins.
LEMMA ExitCallSafe ==
  ASSUME IInv, NEW p \in Procs, ExitCall(p)
  PROVE  IInv'
<1> USE DEF ringVars, endVars, callVars
<1>0. TypeOK /\ Count' = Count /\ Space' = Space
  BY DEF IInv, ExitCall, Count, Space
<1>1. /\ pc' = [pc EXCEPT ![p] = "exit"] /\ pc[p] = "user"
      /\ UNCHANGED <<open, freed, holders, lock, killed>>
  BY DEF ExitCall
<1>3. TypeOK'  BY <1>0, <1>1 DEF TypeOK, ExitCall
<1>4. LockInv'  BY <1>0, <1>1 DEF IInv, LockInv, TypeOK
<1>5. HoldInv'  BY <1>0, <1>1 DEF IInv, HoldInv, TypeOK
<1>6. EndInv'
  <2>1. \A q \in Procs : /\ pc'[q] = "rclose" <=> pc[q] = "rclose"
                         /\ pc'[q] = "wclose" <=> pc[q] = "wclose"
    BY <1>0, <1>1 DEF TypeOK
  <2> QED  BY <1>1, <2>1, EndFrame DEF IInv
<1>7. FreeInv'  BY <1>1 DEF IInv, FreeInv
<1>8. SleepInv'  BY <1>0, <1>1 DEF IInv, SleepInv, TypeOK
<1> QED  BY <1>3, <1>4, <1>5, <1>6, <1>7, <1>8 DEF IInv

\* exit() ends.
LEMMA ExitDoneSafe ==
  ASSUME IInv, NEW p \in Procs, ExitDone(p)
  PROVE  IInv'
<1> USE DEF ringVars, endVars, callVars
<1>0. TypeOK /\ Count' = Count /\ Space' = Space
  BY DEF IInv, ExitDone, Count, Space
<1>1. /\ pc' = [pc EXCEPT ![p] = "gone"] /\ pc[p] = "exit"
      /\ \A e \in Ends : p \notin holders[e]
      /\ UNCHANGED <<open, freed, holders, lock, killed>>
  BY DEF ExitDone
<1>3. TypeOK'  BY <1>0, <1>1 DEF TypeOK, ExitDone
<1>4. LockInv'  BY <1>0, <1>1 DEF IInv, LockInv, TypeOK
<1>5. HoldInv'  BY <1>0, <1>1 DEF IInv, HoldInv, TypeOK
<1>6. EndInv'
  <2>1. \A q \in Procs : /\ pc'[q] = "rclose" <=> pc[q] = "rclose"
                         /\ pc'[q] = "wclose" <=> pc[q] = "wclose"
    BY <1>0, <1>1 DEF TypeOK
  <2> QED  BY <1>1, <2>1, EndFrame DEF IInv
<1>7. FreeInv'  BY <1>1 DEF IInv, FreeInv
<1>8. SleepInv'  BY <1>0, <1>1 DEF IInv, SleepInv, TypeOK
<1> QED  BY <1>3, <1>4, <1>5, <1>6, <1>7, <1>8 DEF IInv

\* So does a step in which nothing of the pipe happens.
LEMMA StutterSafe ==
  ASSUME IInv, UNCHANGED vars
  PROVE  IInv'
<1> USE DEF vars, ringVars, endVars, callVars
<1>0. Count' = Count /\ Space' = Space  BY DEF Count, Space
<1>1. TypeOK'  BY <1>0 DEF IInv, TypeOK
<1>2. LockInv' /\ HoldInv' /\ FreeInv'
  BY DEF IInv, LockInv, HoldInv, FreeInv
<1>3. EndInv'  BY EndFrame DEF IInv
<1>4. SleepInv'  BY <1>0 DEF IInv, SleepInv
<1> QED  BY <1>1, <1>2, <1>3, <1>4 DEF IInv

-----------------------------------------------------------------------------
(* The theorems                                                            *)

\* The inductive invariant of the pipe holds in every reachable state.
THEOREM PipeInvariance == Spec => []IInv
<1>1. IInv /\ [Next]_vars => IInv'
  <2> SUFFICES ASSUME IInv, [Next]_vars PROVE IInv'  OBVIOUS
  <2>1. CASE UNCHANGED vars  BY <2>1, StutterSafe
  <2>2. ASSUME NEW p \in Procs, Kernel(p) PROVE IInv'
    <3>1. CASE WriteAll(p)  BY <3>1, WriteAllSafe
    <3>2. CASE WriteFail(p)  BY <3>2, WriteFailSafe
    <3>3. CASE WriteFull(p)  BY <3>3, WriteFullSafe
    <3>4. CASE ReadEmpty(p)  BY <3>4, ReadEmptySafe
    <3>5. CASE ReadFail(p)  BY <3>5, ReadFailSafe
    <3>6. ASSUME NEW n \in Sizes, ReadBytes(p, n) PROVE IInv'
      BY <3>6, ReadBytesSafe
    <3>7. CASE SleepOn(p)  BY <3>7, SleepOnSafe
    <3>8. CASE ExitDone(p)  BY <3>8, ExitDoneSafe
    <3>9. ASSUME NEW e \in Ends, PipeClose(p, e) PROVE IInv'
      BY <3>9, PipeCloseSafe
    <3>10. ASSUME NEW e \in Ends, ExitClose(p, e) PROVE IInv'
      BY <3>10, FileCloseSafe DEF ExitClose
    <3> HIDE DEF Ends
    <3> QED
      BY <2>2, <3>1, <3>2, <3>3, <3>4, <3>5, <3>6, <3>7, <3>8, <3>9, <3>10
      DEF Kernel
  <2>3. ASSUME NEW p \in Procs, User(p) PROVE IInv'
    <3>1. ASSUME NEW m \in Messages, WriteCall(p, m) PROVE IInv'
      BY <3>1, WriteCallSafe
    <3>2. CASE ReadCall(p)  BY <3>2, ReadCallSafe
    <3>3. ASSUME NEW q \in Procs, Fork(p, q) PROVE IInv'
      BY <3>3, ForkSafe
    <3>4. ASSUME NEW e \in Ends, CloseCall(p, e) PROVE IInv'
      BY <3>4, FileCloseSafe DEF CloseCall
    <3>5. CASE ExitCall(p)  BY <3>5, ExitCallSafe
    <3> HIDE DEF Ends
    <3> QED  BY <2>3, <3>1, <3>2, <3>3, <3>4, <3>5 DEF User
  <2>4. ASSUME NEW p \in Procs, Kill(p) PROVE IInv'  BY <2>4, KillSafe
  <2> QED  BY <2>1, <2>2, <2>3, <2>4 DEF Next
<1> QED  BY InitSafe, <1>1, PTL DEF Spec

\* Every variable of the pipe keeps its type: the ring is never overfull.
THEOREM PipeTypeCorrect == Spec => []TypeOK
<1>1. IInv => TypeOK  BY DEF IInv
<1> QED  BY <1>1, PipeInvariance, PTL

\* Nobody sleeps in a pipe who could go on.
THEOREM SleepersHaveToWait == Spec => []NoLostWakeup
<1>1. IInv => NoLostWakeup  BY DEF IInv, SleepInv, NoLostWakeup
<1> QED  BY <1>1, PipeInvariance, PTL

\* The pipe is freed once, when nobody is left who could use it.
THEOREM FreedOnceAndLast == Spec => []FreedLast
<1>1. IInv => FreedLast
  <2> SUFFICES ASSUME IInv PROVE FreedLast  OBVIOUS
  <2>1. \A e \in Ends : holders[e] \subseteq Procs  BY DEF IInv, TypeOK
  <2>2. (\A e \in Ends : ~open[e])
          <=> \A p \in Procs : /\ pc[p] \notin {"rclose", "wclose"}
                              /\ \A e \in Ends : p \notin holders[e]
    BY <2>1 DEF IInv, EndInv, Closing
  <2> QED  BY <2>2 DEF IInv, FreeInv, FreedLast
<1> QED  BY <1>1, PipeInvariance, PTL

-----------------------------------------------------------------------------
(* The ring as a queue                                                     *)

\* Queue is a sequence of bytes of the ring, of the length that the counters say.
LEMMA QueueFacts ==
  ASSUME TypeOK
  PROVE  /\ Queue \in Seq(Bytes) /\ Len(Queue) = Count
         /\ Queue = RingSeq(data, nread, Count, PIPESIZE, Wrap)
         /\ Ring(PIPESIZE, Wrap)
<1>1. /\ nread \in 0..Wrap-1 /\ Count \in 0..PIPESIZE
      /\ PIPESIZE \in Nat \ {0} /\ Wrap \in Nat \ {0}
  BY RingFacts
<1>2. Ring(PIPESIZE, Wrap)  BY PipeAssumption DEF Ring
<1>3. Queue = RingSeq(data, nread, Count, PIPESIZE, Wrap)
  BY DEF Queue, Slot, RingSeq, RingSlot
<1>4. data \in [0..PIPESIZE-1 -> Bytes]  BY DEF TypeOK
<1>5. RingSeq(data, nread, Count, PIPESIZE, Wrap) \in Seq(Bytes)
  BY <1>1, <1>2, <1>4, RingSeqType
<1>6. Len(RingSeq(data, nread, Count, PIPESIZE, Wrap)) = Count
  BY <1>1, RingSeqSize DEF Size
<1> QED  BY <1>2, <1>3, <1>5, <1>6

\* The writer's counter is the reader's, moved on by what is in the ring.
LEMMA WriterAhead ==
  ASSUME TypeOK
  PROVE  nwrite = (nread + Count) % Wrap
<1>1. /\ Wrap \in Nat \ {0} /\ PIPESIZE < Wrap
      /\ nread \in 0..Wrap-1 /\ nwrite \in 0..Wrap-1 /\ Count \in 0..PIPESIZE
      /\ PIPESIZE \in Nat
  BY RingFacts
<1>2. Count = IF nread <= nwrite THEN nwrite - nread ELSE nwrite + Wrap - nread
  BY <1>1, Ahead DEF Count
<1>3. Count \in 0..Wrap-1  BY <1>1
<1>4. (nread + Count) % Wrap
        = IF nread + Count < Wrap THEN nread + Count ELSE nread + Count - Wrap
  BY <1>1, <1>3, Moved
<1> QED  BY <1>1, <1>2, <1>4

\* The loop of pipewrite() appends.
LEMMA CopyInAppends ==
  ASSUME TypeOK, NEW p \in Procs, NEW k \in Nat,
         k <= Space, k <= Len(rem[p]), CopyIn(p, k), nread' = nread
  PROVE  Queue' = Queue \o SubSeq(rem[p], 1, k)
<1> DEFINE s == SubSeq(rem[p], 1, k)
           c == Count
           P == PIPESIZE
           W == Wrap
<1>1. /\ P \in Nat \ {0} /\ nread \in 0..W-1 /\ nwrite \in 0..W-1
      /\ c \in 0..P /\ Space = P - c
  BY RingFacts
<1>2. /\ Count' = c + k /\ c + k <= P
      /\ data' \in [0..P-1 -> Bytes] /\ data \in [0..P-1 -> Bytes]
      /\ Ring(P, W)
  BY <1>1, CopyInFacts, QueueFacts DEF TypeOK
<1>3. s \in Seq(Bytes) /\ Len(s) = k /\ \A j \in 1..k : s[j] = rem[p][j]
  <2>1. rem[p] \in Seq(Bytes)  BY DEF TypeOK
  <2>2. \A j \in 1..k : rem[p][j] \in Bytes  BY <2>1
  <2>3. /\ s \in Seq(Bytes)
        /\ Len(s) = IF 1 <= k THEN k - 1 + 1 ELSE 0
        /\ \A j \in 1..k-1+1 : s[j] = rem[p][1+j-1]
    BY <2>2, SubSeqProperties
  <2> HIDE DEF s
  <2> QED  BY <2>3
<1>4. nwrite = (nread + c) % W  BY WriterAhead
<1> HIDE DEF s, c, P, W
<1>r. nread \in 0..W-1 /\ c \in 0..P /\ Ring(P, W)
      /\ P \in Nat \ {0} /\ W \in Nat \ {0}
  BY <1>1, <1>2 DEF Ring
<1>d. data \in [0..P-1 -> Bytes] /\ data' \in [0..P-1 -> Bytes]  BY <1>2
<1>5. ASSUME NEW j \in 1..k
      PROVE  RingSlot(nwrite, j, P, W) = RingSlot(nread, c + j, P, W)
             /\ c + j \in 1..P
  <2>1. c \in 0..P /\ j \in 1..P-c /\ c + j \in 1..P  BY <1>1, <1>2
  <2>2. RingSlot((nread + c) % W, j, P, W) = RingSlot(nread, c + j, P, W)
    BY <1>r, <2>1, SlotMoved
  <2> QED  BY <1>1, <1>4, <2>1, <2>2
<1>6. ASSUME NEW i \in 1..c+k
      PROVE  /\ i <= c => data'[RingSlot(nread, i, P, W)]
                            = data[RingSlot(nread, i, P, W)]
             /\ i > c  => data'[RingSlot(nread, i, P, W)] = rem[p][i - c]
  <2> DEFINE z == RingSlot(nread, i, P, W)
  <2>1. i \in 1..P  BY <1>1, <1>2
  <2>2. z \in 0..P-1  BY <1>1, <1>2, <2>1, SlotIs DEF Ring
  <2>3. \A j \in 1..k : RingSlot(nwrite, j, P, W) = z => c + j = i
    <3> SUFFICES ASSUME NEW j \in 1..k, RingSlot(nwrite, j, P, W) = z
                 PROVE  c + j = i
      OBVIOUS
    <3>1. P \in Nat \ {0} /\ W \in Nat \ {0} /\ P < W  BY <1>2 DEF Ring
    <3>2. c + j \in 1..P /\ RingSlot(nread, c + j, P, W) = z  BY <1>5
    <3> DEFINE l == c + j
    <3>3. l \in 1..P /\ RingSlot(nread, l, P, W) = RingSlot(nread, i, P, W)
      BY <3>2
    <3> HIDE DEF l, z
    <3>4. l = i  BY <1>1, <1>2, <2>1, <3>1, <3>3, SlotsDistinct
    <3> QED  BY <3>4 DEF l
  <2>4. data'[z] = IF \E j \in 1..k : RingSlot(nwrite, j, P, W) = z
                     THEN rem[p][CHOOSE j \in 1..k : RingSlot(nwrite, j, P, W) = z]
                     ELSE data[z]
    BY <2>2 DEF CopyIn, Slot, RingSlot, P, W
  <2> HIDE DEF z
  <2>5. CASE i <= c
    <3>1. ~\E j \in 1..k : RingSlot(nwrite, j, P, W) = z  BY <1>1, <2>3, <2>5
    <3> QED  BY <1>1, <2>4, <2>5, <3>1 DEF z
  <2>6. CASE i > c
    <3> DEFINE j0 == i - c
    <3>1. j0 \in 1..k /\ c + j0 = i  BY <1>1, <2>6
    <3>2. RingSlot(nwrite, j0, P, W) = z  BY <1>5, <3>1 DEF z
    <3>3. \A j \in 1..k : RingSlot(nwrite, j, P, W) = z => j = j0
      BY <1>1, <2>3
    <3>4. (CHOOSE j \in 1..k : RingSlot(nwrite, j, P, W) = z) = j0
      BY <3>1, <3>2, <3>3
    <3>5. data'[z] = rem[p][j0]  BY <2>4, <3>1, <3>2, <3>4
    <3>6. ~(i <= c)  BY <1>1, <2>6
    <3> QED  BY <2>6, <3>5, <3>6 DEF z
  <2> QED  BY <1>1, <2>5, <2>6
<1>7. RingSeq(data', nread, c + Len(s), P, W) = RingSeq(data, nread, c, P, W) \o s
  <2>1. \A i \in 1..c : data'[RingSlot(nread, i, P, W)]
                          = data[RingSlot(nread, i, P, W)]
    BY <1>1, <1>2, <1>3, <1>6
  <2>2. \A j \in 1..Len(s) : data'[RingSlot(nread, c + j, P, W)] = s[j]
    <3> SUFFICES ASSUME NEW j \in 1..k
                 PROVE  data'[RingSlot(nread, c + j, P, W)] = s[j]
      BY <1>3
    <3> DEFINE i == c + j
    <3>1. i \in 1..c+k /\ i > c /\ i - c = j  BY <1>1
    <3> HIDE DEF i
    <3>2. data'[RingSlot(nread, i, P, W)] = rem[p][j]  BY <1>6, <3>1
    <3> QED  BY <1>3, <3>2 DEF i
  <2>3. IsSeq(s)  BY <1>3, SeqIsSeq
  <2> DEFINE l == c + Len(s)
             f == data'
  <2>5. l \in 0..P /\ l = c + Len(s)  BY <1>1, <1>2, <1>3
  <2>4. Appended(f, data, nread, c, s, l, P, W)  BY <2>1, <2>2 DEF Appended
  <2> HIDE DEF l, f
  <2>6. RingSeq(f, nread, l, P, W) = Join(RingSeq(data, nread, c, P, W), s)
    BY <1>r, <2>3, <2>4, <2>5, RingSeqGrows
  <2> QED  BY <2>6 DEF l, f, Join
<1>8. Queue = RingSeq(data, nread, c, P, W)  BY QueueFacts DEF c, P, W
<1>9. Queue' = RingSeq(data', nread, c + k, P, W)
  BY <1>2 DEF Queue, Slot, RingSeq, RingSlot, P, W
<1> QED  BY <1>3, <1>7, <1>8, <1>9 DEF s

\* What a read takes out of the ring is the front of the queue.
LEMMA FrontTaken ==
  ASSUME TypeOK, NEW k \in Nat, k <= Count,
         nread' = (nread + k) % Wrap, UNCHANGED <<data, nwrite>>
  PROVE  /\ Queue' = SubSeq(Queue, k + 1, Len(Queue))
         /\ [j \in 1..k |-> data[Slot(nread, j)]] = SubSeq(Queue, 1, k)
<1> DEFINE c == Count
           P == PIPESIZE
           W == Wrap
<1>1. /\ P \in Nat \ {0} /\ W \in Nat \ {0} /\ nread \in 0..W-1
      /\ nwrite \in 0..W-1 /\ c \in 0..P
  BY RingFacts
<1>2. Count' = c - k
  <2>1. PICK v \in 0..W-1 : /\ v = (nread + k) % W
                            /\ (nwrite + W - v) % W = c - k
    BY <1>1, AheadRead DEF Count
  <2> QED  BY <2>1 DEF Count
<1>3. /\ Ring(P, W) /\ Queue = RingSeq(data, nread, c, P, W) /\ Len(Queue) = c
      /\ data \in [0..P-1 -> Bytes]
  BY QueueFacts DEF TypeOK
<1>4. Queue' = RingSeq(data, nread', c - k, P, W)
  BY <1>2 DEF Queue, Slot, RingSeq, RingSlot
<1>5. [j \in 1..k |-> data[Slot(nread, j)]] = RingSeq(data, nread, k, P, W)
  BY DEF Slot, RingSeq, RingSlot
<1> HIDE DEF c, P, W
<1>6. k \in 0..c  BY <1>1 DEF c
<1>7. /\ RingSeq(data, nread, k, P, W)
           = SubSeq(RingSeq(data, nread, c, P, W), 1, k)
      /\ RingSeq(data, (nread + k) % W, c - k, P, W)
           = SubSeq(RingSeq(data, nread, c, P, W), k + 1, c)
  <2>1. Ring(P, W) /\ data \in [0..P-1 -> Bytes]  BY <1>3
  <2>2. nread \in 0..W-1 /\ c \in 0..P  BY <1>1
  <2>3. P \in Nat \ {0} /\ W \in Nat \ {0}  BY <1>1
  <2>4. RingSeq(data, nread, k, P, W) = Part(RingSeq(data, nread, c, P, W), 1, k)
    BY <1>6, <2>1, <2>2, <2>3, RingSeqFront
  <2>5. RingSeq(data, (nread + k) % W, c - k, P, W)
          = Part(RingSeq(data, nread, c, P, W), k + 1, c)
    BY <1>6, <2>1, <2>2, <2>3, RingSeqRest
  <2> QED  BY <2>4, <2>5 DEF Part
<1>8. nread' = (nread + k) % W  BY DEF W
<1> QED  BY <1>3, <1>4, <1>5, <1>7, <1>8

-----------------------------------------------------------------------------
(* Every step is a step of the stream, or does not show                    *)

\* What the users see, before and after.
Unseen == UNCHANGED <<Queue, open, Calls, rem, ret, killed>>
StreamStep == Stream!Next \/ Unseen

\* A step of one process that changes the call it is in.
LEMMA CallChanges ==
  ASSUME NEW p \in Procs, NEW c, CallAt(pc'[p]) = c,
         \A q \in Procs \ {p} : CallAt(pc'[q]) = CallAt(pc[q])
  PROVE  Calls' = [Calls EXCEPT ![p] = c] /\ Calls[p] = CallAt(pc[p])
<1>1. \A s : CallAt(s)' = CallAt(s)  BY DEF CallAt
<1>2. Calls' = [q \in Procs |-> CallAt(pc'[q])]  BY DEF Calls, CallAt
<1> QED  BY <1>2 DEF Calls

\* A step that changes no call.
LEMMA CallsKept ==
  ASSUME \A q \in Procs : CallAt(pc'[q]) = CallAt(pc[q])
  PROVE  Calls' = Calls
<1>1. Calls' = [q \in Procs |-> CallAt(pc'[q])]  BY DEF Calls, CallAt
<1> QED  BY <1>1 DEF Calls

\* The ring stays as it is.
LEMMA QueueKept ==
  ASSUME UNCHANGED <<data, nread, nwrite>>
  PROVE  Queue' = Queue
  BY DEF Queue, Count, Slot

\* A call begins.
LEMMA CallRefines ==
  ASSUME IInv, NEW p \in Procs,
         ReadCall(p) \/ \E m \in Messages : WriteCall(p, m)
  PROVE  StreamStep
<1>1. Queue' = Queue
  BY QueueKept DEF WriteCall, ReadCall, ringVars
<1>2. pc \in [Procs -> {"unborn", "user", "read", "rsleep", "rasleep", "write",
        "wsleep", "wasleep", "rclose", "wclose", "exit", "gone"}]
  BY DEF IInv, TypeOK
<1>3. ASSUME NEW m \in Messages, WriteCall(p, m) PROVE StreamStep
  <2>1. CallAt(pc'[p]) = "write" /\ CallAt(pc[p]) = "none"
        /\ \A q \in Procs \ {p} : CallAt(pc'[q]) = CallAt(pc[q])
    BY <1>2, <1>3 DEF WriteCall, CallAt, Reading, Writing
  <2>2. Calls' = [Calls EXCEPT ![p] = "write"] /\ Calls[p] = "none"
    BY <2>1, CallChanges
  <2>3. Stream!Write(p, m)
    BY <1>1, <1>3, <2>2 DEF Stream!Write, WriteCall, endVars
  <2> QED  BY <2>3 DEF StreamStep, Stream!Next
<1>4. CASE ReadCall(p)
  <2>1. CallAt(pc'[p]) = "read" /\ CallAt(pc[p]) = "none"
        /\ \A q \in Procs \ {p} : CallAt(pc'[q]) = CallAt(pc[q])
    BY <1>2, <1>4 DEF ReadCall, CallAt, Reading, Writing
  <2>2. Calls' = [Calls EXCEPT ![p] = "read"] /\ Calls[p] = "none"
    BY <2>1, CallChanges
  <2>3. Stream!Read(p)
    BY <1>1, <1>4, <2>2 DEF Stream!Read, ReadCall, endVars, callVars
  <2> QED  BY <2>3 DEF StreamStep, Stream!Next
<1> QED  BY <1>3, <1>4

\* The loop of pipewrite() puts bytes into the queue, however it ends.
LEMMA PutRefines ==
  ASSUME IInv, IInv', NEW p \in Procs, WriteAll(p) \/ WriteFail(p) \/ WriteFull(p)
  PROVE  StreamStep
<1>1. TypeOK /\ TypeOK' /\ rem[p] \in Seq(Bytes) /\ Len(rem[p]) \in Nat
  BY DEF IInv, TypeOK
<1>2. Count \in 0..PIPESIZE /\ Space \in 0..PIPESIZE /\ Space = PIPESIZE - Count
      /\ PIPESIZE \in Nat /\ Len(Queue) = Count
  BY <1>1, RingFacts, QueueFacts
<1> DEFINE k == IF Len(rem[p]) <= Space THEN Len(rem[p]) ELSE Space
<1>3. k \in 0..Len(rem[p]) /\ k \in Nat /\ k <= Space /\ k <= Len(rem[p])
      /\ Len(Queue) + k <= PIPESIZE
  BY <1>1, <1>2
<1>4. CopyIn(p, k) /\ nread' = nread
  <2>1. CASE WriteAll(p)
    <3>1. k = Len(rem[p])  BY <2>1 DEF WriteAll
    <3> QED  BY <2>1, <3>1 DEF WriteAll
  <2>2. CASE WriteFail(p) \/ WriteFull(p)
    <3>1. Space < Len(rem[p])  BY <2>2 DEF WriteFail, WriteFull
    <3>2. k = Space  BY <1>1, <1>2, <3>1
    <3> QED  BY <2>2, <3>2 DEF WriteFail, WriteFull
  <2> QED  BY <2>1, <2>2
<1>5. Queue' = Queue \o SubSeq(rem[p], 1, k)
  BY <1>1, <1>3, <1>4, CopyInAppends
<1>6. pc[p] = "write" /\ CallAt(pc[p]) = "write"
      /\ UNCHANGED <<open, killed>>
  BY DEF WriteAll, WriteFail, WriteFull, CallAt, Reading, Writing, endVars
<1>7. pc \in [Procs -> {"unborn", "user", "read", "rsleep", "rasleep", "write",
        "wsleep", "wasleep", "rclose", "wclose", "exit", "gone"}]
  BY <1>1 DEF TypeOK
<1>8. \A q \in Procs \ {p} : CallAt(pc'[q]) = CallAt(pc[q])
  BY <1>7 DEF WriteAll, WriteFail, WriteFull, Return, WakeReaders,
              CallAt, Reading, Writing
<1>9. Calls[p] = "write"  BY <1>6 DEF Calls
<1>10. CASE WriteAll(p)
  <2>1. k = Len(rem[p]) /\ pc'[p] = "user" /\ CallAt(pc'[p]) = "none"
    BY <1>7, <1>10 DEF WriteAll, Return, WakeReaders, CallAt, Reading, Writing
  <2>2. Calls' = [Calls EXCEPT ![p] = "none"]  BY <1>8, <2>1, CallChanges
  <2>3. Stream!Return(p, TRUE, <<>>)
    BY <1>10, <2>2 DEF Stream!Return, WriteAll, Return
  <2>4. rem' = [rem EXCEPT ![p] = <<>>]  BY <1>10 DEF WriteAll
  <2> HIDE DEF k
  <2>5. Stream!Put(p)
    BY <1>3, <1>5, <1>6, <1>9, <2>1, <2>3, <2>4 DEF Stream!Put
  <2> QED  BY <2>5 DEF StreamStep, Stream!Next
<1>11. CASE WriteFail(p)
  <2>1. k = Space /\ k < Len(rem[p]) /\ pc'[p] = "user" /\ CallAt(pc'[p]) = "none"
    BY <1>1, <1>2, <1>7, <1>11 DEF WriteFail, Return, CallAt, Reading, Writing
  <2>2. Calls' = [Calls EXCEPT ![p] = "none"]  BY <1>8, <2>1, CallChanges
  <2>3. Stream!Return(p, FALSE, <<>>)
    BY <1>11, <2>2 DEF Stream!Return, WriteFail, Return
  <2>4. rem' = [rem EXCEPT ![p] = <<>>] /\ (~open["r"] \/ p \in killed)
    BY <1>11 DEF WriteFail
  <2> HIDE DEF k
  <2>5. Stream!Put(p)
    BY <1>3, <1>5, <1>6, <1>9, <2>1, <2>3, <2>4 DEF Stream!Put
  <2> QED  BY <2>5 DEF StreamStep, Stream!Next
<1>12. CASE WriteFull(p)
  <2>1. k = Space /\ k < Len(rem[p]) /\ pc'[p] = "wsleep" /\ CallAt(pc'[p]) = "write"
    BY <1>1, <1>2, <1>7, <1>12 DEF WriteFull, WakeReaders, CallAt, Reading, Writing
  <2>2. Calls' = Calls  BY <1>6, <1>8, <2>1, CallsKept
  <2>3. rem' = [rem EXCEPT ![p] = SubSeq(@, k + 1, Len(@))] /\ ret' = ret
    BY <1>12, <2>1 DEF WriteFull
  <2> HIDE DEF k
  <2>4. Stream!Put(p)
    BY <1>3, <1>5, <1>6, <1>9, <2>1, <2>2, <2>3 DEF Stream!Put
  <2> QED  BY <2>4 DEF StreamStep, Stream!Next
<1> QED  BY <1>10, <1>11, <1>12
\* piperead() takes bytes from the front of the queue, or finds its end.
LEMMA GetRefines ==
  ASSUME IInv, IInv', NEW p \in Procs, NEW n \in Sizes, ReadBytes(p, n)
  PROVE  StreamStep
<1>1. TypeOK /\ TypeOK'  BY DEF IInv
<1>2. /\ Count \in 0..PIPESIZE /\ PIPESIZE \in Nat /\ Len(Queue) = Count
      /\ nread = nwrite <=> Count = 0
      /\ Queue \in Seq(Bytes)
      /\ n \in Nat \ {0}
  BY <1>1, RingFacts, QueueFacts, PipeAssumption
<1> DEFINE k == Least(n, Count)
           bs == [j \in 1..k |-> data[Slot(nread, j)]]
<1>3. k \in 0..Count /\ k \in Nat /\ k <= Count /\ (k = 0 => Count = 0)
  BY <1>2 DEF Least
<1>4. nread' = (nread + k) % Wrap /\ UNCHANGED <<data, nwrite, open, rem, killed>>
  BY DEF ReadBytes, endVars
<1>5. pc[p] = "read" /\ pc' = [WakeWriters(pc) EXCEPT ![p] = "user"]
      /\ ret' = [ok |-> TRUE, bytes |-> bs]
  BY DEF ReadBytes, Return
<1> HIDE DEF k
<1>6. Queue' = SubSeq(Queue, k + 1, Len(Queue)) /\ bs = SubSeq(Queue, 1, k)
  BY <1>1, <1>3, <1>4, FrontTaken
<1>7. k = 0 => Queue = <<>> /\ ~open["w"]
  <2> HAVE k = 0
  <2>1. Count = 0  BY <1>3
  <2>2. ~open["w"]  BY <1>2, <2>1 DEF ReadBytes, MustWait
  <2>3. Queue = <<>>  BY <1>2, <2>1
  <2> QED  BY <2>2, <2>3
<1>8. pc \in [Procs -> {"unborn", "user", "read", "rsleep", "rasleep", "write",
        "wsleep", "wasleep", "rclose", "wclose", "exit", "gone"}]
  BY <1>1 DEF TypeOK
<1>9. CallAt(pc[p]) = "read" /\ CallAt(pc'[p]) = "none"
      /\ \A q \in Procs \ {p} : CallAt(pc'[q]) = CallAt(pc[q])
  BY <1>5, <1>8 DEF WakeWriters, CallAt, Reading, Writing
<1>10. Calls' = [Calls EXCEPT ![p] = "none"] /\ Calls[p] = "read"
  BY <1>9, CallChanges
<1>11. Stream!Return(p, TRUE, SubSeq(Queue, 1, k))
  BY <1>5, <1>6, <1>10 DEF Stream!Return
<1> HIDE DEF bs
<1>12. Stream!Get(p)
  BY <1>2, <1>3, <1>4, <1>6, <1>7, <1>10, <1>11 DEF Stream!Get
<1> QED  BY <1>12 DEF StreamStep, Stream!Next

\* A reader that has been killed gives up.
LEMMA GetFailsRefines ==
  ASSUME IInv, NEW p \in Procs, ReadFail(p)
  PROVE  StreamStep
<1>1. Queue' = Queue  BY QueueKept DEF ReadFail, ringVars
<1>2. pc \in [Procs -> {"unborn", "user", "read", "rsleep", "rasleep", "write",
        "wsleep", "wasleep", "rclose", "wclose", "exit", "gone"}]
  BY DEF IInv, TypeOK
<1>3. CallAt(pc[p]) = "read" /\ CallAt(pc'[p]) = "none"
      /\ \A q \in Procs \ {p} : CallAt(pc'[q]) = CallAt(pc[q])
  BY <1>2 DEF ReadFail, Return, CallAt, Reading, Writing
<1>4. Calls' = [Calls EXCEPT ![p] = "none"] /\ Calls[p] = "read"
  BY <1>3, CallChanges
<1>5. Stream!GetFails(p)
  BY <1>1, <1>4 DEF Stream!GetFails, Stream!Return, ReadFail, Return, endVars
<1> QED  BY <1>5 DEF StreamStep, Stream!Next

\* pipeclose() closes its end, which was open.
LEMMA CloseRefines ==
  ASSUME IInv, NEW p \in Procs, NEW e \in Ends, PipeClose(p, e)
  PROVE  StreamStep
<1>1. Queue' = Queue  BY QueueKept DEF PipeClose, ringVars
<1>2. pc \in [Procs -> {"unborn", "user", "read", "rsleep", "rasleep", "write",
        "wsleep", "wasleep", "rclose", "wclose", "exit", "gone"}]
  BY DEF IInv, TypeOK
<1>3. open[e]
  <2>1. p \in Closing(e)  BY DEF PipeClose, Closing
  <2> QED  BY <2>1 DEF IInv, EndInv
<1>4. Calls' = Calls
  <2>1. \A q \in Procs : CallAt(pc'[q]) = CallAt(pc[q])
    BY <1>2 DEF PipeClose, WakeOther, WakeReaders, WakeWriters, AfterClose,
                CallAt, Reading, Writing
  <2> QED  BY <2>1, CallsKept
<1>5. Stream!Close(e)
  BY <1>1, <1>3, <1>4 DEF Stream!Close, PipeClose, callVars
<1> QED  BY <1>5 DEF StreamStep, Stream!Next, Ends

\* kill()
LEMMA KillRefines ==
  ASSUME IInv, NEW p \in Procs, Kill(p)
  PROVE  StreamStep
<1>1. Queue' = Queue  BY QueueKept DEF Kill, ringVars
<1>2. pc \in [Procs -> {"unborn", "user", "read", "rsleep", "rasleep", "write",
        "wsleep", "wasleep", "rclose", "wclose", "exit", "gone"}]
  BY DEF IInv, TypeOK
<1>3. Calls' = Calls
  <2>1. \A q \in Procs : CallAt(pc'[q]) = CallAt(pc[q])
    BY <1>2 DEF Kill, KillWakes, CallAt, Reading, Writing
  <2> QED  BY <2>1, CallsKept
<1>4. Stream!Kill(p)
  BY <1>1, <1>3 DEF Stream!Kill, Kill, endVars, callVars
<1> QED  BY <1>4 DEF StreamStep, Stream!Next

\* What the users of the pipe do not see: who sleeps, and who has which end.
LEMMA UnseenRefines ==
  ASSUME IInv, NEW p \in Procs,
         \/ ReadEmpty(p) \/ SleepOn(p) \/ ExitCall(p) \/ ExitDone(p)
         \/ \E q \in Procs : Fork(p, q)
         \/ \E e \in Ends : CloseCall(p, e) \/ ExitClose(p, e)
  PROVE  StreamStep
<1>1. UNCHANGED <<data, nread, nwrite, open, rem, ret, killed>>
  BY DEF ReadEmpty, SleepOn, ExitCall, ExitDone, Fork, CloseCall, ExitClose,
         FileClose, ringVars, endVars, callVars
<1>2. pc \in [Procs -> {"unborn", "user", "read", "rsleep", "rasleep", "write",
        "wsleep", "wasleep", "rclose", "wclose", "exit", "gone"}]
  BY DEF IInv, TypeOK
<1>3. \A q \in Procs : CallAt(pc'[q]) = CallAt(pc[q])
  <2>1. CASE ReadEmpty(p) \/ SleepOn(p) \/ ExitCall(p) \/ ExitDone(p)
    BY <1>2, <2>1 DEF ReadEmpty, SleepOn, ExitCall, ExitDone,
                      CallAt, Reading, Writing
  <2>2. ASSUME NEW q \in Procs, Fork(p, q)
        PROVE  \A r \in Procs : CallAt(pc'[r]) = CallAt(pc[r])
    BY <1>2, <2>2 DEF Fork, CallAt, Reading, Writing
  <2>3. ASSUME NEW e \in Ends, CloseCall(p, e) \/ ExitClose(p, e)
        PROVE  \A q \in Procs : CallAt(pc'[q]) = CallAt(pc[q])
    BY <1>2, <2>3 DEF CloseCall, ExitClose, FileClose, AfterClose,
                      CallAt, Reading, Writing
  <2> QED  BY <2>1, <2>2, <2>3
<1>4. Calls' = Calls /\ Queue' = Queue  BY <1>1, <1>3, CallsKept, QueueKept
<1> QED  BY <1>1, <1>4 DEF StreamStep, Unseen

\* Every step of the pipe.
LEMMA StepRefines ==
  ASSUME IInv, IInv', [Next]_vars
  PROVE  StreamStep
<1>1. ASSUME NEW p \in Procs, Kernel(p) PROVE StreamStep
  BY <1>1, PutRefines, GetRefines, GetFailsRefines, CloseRefines, UnseenRefines
  DEF Kernel
<1>2. ASSUME NEW p \in Procs, User(p) PROVE StreamStep
  BY <1>2, CallRefines, UnseenRefines DEF User
<1>3. ASSUME NEW p \in Procs, Kill(p) PROVE StreamStep  BY <1>3, KillRefines
<1>4. CASE UNCHANGED vars
  <2>1. Calls' = Calls  BY <1>4, CallsKept DEF vars
  <2>2. Queue' = Queue  BY <1>4, QueueKept DEF vars, ringVars
  <2> QED  BY <1>4, <2>1, <2>2 DEF vars, endVars, callVars, StreamStep, Unseen
<1> QED  BY <1>1, <1>2, <1>3, <1>4 DEF Next

\* A new pipe is an empty stream.
LEMMA InitRefines == Init => Stream!Init
<1> SUFFICES ASSUME Init PROVE Stream!Init  OBVIOUS
<1>1. IInv  BY InitSafe
<1>2. Queue = <<>>
  <2>1. nread = nwrite  BY DEF Init
  <2>2. Len(Queue) = 0 /\ Queue \in Seq(Bytes)
    BY <1>1, <2>1, RingFacts, QueueFacts DEF IInv
  <2> QED  BY <2>2
<1>3. Calls = [p \in Procs |-> "none"]
  <2>1. \A p \in Procs : pc[p] \in {"user", "unborn"}  BY DEF Init
  <2> QED  BY <2>1 DEF Calls, CallAt, Reading, Writing
<1> QED  BY <1>2, <1>3 DEF Init, Stream!Init, Ends

\* What the processes that share a pipe see is one queue of bytes of bounded
\* length: no byte is lost, doubled or reordered, whatever wraps, sleeps, fails
\* or closes in between.
THEOREM PipeImplementsStream == Spec => IsStream
<1>1. IInv /\ IInv' /\ [Next]_vars => [Stream!Next]_(Stream!vars)
  BY StepRefines DEF StreamStep, Unseen, Stream!vars
<1> QED
  BY <1>1, InitRefines, PipeInvariance, PTL DEF Spec, IsStream, Stream!Spec
=============================================================================
