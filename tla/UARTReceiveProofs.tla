------------------------- MODULE UARTReceiveProofs -------------------------
(***************************************************************************)
(* The circular buffer of the UART service is a first-in first-out queue,  *)
(* for every size of the buffer and every interleaving of the interrupt    *)
(* with the reading fiber.                                                 *)
(***************************************************************************)
EXTENDS UARTReceive, SequenceTheorems, TLAPS

-----------------------------------------------------------------------------
(* Arithmetic of the indices.                                              *)

\* How far index i lies ahead of the tail.
Ahead(i) == IF i >= rxBufferTail THEN i - rxBufferTail ELSE (N - rxBufferTail) + i

LEMMA SuccIndex ==
  ASSUME NEW i \in Index
  PROVE  /\ Succ(i) = IF i + 1 = N THEN 0 ELSE i + 1
         /\ Succ(i) \in Index
  BY SizeAssumption DEF Succ, Index

\* The slot j places after index t.
LEMMA SlotIndex ==
  ASSUME NEW t \in Index, NEW j \in 0 .. N
  PROVE  /\ (t + j) % N = IF t + j < N THEN t + j ELSE t + j - N
         /\ (t + j) % N \in Index
<1>1. t \in Nat /\ j \in Nat /\ N \in Nat /\ N > 0 /\ t < N /\ j <= N
  BY SizeAssumption DEF Index
<1>2. CASE t + j < N
  BY <1>1, <1>2 DEF Index
<1>3. CASE t + j >= N
  <2>1. t + j - N \in 0 .. N - 1
    BY <1>1, <1>3
  <2>2. (t + j) % N = (t + j - N) % N
    BY <1>1, <1>3
  <2>3. (t + j - N) % N = t + j - N
    BY <1>1, <2>1
  <2> QED
    BY <1>1, <1>3, <2>1, <2>2, <2>3 DEF Index
<1> QED
  BY <1>1, <1>2, <1>3

\* The remainder of C is an index or negative, and takes off the size as often as it can.
LEMMA RemainderIndex ==
  ASSUME NEW a \in Int
  PROVE  /\ Remainder(a) \in 1 - N .. N - 1
         /\ a >= 0 => Remainder(a) \in Index
         /\ a < 0 => Remainder(a) <= 0
<1>1. N \in Nat /\ N > 0
  BY SizeAssumption
<1>2. a % N \in 0 .. N - 1 /\ (-a) % N \in 0 .. N - 1
  BY <1>1
<1>3. CASE a >= 0
  BY <1>1, <1>2, <1>3 DEF Remainder, Index
<1>4. CASE a < 0
  <2>1. Remainder(a) = -((-a) % N)
    BY <1>4 DEF Remainder
  <2>2. PICK r \in 0 .. N - 1 : r = (-a) % N
    BY <1>2
  <2> QED
    BY <1>1, <1>4, <2>1, <2>2
<1> QED
  BY <1>3, <1>4

LEMMA RemainderOnce ==
  ASSUME NEW a \in Nat, a < N + N + N
  PROVE  Remainder(a) = IF a < N THEN a ELSE IF a < N + N THEN a - N ELSE a - N - N
<1>1. N \in Nat /\ N > 0 /\ Remainder(a) = a % N
  BY SizeAssumption DEF Remainder
<1>3. CASE a < N
  BY <1>1, <1>3
<1>4. CASE a >= N /\ a < N + N
  <2>1. a - N \in 0 .. N - 1 /\ (a - N) % N = a % N
    BY <1>1, <1>4
  <2>2. (a - N) % N = a - N
    BY <1>1, <2>1
  <2> QED
    BY <1>1, <1>4, <2>1, <2>2
<1>5. CASE a >= N + N
  <2>1. a - N - N \in 0 .. N - 1 /\ (a - N - N) % N = a % N
    BY <1>1, <1>5
  <2>2. (a - N - N) % N = a - N - N
    BY <1>1, <2>1
  <2> QED
    BY <1>1, <1>5, <2>1, <2>2
<1> QED
  BY <1>1, <1>3, <1>4, <1>5

LEMMA CountIsAhead ==
  ASSUME RingOK
  PROVE  /\ rxBufferedSize = Ahead(rxBufferHead)
         /\ rxBufferedSize \in 0 .. N - 1
         /\ isReadable <=> rxBufferedSize > 0
         /\ HasRoom <=> rxBufferedSize < N - 1
<1>1. /\ rxBufferHead \in 0 .. N - 1 /\ rxBufferTail \in 0 .. N - 1
      /\ N \in Nat /\ N > 1
  BY SizeAssumption DEF RingOK, Index
<1>2. /\ rxBufferedSize = Ahead(rxBufferHead)
      /\ rxBufferedSize \in 0 .. N - 1
  BY <1>1 DEF rxBufferedSize, Ahead
<1>3. isReadable <=> rxBufferedSize > 0
  BY <1>1 DEF rxBufferedSize, isReadable
<1>4. Succ(rxBufferHead) = IF rxBufferHead + 1 = N THEN 0 ELSE rxBufferHead + 1
  BY SuccIndex DEF RingOK
<1>5. HasRoom <=> rxBufferedSize < N - 1
  BY <1>1, <1>4 DEF rxBufferedSize, HasRoom
<1> QED
  BY <1>2, <1>3, <1>5

LEMMA ContentsType ==
  ASSUME RingOK, NEW n \in 0 .. N
  PROVE  /\ FromTail(n) \in Seq(Bytes)
         /\ Len(FromTail(n)) = n
         /\ \A i \in 1 .. n : FromTail(n)[i] = rxBuffer[(rxBufferTail + i - 1) % N]
<1>1. \A i \in 1 .. n : rxBuffer[(rxBufferTail + i - 1) % N] \in Bytes
  <2> TAKE i \in 1 .. n
  <2>1. i - 1 \in 0 .. N /\ rxBufferTail \in Index
    BY SizeAssumption DEF RingOK
  <2>2. (rxBufferTail + (i - 1)) % N \in Index
    BY <2>1, SlotIndex
  <2>3. rxBufferTail + i - 1 = rxBufferTail + (i - 1)
    BY <2>1 DEF Index
  <2> QED
    BY <2>2, <2>3 DEF RingOK
<1>2. n \in Nat
  BY SizeAssumption
<1> QED
  BY <1>1, <1>2 DEF FromTail

-----------------------------------------------------------------------------
(* What the operations on the ring do to its contents.                     *)

LEMMA StoreAppends ==
  ASSUME RingOK, NEW b \in Bytes, Store(b), rxBufferTail' = rxBufferTail
  PROVE  /\ RingOK'
         /\ Len(Contents) < N - 1
         /\ Contents' = Append(Contents, b)
         /\ rxBufferedSize' = rxBufferedSize + 1
<1>1. /\ HasRoom /\ rxBufferHead' = Succ(rxBufferHead)
      /\ rxBuffer' = [rxBuffer EXCEPT ![rxBufferHead] = b]
  BY DEF Store
<1>2. RingOK'
  BY <1>1, SuccIndex DEF RingOK
<1>3. /\ rxBufferedSize < N - 1 /\ rxBufferedSize \in 0 .. N - 1
      /\ rxBufferedSize = Ahead(rxBufferHead)
  BY <1>1, CountIsAhead
<1>4. rxBufferedSize' = rxBufferedSize + 1
  <2>1. /\ rxBufferHead \in 0 .. N - 1 /\ rxBufferTail \in 0 .. N - 1
        /\ N \in Nat /\ N > 1 /\ rxBufferTail' = rxBufferTail
    BY SizeAssumption DEF RingOK, Index
  <2>2. rxBufferHead' = IF rxBufferHead + 1 = N THEN 0 ELSE rxBufferHead + 1
    BY <1>1, SuccIndex DEF RingOK
  <2>3. rxBufferHead' # rxBufferTail
    BY <1>1 DEF HasRoom
  <2> QED
    BY <2>1, <2>2, <2>3 DEF rxBufferedSize
<1> DEFINE n == rxBufferedSize
           Slot(i) == (rxBufferTail + i - 1) % N
<1>5. \A i \in 1 .. n + 1 :
         /\ Slot(i) \in Index
         /\ Slot(i) = rxBufferHead <=> i = n + 1
  <2> TAKE i \in 1 .. n + 1
  <2>1. i - 1 \in 0 .. N /\ rxBufferTail \in Index /\ rxBufferHead \in Index
    BY <1>3, SizeAssumption DEF RingOK
  <2>2. rxBufferTail + i - 1 = rxBufferTail + (i - 1)
    BY <2>1 DEF Index
  <2>3. /\ Slot(i) \in Index
        /\ Slot(i) = IF rxBufferTail + i - 1 < N THEN rxBufferTail + i - 1
                     ELSE rxBufferTail + i - 1 - N
    BY <2>1, <2>2, SlotIndex
  <2> HIDE DEF Slot
  <2> QED
    BY <1>3, <2>1, <2>3, SizeAssumption DEF Ahead, Index
<1>6. /\ Contents = FromTail(n) /\ Contents' = [i \in 1 .. n + 1 |-> rxBuffer'[Slot(i)]]
  <2>1. rxBufferTail' = rxBufferTail
    OBVIOUS
  <2> QED
    BY <1>4, <2>1 DEF Contents, FromTail
<1>7. \A i \in 1 .. n + 1 : rxBuffer'[Slot(i)] = IF i = n + 1 THEN b ELSE rxBuffer[Slot(i)]
  BY <1>1, <1>5 DEF RingOK
<1>8. /\ Contents \in Seq(Bytes) /\ Len(Contents) = n
      /\ \A i \in 1 .. n : Contents[i] = rxBuffer[Slot(i)]
  <2>1. n \in 0 .. N
    BY <1>3, SizeAssumption
  <2> QED
    BY <1>6, <2>1, ContentsType
<1> HIDE DEF n, Slot
<1>9. Append(Contents, b) = [i \in 1 .. n + 1 |-> IF i = n + 1 THEN b ELSE Contents[i]]
  <2>1. Len(Append(Contents, b)) = n + 1 /\ Append(Contents, b) \in Seq(Bytes)
    BY <1>8
  <2>2. \A i \in 1 .. n + 1 :
           Append(Contents, b)[i] = IF i = n + 1 THEN b ELSE Contents[i]
    BY <1>8
  <2>3. Append(Contents, b) = [i \in 1 .. n + 1 |-> Append(Contents, b)[i]]
    <3>1. Append(Contents, b) \in [1 .. n + 1 -> Bytes]
      BY <2>1, LenProperties
    <3> QED
      BY <3>1
  <2> QED
    BY <2>2, <2>3
<1>10. [i \in 1 .. n + 1 |-> rxBuffer'[Slot(i)]]
        = [i \in 1 .. n + 1 |-> IF i = n + 1 THEN b ELSE Contents[i]]
  <2>1. n \in Nat
    BY <1>3, SizeAssumption DEF n
  <2>2. \A i \in 1 .. n + 1 : i = n + 1 \/ i \in 1 .. n
    BY <2>1
  <2> QED
    BY <1>7, <1>8, <2>2
<1> QED
  BY <1>2, <1>3, <1>4, <1>6, <1>8, <1>9, <1>10 DEF n

LEMMA TailTakes ==
  ASSUME RingOK, NEW k \in 1 .. rxBufferedSize,
         rxBufferTail' = (rxBufferTail + k) % N,
         UNCHANGED <<rxBuffer, rxBufferHead>>
  PROVE  /\ RingOK'
         /\ k \in 1 .. Len(Contents)
         /\ FromTail(k) = SubSeq(Contents, 1, k)
         /\ Contents' = SubSeq(Contents, k + 1, Len(Contents))
<1>1. /\ rxBufferedSize = Ahead(rxBufferHead) /\ rxBufferedSize \in 0 .. N - 1
      /\ k \in 0 .. N
  BY CountIsAhead, SizeAssumption
<1>2. /\ rxBufferTail' \in Index
      /\ rxBufferTail' = IF rxBufferTail + k < N THEN rxBufferTail + k
                         ELSE rxBufferTail + k - N
  BY <1>1, SlotIndex DEF RingOK
<1>3. RingOK'
  BY <1>2 DEF RingOK
<1>4. rxBufferedSize' = rxBufferedSize - k
  BY <1>1, <1>2, SizeAssumption DEF RingOK, rxBufferedSize, Ahead, Index
<1> DEFINE n == rxBufferedSize
           Slot(i) == (rxBufferTail + i - 1) % N
<1>5. /\ Contents \in Seq(Bytes) /\ Len(Contents) = n
      /\ \A i \in 1 .. n : Contents[i] = rxBuffer[Slot(i)]
  BY <1>1, ContentsType, SizeAssumption, SMTT(30) DEF Contents
<1>6. \A i \in 1 .. n - k : (rxBufferTail' + i - 1) % N = Slot(k + i)
  <2> TAKE i \in 1 .. n - k
  <2>1. /\ i - 1 \in 0 .. N /\ k + i - 1 \in 0 .. N /\ rxBufferTail \in Index
        /\ i \in Nat /\ k \in Nat /\ k + i - 1 <= N - 1
    BY <1>1, SizeAssumption DEF RingOK
  <2>2. /\ rxBufferTail' + i - 1 = rxBufferTail' + (i - 1)
        /\ rxBufferTail + (k + i) - 1 = rxBufferTail + (k + i - 1)
    BY <1>2, <2>1 DEF Index
  <2>3. (rxBufferTail' + i - 1) % N = IF rxBufferTail' + i - 1 < N THEN rxBufferTail' + i - 1
                                      ELSE rxBufferTail' + i - 1 - N
    BY <1>2, <2>1, <2>2, SlotIndex
  <2>4. Slot(k + i) = IF rxBufferTail + (k + i) - 1 < N THEN rxBufferTail + (k + i) - 1
                      ELSE rxBufferTail + (k + i) - 1 - N
    BY <2>1, <2>2, SlotIndex
  <2> HIDE DEF Slot
  <2> QED
    BY <1>2, <2>1, <2>3, <2>4, SizeAssumption DEF Index
<1>7. Contents' = [i \in 1 .. n - k |-> rxBuffer[Slot(k + i)]]
  <2>1. Contents' = [i \in 1 .. n - k |-> rxBuffer'[(rxBufferTail' + i - 1) % N]]
    BY <1>4 DEF Contents, FromTail
  <2>2. rxBuffer' = rxBuffer
    OBVIOUS
  <2> HIDE DEF n, Slot
  <2> QED
    BY <1>6, <2>1, <2>2
<1>8. k \in 1 .. n /\ n \in Nat
  BY <1>1, SizeAssumption
<1>9. FromTail(k) = [i \in 1 .. k |-> rxBuffer[Slot(i)]]
  BY DEF FromTail
<1> HIDE DEF n, Slot
<1>10. SubSeq(Contents, 1, k) = [i \in 1 .. k |-> rxBuffer[Slot(i)]]
  <2>1. SubSeq(Contents, 1, k) = [i \in 1 .. k |-> Contents[i]]
    BY <1>5, <1>8
  <2> QED
    BY <1>5, <1>8, <2>1
<1>11. SubSeq(Contents, k + 1, n) = [i \in 1 .. n - k |-> rxBuffer[Slot(k + i)]]
  <2>1. SubSeq(Contents, k + 1, n) = [i \in 1 .. n - k |-> Contents[k + i]]
    BY <1>5, <1>8
  <2>2. \A i \in 1 .. n - k : k + i \in 1 .. n
    BY <1>8
  <2> QED
    BY <1>5, <2>1, <2>2
<1> QED
  BY <1>3, <1>5, <1>7, <1>8, <1>9, <1>10, <1>11

-----------------------------------------------------------------------------
(* The inductive invariant.                                                *)

\* The reader has nothing in hand while it looks for a delimiter, and what it
\* has found lies in the buffer.
Searching == {"scan", "listen", "delimRegister", "delimWait", "matched", "finish"}
SearchOK ==
    /\ pc \in Searching => removed = <<>>
    /\ pc = "scan" => Ahead(localTail) <= rxBufferedSize
    /\ pc \in {"scan", "finish"} /\ foundIndex # -1 =>
          Ahead(foundIndex) < rxBufferedSize

\* The head does not pass the tail, so a comparison that found it behind stays true.
ComparedOK == pc \in {"readSize", "needSize"} /\ wrapped => Compared

ReceiveInv == TypeOK /\ WokenHasData /\ SearchOK /\ ComparedOK

LEMMA ReceiveInit == Init => ReceiveInv
<1> SUFFICES ASSUME Init PROVE ReceiveInv
  OBVIOUS
<1>1. RingOK
  BY SizeAssumption, BytesAssumption DEF Init, RingOK, Index
<1>2. CallOK
  BY SizeAssumption, LimitsAssumption DEF Init, CallOK, Index, PCs, Ops
<1>3. HistoryOK
  <2>1. passed \in BOOLEAN
    BY Zenon DEF Init
  <2> QED
    BY <2>1 DEF Init, HistoryOK
<1>4. WokenHasData /\ SearchOK /\ ComparedOK
  BY DEF Init, WokenHasData, SearchOK, ComparedOK, Searching
<1> QED
  BY <1>1, <1>2, <1>3, <1>4 DEF ReceiveInv, TypeOK

LEMMA RingFrame ==
  ASSUME RingOK, UNCHANGED ring
  PROVE  /\ RingOK'
         /\ rxBufferedSize' = rxBufferedSize
         /\ isReadable' = isReadable
         /\ Contents' = Contents
  BY DEF RingOK, ring, rxBufferedSize, isReadable, Contents, FromTail

LEMMA CallStep == ReceiveInv /\ Call => ReceiveInv'
<1> SUFFICES ASSUME ReceiveInv, Call PROVE ReceiveInv'
  OBVIOUS
<1>1. /\ RingOK /\ CallOK /\ HistoryOK
      /\ N \in Nat /\ N > 1 /\ MaxLen \in Nat /\ 1 <= MaxLen
  BY SizeAssumption, LimitsAssumption DEF ReceiveInv, TypeOK
<1>2. /\ UNCHANGED <<ring, match, written>> /\ buf' = <<>> /\ removed' = <<>>
      /\ passed' = FALSE /\ wrapped' = FALSE /\ place' = 0
      /\ pc' \in {"getc", "readAsync", "readCheck", "scan", "arm", "listen"}
  BY DEF Call, getc, read, readUntil, eventAfter, eventOn, Start
<1>3. \E kind \in {"getc", "read", "readUntil", "eventAfter", "eventOn"},
         mode \in {"ASYNC", "SLEEP"}, len \in 0 .. MaxLen :
            op' = [kind |-> kind, mode |-> mode, len |-> len]
  <2>1. 0 \in 0 .. MaxLen /\ 1 \in 0 .. MaxLen /\ 1 .. MaxLen \subseteq 0 .. MaxLen
    BY <1>1
  <2> QED
    BY <2>1 DEF Call, getc, read, readUntil, eventAfter, eventOn, Start
<1>4. /\ need' \in 1 - N .. MaxLen + N - 1
      /\ caller' \in {"getc", "read", "client"}
      /\ place' \in 1 - N .. N - 1 /\ wrapped' \in BOOLEAN
  <2>1. need' = need \/ need' \in 1 .. MaxLen
    BY DEF Call, getc, read, readUntil, eventAfter, eventOn
  <2>2. caller' \in {caller, "client"}
    BY DEF Call, getc, read, readUntil, eventAfter, eventOn
  <2>3. wrapped' \in BOOLEAN
    BY <1>2, Zenon
  <2> QED
    BY <1>1, <1>2, <2>1, <2>2, <2>3 DEF CallOK
<1>5. /\ localTail' \in {localTail, rxBufferTail}
      /\ foundIndex' \in {foundIndex, -1}
      /\ pc' = "scan" => localTail' = rxBufferTail /\ foundIndex' = -1
  BY <1>1 DEF CallOK, Call, getc, read, readUntil, eventAfter, eventOn, Start, search
<1>6. RingOK' /\ rxBufferedSize' = rxBufferedSize
  BY <1>1, <1>2, RingFrame
<1>7. CallOK'
  <2>1. op' \in Ops
    BY <1>3 DEF Ops
  <2>2. pc' \in PCs
    BY <1>2 DEF PCs
  <2>3. localTail' \in Index /\ foundIndex' \in Index \cup {-1}
    BY <1>1, <1>5 DEF CallOK, RingOK
  <2> QED
    BY <1>1, <1>2, <1>4, <2>1, <2>2, <2>3 DEF CallOK, match
<1>8. HistoryOK'
  <2>1. passed' \in BOOLEAN
    BY <1>2, Zenon
  <2> QED
    BY <1>2, <2>1 DEF HistoryOK
<1>9. WokenHasData' /\ ComparedOK'
  BY <1>2 DEF WokenHasData, ComparedOK
<1>10. SearchOK'
  <2>1. rxBufferTail' = rxBufferTail /\ rxBufferedSize >= 0
    BY <1>1, <1>2, CountIsAhead DEF ring
  <2> QED
    BY <1>1, <1>2, <1>5, <1>6, <2>1 DEF SearchOK, Searching, Ahead, RingOK, Index
<1> QED
  BY <1>6, <1>7, <1>8, <1>9, <1>10 DEF ReceiveInv, TypeOK

LEMMA WriteStep == \A b \in Bytes : ReceiveInv /\ onDataWritten(b) => ReceiveInv'
<1> SUFFICES ASSUME NEW b \in Bytes, ReceiveInv, onDataWritten(b) PROVE ReceiveInv'
  OBVIOUS
<1>1. /\ RingOK /\ CallOK /\ HistoryOK /\ WokenHasData /\ SearchOK /\ ComparedOK
      /\ N \in Nat /\ N > 1 /\ MaxBytes \in Nat
  BY SizeAssumption, LimitsAssumption DEF ReceiveInv, TypeOK
<1>2. /\ written' \in 0 .. MaxBytes
      /\ UNCHANGED <<rxBufferTail, delimeters, reader, buf, removed>>
  BY <1>1 DEF onDataWritten, CallOK
<1>3. HistoryOK'
  <2>1. passed' \in BOOLEAN
    <3>1. passed' = passed \/ passed' = (passed \/ Passes(b))
      BY DEF onDataWritten, Store
    <3>2. (passed \/ Passes(b)) \in BOOLEAN /\ passed \in BOOLEAN
      BY <1>1, Zenon DEF HistoryOK
    <3> QED
      BY <3>1, <3>2
  <2> QED
    BY <1>1, <1>2, <2>1 DEF HistoryOK
<1>4. CASE Store(b)
  <2>1. RingOK' /\ rxBufferedSize' = rxBufferedSize + 1 /\ rxBufferedSize \in 0 .. N - 1
    BY <1>1, <1>2, <1>4, StoreAppends, CountIsAhead
  <2>2. isReadable'
    BY <1>2, <1>4 DEF Store, HasRoom, isReadable
  <2>3. pc' \in {pc, "idle", "matched", "take", "loop"}
    BY <1>4 DEF Store, Woken
  <2>4. pc' = pc \/ (pc = "delimWait" /\ pc' \in {"idle", "matched"})
                 \/ (pc = "headWait" /\ pc' \in {"idle", "take", "loop"})
    BY <1>4 DEF Store, Woken
  <2>5. rxBuffHeadMatch' \in 1 - N .. N - 1
    BY <1>1, <1>4 DEF Store, CallOK
  <2>6. CallOK'
    BY <1>1, <1>2, <2>3, <2>5 DEF CallOK, reader, waiting, search, PCs
  <2>7. WokenHasData'
    BY <2>2 DEF WokenHasData
  <2>8. SearchOK'
    <3>1. /\ Ahead(localTail)' = Ahead(localTail) /\ Ahead(foundIndex)' = Ahead(foundIndex)
      BY <1>2 DEF Ahead, reader, waiting, search
    <3>2. Ahead(localTail) \in Int /\ Ahead(foundIndex) \in Int
      BY <1>1 DEF CallOK, RingOK, Index, Ahead
    <3> QED
      BY <1>1, <1>2, <2>1, <2>4, <3>1, <3>2 DEF SearchOK, Searching, reader, waiting, search
  <2>9. ComparedOK'
    <3>1. /\ rxBufferHead' = Succ(rxBufferHead) /\ Succ(rxBufferHead) # rxBufferTail
          /\ Succ(rxBufferHead) = IF rxBufferHead + 1 = N THEN 0 ELSE rxBufferHead + 1
          /\ rxBufferHead \in 0 .. N - 1 /\ rxBufferTail \in 0 .. N - 1
      BY <1>1, <1>4, SuccIndex DEF Store, HasRoom, RingOK, Index
    <3>2. pc' \in {"readSize", "needSize"} => pc' = pc /\ wrapped' = wrapped
      BY <1>2, <2>4 DEF reader, waiting
    <3>3. Compared => Compared'
      <4>1. PICK head \in 0 .. N - 1 : head = rxBufferHead'
        BY <1>1, <3>1
      <4> QED
        BY <1>1, <1>2, <3>1, <4>1 DEF Compared
    <3> QED
      BY <1>1, <3>2, <3>3 DEF ComparedOK
  <2> QED
    BY <1>3, <2>1, <2>6, <2>7, <2>8, <2>9 DEF ReceiveInv, TypeOK
<1>5. CASE UNCHANGED <<rxBuffer, rxBufferHead, rxBuffHeadMatch, pc, passed>>
  <2>1. UNCHANGED <<ring, match, pc, reader, removed>>
    BY <1>2, <1>5 DEF ring, match
  <2>2. RingOK' /\ rxBufferedSize' = rxBufferedSize /\ isReadable' = isReadable
    BY <1>1, <2>1, RingFrame
  <2>3. CallOK'
    BY <1>1, <1>2, <2>1 DEF CallOK, match, reader, waiting, search
  <2>4. WokenHasData'
    BY <1>1, <2>1, <2>2 DEF WokenHasData
  <2>5. SearchOK'
    BY <1>1, <2>1, <2>2 DEF SearchOK, Searching, Ahead, reader, waiting, search, ring
  <2>6. ComparedOK'
    BY <1>1, <2>1 DEF ComparedOK, Compared, reader, waiting, ring
  <2> QED
    BY <1>3, <2>2, <2>3, <2>4, <2>5, <2>6 DEF ReceiveInv, TypeOK
<1> QED
  BY <1>4, <1>5 DEF onDataWritten

\* TakeOne() takes the oldest byte.
LEMMA TakeOldest ==
  ASSUME RingOK, HistoryOK, isReadable, NEW kept \in BOOLEAN, TakeOne(kept)
  PROVE  /\ RingOK' /\ HistoryOK'
         /\ 1 \in 1 .. Len(Contents)
         /\ removed' = removed \o SubSeq(Contents, 1, 1)
         /\ Contents' = SubSeq(Contents, 2, Len(Contents))
         /\ UNCHANGED <<match, reader, passed, written>>
<1>1. rxBufferedSize \in 0 .. N - 1 /\ rxBufferedSize > 0 /\ N \in Nat
  BY CountIsAhead, SizeAssumption
<1>2. 1 \in 1 .. rxBufferedSize
  BY <1>1
<1>3. rxBufferTail' = (rxBufferTail + 1) % N /\ UNCHANGED <<rxBuffer, rxBufferHead>>
  BY DEF TakeOne, Succ
<1>4. /\ RingOK' /\ 1 \in 1 .. Len(Contents)
      /\ FromTail(1) = SubSeq(Contents, 1, 1)
      /\ Contents' = SubSeq(Contents, 1 + 1, Len(Contents))
  BY <1>2, <1>3, TailTakes
<1>5. rxBuffer[rxBufferTail] \in Bytes
  BY DEF RingOK
<1>6. FromTail(1) = <<rxBuffer[rxBufferTail]>>
  <2>1. rxBufferTail + 1 - 1 = rxBufferTail /\ rxBufferTail % N = rxBufferTail
    BY SizeAssumption DEF RingOK, Index
  <2>2. FromTail(1) \in Seq(Bytes) /\ Len(FromTail(1)) = 1
        /\ FromTail(1)[1] = rxBuffer[rxBufferTail]
    <3>1. 1 \in 0 .. N /\ 1 \in 1 .. 1
      BY <1>1
    <3>2. /\ FromTail(1) \in Seq(Bytes) /\ Len(FromTail(1)) = 1
          /\ FromTail(1)[1] = rxBuffer[(rxBufferTail + 1 - 1) % N]
      BY <3>1, ContentsType
    <3> QED
      BY <2>1, <3>2
  <2> QED
    BY <1>5, <2>2
<1>7. removed' = Append(removed, rxBuffer[rxBufferTail])
      /\ Append(removed, rxBuffer[rxBufferTail]) = removed \o <<rxBuffer[rxBufferTail]>>
  BY <1>5 DEF TakeOne, HistoryOK
<1>9. UNCHANGED <<match, reader, passed, written>>
  BY DEF TakeOne
<1>8. HistoryOK'
  <2>1. buf' = buf \/ buf' = Append(buf, rxBuffer[rxBufferTail])
    BY Zenon DEF TakeOne
  <2>2. buf \in Seq(Bytes) /\ Append(buf, rxBuffer[rxBufferTail]) \in Seq(Bytes)
        /\ Append(removed, rxBuffer[rxBufferTail]) \in Seq(Bytes)
    BY <1>5 DEF HistoryOK
  <2> QED
    BY <1>7, <1>9, <2>1, <2>2 DEF HistoryOK

<1> QED
  BY <1>4, <1>6, <1>7, <1>8, <1>9

\* readUntil() takes the text and its delimiter in one step.
LEMMA FinishTakes ==
  ASSUME ReceiveInv, FinishFound
  PROVE  /\ RingOK' /\ HistoryOK'
         /\ localBuffSize + 1 \in 1 .. Len(Contents)
         /\ removed' = removed \o SubSeq(Contents, 1, localBuffSize + 1)
         /\ Contents' = SubSeq(Contents, localBuffSize + 2, Len(Contents))
<1>1. /\ RingOK /\ pc = "finish" /\ foundIndex \in Index /\ foundIndex # -1
      /\ N \in Nat /\ N > 1 /\ rxBufferTail \in Index
  BY SizeAssumption DEF FinishFound, ReceiveInv, TypeOK, CallOK, RingOK, Index
<1>2. /\ removed = <<>>
      /\ Ahead(foundIndex) < rxBufferedSize
      /\ localBuffSize = Ahead(foundIndex)
  BY <1>1 DEF ReceiveInv, SearchOK, Searching, localBuffSize, Ahead, Index
<1>3. rxBufferedSize \in 0 .. N - 1 /\ Ahead(foundIndex) \in Nat
  BY <1>1, CountIsAhead DEF Ahead, Index
<1> DEFINE k == localBuffSize + 1
<1>4. k \in 1 .. rxBufferedSize /\ localBuffSize \in 0 .. N /\ k \in 0 .. N
  BY <1>1, <1>2, <1>3
<1>5. /\ rxBufferTail' = (rxBufferTail + k) % N
      /\ UNCHANGED <<rxBuffer, rxBufferHead>>
      /\ removed' = FromTail(k) /\ buf' = FromTail(localBuffSize) /\ passed' = passed
  <2>1. rxBufferTail + localBuffSize + 1 = rxBufferTail + k
    BY <1>1, <1>4 DEF Index
  <2> QED
    BY <2>1 DEF FinishFound
<1>6. k + 1 = localBuffSize + 2
  BY <1>4
<1> HIDE DEF k
<1>7. /\ RingOK' /\ k \in 1 .. Len(Contents)
      /\ FromTail(k) = SubSeq(Contents, 1, k)
      /\ Contents' = SubSeq(Contents, k + 1, Len(Contents))
  BY <1>1, <1>4, <1>5, TailTakes
<1>8. FromTail(k) \in Seq(Bytes) /\ FromTail(localBuffSize) \in Seq(Bytes)
  BY <1>1, <1>4, ContentsType
<1>9. <<>> \o FromTail(k) = FromTail(k)
  BY <1>8
<1>10. passed \in BOOLEAN
  BY DEF ReceiveInv, TypeOK, HistoryOK
<1> QED
  BY <1>2, <1>5, <1>6, <1>7, <1>8, <1>9, <1>10 DEF HistoryOK, k

\* Steps of the reader that leave the ring and what was taken alone.
QuietReader ==
    \/ GetcReadable \/ GetcNoData \/ GetcSleep
    \/ ReadAsyncEnd
    \/ CompareIndices \/ ReadEnough \/ ReadTooFew \/ ReadMissing \/ ReadLoop
    \/ Arm \/ SetMatch \/ HeadRegister
    \/ Scan \/ ScanEnd \/ Listen \/ DelimRegister \/ Matched \/ FinishNothing

LEMMA QuietFrame == QuietReader => UNCHANGED <<ring, buf, removed, passed, written>>
  BY DEF QuietReader, GetcReadable, GetcNoData, GetcSleep, ReadAsyncEnd,
         CompareIndices, ReadEnough, ReadTooFew, ReadMissing, ReadLoop, Arm, SetMatch,
         HeadRegister, Scan, ScanEnd, Listen, DelimRegister, Matched, FinishNothing, Goto, ring

LEMMA QuietStep == ReceiveInv /\ QuietReader => ReceiveInv'
<1> SUFFICES ASSUME ReceiveInv, QuietReader PROVE ReceiveInv'
  OBVIOUS
<1>1. /\ RingOK /\ CallOK /\ HistoryOK /\ WokenHasData /\ SearchOK
      /\ N \in Nat /\ N > 1 /\ MaxLen \in Nat /\ 1 <= MaxLen
      /\ rxBufferedSize \in 0 .. N - 1
  BY SizeAssumption, LimitsAssumption, CountIsAhead DEF ReceiveInv, TypeOK
<1>2. UNCHANGED <<ring, buf, removed, passed, written>>
  BY QuietFrame
<1>3. /\ RingOK' /\ rxBufferedSize' = rxBufferedSize /\ isReadable' = isReadable
  BY <1>1, <1>2, RingFrame
<1>4. HistoryOK' /\ ComparedOK'
  <2>1. HistoryOK'
    BY <1>1, <1>2 DEF HistoryOK
  <2>2. ASSUME CompareIndices PROVE ComparedOK'
    <3>1. wrapped' = Compared
      BY <2>2 DEF CompareIndices
    <3>2. Compared' = Compared
      BY <1>2 DEF ring, Compared
    <3> QED
      BY <3>1, <3>2, Zenon DEF ComparedOK
  <2>3. ASSUME ~CompareIndices PROVE ComparedOK'
    <3>1. pc' \notin {"readSize", "needSize"}
      BY <2>3 DEF QuietReader, GetcReadable, GetcNoData, GetcSleep, ReadAsyncEnd, ReadEnough,
         ReadTooFew, ReadMissing, ReadLoop, Arm, SetMatch, HeadRegister, Scan, ScanEnd, Listen,
         DelimRegister, Matched, FinishNothing, Goto
    <3> QED
      BY <3>1 DEF ComparedOK
  <2> QED
    BY <2>1, <2>2, <2>3
<1>5. rxBufferTail' = rxBufferTail
  BY <1>2 DEF ring
<1>6. CASE \/ GetcReadable \/ GetcNoData \/ ReadAsyncEnd
           \/ ReadEnough \/ ReadTooFew \/ ReadLoop
  <2>1. /\ UNCHANGED <<match, reader>>
        /\ pc' \in {"take", "idle", "loop", "getc", "needCheck"}
        /\ pc' = "take" => isReadable
    BY <1>6 DEF GetcReadable, GetcNoData, ReadAsyncEnd, ReadEnough, ReadTooFew, ReadLoop, Goto
  <2>2. CallOK'
    BY <1>1, <1>2, <2>1 DEF CallOK, match, reader, waiting, search, PCs
  <2>3. WokenHasData' /\ SearchOK'
    BY <1>3, <2>1 DEF WokenHasData, SearchOK, Searching
  <2> QED
    BY <1>3, <1>4, <2>2, <2>3 DEF ReceiveInv, TypeOK
<1>7. CASE GetcSleep \/ CompareIndices \/ ReadMissing
  <2>1. /\ caller' \in {caller, "getc", "read"} /\ pc' \in {"arm", "readSize", "needSize"}
        /\ UNCHANGED <<match, op, place, localTail, foundIndex>>
    BY <1>7 DEF GetcSleep, CompareIndices, ReadMissing, search
  <2>2. wrapped' \in BOOLEAN
    <3>1. wrapped' = wrapped \/ wrapped' = Compared
      BY <1>7 DEF GetcSleep, CompareIndices, ReadMissing
    <3>2. wrapped \in BOOLEAN
      BY <1>1, Zenon DEF CallOK
    <3>3. (rxBufferTail > rxBufferHead) \in BOOLEAN
      BY <1>1, SMT DEF RingOK, Index
    <3> QED
      BY <3>1, <3>2, <3>3, Zenon DEF Compared
  <2>3. need' \in 1 - N .. MaxLen + N - 1
    <3>1. PICK len \in 0 .. MaxLen : len = op.len
      BY <1>1 DEF CallOK, Ops
    <3>2. need' = need \/ need' = 1 \/ (pc = "needSize" /\ need' = len - sizeRead)
      BY <1>7, <3>1 DEF GetcSleep, CompareIndices, ReadMissing
    <3>3. ASSUME pc = "needSize" PROVE sizeRead \in 1 - N .. N - 1
      <4>1. /\ rxBufferHead \in 0 .. N - 1 /\ rxBufferTail \in 0 .. N - 1
            /\ wrapped => rxBufferTail > rxBufferHead
        BY <1>1, <3>3 DEF RingOK, Index, ReceiveInv, ComparedOK, Compared
      <4> QED
        BY <1>1, <4>1 DEF sizeRead
    <3> QED
      BY <1>1, <3>1, <3>2, <3>3 DEF CallOK
  <2>4. CallOK'
    BY <1>1, <1>2, <2>1, <2>2, <2>3 DEF CallOK, match, PCs
  <2>5. WokenHasData' /\ SearchOK'
    BY <2>1 DEF WokenHasData, SearchOK, Searching
  <2> QED
    BY <1>3, <1>4, <2>4, <2>5 DEF ReceiveInv, TypeOK
<1>8. CASE Arm \/ SetMatch \/ HeadRegister
  <2>1. /\ UNCHANGED <<delimeters, op, need, caller, wrapped, search>>
        /\ pc' \in {"setMatch", "headRegister", "idle", "headWait"}
    BY <1>8 DEF Arm, SetMatch, HeadRegister, Goto, match, reader, waiting
  <2>2. rxBuffHeadMatch' \in 1 - N .. N - 1 /\ place' \in 1 - N .. N - 1
    <3>1. rxBuffHeadMatch' \in {rxBuffHeadMatch, place}
      BY <1>8 DEF Arm, SetMatch, HeadRegister, Goto, match
    <3>2. rxBufferHead + need \in Int
      BY <1>1 DEF CallOK, RingOK, Index
    <3>3. place' \in {place, Remainder(rxBufferHead + need)}
      BY <1>8 DEF Arm, SetMatch, HeadRegister, Goto, reader, waiting
    <3>4. Remainder(rxBufferHead + need) \in 1 - N .. N - 1
      BY <3>2, RemainderIndex
    <3> QED
      BY <1>1, <3>1, <3>3, <3>4 DEF CallOK
  <2>3. CallOK'
    BY <1>1, <1>2, <2>1, <2>2 DEF CallOK, search, PCs, Waits
  <2>4. WokenHasData' /\ SearchOK'
    BY <2>1 DEF WokenHasData, SearchOK, Searching
  <2> QED
    BY <1>3, <1>4, <2>3, <2>4 DEF ReceiveInv, TypeOK
<1>9. CASE Scan
  <2>1. /\ pc = "scan" /\ pc' = "scan" /\ localTail # rxBufferHead
        /\ foundIndex' \in {localTail, -1} /\ localTail' = Succ(localTail)
        /\ UNCHANGED <<match, op, waiting>>
    BY <1>9 DEF Scan
  <2>2. localTail \in Index /\ rxBufferHead \in Index /\ rxBufferTail \in Index
    BY <1>1 DEF CallOK, RingOK
  <2>3. localTail' \in Index /\ localTail' = IF localTail + 1 = N THEN 0 ELSE localTail + 1
    BY <2>1, <2>2, SuccIndex
  <2>4. CallOK'
    BY <1>1, <1>2, <2>1, <2>2, <2>3 DEF CallOK, match, waiting
  <2>5. WokenHasData'
    BY <2>1 DEF WokenHasData
  <2>6. Ahead(localTail) < rxBufferedSize
    <3>1. Ahead(localTail) <= Ahead(rxBufferHead) /\ rxBufferedSize = Ahead(rxBufferHead)
      BY <1>1, <2>1, CountIsAhead DEF SearchOK
    <3> QED
      BY <1>1, <2>1, <2>2, <3>1 DEF Ahead, Index
  <2>7. /\ Ahead(localTail)' <= rxBufferedSize
        /\ foundIndex' # -1 => Ahead(foundIndex)' < rxBufferedSize
    <3>1. Ahead(localTail)' <= Ahead(localTail) + 1
      BY <1>1, <1>5, <2>2, <2>3 DEF Ahead, Index
    <3>2. foundIndex' # -1 => Ahead(foundIndex)' = Ahead(localTail)
      BY <1>5, <2>1 DEF Ahead
    <3>3. Ahead(localTail) \in Nat /\ Ahead(localTail)' \in Nat
      BY <1>1, <1>5, <2>2, <2>3 DEF Ahead, Index
    <3> QED
      BY <1>1, <2>6, <3>1, <3>2, <3>3
  <2>8. SearchOK'
    BY <1>1, <1>2, <1>3, <2>1, <2>7 DEF SearchOK, Searching
  <2> QED
    BY <1>3, <1>4, <2>4, <2>5, <2>8 DEF ReceiveInv, TypeOK
<1>10. CASE ScanEnd \/ Listen \/ DelimRegister \/ FinishNothing
  <2>1. /\ UNCHANGED <<rxBuffHeadMatch, reader>>
        /\ delimeters' \in {delimeters, Delimeters}
        /\ \/ pc = "scan" /\ pc' = "finish"
           \/ pc \in {"scan", "listen", "delimRegister"}
              /\ pc' \in {"listen", "delimRegister", "delimWait", "idle"}
           \/ pc' = "idle"
    BY <1>10 DEF ScanEnd, Listen, DelimRegister, FinishNothing, Goto, match
  <2>2. CallOK'
    BY <1>1, <1>2, <2>1 DEF CallOK, reader, waiting, search, PCs, Waits
  <2>3. WokenHasData'
    BY <2>1 DEF WokenHasData
  <2>4. SearchOK'
    BY <1>1, <1>2, <1>3, <1>5, <2>1 DEF SearchOK, Searching, Ahead, reader, waiting, search
  <2> QED
    BY <1>3, <1>4, <2>2, <2>3, <2>4 DEF ReceiveInv, TypeOK
<1>11. CASE Matched
  <2>1. /\ pc = "matched" /\ pc' = "finish" /\ foundIndex' = rxBufferHead - 1
        /\ delimeters' = {} /\ isReadable
        /\ UNCHANGED <<rxBuffHeadMatch, op, waiting, localTail>>
    BY <1>1, <1>11 DEF Matched, WokenHasData
  <2>2. /\ rxBufferHead \in Index /\ rxBufferTail \in Index
        /\ rxBufferTail # rxBufferHead
    BY <1>1, <2>1 DEF RingOK, isReadable
  <2>3. foundIndex' \in Index \cup {-1}
    BY <1>1, <2>1, <2>2 DEF Index
  <2>4. CallOK'
    BY <1>1, <1>2, <2>1, <2>3 DEF CallOK, waiting, PCs
  <2>5. WokenHasData'
    BY <2>1 DEF WokenHasData
  <2>6. foundIndex' # -1 => Ahead(foundIndex)' < rxBufferedSize
    <3>1. rxBufferedSize = Ahead(rxBufferHead)
      BY <1>1, CountIsAhead
    <3> QED
      BY <1>1, <1>5, <2>1, <2>2, <3>1 DEF Ahead, Index
  <2>7. SearchOK'
    BY <1>1, <1>2, <1>3, <2>1, <2>6 DEF SearchOK, Searching
  <2> QED
    BY <1>3, <1>4, <2>4, <2>5, <2>7 DEF ReceiveInv, TypeOK
<1> QED
  BY <1>6, <1>7, <1>8, <1>9, <1>10, <1>11 DEF QuietReader

LEMMA TakingStep ==
  ReceiveInv /\ (GetcTake \/ ReadAsyncTake \/ FinishFound) => ReceiveInv'
<1> SUFFICES ASSUME ReceiveInv, GetcTake \/ ReadAsyncTake \/ FinishFound
             PROVE  ReceiveInv'
  OBVIOUS
<1>1. RingOK /\ CallOK /\ HistoryOK /\ WokenHasData
  BY DEF ReceiveInv, TypeOK
<1>2. RingOK' /\ HistoryOK'
  <2>1. CASE GetcTake
    <3>1. isReadable /\ TakeOne(TRUE)
      BY <1>1, <2>1 DEF GetcTake, WokenHasData
    <3> QED
      BY <1>1, <3>1, TakeOldest
  <2>2. CASE ReadAsyncTake
    <3>1. isReadable /\ \E kept \in BOOLEAN : TakeOne(kept)
      BY <2>2 DEF ReadAsyncTake
    <3> QED
      BY <1>1, <3>1, TakeOldest
  <2>3. CASE FinishFound
    BY <2>3, FinishTakes
  <2> QED
    BY <2>1, <2>2, <2>3
<1>3. UNCHANGED <<match, reader, passed, written>> /\ pc' \in {"loop", "readAsync", "idle"}
  BY DEF GetcTake, ReadAsyncTake, FinishFound, TakeOne
<1>4. CallOK'
  BY <1>1, <1>3 DEF CallOK, match, reader, waiting, search, PCs
<1>5. WokenHasData' /\ SearchOK' /\ ComparedOK'
  BY <1>3 DEF WokenHasData, SearchOK, Searching, ComparedOK
<1> QED
  BY <1>2, <1>4, <1>5 DEF ReceiveInv, TypeOK

LEMMA ReceiveStep == ReceiveInv /\ [Next]_vars => ReceiveInv'
<1> SUFFICES ASSUME ReceiveInv, [Next]_vars PROVE ReceiveInv'
  OBVIOUS
<1>1. CASE UNCHANGED vars
  <2>1. /\ UNCHANGED <<ring, match, pc, reader, buf, removed, passed, written>>
        /\ RingOK /\ CallOK /\ HistoryOK /\ WokenHasData /\ SearchOK /\ ComparedOK
    BY <1>1 DEF vars, ReceiveInv, TypeOK
  <2>2. RingOK' /\ rxBufferedSize' = rxBufferedSize /\ isReadable' = isReadable
    BY <2>1, RingFrame
  <2>3. CallOK' /\ HistoryOK'
    BY <2>1 DEF CallOK, HistoryOK, match, reader, waiting, search
  <2>4. WokenHasData' /\ SearchOK' /\ ComparedOK'
    BY <2>1, <2>2 DEF WokenHasData, SearchOK, Searching, Ahead, ComparedOK, Compared, reader,
       waiting, search, ring
  <2> QED
    BY <2>2, <2>3, <2>4 DEF ReceiveInv, TypeOK
<1> QED
  BY <1>1, CallStep, WriteStep, QuietStep, TakingStep DEF Next, Reader, QuietReader

\* The indices stay inside the buffer, and a fiber that was woken for data
\* finds some.
THEOREM ReceiveSafe == Spec => [](TypeOK /\ WokenHasData)
<1>1. ReceiveInv => TypeOK /\ WokenHasData
  BY DEF ReceiveInv
<1> QED
  BY <1>1, ReceiveInit, ReceiveStep, PTL DEF Spec

\* The indices stay inside the buffer and the calls in their places; the number of bytes
\* that read() asks the interrupt to wait for is bounded, though it may be negative.
THEOREM ReceiveTypes == Spec => []TypeOK
<1> QED
  BY ReceiveSafe, PTL

-----------------------------------------------------------------------------
(* The refinement.                                                         *)

LEMMA FifoStart == Init => Fifo!FifoInit
<1> SUFFICES ASSUME Init PROVE Contents = <<>> /\ removed = <<>> /\ written = 0
  BY DEF Fifo!FifoInit
<1>1. RingOK /\ rxBufferedSize = 0
  BY ReceiveInit, SizeAssumption DEF ReceiveInv, TypeOK, Init, rxBufferedSize
<1>2. Contents \in Seq(Bytes) /\ Len(Contents) = 0
  <2>1. 0 \in 0 .. N
    BY SizeAssumption
  <2> QED
    BY <1>1, <2>1, ContentsType DEF Contents
<1> QED
  BY <1>2 DEF Init

LEMMA FifoTakeStep ==
  ASSUME NEW k \in 1 .. Len(Contents), RingOK, written' = written,
         removed' = removed \o SubSeq(Contents, 1, k),
         Contents' = SubSeq(Contents, k + 1, Len(Contents))
  PROVE  Fifo!FifoNext
<1>1. rxBufferedSize \in 0 .. N - 1 /\ N \in Nat
  BY CountIsAhead, SizeAssumption
<1>2. Len(Contents) = rxBufferedSize
  <2>1. rxBufferedSize \in 0 .. N
    BY <1>1
  <2> QED
    BY <2>1, ContentsType DEF Contents
<1>3. k \in 1 .. N - 1
  BY <1>1, <1>2
<1>4. Fifo!Take(k)
  BY DEF Fifo!Take
<1> QED
  BY <1>3, <1>4 DEF Fifo!FifoNext

LEMMA FifoStep ==
  ReceiveInv /\ [Next]_vars => [Fifo!FifoNext]_(Fifo!fifoVars)
<1> SUFFICES ASSUME ReceiveInv, [Next]_vars
             PROVE  Fifo!FifoNext \/ UNCHANGED <<Contents, removed, written>>
  BY DEF Fifo!fifoVars
<1>1. RingOK /\ HistoryOK /\ WokenHasData
  BY DEF ReceiveInv, TypeOK
<1>2. CASE Call
  <2>1. UNCHANGED <<ring, written>> /\ removed' = <<>>
    BY <1>2 DEF Call, getc, read, readUntil, eventAfter, eventOn, Start
  <2>2. Contents' = Contents
    BY <1>1, <2>1, RingFrame
  <2> QED
    BY <2>1, <2>2 DEF Fifo!FifoNext, Fifo!NewOperation
<1>3. ASSUME NEW b \in Bytes, onDataWritten(b)
      PROVE  Fifo!FifoNext
  <2>1. rxBufferTail' = rxBufferTail /\ removed' = removed /\ written' = written + 1
    BY <1>3 DEF onDataWritten
  <2>2. CASE Store(b)
    <3>1. Len(Contents) < N - 1 /\ Contents' = Append(Contents, b)
      BY <1>1, <2>1, <2>2, StoreAppends
    <3> QED
      BY <2>1, <3>1 DEF Fifo!FifoNext, Fifo!Arrive
  <2>3. CASE ~HasRoom /\ UNCHANGED <<rxBuffer, rxBufferHead>>
    <3>1. Contents' = Contents
      BY <1>1, <2>1, <2>3, RingFrame DEF ring
    <3>2. Len(Contents) = N - 1
      <4>1. rxBufferedSize \in 0 .. N - 1 /\ ~(rxBufferedSize < N - 1)
            /\ N \in Nat /\ rxBufferedSize \in 0 .. N
        BY <1>1, <2>3, CountIsAhead, SizeAssumption
      <4>2. Len(Contents) = rxBufferedSize
        BY <1>1, <4>1, ContentsType DEF Contents
      <4> QED
        BY <4>1, <4>2
    <3> QED
      BY <2>1, <3>1, <3>2 DEF Fifo!FifoNext, Fifo!Refuse
  <2> QED
    BY <1>3, <2>2, <2>3 DEF onDataWritten
<1>4. CASE QuietReader
  BY <1>1, <1>4, QuietFrame, RingFrame
<1>5. CASE GetcTake \/ ReadAsyncTake
  <2>1. isReadable /\ \E kept \in BOOLEAN : TakeOne(kept)
    BY <1>1, <1>5 DEF GetcTake, ReadAsyncTake, WokenHasData
  <2>2. /\ 1 \in 1 .. Len(Contents) /\ written' = written
        /\ removed' = removed \o SubSeq(Contents, 1, 1)
        /\ Contents' = SubSeq(Contents, 1 + 1, Len(Contents))
    BY <1>1, <2>1, TakeOldest
  <2> QED
    BY <1>1, <2>2, FifoTakeStep
<1>6. CASE FinishFound
  <2> DEFINE k == localBuffSize + 1
  <2>1. /\ k \in 1 .. Len(Contents)
        /\ removed' = removed \o SubSeq(Contents, 1, k)
        /\ Contents' = SubSeq(Contents, localBuffSize + 2, Len(Contents))
    BY <1>6, FinishTakes
  <2>2. localBuffSize \in Int /\ written' = written
    BY <1>6, SizeAssumption
       DEF FinishFound, localBuffSize, ReceiveInv, TypeOK, RingOK, CallOK, Index
  <2>3. localBuffSize + 2 = k + 1
    BY <2>2
  <2> HIDE DEF k
  <2> QED
    BY <1>1, <2>1, <2>2, <2>3, FifoTakeStep
<1>7. CASE UNCHANGED vars
  BY <1>1, <1>7, RingFrame DEF vars
<1> QED
  BY <1>2, <1>3, <1>4, <1>5, <1>6, <1>7 DEF Next, Reader, QuietReader

\* The receive buffer is a first-in first-out queue for every size N: what is taken out is what
\* came in, in order, and a byte that comes is refused only when the buffer is full.
THEOREM ReceiveIsFifo == Spec => ImplementsByteFifo
  BY ReceiveInit, ReceiveStep, FifoStart, FifoStep, PTL
     DEF Spec, ImplementsByteFifo, Fifo!FifoSpec

-----------------------------------------------------------------------------
(* What a call returns.                                                    *)

\* A sleeping read(), which fetches its characters with getc().
Fetches == op.kind = "read" /\ op.mode = "SLEEP"
Comparing == {"readCheck", "readSize", "needCheck", "needSize"}
Arming == {"arm", "setMatch", "headRegister", "headWait"}
Listening == {"listen", "delimRegister", "delimWait"}

\* The text that readUntil() has looked at has no delimiter but the one found; while it sleeps
\* and none has passed it by there is none in the buffer, and the one that wakes it is the last.
SearchedOK ==
    /\ pc = "scan" /\ foundIndex = -1 =>
          \A i \in Index : Ahead(i) < Ahead(localTail) => rxBuffer[i] \notin Delimeters
    /\ pc \in {"scan", "finish"} /\ ~passed /\ foundIndex # -1 =>
          /\ rxBuffer[foundIndex] \in Delimeters
          /\ \A i \in Index : Ahead(i) < Ahead(foundIndex) => rxBuffer[i] \notin Delimeters
    /\ pc \in Listening /\ op.kind = "readUntil" /\ ~passed =>
          \A i \in Index : Ahead(i) < rxBufferedSize => rxBuffer[i] \notin Delimeters
    /\ pc = "matched" /\ ~passed =>
          \A i \in Index :
             /\ Ahead(i) + 1 < rxBufferedSize => rxBuffer[i] \notin Delimeters
             /\ Ahead(i) + 1 = rxBufferedSize => rxBuffer[i] \in Delimeters

\* Until it returns a call has all it took, and where it is tells which call it is and how
\* much it still wants.
CallsInv ==
    /\ pc # "idle" => buf = removed
    /\ pc = "readAsync" => op.kind = "read" /\ op.mode = "ASYNC"
    /\ pc \in {"getc", "take"} \/ (pc \in Arming /\ caller = "getc") =>
          op.kind = "getc" \/ (Fetches /\ Len(buf) < op.len)
    /\ pc \in Comparing \cup {"loop"} \/ (pc \in Arming /\ caller = "read") =>
          Fetches /\ Len(buf) <= op.len
    /\ pc \in Arming => IF caller = "client" THEN op.kind = "eventAfter" ELSE op.mode = "SLEEP"
    /\ pc \in Searching => op.kind \in {"readUntil", "eventOn"}
    /\ pc \in {"scan", "matched", "finish"} => op.kind = "readUntil"
    /\ pc \in Searching \ {"scan", "finish"} => op.kind = "eventOn" \/ op.mode = "SLEEP"
    /\ pc \in {"delimRegister", "delimWait"} => delimeters = Delimeters
    /\ SearchedOK
    /\ ReturnsWhatItTakes

\* A call that returns all it took, and is no search.
LEMMA ReturnsAll ==
  ASSUME HistoryOK, buf = removed, op.kind # "readUntil" \/ removed = <<>>,
         Fetches => Len(buf) = op.len
  PROVE  ReturnsWhatItTakes
<1>1. buf = SubSeq(removed, 1, Len(buf)) /\ Len(removed) - Len(buf) = 0
  BY DEF HistoryOK
<1> QED
  BY <1>1 DEF ReturnsWhatItTakes, Fetches

\* Places of the ring are told apart by how far they are from the tail.
LEMMA AheadOnce ==
  ASSUME RingOK
  PROVE  /\ \A i \in Index : Ahead(i) \in 0 .. N - 1
         /\ \A i, j \in Index : Ahead(i) = Ahead(j) => i = j
         /\ \A k \in 0 .. N - 1 : (rxBufferTail + k) % N \in Index
                                  /\ Ahead((rxBufferTail + k) % N) = k
<1>1. /\ rxBufferTail \in 0 .. N - 1 /\ N \in Nat /\ N > 1 /\ Index = 0 .. N - 1
  BY SizeAssumption DEF RingOK, Index
<1>2. \A i \in Index : Ahead(i) \in 0 .. N - 1
  BY <1>1 DEF Ahead
<1>3. \A i, j \in Index : Ahead(i) = Ahead(j) => i = j
  BY <1>1 DEF Ahead
<1>4. ASSUME NEW k \in 0 .. N - 1
      PROVE  (rxBufferTail + k) % N \in Index /\ Ahead((rxBufferTail + k) % N) = k
  <2>1. /\ (rxBufferTail + k) % N = IF rxBufferTail + k < N THEN rxBufferTail + k
                                    ELSE rxBufferTail + k - N
        /\ (rxBufferTail + k) % N \in Index
    <3>1. k \in 0 .. N /\ rxBufferTail \in Index
      BY <1>1
    <3> QED
      BY <3>1, SlotIndex
  <2> QED
    BY <1>1, <2>1 DEF Ahead
<1> QED
  BY <1>2, <1>3, <1>4

LEMMA CallsInit == Init => CallsInv
<1> SUFFICES ASSUME Init PROVE CallsInv
  OBVIOUS
<1>1. HistoryOK
  BY ReceiveInit DEF ReceiveInv, TypeOK
<1>2. /\ pc = "idle" /\ buf = removed /\ op.kind = "getc"
  BY DEF Init
<1>3. ReturnsWhatItTakes
  BY <1>1, <1>2, ReturnsAll DEF Fetches
<1> QED
  BY <1>2, <1>3 DEF CallsInv, SearchedOK, Searching, Listening, Comparing, Arming

\* A call begins with nothing.
LEMMA CallsCall == ReceiveInv /\ CallsInv /\ Call => CallsInv'
<1> SUFFICES ASSUME ReceiveInv, Call PROVE CallsInv'
  OBVIOUS
<1>1. buf' = <<>> /\ removed' = <<>> /\ Len(buf') = 0
  BY DEF Call, getc, read, readUntil, eventAfter, eventOn, Start
<1>2. RingOK' /\ op' \in Ops
  BY CallStep DEF ReceiveInv, TypeOK, CallOK
<1>3. \/ pc' = "getc" /\ op'.kind = "getc"
      \/ pc' = "readAsync" /\ op'.kind = "read" /\ op'.mode = "ASYNC"
      \/ pc' = "readCheck" /\ op'.kind = "read" /\ op'.mode = "SLEEP" /\ op'.len \in 1 .. MaxLen
      \/ pc' = "scan" /\ op'.kind = "readUntil" /\ localTail' = rxBufferTail' /\ foundIndex' = -1
      \/ pc' = "arm" /\ op'.kind = "eventAfter" /\ caller' = "client"
      \/ pc' = "listen" /\ op'.kind = "eventOn"
  <2>1. ASSUME NEW mode \in {"ASYNC", "SLEEP"}, NEW len \in 1 .. MaxLen, read(len, mode)
        PROVE  \/ pc' = "readAsync" /\ op'.kind = "read" /\ op'.mode = "ASYNC"
               \/ pc' = "readCheck" /\ op'.kind = "read" /\ op'.mode = "SLEEP"
                  /\ op'.len \in 1 .. MaxLen
    BY <2>1 DEF read, Start
  <2>2. ASSUME NEW mode \in {"ASYNC", "SLEEP"}, getc(mode) \/ readUntil(mode) \/ eventOn(mode)
        PROVE  \/ pc' = "getc" /\ op'.kind = "getc"
               \/ pc' = "scan" /\ op'.kind = "readUntil"
                  /\ localTail' = rxBufferTail' /\ foundIndex' = -1
               \/ pc' = "listen" /\ op'.kind = "eventOn"
    BY <2>2 DEF getc, readUntil, eventOn, Start, ring
  <2>3. ASSUME NEW mode \in {"ASYNC", "SLEEP"}, NEW len \in 1 .. MaxLen, eventAfter(len, mode)
        PROVE  pc' = "arm" /\ op'.kind = "eventAfter" /\ caller' = "client"
    BY <2>3 DEF eventAfter, Start
  <2> QED
    BY <2>1, <2>2, <2>3 DEF Call
<1>4. SearchedOK'
  <2>1. ASSUME pc' = "scan", NEW i \in Index
        PROVE  foundIndex' = -1 /\ ~(Ahead(i)' < Ahead(localTail)')
    <3>1. localTail' = rxBufferTail' /\ foundIndex' = -1
      BY <1>3, <2>1
    <3>2. PICK tail \in Index : tail = rxBufferTail'
      BY <1>2 DEF RingOK
    <3>3. /\ Ahead(localTail)' = IF tail >= tail THEN tail - tail ELSE (N - tail) + tail
          /\ Ahead(i)' = IF i >= tail THEN i - tail ELSE (N - tail) + i
      BY <3>1, <3>2 DEF Ahead
    <3>4. Ahead(localTail)' = 0 /\ Ahead(i)' \in Nat
      BY <3>3, SizeAssumption DEF Index
    <3> QED
      BY <3>1, <3>4
  <2>2. Index' = Index
    BY DEF Index
  <2>3. pc' # "finish" /\ pc' # "matched" /\ (pc' = "scan" => foundIndex' = -1)
        /\ (pc' \in Listening => op'.kind = "eventOn")
    BY <1>3 DEF Listening
  <2> QED
    BY <2>1, <2>2, <2>3 DEF SearchedOK
<1>5. ReturnsWhatItTakes'
  BY <1>3 DEF ReturnsWhatItTakes
<1> QED
  BY <1>1, <1>3, <1>4, <1>5 DEF CallsInv, Searching, Listening, Comparing, Arming, Fetches

\* A byte that arrives comes behind all that a search has looked at, and wakes no call into
\* a place where it does not belong.
LEMMA CallsWrite ==
  \A b \in Bytes : ReceiveInv /\ CallsInv /\ onDataWritten(b) => CallsInv'
<1> SUFFICES ASSUME NEW b \in Bytes, ReceiveInv, CallsInv, onDataWritten(b) PROVE CallsInv'
  OBVIOUS
<1>1. /\ RingOK /\ CallOK /\ HistoryOK /\ SearchOK
      /\ UNCHANGED <<rxBufferTail, delimeters, op, need, caller, localTail, foundIndex, buf, removed>>
  BY DEF ReceiveInv, TypeOK, onDataWritten, reader, waiting, search
<1>2. \/ pc' = pc
      \/ pc = "delimWait" /\ b \in delimeters /\ op.kind = "eventOn" /\ pc' = "idle"
      \/ pc = "delimWait" /\ b \in delimeters /\ op.kind # "eventOn" /\ pc' = "matched"
      \/ pc = "headWait" /\ caller = "getc" /\ pc' = "take"
      \/ pc = "headWait" /\ caller = "read" /\ pc' = "loop"
      \/ pc = "headWait" /\ caller = "client" /\ pc' = "idle"
  BY <1>1 DEF onDataWritten, Store, Woken, CallOK
<1>3. ASSUME pc \in {"scan", "finish"}
      PROVE  /\ pc = "scan" => \A i \in Index : Ahead(i) < Ahead(localTail) => i # rxBufferHead
             /\ foundIndex # -1 =>
                   /\ foundIndex # rxBufferHead
                   /\ \A i \in Index : Ahead(i) < Ahead(foundIndex) => i # rxBufferHead
  <2>1. /\ rxBufferedSize = Ahead(rxBufferHead) /\ rxBufferedSize \in 0 .. N - 1
        /\ \A i \in Index : Ahead(i) \in 0 .. N - 1
        /\ rxBufferHead \in Index /\ localTail \in Index /\ N \in Nat
    BY <1>1, CountIsAhead, AheadOnce, SizeAssumption DEF RingOK, CallOK
  <2>2. /\ pc = "scan" => Ahead(localTail) <= rxBufferedSize
        /\ foundIndex # -1 => foundIndex \in Index /\ Ahead(foundIndex) < rxBufferedSize
    BY <1>1, <1>3 DEF SearchOK, CallOK
  <2> QED
    BY <2>1, <2>2
<1>4. \A i \in Index : i # rxBufferHead => rxBuffer'[i] = rxBuffer[i]
  BY <1>1 DEF onDataWritten, Store, RingOK
<1>5. SearchedOK'
  <2>1. ASSUME pc' \in {"scan", "finish"} PROVE pc' = pc
    BY <1>2, <2>1
  <2>2. \A i \in Index : Ahead(i)' = Ahead(i)
    BY <1>1 DEF Ahead
  <2>3. /\ Ahead(localTail)' = Ahead(localTail) /\ Ahead(foundIndex)' = Ahead(foundIndex)
        /\ foundIndex # -1 => foundIndex \in Index
    BY <1>1 DEF Ahead, CallOK
  <2>4. SearchedOK
    BY DEF CallsInv
  <2>5. ASSUME pc' = "scan", foundIndex' = -1, NEW i \in Index, Ahead(i)' < Ahead(localTail)'
        PROVE  rxBuffer'[i] \notin Delimeters
    BY <1>1, <1>3, <1>4, <2>1, <2>2, <2>3, <2>4, <2>5 DEF SearchedOK
  <2>6. ASSUME pc' \in {"scan", "finish"}, ~passed', foundIndex' # -1
        PROVE  /\ rxBuffer'[foundIndex'] \in Delimeters
               /\ \A i \in Index : Ahead(i)' < Ahead(foundIndex)' => rxBuffer'[i] \notin Delimeters
    <3>1. ~passed
      BY <2>6 DEF onDataWritten, Store
    <3> QED
      BY <1>1, <1>3, <1>4, <2>1, <2>2, <2>3, <2>4, <2>6, <3>1 DEF SearchedOK
  <2>7. /\ rxBufferHead \in Index /\ rxBufferedSize = Ahead(rxBufferHead)
        /\ rxBufferedSize \in 0 .. N - 1 /\ \A i \in Index : Ahead(i) \in 0 .. N - 1
        /\ \A i \in Index : Ahead(i) = rxBufferedSize => i = rxBufferHead
        /\ N \in Nat
    BY <1>1, CountIsAhead, AheadOnce, SizeAssumption DEF RingOK
  <2>8. ASSUME Store(b)
        PROVE  /\ rxBufferedSize' = rxBufferedSize + 1 /\ rxBuffer'[rxBufferHead] = b
               /\ ~passed' => ~passed /\ ~Passes(b)
    <3>1. rxBufferedSize' = rxBufferedSize + 1
      BY <1>1, <2>8, StoreAppends
    <3> QED
      BY <1>1, <2>8, <3>1 DEF Store, RingOK
  <2>9. ASSUME UNCHANGED <<rxBuffer, rxBufferHead, pc, passed>>
        PROVE  rxBufferedSize' = rxBufferedSize
    BY <1>1, <2>9 DEF rxBufferedSize
  <2>10. ASSUME pc' \in Listening, op'.kind = "readUntil", ~passed',
                NEW i \in Index, Ahead(i)' < rxBufferedSize'
         PROVE  rxBuffer'[i] \notin Delimeters
    <3>1. pc' = pc /\ op.kind = "readUntil" /\ Ahead(i)' = Ahead(i)
      BY <1>1, <1>2, <2>2, <2>10 DEF Listening
    <3>2. CASE Store(b)
      <4>1. b \notin Delimeters
        <5>1. pc \in {"listen", "delimRegister"} => b \notin Delimeters
          BY <2>8, <2>10, <3>1, <3>2 DEF Passes
        <5>2. pc = "delimWait" => b \notin delimeters /\ delimeters = Delimeters
          BY <3>1, <3>2 DEF Store, Woken, CallsInv
        <5> QED
          BY <2>10, <3>1, <5>1, <5>2 DEF Listening
      <4>2. Ahead(i) < rxBufferedSize \/ i = rxBufferHead
        BY <2>7, <2>8, <2>10, <3>1, <3>2
      <4> QED
        BY <1>4, <2>4, <2>8, <2>10, <3>1, <3>2, <4>1, <4>2 DEF SearchedOK
    <3>3. CASE UNCHANGED <<rxBuffer, rxBufferHead, pc, passed>>
      BY <2>4, <2>9, <2>10, <3>1, <3>3 DEF SearchedOK
    <3> QED
      BY <3>2, <3>3 DEF onDataWritten
  <2>11. ASSUME pc' = "matched", ~passed', NEW i \in Index
         PROVE  /\ Ahead(i)' + 1 < rxBufferedSize' => rxBuffer'[i] \notin Delimeters
                /\ Ahead(i)' + 1 = rxBufferedSize' => rxBuffer'[i] \in Delimeters
    <3>1. Ahead(i)' = Ahead(i)
      BY <2>2
    <3>2. CASE Store(b)
      <4>1. /\ ~passed /\ ~Passes(b)
            /\ rxBufferedSize' = rxBufferedSize + 1 /\ rxBuffer'[rxBufferHead] = b
        BY <2>8, <2>11, <3>2
      <4>2. pc # "matched"
        BY <4>1 DEF Passes, CallsInv
      <4>3. pc = "delimWait" /\ op.kind = "readUntil" /\ b \in Delimeters
        BY <1>2, <2>11, <4>2 DEF CallsInv, Searching
      <4>4. Ahead(i) < rxBufferedSize => rxBuffer[i] \notin Delimeters
        BY <2>4, <4>1, <4>3 DEF SearchedOK, Listening
      <4>5. Ahead(i) < rxBufferedSize => i # rxBufferHead
        BY <2>7
      <4> QED
        BY <1>4, <2>7, <3>1, <4>1, <4>3, <4>4, <4>5
    <3>3. CASE UNCHANGED <<rxBuffer, rxBufferHead, pc, passed>>
      BY <2>4, <2>9, <2>11, <3>1, <3>3 DEF SearchedOK
    <3> QED
      BY <3>2, <3>3 DEF onDataWritten
  <2> QED
    BY <2>5, <2>6, <2>10, <2>11 DEF SearchedOK, Index
<1>6. ReturnsWhatItTakes'
  <2>1. CASE pc' = pc
    <3>1. passed => passed'
      BY DEF onDataWritten, Store
    <3> QED
      BY <1>1, <2>1, <3>1 DEF CallsInv, ReturnsWhatItTakes
  <2>2. CASE pc' # pc /\ pc' = "idle"
    <3>1. op.kind \in {"eventOn", "eventAfter"} /\ buf = removed
      BY <1>2, <2>2 DEF CallsInv, Arming
    <3>2. ReturnsWhatItTakes
      BY <1>1, <3>1, ReturnsAll DEF Fetches
    <3>3. HistoryOK'
      BY WriteStep DEF ReceiveInv, TypeOK
    <3> QED
      BY <1>1, <3>1, <3>3 DEF ReturnsWhatItTakes, HistoryOK
  <2> QED
    BY <2>1, <2>2 DEF ReturnsWhatItTakes
<1>7. /\ pc' # "idle" => buf' = removed'
      /\ pc' = "readAsync" => op'.kind = "read" /\ op'.mode = "ASYNC"
      /\ pc' \in {"getc", "take"} \/ (pc' \in Arming /\ caller' = "getc") =>
            op'.kind = "getc" \/ (Fetches' /\ Len(buf') < op'.len)
      /\ pc' \in Comparing \cup {"loop"} \/ (pc' \in Arming /\ caller' = "read") =>
            Fetches' /\ Len(buf') <= op'.len
      /\ pc' \in Arming =>
            IF caller' = "client" THEN op'.kind = "eventAfter" ELSE op'.mode = "SLEEP"
  BY <1>1, <1>2 DEF CallsInv, Comparing, Arming, Fetches
<1>8. /\ pc' \in Searching => op'.kind \in {"readUntil", "eventOn"}
      /\ pc' \in {"scan", "matched", "finish"} => op'.kind = "readUntil"
      /\ pc' \in Searching \ {"scan", "finish"} => op'.kind = "eventOn" \/ op'.mode = "SLEEP"
      /\ pc' \in {"delimRegister", "delimWait"} => delimeters' = Delimeters
  BY <1>1, <1>2 DEF CallsInv, Searching
<1> QED
  BY <1>5, <1>6, <1>7, <1>8 DEF CallsInv

\* getc() and read() take one byte at a time.
LEMMA CallsTake ==
  ReceiveInv /\ CallsInv /\ (GetcTake \/ ReadAsyncTake) => CallsInv'
<1> SUFFICES ASSUME ReceiveInv, CallsInv, GetcTake \/ ReadAsyncTake PROVE CallsInv'
  OBVIOUS
<1> DEFINE c == rxBuffer[rxBufferTail]
<1>1. HistoryOK /\ RingOK /\ c \in Bytes /\ op \in Ops
  BY DEF ReceiveInv, TypeOK, RingOK, CallOK
<1>2. /\ pc # "idle" /\ buf = removed /\ removed' = Append(removed, c)
      /\ UNCHANGED <<op, caller>>
  BY DEF CallsInv, GetcTake, ReadAsyncTake, TakeOne, reader, waiting, search
<1>3. /\ Append(buf, c) \in Seq(Bytes) /\ Len(Append(buf, c)) = Len(buf) + 1 /\ Len(buf) \in Nat
      /\ buf = SubSeq(Append(buf, c), 1, Len(buf)) /\ buf \in Seq(Bytes)
      /\ Append(buf, c) = SubSeq(Append(buf, c), 1, Len(Append(buf, c)))
  BY <1>1 DEF HistoryOK
<1>4. CASE GetcTake
  <2>1. /\ pc = "take" /\ buf' = removed' /\ buf' = Append(buf, c)
        /\ pc' = IF op.kind = "read" THEN "loop" ELSE "idle"
        /\ op.kind = "getc" \/ (Fetches /\ Len(buf) < op.len)
    BY <1>2, <1>4 DEF GetcTake, TakeOne, CallsInv
  <2>2. CASE op.kind = "read"
    <3>1. Fetches' /\ pc' = "loop" /\ Len(buf') <= op'.len
      BY <1>1, <1>2, <1>3, <2>1, <2>2 DEF Fetches, Ops
    <3> QED
      BY <2>1, <3>1 DEF CallsInv, SearchedOK, ReturnsWhatItTakes, Searching, Listening,
         Comparing, Arming
  <2>3. CASE op.kind # "read"
    <3>1. op'.kind = "getc" /\ pc' = "idle"
      BY <1>2, <2>1, <2>3 DEF Fetches
    <3>2. ReturnsWhatItTakes'
      BY <1>3, <2>1, <3>1 DEF ReturnsWhatItTakes
    <3> QED
      BY <3>1, <3>2 DEF CallsInv, SearchedOK, Searching, Listening, Comparing, Arming
  <2> QED
    BY <2>2, <2>3
<1>5. CASE ReadAsyncTake
  <2>1. /\ pc = "readAsync" /\ op'.kind = "read" /\ op'.mode = "ASYNC"
        /\ \/ pc' = "readAsync" /\ buf' = Append(buf, c)
           \/ pc' = "idle" /\ buf' = buf
    BY <1>2, <1>5 DEF ReadAsyncTake, TakeOne, CallsInv
  <2>2. ReturnsWhatItTakes'
    BY <1>2, <1>3, <2>1 DEF ReturnsWhatItTakes
  <2> QED
    BY <1>2, <2>1, <2>2 DEF CallsInv, SearchedOK, Searching, Listening, Comparing, Arming
<1> QED
  BY <1>4, <1>5

\* readUntil() returns what was before the delimiter, and the delimiter goes with it.
LEMMA CallsFinish == ReceiveInv /\ CallsInv /\ FinishFound => CallsInv'
<1> SUFFICES ASSUME ReceiveInv, CallsInv, FinishFound PROVE CallsInv'
  OBVIOUS
<1> DEFINE m == localBuffSize
<1>1. /\ RingOK /\ pc = "finish" /\ foundIndex \in Index /\ foundIndex # -1 /\ N \in Nat
      /\ op.kind = "readUntil" /\ rxBufferTail \in Index
  BY SizeAssumption DEF FinishFound, ReceiveInv, TypeOK, CallOK, RingOK, Index, CallsInv
<1>2. m = Ahead(foundIndex) /\ m \in 0 .. N - 1 /\ m + 1 \in 0 .. N /\ m \in 0 .. N
  <2>1. m = Ahead(foundIndex)
    BY <1>1 DEF localBuffSize, Ahead, Index
  <2>2. Ahead(foundIndex) \in 0 .. N - 1
    BY <1>1, AheadOnce
  <2> QED
    BY <1>1, <2>1, <2>2
<1>3. /\ pc' = "idle" /\ UNCHANGED <<op, foundIndex, passed>>
      /\ buf' = FromTail(m) /\ removed' = FromTail(m + 1)
  BY DEF FinishFound, reader, waiting, search
<1> HIDE DEF m
<1>4. /\ buf' \in Seq(Bytes) /\ Len(buf') = m
      /\ \A i \in 1 .. m : buf'[i] = rxBuffer[(rxBufferTail + i - 1) % N]
      /\ removed' \in Seq(Bytes) /\ Len(removed') = m + 1
      /\ \A i \in 1 .. m + 1 : removed'[i] = rxBuffer[(rxBufferTail + i - 1) % N]
  BY <1>1, <1>2, <1>3, ContentsType
<1>5. buf' = SubSeq(removed', 1, Len(buf'))
  <2>1. \A i \in 1 .. m : buf'[i] = removed'[i]
    BY <1>2, <1>4
  <2>2. /\ SubSeq(removed', 1, m) \in Seq(Bytes) /\ Len(SubSeq(removed', 1, m)) = m
        /\ \A i \in 1 .. m : SubSeq(removed', 1, m)[i] = removed'[i]
    BY <1>2, <1>4
  <2> QED
    BY <1>4, <2>1, <2>2, SeqEqual
<1>6. \A i \in 1 .. m + 1 : /\ (rxBufferTail + i - 1) % N \in Index
                            /\ Ahead((rxBufferTail + i - 1) % N) = i - 1
  <2> TAKE i \in 1 .. m + 1
  <2>1. i - 1 \in 0 .. N - 1 /\ rxBufferTail + i - 1 = rxBufferTail + (i - 1)
    BY <1>1, <1>2 DEF Index
  <2> QED
    BY <1>1, <2>1, AheadOnce
<1>7. ASSUME ~passed
      PROVE  /\ \A i \in 1 .. m : buf'[i] \notin Delimeters
             /\ removed'[m + 1] \in Delimeters
  <2>1. /\ rxBuffer[foundIndex] \in Delimeters
        /\ \A i \in Index : Ahead(i) < Ahead(foundIndex) => rxBuffer[i] \notin Delimeters
    BY <1>1, <1>7 DEF CallsInv, SearchedOK
  <2>2. ASSUME NEW i \in 1 .. m PROVE buf'[i] \notin Delimeters
    <3>1. i \in 1 .. m + 1 /\ i - 1 < m
      BY <1>2
    <3> QED
      BY <1>2, <1>4, <1>6, <2>1, <3>1
  <2>3. removed'[m + 1] \in Delimeters
    <3>1. m + 1 \in 1 .. m + 1 /\ (m + 1) - 1 = m
      BY <1>2
    <3>2. (rxBufferTail + (m + 1) - 1) % N = foundIndex
      BY <1>1, <1>2, <1>6, <3>1, AheadOnce
    <3> QED
      BY <1>4, <2>1, <3>1, <3>2
  <2> QED
    BY <2>2, <2>3
<1>8. ReturnsWhatItTakes'
  <2>1. Len(removed') - Len(buf') = 1
    BY <1>2, <1>4
  <2>2. op'.kind = "readUntil"
    BY <1>1, <1>3
  <2>3. ~passed' => /\ \A i \in 1 .. Len(buf') : buf'[i] \notin Delimeters
                    /\ removed'[Len(removed')] \in Delimeters
    BY <1>3, <1>4, <1>7
  <2> QED
    BY <1>5, <2>1, <2>2, <2>3 DEF ReturnsWhatItTakes
<1> QED
  BY <1>1, <1>3, <1>8 DEF CallsInv, SearchedOK, Searching, Listening, Comparing, Arming

\* The steps that take nothing.
LEMMA CallsQuiet == ReceiveInv /\ CallsInv /\ QuietReader => CallsInv'
<1> SUFFICES ASSUME ReceiveInv, CallsInv, QuietReader PROVE CallsInv'
  OBVIOUS
<1>1. /\ UNCHANGED <<ring, buf, removed, passed>> /\ op' = op
      /\ rxBufferedSize' = rxBufferedSize
      /\ RingOK /\ CallOK /\ HistoryOK /\ HistoryOK' /\ SearchOK
  <2>1. op' = op
    BY DEF QuietReader, GetcReadable, GetcNoData, GetcSleep, ReadAsyncEnd, CompareIndices,
           ReadEnough, ReadTooFew, ReadMissing, ReadLoop, Arm, SetMatch, HeadRegister, Scan,
           ScanEnd, Listen, DelimRegister, Matched, FinishNothing, Goto, reader
  <2> QED
    BY <2>1, QuietFrame, QuietStep, RingFrame DEF ReceiveInv, TypeOK
<1>2. Len(buf) \in Nat /\ op \in Ops
  BY <1>1 DEF HistoryOK, CallOK
<1>3. ASSUME pc # "idle", op.kind # "readUntil" \/ removed = <<>>,
             Fetches => Len(buf) = op.len
      PROVE  ReturnsWhatItTakes'
  <2>1. buf = removed
    BY <1>3 DEF CallsInv
  <2>2. buf = SubSeq(buf, 1, Len(buf)) /\ Len(buf) - Len(buf) = 0
    BY <1>1 DEF HistoryOK
  <2> QED
    BY <1>1, <1>3, <2>1, <2>2 DEF ReturnsWhatItTakes, Fetches
<1>4. CASE \/ GetcReadable \/ GetcNoData \/ ReadAsyncEnd
           \/ CompareIndices \/ ReadEnough \/ ReadTooFew \/ ReadLoop
  <2>1. /\ caller' = caller
        /\ \/ pc = "getc" /\ pc' = "take"
           \/ pc = "getc" /\ pc' = "idle" /\ op.kind = "getc"
           \/ pc = "readAsync" /\ pc' = "idle" /\ op.kind = "read" /\ op.mode = "ASYNC"
           \/ pc \in Comparing /\ pc' \in {"readSize", "needCheck", "needSize", "loop"}
           \/ pc = "loop" /\ pc' = "getc" /\ Len(buf) < op.len
           \/ pc = "loop" /\ pc' = "idle" /\ Len(buf) = op.len /\ op.kind = "read"
    BY <1>2, <1>4 DEF GetcReadable, GetcNoData, ReadAsyncEnd, CompareIndices, ReadEnough,
       ReadTooFew, ReadLoop, Goto, reader, waiting, CallsInv, Comparing, Fetches, Ops
  <2>2. ReturnsWhatItTakes'
    BY <1>3, <2>1 DEF ReturnsWhatItTakes, Fetches
  <2> QED
    BY <1>1, <2>1, <2>2 DEF CallsInv, SearchedOK, Searching, Listening, Comparing, Arming, Fetches
<1>5. CASE GetcSleep \/ ReadMissing
  <2>1. /\ pc' = "arm"
        /\ \/ pc = "getc" /\ op.mode = "SLEEP" /\ caller' = "getc"
           \/ pc = "needSize" /\ caller' = "read"
    BY <1>5 DEF GetcSleep, ReadMissing
  <2> QED
    BY <1>1, <2>1 DEF CallsInv, SearchedOK, Searching, Listening, Comparing, Arming, Fetches, ReturnsWhatItTakes
<1>6. CASE Arm \/ SetMatch \/ HeadRegister
  <2>1. /\ caller' = caller /\ pc \in Arming
        /\ \/ pc' \in {"setMatch", "headRegister", "headWait"}
           \/ pc' = "idle" /\ op.kind = "eventAfter"
    BY <1>6 DEF Arm, SetMatch, HeadRegister, Goto, reader, waiting, Arming, CallsInv
  <2>2. ReturnsWhatItTakes'
    BY <1>3, <2>1 DEF ReturnsWhatItTakes, Fetches, Arming
  <2> QED
    BY <1>1, <2>1, <2>2 DEF CallsInv, SearchedOK, Searching, Listening, Comparing, Arming, Fetches
<1>7. CASE Scan
  <2>1. /\ pc = "scan" /\ pc' = "scan" /\ localTail # rxBufferHead /\ foundIndex = -1
        /\ foundIndex' = IF rxBuffer[localTail] \in Delimeters THEN localTail ELSE -1
        /\ localTail' = Succ(localTail) /\ localTail \in Index
        /\ rxBufferTail' = rxBufferTail /\ rxBuffer' = rxBuffer
    BY <1>1, <1>7 DEF Scan, ring, CallOK
  <2>2. \A i \in Index : /\ Ahead(i)' = Ahead(i) /\ Ahead(i) \in Nat
                         /\ Ahead(i) = Ahead(localTail) => i = localTail
                         /\ Ahead(i) < Ahead(localTail) => rxBuffer[i] \notin Delimeters
    <3>1. \A i \in Index : Ahead(i)' = Ahead(i)
      BY <2>1 DEF Ahead
    <3>2. \A i \in Index : Ahead(i) \in Nat /\ (Ahead(i) = Ahead(localTail) => i = localTail)
      BY <1>1, <2>1, AheadOnce, SizeAssumption
    <3> QED
      BY <2>1, <3>1, <3>2 DEF CallsInv, SearchedOK
  <2>3. Ahead(localTail)' \in Nat /\ Ahead(localTail)' <= Ahead(localTail) + 1
    <3>1. /\ Ahead(localTail)' = Ahead(Succ(localTail))
          /\ Succ(localTail) = IF localTail + 1 = N THEN 0 ELSE localTail + 1
      BY <2>1, SuccIndex DEF Ahead
    <3>2. rxBufferTail \in Index
      BY <1>1 DEF RingOK
    <3> QED
      BY <2>1, <3>1, <3>2, SizeAssumption DEF Ahead, Index
  <2>4. ASSUME foundIndex' = -1, NEW i \in Index, Ahead(i)' < Ahead(localTail)'
        PROVE  rxBuffer'[i] \notin Delimeters
    <3>1. rxBuffer[localTail] \notin Delimeters
      BY <2>1, <2>4 DEF Index
    <3>2. Ahead(i) < Ahead(localTail) \/ i = localTail
      BY <2>1, <2>2, <2>3, <2>4
    <3> QED
      BY <2>1, <2>2, <3>1, <3>2
  <2>5. ASSUME foundIndex' # -1
        PROVE  /\ rxBuffer'[foundIndex'] \in Delimeters
               /\ \A i \in Index : Ahead(i)' < Ahead(foundIndex)' => rxBuffer'[i] \notin Delimeters
    <3>1. foundIndex' = localTail /\ rxBuffer[localTail] \in Delimeters
      BY <2>1, <2>5
    <3>2. Ahead(foundIndex)' = Ahead(localTail)
      BY <2>1, <3>1 DEF Ahead
    <3> QED
      BY <2>1, <2>2, <3>1, <3>2
  <2>6. SearchedOK'
    BY <2>1, <2>4, <2>5 DEF SearchedOK, Index, Listening
  <2> QED
    BY <1>1, <2>1, <2>6 DEF CallsInv, Searching, Listening, Comparing, Arming, ReturnsWhatItTakes
<1>8. CASE ScanEnd \/ FinishNothing
  <2>1. /\ UNCHANGED <<rxBuffer, rxBufferTail, foundIndex, localTail, op, caller, passed>>
        /\ \/ /\ pc = "scan" /\ pc' = "listen" /\ op.mode = "SLEEP"
              /\ localTail = rxBufferHead /\ foundIndex = -1
           \/ pc = "scan" /\ pc' = "finish"
           \/ pc = "finish" /\ pc' = "idle"
    BY <1>1, <1>8 DEF ScanEnd, FinishNothing, Goto, ring, reader, waiting, search
  <2>2. SearchedOK'
    <3>1. \A i \in Index : Ahead(i)' = Ahead(i)
      BY <2>1 DEF Ahead
    <3>2. Ahead(foundIndex)' = Ahead(foundIndex) /\ rxBufferedSize = Ahead(rxBufferHead)
      BY <1>1, <2>1, CountIsAhead DEF Ahead
    <3>3. Index' = Index /\ SearchedOK
      BY DEF Index, CallsInv
    <3>4. CASE pc = "scan" /\ pc' = "listen"
      BY <1>1, <2>1, <3>1, <3>2, <3>3, <3>4 DEF SearchedOK, Listening
    <3>5. CASE pc = "scan" /\ pc' = "finish"
      BY <1>1, <2>1, <3>1, <3>2, <3>3, <3>5 DEF SearchedOK, Listening
    <3>6. CASE pc' = "idle"
      BY <3>6 DEF SearchedOK, Listening
    <3> QED
      BY <2>1, <3>4, <3>5, <3>6
  <2>3. ReturnsWhatItTakes'
    BY <1>1, <1>3, <2>1 DEF ReturnsWhatItTakes, SearchOK, Searching, Fetches, CallsInv
  <2> QED
    BY <1>1, <2>1, <2>2, <2>3 DEF CallsInv, Searching, Comparing, Arming
<1>9. CASE Listen \/ DelimRegister \/ Matched
  <2>1. /\ op.kind \in {"readUntil", "eventOn"} /\ removed = <<>>
        /\ op.kind = "eventOn" \/ op.mode = "SLEEP"
        /\ pc' = "idle" => op.kind = "eventOn"
        /\ pc' \in {"idle", "delimRegister", "delimWait", "finish"}
        /\ pc' = "finish" => op.kind = "readUntil"
        /\ pc # "idle"
        /\ pc' \in {"delimRegister", "delimWait"} => delimeters' = Delimeters
    BY <1>1, <1>9 DEF Listen, DelimRegister, Matched, Goto, match, CallsInv, SearchOK, Searching
  <2>2. SearchedOK'
    <3>1. \A i \in Index : Ahead(i)' = Ahead(i)
      BY <1>1 DEF ring, Ahead
    <3>2. Index' = Index /\ SearchedOK /\ rxBuffer' = rxBuffer
      BY <1>1 DEF Index, CallsInv, ring
    <3>3. CASE Listen \/ DelimRegister
      <4>1. pc \in Listening /\ pc' \in Listening \cup {"idle"}
        BY <3>3 DEF Listen, DelimRegister, Goto, Listening
      <4> QED
        BY <1>1, <3>1, <3>2, <4>1 DEF SearchedOK, Listening
    <3>4. CASE Matched
      <4>1. pc = "matched" /\ pc' = "finish" /\ foundIndex' = rxBufferHead - 1
        BY <3>4 DEF Matched
      <4>2. ASSUME ~passed, foundIndex' # -1
            PROVE  /\ rxBuffer[foundIndex'] \in Delimeters
                   /\ \A i \in Index : Ahead(i) < Ahead(foundIndex)' => rxBuffer[i] \notin Delimeters
        <5>1. /\ rxBufferHead \in 0 .. N - 1 /\ rxBufferTail \in 0 .. N - 1
              /\ N \in Nat /\ rxBufferTail # rxBufferHead
              /\ rxBufferTail' = rxBufferTail
          BY <1>1, <4>1, SizeAssumption
             DEF RingOK, Index, ReceiveInv, WokenHasData, isReadable, ring
        <5>2. PICK f \in Index : f = rxBufferHead - 1
          BY <4>1, <4>2, <5>1 DEF Index
        <5>3. Ahead(foundIndex)' = Ahead(f)
          BY <4>1, <5>1, <5>2 DEF Ahead
        <5>4. Ahead(f) + 1 = rxBufferedSize
          <6>1. rxBufferedSize = Ahead(rxBufferHead)
            BY <1>1, CountIsAhead
          <6> QED
            BY <5>1, <5>2, <6>1 DEF Ahead
        <5>5. \A i \in Index : Ahead(i) \in 0 .. N - 1
          BY <1>1, AheadOnce
        <5> QED
          BY <3>2, <4>1, <4>2, <5>1, <5>2, <5>3, <5>4, <5>5 DEF SearchedOK
      <4> QED
        BY <1>1, <3>1, <3>2, <4>1, <4>2 DEF SearchedOK, Listening
    <3> QED
      BY <1>9, <3>3, <3>4
  <2>3. ReturnsWhatItTakes'
    BY <1>3, <2>1 DEF ReturnsWhatItTakes, Fetches
  <2> QED
    BY <1>1, <2>1, <2>2, <2>3 DEF CallsInv, Searching, Comparing, Arming
<1> QED
  BY <1>4, <1>5, <1>6, <1>7, <1>8, <1>9 DEF QuietReader

LEMMA CallsStep == ReceiveInv /\ CallsInv /\ [Next]_vars => CallsInv'
<1> SUFFICES ASSUME ReceiveInv, CallsInv, [Next]_vars PROVE CallsInv'
  OBVIOUS
<1>1. CASE UNCHANGED vars
  BY <1>1 DEF vars, ring, match, reader, waiting, search, CallsInv, SearchedOK, Fetches, Ahead,
     Index, rxBufferedSize, ReturnsWhatItTakes
<1> QED
  BY <1>1, CallsCall, CallsWrite, CallsTake, CallsFinish, CallsQuiet DEF Next, Reader, QuietReader

\* For every size of the buffer and every interleaving with the radio's interrupt, a call
\* returns what it took, in order, less the delimiter or one byte of read(ASYNC); read that
\* sleeps returns as many bytes as it was asked for, and readUntil() the text before the first
\* delimiter, unless it slept and a delimiter came before it was registered or another byte
\* between its event and its look at the head (passed).
THEOREM CallsReturn == Spec => []ReturnsWhatItTakes
<1>1. Init => ReceiveInv /\ CallsInv
  BY ReceiveInit, CallsInit
<1>2. ReceiveInv /\ CallsInv /\ [Next]_vars => (ReceiveInv /\ CallsInv)'
  BY ReceiveStep, CallsStep
<1>3. CallsInv => ReturnsWhatItTakes
  BY DEF CallsInv
<1> QED
  BY <1>1, <1>2, <1>3, PTL DEF Spec

-----------------------------------------------------------------------------
(* When a sleeping read() wakes.                                           *)

\* read() asks for its length less the number of bytes it found, which is the number there was
\* or, when the head went round between the two looks at it, as many less the size of the
\* buffer.  The head gets to the place it waits for with as many in the buffer as it wants, or
\* not at all while the call sleeps, because the head has passed it or it is no place.
FoundThen ==
    \/ op.len - need \in 0 .. rxBufferedSize
    \/ op.len - need + N \in 0 .. rxBufferedSize
WakesOK(p) == p < 0 \/ Ahead(p) >= op.len \/ Ahead(p) <= rxBufferedSize
WakeInv ==
    caller = "read" =>
        /\ pc = "arm" => FoundThen
        /\ pc = "setMatch" /\ op.len < N => WakesOK(place)
        /\ pc \in {"headRegister", "headWait"} /\ op.len < N => WakesOK(rxBuffHeadMatch)

LEMMA WakeWrite ==
  ASSUME ReceiveInv, WakeInv, NEW b \in Bytes, onDataWritten(b)
  PROVE  /\ WakeInv'
         /\ pc = "headWait" /\ caller = "read" /\ pc' = "loop" /\ op.len < N =>
                rxBufferedSize' >= op.len
<1>1. /\ RingOK /\ CallOK /\ N \in Nat /\ rxBufferedSize \in 0 .. N - 1 /\ op.len \in Nat
      /\ need \in Int
      /\ rxBufferTail' = rxBufferTail /\ UNCHANGED <<op, caller, need, place>>
  BY CountIsAhead, SizeAssumption, LimitsAssumption
     DEF ReceiveInv, TypeOK, CallOK, Ops, onDataWritten, reader, waiting
<1>2. \A i \in Int : Ahead(i)' = Ahead(i) /\ Ahead(i) \in Int
  BY <1>1 DEF Ahead, RingOK, Index
<1>3. CASE Store(b)
  <2>1. RingOK' /\ rxBufferedSize' = rxBufferedSize + 1
    BY <1>1, <1>3, StoreAppends
  <2>2. rxBufferHead' = Succ(rxBufferHead) /\ Succ(rxBufferHead) \in Index
    BY <1>1, <1>3, SuccIndex DEF Store, RingOK
  <2>3. rxBufferedSize + 1 = Ahead(Succ(rxBufferHead))
    <3>1. /\ rxBufferHead \in Index /\ rxBufferTail \in Index
          /\ Succ(rxBufferHead) = IF rxBufferHead + 1 = N THEN 0 ELSE rxBufferHead + 1
          /\ Succ(rxBufferHead) # rxBufferTail /\ rxBufferedSize = Ahead(rxBufferHead)
      BY <1>1, <1>3, SuccIndex, CountIsAhead DEF Store, HasRoom, RingOK
    <3> QED
      BY <1>1, <3>1 DEF Ahead, Index
  <2>4. place \in Int /\ rxBuffHeadMatch \in Int
    BY <1>1 DEF CallOK
  <2>5. \A p \in Int : p < 0 \/ Ahead(p) >= op.len \/ Ahead(p) <= rxBufferedSize =>
           p < 0 \/ Ahead(p)' >= op.len \/ Ahead(p)' <= rxBufferedSize'
    BY <1>1, <1>2, <2>1
  <2>6. FoundThen => FoundThen'
    BY <1>1, <2>1 DEF FoundThen
  <2>7. WakesOK(place) => WakesOK(place)'
    BY <1>1, <2>4, <2>5 DEF WakesOK, Ahead
  <2>8. pc' \in {"arm", "setMatch", "headRegister", "headWait"} => pc' = pc
    BY <1>3 DEF Store, Woken
  <2>9. CASE HeadMatches
    <3>1. rxBuffHeadMatch' = -1 /\ rxBuffHeadMatch = Succ(rxBufferHead)
      BY <1>3, <2>9 DEF Store, HeadMatches
    <3>2. Ahead(rxBuffHeadMatch) = rxBufferedSize + 1 /\ ~(rxBuffHeadMatch < 0)
      BY <2>2, <2>3, <3>1 DEF Index
    <3>3. pc = "headWait" /\ caller = "read" /\ op.len < N => rxBufferedSize' >= op.len
      BY <1>1, <2>1, <3>2 DEF WakeInv, WakesOK
    <3>4. WakesOK(rxBuffHeadMatch)'
      BY <3>1 DEF WakesOK
    <3> QED
      BY <1>1, <2>6, <2>7, <2>8, <3>3, <3>4 DEF WakeInv
  <2>10. CASE ~HeadMatches
    <3>1. rxBuffHeadMatch' = rxBuffHeadMatch
      BY <1>3, <2>10 DEF Store
    <3>2. WakesOK(rxBuffHeadMatch) => WakesOK(rxBuffHeadMatch)'
      BY <1>1, <2>4, <2>5, <3>1 DEF WakesOK, Ahead
    <3>3. pc = "headWait" => pc' # "loop"
      BY <1>3, <2>10 DEF Store, Woken
    <3> QED
      BY <1>1, <2>6, <2>7, <2>8, <3>2, <3>3 DEF WakeInv
  <2> QED
    BY <2>9, <2>10
<1>4. CASE UNCHANGED <<rxBuffer, rxBufferHead, rxBuffHeadMatch, pc, passed>>
  <2>1. rxBufferedSize' = rxBufferedSize /\ rxBufferTail' = rxBufferTail
    BY <1>1, <1>4 DEF rxBufferedSize
  <2> QED
    BY <1>1, <1>4, <2>1 DEF WakeInv, FoundThen, WakesOK, Ahead
<1> QED
  BY <1>3, <1>4 DEF onDataWritten

\* The place that eventAfter() computes for read(), from the head where it is by now.
LEMMA WakeArm ==
  ASSUME ReceiveInv, FoundThen, op.len < N
  PROVE  WakesOK(Remainder(rxBufferHead + need))
<1>1. /\ RingOK /\ N \in Nat /\ N > 1 /\ rxBufferedSize \in 0 .. N - 1 /\ op.len \in Nat
      /\ rxBufferedSize = Ahead(rxBufferHead) /\ need \in Int
      /\ rxBufferHead \in 0 .. N - 1 /\ rxBufferTail \in 0 .. N - 1
  BY CountIsAhead, SizeAssumption, LimitsAssumption
     DEF ReceiveInv, TypeOK, RingOK, CallOK, Ops, Index
<1>2. PICK a \in Int : a = rxBufferHead + need
  BY <1>1
<1>3. CASE a < 0
  <2>1. Remainder(a) <= 0 /\ Remainder(a) \in 1 - N .. N - 1
    BY <1>2, <1>3, RemainderIndex
  <2>2. CASE Remainder(a) = 0
    <3>1. rxBufferTail >= 0 /\ Ahead(0) = IF rxBufferTail = 0 THEN 0 ELSE N - rxBufferTail
      BY <1>1 DEF Ahead
    <3>2. op.len - need \in 0 .. rxBufferedSize \/ op.len - need + N \in 0 .. rxBufferedSize
      BY DEF FoundThen
    <3> QED
      BY <1>1, <1>2, <1>3, <2>2, <3>1, <3>2 DEF WakesOK, Ahead
  <2>3. CASE Remainder(a) < 0
    BY <1>2, <2>3 DEF WakesOK
  <2> QED
    BY <1>1, <2>1, <2>2, <2>3
<1>4. CASE a >= 0
  <2>1. a \in Nat /\ a < N + N + N
    BY <1>1, <1>2, <1>4 DEF FoundThen
  <2>2. PICK p \in Int :
           /\ p = Remainder(a)
           /\ p = IF a < N THEN a ELSE IF a < N + N THEN a - N ELSE a - N - N
    BY <1>1, <2>1, RemainderOnce
  <2>3. Ahead(p) >= op.len \/ Ahead(p) <= rxBufferedSize
    BY <1>1, <1>2, <1>4, <2>2 DEF FoundThen, Ahead
  <2> QED
    BY <1>2, <2>2, <2>3 DEF WakesOK
<1> QED
  BY <1>3, <1>4

LEMMA WakeQuiet ==
  ASSUME ReceiveInv, CallsInv, WakeInv, QuietReader
  PROVE  WakeInv' /\ (pc # "headWait")
<1>1. /\ RingOK /\ CallOK /\ N \in Nat /\ rxBufferedSize \in 0 .. N - 1 /\ op.len \in Nat
      /\ UNCHANGED <<rxBuffer, rxBufferHead, rxBufferTail>>
      /\ rxBufferedSize' = rxBufferedSize
  BY CountIsAhead, SizeAssumption, LimitsAssumption, QuietFrame, RingFrame
     DEF ReceiveInv, TypeOK, CallOK, Ops, ring
<1>2. CASE GetcSleep
  BY <1>1, <1>2 DEF GetcSleep, WakeInv
<1>3. CASE ReadMissing
  <2>1. /\ pc = "needSize" /\ pc' = "arm" /\ need' = op.len - sizeRead /\ op' = op
    BY <1>3 DEF ReadMissing
  <2>2. PICK size \in Int : size = sizeRead
    <3>1. (N - rxBufferTail) + rxBufferHead \in Int /\ rxBufferHead - rxBufferTail \in Int
      BY <1>1 DEF RingOK, Index
    <3> QED
      BY <3>1 DEF sizeRead
  <2>3. size = rxBufferedSize \/ size + N = rxBufferedSize
    <3>1. wrapped => Compared
      BY <2>1 DEF ReceiveInv, ComparedOK
    <3> QED
      BY <1>1, <2>2, <3>1 DEF sizeRead, Compared, rxBufferedSize, RingOK, Index
  <2>4. PICK n \in Int : n = need' /\ op.len - n = size
    BY <1>1, <2>1, <2>2
  <2>5. FoundThen'
    BY <1>1, <2>1, <2>3, <2>4 DEF FoundThen
  <2> QED
    BY <2>1, <2>5 DEF WakeInv
<1>4. CASE Arm
  <2>1. /\ pc = "arm" /\ pc' = "setMatch" /\ UNCHANGED <<op, caller>>
        /\ place' = Remainder(rxBufferHead + need)
    BY <1>4 DEF Arm
  <2>2. ASSUME caller = "read", op.len < N PROVE WakesOK(place)'
    <3>1. WakesOK(Remainder(rxBufferHead + need))
      BY <2>1, <2>2, WakeArm DEF WakeInv
    <3> QED
      BY <1>1, <2>1, <3>1 DEF WakesOK, Ahead
  <2> QED
    BY <2>1, <2>2 DEF WakeInv
<1>5. CASE SetMatch
  <2>1. /\ pc = "setMatch" /\ pc' \in {"headRegister", "idle"} /\ UNCHANGED <<op, caller>>
        /\ rxBuffHeadMatch' = place
    BY <1>5 DEF SetMatch, reader, waiting
  <2> QED
    BY <1>1, <2>1 DEF WakeInv, WakesOK, Ahead
<1>6. CASE HeadRegister
  <2>1. /\ pc = "headRegister" /\ pc' = "headWait"
        /\ UNCHANGED <<op, caller, rxBuffHeadMatch>>
    BY <1>6 DEF HeadRegister, Goto, reader, waiting, match
  <2> QED
    BY <1>1, <2>1 DEF WakeInv, WakesOK, Ahead
<1>7. CASE \/ GetcReadable \/ GetcNoData \/ ReadAsyncEnd
           \/ CompareIndices \/ ReadEnough \/ ReadTooFew \/ ReadLoop
           \/ Scan \/ ScanEnd \/ Listen \/ DelimRegister \/ Matched \/ FinishNothing
  BY <1>7 DEF GetcReadable, GetcNoData, ReadAsyncEnd, CompareIndices, ReadEnough, ReadTooFew,
     ReadLoop, Scan, ScanEnd, Listen, DelimRegister, Matched, FinishNothing, Goto, WakeInv
<1> QED
  BY <1>2, <1>3, <1>4, <1>5, <1>6, <1>7 DEF QuietReader

\* A read that sleeps, wants less than the buffer holds and is sent back to its loop by the
\* head of the buffer finds all it wants, whatever arrived between its look at the buffer and
\* the moment it went to sleep.
THEOREM ReadWakes == Spec => ReadWakesWithEnough
<1>1. Init => ReceiveInv /\ CallsInv /\ WakeInv
  <2>1. Init => WakeInv
    BY DEF Init, WakeInv
  <2> QED
    BY <2>1, ReceiveInit, CallsInit
<1>2. ASSUME ReceiveInv, CallsInv, WakeInv, [Next]_vars
      PROVE  /\ WakeInv'
             /\ \/ UNCHANGED vars
                \/ pc = "headWait" /\ caller = "read" /\ pc' = "loop" /\ op.len < N =>
                       rxBufferedSize' >= op.len
  <2>1. CASE Call
    BY <2>1 DEF Call, getc, read, readUntil, eventAfter, eventOn, Start, WakeInv
  <2>2. ASSUME NEW b \in Bytes, onDataWritten(b)
        PROVE  /\ WakeInv'
               /\ pc = "headWait" /\ caller = "read" /\ pc' = "loop" /\ op.len < N =>
                      rxBufferedSize' >= op.len
    BY <1>2, <2>2, WakeWrite
  <2>3. CASE QuietReader
    BY <1>2, <2>3, WakeQuiet
  <2>4. CASE GetcTake \/ ReadAsyncTake \/ FinishFound
    BY <2>4 DEF GetcTake, ReadAsyncTake, FinishFound, WakeInv
  <2>5. CASE UNCHANGED vars
    <3>1. WakeInv' = WakeInv
      BY <2>5 DEF vars, ring, match, reader, waiting, WakeInv, FoundThen, WakesOK, Ahead,
         rxBufferedSize
    <3> QED
      BY <1>2, <2>5, <3>1
  <2> QED
    BY <1>2, <2>1, <2>2, <2>3, <2>4, <2>5 DEF Next, Reader, QuietReader
<1>3. ReceiveInv /\ CallsInv /\ WakeInv /\ [Next]_vars => (ReceiveInv /\ CallsInv /\ WakeInv)'
  BY <1>2, ReceiveStep, CallsStep
<1>4. ReceiveInv /\ CallsInv /\ WakeInv /\ [Next]_vars =>
        [pc = "headWait" /\ caller = "read" /\ pc' = "loop" /\ op.len < N =>
             rxBufferedSize' >= op.len]_vars
  BY <1>2
<1> QED
  BY <1>1, <1>3, <1>4, PTL DEF Spec, ReadWakesWithEnough
=============================================================================
