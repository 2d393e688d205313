----------------------------- MODULE RingProofs -----------------------------
(***************************************************************************)
(* Proofs about RingBuffer, for a buffer of any size, any bytes and any    *)
(* lengths of reads and writes: the types of its state, and that it is a   *)
(* FIFO of bytes until a read leaves the buffer or the caller's memory.    *)
(***************************************************************************)
EXTENDS RingBuffer, SequenceTheorems, TLAPS

\* What a read that is under way may rely on, however many writes come between.
ReaderOK ==
    /\ pc \in {"order", "count", "take", "toEnd"} => head # tail
    /\ branch # "none" => pc \in {"count", "take"}
    /\ branch = "around" => tail < head
    /\ pc = "toEnd" => tail < head
    /\ pc \notin {"copy", "copyEnd"} => copied = <<>>
    /\ pc \in {"copy", "copyEnd"} =>
         /\ size <= want /\ size <= rbCanRead /\ head + size <= Capacity
         /\ copied = <<>> \/ copied = [i \in 1 .. size |-> buf[head + i - 1]]
    /\ pc = "copyEnd" => head + size = Capacity /\ tail < head

RingInv == RingTypeOK /\ ReaderOK

-----------------------------------------------------------------------------
(* What a write does to the bytes of the buffer.                           *)

LEMMA CapacityPositive == Capacity \in Nat \ {0} /\ MaxCount \in Nat
BY RingAssumption DEF RingAssumption

LEMMA PartsOf ==
    ASSUME NEW s \in Seq(Byte), NEW n \in 1 .. Len(s)
    PROVE  /\ Len(SubSeq(s, 1, n)) = n
           /\ \A i \in 1 .. n : SubSeq(s, 1, n)[i] = s[i]
           /\ Len(SubSeq(s, n + 1, Len(s))) = Len(s) - n
           /\ \A i \in 1 .. Len(s) - n : SubSeq(s, n + 1, Len(s))[i] = s[n + i]
OBVIOUS

LEMMA TwoParts ==
    ASSUME NEW q \in Seq(Byte), NEW s \in Seq(Byte)
    PROVE  /\ q \o s \in Seq(Byte) /\ Len(q \o s) = Len(q) + Len(s)
           /\ \A i \in 1 .. Len(q) + Len(s) :
                 (q \o s)[i] = IF i <= Len(q) THEN q[i] ELSE s[i - Len(q)]
BY ConcatProperties

LEMMA CanReadRange ==
    ASSUME RingTypeOK
    PROVE  /\ rbCanRead \in 0 .. Capacity - 1
           /\ \A i \in 1 .. Capacity : Place(i) \in Offsets
BY CapacityPositive DEF RingTypeOK, rbCanRead, Place, Offsets

LEMMA PayloadType ==
    ASSUME NEW s \in Payloads
    PROVE  /\ Len(s) \in 0 .. MaxCount
           /\ s = [i \in 1 .. Len(s) |-> s[i]]
           /\ \A i \in 1 .. Len(s) : s[i] \in Byte
           /\ s \in Seq(Byte)
  <1>1. PICK n \in 0 .. MaxCount : s \in [1 .. n -> Byte]
    BY DEF Payloads
  <1>2. s \in Seq(Byte) /\ Len(s) = n
    BY <1>1, CapacityPositive
  <1>. QED
    BY <1>1, <1>2

\* A write keeps what has not been read, and puts its bytes behind it.
LEMMA WriteEffect ==
    ASSUME RingTypeOK, NEW s \in Payloads, Fits(s), WriteStraight(s) \/ WriteAround(s),
           head' = head
    PROVE  /\ buf' \in [Offsets -> Byte]
           /\ tail' \in Offsets
           /\ rbCanRead' = rbCanRead + Len(s)
           /\ head <= tail => tail' >= tail \/ tail' < head
           /\ head > tail => tail' < head
           /\ head # tail => head # tail'
           /\ \A i \in 1 .. rbCanRead : buf'[Place(i)] = buf[Place(i)]
           /\ \A i \in 1 .. Len(s) : buf'[Place(rbCanRead + i)] = s[i]
  <1>. USE CapacityPositive
  <1>1. /\ Len(s) \in Nat /\ \A i \in 1 .. Len(s) : s[i] \in Byte
        /\ s \in Seq(Byte)
    BY PayloadType
  <1>2. Len(s) < Capacity - rbCanRead
    BY DEF Fits, rbCanWrite
  <1>3. CASE WriteStraight(s)
    <2>1. \A i \in Offsets : buf'[i] = IF i \in tail .. tail + Len(s) - 1
                                       THEN s[i - tail + 1] ELSE buf[i]
      BY <1>3 DEF WriteStraight, CopyIn
    <2>2. buf' \in [Offsets -> Byte]
      BY <1>1, <1>3, <2>1 DEF WriteStraight, CopyIn, RingTypeOK, Offsets
    <2>3. tail' = IF head <= tail /\ tail + Len(s) = Capacity THEN 0 ELSE tail + Len(s)
      BY <1>3 DEF WriteStraight
    <2>4. head <= tail => Len(s) <= Capacity - tail
      BY <1>3 DEF WriteStraight
    <2>5. tail' \in Offsets /\ rbCanRead' = rbCanRead + Len(s)
      <3>1. CASE head <= tail /\ tail + Len(s) = Capacity
        BY <3>1, <1>1, <1>2, <2>3 DEF rbCanRead, RingTypeOK, Offsets
      <3>2. CASE head <= tail /\ tail + Len(s) # Capacity
        BY <3>2, <1>1, <1>2, <2>3, <2>4 DEF rbCanRead, RingTypeOK, Offsets
      <3>3. CASE head > tail
        BY <3>3, <1>1, <1>2, <2>3 DEF rbCanRead, RingTypeOK, Offsets
      <3>. QED
        BY <3>1, <3>2, <3>3 DEF RingTypeOK, Offsets
    <2>6. /\ head <= tail => tail' >= tail \/ tail' < head
          /\ head > tail => tail' < head
          /\ head # tail => head # tail'
      BY <1>1, <1>2, <2>3, <2>4 DEF rbCanRead, RingTypeOK, Offsets
    <2>7. ASSUME NEW i \in 1 .. rbCanRead
          PROVE  buf'[Place(i)] = buf[Place(i)]
      BY <1>1, <1>2, <2>1, <2>4 DEF rbCanRead, RingTypeOK, Offsets, Place
    <2>8. ASSUME NEW i \in 1 .. Len(s)
          PROVE  buf'[Place(rbCanRead + i)] = s[i]
      <3>1. Place(rbCanRead + i) = tail + i - 1
        BY <1>1, <1>2, <2>4 DEF rbCanRead, RingTypeOK, Offsets, Place
      <3>2. tail + i - 1 \in Offsets
        BY <1>1, <1>2, <2>4 DEF rbCanRead, RingTypeOK, Offsets
      <3>3. buf'[tail + i - 1] = s[(tail + i - 1) - tail + 1]
        BY <1>1, <2>1, <3>2 DEF RingTypeOK, Offsets
      <3>4. (tail + i - 1) - tail + 1 = i
        BY DEF RingTypeOK, Offsets
      <3>. QED
        BY <3>1, <3>3, <3>4
    <2>. QED
      BY <2>2, <2>5, <2>6, <2>7, <2>8
  <1>4. CASE WriteAround(s)
    <2>. DEFINE avail == Capacity - tail
                first == SubSeq(s, 1, avail)
                rest == SubSeq(s, avail + 1, Len(s))
    <2>0. head <= tail /\ Len(s) > avail /\ tail' = Len(s) - avail
      BY <1>4 DEF WriteAround
    <2>a. avail \in 1 .. Capacity /\ Len(s) < avail + head /\ head < Capacity
      BY <1>1, <1>2, <2>0 DEF rbCanRead, RingTypeOK, Offsets
    <2>b. /\ Len(first) = avail /\ \A i \in 1 .. avail : first[i] = s[i]
          /\ Len(rest) = Len(s) - avail
          /\ \A i \in 1 .. Len(s) - avail : rest[i] = s[avail + i]
      <3>1. s \in Seq(Byte) /\ avail \in 1 .. Len(s)
        BY <1>1, <2>0, <2>a
      <3>. HIDE DEF avail
      <3>. QED
        BY <3>1, PartsOf
    <2>c. buf' = CopyIn(CopyIn(buf, tail, first), 0, rest)
      BY <1>4 DEF WriteAround
    <2>. HIDE DEF first, rest
    <2>1. \A i \in Offsets : buf'[i] = IF i < Len(s) - avail THEN s[avail + i + 1]
                                       ELSE IF i >= tail THEN s[i - tail + 1] ELSE buf[i]
      <3>. SUFFICES ASSUME NEW i \in Offsets
                    PROVE  buf'[i] = IF i < Len(s) - avail THEN s[avail + i + 1]
                                     ELSE IF i >= tail THEN s[i - tail + 1] ELSE buf[i]
        OBVIOUS
      <3>1. CASE i < Len(s) - avail
        <4>1. i \in 0 .. 0 + Len(rest) - 1 /\ i - 0 + 1 = i + 1 /\ i + 1 \in 1 .. Len(s) - avail
          BY <3>1, <1>1, <2>a, <2>b DEF Offsets
        <4>2. buf'[i] = rest[i + 1]
          BY <4>1, <2>c DEF CopyIn
        <4>. QED
          BY <3>1, <4>1, <4>2, <2>b, <2>a, <1>1 DEF Offsets
      <3>2. CASE ~(i < Len(s) - avail) /\ i >= tail
        <4>1. i \notin 0 .. 0 + Len(rest) - 1
          BY <3>2, <1>1, <2>a, <2>b DEF Offsets
        <4>2. i \in tail .. tail + Len(first) - 1 /\ i - tail + 1 \in 1 .. avail
          BY <3>2, <2>a, <2>b DEF Offsets, RingTypeOK
        <4>3. buf'[i] = first[i - tail + 1]
          BY <4>1, <4>2, <2>c DEF CopyIn
        <4>. QED
          BY <3>2, <4>2, <4>3, <2>b
      <3>3. CASE ~(i < Len(s) - avail) /\ i < tail
        <4>1. i \notin 0 .. 0 + Len(rest) - 1 /\ i \notin tail .. tail + Len(first) - 1
          BY <3>3, <1>1, <2>a, <2>b DEF Offsets, RingTypeOK
        <4>2. buf'[i] = buf[i]
          BY <4>1, <2>c DEF CopyIn
        <4>. QED
          BY <3>3, <4>2 DEF Offsets, RingTypeOK
      <3>. QED
        BY <3>1, <3>2, <3>3, <1>1, <2>a DEF Offsets, RingTypeOK
    <2>2. buf' \in [Offsets -> Byte]
      <3>1. DOMAIN buf' = Offsets /\ buf' = [i \in Offsets |-> buf'[i]]
        BY <2>c DEF CopyIn
      <3>2. ASSUME NEW i \in Offsets
            PROVE  buf'[i] \in Byte
        <4>1. CASE i < Len(s) - avail
          <5>1. avail + i + 1 \in 1 .. Len(s)
            BY <4>1, <1>1, <2>a DEF RingTypeOK, Offsets
          <5>. QED
            BY <4>1, <5>1, <1>1, <2>1
        <4>2. CASE ~(i < Len(s) - avail) /\ i >= tail
          <5>1. i - tail + 1 \in 1 .. Len(s)
            BY <4>2, <1>1, <2>0 DEF RingTypeOK, Offsets
          <5>. QED
            BY <4>2, <5>1, <1>1, <2>1
        <4>3. CASE ~(i < Len(s) - avail) /\ ~(i >= tail)
          BY <4>3, <2>1 DEF RingTypeOK
        <4>. QED
          BY <4>1, <4>2, <4>3
      <3>. QED
        BY <3>1, <3>2
    <2>5. tail' \in Offsets /\ rbCanRead' = rbCanRead + Len(s)
      BY <1>1, <1>2, <2>0, <2>a DEF rbCanRead, RingTypeOK, Offsets
    <2>6. tail' < head /\ head # tail'
      BY <1>1, <2>0, <2>a DEF RingTypeOK, Offsets
    <2>7. ASSUME NEW i \in 1 .. rbCanRead
          PROVE  buf'[Place(i)] = buf[Place(i)]
      <3>1. Place(i) \in Offsets /\ Place(i) < tail /\ Place(i) >= Len(s) - avail
        BY <1>1, <2>0, <2>a DEF rbCanRead, RingTypeOK, Offsets, Place
      <3>. QED
        BY <3>1, <2>1, <1>1, <2>a DEF RingTypeOK, Offsets
    <2>8. ASSUME NEW i \in 1 .. Len(s)
          PROVE  buf'[Place(rbCanRead + i)] = s[i]
      <3>1. CASE i <= avail
        <4>1. PICK k \in Offsets : k = tail + i - 1
          BY <3>1, <1>1, <2>0, <2>a DEF RingTypeOK, Offsets
        <4>2. Place(rbCanRead + i) = k
          BY <3>1, <4>1, <1>1, <2>0, <2>a DEF rbCanRead, RingTypeOK, Offsets, Place
        <4>3. ~(k < Len(s) - avail) /\ k >= tail /\ k - tail + 1 = i
          BY <3>1, <4>1, <1>1, <2>0, <2>a DEF RingTypeOK, Offsets
        <4>. QED
          BY <4>2, <4>3, <2>1
      <3>2. CASE i > avail
        <4>1. Place(rbCanRead + i) = i - avail - 1 /\ i - avail - 1 \in Offsets
              /\ avail + (i - avail - 1) + 1 = i /\ i - avail - 1 < Len(s) - avail
          BY <3>2, <1>1, <2>0, <2>a DEF rbCanRead, RingTypeOK, Offsets, Place
        <4>. QED
          BY <4>1, <2>1
      <3>. QED
        BY <3>1, <3>2, <1>1, <2>a
    <2>. QED
      BY <2>0, <2>2, <2>5, <2>6, <2>7, <2>8, <2>a DEF RingTypeOK, Offsets
  <1>. QED
    BY <1>3, <1>4

-----------------------------------------------------------------------------
(* The unread bytes as a sequence.                                         *)

LEMMA UnreadSeq ==
    ASSUME RingTypeOK
    PROVE  /\ Unread \in Seq(Byte) /\ Len(Unread) = rbCanRead
           /\ \A i \in 1 .. rbCanRead : Unread[i] = buf[Place(i)]
  <1>1. rbCanRead \in Nat /\ \A i \in 1 .. rbCanRead : Place(i) \in Offsets
    BY CanReadRange, CapacityPositive
  <1>2. \A i \in 1 .. rbCanRead : buf[Place(i)] \in Byte
    BY <1>1 DEF RingTypeOK
  <1>. QED
    BY <1>1, <1>2 DEF Unread

LEMMA PointerRange ==
    ASSUME NEW h \in 0 .. Capacity, NEW t \in Offsets
    PROVE  /\ (IF h <= t THEN t - h ELSE Capacity - (h - t)) \in 0 .. Capacity - 1
           /\ \A i \in 1 .. Capacity :
                 (IF h + i - 1 < Capacity THEN h + i - 1 ELSE h + i - 1 - Capacity) \in Offsets
BY CapacityPositive DEF Offsets

LEMMA UnreadSeqAfter ==
    ASSUME RingTypeOK'
    PROVE  /\ Unread' \in Seq(Byte) /\ Len(Unread') = rbCanRead'
           /\ rbCanRead' \in 0 .. Capacity - 1
           /\ \A i \in 1 .. rbCanRead' : Unread'[i] = buf'[Place(i)']
  <1>0. head' \in 0 .. Capacity /\ tail' \in Offsets /\ buf' \in [Offsets -> Byte]
    BY DEF RingTypeOK
  <1>1. rbCanRead' \in 0 .. Capacity - 1 /\ \A i \in 1 .. Capacity : Place(i)' \in Offsets
    BY <1>0, PointerRange, Zenon DEF rbCanRead, Place
  <1>2. \A i \in 1 .. rbCanRead' : Place(i)' \in Offsets
    BY <1>1, CapacityPositive
  <1>3. \A i \in 1 .. rbCanRead' : buf'[Place(i)'] \in Byte
    BY <1>0, <1>2
  <1>. QED
    BY <1>1, <1>3, CapacityPositive DEF Unread

LEMMA WriteTypes ==
    ASSUME RingInv, NEW s \in Payloads, rbWrite(s)
    PROVE  RingInv'
  <1>1. RingTypeOK /\ UNCHANGED readerVars /\ out' = <<>> /\ Fits(s)
    BY DEF RingInv, rbWrite
  <1>2. head' = head /\ (WriteStraight(s) \/ WriteAround(s))
    BY DEF rbWrite, readerVars
  <1>3. /\ buf' \in [Offsets -> Byte]
        /\ tail' \in Offsets
        /\ rbCanRead' = rbCanRead + Len(s)
        /\ head > tail => tail' < head
        /\ head # tail => head # tail'
        /\ \A i \in 1 .. rbCanRead : buf'[Place(i)] = buf[Place(i)]
    BY <1>1, <1>2, WriteEffect
  <1>4. RingTypeOK'
    BY <1>1, <1>3 DEF RingTypeOK, readerVars
  <1>5. ReaderOK'
    <2>1. /\ pc' \in {"order", "count", "take", "toEnd"} => head' # tail'
          /\ branch' # "none" => pc' \in {"count", "take"}
          /\ branch' = "around" => tail' < head'
          /\ pc' = "toEnd" => tail' < head'
          /\ pc' \notin {"copy", "copyEnd"} => copied' = <<>>
      BY <1>1, <1>3 DEF RingInv, ReaderOK, readerVars, RingTypeOK, Offsets
    <2>2. ASSUME pc' \in {"copy", "copyEnd"}
          PROVE  /\ size' <= want' /\ size' <= rbCanRead' /\ head' + size' <= Capacity
                 /\ copied' = <<>> \/ copied' = [i \in 1 .. size' |-> buf'[head' + i - 1]]
      <3>1. /\ size <= want /\ size <= rbCanRead /\ head + size <= Capacity
            /\ copied = <<>> \/ copied = [i \in 1 .. size |-> buf[head + i - 1]]
        BY <1>1, <2>2 DEF RingInv, ReaderOK, readerVars
      <3>2. rbCanRead \in Nat /\ Len(s) \in Nat
        BY <1>1, CanReadRange, PayloadType
      <3>3. ASSUME NEW i \in 1 .. size
            PROVE  buf'[head + i - 1] = buf[head + i - 1]
        <4>1. i \in 1 .. rbCanRead /\ Place(i) = head + i - 1
          BY <1>1, <3>1, <3>2, CapacityPositive DEF RingTypeOK, Place, Offsets
        <4>. QED
          BY <1>3, <4>1
      <3>4. [i \in 1 .. size |-> buf'[head + i - 1]] = [i \in 1 .. size |-> buf[head + i - 1]]
        BY <3>3
      <3>5. size' = size /\ want' = want /\ head' = head /\ copied' = copied
        BY <1>1 DEF readerVars
      <3>6. size' <= want' /\ size' <= rbCanRead' /\ head' + size' <= Capacity
        BY <1>1, <1>3, <3>1, <3>2, <3>5 DEF RingTypeOK
      <3>. QED
        BY <3>1, <3>4, <3>5, <3>6
    <2>3. pc' = "copyEnd" => head' + size' = Capacity /\ tail' < head'
      BY <1>1, <1>3 DEF RingInv, ReaderOK, readerVars, RingTypeOK, Offsets
    <2>. QED
      BY <2>1, <2>2, <2>3 DEF ReaderOK
  <1>. QED
    BY <1>4, <1>5 DEF RingInv

\* min() picks a size that stays inside both the unread bytes and the bytes asked for,
\* or the read is lost.
LEMMA CountedTypes ==
    ASSUME RingInv, ReadCount \/ ReadTake
    PROVE  RingInv'
  <1>. USE RingAssumption
  <1>1. /\ pc \in {"count", "take"} /\ branch \in {"ahead", "around"} /\ copied = <<>>
        /\ UNCHANGED <<buf, head, tail, want, copied>> /\ out' = <<>> /\ branch' = "none"
        /\ head # tail /\ (branch = "around" => tail < head)
    BY DEF RingInv, RingTypeOK, ReaderOK, ReadCount, ReadTake
  <1>2. /\ head \in 0 .. Capacity /\ tail \in Offsets /\ want \in 0 .. MaxCount
        /\ RingTypeOK
    BY DEF RingInv, RingTypeOK
  <1>3. rbCanRead' = rbCanRead /\ rbCanRead \in 0 .. Capacity - 1
    BY <1>1, <1>2, CanReadRange DEF rbCanRead
  <1>4. Counted = rbCanRead
        \/ (tail < head /\ rbCanRead = Capacity - (head - tail) /\ Counted > want)
    <2>1. CASE branch = "around"
      BY <2>1, <1>1, <1>2 DEF Counted, rbCanRead, Offsets
    <2>2. CASE branch = "ahead" /\ head < tail
      <3>1. (tail - head) % 65536 = tail - head
        BY <2>2, <1>2 DEF Offsets
      <3>. QED
        BY <2>2, <3>1, <1>2 DEF Counted, rbCanRead, Offsets
    <2>3. CASE branch = "ahead" /\ tail < head
      <3>1. (tail - head) % 65536 = tail - head + 65536
        BY <2>3, <1>2 DEF Offsets
      <3>. QED
        BY <2>3, <3>1, <1>2 DEF Counted, rbCanRead, Offsets
    <2>. QED
      BY <2>1, <2>2, <2>3, <1>1, <1>2 DEF Offsets
  <1>5. \/ pc' \in {"take", "overrun", "pastEnd"} /\ size' = 0
        \/ /\ pc' = "copy" /\ size' \in 0 .. MaxCount /\ size' <= want
           /\ size' <= rbCanRead /\ head + size' <= Capacity
    <2>1. CASE ReadCount /\ want < Counted
      <3>1. CopySize(want)
        BY <2>1 DEF ReadCount
      <3>2. head + want <= Capacity => want <= rbCanRead
        BY <2>1, <1>2, <1>3, <1>4 DEF Offsets
      <3>. QED
        BY <3>1, <3>2, <1>2 DEF CopySize
    <2>2. CASE ReadCount /\ ~(want < Counted)
      BY <2>2 DEF ReadCount
    <2>3. CASE ReadTake
      <3>1. CopySize(Counted)
        BY <2>3 DEF ReadTake
      <3>2. Counted \in Int /\ (Counted <= want => Counted = rbCanRead)
        <4>1. Counted \in Int
          BY <1>2 DEF Counted, Offsets
        <4>. QED
          BY <4>1, <1>2, <1>3, <1>4
      <3>. QED
        BY <3>1, <3>2, <1>2, <1>3 DEF CopySize
    <2>. QED
      BY <2>1, <2>2, <2>3
  <1>6. RingTypeOK'
    BY <1>1, <1>2, <1>5 DEF RingTypeOK, Points
  <1>7. ReaderOK'
    BY <1>1, <1>2, <1>3, <1>5 DEF ReaderOK
  <1>. QED
    BY <1>6, <1>7 DEF RingInv

LEMMA ReadTypes ==
    ASSUME RingInv, Read \/ \E n \in 1 .. MaxCount : ReadCall(n)
    PROVE  RingInv'
  <1>. USE CapacityPositive DEF RingInv, ReaderOK
  <1>0. rbCanRead \in 0 .. Capacity - 1
    BY CanReadRange
  <1>1. CASE \E n \in 1 .. MaxCount : ReadCall(n)
    BY <1>1 DEF ReadCall, RingTypeOK, Points, rbCanRead
  <1>2. CASE ReadEmpty
    BY <1>2 DEF ReadEmpty, RingTypeOK, Points, rbCanRead
  <1>3. CASE ReadOrder
    BY <1>3 DEF ReadOrder, RingTypeOK, Points, rbCanRead, Offsets
  <1>4. CASE ReadCompare
    BY <1>4 DEF ReadCompare, RingTypeOK, Points, rbCanRead, Offsets
  <1>5. CASE ReadCount \/ ReadTake
    BY <1>5, CountedTypes
  <1>6. CASE ReadToEnd
    <2>0. /\ tail < head /\ pc = "toEnd" /\ copied = <<>> /\ branch = "none"
          /\ UNCHANGED <<buf, head, tail, want, branch, copied>> /\ out' = <<>>
      BY <1>6 DEF ReadToEnd, RingTypeOK
    <2>1. rbCanRead' = rbCanRead /\ rbCanRead = Capacity - (head - tail)
      BY <2>0 DEF rbCanRead, RingTypeOK, Offsets
    <2>2. CASE want < Capacity - head
      <3>1. size' = want /\ pc' = "copy"
        BY <1>6, <2>2 DEF ReadToEnd
      <3>. QED
        BY <2>0, <2>1, <2>2, <3>1 DEF RingTypeOK, Points, Offsets
    <2>3. CASE ~(want < Capacity - head)
      <3>1. size' = Capacity - head /\ pc' = "copyEnd"
        BY <1>6, <2>3 DEF ReadToEnd
      <3>. QED
        BY <2>0, <2>1, <2>3, <3>1 DEF RingTypeOK, Points, Offsets
    <2>. QED
      BY <2>2, <2>3
  <1>7. CASE ReadCopy
    <2>1. copied' \in Seq(Byte)
      <3>1. \A i \in 1 .. size : head + i - 1 \in Offsets
        BY <1>7 DEF ReadCopy, RingTypeOK, Offsets
      <3>2. \A i \in 1 .. size : buf[head + i - 1] \in Byte
        <4>1. buf \in [Offsets -> Byte]
          BY DEF RingTypeOK
        <4>. QED
          BY <3>1, <4>1, Zenon
      <3>3. size \in Nat /\ copied' = [i \in 1 .. size |-> buf[head + i - 1]]
        BY <1>7 DEF ReadCopy, RingTypeOK
      <3>. QED
        BY <3>2, <3>3
    <2>2. rbCanRead' = rbCanRead
      BY <1>7 DEF ReadCopy, rbCanRead
    <2>3. RingTypeOK'
      BY <1>7, <2>1 DEF ReadCopy, RingTypeOK
    <2>. QED
      BY <1>7, <2>2, <2>3 DEF ReadCopy
  <1>8. CASE ReadAdvance
    <2>1. head' \in 0 .. Capacity /\ want' \in 0 .. MaxCount
      BY <1>8 DEF ReadAdvance, RingTypeOK
    <2>2. pc' \in {"idle", "empty"} /\ copied' = <<>> /\ out' \in Seq(Byte) /\ size' = 0
          /\ UNCHANGED <<buf, tail>>
      BY <1>8 DEF ReadAdvance, RingTypeOK
    <2>. QED
      <3>1. 0 \in 0 .. MaxCount /\ <<>> \in Seq(Byte)
        OBVIOUS
      <3>3. /\ buf' \in [Offsets -> Byte] /\ tail' \in Offsets /\ pc' \in Points
            /\ branch' = "none"
        BY <2>2, <1>8 DEF RingTypeOK, Points, ReadAdvance
      <3>2. RingTypeOK'
        BY <2>1, <2>2, <3>1, <3>3, Zenon DEF RingTypeOK
      <3>. QED
        BY <2>2, <3>2, <3>3
  <1>. QED
    BY <1>1, <1>2, <1>3, <1>4, <1>5, <1>6, <1>7, <1>8 DEF Read

-----------------------------------------------------------------------------
(* Types, and the invariant.                                               *)

LEMMA RingInductive == RSpec => []RingInv
  <1>. USE CapacityPositive
  <1>1. RInit => RingInv
    <2>. SUFFICES ASSUME RInit
                  PROVE  RingInv
      OBVIOUS
    <2>1. <<>> \in Seq(Byte) /\ 0 \in 0 .. MaxCount /\ 0 \in 0 .. Capacity /\ 0 \in Offsets
      BY DEF Offsets
    <2>2. RingTypeOK
      BY <2>1 DEF RInit, RingTypeOK, Points
    <2>. QED
      BY <2>2 DEF RInit, RingInv, ReaderOK
  <1>2. RingInv /\ [RNext]_rvars => RingInv'
    <2>1. RingInv /\ RNext => RingInv'
      BY WriteTypes, ReadTypes DEF RNext
    <2>2. RingInv /\ UNCHANGED rvars => RingInv'
      BY DEF rvars, RingInv, RingTypeOK, ReaderOK, rbCanRead
    <2>. QED
      BY <2>1, <2>2
  <1>. QED
    BY <1>1, <1>2, PTL DEF RSpec

\* The pointers stay inside rbBuff (rbHead at most one past its end) and a read never
\* copies more than it was asked for without being lost (rbWrite, rbRead).
THEOREM RingTypeCorrect == RSpec => []RingTypeOK
  <1>1. RingInv => RingTypeOK
    BY DEF RingInv
  <1>. QED
    BY <1>1, RingInductive, PTL

-----------------------------------------------------------------------------
(* The buffer is a FIFO.                                                   *)

\* A write appends.
LEMMA WriteIsPut ==
    ASSUME RingInv, NEW s \in Payloads, rbWrite(s)
    PROVE  Fifo!Next
  <1>. USE CapacityPositive
  <1>1. RingTypeOK /\ RingTypeOK' /\ head' = head /\ out' = <<>>
        /\ Fits(s) /\ (WriteStraight(s) \/ WriteAround(s))
    BY WriteTypes DEF RingInv, rbWrite, readerVars
  <1>2. /\ rbCanRead' = rbCanRead + Len(s)
        /\ \A i \in 1 .. rbCanRead : buf'[Place(i)] = buf[Place(i)]
        /\ \A i \in 1 .. Len(s) : buf'[Place(rbCanRead + i)] = s[i]
    BY <1>1, WriteEffect
  <1>3. /\ Unread \in Seq(Byte) /\ Len(Unread) = rbCanRead
        /\ \A i \in 1 .. rbCanRead : Unread[i] = buf[Place(i)]
        /\ rbCanRead \in 0 .. Capacity - 1
    BY <1>1, UnreadSeq, CanReadRange
  <1>4. /\ Unread' \in Seq(Byte) /\ Len(Unread') = rbCanRead'
        /\ \A i \in 1 .. rbCanRead' : Unread'[i] = buf'[Place(i)']
    BY <1>1, UnreadSeqAfter
  <1>5. \A i : Place(i)' = Place(i)
    BY <1>1 DEF Place
  <1>6. s \in Seq(Byte) /\ Len(s) \in Nat /\ s \in [1 .. Len(s) -> Byte]
    BY PayloadType
  <1>7. Unread' = Unread \o s
    <2>1. /\ Unread \o s \in Seq(Byte) /\ Len(Unread \o s) = Len(Unread) + Len(s)
          /\ \A i \in 1 .. Len(Unread) + Len(s) : (Unread \o s)[i] =
                IF i <= Len(Unread) THEN Unread[i] ELSE s[i - Len(Unread)]
      BY <1>3, <1>6, TwoParts, Zenon
    <2>2. ASSUME NEW i \in 1 .. Len(Unread')
          PROVE  Unread'[i] = (Unread \o s)[i]
      <3>1. CASE i <= rbCanRead
        BY <3>1, <2>1, <1>2, <1>3, <1>4, <1>5, <1>6
      <3>2. CASE i > rbCanRead
        <4>1. PICK j \in 1 .. Len(s) : i = rbCanRead + j
          <5>1. i - rbCanRead \in 1 .. Len(s) /\ i = rbCanRead + (i - rbCanRead)
            BY <3>2, <1>2, <1>3, <1>4, <1>6
          <5>. QED
            BY <5>1
        <4>2. i - Len(Unread) = j /\ ~(i <= Len(Unread))
          BY <4>1, <1>3
        <4>3. (Unread \o s)[i] = s[j]
          BY <4>1, <4>2, <2>1, <1>2, <1>3, <1>4
        <4>4. Unread'[i] = buf'[Place(i)]
          BY <1>4, <1>5
        <4>. QED
          BY <4>1, <4>3, <4>4, <1>2
      <3>. QED
        BY <3>1, <3>2, <1>2, <1>3, <1>4, <1>6
    <2>3. Len(Unread') = Len(Unread \o s)
      BY <2>1, <1>2, <1>3, <1>4
    <2>. QED
      BY <2>1, <2>2, <2>3, <1>4, SeqEqual
  <1>8. Len(Unread) + Len(s) < Capacity /\ Len(s) \in 0 .. Capacity - 1
    BY <1>1, <1>3, <1>6 DEF Fits, rbCanWrite
  <1>. QED
    BY <1>1, <1>6, <1>7, <1>8 DEF Fifo!Next, Fifo!Put

\* What rbHead moves over is what was copied.
LEMMA AdvanceIsTake ==
    ASSUME RingInv, ReadAdvance
    PROVE  Fifo!Next
  <1>. USE CapacityPositive
  <1>1. RingTypeOK /\ RingTypeOK' /\ UNCHANGED <<buf, tail>>
    BY ReadTypes DEF RingInv, ReadAdvance, Read
  <1>2. /\ Unread \in Seq(Byte) /\ Len(Unread) = rbCanRead
        /\ \A i \in 1 .. rbCanRead : Unread[i] = buf[Place(i)]
        /\ rbCanRead \in 0 .. Capacity - 1
    BY <1>1, UnreadSeq, CanReadRange
  <1>3. /\ Unread' \in Seq(Byte) /\ Len(Unread') = rbCanRead'
        /\ \A i \in 1 .. rbCanRead' : Unread'[i] = buf[Place(i)']
    BY <1>1, UnreadSeqAfter
  <1>4. /\ size \in 0 .. rbCanRead /\ head + size <= Capacity
        /\ Len(copied) = size /\ copied \in Seq(Byte)
        /\ \A i \in 1 .. size : copied[i] = buf[head + i - 1]
    <2>1. /\ size <= rbCanRead /\ head + size <= Capacity /\ Len(copied) = size
          /\ copied = <<>> \/ copied = [i \in 1 .. size |-> buf[head + i - 1]]
      BY DEF RingInv, ReaderOK, ReadAdvance
    <2>2. size \in Nat /\ copied \in Seq(Byte)
      BY <1>1 DEF RingTypeOK
    <2>3. ASSUME NEW i \in 1 .. size
          PROVE  copied[i] = buf[head + i - 1]
      <3>1. copied # <<>>
        BY <2>1, <2>2
      <3>. QED
        BY <2>1, <3>1
    <2>. QED
      BY <1>2, <2>1, <2>2, <2>3
  <1>5. /\ rbCanRead' = rbCanRead - size
        /\ \A i \in 1 .. rbCanRead - size : Place(i)' = Place(size + i)
    <2>1. CASE pc = "copy"
      <3>1. head' = head + size /\ tail' = tail
        BY <2>1, <1>1 DEF ReadAdvance
      <3>2. rbCanRead' = rbCanRead - size
        BY <3>1, <1>1, <1>4 DEF rbCanRead, RingTypeOK, Offsets
      <3>3. \A i \in 1 .. rbCanRead - size : Place(i)' = Place(size + i)
        BY <3>1, <1>1, <1>2, <1>4 DEF Place, RingTypeOK
      <3>. QED
        BY <3>2, <3>3
    <2>2. CASE pc = "copyEnd"
      <3>1. head' = 0 /\ tail' = tail /\ head + size = Capacity /\ tail < head
        BY <2>2, <1>1 DEF ReadAdvance, RingInv, ReaderOK
      <3>2. rbCanRead' = rbCanRead - size
        BY <3>1, <1>1, <1>4 DEF rbCanRead, RingTypeOK, Offsets
      <3>3. \A i \in 1 .. rbCanRead - size : Place(i)' = Place(size + i)
        BY <3>1, <1>1, <1>2, <1>4 DEF Place, RingTypeOK
      <3>. QED
        BY <3>2, <3>3
    <2>. QED
      BY <2>1, <2>2 DEF ReadAdvance
  <1>6. \A i \in 1 .. size : Place(i) = head + i - 1
    BY <1>1, <1>4 DEF Place, RingTypeOK
  <1>7. out' = SubSeq(Unread, 1, size)
    <2>1. /\ SubSeq(Unread, 1, size) \in Seq(Byte) /\ Len(SubSeq(Unread, 1, size)) = size
          /\ \A i \in 1 .. size : SubSeq(Unread, 1, size)[i] = Unread[i]
      BY <1>2, <1>4
    <2>2. \A i \in 1 .. size : copied[i] = Unread[i]
      BY <1>2, <1>4, <1>6
    <2>3. copied = SubSeq(Unread, 1, size)
      BY <2>1, <2>2, <1>4, SeqEqual
    <2>. QED
      BY <2>3 DEF ReadAdvance
  <1>8. Unread' = SubSeq(Unread, size + 1, Len(Unread))
    <2>. DEFINE rest == SubSeq(Unread, size + 1, Len(Unread))
    <2>1. /\ rest \in Seq(Byte) /\ Len(rest) = rbCanRead - size
          /\ \A i \in 1 .. rbCanRead - size : rest[i] = Unread[size + i]
      BY <1>2, <1>4
    <2>2. ASSUME NEW i \in 1 .. rbCanRead - size
          PROVE  Unread'[i] = rest[i]
      <3>1. size + i \in 1 .. rbCanRead
        BY <1>2, <1>4
      <3>. QED
        BY <3>1, <2>1, <1>2, <1>3, <1>5
    <2>. QED
      BY <2>1, <2>2, <1>3, <1>5, SeqEqual
  <1>9. size \in 0 .. Len(Unread)
    BY <1>2, <1>4
  <1>. QED
    BY <1>7, <1>8, <1>9 DEF Fifo!Next, Fifo!Take

\* The other statements of rbRead move nothing.
LEMMA OthersStutter ==
    ASSUME RingInv, out' = <<>>, UNCHANGED <<buf, head, tail>>
    PROVE  Fifo!Next
  <1>1. Unread' = Unread
    BY DEF Unread, rbCanRead, Place
  <1>2. Unread \in Seq(Byte) /\ Len(Unread) \in Nat
    BY UnreadSeq, CanReadRange, CapacityPositive DEF RingInv
  <1>3. SubSeq(Unread, 1, 0) = <<>> /\ SubSeq(Unread, 0 + 1, Len(Unread)) = Unread
    BY <1>2
  <1>. QED
    BY <1>1, <1>2, <1>3 DEF Fifo!Next, Fifo!Take

\* Of any writes and reads, interleaved statement by statement, the bytes come out as
\* they went in, until a read goes past the end of the buffer or copies
\* more than it was asked for (ringbuffer.c:137).
THEOREM RingIsFifo == RSpec => FifoUnlessLost
  <1>1. RInit => Fifo!Init
    BY CapacityPositive DEF RInit, Fifo!Init, Unread, rbCanRead
  <1>2. RingInv /\ [RNext]_rvars => Lost' \/ Fifo!Next \/ UNCHANGED <<Unread, out>>
    <2>. SUFFICES ASSUME RingInv, [RNext]_rvars, ~Lost'
                  PROVE  Fifo!Next \/ UNCHANGED <<Unread, out>>
      OBVIOUS
    <2>1. CASE \E s \in Payloads : rbWrite(s)
      BY <2>1, WriteIsPut
    <2>2. CASE ReadAdvance
      BY <2>2, AdvanceIsTake
    <2>3. CASE ReadEmpty \/ ReadOrder \/ ReadCompare \/ ReadCount \/ ReadTake
               \/ ReadToEnd \/ ReadCopy
               \/ \E n \in 1 .. MaxCount : ReadCall(n)
      BY <2>3, OthersStutter
         DEF ReadEmpty, ReadOrder, ReadCompare, ReadCount, ReadTake, ReadToEnd,
             ReadCopy, ReadCall
    <2>4. CASE UNCHANGED rvars
      BY <2>4 DEF rvars, Unread, rbCanRead, Place
    <2>. QED
      BY <2>1, <2>2, <2>3, <2>4 DEF RNext, Read
  <1>. QED
    BY <1>1, <1>2, RingInductive, PTL DEF RSpec, FifoUnlessLost
=============================================================================
