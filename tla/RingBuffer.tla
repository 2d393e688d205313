----------------------------- MODULE RingBuffer -----------------------------
(***************************************************************************)
(* The byte ring buffer LIB/ringbuffer/ringbuffer.c, one writer and one    *)
(* reader without a lock, as it is used where the writer runs above the    *)
(* reader:                                                                 *)
(*   canRingbuffer      filled by the interrupt CanIf_GetCanBuffer,        *)
(*                      read by the CAN task (com_vehicle_fml.c)           *)
(*   uartsocRingbuffer  filled by the interrupt uart_soc_recCallback,      *)
(*                      read by the log task                               *)
(*   spiRbTx            filled by the CAN task, read by the TX task, which *)
(*                      has a lower priority (com_soc_fml.c)               *)
(* There a write is one step, and it can fall between any two steps of a   *)
(* read.  wholePackageSpirbTx is the other way round: the TX task writes   *)
(* it and the RX task above it reads it, so that a read can fall into a    *)
(* write.  That use is not modelled here.                                  *)
(*                                                                         *)
(* The pointers are offsets from rbBuff.  rbHead may stand at Capacity, one *)
(* past the end, until the next read moves it; rbTail never does.          *)
(***************************************************************************)
EXTENDS Integers, Sequences

CONSTANTS
    Byte,       \* the values of a byte that are told apart
    Capacity,   \* rbCapacity
    MaxCount    \* bound: the longest write or read asked for

ASSUME RingAssumption ==
    /\ Capacity \in Nat \ {0}
    /\ MaxCount \in Nat
    /\ Capacity + MaxCount < 65536   \* 8192 + 1000 at most
    /\ Byte # {}

Offsets == 0 .. Capacity - 1

VARIABLES
    buf,    \* the bytes of rbBuff
    head,   \* rbHead, advanced by the reader
    tail,   \* rbTail, advanced by the writer
    pc,     \* where rbRead stands
    want,   \* its argument count; in the inner call, what is left of it
    branch, \* in rbCanRead: what it has found of the pointers and not used yet
    size,   \* its copySz
    copied, \* what memcpy has put into the caller's memory and rbHead does not say yet
    out     \* the bytes handed over by the last step (history)

rvars == <<buf, head, tail, pc, want, branch, size, copied, out>>
readerVars == <<head, pc, want, branch, size, copied>>

Points == {"idle", "empty", "order", "count", "take", "toEnd", "copy", "copyEnd",
           "pastEnd", "overrun"}

\* The read goes past the end of rbBuff, or copies more than the caller has room for:
\* from there the program is undefined.
Lost == pc \in {"pastEnd", "overrun"}

-----------------------------------------------------------------------------
(* Sizes.                                                                  *)

rbCanRead ==
    IF head <= tail THEN tail - head ELSE Capacity - (head - tail)

rbCanWrite == Capacity - rbCanRead

CopyIn(b, at, s) ==
    [i \in Offsets |-> IF i \in at .. at + Len(s) - 1 THEN s[i - at + 1] ELSE b[i]]

\* Mutant of Fits: the free byte that tells a full buffer from an empty one is used.
FitsExactly(s) == Len(s) <= rbCanWrite

Fits(s) == Len(s) < rbCanWrite

-----------------------------------------------------------------------------
(* rbWrite.  A write that does not fit is refused and changes nothing.     *)

\* Mutant of WriteStraight: rbTail is not set back when it reaches the end.
WriteStraightOn(s) ==
    /\ head <= tail => Len(s) <= Capacity - tail
    /\ buf' = CopyIn(buf, tail, s)
    /\ tail' = tail + Len(s)

WriteStraight(s) ==
    /\ head <= tail => Len(s) <= Capacity - tail
    /\ buf' = CopyIn(buf, tail, s)
    /\ tail' = IF head <= tail /\ tail + Len(s) = Capacity THEN 0 ELSE tail + Len(s)

\* Writes up to the end, and calls itself for the rest: the inner call starts at
\* offset 0, where the rest always fits.
WriteAround(s) ==
    LET avail == Capacity - tail IN
    /\ head <= tail /\ Len(s) > avail
    /\ buf' = CopyIn(CopyIn(buf, tail, SubSeq(s, 1, avail)), 0, SubSeq(s, avail + 1, Len(s)))
    /\ tail' = Len(s) - avail

rbWrite(s) ==
    /\ ~Lost
    /\ Fits(s)
    /\ WriteStraight(s) \/ WriteAround(s)
    /\ out' = <<>>
    /\ UNCHANGED readerVars

-----------------------------------------------------------------------------
(* rbRead, statement by statement.                                         *)

\* The caller asks for n bytes.
ReadCall(n) ==
    /\ pc = "idle"
    /\ pc' = "empty"
    /\ want' = n
    /\ out' = <<>>
    /\ UNCHANGED <<buf, head, tail, branch, size, copied>>

\* Mutant of ReadEmpty: bytes that have gone around the end are not seen.
ReadEmptyBehind ==
    /\ pc = "empty"
    /\ pc' = IF head >= tail THEN "idle" ELSE "order"
    /\ out' = <<>>
    /\ UNCHANGED <<buf, head, tail, want, branch, size, copied>>

ReadEmpty ==
    /\ pc = "empty"
    /\ pc' = IF head = tail THEN "idle" ELSE "order"
    /\ out' = <<>>
    /\ UNCHANGED <<buf, head, tail, want, branch, size, copied>>

ReadOrder ==
    /\ pc = "order"
    /\ pc' = IF head < tail THEN "count" ELSE "toEnd"
    /\ out' = <<>>
    /\ UNCHANGED <<buf, head, tail, want, branch, size, copied>>

\* min(count, rbCanRead(rb)) is a macro: "count" is the call of rbCanRead in its
\* comparison, "take" the one in its result.  Each call compares the pointers and
\* then subtracts them as they are by then.
ReadCompare ==
    /\ pc \in {"count", "take"} /\ branch = "none"
    /\ branch' = IF head < tail THEN "ahead" ELSE "around"
    /\ out' = <<>>
    /\ UNCHANGED <<buf, head, tail, pc, want, size, copied>>

\* What the call returns, in 16 bits.
Counted ==
    IF branch = "ahead" THEN (tail - head) % 65536 ELSE Capacity - (head - tail)

CopySize(n) ==
    \/ n > want /\ pc' = "overrun" /\ size' = 0
    \/ n <= want /\ head + n > Capacity /\ pc' = "pastEnd" /\ size' = 0
    \/ n <= want /\ head + n <= Capacity /\ pc' = "copy" /\ size' = n

ReadCount ==
    /\ pc = "count" /\ branch # "none"
    /\ \/ want < Counted /\ CopySize(want)
       \/ ~(want < Counted) /\ pc' = "take" /\ size' = 0
    /\ branch' = "none"
    /\ out' = <<>>
    /\ UNCHANGED <<buf, head, tail, want, copied>>

ReadTake ==
    /\ pc = "take" /\ branch # "none"
    /\ CopySize(Counted)
    /\ branch' = "none"
    /\ out' = <<>>
    /\ UNCHANGED <<buf, head, tail, want, copied>>

ReadToEnd ==
    /\ pc = "toEnd"
    /\ IF want < Capacity - head
       THEN size' = want /\ pc' = "copy"
       ELSE size' = Capacity - head /\ pc' = "copyEnd"
    /\ out' = <<>>
    /\ UNCHANGED <<buf, head, tail, want, branch, copied>>

\* memcpy, and later the assignment to rbHead that gives the room free.
ReadCopy ==
    /\ pc \in {"copy", "copyEnd"}
    /\ copied = <<>> /\ size > 0
    /\ copied' = [i \in 1 .. size |-> buf[head + i - 1]]
    /\ out' = <<>>
    /\ UNCHANGED <<buf, head, tail, pc, want, branch, size>>

\* A read that stops at the end calls itself for the rest.
ReadAdvance ==
    /\ pc \in {"copy", "copyEnd"}
    /\ Len(copied) = size
    /\ IF pc = "copy"
       THEN pc' = "idle" /\ head' = head + size /\ want' = 0
       ELSE pc' = "empty" /\ head' = 0 /\ want' = want - size
    /\ out' = copied
    /\ copied' = <<>> /\ size' = 0
    /\ UNCHANGED <<buf, tail, branch>>

-----------------------------------------------------------------------------
RInit ==
    /\ buf \in [Offsets -> Byte]   \* rbCreate leaves the bytes as they are
    /\ head = 0 /\ tail = 0
    /\ pc = "idle" /\ want = 0 /\ branch = "none" /\ size = 0
    /\ copied = <<>> /\ out = <<>>

Payloads == UNION {[1 .. n -> Byte] : n \in 0 .. MaxCount}

Read ==
    \/ ReadEmpty \/ ReadOrder \/ ReadCompare \/ ReadCount \/ ReadTake
    \/ ReadToEnd \/ ReadCopy \/ ReadAdvance

RNext ==
    \/ \E s \in Payloads : rbWrite(s)
    \/ \E n \in 1 .. MaxCount : ReadCall(n)
    \/ Read

\* The reading task polls, and is not kept from running for ever.
RFairness == WF_rvars(Read \/ \E n \in 1 .. MaxCount : ReadCall(n))

RSpec == RInit /\ [][RNext]_rvars /\ RFairness

-----------------------------------------------------------------------------
(* Properties.                                                             *)

RingTypeOK ==
    /\ buf \in [Offsets -> Byte]
    /\ head \in 0 .. Capacity
    /\ tail \in Offsets
    /\ pc \in Points
    /\ want \in 0 .. MaxCount
    /\ branch \in {"none", "ahead", "around"}
    /\ size \in 0 .. MaxCount
    /\ copied \in Seq(Byte) /\ out \in Seq(Byte)

\* The unread bytes in their order.
Place(i) == IF head + i - 1 < Capacity THEN head + i - 1 ELSE head + i - 1 - Capacity
Unread == [i \in 1 .. rbCanRead |-> buf[Place(i)]]

Fifo == INSTANCE ByteFifo WITH queue <- Unread, out <- out

\* Whatever write falls between two steps of rbRead, the bytes come out as they went
\* in, with none repeated, skipped or overwritten before it was copied - up to the two
\* ways out of the buffer (ringbuffer.c:137): a write around the end since rbRead
\* compared the pointers, after which the copy runs past the end of rbBuff; and a write
\* between the two calls of rbCanRead that min() expands to, after which the copy is
\* longer than the caller asked for.
FifoUnlessLost ==
    Fifo!Init /\ [][Lost' \/ Fifo!Next]_<<Unread, out>>

\* Bytes that were written are handed to a reader that polls, and what stops it is
\* only one of the two ways out of the buffer (the returns of rbRead).
WrittenIsRead == (Unread # <<>>) ~> (out # <<>> \/ Lost)
=============================================================================
