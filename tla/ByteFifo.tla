------------------------------ MODULE ByteFifo ------------------------------
(***************************************************************************)
(* What a byte ring buffer promises: the bytes come out once each, in the  *)
(* order they went in.  A write is taken whole or not at all, and only     *)
(* while it leaves at least one byte of the room free; a read may return   *)
(* fewer bytes than there are.                                             *)
(***************************************************************************)
EXTENDS Integers, Sequences

CONSTANTS
    Byte,       \* the values of a byte that are told apart
    Capacity    \* size of the buffer, rbCapacity

VARIABLES
    queue,      \* the bytes written and not yet handed over
    out         \* the bytes the last step handed over

Init == queue = <<>> /\ out = <<>>

Put(s) ==
    /\ Len(queue) + Len(s) < Capacity
    /\ queue' = queue \o s
    /\ out' = <<>>

Take(n) ==
    /\ out' = SubSeq(queue, 1, n)
    /\ queue' = SubSeq(queue, n + 1, Len(queue))

Next ==
    \/ \E n \in 0 .. Capacity - 1 : \E s \in [1 .. n -> Byte] : Put(s)
    \/ \E n \in 0 .. Len(queue) : Take(n)

Spec == Init /\ [][Next]_<<queue, out>>
=============================================================================
