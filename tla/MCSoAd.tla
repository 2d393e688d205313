------------------------------- MODULE MCSoAd -------------------------------
(***************************************************************************)
(* Model checking of Adaptor.  There are one UDP entry and three TCP       *)
(* entries, two of them on one port (so that there is a duplicate) and one *)
(* on a port of its own (so that descriptors of different ports meet), and *)
(* one descriptor less than all of them together need.                     *)
(***************************************************************************)
EXTENDS Adaptor

MCTcp == 1 .. 3
MCPort == [i \in 0 .. 3 |-> IF i = 3 THEN 13401 ELSE 13400]

\* The refinement mapping, for the two ports.
SharedPort == INSTANCE AcceptPool WITH
    Slots <- Cardinality(EntriesOn(13400)), listening <- Listens(13400), busy <- Busy(13400)
OtherPort == INSTANCE AcceptPool WITH
    Slots <- Cardinality(EntriesOn(13401)), listening <- Listens(13401), busy <- Busy(13401)

\* Until one is torn, every port behaves as one pool of interchangeable slots: it
\* listens exactly while it has been opened and a slot is free, whichever entries
\* happen to play the listener (socketAccept, SoAd_SocketClose).
PortsArePools == SharedPort!Spec /\ OtherPort!Spec
=============================================================================
