----------------------------- MODULE AcceptPool -----------------------------
(***************************************************************************)
(* What the socket adaptor promises the clients of one TCP port: Slots     *)
(* connections at a time, a listener as long as a slot is free, no new     *)
(* connection when none is.  The roles of listener, duplicate and          *)
(* connection that the entries of the adaptor play are invisible here.     *)
(*                                                                         *)
(* The upper layer may close the listener of an empty pool, which is       *)
(* opened again.  Closing the listener of a pool with connections tears    *)
(* it, and nothing is promised any more.                                   *)
(***************************************************************************)
EXTENDS Naturals

CONSTANT Slots

VARIABLES listening,   \* the port accepts connections
          busy,        \* the number of connections
          torn         \* a listener was closed under a connection

pvars == <<listening, busy, torn>>

Init == listening = FALSE /\ busy = 0 /\ torn = FALSE

\* The port is opened.
Open ==
    /\ ~listening /\ busy = 0
    /\ listening' = TRUE /\ busy' = busy

\* A client connects; with the last slot goes the listener.
Accept ==
    /\ listening
    /\ busy' = busy + 1
    /\ listening' = (busy' < Slots)

\* A connection ends, and its slot can be connected to.
HangUp ==
    /\ busy > 0
    /\ busy' = busy - 1
    /\ listening' = TRUE

\* The listener is closed while nobody is connected.
Shut ==
    /\ listening /\ busy = 0
    /\ listening' = FALSE /\ busy' = busy

\* A listener is closed under a connection, here or on another port; from then on
\* the pool does anything.
Tear == torn' = TRUE

Next == \/ (Open \/ Accept \/ HangUp \/ Shut) /\ UNCHANGED torn
        \/ Tear

Spec == Init /\ [][Next]_pvars
=============================================================================
