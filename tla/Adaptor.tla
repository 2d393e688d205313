------------------------------ MODULE Adaptor -------------------------------
(***************************************************************************)
(* The socket adaptor on its own: the scan of the table (module SoAd), and *)
(* an upper layer that closes any entry at any time.                       *)
(*                                                                         *)
(* That is what DoIP does.  It closes the socket it has just read from,    *)
(* but also the socket written in a slot of its connection table when a    *)
(* timer or an alive check says so, and that entry may by then be the      *)
(* listener of the port, INIT or a DUPLICATE (DoIP.c:357, 840, 857).       *)
(*                                                                         *)
(* Closing the listener while an entry of its port is connected tears the  *)
(* port: the connected entry keeps the number of a descriptor that is      *)
(* closed, which lwIP may hand out again for something else, and what      *)
(* SoAd_SocketClose finds by comparing descriptors is then chance.  The    *)
(* history variable torn remembers that this has happened.  The properties *)
(* say what holds until then, and what holds even afterwards.              *)
(***************************************************************************)
EXTENDS SoAd

VARIABLE torn   \* a listener was closed under a connection of its port

avars == <<sock, fds, idx, torn>>

AdaptorInit == SoAd_Init /\ torn = FALSE

\* socketTcpRead or socketUdpRead: the upper layer handles a message and leaves
\* the socket open.
ReadKeeps(s) ==
    /\ sock[s].state \in {"TCP_READY", "UDP_READY"}
    /\ UNCHANGED <<sock, fds>>

\* Mutant of Scan: the loop runs one entry too far.
ScanTooFar ==
    /\ SocketStep(idx) \/ ReadKeeps(idx)
    /\ idx' = (idx + 1) % (NumSockets + 1)
    /\ UNCHANGED torn

Scan ==
    /\ SocketStep(idx) \/ ReadKeeps(idx)
    /\ idx' = (idx + 1) % NumSockets
    /\ UNCHANGED torn

\* A connection of the port is left with the descriptor that closing s closes.
Tears(s) ==
    /\ sock[s].state = "TCP_LISTENING"
    /\ \E t \in Sockets \ {s} : /\ sock[t].state = "TCP_READY"
                                /\ sock[t].handle = sock[s].handle

\* The upper layer closes an entry, whatever it has become: on a protocol error,
\* on a rejected activation, or because another socket's message or a timer says so.
UpperClose(s) ==
    /\ LET n == SoAd_SocketClose([sock |-> sock, fds |-> fds], s)
       IN  sock' = n.sock /\ fds' = n.fds
    /\ torn' = (torn \/ Tears(s))
    /\ UNCHANGED idx

AdaptorNext == Scan \/ \E s \in Sockets : UpperClose(s)

\* The task loops for ever; lwIP does not refuse a socket for ever.
AdaptorFairness ==
    /\ WF_avars(Scan)
    /\ \A s \in Sockets :
        SF_avars(CreateSucceeds(s) /\ idx = s /\ idx' = (idx + 1) % NumSockets
                 /\ UNCHANGED torn)

AdaptorSpec == AdaptorInit /\ [][AdaptorNext]_avars /\ AdaptorFairness

-----------------------------------------------------------------------------
(* Properties.                                                             *)

\* Every variable stays in its range.
SoAdTypeOK ==
    /\ sock \in [Sockets -> SocketRecords]
    /\ fds \in [Fds -> FdKinds]
    /\ idx \in Sockets
    /\ torn \in BOOLEAN

\* Until a port is torn, one port has at most one listener, however clients come
\* and go and whatever is closed: moving the listener to a duplicate on accept and
\* giving it back on close never leaves two entries accepting on one port
\* (socketAccept, SoAd_SocketClose).
OneListener ==
    torn \/ \A s, t \in TcpSockets :
              s # t /\ SameEndpoint(s, t) => ~(Opening(s) /\ Opening(t))

\* All TCP entries are of one port, as in every table the server is built for.
OnePort == \A s, t \in TcpSockets : SameEndpoint(s, t)

\* No entry is stranded: a DUPLICATE always has an entry of its port that is
\* listening or will be, so the slot can be used again; with a single TCP port
\* even after it was torn, because a listener that is closed becomes INIT
\* (SoAd_SocketClose, socketAccept).
DuplicateHasListener ==
    \/ torn /\ ~OnePort
    \/ \A s \in TcpSockets : sock[s].state = "DUPLICATE" =>
         \E t \in TcpSockets : SameEndpoint(s, t) /\ Opening(t)

\* Until a port is torn, entries of one port hold the same listening descriptor and
\* entries of different ports different ones; SoAd_SocketClose decides by comparing
\* descriptors alone whether somebody else still listens.
HandlesAgree ==
    torn \/ \A s, t \in TcpSockets :
              Holds(s) /\ Holds(t) =>
                (sock[s].handle = sock[t].handle <=> SameEndpoint(s, t))

\* Until a port is torn, every descriptor an entry uses is open as what the entry
\* uses it for, and no connection is shared by two entries (socketCreate,
\* socketAccept, SoAd_SocketClose).
DescriptorsOwned ==
    \/ torn
    \/ /\ \A s \in TcpSockets : Holds(s) =>
            sock[s].handle \in Fds /\ fds[sock[s].handle] = "listen"
       /\ \A s \in Sockets : sock[s].state = "TCP_READY" =>
            /\ sock[s].conn \in Fds /\ fds[sock[s].conn] \in {"conn", "broken"}
            /\ \A t \in Sockets \ {s} : ~Owns(t, sock[s].conn)

\* No descriptor of lwIP leaks, torn or not: every open one can still be reached
\* from an entry that closes it (SoAd_SocketClose).
NoneLeaks == \A f \in Fds : fds[f] # "free" => \E s \in Sockets : Owns(s, f)

\* A port is never dead for good unless it is torn: again and again one of its
\* entries listens, or all of them are in use (socketCreate retries, the moves of
\* the listener in socketAccept and SoAd_SocketClose).
PortComesBack ==
    \A s \in TcpSockets :
        []<>( \/ torn
              \/ \E t \in TcpSockets : SameEndpoint(s, t) /\ sock[t].state = "TCP_LISTENING"
              \/ \A t \in TcpSockets : SameEndpoint(s, t) => sock[t].state = "TCP_READY")
=============================================================================
