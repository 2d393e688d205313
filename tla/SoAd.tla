-------------------------------- MODULE SoAd --------------------------------
(***************************************************************************)
(* The socket adaptor, LIB/SoAd/SoAd.c over LIB/SoAd/SoAd_LWIP.c.          *)
(*                                                                         *)
(* SocketAdminList is a fixed table of sockets.  Several TCP entries may   *)
(* be configured on one port: one of them listens, the others are          *)
(* DUPLICATEs, and when a client is accepted the role of the listener      *)
(* moves, with the listening descriptor, to a free duplicate.              *)
(*                                                                         *)
(* SoAd_MainFunction scans the table in index order from the task that     *)
(* also runs DoIP.  This module has the operations on the table; module    *)
(* Adaptor is the adaptor on its own, under an upper layer that closes     *)
(* whatever it likes, and module DoIP composes the same operations with    *)
(* the upper layer of the firmware.                                        *)
(***************************************************************************)
EXTENDS Integers, FiniteSets

CONSTANTS
    NumSockets,   \* SOAD_SOCKET_COUNT
    TcpSockets,   \* the entries whose SocketProtocol is SOAD_SOCKET_PROT_TCP
    LocalPort,    \* SocketLocalPort of every entry
    NumFds        \* size of lwIP's descriptor table

ASSUME SoAdAssumption ==
    /\ NumSockets \in Nat \ {0}
    /\ TcpSockets \subseteq 0 .. NumSockets - 1
    /\ LocalPort \in [0 .. NumSockets - 1 -> Nat]
    /\ NumFds \in Nat \ {0}

Sockets == 0 .. NumSockets - 1
Fds == 0 .. NumFds - 1
NoFd == -1

FdKinds == {"free", "udp", "listen", "conn", "broken"}
SocketStates == {"DUPLICATE", "INIT", "TCP_LISTENING", "TCP_READY", "UDP_READY"}

VARIABLES
    sock,   \* SocketAdminList: state, SocketHandle and ConnectionHandle
    fds,    \* what each lwIP descriptor is open as; a "broken" connection is one
            \* the peer has left and the adaptor has not closed
    idx     \* the loop variable of scanSockets

svars == <<sock, fds, idx>>

-----------------------------------------------------------------------------
(* Operations on the table.                                                *)

SameEndpoint(i, j) ==
    /\ (i \in TcpSockets) <=> (j \in TcpSockets)
    /\ LocalPort[i] = LocalPort[j]

\* lwIP hands out the lowest free descriptor.
FirstFreeFd(fd) ==
    fds[fd] = "free" /\ \A f \in Fds : fds[f] = "free" => fd <= f

\* lwip_close: without effect on a handle that is not open.
CloseFd(f, h) == [x \in Fds |-> IF x = h THEN "free" ELSE f[x]]

\* Mutant of ListenerElsewhere: any entry of the port will do.
EntryElsewhere(sk, s) == \E i \in Sockets \ {s} : sk[i].handle = sk[s].handle

\* Does another entry listen on the descriptor that entry s was accepted from?
ListenerElsewhere(sk, s) ==
    \E i \in Sockets \ {s} : /\ sk[i].handle = sk[s].handle
                             /\ sk[i].state = "TCP_LISTENING"

\* Mutants of SoAd_SocketClose, TCP_READY: the entry always listens again; it
\* always becomes a duplicate; the listening descriptor is closed; none is.
ClosedAs(n, s, state, fd) ==
    IF n.sock[s].state \in {"UDP_READY", "TCP_LISTENING"}
    THEN [sock |-> [n.sock EXCEPT ![s].handle = NoFd, ![s].state = "INIT"],
          fds  |-> CloseFd(n.fds, n.sock[s].handle)]
    ELSE IF n.sock[s].state = "TCP_READY"
    THEN [sock |-> [n.sock EXCEPT ![s].conn = NoFd, ![s].state = state],
          fds  |-> CloseFd(n.fds, fd)]
    ELSE n
CloseListens(n, s) == ClosedAs(n, s, "TCP_LISTENING", n.sock[s].conn)
CloseDuplicates(n, s) == ClosedAs(n, s, "DUPLICATE", n.sock[s].conn)
CloseWrongFd(n, s) ==
    ClosedAs(n, s, IF ListenerElsewhere(n.sock, s) THEN "DUPLICATE" ELSE "TCP_LISTENING",
             n.sock[s].handle)
CloseKeepsFd(n, s) ==
    ClosedAs(n, s, IF ListenerElsewhere(n.sock, s) THEN "DUPLICATE" ELSE "TCP_LISTENING",
             NoFd)

\* SoAd_SocketClose as a function of the table and the descriptors, because
\* the upper layer calls it several times in one handler.
SoAd_SocketClose(n, s) ==
    IF n.sock[s].state \in {"UDP_READY", "TCP_LISTENING"}
    THEN [sock |-> [n.sock EXCEPT ![s].handle = NoFd, ![s].state = "INIT"],
          fds  |-> CloseFd(n.fds, n.sock[s].handle)]
    ELSE IF n.sock[s].state = "TCP_READY"
    THEN [sock |-> [n.sock EXCEPT ![s].conn  = NoFd,
                                  ![s].state = IF ListenerElsewhere(n.sock, s)
                                               THEN "DUPLICATE"
                                               ELSE "TCP_LISTENING"],
          fds  |-> CloseFd(n.fds, n.sock[s].conn)]
    ELSE n

-----------------------------------------------------------------------------
SoAd_Init ==
    /\ sock = [i \in Sockets |->
                  [state  |-> IF \E j \in 0 .. i - 1 : SameEndpoint(i, j)
                              THEN "DUPLICATE" ELSE "INIT",
                   handle |-> NoFd,
                   conn   |-> NoFd]]
    /\ fds = [f \in Fds |-> "free"]
    /\ idx = 0

\* socketCreate: lwip_socket, lwip_bind or lwip_listen may fail; the entry then
\* stays INIT and the next scan tries again.
CreateFails(s) ==
    /\ sock[s].state = "INIT"
    /\ UNCHANGED <<sock, fds>>

CreateSucceeds(s) ==
    /\ sock[s].state = "INIT"
    /\ \E fd \in Fds :
        /\ FirstFreeFd(fd)
        /\ fds' = [fds EXCEPT ![fd] = IF s \in TcpSockets THEN "listen" ELSE "udp"]
        /\ sock' = [sock EXCEPT
              ![s].handle = fd,
              ![s].state  = IF s \in TcpSockets THEN "TCP_LISTENING" ELSE "UDP_READY"]

\* socketAccept, nobody connecting (or no descriptor left for the client).
AcceptNone(s) ==
    /\ sock[s].state = "TCP_LISTENING"
    /\ UNCHANGED <<sock, fds>>

\* Mutant of FreeDuplicates: the role of the listener is not moved.
NoDuplicates(s) == {}

FreeDuplicates(s) ==
    {d \in Sockets : sock[d].state = "DUPLICATE" /\ SameEndpoint(d, s)}

\* Mutant of AcceptClient: the new listener does not get the descriptor.
AcceptForgetsHandle(s) ==
    /\ sock[s].state = "TCP_LISTENING"
    /\ sock[s].handle \in Fds /\ fds[sock[s].handle] = "listen"
    /\ \E fd \in Fds :
        /\ FirstFreeFd(fd)
        /\ fds' = [fds EXCEPT ![fd] = "conn"]
        /\ sock' = [i \in Sockets |->
              IF i = s THEN [sock[s] EXCEPT !.conn = fd, !.state = "TCP_READY"]
              ELSE IF /\ i \in FreeDuplicates(s)
                      /\ \A e \in FreeDuplicates(s) : i <= e
                   THEN [sock[i] EXCEPT !.state = "TCP_LISTENING"]
                   ELSE sock[i]]

\* socketAccept: the entry becomes the connection; the first free duplicate,
\* if there is one, becomes the listener and shares the listening descriptor.
AcceptClient(s) ==
    /\ sock[s].state = "TCP_LISTENING"
    /\ sock[s].handle \in Fds /\ fds[sock[s].handle] = "listen"
    /\ \E fd \in Fds :
        /\ FirstFreeFd(fd)
        /\ fds' = [fds EXCEPT ![fd] = "conn"]
        /\ LET ready == [sock EXCEPT ![s].conn = fd, ![s].state = "TCP_READY"]
           IN  \/ FreeDuplicates(s) = {} /\ sock' = ready
               \/ \E d \in FreeDuplicates(s) :
                    /\ \A e \in FreeDuplicates(s) : d <= e
                    /\ sock' = [ready EXCEPT ![d].handle = sock[s].handle,
                                             ![d].state  = "TCP_LISTENING"]

\* The entries scanSockets leaves alone.
SkipDuplicate(s) ==
    /\ sock[s].state = "DUPLICATE"
    /\ UNCHANGED <<sock, fds>>

\* The scan steps that do not involve the upper layer.
SocketStep(s) ==
    \/ CreateFails(s) \/ CreateSucceeds(s)
    \/ AcceptNone(s) \/ AcceptClient(s)
    \/ SkipDuplicate(s)

-----------------------------------------------------------------------------
(* What an entry is, has and is entitled to.                               *)

SocketRecords == [state  : SocketStates,
                  handle : Fds \cup {NoFd},
                  conn   : Fds \cup {NoFd}]

\* An entry that is, or is about to be, the listener of its port.
Opening(s) == sock[s].state \in {"INIT", "TCP_LISTENING"}

\* An entry that knows the listening descriptor of its port.
Holds(s) == sock[s].state \in {"TCP_LISTENING", "TCP_READY"}

\* The descriptors an entry is entitled to.
Owns(s, f) == \/ sock[s].state = "TCP_READY" /\ f = sock[s].conn
              \/ sock[s].state \notin {"INIT", "DUPLICATE"} /\ f = sock[s].handle

\* The entries of a TCP port, whether it accepts clients, and how many it has.
EntriesOn(p) == {s \in TcpSockets : LocalPort[s] = p}
Listens(p) == \E s \in EntriesOn(p) : sock[s].state = "TCP_LISTENING"
Busy(p) == Cardinality({s \in EntriesOn(p) : sock[s].state = "TCP_READY"})
=============================================================================
