----------------------------- MODULE SoAdProofs -----------------------------
(***************************************************************************)
(* Proofs about the socket adaptor on its own (module Adaptor), for every  *)
(* table of sockets, every choice of ports, every number of descriptors    *)
(* and an upper layer that closes whatever it likes.                       *)
(*                                                                         *)
(* The safety properties are not inductive one by one: what closing a      *)
(* socket does depends on which entries hold the same descriptor, and this *)
(* on which entries have opened it.  SoAdInv is their conjunction with     *)
(* four facts: an entry has only the states of its protocol, an entry that *)
(* is open has the number of a descriptor, and, until a port is torn, an   *)
(* entry that is INIT finds all others of its port DUPLICATE and           *)
(* descriptors of UDP entries are open and their own.                      *)
(*                                                                         *)
(* From SoAdInv follow the facts about the step from one state to the      *)
(* next: an accept and a close move the listener so that no duplicate is   *)
(* stranded, and seen from outside every port is a pool of slots           *)
(* (AcceptPool), which is the refinement proved at the end.  With one      *)
(* entry to a port, as in the table the firmware is shipped with, nothing  *)
(* is ever torn.                                                           *)
(***************************************************************************)
EXTENDS MCSoAd, FiniteSetTheorems, NaturalsInduction, WellFoundedInduction, TLAPS

\* TCP entries are never UDP_READY, UDP entries never listen or connect.
StatesOfProtocol ==
    \A s \in Sockets :
        IF s \in TcpSockets THEN sock[s].state # "UDP_READY" ELSE ~Holds(s)

\* An entry is INIT only before anything of its port was opened.
InitAlone ==
    \A s, t \in TcpSockets :
        s # t /\ SameEndpoint(s, t) /\ sock[s].state = "INIT"
            => sock[t].state = "DUPLICATE"

\* What HandlesAgree and DescriptorsOwned say of TCP entries, for UDP ones.
UdpOwned ==
    \A s \in Sockets : sock[s].state = "UDP_READY" =>
        /\ sock[s].handle \in Fds /\ fds[sock[s].handle] = "udp"
        /\ \A t \in Sockets :
             sock[t].state = "UDP_READY" /\ sock[t].handle = sock[s].handle => s = t

\* The descriptor of an entry that is open, and of a connection, is a number.
HandlesSet ==
    \A s \in Sockets :
        /\ sock[s].state \notin {"INIT", "DUPLICATE"} => sock[s].handle \in Fds
        /\ sock[s].state = "TCP_READY" => sock[s].conn \in Fds

\* What holds in any case, and what holds until a port is torn.
AlwaysInv == SoAdTypeOK /\ StatesOfProtocol /\ HandlesSet /\ NoneLeaks

SoundInv == InitAlone /\ UdpOwned /\ OneListener /\ HandlesAgree /\ DescriptorsOwned

SoAdInv == AlwaysInv /\ (torn \/ SoundInv)

LEMMA FdsAreNats == /\ Fds \subseteq Nat /\ NoFd \notin Fds
                    /\ TcpSockets \subseteq Sockets
                    /\ Sockets \subseteq Nat
  BY SoAdAssumption DEF Fds, NoFd, Sockets

-----------------------------------------------------------------------------
LEMMA SoAdInitInv == AdaptorInit => SoAdInv
<1> SUFFICES ASSUME SoAd_Init, torn = FALSE PROVE SoAdInv
  BY DEF AdaptorInit
<1> USE FdsAreNats, SoAdAssumption
<1>1. \A i \in Sockets :
        /\ sock[i].state \in {"DUPLICATE", "INIT"}
        /\ sock[i].state = "DUPLICATE" <=> \E j \in 0 .. i - 1 : SameEndpoint(i, j)
        /\ sock[i].handle = NoFd /\ sock[i].conn = NoFd
  BY DEF SoAd_Init
<1>2. SoAdTypeOK
  <2>1. /\ sock \in [Sockets -> SocketRecords]
        /\ fds \in [Fds -> FdKinds]
        /\ idx \in Sockets
    BY DEF SoAd_Init, SocketRecords, SocketStates, FdKinds, Sockets
  <2>2. torn \in BOOLEAN
    BY Zenon
  <2> QED
    BY <2>1, <2>2 DEF SoAdTypeOK
<1>3. StatesOfProtocol /\ UdpOwned /\ HandlesAgree /\ HandlesSet
  BY <1>1 DEF StatesOfProtocol, UdpOwned, HandlesAgree, HandlesSet, Holds
<1>4. ASSUME NEW s \in TcpSockets, NEW t \in TcpSockets, s # t, SameEndpoint(s, t),
             sock[s].state = "INIT"
      PROVE  sock[t].state = "DUPLICATE"
  <2>1. ~(t \in 0 .. s - 1)
    BY <1>1, <1>4
  <2>2. s \in 0 .. t - 1
    BY <1>4, <2>1 DEF Sockets
  <2>3. SameEndpoint(t, s)
    BY <1>4 DEF SameEndpoint
  <2> QED
    BY <1>1, <2>2, <2>3
<1>5. InitAlone /\ OneListener
  BY <1>1, <1>4 DEF InitAlone, OneListener, Opening
<1>6. DescriptorsOwned /\ NoneLeaks
  BY <1>1 DEF SoAd_Init, DescriptorsOwned, NoneLeaks, Holds, Owns
<1> QED
  BY <1>2, <1>3, <1>5, <1>6 DEF SoAdInv, AlwaysInv, SoundInv

-----------------------------------------------------------------------------
(* Opening, accepting and closing change one entry, or two; the lemmas say *)
(* which, and the invariant follows from what they say.                    *)

\* socketCreate gives entry s the descriptor fd, which nobody has.
Opened(s, fd) ==
    /\ fds[fd] = "free"
    /\ fds' \in [Fds -> FdKinds]
    /\ fds'[fd] = IF s \in TcpSockets THEN "listen" ELSE "udp"
    /\ \A f \in Fds \ {fd} : fds'[f] = fds[f]
    /\ sock[s].state = "INIT"
    /\ sock' \in [Sockets -> SocketRecords]
    /\ sock'[s].state = IF s \in TcpSockets THEN "TCP_LISTENING" ELSE "UDP_READY"
    /\ sock'[s].handle = fd
    /\ \A t \in Sockets \ {s} : sock'[t] = sock[t]

LEMMA CreateOpens ==
    ASSUME SoAdTypeOK, NEW s \in Sockets, CreateSucceeds(s)
    PROVE  \E fd \in Fds : Opened(s, fd)
<1> USE FdsAreNats
<1>1. PICK fd \in Fds :
        /\ FirstFreeFd(fd)
        /\ fds' = [fds EXCEPT ![fd] = IF s \in TcpSockets THEN "listen" ELSE "udp"]
        /\ sock' = [sock EXCEPT
                      ![s].handle = fd,
                      ![s].state  = IF s \in TcpSockets THEN "TCP_LISTENING"
                                                        ELSE "UDP_READY"]
  BY DEF CreateSucceeds
<1>2. Opened(s, fd)
  BY <1>1 DEF Opened, CreateSucceeds, FirstFreeFd, SoAdTypeOK, SocketRecords,
              SocketStates, FdKinds
<1> QED
  BY <1>2

LEMMA CreateAlways ==
    ASSUME AlwaysInv, NEW s \in Sockets, CreateSucceeds(s), idx' \in Sockets, torn' = torn
    PROVE  AlwaysInv'
<1> USE FdsAreNats DEF AlwaysInv
<1>1. PICK fd \in Fds : Opened(s, fd)
  BY CreateOpens
<1> USE <1>1 DEF Opened
<1>2. SoAdTypeOK'
  BY DEF SoAdTypeOK
<1>3. StatesOfProtocol'
  BY DEF StatesOfProtocol, Holds
<1>4. HandlesSet'
  BY DEF HandlesSet
<1>5. ASSUME NEW f \in Fds, fds'[f] # "free"
      PROVE  \E u \in Sockets : Owns(u, f)'
  <2>1. CASE f = fd
    BY <2>1 DEF Owns
  <2>2. CASE f # fd
    <3>1. PICK u \in Sockets : Owns(u, f)
      BY <1>5, <2>2 DEF NoneLeaks
    <3> QED
      BY <3>1 DEF Owns
  <2> QED
    BY <2>1, <2>2
<1> QED
  BY <1>2, <1>3, <1>4, <1>5 DEF NoneLeaks

LEMMA CreateSound ==
    ASSUME AlwaysInv, SoundInv, ~torn, ~torn', NEW s \in Sockets, CreateSucceeds(s)
    PROVE  SoundInv'
<1> USE FdsAreNats DEF AlwaysInv, SoundInv
<1>1. PICK fd \in Fds : Opened(s, fd)
  BY CreateOpens
<1> USE <1>1 DEF Opened
<1>4. InitAlone'
  BY DEF InitAlone, SameEndpoint
<1>5. OneListener'
  BY DEF OneListener, Opening, InitAlone, SameEndpoint
<1>6. HandlesAgree'
  <2>1. \A t \in TcpSockets : Holds(t) => sock[t].handle # fd
    BY DEF Holds, DescriptorsOwned
  <2>2. \A t \in TcpSockets : t # s /\ s \in TcpSockets /\ SameEndpoint(s, t) => ~Holds(t)
    BY DEF Holds, InitAlone
  <2>3. \A t \in TcpSockets \ {s} : (Holds(t)' <=> Holds(t)) /\ sock'[t] = sock[t]
    BY DEF Holds
  <2> SUFFICES ASSUME NEW t \in TcpSockets, NEW u \in TcpSockets, Holds(t)', Holds(u)'
               PROVE  sock'[t].handle = sock'[u].handle <=> SameEndpoint(t, u)
    BY DEF HandlesAgree, SameEndpoint
  <2>4. SameEndpoint(t, u) <=> SameEndpoint(u, t)
    BY DEF SameEndpoint
  <2>5. CASE t = s /\ u = s
    BY <2>5 DEF SameEndpoint
  <2>6. CASE t = s /\ u # s
    BY <2>1, <2>2, <2>3, <2>6
  <2>7. CASE t # s /\ u = s
    BY <2>1, <2>2, <2>3, <2>4, <2>7
  <2>8. CASE t # s /\ u # s
    BY <2>3, <2>8 DEF HandlesAgree
  <2> QED
    BY <2>5, <2>6, <2>7, <2>8
<1>f. \A t \in Sockets : ~Owns(t, fd)
  BY DEF Owns, UdpOwned, DescriptorsOwned, StatesOfProtocol, Holds, SoAdTypeOK,
         SocketRecords, SocketStates
<1>7. UdpOwned'
  <2> SUFFICES ASSUME NEW u \in Sockets, sock'[u].state = "UDP_READY"
               PROVE  /\ sock'[u].handle \in Fds /\ fds'[sock'[u].handle] = "udp"
                      /\ \A t \in Sockets :
                           /\ sock'[t].state = "UDP_READY"
                           /\ sock'[t].handle = sock'[u].handle
                           => u = t
    BY DEF UdpOwned
  <2> USE DEF UdpOwned
  <2>1. CASE u = s
    <3>1. /\ sock'[u].handle = fd
          /\ fds'[fd] = "udp"
      BY <2>1
    <3>2. \A t \in Sockets \ {s} : sock'[t].state = "UDP_READY" => sock'[t].handle # fd
      BY <1>f DEF Owns
    <3>3. \A t \in Sockets :
            sock'[t].state = "UDP_READY" /\ sock'[t].handle = fd => u = t
      BY <2>1, <3>2
    <3> QED
      BY <3>1, <3>3
  <2>2. CASE u # s
    <3>1. sock'[u] = sock[u] /\ sock[u].handle # fd
      BY <2>2, <1>f DEF Owns
    <3>2. sock[u].handle \in Fds /\ fds'[sock[u].handle] = "udp"
      BY <3>1
    <3>3. ASSUME NEW t \in Sockets, sock'[t].state = "UDP_READY",
                 sock'[t].handle = sock[u].handle
          PROVE  u = t
      <4>1. t # s /\ sock'[t] = sock[t]
        BY <3>1, <3>3
      <4> QED
        BY <3>1, <3>3, <4>1
    <3> QED
      BY <3>1, <3>2, <3>3
  <2> QED
    BY <2>1, <2>2
<1>8. DescriptorsOwned'
  <2>1. ASSUME NEW u \in TcpSockets, Holds(u)'
        PROVE  sock'[u].handle \in Fds /\ fds'[sock'[u].handle] = "listen"
    <3>1. CASE u = s
      BY <3>1
    <3>2. CASE u # s
      <4>1. sock'[u] = sock[u] /\ Holds(u)
        BY <2>1, <3>2 DEF Holds
      <4>2. sock[u].handle \in Fds /\ fds[sock[u].handle] = "listen"
        BY <4>1 DEF DescriptorsOwned
      <4> QED
        BY <4>1, <4>2
    <3> QED
      BY <3>1, <3>2
  <2>2. ASSUME NEW u \in Sockets, sock'[u].state = "TCP_READY"
        PROVE  /\ sock'[u].conn \in Fds /\ fds'[sock'[u].conn] \in {"conn", "broken"}
               /\ \A t \in Sockets \ {u} : ~Owns(t, sock[u].conn)'
    <3>1. u # s /\ sock'[u] = sock[u] /\ sock[u].conn # fd
      BY <2>2, <1>f DEF Owns
    <3>2. /\ sock[u].conn \in Fds /\ fds[sock[u].conn] \in {"conn", "broken"}
          /\ \A t \in Sockets \ {u} : ~Owns(t, sock[u].conn)
      BY <2>2, <3>1 DEF DescriptorsOwned
    <3>3. ASSUME NEW t \in Sockets \ {u} PROVE ~Owns(t, sock[u].conn)'
      <4>1. CASE t = s
        BY <3>1, <4>1 DEF Owns
      <4>2. CASE t # s
        BY <3>1, <3>2, <4>2 DEF Owns
      <4> QED
        BY <4>1, <4>2
    <3> QED
      BY <3>1, <3>2, <3>3
  <2> QED
    BY <2>1, <2>2 DEF DescriptorsOwned
<1> QED
  BY <1>4, <1>5, <1>6, <1>7, <1>8
-----------------------------------------------------------------------------
\* socketAccept: entry s is the connection fd, and entry d, if it is another one,
\* takes over the listening descriptor.
Accepted(s, d, fd) ==
    /\ fds[fd] = "free"
    /\ fds' \in [Fds -> FdKinds]
    /\ fds'[fd] = "conn"
    /\ \A f \in Fds \ {fd} : fds'[f] = fds[f]
    /\ sock[s].state = "TCP_LISTENING"
    /\ sock' \in [Sockets -> SocketRecords]
    /\ sock'[s].state = "TCP_READY"
    /\ sock'[s].handle = sock[s].handle
    /\ sock'[s].conn = fd
    /\ d # s => /\ sock[d].state = "DUPLICATE" /\ SameEndpoint(d, s)
                /\ sock'[d].state = "TCP_LISTENING"
                /\ sock'[d].handle = sock[s].handle
    /\ d = s => FreeDuplicates(s) = {}
    /\ \A t \in Sockets \ {s, d} : sock'[t] = sock[t]

LEMMA AcceptAccepts ==
    ASSUME SoAdTypeOK, NEW s \in Sockets, AcceptClient(s)
    PROVE  \E d \in Sockets, fd \in Fds : Accepted(s, d, fd)
<1> USE FdsAreNats
<1> DEFINE ready(fd) == [sock EXCEPT ![s].conn = fd, ![s].state = "TCP_READY"]
<1>1. PICK fd \in Fds :
        /\ FirstFreeFd(fd)
        /\ fds' = [fds EXCEPT ![fd] = "conn"]
        /\ \/ sock' = ready(fd) /\ FreeDuplicates(s) = {}
           \/ \E d \in FreeDuplicates(s) :
                sock' = [ready(fd) EXCEPT ![d].handle = sock[s].handle,
                                          ![d].state  = "TCP_LISTENING"]
  BY DEF AcceptClient
<1>2. sock[s].state = "TCP_LISTENING"
  BY DEF AcceptClient
<1>3. CASE sock' = ready(fd) /\ FreeDuplicates(s) = {}
  <2>1. Accepted(s, s, fd)
    BY <1>1, <1>2, <1>3 DEF Accepted, FirstFreeFd, SoAdTypeOK, SocketRecords,
                            SocketStates, FdKinds
  <2> QED
    BY <2>1
<1>4. ASSUME NEW d \in FreeDuplicates(s),
             sock' = [ready(fd) EXCEPT ![d].handle = sock[s].handle,
                                       ![d].state  = "TCP_LISTENING"]
      PROVE  \E e \in Sockets, f \in Fds : Accepted(s, e, f)
  <2>1. d \in Sockets /\ sock[d].state = "DUPLICATE" /\ SameEndpoint(d, s) /\ d # s
    BY <1>2 DEF FreeDuplicates
  <2>2. Accepted(s, d, fd)
    BY <1>1, <1>2, <1>4, <2>1 DEF Accepted, FirstFreeFd, SoAdTypeOK, SocketRecords,
                                  SocketStates, FdKinds
  <2> QED
    BY <2>1, <2>2
<1> QED
  BY <1>1, <1>3, <1>4

LEMMA AcceptAlways ==
    ASSUME AlwaysInv, NEW s \in Sockets, AcceptClient(s), idx' \in Sockets, torn' = torn
    PROVE  AlwaysInv'
<1> USE FdsAreNats DEF AlwaysInv
<1>1. PICK d \in Sockets, fd \in Fds : Accepted(s, d, fd)
  BY AcceptAccepts
<1> USE <1>1 DEF Accepted
<1>2. SoAdTypeOK'
  BY DEF SoAdTypeOK
<1>3. s \in TcpSockets /\ d \in TcpSockets
  BY DEF StatesOfProtocol, Holds, SameEndpoint
<1>4. StatesOfProtocol'
  <2>1. /\ sock'[s].state = "TCP_READY"
        /\ d # s => sock'[d].state = "TCP_LISTENING"
        /\ \A t \in Sockets \ {s, d} : sock'[t] = sock[t]
        /\ StatesOfProtocol
    OBVIOUS
  <2> QED
    BY ONLY <1>3, <2>1 DEF StatesOfProtocol, Holds
<1>5. HandlesSet'
  BY DEF HandlesSet
<1>6. ASSUME NEW f \in Fds, fds'[f] # "free"
      PROVE  \E u \in Sockets : Owns(u, f)'
  <2>1. CASE f = fd
    BY <2>1 DEF Owns
  <2>2. CASE f # fd
    <3>1. PICK u \in Sockets : Owns(u, f)
      BY <1>6, <2>2 DEF NoneLeaks
    <3>2. u # d \/ d = s
      BY <3>1 DEF Owns
    <3>3. CASE u = s
      BY <3>1, <3>3 DEF Owns
    <3>4. CASE u # s
      BY <3>1, <3>2, <3>4 DEF Owns
    <3> QED
      BY <3>3, <3>4
  <2> QED
    BY <2>1, <2>2
<1> QED
  BY <1>2, <1>4, <1>5, <1>6 DEF NoneLeaks

LEMMA AcceptSound ==
    ASSUME AlwaysInv, SoundInv, ~torn, ~torn', NEW s \in Sockets, AcceptClient(s)
    PROVE  SoundInv'
<1> USE FdsAreNats DEF AlwaysInv, SoundInv
<1>1. PICK d \in Sockets, fd \in Fds : Accepted(s, d, fd)
  BY AcceptAccepts
<1> USE <1>1 DEF Accepted
<1>3. s \in TcpSockets /\ d \in TcpSockets
  BY DEF StatesOfProtocol, Holds, SameEndpoint
<1>5. \A t \in TcpSockets : SameEndpoint(s, t) => sock[t].state # "INIT" /\ sock'[t].state # "INIT"
  BY <1>3 DEF InitAlone, SameEndpoint
<1>6. InitAlone'
  <2> SUFFICES ASSUME NEW t \in TcpSockets, NEW u \in TcpSockets,
                      t # u, SameEndpoint(t, u), sock'[t].state = "INIT"
               PROVE  sock'[u].state = "DUPLICATE"
    BY DEF InitAlone, SameEndpoint
  <2>1. t \notin {s, d} /\ sock[t].state = "INIT"
    OBVIOUS
  <2>2. sock[u].state = "DUPLICATE"
    BY <2>1 DEF InitAlone
  <2>3. u # s
    BY <2>2
  <2>4. u # d
    BY <1>5, <2>1, <2>3 DEF SameEndpoint
  <2> QED
    BY <2>2, <2>3, <2>4
<1>7. OneListener'
  BY <1>3, <1>5 DEF OneListener, Opening, SameEndpoint
<1>8. /\ \A t \in Sockets : sock'[t].state \in {"TCP_LISTENING", "TCP_READY"} =>
           \/ t # d /\ Holds(t) /\ sock'[t].handle = sock[t].handle
           \/ t = d /\ sock'[t].handle = sock[s].handle
      /\ Holds(s)
  BY DEF Holds
<1>9. HandlesAgree'
  <2> SUFFICES ASSUME NEW t \in TcpSockets, NEW u \in TcpSockets, Holds(t)', Holds(u)'
               PROVE  sock'[t].handle = sock'[u].handle <=> SameEndpoint(t, u)
    BY DEF HandlesAgree, SameEndpoint
  <2> DEFINE from(x) == IF x = d THEN s ELSE x
  <2>1. \A x \in TcpSockets : Holds(x)' =>
          /\ from(x) \in TcpSockets /\ Holds(from(x))
          /\ sock'[x].handle = sock[from(x)].handle /\ SameEndpoint(x, from(x))
    BY <1>3, <1>8 DEF Holds, SameEndpoint
  <2>2. sock[from(t)].handle = sock[from(u)].handle <=> SameEndpoint(from(t), from(u))
    BY <2>1 DEF HandlesAgree
  <2> HIDE DEF from
  <2> QED
    BY <2>1, <2>2 DEF SameEndpoint
<1>10. \A t \in Sockets : ~Owns(t, fd)
  BY DEF Owns, UdpOwned, DescriptorsOwned, StatesOfProtocol, Holds, SoAdTypeOK,
         SocketRecords, SocketStates
<1>11. UdpOwned'
  <2> SUFFICES ASSUME NEW u \in Sockets, sock'[u].state = "UDP_READY"
               PROVE  /\ sock'[u].handle \in Fds /\ fds'[sock'[u].handle] = "udp"
                      /\ \A t \in Sockets :
                           /\ sock'[t].state = "UDP_READY"
                           /\ sock'[t].handle = sock'[u].handle
                           => u = t
    BY DEF UdpOwned
  <2>1. \A t \in Sockets : sock'[t].state = "UDP_READY" => sock'[t] = sock[t]
    OBVIOUS
  <2>2. sock[u].handle \in Fds /\ sock[u].handle # fd /\ fds[sock[u].handle] = "udp"
    BY <2>1 DEF UdpOwned
  <2>3. \A t \in Sockets :
          sock[t].state = "UDP_READY" /\ sock[t].handle = sock[u].handle => u = t
    BY <2>1 DEF UdpOwned
  <2>4. fds'[sock[u].handle] = "udp"
    BY <2>2
  <2> QED
    BY ONLY <2>1, <2>2, <2>3, <2>4, sock'[u].state = "UDP_READY"
<1>12. DescriptorsOwned'
  <2>1. ASSUME NEW u \in TcpSockets, Holds(u)'
        PROVE  sock'[u].handle \in Fds /\ fds'[sock'[u].handle] = "listen"
    <3>1. PICK v \in TcpSockets : Holds(v) /\ sock'[u].handle = sock[v].handle
      BY <1>3, <1>8, <2>1 DEF Holds
    <3>2. sock[v].handle \in Fds /\ fds[sock[v].handle] = "listen"
      BY <3>1 DEF DescriptorsOwned
    <3> QED
      BY <3>1, <3>2
  <2>2. ASSUME NEW u \in Sockets, sock'[u].state = "TCP_READY"
        PROVE  /\ sock'[u].conn \in Fds /\ fds'[sock'[u].conn] \in {"conn", "broken"}
               /\ \A t \in Sockets \ {u} : ~Owns(t, sock[u].conn)'
    <3>1. sock[s].handle \in Fds /\ fds[sock[s].handle] = "listen"
      BY <1>3, <1>8 DEF DescriptorsOwned
    <3>2. CASE u = s
      <4>1. ASSUME NEW t \in Sockets \ {s} PROVE ~Owns(t, sock[s].conn)'
        <5>1. CASE t = d
          BY <3>1, <5>1 DEF Owns
        <5>2. CASE t # d
          BY <1>10, <5>2 DEF Owns
        <5> QED
          BY <5>1, <5>2
      <4> QED
        BY <3>2, <4>1
    <3>3. CASE u # s
      <4>1. u # d /\ sock'[u] = sock[u]
        BY <2>2, <3>3
      <4>2. /\ sock[u].conn \in Fds /\ fds[sock[u].conn] \in {"conn", "broken"}
            /\ \A t \in Sockets \ {u} : ~Owns(t, sock[u].conn)
        BY <2>2, <4>1 DEF DescriptorsOwned
      <4>3. sock[u].conn # fd
        BY <4>2
      <4>4. ASSUME NEW t \in Sockets \ {u} PROVE ~Owns(t, sock[u].conn)'
        <5>1. CASE t = s
          BY <3>1, <4>1, <4>2, <4>3, <5>1 DEF Owns
        <5>2. CASE t = d /\ t # s
          BY <3>1, <4>1, <4>2, <5>2 DEF Owns
        <5>3. CASE t # d /\ t # s
          BY <4>1, <4>2, <5>3 DEF Owns
        <5> QED
          BY <5>1, <5>2, <5>3
      <4> QED
        BY <4>1, <4>2, <4>3, <4>4
    <3> QED
      BY <3>2, <3>3
  <2> QED
    BY <2>1, <2>2 DEF DescriptorsOwned
<1> QED
  BY <1>6, <1>7, <1>9, <1>11, <1>12

-----------------------------------------------------------------------------
\* SoAd_SocketClose on an entry that is open: its descriptor fd is free again; a
\* connection becomes a duplicate exactly if another entry listens, any other entry
\* is to be opened again.
Closed(s, fd) ==
    /\ fd = IF sock[s].state = "TCP_READY" THEN sock[s].conn ELSE sock[s].handle
    /\ fds' \in [Fds -> FdKinds]
    /\ fds'[fd] = "free"
    /\ \A f \in Fds \ {fd} : fds'[f] = fds[f]
    /\ sock' \in [Sockets -> SocketRecords]
    /\ \A t \in Sockets \ {s} : sock'[t] = sock[t]
    /\ \/ /\ sock[s].state \in {"UDP_READY", "TCP_LISTENING"}
          /\ sock'[s].state = "INIT"
       \/ /\ sock[s].state = "TCP_READY"
          /\ sock'[s].handle = sock[s].handle
          /\ sock'[s].state = IF ListenerElsewhere(sock, s)
                              THEN "DUPLICATE" ELSE "TCP_LISTENING"

LEMMA CloseCloses ==
    ASSUME SoAdTypeOK, HandlesSet, NEW s \in Sockets, UpperClose(s)
    PROVE  \/ \E fd \in Fds : Closed(s, fd)
           \/ sock' = sock /\ fds' = fds
<1> USE FdsAreNats
<1>1. CASE sock[s].state \in {"UDP_READY", "TCP_LISTENING"}
  <2>1. /\ sock' = [sock EXCEPT ![s].handle = NoFd, ![s].state = "INIT"]
        /\ fds' = CloseFd(fds, sock[s].handle)
    BY <1>1 DEF UpperClose, SoAd_SocketClose
  <2>2. sock[s].handle \in Fds
    BY <1>1 DEF HandlesSet
  <2>3. Closed(s, sock[s].handle)
    BY <1>1, <2>1, <2>2 DEF Closed, CloseFd, SoAdTypeOK, SocketRecords, SocketStates, FdKinds
  <2> QED
    BY <2>2, <2>3
<1>2. CASE sock[s].state = "TCP_READY"
  <2>1. /\ sock' = [sock EXCEPT ![s].conn  = NoFd,
                                ![s].state = IF ListenerElsewhere(sock, s)
                                             THEN "DUPLICATE" ELSE "TCP_LISTENING"]
        /\ fds' = CloseFd(fds, sock[s].conn)
    BY <1>2 DEF UpperClose, SoAd_SocketClose
  <2>2. sock[s].conn \in Fds
    BY <1>2 DEF HandlesSet
  <2> HIDE DEF ListenerElsewhere
  <2>3. Closed(s, sock[s].conn)
    BY <1>2, <2>1, <2>2 DEF Closed, CloseFd, SoAdTypeOK, SocketRecords, SocketStates, FdKinds
  <2> QED
    BY <2>2, <2>3
<1>3. CASE sock[s].state \notin {"UDP_READY", "TCP_LISTENING", "TCP_READY"}
  BY <1>3 DEF UpperClose, SoAd_SocketClose
<1> QED
  BY <1>1, <1>2, <1>3

LEMMA CloseAlways ==
    ASSUME AlwaysInv, NEW s \in Sockets, NEW fd \in Fds, Closed(s, fd),
           idx' = idx, torn' \in BOOLEAN
    PROVE  AlwaysInv'
<1> USE FdsAreNats DEF AlwaysInv, Closed
<1>1. SoAdTypeOK'
  BY DEF SoAdTypeOK
<1>2. StatesOfProtocol'
  BY DEF StatesOfProtocol, Holds
<1>3. HandlesSet'
  BY DEF HandlesSet
<1>4. ASSUME NEW f \in Fds, fds'[f] # "free"
      PROVE  \E u \in Sockets : Owns(u, f)'
  <2>1. f # fd
    BY <1>4
  <2>2. PICK u \in Sockets : Owns(u, f)
    BY <1>4, <2>1 DEF NoneLeaks
  <2>3. CASE u # s
    BY <2>2, <2>3 DEF Owns
  <2>4. CASE u = s
    \* what s owned besides fd is the listening descriptor: it goes on
    \* listening, or another entry does.
    <3>1. sock[s].state = "TCP_READY" /\ f = sock[s].handle
      BY <2>1, <2>2, <2>4 DEF Owns
    <3>2. CASE ListenerElsewhere(sock, s)
      BY <3>1, <3>2 DEF ListenerElsewhere, Owns
    <3>3. CASE ~ListenerElsewhere(sock, s)
      BY <3>1, <3>3 DEF Owns
    <3> QED
      BY <3>2, <3>3
  <2> QED
    BY <2>3, <2>4
<1> QED
  BY <1>1, <1>2, <1>3, <1>4 DEF NoneLeaks

\* The listener of an untorn port is alone: what else its port has is free.
LEMMA LoneListener ==
    ASSUME AlwaysInv, SoundInv, ~torn, NEW s \in Sockets, ~Tears(s),
           sock[s].state = "TCP_LISTENING"
    PROVE  /\ s \in TcpSockets
           /\ \A t \in TcpSockets : t # s /\ SameEndpoint(s, t) => sock[t].state = "DUPLICATE"
<1> USE FdsAreNats DEF AlwaysInv, SoundInv
<1>1. s \in TcpSockets
  BY DEF StatesOfProtocol, Holds
<1>2. ASSUME NEW t \in TcpSockets, t # s, SameEndpoint(s, t)
      PROVE  sock[t].state = "DUPLICATE"
  <2>1. sock[t].state \notin {"INIT", "TCP_LISTENING"}
    BY <1>1, <1>2 DEF OneListener, Opening
  <2>2. sock[t].state # "TCP_READY"
    BY <1>1, <1>2 DEF HandlesAgree, Holds, Tears
  <2>3. sock[t].state # "UDP_READY"
    BY <1>2 DEF StatesOfProtocol
  <2> QED
    BY <2>1, <2>2, <2>3 DEF SoAdTypeOK, SocketRecords, SocketStates
<1> QED
  BY <1>1, <1>2

LEMMA CloseSound ==
    ASSUME AlwaysInv, SoundInv, ~torn, ~torn', NEW s \in Sockets, ~Tears(s),
           NEW fd \in Fds, Closed(s, fd)
    PROVE  SoundInv'
<1> USE FdsAreNats DEF AlwaysInv, SoundInv, Closed
<1>4. \/ s \in TcpSockets /\ sock[s].state = "TCP_READY"
      \/ s \notin TcpSockets /\ sock[s].state = "UDP_READY"
      \/ /\ s \in TcpSockets /\ sock[s].state = "TCP_LISTENING"
         /\ \A t \in TcpSockets : t # s /\ SameEndpoint(s, t) => sock[t].state = "DUPLICATE"
  BY LoneListener DEF StatesOfProtocol, Holds
<1>6. InitAlone'
  <2> SUFFICES ASSUME NEW t \in TcpSockets, NEW u \in TcpSockets,
                      t # u, SameEndpoint(t, u), sock'[t].state = "INIT"
               PROVE  sock'[u].state = "DUPLICATE"
    BY DEF InitAlone, SameEndpoint
  <2>1. CASE t = s
    BY <1>4, <2>1
  <2>2. CASE t # s
    <3>1. sock[u].state = "DUPLICATE"
      BY <2>2 DEF InitAlone
    <3> QED
      BY <1>4, <3>1
  <2> QED
    BY <2>1, <2>2
<1>7. OneListener'
  <2> SUFFICES ASSUME NEW t \in TcpSockets, NEW u \in TcpSockets,
                      t # u, SameEndpoint(t, u), Opening(t)', Opening(u)'
               PROVE  FALSE
    BY DEF OneListener, SameEndpoint
  <2>1. CASE t # s /\ u # s
    BY <2>1 DEF OneListener, Opening
  <2>2. ASSUME NEW w \in TcpSockets, w # s, SameEndpoint(s, w), Opening(w), Opening(s)'
        PROVE  FALSE
    <3>1. s \in TcpSockets /\ sock[s].state = "TCP_READY" /\ ~ListenerElsewhere(sock, s)
      BY <1>4, <2>2 DEF Opening, SameEndpoint
    <3>2. sock[w].state = "TCP_LISTENING"
      BY <2>2, <3>1 DEF Opening, InitAlone, SameEndpoint
    <3>3. sock[w].handle = sock[s].handle
      BY <2>2, <3>1, <3>2 DEF HandlesAgree, Holds
    <3> QED
      BY <2>2, <3>1, <3>2, <3>3 DEF ListenerElsewhere
  <2>3. CASE t = s
    BY <2>2, <2>3 DEF Opening
  <2>4. CASE u = s
    BY <2>2, <2>4 DEF Opening, SameEndpoint
  <2> QED
    BY <2>1, <2>3, <2>4
<1>8. \A t \in Sockets : Holds(t)' => Holds(t) /\ sock'[t].handle = sock[t].handle
  BY DEF Holds
<1>9. HandlesAgree'
  BY <1>8 DEF HandlesAgree, SameEndpoint
<1>10. Owns(s, fd)
  BY DEF Owns
<1>11. UdpOwned'
  <2> SUFFICES ASSUME NEW u \in Sockets, sock'[u].state = "UDP_READY"
               PROVE  /\ sock'[u].handle \in Fds /\ fds'[sock'[u].handle] = "udp"
                      /\ \A t \in Sockets :
                           /\ sock'[t].state = "UDP_READY"
                           /\ sock'[t].handle = sock'[u].handle
                           => u = t
    BY DEF UdpOwned
  <2>1. \A t \in Sockets : sock'[t].state = "UDP_READY" => t # s /\ sock'[t] = sock[t]
    OBVIOUS
  <2>2. sock[u].handle \in Fds /\ fds[sock[u].handle] = "udp"
    BY <2>1 DEF UdpOwned
  <2>3. sock[u].handle # fd
    <3>1. CASE sock[s].state = "UDP_READY"
      BY <2>1, <3>1 DEF UdpOwned
    <3>2. CASE sock[s].state = "TCP_READY"
      BY <2>2, <3>2 DEF DescriptorsOwned
    <3>3. CASE sock[s].state = "TCP_LISTENING"
      <4>1. s \in TcpSockets /\ Holds(s) /\ fd = sock[s].handle
        BY <1>4, <3>3 DEF Holds
      <4> QED
        BY <2>2, <4>1 DEF DescriptorsOwned
    <3> QED
      BY <3>1, <3>2, <3>3
  <2>4. \A t \in Sockets :
          sock[t].state = "UDP_READY" /\ sock[t].handle = sock[u].handle => u = t
    BY <2>1 DEF UdpOwned
  <2>5. fds'[sock[u].handle] = "udp"
    BY <2>2, <2>3
  <2> QED
    BY ONLY <2>1, <2>2, <2>4, <2>5, sock'[u].state = "UDP_READY"
<1>12. DescriptorsOwned'
  <2>1. ASSUME NEW u \in TcpSockets, Holds(u)'
        PROVE  sock'[u].handle \in Fds /\ fds'[sock'[u].handle] = "listen"
    <3>1. sock[u].handle \in Fds /\ fds[sock[u].handle] = "listen"
      BY <1>8, <2>1 DEF DescriptorsOwned
    <3>2. sock[u].handle # fd
      <4>1. CASE sock[s].state = "TCP_LISTENING"
        \* nobody else of the port holds the descriptor.
        <5>1. u # s /\ Holds(u) /\ Holds(s) /\ fd = sock[s].handle /\ s \in TcpSockets
          BY <1>4, <1>8, <2>1, <4>1 DEF Holds
        <5>2. sock[u].handle = fd => SameEndpoint(s, u)
          BY <5>1 DEF HandlesAgree
        <5> QED
          BY <1>4, <4>1, <5>1, <5>2 DEF Holds
      <4>2. CASE sock[s].state # "TCP_LISTENING"
        BY <3>1, <4>2 DEF UdpOwned, DescriptorsOwned
      <4> QED
        BY <4>1, <4>2
    <3> QED
      BY <1>8, <2>1, <3>1, <3>2
  <2>2. ASSUME NEW u \in Sockets, sock'[u].state = "TCP_READY"
        PROVE  /\ sock'[u].conn \in Fds /\ fds'[sock'[u].conn] \in {"conn", "broken"}
               /\ \A t \in Sockets \ {u} : ~Owns(t, sock[u].conn)'
    <3>1. u # s /\ sock'[u] = sock[u]
      BY <2>2
    <3>2. /\ sock[u].conn \in Fds /\ fds[sock[u].conn] \in {"conn", "broken"}
          /\ \A t \in Sockets \ {u} : ~Owns(t, sock[u].conn)
      BY <2>2, <3>1 DEF DescriptorsOwned
    <3>3. sock[u].conn # fd
      BY <1>10, <3>1, <3>2
    <3>4. \A t \in Sockets, f \in Fds : Owns(t, f)' => Owns(t, f) \/ t = s
      BY DEF Owns
    <3>5. ~Owns(s, sock[u].conn)'
      BY <1>4, <3>1, <3>2 DEF Owns, DescriptorsOwned, Holds
    <3> QED
      BY <3>1, <3>2, <3>3, <3>4, <3>5
  <2> QED
    BY <2>1, <2>2 DEF DescriptorsOwned
<1> QED
  BY <1>6, <1>7, <1>9, <1>11, <1>12

-----------------------------------------------------------------------------
\* A step that leaves the table and the descriptors alone.
LEMMA KeepInv ==
    ASSUME SoAdInv, sock' = sock, fds' = fds, idx' \in Sockets,
           torn' \in BOOLEAN, torn => torn'
    PROVE  SoAdInv'
<1>1. AlwaysInv'
  BY DEF SoAdInv, AlwaysInv, SoAdTypeOK, StatesOfProtocol, HandlesSet, NoneLeaks,
         Holds, Owns
<1>2. CASE torn'
  BY <1>1, <1>2 DEF SoAdInv
<1>3. CASE ~torn'
  <2>1. SoundInv'
    BY <1>3 DEF SoAdInv, SoundInv, InitAlone, OneListener, HandlesAgree,
           UdpOwned, DescriptorsOwned, Holds, Opening, Owns, SameEndpoint
  <2> QED
    BY <1>1, <2>1 DEF SoAdInv
<1> QED
  BY <1>2, <1>3

LEMMA SoAdNextInv == SoAdInv /\ [AdaptorNext]_avars => SoAdInv'
<1> SUFFICES ASSUME SoAdInv, [AdaptorNext]_avars PROVE SoAdInv'
  OBVIOUS
<1>0. torn \in BOOLEAN /\ idx \in Sockets
  BY DEF SoAdInv, AlwaysInv, SoAdTypeOK
<1>1. CASE Scan
  <2>1. idx \in Sockets /\ idx' \in Sockets /\ torn' = torn
    BY <1>0, <1>1, SoAdAssumption DEF Scan, Sockets
  <2>2. CASE CreateSucceeds(idx)
    BY <2>1, <2>2, CreateAlways, CreateSound DEF SoAdInv
  <2>3. CASE AcceptClient(idx)
    BY <2>1, <2>3, AcceptAlways, AcceptSound DEF SoAdInv
  <2>4. CASE UNCHANGED <<sock, fds>>
    BY <1>0, <2>1, <2>4, KeepInv
  <2> QED
    BY <1>1, <2>2, <2>3, <2>4
    DEF Scan, SocketStep, CreateFails, AcceptNone, SkipDuplicate, ReadKeeps
<1>2. ASSUME NEW s \in Sockets, UpperClose(s) PROVE SoAdInv'
  <2>1. /\ idx' = idx /\ torn' \in BOOLEAN /\ (torn => torn')
        /\ ~torn' => ~torn /\ ~Tears(s)
    BY <1>0, <1>2 DEF UpperClose
  <2>2. CASE \E fd \in Fds : Closed(s, fd)
    <3>1. PICK fd \in Fds : Closed(s, fd)
      BY <2>2
    <3>2. AlwaysInv'
      BY <2>1, <3>1, CloseAlways DEF SoAdInv
    <3>3. ~torn' => SoundInv'
      BY <2>1, <3>1, CloseSound DEF SoAdInv
    <3> QED
      BY <3>2, <3>3 DEF SoAdInv
  <2>3. CASE sock' = sock /\ fds' = fds
    BY <1>0, <2>1, <2>3, KeepInv
  <2> QED
    BY <1>2, <2>2, <2>3, CloseCloses DEF SoAdInv, AlwaysInv
<1>3. CASE UNCHANGED avars
  BY <1>0, <1>3, KeepInv DEF avars
<1> QED
  BY <1>1, <1>2, <1>3 DEF AdaptorNext

\* The inductive invariant of the socket adaptor: every other theorem of this
\* module follows from it.
THEOREM SoAdInvariant == AdaptorSpec => []SoAdInv
<1>1. AdaptorInit => SoAdInv
  BY SoAdInitInv
<1>2. SoAdInv /\ [AdaptorNext]_avars => SoAdInv'
  BY SoAdNextInv
<1> QED
  BY <1>1, <1>2, PTL DEF AdaptorSpec

\* Type correctness, for every table of sockets (SoAd_Init, scanSockets).
THEOREM SoAdTypeCorrect == AdaptorSpec => []SoAdTypeOK
<1>1. SoAdInv => SoAdTypeOK
  BY DEF SoAdInv, AlwaysInv
<1> QED
  BY <1>1, SoAdInvariant, PTL

\* However clients come and go and whatever is closed, a port does not have two
\* listeners until it is torn (socketAccept, SoAd_SocketClose).
THEOREM AtMostOneListener == AdaptorSpec => []OneListener
<1>1. SoAdInv => OneListener
  BY DEF SoAdInv, SoundInv, OneListener
<1> QED
  BY <1>1, SoAdInvariant, PTL

\* Comparing descriptors, as SoAd_SocketClose does, is comparing ports, until one
\* is torn.
THEOREM HandlesTellPorts == AdaptorSpec => []HandlesAgree
<1>1. SoAdInv => HandlesAgree
  BY DEF SoAdInv, SoundInv, HandlesAgree
<1> QED
  BY <1>1, SoAdInvariant, PTL

\* Until a port is torn no entry uses a descriptor that is closed or another's
\* (socketCreate, socketAccept, SoAd_SocketClose).
THEOREM NoDescriptorLost == AdaptorSpec => []DescriptorsOwned
<1>1. SoAdInv => DescriptorsOwned
  BY DEF SoAdInv, SoundInv, DescriptorsOwned
<1> QED
  BY <1>1, SoAdInvariant, PTL

\* No descriptor leaks, whatever is closed and torn (SoAd_SocketClose).
THEOREM NoDescriptorLeaks == AdaptorSpec => []NoneLeaks
<1>1. SoAdInv => NoneLeaks
  BY DEF SoAdInv, AlwaysInv
<1> QED
  BY <1>1, SoAdInvariant, PTL

\* With one entry to a port, as in SoAd_Cfg.c, nothing is ever torn: what the other
\* theorems say of an untorn adaptor then holds whatever the upper layer closes.
THEOREM OneEntryNeverTorn ==
    ASSUME \A s, t \in TcpSockets : SameEndpoint(s, t) => s = t
    PROVE  AdaptorSpec => []~torn
<1>1. AdaptorInit => ~torn
  BY DEF AdaptorInit
<1>2. SoAdInv /\ ~torn /\ [AdaptorNext]_avars => ~torn'
  <2> SUFFICES ASSUME SoAdInv, ~torn, [AdaptorNext]_avars PROVE ~torn'
    OBVIOUS
  <2>1. ASSUME NEW s \in Sockets PROVE ~Tears(s)
    <3> SUFFICES ASSUME sock[s].state = "TCP_LISTENING", NEW t \in Sockets \ {s},
                        sock[t].state = "TCP_READY", sock[t].handle = sock[s].handle
                 PROVE  FALSE
      BY DEF Tears
    <3>1. s \in TcpSockets /\ t \in TcpSockets
      BY DEF SoAdInv, AlwaysInv, StatesOfProtocol, Holds
    <3> QED
      BY <3>1 DEF SoAdInv, SoundInv, HandlesAgree, Holds
  <2> QED
    BY <2>1 DEF AdaptorNext, Scan, UpperClose, avars
<1> QED
  BY <1>1, <1>2, SoAdInvariant, PTL DEF AdaptorSpec

-----------------------------------------------------------------------------
(* No entry is stranded.                                                   *)

Below == {ss \in Nat \X Nat : ss[1] < ss[2]}

LEMMA BelowWellFounded == IsWellFoundedOn(Below, Nat)
BY NatLessThanWellFounded DEF OpToRel, Below

\* Every port has an entry that is not DUPLICATE after SoAd_Init: its first one.
LEMMA FirstIsInit ==
    ASSUME SoAd_Init, NEW s \in TcpSockets
    PROVE  \E t \in TcpSockets : SameEndpoint(s, t) /\ sock[t].state = "INIT"
<1> USE FdsAreNats, SoAdAssumption
<1> DEFINE P == {t \in TcpSockets : SameEndpoint(s, t)}
<1>1. P \subseteq Nat /\ s \in P
  BY DEF SameEndpoint
<1>2. IsWellFoundedOn(Below, P)
  BY <1>1, BelowWellFounded, IsWellFoundedOnSubset
<1>3. PICK t \in P : \A u \in P : ~(<<u, t>> \in Below)
  <2> HIDE DEF P
  <2>1. \E t \in P : \A u \in P : ~(<<u, t>> \in Below)
    BY <1>1, <1>2, WFMin
  <2> QED BY <2>1
<1>4. ~\E j \in 0 .. t - 1 : SameEndpoint(t, j)
  <2> SUFFICES ASSUME NEW j \in 0 .. t - 1, SameEndpoint(t, j) PROVE FALSE
    OBVIOUS
  <2>1. j \in P
    BY DEF SameEndpoint
  <2>2. <<j, t>> \in Below
    BY <1>1, <2>1 DEF Below
  <2> QED BY <1>3, <2>1, <2>2
<1>5. t \in Sockets
  OBVIOUS
<1>6. sock[t].state = "INIT"
  BY <1>4, <1>5 DEF SoAd_Init
<1> QED BY <1>6

LEMMA DuplicateInit == AdaptorInit => DuplicateHasListener
<1> SUFFICES ASSUME SoAd_Init, NEW s \in TcpSockets
             PROVE  \E t \in TcpSockets : SameEndpoint(s, t) /\ Opening(t)
  BY DEF DuplicateHasListener, AdaptorInit
<1> QED BY FirstIsInit DEF Opening

\* The first entry of the port keeps or moves the role: an accept leaves no duplicate
\* or makes one the listener, a close leaves a duplicate only where another listens.
LEMMA DuplicateNext ==
    SoAdInv /\ DuplicateHasListener /\ [AdaptorNext]_avars => DuplicateHasListener'
<1> SUFFICES ASSUME SoAdInv, DuplicateHasListener, [AdaptorNext]_avars,
                    ~torn' \/ OnePort,
                    NEW u \in TcpSockets, sock'[u].state = "DUPLICATE"
             PROVE  \E t \in TcpSockets : SameEndpoint(u, t) /\ Opening(t)'
  BY DEF DuplicateHasListener, SameEndpoint, OnePort
<1> USE FdsAreNats
<1>0. ~torn \/ OnePort
  BY DEF AdaptorNext, Scan, UpperClose, avars
<1>1. ASSUME sock' = sock PROVE \E t \in TcpSockets : SameEndpoint(u, t) /\ Opening(t)'
  BY <1>0, <1>1 DEF DuplicateHasListener, Opening
<1>2. ASSUME NEW s \in Sockets, CreateSucceeds(s)
      PROVE  \E t \in TcpSockets : SameEndpoint(u, t) /\ Opening(t)'
  <2>1. PICK fd \in Fds : Opened(s, fd)
    BY <1>2, CreateOpens DEF SoAdInv, AlwaysInv
  <2>2. u # s /\ sock[u].state = "DUPLICATE"
    BY <2>1 DEF Opened
  <2>3. PICK t \in TcpSockets : SameEndpoint(u, t) /\ Opening(t)
    BY <1>0, <2>2 DEF DuplicateHasListener
  <2>4. Opening(t)'
    BY <2>1, <2>3 DEF Opened, Opening
  <2> QED BY <2>3, <2>4
<1>3. ASSUME NEW s \in Sockets, AcceptClient(s)
      PROVE  \E t \in TcpSockets : SameEndpoint(u, t) /\ Opening(t)'
  <2>1. PICK d \in Sockets, fd \in Fds : Accepted(s, d, fd)
    BY <1>3, AcceptAccepts DEF SoAdInv, AlwaysInv
  <2>2. u # s /\ u # d /\ sock[u].state = "DUPLICATE"
    BY <2>1 DEF Accepted
  <2>3. PICK t \in TcpSockets : SameEndpoint(u, t) /\ Opening(t)
    BY <1>0, <2>2 DEF DuplicateHasListener
  <2>4. CASE t # s
    <3>1. t # d
      BY <2>1, <2>3, <2>4 DEF Accepted, Opening
    <3>2. Opening(t)'
      BY <2>1, <2>3, <2>4, <3>1 DEF Accepted, Opening
    <3> QED BY <2>3, <3>2
  <2>5. CASE t = s
    <3>1. SameEndpoint(u, s)
      BY <2>3, <2>5
    <3>2. d # s
      BY <2>1, <2>2, <3>1 DEF Accepted, FreeDuplicates
    <3>3. d \in TcpSockets /\ SameEndpoint(u, d) /\ Opening(d)'
      BY <2>1, <2>3, <2>5, <3>2 DEF Accepted, SameEndpoint, Opening
    <3> QED BY <3>3
  <2> QED BY <2>4, <2>5
<1>4. ASSUME NEW s \in Sockets, UpperClose(s)
      PROVE  \E t \in TcpSockets : SameEndpoint(u, t) /\ Opening(t)'
  <2> SUFFICES ASSUME NEW fd \in Fds, Closed(s, fd)
               PROVE  \E t \in TcpSockets : SameEndpoint(u, t) /\ Opening(t)'
    BY <1>1, <1>4, CloseCloses DEF SoAdInv, AlwaysInv
  <2>2. CASE u # s
    \* a listener that is closed is to be opened again
    <3>1. PICK t \in TcpSockets : SameEndpoint(u, t) /\ Opening(t)
      BY <1>0, <2>2 DEF Closed, DuplicateHasListener
    <3>2. Opening(t)'
      BY <3>1 DEF Closed, Opening
    <3> QED BY <3>1, <3>2
  <2>3. CASE u = s
    <3>1. sock[s].state = "TCP_READY" /\ ListenerElsewhere(sock, s)
      BY <2>3 DEF Closed
    <3>2. PICK t \in Sockets \ {s} : sock[t].handle = sock[s].handle /\ sock[t].state = "TCP_LISTENING"
      BY <3>1 DEF ListenerElsewhere
    <3>3. t \in TcpSockets
      BY <3>2 DEF SoAdInv, AlwaysInv, StatesOfProtocol, Holds
    <3>4. SameEndpoint(s, t)
      <4>1. CASE OnePort
        BY <2>3, <3>3, <4>1 DEF OnePort
      <4>2. CASE ~torn
        BY <2>3, <3>1, <3>2, <3>3, <4>2 DEF SoAdInv, SoundInv, HandlesAgree, Holds
      <4> QED BY <1>0, <4>1, <4>2
    <3>5. Opening(t)'
      BY <3>2 DEF Closed, Opening
    <3> QED BY <2>3, <3>3, <3>4, <3>5
  <2> QED BY <2>2, <2>3
<1>5. CASE Scan
  <2>1. idx \in Sockets
    BY DEF SoAdInv, AlwaysInv, SoAdTypeOK
  <2> QED BY <1>1, <1>2, <1>3, <1>5, <2>1
          DEF Scan, SocketStep, CreateFails, AcceptNone, SkipDuplicate, ReadKeeps
<1> QED BY <1>1, <1>4, <1>5 DEF AdaptorNext, avars

\* A duplicate always has an entry of its port that listens or is about to, so that its
\* slot can be used again; with a single TCP port whatever is closed, with several until
\* one is torn (SoAd_Init, socketAccept, SoAd_SocketClose).
THEOREM NoEntryStranded == AdaptorSpec => []DuplicateHasListener
<1>1. AdaptorInit => DuplicateHasListener
  BY DuplicateInit
<1>2. SoAdInv /\ DuplicateHasListener /\ [AdaptorNext]_avars => DuplicateHasListener'
  BY DuplicateNext
<1> QED
  BY <1>1, <1>2, SoAdInvariant, PTL DEF AdaptorSpec

-----------------------------------------------------------------------------
(* Every port is a pool of slots (module AcceptPool).                      *)

\* The refinement mapping for the entries of port p.
Pool(p) == INSTANCE AcceptPool WITH
    Slots <- Cardinality(EntriesOn(p)), listening <- Listens(p), busy <- Busy(p)

\* The entries of port p that are connected.
Connected(p) == {s \in EntriesOn(p) : sock[s].state = "TCP_READY"}

LEMMA EntriesFinite ==
    ASSUME NEW p
    PROVE  /\ IsFiniteSet(EntriesOn(p)) /\ Cardinality(EntriesOn(p)) \in Nat
           /\ IsFiniteSet(Connected(p)) /\ Busy(p) \in Nat /\ Busy(p) = Cardinality(Connected(p))
           /\ Busy(p)' = Cardinality(Connected(p)')
           /\ EntriesOn(p) \subseteq TcpSockets /\ TcpSockets \subseteq Sockets
<1>1. IsFiniteSet(Sockets)
  BY SoAdAssumption, FS_Interval DEF Sockets
<1>2. EntriesOn(p) \in SUBSET Sockets /\ EntriesOn(p) \subseteq TcpSockets
  BY FdsAreNats DEF EntriesOn
<1>3. IsFiniteSet(EntriesOn(p))
  BY <1>1, <1>2, FS_Subset
<1>4. Connected(p) \in SUBSET EntriesOn(p)
  BY DEF Connected
<1>5. IsFiniteSet(Connected(p))
  BY <1>3, <1>4, FS_Subset
<1>6. Cardinality(EntriesOn(p)) \in Nat /\ Cardinality(Connected(p)) \in Nat
  BY <1>3, <1>5, FS_CardinalityType
<1> QED BY <1>2, <1>3, <1>5, <1>6, FdsAreNats DEF Busy, Connected

\* Entries of one port are entries with the same endpoint.
LEMMA PortIsEndpoint ==
    ASSUME NEW p, NEW s \in EntriesOn(p), NEW t \in TcpSockets
    PROVE  t \in EntriesOn(p) <=> SameEndpoint(s, t)
BY DEF EntriesOn, SameEndpoint

LEMMA PoolInit == ASSUME NEW p, AdaptorInit PROVE Pool(p)!Init
<1>1. \A s \in EntriesOn(p) : sock[s].state \in {"DUPLICATE", "INIT"}
  BY EntriesFinite DEF AdaptorInit, SoAd_Init
<1>2. Listens(p) = FALSE /\ Connected(p) = {}
  BY <1>1 DEF Listens, Connected
<1>3. Busy(p) = 0
  BY <1>2, EntriesFinite, FS_EmptySet
<1> QED BY <1>2, <1>3 DEF Pool!Init, AdaptorInit

\* A step that changes the state of no entry of the port.
LEMMA PoolStays ==
    ASSUME NEW p, \A s \in EntriesOn(p) : sock'[s].state = sock[s].state
    PROVE  UNCHANGED <<Listens(p), Busy(p)>>
BY DEF Listens, Busy

\* The port is opened by its only entry that is not a duplicate.
LEMMA PoolOpens ==
    ASSUME SoundInv, NEW p, NEW s \in EntriesOn(p), NEW fd \in Fds, Opened(s, fd)
    PROVE  Pool(p)!Open
<1>1. s \in TcpSockets /\ sock[s].state = "INIT" /\ sock'[s].state = "TCP_LISTENING"
  BY EntriesFinite DEF Opened
<1>2. \A t \in EntriesOn(p) \ {s} : sock[t].state = "DUPLICATE" /\ sock'[t] = sock[t]
  BY <1>1, EntriesFinite, PortIsEndpoint DEF InitAlone, Opened, SoundInv
<1>3. ~Listens(p) /\ Listens(p)'
  BY <1>1, <1>2 DEF Listens
<1>4. Connected(p) = {} /\ Connected(p)' = {}
  BY <1>1, <1>2 DEF Connected
<1>5. Busy(p) = 0 /\ Busy(p)' = 0
  BY <1>4, EntriesFinite, FS_EmptySet
<1>6. Listens(p)' = TRUE
  BY <1>3 DEF Listens
<1> QED BY <1>3, <1>5, <1>6 DEF Pool!Open

\* A client takes the listener's slot; the listener moves to a free one, and is gone
\* when there is none.
LEMMA PoolAccepts ==
    ASSUME AlwaysInv, SoundInv, ~torn, NEW p, NEW s \in EntriesOn(p),
           NEW d \in Sockets, NEW fd \in Fds, Accepted(s, d, fd)
    PROVE  Pool(p)!Accept
<1> USE DEF Accepted
<1>1. s \in TcpSockets /\ sock[s].state = "TCP_LISTENING" /\ sock'[s].state = "TCP_READY"
  BY EntriesFinite
<1>2. Listens(p)
  BY <1>1 DEF Listens
<1>3. s \notin Connected(p) /\ Connected(p)' = Connected(p) \union {s}
  <2>1. s \notin Connected(p) /\ s \in Connected(p)'
    BY <1>1 DEF Connected
  <2>2. \A t \in EntriesOn(p) \ {s} : sock'[t].state = "TCP_READY" <=> sock[t].state = "TCP_READY"
    <3> SUFFICES ASSUME NEW t \in EntriesOn(p) \ {s}
                 PROVE  sock'[t].state = "TCP_READY" <=> sock[t].state = "TCP_READY"
      OBVIOUS
    <3>1. t \in Sockets
      BY EntriesFinite
    <3>2. CASE t = d
      BY <3>2
    <3>3. CASE t # d
      BY <3>1, <3>3
    <3> QED BY <3>2, <3>3
  <2> QED BY <2>1, <2>2 DEF Connected
<1>4. Busy(p)' = Busy(p) + 1
  BY <1>3, EntriesFinite, FS_AddElement
<1>5. Connected(p)' \in SUBSET EntriesOn(p)
  BY DEF Connected
<1>6. /\ IsFiniteSet(Connected(p)')
      /\ Busy(p)' <= Cardinality(EntriesOn(p))
      /\ Busy(p)' = Cardinality(EntriesOn(p)) => Connected(p)' = EntriesOn(p)
  <2>1. /\ IsFiniteSet(Connected(p)') /\ Cardinality(Connected(p)') <= Cardinality(EntriesOn(p))
        /\ Cardinality(EntriesOn(p)) = Cardinality(Connected(p)') => EntriesOn(p) = Connected(p)'
    BY <1>5, EntriesFinite, FS_Subset
  <2>2. Busy(p)' = Cardinality(Connected(p)')
    BY EntriesFinite
  <2> QED BY <2>1, <2>2
<1>7. CASE d # s
  <2>1. d \in EntriesOn(p) /\ sock'[d].state = "TCP_LISTENING"
    BY <1>1, <1>7 DEF EntriesOn, SameEndpoint
  <2>2. Listens(p)' = TRUE
    BY <2>1 DEF Listens
  <2>3. d \notin Connected(p)'
    BY <2>1 DEF Connected
  <2>4. Busy(p)' < Cardinality(EntriesOn(p))
    BY <1>4, <1>6, <2>1, <2>3, EntriesFinite
  <2> QED BY <1>2, <1>4, <2>2, <2>4 DEF Pool!Accept
<1>8. CASE d = s
  <2>1. ASSUME NEW t \in EntriesOn(p), t # s PROVE sock'[t].state = "TCP_READY"
    <3>1. t \in TcpSockets /\ t \in Sockets /\ SameEndpoint(s, t) /\ SameEndpoint(t, s)
      BY <2>1, EntriesFinite, PortIsEndpoint DEF SameEndpoint
    <3>2. sock[t].state # "DUPLICATE"
      BY <1>8, <3>1 DEF FreeDuplicates
    <3>3. sock[t].state # "INIT" /\ sock[t].state # "TCP_LISTENING"
      BY <1>1, <2>1, <3>1 DEF SoundInv, OneListener, Opening
    <3>4. sock[t].state # "UDP_READY"
      BY <3>1 DEF AlwaysInv, StatesOfProtocol
    <3>5. sock[t].state \in SocketStates /\ sock'[t] = sock[t]
      BY <1>8, <2>1, <3>1 DEF AlwaysInv, SoAdTypeOK, SocketRecords
    <3> QED BY <3>2, <3>3, <3>4, <3>5 DEF SocketStates
  <2>2. Listens(p)' = FALSE
    BY <1>1, <2>1 DEF Listens
  <2>3. Connected(p)' = EntriesOn(p)
    BY <1>1, <2>1 DEF Connected
  <2>4. Busy(p)' = Cardinality(EntriesOn(p))
    BY <2>3, EntriesFinite
  <2>5. (Busy(p)' < Cardinality(EntriesOn(p))) = FALSE
    BY <2>4, EntriesFinite
  <2> QED BY <1>2, <1>4, <2>2, <2>5, Zenon DEF Pool!Accept
<1> QED BY <1>7, <1>8

\* A connection that ends gives its slot back, and the port listens then.
LEMMA PoolHangsUp ==
    ASSUME AlwaysInv, SoundInv, ~torn, NEW p, NEW s \in EntriesOn(p),
           NEW fd \in Fds, Closed(s, fd), sock[s].state = "TCP_READY"
    PROVE  Pool(p)!HangUp
<1> USE DEF Closed
<1>1. s \in TcpSockets /\ s \in Sockets /\ sock[s].state = "TCP_READY"
  BY EntriesFinite
<1>2. sock'[s].state = IF ListenerElsewhere(sock, s) THEN "DUPLICATE" ELSE "TCP_LISTENING"
  BY <1>1
<1>3. \A t \in EntriesOn(p) \ {s} : sock'[t] = sock[t]
  BY EntriesFinite
<1>4. s \in Connected(p) /\ Connected(p)' = Connected(p) \ {s}
  BY <1>1, <1>2, <1>3 DEF Connected
<1>5. Busy(p) > 0 /\ Busy(p)' = Busy(p) - 1
  <2>1. Cardinality(Connected(p)) # 0
    BY <1>4, EntriesFinite, FS_EmptySet
  <2> QED BY <1>4, <2>1, EntriesFinite, FS_RemoveElement
<1>6. Listens(p)'
  <2>1. CASE ~ListenerElsewhere(sock, s)
    BY <1>2, <2>1 DEF Listens
  <2>2. CASE ListenerElsewhere(sock, s)
    <3>1. PICK t \in Sockets \ {s} : sock[t].handle = sock[s].handle /\ sock[t].state = "TCP_LISTENING"
      BY <2>2 DEF ListenerElsewhere
    <3>2. t \in TcpSockets /\ SameEndpoint(s, t)
      BY <1>1, <3>1 DEF AlwaysInv, SoundInv, StatesOfProtocol, HandlesAgree, Holds
    <3>3. t \in EntriesOn(p)
      BY <3>2, PortIsEndpoint
    <3> QED BY <1>3, <3>1, <3>3 DEF Listens
  <2> QED BY <2>1, <2>2
<1>7. Listens(p)' = TRUE
  BY <1>6 DEF Listens
<1> QED BY <1>5, <1>7 DEF Pool!HangUp

\* The listener of a port nobody is connected to is closed.
LEMMA PoolShuts ==
    ASSUME AlwaysInv, SoundInv, ~torn, NEW p, NEW s \in EntriesOn(p), ~Tears(s),
           NEW fd \in Fds, Closed(s, fd), sock[s].state = "TCP_LISTENING"
    PROVE  Pool(p)!Shut
<1> USE DEF Closed
<1>1. s \in TcpSockets /\ s \in Sockets /\ sock'[s].state = "INIT"
  BY EntriesFinite
<1>2. \A t \in EntriesOn(p) \ {s} : sock[t].state = "DUPLICATE" /\ sock'[t] = sock[t]
  BY <1>1, EntriesFinite, PortIsEndpoint, LoneListener
<1>3. Listens(p) /\ ~Listens(p)'
  BY <1>1, <1>2 DEF Listens
<1>4. Connected(p) = {} /\ Connected(p)' = {}
  BY <1>1, <1>2 DEF Connected
<1>5. Busy(p) = 0 /\ Busy(p)' = 0
  BY <1>4, EntriesFinite, FS_EmptySet
<1>6. Listens(p)' = FALSE
  BY <1>3 DEF Listens
<1> QED BY <1>3, <1>5, <1>6 DEF Pool!Shut

\* Every step of the adaptor is a step of the pool of each port, or none.
LEMMA PoolNext ==
    ASSUME NEW p, SoAdInv, [AdaptorNext]_avars
    PROVE  Pool(p)!Next \/ UNCHANGED <<Listens(p), Busy(p), torn>>
<1> DEFINE Works == Pool(p)!Open \/ Pool(p)!Accept \/ Pool(p)!HangUp \/ Pool(p)!Shut
<1> DEFINE G == Works \/ UNCHANGED <<Listens(p), Busy(p)>>
<1>0. \/ torn' = TRUE
      \/ AlwaysInv /\ SoundInv /\ ~torn /\ ~torn' /\ torn' = torn
  BY DEF SoAdInv, AlwaysInv, SoAdTypeOK, AdaptorNext, Scan, UpperClose, avars
<1>a. CASE torn' = TRUE
  BY <1>a DEF Pool!Next, Pool!Tear
<1>b. CASE AlwaysInv /\ SoundInv /\ ~torn /\ ~torn' /\ torn' = torn
  <2>1. ASSUME sock' = sock PROVE G
    BY <2>1, PoolStays
  <2>2. ASSUME NEW s \in Sockets, CreateSucceeds(s) PROVE G
    <3>1. PICK fd \in Fds : Opened(s, fd)
      BY <1>b, <2>2, CreateOpens DEF AlwaysInv
    <3>2. CASE s \in EntriesOn(p)
      BY <1>b, <3>1, <3>2, PoolOpens
    <3>3. CASE s \notin EntriesOn(p)
      <4>1. \A t \in EntriesOn(p) : sock'[t].state = sock[t].state
        BY <3>1, <3>3, EntriesFinite DEF Opened
      <4> QED BY <4>1, PoolStays
    <3> QED BY <3>2, <3>3
  <2>3. ASSUME NEW s \in Sockets, AcceptClient(s) PROVE G
    <3>1. PICK d \in Sockets, fd \in Fds : Accepted(s, d, fd)
      BY <1>b, <2>3, AcceptAccepts DEF AlwaysInv
    <3>2. CASE s \in EntriesOn(p)
      BY <1>b, <3>1, <3>2, PoolAccepts
    <3>3. CASE s \notin EntriesOn(p)
      <4>1. d \notin EntriesOn(p)
        BY <3>1, <3>3, EntriesFinite DEF Accepted, EntriesOn, SameEndpoint
      <4>2. \A t \in EntriesOn(p) : sock'[t].state = sock[t].state
        BY <3>1, <3>3, <4>1, EntriesFinite DEF Accepted
      <4> QED BY <4>2, PoolStays
    <3> QED BY <3>2, <3>3
  <2>4. ASSUME NEW s \in Sockets, UpperClose(s) PROVE G
    <3>0. ~Tears(s)
      BY <1>b, <2>4 DEF UpperClose
    <3> SUFFICES ASSUME NEW fd \in Fds, Closed(s, fd) PROVE G
      BY <1>b, <2>1, <2>4, CloseCloses DEF AlwaysInv
    <3>1. CASE s \in EntriesOn(p)
      <4>1. sock[s].state \in {"TCP_READY", "TCP_LISTENING"}
        BY <1>b, <3>1, EntriesFinite DEF Closed, AlwaysInv, StatesOfProtocol
      <4>2. CASE sock[s].state = "TCP_READY"
        BY <1>b, <3>1, <4>2, PoolHangsUp
      <4>3. CASE sock[s].state = "TCP_LISTENING"
        BY <1>b, <3>0, <3>1, <4>3, PoolShuts
      <4> QED BY <4>1, <4>2, <4>3
    <3>2. CASE s \notin EntriesOn(p)
      <4>1. \A t \in EntriesOn(p) : sock'[t].state = sock[t].state
        BY <3>2, EntriesFinite DEF Closed
      <4> QED BY <4>1, PoolStays
    <3> QED BY <3>1, <3>2
  <2> HIDE DEF G
  <2>5. ASSUME Scan PROVE G
    <3>1. idx \in Sockets
      BY <1>b DEF AlwaysInv, SoAdTypeOK
    <3> QED BY <2>1, <2>2, <2>3, <2>5, <3>1
            DEF Scan, SocketStep, CreateFails, AcceptNone, SkipDuplicate, ReadKeeps
  <2>6. G
    <3>1. \/ Scan
          \/ \E s \in Sockets : UpperClose(s)
          \/ sock' = sock
      BY DEF AdaptorNext, avars
    <3> QED BY <2>1, <2>4, <2>5, <3>1
  <2> QED BY <1>b, <2>6 DEF G, Pool!Next
<1> QED BY <1>0, <1>a, <1>b

\* For every table of sockets and every port, the adaptor implements a pool with as many
\* slots as the port has entries: until a port is torn it accepts exactly while it was
\* opened and a slot is free, whichever entries play the listener and whatever is closed
\* (socketCreate, socketAccept, SoAd_SocketClose).
THEOREM EveryPortIsPool == ASSUME NEW p PROVE AdaptorSpec => Pool(p)!Spec
<1>1. AdaptorInit => Pool(p)!Init
  BY PoolInit
<1>2. SoAdInv /\ [AdaptorNext]_avars => [Pool(p)!Next]_<<Listens(p), Busy(p), torn>>
  BY PoolNext
<1> QED
  BY <1>1, <1>2, SoAdInvariant, PTL DEF AdaptorSpec, Pool!Spec, Pool!pvars

\* In particular the two ports of the run, which TLC checks.
THEOREM PortsRefinePools == AdaptorSpec => PortsArePools
<1>1. AdaptorSpec => Pool(13400)!Spec /\ Pool(13401)!Spec
  BY EveryPortIsPool
<1>2. Pool(13400)!Spec => SharedPort!Spec
  <2>1. Pool(13400)!Init => SharedPort!Init
    BY DEF Pool!Init, SharedPort!Init
  <2>2. Pool(13400)!Next => SharedPort!Next
    BY DEF Pool!Next, Pool!Open, Pool!Accept, Pool!HangUp, Pool!Shut, Pool!Tear,
           SharedPort!Next, SharedPort!Open, SharedPort!Accept, SharedPort!HangUp,
           SharedPort!Shut, SharedPort!Tear
  <2> QED BY <2>1, <2>2, PTL DEF Pool!Spec, SharedPort!Spec, Pool!pvars, SharedPort!pvars
<1>3. Pool(13401)!Spec => OtherPort!Spec
  <2>1. Pool(13401)!Init => OtherPort!Init
    BY DEF Pool!Init, OtherPort!Init
  <2>2. Pool(13401)!Next => OtherPort!Next
    BY DEF Pool!Next, Pool!Open, Pool!Accept, Pool!HangUp, Pool!Shut, Pool!Tear,
           OtherPort!Next, OtherPort!Open, OtherPort!Accept, OtherPort!HangUp,
           OtherPort!Shut, OtherPort!Tear
  <2> QED BY <2>1, <2>2, PTL DEF Pool!Spec, OtherPort!Spec, Pool!pvars, OtherPort!pvars
<1> QED
  BY <1>1, <1>2, <1>3, PTL DEF PortsArePools
=============================================================================
