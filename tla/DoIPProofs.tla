----------------------------- MODULE DoIPProofs -----------------------------
(***************************************************************************)
(* Proofs about the DoIP server (module DoIP), for every configuration of  *)
(* sockets, connections, testers, activations and timeouts.                *)
(*                                                                         *)
(* Handlers are compositions of functions of the record st of the shared   *)
(* tables, so the lemmas are about those functions: TablesOK(st, k) says   *)
(* that the tables are typed and consistent while k buffers are held       *)
(* outside the pending activation, every function preserves it, and a      *)
(* handler that ends in Become(st) establishes it for the variables.       *)
(***************************************************************************)
EXTENDS DoIP, TLAPS

PendRecords == [sock : Sockets \cup {NoSock}, sa : Testers \cup {NoSa},
                type : Nat, buf : BOOLEAN]

\* st is a record of tables.
Whole(st) ==
    DOMAIN st = {"sock", "fds", "conn", "pend", "bufs", "activated", "obs"}

\* Buffers held by the pending activation.
Held(p) == IF p.buf THEN 1 ELSE 0

SlotsOK(cs) ==
    \A c \in Slots : /\ cs[c].sock = NoSock <=> cs[c].sa = NoSa
                     /\ cs[c].state = "REGISTERED" => cs[c].sock # NoSock

PendOK(p) ==
    /\ p \in PendRecords
    /\ p.sock # NoSock <=> p.buf
    /\ p.buf => p.sa # NoSa

TablesOK(st, k) ==
    /\ Whole(st)
    /\ st.sock \in [Sockets -> SocketRecords]
    /\ st.fds \in [Fds -> FdKinds]
    /\ st.conn \in [Slots -> ConnRecords]
    /\ SlotsOK(st.conn)
    /\ PendOK(st.pend)
    /\ st.bufs \in Nat /\ st.bufs <= MaxBufs /\ st.bufs >= k + Held(st.pend)
    /\ st.activated \in [Sockets -> SUBSET Testers]

\* No slot loses its socket between st and su.
KeepsSockets(st, su) ==
    \A c \in Slots : st.conn[c].sock # NoSock => su.conn[c].sock # NoSock

LEMMA Ranges ==
    /\ NoSock \notin Sockets /\ NoSa \notin Testers /\ NoSa \notin Strangers
    /\ NoFd \notin Fds /\ Sockets \subseteq Nat /\ Slots \subseteq Nat
    /\ TcpSockets \subseteq Sockets
    /\ NumSockets \in Nat /\ MaxConn \in Nat /\ MaxBufs \in Nat
    /\ 0 \in Sockets /\ 0 \in Slots
    /\ Unregistered \notin Slots /\ Garbage \notin Slots
  BY SoAdAssumption, DoIPAssumption
  DEF NoSock, NoSa, NoFd, Fds, Sockets, Slots, Unregistered, Garbage

-----------------------------------------------------------------------------
(* The functions of the tables.                                            *)

LEMMA SocketCloseOK ==
    ASSUME NEW n, NEW s \in Sockets,
           n.sock \in [Sockets -> SocketRecords], n.fds \in [Fds -> FdKinds]
    PROVE  /\ SoAd_SocketClose(n, s).sock \in [Sockets -> SocketRecords]
           /\ SoAd_SocketClose(n, s).fds \in [Fds -> FdKinds]
<1> USE DEF SocketRecords, SocketStates, FdKinds, CloseFd, SoAd_SocketClose
<1>1. CASE n.sock[s].state \in {"UDP_READY", "TCP_LISTENING"}
  BY <1>1
<1>2. CASE n.sock[s].state = "TCP_READY"
  <2> DEFINE state == IF ListenerElsewhere(n.sock, s) THEN "DUPLICATE" ELSE "TCP_LISTENING"
  <2>1. state \in SocketStates
    OBVIOUS
  <2> HIDE DEF state
  <2>2. SoAd_SocketClose(n, s) =
          [sock |-> [n.sock EXCEPT ![s].conn = NoFd, ![s].state = state],
           fds  |-> CloseFd(n.fds, n.sock[s].conn)]
    BY <1>2 DEF state
  <2> HIDE DEF SoAd_SocketClose
  <2> QED
    BY <1>2, <2>1, <2>2
<1>3. CASE n.sock[s].state \notin {"UDP_READY", "TCP_LISTENING", "TCP_READY"}
  BY <1>3
<1> QED
  BY <1>1, <1>2, <1>3

LEMMA CloseFields ==
    ASSUME NEW st, NEW k, TablesOK(st, k), NEW s \in Sockets
    PROVE  /\ TablesOK(Close(st, s), k)
           /\ Close(st, s).conn = st.conn
           /\ Close(st, s).pend = st.pend
           /\ Close(st, s).bufs = st.bufs
           /\ st.obs \subseteq Close(st, s).obs
<1> DEFINE n == SoAd_SocketClose([sock |-> st.sock, fds |-> st.fds], s)
<1> DEFINE e == IF st.sock[s].state = "TCP_LISTENING" THEN {<<"unlisten", s>>} ELSE {}
<1>1. n.sock \in [Sockets -> SocketRecords] /\ n.fds \in [Fds -> FdKinds]
  BY SocketCloseOK DEF TablesOK
<1>2. Close(st, s) = [st EXCEPT !.sock = n.sock, !.fds = n.fds,
                                !.activated[s] = {}, !.obs = @ \cup e]
  BY DEF Close
<1> HIDE DEF n, e
<1> QED
  BY <1>1, <1>2 DEF TablesOK, Whole

LEMMA RespondFields ==
    ASSUME NEW st, NEW k, TablesOK(st, k), NEW s \in Sockets, NEW sa, NEW code,
           code \in {16, 17} => sa \in Testers
    PROVE  /\ TablesOK(Respond(st, s, sa, code), k)
           /\ Respond(st, s, sa, code).conn = st.conn
           /\ Respond(st, s, sa, code).pend = st.pend
           /\ Respond(st, s, sa, code).bufs = st.bufs
           /\ Respond(st, s, sa, code).obs = st.obs \cup {<<"response", s, sa, code>>}
  BY DEF TablesOK, Whole, Respond, See

LEMMA RegisterFields ==
    ASSUME NEW st, NEW k, TablesOK(st, k), NEW c \in Slots, NEW s \in Sockets,
           NEW type \in Nat, NEW sa \in Testers
    PROVE  /\ TablesOK(RegisterSocket(st, c, s, type, sa), k)
           /\ RegisterSocket(st, c, s, type, sa).pend = st.pend
           /\ RegisterSocket(st, c, s, type, sa).bufs = st.bufs
           /\ \A d \in Slots \ {c} :
                RegisterSocket(st, c, s, type, sa).conn[d] = st.conn[d]
           /\ RegisterSocket(st, c, s, type, sa).conn[c].state = "REGISTERED"
           /\ RegisterSocket(st, c, s, type, sa).conn[c].sock = s
           /\ RegisterSocket(st, c, s, type, sa).conn[c].sa = sa
           /\ RegisterSocket(st, c, s, type, sa).conn[c].general = 0
<1> DEFINE slot == [st.conn[c] EXCEPT !.sock = s, !.type = type, !.sa = sa,
                                      !.general = 0, !.awaiting = FALSE,
                                      !.state = "REGISTERED"]
           su == RegisterSocket(st, c, s, type, sa)
<1>1. /\ slot \in ConnRecords /\ slot.state = "REGISTERED"
      /\ slot.sock = s /\ slot.sa = sa /\ slot.general = 0
  BY Ranges DEF TablesOK, ConnRecords
<1>2. su = [st EXCEPT !.conn[c] = slot]
  BY DEF RegisterSocket
<1> HIDE DEF slot, su
<1>3. /\ Whole(su) /\ su.sock = st.sock /\ su.fds = st.fds /\ su.pend = st.pend
      /\ su.bufs = st.bufs /\ su.activated = st.activated
      /\ su.conn = [st.conn EXCEPT ![c] = slot]
  BY <1>2 DEF TablesOK, Whole
<1>4. /\ su.conn \in [Slots -> ConnRecords] /\ su.conn[c] = slot
      /\ \A d \in Slots \ {c} : su.conn[d] = st.conn[d]
  BY <1>1, <1>3 DEF TablesOK
<1>5. SlotsOK(su.conn)
  BY <1>1, <1>4, Ranges DEF TablesOK, SlotsOK
<1>6. TablesOK(su, k)
  BY <1>3, <1>4, <1>5 DEF TablesOK
<1> QED
  BY <1>1, <1>3, <1>4, <1>6 DEF su

\* The buffer of a pending activation is freed with it.
LEMMA GrantFields ==
    ASSUME NEW st, NEW k \in Nat, TablesOK(st, k), NEW c \in Slots, IsPending(st)
    PROVE  /\ TablesOK(GrantPending(st, c), k)
           /\ KeepsSockets(st, GrantPending(st, c))
           /\ \A d \in Slots \ {c} : GrantPending(st, c).conn[d] = st.conn[d]
           /\ GrantPending(st, c).conn[c].state = "REGISTERED"
           /\ GrantPending(st, c).conn[c].sock = st.pend.sock
           /\ GrantPending(st, c).conn[c].sa = st.pend.sa
           /\ GrantPending(st, c).conn[c].general = 0
           /\ GrantPending(st, c).pend = NoPending
           /\ <<"response", st.pend.sock, st.pend.sa, 16>> \in GrantPending(st, c).obs
<1> DEFINE p == st.pend
           reg == RegisterSocket(st, c, p.sock, p.type, p.sa)
           res == Respond(reg, p.sock, p.sa, 16)
           su == GrantPending(st, c)
<1>1. p.sock \in Sockets /\ p.sa \in Testers /\ p.type \in Nat /\ p.buf
  BY Ranges DEF TablesOK, PendOK, PendRecords, IsPending
<1>2. /\ TablesOK(reg, k) /\ reg.pend = st.pend /\ reg.bufs = st.bufs
      /\ \A d \in Slots \ {c} : reg.conn[d] = st.conn[d]
      /\ reg.conn[c].state = "REGISTERED"
      /\ reg.conn[c].sock = p.sock /\ reg.conn[c].sa = p.sa /\ reg.conn[c].general = 0
  BY <1>1, RegisterFields
<1>3. /\ TablesOK(res, k) /\ res.conn = reg.conn /\ res.pend = reg.pend
      /\ res.bufs = reg.bufs
      /\ <<"response", p.sock, p.sa, 16>> \in res.obs
  BY <1>1, <1>2, RespondFields
<1>4. su = [res EXCEPT !.pend = NoPending, !.bufs = @ - 1]
  BY DEF GrantPending
<1> HIDE DEF reg, res, su
<1>5. /\ Whole(su) /\ su.sock = res.sock /\ su.fds = res.fds /\ su.conn = res.conn
      /\ su.pend = NoPending /\ su.bufs = res.bufs - 1
      /\ su.activated = res.activated /\ su.obs = res.obs
  BY <1>3, <1>4 DEF TablesOK, Whole
<1>6. PendOK(NoPending) /\ Held(NoPending) = 0
  BY Ranges DEF PendOK, NoPending, PendRecords, Held
<1>7. Held(res.pend) = 1
  BY <1>1, <1>2, <1>3 DEF Held
<1>8. TablesOK(su, k)
  <2>1. su.bufs \in Nat /\ su.bufs <= MaxBufs /\ su.bufs >= k + Held(su.pend)
    <3>1. /\ res.bufs \in Nat /\ res.bufs <= MaxBufs
          /\ res.bufs >= k + Held(res.pend)
      BY <1>3 DEF TablesOK
    <3> QED
      BY <3>1, <1>5, <1>6, <1>7, Ranges
  <2>2. /\ su.sock \in [Sockets -> SocketRecords] /\ su.fds \in [Fds -> FdKinds]
        /\ su.conn \in [Slots -> ConnRecords] /\ SlotsOK(su.conn)
        /\ su.activated \in [Sockets -> SUBSET Testers]
    BY <1>3, <1>5 DEF TablesOK
  <2>3. PendOK(su.pend)
    BY <1>5, <1>6
  <2> QED
    BY ONLY <1>5, <2>1, <2>2, <2>3 DEF TablesOK
<1>9. KeepsSockets(st, su)
  BY <1>1, <1>2, <1>3, <1>5, Ranges DEF KeepsSockets
<1> QED
  BY <1>2, <1>3, <1>5, <1>8, <1>9 DEF su

LEMMA FreeSlotFields ==
    ASSUME NEW st, NEW k, TablesOK(st, k), NEW c \in Slots
    PROVE  /\ TablesOK(FreeSlot(st, c), k)
           /\ KeepsSockets(st, FreeSlot(st, c))
           /\ FreeSlot(st, c).pend = st.pend
           /\ \A d \in Slots \ {c} : FreeSlot(st, c).conn[d] = st.conn[d]
           /\ FreeSlot(st, c).conn[c].state = "INVALID"
<1> DEFINE slot == [st.conn[c] EXCEPT !.state = "INVALID", !.awaiting = FALSE]
           su == FreeSlot(st, c)
<1>1. /\ slot \in ConnRecords /\ slot.state = "INVALID"
      /\ slot.sock = st.conn[c].sock /\ slot.sa = st.conn[c].sa
  BY DEF TablesOK, ConnRecords
<1>2. /\ Whole(su) /\ su.sock = st.sock /\ su.fds = st.fds /\ su.pend = st.pend
      /\ su.bufs = st.bufs /\ su.activated = st.activated
      /\ su.conn = [st.conn EXCEPT ![c] = slot]
  BY DEF TablesOK, Whole, FreeSlot
<1> HIDE DEF slot, su
<1>3. /\ su.conn \in [Slots -> ConnRecords] /\ su.conn[c] = slot
      /\ \A d \in Slots \ {c} : su.conn[d] = st.conn[d]
  BY <1>1, <1>2 DEF TablesOK
<1>4. SlotsOK(su.conn)
  BY <1>1, <1>3 DEF TablesOK, SlotsOK
<1>5. TablesOK(su, k)
  BY <1>2, <1>3, <1>4 DEF TablesOK
<1>6. KeepsSockets(st, su)
  BY <1>1, <1>3 DEF KeepsSockets
<1> QED
  BY <1>1, <1>2, <1>3, <1>5, <1>6 DEF su

\* handleTimeout on slot c gives the slot to the pending activation or frees it.
Taken(st, su, c) ==
    /\ \A d \in Slots \ {c} : su.conn[d] = st.conn[d]
    /\ \/ /\ IsPending(st)
          /\ su.conn[c].state = "REGISTERED"
          /\ su.conn[c].sock = st.pend.sock /\ su.conn[c].sa = st.pend.sa
          /\ su.pend = NoPending
          /\ <<"response", st.pend.sock, st.pend.sa, 16>> \in su.obs
       \/ /\ ~IsPending(st)
          /\ su.conn[c].state = "INVALID" /\ su.pend = st.pend

LEMMA HandleTimeoutFields ==
    ASSUME NEW st, NEW k \in Nat, TablesOK(st, k), NEW c \in Slots,
           st.conn[c].sock # NoSock
    PROVE  /\ TablesOK(HandleTimeout(st, c), k)
           /\ KeepsSockets(st, HandleTimeout(st, c))
           /\ Taken(st, HandleTimeout(st, c), c)
           /\ IsPending(st) => HandleTimeout(st, c).conn[c].general = 0
<1> DEFINE closed == Close(st, st.conn[c].sock)
<1>1. st.conn[c].sock \in Sockets
  BY DEF TablesOK, ConnRecords
<1>2. TablesOK(closed, k) /\ closed.conn = st.conn /\ closed.pend = st.pend
  BY <1>1, CloseFields
<1>3. IsPending(closed) <=> IsPending(st)
  BY <1>2 DEF IsPending
<1>4. HandleTimeout(st, c) = IF IsPending(closed) THEN GrantPending(closed, c)
                                                  ELSE FreeSlot(closed, c)
  BY DEF HandleTimeout
<1> HIDE DEF closed
<1>5. CASE IsPending(st)
  BY <1>2, <1>3, <1>4, <1>5, GrantFields DEF Taken, KeepsSockets
<1>6. CASE ~IsPending(st)
  BY <1>2, <1>3, <1>4, <1>6, FreeSlotFields DEF Taken, KeepsSockets
<1> QED
  BY <1>5, <1>6

\* An alive check request that could not be sent does the same to slot c, but the
\* slot of a tester nobody waits for keeps awaiting its response.
LEMMA AliveCheckFailsFields ==
    ASSUME NEW st, NEW k \in Nat, TablesOK(st, k), NEW c \in Slots,
           st.conn[c].sock # NoSock
    PROVE  /\ TablesOK(AliveCheckFails(st, c), k)
           /\ KeepsSockets(st, AliveCheckFails(st, c))
           /\ Taken(st, AliveCheckFails(st, c), c)
<1> DEFINE slot == [st.conn[c] EXCEPT !.state = "INVALID"]
           gone == [st EXCEPT !.conn[c].state = "INVALID"]
<1>1. /\ slot \in ConnRecords /\ slot.state = "INVALID"
      /\ slot.sock = st.conn[c].sock /\ slot.sa = st.conn[c].sa
  BY DEF TablesOK, ConnRecords
<1>2. /\ Whole(gone) /\ gone.sock = st.sock /\ gone.fds = st.fds
      /\ gone.pend = st.pend /\ gone.bufs = st.bufs
      /\ gone.activated = st.activated
      /\ gone.conn = [st.conn EXCEPT ![c] = slot]
  BY DEF TablesOK, Whole
<1>3. AliveCheckFails(st, c) =
        IF gone.pend.sock # NoSock THEN HandleTimeout(gone, c)
                                   ELSE Close(gone, gone.conn[c].sock)
  BY DEF AliveCheckFails
<1> HIDE DEF slot, gone
<1>4. /\ gone.conn \in [Slots -> ConnRecords] /\ gone.conn[c] = slot
      /\ \A d \in Slots \ {c} : gone.conn[d] = st.conn[d]
  BY <1>1, <1>2 DEF TablesOK
<1>5. SlotsOK(gone.conn)
  BY <1>1, <1>4 DEF TablesOK, SlotsOK
<1>6. TablesOK(gone, k) /\ gone.conn[c].sock # NoSock
  BY <1>1, <1>2, <1>4, <1>5 DEF TablesOK
<1>7. KeepsSockets(st, gone)
  BY <1>1, <1>4 DEF KeepsSockets
<1>8. gone.pend.sock # NoSock <=> IsPending(st)
  BY <1>2 DEF IsPending, TablesOK, PendOK
<1>9. IsPending(gone) <=> IsPending(st)
  BY <1>2 DEF IsPending
<1>10. CASE IsPending(st)
  <2>1. /\ TablesOK(HandleTimeout(gone, c), k)
        /\ KeepsSockets(gone, HandleTimeout(gone, c))
        /\ Taken(gone, HandleTimeout(gone, c), c)
    BY <1>6, HandleTimeoutFields
  <2>2. Taken(st, HandleTimeout(gone, c), c)
    BY <1>2, <1>4, <1>9, <1>10, <2>1 DEF Taken
  <2>3. KeepsSockets(st, HandleTimeout(gone, c))
    BY <1>7, <2>1 DEF KeepsSockets
  <2> QED
    BY <1>3, <1>8, <1>10, <2>1, <2>2, <2>3
<1>11. CASE ~IsPending(st)
  <2> DEFINE su == Close(gone, gone.conn[c].sock)
  <2>1. gone.conn[c].sock \in Sockets
    BY <1>4, <1>6 DEF ConnRecords
  <2>2. TablesOK(su, k) /\ su.conn = gone.conn /\ su.pend = gone.pend
    BY <1>6, <2>1, CloseFields
  <2> HIDE DEF su
  <2>3. Taken(st, su, c)
    BY <1>1, <1>2, <1>4, <1>11, <2>2 DEF Taken
  <2>4. KeepsSockets(st, su)
    BY <1>7, <2>2 DEF KeepsSockets
  <2> QED
    BY <1>3, <1>8, <1>11, <2>2, <2>3, <2>4 DEF su
<1> QED
  BY <1>10, <1>11

-----------------------------------------------------------------------------
(* The inductive invariant.  While an alive check loop runs (pc = "alive"),  *)
(* the request it serves holds one buffer more, its address is a tester's,   *)
(* and the loop over all slots meets only slots that have had a socket.      *)

Looping == IF pc = "alive" THEN 1 ELSE 0

RestOK ==
    /\ idx \in 0 .. (IF pc = "scan" THEN NumSockets ELSE MaxConn)
    /\ tmap \in [Targets -> Slots \cup {Garbage}]
    /\ pc \in {"scan", "alive", "main"}
    /\ req \in [sock : Sockets, sa : Testers \cup {NoSa}, type : Nat, single : BOOLEAN]
    /\ dcm \in [state : {"idle", "processing", "responding", "lost"},
                sock : Sockets, sa : Addresses \cup {NoSa}, entitled : BOOLEAN]

LoopOK ==
    pc = "alive" => /\ req.sa # NoSa
                    /\ ~req.single => \A c \in Slots : conn[c].sock # NoSock

IInv == TablesOK(Tables, Looping) /\ RestOK /\ LoopOK

LEMMA TablesFields ==
    /\ Whole(Tables)
    /\ Tables.sock = sock /\ Tables.fds = fds /\ Tables.conn = conn
    /\ Tables.pend = pend /\ Tables.bufs = bufs /\ Tables.activated = activated
    /\ Tables.obs = {}
  BY DEF Tables, Whole

\* What a handler stores is what the invariant is about in the next state.
LEMMA Stored ==
    ASSUME NEW st, NEW k, TablesOK(st, k), Become(st), Looping' = k
    PROVE  TablesOK(Tables, Looping)'
<1>1. Whole(Tables)'
  BY DEF Tables, Whole
<1>2. /\ Tables'.sock = st.sock /\ Tables'.fds = st.fds /\ Tables'.conn = st.conn
      /\ Tables'.pend = st.pend /\ Tables'.bufs = st.bufs
      /\ Tables'.activated = st.activated
  BY DEF Tables, Become
<1> QED
  BY <1>1, <1>2 DEF TablesOK

\* The three invariants the runs check follow.
LEMMA InvariantImplies ==
    IInv => TypeOK /\ PendingBufferAllocated /\ SlotsHaveSockets
<1> SUFFICES ASSUME IInv PROVE TypeOK /\ PendingBufferAllocated /\ SlotsHaveSockets
  OBVIOUS
<1>1. /\ sock \in [Sockets -> SocketRecords] /\ fds \in [Fds -> FdKinds]
      /\ conn \in [Slots -> ConnRecords] /\ SlotsOK(conn) /\ PendOK(pend)
      /\ bufs \in Nat /\ bufs <= MaxBufs /\ bufs >= Looping + Held(pend)
      /\ activated \in [Sockets -> SUBSET Testers]
  BY TablesFields DEF IInv, TablesOK
<1>2. TypeOK
  <2>1. bufs \in 0 .. MaxBufs
    BY <1>1, Ranges
  <2> QED
    BY <1>1, <2>1 DEF IInv, RestOK, TypeOK, PendOK, PendRecords
<1>3. PendingBufferAllocated
  <2>1. bufs >= (IF pend.buf THEN 1 ELSE 0) + (IF pc = "alive" THEN 1 ELSE 0)
    BY <1>1 DEF Looping, Held
  <2>2. pend.sock # NoSock <=> pend.buf
    BY <1>1 DEF PendOK
  <2> QED
    BY <2>1, <2>2 DEF PendingBufferAllocated
<1>4. SlotsHaveSockets
  BY <1>1, TablesFields DEF SlotsHaveSockets, SlotsOK, PendOK, IInv, LoopOK, Registered
<1> QED
  BY <1>2, <1>3, <1>4

LEMMA InitOK == Init => IInv
<1> SUFFICES ASSUME Init PROVE IInv
  OBVIOUS
<1> USE DEF Init, SoAd_Init, DoIP_Init
<1>1. Looping = 0
  BY DEF Looping
<1>2. sock \in [Sockets -> SocketRecords]
  BY DEF SocketRecords, SocketStates
<1>3. conn \in [Slots -> ConnRecords] /\ SlotsOK(conn)
  BY DEF ConnRecords, SlotsOK
<1>4. PendOK(pend) /\ Held(pend) = 0
  BY DEF PendOK, Held, NoPending, PendRecords
<1>5. fds \in [Fds -> FdKinds] /\ activated \in [Sockets -> SUBSET Testers]
  BY DEF FdKinds
<1>6. TablesOK(Tables, 0)
  <2>1. bufs \in Nat /\ bufs <= MaxBufs /\ bufs >= 0 + Held(pend)
    BY <1>4, Ranges
  <2> QED
    BY ONLY <1>2, <1>3, <1>4, <1>5, <2>1, TablesFields DEF TablesOK
<1>7. RestOK
  BY Ranges DEF RestOK, NoReq, DcmIdle
<1> QED
  BY <1>1, <1>6, <1>7 DEF IInv, LoopOK

-----------------------------------------------------------------------------
(* Every action preserves the invariant.                                    *)

\* A step of the scan: the tables stay consistent and the rest typed.
LEMMA ScanStored ==
    ASSUME IInv, pc = "scan", idx \in Sockets, NEW st, TablesOK(st, 0), Become(st),
           NextSocket(idx), UNCHANGED <<pc, req>>,
           tmap' \in [Targets -> Slots \cup {Garbage}],
           dcm' \in [state : {"idle", "processing", "responding", "lost"},
                     sock : Sockets, sa : Addresses \cup {NoSa}, entitled : BOOLEAN]
    PROVE  IInv'
<1>1. TablesOK(Tables, Looping)'
  BY Stored DEF Looping
<1>2. idx' \in 0 .. NumSockets
  BY Ranges DEF NextSocket, Sockets
<1>3. RestOK'
  BY <1>2 DEF IInv, RestOK
<1> QED
  BY <1>1, <1>3 DEF IInv, LoopOK

\* The tables as a step of the scan or of the main function finds them.
LEMMA Found == IInv /\ pc # "alive" => TablesOK(Tables, 0)
  BY DEF IInv, Looping

LEMMA ScanKeeps ==
    ASSUME IInv, pc = "scan", idx \in Sockets, NEW st, TablesOK(st, 0), Become(st),
           NextSocket(idx), KeepsRest
    PROVE  IInv'
  BY ScanStored DEF KeepsRest, IInv, RestOK

LEMMA RefusedOK ==
    ASSUME IInv, pc = "scan", idx \in Sockets, ActivationRefused(idx)
    PROVE  IInv'
<1>1. TablesOK(Tables, 0)
  BY Found
<1>2. ASSUME NEW sa, NEW code \in {0, 6}
      PROVE  TablesOK(Close(Respond(Tables, idx, sa, code), idx), 0)
  <2>1. TablesOK(Respond(Tables, idx, sa, code), 0)
    BY <1>1, RespondFields
  <2> QED
    BY <2>1, CloseFields
<1>3. TablesOK(Close(Tables, idx), 0)
  BY <1>1, CloseFields
<1>4. CASE Become(Tables)
  BY <1>1, <1>4, ScanKeeps DEF ActivationRefused
<1>5. CASE Become(Close(Tables, idx))
  BY <1>3, <1>5, ScanKeeps DEF ActivationRefused
<1>6. ASSUME NEW sa \in Strangers, Become(Close(Respond(Tables, idx, sa, 0), idx))
      PROVE  IInv'
  BY <1>2, <1>6, ScanKeeps DEF ActivationRefused
<1>7. ASSUME NEW sa \in Testers, Become(Close(Respond(Tables, idx, sa, 6), idx))
      PROVE  IInv'
  BY <1>2, <1>7, ScanKeeps DEF ActivationRefused
<1> QED
  BY <1>4, <1>5, <1>6, <1>7 DEF ActivationRefused

LEMMA AssignedOK ==
    ASSUME IInv, pc = "scan", idx \in Sockets, NEW sa \in Testers, NEW type \in Nat,
           ActivationAssigned(idx, sa, type), NextSocket(idx), KeepsRest
    PROVE  IInv'
<1>1. TablesOK(Tables, 0)
  BY Found
<1>2. ASSUME NEW c \in Slots, NEW code
      PROVE  TablesOK(Respond(RegisterSocket(Tables, c, idx, type, sa), idx, sa, code), 0)
  <2>1. TablesOK(RegisterSocket(Tables, c, idx, type, sa), 0)
    BY <1>1, RegisterFields
  <2> QED
    BY <2>1, RespondFields
<1>3. TablesOK(Respond(Tables, idx, sa, PositiveCode(type)), 0)
  BY <1>1, RespondFields
<1>4. CASE Become(Respond(Tables, idx, sa, PositiveCode(type)))
  BY <1>3, <1>4, ScanKeeps
<1>5. ASSUME NEW c \in Slots,
             Become(Respond(RegisterSocket(Tables, c, idx, type, sa),
                            idx, sa, PositiveCode(type)))
      PROVE  IInv'
  BY <1>2, <1>5, ScanKeeps
<1> QED
  BY <1>4, <1>5, Ranges DEF ActivationAssigned

LEMMA FailedOK ==
    ASSUME IInv, pc = "scan", idx \in Sockets, NEW sa \in Testers,
           ActivationFailed(idx, sa), NextSocket(idx), KeepsRest
    PROVE  IInv'
<1>1. TablesOK(Respond(Tables, idx, sa, 2), 0)
  BY Found, RespondFields
<1>2. TablesOK(Close(Respond(Tables, idx, sa, 2), idx), 0)
  BY <1>1, CloseFields
<1> QED
  BY <1>2, ScanKeeps DEF ActivationFailed

\* The request takes a buffer with it into the loop; the loop over all slots
\* begins only when all are registered.
LEMMA PendsOK ==
    ASSUME IInv, pc = "scan", idx \in Sockets, bufs < MaxBufs,
           NEW sa \in Testers, NEW type \in Nat, ActivationPends(idx, sa, type)
    PROVE  IInv'
<1> DEFINE su == [Tables EXCEPT !.bufs = @ + 1]
<1>1. TablesOK(Tables, 0)
  BY Found
<1>2. /\ Whole(su) /\ su.sock = sock /\ su.fds = fds /\ su.conn = conn
      /\ su.pend = pend /\ su.bufs = bufs + 1 /\ su.activated = activated
  BY TablesFields DEF Whole
<1>3. /\ Become(su) /\ pc' = "alive" /\ idx' = 0 /\ UNCHANGED <<tmap, dcm>>
      /\ req' = [sock |-> idx, sa |-> sa, type |-> type, single |-> SlotsWith(sa) # {}]
      /\ SlotsWith(sa) # {} \/ RegisteredSlots = Slots
  BY DEF ActivationPends
<1> HIDE DEF su
<1>4. TablesOK(su, 1)
  <2>1. bufs \in Nat /\ bufs >= 0 + Held(pend) /\ Held(pend) \in {0, 1}
    BY <1>1, TablesFields DEF TablesOK, Held
  <2>2. su.bufs \in Nat /\ su.bufs <= MaxBufs /\ su.bufs >= 1 + Held(su.pend)
    BY <1>2, <2>1, Ranges
  <2> QED
    BY <1>1, <1>2, <2>2, TablesFields DEF TablesOK
<1>5. TablesOK(Tables, Looping)'
  BY <1>3, <1>4, Stored DEF Looping
<1>6. RestOK'
  <2>1. idx' \in 0 .. MaxConn
    BY <1>3, Ranges
  <2>2. req' \in [sock : Sockets, sa : Testers \cup {NoSa}, type : Nat, single : BOOLEAN]
    BY <1>3
  <2> QED
    BY <1>3, <2>1, <2>2 DEF IInv, RestOK
<1>7. LoopOK'
  <2>1. req'.sa = sa /\ req'.single = (SlotsWith(sa) # {}) /\ conn' = conn
    BY <1>2, <1>3 DEF Become
  <2>2. RegisteredSlots = Slots => \A c \in Slots : conn[c].sock # NoSock
    BY <1>1, TablesFields DEF RegisteredSlots, Registered, TablesOK, SlotsOK
  <2> QED
    BY <1>3, <2>1, <2>2, Ranges DEF LoopOK
<1> QED
  BY <1>5, <1>6, <1>7 DEF IInv

LEMMA TypesAreNats == \A type \in Types : type \in Nat
<1>1. /\ \A i \in Activations : ActivationNumber[i] \in Nat
      /\ \A type \in OtherTypes : type \in Nat
  <2>1. ActivationNumber \in [Activations -> Nat]
    BY DoIPAssumption DEF Activations
  <2>2. OtherTypes \subseteq Nat
    BY DoIPAssumption
  <2> QED
    BY ONLY <2>1, <2>2
<1> QED
  BY ONLY <1>1 DEF Types

LEMMA RoutingActivationOK ==
    ASSUME IInv, pc = "scan", idx \in Sockets, RoutingActivation(idx)
    PROVE  IInv'
<1>1. \A type \in Types : type \in Nat
  BY TypesAreNats
<1>2. CASE ActivationRefused(idx)
  BY <1>2, RefusedOK
<1>3. ASSUME bufs < MaxBufs, NEW sa \in Testers, NEW type \in Types \ OtherTypes,
             \/ /\ ActivationAssigned(idx, sa, type) \/ ActivationFailed(idx, sa)
                /\ NextSocket(idx) /\ KeepsRest
             \/ ActivationPends(idx, sa, type)
      PROVE  IInv'
  <2>1. type \in Nat
    BY <1>1
  <2>2. CASE ActivationAssigned(idx, sa, type) /\ NextSocket(idx) /\ KeepsRest
    BY <2>1, <2>2, AssignedOK
  <2>3. CASE ActivationFailed(idx, sa) /\ NextSocket(idx) /\ KeepsRest
    BY <2>3, FailedOK
  <2>4. CASE ActivationPends(idx, sa, type)
    BY <1>3, <2>1, <2>4, PendsOK
  <2> QED
    BY <1>3, <2>2, <2>3, <2>4
<1> QED
  BY <1>2, <1>3 DEF RoutingActivation

\* The buffer of a pending activation that is denied is freed with it.
LEMMA ResponseOK ==
    ASSUME IInv, pc = "scan", idx \in Sockets, AliveCheckResponse(idx)
    PROVE  IInv'
<1>0. 1 \notin {16, 17}
  OBVIOUS
<1> PICK sa \in Addresses :
        LET answered == [Tables EXCEPT !.conn =
                [c \in Slots |-> IF conn[c].sock = idx /\ conn[c].sa = sa
                                 THEN [conn[c] EXCEPT !.general = 0, !.awaiting = FALSE]
                                 ELSE conn[c]]]
            seen == See(answered, <<"aliveResponse", idx, sa>>)
            p == pend
            denied == Close(Respond(seen, p.sock, p.sa, 1), p.sock)
        IN  /\ IF /\ \A c \in Slots : ~answered.conn[c].awaiting
                  /\ IsPending(Tables)
               THEN Become([denied EXCEPT !.pend = NoPending, !.bufs = @ - 1])
               ELSE Become(seen)
            /\ NextSocket(idx) /\ KeepsRest
  BY DEF AliveCheckResponse
<1> DEFINE cs == [c \in Slots |-> IF conn[c].sock = idx /\ conn[c].sa = sa
                                  THEN [conn[c] EXCEPT !.general = 0, !.awaiting = FALSE]
                                  ELSE conn[c]]
           answered == [Tables EXCEPT !.conn = cs]
           seen == See(answered, <<"aliveResponse", idx, sa>>)
           res == Respond(seen, pend.sock, pend.sa, 1)
           denied == Close(res, pend.sock)
           su == [denied EXCEPT !.pend = NoPending, !.bufs = @ - 1]
<1>1. TablesOK(Tables, 0)
  BY Found
<1>2. Become(seen) \/ (IsPending(Tables) /\ Become(su))
  OBVIOUS
<1>3. NextSocket(idx) /\ KeepsRest
  OBVIOUS
<1>4. cs \in [Slots -> ConnRecords] /\ SlotsOK(cs)
  <2>1. \A c \in Slots : /\ conn[c] \in ConnRecords
                         /\ conn[c].sock = NoSock <=> conn[c].sa = NoSa
                         /\ conn[c].state = "REGISTERED" => conn[c].sock # NoSock
    BY <1>1, TablesFields DEF TablesOK, SlotsOK
  <2>2. \A c \in Slots : /\ cs[c] \in ConnRecords /\ cs[c].sock = conn[c].sock
                         /\ cs[c].sa = conn[c].sa /\ cs[c].state = conn[c].state
    BY <2>1 DEF ConnRecords
  <2> HIDE DEF cs
  <2>3. SlotsOK(cs)
    BY ONLY <2>1, <2>2 DEF SlotsOK
  <2>4. cs \in [Slots -> ConnRecords]
    BY <2>2 DEF cs
  <2> QED
    BY <2>3, <2>4
<1> HIDE DEF cs
<1>5. /\ Whole(seen) /\ seen.sock = sock /\ seen.fds = fds /\ seen.conn = cs
      /\ seen.pend = pend /\ seen.bufs = bufs /\ seen.activated = activated
  BY TablesFields DEF Whole, See
<1> HIDE DEF seen, res
<1>6. TablesOK(seen, 0)
  BY <1>1, <1>4, <1>5, TablesFields DEF TablesOK
<1>7. CASE Become(seen)
  BY <1>3, <1>6, <1>7, ScanKeeps
<1>8. CASE IsPending(Tables) /\ Become(su)
  <2>1. pend.sock \in Sockets /\ pend.buf
    BY <1>1, <1>8, TablesFields DEF IsPending, TablesOK, PendOK, PendRecords
  <2>2. TablesOK(res, 0) /\ res.pend = pend /\ res.bufs = bufs
    BY ONLY <1>5, <1>6, <1>0, <2>1, RespondFields DEF res
  <2>3. TablesOK(denied, 0) /\ denied.pend = pend /\ denied.bufs = bufs
    BY <2>1, <2>2, CloseFields
  <2> HIDE DEF denied
  <2>4. /\ Whole(su) /\ su.sock = denied.sock /\ su.fds = denied.fds
        /\ su.conn = denied.conn /\ su.pend = NoPending
        /\ su.bufs = denied.bufs - 1 /\ su.activated = denied.activated
    BY <2>3 DEF TablesOK, Whole
  <2> HIDE DEF su
  <2>5. PendOK(NoPending) /\ Held(NoPending) = 0 /\ Held(denied.pend) = 1
    BY <2>1, <2>3, Ranges DEF PendOK, NoPending, PendRecords, Held
  <2>6. /\ denied.bufs \in Nat /\ denied.bufs <= MaxBufs
        /\ denied.bufs >= 0 + Held(denied.pend)
    BY <2>3 DEF TablesOK
  <2>7. su.bufs \in Nat /\ su.bufs <= MaxBufs /\ su.bufs >= 0 + Held(su.pend)
    BY ONLY <2>4, <2>5, <2>6, Ranges
  <2>8. TablesOK(su, 0)
    BY <2>3, <2>4, <2>5, <2>7 DEF TablesOK
  <2> QED
    BY <1>3, <1>8, <2>8, ScanKeeps
<1> QED
  BY <1>2, <1>7, <1>8

LEMMA SeenOK ==
    ASSUME NEW k, TablesOK(Tables, k), NEW e
    PROVE  TablesOK(See(Tables, e), k)
  BY DEF TablesOK, Whole, See

LEMMA DiagnosticOK ==
    ASSUME IInv, pc = "scan", idx \in Sockets, DiagnosticMessage(idx)
    PROVE  IInv'
<1>1. TablesOK(Tables, 0) /\ TablesOK(Close(Tables, idx), 0)
  BY Found, CloseFields
<1>2. \A e : TablesOK(See(Tables, e), 0)
  BY <1>1, SeenOK
<1>3. NextSocket(idx) /\ UNCHANGED <<pc, req>>
  BY DEF DiagnosticMessage
<1>4. CASE /\ Become(Tables) \/ Become(Close(Tables, idx))
           /\ UNCHANGED <<tmap, dcm>>
  BY <1>1, <1>3, <1>4, ScanStored DEF IInv, RestOK
<1>5. ASSUME NEW sa \in Addresses, NEW ci \in ConnectionIndices(idx, sa),
             NEW t \in Targets, ci # Unregistered,
             tmap' = [tmap EXCEPT ![t] = ci],
             dcm' = [state |-> "processing", sock |-> idx, sa |-> sa,
                     entitled |-> sa \in activated[idx]],
             Become(See(Tables, <<"diagnostic", idx, sa>>))
      PROVE  IInv'
  <2>1. ci \in Slots \cup {Garbage}
    BY <1>5 DEF ConnectionIndices
  <2>2. tmap' \in [Targets -> Slots \cup {Garbage}]
    BY <1>5, <2>1 DEF IInv, RestOK
  <2>3. dcm' \in [state : {"idle", "processing", "responding", "lost"},
                  sock : Sockets, sa : Addresses \cup {NoSa}, entitled : BOOLEAN]
    BY <1>5
  <2> QED
    BY <1>2, <1>3, <1>5, <2>2, <2>3, ScanStored
<1> QED
  BY <1>4, <1>5 DEF DiagnosticMessage

LEMMA TcpRxOK ==
    ASSUME IInv, pc = "scan", idx \in Sockets, HandleTcpRx(idx)
    PROVE  IInv'
<1>1. TablesOK(Tables, 0) /\ TablesOK(Close(Tables, idx), 0)
  BY Found, CloseFields
<1>2. CASE TcpNothing(idx) \/ TcpBadHeader(idx)
  BY <1>1, <1>2, ScanKeeps DEF TcpNothing, TcpBadHeader
<1>3. CASE RoutingActivation(idx)
  BY <1>3, RoutingActivationOK
<1>4. CASE AliveCheckResponse(idx)
  BY <1>4, ResponseOK
<1>5. CASE DiagnosticMessage(idx)
  BY <1>5, DiagnosticOK
<1> QED
  BY <1>2, <1>3, <1>4, <1>5 DEF HandleTcpRx

LEMMA UdpRxOK ==
    ASSUME IInv, pc = "scan", idx \in Sockets, HandleUdpRx(idx)
    PROVE  IInv'
<1>1. TablesOK(Tables, 0) /\ TablesOK(Close(Tables, idx), 0)
  BY Found, CloseFields
<1>2. TablesOK(Close(Close(Tables, idx), idx), 0)
  BY <1>1, CloseFields
<1>3. NextSocket(idx) /\ KeepsRest
  BY DEF HandleUdpRx
<1>4. CASE Become(Tables) \/ Become(Close(Tables, idx))
  BY <1>1, <1>3, <1>4, ScanKeeps
<1>5. CASE Become(Close(Close(Tables, idx), idx))
  BY <1>2, <1>3, <1>5, ScanKeeps
<1> QED
  BY <1>4, <1>5 DEF HandleUdpRx

LEMMA SocketStepTyped ==
    ASSUME sock \in [Sockets -> SocketRecords], fds \in [Fds -> FdKinds],
           NEW s \in Sockets, SocketStep(s)
    PROVE  sock' \in [Sockets -> SocketRecords] /\ fds' \in [Fds -> FdKinds]
<1>1. CASE CreateFails(s) \/ AcceptNone(s) \/ SkipDuplicate(s)
  BY <1>1 DEF CreateFails, AcceptNone, SkipDuplicate
<1>2. CASE CreateSucceeds(s)
  BY <1>2 DEF CreateSucceeds, SocketRecords, SocketStates, FdKinds
<1>3. CASE AcceptClient(s)
  <2>1. PICK fd \in Fds :
          /\ fds' = [fds EXCEPT ![fd] = "conn"]
          /\ LET ready == [sock EXCEPT ![s].conn = fd, ![s].state = "TCP_READY"]
             IN  \/ FreeDuplicates(s) = {} /\ sock' = ready
                 \/ \E d \in FreeDuplicates(s) :
                      /\ \A e \in FreeDuplicates(s) : d <= e
                      /\ sock' = [ready EXCEPT ![d].handle = sock[s].handle,
                                               ![d].state  = "TCP_LISTENING"]
    BY <1>3 DEF AcceptClient
  <2> DEFINE ready == [sock EXCEPT ![s].conn = fd, ![s].state = "TCP_READY"]
  <2>2. ready \in [Sockets -> SocketRecords]
    BY DEF SocketRecords, SocketStates
  <2>3. sock[s].handle \in Fds \cup {NoFd} /\ FreeDuplicates(s) \subseteq Sockets
    BY DEF SocketRecords, FreeDuplicates
  <2>4. \/ sock' = ready
        \/ \E d \in FreeDuplicates(s) :
             sock' = [ready EXCEPT ![d].handle = sock[s].handle,
                                   ![d].state  = "TCP_LISTENING"]
    BY <2>1
  <2> HIDE DEF ready
  <2>5. ASSUME NEW d \in FreeDuplicates(s),
               sock' = [ready EXCEPT ![d].handle = sock[s].handle,
                                     ![d].state  = "TCP_LISTENING"]
        PROVE  sock' \in [Sockets -> SocketRecords]
    <3> DEFINE rec == [ready[d] EXCEPT !.handle = sock[s].handle,
                                       !.state = "TCP_LISTENING"]
    <3>1. d \in Sockets /\ ready[d] \in SocketRecords
      BY <2>2, <2>3
    <3>2. rec \in SocketRecords
      BY <2>3, <3>1 DEF SocketRecords, SocketStates
    <3>3. sock' = [ready EXCEPT ![d] = rec]
      BY <2>5, <2>2, <3>1
    <3> HIDE DEF rec
    <3> QED
      BY ONLY <2>2, <3>1, <3>2, <3>3
  <2>6. sock' \in [Sockets -> SocketRecords]
    BY <2>2, <2>4, <2>5
  <2> QED
    BY <2>1, <2>6 DEF FdKinds
<1> QED
  BY <1>1, <1>2, <1>3 DEF SocketStep

LEMMA ScanSocketOK ==
    ASSUME IInv, ScanSocket
    PROVE  IInv'
<1>1. pc = "scan" /\ idx \in Sockets
  BY Ranges DEF ScanSocket, IInv, RestOK, Sockets
<1>2. CASE /\ SocketStep(idx)
           /\ obs' = {}
           /\ UNCHANGED <<conn, pend, bufs, activated>>
           /\ NextSocket(idx) /\ KeepsRest
  <2> DEFINE su == [Tables EXCEPT !.sock = sock', !.fds = fds']
  <2>1. TablesOK(Tables, 0)
    BY <1>1, Found
  <2>2. sock' \in [Sockets -> SocketRecords] /\ fds' \in [Fds -> FdKinds]
    BY <1>1, <1>2, <2>1, TablesFields, SocketStepTyped DEF TablesOK
  <2>3. /\ Whole(su) /\ su.sock = sock' /\ su.fds = fds' /\ su.conn = conn
        /\ su.pend = pend /\ su.bufs = bufs /\ su.activated = activated /\ su.obs = {}
    BY TablesFields DEF Whole
  <2> HIDE DEF su
  <2>4. TablesOK(su, 0) /\ Become(su)
    BY <1>2, <2>1, <2>2, <2>3, TablesFields DEF TablesOK, Become
  <2> QED
    BY <1>1, <1>2, <2>4, ScanKeeps
<1>3. CASE HandleTcpRx(idx)
  BY <1>1, <1>3, TcpRxOK
<1>4. CASE HandleUdpRx(idx)
  BY <1>1, <1>4, UdpRxOK
<1> QED
  BY <1>2, <1>3, <1>4 DEF ScanSocket

-----------------------------------------------------------------------------
(* The loop of the alive checks, the main function, and the other tasks.    *)

\* Tables that differ only in the timers and flags of slots.
SameSlots(st, su) ==
    /\ Whole(su) /\ su.sock = st.sock /\ su.fds = st.fds /\ su.pend = st.pend
    /\ su.bufs = st.bufs /\ su.activated = st.activated
    /\ su.conn \in [Slots -> ConnRecords]
    /\ \A d \in Slots : /\ su.conn[d].sock = st.conn[d].sock
                        /\ su.conn[d].sa = st.conn[d].sa
                        /\ su.conn[d].state = st.conn[d].state

LEMMA SameSlotsOK ==
    ASSUME NEW st, NEW k, TablesOK(st, k), NEW su, SameSlots(st, su)
    PROVE  TablesOK(su, k) /\ KeepsSockets(st, su)
<1>1. SlotsOK(su.conn)
  BY DEF TablesOK, SlotsOK, SameSlots
<1> QED
  BY <1>1 DEF TablesOK, SameSlots, KeepsSockets

\* What an alive check request writes to slot c.
LEMMA CheckedSame ==
    ASSUME NEW k, TablesOK(Tables, k), NEW c \in Slots
    PROVE  SameSlots(Tables, [Tables EXCEPT !.conn[c] =
                               [@ EXCEPT !.awaiting = TRUE, !.general = 0, !.alive = 0]])
<1> DEFINE checked == [Tables EXCEPT !.conn[c] =
                          [@ EXCEPT !.awaiting = TRUE, !.general = 0, !.alive = 0]]
           slot == [conn[c] EXCEPT !.awaiting = TRUE, !.general = 0, !.alive = 0]
<1>1. /\ Whole(checked) /\ checked.sock = sock /\ checked.fds = fds
      /\ checked.pend = pend /\ checked.bufs = bufs
      /\ checked.activated = activated /\ checked.conn = [conn EXCEPT ![c] = slot]
  BY TablesFields DEF Whole
<1>2. conn \in [Slots -> ConnRecords] /\ conn[c] \in ConnRecords
  BY TablesFields DEF TablesOK
<1>3. /\ slot \in ConnRecords /\ slot.sock = conn[c].sock
      /\ slot.sa = conn[c].sa /\ slot.state = conn[c].state
  BY <1>2 DEF ConnRecords
<1> HIDE DEF checked, slot
<1>4. SameSlots(Tables, checked)
  BY ONLY c \in Slots, <1>1, <1>2, <1>3, TablesFields DEF SameSlots
<1> QED
  BY <1>4 DEF checked

\* The slots the loop meets have had a socket: those with the tester's address,
\* or all of them.
LEMMA AliveCheckStepOK ==
    ASSUME IInv, AliveCheckStep
    PROVE  IInv'
<1> DEFINE checked == [Tables EXCEPT !.conn[idx] =
                          [@ EXCEPT !.awaiting = TRUE, !.general = 0, !.alive = 0]]
<1>1. /\ pc = "alive" /\ idx < MaxConn /\ idx' = idx + 1 /\ KeepsRest
      /\ \/ Become(Tables)
         \/ /\ ~(req.single /\ (conn[idx].sa # req.sa \/ conn[idx].awaiting))
            /\ Become(checked) \/ Become(AliveCheckFails(checked, idx))
  BY DEF AliveCheckStep
<1>2. TablesOK(Tables, 1) /\ Looping = 1
  BY <1>1 DEF IInv, Looping
<1>3. idx \in Slots /\ idx' \in 0 .. MaxConn
  BY <1>1, Ranges DEF IInv, RestOK, Slots
<1>4. SameSlots(Tables, checked)
  BY <1>2, <1>3, CheckedSame
<1> HIDE DEF checked
<1>5. /\ TablesOK(checked, 1) /\ KeepsSockets(Tables, checked)
      /\ \A d \in Slots : checked.conn[d].sock = conn[d].sock
  BY <1>2, <1>4, SameSlotsOK, TablesFields DEF SameSlots
<1>6. ~(req.single /\ (conn[idx].sa # req.sa \/ conn[idx].awaiting))
        => conn[idx].sock # NoSock
  BY <1>1, <1>2, <1>3, TablesFields DEF IInv, LoopOK, TablesOK, SlotsOK
<1>7. ASSUME NEW st, TablesOK(st, 1), KeepsSockets(Tables, st), Become(st)
      PROVE  IInv'
  <2>1. TablesOK(Tables, Looping)'
    BY <1>1, <1>7, Stored DEF KeepsRest, Looping
  <2>2. RestOK'
    BY <1>1, <1>3 DEF KeepsRest, IInv, RestOK
  <2>3. LoopOK'
    BY <1>1, <1>7, TablesFields DEF KeepsRest, IInv, LoopOK, KeepsSockets, Become
  <2> QED
    BY <2>1, <2>2, <2>3 DEF IInv
<1>8. CASE Become(Tables)
  BY <1>2, <1>7, <1>8 DEF KeepsSockets
<1>9. CASE Become(checked)
  BY <1>5, <1>7, <1>9
<1>10. CASE /\ ~(req.single /\ (conn[idx].sa # req.sa \/ conn[idx].awaiting))
            /\ Become(AliveCheckFails(checked, idx))
  <2>1. checked.conn[idx].sock # NoSock
    BY <1>3, <1>5, <1>6, <1>10
  <2>2. /\ TablesOK(AliveCheckFails(checked, idx), 1)
        /\ KeepsSockets(checked, AliveCheckFails(checked, idx))
    BY <1>3, <1>5, <2>1, AliveCheckFailsFields
  <2>3. KeepsSockets(Tables, AliveCheckFails(checked, idx))
    BY <1>5, <2>2 DEF KeepsSockets
  <2> QED
    BY <1>7, <1>10, <2>2, <2>3
<1> QED
  BY <1>1, <1>8, <1>9, <1>10

\* After the loop the buffer of the request becomes that of the pending
\* activation; if there is one already, it is nobody's.
LEMMA AliveCheckDoneOK ==
    ASSUME IInv, AliveCheckDone
    PROVE  IInv'
<1> DEFINE su == [Tables EXCEPT !.pend = [sock |-> req.sock, sa |-> req.sa,
                                          type |-> req.type, buf |-> TRUE]]
<1>1. /\ pc = "alive" /\ pc' = "scan" /\ idx' = req.sock + 1 /\ req' = NoReq
      /\ UNCHANGED <<tmap, dcm>>
      /\ \/ Become(Tables)
         \/ ~pend.buf /\ Become(su)
  BY DEF AliveCheckDone
<1>2. TablesOK(Tables, 1)
  BY <1>1 DEF IInv, Looping
<1>3. /\ req.sock \in Sockets /\ req.sa \in Testers /\ req.type \in Nat
      /\ req.sock # NoSock /\ req.sa # NoSa
  BY <1>1, Ranges DEF IInv, RestOK, LoopOK
<1>4. RestOK' /\ LoopOK' /\ Looping' = 0
  <2>1. idx' \in 0 .. NumSockets
    BY <1>1, <1>3, Ranges DEF Sockets
  <2> QED
    BY <1>1, <2>1, Ranges DEF IInv, RestOK, LoopOK, NoReq, Looping
<1>5. CASE Become(Tables)
  <2>1. \A st : TablesOK(st, 1) => TablesOK(st, 0)
    BY DEF TablesOK, Held
  <2>2. TablesOK(Tables, 0)
    BY <1>2, <2>1
  <2>3. TablesOK(Tables, Looping)'
    BY <1>4, <1>5, <2>2, Stored
  <2> QED
    BY <1>4, <2>3 DEF IInv
<1>6. CASE ~pend.buf /\ Become(su)
  <2>1. /\ Whole(su) /\ su.sock = sock /\ su.fds = fds /\ su.conn = conn
        /\ su.bufs = bufs /\ su.activated = activated
        /\ su.pend = [sock |-> req.sock, sa |-> req.sa, type |-> req.type, buf |-> TRUE]
    BY TablesFields DEF Whole
  <2>2. PendOK(su.pend) /\ Held(su.pend) = 1 /\ Held(pend) = 0
    BY <1>3, <1>6, <2>1 DEF PendOK, PendRecords, Held
  <2>3. bufs \in Nat /\ bufs <= MaxBufs /\ bufs >= 1 + Held(pend)
    BY <1>2, TablesFields DEF TablesOK
  <2>4. su.bufs \in Nat /\ su.bufs <= MaxBufs /\ su.bufs >= 0 + Held(su.pend)
    BY <2>1, <2>2, <2>3
  <2> HIDE DEF su
  <2>5. TablesOK(su, 0)
    BY <1>2, <2>1, <2>2, <2>4, TablesFields DEF TablesOK
  <2>6. TablesOK(Tables, Looping)'
    BY <1>4, <1>6, <2>5, Stored
  <2> QED
    BY <1>4, <2>6 DEF IInv
<1> QED
  BY <1>1, <1>5, <1>6

\* A slot with a socket has one after either half of the iteration, so that the
\* second half, too, finds a socket it can close.
LEMMA TimersOK ==
    ASSUME NEW st, TablesOK(st, 0), NEW c \in Slots, st.conn[c].sock # NoSock
    PROVE  /\ TablesOK(AliveTimer(st, c), 0) /\ TablesOK(GeneralTimer(st, c), 0)
           /\ AliveTimer(st, c).conn[c].sock # NoSock
<1> DEFINE alive == [st.conn[c] EXCEPT !.alive = @ + 1]
           general == [st.conn[c] EXCEPT !.general = @ + 1]
           sta == [st EXCEPT !.conn[c].alive = @ + 1]
           stg == [st EXCEPT !.conn[c].general = @ + 1]
<1>1. st.conn \in [Slots -> ConnRecords] /\ st.conn[c] \in ConnRecords
  BY DEF TablesOK
<1>2. /\ alive \in ConnRecords /\ alive.sock = st.conn[c].sock
      /\ alive.sa = st.conn[c].sa /\ alive.state = st.conn[c].state
  BY <1>1 DEF ConnRecords
<1>3. /\ general \in ConnRecords /\ general.sock = st.conn[c].sock
      /\ general.sa = st.conn[c].sa /\ general.state = st.conn[c].state
  BY <1>1 DEF ConnRecords
<1>4. /\ Whole(sta) /\ sta.sock = st.sock /\ sta.fds = st.fds /\ sta.pend = st.pend
      /\ sta.bufs = st.bufs /\ sta.activated = st.activated
      /\ sta.conn = [st.conn EXCEPT ![c] = alive]
  BY DEF TablesOK, Whole
<1>5. /\ Whole(stg) /\ stg.sock = st.sock /\ stg.fds = st.fds /\ stg.pend = st.pend
      /\ stg.bufs = st.bufs /\ stg.activated = st.activated
      /\ stg.conn = [st.conn EXCEPT ![c] = general]
  BY DEF TablesOK, Whole
<1>6. /\ TablesOK(HandleTimeout(st, c), 0)
      /\ HandleTimeout(st, c).conn[c].sock # NoSock
  BY HandleTimeoutFields DEF KeepsSockets
<1>7. /\ AliveTimer(st, c) \in {st, HandleTimeout(st, c), sta}
      /\ GeneralTimer(st, c) \in {stg, HandleTimeout(st, c)}
  BY DEF AliveTimer, GeneralTimer
<1> HIDE DEF alive, general, sta, stg
<1>8. SameSlots(st, sta)
  BY <1>1, <1>2, <1>4 DEF SameSlots
<1>9. SameSlots(st, stg)
  BY <1>1, <1>3, <1>5 DEF SameSlots
<1>10. TablesOK(sta, 0) /\ TablesOK(stg, 0) /\ sta.conn[c].sock # NoSock
  BY <1>8, <1>9, SameSlotsOK DEF SameSlots
<1> QED
  BY <1>6, <1>7, <1>10

LEMMA MainFunctionStepOK ==
    ASSUME IInv, MainFunctionStep
    PROVE  IInv'
<1>1. /\ pc = "main" /\ idx < MaxConn /\ idx' = idx + 1 /\ KeepsRest
      /\ \/ Become(Tables)
         \/ /\ Registered(Tables, idx)
            /\ Become(GeneralTimer(AliveTimer(Tables, idx), idx))
  BY DEF MainFunctionStep
<1>2. TablesOK(Tables, 0) /\ idx \in Slots /\ idx' \in 0 .. MaxConn
  BY <1>1, Found, Ranges DEF IInv, RestOK, Slots
<1>3. Looping' = 0 /\ RestOK' /\ LoopOK'
  BY <1>1, <1>2 DEF KeepsRest, IInv, RestOK, LoopOK, Looping
<1>4. \A st : TablesOK(st, 0) /\ Become(st) => IInv'
  BY <1>3, Stored DEF IInv
<1>5. CASE /\ Registered(Tables, idx)
           /\ Become(GeneralTimer(AliveTimer(Tables, idx), idx))
  <2>1. Tables.conn[idx].sock # NoSock
    BY <1>2, <1>5 DEF Registered, TablesOK, SlotsOK
  <2>2. /\ TablesOK(AliveTimer(Tables, idx), 0)
        /\ AliveTimer(Tables, idx).conn[idx].sock # NoSock
    BY <1>2, <2>1, TimersOK
  <2>3. TablesOK(GeneralTimer(AliveTimer(Tables, idx), idx), 0)
    BY <1>2, <2>2, TimersOK
  <2> QED
    BY <1>4, <1>5, <2>3
<1> QED
  BY <1>1, <1>2, <1>4, <1>5

\* Steps that leave the tables alone, wherever the task is.
LEMMA TablesKept ==
    ASSUME IInv, NEW st, Become(st), RestOK', UNCHANGED <<pc, req>>,
           st = Tables \/ \E e : st = See(Tables, e)
    PROVE  IInv'
<1>0. TablesOK(Tables, Looping)
  BY DEF IInv
<1>1. TablesOK(st, Looping) /\ st.conn = conn
  <2>1. CASE st = Tables
    BY <1>0, <2>1, TablesFields
  <2>2. ASSUME NEW e, st = See(Tables, e)
        PROVE  TablesOK(st, Looping) /\ st.conn = conn
    <3>1. See(Tables, e).conn = conn
      BY TablesFields DEF See, Whole
    <3> QED
      BY <1>0, <2>2, <3>1, SeenOK
  <2> QED
    BY <2>1, <2>2
<1>2. TablesOK(Tables, Looping)'
  BY <1>1, Stored DEF Looping
<1>3. LoopOK'
  BY <1>1 DEF IInv, LoopOK, Become
<1> QED
  BY <1>2, <1>3 DEF IInv

\* ScanDone and MainFunctionDone: the task goes from one table to the other.
LEMMA TurnOK ==
    ASSUME IInv, pc # "alive", Become(Tables), pc' \in {"scan", "main"}, idx' = 0,
           UNCHANGED <<tmap, req, dcm>>
    PROVE  IInv'
<1>1. Looping' = 0
  BY DEF Looping
<1>2. TablesOK(Tables, Looping)'
  BY <1>1, Found, Stored
<1>3. RestOK'
  BY Ranges DEF IInv, RestOK
<1> QED
  BY <1>2, <1>3 DEF IInv, LoopOK

\* Where a request can be in Dcm.
DcmRecords == [state : {"idle", "processing", "responding", "lost"},
               sock : Sockets, sa : Addresses \cup {NoSa}, entitled : BOOLEAN]

LEMMA DcmTyped ==
    /\ DcmIdle \in DcmRecords
    /\ IInv => dcm \in DcmRecords
    /\ \A d \in DcmRecords : /\ [d EXCEPT !.state = "responding"] \in DcmRecords
                            /\ [d EXCEPT !.state = "lost"] \in DcmRecords
<1>1. DcmIdle \in DcmRecords
  BY Ranges DEF DcmIdle, DcmRecords
<1>2. IInv => dcm \in DcmRecords
  BY DEF IInv, RestOK, DcmRecords
<1>3. \A d \in DcmRecords : /\ [d EXCEPT !.state = "responding"] \in DcmRecords
                           /\ [d EXCEPT !.state = "lost"] \in DcmRecords
  BY DEF DcmRecords
<1> QED
  BY <1>1, <1>2, <1>3

LEMMA DcmFinishesOK == ASSUME IInv, DcmFinishes PROVE IInv'
<1>1. dcm' \in DcmRecords
  BY DcmTyped DEF DcmFinishes
<1>2. RestOK'
  BY <1>1 DEF DcmFinishes, IInv, RestOK, DcmRecords
<1> QED
  BY <1>2, TablesKept DEF DcmFinishes

LEMMA HandleTpTransmitOK == ASSUME IInv, DoIp_HandleTpTransmit PROVE IInv'
<1>1. dcm' \in DcmRecords
  BY DcmTyped DEF DoIp_HandleTpTransmit, DcmWaits
<1>2. RestOK'
  BY <1>1 DEF DoIp_HandleTpTransmit, IInv, RestOK, DcmRecords
<1>3. Become(Tables) \/ \E e : Become(See(Tables, e))
  BY DEF DoIp_HandleTpTransmit
<1>4. UNCHANGED <<pc, req>>
  BY DEF DoIp_HandleTpTransmit
<1> QED
  BY <1>2, <1>3, <1>4, TablesKept

LEMMA PeerBreaksOK == ASSUME IInv, PeerBreaks PROVE IInv'
<1> DEFINE su == [Tables EXCEPT !.fds = fds']
<1>1. TablesOK(Tables, Looping)
  BY DEF IInv
<1>2. /\ \E h \in Fds : fds' = [fds EXCEPT ![h] = "broken"]
      /\ obs' = {}
      /\ UNCHANGED <<sock, idx, conn, pend, bufs, tmap, pc, req, dcm, activated>>
  BY DEF PeerBreaks, Connected, Tables
<1>3. fds' \in [Fds -> FdKinds]
  BY <1>1, <1>2, TablesFields DEF TablesOK, FdKinds
<1>4. /\ Whole(su) /\ su.sock = sock /\ su.fds = fds' /\ su.conn = conn
      /\ su.pend = pend /\ su.bufs = bufs /\ su.activated = activated /\ su.obs = {}
  BY TablesFields DEF Whole
<1> HIDE DEF su
<1>5. TablesOK(su, Looping) /\ Become(su)
  BY <1>1, <1>2, <1>3, <1>4, TablesFields DEF TablesOK, Become
<1>6. TablesOK(Tables, Looping)'
  BY <1>2, <1>5, Stored DEF Looping
<1> QED
  BY <1>2, <1>6 DEF IInv, RestOK, LoopOK

-----------------------------------------------------------------------------
LEMMA NextOK == IInv /\ [Next]_vars => IInv'
<1> SUFFICES ASSUME IInv, [Next]_vars PROVE IInv'
  OBVIOUS
<1>1. CASE ScanSocket
  BY <1>1, ScanSocketOK
<1>2. CASE ScanDone
  BY <1>2, TurnOK DEF ScanDone
<1>3. CASE AliveCheckStep
  BY <1>3, AliveCheckStepOK
<1>4. CASE AliveCheckDone
  BY <1>4, AliveCheckDoneOK
<1>5. CASE MainFunctionStep
  BY <1>5, MainFunctionStepOK
<1>6. CASE MainFunctionDone
  BY <1>6, TurnOK DEF MainFunctionDone
<1>7. CASE DoIp_HandleTpTransmit
  BY <1>7, HandleTpTransmitOK
<1>8. CASE DcmFinishes
  BY <1>8, DcmFinishesOK
<1>9. CASE PeerBreaks
  BY <1>9, PeerBreaksOK
<1>10. CASE UNCHANGED vars
  BY <1>10 DEF vars, dvars, svars, IInv, Tables, Looping, RestOK, LoopOK, TablesOK, Whole
<1> QED
  BY <1>1, <1>2, <1>3, <1>4, <1>5, <1>6, <1>7, <1>8, <1>9, <1>10
  DEF Next, DoIPTask

\* The tables stay typed and consistent however the tasks interleave: every
\* handler of DoIP.c leaves them so for the next.
THEOREM DoIPInvariant == SafeSpec => []IInv
<1> QED
  BY InitOK, NextOK, PTL DEF SafeSpec

\* No handler uses a slot or a socket that does not exist, and no more buffers are
\* allocated than the heap has room for.
THEOREM DoIPTypeCorrect == SafeSpec => []TypeOK
<1>1. IInv => TypeOK
  BY InvariantImplies
<1> QED
  BY <1>1, DoIPInvariant, PTL

\* No buffer of a pending activation is freed twice, or sent after it was freed,
\* by handleTimeout, handleAliveCheckResp or createAndSendAliveCheck.
THEOREM NoDoubleFree == SafeSpec => []PendingBufferAllocated
<1>1. IInv => PendingBufferAllocated
  BY InvariantImplies
<1> QED
  BY <1>1, DoIPInvariant, PTL

\* No timeout and no alive check closes or sends on socket 0xff, with which
\* connectionStatus starts and which SocketAdminList does not have.
THEOREM NoSocketOutOfRange == SafeSpec => []SlotsHaveSockets
<1>1. IInv => SlotsHaveSockets
  BY InvariantImplies
<1> QED
  BY <1>1, DoIPInvariant, PTL
=============================================================================
