-------------------------------- MODULE DoIP --------------------------------
(***************************************************************************)
(* The diagnostics-over-IP server, LIB/DoIP/DoIP.c, composed with the      *)
(* socket adaptor it shares a task with (module SoAd), the testers at the  *)
(* other end of the sockets, and the diagnostic module (Dcm) and its       *)
(* transport task (CanTp), which calls back into DoIP_HandleTpTransmit.    *)
(*                                                                         *)
(* doip_loop_task runs SoAd_MainFunction (one scan of the sockets) and     *)
(* then DoIp_MainFunction (the timers of the connection table), for ever.  *)
(* One action is one iteration of one of those loops; pc and idx say where *)
(* the task is.  Between two iterations the CanTp task may run: nothing    *)
(* locks the tables the two tasks share.                                   *)
(*                                                                         *)
(* A handler calls SoAd_SocketClose and registerSocket in sequence, so the *)
(* operations are functions of a record st of the shared tables, and a     *)
(* handler is a composition of them that is stored by Become.              *)
(***************************************************************************)
EXTENDS SoAd

CONSTANTS
    MaxConn,            \* DOIP_MAX_TESTER_CONNECTIONS
    Testers,            \* DoIpTesters: the known source addresses
    Strangers,          \* other source addresses that occur on the wire
    NumActivations,     \* DOIP_ROUTINGACTIVATION_COUNT
    ActivationNumber,   \* DoIpRoutingActivations[i].activationNumber
    OtherTypes,         \* activation types on the wire that are not configured
    AuthTypes,          \* types with an authentication callback
    ConfirmTypes,       \* types with a confirmation callback
    Targets,            \* DoIpTargetAddresses
    Relation,           \* DoIpRoutingActivationToTargetAddressMap
    RspTarget,          \* the target whose rxPdu is the PDU CanTp transmits
    RspSocket,          \* PduRoute[that PDU].DestinationSocketRef
    AliveTimeout,       \* DOIP_ALIVECHECK_RESPONSE_TIMEOUT in task periods
    GeneralTimeout,     \* DOIP_GENERAL_INACTIVITY_TIMEOUT in task periods
    MaxBufs,            \* activation response buffers the heap has room for
    Fragile             \* the sockets whose peer may disappear

Slots == 0 .. MaxConn - 1
Activations == 0 .. NumActivations - 1
NoSock == 255         \* 0xff
NoSa == 0             \* connectionStatus is zero before its first use
Addresses == Testers \cup Strangers
Types == {ActivationNumber[i] : i \in Activations} \cup OtherTypes

ASSUME DoIPAssumption ==
    /\ NumSockets <= NoSock
    /\ MaxConn \in Nat \ {0} /\ MaxConn <= 65533
    /\ Testers \subseteq Nat \ {NoSa} /\ Strangers \subseteq Nat \ {NoSa}
    /\ Testers \cap Strangers = {}
    /\ NumActivations \in 1 .. MaxConn
    /\ ActivationNumber \in [0 .. NumActivations - 1 -> Nat]
    /\ OtherTypes \subseteq Nat
    /\ \A i \in 0 .. NumActivations - 1 : ActivationNumber[i] \notin OtherTypes
    /\ Relation \subseteq (0 .. NumActivations - 1) \X Targets
    /\ RspTarget \in Targets /\ RspSocket \in 0 .. NumSockets - 1
    /\ AliveTimeout \in Nat /\ GeneralTimeout \in Nat
    /\ MaxBufs \in Nat
    /\ Fragile \subseteq 0 .. NumSockets - 1

VARIABLES
    conn,        \* connectionStatus
    pend,        \* the four pendingRoutingActivation... variables
    bufs,        \* activation response buffers allocated and not freed
    tmap,        \* targetConnectionMap
    pc,          \* where doip_loop_task is: "scan", "alive" or "main"
    req,         \* the routing activation request an alive check loop serves
    dcm,         \* gDiagState as DoIP sees it, the request being worked on, and
                 \* (history) whether its address was activated on its socket
    activated,   \* history: the addresses activated over the connection a socket has
    obs          \* what the last step did that a tester, Dcm or a comment can see

dvars == <<conn, pend, bufs, tmap, pc, req, dcm, activated, obs>>
vars == <<svars, dvars>>

-----------------------------------------------------------------------------
(* Operations on the tables.                                               *)

Tables == [sock |-> sock, fds |-> fds, conn |-> conn, pend |-> pend,
           bufs |-> bufs, activated |-> activated, obs |-> {}]

Become(st) ==
    /\ sock' = st.sock /\ fds' = st.fds /\ conn' = st.conn /\ pend' = st.pend
    /\ bufs' = st.bufs /\ activated' = st.activated /\ obs' = st.obs

\* Note an observable event in st.
See(st, e) == [st EXCEPT !.obs = @ \cup {e}]

Registered(st, c) == st.conn[c].state = "REGISTERED"

\* The address and type of a pending activation that is over are never read.
NoPending == [sock |-> NoSock, sa |-> NoSa, type |-> 0, buf |-> FALSE]

IsPending(st) == st.pend.sock # NoSock /\ st.pend.buf

\* SoAd_SocketClose with its effect on history: a connection that is closed takes
\* its activations with it.  "unlisten" is a close that takes down a listener.
Close(st, s) ==
    LET n == SoAd_SocketClose([sock |-> st.sock, fds |-> st.fds], s)
        e == IF st.sock[s].state = "TCP_LISTENING" THEN {<<"unlisten", s>>} ELSE {}
    IN  [st EXCEPT !.sock = n.sock, !.fds = n.fds,
                   !.activated[s] = {}, !.obs = @ \cup e]

\* Mutant of RegisterSocket: the socket is not stored.
RegisterForgetsSocket(st, c, s, type, sa) ==
    [st EXCEPT !.conn[c] = [@ EXCEPT !.type = type, !.sa = sa, !.general = 0,
                                     !.awaiting = FALSE, !.state = "REGISTERED"]]

\* registerSocket: aliveCheckTimer is left as it is.
RegisterSocket(st, c, s, type, sa) ==
    [st EXCEPT !.conn[c] = [@ EXCEPT !.sock = s, !.type = type, !.sa = sa,
                                     !.general = 0, !.awaiting = FALSE,
                                     !.state = "REGISTERED"]]

\* A routing activation response with code on socket s; the codes of a success
\* mean that sa may now be used over the connection of s.
Respond(st, s, sa, code) ==
    [See(st, <<"response", s, sa, code>>) EXCEPT
        !.activated[s] = IF code \in {16, 17} /\ st.sock[s].state = "TCP_READY"
                         THEN @ \cup {sa} ELSE @]

\* Mutants of GrantPending: the buffer pointer is not reset; the slot is set free
\* in every case.
GrantKeepsBuffer(st, c) ==
    [Respond(RegisterSocket(st, c, st.pend.sock, st.pend.type, st.pend.sa),
             st.pend.sock, st.pend.sa, 16)
        EXCEPT !.pend = [NoPending EXCEPT !.buf = TRUE], !.bufs = @ - 1]
GrantThenFrees(st, c) ==
    [Respond(RegisterSocket(st, c, st.pend.sock, st.pend.type, st.pend.sa),
             st.pend.sock, st.pend.sa, 16)
        EXCEPT !.pend = NoPending, !.bufs = @ - 1, !.conn[c].state = "INVALID"]

\* The pending activation takes slot c and is answered from its buffer.
GrantPending(st, c) ==
    [Respond(RegisterSocket(st, c, st.pend.sock, st.pend.type, st.pend.sa),
             st.pend.sock, st.pend.sa, 16)
        EXCEPT !.pend = NoPending, !.bufs = @ - 1]

\* Mutant of FreeSlot: the pending buffer is freed whether there is one or not.
FreeSlotAndBuffer(st, c) ==
    [st EXCEPT !.conn[c].state = "INVALID", !.conn[c].awaiting = FALSE, !.bufs = @ - 1]

FreeSlot(st, c) == [st EXCEPT !.conn[c].state = "INVALID", !.conn[c].awaiting = FALSE]

\* handleTimeout: close the connection of slot c; a pending activation takes it.
HandleTimeout(st, c) ==
    LET closed == Close(st, st.conn[c].sock)
    IN  IF IsPending(closed) THEN GrantPending(closed, c) ELSE FreeSlot(closed, c)

\* createAndSendAliveCheck, when the request could not be sent.
AliveCheckFails(st, c) ==
    LET gone == [st EXCEPT !.conn[c].state = "INVALID"]
    IN  IF gone.pend.sock # NoSock THEN HandleTimeout(gone, c)
                                   ELSE Close(gone, gone.conn[c].sock)

\* A send on socket s can reach somebody only over an open connection.
Connected(st, s) ==
    /\ s \in Sockets
    /\ st.sock[s].conn \in Fds /\ st.fds[st.sock[s].conn] = "conn"

\* isAuthenticationRequired and isConfirmationRequired; isAuthenticated and
\* isConfirmed always say no.
PositiveCode(type) ==
    IF type \in AuthTypes THEN 4 ELSE IF type \in ConfirmTypes THEN 17 ELSE 16

-----------------------------------------------------------------------------
NoReq == [sock |-> 0, sa |-> NoSa, type |-> 0, single |-> FALSE]
DcmIdle == [state |-> "idle", sock |-> 0, sa |-> NoSa, entitled |-> FALSE]

DoIP_Init ==
    /\ conn = [c \in Slots |-> [sock |-> NoSock, sa |-> NoSa, type |-> 0,
                                state |-> "INVALID", general |-> 0,
                                alive |-> 0, awaiting |-> FALSE]]
    /\ pend = NoPending
    /\ bufs = 0
    /\ tmap = [t \in Targets |-> 0]
    /\ pc = "scan"
    /\ req = NoReq
    /\ dcm = DcmIdle
    /\ activated = [s \in Sockets |-> {}]
    /\ obs = {}

Init == SoAd_Init /\ DoIP_Init

\* What a step of the scan leaves alone besides the tables.
KeepsRest == UNCHANGED <<tmap, pc, req, dcm>>

\* doip_loop_task goes on with the next socket, and after the last one with the
\* connection table.
NextSocket(i) == idx' = i + 1

-----------------------------------------------------------------------------
(* handleRoutingActivationReq.                                             *)

\* No response buffer (a NACK is sent and the socket stays open), or a length
\* other than 7, 10 and 11, an unknown source address or an unsupported
\* activation type: negative response, and the socket is closed.
ActivationRefused(s) ==
    /\ \/ Become(Tables)
       \/ Become(Close(Tables, s))
       \/ /\ bufs < MaxBufs
          /\ \/ \E sa \in Strangers : Become(Close(Respond(Tables, s, sa, 0), s))
             \/ \E sa \in Testers, type \in OtherTypes :
                   Become(Close(Respond(Tables, s, sa, 6), s))
    /\ NextSocket(s) /\ KeepsRest

\* The slots socketHandle picks from, each searched from index 0.
FirstSlot(c, P) == c \in P /\ \A d \in P : c <= d
RegisteredSlots == {c \in Slots : Registered(Tables, c)}
SlotsOf(s) == {c \in RegisteredSlots : conn[c].sock = s}
SlotsWith(sa) == {c \in RegisteredSlots : conn[c].sa = sa}

\* socketHandle, assignment successful: slot 0 if nothing is registered, else
\* the socket's own slot, else the first free one.
ActivationAssigned(s, sa, type) ==
    \/ /\ RegisteredSlots = {}
       /\ Become(Respond(RegisterSocket(Tables, 0, s, type, sa), s, sa, PositiveCode(type)))
    \/ \E c \in Slots :
         /\ FirstSlot(c, SlotsOf(s))
         /\ conn[c].sa = sa
         /\ Become(Respond(Tables, s, sa, PositiveCode(type)))
    \/ \E c \in Slots :
         /\ RegisteredSlots # {} /\ SlotsOf(s) = {} /\ SlotsWith(sa) = {}
         /\ FirstSlot(c, Slots \ RegisteredSlots)
         /\ Become(Respond(RegisterSocket(Tables, c, s, type, sa), s, sa, PositiveCode(type)))

\* socketHandle, assignment failed: the socket is registered for another address.
ActivationFailed(s, sa) ==
    \E c \in Slots :
        /\ FirstSlot(c, SlotsOf(s))
        /\ conn[c].sa # sa
        /\ Become(Close(Respond(Tables, s, sa, 2), s))

\* socketHandle, assignment pending: the address is registered elsewhere, or
\* there is no free slot; the response buffer stays allocated and the loop over
\* the slots begins.
ActivationPends(s, sa, type) ==
    /\ RegisteredSlots # {} /\ SlotsOf(s) = {}
    /\ SlotsWith(sa) # {} \/ RegisteredSlots = Slots
    /\ req' = [sock |-> s, sa |-> sa, type |-> type, single |-> SlotsWith(sa) # {}]
    /\ pc' = "alive" /\ idx' = 0
    /\ Become([Tables EXCEPT !.bufs = @ + 1])
    /\ UNCHANGED <<tmap, dcm>>

RoutingActivation(s) ==
    \/ ActivationRefused(s)
    \/ /\ bufs < MaxBufs
       /\ \E sa \in Testers, type \in Types \ OtherTypes :
            \/ /\ ActivationAssigned(s, sa, type) \/ ActivationFailed(s, sa)
               /\ NextSocket(s) /\ KeepsRest
            \/ ActivationPends(s, sa, type)

\* One iteration of startSingleSaAliveCheck or startAllSocketsAliveCheck.  The
\* single check covers every slot with the address, registered or not, that is
\* not awaiting a response already.
AliveCheckStep ==
    /\ pc = "alive" /\ idx < MaxConn
    /\ LET checked == [Tables EXCEPT !.conn[idx] =
                          [@ EXCEPT !.awaiting = TRUE, !.general = 0, !.alive = 0]]
       IN  IF req.single /\ (conn[idx].sa # req.sa \/ conn[idx].awaiting)
           THEN Become(Tables)
           ELSE \/ Become(checked)    \* sent, or no buffer to send it from
                \/ Become(AliveCheckFails(checked, idx))
    /\ idx' = idx + 1
    /\ KeepsRest

\* Mutant of AliveCheckDone: a second pending request replaces the first.
AliveCheckReplaces ==
    /\ pc = "alive" /\ idx = MaxConn
    /\ Become([Tables EXCEPT !.pend = [sock |-> req.sock, sa |-> req.sa,
                                      type |-> req.type, buf |-> TRUE]])
    /\ pc' = "scan" /\ idx' = req.sock + 1 /\ req' = NoReq
    /\ UNCHANGED <<tmap, dcm>>

\* After the loop the request is kept as the pending one.  If there is one
\* already, the new request is dropped with its buffer: the branch marked
\* "This should not happen".
AliveCheckDone ==
    /\ pc = "alive" /\ idx = MaxConn
    /\ IF pend.buf
       THEN Become(Tables)
       ELSE Become([Tables EXCEPT !.pend = [sock |-> req.sock, sa |-> req.sa,
                                            type |-> req.type, buf |-> TRUE]])
    /\ pc' = "scan" /\ idx' = req.sock + 1 /\ req' = NoReq
    /\ UNCHANGED <<tmap, dcm>>

-----------------------------------------------------------------------------
(* handleAliveCheckResp.                                                   *)

\* The response clears every slot of its socket and address; when no slot awaits
\* a response any more, the pending activation is denied.
AliveCheckResponse(s) ==
    \E sa \in Addresses :
        LET answered == [Tables EXCEPT !.conn =
                [c \in Slots |-> IF conn[c].sock = s /\ conn[c].sa = sa
                                 THEN [conn[c] EXCEPT !.general = 0, !.awaiting = FALSE]
                                 ELSE conn[c]]]
            seen == See(answered, <<"aliveResponse", s, sa>>)
            p == pend
            denied == Close(Respond(seen, p.sock, p.sa, 1), p.sock)
        IN  /\ IF /\ \A c \in Slots : ~answered.conn[c].awaiting
                  /\ IsPending(Tables)
               THEN Become([denied EXCEPT !.pend = NoPending, !.bufs = @ - 1])
               ELSE Become(seen)
            /\ NextSocket(s) /\ KeepsRest

-----------------------------------------------------------------------------
(* handleDiagnosticMessage.                                                *)

MatchingSlots(s, sa) == {c \in Slots : conn[c].sa = sa /\ conn[c].sock = s}

Unregistered == 65535   \* 0xffff
Garbage == 65534        \* a value of connectionIndex that is no slot

\* connectionIndex is assigned only if a slot matches; otherwise it is whatever
\* the stack held.
ConnectionIndices(s, sa) ==
    IF MatchingSlots(s, sa) = {} THEN Slots \cup {Unregistered, Garbage}
    ELSE {c \in Slots : FirstSlot(c, MatchingSlots(s, sa))}

\* lookupSaTa: the routing activation is the first configured one, i, whose
\* number is the activation type of connection i; 0xffff if there is none.
RoutingActivationIndex ==
    LET hits == {i \in Activations : conn[i].type = ActivationNumber[i]}
    IN  {i \in hits : \A j \in hits : i <= j}

TargetReached(t) == \E i \in RoutingActivationIndex : <<i, t>> \in Relation

\* A length below 4 or an unregistered connection: the socket is closed.  An
\* unknown target, no buffer, or Dcm busy: a negative acknowledge only.
\* Otherwise Dcm takes the request, and the target is associated with the
\* connection.
DiagnosticMessage(s) ==
    /\ NextSocket(s)
    /\ UNCHANGED <<pc, req>>
    /\ \/ Become(Close(Tables, s)) /\ UNCHANGED <<tmap, dcm>>
       \/ \E sa \in Addresses : \E ci \in ConnectionIndices(s, sa) :
            \/ ci = Unregistered /\ Become(Close(Tables, s)) /\ UNCHANGED <<tmap, dcm>>
            \/ ci # Unregistered /\ Become(Tables) /\ UNCHANGED <<tmap, dcm>>
            \/ \E t \in Targets :
                 /\ ci # Unregistered /\ TargetReached(t) /\ dcm.state = "idle"
                 /\ tmap' = [tmap EXCEPT ![t] = ci]
                 /\ dcm' = [state |-> "processing", sock |-> s, sa |-> sa,
                            entitled |-> sa \in activated[s]]
                 /\ Become(See(Tables, <<"diagnostic", s, sa>>))

-----------------------------------------------------------------------------
(* The scan of one socket.                                                 *)

\* DoIp_HandleTcpRx: no message, a partial one, one that is too large, of
\* unknown type or a power mode request change nothing; a bad header closes.
\* The end of the connection is no message either, and is not noticed:
\* SoAd_SocketStatusCheck closes a socket whose status is bad, but
\* SoAd_SocketStatusCheckImpl reports every status as good.
TcpNothing(s) == Become(Tables) /\ NextSocket(s) /\ KeepsRest
TcpBadHeader(s) == Become(Close(Tables, s)) /\ NextSocket(s) /\ KeepsRest

HandleTcpRx(s) ==
    /\ sock[s].state = "TCP_READY"
    /\ \/ TcpNothing(s)
       \/ /\ Connected(Tables, s)
          /\ \/ TcpBadHeader(s)
             \/ RoutingActivation(s)
             \/ AliveCheckResponse(s)
             \/ DiagnosticMessage(s)

\* DoIp_HandleUdpRx: requests that are answered change nothing; a bad header, a
\* bad length or another vehicle's VIN or EID closes the socket; a vehicle
\* identification request of bad length closes it twice.
HandleUdpRx(s) ==
    /\ sock[s].state = "UDP_READY"
    /\ \/ Become(Tables)
       \/ Become(Close(Tables, s))
       \/ Become(Close(Close(Tables, s), s))
    /\ NextSocket(s) /\ KeepsRest

ScanSocket ==
    /\ pc = "scan" /\ idx < NumSockets
    /\ \/ /\ SocketStep(idx)
          /\ obs' = {}
          /\ UNCHANGED <<conn, pend, bufs, activated>>
          /\ NextSocket(idx) /\ KeepsRest
       \/ HandleTcpRx(idx)
       \/ HandleUdpRx(idx)

ScanDone ==
    /\ pc = "scan" /\ idx = NumSockets
    /\ pc' = "main" /\ idx' = 0
    /\ Become(Tables)
    /\ UNCHANGED <<tmap, req, dcm>>

\* The peer of a connection closes it, resets it or is unplugged.
PeerBreaks ==
    /\ \E s \in Fragile :
        /\ sock[s].state = "TCP_READY" /\ Connected(Tables, s)
        /\ fds' = [fds EXCEPT ![sock[s].conn] = "broken"]
    /\ obs' = {}
    /\ UNCHANGED <<sock, idx, conn, pend, bufs, tmap, pc, req, dcm, activated>>

-----------------------------------------------------------------------------
(* DoIp_MainFunction, the loop over the connection table.                  *)

\* Mutant of AliveTimer: the first tick is a timeout.
AliveTimerAtOnce(st, c) == IF st.conn[c].awaiting THEN HandleTimeout(st, c) ELSE st

\* The alive check of slot c is timed out, or its timer goes on.
AliveTimer(st, c) ==
    IF ~st.conn[c].awaiting THEN st
    ELSE IF st.conn[c].alive > AliveTimeout THEN HandleTimeout(st, c)
    ELSE [st EXCEPT !.conn[c].alive = @ + 1]

\* Mutant of GeneralTimer: a timer that is not advanced.
GeneralTimerStands(st, c) ==
    IF st.conn[c].general <= GeneralTimeout \/ st.conn[c].general <= AliveTimeout
    THEN st ELSE HandleTimeout(st, c)

\* The same for general inactivity, with the larger of the two timeouts; the
\* first half of the iteration may have changed the slot already.
GeneralTimer(st, c) ==
    IF st.conn[c].general <= GeneralTimeout \/ st.conn[c].general <= AliveTimeout
    THEN [st EXCEPT !.conn[c].general = @ + 1]
    ELSE HandleTimeout(st, c)

MainFunctionStep ==
    /\ pc = "main" /\ idx < MaxConn
    /\ IF Registered(Tables, idx)
       THEN Become(GeneralTimer(AliveTimer(Tables, idx), idx))
       ELSE Become(Tables)
    /\ idx' = idx + 1
    /\ KeepsRest

MainFunctionDone ==
    /\ pc = "main" /\ idx = MaxConn
    /\ pc' = "scan" /\ idx' = 0
    /\ Become(Tables)
    /\ UNCHANGED <<tmap, req, dcm>>

-----------------------------------------------------------------------------
(* Dcm and the CanTp task.                                                 *)

\* Dcm finishes a request: with a response, which CanTp will transmit, or (the
\* tester asked for none) without.
DcmFinishes ==
    /\ dcm.state = "processing"
    /\ dcm' = DcmIdle \/ dcm' = [dcm EXCEPT !.state = "responding"]
    /\ Become(Tables)
    /\ UNCHANGED <<idx, tmap, pc, req>>

\* A response is lost before Dcm hears of it.
DcmWaits == [dcm EXCEPT !.state = "lost"]

\* The address of the answer is that of the connection the target was last
\* associated with, and is whatever lies behind the table if that is no slot.
AnswerAddress(ci) ==
    IF ci \in Slots THEN {conn[ci].sa} ELSE Addresses \cup {NoSa}

\* DoIp_HandleTpTransmit, called once by CanTp_MainFunction, which has masked the
\* interrupts, so that the doip task does not run inside it.  Refused because the
\* socket is closed or being opened, CanTp forgets the response and tells nobody;
\* sent, not sent or without a buffer, Dcm is told and idle again.
DoIp_HandleTpTransmit ==
    /\ dcm.state = "responding"
    /\ \/ /\ sock[RspSocket].state \notin {"TCP_LISTENING", "TCP_READY", "UDP_READY"}
          /\ dcm' = DcmWaits /\ Become(Tables)
       \/ /\ sock[RspSocket].state \in {"TCP_LISTENING", "TCP_READY", "UDP_READY"}
          /\ dcm' = DcmIdle
          /\ \/ Become(Tables)
             \/ /\ Connected(Tables, RspSocket) \/ sock[RspSocket].state = "UDP_READY"
                /\ \E ta \in AnswerAddress(tmap[RspTarget]) :
                      Become(See(Tables, <<"answer", RspSocket, ta>>))
    /\ UNCHANGED <<idx, tmap, pc, req>>

-----------------------------------------------------------------------------
DoIPTask == \/ ScanSocket \/ ScanDone
            \/ AliveCheckStep \/ AliveCheckDone
            \/ MainFunctionStep \/ MainFunctionDone
Next == DoIPTask \/ DoIp_HandleTpTransmit \/ DcmFinishes \/ PeerBreaks

\* The doip task and the CAN task loop for ever, Dcm answers or gives up within
\* its P2 time, and lwIP does not refuse to open a socket for ever.
Fairness ==
    /\ WF_vars(DoIPTask) /\ WF_vars(DoIp_HandleTpTransmit) /\ WF_vars(DcmFinishes)
    /\ \A s \in Sockets : SF_vars(ScanSocket /\ idx = s /\ CreateSucceeds(s))

SafeSpec == Init /\ [][Next]_vars
Spec == SafeSpec /\ Fairness

-----------------------------------------------------------------------------
(* Properties the code has.                                                *)

ConnRecords == [sock : Sockets \cup {NoSock}, sa : Testers \cup {NoSa}, type : Nat,
                state : {"INVALID", "REGISTERED"}, general : Nat, alive : Nat,
                awaiting : BOOLEAN]

\* Every variable stays in its range; in particular no handler uses a slot or a
\* socket that does not exist, and the heap is not asked for more than it has.
TypeOK ==
    /\ sock \in [Sockets -> SocketRecords]
    /\ fds \in [Fds -> FdKinds]
    /\ idx \in 0 .. (IF pc = "scan" THEN NumSockets ELSE MaxConn)
    /\ conn \in [Slots -> ConnRecords]
    /\ pend \in [sock : Sockets \cup {NoSock}, sa : Testers \cup {NoSa},
                 type : Nat, buf : BOOLEAN]
    /\ bufs \in 0 .. MaxBufs
    /\ tmap \in [Targets -> Slots \cup {Garbage}]
    /\ pc \in {"scan", "alive", "main"}
    /\ req \in [sock : Sockets, sa : Testers \cup {NoSa}, type : Nat, single : BOOLEAN]
    /\ dcm \in [state : {"idle", "processing", "responding", "lost"},
                sock : Sockets, sa : Addresses \cup {NoSa}, entitled : BOOLEAN]
    /\ activated \in [Sockets -> SUBSET Testers]

\* The buffer of the pending activation, and that of the request whose alive
\* checks are being sent, are allocated: handleTimeout, handleAliveCheckResp and
\* createAndSendAliveCheck, which may run one inside another, never free a buffer
\* twice or send one that is free, and the pending socket and the pending buffer
\* are set and cleared together (some callers test one, some both).
PendingBufferAllocated ==
    /\ pend.sock # NoSock <=> pend.buf
    /\ bufs >= (IF pend.buf THEN 1 ELSE 0) + (IF pc = "alive" THEN 1 ELSE 0)

\* A slot that has had an address has had a socket, and the loop over all slots
\* meets only such slots: no timeout and no alive check ever closes or sends on
\* socket 0xff, which the table starts with and SocketAdminList does not have.
SlotsHaveSockets ==
    /\ \A c \in Slots : /\ conn[c].sock = NoSock <=> conn[c].sa = NoSa
                        /\ Registered(Tables, c) => conn[c].sock # NoSock
    /\ pc = "alive" /\ ~req.single => \A c \in Slots : conn[c].sock # NoSock
    /\ pc = "alive" => req.sa # NoSa
    /\ pend.buf => pend.sa # NoSa

\* A tester that reads "routing successfully activated" is in the table, with its
\* address and the socket it reads from, whether it was answered at once, after
\* an alive check timeout or after a failed alive check.
GrantedIsRegistered ==
    \A s \in Sockets, sa \in Testers : <<"response", s, sa, 16>> \in obs =>
        \E c \in Slots : /\ Registered(Tables, c)
                        /\ conn[c].sock = s /\ conn[c].sa = sa

\* What entitles DoIP to take slot c from its tester: the slot's turn in the loop
\* over the connection table, and a timer that has run out.
TimedOut(c) ==
    /\ pc = "main" /\ idx = c
    /\ \/ conn[c].awaiting /\ conn[c].alive > AliveTimeout
       \/ conn[c].general > GeneralTimeout /\ conn[c].general > AliveTimeout

TakenFrom(c) ==
    /\ Registered(Tables, c)
    /\ \/ conn'[c].state # "REGISTERED"
       \/ conn'[c].sock # conn[c].sock
       \/ conn'[c].sa # conn[c].sa

\* The slots a step takes from their testers are taken rightly.
TakenRightly ==
    \A c \in Slots : TakenFrom(c) =>
        /\ TimedOut(c) \/ (pc = "alive" /\ idx = c)
        /\ conn'[c].state = "REGISTERED" =>
              /\ pend.buf
              /\ conn'[c].sock = pend.sock /\ conn'[c].sa = pend.sa

\* A registered tester loses its slot only by a timeout, or because its alive
\* check request could not be sent; never to another tester's activation, a
\* diagnostic message, an alive check response or a protocol error.  If the slot
\* stays registered, it is the pending activation that takes it.
NoTakeover == [][TakenRightly]_vars

\* A step that ends a pending activation answers it.
PendingAnswered ==
    pend.buf /\ pend' # pend =>
        \E code \in {16, 1} : <<"response", pend.sock, pend.sa, code>> \in obs'

\* A tester whose activation is pending is never forgotten: the pending
\* activation goes away only with a response to it, granted (0x10) or denied
\* (0x01), and is never replaced by a later request.
NeverForgotten == [][PendingAnswered]_vars

\* A tester that has been silent for long enough loses its slot: again and again
\* a slot is free, or an alive check response of its tester arrives.
SilentIsReleased ==
    \A c \in Slots :
        []<>(\/ ~Registered(Tables, c)
             \/ <<"aliveResponse", conn[c].sock, conn[c].sa>> \in obs)

-----------------------------------------------------------------------------
(* What the comments in the code say, and the code does not keep: each is      *)
(* checked by a run of its own that finds it violated.                         *)

\* lookupSaTa refuses a diagnostic message with "Connection not registered!", and
\* handleDiagnosticMessage with "SA not registered on receiving socket", unless
\* its address was activated over the connection it arrives on.
DiagnosticOnlyWhenActivated ==
    \A s \in Sockets, sa \in Addresses :
        <<"diagnostic", s, sa>> \in obs => sa \in activated[s]

\* handleTimeout: "Close current connection (which has timed out anyway)"; what it
\* closes is never the listener of the port.
TimeoutClosesConnection == ~ \E s \in Sockets : <<"unlisten", s>> \in obs

\* DoIP_HandleTpTransmit: "Target of response is the source of the initiating
\* party", at least if that party was activated when it asked.
AnswerGoesToAsker ==
    [][\A ta \in Addresses \cup {NoSa} :
          <<"answer", RspSocket, ta>> \in obs' /\ dcm.entitled => ta = dcm.sa]_vars
=============================================================================
