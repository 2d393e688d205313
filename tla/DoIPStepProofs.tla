--------------------------- MODULE DoIPStepProofs ---------------------------
(***************************************************************************)
(* What a step of the DoIP server may never do (module DoIP): take a slot  *)
(* of the connection table from its tester without a timeout or a failed   *)
(* alive check, drop a pending activation without an answer, and tell a    *)
(* tester that is not in the table that it was activated.  All follow,     *)
(* action by action, from the invariant of DoIPProofs and from what its    *)
(* lemmas say the functions of the tables change.                          *)
(***************************************************************************)
EXTENDS DoIPProofs

\* Registered slots keep their tester from st to su, and the pending activation
\* stays.
Quiet(st, su) ==
    /\ su.pend = st.pend
    /\ \A c \in Slots : Registered(st, c) =>
         /\ su.conn[c].state = st.conn[c].state
         /\ su.conn[c].sock = st.conn[c].sock /\ su.conn[c].sa = st.conn[c].sa

\* What the two properties say of a step.
Rightly == TakenRightly /\ PendingAnswered

LEMMA QuietRight ==
    ASSUME NEW su, Become(su), Quiet(Tables, su)
    PROVE  Rightly
<1>1. pend' = pend
  BY TablesFields DEF Quiet, Become
<1>2. \A c \in Slots : ~TakenFrom(c)
  BY TablesFields DEF Quiet, Become, TakenFrom, Registered
<1> QED
  BY <1>1, <1>2 DEF Rightly, TakenRightly, PendingAnswered

\* The invariant, as the functions need it.
LEMMA Consistent == IInv => TablesOK(Tables, Looping) /\ Looping \in Nat
  BY DEF IInv, Looping

LEMMA KeptRight ==
    ASSUME NEW su, Become(su), su.conn = conn, su.pend = pend
    PROVE  Rightly
  BY QuietRight, TablesFields DEF Quiet

-----------------------------------------------------------------------------
(* The scan.                                                               *)

LEMMA RefusedRight ==
    ASSUME IInv, pc = "scan", idx \in Sockets, ActivationRefused(idx)
    PROVE  Rightly
<1>1. TablesOK(Tables, 0)
  BY Found
<1>2. ASSUME NEW sa, NEW code \in {0, 6}
      PROVE  /\ Close(Respond(Tables, idx, sa, code), idx).conn = conn
             /\ Close(Respond(Tables, idx, sa, code), idx).pend = pend
  <2>1. /\ TablesOK(Respond(Tables, idx, sa, code), 0)
        /\ Respond(Tables, idx, sa, code).conn = conn
        /\ Respond(Tables, idx, sa, code).pend = pend
    BY <1>1, RespondFields, TablesFields
  <2> QED
    BY <2>1, CloseFields
<1>3. Close(Tables, idx).conn = conn /\ Close(Tables, idx).pend = pend
  BY <1>1, CloseFields, TablesFields
<1> QED
  BY <1>2, <1>3, KeptRight, TablesFields DEF ActivationRefused

\* A slot that is not registered is assigned, or the tester's own is confirmed.
LEMMA AssignedRight ==
    ASSUME IInv, pc = "scan", idx \in Sockets, NEW sa \in Testers, NEW type \in Nat,
           ActivationAssigned(idx, sa, type)
    PROVE  Rightly
<1>1. TablesOK(Tables, 0)
  BY Found
<1>2. ASSUME NEW c \in Slots, NEW code, ~Registered(Tables, c)
      PROVE  Quiet(Tables, Respond(RegisterSocket(Tables, c, idx, type, sa), idx, sa, code))
  <2>1. /\ TablesOK(RegisterSocket(Tables, c, idx, type, sa), 0)
        /\ RegisterSocket(Tables, c, idx, type, sa).pend = pend
        /\ \A d \in Slots \ {c} :
             RegisterSocket(Tables, c, idx, type, sa).conn[d] = conn[d]
    BY <1>1, RegisterFields, TablesFields
  <2> DEFINE su == Respond(RegisterSocket(Tables, c, idx, type, sa), idx, sa, code)
  <2>2. /\ su.conn = RegisterSocket(Tables, c, idx, type, sa).conn
        /\ su.pend = RegisterSocket(Tables, c, idx, type, sa).pend
    BY <2>1, RespondFields
  <2> HIDE DEF su
  <2>3. Quiet(Tables, su)
    BY <1>2, <2>1, <2>2, TablesFields DEF Quiet
  <2> QED
    BY <2>3 DEF su
<1>3. ASSUME NEW code
      PROVE  /\ Respond(Tables, idx, sa, code).conn = conn
             /\ Respond(Tables, idx, sa, code).pend = pend
  BY <1>1, RespondFields, TablesFields
<1>4. CASE Become(Respond(Tables, idx, sa, PositiveCode(type)))
  BY <1>3, <1>4, KeptRight
<1>5. ASSUME NEW c \in Slots, ~Registered(Tables, c),
             Become(Respond(RegisterSocket(Tables, c, idx, type, sa),
                            idx, sa, PositiveCode(type)))
      PROVE  Rightly
  BY <1>2, <1>5, QuietRight
<1>6. RegisteredSlots = {} => ~Registered(Tables, 0)
  BY Ranges DEF RegisteredSlots
<1>7. \A c : FirstSlot(c, Slots \ RegisteredSlots) => c \in Slots /\ ~Registered(Tables, c)
  BY DEF FirstSlot, RegisteredSlots
<1> QED
  BY <1>4, <1>5, <1>6, <1>7, Ranges DEF ActivationAssigned

LEMMA FailedRight ==
    ASSUME IInv, pc = "scan", idx \in Sockets, NEW sa \in Testers,
           ActivationFailed(idx, sa)
    PROVE  Rightly
<1>1. /\ TablesOK(Respond(Tables, idx, sa, 2), 0)
      /\ Respond(Tables, idx, sa, 2).conn = conn
      /\ Respond(Tables, idx, sa, 2).pend = pend
  BY Found, RespondFields, TablesFields
<1>2. /\ Close(Respond(Tables, idx, sa, 2), idx).conn = conn
      /\ Close(Respond(Tables, idx, sa, 2), idx).pend = pend
  BY <1>1, CloseFields
<1> QED
  BY <1>2, KeptRight DEF ActivationFailed

LEMMA RoutingActivationRight ==
    ASSUME IInv, pc = "scan", idx \in Sockets, RoutingActivation(idx)
    PROVE  Rightly
<1>1. CASE ActivationRefused(idx)
  BY <1>1, RefusedRight
<1>2. ASSUME NEW sa \in Testers, NEW type \in Types \ OtherTypes,
             \/ ActivationAssigned(idx, sa, type) \/ ActivationFailed(idx, sa)
             \/ ActivationPends(idx, sa, type)
      PROVE  Rightly
  <2>1. type \in Nat
    BY TypesAreNats
  <2>2. CASE ActivationAssigned(idx, sa, type)
    BY <2>1, <2>2, AssignedRight
  <2>3. CASE ActivationFailed(idx, sa)
    BY <2>3, FailedRight
  <2>4. CASE ActivationPends(idx, sa, type)
    <3> DEFINE su == [Tables EXCEPT !.bufs = @ + 1]
    <3>1. su.conn = conn /\ su.pend = pend
      BY TablesFields DEF Whole
    <3>2. Become(su)
      BY <2>4 DEF ActivationPends
    <3> HIDE DEF su
    <3> QED
      BY <3>1, <3>2, KeptRight
  <2> QED
    BY <1>2, <2>2, <2>3, <2>4
<1> QED
  BY <1>1, <1>2 DEF RoutingActivation

\* The answer that denies the pending activation goes with it.
LEMMA ResponseRight ==
    ASSUME IInv, pc = "scan", idx \in Sockets, AliveCheckResponse(idx)
    PROVE  Rightly
<1>0. 1 \notin {16, 17}
  OBVIOUS
<1> PICK sa \in Addresses :
        LET answered == [Tables EXCEPT !.conn =
                [c \in Slots |-> IF conn[c].sock = idx /\ conn[c].sa = sa
                                 THEN [conn[c] EXCEPT !.general = 0, !.awaiting = FALSE]
                                 ELSE conn[c]]]
            seen == See(answered, <<"aliveResponse", idx, sa>>)
            p == pend
            denied == Close(Respond(seen, p.sock, p.sa, 1), p.sock)
        IN  /\ IF /\ \A c \in Slots : ~answered.conn[c].awaiting
                  /\ IsPending(Tables)
               THEN Become([denied EXCEPT !.pend = NoPending, !.bufs = @ - 1])
               ELSE Become(seen)
            /\ NextSocket(idx) /\ KeepsRest
  BY DEF AliveCheckResponse
<1> DEFINE cs == [c \in Slots |-> IF conn[c].sock = idx /\ conn[c].sa = sa
                                  THEN [conn[c] EXCEPT !.general = 0, !.awaiting = FALSE]
                                  ELSE conn[c]]
           answered == [Tables EXCEPT !.conn = cs]
           seen == See(answered, <<"aliveResponse", idx, sa>>)
           res == Respond(seen, pend.sock, pend.sa, 1)
           denied == Close(res, pend.sock)
           su == [denied EXCEPT !.pend = NoPending, !.bufs = @ - 1]
<1>1. TablesOK(Tables, 0)
  BY Found
<1>2. Become(seen) \/ (IsPending(Tables) /\ Become(su))
  OBVIOUS
<1>3. \A c \in Slots : conn[c] \in ConnRecords
  BY <1>1, TablesFields DEF TablesOK
<1>4. \A c \in Slots : /\ cs[c] \in ConnRecords /\ cs[c].sock = conn[c].sock
                       /\ cs[c].sa = conn[c].sa /\ cs[c].state = conn[c].state
  BY <1>3 DEF ConnRecords
<1>5. cs \in [Slots -> ConnRecords]
  BY <1>4
<1> HIDE DEF cs
<1>6. /\ Whole(seen) /\ seen.sock = sock /\ seen.fds = fds /\ seen.conn = cs
      /\ seen.pend = pend /\ seen.bufs = bufs /\ seen.activated = activated
  BY TablesFields DEF Whole, See
<1> HIDE DEF seen, res
<1>7. SameSlots(Tables, seen)
  BY <1>4, <1>5, <1>6, TablesFields DEF SameSlots
<1>8. TablesOK(seen, 0)
  BY <1>1, <1>7, SameSlotsOK
<1>9. CASE Become(seen)
  <2>1. Quiet(Tables, seen)
    BY <1>7 DEF SameSlots, Quiet
  <2> QED
    BY <1>9, <2>1, QuietRight
<1>10. CASE IsPending(Tables) /\ Become(su)
  <2>1. pend.sock \in Sockets
    BY <1>1, <1>10, TablesFields DEF IsPending, TablesOK, PendOK, PendRecords
  <2>2. /\ TablesOK(res, 0) /\ res.conn = cs
        /\ <<"response", pend.sock, pend.sa, 1>> \in res.obs
    BY ONLY <1>0, <1>6, <1>8, <2>1, RespondFields DEF res
  <2>3. /\ TablesOK(denied, 0) /\ denied.conn = cs
        /\ <<"response", pend.sock, pend.sa, 1>> \in denied.obs
    BY <2>1, <2>2, CloseFields
  <2> HIDE DEF denied
  <2>4. su.conn = cs /\ <<"response", pend.sock, pend.sa, 1>> \in su.obs
    BY <2>3 DEF TablesOK, Whole
  <2> HIDE DEF su
  <2>5. conn' = cs /\ obs' = su.obs
    BY <1>10, <2>4 DEF Become
  <2>6. \A c \in Slots : ~TakenFrom(c)
    BY <1>4, <2>5, TablesFields DEF TakenFrom, Registered
  <2> QED
    BY <2>4, <2>5, <2>6 DEF Rightly, TakenRightly, PendingAnswered
<1> QED
  BY <1>2, <1>9, <1>10

\* Closing sockets, noting an event or doing nothing.
LEMMA CloseRight ==
    ASSUME IInv, pc # "alive", NEW s \in Sockets,
           \/ Become(Close(Tables, s)) \/ Become(Close(Close(Tables, s), s))
    PROVE  Rightly
<1>1. /\ TablesOK(Close(Tables, s), 0)
      /\ Close(Tables, s).conn = conn /\ Close(Tables, s).pend = pend
  BY Found, CloseFields, TablesFields
<1>2. /\ Close(Close(Tables, s), s).conn = conn
      /\ Close(Close(Tables, s), s).pend = pend
  BY <1>1, CloseFields
<1> QED
  BY <1>1, <1>2, KeptRight

LEMMA SeeRight ==
    ASSUME Become(Tables) \/ \E e : Become(See(Tables, e))
    PROVE  Rightly
<1>1. \A e : See(Tables, e).conn = conn /\ See(Tables, e).pend = pend
  BY TablesFields DEF See, Whole
<1> QED
  BY <1>1, KeptRight, TablesFields

LEMMA ScanSocketRight ==
    ASSUME IInv, ScanSocket
    PROVE  Rightly
<1>1. pc = "scan" /\ idx \in Sockets
  BY Ranges DEF ScanSocket, IInv, RestOK, Sockets
<1>2. CASE UNCHANGED <<conn, pend, bufs, activated>>
  BY <1>2, TablesFields
  DEF Rightly, TakenRightly, TakenFrom, Registered, PendingAnswered
<1>3. CASE HandleTcpRx(idx)
  <2>1. CASE TcpNothing(idx) \/ TcpBadHeader(idx)
    BY <1>1, <2>1, CloseRight, SeeRight DEF TcpNothing, TcpBadHeader
  <2>2. CASE RoutingActivation(idx)
    BY <1>1, <2>2, RoutingActivationRight
  <2>3. CASE AliveCheckResponse(idx)
    BY <1>1, <2>3, ResponseRight
  <2>4. CASE DiagnosticMessage(idx)
    BY <1>1, <2>4, CloseRight, SeeRight DEF DiagnosticMessage
  <2> QED
    BY <1>3, <2>1, <2>2, <2>3, <2>4 DEF HandleTcpRx
<1>4. CASE HandleUdpRx(idx)
  BY <1>1, <1>4, CloseRight, SeeRight DEF HandleUdpRx
<1> QED
  BY <1>2, <1>3, <1>4 DEF ScanSocket

-----------------------------------------------------------------------------
(* The alive checks and the timers.                                        *)

\* A slot that handleTimeout has taken, from su in which it is as in st.
LEMMA TakenIsRight ==
    ASSUME IInv, NEW st, Quiet(Tables, st), st.pend = pend, NEW su, NEW c \in Slots,
           Taken(st, su, c), Become(su),
           TimedOut(c) \/ (pc = "alive" /\ idx = c)
    PROVE  Rightly
<1>1. pend.buf <=> IsPending(st)
  BY Consistent, TablesFields DEF IsPending, TablesOK, PendOK
<1>2. conn' = su.conn /\ pend' = su.pend /\ obs' = su.obs
  BY DEF Become
<1>3. \A d \in Slots \ {c} : ~TakenFrom(d)
  BY <1>2, TablesFields DEF Taken, Quiet, TakenFrom, Registered
<1>4. TakenRightly
  BY <1>1, <1>2, <1>3 DEF Taken, TakenRightly
<1>5. PendingAnswered
  BY <1>1, <1>2 DEF Taken, PendingAnswered
<1> QED
  BY <1>4, <1>5 DEF Rightly

LEMMA AliveCheckStepRight ==
    ASSUME IInv, AliveCheckStep
    PROVE  Rightly
<1> DEFINE checked == [Tables EXCEPT !.conn[idx] =
                          [@ EXCEPT !.awaiting = TRUE, !.general = 0, !.alive = 0]]
<1>1. /\ pc = "alive" /\ idx < MaxConn
      /\ \/ Become(Tables)
         \/ /\ ~(req.single /\ (conn[idx].sa # req.sa \/ conn[idx].awaiting))
            /\ Become(checked) \/ Become(AliveCheckFails(checked, idx))
  BY DEF AliveCheckStep
<1>2. TablesOK(Tables, 1) /\ idx \in Slots
  BY <1>1, Ranges DEF IInv, Looping, RestOK, Slots
<1>3. SameSlots(Tables, checked)
  BY <1>2, CheckedSame
<1> HIDE DEF checked
<1>4. TablesOK(checked, 1) /\ Quiet(Tables, checked) /\ checked.pend = pend
  BY <1>2, <1>3, SameSlotsOK, TablesFields DEF SameSlots, Quiet
<1>5. ~(req.single /\ (conn[idx].sa # req.sa \/ conn[idx].awaiting))
        => checked.conn[idx].sock # NoSock
  BY <1>1, <1>2, <1>3, TablesFields
  DEF IInv, LoopOK, TablesOK, SlotsOK, SameSlots
<1>6. CASE /\ ~(req.single /\ (conn[idx].sa # req.sa \/ conn[idx].awaiting))
           /\ Become(AliveCheckFails(checked, idx))
  <2>1. Taken(checked, AliveCheckFails(checked, idx), idx)
    BY <1>2, <1>4, <1>5, <1>6, AliveCheckFailsFields
  <2> QED
    BY <1>1, <1>2, <1>4, <1>6, <2>1, TakenIsRight
<1> QED
  BY <1>1, <1>4, <1>6, QuietRight, SeeRight

\* The first half of the iteration: the slot keeps its tester and its inactivity,
\* or its alive check has timed out.
LEMMA AliveTimerTakes ==
    ASSUME IInv, pc = "main", idx \in Slots, Registered(Tables, idx)
    PROVE  LET st == AliveTimer(Tables, idx)
           IN  \/ /\ Quiet(Tables, st) /\ st.pend = pend
                  /\ st.conn[idx].general = conn[idx].general
               \/ /\ TimedOut(idx) /\ Taken(Tables, st, idx)
                  /\ IsPending(Tables) => st.conn[idx].general = 0
<1> DEFINE sta == [Tables EXCEPT !.conn[idx].alive = @ + 1]
           slot == [conn[idx] EXCEPT !.alive = @ + 1]
           st == AliveTimer(Tables, idx)
<1>1. TablesOK(Tables, 0)
  BY Found
<1>2. Tables.conn[idx].sock # NoSock /\ conn[idx] \in ConnRecords
  BY <1>1, TablesFields DEF Registered, TablesOK, SlotsOK
<1>3. /\ slot.sock = conn[idx].sock /\ slot.sa = conn[idx].sa
      /\ slot.state = conn[idx].state /\ slot.general = conn[idx].general
  BY <1>2 DEF ConnRecords
<1>4. sta.pend = pend /\ sta.conn = [conn EXCEPT ![idx] = slot]
  BY TablesFields DEF Whole
<1>5. \/ st = Tables
      \/ st = sta
      \/ st = HandleTimeout(Tables, idx) /\ TimedOut(idx)
  BY TablesFields DEF AliveTimer, TimedOut
<1>6. /\ Taken(Tables, HandleTimeout(Tables, idx), idx)
      /\ IsPending(Tables) => HandleTimeout(Tables, idx).conn[idx].general = 0
  BY <1>1, <1>2, HandleTimeoutFields
<1> HIDE DEF sta, slot, st
<1>7. Quiet(Tables, Tables)
  BY DEF Quiet
<1>8. Quiet(Tables, sta) /\ sta.conn[idx].general = conn[idx].general
  <2>1. \A c \in Slots : c # idx => sta.conn[c] = conn[c]
    BY <1>1, <1>4, TablesFields DEF TablesOK
  <2>2. sta.conn[idx] = slot
    BY <1>1, <1>4, TablesFields DEF TablesOK
  <2> QED
    BY <1>3, <1>4, <2>1, <2>2, TablesFields DEF Quiet
<1>9. \/ /\ Quiet(Tables, st) /\ st.pend = pend
         /\ st.conn[idx].general = conn[idx].general
      \/ /\ TimedOut(idx) /\ Taken(Tables, st, idx)
         /\ IsPending(Tables) => st.conn[idx].general = 0
  BY <1>4, <1>5, <1>6, <1>7, <1>8, TablesFields
<1> QED
  BY <1>9 DEF st

\* The second half: the slot's timer goes on, or it has run out.
LEMMA GeneralTimerTakes ==
    ASSUME NEW st, TablesOK(st, 0), NEW c \in Slots, st.conn[c].sock # NoSock
    PROVE  LET su == GeneralTimer(st, c)
           IN  \/ /\ su.pend = st.pend /\ su.obs = st.obs
                  /\ \A d \in Slots : /\ su.conn[d].sock = st.conn[d].sock
                                      /\ su.conn[d].sa = st.conn[d].sa
                                      /\ su.conn[d].state = st.conn[d].state
                                      /\ d # c => su.conn[d] = st.conn[d]
                  /\ su.conn[c].general = st.conn[c].general + 1
               \/ /\ st.conn[c].general > GeneralTimeout
                  /\ st.conn[c].general > AliveTimeout
                  /\ Taken(st, su, c)
<1> DEFINE stg == [st EXCEPT !.conn[c].general = @ + 1]
           slot == [st.conn[c] EXCEPT !.general = @ + 1]
           su == GeneralTimer(st, c)
<1>1. st.conn \in [Slots -> ConnRecords] /\ st.conn[c] \in ConnRecords
  BY DEF TablesOK
<1>2. /\ slot.sock = st.conn[c].sock /\ slot.sa = st.conn[c].sa
      /\ slot.state = st.conn[c].state /\ slot.general = st.conn[c].general + 1
      /\ st.conn[c].general \in Nat
  BY <1>1 DEF ConnRecords
<1>3. /\ stg.pend = st.pend /\ stg.obs = st.obs
      /\ stg.conn = [st.conn EXCEPT ![c] = slot]
  BY DEF TablesOK, Whole
<1>4. /\ AliveTimeout \in Nat /\ GeneralTimeout \in Nat
  BY DoIPAssumption
<1>5. \/ su = stg
      \/ /\ su = HandleTimeout(st, c)
         /\ ~(st.conn[c].general <= GeneralTimeout)
         /\ ~(st.conn[c].general <= AliveTimeout)
  BY DEF GeneralTimer
<1>6. Taken(st, HandleTimeout(st, c), c)
  BY HandleTimeoutFields
<1> HIDE DEF stg, slot, su
<1>7. /\ stg.conn[c] = slot
      /\ \A d \in Slots : d # c => stg.conn[d] = st.conn[d]
  BY <1>1, <1>3
<1>8. CASE su = stg
  BY <1>2, <1>3, <1>7, <1>8 DEF su
<1>9. CASE /\ su = HandleTimeout(st, c)
           /\ ~(st.conn[c].general <= GeneralTimeout)
           /\ ~(st.conn[c].general <= AliveTimeout)
  <2>1. st.conn[c].general > GeneralTimeout /\ st.conn[c].general > AliveTimeout
    BY ONLY <1>2, <1>4, <1>9
  <2> QED
    BY <1>6, <1>9, <2>1 DEF su
<1> QED
  BY <1>5, <1>8, <1>9

\* If the first half of the iteration gives the slot away, its new timer does not
\* run out in the second half; if it frees the slot, nobody has it any more.
LEMMA MainFunctionStepRight ==
    ASSUME IInv, MainFunctionStep
    PROVE  Rightly
<1>1. /\ pc = "main" /\ idx < MaxConn
      /\ \/ Become(Tables)
         \/ /\ Registered(Tables, idx)
            /\ Become(GeneralTimer(AliveTimer(Tables, idx), idx))
  BY DEF MainFunctionStep
<1>2. TablesOK(Tables, 0) /\ idx \in Slots
  BY <1>1, Found, Ranges DEF IInv, RestOK, Slots
<1> DEFINE st == AliveTimer(Tables, idx)
           su == GeneralTimer(st, idx)
           Ticks == /\ su.pend = st.pend /\ su.obs = st.obs
                    /\ \A d \in Slots : /\ su.conn[d].sock = st.conn[d].sock
                                        /\ su.conn[d].sa = st.conn[d].sa
                                        /\ su.conn[d].state = st.conn[d].state
                                        /\ d # idx => su.conn[d] = st.conn[d]
                    /\ su.conn[idx].general = st.conn[idx].general + 1
           RunsOut == /\ st.conn[idx].general > GeneralTimeout
                      /\ st.conn[idx].general > AliveTimeout
                      /\ Taken(st, su, idx)
<1>3. CASE Registered(Tables, idx) /\ Become(su)
  <2>1. Tables.conn[idx].sock # NoSock
    BY <1>2, <1>3 DEF Registered, TablesOK, SlotsOK
  <2>2. TablesOK(st, 0) /\ st.conn[idx].sock # NoSock
    BY <1>2, <2>1, TimersOK
  <2>3. \/ /\ Quiet(Tables, st) /\ st.pend = pend
           /\ st.conn[idx].general = conn[idx].general
        \/ /\ TimedOut(idx) /\ Taken(Tables, st, idx)
           /\ IsPending(Tables) => st.conn[idx].general = 0
    BY <1>1, <1>2, <1>3, AliveTimerTakes
  <2>4. Ticks \/ RunsOut
    BY <1>2, <2>2, GeneralTimerTakes
  <2>5. AliveTimeout \in Nat /\ GeneralTimeout \in Nat
    BY DoIPAssumption
  <2> HIDE DEF st, su
  <2>6. CASE /\ Quiet(Tables, st) /\ st.pend = pend
             /\ st.conn[idx].general = conn[idx].general
    <3>1. CASE Ticks
      <4>1. Quiet(Tables, su)
        BY <2>6, <3>1, TablesFields DEF Quiet
      <4> QED
        BY <1>3, <4>1, QuietRight
    <3>2. CASE RunsOut
      <4>1. TimedOut(idx)
        BY <1>1, <2>6, <3>2 DEF TimedOut
      <4> QED
        BY <1>2, <1>3, <2>6, <3>2, <4>1, TakenIsRight
    <3> QED
      BY <2>4, <3>1, <3>2
  <2>7. CASE /\ TimedOut(idx) /\ Taken(Tables, st, idx)
             /\ IsPending(Tables) => st.conn[idx].general = 0
    <3>1. CASE Ticks
      <4>1. Taken(Tables, su, idx)
        BY <1>2, <2>7, <3>1 DEF Taken
      <4> QED
        BY <1>2, <1>3, <2>7, <4>1, TakenIsRight, TablesFields DEF Quiet
    <3>2. CASE RunsOut
      <4>1. ~IsPending(Tables)
        BY <2>5, <2>7, <3>2 DEF Taken
      <4>2. ~IsPending(st)
        BY <2>7, <4>1 DEF Taken, IsPending
      <4>3. Taken(Tables, su, idx)
        BY <1>2, <2>7, <3>2, <4>1, <4>2 DEF Taken
      <4> QED
        BY <1>2, <1>3, <2>7, <4>3, TakenIsRight, TablesFields DEF Quiet
    <3> QED
      BY <2>4, <3>1, <3>2
  <2> QED
    BY <2>3, <2>6, <2>7
<1> QED
  BY <1>1, <1>3, SeeRight

LEMMA AliveCheckDoneRight ==
    ASSUME IInv, AliveCheckDone
    PROVE  Rightly
<1> DEFINE su == [Tables EXCEPT !.pend = [sock |-> req.sock, sa |-> req.sa,
                                          type |-> req.type, buf |-> TRUE]]
<1>1. \/ Become(Tables)
      \/ ~pend.buf /\ Become(su)
  BY DEF AliveCheckDone
<1>2. su.conn = conn
  BY TablesFields DEF Whole
<1> HIDE DEF su
<1>3. CASE ~pend.buf /\ Become(su)
  BY <1>2, <1>3, TablesFields
  DEF Become, Rightly, TakenRightly, TakenFrom, Registered, PendingAnswered
<1> QED
  BY <1>1, <1>3, SeeRight

-----------------------------------------------------------------------------
LEMMA NextRight == IInv /\ [Next]_vars => Rightly
<1> SUFFICES ASSUME IInv, [Next]_vars PROVE Rightly
  OBVIOUS
<1>1. CASE ScanSocket
  BY <1>1, ScanSocketRight
<1>2. CASE AliveCheckStep
  BY <1>2, AliveCheckStepRight
<1>3. CASE AliveCheckDone
  BY <1>3, AliveCheckDoneRight
<1>4. CASE MainFunctionStep
  BY <1>4, MainFunctionStepRight
<1>5. CASE ScanDone \/ MainFunctionDone \/ DcmFinishes \/ DoIp_HandleTpTransmit
  BY <1>5, SeeRight DEF ScanDone, MainFunctionDone, DcmFinishes, DoIp_HandleTpTransmit
<1>6. CASE PeerBreaks \/ UNCHANGED vars
  BY <1>6, TablesFields
  DEF PeerBreaks, vars, dvars, Rightly, TakenRightly, TakenFrom, Registered,
      PendingAnswered
<1> QED
  BY <1>1, <1>2, <1>3, <1>4, <1>5, <1>6 DEF Next, DoIPTask

\* A registered tester loses its slot only by a timeout or because its alive check
\* request could not be sent, whatever the other testers do and wherever CanTp's
\* task runs in between.
THEOREM SlotsTakenRightly == SafeSpec => NoTakeover
<1>1. IInv /\ [Next]_vars => TakenRightly
  BY NextRight DEF Rightly
<1> QED
  BY <1>1, DoIPInvariant, PTL DEF SafeSpec, NoTakeover

\* A pending activation ends only with an answer to it.
THEOREM PendingIsAnswered == SafeSpec => NeverForgotten
<1>1. IInv /\ [Next]_vars => PendingAnswered
  BY NextRight DEF Rightly
<1> QED
  BY <1>1, DoIPInvariant, PTL DEF SafeSpec, NeverForgotten

-----------------------------------------------------------------------------
(* Who reads "routing successfully activated".                             *)

\* No positive response is among the events of st.
NoGrant(st) ==
    \A s \in Sockets, sa \in Testers : <<"response", s, sa, 16>> \notin st.obs

\* Every tester with a positive response among the events of st is in the table.
GrantsOK(st) ==
    \A s \in Sockets, sa \in Testers : <<"response", s, sa, 16>> \in st.obs =>
        \E c \in Slots : Registered(st, c) /\ st.conn[c].sock = s /\ st.conn[c].sa = sa

\* The events differ.
LEMMA EventsDiffer ==
    \A s, sa, code, x, y, z :
        /\ <<"response", s, sa, code>> # <<"unlisten", x>>
        /\ <<"response", s, sa, code>> # <<"aliveResponse", x, y>>
        /\ <<"response", s, sa, code>> = <<"response", x, y, z>>
              => s = x /\ sa = y /\ code = z
  OBVIOUS

LEMMA GrantsStored ==
    ASSUME NEW su, Become(su), GrantsOK(su)
    PROVE  GrantedIsRegistered'
  BY DEF Become, GrantsOK, GrantedIsRegistered, Registered, Tables

LEMMA NoGrantOK == \A st : NoGrant(st) => GrantsOK(st)
  BY DEF NoGrant, GrantsOK

LEMMA TablesGrant == NoGrant(Tables)
  BY TablesFields DEF NoGrant

\* Closing grants nothing and takes nobody out of the table.
LEMMA CloseGrants ==
    ASSUME NEW st, NEW k, TablesOK(st, k), NEW s \in Sockets
    PROVE  /\ Close(st, s).obs \subseteq st.obs \cup {<<"unlisten", s>>}
           /\ NoGrant(st) => NoGrant(Close(st, s))
           /\ GrantsOK(st) => GrantsOK(Close(st, s))
<1> DEFINE n == SoAd_SocketClose([sock |-> st.sock, fds |-> st.fds], s)
           e == IF st.sock[s].state = "TCP_LISTENING" THEN {<<"unlisten", s>>} ELSE {}
           su == Close(st, s)
<1>1. su = [st EXCEPT !.sock = n.sock, !.fds = n.fds,
                      !.activated[s] = {}, !.obs = @ \cup e]
  BY DEF Close
<1>2. e \subseteq {<<"unlisten", s>>}
  OBVIOUS
<1>3. su.conn = st.conn
  BY CloseFields
<1> HIDE DEF n, e, su
<1>4. su.obs = st.obs \cup e
  BY <1>1 DEF TablesOK, Whole
<1>5. su.obs \subseteq st.obs \cup {<<"unlisten", s>>}
  BY <1>2, <1>4
<1>6. \A x \in Sockets, sa \in Testers :
        <<"response", x, sa, 16>> \in su.obs => <<"response", x, sa, 16>> \in st.obs
  BY <1>5, EventsDiffer
<1> QED
  BY <1>3, <1>5, <1>6 DEF su, NoGrant, GrantsOK, Registered

\* A response with another code grants nothing.
LEMMA RefusalGrants ==
    ASSUME NEW st, NEW k, TablesOK(st, k), NoGrant(st), NEW s \in Sockets, NEW sa,
           NEW code, code # 16, code = 17 => sa \in Testers
    PROVE  NoGrant(Respond(st, s, sa, code))
<1>1. Respond(st, s, sa, code).obs = st.obs \cup {<<"response", s, sa, code>>}
  BY RespondFields
<1> QED
  BY <1>1, EventsDiffer DEF NoGrant

\* A response to a tester with a slot grants what the table says.
LEMMA ConfirmationGrants ==
    ASSUME NEW st, NEW k, TablesOK(st, k), NoGrant(st), NEW s \in Sockets,
           NEW sa \in Testers, NEW code, NEW c \in Slots,
           Registered(st, c), st.conn[c].sock = s, st.conn[c].sa = sa
    PROVE  GrantsOK(Respond(st, s, sa, code))
<1> DEFINE su == Respond(st, s, sa, code)
<1>1. su.obs = st.obs \cup {<<"response", s, sa, code>>} /\ su.conn = st.conn
  BY RespondFields
<1> HIDE DEF su
<1>2. ASSUME NEW x \in Sockets, NEW y \in Testers, <<"response", x, y, 16>> \in su.obs
      PROVE  x = s /\ y = sa
  BY <1>1, <1>2, EventsDiffer DEF NoGrant
<1>3. GrantsOK(su)
  BY <1>1, <1>2 DEF GrantsOK, Registered
<1> QED
  BY <1>3 DEF su

\* What the activation functions note besides.
LEMMA RegisterGrants ==
    ASSUME NEW st, NEW k, TablesOK(st, k), NEW c \in Slots, NEW s, NEW type, NEW sa
    PROVE  RegisterSocket(st, c, s, type, sa).obs = st.obs
  BY DEF RegisterSocket, TablesOK, Whole

LEMMA PendingGrants ==
    ASSUME NEW st, NEW k \in Nat, TablesOK(st, k), NoGrant(st), NEW c \in Slots,
           IsPending(st)
    PROVE  GrantsOK(GrantPending(st, c))
<1> DEFINE p == st.pend
           reg == RegisterSocket(st, c, p.sock, p.type, p.sa)
           res == Respond(reg, p.sock, p.sa, 16)
           su == GrantPending(st, c)
<1>1. p.sock \in Sockets /\ p.sa \in Testers /\ p.type \in Nat
  BY Ranges DEF TablesOK, PendOK, PendRecords, IsPending
<1>2. /\ TablesOK(reg, k) /\ reg.obs = st.obs /\ reg.conn[c].state = "REGISTERED"
      /\ reg.conn[c].sock = p.sock /\ reg.conn[c].sa = p.sa
  BY <1>1, RegisterFields, RegisterGrants
<1>3. NoGrant(reg) /\ Registered(reg, c)
  BY <1>2 DEF NoGrant, Registered
<1> HIDE DEF reg
<1>4. TablesOK(res, k) /\ GrantsOK(res)
  BY <1>1, <1>2, <1>3, RespondFields, ConfirmationGrants
<1>5. su = [res EXCEPT !.pend = NoPending, !.bufs = @ - 1]
  BY DEF GrantPending, reg
<1> HIDE DEF res, su
<1>6. su.obs = res.obs /\ su.conn = res.conn
  BY <1>4, <1>5 DEF TablesOK, Whole
<1>7. GrantsOK(su)
  BY <1>4, <1>6 DEF GrantsOK, Registered
<1> QED
  BY <1>7 DEF su

\* handleTimeout grants the slot it registers, or nothing.
LEMMA TimeoutGrants ==
    ASSUME NEW st, NEW k \in Nat, TablesOK(st, k), NoGrant(st), NEW c \in Slots,
           st.conn[c].sock # NoSock
    PROVE  /\ GrantsOK(HandleTimeout(st, c))
           /\ ~IsPending(st) => NoGrant(HandleTimeout(st, c))
<1> DEFINE closed == Close(st, st.conn[c].sock)
<1>1. st.conn[c].sock \in Sockets
  BY DEF TablesOK, ConnRecords
<1>2. TablesOK(closed, k) /\ closed.pend = st.pend /\ NoGrant(closed)
  BY <1>1, CloseFields, CloseGrants
<1>3. IsPending(closed) <=> IsPending(st)
  BY <1>2 DEF IsPending
<1>4. HandleTimeout(st, c) = IF IsPending(closed) THEN GrantPending(closed, c)
                                                  ELSE FreeSlot(closed, c)
  BY DEF HandleTimeout
<1> HIDE DEF closed
<1>5. CASE IsPending(st)
  BY <1>2, <1>3, <1>4, <1>5, PendingGrants
<1>6. CASE ~IsPending(st)
  <2>1. FreeSlot(closed, c).obs = closed.obs
    BY <1>2 DEF FreeSlot, TablesOK, Whole
  <2>2. NoGrant(FreeSlot(closed, c))
    BY <1>2, <2>1 DEF NoGrant
  <2> QED
    BY <1>3, <1>4, <1>6, <2>2, NoGrantOK
<1> QED
  BY <1>5, <1>6

LEMMA AliveCheckFailsGrants ==
    ASSUME NEW st, NEW k \in Nat, TablesOK(st, k), NoGrant(st), NEW c \in Slots,
           st.conn[c].sock # NoSock
    PROVE  GrantsOK(AliveCheckFails(st, c))
<1> DEFINE slot == [st.conn[c] EXCEPT !.state = "INVALID"]
           gone == [st EXCEPT !.conn[c].state = "INVALID"]
<1>1. slot \in ConnRecords /\ slot.sock = st.conn[c].sock /\ slot.sa = st.conn[c].sa
      /\ slot.state = "INVALID"
  BY DEF TablesOK, ConnRecords
<1>2. /\ Whole(gone) /\ gone.sock = st.sock /\ gone.fds = st.fds
      /\ gone.pend = st.pend /\ gone.bufs = st.bufs /\ gone.obs = st.obs
      /\ gone.activated = st.activated
      /\ gone.conn = [st.conn EXCEPT ![c] = slot]
  BY DEF TablesOK, Whole
<1>3. AliveCheckFails(st, c) =
        IF gone.pend.sock # NoSock THEN HandleTimeout(gone, c)
                                   ELSE Close(gone, gone.conn[c].sock)
  BY DEF AliveCheckFails
<1> HIDE DEF slot, gone
<1>4. /\ gone.conn \in [Slots -> ConnRecords] /\ gone.conn[c] = slot
      /\ \A d \in Slots \ {c} : gone.conn[d] = st.conn[d]
  BY <1>1, <1>2 DEF TablesOK
<1>5. SlotsOK(gone.conn)
  BY <1>1, <1>4 DEF TablesOK, SlotsOK
<1>6. /\ TablesOK(gone, k) /\ NoGrant(gone)
      /\ gone.conn[c].sock # NoSock /\ gone.conn[c].sock \in Sockets
  BY <1>1, <1>2, <1>4, <1>5 DEF TablesOK, NoGrant, ConnRecords
<1> QED
  BY <1>3, <1>6, TimeoutGrants, CloseGrants, NoGrantOK

-----------------------------------------------------------------------------
(* Every action grants only what the table says.                           *)

LEMMA ClosedGrants ==
    ASSUME IInv, pc # "alive", NEW s \in Sockets,
           \/ Become(Close(Tables, s)) \/ Become(Close(Close(Tables, s), s))
    PROVE  GrantedIsRegistered'
<1>1. TablesOK(Close(Tables, s), 0) /\ NoGrant(Close(Tables, s))
  BY Found, CloseFields, TablesGrant, CloseGrants
<1>2. NoGrant(Close(Close(Tables, s), s))
  BY <1>1, CloseGrants
<1> QED
  BY <1>1, <1>2, NoGrantOK, GrantsStored

LEMMA KeptGrants == ASSUME Become(Tables) PROVE GrantedIsRegistered'
  BY TablesGrant, NoGrantOK, GrantsStored

\* Dcm's request and CanTp's answer are other events.
LEMMA SeenGrants ==
    ASSUME NEW x, NEW y, NEW name \in {"diagnostic", "answer"},
           Become(See(Tables, <<name, x, y>>))
    PROVE  GrantedIsRegistered'
<1>1. See(Tables, <<name, x, y>>).obs = {<<name, x, y>>}
  BY TablesFields DEF See, Whole
<1>2. NoGrant(See(Tables, <<name, x, y>>))
  BY <1>1 DEF NoGrant
<1> QED
  BY <1>2, NoGrantOK, GrantsStored

LEMMA ActivationGrants ==
    ASSUME IInv, pc = "scan", idx \in Sockets, RoutingActivation(idx)
    PROVE  GrantedIsRegistered'
<1>0. TablesOK(Tables, 0) /\ NoGrant(Tables)
  BY Found, TablesGrant
<1>1. ASSUME NEW sa, NEW code \in {0, 2, 6},
             Become(Close(Respond(Tables, idx, sa, code), idx))
      PROVE  GrantedIsRegistered'
  <2>1. TablesOK(Respond(Tables, idx, sa, code), 0)
    BY <1>0, RespondFields
  <2>2. NoGrant(Respond(Tables, idx, sa, code))
    BY <1>0, RefusalGrants
  <2> QED
    BY <1>1, <2>1, <2>2, CloseGrants, NoGrantOK, GrantsStored
<1>2. CASE ActivationRefused(idx)
  BY <1>1, <1>2, KeptGrants, ClosedGrants DEF ActivationRefused
<1>3. ASSUME NEW sa \in Testers, NEW type \in Types \ OtherTypes,
             \/ ActivationAssigned(idx, sa, type) \/ ActivationFailed(idx, sa)
             \/ ActivationPends(idx, sa, type)
      PROVE  GrantedIsRegistered'
  <2> DEFINE code == PositiveCode(type)
  <2>1. type \in Nat
    BY TypesAreNats
  <2>2. ASSUME NEW c \in Slots,
               Become(Respond(RegisterSocket(Tables, c, idx, type, sa), idx, sa, code))
        PROVE  GrantedIsRegistered'
    <3> DEFINE reg == RegisterSocket(Tables, c, idx, type, sa)
    <3>1. /\ TablesOK(reg, 0) /\ reg.obs = {} /\ reg.conn[c].state = "REGISTERED"
          /\ reg.conn[c].sock = idx /\ reg.conn[c].sa = sa
      BY <1>0, <2>1, RegisterFields, RegisterGrants, TablesFields
    <3> HIDE DEF reg, code
    <3>2. NoGrant(reg) /\ Registered(reg, c)
      BY <3>1 DEF NoGrant, Registered
    <3>3. GrantsOK(Respond(reg, idx, sa, code))
      BY <3>1, <3>2, ConfirmationGrants
    <3> QED
      BY <2>2, <3>3, GrantsStored DEF reg
  <2>3. ASSUME NEW c \in Slots, FirstSlot(c, SlotsOf(idx)), conn[c].sa = sa,
               Become(Respond(Tables, idx, sa, code))
        PROVE  GrantedIsRegistered'
    <3> HIDE DEF code
    <3>1. Registered(Tables, c) /\ Tables.conn[c].sock = idx /\ Tables.conn[c].sa = sa
      BY <2>3, TablesFields DEF FirstSlot, SlotsOf, RegisteredSlots
    <3>2. GrantsOK(Respond(Tables, idx, sa, code))
      BY <1>0, <3>1, ConfirmationGrants
    <3> QED
      BY <2>3, <3>2, GrantsStored
  <2>4. CASE ActivationAssigned(idx, sa, type)
    BY <2>2, <2>3, <2>4, Ranges DEF ActivationAssigned
  <2>5. CASE ActivationFailed(idx, sa)
    BY <1>1, <2>5 DEF ActivationFailed
  <2>6. CASE ActivationPends(idx, sa, type)
    <3> DEFINE su == [Tables EXCEPT !.bufs = @ + 1]
    <3>1. su.obs = {}
      BY TablesFields DEF Whole
    <3>2. Become(su)
      BY <2>6 DEF ActivationPends
    <3> HIDE DEF su
    <3>3. NoGrant(su)
      BY <3>1 DEF NoGrant
    <3> QED
      BY <3>2, <3>3, NoGrantOK, GrantsStored
  <2> QED
    BY <1>3, <2>4, <2>5, <2>6
<1> QED
  BY <1>2, <1>3 DEF RoutingActivation

\* An alive check response may deny the pending activation.
LEMMA ResponseGrants ==
    ASSUME IInv, pc = "scan", idx \in Sockets, AliveCheckResponse(idx)
    PROVE  GrantedIsRegistered'
<1>0. 1 \notin {16, 17}
  OBVIOUS
<1> PICK sa \in Addresses :
        LET answered == [Tables EXCEPT !.conn =
                [c \in Slots |-> IF conn[c].sock = idx /\ conn[c].sa = sa
                                 THEN [conn[c] EXCEPT !.general = 0, !.awaiting = FALSE]
                                 ELSE conn[c]]]
            seen == See(answered, <<"aliveResponse", idx, sa>>)
            p == pend
            denied == Close(Respond(seen, p.sock, p.sa, 1), p.sock)
        IN  /\ IF /\ \A c \in Slots : ~answered.conn[c].awaiting
                  /\ IsPending(Tables)
               THEN Become([denied EXCEPT !.pend = NoPending, !.bufs = @ - 1])
               ELSE Become(seen)
            /\ NextSocket(idx) /\ KeepsRest
  BY DEF AliveCheckResponse
<1> DEFINE cs == [c \in Slots |-> IF conn[c].sock = idx /\ conn[c].sa = sa
                                  THEN [conn[c] EXCEPT !.general = 0, !.awaiting = FALSE]
                                  ELSE conn[c]]
           answered == [Tables EXCEPT !.conn = cs]
           seen == See(answered, <<"aliveResponse", idx, sa>>)
           res == Respond(seen, pend.sock, pend.sa, 1)
           denied == Close(res, pend.sock)
           su == [denied EXCEPT !.pend = NoPending, !.bufs = @ - 1]
<1>1. TablesOK(Tables, 0)
  BY Found
<1>2. Become(seen) \/ (IsPending(Tables) /\ Become(su))
  OBVIOUS
<1>3. \A c \in Slots : conn[c] \in ConnRecords
  BY <1>1, TablesFields DEF TablesOK
<1>4. \A c \in Slots : /\ cs[c] \in ConnRecords /\ cs[c].sock = conn[c].sock
                       /\ cs[c].sa = conn[c].sa /\ cs[c].state = conn[c].state
  BY <1>3 DEF ConnRecords
<1>5. cs \in [Slots -> ConnRecords]
  BY <1>4
<1> HIDE DEF cs
<1>6. /\ Whole(seen) /\ seen.sock = sock /\ seen.fds = fds /\ seen.conn = cs
      /\ seen.pend = pend /\ seen.bufs = bufs /\ seen.activated = activated
      /\ seen.obs = {<<"aliveResponse", idx, sa>>}
  BY TablesFields DEF Whole, See
<1> HIDE DEF seen, res
<1>7. SameSlots(Tables, seen)
  BY <1>4, <1>5, <1>6, TablesFields DEF SameSlots
<1>8. TablesOK(seen, 0)
  BY <1>1, <1>7, SameSlotsOK
<1>9. NoGrant(seen)
  BY <1>6, EventsDiffer DEF NoGrant
<1>10. CASE IsPending(Tables) /\ Become(su)
  <2>1. pend.sock \in Sockets
    BY <1>1, <1>10, TablesFields DEF IsPending, TablesOK, PendOK, PendRecords
  <2>2. TablesOK(res, 0) /\ NoGrant(res)
    BY ONLY <1>0, <1>8, <1>9, <2>1, RespondFields, RefusalGrants DEF res
  <2>3. TablesOK(denied, 0) /\ NoGrant(denied)
    BY <2>1, <2>2, CloseFields, CloseGrants
  <2> HIDE DEF denied
  <2>4. su.obs = denied.obs
    BY <2>3 DEF TablesOK, Whole
  <2> HIDE DEF su
  <2>5. NoGrant(su)
    BY <2>3, <2>4 DEF NoGrant
  <2> QED
    BY <1>10, <2>5, NoGrantOK, GrantsStored
<1> QED
  BY <1>2, <1>9, <1>10, NoGrantOK, GrantsStored

LEMMA ScanSocketGrants ==
    ASSUME IInv, ScanSocket
    PROVE  GrantedIsRegistered'
<1>1. pc = "scan" /\ idx \in Sockets
  BY Ranges DEF ScanSocket, IInv, RestOK, Sockets
<1>2. CASE obs' = {}
  BY <1>2 DEF GrantedIsRegistered
<1>3. CASE HandleTcpRx(idx)
  <2>1. CASE TcpNothing(idx) \/ TcpBadHeader(idx)
    BY <1>1, <2>1, KeptGrants, ClosedGrants DEF TcpNothing, TcpBadHeader
  <2>2. CASE RoutingActivation(idx)
    BY <1>1, <2>2, ActivationGrants
  <2>3. CASE AliveCheckResponse(idx)
    BY <1>1, <2>3, ResponseGrants
  <2>4. CASE DiagnosticMessage(idx)
    BY <1>1, <2>4, KeptGrants, ClosedGrants, SeenGrants DEF DiagnosticMessage
  <2> QED
    BY <1>3, <2>1, <2>2, <2>3, <2>4 DEF HandleTcpRx
<1>4. CASE HandleUdpRx(idx)
  BY <1>1, <1>4, KeptGrants, ClosedGrants DEF HandleUdpRx
<1> QED
  BY <1>2, <1>3, <1>4 DEF ScanSocket

LEMMA AliveCheckStepGrants ==
    ASSUME IInv, AliveCheckStep
    PROVE  GrantedIsRegistered'
<1> DEFINE checked == [Tables EXCEPT !.conn[idx] =
                          [@ EXCEPT !.awaiting = TRUE, !.general = 0, !.alive = 0]]
<1>1. /\ pc = "alive" /\ idx < MaxConn
      /\ \/ Become(Tables)
         \/ /\ ~(req.single /\ (conn[idx].sa # req.sa \/ conn[idx].awaiting))
            /\ Become(checked) \/ Become(AliveCheckFails(checked, idx))
  BY DEF AliveCheckStep
<1>2. TablesOK(Tables, 1) /\ idx \in Slots
  BY <1>1, Ranges DEF IInv, Looping, RestOK, Slots
<1>3. SameSlots(Tables, checked) /\ checked.obs = {}
  BY <1>2, CheckedSame, TablesFields DEF Whole
<1> HIDE DEF checked
<1>4. TablesOK(checked, 1) /\ NoGrant(checked)
  BY <1>2, <1>3, SameSlotsOK DEF NoGrant
<1>5. ~(req.single /\ (conn[idx].sa # req.sa \/ conn[idx].awaiting))
        => checked.conn[idx].sock # NoSock
  BY <1>1, <1>2, <1>3, TablesFields
  DEF IInv, LoopOK, TablesOK, SlotsOK, SameSlots
<1>6. CASE /\ ~(req.single /\ (conn[idx].sa # req.sa \/ conn[idx].awaiting))
           /\ Become(AliveCheckFails(checked, idx))
  BY <1>2, <1>4, <1>5, <1>6, AliveCheckFailsGrants, GrantsStored
<1> QED
  BY <1>1, <1>4, <1>6, KeptGrants, NoGrantOK, GrantsStored

\* A slot granted in the first half of the iteration is not given up in the second,
\* because registerSocket sets its inactivity to 0.
LEMMA MainFunctionStepGrants ==
    ASSUME IInv, MainFunctionStep
    PROVE  GrantedIsRegistered'
<1>1. /\ pc = "main" /\ idx < MaxConn
      /\ \/ Become(Tables)
         \/ /\ Registered(Tables, idx)
            /\ Become(GeneralTimer(AliveTimer(Tables, idx), idx))
  BY DEF MainFunctionStep
<1>2. TablesOK(Tables, 0) /\ idx \in Slots
  BY <1>1, Found, Ranges DEF IInv, RestOK, Slots
<1>0. AliveTimeout \in Nat /\ GeneralTimeout \in Nat
  BY DoIPAssumption
<1> DEFINE sta == [Tables EXCEPT !.conn[idx].alive = @ + 1]
           st == AliveTimer(Tables, idx)
           stg == [st EXCEPT !.conn[idx].general = @ + 1]
           su == GeneralTimer(st, idx)
<1>3. CASE Registered(Tables, idx) /\ Become(su)
  <2>1. Tables.conn[idx].sock # NoSock
    BY <1>2, <1>3 DEF Registered, TablesOK, SlotsOK
  <2>2. TablesOK(st, 0) /\ st.conn[idx].sock # NoSock
    BY <1>2, <2>1, TimersOK
  <2>3. sta.obs = {} /\ NoGrant(sta)
    BY TablesFields DEF Whole, NoGrant
  <2>4. /\ GrantsOK(HandleTimeout(Tables, idx))
        /\ ~IsPending(Tables) => NoGrant(HandleTimeout(Tables, idx))
        /\ IsPending(Tables) => HandleTimeout(Tables, idx).conn[idx].general = 0
    BY <1>2, <2>1, TablesGrant, TimeoutGrants, HandleTimeoutFields
  <2>5. st \in {Tables, sta, HandleTimeout(Tables, idx)}
    BY DEF AliveTimer
  <2>6. GrantsOK(st) /\ (NoGrant(st) \/ st.conn[idx].general = 0)
    <3> HIDE DEF st, sta
    <3> QED
      BY <2>3, <2>4, <2>5, TablesGrant, NoGrantOK
  <2> HIDE DEF st, sta
  <2>7. \/ su = stg
        \/ st.conn[idx].general > GeneralTimeout /\ su = HandleTimeout(st, idx)
    <3>1. st.conn[idx].general \in Nat
      BY <1>2, <2>2 DEF TablesOK, ConnRecords
    <3> QED
      BY <1>0, <3>1 DEF GeneralTimer
  <2>8. CASE su = stg
    <3> DEFINE slot == [st.conn[idx] EXCEPT !.general = @ + 1]
    <3>1. stg.obs = st.obs /\ stg.conn = [st.conn EXCEPT ![idx] = slot]
      BY <2>2 DEF TablesOK, Whole
    <3>2. /\ st.conn \in [Slots -> ConnRecords]
          /\ slot.sock = st.conn[idx].sock /\ slot.sa = st.conn[idx].sa
          /\ slot.state = st.conn[idx].state
      BY <1>2, <2>2 DEF TablesOK, ConnRecords
    <3> HIDE DEF stg, slot
    <3>3. \A c \in Slots : stg.conn[c] = IF c = idx THEN slot ELSE st.conn[c]
      BY <1>2, <3>1, <3>2
    <3>4. \A c \in Slots : /\ stg.conn[c].sock = st.conn[c].sock
                           /\ stg.conn[c].sa = st.conn[c].sa
                           /\ stg.conn[c].state = st.conn[c].state
      BY <3>2, <3>3
    <3>5. GrantsOK(stg)
      BY <2>6, <3>1, <3>4 DEF GrantsOK, Registered
    <3> QED
      BY <1>3, <2>8, <3>5, GrantsStored
  <2>9. CASE st.conn[idx].general > GeneralTimeout /\ su = HandleTimeout(st, idx)
    <3>1. NoGrant(st)
      BY <2>6, <1>0, <2>9
    <3>2. GrantsOK(HandleTimeout(st, idx))
      BY <1>2, <2>2, <3>1, TimeoutGrants
    <3> QED
      BY <1>3, <2>9, <3>2, GrantsStored
  <2> QED
    BY <2>7, <2>8, <2>9
<1> QED
  BY <1>1, <1>3, KeptGrants

LEMMA AliveCheckDoneGrants ==
    ASSUME IInv, AliveCheckDone
    PROVE  GrantedIsRegistered'
<1> DEFINE su == [Tables EXCEPT !.pend = [sock |-> req.sock, sa |-> req.sa,
                                          type |-> req.type, buf |-> TRUE]]
<1>1. Become(Tables) \/ Become(su)
  BY DEF AliveCheckDone
<1>2. su.obs = {}
  BY TablesFields DEF Whole
<1> HIDE DEF su
<1>3. NoGrant(su)
  BY <1>2 DEF NoGrant
<1> QED
  BY <1>1, <1>3, KeptGrants, NoGrantOK, GrantsStored

LEMMA NextGrants == IInv /\ GrantedIsRegistered /\ [Next]_vars => GrantedIsRegistered'
<1> SUFFICES ASSUME IInv, GrantedIsRegistered, [Next]_vars PROVE GrantedIsRegistered'
  OBVIOUS
<1>1. CASE ScanSocket
  BY <1>1, ScanSocketGrants
<1>2. CASE AliveCheckStep
  BY <1>2, AliveCheckStepGrants
<1>3. CASE AliveCheckDone
  BY <1>3, AliveCheckDoneGrants
<1>4. CASE MainFunctionStep
  BY <1>4, MainFunctionStepGrants
<1>5. CASE ScanDone \/ MainFunctionDone \/ DcmFinishes \/ DoIp_HandleTpTransmit
  BY <1>5, KeptGrants, SeenGrants
  DEF ScanDone, MainFunctionDone, DcmFinishes, DoIp_HandleTpTransmit
<1>6. CASE PeerBreaks
  BY <1>6 DEF PeerBreaks, GrantedIsRegistered
<1>7. CASE UNCHANGED vars
  BY <1>7 DEF vars, dvars, GrantedIsRegistered, Registered, Tables
<1> QED
  BY <1>1, <1>2, <1>3, <1>4, <1>5, <1>6, <1>7 DEF Next, DoIPTask

\* A tester that reads "routing successfully activated" has a slot with its address and
\* the socket it reads from, in whichever of the ways it came by the answer: at once
\* (socketHandle), after a timeout (handleTimeout), or after an alive check that could
\* not be sent (createAndSendAliveCheck).
THEOREM GrantsAreInTheTable == SafeSpec => []GrantedIsRegistered
<1>1. Init => GrantedIsRegistered
  BY DEF Init, DoIP_Init, GrantedIsRegistered
<1>2. IInv /\ GrantedIsRegistered /\ [Next]_vars => GrantedIsRegistered'
  BY NextGrants
<1> QED
  BY <1>1, <1>2, DoIPInvariant, PTL DEF SafeSpec
=============================================================================
