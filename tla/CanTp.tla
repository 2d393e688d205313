------------------------------- MODULE CanTp -------------------------------
(***************************************************************************)
(* Requests that arrive over CAN: the receiving half of the ISO 15765       *)
(* transport layer (CanTp.c) on physical channel 1, the gate of the         *)
(* diagnostic module (Dcm_Cbk.c, Dcm.c) that it shares with the functional  *)
(* channel and with DoIP, and the way of the answer, which CanTp hands over *)
(* to DoIp_HandleTpTransmit whoever has asked.                              *)
(*                                                                         *)
(* CAN interrupts deliver frames and confirm flow controls; the CAN task    *)
(* runs CanTp_MainFunction and Dcm_MainFunction every 10 ms; the doip task  *)
(* gives Dcm its requests.  Lengths are counted in frames.                  *)
(***************************************************************************)
EXTENDS Integers, Sequences

CONSTANTS
    BS,            \* CANTP_BS: consecutive frames per flow control
    SnMod,         \* cCanTp_SNMask + 1
    BufSize,       \* UDS_PHYS_BUFFER_SIZE
    NAr, NCr,      \* N_Ar and N_Cr in calls of the main function
    MaxRcrrp,      \* responses "pending" to one request
    Lengths,       \* bound: the numbers of frames that requests have
    MaxRequests,   \* bound: requests of a run
    MaxFaults      \* bound: frames lost or doubled, and impatient testers, in a run

ASSUME CanTpAssumption ==
    /\ {BS, SnMod, BufSize, NAr, NCr} \cup Lengths \subseteq Nat \ {0}
    /\ BS < SnMod
    /\ {MaxRcrrp, MaxRequests, MaxFaults} \subseteq Nat

\* Frame k of request id, which has n frames.
Whole(s) ==
    /\ s # <<>>
    /\ Len(s) = s[1].n
    /\ \A i \in 1 .. Len(s) : s[i] = [id |-> s[1].id, k |-> i - 1, n |-> s[1].n]

VARIABLES
    rx,       \* Admin.pRxState[1]; left is DataLength
    tx,       \* Admin.pTxState[1]: an answer waits to be handed to DoIP
    dcm,      \* gDiagState, the request buffer, P2, the answer to be repeated
    pc,       \* the CAN task: "rx", "tx", "service", "timer", "repeat" or "dispatch"
    doip,     \* the request DoIP is giving to Dcm: "none", "tested" or "started"
    mail,     \* flow controls on their way: the mailbox and CanIf's buffer
    tester,   \* the tester on the CAN bus
    sent,     \* requests sent so far
    faults,   \* frames lost or doubled, and times a tester was impatient, so far
    got,      \* history: the frames of the reception in progress
    open,     \* history: receptions Dcm has accepted and not been told the end of
    told,     \* history: what the last step told Dcm of physical receptions
    flaws     \* history: the ways round the gate that have been taken, see below

vars == <<rx, tx, dcm, pc, doip, mail, tester, sent, faults, got, open, told, flaws>>

IdleRx == [state |-> "Idle", timer |-> 0, sn |-> 0, block |-> 0, left |-> 0]
NoDoip == [st |-> "none", id |-> 0, n |-> 0]
Resting == [st |-> "idle", id |-> 0, n |-> 0, next |-> 0, credit |-> 0]
IdleDcm == [flags |-> {"idle"}, avail |-> BufSize, buf |-> <<>>, p2 |-> FALSE,
            handler |-> FALSE, repeat |-> FALSE, pdu |-> FALSE,
            rcrrp |-> MaxRcrrp]

Init ==
    /\ rx = IdleRx /\ tx = FALSE
    /\ dcm = IdleDcm
    /\ pc = "rx"
    /\ doip = NoDoip
    /\ mail = <<>>
    /\ tester = Resting
    /\ sent = 0 /\ faults = 0
    /\ got = <<>> /\ open = 0 /\ told = {} /\ flaws = {}

\* What a handler works on, and its results.
State == [rx |-> rx, tx |-> tx, dcm |-> dcm, got |-> got, open |-> open,
          told |-> {}, flaws |-> flaws]
Become(s) ==
    /\ rx' = s.rx /\ tx' = s.tx /\ dcm' = s.dcm /\ got' = s.got
    /\ open' = s.open /\ told' = s.told /\ flaws' = s.flaws

-----------------------------------------------------------------------------
(* What Dcm offers its callers.                                            *)

\* Mutant of StartResult: only a request being processed closes the gate, as in the
\* condition that is commented out.
StartResultProcessing(d, n) ==
    IF "processing" \in d.flags THEN "NOT_OK" ELSE IF n > d.avail THEN "OVFL" ELSE "OK"

\* Dcm_StartOfReception.
StartResult(d, n) ==
    IF d.flags # {"idle"} THEN "NOT_OK" ELSE IF n > d.avail THEN "OVFL" ELSE "OK"
Started(d) == [d EXCEPT !.flags = @ \ {"idle"}, !.buf = <<>>]

\* Dcm_CopyRxData.
Busy(d) == d.flags = {"processing"}
Copied(d, s) ==
    IF Busy(d) THEN d ELSE [d EXCEPT !.buf = @ \o s, !.avail = @ - Len(s)]

\* Dcm_RxIndication.
Indicated(d, result) ==
    IF result = "OK"
    THEN [d EXCEPT !.flags = @ \cup {"indication"}, !.avail = BufSize, !.p2 = TRUE,
                   !.pdu = TRUE]
    ELSE [d EXCEPT !.flags = {"idle"}, !.avail = BufSize]

\* Dsd_InteralInit.
Dsd_InteralInit(d) ==
    [d EXCEPT !.flags = {"idle"}, !.p2 = FALSE, !.handler = FALSE, !.pdu = FALSE,
              !.rcrrp = MaxRcrrp]

\* Dcm_TxConfirmation; DIAG_IDLE is a bit like the others.
Confirmed(d, ok) ==
    LET left == d.flags \ {"processing"}
    IN  IF ~ok THEN Dsd_InteralInit(d)
        ELSE IF "rcrp" \in d.flags THEN [d EXCEPT !.flags = @ \ {"rcrp"}]
        ELSE [d EXCEPT !.flags = IF left = {} THEN {"idle"} ELSE left, !.pdu = FALSE]

-----------------------------------------------------------------------------
(* The receive channel.                                                    *)

\* Dcm is told how the reception ended, and the channel is initialised.
EndRx(s, result) ==
    [s EXCEPT !.rx = IdleRx, !.dcm = Indicated(@, result),
              !.open = IF @ = 0 THEN 0 ELSE @ - 1,
              !.told = @ \cup {[result |-> result, frames |-> s.got]},
              !.got = <<>>]

\* A new message while one is being received, or (the first flaw) while the flow
\* control that refuses one is under way: Dcm, which has not accepted that one, is
\* told of its end, and forgets whatever it is doing.
Unaccepted == {"WaitForTxFCOverrunFFReqBuff", "WaitForFCOverConfFFReqBuff"}
Unexpected(s) ==
    IF s.rx.state = "Idle" THEN s
    ELSE [EndRx(s, "UNEXP_PDU") EXCEPT
             !.flaws = IF s.rx.state \in Unaccepted THEN @ \cup {"unaccepted"} ELSE @]

Taken(s, f) ==
    [s EXCEPT !.dcm = Copied(@, <<f>>),
              !.got = IF Busy(s.dcm) THEN @ ELSE Append(@, f)]

\* A message is begun, and its first frame copied; Dcm has just left its idle
\* state, so that it does not refuse the copy.
Begun(s, f) == Taken([s EXCEPT !.dcm = Started(@), !.open = @ + 1, !.got = <<>>], f)

\* Mutant of RxSFPdu: Dcm is told of the end of a message it has refused.
RxSFPduTells(s, f) ==
    LET u == Unexpected(s)
    IN  IF s.tx THEN s
        ELSE IF StartResult(u.dcm, 1) # "OK" THEN EndRx(u, "NO_BUFFER")
        ELSE EndRx(Begun(u, f), "OK")

\* L_CanTp_RxSFPdu.
RxSFPdu(s, f) ==
    LET u == Unexpected(s)
    IN  IF s.tx THEN s
        ELSE IF StartResult(u.dcm, 1) # "OK" THEN u
        ELSE EndRx(Begun(u, f), "OK")

\* L_CanTp_MinBufferAccess: may the sender go on with a block?
MinBufferAccess(s) ==
    LET min == IF s.rx.left < BS THEN s.rx.left ELSE BS
    IN  [s EXCEPT !.rx.timer = 0,
                  !.rx.state = IF s.dcm.avail >= min THEN "WaitForTxFC"
                                                     ELSE "WaitForTxFCOverrun"]

\* L_CanTp_RxFFPdu.
RxFFPdu(s, f) ==
    LET u == Unexpected(s)
        r == StartResult(u.dcm, f.n)
    IN  IF s.tx THEN s
        ELSE IF r = "NOT_OK" THEN u
        ELSE IF r = "OVFL"
        THEN [u EXCEPT !.rx.state = "WaitForTxFCOverrunFFReqBuff"]
        ELSE MinBufferAccess(
                 [Begun(u, f) EXCEPT !.rx.sn = 1 % SnMod, !.rx.block = BS,
                                     !.rx.left = f.n - 1])

\* Mutant of GoingCF: the count of the block is not restarted.
GoingCFBlockOnce(s, f) ==
    LET t == [Taken(s, f) EXCEPT
                !.rx.timer = NCr,
                !.rx.sn = (@ + 1) % SnMod,
                !.rx.block = @ - 1,
                !.rx.left = IF Busy(s.dcm) THEN @ ELSE @ - 1]
    IN  IF s.rx.block <= 1 THEN MinBufferAccess(t) ELSE t

\* L_CanTp_RxCFPdu, not the last frame of the message.
GoingCF(s, f) ==
    LET t == [Taken(s, f) EXCEPT
                !.rx.timer = NCr,
                !.rx.sn = (@ + 1) % SnMod,
                !.rx.block = IF @ = 1 THEN BS ELSE @ - 1,
                !.rx.left = IF Busy(s.dcm) THEN @ ELSE @ - 1]
    IN  IF ~Busy(s.dcm)
        THEN IF s.rx.block = 1 THEN MinBufferAccess(t) ELSE t
        ELSE IF s.rx.block = 1
        THEN [t EXCEPT !.rx.state = "WaitForTxFCOverrun", !.rx.timer = 1]
        ELSE EndRx(t, "NO_BUFFER")

\* Mutant of RxCFPdu: the sequence number is not checked.
RxCFPduAnySN(s, f) ==
    IF s.rx.state # "WaitCF" THEN s
    ELSE IF s.rx.left > 1 THEN GoingCF(s, f)
    ELSE EndRx(Taken(s, f), IF Busy(s.dcm) THEN "NO_BUFFER" ELSE "OK")

RxCFPdu(s, f) ==
    IF s.rx.state # "WaitCF" THEN s
    ELSE IF f.k % SnMod # s.rx.sn THEN EndRx(s, "WRONG_SN")
    ELSE IF s.rx.left > 1 THEN GoingCF(s, f)
    ELSE EndRx(Taken(s, f), IF Busy(s.dcm) THEN "NO_BUFFER" ELSE "OK")

\* CanTp_RxIndication on the physical channel.
RxIndication(s, f) ==
    IF f.n = 1 THEN RxSFPdu(s, f) ELSE IF f.k = 0 THEN RxFFPdu(s, f)
                                                  ELSE RxCFPdu(s, f)

-----------------------------------------------------------------------------
(* The bus.  A frame of the tester is delivered once, or not, or twice.    *)

Deliver(f) ==
    \/ Become(RxIndication(State, f)) /\ UNCHANGED faults
    \/ /\ faults < MaxFaults /\ faults' = faults + 1
       /\ \/ Become(State)
          \/ Become(RxIndication(RxIndication(State, f), f))

MayAsk == tester.st \in {"idle", "send"} /\ sent < MaxRequests

\* A request in one frame, or the first frame of a longer one; the tester may drop
\* a request it is sending for a new one.
Ask ==
    /\ MayAsk
    /\ \E n \in Lengths :
          /\ Deliver([id |-> sent + 1, k |-> 0, n |-> n])
          /\ tester' = IF n = 1 THEN Resting
                       ELSE [st |-> "wait", id |-> sent + 1, n |-> n, next |-> 1,
                             credit |-> 0]
    /\ sent' = sent + 1
    /\ UNCHANGED <<pc, doip, mail>>

SendCF ==
    /\ tester.st = "send"
    /\ Deliver([id |-> tester.id, k |-> tester.next, n |-> tester.n])
    /\ tester' = IF tester.next + 1 = tester.n THEN Resting
                 ELSE [tester EXCEPT !.next = @ + 1, !.credit = @ - 1,
                                     !.st = IF tester.credit = 1 THEN "wait" ELSE "send"]
    /\ UNCHANGED <<pc, doip, mail, sent>>

\* A functional request has one frame, and a channel, a PDU and a buffer of its
\* own; 3E 80 only shows that a tester is present, and leaves Dcm idle.
AskAll ==
    /\ sent < MaxRequests /\ sent' = sent + 1
    /\ IF StartResult(dcm, 1) = "NOT_OK" THEN Become(State)
       ELSE LET d == [Started(dcm) EXCEPT !.buf = <<[id |-> sent + 1, k |-> 0, n |-> 1]>>]
            IN  Become([State EXCEPT !.dcm =
                    [d EXCEPT !.flags = @ \cup {"indication"}, !.p2 = TRUE, !.pdu = TRUE]])
                \/ Become([State EXCEPT !.dcm = [d EXCEPT !.flags = {"idle"}, !.pdu = FALSE]])
    /\ UNCHANGED <<pc, doip, mail, tester, faults>>

\* The oldest flow control has been sent: CanTp_TxConfirmation, whichever state the
\* channel is in by now; the tester gets it or misses it.
Confirmation(s) ==
    IF s.rx.state = "WaitForFCConf"
    THEN [s EXCEPT !.rx.state = "WaitCF", !.rx.timer = NCr]
    ELSE IF s.rx.state = "WaitForFCOverConf" THEN EndRx(s, "NO_BUFFER")
    ELSE IF s.rx.state = "WaitForFCOverConfFFReqBuff" THEN [s EXCEPT !.rx = IdleRx]
    ELSE s

CanTp_TxConfirmation ==
    /\ mail # <<>> /\ mail' = Tail(mail)
    /\ Become(Confirmation(State))
    /\ \/ /\ tester' = IF tester.st # "wait" THEN tester
                       ELSE IF Head(mail) = "CTS"
                       THEN [tester EXCEPT !.st = "send", !.credit = BS]
                       ELSE Resting
          /\ UNCHANGED faults
       \/ /\ faults < MaxFaults /\ faults' = faults + 1
          /\ UNCHANGED tester
    /\ UNCHANGED <<pc, doip, sent>>

\* The tester does not wait for the flow control any longer.  One that does so while
\* the ECU still tries to send it (its N_Bs is shorter than N_Ar, or it has something
\* else to ask) counts as a fault.
GiveUp ==
    /\ tester.st = "wait" /\ tester' = Resting
    /\ \/ /\ mail = <<>> /\ rx.state \in {"Idle", "WaitCF"}
          /\ UNCHANGED faults
       \/ faults < MaxFaults /\ faults' = faults + 1
    /\ Become(State)
    /\ UNCHANGED <<pc, doip, mail, sent>>

-----------------------------------------------------------------------------
(* A request over DoIP: handleDiagnosticMessage.  The CAN interrupts may come  *)
(* between any two of its calls, and (the second flaw) between the test and    *)
(* the clear of the idle bit within Dcm_StartOfReception.                      *)

DoipTests ==
    /\ doip.st = "none" /\ sent < MaxRequests /\ sent' = sent + 1
    /\ \E n \in Lengths :
          doip' = IF StartResult(dcm, n) = "OK"
                  THEN [st |-> "tested", id |-> sent + 1, n |-> n] ELSE NoDoip
    /\ Become(State)
    /\ UNCHANGED <<pc, mail, tester, faults>>

DoipStarts ==
    /\ doip.st = "tested" /\ doip' = [doip EXCEPT !.st = "started"]
    /\ Become([State EXCEPT !.dcm = Started(@),
                            !.flaws = IF dcm.flags = {"idle"} THEN @
                                      ELSE @ \cup {"race"}])
    /\ UNCHANGED <<pc, mail, tester, sent, faults>>

DoipFinishes ==
    /\ doip.st = "started" /\ doip' = NoDoip
    /\ LET whole == [i \in 1 .. doip.n |-> [id |-> doip.id, k |-> i - 1, n |-> doip.n]]
       IN  Become([State EXCEPT !.dcm = Indicated(Copied(@, whole), "OK")])
    /\ UNCHANGED <<pc, mail, tester, sent, faults>>

-----------------------------------------------------------------------------
(* The CAN task: CanTp_MainFunction, one half with the interrupts masked after *)
(* the other, and Dcm_MainFunction, function by function.                      *)

\* The flow control that is due in a state, and the state that waits for its
\* confirmation.
FlowControl ==
    [WaitForTxFC                 |-> [fc |-> "CTS",   state |-> "WaitForFCConf"],
     WaitForTxFCOverrun          |-> [fc |-> "OVFLW", state |-> "WaitForFCOverConf"],
     WaitForTxFCOverrunFFReqBuff |-> [fc |-> "OVFLW",
                                      state |-> "WaitForFCOverConfFFReqBuff"]]

\* CanIf keeps one frame of a PDU for the time its mailbox is busy, the last.
Posted(fc) == IF Len(mail) = 2 THEN <<mail[1], fc>> ELSE Append(mail, fc)

Due == rx.state # "Idle" /\ rx.timer <= 1

\* Mutant of TimedOut: Dcm is told nothing.
TimedOutSilently(s) == [s EXCEPT !.rx = IdleRx]

\* A timer that has run out ends the reception, and Dcm is told unless it has not
\* accepted it.  The flow control in the mailbox is not taken back.
TimedOut(s) ==
    IF s.rx.state = "WaitForFCOverConfFFReqBuff" THEN [s EXCEPT !.rx = IdleRx]
    ELSE EndRx(s, "TIMEOUT")

L_CanTp_RxMainFunction ==
    /\ pc = "rx" /\ pc' = "tx"
    /\ \/ /\ ~Due
          /\ Become([State EXCEPT !.rx.timer = IF @ = 0 THEN 0 ELSE @ - 1])
          /\ UNCHANGED mail
       \/ /\ Due /\ rx.state \in DOMAIN FlowControl
          /\ Become([State EXCEPT !.rx.timer = NAr, !.rx.state = FlowControl[@].state])
          /\ mail' = Posted(FlowControl[rx.state].fc)
       \/ /\ Due /\ rx.state \notin DOMAIN FlowControl
          /\ Become(TimedOut(State))
          /\ UNCHANGED mail
    /\ UNCHANGED <<doip, tester, sent, faults>>

\* An answer is handed to DoIP, which refuses it (CanTp forgets it and Dcm is not
\* told: a flaw), sends it, or fails to; a failure ends the request, but not the
\* repetition of an answer that waits behind a "pending" (another flaw).
L_CanTp_TxMainFunction ==
    /\ pc = "tx" /\ pc' = "service"
    /\ IF ~tx THEN Become(State)
       ELSE \/ Become([State EXCEPT !.tx = FALSE, !.flaws = @ \cup {"lost"}])
            \/ \E ok \in BOOLEAN :
                  Become([State EXCEPT !.tx = FALSE, !.dcm = Confirmed(@, ok),
                            !.flaws = IF ~ok /\ dcm.repeat THEN @ \cup {"stale"} ELSE @])
    /\ UNCHANGED <<doip, mail, tester, sent, faults>>

\* CanTp_Transmit: the channel is half duplex.
CanTransmit(s) == ~s.tx /\ s.rx.state = "Idle"

\* DsdInternal_ProcessingDone with an answer; one that CanTp does not take now is
\* repeated.  Without a PDU nothing is sent, which counts as success.
ProcessingDone(s) ==
    LET ok == ~s.dcm.pdu \/ CanTransmit(s)
    IN  [s EXCEPT !.tx = @ \/ (s.dcm.pdu /\ ok),
                  !.dcm = [s.dcm EXCEPT !.repeat = ~ok, !.p2 = IF ok THEN FALSE ELSE @,
                                        !.handler = FALSE, !.rcrrp = MaxRcrrp]]

\* A service has more to do, or is done with or without an answer.
Serve(s) ==
    \/ Become([s EXCEPT !.dcm.handler = TRUE])
    \/ Become(ProcessingDone(s))
    \/ Become([s EXCEPT !.dcm = Dsd_InteralInit(@)])

UdsRepeatServiceCall ==
    /\ pc = "service" /\ pc' = "timer"
    /\ IF "processing" \in dcm.flags /\ dcm.handler THEN Serve(State) ELSE Become(State)
    /\ UNCHANGED <<doip, mail, tester, sent, faults>>

\* Mutant of P2Expires: the "pending" messages are not counted.
P2ExpiresUncounted ==
    /\ pc = "timer" /\ pc' = "repeat"
    /\ dcm.p2 /\ "indication" \notin dcm.flags
    /\ Become([State EXCEPT
                !.tx = @ \/ CanTransmit(State), !.dcm.flags = @ \cup {"rcrp"},
                !.flaws = IF CanTransmit(State) THEN @ ELSE @ \cup {"pending"}])
    /\ UNCHANGED <<doip, mail, tester, sent, faults>>

\* P2 runs out, which takes longer than a request waits to be dispatched: the tester
\* is asked for patience (whether CanTp takes the message is not looked at: a flaw),
\* or, after the last time, refused.
P2Expires ==
    /\ pc = "timer" /\ pc' = "repeat"
    /\ dcm.p2 /\ "indication" \notin dcm.flags
    /\ IF dcm.rcrrp > 0
       THEN Become([State EXCEPT
                !.tx = @ \/ CanTransmit(State),
                !.dcm = [dcm EXCEPT !.flags = @ \cup {"rcrp"}, !.rcrrp = @ - 1],
                !.flaws = IF CanTransmit(State) THEN @ ELSE @ \cup {"pending"}])
       ELSE Become([ProcessingDone(State) EXCEPT !.dcm.p2 = FALSE])
    /\ UNCHANGED <<doip, mail, tester, sent, faults>>

P2Runs ==
    /\ pc = "timer" /\ pc' = "repeat"
    /\ Become(State)
    /\ UNCHANGED <<doip, mail, tester, sent, faults>>

RepeatTransmitCheck ==
    /\ pc = "repeat" /\ pc' = "dispatch"
    /\ IF ~dcm.repeat THEN Become(State)
       ELSE IF CanTransmit(State)
       THEN Become([State EXCEPT !.tx = TRUE,
                !.dcm = [dcm EXCEPT !.repeat = FALSE, !.p2 = FALSE, !.handler = FALSE]])
       ELSE Become([State EXCEPT !.dcm.handler = FALSE])
    /\ UNCHANGED <<doip, mail, tester, sent, faults>>

UdsSidDispatcher ==
    /\ pc = "dispatch" /\ pc' = "rx"
    /\ IF "indication" \in dcm.flags
       THEN Serve([State EXCEPT
                !.dcm.flags = (@ \ {"indication"}) \cup {"processing"}])
       ELSE Become(State)
    /\ UNCHANGED <<doip, mail, tester, sent, faults>>

-----------------------------------------------------------------------------
CanTask == \/ L_CanTp_RxMainFunction \/ L_CanTp_TxMainFunction
           \/ UdsRepeatServiceCall \/ P2Expires \/ P2Runs
           \/ RepeatTransmitCheck \/ UdsSidDispatcher
DoipTask == DoipStarts \/ DoipFinishes

Next == \/ Ask \/ SendCF \/ AskAll \/ CanTp_TxConfirmation \/ GiveUp
        \/ DoipTests \/ DoipTask \/ CanTask

\* Both tasks go on, and P2, which is counted down in every cycle, runs out.  No
\* fairness is assumed of the bus, the testers, or a service.
Fairness == WF_vars(CanTask) /\ WF_vars(DoipTask) /\ SF_vars(P2Expires)

Spec == Init /\ [][Next]_vars /\ Fairness

-----------------------------------------------------------------------------
(* Properties.                                                             *)

\* The states of a reception that Dcm has accepted, and the others.
Receiving == {"WaitForTxFC", "WaitForFCConf", "WaitCF", "WaitForTxFCOverrun",
              "WaitForFCOverConf"}
RxStates == Receiving \cup Unaccepted \cup {"Idle"}
Flags == {"idle", "indication", "processing", "rcrp"}
Flaws == {"unaccepted", "race", "pending", "lost", "stale"}

\* The variables stay in their ranges: the buffer is never filled beyond its size,
\* and the counters of a block and of a message never fall below what is left.
CanTpTypeOK ==
    /\ rx \in [state : RxStates, timer : 0 .. (IF NAr > NCr THEN NAr ELSE NCr),
               sn : 0 .. SnMod - 1, block : 0 .. BS, left : 0 .. BufSize]
    /\ tx \in BOOLEAN
    /\ dcm.flags \in SUBSET Flags /\ dcm.avail \in 0 .. BufSize
    /\ dcm.rcrrp \in 0 .. MaxRcrrp
    /\ \A x \in {dcm.p2, dcm.handler, dcm.repeat, dcm.pdu} : x \in BOOLEAN
    /\ pc \in {"rx", "tx", "service", "timer", "repeat", "dispatch"}
    /\ doip.st \in {"none", "tested", "started"}
    /\ tester.st \in {"idle", "wait", "send"}
    /\ Len(mail) <= 2 /\ open \in Nat /\ flaws \subseteq Flaws

\* A message whose reception CanTp reports as good is one message of the tester,
\* whole and in order: a frame may be lost or doubled, the tester may break off, and
\* a flow control may go out late.  (A lost first frame together with an impatient
\* tester is more than the sequence number can tell.)
WholeMessage ==
    \A t \in told : t.result = "OK" => Whole(t.frames)

\* Every reception that Dcm has accepted is one the channel is still working on:
\* none is dropped, by a timeout, an overflow, a wrong frame or a new message,
\* without Dcm being told, after which it would refuse every request.
NoneDropped == open = IF rx.state \in Receiving THEN 1 ELSE 0

\* The three ways round the gate.
Broken(fl) == fl \cap {"unaccepted", "race", "stale"} # {}

\* While the channel receives, the buffer holds what it has received and the gate is
\* closed; while DoIP hands a request over, the gate is closed and nothing is received.
TakesTurns ==
    /\ rx.state \in Receiving => dcm.buf = got /\ dcm.flags = {}
    /\ doip.st = "started" => dcm.flags = {} /\ open = 0

\* Physical, functional and DoIP requests take turns, unless the gate has been gone
\* round: a request that Dcm is to serve, or is serving, is one whole request of one
\* client, and nobody else starts while one is being received.
OneRequestAtATime ==
    ~Broken(flaws) =>
        /\ dcm.flags \cap {"indication", "processing"} # {} => Whole(dcm.buf)
        /\ TakesTurns

\* A request that Dcm is to serve or is serving ends when the CAN task is done with
\* it, never on behalf of another client's frame, but for the same flaws.
ServedToTheEnd ==
    [][ /\ dcm.flags \cap {"indication", "processing"} # {}
        /\ dcm'.flags \cap {"indication", "processing"} = {}
        /\ ~Broken(flaws')
        => pc # "rx" /\ pc' # pc ]_vars

\* Dcm ends every request it accepts and is open to the next, even if a service is
\* never done and no flow control is ever sent, but for the flaws.
RequestEnds == dcm.flags # {"idle"} ~> dcm.flags = {"idle"} \/ flaws # {}
=============================================================================
