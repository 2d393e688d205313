------------------------------ MODULE SpiLink ------------------------------
(***************************************************************************)
(* The link to the SoC, FML/comModule/com_soc_fml.c.  The SoC is the master *)
(* of the SPI: the MCU arms a transfer of its buffer and says so on a pin,  *)
(* and the SoC runs it and sends a frame of its own at the same time.       *)
(*                                                                         *)
(* Two tasks and two interrupts share the buffer.  RX, spi_transfer_task,   *)
(* is woken by a queue of one event; TX, spi_prv_send_task, packs data into *)
(* frames and looks after acknowledgements.  RX has the higher priority: TX *)
(* runs only while RX waits, and RX may come between statements of TX.      *)
(*                                                                         *)
(* The contents of frames are left out, and which of the SoC's frames an    *)
(* acknowledgement of the MCU names, the update of the firmware that the    *)
(* SoC may start, and the bytes of the ring: it is a queue of whole frames. *)
(***************************************************************************)
EXTENDS Integers, Sequences

CONSTANTS
    Slots,        \* the number of frames in spiStoreSendData
    Ids,          \* the number of values of spiMsgId
    Room,         \* how many frames wholePackageSpirbTx has room for
    AckTimeout,   \* calls until a frame without acknowledgement is sent again
    LinkTimeout,  \* calls until a transfer is given up
    MaxFrames,    \* bound: frames of a run
    MaxSoc        \* bound: frames from the SoC with data or a request for the handshake

ASSUME SpiAssumption ==
    /\ {Slots, Ids, Room} \subseteq Nat \ {0}
    /\ {AckTimeout, LinkTimeout, MaxFrames, MaxSoc} \subseteq Nat

VARIABLES
    step,      \* spiRunStep: "shake" or "normal"
    event,     \* spiQueue
    called,    \* spiCallbackQueue: a frame of the SoC is to be looked at, "data" while it
               \* is in slaveBuffer.rx and "gone" when it has been overwritten
    ack,       \* spiAckHander: it is to be acknowledged
    didDue,    \* shakeHandsOk
    frameId,   \* spiFrameId
    tx,        \* slaveBuffer.tx
    armed,     \* a transfer is prepared (spiWork, spiReceiveTimeoutEn)
    waited,    \* spiReceiveTimeout
    rxTask,    \* where RX is
    job,       \* the event RX works on, or "rest" when a resend without length is behind it
    taken,     \* the slot RX has taken and not labelled yet, or 0
    txTask,    \* where TX is, and the slot it copies
    store,     \* spiStoreSendData
    watch,     \* spiTimeoutOdlid, ackTimeoutTimes
    again,     \* spiTimeoutBuffer
    pending,   \* the frames in wholePackageSpirbTx, and spiRingbufferQueue
    packed,    \* the number of frames packed so far, which gives spiMsgId
    soc,       \* what the SoC has left to do, and what it has heard
    fate,      \* history: frames "new", "sent", "done" (acknowledged) or "lost"
    missed     \* history: RX has taken an event while a transfer was armed, or one that
               \* overwrites data which are to be looked at

vars == <<step, event, called, ack, didDue, frameId, tx, armed, waited, rxTask, job,
          taken, txTask, store, watch, again, pending, packed, soc, fate, missed>>

Frames == 1 .. MaxFrames
Blank == [kind |-> "blank", n |-> 0]
Data(f) == [kind |-> "data", n |-> f]
Own(i) == [kind |-> "own", n |-> i]

\* A mixture, of which only the beginning is that of frame f.
Cut(f) == [kind |-> "cut", n |-> f]

\* Byte 3, by which a frame is acknowledged: frames of data, and the frames with the
\* DIDs or the version, count for themselves.
Id(c) == CASE c.kind \in {"data", "cut"} -> (c.n - 1) % Ids [] c.kind = "own" -> c.n [] OTHER -> 0
NoId == -1

Empty == [full |-> FALSE, id |-> 0, data |-> Blank]

Init ==
    /\ step = "shake" /\ event = "none" /\ called = "none" /\ ack = FALSE
    /\ didDue = FALSE /\ frameId = 0
    /\ tx = Blank /\ armed = FALSE /\ waited = 0
    /\ rxTask = "wait" /\ job = "none" /\ taken = 0
    /\ txTask = [pc |-> "post", slot |-> 0]
    /\ store = [k \in 1 .. Slots |-> Empty]
    /\ watch = [k \in 1 .. Slots |-> [id |-> NoId, times |-> 0]]
    /\ again = [full |-> FALSE, data |-> Blank, len |-> FALSE]
    /\ pending = <<>> /\ packed = 0
    /\ soc = [left |-> MaxSoc, wire |-> {}, heard |-> Blank]
    /\ fate = [f \in Frames |-> "new"] /\ missed = FALSE

\* xQueueSendToBack: the queue has room for one event.
Post(e) == event' = IF event = "none" THEN e ELSE event

-----------------------------------------------------------------------------
(* The frames awaiting acknowledgement.                                    *)

Free(st) == {k \in 1 .. Slots : ~st[k].full}
Holding(st, id) == {k \in 1 .. Slots : st[k].full /\ st[k].id = id}
First(ks) == CHOOSE k \in ks : \A j \in ks : k <= j

\* A slot is given free; its data and their length stay behind.
Freed(st, k) == [st EXCEPT ![k].full = FALSE, ![k].id = 0]

\* spi_slave_callback, an acknowledgement.
Cleared(st, id) ==
    IF Holding(st, id) = {} THEN st ELSE Freed(st, First(Holding(st, id)))

\* TX has taken what is in slot k out of it, has not copied it to the end, and will, if it
\* is c: what RX writes into the slot meanwhile is not what TX has begun to copy.
InHand(k, c) ==
    /\ txTask.slot = k
    /\ \/ txTask.pc \in {"number", "copy"}
       \/ txTask.pc = "copying" /\ again.data = Cut(c.n)

\* Content c will be sent again unless it is acknowledged: it is in a slot, in the buffer
\* for sending again, in TX's hands between the two, or in RX's on its way to a slot.
Held(st, ag, c) ==
    \/ \E k \in 1 .. Slots : st[k].data = c /\ (InHand(k, c) \/ (st[k].full /\ k # taken))
    \/ ag.full /\ ag.data = c
    \/ taken # 0 /\ job # "rest" /\ tx = c /\ (st[taken].full \/ InHand(taken, c))

\* History: a copy of c is given away.
Lost(ft, st, ag, c) ==
    IF c.kind = "data" /\ ft[c.n] = "sent" /\ ~Held(st, ag, c)
    THEN [ft EXCEPT ![c.n] = "lost"] ELSE ft

-----------------------------------------------------------------------------
(* RX, spi_transfer_task_fml: it takes an event, packs the buffer, looks at *)
(* the SoC's last frame if there is one, and arms the next transfer.        *)

\* What the step functions work on, and their results.
State == [tx |-> tx, ack |-> ack, frameId |-> frameId, store |-> store, again |-> again,
          pending |-> pending, fate |-> fate, job |-> "none", taken |-> 0]
Become(s) ==
    /\ tx' = s.tx /\ ack' = s.ack /\ frameId' = s.frameId /\ store' = s.store
    /\ again' = s.again /\ pending' = s.pending /\ fate' = s.fate
    /\ job' = s.job /\ taken' = s.taken

\* A frame without data: blank, for a handshake, or an acknowledgement.
NoData(s) == [s EXCEPT !.tx = Blank]
Acknowledge(s) == [NoData(s) EXCEPT !.ack = FALSE]

\* The first free slot is marked full.  If none is, the frame that is sent is not kept.
Taken(s, c) ==
    IF Free(s.store) = {} THEN [s EXCEPT !.fate = Lost(@, s.store, s.again, c)]
    ELSE [s EXCEPT !.store[First(Free(s.store))].full = TRUE,
                   !.taken = First(Free(s.store))]

\* copy_slave_buffer_tx_fml
FromRing(s) ==
    LET f == Head(s.pending)
    IN  Taken([s EXCEPT !.tx = Data(f), !.pending = Tail(@), !.fate[f] = "sent"], Data(f))

RingOrBlank(s) == IF s.pending = <<>> THEN NoData(s) ELSE FromRing(s)

\* Mutant of SentAgain: a frame that is sent again is not kept again.
SentAgainOnce(s) == [s EXCEPT !.again.full = FALSE, !.tx = s.again.data]

\* check_resend_frame_fml.  If TX has not noted the length of this frame yet, the length
\* of the one before it is used, and that of the first is 0.  With a length of 0 the
\* frame is not sent, its slot holds nothing, and RX goes on as if there were none.
SentAgain(s) ==
    LET c == s.again.data
        r == [s EXCEPT !.again.full = FALSE, !.tx = c]
        t == Taken([r EXCEPT !.fate = IF txTask.pc = "len" \/ ~s.again.len
                                     THEN Lost(@, s.store, r.again, c) ELSE @], c)
    IN  IF s.again.len THEN t
        ELSE IF t.taken = 0 THEN RingOrBlank(t) ELSE [t EXCEPT !.job = "rest"]

\* package_did_fml and package_version_fml share a counter of a byte.
Numbered(s) == IF s.frameId = 0 THEN 1 ELSE s.frameId
SentDid(s) == [s EXCEPT !.tx = Own(Numbered(s)), !.frameId = (Numbered(s) + 1) % 256]
SentVersion(s) == [s EXCEPT !.tx = Own(Numbered(s)), !.frameId = Numbered(s)]

\* The two step functions; what is in no case sends the buffer as it is.
Handled(s, e) ==
    CASE e = "rest" -> RingOrBlank(s)
      [] step = "shake" /\ e \in {"asked", "hand"} -> NoData(s)
      [] step = "normal" /\ e \in {"asked", "came"} /\ s.ack -> Acknowledge(s)
      [] step = "normal" /\ e = "asked" /\ ~s.ack -> RingOrBlank(s)
      [] step = "normal" /\ e = "data" -> IF s.again.full THEN SentAgain(s)
                                                          ELSE RingOrBlank(s)
      [] step = "normal" /\ e = "version" -> SentVersion(s)
      [] step = "normal" /\ e = "did" -> SentDid(s)
      [] OTHER -> s

RxGo(from, to) == rxTask = from /\ rxTask' = to

\* What the SoC can acknowledge when it has heard it.
Heard(c) == IF c.kind \in {"data", "own"} THEN {c} ELSE {}

\* slaveBuffer.rx is written to: by a transfer, and by package_version_fml.
Overwritten == IF called = "data" THEN "gone" ELSE called

RxTake ==
    /\ RxGo("wait", "pack")
    /\ event # "none" /\ event' = "none" /\ job' = event
    /\ missed' = (missed \/ armed)
    /\ UNCHANGED <<step, called, ack, didDue, frameId, tx, armed, waited, taken, txTask,
                   store, watch, again, pending, packed, soc, fate>>

\* It packs the buffer, up to the mark on the slot.  If a transfer is armed, the buffer
\* changes under it, and spi_slave_callback may come before or after.
RxPack ==
    /\ rxTask = "pack"
    /\ Become(Handled(State, job))
    /\ rxTask' = IF taken' = 0 THEN "callback" ELSE "label"
    /\ called' = IF step = "normal" /\ job = "version" THEN Overwritten ELSE called
    /\ missed' = (missed \/ called' # called)
    /\ soc' = IF armed THEN [soc EXCEPT !.wire = @ \cup Heard(tx')] ELSE soc
    /\ UNCHANGED <<step, event, didDue, armed, waited, txTask, watch, packed>>

\* It writes number, length and data of the frame into the slot, which is marked full
\* already, or no longer.  If TX has not copied another frame from there, that is gone.
RxLabel ==
    /\ RxGo("label", IF job = "rest" THEN "pack" ELSE "callback")
    /\ store' = [store EXCEPT ![taken].id = Id(tx),
                              ![taken].data = IF job = "rest" THEN Blank ELSE tx]
    /\ taken' = 0
    /\ fate' = Lost(fate, store', again, store[taken].data)
    /\ UNCHANGED <<step, event, called, ack, didDue, frameId, tx, armed, waited, job,
                   txTask, watch, again, pending, packed, soc, missed>>

\* Mutant of RxCallback: the frame of the SoC waits until nothing else does.
RxCallbackLater ==
    /\ RxGo("callback", "arm")
    /\ IF called # "none" /\ event = "none"
       THEN /\ called' = "none"
            /\ UNCHANGED event \/ (step = "normal" /\ called = "data" /\ Post("version"))
       ELSE UNCHANGED <<called, event>>
    /\ UNCHANGED <<step, ack, didDue, frameId, tx, armed, waited, job, taken, txTask, store,
                   watch, again, pending, packed, soc, fate, missed>>

\* rx_soc_data_process_fml_api: the frame may ask for the version.
RxCallback ==
    /\ RxGo("callback", "arm")
    /\ IF called # "none"
       THEN /\ called' = "none"
            /\ UNCHANGED event \/ (step = "normal" /\ called = "data" /\ Post("version"))
       ELSE UNCHANGED <<called, event>>
    /\ UNCHANGED <<step, ack, didDue, frameId, tx, armed, waited, job, taken, txTask, store,
                   watch, again, pending, packed, soc, fate, missed>>

\* start_spi_Transfer_fml_api; a transfer that is armed already is waited for, up to
\* a hundred times.
RxArm ==
    /\ rxTask \in {"arm", "retry"}
    /\ IF armed
       THEN /\ rxTask' = "retry"
            /\ UNCHANGED <<armed, waited, soc>>
       ELSE /\ rxTask' = "wait"
            /\ armed' = TRUE /\ waited' = 0
            /\ soc' = [soc EXCEPT !.wire = Heard(tx)]
    /\ UNCHANGED <<step, event, called, ack, didDue, frameId, tx, job, taken, txTask, store,
                   watch, again, pending, packed, fate, missed>>

RxGivesUp ==
    /\ armed /\ RxGo("retry", "wait")
    /\ UNCHANGED <<step, event, called, ack, didDue, frameId, tx, armed, waited, job, taken,
                   txTask, store, watch, again, pending, packed, soc, fate, missed>>

RX == RxTake \/ RxPack \/ RxLabel \/ RxCallback \/ RxArm \/ RxGivesUp

-----------------------------------------------------------------------------
(* TX, spi_prv_send_task_apl: two calls every 10 ms, one every 15 ms.       *)

\* TX has the processor while RX waits, for an event or for a tick.
TxRuns == rxTask \in {"wait", "retry"}
TxGo(from, to) == TxRuns /\ txTask.pc = from /\ txTask' = [txTask EXCEPT !.pc = to]

KeepRx == UNCHANGED <<step, called, ack, frameId, tx, rxTask, job, taken, missed>>

\* spi_data_to_soc_fml_api: it looks whether a transfer or an event is under way, then
\* whether there are data or the handshake is new, and posts the event.
TxLook ==
    /\ TxGo("post", IF step = "normal" /\ ~armed /\ event = "none" THEN "peek" ELSE "time")
    /\ KeepRx
    /\ UNCHANGED <<event, didDue, armed, waited, store, watch, again, pending, packed,
                   soc, fate>>

TxPeek ==
    /\ TxGo("peek", IF pending # <<>> THEN "data" ELSE IF didDue THEN "did" ELSE "time")
    /\ didDue' = (didDue /\ pending # <<>>)
    /\ KeepRx
    /\ UNCHANGED <<event, armed, waited, store, watch, again, pending, packed, soc, fate>>

TxPost ==
    /\ txTask.pc \in {"data", "did"} /\ TxGo(txTask.pc, "time")
    /\ Post(txTask.pc)
    /\ KeepRx
    /\ UNCHANGED <<didDue, armed, waited, store, watch, again, pending, packed, soc, fate>>

\* spi_timeout_process_fml_api, its first part: a transfer the SoC does not run is
\* given up, with whatever event is waiting, and the frames are counted for which no
\* acknowledgement has come since the last time.
Watched(w, slot) ==
    LET id == IF slot.full THEN slot.id ELSE NoId
    IN  IF w.id # id THEN [id |-> id, times |-> 0]
        ELSE IF id = NoId THEN w ELSE [w EXCEPT !.times = @ + 1]

\* Mutant of TxTime: the time a transfer takes is not looked at.
TxTimeWaits ==
    /\ TxGo("time", "due")
    /\ watch' = [k \in 1 .. Slots |-> Watched(watch[k], store[k])]
    /\ KeepRx
    /\ UNCHANGED <<event, didDue, armed, waited, store, again, pending, packed, soc, fate>>

TxTime ==
    /\ TxGo("time", "due")
    /\ IF armed /\ waited >= LinkTimeout
       THEN /\ armed' = FALSE /\ waited' = 0 /\ event' = "none"
            /\ soc' = [soc EXCEPT !.wire = {}]
       ELSE /\ waited' = IF armed THEN waited + 1 ELSE waited
            /\ UNCHANGED <<armed, event, soc>>
    /\ watch' = [k \in 1 .. Slots |-> Watched(watch[k], store[k])]
    /\ KeepRx /\ UNCHANGED <<didDue, store, again, pending, packed, fate>>

\* Its second part, one slot after the other: a frame that has waited for too long
\* leaves its slot, is copied, and its length is noted.
Due == {k \in 1 .. Slots : watch[k].times > AckTimeout}

TxFind ==
    /\ TxRuns /\ txTask.pc = "due" /\ Due # {}
    /\ LET held == Holding(store, watch[First(Due)].id)
       IN  txTask' = IF held = {} THEN txTask ELSE [pc |-> "leave", slot |-> First(held)]
    /\ watch' = [watch EXCEPT ![First(Due)].times = 0]
    /\ KeepRx
    /\ UNCHANGED <<event, didDue, armed, waited, store, again, pending, packed, soc, fate>>

TxLeave ==
    /\ TxGo("leave", "number")
    /\ store' = [store EXCEPT ![txTask.slot].full = FALSE]
    /\ KeepRx
    /\ UNCHANGED <<event, didDue, armed, waited, watch, again, pending, packed, soc, fate>>

\* If RX has taken the slot since, it is the number of RX's frame.
TxNumber ==
    /\ TxGo("number", "copy")
    /\ store' = [store EXCEPT ![txTask.slot].id = 0]
    /\ KeepRx
    /\ UNCHANGED <<event, didDue, armed, waited, watch, again, pending, packed, soc, fate>>

\* The copy replaces one that has not been sent yet, and RX may send what is there of
\* it, and may write into the slot.  A slot of length 0 gives nothing.
TxCopy ==
    /\ TxGo("copy", IF store[txTask.slot].data = Blank THEN "len" ELSE "copying")
    /\ LET c == store[txTask.slot].data
       IN  again' = IF c = Blank THEN [again EXCEPT !.full = TRUE]
                    ELSE [again EXCEPT !.data = Cut(c.n)]
    /\ fate' = IF again.full THEN Lost(fate, store, again', again.data) ELSE fate
    /\ KeepRx
    /\ UNCHANGED <<event, didDue, armed, waited, store, watch, pending, packed, soc>>

TxCopied ==
    /\ TxGo("copying", "len")
    /\ LET c == store[txTask.slot].data
       IN  again' = [again EXCEPT !.full = TRUE, !.data = IF @ = Cut(c.n) THEN c ELSE @]
    /\ KeepRx
    /\ UNCHANGED <<event, didDue, armed, waited, store, watch, pending, packed, soc, fate>>

TxMeasure ==
    /\ TxRuns /\ txTask.pc = "len" /\ txTask' = [pc |-> "due", slot |-> 0]
    /\ again' = [again EXCEPT !.len = store[txTask.slot].data # Blank]
    /\ KeepRx
    /\ UNCHANGED <<event, didDue, armed, waited, store, watch, pending, packed, soc, fate>>

TxDone ==
    /\ Due = {}
    /\ TxGo("due", "post")
    /\ KeepRx
    /\ UNCHANGED <<event, didDue, armed, waited, store, watch, again, pending, packed,
                   soc, fate>>

\* read_spi_ringbuffer_fml_api: what has come from the vehicle since the last time
\* becomes a frame, and the oldest is dropped for it if there is no room.
TxRead ==
    /\ TxGo("post", "post")
    /\ packed < MaxFrames /\ packed' = packed + 1
    /\ pending' = Append(IF Len(pending) < Room THEN pending ELSE Tail(pending), packed')
    /\ KeepRx
    /\ UNCHANGED <<event, didDue, armed, waited, store, watch, again, soc, fate>>

TX ==
    \/ TxLook \/ TxPeek \/ TxPost
    \/ TxTime \/ TxFind \/ TxLeave \/ TxNumber \/ TxCopy \/ TxCopied
    \/ TxMeasure \/ TxDone \/ TxRead

-----------------------------------------------------------------------------
(* The SoC, and the interrupts it causes.                                  *)

\* soc_isr_hander_fml
SocAsks ==
    /\ event = "none" /\ Post("asked")
    /\ UNCHANGED <<step, called, ack, didDue, frameId, tx, armed, waited, rxTask, job,
                   taken, txTask, store, watch, again, pending, packed, soc, fate, missed>>

\* A transfer has been run: the SoC has heard what the buffer held, at one time or
\* another, or nothing it can use.
Transferred(s) ==
    /\ armed /\ armed' = FALSE /\ waited' = 0
    /\ \E c \in {s.heard} \cup s.wire : soc' = [s EXCEPT !.wire = {}, !.heard = c]
    /\ UNCHANGED <<frameId, tx, rxTask, job, taken, txTask, watch, again, pending, packed,
                   missed>>

\* spi_slave_callback: the SoC has sent a frame that wants nothing.
SocIsIdle ==
    /\ Transferred(soc)
    /\ step' = "normal" /\ didDue' = (didDue \/ step = "shake")
    /\ called' = Overwritten
    /\ UNCHANGED <<event, ack, store, fate>>

\* Anything else before the handshake.
SocIsStrange ==
    /\ step = "shake" /\ Transferred(soc)
    /\ called' = Overwritten
    /\ UNCHANGED <<step, event, ack, didDue, store, fate>>

\* The SoC asks for the handshake.
SocShakes ==
    /\ soc.left > 0 /\ Transferred([soc EXCEPT !.left = @ - 1])
    /\ step' = "shake" /\ Post("hand") /\ called' = Overwritten
    /\ UNCHANGED <<ack, didDue, store, fate>>

\* It acknowledges what it has heard last; another frame that has the same number goes
\* with it, also one whose number is not written yet: a slot that RX has just marked has
\* the number 0, or that of the frame which TX takes from it.
SocAcknowledges ==
    /\ step = "normal" /\ soc.heard # Blank
    /\ LET c == soc.heard
           held == Holding(store, Id(c))
           ft == IF c.kind = "data" THEN [fate EXCEPT ![c.n] = "done"] ELSE fate
       IN  /\ Transferred([soc EXCEPT !.heard = Blank])
           /\ store' = Cleared(store, Id(c))
           /\ fate' = IF held = {} THEN ft
                      ELSE Lost(ft, store', again,
                                IF First(held) = taken THEN tx ELSE store[First(held)].data)
    /\ called' = Overwritten
    /\ UNCHANGED <<step, event, ack, didDue>>

\* It sends data.
SocSends ==
    /\ step = "normal"
    /\ soc.left > 0 /\ Transferred([soc EXCEPT !.left = @ - 1])
    /\ ack' = TRUE /\ called' = "data" /\ Post("came")
    /\ UNCHANGED <<step, didDue, store, fate>>

SoC == SocAsks \/ SocIsIdle \/ SocIsStrange \/ SocShakes \/ SocAcknowledges \/ SocSends

Next == RX \/ TX \/ SoC

\* RX goes on when it is woken, and sleeps after every transfer, so that TX goes on.
\* Nothing is assumed of the SoC.
Fairness == WF_vars(RX) /\ SF_vars(TX)

Spec == Init /\ [][Next]_vars /\ Fairness

-----------------------------------------------------------------------------
(* Properties.                                                             *)

Events == {"asked", "hand", "came", "data", "version", "did"}
TxPoints == {"post", "peek", "data", "did", "time", "due", "leave", "number",
             "copy", "copying", "len"}
Contents == {Blank} \cup [kind : {"data"}, n : Frames] \cup [kind : {"own", "cut"}, n : Nat]

\* Every buffer and slot holds a frame that was packed, TX copies from a slot there is,
\* and what is pending has been packed and not been sent.
SpiTypeOK ==
    /\ step \in {"shake", "normal"}
    /\ event \in Events \cup {"none"}
    /\ \A x \in {ack, didDue, armed, missed} : x \in BOOLEAN
    /\ called \in {"none", "data", "gone"}
    /\ frameId \in Nat /\ tx \in Contents /\ waited \in 0 .. LinkTimeout
    /\ rxTask \in {"wait", "pack", "label", "callback", "arm", "retry"}
    /\ job \in Events \cup {"none", "rest"} /\ taken \in 0 .. Slots
    /\ taken # 0 <=> rxTask = "label"
    /\ txTask \in [pc : TxPoints, slot : 0 .. Slots]
    /\ txTask.pc \in {"leave", "number", "copy", "copying", "len"} => txTask.slot # 0
    /\ store \in [1 .. Slots -> [full : BOOLEAN, id : Nat, data : Contents]]
    /\ watch \in [1 .. Slots -> [id : Nat \cup {NoId}, times : 0 .. AckTimeout + 1]]
    /\ txTask.pc \in {"post", "peek", "data", "did", "time"} => Due = {}
    /\ again \in [full : BOOLEAN, data : Contents, len : BOOLEAN]
    /\ packed \in 0 .. MaxFrames /\ pending \in Seq(1 .. packed) /\ Len(pending) <= Room
    /\ soc \in [left : 0 .. MaxSoc, wire : SUBSET Contents, heard : Contents]
    /\ fate \in [Frames -> {"new", "sent", "done", "lost"}]

\* A frame that was sent is kept until the SoC has acknowledged it: in a slot, in the
\* buffer for sending again, or in the hands of a task on its way between them, whoever
\* comes between whose statements - but for the six ways in which one is lost: no slot
\* is free; its slot is cleared by the acknowledgement of another frame of its number; or
\* by one of number 0 before its number is written; RX writes into the slot from which TX
\* has not copied it; a second one replaces it before it is sent again; it is sent again
\* before its length is noted.
KeptUntilAcknowledged ==
    \A f \in Frames : fate[f] = "sent" => Held(store, again, Data(f))

\* RX looks at what the SoC sent before it is overwritten, and before it arms the next
\* transfer, which would do that - unless it was woken while a transfer was armed, or
\* packed the version first.
SocDataIsRead == missed \/ (called # "gone" /\ ~(called = "data" /\ armed))

\* While data wait, transfers are armed again and again, whatever the SoC does, unless it
\* asks for the handshake and does not end it.
LinkGoesOn == []<>(rxTask = "arm" \/ pending = <<>> \/ step = "shake")
=============================================================================
