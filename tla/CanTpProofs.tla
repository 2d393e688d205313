----------------------------- MODULE CanTpProofs -----------------------------
(***************************************************************************)
(* What holds of the transport layer and the gate of Dcm for every length  *)
(* of buffers, blocks and timers, any number of requests and any loss of   *)
(* frames: the types of the state, that no reception Dcm has accepted is   *)
(* dropped without its being told, that requests take turns, and that what *)
(* is received and served is a whole message.                              *)
(***************************************************************************)
EXTENDS CanTp, SequenceTheorems, TLAPS

Frames == [id : Nat, k : Nat, n : Nat \ {0}]
MaxTimer == IF NAr > NCr THEN NAr ELSE NCr
RxRecs == [state : RxStates, timer : 0 .. MaxTimer, sn : 0 .. SnMod - 1,
           block : 0 .. BS, left : 0 .. BufSize]
DcmRecs == [flags : SUBSET Flags, avail : Int, buf : Seq(Frames), p2 : BOOLEAN,
            handler : BOOLEAN, repeat : BOOLEAN, pdu : BOOLEAN, rcrrp : 0 .. MaxRcrrp]
Reports == [result : {"OK", "NO_BUFFER", "UNEXP_PDU", "WRONG_SN", "TIMEOUT"},
            frames : Seq(Frames)]
StateRecs == [rx : RxRecs, tx : BOOLEAN, dcm : DcmRecs, got : Seq(Frames),
              open : 0 .. 1, told : SUBSET Reports, flaws : SUBSET Flaws]
DoipRecs == [st : {"none", "tested", "started"}, id : Nat, n : Nat]
TesterRecs == [st : {"idle", "wait", "send"}, id : Nat, n : Nat, next : Nat, credit : Int]

\* The channel receives exactly what Dcm has accepted, and what is left of it fits
\* into the buffer.
Channel(s) ==
    /\ s.open = IF s.rx.state \in Receiving THEN 1 ELSE 0
    /\ s.rx.state \in Receiving => /\ s.rx.left \in 1 .. s.dcm.avail
                                   /\ s.rx.block \in 1 .. BS
    /\ s.dcm.avail \in 0 .. BufSize

StateOK(s) == s \in StateRecs /\ Channel(s)

\* Who may hold the gate, unless it has been gone round.  An answer is on its way, to
\* be repeated or being worked on only during a request; one that is final is the
\* last thing of its request.
Gate(s, started) ==
    ~Broken(s.flaws) =>
       /\ s.dcm.flags \in {{"idle"}, {}, {"indication"}, {"processing"},
                           {"processing", "rcrp"}}
       /\ s.rx.state \in Receiving => s.dcm.buf = s.got /\ s.dcm.flags = {}
       /\ started => s.dcm.flags = {} /\ s.rx.state \notin Receiving
       /\ s.tx \/ s.dcm.repeat \/ s.dcm.handler => "processing" \in s.dcm.flags
       /\ s.dcm.p2 => s.dcm.flags \cap {"indication", "processing"} # {}
       /\ s.dcm.repeat => ~s.dcm.handler
       /\ s.tx /\ "rcrp" \notin s.dcm.flags
             => ~s.dcm.p2 /\ ~s.dcm.handler /\ ~s.dcm.repeat

Good(s, started) == StateOK(s) /\ Gate(s, started)

Started_ == doip.st = "started"

Others ==
    /\ pc \in {"rx", "tx", "service", "timer", "repeat", "dispatch"}
    /\ doip \in DoipRecs /\ tester \in TesterRecs
    /\ mail \in Seq({"CTS", "OVFLW"}) /\ Len(mail) <= 2
    /\ sent \in Nat /\ faults \in Nat
    /\ tester.st # "idle" => tester.n # 0
    /\ pc = "service" => ~tx

CanTpInv == Good(State, Started_) /\ Others

-----------------------------------------------------------------------------
(* The operators of Dcm.                                                   *)

LEMMA ConstantTypes ==
    /\ BS \in Nat \ {0} /\ SnMod \in Nat \ {0} /\ BufSize \in Nat \ {0}
    /\ NAr \in Nat \ {0} /\ NCr \in Nat \ {0}
    /\ MaxRcrrp \in Nat /\ MaxRequests \in Nat /\ MaxFaults \in Nat
    /\ BS < SnMod
    /\ \A n \in Lengths : n \in Nat \ {0}
    /\ MaxTimer \in Nat /\ NAr <= MaxTimer /\ NCr <= MaxTimer
BY CanTpAssumption DEF MaxTimer

LEMMA DcmTypes ==
    ASSUME NEW d \in DcmRecs, NEW q \in Seq(Frames), NEW r, NEW ok \in BOOLEAN
    PROVE  /\ Started(d) \in DcmRecs /\ Copied(d, q) \in DcmRecs
           /\ Indicated(d, r) \in DcmRecs
           /\ Dsd_InteralInit(d) \in DcmRecs /\ Confirmed(d, ok) \in DcmRecs
  <1>. USE ConstantTypes DEF DcmRecs
  <1>1. Started(d) \in DcmRecs
    BY EmptySeq DEF Started
  <1>2. Copied(d, q) \in DcmRecs
    <2>1. d.buf \o q \in Seq(Frames) /\ d.avail - Len(q) \in Int
      OBVIOUS
    <2>. QED
      BY <2>1 DEF Copied
  <1>a. BufSize \in Int /\ MaxRcrrp \in 0 .. MaxRcrrp /\ {"idle"} \in SUBSET Flags
    BY DEF Flags
  <1>3. Indicated(d, r) \in DcmRecs
    <2>1. d.flags \cup {"indication"} \in SUBSET Flags
      BY DEF Flags
    <2>. QED
      BY <1>a, <2>1, Zenon DEF Indicated
  <1>4. Dsd_InteralInit(d) \in DcmRecs
    BY <1>a, Zenon DEF Dsd_InteralInit
  <1>5. Confirmed(d, ok) \in DcmRecs
    <2>1. /\ d.flags \ {"processing"} \in SUBSET Flags
          /\ d.flags \ {"rcrp"} \in SUBSET Flags
          /\ {"idle"} \in SUBSET Flags
      BY DEF Flags
    <2>. QED
      BY <2>1, <1>4 DEF Confirmed
  <1>. QED
    BY <1>1, <1>2, <1>3, <1>4, <1>5
-----------------------------------------------------------------------------
(* The receive channel.                                                    *)

Results == {"OK", "NO_BUFFER", "UNEXP_PDU", "WRONG_SN", "TIMEOUT"}

LEMMA IdleRxType == IdleRx \in RxRecs /\ IdleRx.state = "Idle"
BY ConstantTypes DEF IdleRx, RxRecs, RxStates

LEMMA EndRxFields ==
    ASSUME NEW s \in StateRecs, NEW r \in Results
    PROVE  LET t == EndRx(s, r)
           IN  /\ t \in StateRecs
               /\ t.rx = IdleRx /\ t.tx = s.tx /\ t.dcm = Indicated(s.dcm, r)
               /\ t.open = 0 /\ t.got = <<>> /\ t.flaws = s.flaws
  <1>1. /\ s.open \in 0 .. 1 /\ s.dcm \in DcmRecs /\ s.got \in Seq(Frames)
        /\ s.told \in SUBSET Reports
    BY DEF StateRecs
  <1>2. Indicated(s.dcm, r) \in DcmRecs
    BY <1>1, EmptySeq, DcmTypes
  <1>3. s.told \cup {[result |-> r, frames |-> s.got]} \in SUBSET Reports
    BY <1>1 DEF Reports, Results
  <1>4. (IF s.open = 0 THEN 0 ELSE s.open - 1) = 0 /\ 0 \in 0 .. 1
    BY <1>1
  <1>5. <<>> \in Seq(Frames)
    BY EmptySeq
  <1>. QED
    BY <1>1, <1>2, <1>3, <1>4, <1>5, IdleRxType DEF EndRx, StateRecs

\* Whatever Dcm is told leaves a channel at rest, and its whole buffer free.
LEMMA EndRxOK ==
    ASSUME NEW s \in StateRecs, NEW r \in Results
    PROVE  StateOK(EndRx(s, r))
  <1>1. s.dcm \in DcmRecs
    BY DEF StateRecs
  <1>2. Indicated(s.dcm, r).avail = BufSize
    BY <1>1 DEF Indicated, DcmRecs
  <1>3. BufSize \in 0 .. BufSize /\ "Idle" \notin Receiving
    BY ConstantTypes DEF Receiving
  <1>. QED
    BY <1>1, <1>2, <1>3, EndRxFields, IdleRxType DEF StateOK, Channel

\* A request is being taken: the gate is closed, and nothing is going on behind it.
Taking(s, started) ==
    /\ s.dcm.flags = {} /\ ~started /\ ~s.tx
    /\ ~s.dcm.repeat /\ ~s.dcm.handler /\ ~s.dcm.p2

LEMMA ReceivingIsTaking ==
    ASSUME NEW s, NEW started, Gate(s, started), s.rx.state \in Receiving,
           ~Broken(s.flaws)
    PROVE  Taking(s, started)
BY DEF Gate, Taking

\* The end of a reception that Dcm has accepted opens the gate or hands the request
\* over.
LEMMA EndRxGate ==
    ASSUME NEW s \in StateRecs, NEW started, NEW r \in Results,
           ~Broken(s.flaws) => Taking(s, started)
    PROVE  Gate(EndRx(s, r), started)
  <1>1. s.dcm \in DcmRecs
    BY DEF StateRecs
  <1>2. "Idle" \notin Receiving
    BY DEF Receiving
  <1>3. SUFFICES ASSUME ~Broken(s.flaws)
                 PROVE  Gate(EndRx(s, r), started)
    BY <1>1, EndRxFields DEF Gate
  <1>4. Taking(s, started)
    BY <1>3
  <1>5. Indicated(s.dcm, r).flags = IF r = "OK" THEN {"indication"} ELSE {"idle"}
    BY <1>1, <1>4 DEF Indicated, DcmRecs, Taking
  <1>6. /\ Indicated(s.dcm, r).repeat = s.dcm.repeat
        /\ Indicated(s.dcm, r).handler = s.dcm.handler
        /\ r # "OK" => Indicated(s.dcm, r).p2 = s.dcm.p2
    BY <1>1 DEF Indicated, DcmRecs
  <1>. QED
    BY <1>1, <1>2, <1>3, <1>4, <1>5, <1>6, EndRxFields, IdleRxType DEF Gate, Taking

LEMMA UnexpectedGood ==
    ASSUME NEW s, StateOK(s), NEW started, Gate(s, started)
    PROVE  LET u == Unexpected(s)
           IN  /\ StateOK(u) /\ Gate(u, started)
               /\ u.rx.state = "Idle" /\ u.open = 0 /\ u.tx = s.tx
               /\ s.flaws \subseteq u.flaws
               /\ ~Broken(u.flaws) /\ s.dcm.flags # {} => u.dcm.flags = s.dcm.flags
  <1>1. s \in StateRecs /\ "UNEXP_PDU" \in Results /\ "Idle" \notin Receiving
    BY DEF StateOK, Results, Receiving
  <1>2. CASE s.rx.state = "Idle"
    BY <1>1, <1>2 DEF Unexpected, StateOK, Channel
  <1>3. CASE s.rx.state \in Receiving
    <2>1. Unexpected(s) = [EndRx(s, "UNEXP_PDU") EXCEPT !.flaws = @]
      BY <1>1, <1>3 DEF Unexpected, Receiving, Unaccepted
    <2>2. Unexpected(s) = EndRx(s, "UNEXP_PDU")
      BY <1>1, <2>1, EndRxFields DEF StateRecs
    <2>3. ~Broken(s.flaws) => Taking(s, started)
      BY <1>3, ReceivingIsTaking
    <2>. QED
      BY <1>1, <2>2, <2>3, EndRxFields, EndRxOK, EndRxGate, IdleRxType DEF Taking
  <1>4. CASE s.rx.state \in Unaccepted
    <2>1. Unexpected(s) = [EndRx(s, "UNEXP_PDU") EXCEPT !.flaws = @ \cup {"unaccepted"}]
      BY <1>1, <1>4 DEF Unexpected, Unaccepted
    <2>2. EndRx(s, "UNEXP_PDU") \in StateRecs /\ StateOK(EndRx(s, "UNEXP_PDU"))
      BY <1>1, EndRxFields, EndRxOK
    <2>3. Unexpected(s).flaws = s.flaws \cup {"unaccepted"}
      BY <1>1, <2>1, <2>2, EndRxFields DEF StateRecs
    <2>4. s.flaws \cup {"unaccepted"} \subseteq Flaws
      BY <1>1 DEF StateRecs, Flaws
    <2>5. StateOK(Unexpected(s))
      BY <1>1, <2>1, <2>2, <2>4, EndRxFields DEF StateRecs, StateOK, Channel
    <2>6. Broken(Unexpected(s).flaws)
      BY <2>3 DEF Broken
    <2>7. /\ Unexpected(s).rx = IdleRx /\ Unexpected(s).open = 0
          /\ Unexpected(s).tx = s.tx
      BY <1>1, <2>1, <2>2, EndRxFields DEF StateRecs
    <2>. QED
      BY <2>3, <2>5, <2>6, <2>7, IdleRxType DEF Gate
  <1>5. s.rx.state \in RxStates
    BY <1>1 DEF StateRecs, RxRecs
  <1>. QED
    BY <1>2, <1>3, <1>4, <1>5 DEF RxStates

\* A frame is copied unless Dcm is serving a request.
LEMMA TakenFields ==
    ASSUME NEW s \in StateRecs, NEW f \in Frames
    PROVE  LET t == Taken(s, f)
           IN  /\ t \in StateRecs
               /\ t.rx = s.rx /\ t.tx = s.tx /\ t.open = s.open /\ t.flaws = s.flaws
               /\ t.dcm = Copied(s.dcm, <<f>>)
               /\ t.got = IF Busy(s.dcm) THEN s.got ELSE Append(s.got, f)
  <1>1. s.dcm \in DcmRecs /\ s.got \in Seq(Frames)
    BY DEF StateRecs
  <1>2. <<f>> \in Seq(Frames) /\ Append(s.got, f) \in Seq(Frames)
    BY <1>1
  <1>3. Copied(s.dcm, <<f>>) \in DcmRecs
    BY <1>1, <1>2, DcmTypes
  <1>4. (IF Busy(s.dcm) THEN s.got ELSE Append(s.got, f)) \in Seq(Frames)
    BY <1>1, <1>2
  <1>. QED
    BY <1>3, <1>4 DEF Taken, StateRecs

LEMMA CopiedFields ==
    ASSUME NEW d \in DcmRecs, NEW f \in Frames
    PROVE  LET e == Copied(d, <<f>>)
           IN  /\ e.flags = d.flags /\ e.repeat = d.repeat /\ e.handler = d.handler
               /\ e.p2 = d.p2
               /\ Busy(d) => e = d
               /\ ~Busy(d) => e.buf = d.buf \o <<f>> /\ e.avail = d.avail - 1
  <1>1. Len(<<f>>) = 1
    OBVIOUS
  <1>. QED
    BY <1>1 DEF Copied, DcmRecs

\* A message is begun by an idle Dcm, which closes the gate.
LEMMA BegunFields ==
    ASSUME NEW s, StateOK(s), s.rx.state = "Idle", NEW f \in Frames,
           s.dcm.flags = {"idle"}, s.dcm.avail > 0
    PROVE  LET t == Begun(s, f)
           IN  /\ t \in StateRecs
               /\ t.rx = s.rx /\ t.tx = s.tx /\ t.open = 1 /\ t.flaws = s.flaws
               /\ t.dcm.flags = {} /\ t.dcm.buf = <<f>> /\ t.got = <<f>>
               /\ t.dcm.avail = s.dcm.avail - 1
               /\ t.dcm.repeat = s.dcm.repeat /\ t.dcm.handler = s.dcm.handler
               /\ t.dcm.p2 = s.dcm.p2
  <1> DEFINE b == [s EXCEPT !.dcm = Started(@), !.open = @ + 1, !.got = <<>>]
  <1>1. s \in StateRecs /\ s.dcm \in DcmRecs /\ "Idle" \notin Receiving /\ s.open = 0
    BY DEF StateOK, Channel, StateRecs, Receiving
  <1>2. Started(s.dcm) \in DcmRecs /\ <<>> \in Seq(Frames)
    BY <1>1, EmptySeq, DcmTypes
  <1>3. /\ Started(s.dcm).flags = {} /\ Started(s.dcm).buf = <<>>
        /\ Started(s.dcm).avail = s.dcm.avail
        /\ Started(s.dcm).repeat = s.dcm.repeat /\ Started(s.dcm).p2 = s.dcm.p2
        /\ Started(s.dcm).handler = s.dcm.handler
    BY <1>1 DEF Started, DcmRecs
  <1>4. /\ b \in StateRecs /\ b.rx = s.rx /\ b.tx = s.tx /\ b.open = 1
        /\ b.flaws = s.flaws /\ b.dcm = Started(s.dcm) /\ b.got = <<>>
    <2>1. s.open + 1 = 1 /\ 1 \in 0 .. 1
      BY <1>1
    <2>. QED
      BY <1>1, <1>2, <2>1, Zenon DEF StateRecs
  <1>5. ~Busy(b.dcm)
    BY <1>3, <1>4 DEF Busy
  <1>6. <<>> \o <<f>> = <<f>> /\ Append(<<>>, f) = <<f>>
    OBVIOUS
  <1>7. Begun(s, f) = Taken(b, f)
    BY DEF Begun
  <1> HIDE DEF b
  <1>8. /\ Taken(b, f) \in StateRecs /\ Taken(b, f).rx = s.rx
        /\ Taken(b, f).tx = s.tx /\ Taken(b, f).open = 1
        /\ Taken(b, f).flaws = s.flaws
        /\ Taken(b, f).dcm = Copied(Started(s.dcm), <<f>>)
        /\ Taken(b, f).got = <<f>>
    BY <1>4, <1>5, <1>6, TakenFields
  <1>. QED
    BY <1>2, <1>3, <1>4, <1>5, <1>6, <1>7, <1>8, CopiedFields

LEMMA StartResultOK ==
    ASSUME NEW d \in DcmRecs, NEW n \in Nat \ {0}, StartResult(d, n) = "OK"
    PROVE  d.flags = {"idle"} /\ n <= d.avail /\ d.avail > 0
BY DEF StartResult, DcmRecs

\* An idle Dcm is doing nothing.
LEMMA IdleGate ==
    ASSUME NEW s, NEW started, Gate(s, started), ~Broken(s.flaws),
           s.dcm.flags = {"idle"}
    PROVE  /\ ~started /\ ~s.tx /\ ~s.dcm.repeat /\ ~s.dcm.handler /\ ~s.dcm.p2
           /\ s.rx.state \notin Receiving
BY DEF Gate

\* What a step of an interrupt or of the receive timers may do to an answer, and to a
\* request that Dcm has: nothing.
Keeps(s, t) ==
    /\ s.flaws \subseteq t.flaws /\ t.tx = s.tx
    /\ /\ ~Broken(t.flaws)
       /\ s.dcm.flags \cap {"indication", "processing"} # {}
       => t.dcm.flags \cap {"indication", "processing"} # {}

LEMMA RxSFPduGood ==
    ASSUME NEW s, NEW started, Good(s, started), NEW f \in Frames
    PROVE  Good(RxSFPdu(s, f), started) /\ Keeps(s, RxSFPdu(s, f))
  <1> DEFINE u == Unexpected(s)
  <1>1. /\ StateOK(u) /\ Gate(u, started) /\ u.rx.state = "Idle" /\ u.tx = s.tx
        /\ s.flaws \subseteq u.flaws
        /\ ~Broken(u.flaws) /\ s.dcm.flags # {} => u.dcm.flags = s.dcm.flags
    BY UnexpectedGood DEF Good
  <1>2. CASE s.tx
    BY <1>2 DEF RxSFPdu, Good, Keeps
  <1>3. CASE ~s.tx /\ StartResult(u.dcm, 1) # "OK"
    <2>1. RxSFPdu(s, f) = u
      BY <1>3 DEF RxSFPdu
    <2>. QED
      BY <1>1, <2>1 DEF Good, Keeps
  <1>4. CASE ~s.tx /\ StartResult(u.dcm, 1) = "OK"
    <2> DEFINE b == Begun(u, f)
    <2>1. RxSFPdu(s, f) = EndRx(b, "OK")
      BY <1>4 DEF RxSFPdu
    <2>2. u \in StateRecs /\ u.dcm \in DcmRecs
      BY <1>1 DEF StateOK, StateRecs
    <2>3. u.dcm.flags = {"idle"} /\ u.dcm.avail > 0
      BY <1>4, <2>2, StartResultOK
    <2>4. /\ b \in StateRecs /\ b.flaws = u.flaws /\ b.tx = u.tx /\ b.dcm.flags = {}
          /\ b.dcm.repeat = u.dcm.repeat /\ b.dcm.handler = u.dcm.handler
          /\ b.dcm.p2 = u.dcm.p2
      BY <1>1, <2>3, BegunFields
    <2>5. ~Broken(b.flaws) => Taking(b, started)
      BY <1>1, <2>3, <2>4, IdleGate DEF Taking
    <2>6. "OK" \in Results
      BY DEF Results
    <2> HIDE DEF b
    <2>7. /\ Good(EndRx(b, "OK"), started) /\ EndRx(b, "OK").flaws = u.flaws
          /\ EndRx(b, "OK").tx = u.tx
      BY <2>4, <2>5, <2>6, EndRxOK, EndRxGate, EndRxFields DEF Good
    <2>8. EndRx(b, "OK").dcm.flags = {"indication"}
      <3>1. b.dcm \in DcmRecs
        BY <2>4 DEF StateRecs
      <3>2. Indicated(b.dcm, "OK").flags = {"indication"}
        BY <2>4, <3>1 DEF Indicated, DcmRecs
      <3>. QED
        BY <2>4, <2>6, <3>2, EndRxFields
    <2>. QED
      BY <1>1, <2>1, <2>7, <2>8 DEF Keeps
  <1>. QED
    BY <1>2, <1>3, <1>4

LEMMA ModRange ==
    ASSUME NEW a \in Int
    PROVE  a % SnMod \in 0 .. SnMod - 1
BY ConstantTypes

LEMMA MinBufferAccessFields ==
    ASSUME NEW s \in StateRecs
    PROVE  LET t == MinBufferAccess(s)
           IN  /\ t \in StateRecs
               /\ t.rx.state \in {"WaitForTxFC", "WaitForTxFCOverrun"}
               /\ t.rx.left = s.rx.left /\ t.rx.block = s.rx.block
               /\ t.tx = s.tx /\ t.open = s.open /\ t.flaws = s.flaws
               /\ t.dcm = s.dcm /\ t.got = s.got
  <1> DEFINE min == IF s.rx.left < BS THEN s.rx.left ELSE BS
             st == IF s.dcm.avail >= min THEN "WaitForTxFC" ELSE "WaitForTxFCOverrun"
  <1>1. s.rx \in RxRecs /\ 0 \in 0 .. MaxTimer
    BY ConstantTypes DEF StateRecs
  <1>2. st \in RxStates /\ st \in {"WaitForTxFC", "WaitForTxFCOverrun"}
    BY DEF RxStates, Receiving
  <1>3. MinBufferAccess(s) = [s EXCEPT !.rx.timer = 0, !.rx.state = st]
    BY DEF MinBufferAccess
  <1> HIDE DEF st
  <1>4. [s.rx EXCEPT !.timer = 0, !.state = st] \in RxRecs
    BY <1>1, <1>2, Zenon DEF RxRecs
  <1>. QED
    BY <1>1, <1>2, <1>3, <1>4 DEF StateRecs, RxRecs

\* A channel that receives, behind a closed gate.
LEMMA ReceivingGood ==
    ASSUME NEW s \in StateRecs, NEW started, s.rx.state \in Receiving, s.open = 1,
           s.rx.left \in 1 .. s.dcm.avail, s.rx.block \in 1 .. BS,
           s.dcm.avail \in 0 .. BufSize,
           ~Broken(s.flaws) => Taking(s, started) /\ s.dcm.buf = s.got
    PROVE  Good(s, started)
BY DEF Good, StateOK, Channel, Gate, Taking

LEMMA RxFFPduGood ==
    ASSUME NEW s, NEW started, Good(s, started), NEW f \in Frames, f.n # 1
    PROVE  Good(RxFFPdu(s, f), started) /\ Keeps(s, RxFFPdu(s, f))
  <1> DEFINE u == Unexpected(s)
             r == StartResult(u.dcm, f.n)
  <1>1. /\ StateOK(u) /\ Gate(u, started) /\ u.rx.state = "Idle" /\ u.tx = s.tx
        /\ s.flaws \subseteq u.flaws
        /\ ~Broken(u.flaws) /\ s.dcm.flags # {} => u.dcm.flags = s.dcm.flags
    BY UnexpectedGood DEF Good
  <1>2. u \in StateRecs /\ u.dcm \in DcmRecs /\ u.rx \in RxRecs /\ u.open = 0
        /\ u.dcm.avail \in 0 .. BufSize /\ f.n \in Nat \ {0}
    BY <1>1 DEF StateOK, StateRecs, Channel, Frames, Receiving
  <1>3. CASE s.tx
    BY <1>3 DEF RxFFPdu, Good, Keeps
  <1>4. CASE ~s.tx /\ r = "NOT_OK"
    <2>1. RxFFPdu(s, f) = u
      BY <1>4 DEF RxFFPdu
    <2>. QED
      BY <1>1, <2>1 DEF Good, Keeps
  <1>5. CASE ~s.tx /\ r = "OVFL"
    <2> DEFINE t == [u EXCEPT !.rx.state = "WaitForTxFCOverrunFFReqBuff"]
    <2>1. RxFFPdu(s, f) = t
      BY <1>5 DEF RxFFPdu
    <2>2. /\ "WaitForTxFCOverrunFFReqBuff" \in RxStates
          /\ "WaitForTxFCOverrunFFReqBuff" \notin Receiving
          /\ "Idle" \notin Receiving
      BY DEF RxStates, Receiving, Unaccepted
    <2>3. [u.rx EXCEPT !.state = "WaitForTxFCOverrunFFReqBuff"] \in RxRecs
      BY <1>2, <2>2 DEF RxRecs
    <2>4. /\ t \in StateRecs /\ t.rx.state = "WaitForTxFCOverrunFFReqBuff"
          /\ t.open = u.open /\ t.dcm = u.dcm /\ t.tx = u.tx /\ t.got = u.got
          /\ t.flaws = u.flaws
      BY <1>2, <2>3 DEF StateRecs, RxRecs
    <2>5. StateOK(t) /\ Gate(t, started)
      BY <1>1, <1>2, <2>2, <2>4 DEF StateOK, Channel, Gate
    <2>. QED
      BY <1>1, <2>1, <2>4, <2>5 DEF Good, Keeps
  <1>6. CASE ~s.tx /\ r = "OK"
    <2> DEFINE b == Begun(u, f)
               q == [b EXCEPT !.rx.sn = 1 % SnMod, !.rx.block = BS, !.rx.left = f.n - 1]
               t == MinBufferAccess(q)
    <2>1. RxFFPdu(s, f) = t
      BY <1>6 DEF RxFFPdu
    <2>2. u.dcm.flags = {"idle"} /\ f.n <= u.dcm.avail /\ u.dcm.avail > 0
      BY <1>2, <1>6, StartResultOK
    <2>3. /\ b \in StateRecs /\ b.rx = u.rx /\ b.tx = u.tx /\ b.open = 1
          /\ b.flaws = u.flaws /\ b.dcm.flags = {} /\ b.dcm.buf = b.got
          /\ b.dcm.avail = u.dcm.avail - 1
          /\ b.dcm.repeat = u.dcm.repeat /\ b.dcm.handler = u.dcm.handler
          /\ b.dcm.p2 = u.dcm.p2
      BY <1>1, <2>2, BegunFields
    <2> HIDE DEF b
    <2>4. /\ 1 % SnMod \in 0 .. SnMod - 1 /\ BS \in 0 .. BS /\ BS \in 1 .. BS
          /\ f.n - 1 \in 0 .. BufSize /\ f.n - 1 \in 1 .. b.dcm.avail
          /\ b.dcm.avail \in 0 .. BufSize
      <3>1. 1 % SnMod \in 0 .. SnMod - 1
        BY ModRange
      <3>2. BS \in 0 .. BS /\ BS \in 1 .. BS
        BY ConstantTypes
      <3>3. f.n \in Nat /\ f.n >= 2 /\ BufSize \in Nat
        BY <1>2, ConstantTypes
      <3>. QED
        BY <1>2, <2>2, <2>3, <3>1, <3>2, <3>3
    <2>5. [u.rx EXCEPT !.sn = 1 % SnMod, !.block = BS, !.left = f.n - 1] \in RxRecs
      BY <1>2, <2>4, Zenon DEF RxRecs
    <2>6. /\ q \in StateRecs /\ q.rx.block = BS /\ q.rx.left = f.n - 1
          /\ q.tx = b.tx /\ q.open = 1 /\ q.flaws = b.flaws /\ q.dcm = b.dcm
          /\ q.got = b.got
      BY <1>2, <2>3, <2>5 DEF StateRecs, RxRecs
    <2> HIDE DEF q
    <2>7. /\ t \in StateRecs /\ t.rx.state \in Receiving
          /\ t.rx.block = BS /\ t.rx.left = f.n - 1
          /\ t.tx = b.tx /\ t.open = 1 /\ t.flaws = u.flaws /\ t.dcm = b.dcm
          /\ t.got = b.got
      BY <2>3, <2>6, MinBufferAccessFields DEF Receiving
    <2> HIDE DEF t
    <2>8. ~Broken(t.flaws) => Taking(t, started)
      BY <1>1, <2>2, <2>3, <2>7, IdleGate DEF Taking
    <2>9. Good(t, started)
      BY <2>3, <2>4, <2>7, <2>8, ReceivingGood
    <2>10. ~Broken(u.flaws) => s.dcm.flags \cap {"indication", "processing"} = {}
      BY <1>1, <2>2
    <2>. QED
      BY <1>1, <2>1, <2>3, <2>7, <2>9, <2>10 DEF Keeps
  <1>7. r \in {"OK", "OVFL", "NOT_OK"}
    BY DEF StartResult
  <1>. QED
    BY <1>3, <1>4, <1>5, <1>6, <1>7

\* A frame that is taken behind a closed gate is added to the buffer as it is to what
\* has been received; one that is refused changes neither.
LEMMA TakenWhileReceiving ==
    ASSUME NEW s, NEW started, Good(s, started), s.rx.state \in Receiving,
           NEW f \in Frames
    PROVE  LET t == Taken(s, f)
           IN  /\ t \in StateRecs /\ t.flaws = s.flaws /\ t.tx = s.tx
               /\ ~Broken(s.flaws) => /\ Taking(s, started) /\ Taking(t, started)
                                      /\ ~Busy(s.dcm) /\ t.dcm.buf = t.got
               /\ t.dcm.avail = IF Busy(s.dcm) THEN s.dcm.avail ELSE s.dcm.avail - 1
  <1>1. s \in StateRecs /\ s.dcm \in DcmRecs /\ s.got \in Seq(Frames)
    BY DEF Good, StateOK, StateRecs
  <1>2. /\ Taken(s, f) \in StateRecs /\ Taken(s, f).flaws = s.flaws
        /\ Taken(s, f).dcm = Copied(s.dcm, <<f>>) /\ Taken(s, f).tx = s.tx
        /\ Taken(s, f).got = IF Busy(s.dcm) THEN s.got ELSE Append(s.got, f)
    BY <1>1, TakenFields
  <1>3. Taken(s, f).dcm.avail = IF Busy(s.dcm) THEN s.dcm.avail ELSE s.dcm.avail - 1
    BY <1>1, <1>2, CopiedFields
  <1>4. ASSUME ~Broken(s.flaws)
        PROVE  /\ Taking(s, started) /\ Taking(Taken(s, f), started)
               /\ ~Busy(s.dcm) /\ Taken(s, f).dcm.buf = Taken(s, f).got
    <2>1. Taking(s, started) /\ s.dcm.buf = s.got
      BY <1>4, ReceivingIsTaking DEF Good, Gate
    <2>2. ~Busy(s.dcm)
      BY <2>1 DEF Taking, Busy
    <2>3. s.got \o <<f>> = Append(s.got, f)
      BY <1>1, AppendIsConcat
    <2>4. Taken(s, f).dcm.buf = Taken(s, f).got
      BY <1>1, <1>2, <2>1, <2>2, <2>3, CopiedFields
    <2>5. Taking(Taken(s, f), started)
      BY <1>1, <1>2, <2>1, CopiedFields DEF Taking
    <2>. QED
      BY <2>1, <2>2, <2>4, <2>5
  <1>. QED
    BY <1>2, <1>3, <1>4

LEMMA GoingCFGood ==
    ASSUME NEW s, NEW started, Good(s, started), s.rx.state = "WaitCF", s.rx.left > 1,
           NEW f \in Frames
    PROVE  /\ Good(GoingCF(s, f), started) /\ GoingCF(s, f).flaws = s.flaws
           /\ GoingCF(s, f).tx = s.tx
  <1> DEFINE k == Taken(s, f)
             block == IF s.rx.block = 1 THEN BS ELSE s.rx.block - 1
             left == IF Busy(s.dcm) THEN s.rx.left ELSE s.rx.left - 1
             t == [k EXCEPT !.rx.timer = NCr, !.rx.sn = (@ + 1) % SnMod,
                            !.rx.block = IF @ = 1 THEN BS ELSE @ - 1,
                            !.rx.left = IF Busy(s.dcm) THEN @ ELSE @ - 1]
  <1>1. "WaitCF" \in Receiving /\ "WaitForTxFCOverrun" \in Receiving
        /\ "WaitForTxFCOverrun" \in RxStates /\ "NO_BUFFER" \in Results
    BY DEF Receiving, RxStates, Results
  <1>2. /\ s \in StateRecs /\ s.rx \in RxRecs /\ s.open = 1
        /\ s.rx.left \in 1 .. s.dcm.avail /\ s.rx.block \in 1 .. BS
        /\ s.dcm.avail \in 0 .. BufSize
    BY <1>1 DEF Good, StateOK, Channel, StateRecs
  <1>3. /\ k \in StateRecs /\ k.rx = s.rx /\ k.tx = s.tx /\ k.open = 1
        /\ k.flaws = s.flaws
    BY <1>2, TakenFields
  <1>4. /\ ~Broken(s.flaws) => /\ Taking(s, started) /\ Taking(k, started)
                                /\ ~Busy(s.dcm) /\ k.dcm.buf = k.got
        /\ k.dcm.avail = IF Busy(s.dcm) THEN s.dcm.avail ELSE s.dcm.avail - 1
    BY <1>1, TakenWhileReceiving
  <1> HIDE DEF k
  <1>5. /\ NCr \in 0 .. MaxTimer /\ 1 \in 0 .. MaxTimer
        /\ (s.rx.sn + 1) % SnMod \in 0 .. SnMod - 1
    <2>1. s.rx.sn + 1 \in Int
      BY <1>2, ConstantTypes DEF RxRecs
    <2>. QED
      BY <2>1, ModRange, ConstantTypes
  <1>6. /\ block \in 0 .. BS /\ block \in 1 .. BS /\ left \in 0 .. BufSize
        /\ left \in 1 .. k.dcm.avail /\ k.dcm.avail \in 0 .. BufSize
    BY <1>2, <1>4, ConstantTypes
  <1> HIDE DEF block, left
  <1>7. t = [k EXCEPT !.rx.timer = NCr, !.rx.sn = (s.rx.sn + 1) % SnMod,
                      !.rx.block = block, !.rx.left = left]
    BY <1>3 DEF block, left, StateRecs, RxRecs
  <1> HIDE DEF t
  <1> DEFINE r == [s.rx EXCEPT !.timer = NCr, !.sn = (s.rx.sn + 1) % SnMod,
                               !.block = block, !.left = left]
  <1>8. r \in RxRecs /\ r.state = "WaitCF" /\ r.block = block /\ r.left = left
    <2>1. r \in RxRecs
      BY <1>2, <1>5, <1>6, Zenon DEF RxRecs
    <2>. QED
      BY <1>2, <2>1 DEF RxRecs
  <1>a. t = [k EXCEPT !.rx = r]
    BY <1>3, <1>7 DEF StateRecs
  <1> HIDE DEF r
  <1>9. /\ t \in StateRecs /\ t.rx.state = "WaitCF" /\ t.rx.block = block
        /\ t.rx.left = left /\ t.rx \in RxRecs
        /\ t.tx = k.tx /\ t.open = 1 /\ t.flaws = s.flaws /\ t.dcm = k.dcm
        /\ t.got = k.got
    BY <1>3, <1>8, <1>a DEF StateRecs
  <1>10. GoingCF(s, f) =
            IF ~Busy(s.dcm)
            THEN IF s.rx.block = 1 THEN MinBufferAccess(t) ELSE t
            ELSE IF s.rx.block = 1
            THEN [t EXCEPT !.rx.state = "WaitForTxFCOverrun", !.rx.timer = 1]
            ELSE EndRx(t, "NO_BUFFER")
    BY DEF GoingCF, k, t
  <1>11. ~Broken(t.flaws) => Taking(t, started) /\ t.dcm.buf = t.got /\ ~Busy(s.dcm)
    BY <1>4, <1>9 DEF Taking
  <1>12. CASE ~Busy(s.dcm) /\ s.rx.block # 1
    BY <1>1, <1>3, <1>6, <1>9, <1>10, <1>11, <1>12, ReceivingGood
  <1>13. CASE ~Busy(s.dcm) /\ s.rx.block = 1
    <2> DEFINE m == MinBufferAccess(t)
    <2>1. /\ m \in StateRecs /\ m.rx.state \in Receiving /\ m.rx.left = left
          /\ m.rx.block = block /\ m.tx = t.tx /\ m.open = 1 /\ m.flaws = s.flaws
          /\ m.dcm = k.dcm /\ m.got = t.got
      BY <1>9, MinBufferAccessFields DEF Receiving
    <2> HIDE DEF m
    <2>2. ~Broken(m.flaws) => Taking(m, started) /\ m.dcm.buf = m.got
      BY <1>9, <1>11, <2>1 DEF Taking
    <2>3. Good(m, started)
      BY <1>6, <2>1, <2>2, ReceivingGood
    <2>. QED
      BY <1>3, <1>9, <1>10, <1>13, <2>1, <2>3 DEF m
  <1>14. CASE Busy(s.dcm) /\ s.rx.block = 1
    <2> DEFINE o == [t EXCEPT !.rx.state = "WaitForTxFCOverrun", !.rx.timer = 1]
    <2>1. [t.rx EXCEPT !.state = "WaitForTxFCOverrun", !.timer = 1] \in RxRecs
      BY <1>1, <1>5, <1>9, Zenon DEF RxRecs
    <2>2. /\ o \in StateRecs /\ o.rx.state \in Receiving /\ o.rx.left = left
          /\ o.rx.block = block /\ o.tx = t.tx /\ o.open = 1 /\ o.flaws = s.flaws
          /\ o.dcm = k.dcm /\ o.got = t.got
      BY <1>1, <1>9, <2>1 DEF StateRecs, RxRecs
    <2>3. Broken(o.flaws)
      BY <1>4, <1>14, <2>2
    <2> HIDE DEF o
    <2>4. Good(o, started)
      BY <1>6, <2>2, <2>3, ReceivingGood
    <2>. QED
      BY <1>10, <1>3, <1>9, <1>14, <2>2, <2>4 DEF o
  <1>15. CASE Busy(s.dcm) /\ s.rx.block # 1
    BY <1>1, <1>3, <1>9, <1>10, <1>11, <1>15, EndRxOK, EndRxGate, EndRxFields DEF Good
  <1>. QED
    BY <1>12, <1>13, <1>14, <1>15

\* While the channel receives, Dcm has no request to lose.
LEMMA ReceivingKeeps ==
    ASSUME NEW s, NEW started, Good(s, started), s.rx.state \in Receiving, NEW t,
           t.flaws = s.flaws, t.tx = s.tx
    PROVE  Keeps(s, t)
BY DEF Good, Gate, Keeps

LEMMA RxCFPduGood ==
    ASSUME NEW s, NEW started, Good(s, started), NEW f \in Frames
    PROVE  Good(RxCFPdu(s, f), started) /\ Keeps(s, RxCFPdu(s, f))
  <1>1. /\ s \in StateRecs /\ "WaitCF" \in Receiving
        /\ {"WRONG_SN", "NO_BUFFER", "OK"} \subseteq Results
    BY DEF Good, StateOK, Receiving, Results
  <1>2. CASE s.rx.state # "WaitCF"
    BY <1>2 DEF RxCFPdu, Keeps
  <1>3. CASE s.rx.state = "WaitCF" /\ f.k % SnMod # s.rx.sn
    <2>1. RxCFPdu(s, f) = EndRx(s, "WRONG_SN")
      BY <1>3 DEF RxCFPdu
    <2>2. ~Broken(s.flaws) => Taking(s, started)
      BY <1>1, <1>3, ReceivingIsTaking DEF Good
    <2>3. Good(EndRx(s, "WRONG_SN"), started) /\ EndRx(s, "WRONG_SN").flaws = s.flaws
      BY <1>1, <2>2, EndRxOK, EndRxGate, EndRxFields DEF Good
    <2>. QED
      BY <1>1, <1>3, <2>1, <2>3, EndRxFields, ReceivingKeeps
  <1>4. CASE s.rx.state = "WaitCF" /\ f.k % SnMod = s.rx.sn /\ s.rx.left > 1
    <2>1. RxCFPdu(s, f) = GoingCF(s, f)
      BY <1>4 DEF RxCFPdu
    <2>. QED
      BY <1>1, <1>4, <2>1, GoingCFGood, ReceivingKeeps
  <1>5. CASE s.rx.state = "WaitCF" /\ f.k % SnMod = s.rx.sn /\ ~(s.rx.left > 1)
    <2> DEFINE t == Taken(s, f)
               r == IF Busy(s.dcm) THEN "NO_BUFFER" ELSE "OK"
    <2>1. RxCFPdu(s, f) = EndRx(t, r)
      BY <1>5 DEF RxCFPdu
    <2>2. r \in Results
      BY <1>1
    <2>3. /\ t \in StateRecs /\ t.flaws = s.flaws /\ t.tx = s.tx
          /\ ~Broken(s.flaws) => Taking(t, started)
      BY <1>1, <1>5, TakenWhileReceiving
    <2> HIDE DEF t, r
    <2>4. Good(EndRx(t, r), started) /\ EndRx(t, r).flaws = s.flaws
      BY <2>2, <2>3, EndRxOK, EndRxGate, EndRxFields DEF Good
    <2>5. EndRx(t, r).tx = s.tx
      BY <2>2, <2>3, EndRxFields
    <2>. QED
      BY <1>1, <1>5, <2>1, <2>4, <2>5, ReceivingKeeps
  <1>. QED
    BY <1>2, <1>3, <1>4, <1>5

LEMMA RxIndicationGood ==
    ASSUME NEW s, NEW started, Good(s, started), NEW f \in Frames
    PROVE  Good(RxIndication(s, f), started) /\ Keeps(s, RxIndication(s, f))
  <1>1. CASE f.n = 1
    BY <1>1, RxSFPduGood DEF RxIndication
  <1>2. CASE f.n # 1 /\ f.k = 0
    BY <1>2, RxFFPduGood DEF RxIndication
  <1>3. CASE f.n # 1 /\ f.k # 0
    BY <1>3, RxCFPduGood DEF RxIndication
  <1>. QED
    BY <1>1, <1>2, <1>3

\* Two deliveries keep what each of them keeps.
LEMMA KeepsTwice ==
    ASSUME NEW s, NEW t, NEW u, Keeps(s, t), Keeps(t, u)
    PROVE  Keeps(s, u)
BY DEF Keeps, Broken

\* A message that Dcm has not accepted is forgotten without its being told.
LEMMA ForgottenGood ==
    ASSUME NEW s, NEW started, Good(s, started), s.rx.state \notin Receiving
    PROVE  LET t == [s EXCEPT !.rx = IdleRx]
           IN  Good(t, started) /\ Keeps(s, t)
  <1> DEFINE t == [s EXCEPT !.rx = IdleRx]
  <1>1. s \in StateRecs /\ StateOK(s) /\ Gate(s, started) /\ "Idle" \notin Receiving
    BY DEF Good, StateOK, Receiving
  <1>2. /\ t \in StateRecs /\ t.rx = IdleRx /\ t.tx = s.tx /\ t.dcm = s.dcm
        /\ t.got = s.got /\ t.open = s.open /\ t.flaws = s.flaws
    BY <1>1, IdleRxType DEF StateRecs
  <1> HIDE DEF t
  <1>3. Good(t, started) /\ Keeps(s, t)
    BY <1>1, <1>2, IdleRxType DEF Good, StateOK, Channel, Gate, Keeps
  <1>. QED
    BY <1>3 DEF t

\* A flow control that has been sent, and a timer that has run out.
LEMMA ConfirmationGood ==
    ASSUME NEW s, NEW started, Good(s, started)
    PROVE  Good(Confirmation(s), started) /\ Keeps(s, Confirmation(s))
  <1>1. /\ s \in StateRecs /\ s.rx \in RxRecs /\ StateOK(s) /\ Gate(s, started)
        /\ "WaitCF" \in Receiving /\ "WaitForFCConf" \in Receiving
        /\ "WaitForFCOverConf" \in Receiving /\ "NO_BUFFER" \in Results
        /\ "WaitCF" \in RxStates /\ "Idle" \notin Receiving
        /\ "WaitForFCOverConfFFReqBuff" \notin Receiving
        /\ NCr \in 0 .. MaxTimer
    BY ConstantTypes DEF Good, StateOK, StateRecs, Receiving, Results, RxStates, Unaccepted
  <1>2. CASE s.rx.state = "WaitForFCConf"
    <2> DEFINE r == [s.rx EXCEPT !.state = "WaitCF", !.timer = NCr]
               t == [s EXCEPT !.rx = r]
    <2>1. Confirmation(s) = t
      BY <1>1, <1>2 DEF Confirmation, StateRecs
    <2>2. r \in RxRecs
      BY <1>1, Zenon DEF RxRecs
    <2>3. r.state = "WaitCF" /\ r.left = s.rx.left /\ r.block = s.rx.block
      BY <1>1 DEF RxRecs
    <2> HIDE DEF r
    <2>4. /\ t \in StateRecs /\ t.rx = r /\ t.tx = s.tx /\ t.dcm = s.dcm
          /\ t.got = s.got /\ t.open = s.open /\ t.flaws = s.flaws
      BY <1>1, <2>2 DEF StateRecs
    <2> HIDE DEF t
    <2>5. Good(t, started)
      BY <1>1, <1>2, <2>3, <2>4 DEF Good, StateOK, Channel, Gate
    <2>. QED
      BY <1>1, <1>2, <2>1, <2>4, <2>5, ReceivingKeeps
  <1>3. CASE s.rx.state = "WaitForFCOverConf"
    <2>1. Confirmation(s) = EndRx(s, "NO_BUFFER")
      BY <1>3 DEF Confirmation
    <2>2. ~Broken(s.flaws) => Taking(s, started)
      BY <1>1, <1>3, ReceivingIsTaking
    <2>3. Good(EndRx(s, "NO_BUFFER"), started)
          /\ EndRx(s, "NO_BUFFER").flaws = s.flaws
      BY <1>1, <2>2, EndRxOK, EndRxGate, EndRxFields DEF Good
    <2>. QED
      BY <1>1, <1>3, <2>1, <2>3, EndRxFields, ReceivingKeeps
  <1>4. CASE s.rx.state = "WaitForFCOverConfFFReqBuff"
    <2>1. Confirmation(s) = [s EXCEPT !.rx = IdleRx]
      BY <1>4 DEF Confirmation
    <2>. QED
      BY <1>1, <1>4, <2>1, ForgottenGood
  <1>5. CASE s.rx.state \notin {"WaitForFCConf", "WaitForFCOverConf",
                                "WaitForFCOverConfFFReqBuff"}
    BY <1>5 DEF Confirmation, Keeps
  <1>. QED
    BY <1>2, <1>3, <1>4, <1>5

LEMMA TimedOutGood ==
    ASSUME NEW s, NEW started, Good(s, started), s.rx.state # "Idle",
           s.rx.state \notin DOMAIN FlowControl
    PROVE  Good(TimedOut(s), started) /\ Keeps(s, TimedOut(s))
  <1>1. s \in StateRecs /\ StateOK(s) /\ Gate(s, started) /\ "TIMEOUT" \in Results
    BY DEF Good, StateOK, Results
  <1>2. CASE s.rx.state = "WaitForFCOverConfFFReqBuff"
    BY <1>1, <1>2, ForgottenGood DEF TimedOut, Receiving
  <1>3. CASE s.rx.state # "WaitForFCOverConfFFReqBuff"
    <2>1. s.rx.state \in Receiving
      <3>1. s.rx.state \in RxStates
        BY <1>1 DEF StateRecs, RxRecs
      <3>2. DOMAIN FlowControl = {"WaitForTxFC", "WaitForTxFCOverrun",
                                  "WaitForTxFCOverrunFFReqBuff"}
        BY DEF FlowControl
      <3>. QED
        BY <1>3, <3>1, <3>2 DEF RxStates, Unaccepted
    <2>2. TimedOut(s) = EndRx(s, "TIMEOUT")
      BY <1>3 DEF TimedOut
    <2>3. ~Broken(s.flaws) => Taking(s, started)
      BY <1>1, <2>1, ReceivingIsTaking
    <2>4. Good(EndRx(s, "TIMEOUT"), started)
          /\ EndRx(s, "TIMEOUT").flaws = s.flaws
      BY <1>1, <2>3, EndRxOK, EndRxGate, EndRxFields DEF Good
    <2>. QED
      BY <1>1, <2>1, <2>2, <2>4, EndRxFields, ReceivingKeeps
  <1>. QED
    BY <1>2, <1>3

\* The channel waits, or a flow control is given to the mailbox: the reception is the
\* same.
LEMMA SameReception ==
    ASSUME NEW s, NEW started, Good(s, started), NEW r \in RxRecs,
           (r.state \in Receiving) = (s.rx.state \in Receiving),
           r.left = s.rx.left, r.block = s.rx.block
    PROVE  LET t == [s EXCEPT !.rx = r]
           IN  Good(t, started) /\ Keeps(s, t)
  <1> DEFINE t == [s EXCEPT !.rx = r]
  <1>1. s \in StateRecs /\ StateOK(s) /\ Gate(s, started)
    BY DEF Good, StateOK
  <1>2. /\ t \in StateRecs /\ t.rx = r /\ t.tx = s.tx /\ t.dcm = s.dcm
        /\ t.got = s.got /\ t.open = s.open /\ t.flaws = s.flaws
    BY <1>1 DEF StateRecs
  <1> HIDE DEF t
  <1>3. Good(t, started) /\ Keeps(s, t)
    BY <1>1, <1>2 DEF Good, StateOK, Channel, Gate, Keeps
  <1>. QED
    BY <1>3 DEF t

-----------------------------------------------------------------------------
(* The functions of Dcm_MainFunction, and the clients that are not the      *)
(* channel.                                                                 *)

\* What leaves the channel alone leaves it in order.
LEMMA SameChannel ==
    ASSUME NEW s, StateOK(s), NEW t \in StateRecs, t.rx = s.rx, t.open = s.open,
           t.dcm.avail = s.dcm.avail \/ t.dcm.avail = BufSize
    PROVE  StateOK(t)
  <1>1. BufSize \in Nat /\ s.dcm.avail \in 0 .. BufSize /\ t.dcm.avail \in 0 .. BufSize
    BY ConstantTypes DEF StateOK, Channel
  <1>2. s.rx.state \in Receiving => s.rx.left \in 1 .. t.dcm.avail
    BY <1>1 DEF StateOK, Channel
  <1>. QED
    BY <1>1, <1>2 DEF StateOK, Channel

LEMMA ProcessingDoneGood ==
    ASSUME NEW s, NEW started, Good(s, started),
           ~Broken(s.flaws) => "processing" \in s.dcm.flags
                               /\ (s.tx => "rcrp" \in s.dcm.flags)
    PROVE  /\ Good(ProcessingDone(s), started)
           /\ Good([ProcessingDone(s) EXCEPT !.dcm.p2 = FALSE], started)
  <1> DEFINE ok == ~s.dcm.pdu \/ CanTransmit(s)
             d == [s.dcm EXCEPT !.repeat = ~ok, !.p2 = IF ok THEN FALSE ELSE @,
                                !.handler = FALSE, !.rcrrp = MaxRcrrp]
             tx1 == s.tx \/ (s.dcm.pdu /\ ok)
             t == ProcessingDone(s)
             u == [t EXCEPT !.dcm.p2 = FALSE]
  <1>1. s \in StateRecs /\ s.dcm \in DcmRecs /\ StateOK(s) /\ Gate(s, started)
        /\ MaxRcrrp \in 0 .. MaxRcrrp
    BY ConstantTypes DEF Good, StateOK, StateRecs
  <1>2. t = [s EXCEPT !.tx = tx1, !.dcm = d]
    BY <1>1 DEF ProcessingDone, StateRecs
  <1>3. ok \in BOOLEAN /\ tx1 \in BOOLEAN /\ (CanTransmit(s) => ~s.tx)
    BY <1>1 DEF CanTransmit, StateRecs, DcmRecs
  <1> HIDE DEF ok
  <1>4. d \in DcmRecs
    BY <1>1, <1>3, Zenon DEF DcmRecs
  <1>5. /\ d.flags = s.dcm.flags /\ d.repeat = ~ok /\ d.handler = FALSE
        /\ d.p2 = (IF ok THEN FALSE ELSE s.dcm.p2) /\ d.buf = s.dcm.buf
        /\ d.avail = s.dcm.avail
    BY <1>1 DEF DcmRecs
  <1>6. [d EXCEPT !.p2 = FALSE] \in DcmRecs
    BY <1>4, Zenon DEF DcmRecs
  <1>7. LET e == [d EXCEPT !.p2 = FALSE]
        IN  /\ e.flags = d.flags /\ e.repeat = d.repeat /\ e.handler = d.handler
            /\ e.p2 = FALSE /\ e.avail = d.avail /\ e.buf = d.buf
    BY <1>4, Zenon DEF DcmRecs
  <1> HIDE DEF d, tx1
  <1>8. /\ t \in StateRecs /\ t.dcm = d /\ t.tx = tx1 /\ t.rx = s.rx
        /\ t.open = s.open /\ t.got = s.got /\ t.flaws = s.flaws
    BY <1>1, <1>2, <1>3, <1>4, Zenon DEF StateRecs
  <1>9. /\ u \in StateRecs /\ u.dcm = [d EXCEPT !.p2 = FALSE] /\ u.tx = tx1
        /\ u.rx = s.rx /\ u.open = s.open /\ u.got = s.got /\ u.flaws = s.flaws
    <2>1. u = [t EXCEPT !.dcm = [d EXCEPT !.p2 = FALSE]]
      BY <1>8, Zenon
    <2>. QED
      BY <1>6, <1>8, <2>1, Zenon DEF StateRecs
  <1> HIDE DEF t, u
  <1>10. /\ tx1 = (s.tx \/ (s.dcm.pdu /\ ok)) /\ ok = (~s.dcm.pdu \/ CanTransmit(s))
         /\ s.dcm.p2 \in BOOLEAN /\ s.tx \in BOOLEAN /\ s.dcm.pdu \in BOOLEAN
    BY <1>1 DEF tx1, ok, StateRecs, DcmRecs
  <1>11. Gate(t, started)
    BY <1>1, <1>3, <1>5, <1>8, <1>10, Zenon DEF Gate
  <1>12. Gate(u, started)
    BY <1>1, <1>3, <1>5, <1>7, <1>9, <1>10, Zenon DEF Gate
  <1>13. StateOK(t) /\ StateOK(u)
    BY <1>1, <1>5, <1>7, <1>8, <1>9, SameChannel
  <1>. QED
    BY <1>11, <1>12, <1>13 DEF Good, t, u

\* The request ends without an answer, in a channel whose answer has been handed over.
LEMMA InitGood ==
    ASSUME NEW s, NEW started, Good(s, started),
           ~Broken(s.flaws) => ~s.tx /\ ~s.dcm.repeat /\ s.rx.state \notin Receiving
                               /\ ~started
    PROVE  Good([s EXCEPT !.dcm = Dsd_InteralInit(@)], started)
  <1> DEFINE d == Dsd_InteralInit(s.dcm)
             t == [s EXCEPT !.dcm = d]
  <1>1. s \in StateRecs /\ s.dcm \in DcmRecs /\ StateOK(s) /\ s.dcm.buf \in Seq(Frames)
    BY DEF Good, StateOK, StateRecs, DcmRecs
  <1>2. d \in DcmRecs
    BY <1>1, EmptySeq, DcmTypes
  <1>3. /\ d.flags = {"idle"} /\ d.p2 = FALSE /\ d.handler = FALSE
        /\ d.repeat = s.dcm.repeat /\ d.avail = s.dcm.avail
    BY <1>1 DEF Dsd_InteralInit, DcmRecs
  <1> HIDE DEF d
  <1>4. /\ t \in StateRecs /\ t.dcm = d /\ t.tx = s.tx /\ t.rx = s.rx
        /\ t.open = s.open /\ t.got = s.got /\ t.flaws = s.flaws
    BY <1>1, <1>2 DEF StateRecs
  <1> HIDE DEF t
  <1>5. StateOK(t)
    BY <1>1, <1>3, <1>4, SameChannel
  <1>6. Gate(t, started)
    BY <1>3, <1>4 DEF Gate
  <1>. QED
    BY <1>5, <1>6 DEF Good, t, d

\* What a service leaves behind is in order.
LEMMA ServeGood ==
    ASSUME NEW s, NEW started, Good(s, started),
           ~Broken(s.flaws) => "processing" \in s.dcm.flags /\ ~s.tx /\ ~s.dcm.repeat,
           Serve(s)
    PROVE  \E t : Become(t) /\ Good(t, started)
  <1>1. s \in StateRecs /\ s.dcm \in DcmRecs /\ StateOK(s) /\ Gate(s, started)
    BY DEF Good, StateOK, StateRecs
  <1>2. ~Broken(s.flaws) => ~started /\ s.rx.state \notin Receiving
    BY <1>1 DEF Gate
  <1>3. CASE Become([s EXCEPT !.dcm.handler = TRUE])
    <2> DEFINE d == [s.dcm EXCEPT !.handler = TRUE]
               t == [s EXCEPT !.dcm = d]
    <2>1. Become(t)
      BY <1>3
    <2>2. /\ d \in DcmRecs /\ d.flags = s.dcm.flags /\ d.p2 = s.dcm.p2
          /\ d.repeat = s.dcm.repeat /\ d.avail = s.dcm.avail
      BY <1>1 DEF DcmRecs
    <2> HIDE DEF d
    <2>3. /\ t \in StateRecs /\ t.dcm = d /\ t.tx = s.tx /\ t.rx = s.rx
          /\ t.open = s.open /\ t.got = s.got /\ t.flaws = s.flaws
      BY <1>1, <2>2 DEF StateRecs
    <2> HIDE DEF t
    <2>4. StateOK(t)
      BY <1>1, <2>2, <2>3, SameChannel
    <2>5. Gate(t, started)
      BY <1>1, <1>2, <2>2, <2>3 DEF Gate
    <2>. QED
      BY <2>1, <2>4, <2>5 DEF Good
  <1>4. CASE Become(ProcessingDone(s))
    BY <1>4, ProcessingDoneGood
  <1>5. CASE Become([s EXCEPT !.dcm = Dsd_InteralInit(@)])
    BY <1>2, <1>5, InitGood
  <1>. QED
    BY <1>3, <1>4, <1>5 DEF Serve

\* An answer has gone out, or has failed to.
LEMMA ConfirmedGood ==
    ASSUME NEW s, NEW started, Good(s, started), s.tx, NEW ok \in BOOLEAN, NEW fl,
           fl = IF ~ok /\ s.dcm.repeat THEN s.flaws \cup {"stale"} ELSE s.flaws
    PROVE  Good([s EXCEPT !.tx = FALSE, !.dcm = Confirmed(@, ok), !.flaws = fl], started)
  <1> DEFINE d == Confirmed(s.dcm, ok)
             t == [s EXCEPT !.tx = FALSE, !.dcm = d, !.flaws = fl]
  <1>1. /\ s \in StateRecs /\ s.dcm \in DcmRecs /\ StateOK(s) /\ Gate(s, started)
        /\ s.flaws \subseteq Flaws
        /\ s.dcm.buf \in Seq(Frames)
    BY DEF Good, StateOK, StateRecs, DcmRecs
  <1>2. d \in DcmRecs
    BY <1>1, DcmTypes
  <1>3. fl \in SUBSET Flaws /\ s.flaws \subseteq fl
    BY <1>1 DEF StateRecs, Flaws
  <1>4. d.avail = s.dcm.avail /\ d.repeat = s.dcm.repeat
    BY <1>1 DEF Confirmed, Dsd_InteralInit, DcmRecs
  <1>5. ~ok => d.flags = {"idle"} /\ d.p2 = FALSE /\ d.handler = FALSE
    BY <1>1 DEF Confirmed, Dsd_InteralInit, DcmRecs
  <1>6. ok => /\ d.p2 = s.dcm.p2 /\ d.handler = s.dcm.handler
              /\ "rcrp" \in s.dcm.flags => d.flags = s.dcm.flags \ {"rcrp"}
              /\ s.dcm.flags = {"processing"} => d.flags = {"idle"}
    BY <1>1 DEF Confirmed, DcmRecs
  <1> HIDE DEF d
  <1>7. /\ t \in StateRecs /\ t.dcm = d /\ t.tx = FALSE /\ t.rx = s.rx
        /\ t.open = s.open /\ t.got = s.got /\ t.flaws = fl
    BY <1>1, <1>2, <1>3, Zenon DEF StateRecs
  <1> HIDE DEF t
  <1>8. StateOK(t)
    BY <1>1, <1>4, <1>7, SameChannel
  <1>9. ASSUME ~Broken(fl)
        PROVE  Gate(t, started)
    <2>1. ~Broken(s.flaws)
      BY <1>3, <1>9 DEF Broken
    <2>2. /\ s.dcm.flags \in {{"processing"}, {"processing", "rcrp"}}
          /\ ~started /\ s.rx.state \notin Receiving
          /\ s.dcm.repeat => ~s.dcm.handler
          /\ "rcrp" \notin s.dcm.flags => ~s.dcm.p2 /\ ~s.dcm.handler /\ ~s.dcm.repeat
      BY <1>1, <2>1 DEF Gate
    <2>3. CASE ~ok
      <3>1. ~s.dcm.repeat
        BY <1>9, <2>3 DEF Broken
      <3>. QED
        BY <1>4, <1>5, <1>7, <2>2, <2>3, <3>1 DEF Gate
    <2>4. CASE ok /\ "rcrp" \in s.dcm.flags
      <3>1. d.flags = {"processing"}
        BY <1>6, <2>2, <2>4
      <3>. QED
        BY <1>4, <1>6, <1>7, <2>2, <2>4, <3>1 DEF Gate
    <2>5. CASE ok /\ "rcrp" \notin s.dcm.flags
      <3>1. d.flags = {"idle"}
        BY <1>6, <2>2, <2>5
      <3>. QED
        BY <1>4, <1>6, <1>7, <2>2, <2>5, <3>1 DEF Gate
    <2>. QED
      BY <2>3, <2>4, <2>5
  <1>10. Broken(fl) => Gate(t, started)
    BY <1>7 DEF Gate
  <1>. QED
    BY <1>8, <1>9, <1>10 DEF Good, t, d

-----------------------------------------------------------------------------
(* The steps.                                                              *)

\* The variables are what the handler has made of them.
LEMMA BecomeGood ==
    ASSUME NEW s, Become(s), Good(s, Started_')
    PROVE  Good(State, Started_)'
  <1>1. /\ rx' = s.rx /\ tx' = s.tx /\ dcm' = s.dcm /\ got' = s.got
        /\ open' = s.open /\ flaws' = s.flaws
    BY DEF Become
  <1>2. /\ s \in StateRecs /\ s.rx \in RxRecs /\ s.tx \in BOOLEAN /\ s.dcm \in DcmRecs
        /\ s.got \in Seq(Frames) /\ s.open \in 0 .. 1 /\ s.flaws \in SUBSET Flaws
    BY DEF Good, StateOK, StateRecs
  <1>3. State' \in StateRecs
    BY <1>1, <1>2 DEF State, StateRecs
  <1>4. /\ State.rx' = s.rx /\ State.tx' = s.tx /\ State.dcm' = s.dcm
        /\ State.got' = s.got /\ State.open' = s.open /\ State.flaws' = s.flaws
    BY <1>1 DEF State
  <1>5. StateOK(State)'
    BY <1>3, <1>4 DEF Good, StateOK, Channel
  <1>6. Gate(State, Started_)'
    BY <1>4 DEF Good, Gate
  <1>. QED
    BY <1>5, <1>6 DEF Good

LEMMA StateFields ==
    /\ State.rx = rx /\ State.tx = tx /\ State.dcm = dcm /\ State.got = got
    /\ State.open = open /\ State.told = {} /\ State.flaws = flaws
BY DEF State

\* What a step may do to a request that Dcm has.
Lost == /\ dcm.flags \cap {"indication", "processing"} # {}
        /\ dcm'.flags \cap {"indication", "processing"} = {}
        /\ ~Broken(flaws')

LEMMA BecomeKeeps ==
    ASSUME NEW s, Become(s), Keeps(State, s)
    PROVE  ~Lost /\ tx' = tx
BY StateFields DEF Become, Keeps, Lost

LEMMA DeliverGood ==
    ASSUME NEW f \in Frames, Deliver(f), Good(State, Started_), Started_' = Started_
    PROVE  Good(State, Started_)' /\ ~Lost /\ tx' = tx
  <1>1. CASE Become(RxIndication(State, f))
    BY <1>1, RxIndicationGood, BecomeGood, BecomeKeeps
  <1>2. CASE Become(State)
    BY <1>2, BecomeGood, BecomeKeeps DEF Keeps
  <1>3. CASE Become(RxIndication(RxIndication(State, f), f))
    <2> DEFINE t == RxIndication(State, f)
    <2>1. Good(t, Started_) /\ Keeps(State, t)
      BY RxIndicationGood
    <2>2. Good(RxIndication(t, f), Started_) /\ Keeps(t, RxIndication(t, f))
      BY <2>1, RxIndicationGood
    <2> HIDE DEF t
    <2>3. Keeps(State, RxIndication(t, f))
      BY <2>1, <2>2, KeepsTwice
    <2>. QED
      BY <1>3, <2>2, <2>3, BecomeGood, BecomeKeeps DEF t
  <1>. QED
    BY <1>1, <1>2, <1>3 DEF Deliver

\* The frames and flow controls of the bus, and the testers.
LEMMA BusStep ==
    ASSUME CanTpInv, Ask \/ SendCF \/ CanTp_TxConfirmation \/ GiveUp
    PROVE  CanTpInv' /\ ~Lost
  <1>1. /\ Good(State, Started_) /\ Others /\ tester \in TesterRecs /\ sent \in Nat
        /\ faults \in Nat
    BY DEF CanTpInv, Others
  <1>2. Resting \in TesterRecs /\ Resting.st = "idle"
    BY DEF Resting, TesterRecs
  <1>3. ASSUME NEW f \in Frames, Deliver(f)
        PROVE  faults' \in Nat
    BY <1>1, <1>3 DEF Deliver
  <1>4. CASE Ask
    <2>1. PICK n \in Lengths :
             /\ Deliver([id |-> sent + 1, k |-> 0, n |-> n])
             /\ tester' = IF n = 1 THEN Resting
                          ELSE [st |-> "wait", id |-> sent + 1, n |-> n, next |-> 1,
                                credit |-> 0]
      BY <1>4 DEF Ask
    <2>2. UNCHANGED <<pc, doip, mail>> /\ sent' = sent + 1
      BY <1>4 DEF Ask
    <2>3. n \in Nat \ {0} /\ [id |-> sent + 1, k |-> 0, n |-> n] \in Frames
      BY <1>1, ConstantTypes DEF Frames
    <2>4. Started_' = Started_
      BY <2>2 DEF Started_
    <2>5. Good(State, Started_)' /\ ~Lost /\ tx' = tx /\ faults' \in Nat
      BY <1>1, <1>3, <2>1, <2>3, <2>4, DeliverGood
    <2>6. tester' \in TesterRecs /\ (tester'.st # "idle" => tester'.n # 0)
      BY <1>1, <1>2, <2>1, <2>3 DEF TesterRecs
    <2>. QED
      BY <1>1, <2>2, <2>5, <2>6 DEF CanTpInv, Others
  <1>5. CASE SendCF
    <2>1. /\ tester.st = "send" /\ UNCHANGED <<pc, doip, mail, sent>>
          /\ Deliver([id |-> tester.id, k |-> tester.next, n |-> tester.n])
          /\ tester' = IF tester.next + 1 = tester.n THEN Resting
                       ELSE [tester EXCEPT !.next = @ + 1, !.credit = @ - 1,
                                     !.st = IF tester.credit = 1 THEN "wait" ELSE "send"]
      BY <1>5 DEF SendCF
    <2>2. [id |-> tester.id, k |-> tester.next, n |-> tester.n] \in Frames
      BY <1>1, <2>1 DEF Frames, TesterRecs, Others
    <2>3. Started_' = Started_
      BY <2>1 DEF Started_
    <2>4. Good(State, Started_)' /\ ~Lost /\ tx' = tx /\ faults' \in Nat
      BY <1>1, <1>3, <2>1, <2>2, <2>3, DeliverGood
    <2>5. tester' \in TesterRecs /\ (tester'.st # "idle" => tester'.n # 0)
      <3> DEFINE st == IF tester.credit = 1 THEN "wait" ELSE "send"
                 next == [tester EXCEPT !.next = tester.next + 1,
                                        !.credit = tester.credit - 1, !.st = st]
      <3>1. st \in {"idle", "wait", "send"} /\ tester.n # 0
        BY <1>1, <2>1 DEF Others
      <3>2. tester.next + 1 \in Nat /\ tester.credit - 1 \in Int
        BY <1>1 DEF TesterRecs
      <3>3. tester' = Resting \/ tester' = next
        BY <2>1
      <3> HIDE DEF st
      <3>4. next \in TesterRecs /\ next.n = tester.n
        BY <1>1, <3>1, <3>2, Zenon DEF TesterRecs
      <3>. QED
        BY <1>2, <3>1, <3>3, <3>4
    <2>. QED
      BY <1>1, <2>1, <2>4, <2>5 DEF CanTpInv, Others
  <1>6. CASE CanTp_TxConfirmation
    <2>1. /\ mail # <<>> /\ mail' = Tail(mail) /\ UNCHANGED <<pc, doip, sent>>
          /\ Become(Confirmation(State)) /\ faults' \in {faults, faults + 1}
          /\ tester' \in {tester, Resting, [tester EXCEPT !.st = "send", !.credit = BS]}
          /\ tester.st = "idle" => tester' \in {tester, Resting}
      BY <1>6 DEF CanTp_TxConfirmation
    <2>2. Started_' = Started_
      BY <2>1 DEF Started_
    <2>3. Good(State, Started_)' /\ ~Lost /\ tx' = tx
      BY <1>1, <2>1, <2>2, ConfirmationGood, BecomeGood, BecomeKeeps
    <2>4. tester' \in TesterRecs /\ (tester'.st # "idle" => tester'.n # 0)
      <3> DEFINE next == [tester EXCEPT !.st = "send", !.credit = BS]
      <3>1. BS \in Int /\ (tester.st # "idle" => tester.n # 0)
        BY <1>1, ConstantTypes DEF Others
      <3>2. next \in TesterRecs /\ next.n = tester.n
        BY <1>1, <3>1, Zenon DEF TesterRecs
      <3>. QED
        BY <1>1, <1>2, <2>1, <3>1, <3>2
    <2>5. mail' \in Seq({"CTS", "OVFLW"}) /\ Len(mail') <= 2
      <3>1. mail \in Seq({"CTS", "OVFLW"}) /\ Len(mail) <= 2
        BY <1>1 DEF Others
      <3>. QED
        BY <2>1, <3>1, HeadTailProperties
    <2>. QED
      BY <1>1, <2>1, <2>3, <2>4, <2>5 DEF CanTpInv, Others
  <1>7. CASE GiveUp
    <2>1. /\ tester' = Resting /\ Become(State) /\ UNCHANGED <<pc, doip, mail, sent>>
          /\ faults' \in {faults, faults + 1}
      BY <1>7 DEF GiveUp
    <2>2. Started_' = Started_ /\ Keeps(State, State)
      BY <2>1 DEF Started_, Keeps
    <2>3. Good(State, Started_)' /\ ~Lost /\ tx' = tx
      BY <1>1, <2>1, <2>2, BecomeGood, BecomeKeeps
    <2>. QED
      BY <1>1, <1>2, <2>1, <2>3 DEF CanTpInv, Others
  <1>. QED
    BY <1>4, <1>5, <1>6, <1>7

\* A functional request is taken by an idle Dcm, or nothing happens.
LEMMA AskAllStep ==
    ASSUME CanTpInv, AskAll
    PROVE  CanTpInv' /\ ~Lost
  <1> DEFINE b == <<[id |-> sent + 1, k |-> 0, n |-> 1]>>
             d == [Started(dcm) EXCEPT !.buf = b]
             e == [d EXCEPT !.flags = @ \cup {"indication"}, !.p2 = TRUE, !.pdu = TRUE]
             g == [d EXCEPT !.flags = {"idle"}, !.pdu = FALSE]
  <1>1. /\ Good(State, Started_) /\ Others /\ State \in StateRecs /\ dcm \in DcmRecs
        /\ sent \in Nat
    BY DEF CanTpInv, Good, StateOK, StateRecs, State, Others
  <1>2. sent' = sent + 1 /\ UNCHANGED <<pc, doip, mail, tester, faults>>
    BY DEF AskAll
  <1>3. Started_' = Started_
    BY <1>2 DEF Started_
  <1>4. CASE Become(State)
    <2>1. Keeps(State, State)
      BY DEF Keeps
    <2>2. Good(State, Started_)' /\ ~Lost /\ tx' = tx
      BY <1>1, <1>3, <1>4, <2>1, BecomeGood, BecomeKeeps
    <2>. QED
      BY <1>1, <1>2, <2>2 DEF CanTpInv, Others
  <1>5. CASE /\ dcm.flags = {"idle"}
             /\ Become([State EXCEPT !.dcm = e]) \/ Become([State EXCEPT !.dcm = g])
    <2>1. b \in Seq(Frames)
      BY <1>1 DEF Frames
    <2>2. Started(dcm) \in DcmRecs /\ Started(dcm).flags = {}
      BY <1>1, <1>5, EmptySeq, DcmTypes DEF Started, DcmRecs
    <2> HIDE DEF b
    <2>3. d \in DcmRecs /\ d.flags = {} /\ d.avail = dcm.avail /\ d.p2 = dcm.p2
          /\ d.repeat = dcm.repeat /\ d.handler = dcm.handler
      BY <1>1, <2>1, <2>2 DEF Started, DcmRecs
    <2> HIDE DEF d
    <2>4. {"indication"} \in SUBSET Flags /\ {"idle"} \in SUBSET Flags
          /\ d.flags \cup {"indication"} = {"indication"}
      BY <2>3 DEF Flags
    <2>5. e \in DcmRecs /\ e.flags = {"indication"} /\ e.avail = dcm.avail
          /\ e.repeat = dcm.repeat /\ e.handler = dcm.handler
      <3>1. e = [d EXCEPT !.flags = {"indication"}, !.p2 = TRUE, !.pdu = TRUE]
        BY <2>4
      <3>2. e \in DcmRecs
        BY <2>3, <2>4, <3>1, Zenon DEF DcmRecs
      <3>. QED
        BY <2>3, <3>1, <3>2, Zenon DEF DcmRecs
    <2>6. g \in DcmRecs /\ g.flags = {"idle"} /\ g.avail = dcm.avail /\ g.p2 = dcm.p2
          /\ g.repeat = dcm.repeat /\ g.handler = dcm.handler
      BY <2>3, <2>4, Zenon DEF DcmRecs
    <2> HIDE DEF e, g
    <2>7. ASSUME NEW h \in DcmRecs, h \in {e, g}
          PROVE  /\ Good([State EXCEPT !.dcm = h], Started_)
                 /\ Keeps(State, [State EXCEPT !.dcm = h])
      <3> DEFINE t == [State EXCEPT !.dcm = h]
      <3>1. /\ t \in StateRecs /\ t.dcm = h /\ t.tx = tx /\ t.rx = rx
            /\ t.open = open /\ t.got = got /\ t.flaws = flaws
        BY <1>1, StateFields DEF StateRecs
      <3> HIDE DEF t
      <3>2. StateOK(t)
        BY <1>1, <2>5, <2>6, <2>7, <3>1, StateFields, SameChannel DEF Good
      <3>3. ~Broken(flaws) =>
               /\ ~Started_ /\ ~tx /\ ~dcm.repeat /\ ~dcm.handler /\ ~dcm.p2
               /\ rx.state \notin Receiving
        BY <1>1, <1>5, StateFields, IdleGate DEF Good
      <3>4. Gate(t, Started_)
        BY <2>5, <2>6, <2>7, <3>1, <3>3 DEF Gate
      <3>5. Keeps(State, t)
        BY <1>5, <3>1, StateFields DEF Keeps
      <3>. QED
        BY <3>2, <3>4, <3>5 DEF Good, t
    <2>8. Good(State, Started_)' /\ ~Lost /\ tx' = tx
      BY <1>3, <1>5, <2>5, <2>6, <2>7, BecomeGood, BecomeKeeps
    <2>. QED
      BY <1>1, <1>2, <2>8 DEF CanTpInv, Others
  <1>6. StartResult(dcm, 1) # "NOT_OK" => dcm.flags = {"idle"}
    BY DEF StartResult
  <1>. QED
    BY <1>4, <1>5, <1>6 DEF AskAll

\* A request over DoIP: it is tested, started and handed over.
LEMMA DoipTestsStep ==
    ASSUME CanTpInv, DoipTests
    PROVE  CanTpInv' /\ ~Lost
  <1>1. Good(State, Started_) /\ Others /\ sent \in Nat /\ doip \in DoipRecs
    BY DEF CanTpInv, Others
  <1>2. PICK n \in Lengths :
           doip' = IF StartResult(dcm, n) = "OK"
                   THEN [st |-> "tested", id |-> sent + 1, n |-> n] ELSE NoDoip
    BY DEF DoipTests
  <1>3. /\ doip.st = "none" /\ sent' = sent + 1 /\ Become(State)
        /\ UNCHANGED <<pc, mail, tester, faults>>
    BY DEF DoipTests
  <1>4. doip' \in DoipRecs /\ doip'.st # "started"
    BY <1>1, <1>2, ConstantTypes DEF DoipRecs, NoDoip
  <1>5. Started_' = Started_ /\ Keeps(State, State)
    BY <1>3, <1>4 DEF Started_, Keeps
  <1>6. Good(State, Started_)' /\ ~Lost /\ tx' = tx
    BY <1>1, <1>3, <1>5, BecomeGood, BecomeKeeps
  <1>. QED
    BY <1>1, <1>3, <1>4, <1>6 DEF CanTpInv, Others

LEMMA DoipStartsStep ==
    ASSUME CanTpInv, DoipStarts
    PROVE  CanTpInv' /\ ~Lost
  <1> DEFINE d == Started(dcm)
             fl == IF dcm.flags = {"idle"} THEN flaws ELSE flaws \cup {"race"}
             t == [State EXCEPT !.dcm = d, !.flaws = fl]
  <1>1. /\ Good(State, Started_) /\ Others /\ State \in StateRecs /\ dcm \in DcmRecs
        /\ doip \in DoipRecs /\ dcm.buf \in Seq(Frames) /\ flaws \subseteq Flaws
    BY DEF CanTpInv, Good, StateOK, StateRecs, State, Others, DcmRecs
  <1>2. /\ doip' = [doip EXCEPT !.st = "started"] /\ Become(t)
        /\ UNCHANGED <<pc, mail, tester, sent, faults>>
    BY StateFields DEF DoipStarts
  <1>3. doip' \in DoipRecs /\ Started_' = TRUE
    BY <1>1, <1>2 DEF DoipRecs, Started_
  <1>4. /\ d \in DcmRecs /\ d.flags = dcm.flags \ {"idle"} /\ d.avail = dcm.avail
        /\ d.repeat = dcm.repeat /\ d.handler = dcm.handler /\ d.p2 = dcm.p2
    BY <1>1, DcmTypes DEF Started, DcmRecs
  <1>5. fl \in SUBSET Flaws /\ flaws \subseteq fl
        /\ (~Broken(fl) => dcm.flags = {"idle"} /\ ~Broken(flaws))
    BY <1>1 DEF Flaws, Broken
  <1> HIDE DEF d, fl
  <1>6. /\ t \in StateRecs /\ t.dcm = d /\ t.tx = tx /\ t.rx = rx
        /\ t.open = open /\ t.got = got /\ t.flaws = fl
    BY <1>1, <1>4, <1>5, StateFields DEF StateRecs
  <1> HIDE DEF t
  <1>7. StateOK(t)
    BY <1>1, <1>4, <1>6, StateFields, SameChannel DEF Good
  <1>8. ~Broken(fl) => /\ d.flags = {}
                       /\ ~tx /\ ~dcm.repeat /\ ~dcm.handler /\ ~dcm.p2
                       /\ rx.state \notin Receiving
    BY <1>1, <1>4, <1>5, StateFields, IdleGate DEF Good
  <1>9. Gate(t, TRUE)
    BY <1>4, <1>6, <1>8 DEF Gate
  <1>10. Keeps(State, t)
    BY <1>5, <1>6, StateFields DEF Keeps
  <1>11. Good(State, Started_)' /\ ~Lost /\ tx' = tx
    BY <1>2, <1>3, <1>7, <1>9, <1>10, BecomeGood, BecomeKeeps DEF Good
  <1>. QED
    BY <1>1, <1>2, <1>3, <1>11 DEF CanTpInv, Others

LEMMA DoipFinishesStep ==
    ASSUME CanTpInv, DoipFinishes
    PROVE  CanTpInv' /\ ~Lost
  <1> DEFINE whole == [i \in 1 .. doip.n |-> [id |-> doip.id, k |-> i - 1, n |-> doip.n]]
             d == Indicated(Copied(dcm, whole), "OK")
             t == [State EXCEPT !.dcm = d]
  <1>1. /\ Good(State, Started_) /\ Others /\ State \in StateRecs /\ dcm \in DcmRecs
        /\ doip \in DoipRecs
    BY DEF CanTpInv, Good, StateOK, StateRecs, State, Others
  <1>2. /\ doip' = NoDoip /\ Become(t) /\ doip.st = "started"
        /\ UNCHANGED <<pc, mail, tester, sent, faults>>
    BY StateFields DEF DoipFinishes
  <1>3. doip' \in DoipRecs /\ Started_' = FALSE /\ Started_
    BY <1>1, <1>2 DEF DoipRecs, Started_, NoDoip
  <1>4. whole \in Seq(Frames)
    <2>1. doip.n \in Nat /\ doip.id \in Nat
      BY <1>1 DEF DoipRecs
    <2>2. \A i \in 1 .. doip.n : [id |-> doip.id, k |-> i - 1, n |-> doip.n] \in Frames
      BY <2>1 DEF Frames
    <2>3. whole \in [1 .. doip.n -> Frames]
      BY <2>2
    <2>. QED
      BY <2>1, <2>3, SeqDef
  <1> HIDE DEF whole
  <1>5. Copied(dcm, whole) \in DcmRecs /\ d \in DcmRecs
    BY <1>1, <1>4, DcmTypes
  <1>6. Copied(dcm, whole).flags = dcm.flags /\ Copied(dcm, whole).repeat = dcm.repeat
        /\ Copied(dcm, whole).handler = dcm.handler
    BY <1>1 DEF Copied, DcmRecs
  <1>7. d.flags = dcm.flags \cup {"indication"} /\ d.avail = BufSize
        /\ d.repeat = dcm.repeat /\ d.handler = dcm.handler
    BY <1>5, <1>6 DEF Indicated, DcmRecs
  <1> HIDE DEF d
  <1>8. /\ t \in StateRecs /\ t.dcm = d /\ t.tx = tx /\ t.rx = rx
        /\ t.open = open /\ t.got = got /\ t.flaws = flaws
    BY <1>1, <1>5, StateFields DEF StateRecs
  <1> HIDE DEF t
  <1>9. StateOK(t)
    BY <1>1, <1>7, <1>8, StateFields, SameChannel DEF Good
  <1>10. ~Broken(flaws) => /\ dcm.flags = {} /\ rx.state \notin Receiving
                           /\ ~tx /\ ~dcm.repeat /\ ~dcm.handler
    BY <1>1, <1>3, StateFields DEF Good, Gate
  <1>11. Gate(t, FALSE)
    BY <1>7, <1>8, <1>10 DEF Gate
  <1>12. Keeps(State, t)
    BY <1>8, <1>10, StateFields DEF Keeps
  <1>13. Good(State, Started_)' /\ ~Lost /\ tx' = tx
    BY <1>2, <1>3, <1>9, <1>11, <1>12, BecomeGood, BecomeKeeps DEF Good
  <1>. QED
    BY <1>1, <1>2, <1>3, <1>13 DEF CanTpInv, Others

\* The CAN task.
LEMMA RxMainStep ==
    ASSUME CanTpInv, L_CanTp_RxMainFunction
    PROVE  CanTpInv' /\ ~Lost
  <1>1. /\ Good(State, Started_) /\ Others /\ rx \in RxRecs
        /\ NAr \in 0 .. MaxTimer /\ mail \in Seq({"CTS", "OVFLW"}) /\ Len(mail) <= 2
    BY ConstantTypes DEF CanTpInv, Good, StateOK, StateRecs, State, Others
  <1>2. /\ pc = "rx" /\ pc' = "tx" /\ UNCHANGED <<doip, tester, sent, faults>>
    BY DEF L_CanTp_RxMainFunction
  <1>3. Started_' = Started_
    BY <1>2 DEF Started_
  <1>4. ASSUME NEW t, Become(t), Good(t, Started_), Keeps(State, t),
               mail' \in Seq({"CTS", "OVFLW"}), Len(mail') <= 2
        PROVE  CanTpInv' /\ ~Lost
    <2>1. Good(State, Started_)' /\ ~Lost
      BY <1>3, <1>4, BecomeGood, BecomeKeeps
    <2>. QED
      BY <1>1, <1>2, <1>4, <2>1 DEF CanTpInv, Others
  <1>5. CASE /\ Become([State EXCEPT !.rx.timer = IF @ = 0 THEN 0 ELSE @ - 1])
             /\ UNCHANGED mail
    <2> DEFINE n == IF rx.timer = 0 THEN 0 ELSE rx.timer - 1
               r == [rx EXCEPT !.timer = n]
    <2>1. [State EXCEPT !.rx.timer = IF @ = 0 THEN 0 ELSE @ - 1] = [State EXCEPT !.rx = r]
      BY StateFields DEF State
    <2>2. n \in 0 .. MaxTimer
      BY <1>1, ConstantTypes DEF RxRecs
    <2> HIDE DEF n
    <2>3. r \in RxRecs /\ r.state = rx.state /\ r.left = rx.left /\ r.block = rx.block
      BY <1>1, <2>2 DEF RxRecs
    <2> HIDE DEF r
    <2>4. Good([State EXCEPT !.rx = r], Started_) /\ Keeps(State, [State EXCEPT !.rx = r])
      BY <1>1, <2>3, StateFields, SameReception
    <2>. QED
      BY <1>1, <1>4, <1>5, <2>1, <2>4
  <1>6. CASE /\ rx.state \in DOMAIN FlowControl
             /\ Become([State EXCEPT !.rx.timer = NAr, !.rx.state = FlowControl[@].state])
             /\ mail' = Posted(FlowControl[rx.state].fc)
    <2> DEFINE st == FlowControl[rx.state].state
               r == [rx EXCEPT !.timer = NAr, !.state = st]
    <2>1. [State EXCEPT !.rx.timer = NAr, !.rx.state = FlowControl[@].state]
             = [State EXCEPT !.rx = r]
      BY StateFields DEF State
    <2>2. /\ st \in RxStates /\ (st \in Receiving) = (rx.state \in Receiving)
          /\ FlowControl[rx.state].fc \in {"CTS", "OVFLW"}
      BY <1>6 DEF FlowControl, RxStates, Receiving, Unaccepted
    <2> HIDE DEF st
    <2>3. r \in RxRecs /\ r.state = st /\ r.left = rx.left /\ r.block = rx.block
      BY <1>1, <2>2, Zenon DEF RxRecs
    <2> HIDE DEF r
    <2>4. Good([State EXCEPT !.rx = r], Started_) /\ Keeps(State, [State EXCEPT !.rx = r])
      BY <1>1, <2>2, <2>3, StateFields, SameReception
    <2>5. mail' \in Seq({"CTS", "OVFLW"}) /\ Len(mail') <= 2
      BY <1>1, <1>6, <2>2 DEF Posted
    <2>. QED
      BY <1>4, <1>6, <2>1, <2>4, <2>5
  <1>7. CASE /\ Due /\ rx.state \notin DOMAIN FlowControl
             /\ Become(TimedOut(State)) /\ UNCHANGED mail
    <2>1. Good(TimedOut(State), Started_) /\ Keeps(State, TimedOut(State))
      BY <1>1, <1>7, StateFields, TimedOutGood DEF Due
    <2>. QED
      BY <1>1, <1>4, <1>7, <2>1
  <1>. QED
    BY <1>5, <1>6, <1>7 DEF L_CanTp_RxMainFunction

\* The functions after the first, which may end a request.
LEMMA TaskStep ==
    ASSUME CanTpInv, UNCHANGED <<doip, mail, tester, sent, faults>>,
           pc' \in {"rx", "tx", "service", "timer", "repeat", "dispatch"},
           NEW t, Become(t), Good(t, Started_), pc' = "service" => ~t.tx
    PROVE  CanTpInv'
  <1>1. Started_' = Started_
    BY DEF Started_
  <1>2. Good(State, Started_)'
    BY <1>1, BecomeGood
  <1>3. pc' = "service" => ~tx'
    BY DEF Become
  <1>. QED
    BY <1>2, <1>3 DEF CanTpInv, Others

LEMMA TxMainStep ==
    ASSUME CanTpInv, L_CanTp_TxMainFunction
    PROVE  CanTpInv'
  <1>1. /\ Good(State, Started_) /\ State \in StateRecs /\ StateOK(State)
        /\ Gate(State, Started_) /\ flaws \in SUBSET Flaws /\ dcm \in DcmRecs
        /\ tx \in BOOLEAN /\ dcm.buf \in Seq(Frames)
    BY DEF CanTpInv, Good, StateOK, StateRecs, State, DcmRecs
  <1>2. pc' = "service" /\ UNCHANGED <<doip, mail, tester, sent, faults>>
    BY DEF L_CanTp_TxMainFunction
  <1>3. CASE ~tx /\ Become(State)
    BY <1>1, <1>2, <1>3, StateFields, TaskStep
  <1>4. CASE tx /\ Become([State EXCEPT !.tx = FALSE, !.flaws = @ \cup {"lost"}])
    <2> DEFINE t == [State EXCEPT !.tx = FALSE, !.flaws = flaws \cup {"lost"}]
    <2>1. /\ Become(t)
      BY <1>4, StateFields
    <2>2. flaws \cup {"lost"} \in SUBSET Flaws
      BY <1>1 DEF Flaws
    <2>3. /\ t \in StateRecs /\ t.dcm = dcm /\ t.tx = FALSE /\ t.rx = rx
          /\ t.open = open /\ t.got = got /\ t.flaws = flaws \cup {"lost"}
      BY <1>1, <2>2, StateFields, Zenon DEF StateRecs
    <2> HIDE DEF t
    <2>4. StateOK(t)
      BY <1>1, <2>3, StateFields, SameChannel
    <2>5. Broken(flaws) => Broken(flaws \cup {"lost"})
      BY DEF Broken
    <2>6. Gate(t, Started_)
      BY <1>1, <2>3, <2>5, StateFields DEF Gate
    <2>. QED
      BY <1>2, <2>1, <2>3, <2>4, <2>6, TaskStep DEF Good
  <1>5. CASE tx /\ \E ok \in BOOLEAN :
               Become([State EXCEPT !.tx = FALSE, !.dcm = Confirmed(@, ok),
                         !.flaws = IF ~ok /\ dcm.repeat THEN @ \cup {"stale"} ELSE @])
    <2>1. PICK ok \in BOOLEAN :
               Become([State EXCEPT !.tx = FALSE, !.dcm = Confirmed(@, ok),
                         !.flaws = IF ~ok /\ dcm.repeat THEN @ \cup {"stale"} ELSE @])
      BY <1>5
    <2> DEFINE fl == IF ~ok /\ dcm.repeat THEN flaws \cup {"stale"} ELSE flaws
               t == [State EXCEPT !.tx = FALSE, !.dcm = Confirmed(@, ok), !.flaws = fl]
    <2>2. Become(t)
      BY <2>1, StateFields
    <2>3. Good(t, Started_)
      BY <1>1, <1>5, StateFields, ConfirmedGood
    <2>4. t.tx = FALSE
      BY <1>1, Zenon DEF StateRecs
    <2> HIDE DEF t
    <2>. QED
      BY <1>2, <2>2, <2>3, <2>4, TaskStep
  <1>. QED
    BY <1>1, <1>3, <1>4, <1>5 DEF L_CanTp_TxMainFunction

LEMMA ServiceStep ==
    ASSUME CanTpInv, UdsRepeatServiceCall
    PROVE  CanTpInv'
  <1>1. /\ Good(State, Started_) /\ Gate(State, Started_) /\ (pc = "service" => ~tx)
    BY DEF CanTpInv, Good, Others
  <1>2. /\ pc = "service" /\ pc' = "timer"
        /\ UNCHANGED <<doip, mail, tester, sent, faults>>
    BY DEF UdsRepeatServiceCall
  <1>3. CASE Become(State)
    BY <1>1, <1>2, <1>3, TaskStep
  <1>4. CASE "processing" \in dcm.flags /\ dcm.handler /\ Serve(State)
    <2>1. ~Broken(flaws) => ~dcm.repeat
      BY <1>1, <1>4, StateFields DEF Gate
    <2>2. \E t : Become(t) /\ Good(t, Started_)
      BY <1>1, <1>2, <1>4, <2>1, StateFields, ServeGood
    <2>. QED
      BY <1>2, <2>2, TaskStep
  <1>. QED
    BY <1>3, <1>4 DEF UdsRepeatServiceCall

LEMMA P2Step ==
    ASSUME CanTpInv, P2Expires
    PROVE  CanTpInv'
  <1>1. /\ Good(State, Started_) /\ State \in StateRecs /\ StateOK(State)
        /\ Gate(State, Started_) /\ flaws \in SUBSET Flaws /\ dcm \in DcmRecs
        /\ tx \in BOOLEAN
    BY DEF CanTpInv, Good, StateOK, StateRecs, State
  <1>2. /\ pc' = "repeat" /\ dcm.p2 /\ "indication" \notin dcm.flags
        /\ UNCHANGED <<doip, mail, tester, sent, faults>>
    BY DEF P2Expires
  <1>3. ~Broken(flaws) => /\ dcm.flags \in {{"processing"}, {"processing", "rcrp"}}
                          /\ ~Started_ /\ rx.state \notin Receiving
                          /\ (tx => "rcrp" \in dcm.flags)
    BY <1>1, <1>2, StateFields DEF Gate
  <1>4. CASE dcm.rcrrp > 0 /\ Become([State EXCEPT
                !.tx = @ \/ CanTransmit(State),
                !.dcm = [dcm EXCEPT !.flags = @ \cup {"rcrp"}, !.rcrrp = @ - 1],
                !.flaws = IF CanTransmit(State) THEN @ ELSE @ \cup {"pending"}])
    <2> DEFINE d == [dcm EXCEPT !.flags = dcm.flags \cup {"rcrp"}, !.rcrrp = dcm.rcrrp - 1]
               fl == IF CanTransmit(State) THEN flaws ELSE flaws \cup {"pending"}
               tx1 == tx \/ CanTransmit(State)
               t == [State EXCEPT !.tx = tx1, !.dcm = d, !.flaws = fl]
    <2>1. Become(t)
      BY <1>4, StateFields
    <2>2. fl \in SUBSET Flaws /\ (Broken(flaws) => Broken(fl)) /\ tx1 \in BOOLEAN
      BY <1>1 DEF Flaws, Broken, CanTransmit
    <2>3. dcm.flags \cup {"rcrp"} \in SUBSET Flags /\ dcm.rcrrp - 1 \in 0 .. MaxRcrrp
      BY <1>1, <1>4, ConstantTypes DEF DcmRecs, Flags
    <2>4. /\ d \in DcmRecs /\ d.flags = dcm.flags \cup {"rcrp"} /\ d.avail = dcm.avail
          /\ d.repeat = dcm.repeat /\ d.handler = dcm.handler /\ d.p2 = dcm.p2
          /\ d.buf = dcm.buf
      BY <1>1, <2>3, Zenon DEF DcmRecs
    <2> HIDE DEF d, fl, tx1
    <2>5. /\ t \in StateRecs /\ t.dcm = d /\ t.tx = tx1 /\ t.rx = rx
          /\ t.open = open /\ t.got = got /\ t.flaws = fl
      BY <1>1, <2>2, <2>4, StateFields, Zenon DEF StateRecs
    <2> HIDE DEF t
    <2>6. StateOK(t)
      BY <1>1, <2>4, <2>5, StateFields, SameChannel
    <2>7. ~Broken(flaws) => d.flags = {"processing", "rcrp"}
      BY <1>3, <2>4
    <2>8. Gate(t, Started_)
      BY <1>1, <1>2, <1>3, <2>2, <2>4, <2>5, <2>7, StateFields DEF Gate
    <2>. QED
      BY <1>2, <2>1, <2>6, <2>8, TaskStep DEF Good
  <1>5. CASE Become([ProcessingDone(State) EXCEPT !.dcm.p2 = FALSE])
    <2>1. ~Broken(State.flaws) => "processing" \in State.dcm.flags
                                  /\ (State.tx => "rcrp" \in State.dcm.flags)
      BY <1>3, StateFields
    <2>2. Good([ProcessingDone(State) EXCEPT !.dcm.p2 = FALSE], Started_)
      BY <1>1, <2>1, ProcessingDoneGood
    <2>. QED
      BY <1>2, <1>5, <2>2, TaskStep
  <1>. QED
    BY <1>4, <1>5 DEF P2Expires

LEMMA RepeatStep ==
    ASSUME CanTpInv, RepeatTransmitCheck
    PROVE  CanTpInv'
  <1>1. /\ Good(State, Started_) /\ State \in StateRecs /\ StateOK(State)
        /\ Gate(State, Started_) /\ dcm \in DcmRecs
    BY DEF CanTpInv, Good, StateOK, StateRecs, State
  <1>2. pc' = "dispatch" /\ UNCHANGED <<doip, mail, tester, sent, faults>>
    BY DEF RepeatTransmitCheck
  <1>3. CASE Become(State)
    BY <1>1, <1>2, <1>3, TaskStep
  <1>4. CASE dcm.repeat /\ Become([State EXCEPT !.tx = TRUE,
                !.dcm = [dcm EXCEPT !.repeat = FALSE, !.p2 = FALSE, !.handler = FALSE]])
    <2> DEFINE d == [dcm EXCEPT !.repeat = FALSE, !.p2 = FALSE, !.handler = FALSE]
               t == [State EXCEPT !.tx = TRUE, !.dcm = d]
    <2>1. Become(t)
      BY <1>4
    <2>2. /\ d \in DcmRecs /\ d.flags = dcm.flags /\ d.avail = dcm.avail
          /\ d.repeat = FALSE /\ d.handler = FALSE /\ d.p2 = FALSE /\ d.buf = dcm.buf
      BY <1>1, Zenon DEF DcmRecs
    <2> HIDE DEF d
    <2>3. /\ t \in StateRecs /\ t.dcm = d /\ t.tx = TRUE /\ t.rx = rx
          /\ t.open = open /\ t.got = got /\ t.flaws = flaws
      BY <1>1, <2>2, StateFields, Zenon DEF StateRecs
    <2> HIDE DEF t
    <2>4. StateOK(t)
      BY <1>1, <2>2, <2>3, StateFields, SameChannel
    <2>5. Gate(t, Started_)
      BY <1>1, <1>4, <2>2, <2>3, StateFields DEF Gate
    <2>. QED
      BY <1>2, <2>1, <2>4, <2>5, TaskStep DEF Good
  <1>5. CASE dcm.repeat /\ Become([State EXCEPT !.dcm.handler = FALSE])
    <2> DEFINE d == [dcm EXCEPT !.handler = FALSE]
               t == [State EXCEPT !.dcm = d]
    <2>1. Become(t)
      BY <1>5, StateFields
    <2>2. /\ d \in DcmRecs /\ d.flags = dcm.flags /\ d.avail = dcm.avail
          /\ d.repeat = dcm.repeat /\ d.handler = FALSE /\ d.p2 = dcm.p2
          /\ d.buf = dcm.buf
      BY <1>1, Zenon DEF DcmRecs
    <2> HIDE DEF d
    <2>3. /\ t \in StateRecs /\ t.dcm = d /\ t.tx = tx /\ t.rx = rx
          /\ t.open = open /\ t.got = got /\ t.flaws = flaws
      BY <1>1, <2>2, StateFields, Zenon DEF StateRecs
    <2> HIDE DEF t
    <2>4. StateOK(t)
      BY <1>1, <2>2, <2>3, StateFields, SameChannel
    <2>5. Gate(t, Started_)
      BY <1>1, <1>5, <2>2, <2>3, StateFields DEF Gate
    <2>. QED
      BY <1>2, <2>1, <2>4, <2>5, TaskStep DEF Good
  <1>. QED
    BY <1>3, <1>4, <1>5 DEF RepeatTransmitCheck

LEMMA DispatchStep ==
    ASSUME CanTpInv, UdsSidDispatcher
    PROVE  CanTpInv'
  <1>1. /\ Good(State, Started_) /\ State \in StateRecs /\ StateOK(State)
        /\ Gate(State, Started_) /\ dcm \in DcmRecs
    BY DEF CanTpInv, Good, StateOK, StateRecs, State
  <1>2. pc' = "rx" /\ UNCHANGED <<doip, mail, tester, sent, faults>>
    BY DEF UdsSidDispatcher
  <1>3. CASE Become(State)
    BY <1>1, <1>2, <1>3, TaskStep
  <1>4. CASE "indication" \in dcm.flags
             /\ Serve([State EXCEPT
                        !.dcm.flags = (@ \ {"indication"}) \cup {"processing"}])
    <2> DEFINE fl == (dcm.flags \ {"indication"}) \cup {"processing"}
               d == [dcm EXCEPT !.flags = fl]
               t == [State EXCEPT !.dcm = d]
    <2>1. Serve(t)
      BY <1>4, StateFields
    <2>2. fl \in SUBSET Flags
      BY <1>1 DEF DcmRecs, Flags
    <2>3. ~Broken(flaws) => /\ fl = {"processing"} /\ ~Started_
                            /\ rx.state \notin Receiving
                            /\ ~tx /\ ~dcm.repeat /\ ~dcm.handler
      BY <1>1, <1>4, StateFields DEF Gate
    <2> HIDE DEF fl
    <2>4. /\ d \in DcmRecs /\ d.flags = fl /\ d.avail = dcm.avail
          /\ d.repeat = dcm.repeat /\ d.handler = dcm.handler
      BY <1>1, <2>2, Zenon DEF DcmRecs
    <2> HIDE DEF d
    <2>5. /\ t \in StateRecs /\ t.dcm = d /\ t.tx = tx /\ t.rx = rx
          /\ t.open = open /\ t.got = got /\ t.flaws = flaws
      BY <1>1, <2>4, StateFields, Zenon DEF StateRecs
    <2> HIDE DEF t
    <2>6. StateOK(t)
      BY <1>1, <2>4, <2>5, StateFields, SameChannel
    <2>7. Gate(t, Started_)
      BY <2>3, <2>4, <2>5 DEF Gate
    <2>8. \E u : Become(u) /\ Good(u, Started_)
      BY <2>1, <2>3, <2>4, <2>5, <2>6, <2>7, ServeGood DEF Good
    <2>. QED
      BY <1>2, <2>8, TaskStep
  <1>. QED
    BY <1>3, <1>4 DEF UdsSidDispatcher

-----------------------------------------------------------------------------
(* The invariant, and what follows from it.                                *)

LEMMA CanTpInitially == Init => CanTpInv
  <1> SUFFICES ASSUME Init PROVE CanTpInv
    OBVIOUS
  <1>1. IdleDcm \in DcmRecs
    BY ConstantTypes, EmptySeq DEF IdleDcm, DcmRecs, Flags
  <1>2. State \in StateRecs
    <2>1. /\ rx \in RxRecs /\ tx \in BOOLEAN /\ dcm \in DcmRecs
          /\ got \in Seq(Frames) /\ open \in 0 .. 1
          /\ {} \in SUBSET Reports /\ flaws \in SUBSET Flaws
      <3>1. <<>> \in Seq(Frames) /\ 0 \in 0 .. 1
        BY EmptySeq
      <3>. QED
        BY <1>1, <3>1, IdleRxType, Zenon DEF Init
    <2>. QED
      BY <2>1, Zenon DEF State, StateRecs
  <1>3. "Idle" \notin Receiving /\ BufSize \in 0 .. BufSize
    BY ConstantTypes DEF Receiving
  <1>4. StateOK(State)
    BY <1>2, <1>3, IdleRxType DEF Init, State, StateOK, Channel, IdleDcm
  <1>5. Gate(State, Started_)
    BY <1>3, IdleRxType DEF Init, State, Gate, IdleDcm, Started_, NoDoip
  <1>6. Others
    BY EmptySeq DEF Init, Others, NoDoip, Resting, DoipRecs, TesterRecs
  <1>. QED
    BY <1>4, <1>5, <1>6 DEF CanTpInv, Good

LEMMA CanTpStep ==
    ASSUME CanTpInv, [Next]_vars
    PROVE  /\ CanTpInv'
           /\ ~(pc # "rx" /\ pc' # pc) => ~Lost
  <1>1. CASE UNCHANGED vars
    <2>1. State' = State /\ Started_' = Started_
      BY <1>1 DEF vars, State, Started_
    <2>2. Good(State, Started_)'
      BY <2>1 DEF CanTpInv, Good, StateOK, Channel, Gate
    <2>. QED
      BY <1>1, <2>2 DEF vars, CanTpInv, Others, Lost
  <1>2. CASE Ask \/ SendCF \/ CanTp_TxConfirmation \/ GiveUp
    BY <1>2, BusStep
  <1>3. CASE AskAll \/ DoipTests \/ DoipStarts \/ DoipFinishes
    BY <1>3, AskAllStep, DoipTestsStep, DoipStartsStep, DoipFinishesStep
  <1>4. CASE L_CanTp_RxMainFunction
    BY <1>4, RxMainStep
  <1>5. CASE L_CanTp_TxMainFunction
    BY <1>5, TxMainStep DEF L_CanTp_TxMainFunction
  <1>6. CASE UdsRepeatServiceCall
    BY <1>6, ServiceStep DEF UdsRepeatServiceCall
  <1>7. CASE P2Expires
    BY <1>7, P2Step DEF P2Expires
  <1>8. CASE P2Runs
    <2>1. /\ pc = "timer" /\ pc' = "repeat" /\ Become(State)
          /\ UNCHANGED <<doip, mail, tester, sent, faults>>
      BY <1>8 DEF P2Runs
    <2>. QED
      BY <2>1, TaskStep DEF CanTpInv
  <1>9. CASE RepeatTransmitCheck
    BY <1>9, RepeatStep DEF RepeatTransmitCheck
  <1>10. CASE UdsSidDispatcher
    BY <1>10, DispatchStep DEF UdsSidDispatcher
  <1>. QED
    BY <1>1, <1>2, <1>3, <1>4, <1>5, <1>6, <1>7, <1>8, <1>9, <1>10
       DEF Next, CanTask, DoipTask

LEMMA CanTpInvariant == Spec => []CanTpInv
BY CanTpInitially, CanTpStep, PTL DEF Spec

\* The state stays in its ranges, whatever the bus does.
THEOREM CanTpTypes == Spec => []CanTpTypeOK
  <1>1. CanTpInv => CanTpTypeOK
    <2> SUFFICES ASSUME CanTpInv PROVE CanTpTypeOK
      OBVIOUS
    <2>1. /\ rx \in RxRecs /\ tx \in BOOLEAN /\ dcm \in DcmRecs /\ open \in 0 .. 1
          /\ flaws \in SUBSET Flaws /\ dcm.avail \in 0 .. BufSize /\ Others
      BY DEF CanTpInv, Good, StateOK, StateRecs, State, Channel
    <2>2. /\ doip.st \in {"none", "tested", "started"}
          /\ tester.st \in {"idle", "wait", "send"}
      BY <2>1 DEF Others, DoipRecs, TesterRecs
    <2>. QED
      BY <2>1, <2>2 DEF CanTpTypeOK, RxRecs, DcmRecs, MaxTimer, Others
  <1>. QED
    BY <1>1, CanTpInvariant, PTL

\* No reception that Dcm has accepted is dropped without Dcm being told.
THEOREM NoneIsDropped == Spec => []NoneDropped
  <1>1. CanTpInv => NoneDropped
    BY DEF CanTpInv, Good, StateOK, Channel, State, NoneDropped
  <1>. QED
    BY <1>1, CanTpInvariant, PTL

\* The clients of Dcm take turns, and the buffer holds what is being received, unless
\* the gate has been gone round.
THEOREM ClientsTakeTurns == Spec => [](~Broken(flaws) => TakesTurns)
  <1>1. CanTpInv => (~Broken(flaws) => TakesTurns)
    BY DEF CanTpInv, Good, StateOK, Channel, Gate, State, Started_, TakesTurns
  <1>. QED
    BY <1>1, CanTpInvariant, PTL

\* A request that Dcm has ends when the CAN task is done with it, and no frame, timer
\* or other client ends it, unless the gate has been gone round.
THEOREM RequestsAreServed == Spec => ServedToTheEnd
  <1>1. CanTpInv /\ [Next]_vars =>
           [ /\ dcm.flags \cap {"indication", "processing"} # {}
             /\ dcm'.flags \cap {"indication", "processing"} = {}
             /\ ~Broken(flaws')
             => pc # "rx" /\ pc' # pc ]_vars
    BY CanTpStep DEF Lost
  <1>. QED
    BY <1>1, CanTpInvariant, PTL DEF Spec, ServedToTheEnd

-----------------------------------------------------------------------------
(* Whole messages.  What the channel has taken is always the beginning of   *)
(* one message of the tester; that the next frame it accepts is the next of *)
(* that message takes what the channel, the flow controls on their way and  *)
(* the tester know of each other.                                           *)

\* A message is being received, and may go on.
Ongoing == {"WaitForTxFC", "WaitForFCConf", "WaitCF"}
ToSend == {"WaitForTxFC", "WaitForTxFCOverrun", "WaitForTxFCOverrunFFReqBuff"}

\* The first Len(s) frames of a message.
Start(s) == \A i \in 1 .. Len(s) : s[i] = [id |-> s[1].id, k |-> i - 1, n |-> s[1].n]

\* The counters of the channel agree with what it has taken.
InSequence(s) ==
    /\ s.got # <<>> /\ Start(s.got)
    /\ s.rx.left = s.got[1].n - Len(s.got)
    /\ s.rx.sn = Len(s.got) % SnMod
    /\ s.rx.state # "WaitCF" => s.rx.block = BS

ToldWhole(s) == \A t \in s.told : t.result = "OK" => Whole(t.frames)

\* What Dcm has or will have is a whole request.
HasWhole(s, started) ==
    ~Broken(s.flaws) =>
       /\ s.dcm.flags \cap {"indication", "processing"} # {} => Whole(s.dcm.buf)
       /\ started => s.dcm.buf = <<>>

Sound(s, started) ==
    /\ s.tx => s.rx.state = "Idle"
    /\ s.rx.state \in Ongoing => InSequence(s)
    /\ ToldWhole(s) /\ HasWhole(s, started)

LEMMA EndRxSound ==
    ASSUME NEW s \in StateRecs, NEW started, NEW r \in Results, ToldWhole(s),
           r = "OK" => Whole(s.got),
           ~Broken(s.flaws) => Taking(s, started) /\ (r = "OK" => s.dcm.buf = s.got)
    PROVE  Sound(EndRx(s, r), started)
  <1> DEFINE t == EndRx(s, r)
  <1>1. s.dcm \in DcmRecs /\ s.got \in Seq(Frames) /\ "Idle" \notin Ongoing
    BY DEF StateRecs, Ongoing
  <1>2. /\ t.rx = IdleRx /\ t.dcm = Indicated(s.dcm, r) /\ t.flaws = s.flaws
        /\ t.rx.state = "Idle"
    BY EndRxFields, IdleRxType
  <1>3. t.told = s.told \cup {[result |-> r, frames |-> s.got]}
    BY DEF EndRx, StateRecs
  <1> HIDE DEF t
  <1>4. ToldWhole(t)
    BY <1>3 DEF ToldWhole
  <1>5. /\ t.dcm.buf = s.dcm.buf
        /\ r # "OK" => t.dcm.flags = {"idle"}
    BY <1>1, <1>2 DEF Indicated, DcmRecs
  <1>6. HasWhole(t, started)
    BY <1>2, <1>5 DEF HasWhole, Taking
  <1>. QED
    BY <1>1, <1>2, <1>4, <1>6 DEF Sound, t

LEMMA UnexpectedSound ==
    ASSUME NEW s, NEW started, Good(s, started), Sound(s, started)
    PROVE  Sound(Unexpected(s), started)
  <1>1. s \in StateRecs /\ "UNEXP_PDU" \in Results /\ s.rx.state \in RxStates
        /\ "Idle" \notin Ongoing /\ ToldWhole(s)
    BY DEF Good, StateOK, Results, StateRecs, RxRecs, Ongoing, Sound
  <1>2. CASE s.rx.state = "Idle"
    BY <1>2 DEF Unexpected
  <1>3. CASE s.rx.state \in Receiving
    <2>1. Unexpected(s) = [EndRx(s, "UNEXP_PDU") EXCEPT !.flaws = @]
      BY <1>1, <1>3 DEF Unexpected, Receiving, Unaccepted
    <2>2. Unexpected(s) = EndRx(s, "UNEXP_PDU")
      BY <1>1, <2>1, EndRxFields DEF StateRecs
    <2>3. ~Broken(s.flaws) => Taking(s, started)
      BY <1>3, ReceivingIsTaking DEF Good
    <2>. QED
      BY <1>1, <2>2, <2>3, EndRxSound
  <1>4. CASE s.rx.state \in Unaccepted
    <2> DEFINE e == EndRx(s, "UNEXP_PDU")
               t == [e EXCEPT !.flaws = @ \cup {"unaccepted"}]
    <2>1. Unexpected(s) = t
      BY <1>1, <1>4 DEF Unexpected, Unaccepted
    <2>2. e \in StateRecs /\ e.rx.state = "Idle"
      BY <1>1, EndRxFields, IdleRxType
    <2>3. e.told = s.told \cup {[result |-> "UNEXP_PDU", frames |-> s.got]}
      BY <1>1 DEF EndRx, StateRecs
    <2> HIDE DEF e
    <2>4. t.rx = e.rx /\ t.told = e.told /\ t.flaws = e.flaws \cup {"unaccepted"}
      BY <2>2 DEF StateRecs
    <2> HIDE DEF t
    <2>5. Broken(t.flaws)
      BY <2>4 DEF Broken
    <2>6. ToldWhole(t)
      BY <1>1, <2>3, <2>4 DEF ToldWhole
    <2>. QED
      BY <1>1, <2>1, <2>2, <2>4, <2>5, <2>6 DEF Sound, HasWhole
  <1>. QED
    BY <1>1, <1>2, <1>3, <1>4 DEF RxStates

LEMMA TakenTold ==
    ASSUME NEW s \in StateRecs, NEW f
    PROVE  Taken(s, f).told = s.told /\ Begun(s, f).told = s.told
BY DEF Taken, Begun, StateRecs

\* The frame of a message that has no other.
LEMMA SingleSound ==
    ASSUME NEW s, NEW started, Good(s, started), Sound(s, started),
           NEW f \in Frames, f.n = 1, f.k = 0
    PROVE  Sound(RxSFPdu(s, f), started) /\ RxSFPdu(s, f).rx.state = "Idle"
  <1> DEFINE u == Unexpected(s)
             b == Begun(u, f)
  <1>1. /\ StateOK(u) /\ Gate(u, started) /\ u.rx.state = "Idle" /\ Sound(u, started)
        /\ u \in StateRecs /\ u.dcm \in DcmRecs
    BY UnexpectedGood, UnexpectedSound DEF Good, StateOK, StateRecs
  <1>2. CASE s.tx
    BY <1>2 DEF RxSFPdu, Sound
  <1>3. CASE ~s.tx /\ StartResult(u.dcm, 1) # "OK"
    BY <1>1, <1>3 DEF RxSFPdu
  <1>4. CASE ~s.tx /\ StartResult(u.dcm, 1) = "OK"
    <2>1. RxSFPdu(s, f) = EndRx(b, "OK")
      BY <1>4 DEF RxSFPdu
    <2>2. u.dcm.flags = {"idle"} /\ u.dcm.avail > 0
      BY <1>1, <1>4, StartResultOK
    <2>3. /\ b \in StateRecs /\ b.flaws = u.flaws /\ b.tx = u.tx /\ b.dcm.flags = {}
          /\ b.dcm.buf = <<f>> /\ b.got = <<f>>
          /\ b.dcm.repeat = u.dcm.repeat /\ b.dcm.handler = u.dcm.handler
          /\ b.dcm.p2 = u.dcm.p2 /\ b.told = u.told
      BY <1>1, <2>2, BegunFields, TakenTold
    <2>4. ~Broken(b.flaws) => Taking(b, started)
      BY <1>1, <2>2, <2>3, IdleGate DEF Taking
    <2>5. Whole(<<f>>)
      <3>1. f = [id |-> f.id, k |-> 0, n |-> 1]
        BY DEF Frames
      <3>. QED
        BY <3>1 DEF Whole
    <2>6. "OK" \in Results /\ ToldWhole(b)
      BY <1>1, <2>3 DEF Results, Sound, ToldWhole
    <2> HIDE DEF b
    <2>7. Sound(EndRx(b, "OK"), started)
      BY <2>3, <2>4, <2>5, <2>6, EndRxSound
    <2>. QED
      BY <2>1, <2>3, <2>6, <2>7, EndRxFields, IdleRxType
  <1>. QED
    BY <1>2, <1>3, <1>4

LEMMA MinBufferAccessRest ==
    ASSUME NEW s \in StateRecs
    PROVE  MinBufferAccess(s).rx.sn = s.rx.sn /\ MinBufferAccess(s).told = s.told
BY DEF MinBufferAccess, StateRecs, RxRecs

\* A channel that Dcm has just accepted frames of, without an end to be told.
LEMMA OngoingSound ==
    ASSUME NEW s, NEW started, NEW t, Sound(s, started), t.told = s.told, ~t.tx,
           ~Broken(t.flaws) => t.dcm.flags = {} /\ ~started,
           t.rx.state \in Ongoing => InSequence(t)
    PROVE  Sound(t, started)
BY DEF Sound, ToldWhole, HasWhole

\* The first frame of a longer message, or its copy.
LEMMA FirstSound ==
    ASSUME NEW s, NEW started, Good(s, started), Sound(s, started),
           NEW f \in Frames, f.n # 1, f.k = 0
    PROVE  LET t == RxFFPdu(s, f)
           IN  /\ Sound(t, started) /\ t.rx.state \in ToSend \cup {"Idle"}
               /\ t.rx.state = "WaitForTxFC" => t.got = <<f>>
  <1> DEFINE u == Unexpected(s)
             r == StartResult(u.dcm, f.n)
  <1>1. /\ StateOK(u) /\ Gate(u, started) /\ u.rx.state = "Idle" /\ Sound(u, started)
        /\ u.tx = s.tx
        /\ u \in StateRecs /\ u.dcm \in DcmRecs /\ u.rx \in RxRecs /\ f.n \in Nat \ {0}
    BY UnexpectedGood, UnexpectedSound DEF Good, StateOK, StateRecs, Frames
  <1>2. CASE s.tx
    BY <1>2 DEF RxFFPdu, Sound
  <1>3. CASE ~s.tx /\ r = "NOT_OK"
    <2>1. RxFFPdu(s, f) = u
      BY <1>3 DEF RxFFPdu
    <2>. QED
      BY <1>1, <2>1
  <1>4. CASE ~s.tx /\ r = "OVFL"
    <2> DEFINE t == [u EXCEPT !.rx.state = "WaitForTxFCOverrunFFReqBuff"]
    <2>1. RxFFPdu(s, f) = t
      BY <1>4 DEF RxFFPdu
    <2>2. /\ t.rx.state = "WaitForTxFCOverrunFFReqBuff" /\ t.dcm = u.dcm
          /\ t.tx = u.tx /\ t.told = u.told /\ t.flaws = u.flaws
      BY <1>1 DEF StateRecs, RxRecs
    <2> HIDE DEF t
    <2>3. Sound(t, started)
      BY <1>1, <1>4, <2>2 DEF Sound, ToldWhole, HasWhole, Ongoing
    <2>. QED
      BY <2>1, <2>2, <2>3 DEF ToSend
  <1>5. CASE ~s.tx /\ r = "OK"
    <2> DEFINE b == Begun(u, f)
               q == [b EXCEPT !.rx.sn = 1 % SnMod, !.rx.block = BS, !.rx.left = f.n - 1]
               t == MinBufferAccess(q)
    <2>1. RxFFPdu(s, f) = t
      BY <1>5 DEF RxFFPdu
    <2>2. u.dcm.flags = {"idle"} /\ u.dcm.avail > 0 /\ f.n <= u.dcm.avail
      BY <1>1, <1>5, StartResultOK
    <2>3. /\ b \in StateRecs /\ b.rx = u.rx /\ b.tx = u.tx /\ b.flaws = u.flaws
          /\ b.dcm.flags = {} /\ b.got = <<f>> /\ b.told = u.told
      BY <1>1, <2>2, BegunFields, TakenTold
    <2> HIDE DEF b
    <2>4. /\ 1 % SnMod \in 0 .. SnMod - 1 /\ BS \in 0 .. BS /\ f.n - 1 \in 0 .. BufSize
      <3>1. 1 % SnMod \in 0 .. SnMod - 1
        BY ModRange
      <3>2. u.dcm.avail \in 0 .. BufSize /\ BufSize \in Nat
        BY <1>1, ConstantTypes DEF StateOK, Channel
      <3>. QED
        BY <1>1, <2>2, <3>1, <3>2, ConstantTypes
    <2> DEFINE x == [u.rx EXCEPT !.sn = 1 % SnMod, !.block = BS, !.left = f.n - 1]
    <2>5. x \in RxRecs /\ x.sn = 1 % SnMod /\ x.block = BS /\ x.left = f.n - 1
      <3>1. x \in RxRecs
        BY <1>1, <2>4, Zenon DEF RxRecs
      <3>. QED
        BY <1>1, <3>1, Zenon DEF RxRecs
    <2>6. q = [b EXCEPT !.rx = x]
      BY <1>1, <2>3 DEF StateRecs, RxRecs
    <2> HIDE DEF x
    <2>7. /\ q \in StateRecs /\ q.rx = x /\ q.tx = b.tx /\ q.flaws = b.flaws
          /\ q.dcm = b.dcm /\ q.got = b.got /\ q.told = b.told
      BY <2>3, <2>5, <2>6, Zenon DEF StateRecs
    <2> HIDE DEF q
    <2>8. /\ t.rx.state \in {"WaitForTxFC", "WaitForTxFCOverrun"} /\ t.rx.sn = 1 % SnMod
          /\ t.rx.block = BS /\ t.rx.left = f.n - 1 /\ t.tx = u.tx /\ t.flaws = u.flaws
          /\ t.dcm = b.dcm /\ t.got = <<f>> /\ t.told = u.told
      BY <2>3, <2>5, <2>7, MinBufferAccessFields, MinBufferAccessRest
    <2> HIDE DEF t
    <2>9. InSequence(t)
      <3>1. Start(<<f>>) /\ Len(<<f>>) = 1 /\ <<f>> # <<>> /\ <<f>>[1] = f
        <4>1. f = [id |-> f.id, k |-> 0, n |-> f.n]
          BY DEF Frames
        <4>. QED
          BY <4>1 DEF Start
      <3>. QED
        BY <2>8, <3>1 DEF InSequence
    <2>10. ~Broken(u.flaws) => ~started
      BY <1>1, <2>2, IdleGate
    <2>11. Sound(t, started)
      BY <1>1, <1>5, <2>3, <2>8, <2>9, <2>10, OngoingSound
    <2>. QED
      BY <2>1, <2>8, <2>11 DEF ToSend
  <1>6. r \in {"OK", "OVFL", "NOT_OK"}
    BY DEF StartResult
  <1>. QED
    BY <1>2, <1>3, <1>4, <1>5, <1>6

\* A message has been begun with frame f, or refused.
Opened(t, f) ==
    /\ t.rx.state \in ToSend \cup {"Idle"} /\ (f.n = 1 => t.rx.state = "Idle")
    /\ t.rx.state = "WaitForTxFC" => t.got = <<f>>

LEMMA OpenedSound ==
    ASSUME NEW s, NEW started, Good(s, started), Sound(s, started),
           NEW f \in Frames, f.k = 0
    PROVE  Sound(RxIndication(s, f), started) /\ Opened(RxIndication(s, f), f)
  <1>1. CASE f.n = 1
    BY <1>1, SingleSound DEF RxIndication, Opened
  <1>2. CASE f.n # 1
    BY <1>2, FirstSound DEF RxIndication, Opened
  <1>. QED
    BY <1>1, <1>2

\* What a message looks like with its next frame.
LEMMA NextFrame ==
    ASSUME NEW q \in Seq(Frames), q # <<>>, Start(q), NEW f \in Frames,
           f.id = q[1].id, f.n = q[1].n, f.k = Len(q)
    PROVE  LET p == Append(q, f)
           IN  /\ p \in Seq(Frames) /\ p # <<>> /\ p[1] = q[1] /\ Len(p) = Len(q) + 1
               /\ Start(p) /\ (Len(p) = f.n => Whole(p))
  <1> DEFINE p == Append(q, f)
  <1>1. /\ p \in Seq(Frames) /\ Len(p) = Len(q) + 1 /\ Len(q) \in Nat \ {0}
        /\ \A i \in 1 .. Len(q) : p[i] = q[i]
        /\ p[Len(q) + 1] = f
    BY AppendProperties, LenProperties
  <1>2. p # <<>> /\ p[1] = q[1]
    BY <1>1
  <1>3. f = [id |-> q[1].id, k |-> Len(q), n |-> q[1].n]
    BY DEF Frames
  <1> HIDE DEF p
  <1>4. Start(p)
    <2> SUFFICES ASSUME NEW i \in 1 .. Len(p)
                 PROVE  p[i] = [id |-> p[1].id, k |-> i - 1, n |-> p[1].n]
      BY DEF Start
    <2>1. CASE i \in 1 .. Len(q)
      BY <1>1, <1>2, <2>1 DEF Start
    <2>2. CASE i = Len(q) + 1
      BY <1>1, <1>2, <1>3, <2>2
    <2>. QED
      BY <1>1, <2>1, <2>2
  <1>5. Len(p) = f.n => Whole(p)
    BY <1>1, <1>2, <1>4 DEF Whole, Start
  <1>. QED
    BY <1>1, <1>2, <1>4, <1>5 DEF p

-----------------------------------------------------------------------------
(* The sequence numbers, which are counted modulo SnMod.                   *)

\* x is what remains of a divided by SnMod.
Remains(a, x) == \E q \in Int : x \in 0 .. SnMod - 1 /\ a = SnMod * q + x

LEMMA ModRemains ==
    ASSUME NEW a \in Nat
    PROVE  Remains(a, a % SnMod)
  <1> DEFINE x == a % SnMod
             q == a \div SnMod
  <1>1. x \in 0 .. SnMod - 1
    BY ModRange
  <1>2. q \in Int
    BY ConstantTypes
  <1>3. x = a - SnMod * q
    BY ConstantTypes
  <1> HIDE DEF x, q
  <1>4. a = SnMod * q + x
    BY <1>1, <1>2, <1>3, ConstantTypes
  <1>5. Remains(a, x)
    BY <1>1, <1>2, <1>4 DEF Remains
  <1>. QED
    BY <1>5 DEF x

LEMMA RemainsOnce ==
    ASSUME NEW a \in Int, NEW x, NEW y, Remains(a, x), Remains(a, y)
    PROVE  x = y
  <1>1. PICK q \in Int : x \in 0 .. SnMod - 1 /\ a = SnMod * q + x
    BY DEF Remains
  <1>2. PICK p \in Int : y \in 0 .. SnMod - 1 /\ a = SnMod * p + y
    BY DEF Remains
  <1>3. SnMod \in Nat \ {0} /\ x - y < SnMod /\ y - x < SnMod
    BY <1>1, <1>2, ConstantTypes
  <1>4. SnMod * (q - p) = y - x
    BY <1>1, <1>2, <1>3
  <1>5. CASE q - p >= 1
    <2>1. SnMod * (q - p) >= SnMod
      BY <1>3, <1>5
    <2>. QED
      BY <1>1, <1>2, <1>3, <1>4, <2>1
  <1>6. CASE q - p <= -1
    <2>1. SnMod * (q - p) <= -SnMod
      BY <1>3, <1>6
    <2>. QED
      BY <1>1, <1>2, <1>3, <1>4, <2>1
  <1>7. CASE q - p = 0
    BY <1>1, <1>2, <1>3, <1>4, <1>7
  <1>. QED
    BY <1>5, <1>6, <1>7

LEMMA RemainsMore ==
    ASSUME NEW a \in Int, NEW x, NEW d \in Int, NEW y, Remains(a, x), Remains(x + d, y)
    PROVE  Remains(a + d, y)
  <1>1. PICK q \in Int : x \in 0 .. SnMod - 1 /\ a = SnMod * q + x
    BY DEF Remains
  <1>2. PICK p \in Int : y \in 0 .. SnMod - 1 /\ x + d = SnMod * p + y
    BY DEF Remains
  <1>3. q + p \in Int /\ a + d = SnMod * (q + p) + y
    BY <1>1, <1>2, ConstantTypes
  <1>. QED
    BY <1>2, <1>3 DEF Remains

LEMMA ModSucc ==
    ASSUME NEW a \in Nat
    PROVE  ((a % SnMod) + 1) % SnMod = (a + 1) % SnMod
  <1> DEFINE x == a % SnMod
             v == (x + 1) % SnMod
             w == (a + 1) % SnMod
  <1>1. x + 1 \in Nat /\ a + 1 \in Nat /\ Remains(a, x)
    <2>1. x \in 0 .. SnMod - 1
      BY ModRange
    <2>. QED
      BY <2>1, ModRemains, ConstantTypes
  <1> HIDE DEF x
  <1>2. Remains(x + 1, v) /\ Remains(a + 1, w)
    BY <1>1, ModRemains
  <1> HIDE DEF v, w
  <1>3. Remains(a + 1, v)
    BY <1>1, <1>2, RemainsMore
  <1>4. v = w
    BY <1>1, <1>2, <1>3, RemainsOnce
  <1>. QED
    BY <1>4 DEF v, w, x

LEMMA ModAhead ==
    ASSUME NEW a \in Nat, NEW d \in 1 .. SnMod - 1
    PROVE  (a + d) % SnMod # a % SnMod
  <1> DEFINE x == a % SnMod
             w == (a + d) % SnMod
  <1>1. a + d \in Nat /\ d \in Int /\ -d \in Int
    BY ConstantTypes
  <1>2. Remains(a, x) /\ Remains(a + d, w)
    BY <1>1, ModRemains
  <1> HIDE DEF x, w
  <1>3. ASSUME w = x PROVE FALSE
    <2>1. PICK q \in Int : x \in 0 .. SnMod - 1 /\ a = SnMod * q + x
      BY <1>2 DEF Remains
    <2>2. PICK p \in Int : a + d = SnMod * p + x
      BY <1>2, <1>3 DEF Remains
    <2>3. d = SnMod * (p - q) + 0 /\ d = SnMod * 0 + d /\ p - q \in Int
      BY <2>1, <2>2, ConstantTypes
    <2>4. Remains(d, 0) /\ Remains(d, d)
      BY <2>3, ConstantTypes DEF Remains
    <2>5. d = 0
      BY <1>1, <2>4, RemainsOnce
    <2>. QED
      BY <2>5
  <1>. QED
    BY <1>3 DEF w, x

-----------------------------------------------------------------------------
(* Consecutive frames.                                                     *)

\* The next frame of the message is f.
Follows(s, f) ==
    /\ f.id = s.got[1].id /\ f.n = s.got[1].n /\ f.k = Len(s.got)

\* Frame f has been taken, and was the last, or the last of a block, or neither; or the
\* reception has ended otherwise.
Advanced(s, t, f) ==
    /\ t.rx.state \in ToSend \cup {"WaitCF", "Idle"}
    /\ t.rx.state \in ToSend => s.rx.block = 1
    /\ t.rx.state = "WaitCF" => s.rx.block # 1 /\ t.rx.block = s.rx.block - 1
    /\ t.rx.state \in Ongoing => t.got = Append(s.got, f)
    /\ t.rx.state # "Idle" => Len(s.got) + 1 < f.n

LEMMA GoingSound ==
    ASSUME NEW s, NEW started, Good(s, started), Sound(s, started),
           s.rx.state = "WaitCF", s.rx.left > 1, NEW f \in Frames, Follows(s, f)
    PROVE  Sound(GoingCF(s, f), started) /\ Advanced(s, GoingCF(s, f), f)
  <1> DEFINE k == Taken(s, f)
             block == IF s.rx.block = 1 THEN BS ELSE s.rx.block - 1
             left == IF Busy(s.dcm) THEN s.rx.left ELSE s.rx.left - 1
             t == [k EXCEPT !.rx.timer = NCr, !.rx.sn = (@ + 1) % SnMod,
                            !.rx.block = IF @ = 1 THEN BS ELSE @ - 1,
                            !.rx.left = IF Busy(s.dcm) THEN @ ELSE @ - 1]
  <1>1. "WaitCF" \in Receiving /\ "NO_BUFFER" \in Results /\ "WaitCF" \in Ongoing
        /\ "WaitForTxFCOverrun" \notin Ongoing /\ "Idle" \notin Ongoing
        /\ "Idle" \notin ToSend /\ "WaitCF" \notin ToSend
        /\ "WaitForTxFCOverrun" \in ToSend
    BY DEF Receiving, Results, Ongoing, ToSend
  <1>2. /\ s \in StateRecs /\ s.rx \in RxRecs /\ s.got \in Seq(Frames)
        /\ s.rx.left \in 1 .. s.dcm.avail /\ s.rx.block \in 1 .. BS
        /\ ~s.tx /\ InSequence(s) /\ ToldWhole(s) /\ s.dcm.avail \in 0 .. BufSize
    BY <1>1 DEF Good, StateOK, Channel, StateRecs, Sound
  <1>3. /\ k \in StateRecs /\ k.rx = s.rx /\ k.tx = s.tx /\ k.told = s.told
        /\ k.flaws = s.flaws
        /\ k.got = IF Busy(s.dcm) THEN s.got ELSE Append(s.got, f)
    BY <1>2, TakenFields, TakenTold
  <1>4. ~Broken(s.flaws) => Taking(k, started) /\ ~Busy(s.dcm)
    BY <1>1, TakenWhileReceiving
  <1> HIDE DEF k
  <1>5. /\ Len(s.got) \in Nat /\ Len(s.got) + 1 < f.n
        /\ s.rx.left = f.n - Len(s.got) /\ s.rx.sn = Len(s.got) % SnMod
        /\ f.n \in Nat /\ s.got # <<>> /\ Start(s.got)
    <2>1. Len(s.got) \in Nat /\ f.n \in Nat
      BY <1>2, LenProperties DEF Frames
    <2>2. /\ s.rx.left = f.n - Len(s.got) /\ s.rx.sn = Len(s.got) % SnMod
          /\ s.got # <<>> /\ Start(s.got)
      BY <1>2 DEF InSequence, Follows
    <2>. QED
      BY <2>1, <2>2
  <1>6. /\ NCr \in 0 .. MaxTimer /\ 1 \in 0 .. MaxTimer
        /\ (s.rx.sn + 1) % SnMod \in 0 .. SnMod - 1
        /\ (s.rx.sn + 1) % SnMod = (Len(s.got) + 1) % SnMod
    <2>1. s.rx.sn + 1 \in Int
      BY <1>2, ConstantTypes DEF RxRecs
    <2>2. (s.rx.sn + 1) % SnMod = (Len(s.got) + 1) % SnMod
      BY <1>5, ModSucc
    <2>3. (s.rx.sn + 1) % SnMod \in 0 .. SnMod - 1
      BY <2>1, ModRange
    <2>4. NCr \in 0 .. MaxTimer /\ 1 \in 0 .. MaxTimer
      BY ConstantTypes
    <2>. QED
      BY <2>2, <2>3, <2>4
  <1>7. block \in 0 .. BS /\ left \in 0 .. BufSize
    <2>1. block \in 0 .. BS
      BY <1>2, ConstantTypes
    <2>2. left \in 0 .. BufSize
      <3>1. s.rx.left \in 0 .. BufSize
        BY <1>2 DEF RxRecs
      <3>. QED
        BY <3>1, ConstantTypes
    <2>. QED
      BY <2>1, <2>2
  <1>8. /\ s.rx.block = 1 => block = BS
        /\ s.rx.block # 1 => block = s.rx.block - 1
        /\ ~Busy(s.dcm) => left = f.n - (Len(s.got) + 1)
    BY <1>2, <1>5
  <1> HIDE DEF block, left
  <1>9. t = [k EXCEPT !.rx.timer = NCr, !.rx.sn = (s.rx.sn + 1) % SnMod,
                      !.rx.block = block, !.rx.left = left]
    BY <1>3 DEF block, left, StateRecs, RxRecs
  <1>10. GoingCF(s, f) =
            IF ~Busy(s.dcm)
            THEN IF s.rx.block = 1 THEN MinBufferAccess(t) ELSE t
            ELSE IF s.rx.block = 1
            THEN [t EXCEPT !.rx.state = "WaitForTxFCOverrun", !.rx.timer = 1]
            ELSE EndRx(t, "NO_BUFFER")
    BY DEF GoingCF, k
  <1> HIDE DEF t
  <1> DEFINE r == [s.rx EXCEPT !.timer = NCr, !.sn = (s.rx.sn + 1) % SnMod,
                               !.block = block, !.left = left]
  <1>11. r \in RxRecs /\ r.state = "WaitCF" /\ r.block = block /\ r.left = left
         /\ r.sn = (Len(s.got) + 1) % SnMod
    <2>1. r \in RxRecs
      BY <1>2, <1>6, <1>7, Zenon DEF RxRecs
    <2>. QED
      BY <1>2, <1>6, <2>1 DEF RxRecs
  <1>12. t = [k EXCEPT !.rx = r]
    BY <1>3, <1>9 DEF StateRecs
  <1> HIDE DEF r
  <1>13. /\ t \in StateRecs /\ t.rx = r /\ t.rx.state = "WaitCF" /\ t.rx.block = block
         /\ t.rx.left = left /\ t.rx.sn = (Len(s.got) + 1) % SnMod
         /\ t.tx = s.tx /\ t.flaws = s.flaws /\ t.dcm = k.dcm /\ t.got = k.got
         /\ t.told = s.told
    BY <1>3, <1>11, <1>12 DEF StateRecs
  <1>14. ~Broken(t.flaws) => t.dcm.flags = {} /\ ~started /\ Taking(t, started)
    BY <1>3, <1>4, <1>13 DEF Taking
  <1>15. ASSUME ~Busy(s.dcm)
         PROVE  /\ t.got = Append(s.got, f) /\ t.got # <<>> /\ Start(t.got)
                /\ t.got[1] = s.got[1] /\ Len(t.got) = Len(s.got) + 1
                /\ t.rx.left = t.got[1].n - Len(t.got) /\ t.rx.sn = Len(t.got) % SnMod
    BY <1>2, <1>3, <1>5, <1>8, <1>13, <1>15, NextFrame DEF Follows
  <1>16. CASE ~Busy(s.dcm) /\ s.rx.block # 1
    <2>1. InSequence(t)
      BY <1>13, <1>15, <1>16 DEF InSequence
    <2>2. Sound(t, started)
      BY <1>2, <1>13, <1>14, <2>1, OngoingSound
    <2>3. Advanced(s, t, f)
      BY <1>1, <1>5, <1>8, <1>13, <1>15, <1>16 DEF Advanced
    <2>. QED
      BY <1>10, <1>16, <2>2, <2>3
  <1>17. CASE ~Busy(s.dcm) /\ s.rx.block = 1
    <2> DEFINE m == MinBufferAccess(t)
    <2>1. /\ m.rx.state \in {"WaitForTxFC", "WaitForTxFCOverrun"} /\ m.rx.left = t.rx.left
          /\ m.rx.block = t.rx.block /\ m.rx.sn = t.rx.sn /\ m.tx = t.tx
          /\ m.flaws = t.flaws /\ m.dcm = t.dcm /\ m.got = t.got /\ m.told = t.told
      BY <1>13, MinBufferAccessFields, MinBufferAccessRest
    <2> HIDE DEF m
    <2>2. InSequence(m)
      BY <1>8, <1>13, <1>15, <1>17, <2>1 DEF InSequence
    <2>3. Sound(m, started)
      BY <1>2, <1>13, <1>14, <2>1, <2>2, OngoingSound
    <2>4. Advanced(s, m, f)
      BY <1>1, <1>5, <1>15, <1>17, <2>1 DEF Advanced, ToSend
    <2>. QED
      BY <1>10, <1>17, <2>3, <2>4 DEF m
  <1>18. CASE Busy(s.dcm) /\ s.rx.block = 1
    <2> DEFINE o == [t EXCEPT !.rx.state = "WaitForTxFCOverrun", !.rx.timer = 1]
    <2>1. /\ o.rx.state = "WaitForTxFCOverrun" /\ o.tx = t.tx /\ o.flaws = t.flaws
          /\ o.dcm = t.dcm /\ o.told = t.told
      BY <1>13 DEF StateRecs, RxRecs
    <2> HIDE DEF o
    <2>2. Sound(o, started)
      BY <1>1, <1>2, <1>13, <1>14, <2>1, OngoingSound
    <2>3. Advanced(s, o, f)
      BY <1>1, <1>5, <1>18, <2>1 DEF Advanced
    <2>. QED
      BY <1>10, <1>18, <2>2, <2>3 DEF o
  <1>19. CASE Busy(s.dcm) /\ s.rx.block # 1
    <2>1. Sound(EndRx(t, "NO_BUFFER"), started)
      BY <1>1, <1>2, <1>13, <1>14, EndRxSound DEF ToldWhole
    <2>2. EndRx(t, "NO_BUFFER").rx.state = "Idle"
      BY <1>1, <1>13, EndRxFields, IdleRxType
    <2>3. Advanced(s, EndRx(t, "NO_BUFFER"), f)
      BY <1>1, <2>2 DEF Advanced
    <2>. QED
      BY <1>10, <1>19, <2>1, <2>3
  <1>. QED
    BY <1>16, <1>17, <1>18, <1>19

\* A frame with another sequence number ends the reception.
LEMMA WrongSound ==
    ASSUME NEW s, NEW started, Good(s, started), Sound(s, started),
           s.rx.state = "WaitCF", NEW f, f.k % SnMod # s.rx.sn
    PROVE  Sound(RxCFPdu(s, f), started) /\ RxCFPdu(s, f).rx.state = "Idle"
  <1>1. s \in StateRecs /\ "WRONG_SN" \in Results /\ "WaitCF" \in Receiving /\ ToldWhole(s)
    BY DEF Good, StateOK, Results, Receiving, Sound
  <1>2. RxCFPdu(s, f) = EndRx(s, "WRONG_SN")
    BY DEF RxCFPdu
  <1>3. ~Broken(s.flaws) => Taking(s, started)
    BY <1>1, ReceivingIsTaking DEF Good
  <1>. QED
    BY <1>1, <1>2, <1>3, EndRxSound, EndRxFields, IdleRxType

\* The frame that is expected.
LEMMA NextSound ==
    ASSUME NEW s, NEW started, Good(s, started), Sound(s, started),
           s.rx.state = "WaitCF", NEW f \in Frames, Follows(s, f)
    PROVE  Sound(RxCFPdu(s, f), started) /\ Advanced(s, RxCFPdu(s, f), f)
  <1>1. /\ s \in StateRecs /\ s.rx \in RxRecs /\ s.got \in Seq(Frames)
        /\ "WaitCF" \in Receiving /\ ToldWhole(s) /\ InSequence(s)
        /\ s.rx.left \in Nat /\ s.rx.left >= 1
    BY DEF Good, StateOK, StateRecs, Receiving, Sound, Ongoing, Channel
  <1>2. f.k % SnMod = s.rx.sn
    BY <1>1 DEF InSequence, Follows
  <1>3. CASE s.rx.left > 1
    BY <1>2, <1>3, GoingSound DEF RxCFPdu
  <1>4. CASE ~(s.rx.left > 1)
    <2> DEFINE k == Taken(s, f)
               r == IF Busy(s.dcm) THEN "NO_BUFFER" ELSE "OK"
    <2>1. RxCFPdu(s, f) = EndRx(k, r)
      BY <1>2, <1>4 DEF RxCFPdu
    <2>2. /\ k \in StateRecs /\ k.flaws = s.flaws /\ k.told = s.told
          /\ k.got = IF Busy(s.dcm) THEN s.got ELSE Append(s.got, f)
          /\ r \in Results
      BY <1>1, TakenFields, TakenTold DEF Results
    <2>3. ~Broken(s.flaws) => Taking(k, started) /\ k.dcm.buf = k.got
      BY <1>1, TakenWhileReceiving
    <2>4. Len(s.got) \in Nat /\ Len(s.got) + 1 = f.n
      <3>1. s.rx.left = 1 /\ s.rx.left = f.n - Len(s.got)
        BY <1>1, <1>4 DEF InSequence, Follows
      <3>2. Len(s.got) \in Nat /\ f.n \in Nat
        BY <1>1, LenProperties DEF Frames
      <3>. QED
        BY <3>1, <3>2
    <2>5. r = "OK" => Whole(k.got)
      BY <1>1, <2>2, <2>4, NextFrame DEF InSequence, Follows
    <2>6. ToldWhole(k)
      BY <1>1, <2>2 DEF ToldWhole
    <2> HIDE DEF k, r
    <2>7. Sound(EndRx(k, r), started)
      BY <2>2, <2>3, <2>5, <2>6, EndRxSound
    <2>8. EndRx(k, r).rx.state = "Idle"
      BY <2>2, EndRxFields, IdleRxType
    <2>. QED
      BY <2>1, <2>7, <2>8 DEF Advanced, ToSend, Ongoing
  <1>. QED
    BY <1>3, <1>4

-----------------------------------------------------------------------------
(* The tester, and the flow controls that are under way.                    *)

\* The tester sends what the channel is receiving.
SameMessage(s, t) == t.id = s.got[1].id /\ t.n = s.got[1].n

\* The tester waits whenever the channel is not ready for it, at most one flow control
\* is under way, and it is the answer to the last frame.  What the tester has sent of
\* a block and the channel has not taken was lost.
InStep(s, t, fc) ==
    /\ t.st # "wait" => fc = <<>> /\ s.rx.state \in {"Idle", "WaitCF"}
    /\ t.st = "wait" =>
         /\ Len(fc) <= 1
         /\ s.rx.state \in ToSend \cup {"WaitCF"} => fc = <<>>
         /\ s.rx.state = "WaitForFCConf" => fc = <<"CTS">>
         /\ s.rx.state \in {"WaitForTxFC", "WaitForFCConf"} =>
               SameMessage(s, t) /\ t.next = Len(s.got)
    /\ t.st = "send" /\ s.rx.state = "WaitCF" =>
         /\ SameMessage(s, t) /\ t.credit \in 1 .. s.rx.block
         /\ t.next - Len(s.got) = s.rx.block - t.credit

\* The tester took an older flow control for the one that is to be sent: it has sent part
\* of a block, or all of it.
Ahead(s, t) ==
    \/ t.st = "send" /\ t.credit \in 1 .. BS /\ t.next = Len(s.got) + BS - t.credit
    \/ t.st = "wait" /\ t.next = Len(s.got) + BS

\* What is left of that after a tester did not wait, if nothing is lost from then on: an
\* older flow control may be under way, and may be taken for the next.
OutOfStep(s, t, fc) ==
    /\ Len(fc) = 2 => t.st = "wait"
    /\ s.rx.state \in ToSend => Len(fc) <= 1 /\ (t.st # "wait" => fc = <<>>)
    /\ s.rx.state = "WaitForFCConf" => fc # <<>>
    /\ s.rx.state = "WaitForTxFC" /\ t.st # "idle" =>
         /\ SameMessage(s, t)
         /\ (t.st = "wait" /\ t.next = Len(s.got)) \/ (fc = <<>> /\ Ahead(s, t))
    /\ s.rx.state = "WaitForFCConf" /\ t.st # "idle" =>
         /\ SameMessage(s, t)
         /\ (t.st = "wait" /\ t.next = Len(s.got)) \/ (Len(fc) = 1 /\ Ahead(s, t))
    /\ s.rx.state = "WaitCF" =>
         /\ t.st = "wait" => fc = <<>>
         /\ t.st = "send" => /\ SameMessage(s, t) /\ t.next - Len(s.got) \in 0 .. BS
                             /\ t.next = Len(s.got) => t.credit = s.rx.block

LEMMA InStepIsOut ==
    ASSUME NEW s \in StateRecs, NEW t \in TesterRecs, NEW fc \in Seq({"CTS", "OVFLW"}),
           InStep(s, t, fc), s.rx.state \in Receiving => s.rx.block \in 1 .. BS
    PROVE  OutOfStep(s, t, fc)
  <1>1. /\ s.rx \in RxRecs /\ Len(s.got) \in Nat /\ BS \in Nat \ {0}
        /\ t.next \in Nat /\ t.credit \in Int /\ t.st \in {"idle", "wait", "send"}
        /\ Len(<<>>) = 0 /\ Len(<<"CTS">>) = 1 /\ <<"CTS">> # <<>>
        /\ "WaitCF" \in Receiving
    BY ConstantTypes, LenProperties DEF StateRecs, TesterRecs, Receiving
  <1>2. /\ Len(fc) = 2 => t.st = "wait"
        /\ s.rx.state \in ToSend => Len(fc) <= 1 /\ (t.st # "wait" => fc = <<>>)
        /\ s.rx.state = "WaitForFCConf" => fc # <<>>
    <2>1. CASE t.st = "wait"
      <3>1. Len(fc) <= 1 /\ Len(fc) \in Nat
        BY <2>1, LenProperties DEF InStep
      <3>2. s.rx.state = "WaitForFCConf" => fc # <<>>
        BY <1>1, <2>1 DEF InStep
      <3>. QED
        BY <2>1, <3>1, <3>2
    <2>2. CASE t.st # "wait"
      <3>1. fc = <<>> /\ s.rx.state \in {"Idle", "WaitCF"}
        BY <2>2 DEF InStep
      <3>2. "Idle" \notin ToSend /\ "WaitCF" \notin ToSend
        BY DEF ToSend
      <3>. QED
        BY <1>1, <3>1, <3>2
    <2>. QED
      BY <2>1, <2>2
  <1>3. ASSUME s.rx.state \in {"WaitForTxFC", "WaitForFCConf"}, t.st # "idle"
        PROVE  SameMessage(s, t) /\ t.st = "wait" /\ t.next = Len(s.got)
    BY <1>1, <1>3 DEF InStep
  <1>4. ASSUME s.rx.state = "WaitCF"
        PROVE  /\ t.st = "wait" => fc = <<>>
               /\ t.st = "send" => /\ SameMessage(s, t) /\ t.next - Len(s.got) \in 0 .. BS
                                   /\ t.next = Len(s.got) => t.credit = s.rx.block
    <2>1. s.rx.block \in 1 .. BS
      BY <1>1, <1>4
    <2>2. t.st = "wait" => fc = <<>>
      BY <1>4 DEF InStep
    <2>3. ASSUME t.st = "send"
          PROVE  /\ SameMessage(s, t) /\ t.credit \in 1 .. s.rx.block
                 /\ t.next - Len(s.got) = s.rx.block - t.credit
      BY <1>4, <2>3 DEF InStep
    <2>4. ASSUME t.st = "send"
          PROVE  /\ t.next - Len(s.got) \in 0 .. BS
                 /\ t.next = Len(s.got) => t.credit = s.rx.block
      <3> DEFINE l == Len(s.got)
                 b == s.rx.block
      <3>1. l \in Nat /\ b \in 1 .. BS /\ t.credit \in 1 .. b /\ t.next - l = b - t.credit
        BY <1>1, <2>1, <2>3, <2>4
      <3> HIDE DEF l, b
      <3>2. t.next - l \in 0 .. BS /\ (t.next = l => t.credit = b)
        BY <1>1, <3>1
      <3>. QED
        BY <3>2 DEF l, b
    <2>. QED
      BY <2>2, <2>3, <2>4
  <1>5. s.rx.state = "WaitForTxFC" /\ t.st # "idle" =>
           /\ SameMessage(s, t)
           /\ (t.st = "wait" /\ t.next = Len(s.got)) \/ (fc = <<>> /\ Ahead(s, t))
    BY <1>3, Zenon
  <1>6. s.rx.state = "WaitForFCConf" /\ t.st # "idle" =>
           /\ SameMessage(s, t)
           /\ (t.st = "wait" /\ t.next = Len(s.got)) \/ (Len(fc) = 1 /\ Ahead(s, t))
    BY <1>3, Zenon
  <1>7. s.rx.state = "WaitCF" =>
           /\ t.st = "wait" => fc = <<>>
           /\ t.st = "send" => /\ SameMessage(s, t) /\ t.next - Len(s.got) \in 0 .. BS
                               /\ t.next = Len(s.got) => t.credit = s.rx.block
    BY <1>4, Zenon
  <1>. QED
    BY <1>2, <1>5, <1>6, <1>7, Zenon DEF OutOfStep

-----------------------------------------------------------------------------
(* What a step may do to them.                                             *)

\* While nothing has gone wrong that an impatient tester can do.
Session(s, t, fc, spent) == InStep(s, t, fc) \/ (spent /\ OutOfStep(s, t, fc))

LEMMA FewControls ==
    ASSUME NEW fc \in Seq({"CTS", "OVFLW"})
    PROVE  /\ Len(fc) \in Nat /\ (fc = <<>> => Len(fc) = 0)
           /\ Len(fc) <= 1 => Len(fc) # 2
           /\ fc = <<>> => Len(fc) <= 1
  <1>1. Len(fc) \in Nat /\ Len(<<>>) = 0
    BY LenProperties
  <1>2. fc = <<>> => Len(fc) = 0
    BY <1>1
  <1>. QED
    BY <1>1, <1>2

\* A channel at rest expects nothing of the tester.
LEMMA IdleSession ==
    ASSUME NEW s, NEW t, NEW fc \in Seq({"CTS", "OVFLW"}), s.rx.state = "Idle"
    PROVE  /\ (t.st # "wait" => fc = <<>>) /\ Len(fc) <= 1 => InStep(s, t, fc)
           /\ (Len(fc) = 2 => t.st = "wait") => OutOfStep(s, t, fc)
  <1>1. "Idle" \notin ToSend \cup {"WaitCF"} /\ "Idle" \notin ToSend
    BY DEF ToSend
  <1>. QED
    BY <1>1 DEF InStep, OutOfStep

\* A tester sends the first frame of a message, or the only one.
Asking(t, f) ==
    /\ f.n = 1 => t.st = "idle"
    /\ f.n # 1 => t.st = "wait" /\ t.id = f.id /\ t.n = f.n /\ t.next = 1

LEMMA AskingSession ==
    ASSUME NEW s, NEW t, NEW f, NEW fc \in Seq({"CTS", "OVFLW"}),
           Opened(s, f), Asking(t, f)
    PROVE  /\ fc = <<>> => InStep(s, t, fc)
           /\ Len(fc) <= 1 => OutOfStep(s, t, fc)
  <1>1. /\ Len(<<>>) = 0 /\ Len(fc) \in Nat /\ Len(<<f>>) = 1 /\ <<f>>[1] = f
        /\ ToSend = {"WaitForTxFC", "WaitForTxFCOverrun", "WaitForTxFCOverrunFFReqBuff"}
    BY LenProperties DEF ToSend
  <1>2. /\ s.rx.state \in ToSend \cup {"Idle"} /\ (f.n = 1 => s.rx.state = "Idle")
        /\ s.rx.state = "WaitForTxFC" => s.got = <<f>>
    BY DEF Opened
  <1>3. s.rx.state \notin {"WaitForFCConf", "WaitCF"}
    BY <1>1, <1>2
  <1>4. ASSUME s.rx.state = "WaitForTxFC"
        PROVE  t.st = "wait" /\ SameMessage(s, t) /\ t.next = Len(s.got)
    BY <1>1, <1>2, <1>4 DEF Asking, SameMessage
  <1>5. t.st # "wait" => s.rx.state = "Idle"
    BY <1>2 DEF Asking
  <1>6. ASSUME fc = <<>>
        PROVE  InStep(s, t, fc)
    BY <1>1, <1>3, <1>4, <1>5, <1>6 DEF InStep
  <1>7. ASSUME Len(fc) <= 1
        PROVE  OutOfStep(s, t, fc)
    <2>1. s.rx.state \in ToSend => t.st = "wait"
      BY <1>1, <1>5
    <2>. QED
      BY <1>3, <1>4, <1>7, <2>1, FewControls, Zenon DEF OutOfStep
  <1>. QED
    BY <1>6, <1>7

\* One that is lost leaves the channel where a tester found it who did not wait.
LEMMA AskingLost ==
    ASSUME NEW s, NEW t, NEW f, s.rx.state \in {"Idle", "WaitCF"}, Asking(t, f)
    PROVE  InStep(s, t, <<>>)
  <1>1. /\ Len(<<>>) = 0 /\ "WaitCF" \notin {"WaitForTxFC", "WaitForFCConf"}
        /\ "Idle" \notin {"WaitForTxFC", "WaitForFCConf"} /\ t.st \in {"idle", "wait"}
    BY DEF Asking
  <1>. QED
    BY <1>1 DEF InStep

\* The tester has sent frame f of its message.
Sends(t, f) ==
    /\ t.st = "send" /\ f.id = t.id /\ f.n = t.n /\ f.k = t.next
    /\ t.next \in 1 .. t.n - 1

Sending(t, u) ==
    \/ t.next + 1 = t.n /\ u.st = "idle"
    \/ /\ t.next + 1 # t.n /\ u.id = t.id /\ u.n = t.n
       /\ u.next = t.next + 1 /\ u.credit = t.credit - 1
       /\ u.st = IF t.credit = 1 THEN "wait" ELSE "send"

\* The channel does not take it.
LEMMA SendingMissed ==
    ASSUME NEW s \in StateRecs, NEW t \in TesterRecs, NEW u \in TesterRecs,
           NEW fc \in Seq({"CTS", "OVFLW"}), t.st = "send", Sending(t, u)
    PROVE  /\ InStep(s, t, fc) => InStep(s, u, fc)
           /\ OutOfStep(s, t, fc) /\ s.rx.state # "WaitCF" => OutOfStep(s, u, fc)
  <1> DEFINE l == Len(s.got)
  <1>1. /\ l \in Nat /\ BS \in Nat \ {0} /\ Len(fc) \in Nat /\ Len(<<>>) = 0
        /\ t.next \in Nat /\ t.credit \in Int /\ s.rx.block \in 0 .. BS
        /\ "WaitCF" \notin ToSend /\ "Idle" \notin ToSend /\ "WaitForFCConf" \notin ToSend
    BY ConstantTypes, LenProperties DEF StateRecs, RxRecs, TesterRecs, ToSend
  <1>2. ASSUME u.st # "idle"
        PROVE  /\ u.next = t.next + 1 /\ u.credit = t.credit - 1
               /\ u.st = IF t.credit = 1 THEN "wait" ELSE "send"
               /\ SameMessage(s, t) => SameMessage(s, u)
    BY <1>2 DEF Sending, SameMessage
  <1> HIDE DEF l
  <1>3. ASSUME InStep(s, t, fc)
        PROVE  InStep(s, u, fc)
    <2>1. /\ fc = <<>> /\ s.rx.state \in {"Idle", "WaitCF"}
          /\ s.rx.state = "WaitCF" => /\ SameMessage(s, t) /\ t.credit \in 1 .. s.rx.block
                                      /\ t.next - l = s.rx.block - t.credit
      BY <1>3 DEF InStep, l
    <2>2. u.st = "send" /\ s.rx.state = "WaitCF" =>
             /\ SameMessage(s, u) /\ u.credit \in 1 .. s.rx.block
             /\ u.next - l = s.rx.block - u.credit
      <3> SUFFICES ASSUME u.st = "send", s.rx.state = "WaitCF"
                   PROVE  /\ SameMessage(s, u) /\ u.credit \in 1 .. s.rx.block
                          /\ u.next - l = s.rx.block - u.credit
        OBVIOUS
      <3>1. /\ t.credit \in 1 .. s.rx.block /\ t.next - l = s.rx.block - t.credit
            /\ t.credit # 1 /\ u.next = t.next + 1 /\ u.credit = t.credit - 1
        BY <1>2, <2>1
      <3>2. l \in Nat /\ t.next \in Nat /\ s.rx.block \in Int /\ t.credit \in Int
        BY <1>1
      <3>3. u.credit \in 1 .. s.rx.block /\ u.next - l = s.rx.block - u.credit
        <4>1. u.credit \in 1 .. s.rx.block
          BY <3>1, <3>2
        <4>2. u.next - l = s.rx.block - u.credit
          BY <3>1, <3>2
        <4>. QED
          BY <4>1, <4>2
      <3>4. SameMessage(s, u)
        BY <1>2, <2>1
      <3>. QED
        BY <3>3, <3>4
    <2>3. s.rx.state \notin {"WaitForTxFC", "WaitForFCConf"}
      BY <2>1
    <2>. QED
      BY <1>1, <2>1, <2>2, <2>3 DEF InStep, l
  <1>4. ASSUME OutOfStep(s, t, fc), s.rx.state # "WaitCF"
        PROVE  OutOfStep(s, u, fc)
    <2>1. /\ Len(fc) # 2
          /\ s.rx.state \in ToSend => Len(fc) <= 1 /\ fc = <<>>
          /\ s.rx.state = "WaitForFCConf" => fc # <<>>
      BY <1>4 DEF OutOfStep
    <2>2. Ahead(s, t) /\ u.st # "idle" => Ahead(s, u)
      <3> SUFFICES ASSUME Ahead(s, t), u.st # "idle"
                   PROVE  Ahead(s, u)
        OBVIOUS
      <3> DEFINE c == t.credit
                 n == t.next
      <3>1. /\ c \in 1 .. BS /\ n = l + BS - c /\ u.next = n + 1 /\ u.credit = c - 1
            /\ u.st = IF c = 1 THEN "wait" ELSE "send"
        <4>1. t.credit \in 1 .. BS /\ t.next = Len(s.got) + BS - t.credit
          BY DEF Ahead
        <4>. QED
          BY <1>2, <4>1 DEF l
      <3> HIDE DEF c, n
      <3>2. c # 1 => u.credit \in 1 .. BS /\ u.next = l + BS - u.credit
        BY <1>1, <3>1
      <3>3. c = 1 => u.next = l + BS
        BY <1>1, <3>1
      <3>. QED
        BY <3>1, <3>2, <3>3 DEF Ahead, l
    <2>3. s.rx.state = "WaitForTxFC" /\ u.st # "idle" =>
             /\ SameMessage(s, u) /\ fc = <<>> /\ Ahead(s, u)
      BY <1>2, <1>4, <2>2 DEF OutOfStep
    <2>4. s.rx.state = "WaitForFCConf" /\ u.st # "idle" =>
             /\ SameMessage(s, u) /\ Len(fc) = 1 /\ Ahead(s, u)
      BY <1>2, <1>4, <2>2 DEF OutOfStep
    <2>. QED
      BY <1>4, <2>1, <2>3, <2>4 DEF OutOfStep
  <1>. QED
    BY <1>3, <1>4

\* The channel takes it.
LEMMA SendingTaken ==
    ASSUME NEW s \in StateRecs, NEW r \in StateRecs, NEW t \in TesterRecs,
           NEW u \in TesterRecs, NEW fc \in Seq({"CTS", "OVFLW"}), NEW f \in Frames,
           Sends(t, f), Sending(t, u), Follows(s, f), Advanced(s, r, f),
           s.got # <<>>, s.rx.block \in 1 .. BS, t.credit = s.rx.block
    PROVE  /\ fc = <<>> => InStep(r, u, fc)
           /\ Len(fc) <= 1 => OutOfStep(r, u, fc)
  <1> DEFINE l == Len(s.got)
             m == Len(r.got)
  <1>1. /\ l \in Nat /\ l > 0 /\ BS \in Nat \ {0} /\ Len(fc) \in Nat /\ Len(<<>>) = 0
        /\ t.next = l /\ t.credit \in Int /\ s.got \in Seq(Frames)
        /\ ToSend = {"WaitForTxFC", "WaitForTxFCOverrun", "WaitForTxFCOverrunFFReqBuff"}
        /\ "WaitForTxFC" \in Ongoing /\ "WaitCF" \in Ongoing
    BY ConstantTypes, LenProperties, EmptySeq
       DEF StateRecs, TesterRecs, ToSend, Sends, Follows, Ongoing
  <1>2. /\ r.rx.state \in ToSend \cup {"WaitCF", "Idle"}
        /\ r.rx.state \in ToSend => s.rx.block = 1
        /\ r.rx.state = "WaitCF" => s.rx.block # 1 /\ r.rx.block = s.rx.block - 1
        /\ r.rx.state \in Ongoing => r.got = Append(s.got, f)
        /\ r.rx.state # "Idle" => l + 1 < f.n
    BY DEF Advanced
  <1>3. ASSUME r.rx.state \in Ongoing
        PROVE  m = l + 1 /\ r.got[1] = s.got[1]
    BY <1>1, <1>2, <1>3, AppendProperties
  <1>4. ASSUME r.rx.state # "Idle"
        PROVE  /\ u.id = s.got[1].id /\ u.n = s.got[1].n /\ u.next = l + 1
               /\ u.credit = s.rx.block - 1
               /\ u.st = IF s.rx.block = 1 THEN "wait" ELSE "send"
    BY <1>1, <1>2, <1>4 DEF Sending, Sends, Follows
  <1> HIDE DEF l, m
  <1>5. CASE r.rx.state = "Idle"
    <2>. QED
      BY <1>5, FewControls, IdleSession
  <1>6. CASE r.rx.state \in ToSend
    <2>1. u.st = "wait" /\ r.rx.state \notin {"WaitForFCConf", "WaitCF", "Idle"}
      BY <1>1, <1>2, <1>4, <1>6
    <2>2. r.rx.state = "WaitForTxFC" => SameMessage(r, u) /\ u.next = Len(r.got)
      BY <1>1, <1>3, <1>4 DEF SameMessage, m
    <2>3. fc = <<>> => InStep(r, u, fc)
      BY <1>1, <2>1, <2>2 DEF InStep
    <2>4. Len(fc) <= 1 => OutOfStep(r, u, fc)
      BY <1>1, <2>1, <2>2 DEF OutOfStep
    <2>. QED
      BY <2>3, <2>4
  <1>7. CASE r.rx.state = "WaitCF"
    <2>1. u.st = "send" /\ r.rx.state \notin ToSend /\ r.rx.block = s.rx.block - 1
      BY <1>1, <1>2, <1>4, <1>7
    <2>2. SameMessage(r, u) /\ u.next = Len(r.got)
      BY <1>1, <1>3, <1>4, <1>7 DEF SameMessage, m
    <2>3. /\ u.credit = r.rx.block /\ u.credit \in 1 .. r.rx.block
          /\ u.next - Len(r.got) = 0 /\ 0 \in 0 .. BS /\ r.rx.block - u.credit = 0
      <3>1. m \in Nat /\ u.next = m
        BY <1>1, <1>3, <1>7, <2>2 DEF m
      <3>2. s.rx.block # 1 /\ u.credit = s.rx.block - 1 /\ r.rx.block = s.rx.block - 1
        BY <1>2, <1>4, <1>7
      <3>. QED
        BY <1>1, <3>1, <3>2 DEF m
    <2>4. fc = <<>> => InStep(r, u, fc)
      BY <1>7, <2>1, <2>2, <2>3 DEF InStep
    <2>5. Len(fc) <= 1 => OutOfStep(r, u, fc)
      BY <1>7, <2>1, <2>2, <2>3, FewControls DEF OutOfStep
    <2>. QED
      BY <2>4, <2>5
  <1>. QED
    BY <1>2, <1>5, <1>6, <1>7

\* The flow control at the head of the mailbox reaches a tester that waits for one.
Answers(t, u, fc) ==
    /\ t.st # "wait" => u = t
    /\ t.st = "wait" /\ fc = "CTS" =>
         u.st = "send" /\ u.credit = BS /\ u.id = t.id /\ u.n = t.n /\ u.next = t.next
    /\ t.st = "wait" /\ fc # "CTS" => u.st = "idle"

\* What a confirmed flow control makes of the channel.
GoesOn(s, r) == /\ r.rx.state = "WaitCF" /\ r.rx.block = s.rx.block
                /\ r.got = s.got

LEMMA AnsweredSession ==
    ASSUME NEW s \in StateRecs, NEW r \in StateRecs, NEW t \in TesterRecs,
           NEW u \in TesterRecs, NEW fc \in Seq({"CTS", "OVFLW"}),
           fc # <<>>, Len(fc) <= 2,
           s.rx.state = "WaitForFCConf" => GoesOn(s, r) /\ s.rx.block = BS,
           s.rx.state \in {"WaitForFCOverConf", "WaitForFCOverConfFFReqBuff"}
              => r.rx.state = "Idle",
           s.rx.state \notin {"WaitForFCConf", "WaitForFCOverConf",
                              "WaitForFCOverConfFFReqBuff"} => r = s
    PROVE  /\ InStep(s, t, fc) /\ (Answers(t, u, Head(fc)) \/ u = t)
                 => InStep(r, u, Tail(fc))
           /\ OutOfStep(s, t, fc) /\ Answers(t, u, Head(fc)) => OutOfStep(r, u, Tail(fc))
  <1>1. /\ Len(fc) \in 1 .. 2 /\ Len(Tail(fc)) = Len(fc) - 1
        /\ Tail(fc) \in Seq({"CTS", "OVFLW"})
        /\ Len(fc) = 1 => Tail(fc) = <<>>
        /\ Head(fc) \in {"CTS", "OVFLW"}
    <2>1. /\ Len(fc) \in Nat /\ Len(fc) # 0 /\ Tail(fc) \in Seq({"CTS", "OVFLW"})
          /\ Len(Tail(fc)) = Len(fc) - 1 /\ Head(fc) \in {"CTS", "OVFLW"}
      BY HeadTailProperties, LenProperties, EmptySeq
    <2>2. Len(Tail(fc)) = 0 => Tail(fc) = <<>>
      BY <2>1, EmptySeq
    <2>. QED
      BY <2>1, <2>2
  <1>2. Len(Tail(fc)) <= 1 /\ Len(Tail(fc)) # 2 /\ (Len(fc) <= 1 => Tail(fc) = <<>>)
    BY <1>1
  <1>3. /\ ToSend = {"WaitForTxFC", "WaitForTxFCOverrun", "WaitForTxFCOverrunFFReqBuff"}
        /\ s.rx.state \in RxStates /\ s.rx.block \in 0 .. BS
        /\ RxStates = ToSend \cup {"Idle", "WaitCF", "WaitForFCConf", "WaitForFCOverConf",
                                   "WaitForFCOverConfFFReqBuff"}
        /\ Len(s.got) \in Nat /\ BS \in Nat \ {0} /\ t.next \in Nat /\ t.credit \in Int
    BY ConstantTypes, LenProperties
       DEF ToSend, StateRecs, RxRecs, RxStates, Receiving, Unaccepted, TesterRecs
  <1>4. ASSUME InStep(s, t, fc), Answers(t, u, Head(fc)) \/ u = t
        PROVE  InStep(r, u, Tail(fc))
    <2>1. /\ t.st = "wait" /\ Len(fc) <= 1 /\ s.rx.state \notin ToSend \cup {"WaitCF"}
          /\ s.rx.state = "WaitForFCConf" =>
                fc = <<"CTS">> /\ SameMessage(s, t) /\ t.next = Len(s.got)
      BY <1>4 DEF InStep
    <2>2. Tail(fc) = <<>>
      BY <1>2, <2>1
    <2>3. CASE s.rx.state = "WaitForFCConf"
      <3>1. /\ r.rx.state = "WaitCF" /\ r.rx.block = BS /\ r.got = s.got
            /\ Head(fc) = "CTS"
        BY <2>1, <2>3 DEF GoesOn
      <3>2. u.st \in {"wait", "send"}
        BY <1>4, <2>1, <3>1 DEF Answers
      <3>3. ASSUME u.st = "send"
            PROVE  /\ SameMessage(r, u) /\ u.credit \in 1 .. r.rx.block
                   /\ u.next - Len(r.got) = r.rx.block - u.credit
        <4>1. u.credit = BS /\ u.next = Len(r.got) /\ SameMessage(r, u)
          BY <1>4, <2>1, <2>3, <3>1, <3>3 DEF Answers, SameMessage
        <4>2. BS \in 1 .. BS /\ BS - BS = 0 /\ Len(s.got) - Len(s.got) = 0
          BY <1>3
        <4>. QED
          BY <3>1, <4>1, <4>2
      <3>. QED
        BY <1>2, <2>2, <3>1, <3>2, <3>3 DEF InStep
    <2>4. CASE s.rx.state # "WaitForFCConf"
      <3>1. r.rx.state = "Idle"
        BY <1>3, <2>1, <2>4
      <3>. QED
        BY <1>1, <1>2, <2>2, <3>1, IdleSession
    <2>. QED
      BY <2>3, <2>4
  <1>5. ASSUME OutOfStep(s, t, fc), Answers(t, u, Head(fc))
        PROVE  OutOfStep(r, u, Tail(fc))
    <2>1. u.st # "wait"
      BY <1>1, <1>5 DEF Answers
    <2>2. CASE r.rx.state = "Idle"
      BY <1>1, <1>2, <2>2, IdleSession
    <2>3. CASE s.rx.state \in ToSend
      <3>1. r = s /\ s.rx.state \notin {"WaitForFCConf", "WaitCF"}
        BY <1>3, <2>3
      <3>2. Len(fc) <= 1 /\ t.st = "wait" /\ Tail(fc) = <<>>
        BY <1>2, <1>5, <2>3 DEF OutOfStep
      <3>3. ASSUME s.rx.state = "WaitForTxFC", u.st # "idle"
            PROVE  SameMessage(s, u) /\ Ahead(s, u)
        <4>1. SameMessage(s, t) /\ t.next = Len(s.got)
          BY <1>5, <3>2, <3>3 DEF OutOfStep
        <4>2. u.st = "send" /\ u.credit = BS /\ u.id = t.id /\ u.n = t.n /\ u.next = t.next
          BY <1>5, <3>2, <3>3 DEF Answers
        <4>3. BS \in 1 .. BS /\ Len(s.got) = Len(s.got) + BS - BS
          BY <1>3
        <4>. QED
          BY <4>1, <4>2, <4>3 DEF SameMessage, Ahead
      <3>. QED
        BY <1>2, <2>1, <3>1, <3>2, <3>3 DEF OutOfStep
    <2>4. CASE s.rx.state = "WaitForFCConf"
      <3>1. r.rx.state = "WaitCF" /\ r.rx.block = BS /\ r.got = s.got /\ "WaitCF" \notin ToSend
        BY <1>3, <2>4 DEF GoesOn
      <3>2. ASSUME u.st = "send"
            PROVE  /\ SameMessage(r, u) /\ u.next - Len(r.got) \in 0 .. BS
                   /\ u.next = Len(r.got) => u.credit = BS
        <4>1. t.st # "idle" /\ u.id = t.id /\ u.n = t.n /\ u.next = t.next
          BY <3>2, <1>5 DEF Answers
        <4>2. /\ SameMessage(s, t)
              /\ (t.st = "wait" /\ t.next = Len(s.got)) \/ Ahead(s, t)
          BY <1>5, <2>4, <4>1 DEF OutOfStep
        <4>3. SameMessage(r, u)
          BY <3>1, <4>1, <4>2 DEF SameMessage
        <4>4. CASE t.st = "wait"
          <5>1. u.credit = BS
            BY <1>5, <3>2, <4>4 DEF Answers
          <5>2. t.next = Len(s.got) \/ t.next = Len(s.got) + BS
            BY <4>2, <4>4 DEF Ahead
          <5>3. t.next - Len(s.got) \in 0 .. BS
            BY <1>3, <5>2
          <5>. QED
            BY <3>1, <4>1, <4>3, <5>1, <5>3
        <4>5. CASE t.st # "wait"
          <5>1. u = t /\ t.credit \in 1 .. BS /\ t.next = Len(s.got) + BS - t.credit
            BY <1>5, <4>2, <4>5 DEF Answers, Ahead
          <5>2. t.next - Len(s.got) \in 0 .. BS /\ (t.next = Len(s.got) => t.credit = BS)
            BY <1>3, <5>1
          <5>. QED
            BY <3>1, <4>3, <5>1, <5>2
        <4>. QED
          BY <4>4, <4>5
      <3>. QED
        BY <1>2, <2>1, <3>1, <3>2 DEF OutOfStep
    <2>5. CASE s.rx.state = "WaitCF"
      <3>1. r = s /\ t.st # "wait" /\ u = t /\ "WaitCF" \notin ToSend
        BY <1>3, <1>5, <2>5 DEF OutOfStep, Answers
      <3>. QED
        BY <1>2, <1>5, <2>5, <3>1 DEF OutOfStep
    <2>6. r.rx.state = "Idle" \/ s.rx.state \in ToSend \cup {"WaitForFCConf", "WaitCF"}
      BY <1>3
    <2>. QED
      BY <2>2, <2>3, <2>4, <2>5, <2>6
  <1>. QED
    BY <1>4, <1>5

\* The tester gives up; one that does so too early is the reason for all the rest.
LEMMA GivenUpSession ==
    ASSUME NEW s, NEW t, NEW u, NEW fc \in Seq({"CTS", "OVFLW"}),
           t.st = "wait", u.st = "idle"
    PROVE  /\ fc = <<>> /\ s.rx.state \in {"Idle", "WaitCF"} => InStep(s, u, fc)
           /\ InStep(s, t, fc) => OutOfStep(s, u, fc)
  <1>1. ASSUME fc = <<>>, s.rx.state \in {"Idle", "WaitCF"}
        PROVE  InStep(s, u, fc)
    BY <1>1 DEF InStep
  <1>2. ASSUME InStep(s, t, fc)
        PROVE  OutOfStep(s, u, fc)
    <2>1. /\ Len(fc) <= 1 /\ (s.rx.state \in ToSend => fc = <<>>)
          /\ s.rx.state = "WaitForFCConf" => fc = <<"CTS">>
      BY <1>2 DEF InStep
    <2>2. Len(fc) # 2 /\ (s.rx.state = "WaitForFCConf" => fc # <<>>)
      <3>1. <<"CTS">> # <<>>
        OBVIOUS
      <3>. QED
        BY <2>1, <3>1, FewControls
    <2>. QED
      BY <2>1, <2>2 DEF OutOfStep
  <1>. QED
    BY <1>1, <1>2

\* A flow control is given to the mailbox.
LEMMA PostedSession ==
    ASSUME NEW s \in StateRecs, NEW r, NEW t \in TesterRecs,
           NEW fc \in Seq({"CTS", "OVFLW"}), NEW c \in {"CTS", "OVFLW"},
           s.rx.state \in ToSend,
           s.rx.state = "WaitForTxFC" => c = "CTS" /\ r.rx.state = "WaitForFCConf"
                                         /\ r.got = s.got,
           s.rx.state # "WaitForTxFC" =>
              r.rx.state \in {"WaitForFCOverConf", "WaitForFCOverConfFFReqBuff"}
    PROVE  /\ InStep(s, t, fc) => InStep(r, t, Append(fc, c)) /\ Len(fc) # 2
           /\ OutOfStep(s, t, fc) => OutOfStep(r, t, Append(fc, c)) /\ Len(fc) # 2
  <1>1. /\ Len(fc) \in Nat /\ Len(Append(fc, c)) = Len(fc) + 1
        /\ Append(fc, c) # <<>> /\ Len(<<c>>) = 1 /\ Append(<<>>, c) = <<c>>
    BY AppendProperties, LenProperties
  <1>2. /\ r.rx.state \notin ToSend \cup {"WaitCF", "Idle", "WaitForTxFC"}
        /\ s.rx.state \notin {"Idle", "WaitCF"}
    BY DEF ToSend
  <1>3. ASSUME InStep(s, t, fc)
        PROVE  InStep(r, t, Append(fc, c)) /\ Len(fc) # 2
    <2>1. t.st = "wait" /\ fc = <<>>
      BY <1>2, <1>3 DEF InStep
    <2>2. Append(fc, c) = <<c>> /\ Len(<<c>>) <= 1 /\ Len(fc) # 2
      BY <1>1, <2>1
    <2>3. ASSUME r.rx.state = "WaitForFCConf"
          PROVE  c = "CTS" /\ SameMessage(r, t) /\ t.next = Len(r.got)
      <3>1. s.rx.state = "WaitForTxFC" /\ r.got = s.got /\ c = "CTS"
        BY <2>3
      <3>2. SameMessage(s, t) /\ t.next = Len(s.got)
        BY <1>3, <2>1, <3>1 DEF InStep
      <3>. QED
        BY <3>1, <3>2 DEF SameMessage
    <2>. QED
      BY <1>2, <2>1, <2>2, <2>3 DEF InStep
  <1>4. ASSUME OutOfStep(s, t, fc)
        PROVE  OutOfStep(r, t, Append(fc, c)) /\ Len(fc) # 2
    <2>1. Len(fc) <= 1 /\ (t.st # "wait" => fc = <<>>)
      BY <1>4 DEF OutOfStep
    <2>2. /\ Len(fc) # 2 /\ (Len(Append(fc, c)) = 2 => fc # <<>>)
          /\ fc = <<>> => Len(Append(fc, c)) = 1
      BY <1>1, <2>1, FewControls
    <2>3. ASSUME r.rx.state = "WaitForFCConf", t.st # "idle"
          PROVE  /\ SameMessage(r, t)
                 /\ (t.st = "wait" /\ t.next = Len(r.got))
                    \/ (Len(Append(fc, c)) = 1 /\ Ahead(r, t))
      <3>1. s.rx.state = "WaitForTxFC" /\ r.got = s.got
        BY <2>3
      <3>2. /\ SameMessage(s, t)
            /\ (t.st = "wait" /\ t.next = Len(s.got)) \/ (fc = <<>> /\ Ahead(s, t))
        BY <1>4, <2>3, <3>1 DEF OutOfStep
      <3>3. SameMessage(r, t) /\ (Ahead(s, t) => Ahead(r, t))
        BY <3>1, <3>2 DEF SameMessage, Ahead
      <3>. QED
        BY <2>2, <3>1, <3>2, <3>3
    <2>. QED
      BY <1>1, <1>2, <2>1, <2>2, <2>3 DEF OutOfStep
  <1>. QED
    BY <1>3, <1>4

-----------------------------------------------------------------------------
(* The invariant that makes messages whole.                                *)

Asked ==
    /\ tester.st # "idle" => tester.n >= 2 /\ tester.next \in 1 .. tester.n - 1
    /\ doip.st # "none" => doip.n >= 1

Spent == faults >= MaxFaults

WholeInv ==
    /\ CanTpInv /\ Sound(State, Started_) /\ WholeMessage /\ Asked
    /\ Session(State, tester, mail, Spent)

\* An impatient tester is the last thing to go wrong.
LastFault == GiveUp /\ faults' # faults => faults' >= MaxFaults

LEMMA BecomeSound ==
    ASSUME NEW s, Become(s), Sound(s, Started_')
    PROVE  Sound(State, Started_)' /\ WholeMessage'
  <1>1. /\ rx' = s.rx /\ tx' = s.tx /\ dcm' = s.dcm /\ got' = s.got
        /\ told' = s.told /\ flaws' = s.flaws
    BY DEF Become
  <1>2. /\ State.rx' = s.rx /\ State.tx' = s.tx /\ State.dcm' = s.dcm
        /\ State.got' = s.got /\ State.flaws' = s.flaws /\ State.told' = {}
    BY <1>1, StateFields DEF State
  <1>3. WholeMessage'
    BY <1>1 DEF Sound, ToldWhole, WholeMessage
  <1>4. Sound(State, Started_)'
    BY <1>2 DEF Sound, ToldWhole, HasWhole, InSequence
  <1>. QED
    BY <1>3, <1>4

LEMMA BecomeSession ==
    ASSUME NEW s, Become(s)
    PROVE  /\ InStep(s, tester', mail') => InStep(State, tester, mail)'
           /\ OutOfStep(s, tester', mail') => OutOfStep(State, tester, mail)'
  <1>1. State.rx' = s.rx /\ State.got' = s.got
    BY DEF Become, State
  <1>2. /\ SameMessage(s, tester') <=> SameMessage(State, tester)'
        /\ Ahead(s, tester') <=> Ahead(State, tester)'
    BY <1>1 DEF SameMessage, Ahead
  <1>3. InStep(s, tester', mail') => InStep(State, tester, mail)'
    BY <1>1, <1>2 DEF InStep
  <1>4. OutOfStep(s, tester', mail') => OutOfStep(State, tester, mail)'
    BY <1>1, <1>2 DEF OutOfStep
  <1>. QED
    BY <1>3, <1>4

LEMMA BecomeWhole ==
    ASSUME CanTpInv', Asked', NEW s, Become(s), Sound(s, Started_'),
           \/ InStep(s, tester', mail')
           \/ Spent' /\ OutOfStep(s, tester', mail')
    PROVE  WholeInv'
BY BecomeSound, BecomeSession DEF WholeInv, Session

\* The channel goes on with what it has taken.
LEMMA SameSequence ==
    ASSUME NEW s \in StateRecs, NEW started, Sound(s, started), NEW r \in RxRecs,
           s.tx => r.state = "Idle",
           r.state \in Ongoing =>
              /\ s.rx.state \in Ongoing /\ r.left = s.rx.left /\ r.sn = s.rx.sn
              /\ r.block = s.rx.block
              /\ r.state # "WaitCF" => s.rx.state # "WaitCF"
    PROVE  Sound([s EXCEPT !.rx = r], started)
  <1> DEFINE t == [s EXCEPT !.rx = r]
  <1>1. /\ t.rx = r /\ t.tx = s.tx /\ t.dcm = s.dcm /\ t.got = s.got
        /\ t.told = s.told /\ t.flaws = s.flaws
    BY DEF StateRecs
  <1> HIDE DEF t
  <1>2. t.rx.state \in Ongoing => InSequence(t)
    BY <1>1 DEF Sound, InSequence
  <1>3. ToldWhole(t) /\ HasWhole(t, started)
    BY <1>1 DEF Sound, ToldWhole, HasWhole
  <1>. QED
    BY <1>1, <1>2, <1>3 DEF Sound, t

\* A reception that ends without a message.
LEMMA EndedSound ==
    ASSUME NEW s, NEW started, Good(s, started), Sound(s, started),
           s.rx.state \in Receiving, NEW r \in Results, r # "OK"
    PROVE  Sound(EndRx(s, r), started)
  <1>1. s \in StateRecs /\ ToldWhole(s)
    BY DEF Good, StateOK, Sound
  <1>2. ~Broken(s.flaws) => Taking(s, started)
    BY ReceivingIsTaking DEF Good
  <1>. QED
    BY <1>1, <1>2, EndRxSound

LEMMA ConfirmationSound ==
    ASSUME NEW s, NEW started, Good(s, started), Sound(s, started)
    PROVE  LET r == Confirmation(s)
           IN  /\ Sound(r, started)
               /\ s.rx.state = "WaitForFCConf" => GoesOn(s, r) /\ s.rx.block = BS
               /\ s.rx.state \in {"WaitForFCOverConf", "WaitForFCOverConfFFReqBuff"}
                     => r.rx.state = "Idle"
               /\ s.rx.state \notin {"WaitForFCConf", "WaitForFCOverConf",
                                     "WaitForFCOverConfFFReqBuff"} => r = s
  <1>1. /\ s \in StateRecs /\ s.rx \in RxRecs /\ "NO_BUFFER" \in Results
        /\ "WaitForFCOverConf" \in Receiving /\ "WaitCF" \in RxStates
        /\ "WaitForFCConf" \in Ongoing /\ "Idle" \notin Ongoing /\ NCr \in 0 .. MaxTimer
    BY ConstantTypes
       DEF Good, StateOK, StateRecs, Results, Receiving, RxStates, Ongoing
  <1>2. CASE s.rx.state = "WaitForFCConf"
    <2> DEFINE x == [s.rx EXCEPT !.state = "WaitCF", !.timer = NCr]
               r == [s EXCEPT !.rx = x]
    <2>1. Confirmation(s) = r
      BY <1>1, <1>2 DEF Confirmation, StateRecs
    <2>2. x \in RxRecs
      BY <1>1, Zenon DEF RxRecs
    <2>3. /\ x.state = "WaitCF" /\ x.left = s.rx.left /\ x.sn = s.rx.sn
          /\ x.block = s.rx.block
      BY <1>1 DEF RxRecs
    <2>4. s.rx.block = BS /\ ~s.tx
      BY <1>1, <1>2 DEF Sound, InSequence
    <2> HIDE DEF x
    <2>5. r.rx = x /\ r.got = s.got
      BY <1>1 DEF StateRecs
    <2>6. Sound(r, started)
      BY <1>1, <1>2, <2>2, <2>3, <2>4, SameSequence
    <2>. QED
      BY <1>2, <2>1, <2>3, <2>4, <2>5, <2>6 DEF GoesOn
  <1>3. CASE s.rx.state = "WaitForFCOverConf"
    <2>1. Confirmation(s) = EndRx(s, "NO_BUFFER")
      BY <1>3 DEF Confirmation
    <2>2. EndRx(s, "NO_BUFFER").rx.state = "Idle"
      BY <1>1, EndRxFields, IdleRxType
    <2>3. Sound(EndRx(s, "NO_BUFFER"), started)
      BY <1>1, <1>3, EndedSound
    <2>. QED
      BY <1>3, <2>1, <2>2, <2>3
  <1>4. CASE s.rx.state = "WaitForFCOverConfFFReqBuff"
    <2>1. Confirmation(s) = [s EXCEPT !.rx = IdleRx]
      BY <1>4 DEF Confirmation
    <2>2. [s EXCEPT !.rx = IdleRx].rx.state = "Idle"
      BY <1>1, IdleRxType DEF StateRecs
    <2>3. Sound([s EXCEPT !.rx = IdleRx], started)
      BY <1>1, IdleRxType, SameSequence
    <2>. QED
      BY <1>4, <2>1, <2>2, <2>3
  <1>5. CASE s.rx.state \notin {"WaitForFCConf", "WaitForFCOverConf",
                                "WaitForFCOverConfFFReqBuff"}
    BY <1>5 DEF Confirmation
  <1>. QED
    BY <1>2, <1>3, <1>4, <1>5

LEMMA TimedOutSound ==
    ASSUME NEW s, NEW started, Good(s, started), Sound(s, started),
           s.rx.state # "Idle", s.rx.state \notin DOMAIN FlowControl
    PROVE  Sound(TimedOut(s), started) /\ TimedOut(s).rx.state = "Idle"
  <1>1. s \in StateRecs /\ "TIMEOUT" \in Results /\ s.rx.state \in RxStates
        /\ "Idle" \notin Ongoing
    BY DEF Good, StateOK, StateRecs, RxRecs, Results, Ongoing
  <1>2. CASE s.rx.state = "WaitForFCOverConfFFReqBuff"
    <2>1. TimedOut(s) = [s EXCEPT !.rx = IdleRx]
      BY <1>2 DEF TimedOut
    <2>2. [s EXCEPT !.rx = IdleRx].rx.state = "Idle"
      BY <1>1, IdleRxType DEF StateRecs
    <2>. QED
      BY <1>1, <2>1, <2>2, IdleRxType, SameSequence
  <1>3. CASE s.rx.state # "WaitForFCOverConfFFReqBuff"
    <2>1. TimedOut(s) = EndRx(s, "TIMEOUT")
      BY <1>3 DEF TimedOut
    <2>2. s.rx.state \in Receiving
      <3>1. DOMAIN FlowControl = {"WaitForTxFC", "WaitForTxFCOverrun",
                                  "WaitForTxFCOverrunFFReqBuff"}
        BY DEF FlowControl
      <3>. QED
        BY <1>1, <1>3, <3>1 DEF RxStates, Unaccepted
    <2>3. EndRx(s, "TIMEOUT").rx.state = "Idle"
      BY <1>1, EndRxFields, IdleRxType
    <2>. QED
      BY <1>1, <2>1, <2>2, <2>3, EndedSound
  <1>. QED
    BY <1>2, <1>3

-----------------------------------------------------------------------------
(* Its steps.                                                              *)

LEMMA WholeFacts ==
    ASSUME WholeInv
    PROVE  /\ CanTpInv /\ Good(State, Started_) /\ Sound(State, Started_)
           /\ State \in StateRecs /\ rx \in RxRecs /\ dcm \in DcmRecs
           /\ tester \in TesterRecs /\ doip \in DoipRecs
           /\ mail \in Seq({"CTS", "OVFLW"}) /\ Len(mail) <= 2
           /\ sent \in Nat /\ faults \in Nat /\ MaxFaults \in Nat
           /\ Asked
           /\ InStep(State, tester, mail) \/ (Spent /\ OutOfStep(State, tester, mail))
BY ConstantTypes
   DEF WholeInv, CanTpInv, Good, StateOK, StateRecs, State, Others, Session

LEMMA AskWhole ==
    ASSUME WholeInv, CanTpInv', Ask
    PROVE  WholeInv'
  <1>1. PICK n \in Lengths :
           /\ Deliver([id |-> sent + 1, k |-> 0, n |-> n])
           /\ tester' = IF n = 1 THEN Resting
                        ELSE [st |-> "wait", id |-> sent + 1, n |-> n, next |-> 1,
                              credit |-> 0]
    BY DEF Ask
  <1> DEFINE f == [id |-> sent + 1, k |-> 0, n |-> n]
  <1>2. /\ UNCHANGED <<pc, doip, mail>> /\ tester.st # "wait" /\ Started_' = Started_
    BY DEF Ask, MayAsk, Started_
  <1>3. n \in Nat \ {0} /\ f \in Frames /\ f.k = 0 /\ f.n = n /\ f.id = sent + 1
    BY WholeFacts, ConstantTypes DEF Frames
  <1>4. Deliver(f)
    BY <1>1
  <1>5. Asking(tester', f)
    BY <1>1, <1>3 DEF Asking, Resting
  <1>6. Asked'
    <2>1. tester'.st # "idle" => tester'.n = n /\ n # 1 /\ tester'.next = 1
      BY <1>1 DEF Resting
    <2>. QED
      BY <1>2, <1>3, <2>1, WholeFacts DEF Asked
  <1> HIDE DEF f
  <1>7. Len(mail) # 2 /\ Len(mail) <= 1
    <2>1. mail = <<>> \/ Len(mail) # 2
      BY <1>2, WholeFacts DEF InStep, OutOfStep
    <2>2. Len(mail) \in Nat /\ Len(mail) <= 2 /\ (mail = <<>> => Len(mail) = 0)
      BY WholeFacts, FewControls
    <2>3. Len(mail) # 2
      BY <2>1, <2>2
    <2>4. Len(mail) <= 1
      BY <2>2, <2>3
    <2>. QED
      BY <2>3, <2>4
  <1>8. InStep(State, tester, mail) => mail = <<>> /\ rx.state \in {"Idle", "WaitCF"}
    BY <1>2, StateFields DEF InStep
  <1>9. CASE Become(RxIndication(State, f)) /\ UNCHANGED faults
    <2> DEFINE r == RxIndication(State, f)
    <2>1. Sound(r, Started_) /\ Opened(r, f)
      BY <1>3, WholeFacts, OpenedSound
    <2> HIDE DEF r
    <2>2. /\ mail = <<>> => InStep(r, tester', mail)
          /\ OutOfStep(r, tester', mail)
      BY <1>5, <1>7, <2>1, WholeFacts, AskingSession
    <2>3. InStep(r, tester', mail') \/ (Spent' /\ OutOfStep(r, tester', mail'))
      BY <1>2, <1>8, <1>9, <2>2, WholeFacts DEF Spent
    <2>. QED
      BY <1>2, <1>6, <1>9, <2>1, <2>3, BecomeWhole DEF r
  <1>10. CASE faults < MaxFaults /\ Become(State)
    <2>1. InStep(State, tester, mail)
      BY <1>10, WholeFacts DEF Spent
    <2>2. InStep(State, tester', mail')
      BY <1>2, <1>5, <1>8, <2>1, StateFields, AskingLost
    <2>. QED
      BY <1>2, <1>6, <1>10, <2>2, WholeFacts, BecomeWhole
  <1>11. CASE faults < MaxFaults /\ Become(RxIndication(RxIndication(State, f), f))
    <2>1. InStep(State, tester, mail)
      BY <1>11, WholeFacts DEF Spent
    <2> DEFINE q == RxIndication(State, f)
               r == RxIndication(q, f)
    <2>2. Good(q, Started_) /\ Sound(q, Started_)
      BY <1>3, WholeFacts, OpenedSound, RxIndicationGood
    <2> HIDE DEF q
    <2>3. Sound(r, Started_) /\ Opened(r, f)
      BY <1>3, <2>2, OpenedSound
    <2> HIDE DEF r
    <2>4. InStep(r, tester', mail')
      BY <1>2, <1>5, <1>8, <2>1, <2>3, WholeFacts, AskingSession
    <2>. QED
      BY <1>2, <1>6, <1>11, <2>3, <2>4, BecomeWhole DEF q, r
  <1>. QED
    BY <1>4, <1>9, <1>10, <1>11 DEF Deliver

\* The frame that a sending tester sends is the next, has another number, or is not
\* looked at.
LEMMA SentSound ==
    ASSUME NEW s, NEW started, Good(s, started), Sound(s, started),
           NEW t \in TesterRecs, NEW f \in Frames, Sends(t, f),
           s.rx.state = "WaitCF" => /\ SameMessage(s, t) /\ t.next - Len(s.got) \in 0 .. BS
                                    /\ t.next = Len(s.got) => t.credit = s.rx.block
    PROVE  LET r == RxIndication(s, f)
           IN  /\ Sound(r, started)
               /\ s.rx.state # "WaitCF" => r = s
               /\ s.rx.state = "WaitCF" =>
                     \/ r.rx.state = "Idle"
                     \/ /\ Follows(s, f) /\ Advanced(s, r, f)
                        /\ s.got # <<>> /\ t.credit = s.rx.block
  <1>1. /\ s \in StateRecs /\ s.got \in Seq(Frames) /\ Len(s.got) \in Nat
        /\ t.next \in Nat /\ t.n \in Nat /\ BS \in Nat \ {0} /\ SnMod \in Nat \ {0}
        /\ BS < SnMod
    BY ConstantTypes, LenProperties DEF Good, StateOK, StateRecs, TesterRecs
  <1>2. f.n # 1 /\ f.k # 0 /\ f.n = t.n /\ f.id = t.id /\ f.k = t.next
    BY <1>1 DEF Sends
  <1>3. RxIndication(s, f) = RxCFPdu(s, f)
    BY <1>2 DEF RxIndication
  <1>4. CASE s.rx.state # "WaitCF"
    <2>1. RxCFPdu(s, f) = s
      BY <1>4 DEF RxCFPdu
    <2>. QED
      BY <1>3, <1>4, <2>1
  <1>5. CASE s.rx.state = "WaitCF" /\ f.k % SnMod # s.rx.sn
    BY <1>3, <1>5, WrongSound
  <1>6. CASE s.rx.state = "WaitCF" /\ f.k % SnMod = s.rx.sn
    <2>1. s.got # <<>> /\ s.rx.sn = Len(s.got) % SnMod
      BY <1>6 DEF Sound, Ongoing, InSequence
    <2>2. t.next = Len(s.got)
      <3> DEFINE l == Len(s.got)
                 d == t.next - l
      <3>1. d \in 0 .. BS /\ t.next = l + d
        BY <1>1, <1>6
      <3>2. t.next % SnMod = l % SnMod
        BY <1>2, <1>6, <2>1
      <3>3. l \in Nat
        BY <1>1
      <3> HIDE DEF d, l
      <3>4. d # 0 => d \in 1 .. SnMod - 1
        BY <1>1, <3>1
      <3>5. d = 0
        BY <3>1, <3>2, <3>3, <3>4, ModAhead
      <3>6. t.next = l
        BY <3>1, <3>3, <3>5
      <3>. QED
        BY <3>6 DEF l
    <2>3. Follows(s, f) /\ t.credit = s.rx.block
      BY <1>2, <1>6, <2>2 DEF SameMessage, Follows
    <2>. QED
      BY <1>3, <1>6, <2>1, <2>3, NextSound
  <1>. QED
    BY <1>4, <1>5, <1>6

\* Its copy is not taken for another.
LEMMA CopySound ==
    ASSUME NEW s \in StateRecs, NEW r, NEW started, Good(r, started), Sound(r, started),
           NEW f \in Frames, f.n # 1, f.k # 0,
           r.rx.state = "WaitCF" => f.k = Len(s.got) /\ r.got = Append(s.got, f)
    PROVE  LET q == RxIndication(r, f)
           IN  Sound(q, started) /\ (q = r \/ q.rx.state = "Idle")
  <1>1. RxIndication(r, f) = RxCFPdu(r, f)
    BY DEF RxIndication
  <1>2. CASE r.rx.state # "WaitCF"
    <2>1. RxCFPdu(r, f) = r
      BY <1>2 DEF RxCFPdu
    <2>. QED
      BY <1>1, <2>1
  <1>3. CASE r.rx.state = "WaitCF"
    <2>1. s.got \in Seq(Frames) /\ r.rx.sn = Len(r.got) % SnMod
      BY <1>3 DEF StateRecs, Sound, Ongoing, InSequence
    <2>2. Len(s.got) \in Nat /\ Len(r.got) = Len(s.got) + 1 /\ f.k = Len(s.got)
      BY <1>3, <2>1, AppendProperties, LenProperties
    <2>3. 1 \in 1 .. SnMod - 1
      BY ConstantTypes
    <2>4. (Len(s.got) + 1) % SnMod # Len(s.got) % SnMod
      BY <2>2, <2>3, ModAhead
    <2>5. f.k % SnMod # r.rx.sn
      BY <2>1, <2>2, <2>4
    <2>. QED
      BY <1>1, <1>3, <2>5, WrongSound
  <1>. QED
    BY <1>2, <1>3

LEMMA SendCFWhole ==
    ASSUME WholeInv, CanTpInv', SendCF
    PROVE  WholeInv'
  <1> DEFINE f == [id |-> tester.id, k |-> tester.next, n |-> tester.n]
             r == RxIndication(State, f)
             q == RxIndication(r, f)
  <1>1. /\ tester.st = "send" /\ Deliver(f) /\ UNCHANGED <<pc, doip, mail, sent>>
        /\ tester' = IF tester.next + 1 = tester.n THEN Resting
                     ELSE [tester EXCEPT !.next = @ + 1, !.credit = @ - 1,
                                         !.st = IF tester.credit = 1 THEN "wait" ELSE "send"]
    BY DEF SendCF
  <1>2. /\ tester.next \in 1 .. tester.n - 1 /\ tester.n >= 2 /\ tester.n \in Nat
        /\ tester.next \in Nat /\ tester.id \in Nat /\ tester' \in TesterRecs
        /\ Started_' = Started_
    BY <1>1, WholeFacts DEF Asked, TesterRecs, CanTpInv, Others, Started_
  <1>3. f \in Frames /\ f.n # 1 /\ f.k # 0 /\ Sends(tester, f)
    BY <1>1, <1>2 DEF Frames, Sends
  <1>4. Sending(tester, tester')
    <2>1. CASE tester.next + 1 = tester.n
      BY <1>1, <2>1 DEF Sending, Resting
    <2>2. CASE tester.next + 1 # tester.n
      <3>1. tester' = [tester EXCEPT !.next = tester.next + 1, !.credit = tester.credit - 1,
                                     !.st = IF tester.credit = 1 THEN "wait" ELSE "send"]
        BY <1>1, <2>2
      <3>2. /\ tester'.id = tester.id /\ tester'.n = tester.n
            /\ tester'.next = tester.next + 1 /\ tester'.credit = tester.credit - 1
            /\ tester'.st = IF tester.credit = 1 THEN "wait" ELSE "send"
        BY <3>1, WholeFacts, Zenon DEF TesterRecs
      <3>. QED
        BY <2>2, <3>2 DEF Sending
    <2>. QED
      BY <2>1, <2>2
  <1>5. Asked'
    <2>1. tester'.st # "idle" => tester'.n = tester.n /\ tester'.next = tester.next + 1
                                 /\ tester.next + 1 # tester.n
      BY <1>4 DEF Sending
    <2>. QED
      BY <1>1, <1>2, <2>1, WholeFacts DEF Asked
  <1> HIDE DEF f
  <1>6. OutOfStep(State, tester, mail)
    <2>1. State.rx.state \in Receiving => State.rx.block \in 1 .. BS
      BY WholeFacts DEF Good, StateOK, Channel
    <2>. QED
      BY <2>1, WholeFacts, InStepIsOut
  <1>7. /\ Len(mail) <= 1 /\ Len(mail) # 2
        /\ rx.state = "WaitCF" =>
              /\ SameMessage(State, tester) /\ tester.next - Len(State.got) \in 0 .. BS
              /\ tester.next = Len(State.got) => tester.credit = State.rx.block
              /\ State.rx.block \in 1 .. BS
    <2>1. Len(mail) \in Nat /\ Len(mail) <= 2 /\ Len(mail) # 2
      BY <1>1, <1>6, WholeFacts, FewControls DEF OutOfStep
    <2>2. rx.state = "WaitCF" => State.rx.block \in 1 .. BS
      BY WholeFacts, StateFields DEF Good, StateOK, Channel, Receiving
    <2>3. Len(mail) <= 1
      BY <2>1
    <2>. QED
      BY <1>1, <1>6, <2>1, <2>2, <2>3, StateFields DEF OutOfStep
  <1>8. InStep(State, tester, mail) => mail = <<>>
    BY <1>1 DEF InStep
  <1>9. /\ Sound(r, Started_) /\ Good(r, Started_) /\ r \in StateRecs
        /\ State.rx.state # "WaitCF" => r = State
        /\ State.rx.state = "WaitCF" =>
              \/ r.rx.state = "Idle"
              \/ /\ Follows(State, f) /\ Advanced(State, r, f)
                 /\ State.got # <<>> /\ tester.credit = State.rx.block
    <2>1. Good(r, Started_) /\ r \in StateRecs
      BY <1>3, WholeFacts, RxIndicationGood DEF Good, StateOK
    <2>. QED
      BY <1>3, <1>7, <2>1, WholeFacts, StateFields, SentSound
  <1>10. /\ InStep(State, tester, mail) => InStep(r, tester', mail)
         /\ OutOfStep(r, tester', mail)
    <2>1. CASE rx.state # "WaitCF"
      BY <1>1, <1>2, <1>4, <1>6, <1>9, <2>1, WholeFacts, StateFields, SendingMissed
    <2>2. CASE r.rx.state = "Idle"
      BY <1>7, <1>8, <2>2, WholeFacts, IdleSession
    <2>3. CASE /\ rx.state = "WaitCF"
               /\ Follows(State, f) /\ Advanced(State, r, f)
               /\ State.got # <<>> /\ tester.credit = State.rx.block
      BY <1>2, <1>3, <1>4, <1>7, <1>8, <1>9, <2>3, WholeFacts, SendingTaken
    <2>. QED
      BY <1>9, <2>1, <2>2, <2>3, StateFields
  <1> HIDE DEF r
  <1>11. CASE Become(r) /\ UNCHANGED faults
    <2>1. InStep(r, tester', mail') \/ (Spent' /\ OutOfStep(r, tester', mail'))
      BY <1>1, <1>10, <1>11, WholeFacts DEF Spent
    <2>. QED
      BY <1>2, <1>5, <1>9, <1>11, <2>1, BecomeWhole
  <1>12. CASE faults < MaxFaults /\ Become(State)
    <2>1. InStep(State, tester, mail)
      BY <1>12, WholeFacts DEF Spent
    <2>2. InStep(State, tester', mail')
      BY <1>1, <1>2, <1>4, <2>1, WholeFacts, SendingMissed
    <2>. QED
      BY <1>2, <1>5, <1>12, <2>2, WholeFacts, BecomeWhole
  <1>13. CASE faults < MaxFaults /\ Become(q)
    <2>1. InStep(State, tester, mail)
      BY <1>13, WholeFacts DEF Spent
    <2>2. r.rx.state = "WaitCF" => f.k = Len(State.got) /\ r.got = Append(State.got, f)
      <3>1. ASSUME r.rx.state = "WaitCF"
            PROVE  Follows(State, f) /\ Advanced(State, r, f)
        <4>1. State.rx.state = "WaitCF"
          BY <1>9, <3>1
        <4>. QED
          BY <1>9, <3>1, <4>1
      <3>. QED
        BY <3>1 DEF Follows, Advanced, Ongoing
    <2>3. Sound(q, Started_) /\ (q = r \/ q.rx.state = "Idle")
      BY <1>3, <1>9, <2>2, WholeFacts, CopySound
    <2> HIDE DEF q
    <2>4. InStep(q, tester', mail')
      <3>1. CASE q = r
        BY <1>1, <1>10, <2>1, <3>1
      <3>2. CASE q.rx.state = "Idle"
        BY <1>1, <1>7, <1>8, <2>1, <3>2, WholeFacts, IdleSession
      <3>. QED
        BY <2>3, <3>1, <3>2
    <2>. QED
      BY <1>2, <1>5, <1>13, <2>3, <2>4, BecomeWhole
  <1>. QED
    BY <1>1, <1>11, <1>12, <1>13 DEF Deliver, r

LEMMA ConfirmWhole ==
    ASSUME WholeInv, CanTpInv', CanTp_TxConfirmation
    PROVE  WholeInv'
  <1> DEFINE r == Confirmation(State)
             u == IF tester.st # "wait" THEN tester
                  ELSE IF Head(mail) = "CTS"
                  THEN [tester EXCEPT !.st = "send", !.credit = BS] ELSE Resting
  <1>1. /\ mail # <<>> /\ mail' = Tail(mail) /\ Become(r)
        /\ UNCHANGED <<pc, doip, sent>>
        /\ \/ tester' = u /\ UNCHANGED faults
           \/ faults < MaxFaults /\ UNCHANGED tester
    BY DEF CanTp_TxConfirmation
  <1>2. Answers(tester, u, Head(mail))
    <2>1. [tester EXCEPT !.st = "send", !.credit = BS].st = "send"
          /\ [tester EXCEPT !.st = "send", !.credit = BS].credit = BS
          /\ [tester EXCEPT !.st = "send", !.credit = BS].id = tester.id
          /\ [tester EXCEPT !.st = "send", !.credit = BS].n = tester.n
          /\ [tester EXCEPT !.st = "send", !.credit = BS].next = tester.next
      BY WholeFacts, Zenon DEF TesterRecs
    <2>2. Resting.st = "idle"
      BY DEF Resting
    <2>. QED
      BY <2>1, <2>2 DEF Answers
  <1>3. Asked'
    <2>1. tester' = tester \/ tester'.st = "idle"
          \/ (tester.st # "idle" /\ tester'.n = tester.n /\ tester'.next = tester.next)
      <3>1. CASE tester' = u
        BY <1>2, <3>1, WholeFacts DEF Answers, TesterRecs
      <3>2. CASE UNCHANGED tester
        BY <3>2
      <3>. QED
        BY <1>1, <3>1, <3>2
    <2>. QED
      BY <1>1, <2>1, WholeFacts DEF Asked
  <1> HIDE DEF u
  <1>4. /\ Sound(r, Started_) /\ r \in StateRecs
        /\ State.rx.state = "WaitForFCConf" => GoesOn(State, r) /\ State.rx.block = BS
        /\ State.rx.state \in {"WaitForFCOverConf", "WaitForFCOverConfFFReqBuff"}
              => r.rx.state = "Idle"
        /\ State.rx.state \notin {"WaitForFCConf", "WaitForFCOverConf",
                                  "WaitForFCOverConfFFReqBuff"} => r = State
    BY WholeFacts, ConfirmationSound, ConfirmationGood DEF Good, StateOK
  <1>5. tester' \in TesterRecs /\ Started_' = Started_
    BY <1>1 DEF CanTpInv, Others, Started_
  <1> HIDE DEF r
  <1>6. /\ InStep(State, tester, mail) => InStep(r, tester', mail')
        /\ OutOfStep(State, tester, mail) /\ tester' = u => OutOfStep(r, tester', mail')
    <2>1. (tester' = u => Answers(tester, tester', Head(mail)))
          /\ (Answers(tester, tester', Head(mail)) \/ tester' = tester)
      BY <1>1, <1>2
    <2>. QED
      BY <1>1, <1>4, <1>5, <2>1, WholeFacts, AnsweredSession
  <1>7. InStep(r, tester', mail') \/ (Spent' /\ OutOfStep(r, tester', mail'))
    BY <1>1, <1>6, WholeFacts DEF Spent
  <1>. QED
    BY <1>1, <1>3, <1>4, <1>5, <1>7, BecomeWhole

LEMMA GiveUpWhole ==
    ASSUME WholeInv, CanTpInv', GiveUp, LastFault
    PROVE  WholeInv'
  <1>1. /\ tester.st = "wait" /\ tester' = Resting /\ Become(State)
        /\ UNCHANGED <<pc, doip, mail, sent>>
        /\ \/ mail = <<>> /\ rx.state \in {"Idle", "WaitCF"}
           \/ faults < MaxFaults /\ faults' = faults + 1
    BY DEF GiveUp
  <1>2. tester'.st = "idle" /\ Asked' /\ Started_' = Started_
    BY <1>1, WholeFacts DEF Resting, Asked, Started_
  <1>3. /\ mail = <<>> /\ rx.state \in {"Idle", "WaitCF"} => InStep(State, tester', mail)
        /\ InStep(State, tester, mail) => OutOfStep(State, tester', mail)
    BY <1>1, <1>2, WholeFacts, StateFields, GivenUpSession
  <1>4. CASE mail = <<>> /\ rx.state \in {"Idle", "WaitCF"}
    BY <1>1, <1>2, <1>3, <1>4, WholeFacts, BecomeWhole
  <1>5. CASE faults < MaxFaults /\ faults' = faults + 1
    <2>1. InStep(State, tester, mail)
      BY <1>5, WholeFacts DEF Spent
    <2>2. Spent'
      <3>1. faults' # faults
        BY <1>5, WholeFacts
      <3>. QED
        BY <3>1 DEF LastFault, Spent
    <2>. QED
      BY <1>1, <1>2, <1>3, <2>1, <2>2, WholeFacts, BecomeWhole
  <1>. QED
    BY <1>1, <1>4, <1>5

LEMMA SameSession ==
    ASSUME NEW s, NEW r, NEW t, NEW fc, r.got = s.got, r.rx.state = s.rx.state,
           r.rx.block = s.rx.block
    PROVE  /\ InStep(s, t, fc) => InStep(r, t, fc)
           /\ OutOfStep(s, t, fc) => OutOfStep(r, t, fc)
  <1>1. (SameMessage(s, t) <=> SameMessage(r, t)) /\ (Ahead(s, t) <=> Ahead(r, t))
    BY DEF SameMessage, Ahead
  <1>2. InStep(s, t, fc) => InStep(r, t, fc)
    BY <1>1 DEF InStep
  <1>3. OutOfStep(s, t, fc) => OutOfStep(r, t, fc)
    BY <1>1 DEF OutOfStep
  <1>. QED
    BY <1>2, <1>3

LEMMA RxMainWhole ==
    ASSUME WholeInv, CanTpInv', L_CanTp_RxMainFunction
    PROVE  WholeInv'
  <1>1. /\ UNCHANGED <<doip, tester, sent, faults>> /\ Started_' = Started_
        /\ NAr \in 0 .. MaxTimer
    BY ConstantTypes DEF L_CanTp_RxMainFunction, Started_
  <1>2. Asked' /\ (Spent' <=> Spent)
    BY <1>1, WholeFacts DEF Asked, Spent
  <1>3. ASSUME NEW r \in RxRecs, r.left = rx.left, r.sn = rx.sn, r.block = rx.block,
               \/ r.state = rx.state
               \/ /\ r.state # "WaitCF" /\ r.state # "Idle"
                  /\ r.state \in Ongoing => rx.state \in Ongoing \ {"WaitCF"},
               rx.state # "Idle" \/ r.state = rx.state
        PROVE  /\ Sound([State EXCEPT !.rx = r], Started_)
               /\ [State EXCEPT !.rx = r].rx = r /\ [State EXCEPT !.rx = r].got = got
    <2>1. [State EXCEPT !.rx = r].rx = r /\ [State EXCEPT !.rx = r].got = got
      BY StateFields DEF State
    <2>2. State.tx => r.state = "Idle"
      BY <1>3, WholeFacts, StateFields DEF Sound
    <2>. QED
      BY <1>3, <2>1, <2>2, WholeFacts, StateFields, SameSequence
  <1>4. CASE /\ Become([State EXCEPT !.rx.timer = IF @ = 0 THEN 0 ELSE @ - 1])
             /\ UNCHANGED mail
    <2> DEFINE n == IF rx.timer = 0 THEN 0 ELSE rx.timer - 1
               r == [rx EXCEPT !.timer = n]
               t == [State EXCEPT !.rx = r]
    <2>1. [State EXCEPT !.rx.timer = IF @ = 0 THEN 0 ELSE @ - 1] = t
      BY StateFields DEF State
    <2>2. n \in 0 .. MaxTimer
      BY WholeFacts, ConstantTypes DEF RxRecs
    <2> HIDE DEF n
    <2>3. r \in RxRecs /\ r.state = rx.state /\ r.left = rx.left /\ r.block = rx.block
          /\ r.sn = rx.sn
      BY WholeFacts, <2>2 DEF RxRecs
    <2> HIDE DEF r
    <2>4. Sound(t, Started_) /\ t.rx = r /\ t.got = got
      BY <1>3, <2>3
    <2> HIDE DEF t
    <2>5. /\ InStep(State, tester, mail) => InStep(t, tester, mail)
          /\ OutOfStep(State, tester, mail) => OutOfStep(t, tester, mail)
      BY <2>3, <2>4, StateFields, SameSession
    <2>. QED
      BY <1>1, <1>2, <1>4, <2>1, <2>4, <2>5, WholeFacts, BecomeWhole
  <1>5. CASE /\ rx.state \in DOMAIN FlowControl
             /\ Become([State EXCEPT !.rx.timer = NAr, !.rx.state = FlowControl[@].state])
             /\ mail' = Posted(FlowControl[rx.state].fc)
    <2> DEFINE st == FlowControl[rx.state].state
               c == FlowControl[rx.state].fc
               r == [rx EXCEPT !.timer = NAr, !.state = st]
               t == [State EXCEPT !.rx = r]
    <2>1. [State EXCEPT !.rx.timer = NAr, !.rx.state = FlowControl[@].state] = t
      BY StateFields DEF State
    <2>2. /\ rx.state \in ToSend /\ st \in RxStates /\ c \in {"CTS", "OVFLW"}
          /\ rx.state = "WaitForTxFC" => c = "CTS" /\ st = "WaitForFCConf"
          /\ rx.state # "WaitForTxFC"
                => st \in {"WaitForFCOverConf", "WaitForFCOverConfFFReqBuff"}
      BY <1>5 DEF FlowControl, RxStates, Receiving, Unaccepted, ToSend
    <2> HIDE DEF st
    <2>3. r \in RxRecs /\ r.state = st /\ r.left = rx.left /\ r.block = rx.block
          /\ r.sn = rx.sn
      BY <1>1, <2>2, WholeFacts, Zenon DEF RxRecs
    <2> HIDE DEF r, c
    <2>4. Sound(t, Started_) /\ t.rx = r /\ t.got = got
      <3>1. /\ st # "WaitCF" /\ st # "Idle" /\ rx.state # "Idle"
            /\ st \in Ongoing => rx.state \in Ongoing \ {"WaitCF"}
        BY <2>2 DEF Ongoing, ToSend
      <3>. QED
        BY <1>3, <2>3, <3>1
    <2> HIDE DEF t
    <2>5. /\ InStep(State, tester, mail)
                => InStep(t, tester, Append(mail, c)) /\ Len(mail) # 2
          /\ OutOfStep(State, tester, mail)
                => OutOfStep(t, tester, Append(mail, c)) /\ Len(mail) # 2
      BY <2>2, <2>3, <2>4, WholeFacts, StateFields, PostedSession
    <2>6. Len(mail) # 2 => mail' = Append(mail, c)
      BY <1>5 DEF Posted, c
    <2>. QED
      BY <1>1, <1>2, <1>5, <2>1, <2>4, <2>5, <2>6, WholeFacts, BecomeWhole
  <1>6. CASE /\ Due /\ rx.state \notin DOMAIN FlowControl
             /\ Become(TimedOut(State)) /\ UNCHANGED mail
    <2> DEFINE t == TimedOut(State)
    <2>1. Sound(t, Started_) /\ t.rx.state = "Idle"
      BY <1>6, WholeFacts, StateFields, TimedOutSound DEF Due
    <2> HIDE DEF t
    <2>2. /\ InStep(State, tester, mail) => InStep(t, tester, mail)
          /\ OutOfStep(State, tester, mail) => OutOfStep(t, tester, mail)
      <3>1. InStep(State, tester, mail)
               => (tester.st # "wait" => mail = <<>>) /\ Len(mail) <= 1
        BY WholeFacts, FewControls, Zenon DEF InStep
      <3>2. OutOfStep(State, tester, mail) => (Len(mail) = 2 => tester.st = "wait")
        BY DEF OutOfStep
      <3>. QED
        BY <2>1, <3>1, <3>2, WholeFacts, IdleSession
    <2>. QED
      BY <1>1, <1>2, <1>6, <2>1, <2>2, WholeFacts, BecomeWhole DEF t
  <1>. QED
    BY <1>4, <1>5, <1>6 DEF L_CanTp_RxMainFunction

\* A step that leaves the channel, the bus and the tester alone.
LEMMA ElsewhereWhole ==
    ASSUME WholeInv, CanTpInv', Asked', UNCHANGED <<rx, got, mail, tester, faults>>,
           told' = {}, tx' => tx \/ rx.state = "Idle",
           ~Broken(flaws') =>
              /\ dcm'.flags \cap {"indication", "processing"} # {} => Whole(dcm'.buf)
              /\ Started_' => dcm'.buf = <<>>
    PROVE  WholeInv'
  <1>1. /\ State.rx' = rx /\ State.tx' = tx' /\ State.dcm' = dcm' /\ State.got' = got
        /\ State.flaws' = flaws' /\ State.told' = {}
    BY DEF State
  <1>2. WholeMessage'
    BY DEF WholeMessage
  <1>3. Sound(State, Started_)'
    BY <1>1, WholeFacts, StateFields DEF Sound, ToldWhole, HasWhole, InSequence
  <1>4. /\ InStep(State, tester, mail) => InStep(State, tester, mail)'
        /\ OutOfStep(State, tester, mail) => OutOfStep(State, tester, mail)'
    <2>1. /\ InStep(State, tester, mail) => InStep(State', tester, mail)
          /\ OutOfStep(State, tester, mail) => OutOfStep(State', tester, mail)
      BY <1>1, StateFields, SameSession
    <2>2. /\ InStep(State', tester, mail) <=> InStep(State, tester, mail)'
          /\ OutOfStep(State', tester, mail) <=> OutOfStep(State, tester, mail)'
      BY DEF InStep, OutOfStep, SameMessage, Ahead
    <2>. QED
      BY <2>1, <2>2
  <1>5. Spent' <=> Spent
    BY DEF Spent
  <1>. QED
    BY <1>2, <1>3, <1>4, <1>5, WholeFacts DEF WholeInv, Session

\* One that brings Dcm no other request.
LEMMA TaskWhole ==
    ASSUME WholeInv, CanTpInv', UNCHANGED <<rx, got, mail, tester, faults, doip>>,
           told' = {}, tx' => tx \/ rx.state = "Idle", flaws \subseteq flaws',
           dcm'.buf = dcm.buf,
           dcm.flags \cap {"indication", "processing"} = {}
              => dcm'.flags \cap {"indication", "processing"} = {}
    PROVE  WholeInv'
  <1>1. Asked' /\ (Started_' <=> Started_)
    BY WholeFacts DEF Asked, Started_
  <1>2. ~Broken(flaws') => ~Broken(flaws)
    BY DEF Broken
  <1>3. ~Broken(flaws) =>
           /\ dcm.flags \cap {"indication", "processing"} # {} => Whole(dcm.buf)
           /\ Started_ => dcm.buf = <<>>
    BY WholeFacts, StateFields DEF Sound, HasWhole
  <1>. QED
    BY <1>1, <1>2, <1>3, ElsewhereWhole

\* A service, and an answer that has gone out.
LEMMA ServedBuffer ==
    ASSUME NEW d \in DcmRecs, NEW ok \in BOOLEAN
    PROVE  /\ Dsd_InteralInit(d).buf = d.buf /\ Confirmed(d, ok).buf = d.buf
           /\ Dsd_InteralInit(d).flags = {"idle"}
           /\ d.flags \cap {"indication", "processing"} = {}
                 => Confirmed(d, ok).flags \cap {"indication", "processing"} = {}
  <1>1. Dsd_InteralInit(d).buf = d.buf /\ Dsd_InteralInit(d).flags = {"idle"}
    BY DEF Dsd_InteralInit, DcmRecs
  <1>2. Confirmed(d, ok).buf = d.buf
    BY <1>1 DEF Confirmed, DcmRecs
  <1>3. ASSUME d.flags \cap {"indication", "processing"} = {}
        PROVE  Confirmed(d, ok).flags \cap {"indication", "processing"} = {}
    <2>1. Confirmed(d, ok).flags \in {{"idle"}, d.flags \ {"rcrp"}, d.flags \ {"processing"}}
      BY <1>1 DEF Confirmed, DcmRecs
    <2>. QED
      BY <1>3, <2>1
  <1>. QED
    BY <1>1, <1>2, <1>3

LEMMA DoneBuffer ==
    ASSUME NEW s \in StateRecs
    PROVE  LET t == ProcessingDone(s)
               u == [t EXCEPT !.dcm.p2 = FALSE]
           IN  /\ t.rx = s.rx /\ t.got = s.got /\ t.told = s.told /\ t.flaws = s.flaws
               /\ t.tx => s.tx \/ s.rx.state = "Idle"
               /\ t.dcm.buf = s.dcm.buf /\ t.dcm.flags = s.dcm.flags
               /\ u.rx = s.rx /\ u.got = s.got /\ u.told = s.told /\ u.flaws = s.flaws
               /\ u.tx = t.tx
               /\ u.dcm.buf = s.dcm.buf /\ u.dcm.flags = s.dcm.flags
  <1> DEFINE ok == ~s.dcm.pdu \/ CanTransmit(s)
             d == [s.dcm EXCEPT !.repeat = ~ok, !.p2 = IF ok THEN FALSE ELSE @,
                                !.handler = FALSE, !.rcrrp = MaxRcrrp]
             tx1 == s.tx \/ (s.dcm.pdu /\ ok)
             t == ProcessingDone(s)
             u == [t EXCEPT !.dcm.p2 = FALSE]
  <1>1. s.dcm \in DcmRecs
    BY DEF StateRecs
  <1>2. t = [s EXCEPT !.tx = tx1, !.dcm = d]
    BY DEF ProcessingDone, StateRecs
  <1>3. tx1 => s.tx \/ s.rx.state = "Idle"
    BY Zenon DEF CanTransmit
  <1>4. d.buf = s.dcm.buf /\ d.flags = s.dcm.flags /\ DOMAIN d = DOMAIN s.dcm
    BY <1>1 DEF DcmRecs
  <1>5. [d EXCEPT !.p2 = FALSE].buf = d.buf /\ [d EXCEPT !.p2 = FALSE].flags = d.flags
    BY <1>1, <1>4 DEF DcmRecs
  <1> HIDE DEF d, tx1, ok
  <1>6. /\ t.rx = s.rx /\ t.got = s.got /\ t.told = s.told /\ t.flaws = s.flaws
        /\ t.tx = tx1 /\ t.dcm = d
    BY <1>2 DEF StateRecs
  <1>7. /\ u.rx = t.rx /\ u.got = t.got /\ u.told = t.told /\ u.flaws = t.flaws
        /\ u.tx = t.tx /\ u.dcm = [d EXCEPT !.p2 = FALSE]
    BY <1>2, <1>6 DEF StateRecs
  <1>. QED
    BY <1>3, <1>4, <1>5, <1>6, <1>7

LEMMA ServeWhole ==
    ASSUME NEW s \in StateRecs, s.told = {}, Serve(s)
    PROVE  /\ rx' = s.rx /\ got' = s.got /\ told' = {} /\ flaws' = s.flaws
           /\ tx' => s.tx \/ s.rx.state = "Idle"
           /\ dcm'.buf = s.dcm.buf
           /\ s.dcm.flags \cap {"indication", "processing"} = {}
                 => dcm'.flags \cap {"indication", "processing"} = {}
  <1>1. s.dcm \in DcmRecs
    BY DEF StateRecs
  <1>2. CASE Become([s EXCEPT !.dcm.handler = TRUE])
    <2> DEFINE d == [s.dcm EXCEPT !.handler = TRUE]
    <2>1. d.buf = s.dcm.buf /\ d.flags = s.dcm.flags
      BY <1>1 DEF DcmRecs
    <2> HIDE DEF d
    <2>2. Become([s EXCEPT !.dcm = d])
      BY <1>2 DEF d
    <2>3. dcm' = d /\ rx' = s.rx /\ got' = s.got /\ told' = s.told /\ flaws' = s.flaws
          /\ tx' = s.tx
      BY <2>2 DEF Become, StateRecs
    <2>. QED
      BY <2>1, <2>3
  <1>3. CASE Become(ProcessingDone(s))
    <2>1. /\ rx' = s.rx /\ got' = s.got /\ told' = s.told /\ flaws' = s.flaws
          /\ dcm'.buf = s.dcm.buf /\ dcm'.flags = s.dcm.flags
          /\ tx' => s.tx \/ s.rx.state = "Idle"
      BY <1>3, DoneBuffer DEF Become
    <2>. QED
      BY <2>1
  <1>4. CASE Become([s EXCEPT !.dcm = Dsd_InteralInit(@)])
    <2>1. dcm' = Dsd_InteralInit(s.dcm) /\ rx' = s.rx /\ got' = s.got /\ told' = s.told
          /\ flaws' = s.flaws /\ tx' = s.tx
      BY <1>4 DEF Become, StateRecs
    <2>2. {"idle"} \cap {"indication", "processing"} = {}
      OBVIOUS
    <2>. QED
      BY <1>1, <2>1, <2>2, ServedBuffer
  <1>. QED
    BY <1>2, <1>3, <1>4 DEF Serve

LEMMA TaskStepsWhole ==
    ASSUME WholeInv, CanTpInv',
           L_CanTp_TxMainFunction \/ UdsRepeatServiceCall \/ P2Expires \/ P2Runs
           \/ RepeatTransmitCheck \/ UdsSidDispatcher
    PROVE  WholeInv'
  <1>1. /\ UNCHANGED <<doip, mail, tester, sent, faults>>
        /\ State \in StateRecs /\ dcm \in DcmRecs /\ tx \in BOOLEAN
    BY WholeFacts DEF L_CanTp_TxMainFunction, UdsRepeatServiceCall, P2Expires, P2Runs,
                      RepeatTransmitCheck, UdsSidDispatcher, StateRecs, State
  <1>2. ASSUME Become(State)
        PROVE  WholeInv'
    <2>1. /\ UNCHANGED <<rx, got, tx, dcm, flaws>> /\ told' = {}
      BY <1>2 DEF Become, State
    <2>. QED
      BY <1>1, <2>1, TaskWhole
  <1>3. CASE L_CanTp_TxMainFunction
    <2>1. CASE Become([State EXCEPT !.tx = FALSE, !.flaws = @ \cup {"lost"}])
      <3>1. /\ UNCHANGED <<rx, got, dcm>> /\ told' = {} /\ tx' = FALSE
            /\ flaws' = flaws \cup {"lost"}
        BY <2>1 DEF Become, State
      <3>. QED
        BY <1>1, <3>1, TaskWhole
    <2>2. CASE \E ok \in BOOLEAN :
                  Become([State EXCEPT !.tx = FALSE, !.dcm = Confirmed(@, ok),
                            !.flaws = IF ~ok /\ dcm.repeat THEN @ \cup {"stale"} ELSE @])
      <3>1. PICK ok \in BOOLEAN :
                  Become([State EXCEPT !.tx = FALSE, !.dcm = Confirmed(@, ok),
                            !.flaws = IF ~ok /\ dcm.repeat THEN @ \cup {"stale"} ELSE @])
        BY <2>2
      <3>2. /\ UNCHANGED <<rx, got>> /\ told' = {} /\ tx' = FALSE
            /\ dcm' = Confirmed(dcm, ok)
            /\ flaws' = IF ~ok /\ dcm.repeat THEN flaws \cup {"stale"} ELSE flaws
        BY <3>1 DEF Become, State
      <3>. QED
        BY <1>1, <3>2, ServedBuffer, TaskWhole
    <2>. QED
      BY <1>2, <1>3, <2>1, <2>2 DEF L_CanTp_TxMainFunction
  <1>4. CASE UdsRepeatServiceCall
    <2>1. CASE Serve(State)
      <3>1. /\ rx' = rx /\ got' = got /\ told' = {} /\ flaws' = flaws
            /\ tx' => tx \/ rx.state = "Idle"
            /\ dcm'.buf = dcm.buf
            /\ dcm.flags \cap {"indication", "processing"} = {}
                  => dcm'.flags \cap {"indication", "processing"} = {}
        BY <1>1, <2>1, StateFields, ServeWhole
      <3>. QED
        BY <1>1, <3>1, TaskWhole
    <2>. QED
      BY <1>2, <1>4, <2>1 DEF UdsRepeatServiceCall
  <1>5. CASE P2Expires
    <2>1. CASE Become([State EXCEPT
                !.tx = @ \/ CanTransmit(State),
                !.dcm = [dcm EXCEPT !.flags = @ \cup {"rcrp"}, !.rcrrp = @ - 1],
                !.flaws = IF CanTransmit(State) THEN @ ELSE @ \cup {"pending"}])
      <3> DEFINE d == [dcm EXCEPT !.flags = @ \cup {"rcrp"}, !.rcrrp = @ - 1]
      <3>1. /\ UNCHANGED <<rx, got>> /\ told' = {} /\ dcm' = d
            /\ tx' = (tx \/ CanTransmit(State))
            /\ flaws' = IF CanTransmit(State) THEN flaws ELSE flaws \cup {"pending"}
        BY <2>1, Zenon DEF Become, State
      <3>2. d.buf = dcm.buf /\ d.flags = dcm.flags \cup {"rcrp"}
        BY <1>1 DEF DcmRecs
      <3> HIDE DEF d
      <3>3. tx' => tx \/ rx.state = "Idle"
        BY <3>1, StateFields, Zenon DEF CanTransmit
      <3>4. flaws \subseteq flaws'
        BY <3>1
      <3>5. dcm.flags \cap {"indication", "processing"} = {}
              => dcm'.flags \cap {"indication", "processing"} = {}
        BY <3>1, <3>2
      <3>. QED
        BY <1>1, <3>1, <3>2, <3>3, <3>4, <3>5, TaskWhole
    <2>2. CASE Become([ProcessingDone(State) EXCEPT !.dcm.p2 = FALSE])
      <3>1. /\ rx' = rx /\ got' = got /\ told' = {} /\ flaws' = flaws
            /\ tx' => tx \/ rx.state = "Idle"
            /\ dcm'.buf = dcm.buf /\ dcm'.flags = dcm.flags
        BY <1>1, <2>2, StateFields, DoneBuffer DEF Become
      <3>. QED
        BY <1>1, <3>1, TaskWhole
    <2>. QED
      BY <1>5, <2>1, <2>2 DEF P2Expires
  <1>6. CASE P2Runs
    BY <1>2, <1>6 DEF P2Runs
  <1>7. CASE RepeatTransmitCheck
    <2>1. CASE CanTransmit(State) /\ Become([State EXCEPT !.tx = TRUE,
                !.dcm = [dcm EXCEPT !.repeat = FALSE, !.p2 = FALSE, !.handler = FALSE]])
      <3> DEFINE d == [dcm EXCEPT !.repeat = FALSE, !.p2 = FALSE, !.handler = FALSE]
      <3>1. UNCHANGED <<rx, got, flaws>> /\ told' = {} /\ dcm' = d
        BY <2>1 DEF Become, State
      <3>2. d.buf = dcm.buf /\ d.flags = dcm.flags /\ rx.state = "Idle"
        BY <1>1, <2>1, StateFields DEF DcmRecs, CanTransmit
      <3> HIDE DEF d
      <3>. QED
        BY <1>1, <3>1, <3>2, TaskWhole
    <2>2. CASE Become([State EXCEPT !.dcm.handler = FALSE])
      <3> DEFINE d == [dcm EXCEPT !.handler = FALSE]
      <3>1. UNCHANGED <<rx, tx, got, flaws>> /\ told' = {} /\ dcm' = d
        BY <2>2 DEF Become, State
      <3>2. d.buf = dcm.buf /\ d.flags = dcm.flags
        BY <1>1 DEF DcmRecs
      <3> HIDE DEF d
      <3>. QED
        BY <1>1, <3>1, <3>2, TaskWhole
    <2>. QED
      BY <1>2, <1>7, <2>1, <2>2 DEF RepeatTransmitCheck
  <1>8. CASE UdsSidDispatcher
    <2>1. CASE "indication" \in dcm.flags
               /\ Serve([State EXCEPT
                          !.dcm.flags = (@ \ {"indication"}) \cup {"processing"}])
      <3> DEFINE fl == (dcm.flags \ {"indication"}) \cup {"processing"}
                 d == [dcm EXCEPT !.flags = fl]
                 t == [State EXCEPT !.dcm = d]
      <3>1. Serve(t)
        BY <2>1, StateFields
      <3>2. fl \in SUBSET Flags
        BY <1>1 DEF DcmRecs, Flags
      <3> HIDE DEF fl
      <3>3. d \in DcmRecs /\ d.buf = dcm.buf
        BY <1>1, <3>2, Zenon DEF DcmRecs
      <3> HIDE DEF d
      <3>4. /\ t \in StateRecs /\ t.dcm = d /\ t.tx = tx /\ t.rx = rx
            /\ t.got = got /\ t.flaws = flaws /\ t.told = {}
        BY <1>1, <3>3, StateFields, Zenon DEF StateRecs
      <3> HIDE DEF t
      <3>5. /\ rx' = rx /\ got' = got /\ told' = {} /\ flaws' = flaws
            /\ tx' => tx \/ rx.state = "Idle"
            /\ dcm'.buf = dcm.buf
        BY <3>1, <3>3, <3>4, ServeWhole
      <3>6. dcm.flags \cap {"indication", "processing"} # {}
        BY <2>1
      <3>. QED
        BY <1>1, <3>5, <3>6, TaskWhole
    <2>. QED
      BY <1>2, <1>8, <2>1 DEF UdsSidDispatcher
  <1>. QED
    BY <1>3, <1>4, <1>5, <1>6, <1>7, <1>8

\* The requests that are not the channel's are whole by themselves.
LEMMA AskAllWhole ==
    ASSUME WholeInv, CanTpInv', AskAll
    PROVE  WholeInv'
  <1> DEFINE b == <<[id |-> sent + 1, k |-> 0, n |-> 1]>>
             d == [Started(dcm) EXCEPT !.buf = b]
             e == [d EXCEPT !.flags = @ \cup {"indication"}, !.p2 = TRUE, !.pdu = TRUE]
             g == [d EXCEPT !.flags = {"idle"}, !.pdu = FALSE]
  <1>1. /\ dcm \in DcmRecs /\ UNCHANGED <<pc, doip, mail, tester, faults>>
    BY WholeFacts DEF AskAll
  <1>2. CASE Become(State)
    <2>1. UNCHANGED <<rx, got, tx, dcm, flaws>> /\ told' = {}
      BY <1>2 DEF Become, State
    <2>. QED
      BY <1>1, <2>1, TaskWhole
  <1>3. CASE /\ dcm.flags = {"idle"}
             /\ Become([State EXCEPT !.dcm = e]) \/ Become([State EXCEPT !.dcm = g])
    <2>1. Whole(b)
      BY DEF Whole
    <2> HIDE DEF b
    <2>2. e.buf = b /\ g.buf = b
      BY <1>1 DEF Started, DcmRecs
    <2> HIDE DEF d
    <2>3. UNCHANGED <<rx, got, tx, flaws>> /\ told' = {} /\ dcm' \in {e, g}
      <3> HIDE DEF e, g
      <3>. QED
        BY <1>3 DEF Become, State
    <2>4. Asked' /\ (Started_' <=> Started_)
      BY <1>1, WholeFacts DEF Asked, Started_
    <2>5. ~Broken(flaws) => ~Started_
      BY <1>3, WholeFacts, StateFields, IdleGate DEF Good
    <2>. QED
      BY <1>1, <2>1, <2>2, <2>3, <2>4, <2>5, ElsewhereWhole
  <1>4. StartResult(dcm, 1) # "NOT_OK" => dcm.flags = {"idle"}
    BY DEF StartResult
  <1>. QED
    BY <1>2, <1>3, <1>4 DEF AskAll

LEMMA DoipWhole ==
    ASSUME WholeInv, CanTpInv', DoipTests \/ DoipTask
    PROVE  WholeInv'
  <1>1. /\ dcm \in DcmRecs /\ doip \in DoipRecs
        /\ UNCHANGED <<pc, mail, tester, faults>>
    BY WholeFacts DEF DoipTests, DoipTask, DoipStarts, DoipFinishes
  <1>2. ~Broken(flaws) =>
           /\ dcm.flags \cap {"indication", "processing"} # {} => Whole(dcm.buf)
           /\ Started_ => dcm.buf = <<>> /\ dcm.flags = {}
    BY WholeFacts, StateFields DEF Sound, HasWhole, Good, Gate
  <1>3. CASE DoipTests
    <2>1. PICK n \in Lengths :
             doip' = IF StartResult(dcm, n) = "OK"
                     THEN [st |-> "tested", id |-> sent + 1, n |-> n] ELSE NoDoip
      BY <1>3 DEF DoipTests
    <2>2. doip'.st # "started" /\ (doip'.st # "none" => doip'.n >= 1)
      BY <2>1, ConstantTypes DEF NoDoip
    <2>3. UNCHANGED <<rx, got, tx, dcm, flaws>> /\ told' = {}
      BY <1>3 DEF DoipTests, Become, State
    <2>4. Asked' /\ ~Started_'
      BY <1>1, <2>2, WholeFacts DEF Asked, Started_
    <2>. QED
      BY <1>1, <1>2, <2>3, <2>4, ElsewhereWhole
  <1>4. CASE DoipStarts
    <2> DEFINE d == Started(dcm)
    <2>1. /\ doip.st = "tested" /\ doip' = [doip EXCEPT !.st = "started"]
          /\ UNCHANGED <<rx, got, tx>> /\ told' = {} /\ dcm' = d
          /\ flaws' = IF dcm.flags = {"idle"} THEN flaws ELSE flaws \cup {"race"}
      BY <1>4 DEF DoipStarts, Become, State
    <2>2. doip'.n = doip.n /\ doip.n >= 1
      BY <1>1, <2>1, WholeFacts DEF DoipRecs, Asked
    <2>3. Asked'
      BY <1>1, <2>2, WholeFacts DEF Asked
    <2>4. d.buf = <<>> /\ d.flags = dcm.flags \ {"idle"}
      BY <1>1 DEF Started, DcmRecs
    <2>5. ~Broken(flaws') => dcm.flags = {"idle"}
      BY <2>1 DEF Broken
    <2> HIDE DEF d
    <2>. QED
      BY <1>1, <2>1, <2>3, <2>4, <2>5, ElsewhereWhole
  <1>5. CASE DoipFinishes
    <2> DEFINE whole == [i \in 1 .. doip.n |-> [id |-> doip.id, k |-> i - 1, n |-> doip.n]]
               d == Indicated(Copied(dcm, whole), "OK")
    <2>1. /\ doip.st = "started" /\ doip' = NoDoip
          /\ UNCHANGED <<rx, got, tx, flaws>> /\ told' = {} /\ dcm' = d
      BY <1>5 DEF DoipFinishes, Become, State
    <2>2. doip.n \in Nat /\ doip.n >= 1 /\ Asked' /\ ~Started_' /\ Started_
      BY <1>1, <2>1, WholeFacts DEF DoipRecs, Asked, Started_, NoDoip
    <2>3. Whole(whole) /\ <<>> \o whole = whole
      <3>1. /\ whole \in Seq(Frames)
            /\ Len(whole) = doip.n /\ DOMAIN whole = 1 .. doip.n
        <4>1. whole \in [1 .. doip.n -> Frames]
          <5>1. doip.id \in Nat
            BY <1>1 DEF DoipRecs
          <5>2. \A i \in 1 .. doip.n :
                   [id |-> doip.id, k |-> i - 1, n |-> doip.n] \in Frames
            BY <2>2, <5>1 DEF Frames
          <5>. QED
            BY <5>2
        <4>2. whole \in Seq(Frames)
          BY <2>2, <4>1, SeqDef
        <4>3. DOMAIN whole = 1 .. doip.n
          OBVIOUS
        <4> HIDE DEF whole
        <4>4. Len(whole) \in Nat /\ DOMAIN whole = 1 .. Len(whole)
          BY <4>2, LenProperties
        <4>5. Len(whole) = doip.n
          BY <2>2, <4>3, <4>4
        <4>. QED
          BY <4>2, <4>3, <4>5
      <3>2. \A i \in 1 .. doip.n :
               whole[i] = [id |-> doip.id, k |-> i - 1, n |-> doip.n]
        OBVIOUS
      <3>3. 1 \in 1 .. doip.n /\ whole # <<>>
        <4> HIDE DEF whole
        <4>1. Len(whole) # 0
          BY <2>2, <3>1
        <4>. QED
          BY <2>2, <4>1
      <3>4. whole[1].id = doip.id /\ whole[1].n = doip.n
        BY <3>2, <3>3
      <3> HIDE DEF whole
      <3>5. Whole(whole)
        BY <3>1, <3>2, <3>3, <3>4 DEF Whole
      <3>6. <<>> \o whole = whole
        BY <3>1
      <3>. QED
        BY <3>5, <3>6
    <2> HIDE DEF whole
    <2>4. dcm.buf = <<>> /\ dcm.flags = {} => d.buf = whole
      <3>1. ASSUME dcm.buf = <<>>, dcm.flags = {}
            PROVE  d.buf = whole
        <4>1. Copied(dcm, whole).buf = whole
          BY <1>1, <2>3, <3>1 DEF Copied, Busy, DcmRecs
        <4>2. Copied(dcm, whole) = [dcm EXCEPT !.buf = dcm.buf \o whole,
                                               !.avail = dcm.avail - Len(whole)]
          BY <3>1 DEF Copied, Busy
        <4>. QED
          BY <1>1, <4>1, <4>2 DEF Indicated, DcmRecs
      <3>. QED
        BY <3>1
    <2> HIDE DEF d
    <2>. QED
      BY <1>1, <1>2, <2>1, <2>2, <2>3, <2>4, ElsewhereWhole
  <1>. QED
    BY <1>3, <1>4, <1>5 DEF DoipTask

LEMMA WholeInitially == Init => WholeInv
  <1> SUFFICES ASSUME Init PROVE WholeInv
    OBVIOUS
  <1>1. CanTpInv
    BY CanTpInitially
  <1>2. /\ State.rx = IdleRx /\ State.tx = FALSE /\ State.dcm = IdleDcm
        /\ State.told = {} /\ State.rx.state = "Idle" /\ "Idle" \notin Ongoing
    BY StateFields DEF Init, State, IdleRx, Ongoing
  <1>3. Sound(State, Started_)
    <2>1. IdleDcm.flags \cap {"indication", "processing"} = {} /\ ~Started_
      BY DEF IdleDcm, Init, Started_, NoDoip
    <2>. QED
      BY <1>2, <2>1 DEF Sound, ToldWhole, HasWhole
  <1>4. WholeMessage
    BY DEF Init, WholeMessage
  <1>5. Asked
    BY DEF Init, Asked, Resting, NoDoip
  <1>6. Session(State, tester, mail, Spent)
    <2>1. mail = <<>> /\ mail \in Seq({"CTS", "OVFLW"}) /\ Len(mail) <= 1
      BY EmptySeq, LenProperties DEF Init
    <2>. QED
      BY <1>2, <2>1, IdleSession DEF Session
  <1>. QED
    BY <1>1, <1>3, <1>4, <1>5, <1>6 DEF WholeInv

LEMMA WholeStep ==
    ASSUME WholeInv, [Next]_vars, [LastFault]_vars
    PROVE  WholeInv'
  <1>1. CanTpInv /\ CanTpInv'
    BY CanTpStep DEF WholeInv
  <1>2. CASE UNCHANGED vars
    <2>1. /\ State' = State /\ Started_' = Started_ /\ Spent' = Spent
          /\ mail' = mail /\ tester' = tester /\ doip' = doip /\ told' = told
      BY <1>2 DEF vars, State, Started_, Spent
    <2>2. Sound(State, Started_)' /\ Session(State, tester, mail, Spent)'
      <3>1. Sound(State, Started_) /\ Session(State, tester, mail, Spent)
        BY DEF WholeInv
      <3>. QED
        BY <2>1, <3>1 DEF Sound, InSequence, ToldWhole, HasWhole, Session,
              InStep, OutOfStep, Ahead, SameMessage
    <2>3. WholeMessage' /\ Asked'
      BY <2>1 DEF WholeInv, WholeMessage, Asked
    <2>. QED
      BY <1>1, <2>2, <2>3 DEF WholeInv
  <1>3. CASE Next /\ vars' # vars
    <2>1. LastFault
      BY <1>3
    <2>2. CASE Ask \/ SendCF
      BY <1>1, <2>2, AskWhole, SendCFWhole
    <2>3. CASE CanTp_TxConfirmation \/ GiveUp
      BY <1>1, <2>1, <2>3, ConfirmWhole, GiveUpWhole
    <2>4. CASE AskAll
      BY <1>1, <2>4, AskAllWhole
    <2>5. CASE DoipTests \/ DoipTask
      BY <1>1, <2>5, DoipWhole
    <2>6. CASE L_CanTp_RxMainFunction
      BY <1>1, <2>6, RxMainWhole
    <2>7. CASE \/ L_CanTp_TxMainFunction \/ UdsRepeatServiceCall \/ P2Expires
               \/ P2Runs \/ RepeatTransmitCheck \/ UdsSidDispatcher
      BY <1>1, <2>7, TaskStepsWhole
    <2>. QED
      BY <1>3, <2>2, <2>3, <2>4, <2>5, <2>6, <2>7 DEF Next, CanTask
  <1>. QED
    BY <1>2, <1>3

LEMMA WholeRequests == WholeInv => WholeMessage /\ OneRequestAtATime
  <1>1. CanTpInv => (~Broken(flaws) => TakesTurns)
    BY DEF CanTpInv, Good, StateOK, Channel, Gate, State, Started_, TakesTurns
  <1>2. Sound(State, Started_) =>
          (~Broken(flaws) =>
             (dcm.flags \cap {"indication", "processing"} # {} => Whole(dcm.buf)))
    BY StateFields DEF Sound, HasWhole, State
  <1>. QED
    BY <1>1, <1>2 DEF WholeInv, OneRequestAtATime

\* One fault at the most can only be the last.
LEMMA OneFault ==
    ASSUME MaxFaults <= 1, CanTpInv
    PROVE  LastFault
  <1>1. faults \in Nat /\ MaxFaults \in Nat
    BY ConstantTypes DEF CanTpInv, Others
  <1>. QED
    BY <1>1 DEF LastFault, GiveUp

\* A message that is reported as complete is whole, however many frames of others are
\* lost or doubled and however many testers ask, if a tester that does not wait for its
\* flow control is the last thing to go wrong.
THEOREM LastFaultWhole ==
    Spec /\ [][LastFault]_vars => [](WholeMessage /\ OneRequestAtATime)
BY WholeInitially, WholeStep, WholeRequests, PTL DEF Spec

\* With one fault of the bus or of a tester, whichever it is, every message CanTp reports
\* as complete is the whole message of one tester.
THEOREM MessagesAreWhole ==
    ASSUME MaxFaults <= 1
    PROVE  Spec => []WholeMessage
  <1>1. WholeInv /\ [Next]_vars => WholeInv'
    BY WholeStep, OneFault DEF WholeInv
  <1>. QED
    BY <1>1, WholeInitially, WholeRequests, PTL DEF Spec

\* With one fault, what Dcm is to serve or is serving is one whole request, and nothing
\* is received while it does, unless the gate has been gone round.
THEOREM RequestsAreWhole ==
    ASSUME MaxFaults <= 1
    PROVE  Spec => []OneRequestAtATime
  <1>1. WholeInv /\ [Next]_vars => WholeInv'
    BY WholeStep, OneFault DEF WholeInv
  <1>. QED
    BY <1>1, WholeInitially, WholeRequests, PTL DEF Spec
=============================================================================
