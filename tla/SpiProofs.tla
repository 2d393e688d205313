----------------------------- MODULE SpiProofs -----------------------------
(***************************************************************************)
(* Proofs about SpiLink, for any number of slots, identifiers and frames.   *)
(*                                                                         *)
(* KeptUntilAcknowledged is inductive together with the types.  The work is *)
(* in what RX does between two events, which is a function of the record    *)
(* State: KeptIn says of such a record what KeptUntilAcknowledged says of a *)
(* state, and each operator of RX keeps it.                                 *)
(***************************************************************************)
EXTENDS SpiLink, SequenceTheorems, WellFoundedInduction, TLAPS

Below == {ss \in Nat \X Nat : ss[1] < ss[2]}

\* The order of the natural numbers, as a relation.
LEMMA BelowWellFounded == IsWellFoundedOn(Below, Nat)
  BY NatLessThanWellFounded DEF OpToRel, Below

\* First finds a slot if there is one.
LEMMA FirstIsMember ==
  ASSUME NEW ks \in SUBSET (1 .. Slots), ks # {}
  PROVE  First(ks) \in ks
<1>1. \E k \in ks : \A j \in ks : <<j, k>> \notin Below
  <2>1. ks \subseteq Nat
    BY SpiAssumption
  <2> QED
    BY <2>1, BelowWellFounded, WFMin
<1>2. \E k \in ks : \A j \in ks : k <= j
  <2>1. PICK k \in ks : \A j \in ks : <<j, k>> \notin Below
    BY <1>1
  <2>2. \A j \in ks : j \in Nat
    BY SpiAssumption
  <2>3. \A j \in ks : ~(j < k)
    BY <2>1, <2>2 DEF Below
  <2>4. \A j \in ks : k <= j
    BY <2>2, <2>3
  <2> QED
    BY <2>4
<1> QED
  BY <1>2 DEF First
-----------------------------------------------------------------------------
\* The types of what RX works on.
Slot == [full : BOOLEAN, id : Nat, data : Contents]
Store == [1 .. Slots -> Slot]
Again == [full : BOOLEAN, data : Contents, len : BOOLEAN]
Fate == [Frames -> {"new", "sent", "done", "lost"}]
States == [tx : Contents, ack : BOOLEAN, frameId : Nat, store : Store, again : Again,
           pending : Seq(Frames), fate : Fate, job : {"none", "rest"}, taken : 0 .. Slots]

\* Frame f has a copy in a slot, in the buffer for sending again or in a task's hands.
HeldIn(s, f) ==
    \/ \E k \in 1 .. Slots :
          /\ s.store[k].data = Data(f)
          /\ InHand(k, Data(f)) \/ (s.store[k].full /\ k # s.taken)
    \/ s.again.full /\ s.again.data = Data(f)
    \/ /\ s.taken # 0 /\ s.job # "rest" /\ s.tx = Data(f)
       /\ s.store[s.taken].full \/ InHand(s.taken, Data(f))

\* It does, if it was sent, and the buffer for sending again holds what it held.
KeptIn(s) ==
    /\ s.again.data = again.data
    /\ \A f \in Frames : s.fate[f] = "sent" => HeldIn(s, f)

\* RX has no slot to label.
Open(s) == s.taken = 0 /\ s.job = "none"

\* Every frame has an identifier.
LEMMA IdIsNatural ==
  ASSUME NEW c \in Contents
  PROVE  Id(c) \in Nat
<1>1. CASE c = Blank
  BY <1>1 DEF Id, Blank
<1>2. CASE c.kind \in {"data", "cut"} /\ c.n \in Nat
  <2>1. c.n - 1 \in Int
    BY <1>2
  <2>2. Ids \in Nat /\ Ids > 0
    BY SpiAssumption
  <2>3. (c.n - 1) % Ids \in Nat
    BY <2>1, <2>2
  <2> QED
    BY <1>2, <2>3 DEF Id
<1>3. CASE c \in [kind : {"own"}, n : Nat]
  BY <1>3 DEF Id
<1> QED
  BY <1>1, <1>2, <1>3, SpiAssumption DEF Contents, Frames

\* Losing a frame makes none of them sent.
LEMMA LostType ==
  ASSUME NEW ft \in Fate, NEW st, NEW ag, NEW c
  PROVE  /\ Lost(ft, st, ag, c) \in Fate
         /\ \A f \in Frames : Lost(ft, st, ag, c)[f] = "sent" => ft[f] = "sent"
  BY DEF Lost, Fate

\* A frame that Lost leaves as it is has a copy.
LEMMA LostLeavesHeld ==
  ASSUME NEW ft \in Fate, NEW st, NEW ag, NEW f \in Frames,
         Lost(ft, st, ag, Data(f))[f] = "sent"
  PROVE  Held(st, ag, Data(f))
  BY DEF Lost, Fate, Data

\* The first free slot is one.
LEMMA FreeSlot ==
  ASSUME NEW st, Free(st) # {}
  PROVE  First(Free(st)) \in 1 .. Slots /\ ~st[First(Free(st))].full
<1>1. Free(st) \in SUBSET (1 .. Slots)
  BY DEF Free
<1>2. First(Free(st)) \in Free(st)
  BY <1>1, FirstIsMember
<1> QED
  BY <1>2 DEF Free

\* The slot an acknowledgement or a time-out finds is full.
LEMMA HoldingSlot ==
  ASSUME NEW st, NEW id, Holding(st, id) # {}
  PROVE  /\ First(Holding(st, id)) \in 1 .. Slots
         /\ st[First(Holding(st, id))].full
<1>1. Holding(st, id) \in SUBSET (1 .. Slots)
  BY DEF Holding
<1>2. First(Holding(st, id)) \in Holding(st, id)
  BY <1>1, FirstIsMember
<1> QED
  BY <1>2 DEF Holding

\* Freeing a slot leaves its data behind and the other slots alone.
LEMMA FreedType ==
  ASSUME NEW st \in Store, NEW k \in 1 .. Slots
  PROVE  /\ Freed(st, k) \in Store
         /\ ~Freed(st, k)[k].full
         /\ \A j \in 1 .. Slots : Freed(st, k)[j].data = st[j].data
         /\ \A j \in 1 .. Slots \ {k} : Freed(st, k)[j] = st[j]
  BY DEF Freed, Store, Slot

\* Taking a slot changes the store, the fates and what RX has to label.
LEMMA TakenType ==
  ASSUME NEW s \in States, NEW c \in Contents
  PROVE  /\ Taken(s, c) \in States
         /\ Taken(s, c).again = s.again /\ Taken(s, c).pending = s.pending
         /\ Taken(s, c).tx = s.tx /\ Taken(s, c).job = s.job
         /\ Free(s.store) = {} =>
               /\ Taken(s, c).store = s.store /\ Taken(s, c).taken = s.taken
               /\ Taken(s, c).fate = Lost(s.fate, s.store, s.again, c)
         /\ Free(s.store) # {} =>
               /\ Taken(s, c).taken = First(Free(s.store))
               /\ Taken(s, c).store = [s.store EXCEPT ![First(Free(s.store))].full = TRUE]
               /\ Taken(s, c).fate = s.fate
<1>1. CASE Free(s.store) = {}
  <2>1. Lost(s.fate, s.store, s.again, c) \in Fate
    BY LostType DEF States
  <2> QED
    BY <1>1, <2>1 DEF Taken, States
<1>2. CASE Free(s.store) # {}
  <2> DEFINE k0 == First(Free(s.store))
             st == [s.store EXCEPT ![k0].full = TRUE]
  <2>1. k0 \in 1 .. Slots /\ k0 \in 0 .. Slots
    BY <1>2, FreeSlot
  <2>2. st \in Store
    BY <2>1 DEF States, Store, Slot
  <2>3. Taken(s, c) = [s EXCEPT !.store = st, !.taken = k0]
    BY <1>2 DEF Taken, States
  <2> HIDE DEF st, k0
  <2>4. /\ [s EXCEPT !.store = st, !.taken = k0] \in States
        /\ [s EXCEPT !.store = st, !.taken = k0].store = st
        /\ [s EXCEPT !.store = st, !.taken = k0].taken = k0
        /\ [s EXCEPT !.store = st, !.taken = k0].fate = s.fate
        /\ [s EXCEPT !.store = st, !.taken = k0].again = s.again
        /\ [s EXCEPT !.store = st, !.taken = k0].pending = s.pending
        /\ [s EXCEPT !.store = st, !.taken = k0].tx = s.tx
        /\ [s EXCEPT !.store = st, !.taken = k0].job = s.job
    BY <2>1, <2>2 DEF States
  <2> QED
    BY <1>2, <2>3, <2>4 DEF st, k0
<1> QED
  BY <1>1, <1>2

\* Taking a slot for frame c, which is in the buffer, keeps every other frame, and c if it
\* was not lost; and it keeps the others when c goes no further than the mark.
LEMMA TakenKeeps ==
  ASSUME NEW s \in States, NEW c \in Contents, taken = 0, Open(s), s.tx = c,
         s.again.data = again.data,
         \A f \in Frames : s.fate[f] = "sent" => HeldIn(s, f) \/ c = Data(f)
  PROVE  /\ KeptIn(Taken(s, c))
         /\ KeptIn(s) => KeptIn([Taken(s, c) EXCEPT !.job = "rest"])
<1> DEFINE t == Taken(s, c)
           r == [t EXCEPT !.job = "rest"]
<1>0. /\ t \in States /\ t.again = s.again /\ t.tx = c /\ t.job = "none"
      /\ s.fate \in Fate /\ s.store \in Store
  BY TakenType DEF States, Open
<1>r. /\ r.store = t.store /\ r.again = t.again /\ r.fate = t.fate /\ r.taken = t.taken
      /\ r.job = "rest"
  BY <1>0 DEF States
<1>a. t.again.data = again.data /\ r.again.data = again.data
  BY <1>0, <1>r
<1>1. CASE Free(s.store) = {}
  <2>1. /\ t.store = s.store /\ t.taken = 0
        /\ t.fate = Lost(s.fate, s.store, s.again, c)
    BY <1>1, TakenType DEF Open
  <2> HIDE DEF t, r
  <2>2. ASSUME NEW f \in Frames, t.fate[f] = "sent"
        PROVE  HeldIn(s, f)
    <3>1. s.fate[f] = "sent"
      BY <1>0, <2>1, <2>2, LostType
    <3>2. CASE c = Data(f)
      <4>1. Held(s.store, s.again, Data(f))
        BY <1>0, <2>1, <2>2, <3>2, LostLeavesHeld
      <4> QED
        BY <4>1, SpiAssumption DEF Held, HeldIn, Open
    <3> QED
      BY <3>1, <3>2
  <2>3. \A f \in Frames : HeldIn(s, f) => HeldIn(t, f) /\ HeldIn(r, f)
    BY <1>0, <1>r, <2>1 DEF HeldIn, Open
  <2>4. KeptIn(t) /\ KeptIn(r)
    BY <1>a, <1>r, <2>2, <2>3 DEF KeptIn
  <2> QED
    BY <2>4 DEF t, r
<1>2. CASE Free(s.store) # {}
  <2> DEFINE k0 == First(Free(s.store))
  <2>1. k0 \in 1 .. Slots /\ ~s.store[k0].full
    BY <1>2, FreeSlot
  <2>2. /\ t.taken = k0 /\ t.fate = s.fate
        /\ t.store[k0].full /\ t.store[k0].data = s.store[k0].data
        /\ \A j \in 1 .. Slots \ {k0} : t.store[j] = s.store[j]
    <3>1. /\ t.taken = k0 /\ t.fate = s.fate
          /\ t.store = [s.store EXCEPT ![k0].full = TRUE]
      BY <1>2, TakenType
    <3> DEFINE st == s.store
               n == [st EXCEPT ![k0].full = TRUE]
    <3>2. st \in [1 .. Slots -> [full : BOOLEAN, id : Nat, data : Contents]]
      BY <1>0 DEF Store, Slot
    <3>3. t.store = n
      BY <3>1
    <3> HIDE DEF t, r, k0, st
    <3>4. /\ n[k0].full /\ n[k0].data = st[k0].data
          /\ \A j \in 1 .. Slots \ {k0} : n[j] = st[j]
      BY <2>1, <3>2
    <3> QED
      BY <3>1, <3>3, <3>4 DEF st
  <2> HIDE DEF t, r, k0
  <2>3. ASSUME NEW f \in Frames, HeldIn(s, f)
        PROVE  /\ \/ \E k \in 1 .. Slots :
                        /\ t.store[k].data = Data(f)
                        /\ InHand(k, Data(f)) \/ (t.store[k].full /\ k # t.taken)
                  \/ t.again.full /\ t.again.data = Data(f)
    <3>1. CASE s.again.full /\ s.again.data = Data(f)
      BY <1>0, <3>1
    <3>2. ASSUME NEW k \in 1 .. Slots, s.store[k].data = Data(f),
                 InHand(k, Data(f)) \/ s.store[k].full
          PROVE  /\ t.store[k].data = Data(f)
                 /\ InHand(k, Data(f)) \/ (t.store[k].full /\ k # t.taken)
      BY <2>1, <2>2, <3>2
    <3> QED
      BY <2>3, <3>1, <3>2 DEF HeldIn, Open
  <2>4. \A f \in Frames : HeldIn(s, f) => HeldIn(t, f) /\ HeldIn(r, f)
    BY <1>r, <2>3 DEF HeldIn
  <2>5. \A f \in Frames : c = Data(f) => HeldIn(t, f)
    <3>1. k0 # 0
      BY <2>1
    <3> QED
      BY <1>0, <2>2, <3>1 DEF HeldIn
  <2>6. KeptIn(t) /\ (KeptIn(s) => KeptIn(r))
    BY <1>a, <1>r, <2>2, <2>4, <2>5 DEF KeptIn
  <2> QED
    BY <2>6 DEF t, r
<1> QED
  BY <1>1, <1>2

-----------------------------------------------------------------------------
\* Queue q is p, or p without its oldest frame.
Shorter(q, p) == q = p \/ (p # <<>> /\ q = Tail(p))

\* A frame without data changes nothing that is kept.
LEMMA NoDataSteps ==
  ASSUME NEW s \in States, Open(s)
  PROVE  /\ NoData(s) \in States /\ Acknowledge(s) \in States
         /\ NoData(s).pending = s.pending /\ Acknowledge(s).pending = s.pending
         /\ KeptIn(s) => KeptIn(NoData(s)) /\ KeptIn(Acknowledge(s))
  BY DEF NoData, Acknowledge, States, Contents, KeptIn, HeldIn, Open

\* The oldest frame of the ring is kept from the moment it is sent.
LEMMA FromRingSteps ==
  ASSUME NEW s \in States, s.pending # <<>>, Open(s), taken = 0
  PROVE  /\ FromRing(s) \in States
         /\ FromRing(s).pending = Tail(s.pending)
         /\ KeptIn(s) => KeptIn(FromRing(s))
<1> DEFINE f0 == Head(s.pending)
           t == [s EXCEPT !.tx = Data(f0), !.pending = Tail(@), !.fate[f0] = "sent"]
<1>1. f0 \in Frames /\ Tail(s.pending) \in Seq(Frames)
  BY DEF States
<1>2. Data(f0) \in Contents
  BY <1>1 DEF Data, Contents
<1>3. /\ t \in States /\ t.store = s.store /\ t.again = s.again /\ t.tx = Data(f0)
      /\ t.pending = Tail(s.pending) /\ Open(t)
      /\ \A f \in Frames \ {f0} : t.fate[f] = s.fate[f]
  BY <1>1, <1>2 DEF States, Fate, Open
<1>4. FromRing(s) = Taken(t, Data(f0))
  BY DEF FromRing
<1> HIDE DEF t, f0
<1>5. FromRing(s) \in States /\ FromRing(s).pending = Tail(s.pending)
  <2> DEFINE c == Data(f0)
  <2>1. t \in States /\ c \in Contents /\ t.pending = Tail(s.pending)
    BY <1>2, <1>3
  <2>2. FromRing(s) = Taken(t, c)
    BY <1>4
  <2> HIDE DEF c
  <2>3. Taken(t, c) \in States /\ Taken(t, c).pending = t.pending
    BY <2>1, TakenType
  <2> QED
    BY <2>1, <2>2, <2>3
<1>6. ASSUME KeptIn(s) PROVE KeptIn(FromRing(s))
  <2>0. t.again.data = again.data
    BY <1>3, <1>6 DEF KeptIn
  <2>1. \A f \in Frames : t.fate[f] = "sent" => HeldIn(t, f) \/ Data(f0) = Data(f)
    BY <1>3, <1>6 DEF KeptIn, HeldIn, Open
  <2> QED
    BY <1>2, <1>3, <1>4, <2>0, <2>1, TakenKeeps
<1> QED
  BY <1>5, <1>6

\* The same for what is sent when there may be nothing in the ring.
LEMMA RingOrBlankSteps ==
  ASSUME NEW s \in States, Open(s), taken = 0
  PROVE  /\ RingOrBlank(s) \in States
         /\ Shorter(RingOrBlank(s).pending, s.pending)
         /\ KeptIn(s) => KeptIn(RingOrBlank(s))
  BY NoDataSteps, FromRingSteps DEF RingOrBlank, Shorter

\* A frame that is sent again is kept again.
LEMMA SentAgainSteps ==
  ASSUME NEW s \in States, s.again.full, Open(s), taken = 0
  PROVE  /\ SentAgain(s) \in States
         /\ Shorter(SentAgain(s).pending, s.pending)
         /\ KeptIn(s) => KeptIn(SentAgain(s))
<1> DEFINE c == s.again.data
           r == [s EXCEPT !.again.full = FALSE, !.tx = c]
           g == IF txTask.pc = "len" \/ ~s.again.len
                THEN Lost(s.fate, s.store, r.again, c) ELSE s.fate
           u == [r EXCEPT !.fate = g]
           t == Taken(u, c)
<1>1. c \in Contents
  BY DEF States, Again
<1>2. /\ r \in States /\ r.store = s.store /\ r.pending = s.pending /\ r.fate = s.fate
      /\ r.tx = c /\ ~r.again.full /\ r.again.data = c /\ Open(r)
  BY <1>1 DEF States, Again, Open
<1>3. u = [r EXCEPT !.fate = IF txTask.pc = "len" \/ ~s.again.len
                             THEN Lost(@, s.store, r.again, c) ELSE @]
  BY <1>2
<1>4. SentAgain(s) = IF s.again.len THEN t
                     ELSE IF t.taken = 0 THEN RingOrBlank(t) ELSE [t EXCEPT !.job = "rest"]
  BY <1>3 DEF SentAgain
<1> HIDE DEF r
<1>5. s.fate \in Fate /\ g \in Fate
  BY LostType DEF States
<1> HIDE DEF g
<1>6. /\ u \in States /\ u.store = s.store /\ u.pending = s.pending /\ u.fate = g
      /\ u.tx = c /\ ~u.again.full /\ u.again = r.again /\ Open(u)
  BY <1>2, <1>5 DEF States, Open
<1> HIDE DEF u, c
<1>7. t \in States /\ t.pending = s.pending /\ t.job = "none"
  BY <1>1, <1>6, TakenType DEF Open
<1>8. t.taken = 0 => Open(t)
  BY <1>7 DEF Open
<1> HIDE DEF t
<1>9. [t EXCEPT !.job = "rest"] \in States /\ [t EXCEPT !.job = "rest"].pending = s.pending
  BY <1>7 DEF States
<1>10. SentAgain(s) \in States /\ Shorter(SentAgain(s).pending, s.pending)
  <2>1. t.taken = 0 => RingOrBlank(t) \in States /\ Shorter(RingOrBlank(t).pending, s.pending)
    BY <1>7, <1>8, RingOrBlankSteps
  <2> QED
    BY <1>4, <1>7, <1>9, <2>1 DEF Shorter
<1>11. ASSUME KeptIn(s) PROVE KeptIn(SentAgain(s))
  <2>0. u.again.data = again.data
    BY <1>2, <1>6, <1>11 DEF KeptIn, c
  <2>1. ASSUME NEW f \in Frames, u.fate[f] = "sent"
        PROVE  HeldIn(u, f) \/ c = Data(f)
    <3>1. s.fate[f] = "sent"
      BY <1>5, <1>6, <2>1, LostType DEF g
    <3>2. HeldIn(s, f)
      BY <1>11, <3>1 DEF KeptIn
    <3> QED
      BY <1>6, <3>2 DEF HeldIn, c, Open
  <2>2. ASSUME ~s.again.len, NEW f \in Frames, u.fate[f] = "sent"
        PROVE  HeldIn(u, f)
    <3>1. u.fate = Lost(s.fate, s.store, r.again, c)
      BY <1>6, <2>2 DEF g
    <3>2. CASE c = Data(f)
      <4>1. Held(s.store, r.again, Data(f))
        BY <1>5, <2>2, <3>1, <3>2, LostLeavesHeld
      <4> QED
        BY <1>6, <4>1, SpiAssumption DEF Held, HeldIn, Open
    <3> QED
      BY <2>1, <2>2, <3>2
  <2>3. KeptIn(t) /\ (KeptIn(u) => KeptIn([t EXCEPT !.job = "rest"]))
    BY <1>1, <1>6, <2>0, <2>1, TakenKeeps DEF t
  <2>4. ~s.again.len => KeptIn(u)
    BY <2>0, <2>2 DEF KeptIn
  <2>5. t.taken = 0 => KeptIn(RingOrBlank(t))
    BY <1>7, <1>8, <2>3, RingOrBlankSteps
  <2> QED
    BY <1>4, <2>3, <2>4, <2>5
<1> QED
  BY <1>10, <1>11

\* Frames with the DIDs or the version change nothing that is kept.
LEMMA OwnFrames ==
  ASSUME NEW s \in States, Open(s)
  PROVE  /\ SentDid(s) \in States /\ SentVersion(s) \in States
         /\ SentDid(s).pending = s.pending /\ SentVersion(s).pending = s.pending
         /\ KeptIn(s) => KeptIn(SentDid(s)) /\ KeptIn(SentVersion(s))
<1>1. Numbered(s) \in Nat
  BY DEF Numbered, States
<1>2. Own(Numbered(s)) \in Contents
  BY <1>1 DEF Own, Contents
<1>3. ASSUME NEW x \in Contents, NEW i \in Nat
      PROVE  /\ [s EXCEPT !.tx = x, !.frameId = i] \in States
             /\ [s EXCEPT !.tx = x, !.frameId = i].pending = s.pending
  BY DEF States
<1>4. \A t \in {SentDid(s), SentVersion(s)} :
         t.store = s.store /\ t.again = s.again /\ t.fate = s.fate /\ t.taken = 0
  BY DEF SentDid, SentVersion, States, Open
<1>5. KeptIn(s) => \A t \in {SentDid(s), SentVersion(s)} : KeptIn(t)
  BY <1>4 DEF KeptIn, HeldIn, Open
<1>6. (Numbered(s) + 1) % 256 \in Nat
  BY <1>1
<1> QED
  BY <1>1, <1>2, <1>3, <1>5, <1>6 DEF SentDid, SentVersion

\* So whatever event RX handles, it keeps what was sent.
LEMMA HandledSteps ==
  ASSUME NEW s \in States, NEW e, Open(s), taken = 0
  PROVE  /\ Handled(s, e) \in States
         /\ Shorter(Handled(s, e).pending, s.pending)
         /\ KeptIn(s) => KeptIn(Handled(s, e))
<1>1. Handled(s, e) \in {NoData(s), Acknowledge(s), RingOrBlank(s), SentVersion(s),
                         SentDid(s), s} \cup (IF s.again.full THEN {SentAgain(s)} ELSE {})
  BY DEF Handled
<1> QED
  BY <1>1, NoDataSteps, RingOrBlankSteps, SentAgainSteps, OwnFrames DEF Shorter

-----------------------------------------------------------------------------
\* The state of RX is a record of States.
LEMMA StateTyped ==
  ASSUME SpiTypeOK
  PROVE  State \in States
<1>1. pending \in Seq(Frames)
  BY SpiAssumption DEF SpiTypeOK, Frames
<1> QED
  BY <1>1, SpiAssumption DEF SpiTypeOK, State, States, Slot, Store, Again, Fate

\* KeptIn of that record is the invariant while no slot is to be labelled.
LEMMA StateKept ==
  ASSUME taken = 0
  PROVE  Open(State) /\ (KeptUntilAcknowledged => KeptIn(State))
  BY SpiAssumption DEF KeptIn, HeldIn, Held, State, Open, KeptUntilAcknowledged

\* The step of RX in terms of the variables.
LEMMA RxPackState ==
  ASSUME SpiTypeOK, RxPack
  PROVE  /\ tx' \in Contents /\ ack' \in BOOLEAN /\ frameId' \in Nat /\ store' \in Store
         /\ again' \in Again /\ fate' \in Fate /\ Shorter(pending', pending)
         /\ job' \in {"none", "rest"} /\ taken' \in 0 .. Slots
         /\ KeptUntilAcknowledged => KeptUntilAcknowledged'
<1> DEFINE s == Handled(State, job)
<1>0. taken = 0
  BY DEF SpiTypeOK, RxPack
<1>1. /\ State \in States /\ s \in States /\ Shorter(s.pending, State.pending)
      /\ KeptIn(State) => KeptIn(s)
  BY <1>0, StateTyped, StateKept, HandledSteps
<1>2. /\ tx' = s.tx /\ ack' = s.ack /\ frameId' = s.frameId /\ store' = s.store
      /\ again' = s.again /\ pending' = s.pending /\ fate' = s.fate /\ txTask' = txTask
      /\ job' = s.job /\ taken' = s.taken
  BY DEF RxPack, Become
<1> HIDE DEF s
<1>3. State.pending = pending
  BY DEF State
<1>4. KeptIn(s) => KeptUntilAcknowledged'
  <2>1. KeptIn(s) => again'.data = again.data
    BY <1>2 DEF KeptIn
  <2> QED
    BY <1>2, <2>1 DEF KeptIn, HeldIn, Held, InHand, KeptUntilAcknowledged
<1>5. KeptUntilAcknowledged => KeptUntilAcknowledged'
  BY <1>0, <1>1, <1>4, StateKept
<1>6. /\ s.tx \in Contents /\ s.ack \in BOOLEAN /\ s.frameId \in Nat /\ s.store \in Store
      /\ s.again \in Again /\ s.fate \in Fate
      /\ s.job \in {"none", "rest"} /\ s.taken \in 0 .. Slots
  BY <1>1 DEF States
<1> QED
  BY <1>1, <1>2, <1>3, <1>5, <1>6

\* What is in a slot when its number is written is what was sent.
LEMMA RxLabelSteps ==
  ASSUME SpiTypeOK, RxLabel
  PROVE  /\ store' \in Store /\ fate' \in Fate
         /\ KeptUntilAcknowledged => KeptUntilAcknowledged'
<1>1. /\ taken \in 1 .. Slots /\ taken' = 0 /\ again' = again /\ txTask' = txTask
      /\ fate' = Lost(fate, store', again, store[taken].data)
  BY SpiAssumption DEF SpiTypeOK, RxLabel, RxGo
<1>2. store \in Store /\ fate \in Fate /\ tx \in Contents
  BY DEF SpiTypeOK, Store, Slot, Fate
<1> DEFINE c == IF job = "rest" THEN Blank ELSE tx
           l == [store[taken] EXCEPT !.id = Id(tx), !.data = c]
<1>3. Id(tx) \in Nat /\ c \in Contents
  BY <1>2, IdIsNatural DEF Contents
<1>4. store[taken] \in Slot /\ l \in Slot /\ l.full = store[taken].full /\ l.data = c
  BY <1>1, <1>2, <1>3 DEF Store, Slot
<1>5. store' = [store EXCEPT ![taken] = l]
  BY <1>1, <1>2 DEF RxLabel, Store, Slot
<1> HIDE DEF l
<1>6. /\ store' \in Store /\ store'[taken] = l
      /\ \A j \in 1 .. Slots \ {taken} : store'[j] = store[j]
  BY <1>1, <1>2, <1>4, <1>5 DEF Store
<1>7. fate' \in Fate /\ \A f \in Frames : fate'[f] = "sent" => fate[f] = "sent"
  BY <1>1, <1>2, LostType
<1>8. ASSUME KeptUntilAcknowledged, NEW f \in Frames, fate'[f] = "sent"
      PROVE  \/ \E k \in 1 .. Slots :
                   store'[k].data = Data(f) /\ (InHand(k, Data(f)) \/ store'[k].full)
             \/ again.full /\ again.data = Data(f)
  <2>1. Held(store, again, Data(f))
    BY <1>7, <1>8 DEF KeptUntilAcknowledged
  <2>2. CASE InHand(taken, Data(f)) /\ store[taken].data = Data(f)
    <3>1. Lost(fate, store', again, Data(f))[f] = "sent"
      BY <1>1, <1>8, <2>2
    <3>2. Held(store', again, Data(f))
      BY <1>2, <3>1, LostLeavesHeld
    <3>3. job # "rest" /\ tx = Data(f) => store'[taken].data = Data(f)
      BY <1>4, <1>6
    <3> QED
      BY <1>1, <3>2, <3>3 DEF Held
  <2>3. ASSUME NEW k \in 1 .. Slots, k # taken, store[k].data = Data(f),
               InHand(k, Data(f)) \/ store[k].full
        PROVE  store'[k].data = Data(f) /\ (InHand(k, Data(f)) \/ store'[k].full)
    BY <1>6, <2>3
  <2>4. CASE job # "rest" /\ tx = Data(f) /\ (store[taken].full \/ InHand(taken, Data(f)))
    BY <1>1, <1>4, <1>6, <2>4
  <2> QED
    BY <2>1, <2>2, <2>3, <2>4 DEF Held
<1>9. KeptUntilAcknowledged => KeptUntilAcknowledged'
  <2>1. \A k \in 1 .. Slots, f \in Frames :
            k # taken' /\ (InHand(k, Data(f))' <=> InHand(k, Data(f)))
    BY <1>1 DEF InHand, Data
  <2> QED
    BY <1>1, <1>8, <2>1 DEF KeptUntilAcknowledged, Held
<1> QED
  BY <1>6, <1>7, <1>9

\* Taking the oldest frame leaves a shorter queue of packed frames.
LEMMA ShorterPending ==
  ASSUME NEW n \in Nat, NEW p \in Seq(1 .. n), Len(p) <= Room, NEW q, Shorter(q, p)
  PROVE  q \in Seq(1 .. n) /\ Len(q) <= Room
<1>1. CASE q = p
  BY <1>1
<1>2. CASE p # <<>> /\ q = Tail(p)
  <2>1. Tail(p) \in Seq(1 .. n) /\ Len(Tail(p)) = Len(p) - 1
    BY <1>2
  <2> QED
    BY <1>2, <2>1, SpiAssumption
<1> QED
  BY <1>1, <1>2 DEF Shorter

\* The initial state has the types.
LEMMA SpiTypeBegins == Init => SpiTypeOK
<1> SUFFICES ASSUME Init PROVE SpiTypeOK
  OBVIOUS
<1>1. Blank \in Contents /\ 0 \in 0 .. Slots /\ 0 \in 0 .. AckTimeout + 1
      /\ 0 \in 0 .. LinkTimeout /\ 0 \in 0 .. MaxFrames /\ MaxSoc \in 0 .. MaxSoc
  BY SpiAssumption DEF Contents
<1>2. store \in [1 .. Slots -> [full : BOOLEAN, id : Nat, data : Contents]]
  BY <1>1 DEF Init, Empty
<1>3. watch \in [1 .. Slots -> [id : Nat \cup {NoId}, times : 0 .. AckTimeout + 1]]
  BY <1>1 DEF Init
<1>4. soc \in [left : 0 .. MaxSoc, wire : SUBSET Contents, heard : Contents]
  BY <1>1 DEF Init
<1>5. /\ again \in [full : BOOLEAN, data : Contents, len : BOOLEAN]
      /\ fate \in [Frames -> {"new", "sent", "done", "lost"}]
      /\ txTask \in [pc : TxPoints, slot : 0 .. Slots]
      /\ txTask.pc \in {"leave", "number", "copy", "len"} => txTask.slot # 0
  BY <1>1 DEF Init, TxPoints
<1>7. Due = {}
  BY SpiAssumption DEF Init, Due
<1>6. packed \in 0 .. MaxFrames /\ pending \in Seq(1 .. packed) /\ Len(pending) <= Room
  BY <1>1, SpiAssumption DEF Init
<1> QED
  BY <1>1, <1>2, <1>3, <1>4, <1>5, <1>6, <1>7 DEF Init, SpiTypeOK

\* RX keeps the types when it takes an event, packs the buffer and labels a slot,
LEMMA RxTakeType ==
  ASSUME SpiTypeOK, RxTake
  PROVE  SpiTypeOK'
<1>1. job' \in Events \cup {"none", "rest"} /\ event' \in Events \cup {"none"}
      /\ missed' \in BOOLEAN
  BY DEF RxTake, SpiTypeOK
<1> QED
  BY <1>1 DEF RxTake, RxGo, SpiTypeOK, Due

LEMMA RxPackType ==
  ASSUME SpiTypeOK, RxPack
  PROVE  SpiTypeOK'
<1>1. /\ tx' \in Contents /\ ack' \in BOOLEAN /\ frameId' \in Nat /\ store' \in Store
      /\ again' \in Again /\ fate' \in Fate /\ Shorter(pending', pending)
      /\ job' \in {"none", "rest"} /\ taken' \in 0 .. Slots
  BY RxPackState
<1>2. pending' \in Seq(1 .. packed) /\ Len(pending') <= Room
  BY <1>1, ShorterPending DEF SpiTypeOK
<1>3. soc' \in [left : 0 .. MaxSoc, wire : SUBSET Contents, heard : Contents]
  BY <1>1 DEF RxPack, SpiTypeOK, Heard
<1>4. called' \in {"none", "data", "gone"} /\ missed' \in BOOLEAN
  BY DEF RxPack, Overwritten, SpiTypeOK
<1>5. /\ rxTask' \in {"wait", "pack", "label", "callback", "arm", "retry"}
      /\ taken' # 0 <=> rxTask' = "label"
      /\ job' \in Events \cup {"none", "rest"}
  BY <1>1 DEF RxPack
<1>6. /\ UNCHANGED <<step, event, didDue, armed, waited, txTask, watch, packed>>
  BY DEF RxPack
<1> QED
  BY <1>1, <1>2, <1>3, <1>4, <1>5, <1>6 DEF SpiTypeOK, Store, Slot, Again, Fate, Due

LEMMA RxLabelType ==
  ASSUME SpiTypeOK, RxLabel
  PROVE  SpiTypeOK'
<1>1. store' \in Store /\ fate' \in Fate
  BY RxLabelSteps
<1>2. /\ taken' = 0 /\ rxTask' \in {"pack", "callback"}
      /\ taken' \in 0 .. Slots
  BY SpiAssumption DEF RxLabel, RxGo
<1> QED
  BY <1>1, <1>2 DEF RxLabel, SpiTypeOK, Store, Slot, Fate, Due

\* and when it looks at the SoC's frame and arms the transfer.
LEMMA RxOthersType ==
  ASSUME SpiTypeOK, RxCallback \/ RxArm \/ RxGivesUp
  PROVE  SpiTypeOK'
<1>1. CASE RxCallback
  <2>1. /\ event' \in Events \cup {"none"} /\ called' \in {"none", "data", "gone"}
        /\ rxTask' = "arm" /\ rxTask = "callback"
    BY <1>1 DEF RxCallback, RxGo, Post, SpiTypeOK, Events
  <2> QED
    BY <1>1, <2>1 DEF RxCallback, SpiTypeOK, Due
<1>2. CASE RxArm
  <2>1. soc' \in [left : 0 .. MaxSoc, wire : SUBSET Contents, heard : Contents]
    BY <1>2 DEF RxArm, SpiTypeOK, Heard
  <2>2. 0 \in 0 .. LinkTimeout
    BY SpiAssumption
  <2>3. waited' \in 0 .. LinkTimeout /\ armed' \in BOOLEAN
        /\ rxTask' \in {"wait", "retry"} /\ rxTask # "label"
    BY <1>2, <2>2 DEF RxArm, SpiTypeOK
  <2> QED
    BY <1>2, <2>1, <2>3 DEF RxArm, SpiTypeOK, Due
<1>3. CASE RxGivesUp
  BY <1>3 DEF RxGivesUp, RxGo, SpiTypeOK, Due
<1> QED
  BY <1>1, <1>2, <1>3

\* A frame is counted up to the call at which it is due.
LEMMA WatchedType ==
  ASSUME NEW w \in [id : Nat \cup {NoId}, times : 0 .. AckTimeout + 1],
         ~(w.times > AckTimeout), NEW slot \in Slot
  PROVE  Watched(w, slot) \in [id : Nat \cup {NoId}, times : 0 .. AckTimeout + 1]
<1> DEFINE id == IF slot.full THEN slot.id ELSE NoId
<1>1. id \in Nat \cup {NoId}
  BY DEF Slot
<1>2. 0 \in 0 .. AckTimeout + 1 /\ w.times + 1 \in 0 .. AckTimeout + 1
  BY SpiAssumption
<1>3. [id |-> id, times |-> 0] \in [id : Nat \cup {NoId}, times : 0 .. AckTimeout + 1]
  BY <1>1, <1>2
<1>4. [w EXCEPT !.times = @ + 1] \in [id : Nat \cup {NoId}, times : 0 .. AckTimeout + 1]
  BY <1>2
<1> QED
  BY <1>3, <1>4 DEF Watched

\* TX keeps the types when it looks what there is to post, and posts it,
LEMMA TxPostType ==
  ASSUME SpiTypeOK, TxLook \/ TxPeek \/ TxPost
  PROVE  SpiTypeOK'
<1>1. event' \in Events \cup {"none"} /\ didDue' \in BOOLEAN
  BY DEF TxLook, TxPeek, TxPost, Post, SpiTypeOK, Events
<1>2. /\ txTask' \in [pc : TxPoints, slot : 0 .. Slots]
      /\ txTask'.pc \in {"time", "peek", "data", "did"} /\ Due' = {}
  BY DEF TxLook, TxPeek, TxPost, TxGo, SpiTypeOK, Due, TxPoints
<1> QED
  BY <1>1, <1>2 DEF TxLook, TxPeek, TxPost, KeepRx, SpiTypeOK

\* when it counts the calls a transfer and the frames have waited,
LEMMA TxTimeType ==
  ASSUME SpiTypeOK, TxTime
  PROVE  SpiTypeOK'
<1>1. /\ txTask' \in [pc : TxPoints, slot : 0 .. Slots]
      /\ txTask'.pc = "due"
  BY DEF TxTime, TxGo, SpiTypeOK, TxPoints
<1>2. watch' \in [1 .. Slots -> [id : Nat \cup {NoId}, times : 0 .. AckTimeout + 1]]
  <2>1. \A k \in 1 .. Slots : ~(watch[k].times > AckTimeout) /\ store[k] \in Slot
    BY DEF TxTime, TxGo, SpiTypeOK, Due, Slot
  <2>2. \A k \in 1 .. Slots : Watched(watch[k], store[k])
            \in [id : Nat \cup {NoId}, times : 0 .. AckTimeout + 1]
    BY <2>1, WatchedType DEF SpiTypeOK
  <2> QED
    BY <2>2 DEF TxTime
<1>3. /\ armed' \in BOOLEAN /\ waited' \in 0 .. LinkTimeout
      /\ event' \in Events \cup {"none"}
      /\ soc' \in [left : 0 .. MaxSoc, wire : SUBSET Contents, heard : Contents]
  <2>1. CASE armed /\ waited >= LinkTimeout
    <3>1. 0 \in 0 .. LinkTimeout
      BY SpiAssumption
    <3>2. soc' \in [left : 0 .. MaxSoc, wire : SUBSET Contents, heard : Contents]
      BY <2>1 DEF TxTime, SpiTypeOK
    <3> QED
      BY <2>1, <3>1, <3>2 DEF TxTime
  <2>2. CASE ~(armed /\ waited >= LinkTimeout)
    <3>1. waited' \in 0 .. LinkTimeout
      BY <2>2, SpiAssumption DEF TxTime, SpiTypeOK
    <3> QED
      BY <2>2, <3>1 DEF TxTime, SpiTypeOK
  <2> QED
    BY <2>1, <2>2
<1> QED
  BY <1>1, <1>2, <1>3 DEF TxTime, KeepRx, SpiTypeOK

\* when it finds that a frame is due,
LEMMA TxFindType ==
  ASSUME SpiTypeOK, TxFind
  PROVE  SpiTypeOK'
<1>1. Due \in SUBSET (1 .. Slots) /\ Due # {}
  BY DEF TxFind, Due
<1>2. First(Due) \in 1 .. Slots
  BY <1>1, FirstIsMember
<1>3. watch' \in [1 .. Slots -> [id : Nat \cup {NoId}, times : 0 .. AckTimeout + 1]]
  <2>1. 0 \in 0 .. AckTimeout + 1
    BY SpiAssumption
  <2> QED
    BY <1>2, <2>1 DEF TxFind, SpiTypeOK
<1> DEFINE held == Holding(store, watch[First(Due)].id)
<1>4. CASE held = {}
  <2>1. txTask' = txTask /\ txTask.pc = "due"
    BY <1>4 DEF TxFind
  <2> QED
    BY <1>3, <2>1 DEF TxFind, KeepRx, SpiTypeOK
<1>5. CASE held # {}
  <2>1. First(held) \in 1 .. Slots
    BY <1>5, HoldingSlot
  <2>2. txTask' = [pc |-> "leave", slot |-> First(held)]
    BY <1>5 DEF TxFind
  <2>4. /\ txTask' \in [pc : TxPoints, slot : 0 .. Slots]
        /\ txTask'.slot # 0 /\ txTask'.pc = "leave"
    BY <2>1, <2>2, SpiAssumption DEF TxPoints
  <2> QED
    BY <1>3, <2>4 DEF TxFind, KeepRx, SpiTypeOK
<1> QED
  BY <1>4, <1>5

\* when that leaves its slot,
LEMMA TxLeaveType ==
  ASSUME SpiTypeOK, TxLeave \/ TxNumber
  PROVE  SpiTypeOK'
<1>1. /\ txTask' \in [pc : TxPoints, slot : 0 .. Slots]
      /\ txTask'.pc \in {"number", "copy"} /\ txTask'.slot # 0
  BY DEF TxLeave, TxNumber, TxGo, SpiTypeOK, TxPoints
<1>2. store' \in [1 .. Slots -> [full : BOOLEAN, id : Nat, data : Contents]]
  <2>1. store \in [1 .. Slots -> [full : BOOLEAN, id : Nat, data : Contents]]
    BY DEF SpiTypeOK
  <2>2. CASE TxLeave
    BY <2>1, <2>2 DEF TxLeave
  <2>3. CASE TxNumber
    BY <2>1, <2>3 DEF TxNumber
  <2> QED
    BY <2>2, <2>3
<1> QED
  BY <1>1, <1>2 DEF TxLeave, TxNumber, KeepRx, SpiTypeOK, Due

\* when it is copied,
LEMMA TxCopyType ==
  ASSUME SpiTypeOK, TxCopy \/ TxCopied
  PROVE  SpiTypeOK'
<1>1. /\ txTask' \in [pc : TxPoints, slot : 0 .. Slots]
      /\ txTask'.pc \in {"copying", "len"} /\ txTask'.slot # 0
  BY DEF TxCopy, TxCopied, TxGo, SpiTypeOK, TxPoints
<1>2. store[txTask.slot].data \in Contents
  <2>1. txTask.slot \in 1 .. Slots
    BY SpiAssumption DEF TxCopy, TxCopied, TxGo, SpiTypeOK
  <2> QED
    BY <2>1 DEF SpiTypeOK
<1>3. again' \in [full : BOOLEAN, data : Contents, len : BOOLEAN]
  <2>1. Cut(store[txTask.slot].data.n) \in Contents
    <3>1. store[txTask.slot].data.n \in Nat
      BY <1>2, SpiAssumption DEF Contents, Blank, Frames
    <3> QED
      BY <3>1 DEF Cut, Contents
  <2>2. again \in [full : BOOLEAN, data : Contents, len : BOOLEAN]
    BY DEF SpiTypeOK
  <2>3. CASE TxCopy
    BY <2>1, <2>2, <2>3 DEF TxCopy
  <2>4. CASE TxCopied
    BY <1>2, <2>2, <2>4 DEF TxCopied
  <2> QED
    BY <2>3, <2>4
<1>4. fate' \in [Frames -> {"new", "sent", "done", "lost"}]
  <2>1. fate \in Fate
    BY DEF SpiTypeOK, Fate
  <2>2. CASE TxCopy
    BY <2>1, <2>2, LostType DEF TxCopy, Fate
  <2>3. CASE TxCopied
    BY <2>1, <2>3 DEF TxCopied, Fate
  <2> QED
    BY <2>2, <2>3
<1> QED
  BY <1>1, <1>3, <1>4 DEF TxCopy, TxCopied, KeepRx, SpiTypeOK

\* when its length is noted,
LEMMA TxMeasureType ==
  ASSUME SpiTypeOK, TxMeasure
  PROVE  SpiTypeOK'
<1>1. txTask' \in [pc : TxPoints, slot : 0 .. Slots]
      /\ txTask'.pc = "due"
  BY SpiAssumption DEF TxMeasure, TxPoints
<1>2. again' \in [full : BOOLEAN, data : Contents, len : BOOLEAN]
  BY DEF TxMeasure, SpiTypeOK
<1> QED
  BY <1>1, <1>2 DEF TxMeasure, KeepRx, SpiTypeOK

\* when no frame is due any more,
LEMMA TxDoneType ==
  ASSUME SpiTypeOK, TxDone
  PROVE  SpiTypeOK'
<1>1. txTask' \in [pc : TxPoints, slot : 0 .. Slots]
      /\ txTask'.pc = "post" /\ Due' = {}
  BY DEF TxDone, TxGo, SpiTypeOK, Due, TxPoints
<1> QED
  BY <1>1 DEF TxDone, KeepRx, SpiTypeOK

\* and when it packs a frame and drops the oldest for it.
LEMMA TxReadType ==
  ASSUME SpiTypeOK, TxRead
  PROVE  SpiTypeOK'
<1>1. txTask' = txTask /\ Due' = Due
  <2>1. txTask \in [pc : TxPoints, slot : 0 .. Slots]
    BY DEF SpiTypeOK
  <2>2. txTask' = txTask
    BY <2>1 DEF TxRead, TxGo
  <2> QED
    BY <2>2 DEF TxRead, Due
<1>2. packed \in Nat /\ packed' = packed + 1 /\ packed' \in 0 .. MaxFrames
  <2>1. packed < MaxFrames /\ packed' = packed + 1
    BY DEF TxRead
  <2>2. packed \in 0 .. MaxFrames /\ MaxFrames \in Nat
    BY SpiAssumption DEF SpiTypeOK
  <2> QED
    BY <2>1, <2>2
<1>3. pending \in Seq(1 .. packed')
  <2>1. pending \in Seq(1 .. packed)
    BY DEF SpiTypeOK
  <2>2. 1 .. packed \subseteq 1 .. packed'
    BY <1>2
  <2> QED
    BY <2>1, <2>2, SeqMonotonic
<1>4. pending' \in Seq(1 .. packed') /\ Len(pending') <= Room
  <2>1. packed' \in 1 .. packed'
    BY <1>2
  <2>2. CASE Len(pending) < Room
    BY <1>3, <2>1, <2>2, SpiAssumption DEF TxRead, SpiTypeOK
  <2>3. CASE ~(Len(pending) < Room)
    <3>1. Len(pending) = Room /\ Room > 0 /\ Room \in Nat
      BY <1>3, <2>3, SpiAssumption DEF SpiTypeOK
    <3>2. Tail(pending) \in Seq(1 .. packed') /\ Len(Tail(pending)) = Room - 1
      BY <1>3, <3>1
    <3> QED
      BY <2>1, <2>3, <3>1, <3>2 DEF TxRead
  <2> QED
    BY <2>2, <2>3
<1> QED
  BY <1>1, <1>2, <1>4 DEF TxRead, KeepRx, SpiTypeOK

-----------------------------------------------------------------------------
\* A transfer leaves the SoC with one frame it has heard.
LEMMA TransferredType ==
  ASSUME SpiTypeOK,
         NEW s \in [left : 0 .. MaxSoc, wire : SUBSET Contents, heard : Contents],
         Transferred(s)
  PROVE  /\ soc' \in [left : 0 .. MaxSoc, wire : SUBSET Contents, heard : Contents]
         /\ armed' \in BOOLEAN /\ waited' \in 0 .. LinkTimeout
<1>1. 0 \in 0 .. LinkTimeout
  BY SpiAssumption
<1>2. PICK c \in {s.heard} \cup s.wire : soc' = [s EXCEPT !.wire = {}, !.heard = c]
  BY DEF Transferred
<1>3. c \in Contents
  OBVIOUS
<1>4. soc' \in [left : 0 .. MaxSoc, wire : SUBSET Contents, heard : Contents]
  BY <1>2, <1>3
<1> QED
  BY <1>1, <1>4 DEF Transferred

\* The SoC has a bounded number of things to do.
LEMMA OneLess ==
  ASSUME SpiTypeOK, soc.left > 0
  PROVE  [soc EXCEPT !.left = @ - 1]
            \in [left : 0 .. MaxSoc, wire : SUBSET Contents, heard : Contents]
<1>1. soc.left - 1 \in 0 .. MaxSoc
  BY SpiAssumption DEF SpiTypeOK
<1> QED
  BY <1>1 DEF SpiTypeOK

\* An acknowledgement takes only its own frame, or loses another of the same number.
LEMMA SocAcknowledgesSteps ==
  ASSUME SpiTypeOK, SocAcknowledges
  PROVE  /\ store' \in Store /\ fate' \in Fate
         /\ KeptUntilAcknowledged => KeptUntilAcknowledged'
<1> DEFINE c == soc.heard
           held == Holding(store, Id(c))
           ft == IF c.kind = "data" THEN [fate EXCEPT ![c.n] = "done"] ELSE fate
           x == IF First(held) = taken THEN tx ELSE store[First(held)].data
<1>1. store \in Store /\ fate \in Fate /\ ft \in Fate
  BY DEF SpiTypeOK, Store, Slot, Fate
<1>2. \A f \in Frames : ft[f] = "sent" => fate[f] = "sent"
  BY <1>1 DEF Fate
<1>3. /\ store' = IF held = {} THEN store ELSE Freed(store, First(held))
      /\ fate' = IF held = {} THEN ft ELSE Lost(ft, store', again, x)
      /\ UNCHANGED <<again, txTask, taken, job, tx>>
  BY DEF SocAcknowledges, Cleared, Transferred
<1> HIDE DEF ft, held, c
<1>4. CASE held = {}
  BY <1>1, <1>2, <1>3, <1>4 DEF KeptUntilAcknowledged, Held, InHand
<1>5. CASE held # {}
  <2> DEFINE k0 == First(held)
  <2>1. k0 \in 1 .. Slots /\ store[k0].full
    BY <1>5, HoldingSlot DEF held
  <2>2. /\ store' \in Store /\ ~store'[k0].full
        /\ \A j \in 1 .. Slots : store'[j].data = store[j].data
        /\ \A j \in 1 .. Slots \ {k0} : store'[j] = store[j]
    BY <1>1, <1>3, <1>5, <2>1, FreedType
  <2>3. fate' \in Fate /\ \A f \in Frames : fate'[f] = "sent" => fate[f] = "sent"
    BY <1>1, <1>2, <1>3, <1>5, LostType
  <2>t. taken \in 0 .. Slots
    BY DEF SpiTypeOK
  <2> HIDE DEF k0, x
  <2>4. ASSUME KeptUntilAcknowledged, NEW f \in Frames, fate'[f] = "sent"
        PROVE  Held(store', again, Data(f))
    <3>1. CASE x = Data(f)
      <4>1. Lost(ft, store', again, Data(f))[f] = "sent"
        BY <1>3, <1>5, <2>4, <3>1
      <4> QED
        BY <1>1, <4>1, LostLeavesHeld
    <3>2. CASE x # Data(f)
      <4>1. Held(store, again, Data(f))
        BY <2>3, <2>4 DEF KeptUntilAcknowledged
      <4>2. ASSUME NEW k \in 1 .. Slots, store[k].data = Data(f),
                   InHand(k, Data(f)) \/ (store[k].full /\ k # taken)
            PROVE  /\ store'[k].data = Data(f)
                   /\ InHand(k, Data(f)) \/ (store'[k].full /\ k # taken)
        <5>1. k = k0 => InHand(k, Data(f))
          BY <3>2, <4>2 DEF x, k0
        <5> QED
          BY <2>2, <4>2, <5>1
      <4>3. CASE taken # 0 /\ job # "rest" /\ tx = Data(f)
                 /\ (store[taken].full \/ InHand(taken, Data(f)))
        <5>1. taken # k0
          BY <3>2, <4>3 DEF x, k0
        <5>2. store'[taken] = store[taken]
          BY <2>2, <2>t, <4>3, <5>1
        <5> QED
          BY <4>3, <5>2 DEF Held
      <4> QED
        BY <4>1, <4>2, <4>3 DEF Held
    <3> QED
      BY <3>1, <3>2
  <2>5. \A f \in Frames : Held(store', again, Data(f)) <=> Held(store, again, Data(f))'
    BY <1>3 DEF Held, InHand, Data
  <2> QED
    BY <2>2, <2>3, <2>4, <2>5 DEF KeptUntilAcknowledged
<1> QED
  BY <1>4, <1>5

\* The interrupts keep the types.
LEMMA SoCType ==
  ASSUME SpiTypeOK, SoC
  PROVE  SpiTypeOK'
<1>0. soc \in [left : 0 .. MaxSoc, wire : SUBSET Contents, heard : Contents]
  BY DEF SpiTypeOK
<1>1. CASE SocAsks
  <2>1. event' \in Events \cup {"none"}
    BY <1>1 DEF SocAsks, Post, SpiTypeOK, Events
  <2> QED
    BY <1>1, <2>1 DEF SocAsks, SpiTypeOK, Due
<1>2. CASE SocIsIdle
  <2>1. /\ soc' \in [left : 0 .. MaxSoc, wire : SUBSET Contents, heard : Contents]
        /\ armed' \in BOOLEAN /\ waited' \in 0 .. LinkTimeout
    BY <1>0, <1>2, TransferredType DEF SocIsIdle
  <2>2. didDue' \in BOOLEAN /\ step' \in {"shake", "normal"}
    BY <1>2 DEF SocIsIdle, SpiTypeOK
  <2> QED
    BY <1>2, <2>1, <2>2 DEF SocIsIdle, Transferred, Overwritten, SpiTypeOK, Due
<1>3. CASE SocIsStrange
  <2>1. /\ soc' \in [left : 0 .. MaxSoc, wire : SUBSET Contents, heard : Contents]
        /\ armed' \in BOOLEAN /\ waited' \in 0 .. LinkTimeout
    BY <1>0, <1>3, TransferredType DEF SocIsStrange
  <2> QED
    BY <1>3, <2>1 DEF SocIsStrange, Transferred, Overwritten, SpiTypeOK, Due
<1>4. CASE SocShakes
  <2>1. /\ soc' \in [left : 0 .. MaxSoc, wire : SUBSET Contents, heard : Contents]
        /\ armed' \in BOOLEAN /\ waited' \in 0 .. LinkTimeout
    BY <1>4, OneLess, TransferredType DEF SocShakes
  <2>2. event' \in Events \cup {"none"}
        /\ step' \in {"shake", "normal"}
    BY <1>4 DEF SocShakes, Post, SpiTypeOK, Events
  <2> QED
    BY <1>4, <2>1, <2>2 DEF SocShakes, Transferred, Overwritten, SpiTypeOK, Due
<1>5. CASE SocAcknowledges
  <2>1. [soc EXCEPT !.heard = Blank]
            \in [left : 0 .. MaxSoc, wire : SUBSET Contents, heard : Contents]
    BY <1>0 DEF Contents
  <2>2. /\ soc' \in [left : 0 .. MaxSoc, wire : SUBSET Contents, heard : Contents]
        /\ armed' \in BOOLEAN /\ waited' \in 0 .. LinkTimeout
    BY <1>5, <2>1, TransferredType DEF SocAcknowledges
  <2>3. store' \in Store /\ fate' \in Fate
    BY <1>5, SocAcknowledgesSteps
  <2> QED
    BY <1>5, <2>2, <2>3 DEF SocAcknowledges, Transferred, Overwritten, SpiTypeOK, Due, Store, Slot, Fate
<1>6. CASE SocSends
  <2>1. /\ soc' \in [left : 0 .. MaxSoc, wire : SUBSET Contents, heard : Contents]
        /\ armed' \in BOOLEAN /\ waited' \in 0 .. LinkTimeout
    BY <1>6, OneLess, TransferredType DEF SocSends
  <2>2. /\ event' \in Events \cup {"none"}
        /\ called' \in {"none", "data", "gone"} /\ ack' \in BOOLEAN
    BY <1>6 DEF SocSends, Post, SpiTypeOK, Events
  <2> QED
    BY <1>6, <2>1, <2>2 DEF SocSends, Transferred, Overwritten, SpiTypeOK, Due
<1> QED
  BY <1>1, <1>2, <1>3, <1>4, <1>5, <1>6 DEF SoC

\* Every step keeps the types.
LEMMA SpiTypeKept == SpiTypeOK /\ [Next]_vars => SpiTypeOK'
<1> SUFFICES ASSUME SpiTypeOK, [Next]_vars PROVE SpiTypeOK'
  OBVIOUS
<1>1. CASE RX
  BY <1>1, RxTakeType, RxPackType, RxLabelType, RxOthersType DEF RX
<1>2. CASE TX
  BY <1>2, TxPostType, TxTimeType, TxFindType, TxLeaveType, TxCopyType, TxMeasureType, TxDoneType,
     TxReadType DEF TX
<1>3. CASE SoC
  BY <1>3, SoCType
<1>4. CASE UNCHANGED vars
  BY <1>4 DEF vars, SpiTypeOK, Due
<1> QED
  BY <1>1, <1>2, <1>3, <1>4 DEF Next

\* Every buffer and slot of the link holds a frame that was packed, TX copies from a slot
\* there is, and a frame waits no longer than its time: com_soc_fml.c, both tasks and
\* both interrupts, for any number of slots and frames.
THEOREM SpiTypeCorrect == Spec => []SpiTypeOK
<1> QED
  BY SpiTypeBegins, SpiTypeKept, PTL DEF Spec

-----------------------------------------------------------------------------
\* At first nothing has been sent.
LEMMA KeptBegins == Init => KeptUntilAcknowledged
  BY DEF Init, KeptUntilAcknowledged

\* A frame that leaves its slot is in TX's hands,
LEMMA TxLeaveKeeps ==
  ASSUME SpiTypeOK, KeptUntilAcknowledged, TxLeave \/ TxNumber
  PROVE  KeptUntilAcknowledged'
<1>1. PICK k0 \in 1 .. Slots : txTask.slot = k0
  BY DEF TxLeave, TxNumber, TxGo, SpiTypeOK
<1>2. /\ again' = again /\ fate' = fate /\ taken' = taken /\ taken = 0
      /\ txTask'.slot = k0 /\ txTask'.pc \in {"number", "copy"}
  BY <1>1 DEF TxLeave, TxNumber, KeepRx, TxGo, TxRuns, SpiTypeOK
<1>3. /\ \A j \in 1 .. Slots : store'[j].data = store[j].data
      /\ \A j \in 1 .. Slots \ {k0} : store'[j] = store[j]
  <2>1. store \in [1 .. Slots -> [full : BOOLEAN, id : Nat, data : Contents]]
    BY DEF SpiTypeOK
  <2>2. CASE TxLeave
    BY <1>1, <2>1, <2>2 DEF TxLeave
  <2>3. CASE TxNumber
    BY <1>1, <2>1, <2>3 DEF TxNumber
  <2> QED
    BY <2>2, <2>3
<1>4. \A j \in 1 .. Slots, f \in Frames : InHand(j, Data(f)) => j = k0
  BY <1>1 DEF InHand
<1>5. \A f \in Frames : InHand(k0, Data(f))'
  BY <1>2 DEF InHand, Data
<1> SUFFICES ASSUME NEW f \in Frames, fate[f] = "sent"
             PROVE  \/ \E k \in 1 .. Slots :
                          store'[k].data = Data(f) /\ (InHand(k, Data(f))' \/ store'[k].full)
                    \/ again.full /\ again.data = Data(f)
  BY <1>2, SpiAssumption DEF KeptUntilAcknowledged, Held
<1>6. Held(store, again, Data(f))
  BY DEF KeptUntilAcknowledged
<1>7. ASSUME NEW k \in 1 .. Slots, store[k].data = Data(f), InHand(k, Data(f)) \/ store[k].full
      PROVE  store'[k].data = Data(f) /\ (InHand(k, Data(f))' \/ store'[k].full)
  <2>1. CASE k = k0
    BY <1>3, <1>5, <1>7, <2>1
  <2>2. CASE k # k0
    <3>1. store'[k] = store[k] /\ ~InHand(k, Data(f))
      BY <1>3, <1>4, <2>2
    <3> QED
      BY <1>7, <3>1
  <2> QED
    BY <2>1, <2>2
<1> QED
  BY <1>2, <1>6, <1>7 DEF Held

\* and goes from there into the buffer for sending again, which it overwrites,
LEMMA TxCopyKeeps ==
  ASSUME SpiTypeOK, KeptUntilAcknowledged, TxCopy
  PROVE  KeptUntilAcknowledged'
<1> DEFINE c == store[txTask.slot].data
<1>1. /\ txTask.pc = "copy" /\ txTask'.slot = txTask.slot
      /\ store' = store /\ taken' = taken /\ taken = 0
      /\ again' = IF c = Blank THEN [again EXCEPT !.full = TRUE]
                  ELSE [again EXCEPT !.data = Cut(c.n)]
      /\ c # Blank => txTask'.pc = "copying"
      /\ fate' = IF again.full THEN Lost(fate, store, again', again.data) ELSE fate
  BY DEF TxCopy, TxGo, TxRuns, KeepRx, SpiTypeOK
<1>2. fate \in Fate /\ again \in Again
  BY DEF SpiTypeOK, Fate, Again
<1> SUFFICES ASSUME NEW f \in Frames, fate'[f] = "sent"
             PROVE  \/ \E k \in 1 .. Slots :
                          store[k].data = Data(f) /\ (InHand(k, Data(f))' \/ store[k].full)
                    \/ again'.full /\ again'.data = Data(f)
  BY <1>1, SpiAssumption DEF KeptUntilAcknowledged, Held
<1>3. fate[f] = "sent"
  BY <1>1, <1>2, LostType
<1>4. Data(f) # Blank /\ Data(f).n = f
  BY DEF Data, Blank
<1>5. ASSUME NEW k \in 1 .. Slots, store[k].data = Data(f), InHand(k, Data(f))
      PROVE  InHand(k, Data(f))'
  <2>1. c = Data(f) /\ txTask'.slot = k
    BY <1>1, <1>5 DEF InHand
  <2>2. txTask'.pc = "copying" /\ again'.data = Cut(f)
    BY <1>1, <1>2, <1>4, <2>1 DEF Again
  <2> QED
    BY <1>4, <2>1, <2>2 DEF InHand, Data
<1>6. CASE again.full /\ again.data = Data(f)
  <2>1. Lost(fate, store, again', Data(f))[f] = "sent"
    BY <1>1, <1>6
  <2>2. Held(store, again', Data(f))
    BY <1>2, <2>1, LostLeavesHeld
  <2> QED
    BY <1>1, <1>5, <2>2 DEF Held
<1>7. Held(store, again, Data(f))
  BY <1>3 DEF KeptUntilAcknowledged
<1> QED
  BY <1>1, <1>5, <1>6, <1>7 DEF Held

\* and is sent again from there when it has been copied to the end.
LEMMA TxCopiedKeeps ==
  ASSUME SpiTypeOK, KeptUntilAcknowledged, TxCopied
  PROVE  KeptUntilAcknowledged'
<1> DEFINE c == store[txTask.slot].data
<1>1. /\ txTask.pc = "copying" /\ store' = store /\ fate' = fate
      /\ taken' = taken /\ taken = 0
      /\ again' = [again EXCEPT !.full = TRUE,
                               !.data = IF again.data = Cut(c.n) THEN c ELSE again.data]
  BY DEF TxCopied, TxGo, TxRuns, KeepRx, SpiTypeOK
<1>2. again \in Again
  BY DEF SpiTypeOK, Again
<1> SUFFICES ASSUME NEW f \in Frames, fate[f] = "sent"
             PROVE  \/ \E k \in 1 .. Slots : store[k].data = Data(f) /\ store[k].full
                    \/ again'.full /\ again'.data = Data(f)
  BY <1>1, SpiAssumption DEF KeptUntilAcknowledged, Held
<1>3. ASSUME NEW k \in 1 .. Slots, store[k].data = Data(f), InHand(k, Data(f))
      PROVE  again'.full /\ again'.data = Data(f)
  <2>1. c = Data(f) /\ again.data = Cut(Data(f).n)
    BY <1>1, <1>3 DEF InHand
  <2> QED
    BY <1>1, <1>2, <2>1 DEF Again
<1>4. CASE again.full /\ again.data = Data(f)
  <2>1. again.data # Cut(c.n)
    BY <1>4 DEF Data, Cut
  <2> QED
    BY <1>1, <1>2, <1>4, <2>1 DEF Again
<1>5. Held(store, again, Data(f))
  BY DEF KeptUntilAcknowledged
<1> QED
  BY <1>1, <1>3, <1>4, <1>5 DEF Held

\* Every step keeps what was sent.
LEMMA SpiKeeps == SpiTypeOK /\ KeptUntilAcknowledged /\ [Next]_vars => KeptUntilAcknowledged'
<1> SUFFICES ASSUME SpiTypeOK, KeptUntilAcknowledged, [Next]_vars
             PROVE  KeptUntilAcknowledged'
  OBVIOUS
<1>0. ASSUME UNCHANGED <<store, again, taken, fate>>, job' = job \/ taken = 0,
             tx' = tx \/ taken = 0, \A k, c : InHand(k, c)' = InHand(k, c)
      PROVE  KeptUntilAcknowledged'
  BY <1>0 DEF KeptUntilAcknowledged, Held
<1>1. CASE RxPack
  BY <1>1, RxPackState
<1>2. CASE RxLabel
  BY <1>2, RxLabelSteps
<1>3. CASE RxTake \/ RxCallback \/ RxArm \/ RxGivesUp
  BY <1>0, <1>3 DEF RxTake, RxCallback, RxArm, RxGivesUp, RxGo, InHand, SpiTypeOK
<1>4. CASE TxLeave \/ TxNumber
  BY <1>4, TxLeaveKeeps
<1>5. CASE TxCopy \/ TxCopied
  BY <1>5, TxCopyKeeps, TxCopiedKeeps
<1>6. CASE TxLook \/ TxPeek \/ TxPost \/ TxTime \/ TxFind \/ TxDone \/ TxRead
  <2>1. \A k, c : ~InHand(k, c) /\ ~InHand(k, c)'
    BY <1>6 DEF TxLook, TxPeek, TxPost, TxTime, TxFind, TxDone, TxRead, TxGo, InHand, SpiTypeOK
  <2>2. /\ store' = store /\ again' = again /\ taken' = taken /\ fate' = fate
        /\ job' = job /\ tx' = tx
    BY <1>6 DEF TxLook, TxPeek, TxPost, TxTime, TxFind, TxDone, TxRead, KeepRx
  <2> QED
    BY <2>1, <2>2 DEF KeptUntilAcknowledged, Held
<1>7. CASE TxMeasure
  <2>1. \A k, c : ~InHand(k, c) /\ ~InHand(k, c)'
    BY <1>7 DEF TxMeasure, InHand
  <2>2. /\ UNCHANGED <<store, taken, fate, job, tx>>
        /\ again'.full = again.full /\ again'.data = again.data
    BY <1>7 DEF TxMeasure, KeepRx, SpiTypeOK
  <2> QED
    BY <2>1, <2>2 DEF KeptUntilAcknowledged, Held
<1>8. CASE SocAcknowledges
  BY <1>8, SocAcknowledgesSteps
<1>9. CASE SocAsks \/ SocIsIdle \/ SocIsStrange \/ SocShakes \/ SocSends
  <2>1. UNCHANGED <<store, again, taken, fate, job, tx, txTask>>
    BY <1>9 DEF SocAsks, SocIsIdle, SocIsStrange, SocShakes, SocSends, Transferred
  <2> QED
    BY <1>0, <2>1 DEF InHand
<1>10. CASE UNCHANGED vars
  BY <1>0, <1>10 DEF vars, InHand
<1> QED
  BY <1>1, <1>2, <1>3, <1>4, <1>5, <1>6, <1>7, <1>8, <1>9, <1>10 DEF Next, RX, TX, SoC

\* A frame of data that was sent stays in spiStoreSendData, in spiTimeoutBuffer or in the
\* hands of RX or TX between them until the SoC acknowledges it, however RX, TX and the interrupts
\* interleave, but for the named ways to lose one: com_soc_fml.c:264-287, 331-420, 560-573.
THEOREM SentFramesAreKept == Spec => []KeptUntilAcknowledged
<1> QED
  BY SpiTypeCorrect, KeptBegins, SpiKeeps, PTL DEF Spec

-----------------------------------------------------------------------------
\* What SocDataIsRead needs of the places in which RX can be.
LookedAt ==
    ~missed =>
              /\ rxTask # "wait" => ~armed
              /\ rxTask \in {"arm", "retry"} => called = "none"
              /\ armed => called = "none"
              /\ called # "gone"

\* Unless an event was missed, RX is awake only while no transfer is armed.
LEMMA LookedAtKeeps == SpiTypeOK /\ LookedAt /\ [Next]_vars => LookedAt'
<1> SUFFICES ASSUME SpiTypeOK, LookedAt, [Next]_vars PROVE LookedAt'
  OBVIOUS
<1> USE DEF LookedAt
<1>1. CASE RX
  BY <1>1 DEF RX, RxTake, RxPack, RxLabel, RxCallback, RxArm, RxGivesUp, RxGo, Overwritten, SpiTypeOK
<1>2. CASE TX
  BY <1>2 DEF TX, TxLook, TxPeek, TxPost, TxTime, TxFind, TxLeave, TxNumber,
             TxCopy, TxCopied, TxMeasure, TxDone, TxRead, KeepRx, SpiTypeOK
<1>3. CASE SoC
  BY <1>3 DEF SoC, SocAsks, SocIsIdle, SocIsStrange, SocShakes, SocAcknowledges, SocSends,
              Transferred, Overwritten, SpiTypeOK
<1>4. CASE UNCHANGED vars
  BY <1>4 DEF vars
<1> QED
  BY <1>1, <1>2, <1>3, <1>4 DEF Next

\* What the SoC sent is looked at before it is overwritten, unless RX missed an event:
\* spi_transfer_task_fml, com_soc_fml.c:1029-1054.
THEOREM SocDataLookedAt == Spec => []SocDataIsRead
<1>1. Init => LookedAt
  BY DEF Init, LookedAt
<1>2. LookedAt => SocDataIsRead
  BY DEF LookedAt, SocDataIsRead
<1> QED
  BY <1>1, <1>2, SpiTypeCorrect, LookedAtKeeps, PTL DEF Spec
=============================================================================
