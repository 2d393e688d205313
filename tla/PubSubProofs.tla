---------------------------- MODULE PubSubProofs ----------------------------
(***************************************************************************)
(* Proofs about the publish/subscribe bus (module PubSub), for every set   *)
(* of topics and subscribers, every length of the queues and every number  *)
(* of messages: the counts of references are exact, messages of one topic  *)
(* arrive in order, the sticky message is the latest, a subscriber that is *)
(* being freed is pushed nothing, and no dropped message is miscounted.    *)
(*                                                                         *)
(* The inductive invariant PSInv is the properties of the run and what     *)
(* they rest on: only published messages go round, whoever does not hold   *)
(* the lock has left no push undone, what is pushed is the latest message  *)
(* of its topic, and nobody is on a list twice.                            *)
(***************************************************************************)
EXTENDS PubSub, FiniteSetTheorems, SequenceTheorems, TLAPS

-----------------------------------------------------------------------------
(* The inductive invariant.                                                *)

Entries == [su : Subs, onEmpty : BOOLEAN]
Work == [su : Subs, msg : Msgs, onEmpty : BOOLEAN]

\* PSTypeOK but for the counts, which are natural numbers because they are exact.
Shapes ==
    /\ lists \in [Topics -> Seq(Entries)]
    /\ sticky \in [Topics -> Msgs \union {NoMsg}] /\ topics \subseteq Topics
    /\ queue \in [Subs -> Seq(Msgs)] /\ held \in [Subs -> Msgs \union {NoMsg}]
    /\ life \in [Subs -> {"none", "live", "leaving", "dead"}]
    /\ overflow \in [Subs -> Nat] /\ reading \in [Subs -> Nat \union {-1}]
    /\ owed \in [Subs -> Nat] /\ leaked \in [Msgs -> Nat]
    /\ sent \in Seq(Topics) /\ Len(sent) <= MaxMsgs
    /\ locked \in BOOLEAN /\ cur \in Published \union {NoMsg}
    /\ levels \in Seq(Topics) /\ work \in Seq(Work)

\* Only published messages go round.
OnlyPublished ==
    /\ \A t \in Topics : sticky[t] \in Published \union {NoMsg}
    /\ \A s \in Subs : held[s] \in Published \union {NoMsg}
    /\ \A s \in Subs : \A i \in 1 .. Len(queue[s]) : queue[s][i] \in Published
    /\ \A i \in 1 .. Len(work) : work[i].msg \in Published
    /\ \A m \in Msgs : leaked[m] # 0 => m \in Published

\* Without the lock nothing is being done; a publication is of the latest message.
LockHeld ==
    /\ ~locked => work = <<>> /\ levels = <<>> /\ cur = NoMsg
    /\ levels # <<>> => cur # NoMsg
    /\ cur # NoMsg => cur = Len(sent)

\* What is pushed is the latest message of its topic.
WorkIsLatest ==
    \A i \in 1 .. Len(work) : \A m \in Published :
        sent[m] = sent[work[i].msg] => m <= work[i].msg

\* What is pushed is referred to by the publisher or by a sticky slot meanwhile.
WorkHeld ==
    \A i \in 1 .. Len(work) :
        work[i].msg = cur \/ \E t \in Topics : sticky[t] = work[i].msg

\* Nobody is on a list twice.
ListedOnce ==
    \A t \in Topics : \A i, j \in 1 .. Len(lists[t]) :
        lists[t][i].su = lists[t][j].su => i = j

\* TopicInOrder, with the message the owner has got apart.
QueuesInOrder ==
    \A s \in Subs :
        /\ \A i, j \in 1 .. Len(queue[s]) :
             i < j /\ sent[queue[s][i]] = sent[queue[s][j]] => queue[s][i] <= queue[s][j]
        /\ held[s] # NoMsg => \A i \in 1 .. Len(queue[s]) :
             sent[held[s]] = sent[queue[s][i]] => held[s] <= queue[s][i]

\* What ps_overflow has read is not more than what is still counted.
ReadingIsOld == \A s \in Subs : reading[s] <= overflow[s]

\* Every message has finitely many holders, so that they can be counted.
FinitelyHeld ==
    /\ IsFiniteSet(topics)
    /\ \A m \in Msgs : IsFiniteSet(Places(m)) /\ IsFiniteSet(Readers(m))

Counts == ref \in [Msgs -> Nat] /\ FinitelyHeld /\ RefsExact

\* The invariant but for the counts of references.
Order ==
    /\ Shapes /\ OnlyPublished /\ LockHeld
    /\ WorkIsLatest /\ WorkHeld /\ StickyIsLatest /\ QueuesInOrder
    /\ ListedOnce /\ TopicsExact /\ FreedIsUnknown
    /\ ReadingIsOld /\ OverflowConserved

PSInv == Order /\ Counts

-----------------------------------------------------------------------------
(* What the helpers return.                                                *)

LEMMA EmptyIsSeq == ASSUME NEW S PROVE <<>> \in Seq(S) /\ Len(<<>>) = 0
BY EmptySeq

LEMMA NonEmpty == ASSUME NEW S, NEW q \in Seq(S), q # <<>> PROVE Len(q) \in Nat /\ 1 \in 1 .. Len(q)
BY EmptySeq

\* Head and Tail by index.
LEMMA TailBy ==
    ASSUME NEW S, NEW q \in Seq(S), q # <<>>
    PROVE  /\ Head(q) = q[1] /\ q[1] \in S /\ Tail(q) \in Seq(S)
           /\ Len(Tail(q)) = Len(q) - 1 /\ Len(q) \in Nat /\ Len(q) >= 1
           /\ \A i \in 1 .. Len(Tail(q)) : Tail(q)[i] = q[i + 1] /\ i + 1 \in 1 .. Len(q)
<1>1. Head(q) = q[1]
  OBVIOUS
<1>2. Len(q) \in Nat /\ 1 \in 1 .. Len(q)
  BY NonEmpty
<1>3. q[1] \in S
  BY <1>2, ElementOfSeq
<1>4. /\ Tail(q) \in Seq(S) /\ Len(Tail(q)) = Len(q) - 1
      /\ \A i \in 1 .. Len(Tail(q)) : Tail(q)[i] = q[i + 1]
  BY HeadTailProperties
<1> QED BY <1>1, <1>2, <1>3, <1>4

\* The pushes of a message go to the subscribers of the list, in its order.
LEMMA PushesOf ==
    ASSUME NEW l \in Seq(Entries), NEW m \in Msgs
    PROVE  /\ Pushes(l, m) \in Seq(Work) /\ Len(Pushes(l, m)) = Len(l) /\ Len(l) \in Nat
           /\ \A i \in 1 .. Len(l) : Pushes(l, m)[i].su = l[i].su /\ Pushes(l, m)[i].msg = m
<1>1. Len(l) \in Nat /\ \A i \in 1 .. Len(l) : l[i] \in Entries
  BY ElementOfSeq, LenProperties
<1> DEFINE F == [i \in 1 .. Len(l) |-> [su |-> l[i].su, msg |-> m, onEmpty |-> l[i].onEmpty]]
<1>2. F \in [1 .. Len(l) -> Work]
  BY <1>1 DEF Entries, Work
<1> HIDE DEF F
<1>3. F \in Seq(Work)
  BY <1>1, <1>2, SeqDef
<1>5. Len(F) = Len(l)
  BY <1>1, <1>2
<1>6. \A i \in 1 .. Len(l) : F[i].su = l[i].su /\ F[i].msg = m
  BY <1>1 DEF F
<1>4. Pushes(l, m) = F
  BY DEF Pushes, F
<1> QED BY <1>1, <1>3, <1>4, <1>5, <1>6

\* An unsubscription takes one entry of the subscriber off the list, which is
\* all of them when nobody is on it twice, and keeps the others.
LEMMA WithoutOf ==
    ASSUME NEW l \in Seq(Entries), NEW s,
           \A i, j \in 1 .. Len(l) : l[i].su = l[j].su => i = j
    PROVE  /\ Without(l, s) \in Seq(Entries) /\ ~InList(Without(l, s), s)
           /\ \A i, j \in 1 .. Len(Without(l, s)) :
                Without(l, s)[i].su = Without(l, s)[j].su => i = j
           /\ \A u : InList(Without(l, s), u) => InList(l, u)
<1>0. Len(l) \in Nat /\ \A i \in 1 .. Len(l) : l[i] \in Entries
  BY ElementOfSeq, LenProperties
<1>1. CASE ~InList(l, s)
  BY <1>1, Without(l, s) = l DEF Without
<1>2. CASE InList(l, s)
  <2> DEFINE k == CHOOSE i \in 1 .. Len(l) : l[i].su = s
             a == SubSeq(l, 1, k - 1)
             b == SubSeq(l, k + 1, Len(l))
             w == a \o b
  <2>1. k \in 1 .. Len(l) /\ l[k].su = s
    BY <1>2 DEF InList
  <2>2. Without(l, s) = w
    BY <1>2 DEF Without
  <2> HIDE DEF k
  <2>3. a \in Seq(Entries) /\ Len(a) = k - 1 /\ \A i \in 1 .. k - 1 : a[i] = l[i]
    <3>1. \A i \in 1 .. k - 1 : l[i] \in Entries
      BY <1>0, <2>1
    <3> QED BY <1>0, <2>1, <3>1, SubSeqProperties
  <2>4. b \in Seq(Entries) /\ Len(b) = Len(l) - k /\ \A i \in 1 .. Len(l) - k : b[i] = l[k + i]
    <3>1. \A i \in k + 1 .. Len(l) : l[i] \in Entries
      BY <1>0, <2>1
    <3> QED BY <1>0, <2>1, <3>1, SubSeqProperties
  <2> HIDE DEF a, b
  <2>5. /\ w \in Seq(Entries) /\ Len(w) = Len(l) - 1
        /\ \A i \in 1 .. Len(l) - 1 : w[i] = IF i < k THEN l[i] ELSE l[i + 1]
    <3>1. /\ w \in Seq(Entries) /\ Len(w) = Len(a) + Len(b)
          /\ \A i \in 1 .. Len(a) + Len(b) :
               w[i] = IF i <= Len(a) THEN a[i] ELSE b[i - Len(a)]
      BY <2>3, <2>4, ConcatProperties
    <3>2. \A i \in 1 .. Len(l) - 1 : w[i] = IF i < k THEN l[i] ELSE l[i + 1]
      <4> SUFFICES ASSUME NEW i \in 1 .. Len(l) - 1
                   PROVE  w[i] = IF i < k THEN l[i] ELSE l[i + 1]
        OBVIOUS
      <4>1. i \in 1 .. Len(a) + Len(b)
        BY <1>0, <2>1, <2>3, <2>4
      <4>2. CASE i < k
        BY <1>0, <2>1, <2>3, <2>4, <3>1, <4>1, <4>2
      <4>3. CASE ~(i < k)
        <5>1. i - Len(a) \in 1 .. Len(l) - k /\ k + (i - Len(a)) = i + 1 /\ ~(i <= Len(a))
          BY <1>0, <2>1, <2>3, <4>3
        <5>2. w[i] = b[i - Len(a)]
          BY <3>1, <4>1, <5>1
        <5>3. b[i - Len(a)] = l[k + (i - Len(a))]
          BY <2>4, <5>1
        <5> QED BY <4>3, <5>1, <5>2, <5>3
      <4> QED BY <4>2, <4>3
    <3> QED BY <1>0, <2>1, <2>3, <2>4, <3>1, <3>2
  <2> HIDE DEF w
  <2>6. \A i, j \in 1 .. Len(w) : w[i].su = w[j].su => i = j
    BY <1>0, <2>1, <2>5
  <2>7. ~InList(w, s)
    BY <1>0, <2>1, <2>5 DEF InList
  <2>8. \A u : InList(w, u) => InList(l, u)
    BY <1>0, <2>1, <2>5 DEF InList
  <2> QED BY <2>2, <2>5, <2>6, <2>7, <2>8
<1> QED BY <1>1, <1>2


-----------------------------------------------------------------------------
(* The order of messages and the life of subscribers: one lemma per action.*)

\* What depends on the map alone stays while nobody changes it.
LEMMA MapUnchanged ==
    ASSUME Order, UNCHANGED <<topicVars, sent>>
    PROVE  StickyIsLatest' /\ ListedOnce' /\ TopicsExact'
<1> USE DEF Order, topicVars
<1>1. StickyIsLatest'
  BY DEF StickyIsLatest, Published
<1>2. ListedOnce'
  BY DEF ListedOnce
<1>3. TopicsExact'
  BY DEF TopicsExact
<1> QED BY <1>1, <1>2, <1>3

\* So does what depends on the holder of the lock and the messages.
LEMMA LockUnchanged ==
    ASSUME Order, UNCHANGED <<lockVars, sent>>
    PROVE  LockHeld' /\ WorkIsLatest'
BY DEF Order, lockVars, LockHeld, WorkIsLatest, Published

LEMMA WorkHeldUnchanged ==
    ASSUME Order, UNCHANGED <<lockVars, sticky>>
    PROVE  WorkHeld'
BY DEF Order, lockVars, WorkHeld

\* A change of the sticky messages needs the lock, and then no push is left.
LEMMA WorkHeldLocked ==
    ASSUME Order, ~locked, work' = work
    PROVE  WorkHeld'
<1>1. work' = <<>> /\ Len(work') = 0
  BY EmptyIsSeq DEF Order, LockHeld
<1> QED BY <1>1 DEF WorkHeld

LEMMA CountsUnchanged ==
    ASSUME Order, UNCHANGED countVars
    PROVE  ReadingIsOld' /\ OverflowConserved'
BY DEF Order, countVars, ReadingIsOld, OverflowConserved

LEMMA QueuesUnchanged ==
    ASSUME Order, UNCHANGED <<queue, held, sent>>
    PROVE  QueuesInOrder'
BY DEF Order, QueuesInOrder

LEMMA UnlockOrder == ASSUME Order, Unlock PROVE Order'
<1> USE DEF Order, Unlock
<1>1. Shapes'
  BY DEF Shapes, topicVars, countVars, Published
<1>2. OnlyPublished'
  BY DEF OnlyPublished, topicVars, Published, countVars
<1>3. LockHeld'
  BY DEF LockHeld
<1>4. WorkIsLatest'
  BY DEF WorkIsLatest, Published
<1>5. FreedIsUnknown'
  BY DEF FreedIsUnknown, topicVars, InList
<1>6. WorkHeld'
  <2>1. Len(work') = 0
    BY EmptyIsSeq
  <2> QED BY <2>1 DEF WorkHeld
<1> QED BY <1>1, <1>2, <1>3, <1>4, <1>5, <1>6, MapUnchanged, CountsUnchanged, QueuesUnchanged

LEMMA NewOrder == ASSUME Order, NEW s \in Subs, New(s) PROVE Order'
<1> USE DEF Order, New
<1>1. Shapes'
  BY DEF Shapes, topicVars, countVars, lockVars, Published
<1>2. OnlyPublished'
  BY DEF OnlyPublished, topicVars, lockVars, Published, countVars
<1>3. FreedIsUnknown'
  BY DEF FreedIsUnknown, topicVars, lockVars, InList, Shapes
<1>4. WorkHeld'
  BY WorkHeldUnchanged DEF topicVars
<1> QED BY <1>1, <1>2, <1>3, <1>4, MapUnchanged, LockUnchanged, CountsUnchanged, QueuesUnchanged

LEMMA FreeEndOrder == ASSUME Order, NEW s \in Subs, FreeEnd(s) PROVE Order'
<1> USE DEF Order, FreeEnd
<1>1. Shapes'
  BY DEF Shapes, topicVars, countVars, lockVars, Published
<1>2. OnlyPublished'
  BY DEF OnlyPublished, topicVars, lockVars, Published, countVars
<1>3. FreedIsUnknown'
  BY DEF FreedIsUnknown, topicVars, lockVars, InList, Shapes
<1>4. WorkHeld'
  BY WorkHeldUnchanged DEF topicVars
<1> QED BY <1>1, <1>2, <1>3, <1>4, MapUnchanged, LockUnchanged, CountsUnchanged, QueuesUnchanged

LEMMA OverflowReadOrder == ASSUME Order, NEW s \in Subs, OverflowRead(s) PROVE Order'
<1> USE DEF Order, OverflowRead
<1>1. Shapes'
  BY DEF Shapes, topicVars, lockVars, Published
<1>2. OnlyPublished'
  BY DEF OnlyPublished, topicVars, lockVars, Published, countVars
<1>3. FreedIsUnknown'
  BY DEF FreedIsUnknown, topicVars, lockVars, InList
<1>4. ReadingIsOld'
  BY DEF ReadingIsOld, Shapes
<1>5. OverflowConserved'
  BY DEF OverflowConserved
<1>6. WorkHeld'
  BY WorkHeldUnchanged DEF topicVars
<1> QED BY <1>1, <1>2, <1>3, <1>4, <1>5, <1>6, MapUnchanged, LockUnchanged, QueuesUnchanged

\* What is subtracted from the counter is what has been read of it.
LEMMA OverflowResetOrder == ASSUME Order, NEW s \in Subs, OverflowReset(s) PROVE Order'
<1> USE DEF Order, OverflowReset
<1>0. overflow[s] \in Nat /\ reading[s] \in Nat /\ reading[s] <= overflow[s]
  BY DEF Shapes, ReadingIsOld
<1>1. Shapes'
  <2>1. overflow' \in [Subs -> Nat]
    BY <1>0 DEF Shapes
  <2>2. reading' \in [Subs -> Nat \union {-1}]
    BY DEF Shapes
  <2>3. owed' \in [Subs -> Nat]
    BY <1>0 DEF Shapes, OverflowConserved
  <2> QED BY <2>1, <2>2, <2>3 DEF Shapes, topicVars, lockVars, Published
<1>2. OnlyPublished'
  BY DEF OnlyPublished, topicVars, lockVars, Published, countVars
<1>3. FreedIsUnknown'
  BY DEF FreedIsUnknown, topicVars, lockVars, InList
<1>4. ReadingIsOld'
  BY <1>0 DEF ReadingIsOld, Shapes
<1>5. OverflowConserved'
  BY DEF OverflowConserved, Shapes
<1>6. WorkHeld'
  BY WorkHeldUnchanged DEF topicVars
<1> QED BY <1>1, <1>2, <1>3, <1>4, <1>5, <1>6, MapUnchanged, LockUnchanged, QueuesUnchanged

LEMMA GiveBackOrder == ASSUME Order, NEW s \in Subs, GiveBack(s) PROVE Order'
<1> USE DEF Order, GiveBack
<1>1. Shapes'
  BY DEF Shapes, topicVars, countVars, lockVars, Published
<1>2. OnlyPublished'
  BY DEF OnlyPublished, topicVars, lockVars, Published, Shapes, countVars
<1>3. FreedIsUnknown'
  BY DEF FreedIsUnknown, topicVars, lockVars, InList, Shapes
<1>4. QueuesInOrder'
  BY DEF QueuesInOrder, Shapes
<1>5. WorkHeld'
  BY WorkHeldUnchanged DEF topicVars
<1> QED BY <1>1, <1>2, <1>3, <1>4, <1>5, MapUnchanged, LockUnchanged, CountsUnchanged

\* The first message of the queue becomes the one the owner has got.
LEMMA GetOrder == ASSUME Order, NEW s \in Subs, Get(s) PROVE Order'
<1> USE DEF Order, Get
<1> DEFINE q == queue[s]
<1>0. q \in Seq(Msgs) /\ q # <<>>
  BY DEF Shapes
<1>1. /\ Head(q) = q[1] /\ q[1] \in Msgs /\ Tail(q) \in Seq(Msgs)
      /\ Len(Tail(q)) = Len(q) - 1 /\ Len(q) \in Nat /\ Len(q) >= 1
      /\ \A i \in 1 .. Len(Tail(q)) : Tail(q)[i] = q[i + 1] /\ i + 1 \in 1 .. Len(q)
  BY <1>0, TailBy
<1>2. /\ queue'[s] = Tail(q) /\ held'[s] = q[1]
      /\ \A u \in Subs \ {s} : queue'[u] = queue[u] /\ held'[u] = held[u]
      /\ sent' = sent
  BY <1>1 DEF Shapes
<1>3. Shapes'
  <2>1. queue' \in [Subs -> Seq(Msgs)]
    BY <1>1 DEF Shapes
  <2>2. held' \in [Subs -> Msgs \union {NoMsg}]
    BY <1>1 DEF Shapes
  <2> QED BY <2>1, <2>2 DEF Shapes, topicVars, countVars, lockVars, Published
<1>4. OnlyPublished'
  <2>0. q[1] \in Published
    <3>1. 1 \in 1 .. Len(q)
      BY <1>1
    <3> QED BY <3>1 DEF OnlyPublished
  <2>1. \A u \in Subs : held'[u] \in Published \union {NoMsg}
    BY <1>2, <2>0 DEF OnlyPublished
  <2>2. \A u \in Subs : \A i \in 1 .. Len(queue'[u]) : queue'[u][i] \in Published
    BY <1>1, <1>2 DEF OnlyPublished
  <2> QED BY <2>1, <2>2 DEF OnlyPublished, topicVars, lockVars, Published, countVars
<1>5. FreedIsUnknown'
  BY <1>2 DEF FreedIsUnknown, topicVars, lockVars, InList
<1>6. QueuesInOrder'
  <2> SUFFICES ASSUME NEW u \in Subs
               PROVE /\ \A i, j \in 1 .. Len(queue'[u]) :
                          i < j /\ sent[queue'[u][i]] = sent[queue'[u][j]]
                            => queue'[u][i] <= queue'[u][j]
                     /\ held'[u] # NoMsg => \A i \in 1 .. Len(queue'[u]) :
                          sent[held'[u]] = sent[queue'[u][i]] => held'[u] <= queue'[u][i]
    BY <1>2 DEF QueuesInOrder
  <2>1. CASE u = s
    <3>1. /\ \A i, j \in 1 .. Len(q) : i < j /\ sent[q[i]] = sent[q[j]] => q[i] <= q[j]
          /\ 1 \in 1 .. Len(q)
      BY <1>1 DEF QueuesInOrder
    <3>2. queue'[u] = Tail(q) /\ held'[u] = q[1]
      BY <1>2, <2>1
    <3> HIDE DEF q, Get, Order
    <3> QED BY <1>1, <3>1, <3>2
  <2>2. CASE u # s
    BY <1>2, <2>2 DEF QueuesInOrder
  <2> QED BY <2>1, <2>2
<1>7. WorkHeld'
  BY WorkHeldUnchanged DEF topicVars
<1> QED BY <1>3, <1>4, <1>5, <1>6, <1>7, MapUnchanged, LockUnchanged, CountsUnchanged


\* A message that is flushed leaves the queue; what is behind it moves up.
LEMMA FlushOrder == ASSUME Order, NEW s \in Subs, Flush(s) PROVE Order'
<1> USE DEF Order, Flush
<1> DEFINE q == queue[s]
<1>0. q \in Seq(Msgs) /\ q # <<>>
  BY DEF Shapes
<1>1. /\ Tail(q) \in Seq(Msgs) /\ Len(Tail(q)) = Len(q) - 1 /\ Len(q) \in Nat
      /\ \A i \in 1 .. Len(Tail(q)) : Tail(q)[i] = q[i + 1] /\ i + 1 \in 1 .. Len(q)
  BY <1>0, TailBy
<1>2. /\ queue'[s] = Tail(q) /\ \A u \in Subs \ {s} : queue'[u] = queue[u]
      /\ UNCHANGED <<held, sent>>
  BY <1>1 DEF Shapes
<1>3. Shapes'
  <2>1. queue' \in [Subs -> Seq(Msgs)]
    BY <1>1 DEF Shapes
  <2> QED BY <2>1 DEF Shapes, topicVars, countVars, lockVars, Published
<1>4. OnlyPublished'
  <2>1. \A u \in Subs : \A i \in 1 .. Len(queue'[u]) : queue'[u][i] \in Published
    BY <1>1, <1>2 DEF OnlyPublished
  <2> QED BY <2>1 DEF OnlyPublished, topicVars, lockVars, countVars, Published
<1>5. FreedIsUnknown'
  <2>1. life[s] \in {"live", "leaving"}
    OBVIOUS
  <2> QED BY <1>2, <2>1 DEF FreedIsUnknown, topicVars, lockVars, InList
<1>6. QueuesInOrder'
  <2> SUFFICES ASSUME NEW u \in Subs
               PROVE /\ \A i, j \in 1 .. Len(queue'[u]) :
                          i < j /\ sent[queue'[u][i]] = sent[queue'[u][j]]
                            => queue'[u][i] <= queue'[u][j]
                     /\ held[u] # NoMsg => \A i \in 1 .. Len(queue'[u]) :
                          sent[held[u]] = sent[queue'[u][i]] => held[u] <= queue'[u][i]
    BY <1>2 DEF QueuesInOrder
  <2>1. CASE u = s
    <3>1. /\ \A i, j \in 1 .. Len(q) : i < j /\ sent[q[i]] = sent[q[j]] => q[i] <= q[j]
          /\ held[u] # NoMsg => \A i \in 1 .. Len(q) : sent[held[u]] = sent[q[i]] => held[u] <= q[i]
      BY <2>1 DEF QueuesInOrder
    <3>2. queue'[u] = Tail(q)
      BY <1>2, <2>1
    <3> HIDE DEF q, Flush, Order
    <3> QED BY <1>1, <3>1, <3>2
  <2>2. CASE u # s
    BY <1>2, <2>2 DEF QueuesInOrder
  <2> QED BY <2>1, <2>2
<1>7. WorkHeld'
  BY WorkHeldUnchanged DEF topicVars
<1> QED BY <1>3, <1>4, <1>5, <1>6, <1>7, MapUnchanged, LockUnchanged, CountsUnchanged

\* An owner that forgets a message leaves everything else as it is.
LEMMA ForgetOrder == ASSUME Order, NEW s \in Subs, Forget(s) PROVE Order'
<1> USE DEF Order, Forget
<1>0. held[s] \in Msgs /\ leaked[held[s]] \in Nat /\ held[s] \in Published
  BY DEF Shapes, OnlyPublished
<1>1. Shapes'
  <2>1. leaked' \in [Msgs -> Nat]
    BY <1>0 DEF Shapes
  <2>2. held' \in [Subs -> Msgs \union {NoMsg}]
    BY DEF Shapes
  <2> QED BY <2>1, <2>2 DEF Shapes, topicVars, lockVars, Published
<1>2. OnlyPublished'
  <2>1. \A m \in Msgs : leaked'[m] # 0 => m \in Published
    BY <1>0 DEF OnlyPublished, Shapes
  <2>2. \A u \in Subs : held'[u] \in Published \union {NoMsg}
    BY DEF OnlyPublished, Shapes
  <2> QED BY <2>1, <2>2 DEF OnlyPublished, topicVars, lockVars, Published
<1>3. FreedIsUnknown'
  BY DEF FreedIsUnknown, topicVars, lockVars, InList
<1>4. QueuesInOrder'
  BY DEF QueuesInOrder, Shapes
<1>5. WorkHeld'
  BY WorkHeldUnchanged DEF topicVars
<1>6. ReadingIsOld' /\ OverflowConserved'
  BY DEF ReadingIsOld, OverflowConserved
<1> QED BY <1>1, <1>2, <1>3, <1>4, <1>5, <1>6, MapUnchanged, LockUnchanged

\* The next push: to a queue that is full it is counted, to another it is appended.
LEMMA PushNextOrder == ASSUME Order, PushNext PROVE Order'
<1> USE DEF Order
<1> DEFINE e == Head(work)
           v == e.su
<1>1. /\ e = work[1] /\ e \in Work /\ Tail(work) \in Seq(Work) /\ work' = Tail(work)
      /\ Len(Tail(work)) = Len(work) - 1 /\ Len(work) \in Nat /\ 1 \in 1 .. Len(work)
      /\ \A i \in 1 .. Len(Tail(work)) : Tail(work)[i] = work[i + 1] /\ i + 1 \in 1 .. Len(work)
  BY TailBy DEF PushNext, Shapes
<1>2. v \in Subs /\ e.msg \in Msgs /\ life[v] = "live" /\ e.msg \in Published
  BY <1>1 DEF Work, Shapes, FreedIsUnknown, OnlyPublished
<1>3. queue[v] \in Seq(Msgs) /\ overflow[v] \in Nat /\ owed[v] \in Nat
  BY <1>2 DEF Shapes
<1>4. /\ UNCHANGED <<topicVars, held, life, locked, cur, levels, sent, reading, leaked>>
      /\ \/ UNCHANGED <<queue, overflow, owed>>
         \/ /\ overflow' = [overflow EXCEPT ![v] = @ + 1]
            /\ owed' = [owed EXCEPT ![v] = @ + 1] /\ UNCHANGED queue
         \/ /\ queue' = [queue EXCEPT ![v] = Append(@, e.msg)]
            /\ UNCHANGED <<overflow, owed>>
  BY DEF PushNext, PushOne
<1> HIDE DEF e, v
<1>5. /\ Append(queue[v], e.msg) \in Seq(Msgs) /\ Len(queue[v]) \in Nat
      /\ Len(Append(queue[v], e.msg)) = Len(queue[v]) + 1
      /\ \A i \in 1 .. Len(queue[v]) : Append(queue[v], e.msg)[i] = queue[v][i]
      /\ Append(queue[v], e.msg)[Len(queue[v]) + 1] = e.msg
  BY <1>2, <1>3, AppendProperties, LenProperties
<1>6. \/ UNCHANGED queue
      \/ /\ queue'[v] = Append(queue[v], e.msg)
         /\ \A u \in Subs \ {v} : queue'[u] = queue[u]
  BY <1>2, <1>4 DEF Shapes
<1>7. Shapes'
  <2>1. queue' \in [Subs -> Seq(Msgs)]
    BY <1>2, <1>4, <1>5 DEF Shapes
  <2>2. overflow' \in [Subs -> Nat]
    <3>1. overflow' = overflow \/ overflow' = [overflow EXCEPT ![v] = overflow[v] + 1]
      BY <1>4
    <3>2. overflow \in [Subs -> Nat] /\ overflow[v] + 1 \in Nat
      BY <1>3 DEF Shapes
    <3> QED BY <3>1, <3>2
  <2>4. owed' \in [Subs -> Nat]
    <3>1. owed' = owed \/ owed' = [owed EXCEPT ![v] = owed[v] + 1]
      BY <1>4
    <3>2. owed \in [Subs -> Nat] /\ owed[v] + 1 \in Nat
      BY <1>3 DEF Shapes
    <3> QED BY <3>1, <3>2
  <2>3. work' \in Seq(Work)
    BY <1>1
  <2> QED BY <1>4, <2>1, <2>2, <2>3, <2>4 DEF Shapes, topicVars, Published
<1>8. OnlyPublished'
  <2>1. \A u \in Subs : \A i \in 1 .. Len(queue'[u]) : queue'[u][i] \in Published
    <3> SUFFICES ASSUME NEW u \in Subs, NEW i \in 1 .. Len(queue'[u])
                 PROVE  queue'[u][i] \in Published
      OBVIOUS
    <3>1. CASE queue'[u] = queue[u]
      BY <3>1 DEF OnlyPublished
    <3>2. CASE u = v /\ queue'[v] = Append(queue[v], e.msg)
      <4>1. CASE i = Len(queue[v]) + 1
        BY <1>2, <1>5, <3>2, <4>1
      <4>2. CASE i # Len(queue[v]) + 1
        <5>1. i \in 1 .. Len(queue[v])
          BY <1>5, <3>2, <4>2
        <5> QED BY <1>2, <1>5, <3>2, <5>1 DEF OnlyPublished
      <4> QED BY <4>1, <4>2
    <3> QED BY <1>6, <3>1, <3>2
  <2>2. \A i \in 1 .. Len(work') : work'[i].msg \in Published
    BY <1>1 DEF OnlyPublished
  <2> QED BY <1>4, <2>1, <2>2 DEF OnlyPublished, topicVars, Published, countVars
<1>9. LockHeld'
  BY <1>4 DEF LockHeld, PushNext
<1>10. WorkIsLatest'
  BY <1>1, <1>4 DEF WorkIsLatest, Published
<1>11. FreedIsUnknown'
  <2>1. \A u \in Subs : life[u] # "live" =>
          /\ queue'[u] = queue[u] /\ \A i \in 1 .. Len(work') : work'[i].su # u
    BY <1>1, <1>2, <1>6 DEF FreedIsUnknown
  <2> QED BY <1>4, <2>1 DEF FreedIsUnknown, topicVars, InList
<1>12. QueuesInOrder'
  <2>1. \A m \in Published : sent[m] = sent[e.msg] => m <= e.msg
    BY <1>1 DEF WorkIsLatest
  <2> SUFFICES ASSUME NEW u \in Subs
               PROVE /\ \A i, j \in 1 .. Len(queue'[u]) :
                          i < j /\ sent[queue'[u][i]] = sent[queue'[u][j]]
                            => queue'[u][i] <= queue'[u][j]
                     /\ held[u] # NoMsg => \A i \in 1 .. Len(queue'[u]) :
                          sent[held[u]] = sent[queue'[u][i]] => held[u] <= queue'[u][i]
    BY <1>4 DEF QueuesInOrder
  <2>2. CASE queue'[u] = queue[u]
    BY <2>2 DEF QueuesInOrder
  <2>3. CASE u = v /\ queue'[v] = Append(queue[v], e.msg)
    <3> DEFINE q == queue[v]
               n == Len(queue[v])
               r == queue'[v]
    <3>1. /\ n \in Nat /\ Len(r) = n + 1 /\ r[n + 1] = e.msg /\ \A i \in 1 .. n : r[i] = q[i]
      BY <1>5, <2>3
    <3>2. \A i \in 1 .. n : q[i] \in Published
      BY <1>2 DEF OnlyPublished
    <3>3. /\ \A i, j \in 1 .. n : i < j /\ sent[q[i]] = sent[q[j]] => q[i] <= q[j]
          /\ held[v] # NoMsg => held[v] \in Published
          /\ held[v] # NoMsg => \A i \in 1 .. n : sent[held[v]] = sent[q[i]] => held[v] <= q[i]
      BY <1>2 DEF QueuesInOrder, OnlyPublished
    <3> HIDE DEF q, n, r
    <3>4. \A i, j \in 1 .. Len(r) : i < j /\ sent[r[i]] = sent[r[j]] => r[i] <= r[j]
      <4> SUFFICES ASSUME NEW i \in 1 .. n + 1, NEW j \in 1 .. n + 1,
                          i < j, sent[r[i]] = sent[r[j]]
                   PROVE  r[i] <= r[j]
        BY <3>1
      <4>1. i \in 1 .. n
        BY <3>1
      <4>2. CASE j = n + 1
        BY <2>1, <3>1, <3>2, <4>1, <4>2
      <4>3. CASE j # n + 1
        <5>1. j \in 1 .. n
          BY <3>1, <4>3
        <5> QED BY <3>1, <3>3, <4>1, <5>1
      <4> QED BY <4>2, <4>3
    <3>5. ASSUME held[v] # NoMsg, NEW i \in 1 .. Len(r), sent[held[v]] = sent[r[i]]
          PROVE  held[v] <= r[i]
      <4>1. CASE i = n + 1
        BY <2>1, <3>1, <3>3, <3>5, <4>1
      <4>2. CASE i # n + 1
        <5>1. i \in 1 .. n
          BY <3>1, <3>5, <4>2
        <5> QED BY <3>1, <3>3, <3>5, <5>1
      <4> QED BY <4>1, <4>2
    <3> QED BY <2>3, <3>4, <3>5 DEF r
  <2> QED BY <1>6, <2>2, <2>3
<1>13. ReadingIsOld'
  <2> SUFFICES ASSUME NEW u \in Subs PROVE reading[u] <= overflow'[u]
    BY <1>4 DEF ReadingIsOld
  <2>1. reading[u] <= overflow[u] /\ reading[u] \in Int /\ overflow[u] \in Nat
    BY DEF ReadingIsOld, Shapes
  <2>2. overflow'[u] = overflow[u] \/ overflow'[u] = overflow[u] + 1
    BY <1>2, <1>4 DEF Shapes
  <2> QED BY <2>1, <2>2
<1>14. OverflowConserved'
  BY <1>2, <1>4 DEF OverflowConserved, Shapes
<1>15. StickyIsLatest' /\ ListedOnce' /\ TopicsExact'
  BY <1>4, MapUnchanged
<1>16. WorkHeld'
  <2>1. \A i \in 1 .. Len(work') : work'[i].msg = cur \/ \E t \in Topics : sticky[t] = work'[i].msg
    BY <1>1 DEF WorkHeld
  <2> QED BY <1>4, <2>1 DEF WorkHeld, topicVars
<1> QED BY <1>7, <1>8, <1>9, <1>10, <1>11, <1>12, <1>13, <1>14, <1>15, <1>16

\* The publication goes on with the subscribers of the next prefix.
LEMMA NextLevelOrder == ASSUME Order, NextLevel PROVE Order'
<1> USE DEF Order, NextLevel
<1> DEFINE p == Head(levels)
<1>0. p \in Topics /\ Tail(levels) \in Seq(Topics)
  BY TailBy DEF Shapes
<1>1. cur \in Published /\ cur = Len(sent) /\ cur \in Msgs /\ lists[p] \in Seq(Entries)
  BY <1>0, PubSubAssumption DEF LockHeld, Shapes, Published, Msgs
<1>2. /\ work' \in Seq(Work) /\ Len(work') = Len(lists[p]) /\ Len(lists[p]) \in Nat
      /\ \A i \in 1 .. Len(lists[p]) : work'[i].su = lists[p][i].su /\ work'[i].msg = cur
  BY <1>1, PushesOf
<1> HIDE DEF p
<1>3. Shapes'
  BY <1>0, <1>2 DEF Shapes, topicVars, countVars, Published, p
<1>4. OnlyPublished'
  BY <1>1, <1>2 DEF OnlyPublished, topicVars, Published, countVars
<1>5. LockHeld'
  BY <1>1, PubSubAssumption DEF LockHeld, Published
<1>6. WorkIsLatest'
  BY <1>1, <1>2 DEF WorkIsLatest, Published, Shapes
<1>7. FreedIsUnknown'
  <2>1. \A u \in Subs : life[u] # "live" => \A i \in 1 .. Len(work') : work'[i].su # u
    BY <1>0, <1>2 DEF FreedIsUnknown, InList, p
  <2> QED BY <2>1 DEF FreedIsUnknown, topicVars, InList
<1>8. WorkHeld'
  BY <1>2 DEF WorkHeld
<1> QED BY <1>3, <1>4, <1>5, <1>6, <1>7, <1>8, MapUnchanged, CountsUnchanged, QueuesUnchanged


\* A publication: its message is the latest there is, and what was published before
\* keeps its topic.
LEMMA PublishOrder ==
    ASSUME Order, NEW t \in Topics, NEW k \in BOOLEAN, NEW r \in BOOLEAN, Publish(t, k, r)
    PROVE  Order'
<1> USE DEF Order
<1> DEFINE m == Len(sent) + 1
<1>1. /\ sent' = Append(sent, t) /\ cur' = m /\ locked' = TRUE
      /\ sticky' = [sticky EXCEPT ![t] = IF k THEN m ELSE NoMsg]
      /\ topics' = IF k THEN topics \union {t} ELSE TopicsLeft(topics, lists, sticky')
      /\ work' = Pushes(lists[t], m)
      /\ levels' = IF r THEN Tail(Levels[t]) ELSE <<>>
      /\ UNCHANGED <<lists, queue, held, life, countVars>>
      /\ Len(sent) < MaxMsgs /\ ~locked
  BY DEF Publish, StickyAfter
<1>2. /\ sent' \in Seq(Topics) /\ Len(sent') = m /\ Len(sent) \in Nat
      /\ \A i \in 1 .. Len(sent) : sent'[i] = sent[i]
      /\ sent'[m] = t
  BY <1>1, AppendProperties, LenProperties DEF Shapes
<1> HIDE DEF m
<1>3. /\ m = Len(sent) + 1 /\ m \in Msgs /\ m # NoMsg /\ NoMsg = 0
      /\ Published' = Published \union {m} /\ m \notin Published
      /\ \A i \in Published : i \in Nat /\ i # NoMsg /\ i < m /\ sent'[i] = sent[i]
  <2>1. m = Len(sent) + 1 /\ MaxMsgs \in Nat /\ NoMsg = 0 /\ Len(sent) < MaxMsgs
    BY <1>1, PubSubAssumption DEF m
  <2>2. Published = 1 .. Len(sent) /\ Published' = 1 .. m
    BY <1>2 DEF Published
  <2>3. m \in Msgs /\ m # NoMsg
    BY <1>2, <2>1 DEF Msgs
  <2>4. Published' = Published \union {m} /\ m \notin Published
    BY <1>2, <2>1, <2>2
  <2>5. \A i \in Published : i \in Nat /\ i # NoMsg /\ i < m /\ sent'[i] = sent[i]
    BY <1>2, <2>1, <2>2
  <2> QED BY <2>1, <2>3, <2>4, <2>5
<1>4. lists[t] \in Seq(Entries)
  BY DEF Shapes
<1>5. /\ work' \in Seq(Work) /\ Len(work') = Len(lists[t]) /\ Len(lists[t]) \in Nat
      /\ \A i \in 1 .. Len(lists[t]) : work'[i].su = lists[t][i].su /\ work'[i].msg = m
  BY <1>1, <1>3, <1>4, PushesOf
<1>6. /\ sticky'[t] = (IF k THEN m ELSE NoMsg)
      /\ \A u \in Topics \ {t} : sticky'[u] = sticky[u]
  BY <1>1 DEF Shapes
<1>7. Shapes'
  <2>1. sticky' \in [Topics -> Msgs \union {NoMsg}]
    BY <1>1, <1>3 DEF Shapes
  <2>2. topics' \subseteq Topics
    BY <1>1 DEF Shapes, TopicsLeft
  <2>3. levels' \in Seq(Topics)
    <3>1. Levels[t] \in Seq(Topics) /\ Levels[t] # <<>>
      BY PubSubAssumption, EmptyIsSeq
    <3>2. Tail(Levels[t]) \in Seq(Topics) /\ <<>> \in Seq(Topics)
      BY <3>1, TailBy, EmptyIsSeq
    <3> QED BY <1>1, <3>2
  <2>4. cur' \in Published' \union {NoMsg} /\ Len(sent') <= MaxMsgs
    BY <1>1, <1>2, <1>3, PubSubAssumption DEF Msgs
  <2> QED BY <1>1, <1>2, <1>5, <2>1, <2>2, <2>3, <2>4 DEF Shapes, countVars
<1>8. OnlyPublished'
  <2>1. \A u \in Topics : sticky'[u] \in Published' \union {NoMsg}
    BY <1>3, <1>6 DEF OnlyPublished
  <2>2. \A i \in 1 .. Len(work') : work'[i].msg \in Published'
    BY <1>3, <1>5
  <2>3. \A s \in Subs : held[s] \in Published' \union {NoMsg}
    BY <1>3 DEF OnlyPublished
  <2>4. \A s \in Subs : \A i \in 1 .. Len(queue[s]) : queue[s][i] \in Published'
    BY <1>3 DEF OnlyPublished
  <2>5. \A i \in Msgs : leaked'[i] # 0 => i \in Published'
    BY <1>1, <1>3 DEF OnlyPublished, countVars
  <2> QED BY <1>1, <2>1, <2>2, <2>3, <2>4, <2>5 DEF OnlyPublished
<1>9. LockHeld'
  BY <1>1, <1>2, <1>3 DEF LockHeld
<1>10. WorkIsLatest'
  BY <1>3, <1>5 DEF WorkIsLatest
<1>11. StickyIsLatest'
  <2> SUFFICES ASSUME NEW u \in Topics, sticky'[u] # NoMsg
               PROVE sent'[sticky'[u]] = u /\ \A i \in Published' : sent'[i] = u => i <= sticky'[u]
    BY DEF StickyIsLatest
  <2>1. CASE u = t
    BY <1>2, <1>3, <1>6, <2>1
  <2>2. CASE u # t
    <3>1. sticky'[u] = sticky[u] /\ sticky[u] \in Published
      BY <1>6, <2>2 DEF OnlyPublished
    <3>2. sent[sticky[u]] = u /\ \A i \in Published : sent[i] = u => i <= sticky[u]
      BY <3>1 DEF StickyIsLatest
    <3> QED BY <1>2, <1>3, <2>2, <3>1, <3>2
  <2> QED BY <2>1, <2>2
<1>12. QueuesInOrder'
  <2> SUFFICES ASSUME NEW u \in Subs
               PROVE /\ \A i, j \in 1 .. Len(queue[u]) :
                          i < j /\ sent'[queue[u][i]] = sent'[queue[u][j]]
                            => queue[u][i] <= queue[u][j]
                     /\ held[u] # NoMsg => \A i \in 1 .. Len(queue[u]) :
                          sent'[held[u]] = sent'[queue[u][i]] => held[u] <= queue[u][i]
    BY <1>1 DEF QueuesInOrder
  <2>1. /\ \A i \in 1 .. Len(queue[u]) :
             queue[u][i] \in Published /\ sent'[queue[u][i]] = sent[queue[u][i]]
        /\ held[u] # NoMsg => sent'[held[u]] = sent[held[u]]
    BY <1>3 DEF OnlyPublished
  <2> QED BY <2>1 DEF QueuesInOrder
<1>13. ListedOnce'
  BY <1>1 DEF ListedOnce
<1>14. TopicsExact'
  BY <1>1, <1>3, <1>6 DEF TopicsExact, TopicsLeft
<1>15. FreedIsUnknown'
  <2>1. \A u \in Subs : life[u] # "live" => \A i \in 1 .. Len(work') : work'[i].su # u
    BY <1>5 DEF FreedIsUnknown, InList
  <2> QED BY <1>1, <2>1 DEF FreedIsUnknown, InList
<1>16. WorkHeld'
  BY <1>1, <1>5 DEF WorkHeld
<1> QED BY <1>1, <1>7, <1>8, <1>9, <1>10, <1>11, <1>12, <1>13, <1>14, <1>15, <1>16, CountsUnchanged

\* The sticky messages a new subscriber is sent are the latest of their topics.
LEMMA SubscribeOrder ==
    ASSUME Order, IsFiniteSet(topics), NEW s \in Subs, NEW t \in Topics,
           NEW f \in SubFlags[s][t], Subscribe(s, t, f)
    PROVE  Order'
<1> USE DEF Order
<1>1. /\ ~locked /\ Owner(s) /\ ~InList(lists[t], s)
      /\ lists' = [lists EXCEPT ![t] = Append(@, [su |-> s, onEmpty |-> f.onEmpty])]
      /\ topics' = topics \union {t} /\ locked' = TRUE
      /\ UNCHANGED <<sticky, queue, held, life, ref, cur, levels, sent, countVars>>
  BY DEF Subscribe
<1> DEFINE R == Replay(t, f)
           n == Cardinality(R)
           x == [su |-> s, onEmpty |-> f.onEmpty]
           l == lists[t]
<1>2. PICK order \in [1 .. n -> R] :
          work' = [i \in DOMAIN order |->
                     [su |-> s, msg |-> sticky[order[i]], onEmpty |-> FALSE]]
  BY DEF Subscribe
<1>3. n \in Nat
  <2>1. R \in SUBSET topics
    BY DEF Replay
  <2> QED BY <2>1, FS_Subset, FS_CardinalityType
<1>4. \A p \in R : p \in Topics /\ sticky[p] # NoMsg /\ sticky[p] \in Msgs
  BY DEF Replay, Shapes
<1> HIDE DEF R, n
<1>5. /\ work' \in Seq(Work) /\ Len(work') = n
      /\ \A i \in 1 .. n : work'[i].su = s /\ work'[i].msg = sticky[order[i]] /\ order[i] \in R
  <2> DEFINE w == [i \in 1 .. n |-> [su |-> s, msg |-> sticky[order[i]], onEmpty |-> FALSE]]
  <2>1. w \in [1 .. n -> Work]
    BY <1>4 DEF Work
  <2>2. work' = w
    BY <1>2
  <2> HIDE DEF w
  <2>3. w \in Seq(Work) /\ Len(w) = n
    <3>1. w \in Seq(Work)
      BY <1>3, <2>1, SeqDef
    <3>2. Len(w) = n
      BY <1>3, <2>1
    <3> QED BY <3>1, <3>2
  <2>4. \A i \in 1 .. n : w[i].su = s /\ w[i].msg = sticky[order[i]] /\ order[i] \in R
    BY DEF w
  <2> QED BY <2>2, <2>3, <2>4
<1>6. x \in Entries
  BY PubSubAssumption DEF Entries
<1>7. l \in Seq(Entries)
  BY DEF Shapes
<1>8. /\ Append(l, x) \in Seq(Entries) /\ Append(l, x) # <<>> /\ Len(l) \in Nat
      /\ Len(Append(l, x)) = Len(l) + 1
      /\ \A i \in 1 .. Len(l) : Append(l, x)[i] = l[i]
      /\ Append(l, x)[Len(l) + 1] = x
  BY <1>6, <1>7, AppendProperties, LenProperties
<1>9. /\ lists'[t] = Append(l, x)
      /\ \A u \in Topics \ {t} : lists'[u] = lists[u]
      /\ x.su = s
  BY <1>1 DEF Shapes
<1>10. lists' \in [Topics -> Seq(Entries)]
  BY <1>1, <1>8 DEF Shapes
<1> HIDE DEF x, l
<1>11. Shapes'
  BY <1>1, <1>5, <1>10 DEF Shapes, countVars, Published
<1>12. OnlyPublished'
  <2>1. \A i \in 1 .. Len(work') : work'[i].msg \in Published
    BY <1>4, <1>5 DEF OnlyPublished
  <2> QED BY <1>1, <2>1 DEF OnlyPublished, Published, countVars
<1>13. LockHeld'
  BY <1>1 DEF LockHeld
<1>14. WorkIsLatest'
  <2>1. \A p \in R : \A m \in Published : sent[m] = sent[sticky[p]] => m <= sticky[p]
    BY <1>4 DEF StickyIsLatest
  <2> QED BY <1>1, <1>5, <2>1 DEF WorkIsLatest, Published
<1>15. StickyIsLatest'
  BY <1>1 DEF StickyIsLatest, Published
<1>16. ListedOnce'
  <2>1. \A i, j \in 1 .. Len(lists'[t]) : lists'[t][i].su = lists'[t][j].su => i = j
    <3>1. \A i, j \in 1 .. Len(l) : l[i].su = l[j].su => i = j
      BY DEF ListedOnce, l
    <3>2. \A i \in 1 .. Len(l) : l[i].su # s
      BY <1>1 DEF InList, l
    <3> SUFFICES ASSUME NEW i \in 1 .. Len(l) + 1, NEW j \in 1 .. Len(l) + 1,
                        lists'[t][i].su = lists'[t][j].su
                 PROVE  i = j
      BY <1>8, <1>9
    <3>3. CASE i \in 1 .. Len(l) /\ j \in 1 .. Len(l)
      BY <1>8, <1>9, <3>1, <3>3
    <3>4. CASE i = Len(l) + 1 /\ j \in 1 .. Len(l)
      BY <1>8, <1>9, <3>2, <3>4
    <3>5. CASE i \in 1 .. Len(l) /\ j = Len(l) + 1
      BY <1>8, <1>9, <3>2, <3>5
    <3> QED BY <1>8, <3>3, <3>4, <3>5
  <2> QED BY <1>9, <2>1 DEF ListedOnce
<1>17. TopicsExact'
  BY <1>1, <1>8, <1>9 DEF TopicsExact
<1>18. FreedIsUnknown'
  <2>1. life[s] = "live"
    BY <1>1 DEF Owner
  <2>2. \A u \in Subs : life[u] # "live" => \A i \in 1 .. Len(work') : work'[i].su # u
    BY <1>5, <2>1
  <2>3. \A u \in Subs : life[u] # "live" => \A p \in Topics : ~InList(lists'[p], u)
    <3> SUFFICES ASSUME NEW u \in Subs, life[u] # "live", NEW p \in Topics, InList(lists'[p], u)
                 PROVE  FALSE
      OBVIOUS
    <3>1. ~InList(lists[p], u)
      BY DEF FreedIsUnknown
    <3>2. p = t
      BY <1>9, <3>1 
    <3>3. PICK i \in 1 .. Len(l) + 1 : lists'[t][i].su = u
      BY <1>8, <1>9, <3>2 DEF InList
    <3>4. CASE i = Len(l) + 1
      BY <1>8, <1>9, <2>1, <3>3, <3>4
    <3>5. CASE i \in 1 .. Len(l)
      BY <1>8, <1>9, <3>1, <3>2, <3>3, <3>5 DEF InList, l
    <3> QED BY <1>8, <3>4, <3>5
  <2> QED BY <1>1, <2>2, <2>3 DEF FreedIsUnknown
<1>19. WorkHeld'
  BY <1>1, <1>4, <1>5 DEF WorkHeld
<1> QED BY <1>1, <1>11, <1>12, <1>13, <1>14, <1>15, <1>16, <1>17, <1>18, <1>19,
           CountsUnchanged, QueuesUnchanged


\* ps_unsubscribe, and one topic of ps_unsubscribe_all.
LEMMA UnsubscribeOrder == ASSUME Order, NEW s \in Subs, NEW t \in Topics, Unsubscribe(s, t) PROVE Order'
<1> USE DEF Order
<1>1. /\ ~locked /\ InList(lists[t], s) /\ lists' = [lists EXCEPT ![t] = Without(lists[t], s)]
      /\ topics' = TopicsLeft(topics, lists', sticky)
      /\ UNCHANGED <<sticky, queue, held, life, ref, lockVars, sent, countVars>>
  BY DEF Unsubscribe
<1>2. /\ lists[t] \in Seq(Entries)
      /\ \A i, j \in 1 .. Len(lists[t]) : lists[t][i].su = lists[t][j].su => i = j
  BY DEF Shapes, ListedOnce
<1> DEFINE w == Without(lists[t], s)
<1>3. /\ w \in Seq(Entries)
      /\ \A i, j \in 1 .. Len(w) : w[i].su = w[j].su => i = j
      /\ \A u : InList(w, u) => InList(lists[t], u)
  BY <1>2, WithoutOf
<1> HIDE DEF w
<1>4. /\ lists'[t] = w
      /\ \A u \in Topics \ {t} : lists'[u] = lists[u]
  BY <1>1 DEF Shapes, w
<1>5. Shapes'
  <2>1. lists' \in [Topics -> Seq(Entries)]
    BY <1>1, <1>3 DEF Shapes, w
  <2>2. topics' \subseteq Topics
    BY <1>1 DEF Shapes, TopicsLeft
  <2> QED BY <1>1, <2>1, <2>2 DEF Shapes, countVars, lockVars, Published
<1>6. OnlyPublished'
  BY <1>1 DEF OnlyPublished, lockVars, Published, countVars
<1>7. StickyIsLatest'
  BY <1>1 DEF StickyIsLatest, Published
<1>8. ListedOnce'
  BY <1>3, <1>4 DEF ListedOnce
<1>9. TopicsExact'
  <2>1. InList(lists[t], s) => lists[t] # <<>>
    BY <1>2, EmptyIsSeq DEF InList
  <2>2. t \in topics
    BY <1>1, <2>1 DEF TopicsExact
  <2> QED BY <1>1, <1>4, <2>2 DEF TopicsExact, TopicsLeft
<1>10. FreedIsUnknown'
  <2>1. \A u \in Subs : life[u] # "live" => \A p \in Topics : ~InList(lists'[p], u)
    BY <1>3, <1>4 DEF FreedIsUnknown
  <2> QED BY <1>1, <2>1 DEF FreedIsUnknown, lockVars
<1>11. WorkHeld'
  BY <1>1, WorkHeldLocked DEF lockVars
<1> QED BY <1>1, <1>5, <1>6, <1>7, <1>8, <1>9, <1>10, <1>11,
           LockUnchanged, CountsUnchanged, QueuesUnchanged

\* After ps_unsubscribe_all nobody can push to the subscriber any more.
LEMMA FreeBeginOrder == ASSUME Order, NEW s \in Subs, FreeBegin(s) PROVE Order'
<1> USE DEF Order
<1>1. /\ ~locked /\ lists' = [t \in Topics |-> Without(lists[t], s)]
      /\ topics' = TopicsLeft(topics, lists', sticky)
      /\ life' = [life EXCEPT ![s] = "leaving"]
      /\ UNCHANGED <<sticky, queue, held, ref, lockVars, sent, countVars>>
  BY DEF FreeBegin, UnsubscribeAll
<1>2. ASSUME NEW t \in Topics
      PROVE  /\ lists'[t] \in Seq(Entries) /\ ~InList(lists'[t], s)
             /\ \A i, j \in 1 .. Len(lists'[t]) : lists'[t][i].su = lists'[t][j].su => i = j
             /\ \A u : InList(lists'[t], u) => InList(lists[t], u)
  <2>1. /\ lists[t] \in Seq(Entries)
        /\ \A i, j \in 1 .. Len(lists[t]) : lists[t][i].su = lists[t][j].su => i = j
    BY DEF Shapes, ListedOnce
  <2>2. lists'[t] = Without(lists[t], s)
    BY <1>1
  <2> QED BY <2>1, <2>2, WithoutOf
<1>3. Shapes'
  <2>1. lists' \in [Topics -> Seq(Entries)]
    BY <1>1, <1>2
  <2>2. topics' \subseteq Topics
    BY <1>1 DEF Shapes, TopicsLeft
  <2>3. life' \in [Subs -> {"none", "live", "leaving", "dead"}]
    BY <1>1 DEF Shapes
  <2> QED BY <1>1, <2>1, <2>2, <2>3 DEF Shapes, countVars, lockVars, Published
<1>4. OnlyPublished'
  BY <1>1 DEF OnlyPublished, lockVars, Published, countVars
<1>5. StickyIsLatest'
  BY <1>1 DEF StickyIsLatest, Published
<1>6. ListedOnce'
  BY <1>2 DEF ListedOnce
<1>7. TopicsExact'
  <2> SUFFICES ASSUME NEW t \in Topics, lists'[t] # <<>> PROVE t \in topics
    BY <1>1 DEF TopicsExact, TopicsLeft, Shapes
  <2>1. lists'[t] \in Seq(Entries) /\ lists'[t] # <<>>
    BY <1>2
  <2>2. 1 \in 1 .. Len(lists'[t])
    BY <2>1, NonEmpty
  <2>3. InList(lists[t], lists'[t][1].su)
    BY <1>2, <2>2 DEF InList
  <2>4. lists[t] # <<>>
    BY <2>3, EmptyIsSeq DEF InList
  <2> QED BY <2>4 DEF TopicsExact
<1>8. FreedIsUnknown'
  <2>1. life'[s] = "leaving" /\ \A u \in Subs \ {s} : life'[u] = life[u]
    BY <1>1 DEF Shapes
  <2>2. \A u \in Subs : life'[u] # "live" => \A p \in Topics : ~InList(lists'[p], u)
    BY <1>2, <2>1 DEF FreedIsUnknown
  <2>3. \A u \in Subs : life'[u] \in {"none", "dead"} => queue[u] = <<>>
    BY <2>1 DEF FreedIsUnknown
  <2>4. work = <<>> /\ Len(work) = 0
    BY <1>1, EmptyIsSeq DEF LockHeld
  <2>5. \A u \in Subs : \A i \in 1 .. Len(work) : work[i].su # u
    BY <2>4
  <2> QED BY <1>1, <2>2, <2>3, <2>5 DEF FreedIsUnknown, lockVars
<1>9. WorkHeld'
  BY <1>1, WorkHeldLocked DEF lockVars
<1> QED BY <1>1, <1>3, <1>4, <1>5, <1>6, <1>7, <1>8, <1>9,
           LockUnchanged, CountsUnchanged, QueuesUnchanged

LEMMA CleanStickyOrder == ASSUME Order, NEW p \in Topics, ps_clean_sticky(p) PROVE Order'
<1> USE DEF Order
<1> DEFINE C == {t \in topics : Levelled(t, p) /\ sticky[t] # NoMsg}
<1>1. /\ ~locked /\ sticky' = [t \in Topics |-> IF t \in C THEN NoMsg ELSE sticky[t]]
      /\ topics' = TopicsLeft(topics, lists, sticky')
      /\ UNCHANGED <<lists, queue, held, life, lockVars, sent, countVars>>
  BY DEF ps_clean_sticky
<1> HIDE DEF C
<1>2. Shapes'
  <2>1. sticky' \in [Topics -> Msgs \union {NoMsg}]
    BY <1>1 DEF Shapes
  <2>2. topics' \subseteq Topics
    BY <1>1 DEF Shapes, TopicsLeft
  <2> QED BY <1>1, <2>1, <2>2 DEF Shapes, countVars, lockVars, Published
<1>3. OnlyPublished'
  BY <1>1 DEF OnlyPublished, lockVars, Published, countVars
<1>4. StickyIsLatest'
  BY <1>1 DEF StickyIsLatest, Published
<1>5. ListedOnce'
  BY <1>1 DEF ListedOnce
<1>6. TopicsExact'
  BY <1>1 DEF TopicsExact, TopicsLeft
<1>7. FreedIsUnknown'
  BY <1>1 DEF FreedIsUnknown, lockVars, InList
<1>8. WorkHeld'
  BY <1>1, WorkHeldLocked DEF lockVars
<1> QED BY <1>1, <1>2, <1>3, <1>4, <1>5, <1>6, <1>7, <1>8,
           LockUnchanged, CountsUnchanged, QueuesUnchanged


-----------------------------------------------------------------------------
(* Counting the holders of a message.                                      *)

LEMMA PlaceOf ==
    ASSUME NEW m
    PROVE  \A p : p \in Places(m) <=>
             \E s \in Subs : \E i \in 1 .. Len(queue[s]) : queue[s][i] = m /\ p = <<s, i>>
BY DEF Places

\* A message that is appended to a queue has got one place more, and no other has.
LEMMA PlacesAppend ==
    ASSUME NEW m \in Msgs, NEW e \in Msgs, NEW v \in Subs, queue \in [Subs -> Seq(Msgs)],
           queue' = [queue EXCEPT ![v] = Append(@, e)], IsFiniteSet(Places(m))
    PROVE  /\ IsFiniteSet(Places(m)')
           /\ Cardinality(Places(m)') = Cardinality(Places(m)) + (IF m = e THEN 1 ELSE 0)
<1> DEFINE q == queue[v]
           n == Len(q)
           x == <<v, n + 1>>
<1>1. q \in Seq(Msgs) /\ n \in Nat
  BY LenProperties
<1>2. /\ Append(q, e) \in Seq(Msgs) /\ Len(Append(q, e)) = n + 1
      /\ \A i \in 1 .. n : Append(q, e)[i] = q[i]
      /\ Append(q, e)[n + 1] = e
  BY <1>1, AppendProperties
<1>3. queue'[v] = Append(q, e) /\ \A u \in Subs \ {v} : queue'[u] = queue[u]
  OBVIOUS
<1> HIDE DEF q, n
<1>4. \A p : p \in Places(m) <=>
             \E s \in Subs : \E i \in 1 .. Len(queue[s]) : queue[s][i] = m /\ p = <<s, i>>
  BY PlaceOf
<1>5. \A p : p \in Places(m)' <=>
             \E s \in Subs : \E i \in 1 .. Len(queue'[s]) : queue'[s][i] = m /\ p = <<s, i>>
  BY DEF Places
<1>6. x \notin Places(m)
  BY <1>1, <1>4 DEF n, q
<1>7. CASE m = e
  <2>1. ASSUME NEW p, p \in Places(m) PROVE p \in Places(m)'
    <3>0. PICK s \in Subs : \E i \in 1 .. Len(queue[s]) :
              queue[s][i] = m /\ p = <<s, i>>
      BY <1>4, <2>1
    <3>1. PICK i \in 1 .. Len(queue[s]) : queue[s][i] = m /\ p = <<s, i>>
      BY <3>0
    <3>2. i \in 1 .. Len(queue'[s]) /\ queue'[s][i] = m
      BY <1>1, <1>2, <1>3, <3>1 DEF n, q
    <3> QED BY <1>5, <3>1, <3>2
  <2>2. x \in Places(m)'
    <3>1. n + 1 \in 1 .. Len(queue'[v]) /\ queue'[v][n + 1] = m
      BY <1>1, <1>2, <1>3, <1>7
    <3> QED BY <1>5, <3>1
  <2>3. ASSUME NEW p, p \in Places(m)', p # x PROVE p \in Places(m)
    <3>0. PICK s \in Subs : \E i \in 1 .. Len(queue'[s]) :
              queue'[s][i] = m /\ p = <<s, i>>
      BY <1>5, <2>3
    <3>1. PICK i \in 1 .. Len(queue'[s]) : queue'[s][i] = m /\ p = <<s, i>>
      BY <3>0
    <3>2. i \in 1 .. Len(queue[s]) /\ queue[s][i] = m
      BY <1>1, <1>2, <1>3, <2>3, <3>1 DEF n, q
    <3> QED BY <1>4, <3>1, <3>2
  <2>4. Places(m)' = Places(m) \union {x}
    BY <2>1, <2>2, <2>3
  <2> QED BY <1>6, <1>7, <2>4, FS_AddElement
<1>8. CASE m # e
  <2>1. ASSUME NEW p, p \in Places(m) PROVE p \in Places(m)'
    <3>0. PICK s \in Subs : \E i \in 1 .. Len(queue[s]) :
              queue[s][i] = m /\ p = <<s, i>>
      BY <1>4, <2>1
    <3>1. PICK i \in 1 .. Len(queue[s]) : queue[s][i] = m /\ p = <<s, i>>
      BY <3>0
    <3>2. i \in 1 .. Len(queue'[s]) /\ queue'[s][i] = m
      BY <1>1, <1>2, <1>3, <3>1 DEF n, q
    <3> QED BY <1>5, <3>1, <3>2
  <2>2. ASSUME NEW p, p \in Places(m)' PROVE p \in Places(m)
    <3>0. PICK s \in Subs : \E i \in 1 .. Len(queue'[s]) :
              queue'[s][i] = m /\ p = <<s, i>>
      BY <1>5, <2>2
    <3>1. PICK i \in 1 .. Len(queue'[s]) : queue'[s][i] = m /\ p = <<s, i>>
      BY <3>0
    <3>2. i \in 1 .. Len(queue[s]) /\ queue[s][i] = m
      BY <1>1, <1>2, <1>3, <1>8, <3>1 DEF n, q
    <3> QED BY <1>4, <3>1, <3>2
  <2>3. Places(m)' = Places(m)
    BY <2>1, <2>2
  <2>4. Cardinality(Places(m)) \in Nat
    BY FS_CardinalityType
  <2> QED BY <1>8, <2>3, <2>4
<1> QED BY <1>7, <1>8

\* The message at the head of a queue loses its place there; the places behind it
\* move up by one.
LEMMA PlacesTail ==
    ASSUME NEW m \in Msgs, NEW v \in Subs, queue \in [Subs -> Seq(Msgs)], queue[v] # <<>>,
           queue' = [queue EXCEPT ![v] = Tail(@)], IsFiniteSet(Places(m))
    PROVE  /\ IsFiniteSet(Places(m)')
           /\ Cardinality(Places(m)') =
                Cardinality(Places(m)) - (IF m = Head(queue[v]) THEN 1 ELSE 0)
<1> DEFINE q == queue[v]
           x == <<v, 1>>
           before == Places(m) \ {x}
           after == Places(m)'
           move == [p \in before |-> IF p[1] = v THEN <<v, p[2] - 1>> ELSE p]
<1>1. /\ Head(q) = q[1] /\ Len(Tail(q)) = Len(q) - 1 /\ Len(q) \in Nat /\ Len(q) >= 1
      /\ \A i \in 1 .. Len(Tail(q)) : Tail(q)[i] = q[i + 1] /\ i + 1 \in 1 .. Len(q)
  <2>1. q \in Seq(Msgs) /\ q # <<>>
    OBVIOUS
  <2> QED BY <2>1, TailBy
<1>2. queue'[v] = Tail(q) /\ \A u \in Subs \ {v} : queue'[u] = queue[u]
  OBVIOUS
<1>3. \A p : p \in Places(m) <=>
             \E s \in Subs : \E i \in 1 .. Len(queue[s]) : queue[s][i] = m /\ p = <<s, i>>
  BY PlaceOf
<1>4. \A p : p \in after <=>
             \E s \in Subs : \E i \in 1 .. Len(queue'[s]) : queue'[s][i] = m /\ p = <<s, i>>
  BY DEF Places
<1> HIDE DEF after, q
<1>5. \A p \in before : \E s \in Subs : \E i \in 1 .. Len(queue[s]) :
          queue[s][i] = m /\ p = <<s, i>> /\ p[1] = s /\ p[2] = i /\ (s = v => i # 1)
  BY <1>3
<1>6. IsFiniteSet(before) /\
      Cardinality(before) = Cardinality(Places(m)) - (IF m = Head(q) THEN 1 ELSE 0)
  <2>1. x \in Places(m) <=> m = Head(q)
    BY <1>1, <1>3 DEF q
  <2>2. Cardinality(Places(m)) \in Nat
    BY FS_CardinalityType
  <2>3. /\ IsFiniteSet(Places(m) \ {x})
        /\ Cardinality(Places(m) \ {x}) =
             IF x \in Places(m) THEN Cardinality(Places(m)) - 1 ELSE Cardinality(Places(m))
    BY FS_RemoveElement
  <2> HIDE DEF x
  <2> QED BY <2>1, <2>2, <2>3
<1>7. ASSUME NEW p \in before
      PROVE  /\ move[p] \in after
             /\ p[1] = v => move[p] = <<v, p[2] - 1>> /\ p[2] \in Int /\ p = <<v, p[2]>>
             /\ p[1] # v => move[p] = p
  <2>0. PICK s \in Subs : \E i \in 1 .. Len(queue[s]) :
            queue[s][i] = m /\ p = <<s, i>> /\ p[1] = s /\ p[2] = i /\ (s = v => i # 1)
    BY <1>5
  <2>1. PICK i \in 1 .. Len(queue[s]) : queue[s][i] = m /\ p = <<s, i>> /\ p[1] = s /\ p[2] = i /\ (s = v => i # 1)
    BY <2>0
  <2>2. CASE s = v
    <3>1. i - 1 \in 1 .. Len(Tail(q)) /\ Tail(q)[i - 1] = m
      BY <1>1, <2>1, <2>2 DEF q
    <3>2. <<v, i - 1>> \in after
      BY <1>2, <1>4, <3>1
    <3>3. p[1] = v /\ p[2] = i /\ i \in Int /\ p = <<v, i>>
      BY <2>1, <2>2
    <3>4. move[p] = <<v, i - 1>>
      BY <3>3
    <3> HIDE DEF move, before
    <3> QED BY <3>2, <3>3, <3>4
  <2>3. CASE s # v
    <3>1. p \in after
      BY <1>2, <1>4, <2>1, <2>3
    <3> QED BY <2>1, <2>3, <3>1
  <2> QED BY <2>2, <2>3
<1>8. ASSUME NEW p \in after PROVE \E o \in before : move[o] = p
  <2>0. PICK s \in Subs : \E i \in 1 .. Len(queue'[s]) :
            queue'[s][i] = m /\ p = <<s, i>>
    BY <1>4
  <2>1. PICK i \in 1 .. Len(queue'[s]) : queue'[s][i] = m /\ p = <<s, i>>
    BY <2>0
  <2>2. CASE s = v
    <3>0. i \in 1 .. Len(Tail(q)) /\ Tail(q)[i] = m
      BY <1>2, <2>1, <2>2
    <3>1. i \in Nat /\ i >= 1 /\ i + 1 \in 1 .. Len(q) /\ q[i + 1] = m
      BY <1>1, <3>0
    <3>2. <<v, i + 1>> \in Places(m)
      BY <1>3, <3>1 DEF q
    <3>3. <<v, i + 1>> \in before
      BY <3>1, <3>2
    <3>4. move[<<v, i + 1>>] = <<v, i>>
      BY <3>1, <3>3
    <3> QED BY <2>1, <2>2, <3>3, <3>4
  <2>3. CASE s # v
    <3>1. p \in before /\ p[1] # v
      BY <1>2, <1>3, <2>1, <2>3
    <3>2. move[p] = p
      BY <3>1
    <3> QED BY <3>1, <3>2
  <2> QED BY <2>2, <2>3
<1>9. \A o, p \in before : move[o] = move[p] => o = p
  <2> SUFFICES ASSUME NEW o \in before, NEW p \in before, move[o] = move[p] PROVE o = p
    OBVIOUS
  <2>1. /\ o[1] = v => move[o] = <<v, o[2] - 1>> /\ o[2] \in Int /\ o = <<v, o[2]>>
        /\ o[1] # v => move[o] = o
    BY <1>7
  <2>2. /\ p[1] = v => move[p] = <<v, p[2] - 1>> /\ p[2] \in Int /\ p = <<v, p[2]>>
        /\ p[1] # v => move[p] = p
    BY <1>7
  <2> HIDE DEF move
  <2>3. o[1] = v <=> p[1] = v
    BY <2>1, <2>2
  <2>4. CASE o[1] = v
    <3>1. o[2] - 1 = p[2] - 1
      BY <2>1, <2>2, <2>3, <2>4
    <3> QED BY <2>1, <2>2, <2>3, <2>4, <3>1
  <2>5. CASE o[1] # v
    BY <2>1, <2>2, <2>3, <2>5
  <2> QED BY <2>4, <2>5
<1>10. move \in [before -> after]
  BY <1>7
<1> HIDE DEF move, before
<1>11. ExistsBijection(before, after)
  BY <1>8, <1>9, <1>10 DEF ExistsBijection, Bijection, Injection, Surjection, IsInjective
<1> QED BY <1>6, <1>11, FS_Bijection DEF after, q

\* An owner gets a message, and gives it back.
LEMMA ReadersGet ==
    ASSUME NEW m \in Msgs, NEW e \in Msgs, NEW s \in Subs, held \in [Subs -> Msgs \union {NoMsg}],
           held[s] = NoMsg, NoMsg \notin Msgs, held' = [held EXCEPT ![s] = e], IsFiniteSet(Readers(m))
    PROVE  /\ IsFiniteSet(Readers(m)')
           /\ Cardinality(Readers(m)') = Cardinality(Readers(m)) + (IF m = e THEN 1 ELSE 0)
<1>1. Cardinality(Readers(m)) \in Nat
  BY FS_CardinalityType
<1>2. CASE m = e
  <2>1. Readers(m)' = Readers(m) \union {s} /\ s \notin Readers(m)
    BY <1>2 DEF Readers
  <2> QED BY <1>2, <2>1, FS_AddElement
<1>3. CASE m # e
  <2>1. Readers(m)' = Readers(m)
    BY <1>3 DEF Readers
  <2> QED BY <1>1, <1>3, <2>1
<1> QED BY <1>2, <1>3

LEMMA ReadersGiveBack ==
    ASSUME NEW m \in Msgs, NEW s \in Subs, held \in [Subs -> Msgs \union {NoMsg}],
           NoMsg \notin Msgs, held' = [held EXCEPT ![s] = NoMsg], IsFiniteSet(Readers(m))
    PROVE  /\ IsFiniteSet(Readers(m)')
           /\ Cardinality(Readers(m)') = Cardinality(Readers(m)) - (IF m = held[s] THEN 1 ELSE 0)
<1>1. Cardinality(Readers(m)) \in Nat
  BY FS_CardinalityType
<1>2. CASE m = held[s]
  <2>1. Readers(m)' = Readers(m) \ {s} /\ s \in Readers(m)
    BY <1>2 DEF Readers
  <2> QED BY <1>2, <2>1, FS_RemoveElement
<1>3. CASE m # held[s]
  <2>1. Readers(m)' = Readers(m)
    BY <1>3 DEF Readers
  <2> QED BY <1>1, <1>3, <2>1
<1> QED BY <1>2, <1>3

\* A message is the sticky one of its own topic only.
LEMMA OneTopic ==
    ASSUME NEW st, NEW topicOf, NEW m, \A t \in Topics : st[t] = m => topicOf = t
    PROVE  Cardinality({t \in Topics : st[t] = m}) = (IF \E t \in Topics : st[t] = m THEN 1 ELSE 0)
<1>1. CASE \E t \in Topics : st[t] = m
  <2>1. {t \in Topics : st[t] = m} = {topicOf}
    BY <1>1
  <2> QED BY <1>1, <2>1, FS_Singleton
<1>2. CASE ~\E t \in Topics : st[t] = m
  <2>1. {t \in Topics : st[t] = m} = {}
    BY <1>2
  <2> QED BY <1>2, <2>1, FS_EmptySet
<1> QED BY <1>1, <1>2


-----------------------------------------------------------------------------
(* The counts of references: one lemma per action.                         *)

LEMMA NoMsgIsNone == NoMsg \notin Msgs /\ NoMsg = 0
BY PubSubAssumption DEF Msgs

\* In numbers: how many sticky slots hold a message, and how many references are the
\* publisher's or forgotten.
Sticks(m) == IF \E t \in Topics : sticky[t] = m THEN 1 ELSE 0
Others(m) == (IF cur = m THEN 1 ELSE 0) + leaked[m]

LEMMA HoldersNow ==
    ASSUME Order, FinitelyHeld, NEW m \in Msgs
    PROVE  /\ Holders(m) = Cardinality(Places(m)) + Sticks(m) + Cardinality(Readers(m)) + Others(m)
           /\ Cardinality(Places(m)) \in Nat /\ Cardinality(Readers(m)) \in Nat
           /\ Sticks(m) \in Nat /\ Others(m) \in Nat
<1>1. \A t \in Topics : sticky[t] = m => sent[m] = t
  BY NoMsgIsNone DEF Order, StickyIsLatest
<1>2. Cardinality(StickyFor(m)) = Sticks(m)
  BY <1>1, OneTopic DEF StickyFor, Sticks
<1>3. Cardinality(Places(m)) \in Nat /\ Cardinality(Readers(m)) \in Nat
  BY FS_CardinalityType DEF FinitelyHeld
<1>4. Others(m) \in Nat /\ leaked[m] \in Nat /\ Sticks(m) \in Nat
  BY DEF Order, Shapes, Others, Sticks
<1>5. Holders(m) = Cardinality(Places(m)) + Sticks(m) + Cardinality(Readers(m)) + Others(m)
  BY <1>2, <1>3, <1>4 DEF Holders, Others
<1> QED BY <1>3, <1>4, <1>5

\* The same after a step, and what is left to show of it: that the counts have changed
\* as the holders have.
LEMMA HoldersNext ==
    ASSUME Order', FinitelyHeld', ref' = [m \in Msgs |-> ref'[m]],
           \A m \in Msgs : ref'[m] = Cardinality(Places(m)') + Sticks(m)'
                                     + Cardinality(Readers(m)') + Others(m)'
    PROVE  Counts'
<1>1. ASSUME NEW m \in Msgs PROVE Holders(m)' = ref'[m] /\ ref'[m] \in Nat
  <2>1. \A t \in Topics : sticky'[t] = m => sent'[m] = t
    BY NoMsgIsNone DEF Order, StickyIsLatest
  <2>2. Cardinality(StickyFor(m)') = Sticks(m)'
    <3>1. StickyFor(m)' = {t \in Topics : sticky'[t] = m}
      BY DEF StickyFor
    <3>2. Sticks(m)' = IF \E t \in Topics : sticky'[t] = m THEN 1 ELSE 0
      BY DEF Sticks
    <3>3. Cardinality({t \in Topics : sticky'[t] = m}) =
            IF \E t \in Topics : sticky'[t] = m THEN 1 ELSE 0
      <4>1. CASE \E t \in Topics : sticky'[t] = m
        <5>1. {t \in Topics : sticky'[t] = m} = {sent'[m]}
          BY <2>1, <4>1
        <5> QED BY <4>1, <5>1, FS_Singleton
      <4>2. CASE ~\E t \in Topics : sticky'[t] = m
        <5>1. {t \in Topics : sticky'[t] = m} = {}
          BY <4>2
        <5> QED BY <4>2, <5>1, FS_EmptySet
      <4> QED BY <4>1, <4>2
    <3> QED BY <3>1, <3>2, <3>3
  <2>3. Cardinality(Places(m)') \in Nat /\ Cardinality(Readers(m)') \in Nat
    BY FS_CardinalityType DEF FinitelyHeld
  <2>4. Sticks(m)' \in Nat /\ Others(m)' \in Nat
    BY DEF Sticks, Others, Order, Shapes
  <2>5. ref'[m] \in Nat
    BY <2>3, <2>4
  <2>6. Holders(m)' = Cardinality(Places(m)') + Cardinality(StickyFor(m)')
                        + Cardinality(Readers(m)') + Others(m)'
    <3>1. leaked'[m] \in Nat /\ Cardinality(StickyFor(m)') \in Nat
      BY <2>2, <2>4 DEF Order, Shapes
    <3> QED BY <2>3, <3>1 DEF Holders, Others
  <2> QED BY <2>2, <2>5, <2>6
<1>2. ref' \in [Msgs -> Nat]
  BY <1>1
<1> QED BY <1>1, <1>2 DEF Counts, RefsExact

LEMMA FinitelyStays ==
    ASSUME FinitelyHeld, UNCHANGED <<queue, held>>, IsFiniteSet(topics')
    PROVE  FinitelyHeld'
<1>1. \A m \in Msgs : Places(m)' = Places(m) /\ Readers(m)' = Readers(m)
  BY DEF Places, Readers
<1> QED BY <1>1 DEF FinitelyHeld

\* Most steps change no holder.
LEMMA CountsStay ==
    ASSUME Counts, UNCHANGED <<ref, queue, held, sticky, cur, leaked>>, IsFiniteSet(topics')
    PROVE  Counts'
<1>1. FinitelyHeld'
  BY FinitelyStays DEF Counts
<1>2. \A m \in Msgs : Holders(m)' = Holders(m)
  BY DEF Holders, Places, StickyFor, Readers
<1> QED BY <1>1, <1>2 DEF Counts, RefsExact

LEMMA UnlockCounts == ASSUME Order, Counts, Order', Unlock PROVE Counts'
<1> USE DEF Unlock
<1>1. /\ UNCHANGED <<topicVars, queue, held, leaked>> /\ cur' = NoMsg
      /\ ref' = Unref(ref, {cur} \ {NoMsg})
  BY DEF countVars
<1> HIDE DEF Unlock
<1>2. FinitelyHeld'
  <2>1. IsFiniteSet(topics')
    BY <1>1 DEF Counts, FinitelyHeld, topicVars
  <2> QED BY <1>1, <2>1, FinitelyStays DEF Counts
<1>3. ref' = [m \in Msgs |-> IF m = cur THEN ref[m] - 1 ELSE ref[m]]
  BY <1>1, NoMsgIsNone DEF Counts, Unref
<1>4. ASSUME NEW m \in Msgs
      PROVE  ref'[m] = Cardinality(Places(m)') + Sticks(m)' + Cardinality(Readers(m)') + Others(m)'
  <2>1. ref[m] = Cardinality(Places(m)) + Sticks(m) + Cardinality(Readers(m)) + Others(m)
        /\ Cardinality(Places(m)) \in Nat /\ Cardinality(Readers(m)) \in Nat
        /\ Sticks(m) \in Nat /\ Others(m) \in Nat
    BY HoldersNow DEF Counts, RefsExact
  <2>2. Places(m)' = Places(m) /\ Sticks(m)' = Sticks(m) /\ Readers(m)' = Readers(m)
    BY <1>1 DEF Places, Sticks, Readers, topicVars
  <2>3. /\ leaked[m] \in Nat /\ Others(m)' = leaked[m]
        /\ Others(m) = (IF m = cur THEN 1 ELSE 0) + leaked[m]
    BY <1>1, NoMsgIsNone DEF Others, Order, Shapes
  <2>4. ref'[m] = IF m = cur THEN ref[m] - 1 ELSE ref[m]
    BY <1>3
  <2> QED BY <2>1, <2>2, <2>3, <2>4
<1> QED BY <1>2, <1>3, <1>4, HoldersNext

LEMMA GiveBackCounts == ASSUME Order, Counts, Order', NEW s \in Subs, GiveBack(s) PROVE Counts'
<1>1. /\ UNCHANGED <<topicVars, queue, cur, leaked>> /\ held' = [held EXCEPT ![s] = NoMsg]
      /\ ref' = Unref(ref, {held[s]}) /\ held \in [Subs -> Msgs \union {NoMsg}]
  BY DEF GiveBack, lockVars, countVars, Order, Shapes
<1>2. ASSUME NEW m \in Msgs
      PROVE  /\ IsFiniteSet(Readers(m)')
             /\ Cardinality(Readers(m)') = Cardinality(Readers(m)) - (IF m = held[s] THEN 1 ELSE 0)
  BY <1>1, NoMsgIsNone, ReadersGiveBack DEF Counts, FinitelyHeld
<1>3. FinitelyHeld'
  BY <1>1, <1>2 DEF Counts, FinitelyHeld, Places, topicVars
<1>4. ref' = [m \in Msgs |-> IF m = held[s] THEN ref[m] - 1 ELSE ref[m]]
  BY <1>1 DEF Counts, Unref
<1>5. ASSUME NEW m \in Msgs
      PROVE  ref'[m] = Cardinality(Places(m)') + Sticks(m)' + Cardinality(Readers(m)') + Others(m)'
  <2>1. ref[m] = Cardinality(Places(m)) + Sticks(m) + Cardinality(Readers(m)) + Others(m)
        /\ Cardinality(Places(m)) \in Nat /\ Cardinality(Readers(m)) \in Nat
        /\ Sticks(m) \in Nat /\ Others(m) \in Nat
    BY HoldersNow DEF Counts, RefsExact
  <2>2. Places(m)' = Places(m) /\ Sticks(m)' = Sticks(m) /\ Others(m)' = Others(m)
    BY <1>1 DEF Places, Sticks, Others, topicVars
  <2>3. ref'[m] = IF m = held[s] THEN ref[m] - 1 ELSE ref[m]
    BY <1>4
  <2>4. Cardinality(Readers(m)') = Cardinality(Readers(m)) - (IF m = held[s] THEN 1 ELSE 0)
    BY <1>2
  <2> QED BY <2>1, <2>2, <2>3, <2>4
<1> QED BY <1>3, <1>4, <1>5, HoldersNext

\* The reference of the place in the queue becomes the owner's.
LEMMA GetCounts == ASSUME Order, Counts, Order', NEW s \in Subs, Get(s) PROVE Counts'
<1> DEFINE e == Head(queue[s])
<1>1. /\ UNCHANGED <<topicVars, ref, cur, leaked>> /\ held' = [held EXCEPT ![s] = e] /\ held[s] = NoMsg
      /\ queue' = [queue EXCEPT ![s] = Tail(@)] /\ queue[s] # <<>>
      /\ held \in [Subs -> Msgs \union {NoMsg}] /\ queue \in [Subs -> Seq(Msgs)]
  BY DEF Get, lockVars, countVars, Order, Shapes
<1>2. e \in Msgs
  <2>1. queue[s] \in Seq(Msgs) /\ queue[s] # <<>>
    BY <1>1
  <2> QED BY <2>1, HeadTailProperties
<1> HIDE DEF e
<1>3. ASSUME NEW m \in Msgs
      PROVE  /\ IsFiniteSet(Readers(m)')
             /\ Cardinality(Readers(m)') = Cardinality(Readers(m)) + (IF m = e THEN 1 ELSE 0)
  BY <1>1, <1>2, NoMsgIsNone, ReadersGet DEF Counts, FinitelyHeld
<1>4. ASSUME NEW m \in Msgs
      PROVE  /\ IsFiniteSet(Places(m)')
             /\ Cardinality(Places(m)') = Cardinality(Places(m)) - (IF m = e THEN 1 ELSE 0)
  BY <1>1, PlacesTail DEF Counts, FinitelyHeld, e
<1>5. FinitelyHeld'
  BY <1>1, <1>3, <1>4 DEF Counts, FinitelyHeld, topicVars
<1>6. ASSUME NEW m \in Msgs
      PROVE  ref'[m] = Cardinality(Places(m)') + Sticks(m)' + Cardinality(Readers(m)') + Others(m)'
  <2>1. ref[m] = Cardinality(Places(m)) + Sticks(m) + Cardinality(Readers(m)) + Others(m)
        /\ Cardinality(Places(m)) \in Nat /\ Cardinality(Readers(m)) \in Nat
        /\ Sticks(m) \in Nat /\ Others(m) \in Nat
    BY HoldersNow DEF Counts, RefsExact
  <2>2. Sticks(m)' = Sticks(m) /\ Others(m)' = Others(m) /\ ref'[m] = ref[m]
    BY <1>1 DEF Sticks, Others, topicVars
  <2>3. Cardinality(Readers(m)') = Cardinality(Readers(m)) + (IF m = e THEN 1 ELSE 0)
    BY <1>3
  <2>4. Cardinality(Places(m)') = Cardinality(Places(m)) - (IF m = e THEN 1 ELSE 0)
    BY <1>4
  <2> QED BY <2>1, <2>2, <2>3, <2>4
<1>7. ref' = [m \in Msgs |-> ref'[m]]
  BY <1>1 DEF Counts
<1> QED BY <1>5, <1>6, <1>7, HoldersNext

\* What is flushed gives back the reference of its place in the queue.
LEMMA FlushCounts == ASSUME Order, Counts, Order', NEW s \in Subs, Flush(s) PROVE Counts'
<1> DEFINE e == Head(queue[s])
<1>1. /\ UNCHANGED <<topicVars, held, cur, leaked>> /\ ref' = Unref(ref, {e})
      /\ queue' = [queue EXCEPT ![s] = Tail(@)] /\ queue[s] # <<>>
      /\ queue \in [Subs -> Seq(Msgs)]
  BY DEF Flush, lockVars, countVars, Order, Shapes
<1>2. ASSUME NEW m \in Msgs
      PROVE  /\ IsFiniteSet(Places(m)')
             /\ Cardinality(Places(m)') = Cardinality(Places(m)) - (IF m = e THEN 1 ELSE 0)
  BY <1>1, PlacesTail DEF Counts, FinitelyHeld
<1> HIDE DEF e
<1>3. FinitelyHeld'
  BY <1>1, <1>2 DEF Counts, FinitelyHeld, Readers, topicVars
<1>4. ref' = [m \in Msgs |-> IF m = e THEN ref[m] - 1 ELSE ref[m]]
  BY <1>1 DEF Counts, Unref
<1>5. ASSUME NEW m \in Msgs
      PROVE  ref'[m] = Cardinality(Places(m)') + Sticks(m)' + Cardinality(Readers(m)') + Others(m)'
  <2>1. ref[m] = Cardinality(Places(m)) + Sticks(m) + Cardinality(Readers(m)) + Others(m)
        /\ Cardinality(Places(m)) \in Nat /\ Cardinality(Readers(m)) \in Nat
        /\ Sticks(m) \in Nat /\ Others(m) \in Nat
    BY HoldersNow DEF Counts, RefsExact
  <2>2. Readers(m)' = Readers(m) /\ Sticks(m)' = Sticks(m) /\ Others(m)' = Others(m)
    BY <1>1 DEF Readers, Sticks, Others, topicVars
  <2>3. ref'[m] = IF m = e THEN ref[m] - 1 ELSE ref[m]
    BY <1>4
  <2>4. Cardinality(Places(m)') = Cardinality(Places(m)) - (IF m = e THEN 1 ELSE 0)
    BY <1>2
  <2> QED BY <2>1, <2>2, <2>3, <2>4
<1> QED BY <1>3, <1>4, <1>5, HoldersNext

\* The reference of an owner that forgets becomes one that nobody gives back.
LEMMA ForgetCounts == ASSUME Order, Counts, Order', NEW s \in Subs, Forget(s) PROVE Counts'
<1>1. /\ UNCHANGED <<topicVars, queue, cur, ref>> /\ held' = [held EXCEPT ![s] = NoMsg]
      /\ leaked' = [leaked EXCEPT ![held[s]] = @ + 1]
      /\ held \in [Subs -> Msgs \union {NoMsg}] /\ leaked \in [Msgs -> Nat]
  BY DEF Forget, lockVars, Order, Shapes
<1>2. ASSUME NEW m \in Msgs
      PROVE  /\ IsFiniteSet(Readers(m)')
             /\ Cardinality(Readers(m)') = Cardinality(Readers(m)) - (IF m = held[s] THEN 1 ELSE 0)
  BY <1>1, NoMsgIsNone, ReadersGiveBack DEF Counts, FinitelyHeld
<1>3. FinitelyHeld'
  BY <1>1, <1>2 DEF Counts, FinitelyHeld, Places, topicVars
<1>4. ASSUME NEW m \in Msgs
      PROVE  ref'[m] = Cardinality(Places(m)') + Sticks(m)' + Cardinality(Readers(m)') + Others(m)'
  <2>1. ref[m] = Cardinality(Places(m)) + Sticks(m) + Cardinality(Readers(m)) + Others(m)
        /\ Cardinality(Places(m)) \in Nat /\ Cardinality(Readers(m)) \in Nat
        /\ Sticks(m) \in Nat /\ Others(m) \in Nat
    BY HoldersNow DEF Counts, RefsExact
  <2>2. Places(m)' = Places(m) /\ Sticks(m)' = Sticks(m) /\ ref'[m] = ref[m]
    BY <1>1 DEF Places, Sticks, topicVars
  <2>3. leaked'[m] = IF m = held[s] THEN leaked[m] + 1 ELSE leaked[m]
    BY <1>1
  <2>4. Others(m)' = IF m = held[s] THEN Others(m) + 1 ELSE Others(m)
    BY <1>1, <2>3 DEF Others
  <2>5. Cardinality(Readers(m)') = Cardinality(Readers(m)) - (IF m = held[s] THEN 1 ELSE 0)
    BY <1>2
  <2> QED BY <2>1, <2>2, <2>4, <2>5
<1>5. ref' = [m \in Msgs |-> ref'[m]]
  BY <1>1 DEF Counts
<1> QED BY <1>3, <1>4, <1>5, HoldersNext

\* A push takes a reference for the place in the queue, or none when it is full.
LEMMA PushNextCounts == ASSUME Order, Counts, Order', PushNext PROVE Counts'
<1> DEFINE x == Head(work)
           v == x.su
           e == x.msg
<1>1. v \in Subs /\ e \in Msgs
  <2>1. work \in Seq(Work) /\ work # <<>>
    BY DEF PushNext, Order, Shapes
  <2>2. x \in Work
    BY <2>1, HeadTailProperties
  <2> QED BY <2>2 DEF Work
<1>2. /\ UNCHANGED <<topicVars, held, cur, leaked>> /\ queue \in [Subs -> Seq(Msgs)]
      /\ \/ UNCHANGED <<queue, ref>>
         \/ queue' = [queue EXCEPT ![v] = Append(@, e)] /\ ref' = [ref EXCEPT ![e] = @ + 1]
  BY DEF PushNext, PushOne, Order, Shapes
<1> HIDE DEF v, e
<1>3. CASE UNCHANGED <<queue, ref>>
  <2>1. IsFiniteSet(topics') /\ UNCHANGED <<ref, queue, held, sticky, cur, leaked>>
    BY <1>2, <1>3 DEF topicVars, Counts, FinitelyHeld
  <2> QED BY <2>1, CountsStay
<1>4. CASE queue' = [queue EXCEPT ![v] = Append(@, e)] /\ ref' = [ref EXCEPT ![e] = @ + 1]
  <2>1. ASSUME NEW m \in Msgs
        PROVE  /\ IsFiniteSet(Places(m)')
               /\ Cardinality(Places(m)') = Cardinality(Places(m)) + (IF m = e THEN 1 ELSE 0)
    BY <1>1, <1>2, <1>4, PlacesAppend DEF Counts, FinitelyHeld
  <2>2. FinitelyHeld'
    BY <1>2, <2>1 DEF Counts, FinitelyHeld, Readers, topicVars
  <2>3. ref' = [m \in Msgs |-> IF m = e THEN ref[m] + 1 ELSE ref[m]]
    BY <1>1, <1>4 DEF Counts
  <2>4. ASSUME NEW m \in Msgs
        PROVE  ref'[m] = Cardinality(Places(m)') + Sticks(m)' + Cardinality(Readers(m)') + Others(m)'
    <3>1. ref[m] = Cardinality(Places(m)) + Sticks(m) + Cardinality(Readers(m)) + Others(m)
          /\ Cardinality(Places(m)) \in Nat /\ Cardinality(Readers(m)) \in Nat
          /\ Sticks(m) \in Nat /\ Others(m) \in Nat
      BY HoldersNow DEF Counts, RefsExact
    <3>2. Sticks(m)' = Sticks(m) /\ Others(m)' = Others(m) /\ Readers(m)' = Readers(m)
      BY <1>2 DEF Sticks, Others, Readers, topicVars
    <3>3. Cardinality(Places(m)') = Cardinality(Places(m)) + (IF m = e THEN 1 ELSE 0)
      BY <2>1
    <3>4. ref'[m] = IF m = e THEN ref[m] + 1 ELSE ref[m]
      BY <2>3
    <3> QED BY <3>1, <3>2, <3>3, <3>4
  <2> QED BY <2>2, <2>3, <2>4, HoldersNext
<1> QED BY <1>2, <1>3, <1>4

\* A message is published with one reference of the publisher's, and one more if it is
\* the sticky one; the sticky message it takes the place of loses one.
LEMMA PublishCounts ==
    ASSUME Order, Counts, Order', NEW t \in Topics, NEW k \in BOOLEAN, NEW r \in BOOLEAN,
           Publish(t, k, r)
    PROVE  Counts'
<1> DEFINE n == Len(sent) + 1
           old == sticky[t]
<1>1. /\ UNCHANGED <<queue, held, leaked>> /\ cur' = n /\ cur = NoMsg
      /\ ref' = Unref([ref EXCEPT ![n] = IF k THEN 2 ELSE 1], {old} \ {NoMsg})
      /\ sticky' = [sticky EXCEPT ![t] = IF k THEN n ELSE NoMsg]
      /\ topics' = IF k THEN topics \union {t} ELSE TopicsLeft(topics, lists, sticky')
  BY DEF Publish, StickyAfter, Order, LockHeld, countVars
<1>2. n \in Msgs /\ n \notin Published /\ \A m \in Published : m # n
  <2>1. Len(sent) \in Nat /\ Len(sent) < MaxMsgs /\ MaxMsgs \in Nat
    BY LenProperties, PubSubAssumption DEF Publish, Order, Shapes
  <2> QED BY <2>1 DEF Msgs, Published
<1>3. /\ old \in Published \union {NoMsg}
      /\ \A u \in Topics : sticky[u] # n
      /\ \A s \in Subs : held[s] # n
      /\ \A s \in Subs : \A i \in 1 .. Len(queue[s]) : queue[s][i] # n
      /\ leaked[n] = 0
  BY <1>2, NoMsgIsNone DEF Order, OnlyPublished
<1>4. /\ sticky'[t] = (IF k THEN n ELSE NoMsg)
      /\ \A u \in Topics \ {t} : sticky'[u] = sticky[u]
  BY <1>1 DEF Order, Shapes
<1>5. \A u \in Topics : sticky[u] # NoMsg /\ sticky[u] = old => u = t
  BY DEF Order, StickyIsLatest
<1> HIDE DEF n, old
<1>6. FinitelyHeld'
  <2>1. IsFiniteSet(topics')
    <3>1. IsFiniteSet(topics \union {t})
      BY FS_AddElement DEF Counts, FinitelyHeld
    <3>2. TopicsLeft(topics, lists, sticky') \in SUBSET topics
      BY DEF TopicsLeft
    <3>3. IsFiniteSet(TopicsLeft(topics, lists, sticky'))
      BY <3>2, FS_Subset DEF Counts, FinitelyHeld
    <3> QED BY <1>1, <3>1, <3>3
  <2> QED BY <1>1, <2>1, FinitelyStays DEF Counts
<1>7. ref' = [m \in Msgs |-> IF m = n THEN (IF k THEN 2 ELSE 1)
                              ELSE IF m = old THEN ref[m] - 1 ELSE ref[m]]
  <2>1. old # n /\ (\A m \in Msgs : m \in {old} \ {NoMsg} <=> m = old)
    BY <1>2, <1>3, NoMsgIsNone
  <2> QED BY <1>1, <1>2, <2>1 DEF Counts, Unref
<1>8. ASSUME NEW m \in Msgs
      PROVE  ref'[m] = Cardinality(Places(m)') + Sticks(m)' + Cardinality(Readers(m)') + Others(m)'
  <2>1. ref[m] = Cardinality(Places(m)) + Sticks(m) + Cardinality(Readers(m)) + Others(m)
        /\ Cardinality(Places(m)) \in Nat /\ Cardinality(Readers(m)) \in Nat
        /\ Sticks(m) \in Nat /\ Others(m) \in Nat
    BY HoldersNow DEF Counts, RefsExact
  <2>2. /\ Places(m)' = Places(m) /\ Readers(m)' = Readers(m)
        /\ Others(m) = leaked[m] /\ leaked[m] \in Nat
    BY <1>1, NoMsgIsNone DEF Places, Readers, Others, Order, Shapes
  <2>3. ref'[m] = IF m = n THEN (IF k THEN 2 ELSE 1)
                  ELSE IF m = old THEN ref[m] - 1 ELSE ref[m]
    BY <1>7
  <2>4. CASE m = n
    <3>1. Places(m) = {} /\ Readers(m) = {}
      BY <1>3, <2>4 DEF Places, Readers
    <3>2. Cardinality(Places(m)) = 0 /\ Cardinality(Readers(m)) = 0
      BY <3>1, FS_EmptySet
    <3>3. Sticks(m)' = (IF k THEN 1 ELSE 0) /\ Others(m)' = 1 + leaked[m] /\ leaked[m] = 0
      BY <1>1, <1>3, <1>4, <2>4, NoMsgIsNone DEF Sticks, Others
    <3> QED BY <2>2, <2>3, <2>4, <3>2, <3>3
  <2>5. CASE m # n /\ m = old
    <3>1. Sticks(m) = 1 /\ Sticks(m)' = 0 /\ Others(m)' = leaked[m]
      BY <1>1, <1>4, <1>5, <2>2, <2>5, NoMsgIsNone DEF Sticks, Others, old
    <3> HIDE DEF Others, Sticks
    <3> QED BY <2>1, <2>2, <2>3, <2>5, <3>1
  <2>6. CASE m # n /\ m # old
    <3>1. Sticks(m)' = Sticks(m) /\ Others(m)' = leaked[m]
      BY <1>1, <1>4, <2>2, <2>6, NoMsgIsNone DEF Sticks, Others, old
    <3> QED BY <2>1, <2>2, <2>3, <2>6, <3>1
  <2> QED BY <2>4, <2>5, <2>6
<1> QED BY <1>6, <1>7, <1>8, HoldersNext

LEMMA CleanStickyCounts ==
    ASSUME Order, Counts, Order', NEW p \in Topics, ps_clean_sticky(p) PROVE Counts'
<1> DEFINE C == {t \in topics : Levelled(t, p) /\ sticky[t] # NoMsg}
           cleaned == {sticky[t] : t \in C}
<1>1. /\ UNCHANGED <<queue, held, cur, leaked>> /\ ref' = Unref(ref, cleaned)
      /\ sticky' = [t \in Topics |-> IF t \in C THEN NoMsg ELSE sticky[t]]
      /\ topics' = TopicsLeft(topics, lists, sticky')
  BY DEF ps_clean_sticky, lockVars, countVars
<1>2. \A t, u \in Topics : sticky[t] # NoMsg /\ sticky[t] = sticky[u] => t = u
  BY DEF Order, StickyIsLatest
<1>3. C \subseteq Topics /\ \A t \in C : sticky[t] # NoMsg
  BY DEF Order, Shapes
<1> HIDE DEF C
<1>4. FinitelyHeld'
  <2>1. topics' \in SUBSET topics
    BY <1>1 DEF TopicsLeft
  <2>2. IsFiniteSet(topics')
    BY <2>1, FS_Subset DEF Counts, FinitelyHeld
  <2> QED BY <1>1, <2>2, FinitelyStays DEF Counts
<1>5. ref' = [m \in Msgs |-> IF m \in cleaned THEN ref[m] - 1 ELSE ref[m]]
  BY <1>1 DEF Counts, Unref
<1>6. ASSUME NEW m \in Msgs
      PROVE  ref'[m] = Cardinality(Places(m)') + Sticks(m)' + Cardinality(Readers(m)') + Others(m)'
  <2>1. ref[m] = Cardinality(Places(m)) + Sticks(m) + Cardinality(Readers(m)) + Others(m)
        /\ Cardinality(Places(m)) \in Nat /\ Cardinality(Readers(m)) \in Nat
        /\ Sticks(m) \in Nat /\ Others(m) \in Nat
    BY HoldersNow DEF Counts, RefsExact
  <2>2. Places(m)' = Places(m) /\ Readers(m)' = Readers(m) /\ Others(m)' = Others(m)
    BY <1>1 DEF Places, Readers, Others
  <2>3. ref'[m] = IF m \in cleaned THEN ref[m] - 1 ELSE ref[m]
    BY <1>5
  <2>4. CASE m \in cleaned
    <3>1. Sticks(m) = 1 /\ Sticks(m)' = 0
      BY <1>1, <1>2, <1>3, <2>4, NoMsgIsNone DEF Sticks
    <3> QED BY <2>1, <2>2, <2>3, <2>4, <3>1
  <2>5. CASE m \notin cleaned
    <3>1. Sticks(m)' = Sticks(m)
      BY <1>1, <1>3, <2>5, NoMsgIsNone DEF Sticks
    <3> QED BY <2>1, <2>2, <2>3, <2>5, <3>1
  <2> QED BY <2>4, <2>5
<1> QED BY <1>4, <1>5, <1>6, HoldersNext


-----------------------------------------------------------------------------
(* The invariant.                                                          *)

LEMMA PSInitInv == PSInit => PSInv
<1> SUFFICES ASSUME PSInit PROVE PSInv
  OBVIOUS
<1> USE DEF PSInit
<1>1. /\ \A S : <<>> \in Seq(S) /\ Len(<<>>) = 0
      /\ Len(sent) = 0 /\ Len(work) = 0 /\ \A s \in Subs : Len(queue[s]) = 0
      /\ \A t \in Topics : Len(lists[t]) = 0
  BY EmptyIsSeq
<1>2. Shapes
  <2>1. lists \in [Topics -> Seq(Entries)] /\ queue \in [Subs -> Seq(Msgs)]
    BY <1>1
  <2>2. sent \in Seq(Topics) /\ levels \in Seq(Topics) /\ work \in Seq(Work)
    BY <1>1
  <2>3. sticky \in [Topics -> Msgs \union {NoMsg}] /\ held \in [Subs -> Msgs \union {NoMsg}]
    OBVIOUS
  <2>4. Len(sent) <= MaxMsgs
    BY <1>1, PubSubAssumption
  <2> QED BY <2>1, <2>2, <2>3, <2>4 DEF Shapes
<1>3. OnlyPublished /\ LockHeld /\ WorkIsLatest /\ WorkHeld /\ QueuesInOrder
  BY <1>1 DEF OnlyPublished, LockHeld, WorkIsLatest, WorkHeld, QueuesInOrder
<1>4. StickyIsLatest /\ ListedOnce /\ TopicsExact
  BY <1>1 DEF StickyIsLatest, ListedOnce, TopicsExact
<1>5. FreedIsUnknown
  BY <1>1 DEF FreedIsUnknown, InList
<1>6. ReadingIsOld /\ OverflowConserved
  BY DEF ReadingIsOld, OverflowConserved
<1>7. Order
  BY <1>2, <1>3, <1>4, <1>5, <1>6 DEF Order
<1>8. \A m \in Msgs : Places(m) = {} /\ Readers(m) = {} /\ StickyFor(m) = {} /\ cur # m
  BY <1>1, NoMsgIsNone DEF Places, Readers, StickyFor
<1>9. FinitelyHeld
  BY <1>8, FS_EmptySet DEF FinitelyHeld
<1>10. RefsExact
  <2>1. \A m \in Msgs : Holders(m) = 0 + 0 + 0 + 0 + 0
    BY <1>8, FS_EmptySet DEF Holders
  <2> QED BY <2>1 DEF RefsExact
<1>11. ref \in [Msgs -> Nat]
  OBVIOUS
<1> QED BY <1>7, <1>9, <1>10, <1>11 DEF PSInv, Counts

\* The steps of the owner of a subscriber.
LEMMA OwnerStepInv == ASSUME PSInv, NEW s \in Subs, OwnerStep(s) PROVE PSInv'
<1> USE DEF PSInv
<1>0. IsFiniteSet(topics) /\ (topics' = topics => IsFiniteSet(topics'))
      /\ (topics' \in SUBSET topics => IsFiniteSet(topics'))
      /\ \A t \in Topics : IsFiniteSet(topics \union {t})
  BY FS_Subset, FS_AddElement DEF Counts, FinitelyHeld
<1>1. CASE Get(s)
  BY <1>1, GetOrder, GetCounts
<1>2. CASE GiveBack(s)
  BY <1>2, GiveBackOrder, GiveBackCounts
<1>3. CASE OverflowRead(s)
  <2>1. IsFiniteSet(topics') /\ UNCHANGED <<ref, queue, held, sticky, cur, leaked>>
    BY <1>0, <1>3 DEF OverflowRead, topicVars, lockVars
  <2> QED BY <1>3, <2>1, OverflowReadOrder, CountsStay
<1>4. CASE OverflowReset(s)
  <2>1. IsFiniteSet(topics') /\ UNCHANGED <<ref, queue, held, sticky, cur, leaked>>
    BY <1>0, <1>4 DEF OverflowReset, topicVars, lockVars
  <2> QED BY <1>4, <2>1, OverflowResetOrder, CountsStay
<1>5. CASE FreeBegin(s)
  <2>1. IsFiniteSet(topics') /\ UNCHANGED <<ref, queue, held, sticky, cur, leaked>>
    BY <1>0, <1>5 DEF FreeBegin, UnsubscribeAll, TopicsLeft, lockVars, countVars
  <2> QED BY <1>5, <2>1, FreeBeginOrder, CountsStay
<1>6. CASE FreeEnd(s)
  <2>1. IsFiniteSet(topics') /\ UNCHANGED <<ref, queue, held, sticky, cur, leaked>>
    BY <1>0, <1>6 DEF FreeEnd, topicVars, lockVars, countVars
  <2> QED BY <1>6, <2>1, FreeEndOrder, CountsStay
<1>7. CASE New(s)
  <2>1. IsFiniteSet(topics') /\ UNCHANGED <<ref, queue, held, sticky, cur, leaked>>
    BY <1>0, <1>7 DEF New, topicVars, lockVars, countVars
  <2> QED BY <1>7, <2>1, NewOrder, CountsStay
<1>8. ASSUME NEW t \in Topics, NEW f \in SubFlags[s][t], Subscribe(s, t, f) PROVE PSInv'
  <2>1. IsFiniteSet(topics') /\ UNCHANGED <<ref, queue, held, sticky, cur, leaked>>
    BY <1>0, <1>8 DEF Subscribe, countVars
  <2> QED BY <1>0, <1>8, <2>1, SubscribeOrder, CountsStay
<1>9. ASSUME NEW t \in Topics, Unsubscribe(s, t) PROVE PSInv'
  <2>1. IsFiniteSet(topics') /\ UNCHANGED <<ref, queue, held, sticky, cur, leaked>>
    BY <1>0, <1>9 DEF Unsubscribe, TopicsLeft, lockVars, countVars
  <2> QED BY <1>9, <2>1, UnsubscribeOrder, CountsStay
<1>10. CASE Flush(s)
  BY <1>10, FlushOrder, FlushCounts
<1>11. CASE Forget(s)
  BY <1>11, ForgetOrder, ForgetCounts
<1> QED BY <1>1, <1>2, <1>3, <1>4, <1>5, <1>6, <1>7, <1>8, <1>9, <1>10, <1>11 DEF OwnerStep

LEMMA PSNextInv == PSInv /\ [PSNext]_psvars => PSInv'
<1> SUFFICES ASSUME PSInv, [PSNext]_psvars PROVE PSInv'
  OBVIOUS
<1> USE DEF PSInv
<1>1. ASSUME NEW t \in Topics, NEW k \in BOOLEAN, NEW r \in BOOLEAN, Publish(t, k, r) PROVE PSInv'
  BY <1>1, PublishOrder, PublishCounts
<1>2. CASE PushNext
  BY <1>2, PushNextOrder, PushNextCounts
<1>3. CASE NextLevel
  <2>1. IsFiniteSet(topics') /\ UNCHANGED <<ref, queue, held, sticky, cur, leaked>>
    BY <1>3 DEF NextLevel, topicVars, countVars, Counts, FinitelyHeld
  <2> QED BY <1>3, <2>1, NextLevelOrder, CountsStay
<1>4. CASE Unlock
  BY <1>4, UnlockOrder, UnlockCounts
<1>5. ASSUME NEW t \in Topics, ps_clean_sticky(t) PROVE PSInv'
  BY <1>5, CleanStickyOrder, CleanStickyCounts
<1>6. ASSUME NEW s \in Subs, OwnerStep(s) PROVE PSInv'
  BY <1>6, OwnerStepInv
<1>7. CASE UNCHANGED psvars
  <2> USE <1>7 DEF psvars, topicVars, lockVars, countVars
  <2>1. Shapes' /\ OnlyPublished' /\ LockHeld' /\ WorkIsLatest' /\ WorkHeld'
    BY DEF Order, Shapes, OnlyPublished, LockHeld, WorkIsLatest, WorkHeld, Published
  <2>2. FreedIsUnknown'
    BY DEF Order, FreedIsUnknown, InList
  <2>3. Order'
    BY <2>1, <2>2, MapUnchanged, CountsUnchanged, QueuesUnchanged DEF Order
  <2>4. IsFiniteSet(topics')
    BY DEF Counts, FinitelyHeld
  <2>5. Counts'
    BY <2>4, CountsStay
  <2> QED BY <2>3, <2>5
<1> QED BY <1>1, <1>2, <1>3, <1>4, <1>5, <1>6, <1>7 DEF PSNext

\* The inductive invariant: the order of messages, the life of subscribers, the counts.
THEOREM PSInvariant == PSSpec => []PSInv
<1>1. PSInit => PSInv
  BY PSInitInv
<1>2. PSInv /\ [PSNext]_psvars => PSInv'
  BY PSNextInv
<1> QED BY <1>1, <1>2, PTL DEF PSSpec

-----------------------------------------------------------------------------
(* The properties of the run.                                              *)

\* Every variable stays in its range, however many topics, subscribers and messages
\* there are; in particular no count of references is ever given back below zero.
THEOREM PSTypesCorrect == PSSpec => []PSTypeOK
<1>1. PSInv => PSTypeOK
  BY DEF PSInv, Order, Counts, Shapes, PSTypeOK, Entries, Work
<1> QED BY <1>1, PSInvariant, PTL

\* The count of every message is the number of its holders: the places in queues, the
\* sticky slot, the owners that have got it and the publisher (ps_ref_msg, ps_unref_msg).
THEOREM RefsAreExact == PSSpec => []RefsExact
<1>1. PSInv => RefsExact
  BY DEF PSInv, Counts
<1> QED BY <1>1, PSInvariant, PTL

LEMMA QueuesOrdered == Order => TopicInOrder
<1> SUFFICES ASSUME Order, NEW s \in Subs
             PROVE LET q == IF held[s] = NoMsg THEN queue[s] ELSE <<held[s]>> \o queue[s] IN
                   \A i, j \in 1 .. Len(q) : i < j /\ sent[q[i]] = sent[q[j]] => q[i] <= q[j]
  BY DEF TopicInOrder
<1> USE DEF Order
<1> DEFINE l == queue[s]
           h == held[s]
           q == <<h>> \o l
<1>1. /\ l \in Seq(Msgs) /\ Len(l) \in Nat
      /\ \A i, j \in 1 .. Len(l) : i < j /\ sent[l[i]] = sent[l[j]] => l[i] <= l[j]
  BY LenProperties DEF Shapes, QueuesInOrder
<1>2. CASE h = NoMsg
  BY <1>1, <1>2
<1>3. CASE h # NoMsg
  <2>1. h \in Msgs /\ \A i \in 1 .. Len(l) : sent[h] = sent[l[i]] => h <= l[i]
    BY <1>3 DEF Shapes, QueuesInOrder
  <2>2. /\ Len(q) = Len(l) + 1 /\ q[1] = h
        /\ \A i \in 2 .. Len(l) + 1 : q[i] = l[i - 1]
    <3>1. <<h>> \in Seq(Msgs) /\ Len(<<h>>) = 1 /\ <<h>>[1] = h
      BY <2>1
    <3> HIDE DEF l, h
    <3>2. /\ Len(q) = 1 + Len(l)
          /\ \A i \in 1 .. 1 + Len(l) : q[i] = IF i <= 1 THEN <<h>>[i] ELSE l[i - 1]
      BY <1>1, <3>1, ConcatProperties
    <3> QED BY <1>1, <3>1, <3>2
  <2> HIDE DEF l, h, q
  <2>3. \A i, j \in 1 .. Len(q) : i < j /\ sent[q[i]] = sent[q[j]] => q[i] <= q[j]
    <3> SUFFICES ASSUME NEW i \in 1 .. Len(q), NEW j \in 1 .. Len(q), i < j, sent[q[i]] = sent[q[j]]
                 PROVE  q[i] <= q[j]
      OBVIOUS
    <3>1. j \in 2 .. Len(l) + 1 /\ j - 1 \in 1 .. Len(l) /\ q[j] = l[j - 1]
      BY <1>1, <2>2
    <3>2. CASE i = 1
      BY <2>1, <2>2, <3>1, <3>2
    <3>3. CASE i # 1
      <4>1. i - 1 \in 1 .. Len(l) /\ q[i] = l[i - 1] /\ i - 1 < j - 1
        BY <1>1, <2>2, <3>3
      <4> QED BY <1>1, <3>1, <4>1
    <3> QED BY <3>2, <3>3
  <2> QED BY <1>3, <2>3 DEF l, h, q
<1> QED BY <1>2, <1>3

\* What a subscriber gets of one topic is in the order of publication, whatever the
\* publishers, the other owners and its own subscriptions do in between.
THEOREM TopicsInOrder == PSSpec => []TopicInOrder
<1>1. PSInv => TopicInOrder
  BY QueuesOrdered DEF PSInv
<1> QED BY <1>1, PSInvariant, PTL

\* A sticky message is the last one that was published to its topic.
THEOREM StickyLatest == PSSpec => []StickyIsLatest
<1>1. PSInv => StickyIsLatest
  BY DEF PSInv, Order
<1> QED BY <1>1, PSInvariant, PTL

\* The map has the topics that are subscribed to or have a sticky message, no others.
THEOREM TopicsAreExact == PSSpec => []TopicsExact
<1>1. PSInv => TopicsExact
  BY DEF PSInv, Order
<1> QED BY <1>1, PSInvariant, PTL

\* A subscriber that is being freed is on no list and no push to it is left, and nothing
\* is left in its queue when it has been deleted.
THEOREM FreedUnknown == PSSpec => []FreedIsUnknown
<1>1. PSInv => FreedIsUnknown
  BY DEF PSInv, Order
<1> QED BY <1>1, PSInvariant, PTL

\* What the counter of a subscriber says is what has been dropped and not reported,
\* although ps_overflow reads it and subtracts from it in two steps.
THEOREM OverflowIsConserved == PSSpec => []OverflowConserved
<1>1. PSInv => OverflowConserved
  BY DEF PSInv, Order
<1> QED BY <1>1, PSInvariant, PTL

-----------------------------------------------------------------------------
(* Freed messages.                                                         *)

\* Somebody can still use message m: it is in a queue, an owner has got it, it is the
\* sticky one of a topic, it is being published, or a push of it is still to come.
Usable(m) ==
    \/ \E s \in Subs : held[s] = m \/ \E i \in 1 .. Len(queue[s]) : queue[s][i] = m
    \/ \E t \in Topics : sticky[t] = m
    \/ cur = m
    \/ \E i \in 1 .. Len(work) : work[i].msg = m

UsableIsAlive == \A m \in Msgs : Usable(m) => ref[m] > 0

LEMMA InvUsable == PSInv => UsableIsAlive
<1> SUFFICES ASSUME PSInv, NEW m \in Msgs, Usable(m) PROVE ref[m] > 0
  BY DEF UsableIsAlive
<1> USE DEF PSInv
<1>1. /\ ref[m] = Cardinality(Places(m)) + Sticks(m) + Cardinality(Readers(m)) + Others(m)
      /\ Cardinality(Places(m)) \in Nat /\ Cardinality(Readers(m)) \in Nat
      /\ Sticks(m) \in Nat /\ Others(m) \in Nat
  BY HoldersNow DEF Counts, RefsExact
<1>2. IsFiniteSet(Places(m)) /\ IsFiniteSet(Readers(m))
  BY DEF Counts, FinitelyHeld
<1>3. ASSUME NEW s \in Subs, NEW i \in 1 .. Len(queue[s]), queue[s][i] = m PROVE ref[m] > 0
  <2>1. <<s, i>> \in Places(m)
    BY <1>3, PlaceOf
  <2>2. Cardinality(Places(m)) # 0
    BY <1>2, <2>1, FS_EmptySet
  <2> QED BY <1>1, <2>2
<1>4. ASSUME NEW s \in Subs, held[s] = m PROVE ref[m] > 0
  <2>1. s \in Readers(m)
    BY <1>4 DEF Readers
  <2>2. Cardinality(Readers(m)) # 0
    BY <1>2, <2>1, FS_EmptySet
  <2> QED BY <1>1, <2>2
<1>5. ASSUME NEW t \in Topics, sticky[t] = m PROVE ref[m] > 0
  <2>1. Sticks(m) = 1
    BY <1>5 DEF Sticks
  <2> QED BY <1>1, <2>1
<1>6. CASE cur = m
  <2>1. Others(m) >= 1
    BY <1>6 DEF Others, Order, Shapes
  <2> QED BY <1>1, <2>1
<1>7. ASSUME NEW i \in 1 .. Len(work), work[i].msg = m PROVE ref[m] > 0
  <2>1. cur = m \/ \E t \in Topics : sticky[t] = m
    BY <1>7 DEF Order, WorkHeld
  <2> QED BY <1>5, <1>6, <2>1
<1> QED BY <1>3, <1>4, <1>5, <1>6, <1>7 DEF Usable

\* Nobody can use a message that has been freed: whoever can still get at it has a
\* reference, the pushes that the holder of the lock has still to do included.
THEOREM FreedIsUnused == PSSpec => []UsableIsAlive
BY InvUsable, PSInvariant, PTL

\* A message that has been freed is never referred to again.
NoSecondLife == \A m \in Published : ref[m] = 0 => ref'[m] = 0

LEMMA StepNoSecondLife == PSInv /\ [PSNext]_psvars => NoSecondLife
<1> SUFFICES ASSUME PSInv, [PSNext]_psvars, NEW m \in Published, ref[m] = 0 PROVE ref'[m] = 0
  BY DEF NoSecondLife
<1>1. m \in Msgs /\ ref \in [Msgs -> Nat] /\ ~Usable(m) /\ m # NoMsg
  <2>1. m \in Msgs
    BY LenProperties, PubSubAssumption DEF PSInv, Order, Shapes, Published, Msgs
  <2> QED BY <2>1, InvUsable, NoMsgIsNone DEF PSInv, Counts, UsableIsAlive
<1>2. /\ \A s \in Subs : held[s] # m
      /\ \A t \in Topics : sticky[t] # m
      /\ cur # m
  BY <1>1 DEF Usable
<1>3. \A ms : m \notin ms => Unref(ref, ms)[m] = ref[m]
  BY <1>1 DEF Unref
<1>4. ASSUME NEW t \in Topics, NEW k \in BOOLEAN, NEW r \in BOOLEAN, Publish(t, k, r)
      PROVE  ref'[m] = 0
  <2>1. m # Len(sent) + 1 /\ m \notin {sticky[t]} \ {NoMsg}
    BY <1>2, LenProperties DEF PSInv, Order, Shapes, Published
  <2>2. ref' = Unref([ref EXCEPT ![Len(sent) + 1] = IF k THEN 2 ELSE 1], {sticky[t]} \ {NoMsg})
    BY <1>4 DEF Publish
  <2> QED BY <1>1, <2>1, <2>2 DEF Unref
<1>5. CASE PushNext
  <2>1. 1 \in 1 .. Len(work) /\ Head(work) = work[1]
    BY <1>5, TailBy DEF PushNext, PSInv, Order, Shapes
  <2>2. Head(work).msg # m
    BY <1>1, <2>1 DEF Usable
  <2>3. ref' = ref \/ ref' = [ref EXCEPT ![Head(work).msg] = @ + 1]
    BY <1>5 DEF PushNext, PushOne
  <2> QED BY <1>1, <2>2, <2>3
<1>6. CASE NextLevel
  BY <1>6 DEF NextLevel
<1>7. CASE Unlock
  BY <1>2, <1>3, <1>7 DEF Unlock
<1>8. ASSUME NEW t \in Topics, ps_clean_sticky(t) PROVE ref'[m] = 0
  <2>1. topics \subseteq Topics
    BY DEF PSInv, Order, Shapes
  <2>2. PICK ms \in SUBSET {sticky[u] : u \in topics} : ref' = Unref(ref, ms)
    BY <1>8 DEF ps_clean_sticky
  <2>3. m \notin ms
    BY <1>2, <2>1, <2>2
  <2> QED BY <1>3, <2>2, <2>3
<1>9. ASSUME NEW s \in Subs, OwnerStep(s) PROVE ref'[m] = 0
  <2>1. ref' = ref \/ ref' = Unref(ref, {held[s]}) \/ (Flush(s) /\ ref' = Unref(ref, {Head(queue[s])}))
    BY <1>9 DEF OwnerStep, Get, Flush, GiveBack, Forget, OverflowRead, OverflowReset, FreeBegin, FreeEnd, New,
               Subscribe, Unsubscribe
  <2>2. m \notin {held[s]}
    BY <1>2
  <2>3. CASE Flush(s)
    <3>1. 1 \in 1 .. Len(queue[s]) /\ Head(queue[s]) = queue[s][1]
      <4>1. queue[s] \in Seq(Msgs) /\ queue[s] # <<>>
        BY <2>3 DEF Flush, PSInv, Order, Shapes
      <4> QED BY <4>1, TailBy
    <3>2. m \notin {Head(queue[s])}
      BY <1>1, <3>1 DEF Usable
    <3> QED BY <1>3, <2>3, <3>2 DEF Flush
  <2> QED BY <1>3, <2>1, <2>2, <2>3
<1>10. CASE UNCHANGED psvars
  BY <1>10 DEF psvars
<1> QED BY <1>4, <1>5, <1>6, <1>7, <1>8, <1>9, <1>10 DEF PSNext

\* No step takes a reference to a message that has been freed (ps_ref_msg), whatever
\* the pushes of a publication race with.
THEOREM FreedStaysFreed == PSSpec => [][NoSecondLife]_psvars
<1>1. PSInv /\ [PSNext]_psvars => NoSecondLife
  BY StepNoSecondLife
<1> QED BY <1>1, PSInvariant, PTL DEF PSSpec
=============================================================================
