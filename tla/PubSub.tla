------------------------------- MODULE PubSub -------------------------------
(***************************************************************************)
(* The publish/subscribe bus, LIB/pubsub_lib/pubsub.c, as the firmware     *)
(* builds it (PS_FREE_RTOS).                                               *)
(*                                                                         *)
(* Topics, subscriber lists and sticky messages are under one mutex.  The  *)
(* queues of the subscribers are FreeRTOS queues that their owners empty   *)
(* without it, and a message is freed by whoever drops its last reference. *)
(* So the steps of a publication - one per queue it pushes to - interleave *)
(* with the owners' ps_get, ps_unref_msg, ps_flush and ps_overflow, and    *)
(* with the ps_flush of a task that is not the owner.                      *)
(*                                                                         *)
(* Not every owner gives back what it gets: getAntiThelsSts returns on     *)
(* Disarm and on Arm without ps_unref_msg (pwrmanage_apl.c:163-170), and   *)
(* the message is never freed.  Forget is that return.                     *)
(*                                                                         *)
(* A message is known by its place in the order of publication.  ps_call   *)
(* and ps_wait_one are sequences of the operations below, on a subscriber  *)
(* of one topic with a queue of length 1; how many receivers ps_publish    *)
(* counted, which only ps_call asks, and hidden subscribers, which only    *)
(* change that count, are left out.                                        *)
(***************************************************************************)
EXTENDS Integers, Sequences, FiniteSets

CONSTANTS
    Topics,       \* the names of topics
    Levels,       \* for each topic: itself and its prefixes, longest first
    Subs,         \* the subscribers, and the tasks that own them
    QueueSize,    \* the length of each subscriber's queue
    SubFlags,     \* bound: the flags each subscriber subscribes to a topic with, if it does
    Calls,        \* bound: what each owner calls besides subscribing and reading
    MaxMsgs,      \* bound: how many messages are published
    MaxDrops,     \* bound: a subscriber that has dropped as many subscribes no more
    NoMsg         \* no message

ASSUME PubSubAssumption ==
    /\ Levels \in [Topics -> Seq(Topics)]
    /\ \A t \in Topics : Len(Levels[t]) > 0 /\ Levels[t][1] = t
    /\ QueueSize \in [Subs -> Nat \ {0}]
    /\ SubFlags \in
         [Subs -> [Topics -> SUBSET [onEmpty : BOOLEAN, own : BOOLEAN, children : BOOLEAN]]]
    /\ Calls \in [Subs -> SUBSET {"overflow", "unsubscribe", "free", "flush", "forget"}]
    /\ MaxMsgs \in Nat /\ MaxDrops \in Nat
    /\ NoMsg = 0

Msgs == 1 .. MaxMsgs

VARIABLES
    lists,     \* tm->subscribers of each topic
    sticky,    \* tm->sticky
    topics,    \* topic_map: the topics that have an entry
    queue,     \* su->q
    overflow,  \* su->overflow
    reading,   \* what ps_overflow has read and not subtracted yet, or -1
    held,      \* the message the owner has got and not given back
    life,      \* the subscriber: "none", "live", "leaving" (ps_free_subscriber), "dead"
    ref,       \* msg->_ref; 0 once the message is freed
    locked,    \* lock
    cur,       \* the message ps_publish is working on
    levels,    \* the prefixes of its topic it has still to go through
    work,      \* the pushes the holder of the lock has still to do
    sent,      \* the topics of the messages published so far (history)
    leaked,    \* the references of each message that an owner has forgotten (history)
    owed       \* messages that did not fit and ps_overflow has not reported (history)

lockVars == <<locked, cur, levels, work>>
topicVars == <<lists, sticky, topics>>
countVars == <<overflow, reading, owed, leaked>>
psvars == <<topicVars, queue, held, life, ref, lockVars, sent, countVars>>

Published == 1 .. Len(sent)

-----------------------------------------------------------------------------
(* Helpers.                                                                *)

Levelled(t, p) == \E i \in 1 .. Len(Levels[t]) : Levels[t][i] = p

InList(l, s) == \E i \in 1 .. Len(l) : l[i].su = s

\* DL_SEARCH_SCALAR and DL_DELETE: the entry of s goes.
Without(l, s) ==
    IF InList(l, s)
    THEN LET k == CHOOSE i \in 1 .. Len(l) : l[i].su = s
         IN  SubSeq(l, 1, k - 1) \o SubSeq(l, k + 1, Len(l))
    ELSE l

\* Mutant of TopicsLeft: a topic without subscribers goes, sticky message or not.
TopicsListed(ts, ls, st) == {t \in ts : ls[t] # <<>>}

\* free_topic_if_empty
TopicsLeft(ts, ls, st) == {t \in ts : ls[t] # <<>> \/ st[t] # NoMsg}

\* ps_unref_msg on every message of a set of distinct messages.
Unref(r, ms) == [m \in DOMAIN r |-> IF m \in ms THEN r[m] - 1 ELSE r[m]]

\* The pushes of message m to everyone on a list.
Pushes(l, m) == [i \in 1 .. Len(l) |-> [su |-> l[i].su, msg |-> m, onEmpty |-> l[i].onEmpty]]

-----------------------------------------------------------------------------
(* ps_publish: the lock is taken, the sticky message of the topic replaced *)
(* or dropped, then every subscriber of the topic and of its prefixes gets *)
(* the message pushed, and the publisher's reference is given back.        *)

\* Mutant of StickyAfter: a message that is not sticky leaves the sticky one.
StickyStays(t, isSticky) == [sticky EXCEPT ![t] = IF isSticky THEN Len(sent) + 1 ELSE @]

StickyAfter(t, isSticky) == [sticky EXCEPT ![t] = IF isSticky THEN Len(sent) + 1 ELSE NoMsg]

Publish(t, isSticky, recursive) ==
    /\ ~locked /\ Len(sent) < MaxMsgs
    /\ LET m == Len(sent) + 1 IN
       /\ sent' = Append(sent, t)
       /\ cur' = m
       /\ ref' = Unref([ref EXCEPT ![m] = IF isSticky THEN 2 ELSE 1], {sticky[t]} \ {NoMsg})
       /\ sticky' = StickyAfter(t, isSticky)
       /\ topics' = IF isSticky THEN topics \union {t} ELSE TopicsLeft(topics, lists, sticky')
       /\ work' = Pushes(lists[t], m)
       /\ levels' = IF recursive THEN Tail(Levels[t]) ELSE <<>>
    /\ locked' = TRUE
    /\ UNCHANGED <<lists, queue, held, life, countVars>>

\* Mutant of PushOne: the reference taken for a queue that is full is kept.
PushOneKeeps(e) ==
    IF Len(queue[e.su]) >= QueueSize[e.su]
    THEN /\ overflow' = [overflow EXCEPT ![e.su] = @ + 1]
         /\ owed' = [owed EXCEPT ![e.su] = @ + 1]
         /\ ref' = [ref EXCEPT ![e.msg] = @ + 1]
         /\ UNCHANGED queue
    ELSE /\ queue' = [queue EXCEPT ![e.su] = Append(@, e.msg)]
         /\ ref' = [ref EXCEPT ![e.msg] = @ + 1]
         /\ UNCHANGED <<overflow, owed>>

\* push_subscriber_queue
PushOne(e) ==
    IF Len(queue[e.su]) >= QueueSize[e.su]
    THEN /\ overflow' = [overflow EXCEPT ![e.su] = @ + 1]
         /\ owed' = [owed EXCEPT ![e.su] = @ + 1]
         /\ UNCHANGED <<queue, ref>>
    ELSE /\ queue' = [queue EXCEPT ![e.su] = Append(@, e.msg)]
         /\ ref' = [ref EXCEPT ![e.msg] = @ + 1]
         /\ UNCHANGED <<overflow, owed>>

PushNext ==
    /\ locked /\ work # <<>>
    /\ LET e == Head(work) IN
       IF e.onEmpty /\ queue[e.su] # <<>>
       THEN UNCHANGED <<queue, ref, overflow, owed>>
       ELSE PushOne(e)
    /\ work' = Tail(work)
    /\ UNCHANGED <<topicVars, held, life, locked, cur, levels, sent, reading, leaked>>

NextLevel ==
    /\ locked /\ work = <<>> /\ levels # <<>>
    /\ work' = Pushes(lists[Head(levels)], cur)
    /\ levels' = Tail(levels)
    /\ UNCHANGED <<topicVars, queue, held, life, ref, locked, cur, sent, countVars>>

Unlock ==
    /\ locked /\ work = <<>> /\ levels = <<>>
    /\ locked' = FALSE
    /\ cur' = NoMsg
    /\ ref' = Unref(ref, {cur} \ {NoMsg})
    /\ UNCHANGED <<topicVars, queue, held, life, levels, work, sent, countVars>>

-----------------------------------------------------------------------------
(* Subscribing.                                                            *)

\* The owner of s is between two calls.
Owner(s) == life[s] = "live" /\ reading[s] = -1

\* The sticky messages a new subscriber of t is sent, in the order the map has them.
Replay(t, f) == {p \in topics :
    sticky[p] # NoMsg /\ IF f.children THEN f.own /\ Levelled(p, t) ELSE f.own /\ p = t}

\* A second subscription to a topic is refused and changes nothing.
Subscribe(s, t, f) ==
    /\ ~locked /\ Owner(s) /\ ~InList(lists[t], s) /\ overflow[s] < MaxDrops
    /\ lists' = [lists EXCEPT ![t] = Append(@, [su |-> s, onEmpty |-> f.onEmpty])]
    /\ topics' = topics \union {t}
    /\ \E order \in [1 .. Cardinality(Replay(t, f)) -> Replay(t, f)] :
         /\ \A p \in Replay(t, f) : \E i \in DOMAIN order : order[i] = p
         /\ work' = [i \in DOMAIN order |->
                       [su |-> s, msg |-> sticky[order[i]], onEmpty |-> FALSE]]
    /\ locked' = TRUE
    /\ UNCHANGED <<sticky, queue, held, life, ref, cur, levels, sent, countVars>>

Unsubscribe(s, t) ==
    /\ ~locked /\ Owner(s) /\ InList(lists[t], s)
    /\ lists' = [lists EXCEPT ![t] = Without(@, s)]
    /\ topics' = TopicsLeft(topics, lists', sticky)
    /\ UNCHANGED <<sticky, queue, held, life, ref, lockVars, sent, countVars>>

ps_clean_sticky(prefix) ==
    LET cleaned == {t \in topics : Levelled(t, prefix) /\ sticky[t] # NoMsg} IN
    /\ ~locked
    /\ cleaned # {}
    /\ ref' = Unref(ref, {sticky[t] : t \in cleaned})
    /\ sticky' = [t \in Topics |-> IF t \in cleaned THEN NoMsg ELSE sticky[t]]
    /\ topics' = TopicsLeft(topics, lists, sticky')
    /\ UNCHANGED <<lists, queue, held, life, lockVars, sent, countVars>>

-----------------------------------------------------------------------------
(* What the owner of a subscriber does without the lock.                   *)

\* ps_get
Get(s) ==
    /\ life[s] = "live" /\ reading[s] = -1 /\ held[s] = NoMsg /\ queue[s] # <<>>
    /\ held' = [held EXCEPT ![s] = Head(queue[s])]
    /\ queue' = [queue EXCEPT ![s] = Tail(@)]
    /\ UNCHANGED <<topicVars, life, ref, lockVars, sent, countVars>>

\* One turn of ps_flush: a message is pulled and given back at once.  The owner flushes
\* the queue it deletes; another task may flush one that is in use (antiThelSub).
Flush(s) ==
    /\ life[s] = "leaving" \/ (life[s] = "live" /\ "flush" \in Calls[s])
    /\ queue[s] # <<>>
    /\ ref' = Unref(ref, {Head(queue[s])})
    /\ queue' = [queue EXCEPT ![s] = Tail(@)]
    /\ UNCHANGED <<topicVars, held, life, lockVars, sent, countVars>>

\* Mutant of GiveBack: the owner forgets that it has given the message back.
GiveBackAgain(s) ==
    /\ held[s] # NoMsg
    /\ ref' = Unref(ref, {held[s]})
    /\ UNCHANGED <<topicVars, queue, held, life, lockVars, sent, countVars>>

GiveBack(s) ==
    /\ held[s] # NoMsg
    /\ ref' = Unref(ref, {held[s]})
    /\ held' = [held EXCEPT ![s] = NoMsg]
    /\ UNCHANGED <<topicVars, queue, life, lockVars, sent, countVars>>

\* getAntiThelsSts: the owner returns without giving the message back.
Forget(s) ==
    /\ "forget" \in Calls[s] /\ held[s] # NoMsg
    /\ leaked' = [leaked EXCEPT ![held[s]] = @ + 1]
    /\ held' = [held EXCEPT ![s] = NoMsg]
    /\ UNCHANGED <<topicVars, queue, life, ref, lockVars, sent, overflow, reading, owed>>

\* ps_overflow reads the counter, and subtracts what it has read.
OverflowRead(s) ==
    /\ Owner(s) /\ overflow[s] > 0
    /\ reading' = [reading EXCEPT ![s] = overflow[s]]
    /\ UNCHANGED <<topicVars, queue, held, life, ref, lockVars, sent, overflow, owed, leaked>>

\* Mutant of OverflowReset: the counter is set to 0.
OverflowCleared(s) ==
    /\ reading[s] # -1
    /\ overflow' = [overflow EXCEPT ![s] = 0]
    /\ owed' = [owed EXCEPT ![s] = @ - reading[s]]
    /\ reading' = [reading EXCEPT ![s] = -1]
    /\ UNCHANGED <<topicVars, queue, held, life, ref, lockVars, sent, leaked>>

OverflowReset(s) ==
    /\ reading[s] # -1
    /\ overflow' = [overflow EXCEPT ![s] = @ - reading[s]]
    /\ owed' = [owed EXCEPT ![s] = @ - reading[s]]
    /\ reading' = [reading EXCEPT ![s] = -1]
    /\ UNCHANGED <<topicVars, queue, held, life, ref, lockVars, sent, leaked>>

\* Mutant of UnsubscribeAll: the subscriptions stay until the queue has been emptied.
UnsubscribeLater(s) ==
    /\ UNCHANGED <<lists, topics>>
    /\ ~locked

UnsubscribeAll(s) ==
    /\ ~locked
    /\ lists' = [t \in Topics |-> Without(lists[t], s)]
    /\ topics' = TopicsLeft(topics, lists', sticky)

\* ps_free_subscriber: the subscriptions go under the lock; then the queue is emptied
\* (Flush) and deleted.  The owner may still hold a message it has got (ps_call and
\* ps_wait_one return it after they have freed the subscriber).
FreeBegin(s) ==
    /\ Owner(s)
    /\ UnsubscribeAll(s)
    /\ life' = [life EXCEPT ![s] = "leaving"]
    /\ UNCHANGED <<sticky, queue, held, ref, lockVars, sent, countVars>>

FreeEnd(s) ==
    /\ life[s] = "leaving" /\ queue[s] = <<>>
    /\ life' = [life EXCEPT ![s] = "dead"]
    /\ UNCHANGED <<topicVars, queue, held, ref, lockVars, sent, countVars>>

\* ps_new_subscriber; its subscriptions follow.
New(s) ==
    /\ life[s] = "none"
    /\ life' = [life EXCEPT ![s] = "live"]
    /\ UNCHANGED <<topicVars, queue, held, ref, lockVars, sent, countVars>>

-----------------------------------------------------------------------------
PSInit ==
    /\ lists = [t \in Topics |-> <<>>] /\ sticky = [t \in Topics |-> NoMsg] /\ topics = {}
    /\ queue = [s \in Subs |-> <<>>] /\ held = [s \in Subs |-> NoMsg]
    /\ life = [s \in Subs |-> "none"]
    /\ overflow = [s \in Subs |-> 0] /\ reading = [s \in Subs |-> -1]
    /\ owed = [s \in Subs |-> 0]
    /\ ref = [m \in Msgs |-> 0] /\ leaked = [m \in Msgs |-> 0] /\ sent = <<>>
    /\ locked = FALSE /\ cur = NoMsg /\ levels = <<>> /\ work = <<>>

OwnerStep(s) ==
    \/ Get(s) \/ Flush(s) \/ GiveBack(s) \/ Forget(s)
    \/ "overflow" \in Calls[s] /\ OverflowRead(s)
    \/ OverflowReset(s)
    \/ "free" \in Calls[s] /\ FreeBegin(s)
    \/ FreeEnd(s) \/ New(s)
    \/ \E t \in Topics : \E f \in SubFlags[s][t] : Subscribe(s, t, f)
    \/ "unsubscribe" \in Calls[s] /\ \E t \in Topics : Unsubscribe(s, t)

PSNext ==
    \/ \E t \in Topics, k, r \in BOOLEAN : Publish(t, k, r)
    \/ PushNext \/ NextLevel \/ Unlock
    \/ \E t \in Topics : ps_clean_sticky(t)
    \/ \E s \in Subs : OwnerStep(s)

\* The holder of the mutex runs (priorities are inherited); an owner finishes what it is
\* doing - one that forgets does nothing with what it holds - and its loop comes back to
\* ps_get, or to the next turn of ps_flush, whatever else it calls in between.
PSFairness ==
    /\ WF_psvars(PushNext \/ NextLevel \/ Unlock)
    /\ \A s \in Subs : /\ WF_psvars(GiveBack(s) \/ Forget(s)) /\ WF_psvars(OverflowReset(s))
                       /\ SF_psvars(Get(s) \/ Flush(s))

PSSpec == PSInit /\ [][PSNext]_psvars /\ PSFairness

-----------------------------------------------------------------------------
(* Properties.                                                             *)

PSTypeOK ==
    /\ lists \in [Topics -> Seq([su : Subs, onEmpty : BOOLEAN])]
    /\ sticky \in [Topics -> Msgs \union {NoMsg}] /\ topics \subseteq Topics
    /\ queue \in [Subs -> Seq(Msgs)] /\ held \in [Subs -> Msgs \union {NoMsg}]
    /\ life \in [Subs -> {"none", "live", "leaving", "dead"}]
    /\ overflow \in [Subs -> Nat] /\ reading \in [Subs -> Nat \union {-1}]
    /\ owed \in [Subs -> Nat] /\ leaked \in [Msgs -> Nat]
    /\ ref \in [Msgs -> Nat] /\ sent \in Seq(Topics) /\ Len(sent) <= MaxMsgs
    /\ locked \in BOOLEAN /\ cur \in Published \union {NoMsg}
    /\ levels \in Seq(Topics) /\ work \in Seq([su : Subs, msg : Msgs, onEmpty : BOOLEAN])

\* The places in queues where message m is; it may be in one queue more than once.
Places(m) == UNION {{s} \X {i \in 1 .. Len(queue[s]) : queue[s][i] = m} : s \in Subs}

\* The topics whose sticky message is m, and the owners that have got it.
StickyFor(m) == {t \in Topics : sticky[t] = m}
Readers(m) == {s \in Subs : held[s] = m}

\* Everything that refers to a message; the last ones are the publisher and the owners
\* that have forgotten it.
Holders(m) ==
    Cardinality(Places(m)) + Cardinality(StickyFor(m)) + Cardinality(Readers(m))
    + (IF cur = m THEN 1 ELSE 0) + leaked[m]

\* No message is used after it was freed, and none is lost but by an owner that forgets
\* it: the count of every message is the number of its holders (ps_ref_msg, ps_unref_msg and everyone who calls them).
RefsExact == \A m \in Msgs : ref[m] = Holders(m)

\* What a subscriber has got or will get of one topic is in the order of publication,
\* sticky messages it was sent when it subscribed included (ps_publish, ps_subscribe).
TopicInOrder ==
    \A s \in Subs :
        LET q == IF held[s] = NoMsg THEN queue[s] ELSE <<held[s]>> \o queue[s] IN
        \A i, j \in 1 .. Len(q) : i < j /\ sent[q[i]] = sent[q[j]] => q[i] <= q[j]

\* A sticky message is the last one of its topic, so that a new subscriber never starts
\* from an old one (pubsub.h: "Stores the las message sent to the topic").
StickyIsLatest ==
    \A t \in Topics : sticky[t] # NoMsg =>
        sent[sticky[t]] = t /\ \A m \in Published : sent[m] = t => m <= sticky[t]

\* An entry of the map is freed exactly when nobody needs it: no subscription and no
\* sticky message refers to a topic that is gone (free_topic_if_empty and its callers).
TopicsExact ==
    topics = {t \in Topics : lists[t] # <<>> \/ sticky[t] # NoMsg}

\* Nothing is pushed to a subscriber whose queue is being deleted
\* (ps_free_subscriber against ps_publish).
FreedIsUnknown ==
    \A s \in Subs :
        /\ life[s] # "live" => \A t \in Topics : ~InList(lists[t], s)
        /\ life[s] \in {"none", "dead"} => queue[s] = <<>>
        /\ life[s] # "live" => \A i \in 1 .. Len(work) : work[i].su # s

\* No dropped message is counted twice or forgotten while ps_overflow runs
\* (push_subscriber_queue against ps_overflow).
OverflowConserved == \A s \in Subs : owed[s] = overflow[s]

\* Every message is freed, or kept as the sticky one of its topic, or has been forgotten
\* by an owner, in which case it is never freed (the reference counts, with readers that
\* go on reading and one, getAntiThelsSts, that does not give back).
MessagesAreFreed ==
    \A m \in Msgs : (ref[m] > 0) ~>
        (ref[m] = 0 \/ leaked[m] > 0 \/ \E t \in Topics : sticky[t] = m)
=============================================================================
