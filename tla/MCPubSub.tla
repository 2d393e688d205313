------------------------------ MODULE MCPubSub ------------------------------
(***************************************************************************)
(* Model checking of PubSub: a topic and its prefix, two subscribers with  *)
(* queues of different lengths, and a few publications, sticky and not.    *)
(***************************************************************************)
EXTENDS PubSub

MCLevels == [t \in {"a", "a.b"} |-> IF t = "a" THEN <<"a">> ELSE <<"a.b", "a">>]
MCQueueSize == [s \in Subs |-> IF s = "s1" THEN 2 ELSE 1]

\* One subscribes to the prefix, with no flag or with those that replay the sticky
\* messages of its children; the other to both topics, with "eS".
MCFlags == [s \in Subs |-> [t \in Topics |->
    IF s = "s2" THEN {[onEmpty |-> TRUE, own |-> TRUE, children |-> TRUE]}
    ELSE IF t = "a" THEN {[onEmpty |-> FALSE, own |-> b, children |-> b] : b \in BOOLEAN}
    ELSE {}]]

\* The other is read as antiThelSub is: it forgets messages, and is flushed by a task that
\* does not own it.
MCCalls == [s \in Subs |-> IF s = "s1" THEN {"overflow", "unsubscribe", "free"}
                            ELSE {"forget", "flush"}]
=============================================================================
