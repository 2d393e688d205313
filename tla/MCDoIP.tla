------------------------------- MODULE MCDoIP -------------------------------
(***************************************************************************)
(* Values of the constants of DoIP that a configuration file cannot write. *)
(***************************************************************************)
EXTENDS DoIP

\* The shipped configuration, SoAd_Cfg.c: entry 0 is UDP, entry 1 is TCP, one
\* activation type, 0, and one target, 0x1111, reached by it.
MCShippedTcp == {1}
MCActivation == [i \in {0} |-> 0]
MCRelation == {<<0, 4369>>}

\* A server with two TCP entries on one port, as the table is meant to be used
\* for more than one tester.
MCTwoTcp == {0, 1}
MCPort == [i \in 0 .. 1 |-> 13400]
=============================================================================
