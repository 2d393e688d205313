------------------------------ MODULE MCRing ------------------------------
(***************************************************************************)
(* Model checking of RingBuffer: every position of the two pointers in a   *)
(* small buffer, and writes and reads of every length up to the whole of   *)
(* it and more, so that each can go around the end and each can be refused *)
(* or fall short.  In the firmware reads ask for 1000, 253 or 1 bytes, of  *)
(* buffers of 8192, 1023 and 4096.                                         *)
(***************************************************************************)
EXTENDS RingBuffer
=============================================================================
