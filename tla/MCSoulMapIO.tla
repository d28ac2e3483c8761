----------------------------- MODULE MCSoulMapIO -----------------------------
(***************************************************************************)
(* Instances of SoulMapIO for TLC: a web process that writes and reads,    *)
(* and, where it is given a thread, a second process that reads.           *)
(***************************************************************************)
EXTENDS SoulMapIO

CONSTANTS web, other, reader2

Processes == [t \in Threads |-> IF t = reader2 THEN other ELSE web]
=============================================================================
