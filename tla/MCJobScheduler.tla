--------------------------- MODULE MCJobScheduler ---------------------------
(***************************************************************************)
(* Instances of JobScheduler for TLC.  A cap of 1 makes every branch of    *)
(* _guarded reachable in a few runs; loops meet only in the listener.      *)
(***************************************************************************)
EXTENDS JobScheduler
=============================================================================
