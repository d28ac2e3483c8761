-------------------------- MODULE MCResolverCycle --------------------------
(***************************************************************************)
(* Instances of ResolverCycle for TLC: the chain of ticks of one scheduler *)
(* on two pool threads, and a revive beside one pool thread.               *)
(***************************************************************************)
EXTENDS ResolverCycle
=============================================================================
