-------------------------- MODULE MCScoreSnapshots --------------------------
(***************************************************************************)
(* Instance of ScoreSnapshots for TLC: boot, a revive, a shutdown and one  *)
(* restart of the worker.                                                  *)
(***************************************************************************)
EXTENDS ScoreSnapshots
=============================================================================
