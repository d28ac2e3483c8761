---------------------------- MODULE HeavyJobGate ----------------------------
(***************************************************************************)
(* The process-wide slot of internal/heavy_job_gate.py.  A caller enters   *)
(* `with heavy_job_slot(name)`; it is told True when nobody was inside and *)
(* False otherwise, and never waits.                                       *)
(*                                                                         *)
(* holder stands for the pair (_held, _holder); inside is the set of the   *)
(* callers between `yield True` and the end of their `finally`.            *)
(***************************************************************************)
CONSTANTS Callers,   \* threads that use the slot
          Free       \* the value of holder when _held is False

VARIABLES holder, inside

gateVars == <<holder, inside>>

GateInit == holder = Free /\ inside = {}

\* `_held` was False: take it and run the body.
Acquire(c) ==
    /\ holder = Free
    /\ holder' = c
    /\ inside' = inside \cup {c}

\* `_held` was True: the body runs with acquired = False and owns nothing.
Reject(c) ==
    /\ holder # Free
    /\ UNCHANGED gateVars

\* The `finally` of a caller that got in.  The code does not look at who
\* holds the slot: it clears it.
Release(c) ==
    /\ c \in inside
    /\ holder' = Free
    /\ inside' = inside \ {c}

GateNext == \E c \in Callers : Acquire(c) \/ Reject(c) \/ Release(c)

GateSpec == GateInit /\ [][GateNext]_gateVars

\* Whoever is inside is the holder, so two callers are never inside at once
\* and an unconditional clear can only clear the caller's own entry.
OneInside == inside = IF holder = Free THEN {} ELSE {holder}
=============================================================================
