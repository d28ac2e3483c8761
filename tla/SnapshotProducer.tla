-------------------------- MODULE SnapshotProducer --------------------------
(***************************************************************************)
(* What the score snapshot producer promises to whoever watches it: at     *)
(* most one tick is active, it has one run with an id of its own, and a    *)
(* scoring row in the cycle summary is that run's, with a mark that        *)
(* changes as the run advances.  A scoring row of no active run was left   *)
(* by a process that ended.  Any tick may replace a row by one that is not *)
(* a scoring row.                                                          *)
(*                                                                         *)
(* ScoreSnapshots implements this; LoopStallGuard is built on it.          *)
(***************************************************************************)
EXTENDS Naturals

CONSTANTS Runs,     \* ids of runs
          Marks     \* progress marks

ASSUME IdsAssumption == Runs \subseteq Nat \ {0} /\ Marks \subseteq Nat \ {0}

VARIABLES
    active,         \* a tick or its build is active
    run,            \* the run of the active tick; 0: none, or not begun
    row             \* the cycle summary: a scoring row of a run, or any other

producerVars == <<active, run, row>>

NoRow == [run |-> 0, mark |-> 0]
Row   == [run : Runs \cup {0}, mark : Marks \cup {0}]   \* run 0: not a scoring row

ProducerTypeOK == active \in BOOLEAN /\ run \in Runs \cup {0} /\ row \in Row

ProducerInit == active = FALSE /\ run = 0 /\ row = NoRow

\* _tick_body takes the flag ...
TakeTick == ~active /\ active' = TRUE /\ UNCHANGED <<run, row>>

\* ... and writes the first row of a new run, which has no progress yet.
BeginRun(r) ==
    /\ active /\ run = 0 /\ r # row.run
    /\ run' = r /\ row' = [run |-> r, mark |-> 0]
    /\ UNCHANGED active

AdvanceRun(m) ==
    /\ active /\ run # 0
    /\ row' = [run |-> run, mark |-> m]
    /\ UNCHANGED <<active, run>>

\* The summary of a skipped tick, or of a tick that is over.
CloseRow == row' = NoRow /\ UNCHANGED <<active, run>>

EndTick == active /\ run # 0 /\ active' = FALSE /\ run' = 0 /\ UNCHANGED row

\* The process ends at any time; the row stays.
EndProcess == active' = FALSE /\ run' = 0 /\ UNCHANGED row

ProducerNext ==
    \/ TakeTick
    \/ \E r \in Runs : BeginRun(r)
    \/ \E m \in Marks : AdvanceRun(m)
    \/ CloseRow
    \/ EndTick
    \/ EndProcess

ProducerSpec == ProducerInit /\ [][ProducerNext]_producerVars
=============================================================================
