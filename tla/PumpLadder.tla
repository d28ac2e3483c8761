------------------------------ MODULE PumpLadder ------------------------------
(***************************************************************************)
(* One subnet's row of the pump ladder: internal/pump/state.py and         *)
(* engine.py, with the entry thresholds that learning/pump_calibration.py  *)
(* moves.  Scores and thresholds are in hundredths.                        *)
(*                                                                         *)
(* A scan works on its copy of the file and saves the whole of it; the     *)
(* scheduler's own save (_persist_scheduler_meta) loads and saves the      *)
(* whole of it too, without a lock from one to the other.                  *)
(***************************************************************************)
EXTENDS Integers

CONSTANTS
    Scores,        \* composite scores a scan may see
    ConfirmScores  \* confirm scores

ASSUME ScoreAssumption == Scores \subseteq 0..100 /\ ConfirmScores \subseteq 0..100

VARIABLES
    row,         \* the subnet's phase, and whether PHASE_LOCK_MINUTES are still running
    meta,        \* the copy of the row that the scheduler's save has loaded
    stirring,    \* phase_entry["STIRRING"] as calibrated
    accumulating \* phase_entry["ACCUMULATING"]

entryV == <<stirring, accumulating>>
ladderVars == <<row, meta, entryV>>

PhaseOrder == <<"DORMANT", "STIRRING", "ACCUMULATING", "PUMPING", "COOLING">>
Phases == {PhaseOrder[i] : i \in 1..5}
PhaseIndex == [p \in Phases |-> CHOOSE i \in 1..5 : PhaseOrder[i] = p]

Row == [phase : Phases, locked : BOOLEAN]
NewRow == [phase |-> "DORMANT", locked |-> TRUE]

LadderTypeOK == row \in Row /\ meta \in Row /\ stirring \in 15..35 /\ accumulating \in 35..55

LadderInit == row = NewRow /\ meta = NewRow /\ stirring = 22 /\ accumulating = 42

(***************************************************************************)
(* Classification.                                                         *)
(***************************************************************************)
\* effective_phase_entry.
Entry == [p \in Phases |->
    CASE p = "DORMANT" -> 0 [] p = "STIRRING" -> stirring [] p = "ACCUMULATING" -> accumulating
      [] p = "PUMPING" -> 62 [] p = "COOLING" -> 30]

\* PHASE_EXIT_THRESHOLDS, which no calibration moves.  DORMANT has none.
Exit == [p \in Phases |->
    CASE p = "DORMANT" -> 101 [] p = "STIRRING" -> 15 [] p = "ACCUMULATING" -> 35
      [] p = "PUMPING" -> 52 [] p = "COOLING" -> 20]

WasPumping(current) == current \in {"PUMPING", "COOLING"}

\* The last forward phase whose entry the score reaches.
ForwardPhase(score) ==
    IF score >= Entry["PUMPING"] THEN "PUMPING"
    ELSE IF score >= Entry["ACCUMULATING"] THEN "ACCUMULATING"
    ELSE IF score >= Entry["STIRRING"] THEN "STIRRING" ELSE "DORMANT"

\* raw_phase_from_score.
RawPhase(score, current) ==
    IF WasPumping(current)
       /\ \/ score < Entry["PUMPING"] /\ score >= Entry["COOLING"]
          \/ ForwardPhase(score) = "ACCUMULATING" /\ score < 55
    THEN "COOLING" ELSE ForwardPhase(score)

\* Classify: PUMPING needs the confirm score, too.
Suggested(score, confirm, current) ==
    IF RawPhase(score, current) = "PUMPING" /\ confirm < 35
    THEN "ACCUMULATING" ELSE RawPhase(score, current)

(***************************************************************************)
(* _apply_hysteresis.                                                      *)
(***************************************************************************)
\* During the lock only a rise, or the end of a pump, is let through.
Held(r, suggested) ==
    /\ r.locked /\ r.phase # "DORMANT" /\ suggested # "COOLING"
    /\ PhaseIndex[suggested] <= PhaseIndex[r.phase]

\* Bug: a fall does not wait for the score to leave the exit band.
HysteresisNoExit(r, suggested, score) ==
    IF suggested = r.phase \/ Held(r, suggested) THEN r.phase
    ELSE IF PhaseIndex[suggested] > PhaseIndex[r.phase] + 1 /\ r.phase # "DORMANT"
         THEN PhaseOrder[PhaseIndex[r.phase] + 1] ELSE suggested

Hysteresis(r, suggested, score) ==
    IF suggested = r.phase \/ Held(r, suggested) THEN r.phase
    ELSE IF PhaseIndex[suggested] < PhaseIndex[r.phase]
         THEN IF score >= Exit[r.phase] THEN r.phase ELSE suggested
    ELSE IF PhaseIndex[suggested] > PhaseIndex[r.phase] + 1 /\ r.phase # "DORMANT"
         THEN PhaseOrder[PhaseIndex[r.phase] + 1] ELSE suggested

\* transition_subnet: a change of phase starts the lock again.
Transit(r, score, confirm) ==
    LET phase == Hysteresis(r, Suggested(score, confirm, r.phase), score)
    IN  [phase |-> phase, locked |-> r.locked \/ phase # r.phase]

(***************************************************************************)
(* Steps.                                                                  *)
(***************************************************************************)
\* A scan, under _scan_lock from its load to its save.
Scan(score, confirm) ==
    /\ row' = Transit(row, score, confirm)
    /\ UNCHANGED <<meta, entryV>>

\* Of two copies the loaded one is not the younger.
LockEnds ==
    /\ meta' = [meta EXCEPT !.locked = FALSE]
    /\ row' \in {row, [row EXCEPT !.locked = FALSE]}
    /\ UNCHANGED entryV

LoadMeta == meta' = row /\ UNCHANGED <<row, entryV>>
SaveMeta == row' = meta /\ UNCHANGED <<meta, entryV>>

\* maybe_adapt_after_resolve: a weak desk raises the bars, a strong one eases them.
Tighten ==
    /\ stirring' = IF stirring + 2 > 35 THEN 35 ELSE stirring + 2
    /\ accumulating' = IF accumulating + 2 > 55 THEN 55 ELSE accumulating + 2
    /\ UNCHANGED <<row, meta>>

Ease ==
    /\ stirring' = IF stirring - 1 < 15 THEN 15 ELSE stirring - 1
    /\ accumulating' = IF accumulating - 1 < 35 THEN 35 ELSE accumulating - 1
    /\ UNCHANGED <<row, meta>>

LadderNext ==
    \/ \E score \in Scores, confirm \in ConfirmScores : Scan(score, confirm)
    \/ LockEnds \/ LoadMeta \/ SaveMeta \/ Tighten \/ Ease

LadderSpec == LadderInit /\ [][LadderNext]_ladderVars

(***************************************************************************)
(* Whatever the scores, the calibration and a save that takes a scan back: *)
(* no scan skips a rung on the way up except from DORMANT, COOLING follows *)
(* PUMPING only and leads down and out of the ladder, never back into it,  *)
(* and a locked row does not fall, except to COOLING.                      *)
(***************************************************************************)
Climb(from, to) ==
    \/ from = "DORMANT" /\ to # "COOLING"
    \/ PhaseIndex[to] = PhaseIndex[from] + 1

Fall(from, to) ==
    /\ PhaseIndex[to] < PhaseIndex[from]
    /\ WasPumping(from) => to \in {"DORMANT", "STIRRING"}

Rung(r, new) ==
    \/ new.phase = r.phase
    \/ Climb(r.phase, new.phase)
    \/ ~r.locked /\ Fall(r.phase, new.phase)

LadderSteps == \A score \in Scores, confirm \in ConfirmScores :
    Rung(row, Transit(row, score, confirm))
=============================================================================
