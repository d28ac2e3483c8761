--------------------------- MODULE PumpLadderProofs ---------------------------
(***************************************************************************)
(* Theorems about PumpLadder, for any scores and confirm scores.           *)
(***************************************************************************)
EXTENDS PumpLadder, TLAPS

\* The rungs of the ladder, and their order.
LEMMA PhaseFacts ==
    /\ Phases = {"DORMANT", "STIRRING", "ACCUMULATING", "PUMPING", "COOLING"}
    /\ PhaseIndex["DORMANT"] = 1 /\ PhaseIndex["STIRRING"] = 2
    /\ PhaseIndex["ACCUMULATING"] = 3 /\ PhaseIndex["PUMPING"] = 4
    /\ PhaseIndex["COOLING"] = 5
<1>1. PhaseOrder[1] = "DORMANT" /\ PhaseOrder[2] = "STIRRING" /\ PhaseOrder[3] = "ACCUMULATING"
      /\ PhaseOrder[4] = "PUMPING" /\ PhaseOrder[5] = "COOLING"
  BY DEF PhaseOrder
<1>2. 1..5 = {1, 2, 3, 4, 5}
  OBVIOUS
<1>3. Phases = {"DORMANT", "STIRRING", "ACCUMULATING", "PUMPING", "COOLING"}
  <2>1. ASSUME NEW p \in Phases
        PROVE  p \in {"DORMANT", "STIRRING", "ACCUMULATING", "PUMPING", "COOLING"}
    BY <1>1, <1>2 DEF Phases
  <2>2. PhaseOrder[1] \in Phases /\ PhaseOrder[2] \in Phases /\ PhaseOrder[3] \in Phases
        /\ PhaseOrder[4] \in Phases /\ PhaseOrder[5] \in Phases
    BY DEF Phases
  <2>. QED BY <2>1, <2>2, <1>1
<1>4. ASSUME NEW i \in 1..5, NEW j \in 1..5, PhaseOrder[i] = PhaseOrder[j] PROVE i = j
  BY <1>1, <1>2, <1>4
<1>5. ASSUME NEW j \in 1..5 PROVE PhaseIndex[PhaseOrder[j]] = j
  <2>1. PhaseOrder[j] \in Phases
    BY DEF Phases
  <2>2. PhaseIndex[PhaseOrder[j]] = CHOOSE i \in 1..5 : PhaseOrder[i] = PhaseOrder[j]
    BY <2>1 DEF PhaseIndex
  <2>3. \E i \in 1..5 : PhaseOrder[i] = PhaseOrder[j]
    OBVIOUS
  <2>4. (CHOOSE i \in 1..5 : PhaseOrder[i] = PhaseOrder[j]) \in 1..5
        /\ PhaseOrder[CHOOSE i \in 1..5 : PhaseOrder[i] = PhaseOrder[j]] = PhaseOrder[j]
    BY <2>3
  <2>. QED BY <2>2, <2>4, <1>4
<1>. QED BY <1>1, <1>3, <1>5

\* The five entries and exits, under any calibration.
LEMMA ThresholdFacts ==
    ASSUME stirring \in 15..35, accumulating \in 35..55
    PROVE  /\ Entry["STIRRING"] = stirring /\ Entry["ACCUMULATING"] = accumulating
           /\ Entry["PUMPING"] = 62 /\ Entry["COOLING"] = 30
           /\ Exit["DORMANT"] = 101 /\ Exit["STIRRING"] = 15 /\ Exit["ACCUMULATING"] = 35
           /\ Exit["PUMPING"] = 52 /\ Exit["COOLING"] = 20
BY PhaseFacts DEF Entry, Exit

\* What a score suggests, and where it must lie for it.
LEMMA SuggestedFacts ==
    ASSUME stirring \in 15..35, accumulating \in 35..55,
           NEW score \in 0..100, NEW confirm \in 0..100, NEW current \in Phases
    PROVE  LET s == Suggested(score, confirm, current) IN
           /\ s \in Phases
           /\ s = "COOLING" => WasPumping(current)
           /\ s = "ACCUMULATING" /\ WasPumping(current) => score >= 55
           /\ s = "PUMPING" => score >= 62
<1>1. Entry["STIRRING"] = stirring /\ Entry["ACCUMULATING"] = accumulating
      /\ Entry["PUMPING"] = 62 /\ Entry["COOLING"] = 30
  BY ThresholdFacts
<1>2. /\ ForwardPhase(score) \in {"DORMANT", "STIRRING", "ACCUMULATING", "PUMPING"}
      /\ ForwardPhase(score) = "PUMPING" <=> score >= 62
  BY <1>1 DEF ForwardPhase
<1>3. /\ RawPhase(score, current) \in {"COOLING", ForwardPhase(score)}
      /\ RawPhase(score, current) = "COOLING" => WasPumping(current)
      /\ RawPhase(score, current) = "ACCUMULATING" /\ WasPumping(current) => score >= 55
  BY <1>2 DEF RawPhase
<1>4. CASE RawPhase(score, current) = "PUMPING" /\ confirm < 35
  BY <1>2, <1>3, <1>4, PhaseFacts DEF Suggested
<1>5. CASE ~(RawPhase(score, current) = "PUMPING" /\ confirm < 35)
  BY <1>2, <1>3, <1>5, PhaseFacts DEF Suggested
<1>. QED BY <1>4, <1>5

\* A scan leaves a row a row.
LEMMA TransitIsRow ==
    ASSUME stirring \in 15..35, accumulating \in 35..55,
           NEW score \in 0..100, NEW confirm \in 0..100, NEW r \in Row
    PROVE  Transit(r, score, confirm) \in Row
<1>1. r.phase \in Phases /\ r.locked \in BOOLEAN
  BY DEF Row
<1>. DEFINE s == Suggested(score, confirm, r.phase)
<1>2. s \in Phases
  BY <1>1, SuggestedFacts
<1>3. Hysteresis(r, s, score) \in Phases
  <2>. HIDE DEF s
  <2>1. CASE PhaseIndex[s] > PhaseIndex[r.phase] + 1
    <3>1. PhaseIndex[r.phase] + 1 \in 1..5
      BY <2>1, <1>1, <1>2, PhaseFacts
    <3>2. PhaseOrder[PhaseIndex[r.phase] + 1] \in Phases
      BY <3>1 DEF Phases
    <3>. QED BY <3>2, <1>1, <1>2 DEF Hysteresis
  <2>2. CASE ~(PhaseIndex[s] > PhaseIndex[r.phase] + 1)
    BY <2>2, <1>1, <1>2 DEF Hysteresis
  <2>. QED BY <2>1, <2>2
<1>. QED BY <1>1, <1>3 DEF Transit, Row

\* Type correctness: thresholds stay in the calibration's range, too.
THEOREM LadderTypeCorrect == LadderSpec => []LadderTypeOK
<1>1. LadderInit => LadderTypeOK
  BY PhaseFacts DEF LadderInit, LadderTypeOK, Row, NewRow
<1>2. LadderTypeOK /\ [LadderNext]_ladderVars => LadderTypeOK'
  <2>. SUFFICES ASSUME LadderTypeOK, [LadderNext]_ladderVars PROVE LadderTypeOK'
    OBVIOUS
  <2>. USE DEF LadderTypeOK
  <2>1. ASSUME NEW score \in Scores, NEW confirm \in ConfirmScores, Scan(score, confirm)
        PROVE  LadderTypeOK'
    <3>1. score \in 0..100 /\ confirm \in 0..100
      BY ScoreAssumption
    <3>2. Transit(row, score, confirm) \in Row
      BY <3>1, TransitIsRow
    <3>. QED BY <3>2, <2>1 DEF Scan, entryV
  <2>2. CASE LockEnds
    BY <2>2 DEF LockEnds, Row, entryV
  <2>3. CASE LoadMeta \/ SaveMeta
    BY <2>3 DEF LoadMeta, SaveMeta, entryV
  <2>4. CASE Tighten \/ Ease
    BY <2>4 DEF Tighten, Ease
  <2>5. CASE UNCHANGED ladderVars
    BY <2>5 DEF ladderVars, entryV
  <2>. QED BY <2>1, <2>2, <2>3, <2>4, <2>5 DEF LadderNext
<1>. QED BY <1>1, <1>2, PTL DEF LadderSpec

(***************************************************************************)
(* One scan of a row of its type climbs one rung, cools down or falls as   *)
(* LadderSteps says: by the phase the row is in.                           *)
(***************************************************************************)
LEMMA RungTaken ==
    ASSUME stirring \in 15..35, accumulating \in 35..55,
           NEW score \in 0..100, NEW confirm \in 0..100, NEW r \in Row
    PROVE  Rung(r, Transit(r, score, confirm))
<1>. DEFINE s == Suggested(score, confirm, r.phase)
            h == Hysteresis(r, s, score)
<1>1. r.phase \in Phases /\ r.locked \in BOOLEAN
  BY DEF Row
<1>2. /\ s \in Phases
      /\ s = "COOLING" => WasPumping(r.phase)
      /\ s = "ACCUMULATING" /\ WasPumping(r.phase) => score >= 55
      /\ s = "PUMPING" => score >= 62
  BY <1>1, SuggestedFacts
<1>3. Transit(r, score, confirm).phase = h
  BY DEF Transit
<1>4. PhaseOrder[2] = "STIRRING" /\ PhaseOrder[3] = "ACCUMULATING"
      /\ PhaseOrder[4] = "PUMPING" /\ PhaseOrder[5] = "COOLING"
  BY DEF PhaseOrder
<1>. HIDE DEF s
<1>5. /\ s = r.phase \/ Held(r, s) => h = r.phase
      /\ s # r.phase /\ ~Held(r, s) /\ PhaseIndex[s] < PhaseIndex[r.phase] =>
            h = IF score >= Exit[r.phase] THEN r.phase ELSE s
      /\ s # r.phase /\ ~Held(r, s) /\ ~(PhaseIndex[s] < PhaseIndex[r.phase]) =>
            h = IF PhaseIndex[s] > PhaseIndex[r.phase] + 1 /\ r.phase # "DORMANT"
                THEN PhaseOrder[PhaseIndex[r.phase] + 1] ELSE s
  BY DEF Hysteresis
<1>. HIDE DEF h
<1>6. s \in {"DORMANT", "STIRRING", "ACCUMULATING", "PUMPING", "COOLING"}
      /\ r.phase \in {"DORMANT", "STIRRING", "ACCUMULATING", "PUMPING", "COOLING"}
      /\ PhaseIndex[s] \in 1..5 /\ PhaseIndex[r.phase] \in 1..5
  BY <1>1, <1>2, PhaseFacts
<1>7. h = r.phase \/ Climb(r.phase, h) \/ (~r.locked /\ Fall(r.phase, h))
  <2>1. CASE s = r.phase \/ Held(r, s)
    BY <2>1, <1>5
  <2>2. CASE s # r.phase /\ ~Held(r, s) /\ PhaseIndex[s] < PhaseIndex[r.phase]
    <3>1. ~r.locked
      BY <2>2, <1>6, PhaseFacts DEF Held
    <3>2. CASE score >= Exit[r.phase]
      BY <3>2, <2>2, <1>5
    <3>3. CASE ~(score >= Exit[r.phase])
      <4>1. h = s
        BY <3>3, <2>2, <1>5
      <4>2. WasPumping(r.phase) => score < 52
        BY <3>3, ThresholdFacts DEF WasPumping
      <4>3. WasPumping(r.phase) => s \in {"DORMANT", "STIRRING"}
        BY <4>2, <1>2, <1>6, <2>2, PhaseFacts DEF WasPumping
      <4>. QED BY <4>1, <4>3, <3>1, <2>2 DEF Fall
    <3>. QED BY <3>2, <3>3
  <2>3. CASE s # r.phase /\ ~Held(r, s) /\ ~(PhaseIndex[s] < PhaseIndex[r.phase])
    <3>1. CASE r.phase = "DORMANT"
      BY <3>1, <2>3, <1>2, <1>5 DEF Climb, WasPumping
    <3>2. CASE r.phase # "DORMANT" /\ PhaseIndex[s] > PhaseIndex[r.phase] + 1
      BY <3>2, <2>3, <1>4, <1>5, <1>6, PhaseFacts DEF Climb
    <3>3. CASE r.phase # "DORMANT" /\ ~(PhaseIndex[s] > PhaseIndex[r.phase] + 1)
      <4>1. h = s
        BY <3>3, <2>3, <1>5
      <4>2. PhaseIndex[s] = PhaseIndex[r.phase] + 1
        BY <3>3, <2>3, <1>6, PhaseFacts
      <4>. QED BY <4>1, <4>2 DEF Climb
    <3>. QED BY <3>1, <3>2, <3>3
  <2>. QED BY <2>1, <2>2, <2>3
<1>. QED BY <1>3, <1>7 DEF Rung

\* LadderSteps: a climb takes one rung (except from DORMANT), a locked row does not
\* fall, a cooling row only leaves the ladder; for all scores, calibrations and saves.
THEOREM LadderStepsAlways == LadderSpec => []LadderSteps
<1>1. LadderTypeOK => LadderSteps
  <2>. SUFFICES ASSUME LadderTypeOK, NEW score \in Scores, NEW confirm \in ConfirmScores
                PROVE  Rung(row, Transit(row, score, confirm))
    BY DEF LadderSteps
  <2>1. score \in 0..100 /\ confirm \in 0..100
    BY ScoreAssumption
  <2>. QED BY <2>1, RungTaken DEF LadderTypeOK
<1>. QED BY <1>1, LadderTypeCorrect, PTL
=============================================================================
