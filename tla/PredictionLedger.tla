--------------------------- MODULE PredictionLedger ---------------------------
(***************************************************************************)
(* data/predictions.json and its writers.  append_prediction reads and     *)
(* writes the file under one hold of its lock.  Every other writer loads   *)
(* it without the lock, works on its copy, and takes the lock only for the *)
(* write, which replaces the whole file:                                   *)
(*   - the scheduler's cycle: resolve_due_predictions, which runs          *)
(*     regrade_expired_predictions inside, then expire_stale_predictions;  *)
(*   - a request of an API route, which runs resolve_due_predictions;      *)
(*   - recover_expired_predictions, from the outcome snapshot.             *)
(* Grading a row nudges the council's weights at once, in another file.    *)
(***************************************************************************)
EXTENDS Naturals, FiniteSets

CONSTANTS
    Rows,        \* predictions that may be issued
    Slot,        \* of a row: netuid, horizon type and shadow flag
    Bucket,      \* of a row: netuid, predicted_pct and the five minutes it is of
    Legacy,      \* rows the old "+00:00Z" parser expired before the start
    Corrupt,     \* rows whose resolve_at cannot be parsed
    Shadows,     \* HOLD counterfactuals: not graded late, not learnt from
    Pumps,       \* claims of the pump desk: not learnt from
    Cycles, Requests, Recoveries,    \* threads, by what they run
    Cap,         \* _PRICE_RETRY_CAP
    SaveFails,   \* TRUE: a write may fail, or time out on the lock
    Restarts     \* TRUE: a pass may end half-way (restart, exception)

Threads == Cycles \cup Requests \cup Recoveries
Passers == Cycles \cup Requests

ASSUME RowsAssumption ==
    /\ Legacy \subseteq Rows /\ Corrupt \subseteq Rows
    /\ Shadows \subseteq Rows /\ Pumps \subseteq Rows
    /\ Legacy \cap Corrupt = {}
    /\ Cap \in Nat \ {0}
ASSUME FlagsAssumption == SaveFails \in BOOLEAN /\ Restarts \in BOOLEAN
ASSUME ThreadsAssumption ==
    /\ Cycles \cap Requests = {}
    /\ (Cycles \cup Requests) \cap Recoveries = {}

Retired == {"expired", "ungradeable"}
Closed  == Retired \cup {"resolved", "duplicate"}     \* the list "resolved"
Status  == Closed \cup {"none", "pending"}            \* "none": not in the file
Row     == [st : Status, tries : 0..Cap, legacy : BOOLEAN]
Ledger  == [Rows -> Row]
Times   == {"early", "due", "late"}      \* before resolve_at; in the grace; past it

NoRow    == [st |-> "none", tries |-> 0, legacy |-> FALSE]
NoLedger == [r \in Rows |-> NoRow]

VARIABLES
    file,             \* predictions.json
    time,             \* where each row's horizon stands now
    pc, snap, seen,   \* per thread: label, its copy of the file, its `now`
    inner, todo,      \* regrade's own copy; rows the loop has still to visit
    dirty,            \* the loop graded a row that it has not saved
    issued,           \* history: rows append_prediction said it stored
    nudges, lookups   \* history: nudges and price lookups, counted to a bound

threadVars == <<pc, snap, seen, inner, todo, dirty>>
histVars   == <<nudges, lookups>>
vars == <<file, time, threadVars, issued, histVars>>

Labels == {"idle", "restored", "regload", "regrade", "regsave", "merge",
           "grade", "save", "expload", "expsave", "recover"}
MaxNudges == 2

TypeOK ==
    /\ file \in Ledger /\ time \in [Rows -> Times]
    /\ pc \in [Threads -> Labels]
    /\ snap \in [Threads -> Ledger] /\ inner \in [Threads -> Ledger]
    /\ seen \in [Threads -> [Rows -> Times]]
    /\ todo \in [Threads -> SUBSET Rows] /\ dirty \in [Threads -> BOOLEAN]
    /\ issued \subseteq Rows
    /\ nudges \in [Rows -> 0..MaxNudges] /\ lookups \in [Rows -> 0..Cap]

Init ==
    /\ file = [r \in Rows |-> IF r \in Legacy
                  THEN [st |-> "expired", tries |-> 0, legacy |-> TRUE] ELSE NoRow]
    /\ time \in {f \in [Rows -> Times] : \A r \in Rows \ Legacy : f[r] = "early"}
    /\ pc = [t \in Threads |-> "idle"]
    /\ snap = [t \in Threads |-> NoLedger] /\ inner = [t \in Threads |-> NoLedger]
    /\ seen = [t \in Threads |-> [r \in Rows |-> "early"]]
    /\ todo = [t \in Threads |-> {}] /\ dirty = [t \in Threads |-> FALSE]
    /\ issued = Legacy
    /\ nudges = [r \in Rows |-> 0] /\ lookups = [r \in Rows |-> 0]

Go(t, label) == pc' = [pc EXCEPT ![t] = label]

\* A thread that ends forgets what it held.
End(t) ==
    /\ Go(t, "idle")
    /\ snap' = [snap EXCEPT ![t] = NoLedger] /\ inner' = [inner EXCEPT ![t] = NoLedger]
    /\ seen' = [seen EXCEPT ![t] = [r \in Rows |-> "early"]]
    /\ todo' = [todo EXCEPT ![t] = {}] /\ dirty' = [dirty EXCEPT ![t] = FALSE]

Having(d, states) == {r \in Rows : d[r].st \in states}
SetStatus(d, rs, s) == [r \in Rows |-> IF r \in rs THEN [d[r] EXCEPT !.st = s] ELSE d[r]]

(***************************************************************************)
(* The rules for one row.                                                  *)
(***************************************************************************)
\* Bug: the retry cap is not looked at.
IsExpiredAtGrace(row, now) == now = "late"

\* _is_expired.  Its flag _price_lookup_attempted is popped in the call it was
\* set in, so a row is never expired by the check after its own missed lookup.
IsExpired(row, now) == row.tries >= Cap /\ now = "late"

\* Bug: the count of missed lookups is not saturated.
MissUnbounded(row) == [row EXCEPT !.tries = @ + 1]

\* Bug: a missed lookup is not counted.
MissUncounted(row) == row

Miss(row) == [row EXCEPT !.tries = IF @ < Cap THEN @ + 1 ELSE Cap]

\* A price lookup: graded, a unit mismatch, or no price.
Lookups(row, missed) ==
    {[row EXCEPT !.st = "resolved"], [row EXCEPT !.st = "ungradeable"], missed}

\* The loop of _resolve_due_predictions: what a pending row may become.
LooksUp(r, row, now) ==
    r \notin Corrupt /\ now # "early" /\ ~(IsExpired(row, now) /\ r \in Shadows)
Verdicts(r, row, now) ==
    LET expired == [row EXCEPT !.st = "expired"] IN
    IF r \in Corrupt \/ (IsExpired(row, now) /\ r \in Shadows) THEN {expired}
    ELSE IF IsExpired(row, now) THEN Lookups(row, expired)     \* late grade
    ELSE IF now # "early" THEN Lookups(row, Miss(row))
    ELSE {row}

\* dedupe_predictions: of the pending rows of one bucket the first in the file
\* is kept.  The model has no order: any one of them is.
Deduped(d) ==
    LET pending == Having(d, {"pending"})
        Kept == {k \in SUBSET pending :
                    /\ \A r, s \in k : Bucket[r] = Bucket[s] => r = s
                    /\ \A r \in pending : \E s \in k : Bucket[r] = Bucket[s]}
    IN  {SetStatus(d, pending \ k, "duplicate") : k \in Kept}

\* _restore_recently_expired_predictions.
Restorable(d, now) == {r \in Rows :
    d[r].st = "expired" /\ d[r].legacy /\ ~IsExpired(d[r], now[r])}
Restored(d, now) == [r \in Rows |->
    IF r \in Restorable(d, now) THEN [d[r] EXCEPT !.st = "pending", !.legacy = FALSE]
    ELSE IF d[r].st = "expired" THEN [d[r] EXCEPT !.legacy = FALSE] ELSE d[r]]

Count(f, r, bound) == [f EXCEPT ![r] = IF @ < bound THEN @ + 1 ELSE bound]

\* Expert, impact and signal weights, for a row the council learns from.
Learn(r, graded) == nudges' =
    IF graded /\ r \notin Shadows \cup Pumps THEN Count(nudges, r, MaxNudges) ELSE nudges

(***************************************************************************)
(* append_prediction: load, duplicate check and write under one lock.      *)
(***************************************************************************)
\* Bug: the duplicate check is not there.
AppendUnchecked(r) ==
    /\ r \notin issued
    /\ file' = [file EXCEPT ![r] = [NoRow EXCEPT !.st = "pending"]]
    /\ issued' = issued \cup {r}
    /\ UNCHANGED <<time, threadVars, histVars>>

Append(r) ==
    /\ r \notin issued
    /\ ~\E s \in Having(file, {"pending"}) : Slot[s] = Slot[r]
    /\ file' = [file EXCEPT ![r] = [NoRow EXCEPT !.st = "pending"]]
    /\ issued' = issued \cup {r}
    /\ UNCHANGED <<time, threadVars, histVars>>

Elapse(r) ==
    /\ r \in issued /\ time[r] # "late"
    /\ time' = [time EXCEPT ![r] = IF @ = "early" THEN "due" ELSE "late"]
    /\ UNCHANGED <<file, threadVars, issued, histVars>>

(***************************************************************************)
(* resolve_due_predictions.                                                *)
(***************************************************************************)
\* Load, take the time, restore legacy rows; if there are any, save, then go on.
Load(t) ==
    /\ t \in Passers /\ pc[t] = "idle"
    /\ snap' = [snap EXCEPT ![t] = Restored(file, time)]
    /\ seen' = [seen EXCEPT ![t] = time]
    /\ Go(t, IF Restorable(file, time) # {} THEN "restored" ELSE "regload")
    /\ UNCHANGED <<file, time, inner, todo, dirty, issued, histVars>>

\* _save_json: the lock is held for the write only; a failure is swallowed.
Write(d) == file' = d \/ (SaveFails /\ file' = file)

SaveRestored(t) ==
    /\ pc[t] = "restored" /\ Write(snap[t]) /\ Go(t, "regload")
    /\ UNCHANGED <<time, snap, seen, inner, todo, dirty, issued, histVars>>

\* The in-memory dedupe; then regrade_expired_predictions loads for itself.
RegradeLoad(t) ==
    /\ pc[t] = "regload"
    /\ \E d \in Deduped(snap[t]) : snap' = [snap EXCEPT ![t] = d]
    /\ inner' = [inner EXCEPT ![t] = file]
    /\ todo' = [todo EXCEPT ![t] = Having(file, {"expired"}) \ Corrupt]
    /\ Go(t, "regrade")
    /\ UNCHANGED <<file, time, seen, dirty, issued, histVars>>

\* Bug: a regraded row is not learnt from.
RegradeRowSilent(t) == pc[t] = "regrade" /\ \E r \in todo[t], graded \in BOOLEAN :
    /\ todo' = [todo EXCEPT ![t] = @ \ {r}]
    /\ inner' = [inner EXCEPT ![t] = IF graded THEN SetStatus(@, {r}, "resolved") ELSE @]
    /\ dirty' = [dirty EXCEPT ![t] = @ \/ graded]
    /\ nudges' = nudges /\ lookups' = Count(lookups, r, Cap)
    /\ UNCHANGED <<file, time, pc, snap, seen, issued>>

\* One expired row, with a price for its horizon or without.
RegradeRow(t) == pc[t] = "regrade" /\ \E r \in todo[t], graded \in BOOLEAN :
    /\ todo' = [todo EXCEPT ![t] = @ \ {r}]
    /\ inner' = [inner EXCEPT ![t] = IF graded THEN SetStatus(@, {r}, "resolved") ELSE @]
    /\ dirty' = [dirty EXCEPT ![t] = @ \/ graded]
    /\ Learn(r, graded) /\ lookups' = Count(lookups, r, Cap)
    /\ UNCHANGED <<file, time, pc, snap, seen, issued>>

ToGrade(t, d) == todo' = [todo EXCEPT ![t] = Having(d, {"pending"})] /\ Go(t, "grade")

\* It saves when it graded a row, or stamped one (hydrated, horizon too old).
RegradeEnd(t) ==
    /\ pc[t] = "regrade" /\ todo[t] = {}
    /\ \/ /\ dirty[t] \/ Having(inner[t], {"expired"}) # {}
          /\ Go(t, "regsave") /\ UNCHANGED todo
       \/ ~dirty[t] /\ ToGrade(t, snap[t])
    /\ UNCHANGED <<file, time, snap, seen, inner, dirty, issued, histVars>>

RegradeSave(t) ==
    /\ pc[t] = "regsave" /\ Write(inner[t]) /\ Go(t, "merge")
    /\ dirty' = [dirty EXCEPT ![t] = FALSE]
    /\ UNCHANGED <<time, snap, seen, inner, todo, issued, histVars>>

\* Bug: what regrade wrote is not taken over (the lost update of RF-3).
MergeNothing(t) ==
    /\ pc[t] = "merge"
    /\ ToGrade(t, snap[t])
    /\ UNCHANGED <<file, time, snap, seen, inner, dirty, issued, histVars>>

\* _merge_regraded_resolved: a row closed here and in the file is the file's.
Merge(t) ==
    /\ pc[t] = "merge"
    /\ LET merged == [r \in Rows |->
                IF snap[t][r].st \in Closed /\ file[r].st \in Closed
                THEN file[r] ELSE snap[t][r]]
       IN  snap' = [snap EXCEPT ![t] = merged] /\ ToGrade(t, merged)
    /\ UNCHANGED <<file, time, seen, inner, dirty, issued, histVars>>

GradeRow(t) == pc[t] = "grade" /\ \E r \in todo[t] :
    LET row == snap[t][r] now == seen[t][r] IN
    /\ todo' = [todo EXCEPT ![t] = @ \ {r}]
    /\ \E v \in Verdicts(r, row, now) :
          /\ snap' = [snap EXCEPT ![t][r] = v]
          /\ Learn(r, v.st = "resolved")
    /\ lookups' = IF LooksUp(r, row, now) THEN Count(lookups, r, Cap) ELSE lookups
    /\ UNCHANGED <<file, time, pc, seen, inner, dirty, issued>>

GradeEnd(t) ==
    /\ pc[t] = "grade" /\ todo[t] = {} /\ Go(t, "save")
    /\ UNCHANGED <<file, time, snap, seen, inner, todo, dirty, issued, histVars>>

\* A request is over here; a cycle goes on with its expire stage.
Save(t) ==
    /\ pc[t] = "save" /\ Write(snap[t])
    /\ IF t \in Cycles THEN Go(t, "expload") /\ UNCHANGED <<snap, seen, inner, todo, dirty>>
       ELSE End(t)
    /\ UNCHANGED <<time, issued, histVars>>

(***************************************************************************)
(* expire_stale_predictions: it loads again and has its own `now`.         *)
(***************************************************************************)
Stale(d, now) == {r \in Having(d, {"pending"}) : r \in Corrupt \/ IsExpired(d[r], now[r])}

ExpireLoad(t) ==
    /\ pc[t] = "expload"
    /\ snap' = [snap EXCEPT ![t] = SetStatus(file, Stale(file, time), "expired")]
    /\ Go(t, "expsave")
    /\ UNCHANGED <<file, time, seen, inner, todo, dirty, issued, histVars>>

ExpireSave(t) ==
    /\ pc[t] = "expsave" /\ Write(snap[t]) /\ End(t)
    /\ UNCHANGED <<time, issued, histVars>>

(***************************************************************************)
(* recover_expired_predictions.                                            *)
(***************************************************************************)
RecoverLoad(t) ==
    /\ t \in Recoveries /\ pc[t] = "idle"
    /\ snap' = [snap EXCEPT ![t] = file]
    /\ todo' = [todo EXCEPT ![t] = Having(file, Retired) \ Corrupt]
    /\ Go(t, "recover")
    /\ UNCHANGED <<file, time, seen, inner, dirty, issued, histVars>>

RecoverRow(t) == pc[t] = "recover" /\ \E r \in todo[t], graded \in BOOLEAN :
    /\ todo' = [todo EXCEPT ![t] = @ \ {r}]
    /\ snap' = [snap EXCEPT ![t] = IF graded THEN SetStatus(@, {r}, "resolved") ELSE @]
    /\ dirty' = [dirty EXCEPT ![t] = @ \/ graded]
    /\ Learn(r, graded) /\ lookups' = Count(lookups, r, Cap)
    /\ UNCHANGED <<file, time, pc, seen, inner, issued>>

\* The save, when there is something to save.  A failure is raised.
RecoverEnd(t) ==
    /\ pc[t] = "recover" /\ todo[t] = {}
    /\ IF dirty[t] THEN Write(snap[t]) ELSE UNCHANGED file
    /\ End(t)
    /\ UNCHANGED <<time, issued, histVars>>

\* The process restarts, or an exception ends the pass.
Restart(t) ==
    /\ Restarts /\ pc[t] # "idle"
    /\ End(t)
    /\ UNCHANGED <<file, time, issued, histVars>>

Resolve(t) ==
    \/ SaveRestored(t) \/ RegradeLoad(t) \/ RegradeRow(t) \/ RegradeEnd(t)
    \/ RegradeSave(t) \/ Merge(t) \/ GradeRow(t) \/ GradeEnd(t) \/ Save(t)
    \/ ExpireLoad(t) \/ ExpireSave(t)
Recover(t) == RecoverRow(t) \/ RecoverEnd(t)

Next ==
    \/ \E r \in Rows : Append(r) \/ Elapse(r)
    \/ \E t \in Threads : Load(t) \/ RecoverLoad(t) \/ Resolve(t) \/ Recover(t) \/ Restart(t)

Spec == Init /\ [][Next]_vars

(***************************************************************************)
(* Fairness: time passes, and the scheduler's cycles come and end.         *)
(***************************************************************************)
FairSpec ==
    /\ Spec
    /\ \A r \in Rows : WF_vars(Elapse(r))
    /\ \A t \in Cycles : WF_vars(Load(t)) /\ WF_vars(Resolve(t))

(***************************************************************************)
(* Properties.                                                             *)
(***************************************************************************)
\* "no duplicate is already pending": whatever copies are written back, the
\* file never holds two pending rows of one slot.  Rows that the legacy repair
\* puts back are not checked by anyone.
UniquePending == \A r, s \in Having(file, {"pending"}) \ Legacy :
    Slot[r] = Slot[s] => r = s

\* "rows with unavailable price data stay pending for _PRICE_RETRY_CAP lookups
\* before expiring", also when a pass writes an old count back.
ExpiredAfterRetries == \A r \in Having(file, {"expired"}) \ (Corrupt \cup Legacy) :
    lookups[r] >= Cap

\* A grade in the file has been learnt from: no crash, failed write or other
\* pass between the nudge and the save loses the lesson.
GradeIsLearnt == \A r \in Having(file, {"resolved"}) \ (Shadows \cup Pumps) : nudges[r] >= 1

\* One writer: a grade in the file is never replaced, neither by the cycle's own
\* stale list nor by its expire stage.
GradeIsFinal == [][Having(file, {"resolved"}) \subseteq Having(file', {"resolved"})]_vars

\* "a second pass must not re-nudge": no row is learnt from twice.
NudgeOnce == \A r \in Rows : nudges[r] <= 1

\* "the registry never fills with ungradeable pending rows": with or without a
\* price, a pending row is closed at last.
PendingDrains == \A r \in Rows : file[r].st = "pending" ~> file[r].st # "pending"

\* "to prevent race conditions between web and worker processes": a row that
\* append_prediction said it stored stays in the ledger.
NoLostAppend == \A r \in issued : file[r].st # "none"

(***************************************************************************)
(* One writer: each row lives as PredictionLife says.                      *)
(***************************************************************************)
Fate == [r \in Rows |-> IF file[r].st = "none" /\ r \in issued THEN "lost" ELSE file[r].st]

Life == INSTANCE PredictionLife WITH
    Silent <- Shadows \cup Pumps, fate <- Fate, lessons <- nudges,
    returning <- {r \in Rows : file[r].legacy}

\* The stages of the cycle, each on a copy of its own, look like one writer of the
\* ledger: a grade comes after its one lesson, is in the write after it, and stays;
\* a closed row is not reopened, except a legacy row, once.
LedgerRefined == Life!LifeSpec
=============================================================================
