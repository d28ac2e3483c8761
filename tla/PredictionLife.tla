---------------------------- MODULE PredictionLife ----------------------------
(***************************************************************************)
(* What the ledger promises of a prediction when one process grades: what  *)
(* may become of it, and that the weights are taught by it once, before    *)
(* the grade that shows it.  PredictionLedger, with its copies of the file *)
(* and their merges, is shown to implement this.                           *)
(***************************************************************************)
EXTENDS Naturals

CONSTANTS
    Rows,       \* predictions that may be issued
    Slot,       \* of a row: what no two pending rows share
    Legacy,     \* rows that were expired by mistake before the start
    Silent      \* rows nothing is learnt from

VARIABLES
    fate,       \* of a row
    lessons,    \* of a row: how often the weights were nudged for it
    returning   \* legacy rows that may yet be put back

lifeVars == <<fate, lessons, returning>>

Ungraded == {"pending", "expired"}
Fates == Ungraded \cup {"none", "resolved", "ungradeable", "duplicate", "lost"}

LifeInit ==
    /\ fate = [r \in Rows |-> IF r \in Legacy THEN "expired" ELSE "none"]
    /\ lessons = [r \in Rows |-> 0]
    /\ returning = Legacy

\* A row that was not issued before is pending, alone in its slot.
Issue(r) ==
    /\ fate[r] = "none"
    /\ \A s \in Rows : fate[s] = "pending" => Slot[s] # Slot[r]
    /\ fate' = [fate EXCEPT ![r] = "pending"]
    /\ UNCHANGED <<lessons, returning>>

\* The lesson of a row comes before its grade, and once.
Teach(r) ==
    /\ fate[r] \in Ungraded /\ r \notin Silent
    /\ lessons[r] = 0
    /\ lessons' = [lessons EXCEPT ![r] = 1]
    /\ UNCHANGED <<fate, returning>>

(***************************************************************************)
(* A write of the file tells of many rows at once.                         *)
(***************************************************************************)
\* A row appended between the load and the write-back of a copy is lost: known, and refuted by
\* NoLostAppend of PredictionLedger.
Closes(r)  == fate[r] = "pending" /\ fate'[r] \in {"expired", "ungradeable", "duplicate", "lost"}
Grades(r)  == fate[r] \in Ungraded /\ fate'[r] = "resolved" /\ (r \in Silent \/ lessons[r] = 1)
Returns(r) == /\ fate[r] = "expired" /\ fate'[r] = "pending"
              /\ r \in returning /\ r \notin returning'

\* What was taught by the time of the write is graded in it.
Written(r) ==
    /\ fate'[r] = fate[r] \/ Closes(r) \/ Grades(r) \/ Returns(r)
    /\ lessons[r] = 1 => fate'[r] = "resolved"

WriteAll ==
    /\ fate' \in [Rows -> Fates]
    /\ \A r \in Rows : Written(r)
    /\ returning' \subseteq returning
    /\ UNCHANGED lessons

LifeNext == WriteAll \/ \E r \in Rows : Issue(r) \/ Teach(r)

LifeSpec == LifeInit /\ [][LifeNext]_lifeVars
=============================================================================
