------------------------- MODULE MCPredictionLedger -------------------------
(***************************************************************************)
(* Instances of PredictionLedger for TLC.  Rows of one slot compete for    *)
(* it; rows of one bucket collapse when they are pending together.         *)
(***************************************************************************)
EXTENDS PredictionLedger, TLC

CONSTANTS r1, r2, r3

OneSlot    == [r \in Rows |-> "slot"]
OwnBuckets == [r \in Rows |-> r]

\* r1 and r2 share the slot; r1 and r3 are an hour and a day row made together.
TwoSlots  == [r \in Rows |-> IF r = r3 THEN "day" ELSE "hour"]
OneBucket == [r \in Rows |-> IF r = r2 THEN "later" ELSE "now"]

RowSymmetry == Permutations(Rows)
=============================================================================
