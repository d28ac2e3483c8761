------------------------------- MODULE MCLoops -------------------------------
(***************************************************************************)
(* Instance for TLC of a worker's loops and what they run: the shared job  *)
(* scheduler, the pump scheduler, the ladder that its scans move, and the  *)
(* sync of the live subnets.  They share no state here, so a behaviour is  *)
(* one of one part, while the others stand still.                          *)
(***************************************************************************)
EXTENDS JobScheduler, PumpScheduler, PumpLadder, LiveSync

VARIABLE part

loops == <<vars, pumpVars, ladderVars, syncVars>>

LoopsTypeOK == TypeOK /\ PumpTypeOK /\ LadderTypeOK /\ SyncTypeOK

LoopsInit ==
    /\ part \in {"jobs", "pump", "ladder", "sync"}
    /\ Init /\ PumpInit /\ LadderInit
    /\ SyncInit /\ (part # "sync" => cache = "none")

LoopsNext ==
    /\ UNCHANGED part
    /\ \/ part = "jobs"   /\ Next       /\ UNCHANGED <<pumpVars, ladderVars, syncVars>>
       \/ part = "pump"   /\ PumpNext   /\ UNCHANGED <<vars, ladderVars, syncVars>>
       \/ part = "ladder" /\ LadderNext /\ UNCHANGED <<vars, pumpVars, syncVars>>
       \/ part = "sync"   /\ SyncNext   /\ UNCHANGED <<vars, pumpVars, ladderVars>>

\* The fairness of a part asks nothing of the others: where they stand still, none of
\* the steps it names is possible.
LoopsSpec ==
    /\ LoopsInit /\ [][LoopsNext]_<<part, loops>>
    /\ Fairness /\ PumpFairness /\ SyncFairness
=============================================================================
