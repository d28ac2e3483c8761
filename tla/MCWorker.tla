------------------------------- MODULE MCWorker -------------------------------
(***************************************************************************)
(* Instance for TLC of four parts of a worker that share no state: the     *)
(* stall guard, the owner lock, the daily pick and a liveness tracker.  A  *)
(* behaviour is one of one part, while the others stand still.             *)
(***************************************************************************)
EXTENDS LoopStallGuard, OwnerGuard, DailyPick, LivenessTracker

VARIABLE focus

parts == <<guardVars, ownerVars, dailyVars, livenessVars>>

WorkerTypeOK == GuardTypeOK /\ OwnerTypeOK /\ DailyTypeOK /\ LivenessTypeOK

Init ==
    /\ focus \in {"stall", "owner", "pick", "life"}
    /\ GuardInit /\ (focus # "stall" => receipt = 0)
    /\ OwnerInit /\ (focus # "owner" => marker.id = 0)
    /\ DailyInit /\ LivenessInit

Next ==
    /\ UNCHANGED focus
    /\ \/ focus = "stall" /\ GuardNext /\ UNCHANGED <<ownerVars, dailyVars, livenessVars>>
       \/ focus = "owner" /\ OwnerNext /\ UNCHANGED <<guardVars, dailyVars, livenessVars>>
       \/ focus = "pick"  /\ DailyNext /\ UNCHANGED <<guardVars, ownerVars, livenessVars>>
       \/ focus = "life"  /\ LivenessNext /\ UNCHANGED <<guardVars, ownerVars, dailyVars>>

Spec == Init /\ [][Next]_<<focus, parts>>
=============================================================================
