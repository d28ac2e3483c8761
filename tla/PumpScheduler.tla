----------------------------- MODULE PumpScheduler -----------------------------
(***************************************************************************)
(* internal/pump/scheduler.py and the scan it runs (pump/state.py), up to  *)
(* the shutdown of the worker.                                             *)
(*                                                                         *)
(* A tick takes the heavy-job slot, hands its body to a thread of its own  *)
(* and waits with a timeout; a body it gives up on runs on, and arms the   *)
(* next tick a second time when it gets there.  A scan may hang between    *)
(* its load and its save, where it holds _scan_lock; the API scans, too.   *)
(***************************************************************************)
CONSTANTS
    Bodies,     \* threads for bodies: as many run at once (bound)
    Kicks       \* threads that scan for the API (refresh.py, routes.py)

Ticks == {"job", "boot"}     \* the run of JOB_ID; the thread of an immediate start
Scanners == Bodies \cup Kicks

ASSUME PumpAssumption == Bodies \cap Kicks = {} /\ Scanners \cap {"none"} = {}

VARIABLES
    active, starter,      \* _active; the thread in start(), after it set it
    armed, misfired,      \* JOB_ID is in the store; APScheduler has dropped it once
    pumpSlot, other,      \* holder of the heavy-job slot: "none", "other" or a tick;
                          \* another heavy job is inside
    pumpTick, bodyOf,     \* per tick: its place, and the body it waits for
    scan, scanLock,       \* per scanner: its place; the holder of _scan_lock
    fetching              \* a fetch thread that was given up still runs

startV == <<active, starter>>
jobV   == <<armed, misfired>>
slotV  == <<pumpSlot, other>>
scanV  == <<scan, scanLock, fetching>>
pumpVars == <<startV, jobV, slotV, pumpTick, bodyOf, scanV>>

PumpTypeOK ==
    /\ active \in BOOLEAN /\ starter \in {"none", "arm"}
    /\ armed \in BOOLEAN /\ misfired \in BOOLEAN
    /\ pumpSlot \in {"none", "other"} \cup Ticks /\ other \in BOOLEAN
    /\ pumpTick \in [Ticks -> {"idle", "gate", "skip", "again", "spawn", "wait", "record",
                              "rearm", "leave"}]
    /\ bodyOf \in [Ticks -> Bodies \cup {"none"}]
    /\ scan \in [Scanners -> {"idle", "fetch", "lock", "rows", "record", "unlock", "report",
                              "rearm"}]
    /\ scanLock \in Scanners \cup {"none"} /\ fetching \in BOOLEAN

PumpInit ==
    /\ active = FALSE /\ starter = "none"
    /\ armed = FALSE /\ misfired = FALSE
    /\ pumpSlot = "none" /\ other = FALSE
    /\ pumpTick = [t \in Ticks |-> "idle"] /\ bodyOf = [t \in Ticks |-> "none"]
    /\ scan = [b \in Scanners |-> "idle"] /\ scanLock = "none" /\ fetching = FALSE

TickTo(t, place) == pumpTick' = [pumpTick EXCEPT ![t] = place]
ScanTo(b, place) == scan' = [scan EXCEPT ![b] = place]

(***************************************************************************)
(* start, by the boot (which may ask for an immediate tick) or the API.    *)
(***************************************************************************)
Activate ==
    /\ ~active
    /\ active' = TRUE /\ starter' = "arm"
    /\ UNCHANGED <<jobV, slotV, pumpTick, bodyOf, scanV>>

FirstTick ==
    /\ starter = "arm" /\ starter' = "none"
    /\ \/ armed' = TRUE /\ UNCHANGED pumpTick
       \/ TickTo("boot", "gate") /\ UNCHANGED armed
    /\ UNCHANGED <<active, misfired, slotV, bodyOf, scanV>>

(***************************************************************************)
(* APScheduler: the job is started, or dropped when it starts later than   *)
(* its misfire grace.  Retries come after 3 minutes at the soonest, long   *)
(* after the tick that arms them has left.                                 *)
(***************************************************************************)
FirePump ==
    /\ armed /\ pumpTick["job"] = "idle"
    /\ armed' = FALSE
    /\ TickTo("job", "gate")
    /\ UNCHANGED <<startV, misfired, slotV, bodyOf, scanV>>

DropPump ==
    /\ armed
    /\ armed' = FALSE /\ misfired' = TRUE
    /\ UNCHANGED <<startV, slotV, pumpTick, bodyOf, scanV>>

(***************************************************************************)
(* The slot, for the other heavy jobs.                                     *)
(***************************************************************************)
OtherIn  == pumpSlot = "none" /\ pumpSlot' = "other" /\ other' = TRUE
            /\ UNCHANGED <<startV, jobV, pumpTick, bodyOf, scanV>>
OtherOut == other /\ pumpSlot' = "none" /\ other' = FALSE
            /\ UNCHANGED <<startV, jobV, pumpTick, bodyOf, scanV>>

(***************************************************************************)
(* A tick.                                                                 *)
(***************************************************************************)
\* Bug: a tick that was turned away leaves as if it had been inside.
EnterSlotLeaves(t) ==
    /\ pumpTick[t] = "gate"
    /\ IF pumpSlot = "none"
       THEN pumpSlot' = t /\ TickTo(t, "spawn")
       ELSE TickTo(t, "record") /\ UNCHANGED pumpSlot
    /\ UNCHANGED <<startV, jobV, other, bodyOf, scanV>>

\* Busy: the skip is recorded and the next tick armed, outside.
EnterSlot(t) ==
    /\ pumpTick[t] = "gate"
    /\ IF pumpSlot = "none"
       THEN pumpSlot' = t /\ TickTo(t, "spawn")
       ELSE TickTo(t, "skip") /\ UNCHANGED pumpSlot
    /\ UNCHANGED <<startV, jobV, other, bodyOf, scanV>>

SpawnBody(t) ==
    /\ pumpTick[t] = "spawn"
    /\ \E b \in Bodies :
          /\ scan[b] = "idle"
          /\ ScanTo(b, "fetch")
          /\ bodyOf' = [bodyOf EXCEPT ![t] = b]
    /\ TickTo(t, "wait")
    /\ UNCHANGED <<startV, jobV, slotV, scanLock, fetching>>

\* done is set.
BodyDone(t) ==
    /\ pumpTick[t] = "wait" /\ bodyOf[t] = "none"
    /\ TickTo(t, "leave")
    /\ UNCHANGED <<startV, jobV, slotV, bodyOf, scanV>>

\* Bug: a stalled body is left with the re-arming as well.
StallLeaves(t) ==
    /\ pumpTick[t] = "wait"
    /\ bodyOf' = [bodyOf EXCEPT ![t] = "none"]
    /\ TickTo(t, "leave")
    /\ UNCHANGED <<startV, jobV, slotV, scanV>>

\* PUMP_LADDER_BODY_STALL_SECONDS are over: the body is on its own.
Stall(t) ==
    /\ pumpTick[t] = "wait"
    /\ bodyOf' = [bodyOf EXCEPT ![t] = "none"]
    /\ TickTo(t, "record")
    /\ UNCHANGED <<startV, jobV, slotV, scanV>>

\* record_ladder_scan_run.
RecordTick(t) ==
    /\ \/ pumpTick[t] = "record" /\ TickTo(t, "rearm")
       \/ pumpTick[t] = "skip"   /\ TickTo(t, "again")
    /\ UNCHANGED <<startV, jobV, slotV, bodyOf, scanV>>

\* _schedule_next.
RearmTick(t) ==
    /\ armed' = TRUE
    /\ \/ pumpTick[t] = "rearm" /\ TickTo(t, "leave")
       \/ pumpTick[t] = "again" /\ TickTo(t, "idle")
    /\ UNCHANGED <<startV, misfired, slotV, bodyOf, scanV>>

\* The slot is cleared, whoever holds it.
LeaveSlot(t) ==
    /\ pumpTick[t] = "leave"
    /\ pumpSlot' = "none"
    /\ TickTo(t, "idle")
    /\ UNCHANGED <<startV, jobV, other, bodyOf, scanV>>

TickStep(t) ==
    \/ EnterSlot(t) \/ SpawnBody(t) \/ BodyDone(t) \/ Stall(t)
    \/ RecordTick(t) \/ RearmTick(t) \/ LeaveSlot(t)

(***************************************************************************)
(* scan_all_subnets, in a body or for the API.                             *)
(***************************************************************************)
\* Where a scan that does not happen, or is over, goes on.
AfterScan(b) == IF b \in Bodies THEN "report" ELSE "idle"

Kick(b) ==
    /\ b \in Kicks /\ scan[b] = "idle"
    /\ ScanTo(b, "fetch")
    /\ UNCHANGED <<startV, jobV, slotV, pumpTick, bodyOf, scanLock, fetching>>

\* The rows come, or they do not: an earlier fetch still runs, this one is given up
\* and goes on, or it fails.
FetchRows(b) ==
    /\ scan[b] = "fetch"
    /\ \/ ~fetching /\ ScanTo(b, "lock") /\ UNCHANGED fetching
       \/ ~fetching /\ ScanTo(b, AfterScan(b)) /\ fetching' \in BOOLEAN
       \/ fetching /\ ScanTo(b, AfterScan(b)) /\ UNCHANGED fetching
    /\ UNCHANGED <<startV, jobV, slotV, pumpTick, bodyOf, scanLock>>

FetchEnds ==
    /\ fetching /\ fetching' = FALSE
    /\ UNCHANGED <<startV, jobV, slotV, pumpTick, bodyOf, scan, scanLock>>

TakeScanLock(b) ==
    /\ scan[b] = "lock"
    /\ IF scanLock = "none"
       THEN scanLock' = b /\ ScanTo(b, "rows")
       ELSE ScanTo(b, AfterScan(b)) /\ UNCHANGED scanLock
    /\ UNCHANGED <<startV, jobV, slotV, pumpTick, bodyOf, fetching>>

\* Load, the rows, save, soul map: any of them may take for ever, or raise.
RowsDone(b) ==
    /\ scan[b] = "rows"
    /\ \E place \in {"record", "unlock"} : ScanTo(b, place)
    /\ UNCHANGED <<startV, jobV, slotV, pumpTick, bodyOf, scanLock, fetching>>

\* A scan records itself before it gives the lock back; its body does so again.
RecordScan(b) ==
    /\ scan[b] = "record"
    /\ ScanTo(b, "unlock")
    /\ UNCHANGED <<startV, jobV, slotV, pumpTick, bodyOf, scanLock, fetching>>

Unlock(b) ==
    /\ scan[b] = "unlock"
    /\ scanLock' = "none"
    /\ ScanTo(b, AfterScan(b))
    /\ UNCHANGED <<startV, jobV, slotV, pumpTick, bodyOf, fetching>>

ReportBody(b) ==
    /\ scan[b] = "report"
    /\ ScanTo(b, "rearm")
    /\ UNCHANGED <<startV, jobV, slotV, pumpTick, bodyOf, scanLock, fetching>>

\* The body arms the next tick, also when its own has given up on it, and sets done.
RearmBody(b) ==
    /\ scan[b] = "rearm"
    /\ armed' = TRUE
    /\ ScanTo(b, "idle")
    /\ bodyOf' = [t \in Ticks |-> IF bodyOf[t] = b THEN "none" ELSE bodyOf[t]]
    /\ UNCHANGED <<startV, misfired, slotV, pumpTick, scanLock, fetching>>

\* The steps a scanner is sure to take; RowsDone is not one of them.
ScanStep(b) ==
    \/ FetchRows(b) \/ TakeScanLock(b) \/ RecordScan(b) \/ Unlock(b)
    \/ ReportBody(b) \/ RearmBody(b)

PumpNext ==
    \/ Activate \/ FirstTick \/ FirePump \/ DropPump
    \/ OtherIn \/ OtherOut
    \/ \E t \in Ticks : TickStep(t)
    \/ \E b \in Scanners : Kick(b) \/ ScanStep(b) \/ RowsDone(b)
    \/ FetchEnds

PumpSpec == PumpInit /\ [][PumpNext]_pumpVars

\* Threads run and due jobs are started.  Not assumed: that a scan gets through its
\* rows, that a fetch ends, or that the other heavy jobs leave the slot.
PumpFairness ==
    /\ WF_pumpVars(FirstTick) /\ WF_pumpVars(FirePump)
    /\ \A t \in Ticks : WF_pumpVars(TickStep(t))
    /\ \A b \in Scanners : WF_pumpVars(ScanStep(b))

(***************************************************************************)
(* Properties.                                                             *)
(***************************************************************************)
\* The slot, and _scan_lock, which is taken without waiting as well: each is a slot of
\* HeavyJobGate, whose inside is told by the places of its users.
InPumpSlot == {t \in Ticks : pumpTick[t] \in {"spawn", "wait", "record", "rearm", "leave"}}
                \cup (IF other THEN {"other"} ELSE {})
Scanning   == {b \in Scanners : scan[b] \in {"rows", "record", "unlock"}}

PumpGate == INSTANCE HeavyJobGate WITH
    Callers <- Ticks \cup {"other"}, Free <- "none", holder <- pumpSlot, inside <- InPumpSlot
ScanGate == INSTANCE HeavyJobGate WITH
    Callers <- Scanners, Free <- "none", holder <- scanLock, inside <- Scanning

\* "_scan_lock stops overlap", and the slot's users are apart, too: neither the tick
\* that leaves a stalled body behind, nor the body when it ends late, nor a tick or a
\* scan that was turned away gives back what another holds.
PumpGatesRefined == PumpGate!GateSpec /\ ScanGate!GateSpec

\* Where a tick that goes on arms the next one: it, or the body it waits for.
WillArm(t) ==
    \/ pumpTick[t] \in {"gate", "skip", "again", "spawn", "record", "rearm"}
    \/ pumpTick[t] = "wait" /\ bodyOf[t] # "none"

\* A started scheduler has its next tick, or something at work that arms it, whoever
\* was given up and however its late re-arming falls between the ticks.
PumpAlive ==
    active /\ starter = "none" /\ ~misfired => armed \/ \E t \in Ticks : WillArm(t)

\* "a wedged scan cannot pin heavy_job_slot": a scheduler that was started ticks again
\* and again, whatever hangs in a scan and whoever holds the slot; only a job that
\* APScheduler drops ends that.
PumpRuns == active ~> misfired \/ \E t \in Ticks : pumpTick[t] = "gate"
=============================================================================
