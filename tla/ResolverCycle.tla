---------------------------- MODULE ResolverCycle ---------------------------
(***************************************************************************)
(* internal/council/resolver_scheduler.py: the tick that grades pending    *)
(* predictions, the worker thread that runs one grading cycle, the timeout *)
(* that abandons it, and the revive that replaces the scheduler.           *)
(*                                                                         *)
(* A thread executes `_tick` on one scheduler instance.  It enters the     *)
(* heavy-job slot, submits a cycle to a one-thread pool and waits for it   *)
(* with a timeout.  A cycle that misses its deadline is not stopped: it is *)
(* abandoned and its thread, the orphan, runs on.  A cycle is named by     *)
(* <<instance, generation>>.                                               *)
(*                                                                         *)
(* An atomic step is what the code does under one lock, or between two     *)
(* accesses to state another thread may change.                            *)
(***************************************************************************)
EXTENDS Naturals, FiniteSets

CONSTANTS
    Exec,        \* threads of the APScheduler pool, which run JOB_ID
    Control,     \* boot, loop-guard and API threads: revive, run_once, start
    NoOne,       \* the value of slot when nobody is in it
    Other,       \* the other users of the slot (pump scan, snapshot producer)
    MaxInst,     \* bound: scheduler instances created by revive
    RetryCap,    \* _JOB_RETRY_CAP
    MaxGen,      \* bound: generations of one instance
    MaxRetry,    \* bound: an id with that many ":retry" is scheduled and not run
    Misfires     \* TRUE: the pool may start a job later than its grace time

ASSUME ThreadsAssumption ==
    /\ Exec \cap Control = {}
    /\ NoOne \notin Exec \cup Control \cup {Other}
    /\ Other \notin Exec \cup Control
\* One control thread works at a time: the boot revive is over before the loop
\* guard's boot grace, and _scheduler_lock serialises what they do to the singleton.
ASSUME ControlAssumption == \A s, t \in Control : s = t
ASSUME BoundsAssumption ==
    /\ MaxInst \in Nat \ {0}
    /\ MaxGen \in Nat /\ RetryCap \in Nat
    /\ MaxRetry \in Nat \ {0}
    /\ Misfires \in BOOLEAN

Threads == Exec \cup Control
Insts   == 1..MaxInst
Gens    == 0..MaxGen            \* 0 stands for Python's None
Cycles  == Insts \X (Gens \ {0})
NoCycle == <<0, 0>>
Ids     == 0..MaxRetry          \* d stands for JOB_ID with d times ":retry"
JobId   == 0

\* The stages of a cycle.  heal stands for ledger_heal, subnet_provider and
\* soul_map_load, which no mid-guard tests; close for auto_retrain and the
\* finally of _run_refresh_cycle, which persist one after the other.
StageSet == {"heal", "resolve", "expire", "close"}

\* Bug: the stages go on after expire with one that the cycle has no part for.
NextStageUnknown(s) == CASE s = "heal"    -> "resolve"
                         [] s = "resolve" -> "expire"
                         [] s = "expire"  -> "auto_retrain"
                         [] OTHER         -> "close"

NextStage(s) == CASE s = "heal"    -> "resolve"
                  [] s = "resolve" -> "expire"
                  [] OTHER         -> "close"

\* A cycle's thread has these phases inside a stage: about to enter it, in its
\* body, before the persist that closes it, writing the summary.
Finished == {"none", "done", "raised", "cancelled"}
Phases   == Finished \cup {"queued", "enter", "body", "gate", "write",
                           "check", "unlock"}

\* Labels of a thread that is inside the slot.
InSlot == {"gate", "claim", "submit", "wait", "revoke", "force", "replace",
           "mark", "report", "clear", "leave"}
Labels == InSlot \cup {"idle", "enter", "busy", "settle", "addjob", "raised",
                       "probe", "rforce", "rreplace", "rclear", "rrelease",
                       "rstop", "rcancel", "rstart", "rjob", "ensure"}
Results == {"none", "ok", "error", "skip", "timeout", "raise"}
Kinds   == {"none", "partial", "final", "timeout", "skip"}

VARIABLES
    slot, other,                      \* heavy_job_gate: _holder; Other is inside
    pc, inst, src, id, cyc, res,      \* per thread: where, on which instance, started
                                      \*   by what, under which id, its cycle, its result
    active, nextRun,                  \* _active; _next_run_at is not None
    gen, owner, locked, inflight,     \* _cycle_generation, _persist_owner_gen,
                                      \*   _cycle_lock.locked(), _inflight_future
    plock,                            \* the cycle that holds _persist_lock, or 0
    phase, stage, failed,             \* per cycle: its worker thread
    abandoned,                        \* cycles whose _CycleTiming is marked
    cur, newest,                      \* _scheduler singleton (0: None); last made
    jobs,                             \* per id: the instance it will run (0: no job)
    retryCounts, gaveUp,              \* _retry_counts; history: instances whose last
                                      \*   scheduled run was given up by _guarded
    age,                              \* success age: 0 fresh, 1 over budget, 2 stall
    bootRevive, guardRevive, seenAge, \* revives still to come; age_before
    lastCycle, sealed                 \* soul_map last_cycle; timeouts reported

gateV  == <<slot, other>>
tickV  == <<inst, src, id, cyc, res>>
schedV == <<active, nextRun>>
lockV  == <<gen, owner, locked, inflight>>
workV  == <<phase, stage, failed>>
diskV  == <<plock, lastCycle, sealed>>
retryV == <<retryCounts, gaveUp>>
jobV   == <<cur, newest, jobs, retryV>>
revV   == <<age, bootRevive, guardRevive, seenAge>>
vars == <<gateV, pc, tickV, schedV, lockV, workV, abandoned, diskV, jobV, revV>>

GateType == slot \in Threads \cup {NoOne, Other} /\ other \in BOOLEAN
PcType == pc \in [Threads -> Labels]
TickType ==
    /\ inst \in [Threads -> Insts]
    /\ src \in [Threads -> {"scheduled", "direct", "revive"}]
    /\ id \in [Threads -> 0..MaxRetry - 1]
    /\ cyc \in [Threads -> Gens]
    /\ res \in [Threads -> Results]
SchedType ==
    /\ active \in [Insts -> BOOLEAN]
    /\ nextRun \in [Insts -> BOOLEAN]
LockType ==
    /\ gen \in [Insts -> Gens]
    /\ owner \in [Insts -> Gens]
    /\ locked \in [Insts -> BOOLEAN]
    /\ inflight \in [Insts -> Gens]
WorkType ==
    /\ phase \in [Cycles -> Phases]
    /\ stage \in [Cycles -> StageSet]
    /\ failed \in [Cycles -> BOOLEAN]
DiskType ==
    /\ plock \in [Insts -> Gens]
    /\ lastCycle \in [by : (Insts \X Gens) \cup {NoCycle}, kind : Kinds]
    /\ sealed \subseteq Insts \X Gens
    /\ abandoned \subseteq Insts \X Gens
JobType ==
    /\ cur \in Insts \cup {0}
    /\ newest \in Insts
    /\ jobs \in [Ids -> Insts \cup {0}]
    /\ retryCounts \in [Ids -> 0..RetryCap]
    /\ gaveUp \subseteq Insts
RevType ==
    /\ age \in 0..2
    /\ seenAge \in 0..2
    /\ bootRevive \in BOOLEAN
    /\ guardRevive \in BOOLEAN

TypeOK ==
    /\ GateType /\ PcType /\ TickType /\ SchedType /\ LockType
    /\ WorkType /\ DiskType /\ JobType /\ RevType

Go(t, label) == pc' = [pc EXCEPT ![t] = label]

Live(c) == phase[c] \notin Finished

\* Bug: an abandoned worker no longer counts as in flight.
InflightLiveForgetsOrphans(i) ==
    inflight[i] # 0 /\ Live(<<i, inflight[i]>>) /\ <<i, inflight[i]>> \notin abandoned

\* `inflight is not None and not inflight.done()`
InflightLive(i) == inflight[i] # 0 /\ Live(<<i, inflight[i]>>)

\* _persist_cycle_summary_locked.  It swallows a failed write: the previous
\* summary then stays, as if the step had not been taken.
Summarise(c, k) == lastCycle' = [by |-> c, kind |-> k]

(***************************************************************************)
(* The boot of the process: background_boot starts one scheduler, either   *)
(* with its first tick scheduled or with it running at once in a thread.   *)
(***************************************************************************)
InitState ==
    /\ slot = NoOne /\ other = FALSE
    /\ inst = [t \in Threads |-> 1] /\ src = [t \in Threads |-> "direct"]
    /\ id = [t \in Threads |-> JobId]
    /\ cyc = [t \in Threads |-> 0] /\ res = [t \in Threads |-> "none"]
    /\ active = [i \in Insts |-> i = 1]
    /\ gen = [i \in Insts |-> 0] /\ owner = [i \in Insts |-> 0]
    /\ locked = [i \in Insts |-> FALSE] /\ inflight = [i \in Insts |-> 0]
    /\ plock = [i \in Insts |-> 0]
    /\ phase = [c \in Cycles |-> "none"] /\ stage = [c \in Cycles |-> "heal"]
    /\ failed = [c \in Cycles |-> FALSE]
    /\ abandoned = {} /\ sealed = {}
    /\ cur = 1 /\ newest = 1
    /\ retryCounts = [d \in Ids |-> 0] /\ gaveUp = {}
    /\ age \in 0..2
    /\ bootRevive \in BOOLEAN /\ guardRevive = TRUE /\ seenAge = 0
    /\ lastCycle = [by |-> NoCycle, kind |-> "none"]

StartScheduled ==
    /\ pc = [t \in Threads |-> "idle"]
    /\ nextRun = [i \in Insts |-> i = 1]
    /\ jobs = [d \in Ids |-> IF d = JobId THEN 1 ELSE 0]

StartImmediate ==
    /\ \E d \in Control : pc = [t \in Threads |-> IF t = d THEN "enter" ELSE "idle"]
    /\ nextRun = [i \in Insts |-> FALSE]
    /\ jobs = [d \in Ids |-> 0]

Init == InitState /\ (StartScheduled \/ StartImmediate)

(***************************************************************************)
(* The job store.  JOB_ID and its retries are one-shots: an id leaves the  *)
(* store when it is due, and is lost when an earlier run of it is still    *)
(* going (max_instances = 1) or the pool starts it after its grace time.   *)
(***************************************************************************)
Running(d) == \E t \in Exec : pc[t] # "idle" /\ src[t] = "scheduled" /\ id[t] = d

\* schedule_in_seconds(JOB_ID, ..), which replaces; what it arms is not given up.
Arm(i) == jobs' = [jobs EXCEPT ![JobId] = i] /\ gaveUp' = gaveUp \ {i}

\* A tick uses at most two generations; MaxGen bounds how many ticks begin, so
\* that no tick is ever held up by the bound.
Ticking(i) == {u \in Threads : pc[u] # "idle" /\ inst[u] = i}

Begin(t, i, kind, d) ==
    /\ pc[t] = "idle"
    /\ gen[i] + 2 * Cardinality(Ticking(i)) + 2 <= MaxGen
    /\ Go(t, "enter")
    /\ inst' = [inst EXCEPT ![t] = i]
    /\ src' = [src EXCEPT ![t] = kind] /\ id' = [id EXCEPT ![t] = d]
    /\ UNCHANGED <<gateV, cyc, res, schedV, lockV, workV, abandoned, diskV, revV>>

FireJob(t, d) ==
    /\ jobs[d] # 0 /\ ~Running(d) /\ d < MaxRetry
    /\ Begin(t, jobs[d], "scheduled", d)
    /\ jobs' = [jobs EXCEPT ![d] = 0] /\ UNCHANGED <<cur, newest, retryV>>

DropJob(d) ==
    /\ jobs[d] # 0 /\ (Misfires \/ Running(d))
    /\ jobs' = [jobs EXCEPT ![d] = 0]
    /\ UNCHANGED <<gateV, pc, tickV, schedV, lockV, workV, abandoned, diskV,
                   cur, newest, retryV, revV>>

\* run_once from an API route: a tick on the caller's own thread.
RunOnce(t) ==
    /\ cur # 0
    /\ Begin(t, cur, "direct", JobId) /\ UNCHANGED jobV

\* The tick returned: the thread goes back where it came from.
Home(t) == IF src[t] = "revive" THEN "ensure" ELSE "idle"
Return(t, label) ==
    /\ Go(t, label)
    /\ cyc' = [cyc EXCEPT ![t] = 0] /\ res' = [res EXCEPT ![t] = "none"]
    /\ inst' = [inst EXCEPT ![t] = 1] /\ src' = [src EXCEPT ![t] = "direct"]
    /\ id' = [id EXCEPT ![t] = JobId]

\* _guarded after a run that did not raise: it forgets the failures of its own id.
Succeed(t) ==
    retryCounts' = IF src[t] = "scheduled" THEN [retryCounts EXCEPT ![id[t]] = 0] ELSE retryCounts

(***************************************************************************)
(* `_tick`.                                                                *)
(***************************************************************************)
\* Bug: the tick does not look at the slot.
TickEnterUngated(t) ==
    /\ pc[t] = "enter"
    /\ slot' = t /\ Go(t, "gate")
    /\ UNCHANGED <<other, tickV, schedV, lockV, workV, abandoned, diskV, jobV, revV>>

TickEnter(t) ==
    /\ pc[t] = "enter"
    /\ IF slot = NoOne THEN slot' = t /\ Go(t, "gate")
                       ELSE slot' = slot /\ Go(t, "busy")
    /\ UNCHANGED <<other, tickV, schedV, lockV, workV, abandoned, diskV, jobV, revV>>

\* heavy_job_busy: the skip is persisted, with no owner to check.
TickBusy(t) ==
    /\ pc[t] = "busy" /\ plock[inst[t]] = 0
    /\ Summarise(NoCycle, "skip")
    /\ res' = [res EXCEPT ![t] = "skip"] /\ Go(t, "settle")
    /\ UNCHANGED <<gateV, inst, src, id, cyc, schedV, lockV, workV, abandoned,
                   plock, sealed, jobV, revV>>

\* _run_refresh_cycle_with_timeout up to the end of its first _submit_lock.
TickGate(t) == LET i == inst[t] IN
    /\ pc[t] = "gate"
    /\ \/ /\ InflightLive(i)                   \* previous_cycle_inflight
          /\ res' = [res EXCEPT ![t] = "skip"] /\ Go(t, "leave")
          /\ UNCHANGED <<locked, lastCycle>>
       \/ /\ ~InflightLive(i) /\ locked[i]     \* cycle_in_flight
          /\ plock[i] = 0 /\ Summarise(NoCycle, "skip")
          /\ res' = [res EXCEPT ![t] = "skip"] /\ Go(t, "leave")
          /\ UNCHANGED locked
       \/ /\ ~InflightLive(i) /\ ~locked[i]
          /\ locked' = [locked EXCEPT ![i] = TRUE] /\ Go(t, "claim")
          /\ UNCHANGED <<res, lastCycle>>
    /\ UNCHANGED <<gateV, inst, src, id, cyc, schedV, gen, owner, inflight, workV,
                   abandoned, plock, sealed, jobV, revV>>

TickClaim(t) == LET i == inst[t] IN
    /\ pc[t] = "claim" /\ gen[i] < MaxGen
    /\ gen' = [gen EXCEPT ![i] = @ + 1]
    /\ owner' = [owner EXCEPT ![i] = gen[i] + 1]
    /\ cyc' = [cyc EXCEPT ![t] = gen[i] + 1]
    /\ Go(t, "submit")
    /\ UNCHANGED <<gateV, inst, src, id, res, schedV, locked, inflight, workV,
                   abandoned, diskV, jobV, revV>>

\* pool.submit under _submit_lock; it may fail to start a thread.
TickSubmit(t) == LET i == inst[t] IN
    /\ pc[t] = "submit"
    /\ \/ /\ phase' = [phase EXCEPT ![<<i, cyc[t]>>] = "queued"]
          /\ inflight' = [inflight EXCEPT ![i] = cyc[t]]
          /\ Go(t, "wait") /\ UNCHANGED res
       \/ /\ res' = [res EXCEPT ![t] = "raise"] /\ Go(t, "force")
          /\ UNCHANGED <<phase, inflight>>
    /\ UNCHANGED <<gateV, inst, src, id, cyc, schedV, gen, owner, locked, stage,
                   failed, abandoned, diskV, jobV, revV>>

\* fut.result(timeout) returns, or re-raises what the worker raised.
TickResult(t) == LET c == <<inst[t], cyc[t]>> IN
    /\ pc[t] = "wait" /\ ~Live(c)
    /\ res' = [res EXCEPT ![t] = IF phase[c] = "raised" THEN "raise"
                                 ELSE IF failed[c] THEN "error" ELSE "ok"]
    /\ Go(t, "clear")
    /\ UNCHANGED <<gateV, inst, src, id, cyc, schedV, lockV, workV, abandoned,
                   diskV, jobV, revV>>

\* fut.result(timeout) gives up on a worker that has not finished.
TickTimeout(t) ==
    /\ pc[t] = "wait" /\ Live(<<inst[t], cyc[t]>>)
    /\ res' = [res EXCEPT ![t] = "timeout"] /\ Go(t, "revoke")
    /\ UNCHANGED <<gateV, inst, src, id, cyc, schedV, lockV, workV, abandoned,
                   diskV, jobV, revV>>

\* Bug: the orphan keeps the ownership of the summary.
TickRevokeKeepsOwner(t) == LET i == inst[t] IN
    /\ pc[t] = "revoke" /\ gen[i] < MaxGen
    /\ gen' = [gen EXCEPT ![i] = @ + 1] /\ owner' = owner
    /\ Go(t, "force")
    /\ UNCHANGED <<gateV, tickV, schedV, locked, inflight, workV, abandoned,
                   diskV, jobV, revV>>

\* _abandon_inflight_cycle: the generation moves on, persist ownership is gone.
TickRevoke(t) == LET i == inst[t] IN
    /\ pc[t] = "revoke" /\ gen[i] < MaxGen
    /\ gen' = [gen EXCEPT ![i] = @ + 1] /\ owner' = [owner EXCEPT ![i] = 0]
    /\ Go(t, "force")
    /\ UNCHANGED <<gateV, tickV, schedV, locked, inflight, workV, abandoned,
                   diskV, jobV, revV>>

\* _force_release_cycle_lock: release, then replace the lock if it is held.
ForceRelease(t, i, from, next) ==
    /\ pc[t] = from
    /\ locked' = [locked EXCEPT ![i] = FALSE] /\ Go(t, next)
    /\ UNCHANGED <<gateV, tickV, schedV, gen, owner, inflight, workV, abandoned,
                   diskV, jobV, revV>>

TickForce(t)   == ForceRelease(t, inst[t], "force", "replace")
TickReplace(t) == ForceRelease(t, inst[t], "replace",
                     IF res[t] = "timeout" THEN "mark" ELSE "clear")

\* _abandoned_live += 1, timing.mark_abandoned().
TickMark(t) ==
    /\ pc[t] = "mark"
    /\ abandoned' = abandoned \cup {<<inst[t], cyc[t]>>} /\ Go(t, "report")
    /\ UNCHANGED <<gateV, tickV, schedV, lockV, workV, diskV, jobV, revV>>

\* The timeout summary, force=True: it waits for _persist_lock only.
TickReport(t) == LET c == <<inst[t], cyc[t]>> IN
    /\ pc[t] = "report" /\ plock[inst[t]] = 0
    /\ Summarise(c, "timeout") /\ sealed' = sealed \cup {c}
    /\ Go(t, "clear")
    /\ UNCHANGED <<gateV, tickV, schedV, lockV, workV, abandoned, plock, jobV, revV>>

\* Bug: the future is forgotten whether or not it is done.
TickClearAlways(t) == LET i == inst[t] c == <<inst[t], cyc[t]>> IN
    /\ pc[t] = "clear"
    /\ inflight' = [inflight EXCEPT ![i] = 0]
    /\ \/ UNCHANGED phase
       \/ phase[c] = "queued" /\ phase' = [phase EXCEPT ![c] = "cancelled"]
    /\ Go(t, "leave")
    /\ UNCHANGED <<gateV, tickV, schedV, gen, owner, locked, stage, failed,
                   abandoned, diskV, jobV, revV>>

\* The finally: forget a finished future; shut the pool down, which cancels
\* the cycle if its thread has not picked it up yet.
TickClear(t) == LET i == inst[t] c == <<inst[t], cyc[t]>> IN
    /\ pc[t] = "clear"
    /\ inflight' = IF InflightLive(i) THEN inflight ELSE [inflight EXCEPT ![i] = 0]
    /\ \/ UNCHANGED phase
       \/ phase[c] = "queued" /\ phase' = [phase EXCEPT ![c] = "cancelled"]
    /\ Go(t, "leave")
    /\ UNCHANGED <<gateV, tickV, schedV, gen, owner, locked, stage, failed,
                   abandoned, diskV, jobV, revV>>

\* The finally of heavy_job_slot.
TickLeave(t) ==
    /\ pc[t] = "leave"
    /\ slot' = NoOne /\ Go(t, IF res[t] = "raise" THEN "raised" ELSE "settle")
    /\ UNCHANGED <<other, tickV, schedV, lockV, workV, abandoned, diskV, jobV, revV>>

\* Bug: only a successful tick re-arms.
TickSettleIfOk(t) == LET i == inst[t] IN
    /\ pc[t] = "settle"
    /\ age' = IF res[t] = "ok" THEN 0 ELSE age
    /\ IF active[i] /\ res[t] = "ok"
       THEN /\ nextRun' = [nextRun EXCEPT ![i] = TRUE]
            /\ Go(t, "addjob") /\ UNCHANGED <<tickV, retryCounts>>
       ELSE nextRun' = nextRun /\ Succeed(t) /\ Return(t, Home(t))
    /\ UNCHANGED <<gateV, active, lockV, workV, abandoned, diskV, cur, newest, jobs,
                   gaveUp, bootRevive, guardRevive, seenAge>>

\* Record the outcome, then `if self._active: self._schedule_next(...)`, whose
\* own check of _active and _next_run_at share one hold of _lock.
TickSettle(t) == LET i == inst[t] IN
    /\ pc[t] = "settle"
    /\ age' = IF res[t] = "ok" THEN 0 ELSE age
    /\ IF active[i]
       THEN /\ nextRun' = [nextRun EXCEPT ![i] = TRUE]
            /\ Go(t, "addjob") /\ UNCHANGED <<tickV, retryCounts>>
       ELSE nextRun' = nextRun /\ Succeed(t) /\ Return(t, Home(t))
    /\ UNCHANGED <<gateV, active, lockV, workV, abandoned, diskV, cur, newest, jobs,
                   gaveUp, bootRevive, guardRevive, seenAge>>

\* schedule_in_seconds(JOB_ID, self._tick), outside _lock, replace_existing.
TickAddJob(t) ==
    /\ pc[t] = "addjob"
    /\ Arm(inst[t]) /\ Succeed(t) /\ Return(t, Home(t))
    /\ UNCHANGED <<gateV, schedV, lockV, workV, abandoned, diskV, cur, newest, revV>>

\* The retry is added under an id of its own, and not over a pending one.
Retry(t) == LET d == id[t] IN
    /\ retryCounts' = [retryCounts EXCEPT ![d] = @ + 1]
    /\ jobs' = [jobs EXCEPT ![d + 1] = IF @ = 0 THEN inst[t] ELSE @]
    /\ gaveUp' = gaveUp \ {inst[t]}

\* Past the cap nothing is scheduled, and the count begins anew.
GiveUp(t) ==
    /\ retryCounts' = [retryCounts EXCEPT ![id[t]] = 0]
    /\ gaveUp' = gaveUp \cup {inst[t]}
    /\ UNCHANGED jobs

\* Bug: scheduled runs are not wrapped in _guarded.
TickRaisedUnguarded(t) ==
    /\ pc[t] = "raised"
    /\ Return(t, "idle")
    /\ UNCHANGED <<gateV, schedV, lockV, workV, abandoned, diskV, jobV, revV>>

\* The exception left _tick: _guarded retries a scheduled run or gives its id up,
\* nobody retries a direct one.
TickRaised(t) ==
    /\ pc[t] = "raised"
    /\ \/ src[t] = "scheduled" /\ retryCounts[id[t]] < RetryCap /\ Retry(t)
       \/ src[t] = "scheduled" /\ retryCounts[id[t]] = RetryCap /\ GiveUp(t)
       \/ src[t] # "scheduled" /\ UNCHANGED <<jobs, retryV>>
    /\ Return(t, "idle")
    /\ UNCHANGED <<gateV, schedV, lockV, workV, abandoned, diskV, cur, newest, revV>>

Tick(t) ==
    \/ TickEnter(t) \/ TickBusy(t) \/ TickGate(t) \/ TickClaim(t) \/ TickSubmit(t)
    \/ TickResult(t) \/ TickTimeout(t) \/ TickRevoke(t) \/ TickForce(t)
    \/ TickReplace(t) \/ TickMark(t) \/ TickReport(t) \/ TickClear(t)
    \/ TickLeave(t) \/ TickSettle(t) \/ TickAddJob(t) \/ TickRaised(t)

\* Another user of the slot: the pump scan or the snapshot producer.
OtherEnter ==
    /\ slot = NoOne /\ slot' = Other /\ other' = TRUE
    /\ UNCHANGED <<pc, tickV, schedV, lockV, workV, abandoned, diskV, jobV, revV>>
OtherLeave ==
    /\ other /\ slot' = NoOne /\ other' = FALSE
    /\ UNCHANGED <<pc, tickV, schedV, lockV, workV, abandoned, diskV, jobV, revV>>

(***************************************************************************)
(* The cycle's thread: `_run_cycle` around `_run_refresh_cycle`.           *)
(***************************************************************************)
Owns(c)    == owner[c[1]] = c[2]                        \* may still persist
Stopped(c) == c \in abandoned \/ gen[c[1]] # c[2]       \* the mid-guard's test

At(c, ph) == phase' = [phase EXCEPT ![c] = ph]

WorkStart(c) ==
    /\ phase[c] = "queued"
    /\ At(c, IF gen[c[1]] = c[2] THEN "body" ELSE "check")
    /\ UNCHANGED <<gateV, pc, tickV, schedV, lockV, stage, failed, abandoned,
                   diskV, jobV, revV>>

\* resolve_due and expire_stale are skipped by the mid-guard, the others never.
WorkEnter(c) ==
    /\ phase[c] = "enter"
    /\ At(c, IF stage[c] \in {"resolve", "expire"} /\ Stopped(c) THEN "gate" ELSE "body")
    /\ UNCHANGED <<gateV, pc, tickV, schedV, lockV, stage, failed, abandoned,
                   diskV, jobV, revV>>

\* The body of a stage returns or raises.
WorkBody(c) ==
    /\ phase[c] = "body" /\ At(c, "gate")
    /\ \/ UNCHANGED failed
       \/ failed' = [failed EXCEPT ![c] = TRUE]
    /\ UNCHANGED <<gateV, pc, tickV, schedV, lockV, stage, abandoned, diskV,
                   jobV, revV>>

\* After the persist of a stage: the next one, or the finally after an error.
Advance(c) ==
    LET next == IF failed[c] THEN "close" ELSE NextStage(stage[c]) IN
    /\ stage' = [stage EXCEPT ![c] = IF @ = "close" THEN "heal" ELSE next]
    /\ At(c, IF stage[c] = "close" THEN "check"
             ELSE IF next = "close" THEN "gate" ELSE "enter")
    /\ UNCHANGED failed

\* persist_partial and the closing finally: an orphan skips the summary.
WorkSkip(c) ==
    /\ phase[c] = "gate" /\ (c \in abandoned \/ ~Owns(c))
    /\ Advance(c)
    /\ UNCHANGED <<gateV, pc, tickV, schedV, lockV, abandoned, diskV, jobV, revV>>

\* _persist_cycle_summary: under _persist_lock only the owner is looked at again.
WorkPersist(c) ==
    /\ phase[c] = "gate" /\ Owns(c) /\ plock[c[1]] = 0
    /\ plock' = [plock EXCEPT ![c[1]] = c[2]] /\ At(c, "write")
    /\ UNCHANGED <<gateV, pc, tickV, schedV, lockV, stage, failed, abandoned,
                   lastCycle, sealed, jobV, revV>>

\* Bug: _persist_lock is not released by a cycle that was revoked meanwhile.
WorkWriteKeepsLock(c) ==
    /\ phase[c] = "write"
    /\ Summarise(c, IF stage[c] = "close" THEN "final" ELSE "partial")
    /\ plock' = [plock EXCEPT ![c[1]] = IF Owns(c) THEN 0 ELSE @]
    /\ Advance(c)
    /\ UNCHANGED <<gateV, pc, tickV, schedV, lockV, abandoned, sealed, jobV, revV>>

WorkWrite(c) ==
    /\ phase[c] = "write"
    /\ Summarise(c, IF stage[c] = "close" THEN "final" ELSE "partial")
    /\ plock' = [plock EXCEPT ![c[1]] = 0]
    /\ Advance(c)
    /\ UNCHANGED <<gateV, pc, tickV, schedV, lockV, abandoned, sealed, jobV, revV>>

\* The finally of _run_cycle: test the generation, then release the lock.
WorkCheck(c) ==
    /\ phase[c] = "check"
    /\ At(c, IF gen[c[1]] = c[2] THEN "unlock" ELSE "done")
    /\ UNCHANGED <<gateV, pc, tickV, schedV, lockV, stage, failed, abandoned,
                   diskV, jobV, revV>>

\* Releasing an unlocked threading.Lock raises RuntimeError.
WorkUnlock(c) ==
    /\ phase[c] = "unlock"
    /\ locked' = [locked EXCEPT ![c[1]] = FALSE]
    /\ At(c, IF locked[c[1]] THEN "done" ELSE "raised")
    /\ UNCHANGED <<gateV, pc, tickV, schedV, gen, owner, inflight, stage,
                   failed, abandoned, diskV, jobV, revV>>

Work(c) ==
    \/ WorkStart(c) \/ WorkEnter(c) \/ WorkBody(c) \/ WorkSkip(c) \/ WorkPersist(c)
    \/ WorkWrite(c) \/ WorkCheck(c) \/ WorkUnlock(c)

(***************************************************************************)
(* revive_prediction_resolver_scheduler, from boot (force=True, at most    *)
(* once) or from the loop stall guard (a stale tick, once per process).    *)
(***************************************************************************)
Revive(t) ==
    /\ t \in Control /\ pc[t] = "idle"
    /\ newest < MaxInst
    /\ \/ bootRevive /\ bootRevive' = FALSE /\ UNCHANGED guardRevive
       \/ guardRevive /\ age = 2 /\ guardRevive' = FALSE /\ UNCHANGED bootRevive
    /\ seenAge' = age /\ Go(t, "probe")
    /\ UNCHANGED <<gateV, tickV, schedV, lockV, workV, abandoned, diskV, jobV, age>>

\* _resolver_cycle_lock_stale, asked only when the lock is held.
LockStale(i) == InflightLive(i) => seenAge >= 1

ReviveProbe(t) ==
    /\ pc[t] = "probe"
    /\ \/ /\ ~locked[cur]
          /\ locked' = [locked EXCEPT ![cur] = TRUE] /\ Go(t, "rrelease")
       \/ /\ locked[cur] /\ LockStale(cur) /\ Go(t, "rforce") /\ UNCHANGED locked
       \/ /\ locked[cur] /\ ~LockStale(cur) /\ Go(t, "idle") /\ UNCHANGED locked
    /\ seenAge' = 0
    /\ UNCHANGED <<gateV, tickV, schedV, gen, owner, inflight, workV, abandoned,
                   diskV, jobV, age, bootRevive, guardRevive>>

ReviveForce(t)   == ForceRelease(t, cur, "rforce", "rreplace")
ReviveReplace(t) == ForceRelease(t, cur, "rreplace", "rclear")

ReviveClear(t) ==
    /\ pc[t] = "rclear"
    /\ inflight' = IF InflightLive(cur) THEN inflight ELSE [inflight EXCEPT ![cur] = 0]
    /\ Go(t, "rrelease")
    /\ UNCHANGED <<gateV, tickV, schedV, gen, owner, locked, workV, abandoned,
                   diskV, jobV, revV>>

\* The release that follows both paths; a RuntimeError is swallowed.
ReviveRelease(t) == ForceRelease(t, cur, "rrelease", "rstop")

\* Bug: stop() forgets _active.
ReviveStopLeavesActive(t) ==
    /\ pc[t] = "rstop" /\ active[cur]
    /\ active' = active
    /\ nextRun' = [nextRun EXCEPT ![cur] = FALSE]
    /\ Go(t, "rcancel")
    /\ UNCHANGED <<gateV, tickV, lockV, workV, abandoned, diskV, jobV, revV>>

\* sched.stop() under _lock, then cancel_job(JOB_ID) and `_scheduler = None`.
ReviveStop(t) ==
    /\ pc[t] = "rstop" /\ active[cur]
    /\ active' = [active EXCEPT ![cur] = FALSE]
    /\ nextRun' = [nextRun EXCEPT ![cur] = FALSE]
    /\ Go(t, "rcancel")
    /\ UNCHANGED <<gateV, tickV, lockV, workV, abandoned, diskV, jobV, revV>>
ReviveCancel(t) ==
    /\ pc[t] = "rcancel"
    /\ jobs' = [jobs EXCEPT ![JobId] = 0] /\ cur' = 0 /\ Go(t, "rstart")
    /\ UNCHANGED <<gateV, tickV, schedV, lockV, workV, abandoned, diskV, newest,
                   retryV, revV>>

\* start_prediction_resolver_scheduler(immediate=False): a new instance.
ReviveStart(t) == LET i == newest + 1 IN
    /\ pc[t] = "rstart" /\ newest < MaxInst
    /\ newest' = i /\ cur' = i
    /\ active' = [active EXCEPT ![i] = TRUE]
    /\ nextRun' = [nextRun EXCEPT ![i] = TRUE]
    /\ Go(t, "rjob")
    /\ UNCHANGED <<gateV, tickV, lockV, workV, abandoned, diskV, jobs, retryV,
                   revV>>
\* Its first job, then run_once on the reviving thread itself.
ReviveJob(t) ==
    /\ pc[t] = "rjob" /\ cur # 0
    /\ Arm(cur)
    /\ inst' = [inst EXCEPT ![t] = cur] /\ src' = [src EXCEPT ![t] = "revive"]
    /\ Go(t, "enter")
    /\ UNCHANGED <<gateV, id, cyc, res, schedV, lockV, workV, abandoned, diskV, cur,
                   newest, retryCounts, revV>>

\* After run_once: arm the scheduler if nothing has.
ReviveEnsure(t) ==
    /\ pc[t] = "ensure"
    /\ IF ~nextRun[cur] /\ active[cur]
       THEN nextRun' = [nextRun EXCEPT ![cur] = TRUE] /\ Arm(cur)
       ELSE UNCHANGED <<nextRun, jobs, gaveUp>>
    /\ Go(t, "idle")
    /\ UNCHANGED <<gateV, tickV, active, lockV, workV, abandoned, diskV, cur,
                   newest, retryCounts, revV>>

ReviveStep(t) ==
    \/ ReviveProbe(t) \/ ReviveForce(t) \/ ReviveReplace(t) \/ ReviveClear(t)
    \/ ReviveRelease(t) \/ ReviveStop(t) \/ ReviveCancel(t) \/ ReviveStart(t)
    \/ ReviveJob(t) \/ ReviveEnsure(t)

\* Time passes since the last recorded success.
Age ==
    /\ age < 2 /\ age' = age + 1
    /\ UNCHANGED <<gateV, pc, tickV, schedV, lockV, workV, abandoned, diskV, jobV,
                   bootRevive, guardRevive, seenAge>>

Next ==
    \/ \E t \in Exec, d \in Ids : FireJob(t, d)
    \/ \E t \in Threads : Tick(t)
    \/ \E t \in Control : RunOnce(t) \/ Revive(t) \/ ReviveStep(t)
    \/ \E c \in Cycles : Work(c)
    \/ \E d \in Ids : DropJob(d)
    \/ OtherEnter \/ OtherLeave \/ Age

Spec == Init /\ [][Next]_vars

(***************************************************************************)
(* Fairness: the operating system runs every tick thread, disk writes      *)
(* finish and the wait has a timeout.  A stage body may hang forever:      *)
(* nothing is assumed of WorkBody.                                         *)
(***************************************************************************)
FairSpec ==
    /\ Spec
    /\ \A t \in Threads : WF_vars(Tick(t)) /\ WF_vars(ReviveStep(t))
    /\ \A c \in Cycles : WF_vars(WorkWrite(c))

(***************************************************************************)
(* Properties.                                                             *)
(***************************************************************************)
\* One scheduler instance never has two unfinished cycle threads, orphans
\* included: _inflight_future keeps an abandoned worker's place.
OneWorker == \A i \in Insts : \A g, h \in Gens \ {0} :
    Live(<<i, g>>) /\ Live(<<i, h>>) => g = h

\* While a tick owns the cycle lock and has not submitted yet, no older worker
\* of that instance is left that could release the lock under it.
NoForeignUnlock == \A t \in Threads :
    pc[t] \in {"claim", "submit"} =>
        \A g \in Gens \ {0} : ~Live(<<inst[t], g>>)

\* Once a timeout has been reported, the orphan never overwrites last_cycle.
NoStaleSummary == [][
    lastCycle' # lastCycle /\ lastCycle'.kind # "timeout"
        => lastCycle'.by \notin sealed]_vars

\* The inside of the heavy-job slot is the slot's holder.
Inside == {t \in Threads : pc[t] \in InSlot} \cup (IF other THEN {Other} ELSE {})
Gate == INSTANCE HeavyJobGate
            WITH Callers <- Threads \cup {Other}, Free <- NoOne,
                 holder <- slot, inside <- Inside
GateRefined == Gate!GateSpec

\* The self-rearming loop is never silently dead: when the current scheduler
\* says it has a next run, a run or a retry of it is pending, or one of its
\* ticks, or the revive that made it, is still at work; or _guarded has given
\* up the last of its runs to end, which is what the cap is for.
Pending(i) == \E d \in Ids : jobs[d] = i

ArmedHasJob ==
    cur # 0 /\ active[cur] /\ nextRun[cur] =>
        \/ Pending(cur) \/ cur \in gaveUp
        \/ \E t \in Threads : pc[t] # "idle" /\ (inst[t] = cur \/ t \in Control)

\* A tick that started always comes back to an armed loop, whatever the worker
\* does, unless _guarded gives it up: a hung cycle does not stop the chain.
ChainRearms == \A t \in Exec :
    pc[t] = "enter" /\ active[inst[t]]
        ~> (\E i \in Insts : Pending(i)) \/ gaveUp # {}

\* A timeout always gets its summary, also while the orphan holds _persist_lock:
\* "clear" comes after the report is written.
TimeoutReported == \A t \in Threads : pc[t] = "mark" ~> pc[t] = "clear"

\* Two cycles run at the same time only when nobody waits for one of them any
\* more: it was abandoned, on this scheduler or on the one before a revive.
Awaited(c) == \E t \in Threads : pc[t] = "wait" /\ <<inst[t], cyc[t]>> = c
OverlapIsOrphan == \A c, d \in Cycles :
    Live(c) /\ Live(d) /\ Awaited(c) /\ Awaited(d) => c = d

\* Revive never leaves two schedulers re-arming the same job id.
OneActive == \A i, j \in Insts : active[i] /\ active[j] => i = j
=============================================================================
