------------------------------- MODULE DailyPick -------------------------------
(***************************************************************************)
(* internal/council/pick_scheduler.py (the daily half) and                 *)
(* daily_pick_engine.py, over one UTC day.                                 *)
(*                                                                         *)
(* A tick hands the pick to a worker thread and waits with a timeout; what *)
(* it gives up on runs on, cancelled by a generation number that it reads  *)
(* itself.  Readers of the API run the same get_or_create without a tick.  *)
(* All of them, and the placeholder a failed tick writes, replace today's  *)
(* row of one file under a file lock, by the order of their start.         *)
(***************************************************************************)
EXTENDS Naturals

CONSTANTS
    Readers,     \* threads that call get_or_create_today_pick
    MaxStamp,    \* bound: builds and placeholders begun in the day
    MaxBoots     \* bound: starts of the process

ASSUME DailyAssumption ==
    /\ MaxStamp \in Nat \ {0} /\ MaxBoots \in Nat \ {0}
    /\ Readers \cap {"worker", "tick"} = {}

Builders == {"worker"} \cup Readers

VARIABLES
    boots,                  \* starts of the process so far
    daily, stopped,         \* _daily is set; stop_pick_schedulers was called
    dailyJob, dropped,      \* DAILY_JOB_ID: none, soon (45 s or retry), or next slot
    tick, ready,            \* the tick's place; today_ready
    cancelled,              \* _work_generation moved on since the worker read it
    build, draft, outcome,  \* per builder: place, row to save; the future's result
    dayRow, clock           \* today's row on disk; time of the last build begun

tickV  == <<tick, ready>>
buildV == <<build, draft, outcome>>
dailyVars == <<boots, daily, stopped, dailyJob, dropped, tickV, cancelled, buildV,
               dayRow, clock>>

Kinds == {"none", "hold", "decision", "pick"}   \* hold: scheduler_hold
DayRow == [kind : Kinds, stamp : 0..MaxStamp]   \* stamp: build_started_at
NoDay  == [kind |-> "none", stamp |-> 0]

\* What the worker's future holds; timeout: it raised a TimeoutError of its own.
Raises   == {"raised", "timeout"}
Outcomes == {"none", "payload", "cancelled"} \cup Raises

DailyTypeOK ==
    /\ boots \in 1..MaxBoots /\ daily \in BOOLEAN /\ stopped \in BOOLEAN
    /\ dailyJob \in {"none", "soon", "slot"} /\ dropped \in BOOLEAN
    /\ tick \in {"idle", "load", "submit", "wait", "check", "failed", "hold", "hold_save",
                 "rearm", "schedule"}
    /\ ready \in BOOLEAN /\ cancelled \in BOOLEAN
    /\ build \in [Builders -> {"idle", "queued", "load", "score", "save"}]
    /\ draft \in [Builders \cup {"tick"} -> DayRow]
    /\ outcome \in Outcomes
    /\ dayRow \in DayRow /\ clock \in 0..MaxStamp

NoDrafts == [b \in Builders \cup {"tick"} |-> NoDay]
NoBuilds == [b \in Builders |-> "idle"]

DailyInit ==
    /\ boots = 1 /\ daily = FALSE /\ stopped = FALSE
    /\ dailyJob = "none" /\ dropped = FALSE
    /\ tick = "idle" /\ ready = FALSE /\ cancelled = FALSE
    /\ build = NoBuilds /\ draft = NoDrafts /\ outcome = "none"
    /\ dayRow = NoDay /\ clock = 0

Finished(row) == row.kind \notin {"none", "hold"}      \* _today_pick_ready

(***************************************************************************)
(* The file: _save, under its lock.                                        *)
(***************************************************************************)
Older(new) == new.stamp < dayRow.stamp

\* Bug: the lock's holder does not look for a published pick again.
SaveWithoutRecheck(new) == dayRow' = IF Older(new) THEN dayRow ELSE new

\* A placeholder never replaces a published pick, nor an older build a later one.
SaveDay(new) ==
    dayRow' = IF (new.kind = "hold" /\ dayRow.kind = "pick") \/ Older(new) THEN dayRow ELSE new

(***************************************************************************)
(* get_or_create_today_pick, by the worker or a reader.                    *)
(***************************************************************************)
\* The end of a build; the worker's is the result a waiting tick gets.
Finish(b, how) ==
    /\ build' = [build EXCEPT ![b] = "idle"]
    /\ draft' = [draft EXCEPT ![b] = NoDay]
    /\ outcome' = IF b = "worker" /\ tick = "wait" THEN how ELSE outcome

Read(r) ==
    /\ r \in Readers /\ build[r] = "idle"
    /\ build' = [build EXCEPT ![r] = "load"]
    /\ UNCHANGED <<boots, daily, stopped, dailyJob, dropped, tickV, cancelled, draft,
                   outcome, dayRow, clock>>

\* _run_pick reads the generation when its thread gets there, be that after the tick
\* gave up.
WorkBegins ==
    /\ build["worker"] = "queued"
    /\ build' = [build EXCEPT !["worker"] = "load"]
    /\ cancelled' = FALSE
    /\ UNCHANGED <<boots, daily, stopped, dailyJob, dropped, tickV, draft, outcome,
                   dayRow, clock>>

\* A finished row is returned, unless it is a HOLD from before the data was there
\* or a LONG that fails the gate.  Without subnets a HOLD is saved at once.
LoadDay(b) ==
    /\ build[b] = "load"
    /\ \/ Finished(dayRow) /\ Finish(b, "payload") /\ UNCHANGED clock
       \/ \E next \in {"score", "save"} :
            /\ clock < MaxStamp /\ clock' = clock + 1
            /\ build' = [build EXCEPT ![b] = next]
            /\ draft' = [draft EXCEPT ![b] = [kind |-> "decision", stamp |-> clock']]
            /\ UNCHANGED outcome
    /\ UNCHANGED <<boots, daily, stopped, dailyJob, dropped, tickV, cancelled, dayRow>>

\* select_daily_pick and the gates, then is_cancelled, which only a worker has.
Score(b) ==
    /\ build[b] = "score"
    /\ \/ \E how \in Raises : Finish(b, how)
       \/ b = "worker" /\ cancelled /\ Finish(b, "cancelled")
       \/ /\ ~(b = "worker" /\ cancelled)
          /\ build' = [build EXCEPT ![b] = "save"]
          /\ \E kind \in {"decision", "pick"} : draft' = [draft EXCEPT ![b].kind = kind]
          /\ UNCHANGED outcome
    /\ UNCHANGED <<boots, daily, stopped, dailyJob, dropped, tickV, cancelled, dayRow, clock>>

\* The save may find the file lock taken for too long, a TimeoutError, or fail to write.
SaveBuild(b) ==
    /\ build[b] = "save"
    /\ \/ SaveDay(draft[b]) /\ Finish(b, "payload")
       \/ (\E how \in Raises : Finish(b, how)) /\ UNCHANGED dayRow
    /\ UNCHANGED <<boots, daily, stopped, dailyJob, dropped, tickV, cancelled, clock>>

BuildMoves ==
    WorkBegins \/ \E b \in Builders : Read(b) \/ LoadDay(b) \/ Score(b) \/ SaveBuild(b)

(***************************************************************************)
(* DailyPickScheduler._tick.                                               *)
(***************************************************************************)
TickGoes(label) == tick' = label

LoadSubnets ==
    /\ tick = "load"
    /\ \/ TickGoes("submit") /\ cancelled' = TRUE
       \/ TickGoes("failed") /\ UNCHANGED cancelled
    /\ UNCHANGED <<boots, daily, stopped, dailyJob, dropped, ready, buildV, dayRow, clock>>

\* Bug: a refused tick sets no next one.
SubmitLeaves ==
    /\ tick = "submit"
    /\ IF build["worker"] # "idle"
       THEN TickGoes("idle") /\ UNCHANGED build
       ELSE build' = [build EXCEPT !["worker"] = "queued"] /\ TickGoes("wait")
    /\ UNCHANGED <<boots, daily, stopped, dailyJob, dropped, ready, cancelled, draft,
                   outcome, dayRow, clock>>

\* Under _submit_lock: refuse while an earlier worker still runs.
Submit ==
    /\ tick = "submit"
    /\ IF build["worker"] # "idle"
       THEN TickGoes("rearm") /\ UNCHANGED build
       ELSE build' = [build EXCEPT !["worker"] = "queued"] /\ TickGoes("wait")
    /\ UNCHANGED <<boots, daily, stopped, dailyJob, dropped, ready, cancelled, draft,
                   outcome, dayRow, clock>>

\* fut.result: what the worker returned or raised, or a timeout, which cancels the
\* worker by its generation, and drops it if its thread has not taken it yet.  On
\* Python 3.12 a TimeoutError that the worker raised is the same exception.
AwaitWork ==
    /\ tick = "wait"
    /\ \/ /\ build["worker"] = "idle" /\ outcome # "timeout"
          /\ TickGoes(CASE outcome = "payload" -> "check"
                        [] outcome = "cancelled" -> "rearm"
                        [] outcome = "raised" -> "failed")
          /\ UNCHANGED <<cancelled, build>>
       \/ /\ build["worker"] # "idle" \/ outcome = "timeout"
          /\ cancelled' = TRUE
          /\ TickGoes("hold")
          /\ \/ UNCHANGED build
             \/ build["worker"] = "queued" /\ build' = [build EXCEPT !["worker"] = "idle"]
    /\ outcome' = "none"
    /\ UNCHANGED <<boots, daily, stopped, dailyJob, dropped, ready, draft, dayRow, clock>>

CheckReady ==
    /\ tick = "check"
    /\ ready' = Finished(dayRow)
    /\ TickGoes("rearm")
    /\ UNCHANGED <<boots, daily, stopped, dailyJob, dropped, cancelled, buildV, dayRow, clock>>

\* An exception: a placeholder unless today's row is finished.
Failed ==
    /\ tick = "failed"
    /\ TickGoes(IF Finished(dayRow) THEN "rearm" ELSE "hold")
    /\ UNCHANGED <<boots, daily, stopped, dailyJob, dropped, ready, cancelled, buildV,
                   dayRow, clock>>

\* write_scheduler_hold: not over a published pick, as it reads the file ...
BeginHold ==
    /\ tick = "hold"
    /\ \/ dayRow.kind = "pick" /\ TickGoes("rearm") /\ UNCHANGED <<draft, clock>>
       \/ /\ dayRow.kind # "pick" /\ clock < MaxStamp /\ clock' = clock + 1
          /\ draft' = [draft EXCEPT !["tick"] = [kind |-> "hold", stamp |-> clock']]
          /\ TickGoes("hold_save")
    /\ UNCHANGED <<boots, daily, stopped, dailyJob, dropped, ready, cancelled, build,
                   outcome, dayRow>>

\* ... nor as it is written; a lock held for too long ends it.
SaveHold ==
    /\ tick = "hold_save"
    /\ SaveDay(draft["tick"]) \/ UNCHANGED dayRow
    /\ draft' = [draft EXCEPT !["tick"] = NoDay]
    /\ TickGoes("rearm")
    /\ UNCHANGED <<boots, daily, stopped, dailyJob, dropped, ready, cancelled, build,
                   outcome, clock>>

\* A tick of a stopped scheduler is the last.
StillScheduled ==
    /\ tick = "rearm"
    /\ TickGoes(IF daily THEN "schedule" ELSE "idle")
    /\ ready' = (ready /\ daily)
    /\ UNCHANGED <<boots, daily, stopped, dailyJob, dropped, cancelled, buildV, dayRow, clock>>

\* The next tick: soon, unless today's row is finished.
ScheduleNext ==
    /\ tick = "schedule"
    /\ dailyJob' = (IF ready THEN "slot" ELSE "soon") /\ dropped' = FALSE
    /\ TickGoes("idle") /\ ready' = FALSE
    /\ UNCHANGED <<boots, daily, stopped, cancelled, buildV, dayRow, clock>>

TickMoves ==
    LoadSubnets \/ Submit \/ AwaitWork \/ CheckReady \/ Failed \/ BeginHold \/ SaveHold
      \/ StillScheduled \/ ScheduleNext

(***************************************************************************)
(* The scheduler and the process.                                          *)
(***************************************************************************)
\* start_pick_schedulers: a first tick at once or after 45 s.
StartDaily ==
    /\ ~daily /\ ~stopped
    /\ daily' = TRUE
    /\ \/ TickGoes("load") /\ UNCHANGED dailyJob
       \/ dailyJob' = "soon" /\ UNCHANGED tick
    /\ UNCHANGED <<boots, stopped, dropped, ready, cancelled, buildV, dayRow, clock>>

FireDaily ==
    /\ dailyJob = "soon" /\ tick = "idle"
    /\ dailyJob' = "none" /\ TickGoes("load")
    /\ UNCHANGED <<boots, daily, stopped, dropped, ready, cancelled, buildV, dayRow, clock>>

\* APScheduler drops a job that it starts too late.
DropDaily ==
    /\ dailyJob = "soon"
    /\ dailyJob' = "none" /\ dropped' = TRUE
    /\ UNCHANGED <<boots, daily, stopped, tickV, cancelled, buildV, dayRow, clock>>

\* stop_pick_schedulers, then stop().
StopDaily ==
    /\ daily
    /\ daily' = FALSE /\ stopped' = TRUE
    /\ UNCHANGED <<boots, dailyJob, dropped, tickV, cancelled, buildV, dayRow, clock>>

CancelDaily ==
    /\ stopped /\ dailyJob # "none"
    /\ dailyJob' = "none"
    /\ UNCHANGED <<boots, daily, stopped, dropped, tickV, cancelled, buildV, dayRow, clock>>

\* The process ends and is started again: the file is kept.
Reboot ==
    /\ boots < MaxBoots /\ boots' = boots + 1
    /\ daily' = FALSE /\ stopped' = FALSE
    /\ dailyJob' = "none" /\ dropped' = FALSE
    /\ tick' = "idle" /\ ready' = FALSE /\ cancelled' = FALSE
    /\ build' = NoBuilds /\ draft' = NoDrafts /\ outcome' = "none"
    /\ UNCHANGED <<dayRow, clock>>

DailyNext ==
    \/ BuildMoves \/ TickMoves
    \/ StartDaily \/ FireDaily \/ DropDaily \/ StopDaily \/ CancelDaily
    \/ Reboot

DailySpec == DailyInit /\ [][DailyNext]_dailyVars

(***************************************************************************)
(* Properties.                                                             *)
(***************************************************************************)
\* Whatever late worker, reader or failed tick writes today's row, it is never one
\* whose build began before that of the row it replaces, and a placeholder never
\* replaces a published pick (_save, write_scheduler_hold).
PublishedPickKept ==
    [][ dayRow' # dayRow =>
          /\ dayRow'.stamp > dayRow.stamp
          /\ ~(dayRow.kind = "pick" /\ dayRow'.kind = "hold") ]_dayRow

\* A registered scheduler always has a next tick, and a soon one while the day has no
\* finished row, whichever way its tick, its worker and its placeholder ended, unless
\* APScheduler dropped the job (_tick, _refuse_inflight).
DailyLoopAlive ==
    daily => \/ tick # "idle" \/ dropped
             \/ dailyJob = "soon"
             \/ dailyJob = "slot" /\ Finished(dayRow)
=============================================================================
