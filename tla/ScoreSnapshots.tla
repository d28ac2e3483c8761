--------------------------- MODULE ScoreSnapshots ---------------------------
(***************************************************************************)
(* internal/council/score_snapshots.py: the scheduler of the score         *)
(* snapshot, its tick, the build that a tick waits for with a timeout, and *)
(* the completion that is deferred to a build that outlives its tick.      *)
(*                                                                         *)
(* A generation is one ScoreSnapshotScheduler of the process.  Threads:    *)
(* main starts and stops the scheduler, pool runs JOB_ID (APScheduler runs *)
(* one instance of an id), boot is the immediate first tick, guard is the  *)
(* stall guard, which revives the scheduler and runs one tick itself, and  *)
(* builder is the one-thread write executor.                               *)
(*                                                                         *)
(* The cycle summary and the liveness record are files: they survive the   *)
(* process.                                                                *)
(***************************************************************************)
EXTENDS Naturals, FiniteSets

CONSTANTS
    Runs, Marks,    \* ids of runs; progress marks (SnapshotProducer)
    MaxGen,         \* bound: generations made by one process
    MaxCrashes      \* bound: ends of the process

ASSUME SnapshotAssumption ==
    /\ Runs \subseteq Nat \ {0} /\ Marks \subseteq Nat \ {0}
    /\ MaxGen \in Nat \ {0} /\ MaxCrashes \in Nat

\* There is always a run id other than the last one.
ASSUME FreshRun == \A r \in Runs \cup {0} : \E s \in Runs : s # r

Gens     == 1..MaxGen
Starters == {"main", "guard"}
Tickers  == {"guard", "boot", "pool"}
Threads  == Starters \cup Tickers \cup {"builder"}

VARIABLES
    crashes,                \* ends of the process so far
    scheduler, made,        \* _scheduler (0: None); generations made so far
    lastRegistered,         \* _last_registered
    armed, mine,            \* per generation: _armed, _tick_active
    active,                 \* _TICK_ACTIVE
    job, owner, lost,       \* JOB_ID's generation, _job_owner; job was dropped
    pc, me,                 \* per thread: label, the generation it works for
    future, late,           \* _write_future; generation of its done callback
    out, res,               \* the build, and the tick's result, say published
    run,                    \* run_id of the tick in progress; 0: none
    cycle,                  \* the cycle summary on disk
    live, mem               \* liveness record on disk; per generation in memory

schedV == <<scheduler, made, lastRegistered, armed>>
jobV   == <<job, owner, lost>>
flagV  == <<active, mine>>
workV  == <<future, late>>
liveV  == <<live, mem>>
runV   == <<out, res, run>>
vars == <<crashes, schedV, jobV, flagV, pc, me, workV, runV, cycle, liveV>>

Body     == {"begin", "write", "wait", "record", "summary", "finish", "register"}
Complete == {"c_live", "c_summary", "c_clear"}
Tick     == {"gate", "probe", "skip", "skip_live", "rearm", "claim", "force"}
              \cup Body \cup Complete
Starting == {"register_gen", "arm", "schedule", "golive", "golive_now", "verify",
             "undo", "drop", "drop_live"}
Stopping == {"unregister", "cancel", "stop_live"}
Labels   == Tick \cup Starting \cup Stopping \cup
              {"idle", "release",                          \* pool, boot, builder
               "booted", "down",                           \* main
               "ready", "once", "revived"}                  \* guard

Record == [life : {"new", "started", "stopped"}, ok : BOOLEAN]

TypeOK ==
    /\ crashes \in 0..MaxCrashes
    /\ scheduler \in 0..MaxGen /\ made \in 0..MaxGen
    /\ lastRegistered \in 0..MaxGen
    /\ armed \in [Gens -> BOOLEAN] /\ mine \in [Gens -> BOOLEAN]
    /\ active \in BOOLEAN
    /\ job \in 0..MaxGen /\ owner \in 0..MaxGen /\ lost \in BOOLEAN
    /\ pc \in [Threads -> Labels] /\ me \in [Threads -> 0..MaxGen]
    /\ future \in {"none", "live", "done"} /\ late \in 0..MaxGen
    /\ out \in BOOLEAN /\ res \in [Tickers -> BOOLEAN]
    /\ run \in Runs \cup {0}
    /\ cycle \in [run : Runs \cup {0}, mark : Marks \cup {0}]
    /\ live \in Record /\ mem \in [Gens -> Record]

\* A row of the cycle summary; run 0 stands for a row that is not a scoring one.
Blank == [run |-> 0, mark |-> 0]
Scoring(r, m) == [run |-> r, mark |-> m]

\* What a new process starts with.  The files are what the last one left.
NewPc    == [t \in Threads |-> CASE t = "main" -> "register_gen"
                                 [] t = "guard" -> "ready"
                                 [] OTHER -> "idle"]
NewMem   == [g \in Gens |-> [life |-> "new", ok |-> FALSE]]
NoGens   == [g \in Gens |-> FALSE]
NoResult == [t \in Tickers |-> FALSE]
Nobody   == [t \in Threads |-> 0]

Init ==
    /\ crashes = 0
    /\ scheduler = 0 /\ made = 0 /\ lastRegistered = 0
    /\ armed = NoGens /\ mine = NoGens /\ active = FALSE
    /\ job = 0 /\ owner = 0 /\ lost = FALSE
    /\ pc = NewPc /\ me = Nobody
    /\ future = "none" /\ late = 0
    /\ out = FALSE /\ res = NoResult /\ run = 0
    /\ mem = NewMem
    /\ cycle = Blank
    /\ live = [life |-> "new", ok |-> FALSE]

Go(t, label)   == pc' = [pc EXCEPT ![t] = label] /\ UNCHANGED me
Call(t, label, g) == pc' = [pc EXCEPT ![t] = label] /\ me' = [me EXCEPT ![t] = g]

Return(t) == Call(t, IF t = "guard" THEN "revived" ELSE "idle", 0)

\* Ticks of the pool and of boot ask `_arm_still_valid` and reschedule; run_once
\* does neither.
Scheduled(t) == t \in {"pool", "boot"}

\* The end of a tick, which for a scheduled one is to set the next job.
Leave(t) == IF Scheduled(t) THEN Go(t, "rearm") ELSE Return(t)

(***************************************************************************)
(* The registration, the job and the liveness record.                      *)
(***************************************************************************)
ArmStillValid(g) == scheduler = g /\ armed[g]

\* _schedule_tick: the check and the job are one step under _job_lock.
ScheduleTick(g) ==
    IF ArmStillValid(g)
    THEN job' = g /\ owner' = g /\ lost' = FALSE
    ELSE UNCHANGED jobV

\* _cancel_own_job: disarm, and remove JOB_ID unless another generation set it.
CancelOwnJob(g) ==
    /\ armed' = [armed EXCEPT ![g] = FALSE]
    /\ IF owner = g THEN owner' = 0 /\ job' = 0 /\ UNCHANGED lost
       ELSE UNCHANGED jobV

\* Bug: any generation may write when no one is registered.
OwnsRecordLoose(g, strict) ==
    \/ scheduler = g /\ (strict => armed[g])
    \/ ~strict /\ scheduler = 0

\* Bug: a generation that was stopped writes whoever is registered.
OwnsRecordUnfenced(g, strict) == strict => scheduler = g /\ armed[g]

\* Who may write the liveness record: the registered generation (armed, when it
\* starts), or the one registered last when nobody is.
OwnsRecord(g, strict) ==
    \/ scheduler = g /\ (strict => armed[g])
    \/ ~strict /\ scheduler = 0 /\ lastRegistered = g

\* _persist_liveness: under _lifecycle_lock the tracker is changed and saved whole.
PersistLiveness(g, strict, record) ==
    IF OwnsRecord(g, strict)
    THEN mem' = [mem EXCEPT ![g] = record] /\ live' = record
    ELSE UNCHANGED liveV

\* _write_liveness_result: a success is remembered; a skip or a failure keeps it.
RecordResult(g, published) ==
    PersistLiveness(g, FALSE, [mem[g] EXCEPT !.ok = @ \/ published])

(***************************************************************************)
(* start_score_snapshot_scheduler and start().                             *)
(***************************************************************************)
Started(t) == Call(t, IF t = "guard" THEN "once" ELSE "booted", 0)

\* Under _lifecycle_lock: make and register a generation unless there is one; a
\* new tracker reads the record on disk.
RegisterGen(t) ==
    /\ pc[t] = "register_gen"
    /\ IF scheduler = 0
       THEN /\ made < MaxGen
            /\ made' = made + 1
            /\ scheduler' = made' /\ lastRegistered' = made'
            /\ mem' = [mem EXCEPT ![made'] = live]
       ELSE UNCHANGED <<made, scheduler, lastRegistered, mem>>
    /\ Call(t, "arm", scheduler')
    /\ UNCHANGED <<crashes, armed, jobV, flagV, workV, runV, cycle, live>>

\* start(): refuse when unregistered or armed, else arm; boot may ask for an
\* immediate first tick.
Arm(t) ==
    /\ pc[t] = "arm"
    /\ LET g == me[t] IN
       IF scheduler # g \/ armed[g]
       THEN Started(t) /\ UNCHANGED armed
       ELSE /\ armed' = [armed EXCEPT ![g] = TRUE]
            /\ \/ Go(t, "schedule")
               \/ t = "main" /\ Go(t, "golive_now")
    /\ UNCHANGED <<crashes, scheduler, made, lastRegistered, jobV, flagV,
                   workV, runV, cycle, liveV>>

ScheduleFirst(t) ==
    /\ pc[t] = "schedule"
    /\ ScheduleTick(me[t])
    /\ IF ArmStillValid(me[t]) THEN Go(t, "golive") ELSE Started(t)
    /\ UNCHANGED <<crashes, schedV, flagV, workV, runV, cycle, liveV>>

\* _start_liveness; a generation fenced out drops its job and is not started.  The
\* immediate tick has a thread of its own.
StartLiveness(t) ==
    /\ pc[t] \in {"golive", "golive_now"}
    /\ LET g == me[t] IN
       /\ PersistLiveness(g, TRUE, [mem[g] EXCEPT !.life = "started"])
       /\ CASE ~OwnsRecord(g, TRUE) -> Go(t, "undo")
            [] OwnsRecord(g, TRUE) /\ pc[t] = "golive" -> Go(t, "verify")
            [] OTHER -> /\ pc' = [pc EXCEPT ![t] = "verify", !["boot"] = "gate"]
                        /\ me' = [me EXCEPT !["boot"] = g]
    /\ UNCHANGED <<crashes, schedV, jobV, flagV, workV, runV, cycle>>

\* _stopped_during_arm.
Verify(t) ==
    /\ pc[t] = "verify"
    /\ IF ArmStillValid(me[t]) THEN Started(t) ELSE Go(t, "drop")
    /\ UNCHANGED <<crashes, schedV, jobV, flagV, workV, runV, cycle, liveV>>

DropJob(t) ==
    /\ pc[t] \in {"undo", "drop"}
    /\ CancelOwnJob(me[t])
    /\ IF pc[t] = "undo" THEN Started(t) ELSE Go(t, "drop_live")
    /\ UNCHANGED <<crashes, scheduler, made, lastRegistered, flagV, workV, runV, cycle, liveV>>

DropLiveness(t) ==
    /\ pc[t] = "drop_live"
    /\ PersistLiveness(me[t], FALSE, [mem[me[t]] EXCEPT !.life = "stopped"])
    /\ Started(t)
    /\ UNCHANGED <<crashes, schedV, jobV, flagV, workV, runV, cycle>>

StartStep(t) ==
    RegisterGen(t) \/ Arm(t) \/ ScheduleFirst(t) \/ StartLiveness(t)
      \/ Verify(t) \/ DropJob(t) \/ DropLiveness(t)

(***************************************************************************)
(* stop_score_snapshot_scheduler and stop().                               *)
(***************************************************************************)
Stopped(t) == Call(t, IF t = "guard" THEN "register_gen" ELSE "down", 0)

Unregister(t) ==
    /\ pc[t] = "unregister"
    /\ scheduler' = 0
    /\ IF scheduler = 0
       THEN Stopped(t) /\ UNCHANGED lastRegistered
       ELSE lastRegistered' = scheduler /\ Call(t, "cancel", scheduler)
    /\ UNCHANGED <<crashes, made, armed, jobV, flagV, workV, runV, cycle, liveV>>

\* stop() disarms under _lock and again in _cancel_own_job.  Nobody is armed
\* once unregistered, so the two are one step.
StopJob(t) ==
    /\ pc[t] = "cancel"
    /\ CancelOwnJob(me[t])
    /\ Go(t, "stop_live")
    /\ UNCHANGED <<crashes, scheduler, made, lastRegistered, flagV, workV, runV, cycle, liveV>>

StopLiveness(t) ==
    /\ pc[t] = "stop_live"
    /\ PersistLiveness(me[t], FALSE, [mem[me[t]] EXCEPT !.life = "stopped"])
    /\ Stopped(t)
    /\ UNCHANGED <<crashes, schedV, jobV, flagV, workV, runV, cycle>>

StopStep(t) == Unregister(t) \/ StopJob(t) \/ StopLiveness(t)

\* The process is told to stop.  Bound: only the last one.
Shutdown ==
    /\ pc["main"] = "booted" /\ crashes = MaxCrashes
    /\ Go("main", "unregister")
    /\ UNCHANGED <<crashes, schedV, jobV, flagV, workV, runV, cycle, liveV>>

(***************************************************************************)
(* APScheduler: a one-shot job leaves the store when it is due, started or *)
(* not.                                                                    *)
(***************************************************************************)
Fire ==
    /\ job # 0 /\ pc["pool"] = "idle"
    /\ job' = 0
    /\ Call("pool", "gate", job)
    /\ UNCHANGED <<crashes, schedV, owner, lost, flagV, workV, runV, cycle, liveV>>

\* A job that is due while JOB_ID still runs, or later than its grace time, is
\* dropped and only logged.
Lose ==
    /\ job # 0
    /\ job' = 0 /\ lost' = TRUE
    /\ UNCHANGED <<crashes, schedV, owner, flagV, pc, me, workV, runV, cycle, liveV>>

(***************************************************************************)
(* _tick.                                                                  *)
(***************************************************************************)
\* A scheduled tick of a stopped generation does nothing.
Gate(t) ==
    /\ pc[t] = "gate"
    /\ IF Scheduled(t) /\ ~ArmStillValid(me[t]) THEN Return(t) ELSE Go(t, "probe")
    /\ UNCHANGED <<crashes, schedV, jobV, flagV, workV, runV, cycle, liveV>>

\* _scoring_in_progress: by the flags, or by a scoring row on disk that is young.
InProgress(g, young) ==
    future = "live" \/ active \/ mine[g] \/ (cycle.run # 0 /\ young)

\* A tick that finds work in progress is skipped, and says nothing when the work
\* is of its own generation: its row would replace the scoring one.  Otherwise it
\* asks for the heavy slot, which any job may hold, and leaves it at once.
Probe(t) ==
    /\ pc[t] = "probe"
    /\ \/ InProgress(me[t], TRUE) /\ IF mine[me[t]] THEN Leave(t) ELSE Go(t, "skip")
       \/ ~InProgress(me[t], FALSE) /\ Go(t, "claim")
       \/ ~InProgress(me[t], FALSE) /\ Go(t, "skip")
    /\ UNCHANGED <<crashes, schedV, jobV, flagV, workV, runV, cycle, liveV>>

SkipSummary(t) ==
    /\ pc[t] = "skip"
    /\ cycle' = Blank
    /\ Go(t, "skip_live")
    /\ UNCHANGED <<crashes, schedV, jobV, flagV, workV, runV, liveV>>

SkipLiveness(t) ==
    /\ pc[t] = "skip_live"
    /\ RecordResult(me[t], FALSE)
    /\ Leave(t)
    /\ UNCHANGED <<crashes, schedV, jobV, flagV, workV, runV, cycle>>

Rearm(t) ==
    /\ pc[t] = "rearm"
    /\ ScheduleTick(me[t])
    /\ Return(t)
    /\ UNCHANGED <<crashes, schedV, flagV, workV, runV, cycle, liveV>>

(***************************************************************************)
(* _tick_body.                                                             *)
(***************************************************************************)
\* Bug: the slot is taken without a look at the build of an earlier tick.
ClaimAlways(t) ==
    /\ pc[t] = "claim"
    /\ active' = TRUE /\ mine' = [mine EXCEPT ![me[t]] = TRUE]
    /\ Go(t, "begin")
    /\ UNCHANGED <<crashes, schedV, jobV, workV, runV, cycle, liveV>>

\* Under _lock: see a stop, see another tick or its build, or take the slot.
Claim(t) ==
    /\ pc[t] = "claim"
    /\ IF Scheduled(t) /\ ~ArmStillValid(me[t])
       THEN Return(t) /\ UNCHANGED flagV
       ELSE IF active \/ future = "live"
       THEN Go(t, "skip_live") /\ UNCHANGED flagV
       ELSE /\ active' = TRUE /\ mine' = [mine EXCEPT ![me[t]] = TRUE]
            /\ Go(t, "begin")
    /\ UNCHANGED <<crashes, schedV, jobV, workV, runV, cycle, liveV>>

\* Bug: ids count on from the row on disk.
NewRunCounted == cycle.run + 1

\* A new run_id: it only needs to differ from the one it follows.
NewRun == CHOOSE r \in Runs : r # cycle.run

\* _clear_stuck_scoring, whose row is replaced at once, and the first row of the
\* run, which has no progress.
Begin(t) ==
    /\ pc[t] = "begin"
    /\ run' = NewRun /\ cycle' = Scoring(NewRun, 0)
    /\ Go(t, "write")
    /\ UNCHANGED <<crashes, schedV, jobV, flagV, workV, out, res, liveV>>

\* write_full_universe_snapshot up to the build: unusable weights or a failed
\* load end it; else the build is submitted.
Write(t) ==
    /\ pc[t] = "write"
    /\ \/ Go(t, "record") /\ UNCHANGED future
       \/ future # "live" /\ future' = "live" /\ Go(t, "wait")
    /\ UNCHANGED <<crashes, schedV, jobV, flagV, late, runV, cycle, liveV>>

\* fut.result(timeout): the build's result, or a timeout while it goes on.
Wait(t) ==
    /\ pc[t] = "wait"
    /\ \/ /\ future # "live"
          /\ res' = [res EXCEPT ![t] = out] /\ out' = FALSE
          /\ future' = "none"
       \/ future = "live" /\ UNCHANGED <<res, out, future>>
    /\ Go(t, "record")
    /\ UNCHANGED <<crashes, schedV, jobV, flagV, late, run, cycle, liveV>>

RecordLiveness(t) ==
    /\ pc[t] = "record"
    /\ RecordResult(me[t], res[t])
    /\ res' = [res EXCEPT ![t] = FALSE]
    /\ Go(t, "summary")
    /\ UNCHANGED <<crashes, schedV, jobV, flagV, workV, out, run, cycle>>

Summary(t) ==
    /\ pc[t] = "summary"
    /\ cycle' = Blank
    /\ Go(t, "finish")
    /\ UNCHANGED <<crashes, schedV, jobV, flagV, workV, runV, liveV>>

\* What the tick knew of its run and its build goes with it.
ClearFlags(t) ==
    /\ active' = FALSE /\ mine' = [mine EXCEPT ![me[t]] = FALSE]
    /\ run' = 0 /\ out' = FALSE

\* The finally: hand the flags to a build that still runs, or clear them.
Finish(t) ==
    /\ pc[t] = "finish"
    /\ IF future = "live"
       THEN Go(t, "register") /\ UNCHANGED <<flagV, run, out>>
       ELSE ClearFlags(t) /\ Leave(t)
    /\ UNCHANGED <<crashes, schedV, jobV, res, workV, cycle, liveV>>

\* Bug: a build that was released meanwhile leaves the flags as they are.
RegisterCallbackKeeps(t) ==
    /\ pc[t] = "register"
    /\ CASE future = "none" -> Go(t, "force") /\ UNCHANGED <<flagV, run, out, late>>
         [] future = "done" -> Go(t, "c_live") /\ UNCHANGED <<flagV, run, out, late>>
         [] future = "live" -> late' = me[t] /\ Return(t) /\ UNCHANGED <<flagV, run, out>>
    /\ UNCHANGED <<crashes, schedV, jobV, res, future, cycle, liveV>>

\* _register_write_completion_callback: the build may be released, done, or live.
RegisterCallback(t) ==
    /\ pc[t] = "register"
    /\ CASE future = "none" -> ClearFlags(t) /\ Go(t, "force") /\ UNCHANGED late
         [] future = "done" -> Go(t, "c_live") /\ UNCHANGED <<flagV, run, out, late>>
         [] future = "live" -> late' = me[t] /\ Return(t) /\ UNCHANGED <<flagV, run, out>>
    /\ UNCHANGED <<crashes, schedV, jobV, res, future, cycle, liveV>>

(***************************************************************************)
(* _complete_write_future, by the builder or by the tick itself.           *)
(***************************************************************************)
CompleteLiveness(t) ==
    /\ pc[t] = "c_live"
    /\ RecordResult(me[t], out)
    /\ Go(t, "c_summary")
    /\ UNCHANGED <<crashes, schedV, jobV, flagV, workV, runV, cycle>>

CompleteSummary(t) ==
    /\ pc[t] = "c_summary"
    /\ cycle' = Blank
    /\ Go(t, "c_clear")
    /\ UNCHANGED <<crashes, schedV, jobV, flagV, workV, runV, liveV>>

CompleteClear(t) ==
    /\ pc[t] = "c_clear"
    /\ future' = IF future = "done" THEN "none" ELSE future
    /\ ClearFlags(t)
    /\ Go(t, "force")
    /\ UNCHANGED <<crashes, schedV, jobV, res, late, cycle, liveV>>

\* Bug: the deferred path re-arms for scheduled ticks only.
ForceRearmScheduled(t) ==
    /\ pc[t] = "force"
    /\ IF Scheduled(t) THEN ScheduleTick(me[t]) ELSE UNCHANGED jobV
    /\ Return(t)
    /\ UNCHANGED <<crashes, schedV, flagV, workV, runV, cycle, liveV>>

\* Whoever the tick was run by, the deferred path re-arms.
ForceRearm(t) ==
    /\ pc[t] = "force"
    /\ ScheduleTick(me[t])
    /\ Return(t)
    /\ UNCHANGED <<crashes, schedV, flagV, workV, runV, cycle, liveV>>

CompleteStep(t) ==
    CompleteLiveness(t) \/ CompleteSummary(t) \/ CompleteClear(t) \/ ForceRearm(t)

TickStep(t) ==
    \/ Gate(t) \/ Probe(t) \/ SkipSummary(t) \/ SkipLiveness(t) \/ Rearm(t) \/ Claim(t) \/ Begin(t)
    \/ Write(t) \/ Wait(t) \/ RecordLiveness(t) \/ Summary(t) \/ Finish(t)
    \/ RegisterCallback(t) \/ CompleteStep(t)

(***************************************************************************)
(* The build.                                                              *)
(***************************************************************************)
\* progress_cb: a row of the run with a mark of its own.
Progress(m) ==
    /\ pc["builder"] = "idle" /\ future = "live"
    /\ cycle' = Scoring(run, m)
    /\ UNCHANGED <<crashes, schedV, jobV, flagV, pc, me, workV, runV, liveV>>

\* The build publishes, refuses or raises.
BuildDone ==
    /\ pc["builder"] = "idle" /\ future = "live"
    /\ \E published \in BOOLEAN : out' = published
    /\ future' = "done"
    /\ Go("builder", "release")
    /\ UNCHANGED <<crashes, schedV, jobV, flagV, res, late, run, cycle, liveV>>

\* _release_write_future, then the callback of a tick that gave up waiting.  A live
\* build is a later one, queued behind this thread, and its callback is not ours.
Release ==
    /\ pc["builder"] = "release"
    /\ future' = IF future = "done" THEN "none" ELSE future
    /\ IF late = 0 \/ future = "live"
       THEN Call("builder", "idle", 0) /\ UNCHANGED late
       ELSE Call("builder", "c_live", late) /\ late' = 0
    /\ UNCHANGED <<crashes, schedV, jobV, flagV, runV, cycle, liveV>>

BuildStep ==
    (\E m \in Marks : Progress(m)) \/ BuildDone \/ Release \/ CompleteStep("builder")

(***************************************************************************)
(* revive_score_snapshot_scheduler, on the guard's thread.                 *)
(***************************************************************************)
\* What producer_tick_progress and the revive take for a running tick.
Busy == future = "live" \/ active \/ (scheduler # 0 /\ mine[scheduler])

Life == IF scheduler = 0 THEN "none" ELSE mem[scheduler].life

\* Not while a tick runs (the guard asks again later).  A generation that claims
\* to run is stopped first; its status may make a stopped one look running.
Revive ==
    /\ pc["guard"] = "ready" /\ ~Busy
    /\ \/ Life \in {"started", "stopped"} /\ Go("guard", "unregister")
       \/ Life # "started" /\ Go("guard", "register_gen")
    /\ UNCHANGED <<crashes, schedV, jobV, flagV, workV, runV, cycle, liveV>>

RunOnce ==
    /\ pc["guard"] = "once"
    /\ Call("guard", IF scheduler = 0 THEN "revived" ELSE "gate", scheduler)
    /\ UNCHANGED <<crashes, schedV, jobV, flagV, workV, runV, cycle, liveV>>

\* The process ends and its supervisor starts another.
Crash ==
    /\ crashes < MaxCrashes
    /\ crashes' = crashes + 1
    /\ scheduler' = 0 /\ made' = 0 /\ lastRegistered' = 0
    /\ armed' = NoGens /\ mine' = NoGens /\ active' = FALSE
    /\ job' = 0 /\ owner' = 0 /\ lost' = FALSE
    /\ pc' = NewPc /\ me' = Nobody
    /\ future' = "none" /\ late' = 0
    /\ out' = FALSE /\ res' = NoResult /\ run' = 0
    /\ mem' = NewMem
    /\ UNCHANGED <<cycle, live>>

Next ==
    \/ \E t \in Starters : StartStep(t) \/ StopStep(t)
    \/ \E t \in Tickers : TickStep(t)
    \/ BuildStep
    \/ Revive \/ RunOnce
    \/ Shutdown
    \/ Fire \/ Lose
    \/ Crash

Spec == Init /\ [][Next]_vars

(***************************************************************************)
(* Properties.                                                             *)
(***************************************************************************)
\* A thread is in the middle of a start or a stop of the scheduler.
Settled == \A t \in Starters : pc[t] \notin Starting \cup Stopping

\* Whoever may still clear the active flag: the tick in its body, the thread that
\* completes a late build, or the callback that waits for one.
Holders == {t \in Threads : pc[t] \in Body \cup Complete}

\* The active flag has exactly one holder, and the flag of a generation is up only
\* while its own holder is at work: it is never left up, which would end all later
\* ticks, and never taken down under a tick at work, although body, timeout, build
\* and callback hand it to each other (_tick_body, _complete_write_future).
FlagHasOneOwner ==
    /\ Cardinality(Holders) + (IF late # 0 THEN 1 ELSE 0) = IF active THEN 1 ELSE 0
    /\ \A g \in Gens : mine[g] <=> late = g \/ \E t \in Holders : me[t] = g

\* A tick or a late build of g whose last step sets the next job.
WillRearm(g) ==
    \/ late = g
    \/ \E t \in Tickers : Scheduled(t) /\ me[t] = g
    \/ \E t \in Threads : pc[t] \in {"c_live", "c_summary", "c_clear", "force"} /\ me[t] = g

\* An armed generation has its job or somebody who will set it, through every
\* interleaving of start, stop, revive, tick and late build, and no job of another
\* generation is left; unless APScheduler dropped the job (_schedule_tick,
\* _cancel_own_job, _tick).
ArmedAlive ==
    /\ scheduler # 0 /\ armed[scheduler] /\ Settled =>
         job = scheduler \/ WillRearm(scheduler) \/ lost
    /\ job # 0 => owner = job

\* A success in the liveness record is never forgotten: no generation, however
\* late, writes its own older record over that of a later one, and a restart
\* carries it on (_persist_liveness).
SuccessKept == [][live.ok => live'.ok]_live

\* The record says "started" while the registered generation is armed and nobody is
\* in the middle of a start or a stop: no late stop or start of another generation
\* says otherwise (_persist_liveness, _start_liveness).
LifeTruth ==
    scheduler # 0 /\ armed[scheduler] /\ Settled => live.life = "started"

\* The producer keeps what SnapshotProducer promises.
Producer == INSTANCE SnapshotProducer WITH active <- Busy, row <- cycle
ProducerRefined == Producer!ProducerSpec
=============================================================================
