# A formal model of subnet-dashboard's learning loop

subnet-dashboard scores Bittensor subnets, issues predictions about them, grades
the predictions when their horizon is over and feeds the grades back into the
weights of its experts. Requests, background loops and a worker process share a
few JSON files, one heavy-job slot and one APScheduler; a loop re-arms itself at
its own end, and what hangs is abandoned, not stopped. This directory models that
machinery in TLA+: what TLC checks on small instances, TLAPS proves for every
value of the constants where it can.

Run from here: `tlc -workers 2 -config MCResolverChain.cfg MCResolverCycle`,
`tlapm ResolverCycleProofs.tla`; the runs, mutants, findings, hazards, theorems
and the correspondence with the code, line by line, are in `PROJECT.json`.

Contents: 1 inventory, 2 modules and code, 3 runs, bounds and fairness, 4 proofs,
5 findings and observations, 6 not modelled, 7 plan.

## 1. Inventory

Paths are under `src/internal/` unless they start with `src/`.

| component | state it keeps | operations | what is hard | what makes it correct |
|---|---|---|---|---|
| Prediction resolver scheduler (`council/resolver_scheduler.py`) | `_active`, `_next_run_at`, `_cycle_lock`, `_cycle_generation`, `_persist_owner_gen`, `_inflight_future`, singleton `_scheduler`, `last_cycle` in the soul map | start, `_tick`, cycle worker, abandon, `run_once`, stop, revive | a cycle that times out is left running as an orphan; revive races all of it | no two cycles at once that anyone waits for; orphans change nothing visible; the loop always re-arms |
| Heavy job gate (`heavy_job_gate.py`) | `_held`, `_holder` | enter without waiting, leave | used by loops that may hang | one inside; leaving frees one's own entry |
| Shared job scheduler (`job_scheduler.py`) | the APScheduler, `_retry_counts`, `_shutting_down` | schedule, run under `_guarded`, retry, cancel, shut down | a one-shot that is not armed again is a dead loop | a wanted loop is alive; retries are bounded; shutdown ends |
| Prediction ledger (`learning/predictions_store.py`, `council/resolver.py`, `learning/expired_recovery.py`, `council/deduplication.py`) | `data/predictions.json` | append, resolve due, regrade, restore, dedupe, expire, recover | loads without the lock, whole-file saves with it; the weights are in another file | nothing lost, learnt once, expired only after its retries, the pending list drains |
| Soul map store (`store/soul_map_io.py`, `council/weights.py`) | `data/soul_map.json`, a cache per process, three locks | read, mutate under lock, replace | three locks, a TTL, failing disks, several processes | no lost update, cache agrees with file, nobody waits for ever |
| Background boot (`background_boot.py`) | `resolver_revived` | staggered starts, one revive | judges others by their age | revives a dead loop and leaves a live one alone |
| Loop stall guard (`loop_stall_guard.py`) | `_TickWatch`, consecutive strikes, `revived`, `withdrawn` | read the receipt's age, probe the running tick, strike, revive, end the process | a probe that fails, a tick that starts after it, a run that replaces another | ends a process only over deserved strikes, and ends a stalled one within a bound |
| Score snapshots and scoring tick (`council/score_snapshots.py`) | `_scheduler`, `_armed`, `_TICK_ACTIVE`, the job's owner, the build's future, the cycle summary, the liveness record | start, tick, bounded build, deferred completion, stop, revive, `run_once` | body, timeout, build and callback hand one flag to each other; generations overlap | the flag has one holder, an armed generation re-arms, nobody overwrites a later record |
| Daily and hourly pick (`council/pick_scheduler.py`, `daily_pick_engine.py`) | today's row, `_work_generation`, the job | tick with a worker thread, cancel, placeholder, API reads | a late worker, a reader and a failed tick write the same row | a published pick stays; the loop goes on |
| Pump scheduler and ledgers (`pump/`) | ladder rows, combined ledger, `_scan_lock`, the job | bounded scan, abandon, re-arm, calibrate | a stalled body is left behind and the slot freed | the scheduler ticks for ever; a row moves by the ladder's rules |
| Liveness tracker (`liveness.py`) | counters, epochs, backoff, a bucket in the soul map | skip, success, failure, hydrate, save | saves that land out of order | the persisted epochs are the tracker's |
| Owner guard, worker, proxy (`owner_guard.py`, `worker*.py`) | the lock file, the volume's marker, a heartbeat | claim, inspect before a write, lose | two processes, replaced files | one writer |
| Live subnets and IPC (`live_subnets*.py`) | cached subnets, a child process, a socket pair | sync, deadlines, terminate, kill | the child dies or hangs in the middle of a frame | a sync ends and leaves no child |
| Council scoring, message intelligence, approval, readers of chain and prices, mirrors, metrics, bots, desks, pages, API, `src/fetchers`, `src/datastore` | mostly files and caches of their own | computing, formatting, input and output | little ordering of their own | numeric or textual |

How they interact. APScheduler runs a loop's function in a pool thread. The
resolver's tick enters the heavy-job slot, which pump and snapshot loops compete
for, and hands one cycle to a one-thread pool; the cycle runs the ledger's passes,
which nudge weights through the soul map store; its summaries go to the same
store. API routes call the ledger's pass directly. The stall guard reads the
snapshot loop's receipt and cycle summary, and revives that loop and the resolver
from a thread of its own; when it ends the process the supervisor starts another,
which must first take the owner lock. The shared state is therefore: the slot, the
job ids, the resolver's locks and generation, the snapshot's flag, summary and
record, the ledger file, today's pick, and the soul map file with its caches.

## 2. Modules and code

An action is what the code does under one lock, or between two accesses to state
that another thread may change; the order of the code is the order of the labels.

**HeavyJobGate** is the abstract specification of the slot: `Acquire`, `Reject`,
`Release`. `OneInside` is what it promises. The resolver's ticks and the pump's
implement it with the slot, the pump's scans with `_scan_lock`.

**ResolverCycle** composes the scheduler, its worker threads, the slot, the job
store and revive. A thread at label `enter` is at the top of `_tick`; `gate` to
`leave` is the body of the slot; `revoke`, `force`, `replace`, `mark`, `report`
are `_abandon_inflight_cycle` and what the timeout path does after it; `settle`
and `addjob` are the re-arming. A cycle is named by its instance and generation;
its `phase` is where its thread is and its `stage` which of the cycle's parts it
runs. Revive is `ReviveProbe` to `ReviveEnsure` on a control thread. The slot of
ResolverCycle implements HeavyJobGate under `holder <- slot, inside <- Inside`
(property `GateRefined`, theorem `GateImplemented`).
Abstractions: the three stages that no mid-guard tests are one; ages are
fresh, over budget, stalled; a failed summary write is a step not taken; shutdown is
JobScheduler's. `jobs` has an entry per id, JOB_ID with `d` times `:retry`, each with
its own count in `retryCounts`: `Succeed`, `Retry` and `GiveUp` are what `_guarded` does
when the tick returned or raised. `gaveUp` records that the last of an instance's
scheduled runs to raise was given up past `_JOB_RETRY_CAP`, which leaves neither job
nor retry; arming the loop, or a retry, takes it back.

**JobScheduler** is `job_scheduler.py` for the one-shot jobs: `<<j, d>>` is the id
of loop `j` with `d` times `:retry`. `Fail` is `_guarded`'s handler, `Leave` its
success path, `Enter`/`Get`/`Install`/`Add` are `schedule_in_seconds` cut where
another thread may come in, `Fire` and `Drop` are APScheduler as used here.

**PredictionLedger** is the ledger file and every pass over it. `Append` is atomic
because the code holds the lock for all of it; all other passes have a load, a
copy (`snap`, and `inner` for regrade), row steps and a write. A row is its
status, its count of missed lookups and the legacy flag; prices are choices
(graded, mismatch, none); `time` tells how far a row's horizon is past.
Abstractions: dedupe keeps any one row of a bucket where the code keeps the first;
a late grade that raises counts as one that found no price: the
handler expires the row all the same.

**PredictionLife** is the abstract ledger of one process: what may become of a row
(`fate`), how often it taught the weights (`lessons`), the legacy rows that may yet
return. It has no copies, stages or merges. PredictionLedger implements it (property
`LedgerRefined`) with `lessons <- nudges` and the fate of the row in the file, where an
issued row that an old copy erased is `lost` (the abstract ledger allows that, and
`ledger_lost_append` shows it): a row is taught once, before the write that grades it;
a grade stays; a closed row is not reopened but for a legacy row, once; the rows
pending stay apart.

**SoulMapIO** is `read_soul_map` and `write_soul_map` with the writers' lock, the
lock file and the readers' lock, the cache and its TTL. An `Updater` is a caller
of `_mutate_raw`; a `Replacer` is a caller of `_save_raw`, which reads first and
puts the whole blob back. A blob counts the updates of each part. The release of
the three locks, innermost first, is one step, since the outer two only exclude
writers; `_cache_put` does not fail.

**SoulMapStore** is the file as its callers in the one writing process should see it: a
value, updated in one step; callers that take a copy, change it once and put it back.
There are no locks, no cache, no TTL and no failed writes in it. SoulMapIO implements
it (property `StoreRefined`) with `value <- disk` and the copies of the replacers.

**SnapshotProducer** is the abstract specification of the score snapshot's
producer as others see it: one active tick, its run, and a row of the cycle summary
that is that run's. **ScoreSnapshots** is the code: a generation is one
`ScoreSnapshotScheduler`; `main` starts and stops it, `pool` runs JOB_ID, `boot` is
the immediate tick, `guard` the revive and its `run_once`, `builder` the one-thread
write executor. Labels `gate` to `register` are `_tick` and `_tick_body`, `c_live`
to `c_clear` the deferred completion, which the build's thread or the waiting tick
runs. It implements SnapshotProducer with `active <- Busy, row <- cycle` (property
`ProducerRefined`, theorem `ProducerRefines`). Abstractions: a build publishes or does not, its result is one
bit, and its marks stand for all its progress.

**LoopStallGuard** is `_guard_loop` on top of SnapshotProducer: it relies on the
abstract producer, which ScoreSnapshots is shown to be, and adds ages. `CheckAge`,
`ProbeActive`, `ProbeToken`, `ProbeUnknown`, `Revive`, `Block` and `Verdict` are the
steps of one check; the watch is `_TickWatch`. Time is counted in checks.

**OwnerGuard** is who may write: `OpenLock` to `StatFiles` are
`try_acquire_write_owner_lock`, `Inspect` is what `owner_guard` does before a write,
`UnlinkLock` and `ReplaceMarker` what others may do to the files. An inode and a
marker's identity are numbers never used again.

**DailyPick** is the daily half of the pick scheduler and the engine's file over one
UTC day. A stamp is `build_started_at`; a row is a placeholder (`hold`), a decision
not to pick, or a pick. The worker thread, the readers and the tick's placeholder
all end in `SaveDay`, which is `_save` under its file lock. The worker may raise; on
the image's Python 3.12 `FuturesTimeoutError` is the builtin `TimeoutError`, so the one
`_save` raises for a lock held too long is taken for the tick's own timeout
(`pick_scheduler.py:370`), and only other exceptions reach `Failed`.

**LivenessTracker** is one tracker: a record call under its lock, then `_save` cut at
`snapshot()` and at the mutator, which the soul map store runs under its own locks.

**PumpScheduler** is the pump's tick, its body in a thread of its own, the abandoned
body that arms the job a second time, `_scan_lock` with the API's scans, and the
heavy-job slot with the users of other loops (`other`). `PumpGate` and `ScanGate` are
two instances of HeavyJobGate, for the slot and for `_scan_lock` (property
`PumpGatesRefined`). **PumpLadder** is one row: classification by score,
hysteresis, lock, the calibration that moves two thresholds, and the scheduler's
unlocked load and save. Scores are hundredths.

**LiveSync** is one sync: the parent's steps with their deadlines, the child's, and
the frame between them, which may be cut. `terminate` may be ignored, `kill` not.

**MCLoops** and **MCWorker** are the sums of parts that share no state: JobScheduler,
PumpScheduler, PumpLadder and LiveSync in one, LoopStallGuard, OwnerGuard, DailyPick
and LivenessTracker in the other. A variable picks the part in the initial state and
the others stand still, so a run's states are the sum of the parts' and not their
product; each property names the variables of one part.

**MC...** modules hold the constants of the runs, **...Proofs** modules the
theorems. Operators marked `Bug:` are not used by the specification: each is a
definition changed the way a plausible mistake would, and the property that
`PROJECT.json` pairs it with fails when it takes the definition's place.

## 3. Runs, bounds and fairness

| run | instance | shows |
|---|---|---|
| `resolver_chain` | one scheduler, two pool threads, four generations, retry cap 1, ids up to three `:retry` | `OneWorker`, `NoForeignUnlock`, `ArmedHasJob`, `NoStaleSummary`, `GateRefined`, `ChainRearms`, `TimeoutReported` |
| `resolver_revive` | two schedulers, a pool thread and a control thread, misfires, the same cap and ids | `OverlapIsOrphan`, `OneActive` while boot or guard revive a scheduler in any of its states |
| `loops` | one job loop with cap 1, one `:retry` suffix and three failures; two pump bodies and an API scan; all scores on both sides of each threshold; one sync at a time | `LoopAlive`, `JobsGoOn` (the loop runs on, a shutdown ends); `PumpAlive`, `PumpGatesRefined`, `PumpRuns`; `LadderSteps`; `ChildEnds` |
| `ledger_single` | three rows: two of a slot, one of them legacy, one shadow row in the other's bucket; one cycle thread; writes succeed | `LedgerRefined` (the ledger lives as PredictionLife), `PendingDrains` |
| `ledger_races` | two rows of a slot, the cycle beside the recovery sweep, failing writes, restarts | `UniquePending`, `ExpiredAfterRetries`, `GradeIsLearnt` |
| `soul_map` | one process with two mutators, a replacer and a reader, two keys of two updates; expiry, exceptions, failed writes, restarts | `StoreRefined` (the file behaves as SoulMapStore), `CacheIsFile`, `CallsEnd` (reads end, writes end) |
| `score_snapshots` | two runs, two generations in a process, one crash | `FlagHasOneOwner`, `ArmedAlive`, `LifeTruth`, `SuccessKept`, `ProducerRefined` |
| `worker` | guard: three runs, two marks, age 1, progress 1, cap 2, two strikes, grace 1, one restart; owner: three processes, two replacements; pick: two readers, four stamps, two boots; tracker: two recorders, two epochs | `KillJustified`, `StallBounded`; `OneWriter`; `DailyLoopAlive`, `PublishedPickKept`; `EpochsKept` |
| `job_unbounded_retries`, `ledger_lost_append`, `ledger_double_nudge`, `soul_map_erased` | as small as shows it | the disagreements of section 5 |

Bounds. A timed-out tick uses two generations (its own and the abandoning bump),
so four generations let a tick, its orphan and a following tick and its orphan
meet; with an orphan alive no third cycle can begin, which is `OneWorker`, so more
generations repeat the pattern. `Begin` reserves a tick's generations, so no tick
is held up by `MaxGen` in its middle and the liveness results are not the bound's.
The revive run has two schedulers and two generations each, so a timed-out tick
and its orphan on the old one meet the ticks of the new one; within one scheduler
the unlocking of a later tick is the other run's, and the theorem's. A cap of 1
reaches both sides of each test of a cap; in `resolver_chain` it also lets a loop be given up
although its retry succeeded, which takes three ticks. The id with `MaxRetry` times
`:retry` is scheduled and never run: three are as many as four generations can raise, so
the bound cuts nothing there. `ArmedHasJob` and `ChainRearms` excuse a loop in `gaveUp`,
as `LoopAlive` does. Two rows of one slot are what `UniquePending` is about; three rows and
two buckets let dedupe, the legacy repair and a shadow row act in one pass. Two
updates per key tell a kept update from a lost one also on top of an earlier one.
`MaxFails` and `MaxDepth` end the counting of failures, which the code does not.

In `score_snapshots` two generations are a scheduler and the one a revive makes
beside it, two ids of runs are a run and the next; the clean shutdown is in the
last process only, since after it nothing starts. In `worker` three run ids and
two marks give the guard a new run and a new mark whatever it saw last; the
limits are the smallest that keep `Cap >= 2 * Prog`, as `tick_max_seconds` does, and
both sides of each comparison occur. `StallLimit`, 2 * (Cap + Strikes) + 1, is not
slack: with one less TLC finds a behaviour that reaches it. Three processes let one
wait for the lock, one own it and one own what replaced it; two replacements may
hit the lock file and the marker. Four stamps let a worker, a reader, the next
worker and a placeholder begin in one day. Two epochs suffice for "goes back". In
`loops` two bodies are enough because only a scan may hang and it does so under
`_scan_lock`: a second body skips its scan and ends. The run's scores are both sides
of every threshold that the two calibrated entries do not move, and of the entries'
initial values; the theorem is for all scores. Jobs that APScheduler drops are
excused where a property speaks of a next tick (`lost`, `dropped`, `misfired`).

Fairness, and why the code justifies it. *Resolver*: every tick and revive thread
runs on (they block only on `_persist_lock` and on a wait that has a timeout), and
a summary write that has begun ends. Nothing is assumed of a stage's body: it may
hang for ever, which is what `ChainRearms` and `TimeoutReported` must survive.
*Jobs*: APScheduler starts due jobs, threads run, and a function ends or raises,
which ticks with bounded waits do. *Ledger*: time passes, cycles are started and
go on (there is no lock that is held across steps). *Soul map*: threads run
(weak), and a waiter for a lock that comes free again and again gets it (strong);
the writers' lock and the readers' lock are `threading.Lock`s, the lock file is
polled every 10 ms by at most one thread of a process. `WriteEnds` excuses a
schedule in which a reader holds the readers' lock past a writer's 50 ms again and
again: there the code gives the file lock back and begins anew, for ever if need
be. *Pump*: ticks and bodies run on and due jobs are started; nothing is assumed of a
scan's rows, of a fetch, or of the slot's other users. *Sync*: the parent's thread
runs, its waits have deadlines; nothing is assumed of the child, but that `kill()`
ends it. ScoreSnapshots, the stall guard, the owner guard, the pick and the tracker
are checked for safety only; their "never dead" properties are invariants.

Deadlock is checked in all runs but `loops`, `job_unbounded_retries`,
`score_snapshots` and `worker`: a shutdown, a day's or a run's bounds end those.

## 4. Proofs

All leaves are proved by SMT, Zenon or LS4. The assumptions are those of the
modules (`ThreadsAssumption`, `BoundsAssumption`, ...) and what is said here.

* **ResolverCycle.** `TypeCorrect`. `OneWorkerAlways` and `NoForeignUnlockAlways`
  from `WorkerInv`: whoever is inside the slot is its holder (`SlotInv`), and an
  unfinished worker is always the recorded future (`FutureInv`); with it a tick
  that passes the gate finds no worker left. Neither conjunct alone is inductive:
  `FutureInv` needs that only one tick submits, which the slot gives. The third
  conjunct, that between claim and submit no worker of that scheduler lives, is
  `NoForeignUnlock` itself. `NoStaleSummaryAlways` from `SealInv`: a revoked cycle is
  doomed (its generation is past and it is not the owner, for ever), only doomed
  cycles are sealed by the timeout summary, and a cycle that is writing holds
  `_persist_lock`, which the timeout summary waits for. `GateImplemented`:
  the initial state maps to the initial state and each action to an action of
  HeavyJobGate or a stutter. `OneActiveAlways` from `ActiveInv`: a revive clears
  the singleton it has stopped before it starts the next, and one thread revives.
  `OverlapIsOrphanAlways` from `SlotInv`: who waits for a cycle is inside the slot.
  `ArmedHasJobAlways` for one instance and no misfires (`NoRevive`), from `ArmedInv`:
  a job or retry is pending, or a tick has yet to arm, unless the loop was given up past
  the cap; `ArmedReturn` says of each exit of a tick that it leaves one of these. With a
  revive it is false: section 5.
* **JobScheduler.** `TypeCorrect` from `TypeOK /\ CallInv` (a retry is scheduled
  only from below the depth bound). `LoopAliveAlways`, with misfires excluded: every
  action that takes a loop's last id away puts another of its threads to work.
* **PredictionLedger.** `UniquePendingAlways`, `ExpiredAfterRetriesAlways`,
  `GradeIsLearntAlways`. They hold of the file only because they hold of every copy
  that may be written back; the invariant says of the file and of each thread's
  `snap` and `inner` that they are `Sound`: resolved rows were learnt from, expired
  rows had their lookups, the count of a row is at most the lookups made, pending
  rows of one slot are one. The history counters only grow, so an old copy stays
  sound. `NudgeOnceAlways` and `GradeIsFinalAlways` for one cycle thread whose writes
  succeed (`OneCycle`), while rows are appended beside it: `Stage` says for each label
  how a row's status in the file, in `snap` and in regrade's `inner` agree, and that a
  row was not learnt from while the copy that will replace the file shows it open.
  Without `OneCycle` both fail (`ledger_double_nudge`). `LedgerImplementsLife`, under
  `OneCycle`: every action is a step of PredictionLife or none. `Stage` is not enough:
  a write may only do to each row what the abstract write may, so `LifeInv` says of
  each label that the copy that is written next has the grade of every lesson, differs
  from the file only in rows the file shows pending (or in a legacy row that returns),
  and has no legacy mark that the file has not.
* **SoulMapIO.** `TypeCorrect`; `CacheIsFileAlways` and `NoLostUpdateAlways` under
  `OneWritingProcess`, from `LockInv` (a label is reached with its locks) and
  `DataInv` (what is in hand is the file, or the file with one update), and from the
  same two `StoreImplemented`: the write of the file is the abstract update, the filling
  or the hit of the cache the abstract copy, the rest stutters. With two writing
  processes all three are false: see section 5. `NoDeadlock` is for any number of
  processes: while a call is open, one thread has all it needs (`CanGo`, written out per
  label, in place of ENABLED). `HolderInv` says at which labels the holder of each lock may stand, so
  every chain of waiters ends: readers and writers wait for a holder that is past its own
  waiting or waits for the file's lock, and the file's holder goes on or, at the readers'
  lock, gives up after its 50 ms.
* **LoopStallGuard.** `GuardTypeCorrect`; `KillJustifiedAlways` from `JudgeInv`: the
  row shown is the active run's or no scoring row (`RowInv`), a watch over that run is
  not older than the run, nor its quiet time than the run's own (`WatchInv`), so no
  strike on a known token is undeserved (`StrikeInv`). `StallBoundedAlways` by a variant: `Rest` bounds the checks that are
  left from watch, strikes and withdrawal, and `overdue + Rest` stays within the limit.
* **OwnerGuard.** `OneWriterAlways`: two holders of one inode's flock are one process
  (`OneFlock`), and who passes an inspection has the file open that the path leads to.
  The second half: while nothing was replaced, all have that file open (`SameFile`).
* **DailyPick.** `PublishedPickKeptAlways`: rows to save are of different moments, and
  of another than the row they replace (`StampInv`), and have the kind their writer
  may save (`DraftInv`). `DailyLoopAliveAlways`: a worker that a tick waits for ends
  with a result (`OutcomeInv`), and `LoopInv` says where the next tick comes from.
* **ScoreSnapshots**, for any generations, ends of the process and ids of runs, of which
  there is always another (`FreshRun`; the code's are made anew). `Inv` has a part per
  question. `FlagInv` is `FlagHasOneOwner` without a count: one thread's label holds the
  flag, or the callback that waits for a live build does, never both. `GenInv`: a
  generation is registered once, and who is about to write a stop works for one that is
  not registered; so who may write the liveness record is the generation registered last,
  whose memory agrees with the file (`LifeInv`, from which `SuccessKept` and `LifeTruth`
  follow). `JobInv` says where the next job comes from, also while a start is under way,
  where `ArmedAlive` is silent. `RunInv`: a live build has a waiting tick or a callback,
  and only a tick that has not begun holds the flag without a run. With it `Busy` is the
  active flag and every step is one of SnapshotProducer or none (`ProducerRefines`).
* **LivenessTracker.** `EpochsKeptAlways`: the tracker is never behind its record, and a
  record nobody is about to write has its epochs (`EpochsInv`), since a mutator reads
  them when it runs and not when the snapshot was taken.
* **PumpLadder.** `LadderTypeCorrect` with the ranges of the calibrated entries, and
  `LadderStepsAlways`, by cases on the rung, for any scores: a scan's step obeys the
  ladder wherever calibrations and late saves have brought the row.
* **PumpScheduler.** `PumpAliveAlways`: a scheduler that is active has its next tick
  or a tick at a label from which it arms it (`WillArm`). `PumpAlive` is inductive once the types
  and `BootInv` are beside it (the immediate tick stands still until it is started). From
  `SlotInv` and `ScanInv` (who is inside the slot, or under `_scan_lock`, is its holder)
  `PumpGatesImplemented`: both locks are used as HeavyJobGate says, by bodies given up
  and late as well.
* **LiveSync.** `NoChildLeftAlways`, the safety half of `ChildEnds`, from `SyncInv`:
  outside the labels where the parent has a child there is none, and the boot's sync has
  not begun while it is due.
  `SyncIsShort` is a variant for the other half: `StepsLeft` falls with every step of the
  parent and nothing else in a sync moves it.
* **Sums.** `PartsOfWorker` and `PartsOfLoops`: a behaviour of the sum is one of each of
  its parts, so the parts' theorems hold of what the runs check. With them
  `WorkerTypeCorrect` and `LoopsTypeCorrect` are the type invariants of the two runs.

Left to TLC: liveness (`ChainRearms`, `TimeoutReported`, `JobsGoOn`, `PendingDrains`,
`CallsEnd`, `PumpRuns` and the second half of `ChildEnds`), which the prover does not
reach. What stands in for some of it is a theorem all the same: `LoopAliveAlways`,
`PumpAliveAlways` and `DailyLoopAliveAlways` (there is always somebody to go on),
`NoDeadlock` (somebody can), `SyncIsShort` (the end is near). Every invariant, action
property and refinement of a passing run is a theorem. `NudgeOnceAlways`,
`GradeIsFinalAlways` and `NoLostUpdateAlways` state in the code's terms what the
refinements contain, and no passing run repeats them.

## 5. Findings and observations

Four runs show a disagreement between the code and what it says of itself
(`PROJECT.json`, `findings`): a retry of a retry has a count of its own, so the
retry cap is never reached; an append between a pass's load and its save is
erased; a request and the cycle learn from the same row twice; a caller of
`_save_raw` erases a mutator's update.

Seen while modelling, without a run of their own:

* `_resolver_cycle_lock_stale` judges by the age of the last finished cycle, so a
  revive may force-release the lock of a tick that has just begun
  (`council/resolver_scheduler.py:1366`). What survives is `NoForeignUnlock` and
  `OverlapIsOrphan`.
* A timed-out tick frees the heavy-job slot while its orphan still grades.
* Around a revive the old and the new scheduler share one job id. A late tick of
  the old one may replace the new one's job (it tests `_active` before it calls
  `schedule_in_seconds`, outside the lock), or, by still running, make APScheduler
  drop the new one's job as a second instance. The new scheduler then reports a
  next run and has no job: `ArmedHasJob`, which holds without a revive, is violated
  with one.
* A loop whose retries succeed is given up all the same after `JOB_RETRY_CAP + 1`
  failures of its own id, since a retry's success resets the retry's count only. The
  resolver then still reports a next run and has neither job nor retry; `ArmedHasJob`,
  `ChainRearms` and `LoopAlive` excuse it (`gaveUp`), and only a direct `run_once` or the
  stall guard's one revive brings it back.
* `install_missed_event_logger` may add its listener twice.
* `recover_expired_predictions` nudges, then saves; when the save fails the next
  sweep nudges again, although it calls itself idempotent.
* The legacy restore puts a row back however old it is while its attempts are
  below the cap.
* The last lookup of a row that misses is followed by the expire stage of the same
  cycle, which may expire it at once.
* An unreadable `predictions.json` or `soul_map.json` reads as empty and is then
  written back.
* Two processes that both write the soul map lose each other's updates within the
  cache's TTL: each starts from its own cache, under the cross-process lock.
* A mutator that read the soul map would wait for itself: the readers' lock is not
  reentrant. None does.

*Score snapshots and their guard.*

* While an old tick waits for its build, APScheduler drops the next run of the same
  job (`max_instances=1`); only the stall guard recovers the loop (`lost`).
* A build that ends between its tick's timeout and the tick's `finally` has its result
  recorded nowhere, and its row stays "scoring". A build that ends later is recorded
  as a failure of the tick although it published.
* A skip of a replaced generation writes its row over the running tick's
  (`score_snapshots.py:1566`), so the guard's probe finds no token.
* A probe that finds no token strikes once the watch is past the cap, also when the
  run behind it is young; `KillJustified` counts only strikes on a token.

*Picks, owner, tracker.*

* An abandoned daily worker may still save, if it is abandoned after its last look at
  the generation (`daily_pick_engine.py:368-372`), although `pick_scheduler.py:249-250`
  says that orphans cannot commit. What it saves obeys `PublishedPickKept`.
* A build that crosses midnight saves under the date it began with (not modelled).
* Inspection and write are two steps: a file replaced between them is noticed by the
  next write only. `OneWriter` is therefore about who passes an inspection.
* `_fork_before` takes a lock for which no `after_in_parent` handler is registered, and
  `_forget_inherited_owner` assigns `_skip_dev_active` without declaring it global
  (`owner_guard.py:328-340`); forks are not modelled.
* The tracker's save mixes the counters of one moment with the epochs of another: a
  late save of a success may erase a failure's count, a late "started" may follow
  "stopped". A second tracker object of the same name may set the success back.

*Pump and live subnets.*

* `_persist_scheduler_meta` (`pump/scheduler.py:43-60`) loads and then saves without a
  lock over both: it can erase a scan's transitions, after which the next scan makes
  them, and their alerts, again.
* COOLING is left only downwards, below its exit of 0.20: a pump that starts again
  from COOLING stays COOLING. Calibration may ease an entry down to the fixed exit,
  where no hysteresis band is left.
* A dropped pump job ends the loop until a restart: `ensure` sees it active. A stop
  followed by a late arming leaves a job of a scheduler that is not active.
* A partial sync replaces a complete cache and reports failure; the boot's own status
  overwrites the sync's; a child survives `os._exit` of its parent.

## 6. Not modelled, and why

Within modelled modules: the resolver's synchronous mode (timeouts of zero and
below), its backoff arithmetic and hydrate; interval jobs; the limits of 50 rows
of regrade and 20 of the recovery sweep; statistics, trail events and migrations of
the ledger; what mutators compute; the snapshot's coverage gate and observer rows;
a cycle summary whose write fails (`scheduler_cycle_state.write_last_cycle` swallows the
error, and the old row stays); midnight and the hourly pick; a wall clock that goes back
(`EpochsKept` takes `time.time()` as rising); forks, mounts, heartbeat and proxy of the owner guard;
the tracker's backoff seconds; the pump's signals, combined ledger and desks; the
merge of live rows with the registry; the guard's second criterion for the resolver,
whose revive is in ResolverCycle.

Whole components: scoring and text analysis are arithmetic on floats and strings
with no order of their own to get wrong; fetchers, chain and price readers are
network input (prices are choices in PredictionLedger); mirrors, metrics, bots and
pages only report; routes format answers, and those that change modelled state are
threads of the modules above. These make up most of the repository's lines, so the
map covers a small share of them: it names the code that decides what happens in
which order, not the code that computes, words or lays out.

## 7. Plan

Done: the slot, the resolver's scheduler, the job scheduler, the ledger and the soul
map store; the stall guard over an abstract producer and the score snapshots that
implement it; the owner guard; the daily pick; the liveness tracker; the pump's
scheduler and ladder; the live sync; the abstract ledger and soul map, and theorems
for every module.

Left, in this order:

1. `ArmedHasJob` after a revive, and the count of "consecutive" failures, as runs
   of their own, once the code's owners say which behaviour is meant.
2. LivenessTracker composed with SoulMapIO, whose `write_soul_map` its saves use, on
   top of SoulMapStore.
3. The hourly pick and midnight; the heartbeat and the proxy of the worker; row
   limits, and whether rows behind the front of the expired list are ever tried.
4. A weaker abstract ledger for several writers (a grade is learnt from, at least
   once; rows may be lost), which the recovery sweep and the requests implement too.
