---------------------------- MODULE LoopStallGuard ----------------------------
(***************************************************************************)
(* internal/loop_stall_guard.py beside the producer it watches, of which   *)
(* it relies on what SnapshotProducer promises.                            *)
(*                                                                         *)
(* Every interval the guard reads the age of the last receipt.  An old one *)
(* is a strike unless a scoring tick runs and advances; the first strike   *)
(* revives the scheduler, the last one ends the process, which its         *)
(* supervisor starts again.  How a tick advances is judged by a watch: the *)
(* token last seen, and how long ago it and its run were first seen.       *)
(*                                                                         *)
(* Time is counted in intervals of the guard.                              *)
(***************************************************************************)
EXTENDS SnapshotProducer

CONSTANTS
    MaxAge,      \* MAX_SNAPSHOT_AGE_SECONDS
    Prog,        \* tick_progress_seconds
    Cap,         \* tick_max_seconds
    Strikes,     \* CONSECUTIVE_CHECKS
    Grace,       \* BOOT_GRACE_SECONDS
    MaxRestarts  \* bound: restarts by the supervisor

ASSUME GuardAssumption ==
    /\ MaxAge \in Nat /\ Strikes \in Nat \ {0} /\ Grace \in Nat /\ MaxRestarts \in Nat
    /\ Prog \in Nat \ {0} /\ Cap \in Nat /\ Cap >= 2 * Prog   \* tick_max_seconds

\* There is always a new id for a run, and a mark that differs from the last one.
ASSUME FreshAssumption ==
    /\ \A r, s \in Runs \cup {0} : \E t \in Runs : t # r /\ t # s
    /\ \A m \in Marks \cup {0} : \E n \in Marks : n # m

VARIABLES
    receipt,             \* age of the last cycle receipt, on disk
    quiet, ran,          \* since the run last advanced, and since it began
    guard,               \* where the guard's thread is
    grace,               \* what is left of the boot grace
    watch,               \* _TickWatch, or NoWatch
    strikes,             \* consecutive_stale
    revived, withdrawn,
    up, restarts,
    undeserved, overdue  \* history: a strike that counts was given to a tick at
                         \*   work; stale checks in a row since the last run began

watchV == <<grace, watch, revived, withdrawn>>
pastV  == <<strikes, undeserved, overdue>>
guardVars == <<producerVars, receipt, quiet, ran, guard, watchV, pastV, up, restarts>>

Unknown == 0             \* _PROBE_UNKNOWN, and the progress of a row without one
NoWatch == [on |-> FALSE, run |-> 0, mark |-> 0, quiet |-> 0, ran |-> 0]
Watches == [on : BOOLEAN, run : Runs \cup {0}, mark : Marks \cup {Unknown},
            quiet : 0..(Prog + 1), ran : 0..(Cap + 1)]
NewWatch(r, m) == [on |-> TRUE, run |-> r, mark |-> m, quiet |-> 0, ran |-> 0]

\* The longest a stale output lasts after a run began, in checks.
StallLimit == 2 * (Cap + Strikes) + 1

GuardTypeOK ==
    /\ ProducerTypeOK
    /\ receipt \in 0..(MaxAge + 1) /\ quiet \in 0..(Prog + 1) /\ ran \in 0..(Cap + 1)
    /\ guard \in {"sleep", "check", "active", "token", "revive", "once", "verdict"}
    /\ grace \in 0..Grace
    /\ watch \in Watches
    /\ strikes \in 0..Strikes /\ revived \in BOOLEAN /\ withdrawn \in BOOLEAN
    /\ up \in BOOLEAN /\ restarts \in 0..MaxRestarts
    /\ undeserved \in BOOLEAN /\ overdue \in 0..(StallLimit + 1)

\* The files may be of any age when the process starts.
GuardInit ==
    /\ ProducerInit
    /\ receipt \in 0..(MaxAge + 1) /\ quiet = 0 /\ ran = 0
    /\ guard = "sleep" /\ grace = Grace /\ watch = NoWatch /\ strikes = 0
    /\ revived = FALSE /\ withdrawn = FALSE
    /\ up = TRUE /\ restarts = 0
    /\ undeserved = FALSE /\ overdue = 0

Capped(n, top) == IF n < top THEN n + 1 ELSE top

\* The run has not advanced for too long, or runs for too long.  A tick that has not
\* begun its run is judged by the row it will replace.
RunHung == quiet > Prog \/ ran > Cap \/ run = 0

(***************************************************************************)
(* The producer.  Ids and marks only need to differ from what they follow. *)
(***************************************************************************)
StartTick == TakeTick /\ UNCHANGED <<receipt, quiet, ran, overdue>>

StartRun ==
    /\ BeginRun(CHOOSE r \in Runs : r # row.run /\ r # watch.run)
    /\ quiet' = 0 /\ ran' = 0 /\ overdue' = 0
    /\ UNCHANGED receipt

Advance ==
    /\ AdvanceRun(CHOOSE m \in Marks : m # watch.mark)
    /\ quiet' = 0
    /\ UNCHANGED <<receipt, ran, overdue>>

\* record_cycle_receipt: the build of a run, or what stands for it, is over.
WriteReceipt ==
    /\ active /\ run # 0
    /\ receipt' = 0
    /\ UNCHANGED <<producerVars, quiet, ran, overdue>>

ReplaceRow == CloseRow /\ UNCHANGED <<receipt, quiet, ran, overdue>>

EndRun == EndTick /\ quiet' = 0 /\ ran' = 0 /\ UNCHANGED <<receipt, overdue>>

ProducerMoves ==
    /\ StartTick \/ StartRun \/ Advance \/ WriteReceipt \/ ReplaceRow \/ EndRun
    /\ UNCHANGED <<guard, watchV, strikes, undeserved, up, restarts>>

(***************************************************************************)
(* The guard.                                                              *)
(***************************************************************************)
\* One interval goes by.  It is minutes long, and does not end while a tick is about
\* to write its first row.
Pass ==
    /\ active => run # 0
    /\ receipt' = Capped(receipt, MaxAge + 1)
    /\ quiet' = IF run = 0 THEN 0 ELSE Capped(quiet, Prog + 1)
    /\ ran'   = IF run = 0 THEN 0 ELSE Capped(ran, Cap + 1)
    /\ watch' = IF watch.on
                THEN [watch EXCEPT !.quiet = Capped(@, Prog + 1), !.ran = Capped(@, Cap + 1)]
                ELSE watch
    /\ UNCHANGED producerVars

Sleep ==
    /\ guard = "sleep"
    /\ Pass
    /\ grace' = IF grace > 0 THEN grace - 1 ELSE 0
    /\ guard' = IF grace > 0 THEN "sleep" ELSE "check"
    /\ UNCHANGED <<revived, withdrawn, pastV, up, restarts>>

NoStrike == strikes' = 0 /\ undeserved' = FALSE /\ guard' = "sleep"

\* _snapshot_age_seconds: unknown, which keeps the watch, fresh, or stale.
CheckAge ==
    /\ guard = "check"
    /\ \/ NoStrike /\ withdrawn' = FALSE /\ overdue' = 0 /\ UNCHANGED watch
       \/ receipt <= MaxAge /\ NoStrike /\ withdrawn' = FALSE /\ overdue' = 0
          /\ watch' = NoWatch
       \/ receipt > MaxAge /\ overdue' = Capped(overdue, StallLimit + 1)
          /\ guard' = "active" /\ UNCHANGED <<strikes, undeserved, withdrawn, watch>>
    /\ UNCHANGED <<producerVars, receipt, quiet, ran, grace, revived, up, restarts>>

Strike(deserved) ==
    /\ strikes' = strikes + 1
    /\ undeserved' = (undeserved \/ ~deserved)
    /\ guard' = IF revived THEN "verdict" ELSE "revive"

\* producer_tick_progress, first half: is a tick active?
ProbeActive ==
    /\ guard = "active"
    /\ IF active THEN guard' = "token" /\ UNCHANGED <<watch, strikes, undeserved>>
                 ELSE watch' = NoWatch /\ Strike(TRUE)
    /\ UNCHANGED <<producerVars, receipt, quiet, ran, grace, revived, withdrawn,
                   overdue, up, restarts>>

\* Bug: a run other than the watched one goes on with the old watch.
WatchActiveTickKeeps(r, m) ==
    IF ~watch.on THEN NewWatch(r, m)
    ELSE [watch EXCEPT !.run = r, !.mark = m]

\* _watch_active_tick: another run, or the first run_id after a watch without
\* one, is watched afresh; the same run keeps its age and, unless it advanced,
\* its quiet time.
WatchActiveTick(r, m) ==
    IF ~watch.on \/ watch.run # r THEN NewWatch(r, m)
    ELSE [watch EXCEPT !.mark = m,
                       !.quiet = IF m = watch.mark THEN @ ELSE 0]

Hung(w) == w.quiet > Prog \/ w.ran > Cap

\* producer_tick_progress, second half, on a readable scoring row.
ProbeToken ==
    /\ guard = "token" /\ row.run # 0
    /\ watch' = WatchActiveTick(row.run, row.mark)
    /\ IF Hung(watch') THEN Strike(RunHung) ELSE NoStrike
    /\ UNCHANGED <<producerVars, receipt, quiet, ran, grace, revived, withdrawn,
                   overdue, up, restarts>>

\* Bug: a watch that is probed in vain starts again.
WatchUnknownRestarts == NewWatch(0, Unknown)

\* A watch goes on without a token; without a watch, one for no run begins.
WatchUnknown ==
    IF watch.on THEN watch ELSE NewWatch(0, Unknown)

\* The row is unreadable, or is not a scoring one: only the absolute cap counts.
ProbeUnknown ==
    /\ guard = "token"
    /\ watch' = WatchUnknown
    /\ IF watch'.ran > Cap THEN Strike(TRUE) ELSE NoStrike
    /\ UNCHANGED <<producerVars, receipt, quiet, ran, grace, revived, withdrawn,
                   overdue, up, restarts>>

\* revive_score_snapshot_scheduler, not while a tick runs: a strike is taken back,
\* once, if the tick started after the probe.
Revive ==
    /\ guard = "revive"
    /\ CASE active /\ ~watch.on /\ ~withdrawn ->
              withdrawn' = TRUE /\ NoStrike /\ UNCHANGED revived
         [] active /\ (watch.on \/ withdrawn) ->
              guard' = "verdict" /\ UNCHANGED <<revived, withdrawn, strikes, undeserved>>
         [] ~active ->
              revived' = TRUE /\ guard' = "once" /\ UNCHANGED <<withdrawn, strikes, undeserved>>
    /\ UNCHANGED <<producerVars, receipt, quiet, ran, grace, watch, overdue, up, restarts>>

\* Its run_once blocks the guard's thread, for as long as a build may take.
Block == guard = "once" /\ Pass /\ UNCHANGED <<grace, revived, withdrawn, pastV, guard, up, restarts>>

Revived ==
    /\ guard = "once" /\ guard' = "verdict"
    /\ UNCHANGED <<producerVars, receipt, quiet, ran, watchV, pastV, up, restarts>>

\* Bug: one strike too many is allowed.
VerdictLate ==
    /\ guard = "verdict" /\ guard' = "sleep"
    /\ IF strikes <= Strikes THEN UNCHANGED up ELSE up' = FALSE
    /\ UNCHANGED <<producerVars, receipt, quiet, ran, watchV, pastV, restarts>>

\* The last strike ends the process.
Verdict ==
    /\ guard = "verdict" /\ guard' = "sleep"
    /\ IF strikes < Strikes THEN UNCHANGED up ELSE up' = FALSE
    /\ UNCHANGED <<producerVars, receipt, quiet, ran, watchV, pastV, restarts>>

GuardMoves ==
    Sleep \/ CheckAge \/ ProbeActive \/ ProbeToken \/ ProbeUnknown \/ Revive \/ Block
      \/ Revived \/ Verdict

\* The supervisor starts the worker again: memory is new, the files are kept.
Restart ==
    /\ ~up /\ restarts < MaxRestarts
    /\ restarts' = restarts + 1 /\ up' = TRUE
    /\ EndProcess
    /\ quiet' = 0 /\ ran' = 0
    /\ guard' = "sleep" /\ grace' = Grace /\ watch' = NoWatch
    /\ strikes' = 0 /\ undeserved' = FALSE /\ overdue' = 0
    /\ revived' = FALSE /\ withdrawn' = FALSE
    /\ UNCHANGED receipt

GuardNext == (up /\ (ProducerMoves \/ GuardMoves)) \/ Restart

GuardSpec == GuardInit /\ [][GuardNext]_guardVars

(***************************************************************************)
(* Properties.                                                             *)
(***************************************************************************)
\* The guard ends the process only over strikes none of which was given to a tick
\* that it could probe and that was at work: a new run is judged afresh, whatever the
\* guard saw of the one before, and a run that advances is not hung
\* (_watch_active_tick, _guard_loop).
KillJustified == ~up => ~undeserved

\* A producer that stalls with an old output is ended within StallLimit checks of its
\* last run's start, also when the probe fails now and then: neither a probe in vain,
\* a withdrawn strike nor a refused revive puts the end off without bound.
StallBounded == overdue <= StallLimit
=============================================================================
