---------------------------- MODULE JobScheduler ----------------------------
(***************************************************************************)
(* internal/job_scheduler.py: the shared APScheduler and the wrapper       *)
(* _guarded that retries a one-shot job whose function raised.             *)
(*                                                                         *)
(* Every one-shot job of the program is a loop: its function ends by       *)
(* scheduling its own id again.  A retry is scheduled under the id         *)
(* "<id>:retry", so <<j, d>> stands for loop j with d such suffixes; one   *)
(* retry of <<j, d>> is <<j, d + 1>>.  APScheduler's part (Fire, Drop) is  *)
(* modelled as the code uses it: one run of an id at a time, a one-shot    *)
(* leaves the store when it is due, started or not.                        *)
(***************************************************************************)
EXTENDS Naturals, FiniteSets

CONSTANTS
    Loops,       \* ids of the one-shot jobs
    Starts,      \* threads that start a loop
    Cap,         \* _JOB_RETRY_CAP
    MaxDepth,    \* bound: ":retry" suffixes; no run fails at that depth
    MaxFails,    \* bound: failures counted in a row
    Misfires     \* TRUE: a job may be started later than its grace time

ASSUME StartsAssumption == Starts \cap Nat = {}
ASSUME BoundsAssumption ==
    /\ Cap \in Nat /\ MaxDepth \in Nat /\ MaxFails \in Nat
    /\ Misfires \in BOOLEAN

Ids     == Loops \X (0..MaxDepth)
Threads == Ids \cup (Loops \X Starts)      \* the run of an id, or a starter
First(j) == <<j, 0>>

VARIABLES
    sched,          \* the APScheduler: not made, up, shutting down, stopped
    shuttingDown,   \* _shutting_down
    installed,      \* _missed_listener_installed
    listeners,      \* listeners that were added
    store,          \* ids in the job store
    pc, mode,       \* per thread: label, and why it calls schedule_in_seconds
    retryCounts,    \* _retry_counts; 0: no entry
    wanted,         \* loops that are started and not cancelled
    fails, gaveUp   \* history: failures of a loop in a row; loops given up

schedVars == <<sched, shuttingDown, installed, listeners>>
loopVars  == <<retryCounts, wanted, fails, gaveUp>>
vars == <<schedVars, store, pc, mode, loopVars>>

Labels == {"idle", "body", "enter", "get", "install", "add"}
Modes  == {"start", "rearm", "retry"}

TypeOK ==
    /\ sched \in {"none", "up", "closing", "stopped"}
    /\ shuttingDown \in BOOLEAN /\ installed \in BOOLEAN /\ listeners \in Nat
    /\ store \subseteq Ids
    /\ pc \in [Threads -> Labels] /\ mode \in [Threads -> Modes]
    /\ retryCounts \in [Ids -> Nat]
    /\ wanted \subseteq Loops /\ gaveUp \subseteq Loops
    /\ fails \in [Loops -> Nat]

Init ==
    /\ sched = "none" /\ shuttingDown = FALSE
    /\ installed = FALSE /\ listeners = 0
    /\ store = {}
    /\ pc = [t \in Threads |-> "idle"] /\ mode = [t \in Threads |-> "start"]
    /\ retryCounts = [x \in Ids |-> 0]
    /\ wanted = {} /\ gaveUp = {} /\ fails = [j \in Loops |-> 0]

Go(t, label) == pc' = [pc EXCEPT ![t] = label]

\* The id a call of schedule_in_seconds is for.
Target(t) == IF mode[t] = "retry" THEN <<t[1], t[2] + 1>> ELSE First(t[1])

(***************************************************************************)
(* schedule_in_seconds.                                                    *)
(***************************************************************************)
\* A scheduler's start() marks its loop active and schedules the first run.
Start(j) == \E s \in Starts :
    /\ j \notin wanted /\ pc[<<j, s>>] = "idle"
    /\ wanted' = wanted \cup {j} /\ gaveUp' = gaveUp \ {j}
    /\ Go(<<j, s>>, "enter")
    /\ UNCHANGED <<schedVars, store, mode, retryCounts, fails>>

\* Bug: a success takes one failure off the count.
LeaveCountsDown(t) ==
    /\ Go(t, "idle")
    /\ IF mode[t] = "rearm"
       THEN /\ retryCounts' = [retryCounts EXCEPT ![t] = @ - 1]
            /\ fails' = [fails EXCEPT ![t[1]] = 0]
       ELSE UNCHANGED <<retryCounts, fails>>
    /\ mode' = [mode EXCEPT ![t] = "start"]
    /\ UNCHANGED <<wanted, gaveUp>>

\* The call is over.  A run that did not raise also forgets the failures that
\* were counted under its own id.
Leave(t) ==
    /\ Go(t, "idle")
    /\ IF mode[t] = "rearm"
       THEN /\ retryCounts' = [retryCounts EXCEPT ![t] = 0]
            /\ fails' = [fails EXCEPT ![t[1]] = 0]
       ELSE UNCHANGED <<retryCounts, fails>>
    /\ mode' = [mode EXCEPT ![t] = "start"]
    /\ UNCHANGED <<wanted, gaveUp>>

\* `if _shutting_down: return`, before any lock.
Enter(t) ==
    /\ pc[t] = "enter"
    /\ IF shuttingDown THEN Leave(t)
       ELSE Go(t, "get") /\ UNCHANGED <<mode, loopVars>>
    /\ UNCHANGED <<schedVars, store>>

(***************************************************************************)
(* _guarded: what a raised exception leads to.                             *)
(***************************************************************************)
CapReached(x) == retryCounts[x] + 1 > Cap

\* Bug: the failure is logged and counted, and nothing is scheduled.
FailLogged(x) ==
    /\ fails' = [fails EXCEPT ![x[1]] = @ + 1]
    /\ retryCounts' = [retryCounts EXCEPT ![x] = @ + 1]
    /\ Go(x, "idle")
    /\ UNCHANGED <<schedVars, store, mode, wanted, gaveUp>>

Fail(x) == LET j == x[1] IN
    /\ fails' = [fails EXCEPT ![j] = @ + 1]
    /\ IF ~shuttingDown /\ CapReached(x)
       THEN /\ retryCounts' = [retryCounts EXCEPT ![x] = 0]
            /\ gaveUp' = gaveUp \cup {j}
       ELSE /\ retryCounts' = [retryCounts EXCEPT ![x] = @ + 1]
            /\ gaveUp' = gaveUp
    /\ IF shuttingDown \/ CapReached(x)
       THEN Go(x, "idle") /\ UNCHANGED mode
       ELSE Go(x, "enter") /\ mode' = [mode EXCEPT ![x] = "retry"]
    /\ UNCHANGED <<schedVars, store, wanted>>

BodyFail(x) ==
    /\ pc[x] = "body" /\ x[2] < MaxDepth /\ fails[x[1]] < MaxFails
    /\ Fail(x)

\* The function did its work; a loop that is still active arms its id again.
BodyOk(x) ==
    /\ pc[x] = "body" /\ x[1] \in wanted
    /\ mode' = [mode EXCEPT ![x] = "rearm"] /\ Go(x, "enter")
    /\ UNCHANGED <<schedVars, store, loopVars>>

BodyLast(x) ==
    /\ pc[x] = "body" /\ x[1] \notin wanted
    /\ Go(x, "idle")
    /\ retryCounts' = [retryCounts EXCEPT ![x] = 0]
    /\ fails' = [fails EXCEPT ![x[1]] = 0]
    /\ UNCHANGED <<schedVars, store, mode, wanted, gaveUp>>

\* Bug: the shutdown holds _lock while it waits for the runs.
GetBehindShutdown(t) ==
    /\ pc[t] = "get" /\ ~shuttingDown
    /\ sched' = IF sched = "none" THEN "up" ELSE sched
    /\ Go(t, IF installed THEN "add" ELSE "install")
    /\ UNCHANGED <<shuttingDown, installed, listeners, store, mode, loopVars>>

\* get_background_scheduler under _lock, which raises once shut down: that fails
\* the function that re-arms, is swallowed by _guarded, and ends a start().
\* install_missed_event_logger then reads its flag without the lock.
Get(t) ==
    /\ pc[t] = "get"
    /\ \/ /\ ~shuttingDown
          /\ sched' = IF sched = "none" THEN "up" ELSE sched
          /\ Go(t, IF installed THEN "add" ELSE "install")
          /\ UNCHANGED <<shuttingDown, installed, listeners, store, mode, loopVars>>
       \/ shuttingDown /\ mode[t] = "rearm" /\ Fail(t)
       \/ shuttingDown /\ mode[t] # "rearm" /\ Leave(t) /\ UNCHANGED <<schedVars, store>>

Install(t) ==
    /\ pc[t] = "install"
    /\ IF shuttingDown THEN UNCHANGED <<installed, listeners>>   \* _scheduler is None
       ELSE installed' = TRUE /\ listeners' = listeners + 1
    /\ Go(t, "add")
    /\ UNCHANGED <<sched, shuttingDown, store, mode, loopVars>>

\* add_job.  A retry that is already pending makes it raise, which _guarded
\* swallows; any other call replaces.  A stopped scheduler starts nothing.
Add(t) ==
    /\ pc[t] = "add"
    /\ store' = IF sched = "up" THEN store \cup {Target(t)} ELSE store
    /\ Leave(t)
    /\ UNCHANGED schedVars

Schedule(t) == Enter(t) \/ Get(t) \/ Install(t) \/ Add(t)

(***************************************************************************)
(* APScheduler.                                                            *)
(***************************************************************************)
Fire(x) ==
    /\ sched = "up" /\ x \in store /\ pc[x] = "idle"
    /\ store' = store \ {x} /\ Go(x, "body")
    /\ UNCHANGED <<schedVars, mode, loopVars>>

\* A due job is lost when an earlier run of its id is still going, or when the
\* pool starts it late.  The run that armed it is over: delays are 45 s and more.
Drop(x) ==
    /\ sched = "up" /\ x \in store
    /\ pc[x] # "idle" \/ Misfires
    /\ store' = store \ {x}
    /\ UNCHANGED <<schedVars, pc, mode, loopVars>>

\* A scheduler's stop(): cancel_job removes the id, and none of its retries.
Cancel(j) ==
    /\ j \in wanted /\ \A s \in Starts : pc[<<j, s>>] = "idle"
    /\ wanted' = wanted \ {j}
    /\ store' = store \ {First(j)}
    /\ UNCHANGED <<schedVars, pc, mode, retryCounts, fails, gaveUp>>

(***************************************************************************)
(* shutdown_background_scheduler: the flag, then shutdown(wait=True),      *)
(* which starts nothing more and waits for the runs.                       *)
(***************************************************************************)
ShutdownFlag ==
    /\ ~shuttingDown /\ shuttingDown' = TRUE
    /\ UNCHANGED <<sched, installed, listeners, store, pc, mode, loopVars>>

ShutdownStop ==
    /\ shuttingDown /\ sched = "up" /\ sched' = "closing" /\ store' = {}
    /\ UNCHANGED <<shuttingDown, installed, listeners, pc, mode, loopVars>>

ShutdownJoin ==
    /\ sched = "closing" /\ \A x \in Ids : pc[x] = "idle"
    /\ sched' = "stopped"
    /\ UNCHANGED <<shuttingDown, installed, listeners, store, pc, mode, loopVars>>

Shutdown == ShutdownFlag \/ ShutdownStop \/ ShutdownJoin

Next ==
    \/ \E j \in Loops : Start(j) \/ Cancel(j)
    \/ \E t \in Threads : Schedule(t)
    \/ \E x \in Ids : BodyOk(x) \/ BodyLast(x) \/ BodyFail(x) \/ Fire(x) \/ Drop(x)
    \/ Shutdown

Spec == Init /\ [][Next]_vars

(***************************************************************************)
(* Fairness: threads run, due jobs are started, a shutdown that has begun  *)
(* goes on, and a function ends, one way or the other.                     *)
(***************************************************************************)
Fairness ==
    /\ \A t \in Threads : WF_vars(Schedule(t))
    /\ \A x \in Ids : WF_vars(Fire(x)) /\ WF_vars(BodyOk(x) \/ BodyLast(x) \/ BodyFail(x))
    /\ WF_vars(ShutdownStop \/ ShutdownJoin)

FairSpec == Spec /\ Fairness

(***************************************************************************)
(* Properties.                                                             *)
(***************************************************************************)
Runs(j) == {x \in Ids : x[1] = j /\ pc[x] # "idle"}
Alive(j) ==
    \/ Runs(j) # {}
    \/ \E x \in store : x[1] = j
    \/ \E s \in Starts : pc[<<j, s>>] # "idle"

\* A loop is never silently dead: while it is wanted and _guarded has not given
\* it up, one of its ids is pending, running or being scheduled.
LoopAlive == \A j \in wanted \ gaveUp : shuttingDown \/ Alive(j)

\* A loop whose runs fail, are retried and recover keeps running: it is only
\* stopped by being cancelled, by giving up or by the shutdown.
LoopRuns == \A j \in Loops :
    j \in wanted ~> \/ \E x \in Runs(j) : pc[x] = "body"
                    \/ j \notin wanted \/ j \in gaveUp \/ shuttingDown

\* A shutdown that waits for the runs ends, also when a run schedules a retry or
\* arms its loop again at that moment.
ShutdownEnds == shuttingDown ~> sched \in {"none", "stopped"}

\* The loops go on until they are told to end, and then do end.
JobsGoOn == LoopRuns /\ ShutdownEnds

\* "retried with a bounded cap": a loop fails at most Cap + 1 times in a row.
BoundedRetries == \A j \in Loops : fails[j] <= Cap + 1
=============================================================================
