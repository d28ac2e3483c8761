------------------------- MODULE ResolverCycleProofs ------------------------
(***************************************************************************)
(* What holds of ResolverCycle for every set of threads and every bound.   *)
(***************************************************************************)
EXTENDS ResolverCycle, TLAPS

LEMMA Constants == 1 \in Insts /\ 0 \in Gens
  BY BoundsAssumption DEF Insts, Gens

\* A tick that returns leaves its thread's record well typed.
LEMMA ReturnType ==
    ASSUME NEW t \in Threads, NEW label, TickType, Return(t, label)
    PROVE  TickType'
  <1>1. inst' \in [Threads -> Insts]
    BY Constants DEF Return, TickType
  <1>2. src' \in [Threads -> {"scheduled", "direct", "revive"}]
    BY DEF Return, TickType
  <1>5. id' \in [Threads -> 0..MaxRetry - 1]
    BY BoundsAssumption DEF Return, TickType, JobId
  <1>3. cyc' \in [Threads -> Gens]
    BY Constants DEF Return, TickType
  <1>4. res' \in [Threads -> Results]
    BY DEF Return, TickType, Results
  <1> QED
    BY <1>1, <1>2, <1>3, <1>4, <1>5 DEF TickType

\* What _guarded does after a run keeps the job store well typed.
LEMMA SucceedType ==
    ASSUME TypeOK, NEW t \in Threads, Succeed(t) PROVE retryCounts' \in [Ids -> 0..RetryCap]
  BY BoundsAssumption DEF Succeed, TypeOK, TickType, JobType, Ids

LEMMA ArmType ==
    ASSUME TypeOK, NEW i \in Insts \cup {0}, Arm(i)
    PROVE  jobs' \in [Ids -> Insts \cup {0}] /\ gaveUp' \subseteq Insts
  BY BoundsAssumption DEF Arm, TypeOK, JobType, Ids, JobId

LEMMA RetryType ==
    ASSUME TypeOK, NEW t \in Threads,
           (retryCounts[id[t]] < RetryCap /\ Retry(t)) \/ GiveUp(t)
    PROVE  /\ jobs' \in [Ids -> Insts \cup {0}] /\ gaveUp' \subseteq Insts
           /\ retryCounts' \in [Ids -> 0..RetryCap]
  <1>1. id[t] \in Ids /\ id[t] + 1 \in Ids /\ inst[t] \in Insts
    BY BoundsAssumption DEF TypeOK, TickType, Ids
  <1>2. CASE retryCounts[id[t]] < RetryCap /\ Retry(t)
    BY <1>1, <1>2, BoundsAssumption DEF Retry, TypeOK, JobType
  <1>3. CASE GiveUp(t)
    BY <1>1, <1>3, BoundsAssumption DEF GiveUp, TypeOK, JobType
  <1> QED
    BY <1>2, <1>3

LEMMA TypeInit == Init => TypeOK
  <1> SUFFICES ASSUME Init PROVE TypeOK
    OBVIOUS
  <1> USE BoundsAssumption DEF Init, InitState
  <1>1. GateType
    BY DEF GateType
  <1>8. TickType
    <2>1. 0 \in 0..MaxRetry - 1
      BY BoundsAssumption
    <2> QED
      BY Constants, <2>1 DEF TickType, Results, JobId
  <1>6. SchedType
    BY Zenon DEF SchedType, StartScheduled, StartImmediate
  <1>2. PcType
    BY DEF PcType, Labels, InSlot, StartScheduled, StartImmediate
  <1>7. JobType
    BY Constants DEF JobType, StartScheduled, StartImmediate
  <1>3. LockType /\ RevType
    BY Constants DEF LockType, RevType, Insts, Gens
  <1>4. WorkType
    BY DEF WorkType, Phases, Finished, StageSet
  <1>5. DiskType
    BY Constants DEF DiskType, Kinds, Insts, Gens, NoCycle
  <1> QED
    BY <1>1, <1>2, <1>3, <1>4, <1>5, <1>6, <1>7, <1>8 DEF TypeOK

LEMMA TypeTick ==
    ASSUME TypeOK, NEW t \in Threads, Tick(t) PROVE TypeOK'
  <1> USE BoundsAssumption DEF TypeOK, GateType, PcType, TickType, SchedType, LockType, WorkType, DiskType, JobType, RevType, gateV, tickV, schedV, lockV, workV, diskV, jobV, retryV, revV, Go, At
  <1>1. CASE TickEnter(t)
    BY <1>1 DEF TickEnter, Labels, InSlot, Results, Phases, Finished
  <1>2. CASE TickBusy(t)
    BY <1>2 DEF TickBusy, Labels, InSlot, Results, Summarise, NoCycle, Kinds, Phases, Finished
  <1>3. CASE TickGate(t)
    <2>1. PcType'
      BY <1>3 DEF TickGate, Labels, InSlot
    <2>2. TickType'
      BY <1>3 DEF TickGate, Results
    <2>3. LockType'
      BY <1>3 DEF TickGate
    <2>4. DiskType'
      BY <1>3 DEF TickGate, Summarise, NoCycle, Kinds
    <2>5. GateType' /\ SchedType' /\ WorkType' /\ JobType' /\ RevType'
      BY <1>3 DEF TickGate
    <2> QED
      BY <2>1, <2>2, <2>3, <2>4, <2>5
  <1>4. CASE TickClaim(t)
    BY <1>4 DEF TickClaim, Labels, InSlot, Results, Gens, Phases, Finished
  <1>5. CASE TickSubmit(t)
    <2>1. PcType'
      BY <1>5 DEF TickSubmit, Labels, InSlot
    <2>2. TickType'
      BY <1>5 DEF TickSubmit, Results
    <2>3. LockType'
      BY <1>5 DEF TickSubmit
    <2>4. WorkType'
      BY <1>5 DEF TickSubmit, Phases, Finished
    <2>5. GateType' /\ SchedType' /\ DiskType' /\ JobType' /\ RevType'
      BY <1>5 DEF TickSubmit
    <2> QED
      BY <2>1, <2>2, <2>3, <2>4, <2>5
  <1>6. CASE TickResult(t)
    BY <1>6 DEF TickResult, Labels, InSlot, Results, Phases, Finished
  <1>7. CASE TickTimeout(t)
    BY <1>7 DEF TickTimeout, Labels, InSlot, Results, Phases, Finished
  <1>8. CASE TickRevoke(t)
    BY <1>8 DEF TickRevoke, Labels, InSlot, Results, Gens, Phases, Finished
  <1>9. CASE TickForce(t)
    BY <1>9 DEF TickForce, Labels, InSlot, Results, ForceRelease, Phases, Finished
  <1>10. CASE TickReplace(t)
    BY <1>10 DEF TickReplace, Labels, InSlot, Results, ForceRelease, Phases, Finished
  <1>11. CASE TickMark(t)
    BY <1>11 DEF TickMark, Labels, InSlot, Results, Phases, Finished
  <1>12. CASE TickReport(t)
    BY <1>12 DEF TickReport, Labels, InSlot, Results, Summarise, Kinds, Phases, Finished
  <1>13. CASE TickClear(t)
    <2>1. PcType'
      BY <1>13 DEF TickClear, Labels, InSlot
    <2>2. LockType'
      BY <1>13 DEF TickClear, Gens
    <2>3. WorkType'
      BY <1>13 DEF TickClear, Phases, Finished
    <2>4. GateType' /\ TickType' /\ SchedType' /\ DiskType' /\ JobType' /\ RevType'
      BY <1>13 DEF TickClear
    <2> QED
      BY <2>1, <2>2, <2>3, <2>4
  <1>14. CASE TickLeave(t)
    BY <1>14 DEF TickLeave, Labels, InSlot, Results, Phases, Finished
  <1>15. CASE TickSettle(t)
    <2>1. PcType'
      BY <1>15 DEF TickSettle, Labels, InSlot, Return, Home
    <2>2. TickType'
      BY <1>15, ReturnType DEF TickSettle
    <2>3. RevType'
      BY <1>15 DEF TickSettle
    <2>5. nextRun' \in [Insts -> BOOLEAN] /\ active' = active
      BY <1>15 DEF TickSettle
    <2>6. JobType'
      BY <1>15, SucceedType DEF TickSettle
    <2>4. GateType' /\ LockType' /\ WorkType' /\ DiskType'
      BY <1>15 DEF TickSettle
    <2> QED
      BY <2>1, <2>2, <2>3, <2>4, <2>5, <2>6
  <1>16. CASE TickAddJob(t)
    <2>1. PcType'
      BY <1>16 DEF TickAddJob, Labels, InSlot, Return, Home
    <2>2. TickType'
      BY <1>16, ReturnType DEF TickAddJob
    <2>3. JobType'
      BY <1>16, SucceedType, ArmType DEF TickAddJob
    <2>4. GateType' /\ SchedType' /\ LockType' /\ WorkType' /\ DiskType' /\ RevType'
      BY <1>16 DEF TickAddJob
    <2> QED
      BY <2>1, <2>2, <2>3, <2>4
  <1>17. CASE TickRaised(t)
    <2>1. PcType'
      BY <1>17 DEF TickRaised, Labels, InSlot, Return, Home
    <2>2. TickType'
      BY <1>17, ReturnType DEF TickRaised
    <2>3. JobType'
      BY <1>17, RetryType DEF TickRaised
    <2>4. GateType' /\ SchedType' /\ LockType' /\ WorkType' /\ DiskType' /\ RevType'
      BY <1>17 DEF TickRaised
    <2> QED
      BY <2>1, <2>2, <2>3, <2>4
  <1> QED
    BY <1>1, <1>2, <1>3, <1>4, <1>5, <1>6, <1>7, <1>8, <1>9, <1>10, <1>11, <1>12, <1>13, <1>14, <1>15, <1>16, <1>17 DEF Tick

LEMMA TypeRev ==
    ASSUME TypeOK, NEW t \in Control, ReviveStep(t) PROVE TypeOK'
  <1> USE BoundsAssumption DEF TypeOK, GateType, PcType, TickType, SchedType, LockType, WorkType, DiskType, JobType, RevType, gateV, tickV, schedV, lockV, workV, diskV, jobV, retryV, revV, Go, At
  <1>1. CASE ReviveProbe(t)
    <2>1. t \in Threads
      BY <1>1 DEF ReviveProbe, Threads
    <2>2. PcType'
      BY <1>1 DEF ReviveProbe, Labels, InSlot
    <2>3. LockType'
      BY <1>1 DEF ReviveProbe
    <2>4. RevType'
      BY <1>1 DEF ReviveProbe
    <2>5. GateType' /\ TickType' /\ SchedType' /\ WorkType' /\ DiskType' /\ JobType'
      BY <1>1 DEF ReviveProbe
    <2> QED
      BY <2>1, <2>2, <2>3, <2>4, <2>5
  <1>2. CASE ReviveForce(t)
    BY <1>2 DEF ReviveForce, Labels, InSlot, Results, ForceRelease, Phases, Finished
  <1>3. CASE ReviveReplace(t)
    BY <1>3 DEF ReviveReplace, Labels, InSlot, Results, ForceRelease, Phases, Finished
  <1>4. CASE ReviveClear(t)
    <2>1. PcType'
      BY <1>4 DEF ReviveClear, Labels, InSlot
    <2>2. LockType'
      BY <1>4, Constants DEF ReviveClear
    <2>3. GateType' /\ TickType' /\ SchedType' /\ WorkType' /\ DiskType' /\ JobType' /\ RevType'
      BY <1>4 DEF ReviveClear
    <2> QED
      BY <2>1, <2>2, <2>3
  <1>5. CASE ReviveRelease(t)
    BY <1>5 DEF ReviveRelease, Labels, InSlot, Results, ForceRelease, Phases, Finished
  <1>6. CASE ReviveStop(t)
    BY <1>6 DEF ReviveStop, Labels, InSlot, Results, Phases, Finished
  <1>7. CASE ReviveCancel(t)
    BY <1>7 DEF ReviveCancel, Labels, InSlot
  <1>8. CASE ReviveStart(t)
    <2>1. PcType'
      BY <1>8 DEF ReviveStart, Labels, InSlot
    <2>2. SchedType'
      BY <1>8 DEF ReviveStart, Insts
    <2>3. JobType'
      BY <1>8 DEF ReviveStart, Insts
    <2>4. GateType' /\ TickType' /\ LockType' /\ WorkType' /\ DiskType' /\ RevType'
      BY <1>8 DEF ReviveStart
    <2> QED
      BY <2>1, <2>2, <2>3, <2>4
  <1>9. CASE ReviveJob(t)
    <2>1. t \in Threads /\ cur \in Insts
      BY <1>9 DEF ReviveJob, Threads
    <2>2. PcType'
      BY <1>9 DEF ReviveJob, Labels, InSlot
    <2>3. TickType'
      BY <1>9, <2>1 DEF ReviveJob
    <2>4. JobType'
      BY <1>9, <2>1, ArmType DEF ReviveJob
    <2>5. GateType' /\ SchedType' /\ LockType' /\ WorkType' /\ DiskType' /\ RevType'
      BY <1>9 DEF ReviveJob
    <2> QED
      BY <2>2, <2>3, <2>4, <2>5
  <1>10. CASE ReviveEnsure(t)
    <2>1. PcType'
      BY <1>10 DEF ReviveEnsure, Labels, InSlot
    <2>2. SchedType'
      BY <1>10 DEF ReviveEnsure
    <2>3. JobType'
      <3>1. CASE jobs' = jobs /\ gaveUp' = gaveUp
        BY <1>10, <3>1 DEF ReviveEnsure
      <3>2. CASE Arm(cur)
        BY <1>10, <3>2, ArmType DEF ReviveEnsure
      <3> QED
        BY <1>10, <3>1, <3>2 DEF ReviveEnsure
    <2>4. GateType' /\ TickType' /\ LockType' /\ WorkType' /\ DiskType' /\ RevType'
      BY <1>10 DEF ReviveEnsure
    <2> QED
      BY <2>1, <2>2, <2>3, <2>4
  <1> QED
    BY <1>1, <1>2, <1>3, <1>4, <1>5, <1>6, <1>7, <1>8, <1>9, <1>10 DEF ReviveStep

LEMMA TypeWork ==
    ASSUME TypeOK, NEW c \in Cycles, Work(c) PROVE TypeOK'
  <1> USE BoundsAssumption DEF TypeOK, GateType, PcType, TickType, SchedType, LockType, WorkType, DiskType, JobType, RevType, gateV, tickV, schedV, lockV, workV, diskV, jobV, retryV, revV, Go, At
  <1>1. CASE WorkStart(c)
    BY <1>1 DEF WorkStart, Phases, Finished
  <1>2. CASE WorkEnter(c)
    BY <1>2 DEF WorkEnter, Phases, Finished
  <1>3. CASE WorkBody(c)
    BY <1>3 DEF WorkBody, Phases, Finished
  <1>4. CASE WorkSkip(c)
    BY <1>4 DEF WorkSkip, Advance, NextStage, StageSet, Phases, Finished
  <1>5. CASE WorkPersist(c)
    BY <1>5 DEF WorkPersist, Cycles, Phases, Finished
  <1>6. CASE WorkWrite(c)
    <2>1. WorkType'
      BY <1>6 DEF WorkWrite, Advance, NextStage, StageSet, Phases, Finished
    <2>2. c \in Insts \X Gens /\ c[1] \in Insts
      BY <1>6 DEF WorkWrite, Cycles
    <2>3. plock' \in [Insts -> Gens]
      BY <1>6, <2>2, Constants DEF WorkWrite
    <2>5. lastCycle' \in [by : (Insts \X Gens) \cup {NoCycle}, kind : Kinds]
      BY <1>6, <2>2 DEF WorkWrite, Summarise, Kinds
    <2>6. sealed' = sealed /\ abandoned' = abandoned
      BY <1>6 DEF WorkWrite
    <2>4. GateType' /\ PcType' /\ TickType' /\ SchedType' /\ LockType' /\ JobType' /\ RevType'
      BY <1>6 DEF WorkWrite
    <2> QED
      BY <2>1, <2>3, <2>4, <2>5, <2>6
  <1>7. CASE WorkCheck(c)
    BY <1>7 DEF WorkCheck, Phases, Finished
  <1>8. CASE WorkUnlock(c)
    BY <1>8 DEF WorkUnlock, Phases, Finished
  <1> QED
    BY <1>1, <1>2, <1>3, <1>4, <1>5, <1>6, <1>7, <1>8 DEF Work

LEMMA TypeOther ==
    ASSUME TypeOK,
           \/ \E t \in Exec, d \in Ids : FireJob(t, d)
           \/ \E t \in Control : RunOnce(t) \/ Revive(t)
           \/ (\E d \in Ids : DropJob(d)) \/ OtherEnter \/ OtherLeave \/ Age
    PROVE  TypeOK'
  <1> USE DEF TypeOK, GateType, PcType, TickType, SchedType, LockType, WorkType,
              DiskType, JobType, RevType, gateV, tickV, schedV, lockV, workV,
              diskV, jobV, retryV, revV, Go
  <1>7. ASSUME NEW t \in Threads, NEW i \in Insts, NEW d \in 0..MaxRetry - 1,
               NEW k \in {"scheduled", "direct"}, Begin(t, i, k, d)
        PROVE  PcType' /\ TickType' /\ GateType' /\ SchedType' /\ LockType'
               /\ WorkType' /\ DiskType' /\ RevType'
    BY <1>7 DEF Begin, Labels
  <1>1. CASE \E t \in Exec, d \in Ids : FireJob(t, d)
    <2> PICK t \in Exec, d \in Ids : FireJob(t, d)
      BY <1>1
    <2>1. t \in Threads /\ jobs[d] \in Insts /\ d \in 0..MaxRetry - 1
      BY BoundsAssumption DEF FireJob, Threads, Ids
    <2>2. JobType'
      BY DEF FireJob
    <2> QED
      BY <1>7, <2>1, <2>2 DEF FireJob
  <1>2. CASE \E t \in Control : RunOnce(t)
    <2> PICK t \in Control : RunOnce(t)
      BY <1>2
    <2>1. t \in Threads /\ cur \in Insts /\ JobId \in 0..MaxRetry - 1
      BY BoundsAssumption DEF RunOnce, Threads, JobId
    <2>2. JobType'
      BY DEF RunOnce
    <2> QED
      BY <1>7, <2>1, <2>2 DEF RunOnce
  <1>3. CASE \E t \in Control : Revive(t)
    <2> PICK t \in Control : Revive(t)
      BY <1>3
    <2>1. PcType'
      BY DEF Revive, Labels, Threads
    <2>2. RevType'
      BY DEF Revive
    <2>3. GateType' /\ TickType' /\ SchedType' /\ LockType' /\ WorkType' /\ DiskType' /\ JobType'
      BY DEF Revive
    <2> QED
      BY <2>1, <2>2, <2>3
  <1>4. CASE \E d \in Ids : DropJob(d)
    BY <1>4 DEF DropJob
  <1>5. CASE OtherEnter \/ OtherLeave
    BY <1>5 DEF OtherEnter, OtherLeave
  <1>6. CASE Age
    BY <1>6 DEF Age
  <1> QED
    BY <1>1, <1>2, <1>3, <1>4, <1>5, <1>6

\* Every step of the scheduler keeps the types.
LEMMA TypeNext == TypeOK /\ [Next]_vars => TypeOK'
  <1> SUFFICES ASSUME TypeOK, [Next]_vars PROVE TypeOK'
    OBVIOUS
  <1>1. CASE \E t \in Threads : Tick(t)
    BY <1>1, TypeTick
  <1>2. CASE \E t \in Control : ReviveStep(t)
    BY <1>2, TypeRev
  <1>3. CASE \E c \in Cycles : Work(c)
    BY <1>3, TypeWork
  <1>4. CASE UNCHANGED vars
    BY <1>4 DEF TypeOK, GateType, PcType, TickType, SchedType, LockType, WorkType,
                DiskType, JobType, RevType, vars, gateV, tickV, schedV, lockV,
                workV, diskV, jobV, retryV, revV
  <1> QED
    BY <1>1, <1>2, <1>3, <1>4, TypeOther DEF Next

\* Type correctness: locks, futures, generations and labels stay in their sets.
THEOREM TypeCorrect == Spec => []TypeOK
  BY TypeInit, TypeNext, PTL DEF Spec
(***************************************************************************)
(* One unfinished worker per scheduler.  The slot admits one tick, a       *)
(* worker that has not finished is always the recorded future, so a tick   *)
(* that reaches the cycle lock finds no worker left.                       *)
(***************************************************************************)
SlotInv ==
    /\ \A t \in Threads : pc[t] \in InSlot => slot = t
    /\ other => slot = Other

FutureInv == \A i \in Insts : \A g \in Gens \ {0} :
    Live(<<i, g>>) => inflight[i] = g

WorkerInv == SlotInv /\ FutureInv /\ NoForeignUnlock

LEMMA WorkerInit == Init => WorkerInv
  <1> SUFFICES ASSUME Init PROVE WorkerInv
    OBVIOUS
  <1>1. \A t \in Threads : pc[t] \in {"idle", "enter"}
    BY DEF Init, StartScheduled, StartImmediate
  <1>2. ~other /\ \A c \in Cycles : ~Live(c)
    BY DEF Init, InitState, Live, Finished
  <1> QED
    BY <1>1, <1>2 DEF WorkerInv, SlotInv, FutureInv, NoForeignUnlock, InSlot, Cycles

LEMMA SlotTick ==
    ASSUME TypeOK, SlotInv, NEW t \in Threads, Tick(t) PROVE SlotInv'
  <1> USE DEF TypeOK, PcType, SlotInv, InSlot, Go, gateV
  <1>1. CASE TickEnter(t)
    BY <1>1, ThreadsAssumption DEF TickEnter, Threads
  <1>2. CASE TickBusy(t)
    BY <1>2 DEF TickBusy
  <1>3. CASE TickGate(t)
    BY <1>3 DEF TickGate, InflightLive
  <1>4. CASE TickClaim(t)
    BY <1>4 DEF TickClaim
  <1>5. CASE TickSubmit(t)
    BY <1>5 DEF TickSubmit
  <1>6. CASE TickResult(t)
    BY <1>6 DEF TickResult
  <1>7. CASE TickTimeout(t)
    BY <1>7 DEF TickTimeout
  <1>8. CASE TickRevoke(t)
    BY <1>8 DEF TickRevoke
  <1>9. CASE TickForce(t)
    BY <1>9 DEF TickForce, ForceRelease
  <1>10. CASE TickReplace(t)
    BY <1>10 DEF TickReplace, ForceRelease
  <1>11. CASE TickMark(t)
    BY <1>11 DEF TickMark
  <1>12. CASE TickReport(t)
    BY <1>12 DEF TickReport
  <1>13. CASE TickClear(t)
    BY <1>13 DEF TickClear, InflightLive
  <1>14. CASE TickLeave(t)
    BY <1>14, ThreadsAssumption DEF TickLeave, Threads
  <1>15. CASE TickSettle(t)
    BY <1>15 DEF TickSettle, Return, Home
  <1>16. CASE TickAddJob(t)
    BY <1>16 DEF TickAddJob, Return, Home
  <1>17. CASE TickRaised(t)
    BY <1>17 DEF TickRaised, Return, Home
  <1> QED
    BY <1>1, <1>2, <1>3, <1>4, <1>5, <1>6, <1>7, <1>8, <1>9, <1>10, <1>11, <1>12, <1>13, <1>14, <1>15, <1>16, <1>17 DEF Tick

LEMMA FutureTick ==
    ASSUME TypeOK, WorkerInv, NEW t \in Threads, Tick(t) PROVE FutureInv' /\ NoForeignUnlock'
  <1> USE DEF TypeOK, PcType, TickType, LockType, WorkType, Cycles, WorkerInv, SlotInv, FutureInv, NoForeignUnlock, InSlot, Live, Finished, Go, gateV, tickV, lockV, workV
  <1>1. CASE TickEnter(t)
    BY <1>1 DEF TickEnter
  <1>2. CASE TickBusy(t)
    BY <1>2 DEF TickBusy
  <1>3. CASE TickGate(t)
    <2> DEFINE i == inst[t]
    <2>1. phase' = phase /\ inflight' = inflight /\ inst' = inst /\ i \in Insts
      BY <1>3 DEF TickGate
    <2>2. FutureInv'
      BY <2>1
    <2>3. ASSUME NEW u \in Threads, pc'[u] \in {"claim", "submit"}, u # t
          PROVE  \A g \in Gens \ {0} : ~Live(<<inst[u], g>>)
      BY <1>3, <2>3 DEF TickGate
    <2>4. pc'[t] = "claim" => ~InflightLive(i)
      BY <1>3 DEF TickGate
    <2>5. ~InflightLive(i) => \A g \in Gens \ {0} : ~Live(<<i, g>>)
      BY <2>1 DEF InflightLive
    <2>6. pc'[t] # "submit"
      BY <1>3 DEF TickGate
    <2> QED
      BY <2>1, <2>2, <2>3, <2>4, <2>5, <2>6
  <1>4. CASE TickClaim(t)
    BY <1>4 DEF TickClaim
  <1>5. CASE TickSubmit(t)
    <2> DEFINE i == inst[t] c == <<inst[t], cyc[t]>>
    <2>1. CASE phase' = phase /\ inflight' = inflight
      BY <1>5, <2>1 DEF TickSubmit
    <2>2. CASE /\ phase' = [phase EXCEPT ![c] = "queued"]
               /\ inflight' = [inflight EXCEPT ![i] = cyc[t]]
      <3>1. i \in Insts /\ cyc[t] \in Gens /\ inst' = inst /\ slot = t
        BY <1>5 DEF TickSubmit
      <3>2. ASSUME NEW j \in Insts, NEW g \in Gens \ {0}, Live(<<j, g>>)', <<j, g>> # c
            PROVE  Live(<<j, g>>) /\ j # i
        BY <1>5, <2>2, <3>1, <3>2 DEF TickSubmit
      <3>3. FutureInv'
        BY <2>2, <3>1, <3>2
      <3>4. pc' = [pc EXCEPT ![t] = "wait"] \/ pc' = [pc EXCEPT ![t] = "force"]
        BY <1>5 DEF TickSubmit
      <3>5. NoForeignUnlock'
        BY <3>1, <3>4
      <3> QED
        BY <3>3, <3>5
    <2> QED
      BY <1>5, <2>1, <2>2 DEF TickSubmit
  <1>6. CASE TickResult(t)
    BY <1>6 DEF TickResult
  <1>7. CASE TickTimeout(t)
    BY <1>7 DEF TickTimeout
  <1>8. CASE TickRevoke(t)
    BY <1>8 DEF TickRevoke
  <1>9. CASE TickForce(t)
    BY <1>9 DEF TickForce, ForceRelease
  <1>10. CASE TickReplace(t)
    BY <1>10 DEF TickReplace, ForceRelease
  <1>11. CASE TickMark(t)
    BY <1>11 DEF TickMark
  <1>12. CASE TickReport(t)
    BY <1>12 DEF TickReport
  <1>13. CASE TickClear(t)
    <2>1. \A d \in Cycles : Live(d)' => Live(d)
      BY <1>13 DEF TickClear
    <2>2. inst[t] \in Insts /\ inst' = inst
      BY <1>13 DEF TickClear
    <2>3. inflight' # inflight => \A g \in Gens \ {0} : ~Live(<<inst[t], g>>)
      BY <1>13, <2>2 DEF TickClear, InflightLive
    <2>4. FutureInv'
      BY <1>13, <2>1, <2>2, <2>3 DEF TickClear
    <2>5. NoForeignUnlock'
      BY <1>13, <2>1, <2>2 DEF TickClear
    <2> QED
      BY <2>4, <2>5
  <1>14. CASE TickLeave(t)
    BY <1>14 DEF TickLeave
  <1>15. CASE TickSettle(t)
    <2>1. UNCHANGED <<phase, inflight>>
      BY <1>15 DEF TickSettle
    <2>2. /\ pc'[t] \notin {"claim", "submit"}
          /\ \A u \in Threads : u # t => pc'[u] = pc[u] /\ inst'[u] = inst[u]
      BY <1>15 DEF TickSettle, Return, Home
    <2> QED
      BY <2>1, <2>2
  <1>16. CASE TickAddJob(t)
    BY <1>16 DEF TickAddJob, Return, Home
  <1>17. CASE TickRaised(t)
    BY <1>17 DEF TickRaised, Return, Home
  <1> HIDE DEF TypeOK, WorkerInv, FutureInv, NoForeignUnlock, Go, Live
  <1> QED
    BY <1>1, <1>2, <1>3, <1>4, <1>5, <1>6, <1>7, <1>8, <1>9, <1>10, <1>11, <1>12, <1>13, <1>14, <1>15, <1>16, <1>17 DEF Tick

LEMMA WorkerRevive ==
    ASSUME TypeOK, WorkerInv, NEW t \in Control, ReviveStep(t) PROVE WorkerInv'
  <1> USE DEF TypeOK, PcType, TickType, LockType, Threads, WorkerInv, SlotInv, FutureInv, NoForeignUnlock, InSlot, Live, Finished, Go, gateV, tickV, lockV, workV
  <1>1. CASE ReviveProbe(t)
    BY <1>1 DEF ReviveProbe
  <1>2. CASE ReviveForce(t)
    BY <1>2 DEF ReviveForce, ForceRelease
  <1>3. CASE ReviveReplace(t)
    BY <1>3 DEF ReviveReplace, ForceRelease
  <1>4. CASE ReviveClear(t)
    BY <1>4 DEF ReviveClear, InflightLive
  <1>5. CASE ReviveRelease(t)
    BY <1>5 DEF ReviveRelease, ForceRelease
  <1>6. CASE ReviveStop(t)
    BY <1>6 DEF ReviveStop
  <1>7. CASE ReviveCancel(t)
    BY <1>7 DEF ReviveCancel
  <1>8. CASE ReviveStart(t)
    BY <1>8 DEF ReviveStart
  <1>9. CASE ReviveJob(t)
    BY <1>9 DEF ReviveJob
  <1>10. CASE ReviveEnsure(t)
    BY <1>10 DEF ReviveEnsure
  <1> QED
    BY <1>1, <1>2, <1>3, <1>4, <1>5, <1>6, <1>7, <1>8, <1>9, <1>10 DEF ReviveStep

LEMMA WorkerWork ==
    ASSUME TypeOK, WorkerInv, NEW c \in Cycles, Work(c) PROVE WorkerInv'
  <1> USE DEF TypeOK, WorkType, WorkerInv, SlotInv, FutureInv, NoForeignUnlock, Live, Finished, At, gateV, tickV, lockV
  <1>1. CASE WorkStart(c)
    BY <1>1 DEF WorkStart
  <1>2. CASE WorkEnter(c)
    BY <1>2 DEF WorkEnter
  <1>3. CASE WorkBody(c)
    BY <1>3 DEF WorkBody
  <1>4. CASE WorkSkip(c)
    BY <1>4 DEF WorkSkip, Advance
  <1>5. CASE WorkPersist(c)
    BY <1>5 DEF WorkPersist
  <1>6. CASE WorkWrite(c)
    BY <1>6 DEF WorkWrite, Advance
  <1>7. CASE WorkCheck(c)
    BY <1>7 DEF WorkCheck
  <1>8. CASE WorkUnlock(c)
    BY <1>8 DEF WorkUnlock
  <1> QED
    BY <1>1, <1>2, <1>3, <1>4, <1>5, <1>6, <1>7, <1>8 DEF Work

LEMMA WorkerOther ==
    ASSUME TypeOK, WorkerInv,
           \/ \E t \in Exec, d \in Ids : FireJob(t, d)
           \/ \E t \in Control : RunOnce(t) \/ Revive(t)
           \/ (\E d \in Ids : DropJob(d)) \/ OtherEnter \/ OtherLeave \/ Age
    PROVE  WorkerInv'
  <1> USE DEF TypeOK, PcType, TickType, WorkerInv, SlotInv, FutureInv,
              NoForeignUnlock, Live, Finished, Threads, Go, gateV, tickV, lockV, workV
  <1>1. CASE \E t \in Exec, d \in Ids : FireJob(t, d)
    BY <1>1 DEF FireJob, Begin, InSlot
  <1>2. CASE \E t \in Control : RunOnce(t)
    BY <1>2 DEF RunOnce, Begin, InSlot
  <1>3. CASE \E t \in Control : Revive(t)
    BY <1>3 DEF Revive, InSlot
  <1>4. CASE (\E d \in Ids : DropJob(d)) \/ Age
    BY <1>4 DEF DropJob, Age
  <1>5. CASE OtherEnter \/ OtherLeave
    BY <1>5, ThreadsAssumption DEF OtherEnter, OtherLeave
  <1> QED
    BY <1>1, <1>2, <1>3, <1>4, <1>5

LEMMA WorkerNext == TypeOK /\ WorkerInv /\ [Next]_vars => WorkerInv'
  <1> SUFFICES ASSUME TypeOK, WorkerInv, [Next]_vars PROVE WorkerInv'
    OBVIOUS
  <1>1. CASE \E t \in Threads : Tick(t)
    BY <1>1, SlotTick, FutureTick DEF WorkerInv
  <1>2. CASE \E t \in Control : ReviveStep(t)
    BY <1>2, WorkerRevive
  <1>3. CASE \E c \in Cycles : Work(c)
    BY <1>3, WorkerWork
  <1>4. CASE UNCHANGED vars
    BY <1>4 DEF WorkerInv, SlotInv, FutureInv, NoForeignUnlock, Live, vars, gateV,
                tickV, lockV, workV
  <1> QED
    BY <1>1, <1>2, <1>3, <1>4, WorkerOther DEF Next

LEMMA WorkerAlways == Spec => [](TypeOK /\ WorkerInv)
  <1>1. TypeOK /\ WorkerInv /\ [Next]_vars => (TypeOK /\ WorkerInv)'
    BY TypeNext, WorkerNext
  <1> QED
    BY <1>1, TypeInit, WorkerInit, PTL DEF Spec

\* A scheduler never has two unfinished cycle threads, however many of its
\* cycles were abandoned: the recorded future is the only candidate.
THEOREM OneWorkerAlways == Spec => []OneWorker
  <1>1. TypeOK /\ WorkerInv => OneWorker
    <2> SUFFICES ASSUME WorkerInv, NEW i \in Insts, NEW g \in Gens \ {0},
                        NEW h \in Gens \ {0}, Live(<<i, g>>), Live(<<i, h>>)
                 PROVE  g = h
      BY DEF OneWorker
    <2> QED
      BY DEF WorkerInv, FutureInv
  <1> QED
    BY <1>1, WorkerAlways, PTL

\* No worker survives that could release _cycle_lock under the tick that has
\* just taken it, whatever timeouts, orphans and revives came before.
THEOREM NoForeignUnlockAlways == Spec => []NoForeignUnlock
  BY WorkerAlways, PTL DEF WorkerInv

(***************************************************************************)
(* An orphan never overwrites a timeout summary.  Revoking a cycle dooms   *)
(* it: its generation is past and it is not the owner, for ever.  Only a   *)
(* doomed cycle is sealed by the timeout summary, which waits for          *)
(* _persist_lock, so a cycle that is writing is never sealed.              *)
(***************************************************************************)
Doomed(c) == c[2] # 0 /\ c[2] < gen[c[1]] /\ owner[c[1]] # c[2]

StaleInv == \A t \in Threads :
    /\ pc[t] \in {"submit", "wait", "revoke"} =>
           cyc[t] # 0 /\ cyc[t] <= gen[inst[t]]
    /\ pc[t] \in {"force", "replace"} /\ res[t] = "timeout" =>
           Doomed(<<inst[t], cyc[t]>>)
    /\ pc[t] \in {"mark", "report"} => Doomed(<<inst[t], cyc[t]>>)

SealedInv == \A c \in sealed : Doomed(c)

WriteInv == \A i \in Insts : \A g \in Gens \ {0} :
    phase[<<i, g>>] = "write" => <<i, g>> \notin sealed /\ plock[i] = g

SealInv == StaleInv /\ SealedInv /\ WriteInv

LEMMA SealInit == Init => SealInv
  BY DEF Init, InitState, StartScheduled, StartImmediate, SealInv, StaleInv,
     SealedInv, WriteInv, Cycles

\* A doomed cycle stays doomed: no step brings its generation back.
LEMMA DoomedTick ==
    ASSUME TypeOK, NEW t \in Threads, Tick(t),
           NEW c \in Insts \X Gens, Doomed(c)
    PROVE  Doomed(c)'
  <1> USE DEF TypeOK, TickType, LockType, Insts, Gens, Doomed, lockV
  <1>1. CASE TickEnter(t)
    BY <1>1 DEF TickEnter
  <1>2. CASE TickBusy(t)
    BY <1>2 DEF TickBusy
  <1>3. CASE TickGate(t)
    BY <1>3 DEF TickGate
  <1>4. CASE TickClaim(t)
    BY <1>4 DEF TickClaim
  <1>5. CASE TickSubmit(t)
    BY <1>5 DEF TickSubmit
  <1>6. CASE TickResult(t)
    BY <1>6 DEF TickResult
  <1>7. CASE TickTimeout(t)
    BY <1>7 DEF TickTimeout
  <1>8. CASE TickRevoke(t)
    BY <1>8 DEF TickRevoke
  <1>9. CASE TickForce(t)
    BY <1>9 DEF TickForce, ForceRelease
  <1>10. CASE TickReplace(t)
    BY <1>10 DEF TickReplace, ForceRelease
  <1>11. CASE TickMark(t)
    BY <1>11 DEF TickMark
  <1>12. CASE TickReport(t)
    BY <1>12 DEF TickReport
  <1>13. CASE TickClear(t)
    BY <1>13 DEF TickClear
  <1>14. CASE TickLeave(t)
    BY <1>14 DEF TickLeave
  <1>15. CASE TickSettle(t)
    BY <1>15 DEF TickSettle, Return, Home
  <1>16. CASE TickAddJob(t)
    BY <1>16 DEF TickAddJob, Return, Home
  <1>17. CASE TickRaised(t)
    BY <1>17 DEF TickRaised, Return, Home
  <1> QED
    BY <1>1, <1>2, <1>3, <1>4, <1>5, <1>6, <1>7, <1>8, <1>9, <1>10, <1>11, <1>12, <1>13, <1>14, <1>15, <1>16, <1>17 DEF Tick

\* StaleInv, of one thread.
StaleOf(t) ==
    /\ pc[t] \in {"submit", "wait", "revoke"} => cyc[t] # 0 /\ cyc[t] <= gen[inst[t]]
    /\ pc[t] \in {"force", "replace"} /\ res[t] = "timeout" => Doomed(<<inst[t], cyc[t]>>)
    /\ pc[t] \in {"mark", "report"} => Doomed(<<inst[t], cyc[t]>>)

LEMMA StaleSplit == (StaleInv <=> \A t \in Threads : StaleOf(t))
                 /\ (StaleInv' <=> \A t \in Threads : StaleOf(t)')
  BY DEF StaleInv, StaleOf

\* A step that leaves the generations, the owners and the other threads alone
\* has only its own thread to answer for.
LEMMA StaleFrame ==
    ASSUME StaleInv, NEW t \in Threads, UNCHANGED <<gen, owner>>,
           \A u \in Threads : u # t =>
              pc'[u] = pc[u] /\ res'[u] = res[u] /\ cyc'[u] = cyc[u] /\ inst'[u] = inst[u],
           \/ pc'[t] \notin {"submit", "wait", "revoke", "force", "replace", "mark", "report"}
           \/ pc'[t] \in {"force", "replace"} /\ res'[t] # "timeout"
           \/ /\ cyc'[t] = cyc[t] /\ inst'[t] = inst[t]
              /\ \/ pc[t] \in {"submit", "wait", "revoke"} /\ pc'[t] \in {"wait", "revoke"}
                 \/ /\ pc[t] \in {"force", "replace"} /\ res[t] = "timeout"
                    /\ res'[t] = res[t] /\ pc'[t] \in {"force", "replace", "mark"}
                 \/ pc[t] = "mark" /\ pc'[t] = "report"
    PROVE  StaleInv'
  <1> SUFFICES ASSUME NEW u \in Threads
      PROVE  /\ pc'[u] \in {"submit", "wait", "revoke"} =>
                    cyc'[u] # 0 /\ cyc'[u] <= gen[inst'[u]]
             /\ pc'[u] \in {"force", "replace"} /\ res'[u] = "timeout" =>
                    Doomed(<<inst'[u], cyc'[u]>>)
             /\ pc'[u] \in {"mark", "report"} => Doomed(<<inst'[u], cyc'[u]>>)
    BY DEF StaleInv, Doomed
  <1>1. CASE u # t
    BY <1>1 DEF StaleInv
  <1>2. CASE u = t
    BY <1>2 DEF StaleInv
  <1> QED
    BY <1>1, <1>2

\* A step that starts a generation, or revokes one, dooms no fewer cycles.
LEMMA StaleNewGen ==
    ASSUME TypeOK, StaleInv, NEW t \in Threads, NEW o \in Gens,
           gen[inst[t]] + 1 \in Gens,
           gen' = [gen EXCEPT ![inst[t]] = @ + 1],
           owner' = [owner EXCEPT ![inst[t]] = o], o = 0 \/ o = gen[inst[t]] + 1,
           inst' = inst,
           \A u \in Threads : u # t => pc'[u] = pc[u] /\ res'[u] = res[u] /\ cyc'[u] = cyc[u]
    PROVE  \A u \in Threads \ {t} : StaleOf(u)'
  <1>1. gen \in [Insts -> Nat] /\ owner \in [Insts -> Nat] /\ o \in Nat
        /\ \A u \in Threads : inst[u] \in Insts /\ cyc[u] \in Nat
    BY BoundsAssumption DEF TypeOK, LockType, TickType, Gens
  <1> SUFFICES ASSUME NEW u \in Threads, u # t PROVE StaleOf(u)'
    OBVIOUS
  <1>2. gen[inst[u]] <= gen'[inst[u]]
    BY <1>1
  <1>3. gen'[inst[u]] \in Nat
    BY <1>1
  <1>4. pc[u] \in {"submit", "wait", "revoke"} => cyc[u] # 0 /\ cyc[u] <= gen'[inst[u]]
    <2>1. StaleOf(u)
      BY StaleSplit
    <2>2. SUFFICES ASSUME pc[u] \in {"submit", "wait", "revoke"}
          PROVE  cyc[u] # 0 /\ cyc[u] <= gen'[inst[u]]
      OBVIOUS
    <2>3. cyc[u] # 0 /\ cyc[u] <= gen[inst[u]]
      BY <2>1, <2>2 DEF StaleOf
    <2>4. cyc[u] \in Nat /\ gen[inst[u]] \in Nat
      BY <1>1
    <2> QED
      BY <2>3, <2>4, <1>2, <1>3
  <1>5. ASSUME Doomed(<<inst[u], cyc[u]>>) PROVE Doomed(<<inst[u], cyc[u]>>)'
    <2>1. cyc[u] # 0 /\ cyc[u] < gen[inst[u]] /\ owner[inst[u]] # cyc[u]
      BY <1>5 DEF Doomed
    <2>2. cyc[u] < gen'[inst[u]]
      BY <1>1, <1>2, <1>3, <2>1
    <2>3. owner'[inst[u]] # cyc[u]
      <3>1. CASE inst[u] = inst[t]
        BY <1>1, <2>1, <3>1
      <3>2. CASE inst[u] # inst[t]
        BY <1>1, <2>1, <3>2
      <3> QED
        BY <3>1, <3>2
    <2>4. cyc'[u] = cyc[u] /\ inst' = inst
      OBVIOUS
    <2> QED
      BY <2>1, <2>2, <2>3, <2>4 DEF Doomed
  <1> QED
    BY <1>4, <1>5, StaleSplit DEF StaleOf

LEMMA StaleTick ==
    ASSUME TypeOK, StaleInv, NEW t \in Threads, Tick(t) PROVE StaleInv'
  <1> USE DEF TypeOK, PcType, TickType, Go, tickV, lockV
  <1>1. CASE TickEnter(t)
    BY <1>1, StaleFrame DEF TickEnter
  <1>2. CASE TickBusy(t)
    BY <1>2, StaleFrame DEF TickBusy
  <1>3. CASE TickGate(t)
    BY <1>3, StaleFrame DEF TickGate
  <1>4. CASE TickClaim(t)
    <2>1. /\ inst[t] \in Insts /\ gen[inst[t]] \in Gens /\ gen[inst[t]] < MaxGen
          /\ gen' = [gen EXCEPT ![inst[t]] = @ + 1]
          /\ owner' = [owner EXCEPT ![inst[t]] = gen[inst[t]] + 1]
          /\ cyc'[t] = gen[inst[t]] + 1 /\ pc'[t] = "submit" /\ inst' = inst
          /\ \A u \in Threads : u # t
                => pc'[u] = pc[u] /\ res'[u] = res[u] /\ cyc'[u] = cyc[u]
      BY <1>4 DEF TickClaim, LockType
    <2>2. gen[inst[t]] + 1 \in Gens
      BY <2>1, BoundsAssumption DEF Gens
    <2>3. gen'[inst'[t]] = gen[inst[t]] + 1 /\ cyc'[t] # 0 /\ cyc'[t] <= gen'[inst'[t]]
      BY <2>1, BoundsAssumption DEF LockType, Gens
    <2>4. \A u \in Threads \ {t} : StaleOf(u)'
      BY <2>1, <2>2, StaleNewGen
    <2>5. StaleOf(t)'
      BY <2>1, <2>3 DEF StaleOf
    <2> QED
      BY <2>4, <2>5, StaleSplit
  <1>5. CASE TickSubmit(t)
    BY <1>5, StaleFrame DEF TickSubmit
  <1>6. CASE TickResult(t)
    BY <1>6, StaleFrame DEF TickResult
  <1>7. CASE TickTimeout(t)
    BY <1>7, StaleFrame DEF TickTimeout
  <1>8. CASE TickRevoke(t)
    <2>1. /\ inst[t] \in Insts /\ gen[inst[t]] \in Gens /\ gen[inst[t]] < MaxGen
          /\ gen' = [gen EXCEPT ![inst[t]] = @ + 1]
          /\ owner' = [owner EXCEPT ![inst[t]] = 0]
          /\ cyc' = cyc /\ pc[t] = "revoke" /\ pc'[t] = "force" /\ inst' = inst
          /\ \A u \in Threads : u # t
                => pc'[u] = pc[u] /\ res'[u] = res[u] /\ cyc'[u] = cyc[u]
      BY <1>8 DEF TickRevoke, LockType
    <2>2. gen[inst[t]] + 1 \in Gens /\ 0 \in Gens
      BY <2>1, BoundsAssumption DEF Gens
    <2>3. Doomed(<<inst[t], cyc[t]>>)'
      <3>1. cyc[t] # 0 /\ cyc[t] <= gen[inst[t]] /\ cyc[t] \in Nat /\ gen[inst[t]] \in Nat
        <4>1. StaleOf(t)
          BY StaleSplit
        <4>2. cyc[t] \in Nat /\ gen[inst[t]] \in Nat
          BY <2>1, BoundsAssumption DEF Gens
        <4> QED
          BY <2>1, <4>1, <4>2 DEF StaleOf
      <3>2. gen'[inst[t]] = gen[inst[t]] + 1 /\ owner'[inst[t]] = 0
        BY <2>1 DEF LockType
      <3> QED
        BY <2>1, <3>1, <3>2 DEF Doomed
    <2>4. \A u \in Threads \ {t} : StaleOf(u)'
      BY <2>1, <2>2, StaleNewGen
    <2>5. StaleOf(t)'
      BY <2>1, <2>3 DEF StaleOf, Doomed
    <2> QED
      BY <2>4, <2>5, StaleSplit
  <1>9. CASE TickForce(t) \/ TickReplace(t)
    BY <1>9, StaleFrame DEF TickForce, TickReplace, ForceRelease
  <1>10. CASE TickMark(t)
    BY <1>10, StaleFrame DEF TickMark
  <1>11. CASE TickReport(t)
    BY <1>11, StaleFrame DEF TickReport
  <1>12. CASE TickClear(t)
    BY <1>12, StaleFrame DEF TickClear
  <1>13. CASE TickLeave(t)
    BY <1>13, StaleFrame DEF TickLeave
  <1>14. CASE TickSettle(t)
    BY <1>14, StaleFrame DEF TickSettle, Return, Home
  <1>15. CASE TickAddJob(t)
    BY <1>15, StaleFrame DEF TickAddJob, Return, Home
  <1>16. CASE TickRaised(t)
    BY <1>16, StaleFrame DEF TickRaised, Return, Home
  <1> QED
    BY <1>1, <1>2, <1>3, <1>4, <1>5, <1>6, <1>7, <1>8, <1>9, <1>10, <1>11, <1>12, <1>13, <1>14, <1>15, <1>16 DEF Tick

\* Only the timeout summary seals a cycle, and no tick starts a write.
LEMMA TickWrites ==
    ASSUME TypeOK, NEW t \in Threads, Tick(t), ~TickReport(t)
    PROVE  /\ sealed' = sealed /\ plock' = plock
           /\ \A c \in Cycles : phase'[c] = "write" => phase[c] = "write"
  <1> USE DEF workV, diskV
  <1>1. CASE TickEnter(t) \/ TickBusy(t) \/ TickGate(t) \/ TickClaim(t)
    BY <1>1 DEF TickEnter, TickBusy, TickGate, TickClaim
  <1>2. CASE TickSubmit(t)
    <2>1. sealed' = sealed /\ plock' = plock
      BY <1>2 DEF TickSubmit
    <2>2. \/ phase' = phase
          \/ phase' = [phase EXCEPT ![<<inst[t], cyc[t]>>] = "queued"]
      BY <1>2 DEF TickSubmit
    <2>3. phase \in [Cycles -> Phases]
      BY DEF TypeOK, WorkType
    <2> QED
      BY <2>1, <2>2, <2>3
  <1>3. CASE TickResult(t) \/ TickTimeout(t) \/ TickRevoke(t) \/ TickForce(t) \/ TickReplace(t)
    BY <1>3 DEF TickResult, TickTimeout, TickRevoke, TickForce, TickReplace, ForceRelease
  <1>4. CASE TickMark(t) \/ TickLeave(t)
    BY <1>4 DEF TickMark, TickLeave
  <1>6. CASE TickClear(t)
    <2>1. sealed' = sealed /\ plock' = plock
      BY <1>6 DEF TickClear
    <2>2. \/ phase' = phase
          \/ phase' = [phase EXCEPT ![<<inst[t], cyc[t]>>] = "cancelled"]
      BY <1>6 DEF TickClear
    <2>3. phase \in [Cycles -> Phases]
      BY DEF TypeOK, WorkType
    <2> QED
      BY <2>1, <2>2, <2>3
  <1>5. CASE TickSettle(t) \/ TickAddJob(t) \/ TickRaised(t)
    BY <1>5 DEF TickSettle, TickAddJob, TickRaised
  <1> QED
    BY <1>1, <1>2, <1>3, <1>4, <1>5, <1>6 DEF Tick

LEMMA WriteTick ==
    ASSUME TypeOK, SealInv, NEW t \in Threads, Tick(t) PROVE SealedInv' /\ WriteInv'
  <1> USE DEF SealInv, SealedInv, WriteInv
  <1>1. \A c \in sealed : Doomed(c)'
    BY DoomedTick DEF TypeOK, DiskType
  <1>2. CASE ~TickReport(t)
    BY <1>1, <1>2, TickWrites DEF Cycles
  <1>3. CASE TickReport(t)
    <2> DEFINE c == <<inst[t], cyc[t]>>
    <2>1. /\ sealed' = sealed \cup {c} /\ plock' = plock /\ phase' = phase
          /\ gen' = gen /\ owner' = owner /\ plock[inst[t]] = 0
      BY <1>3 DEF TickReport, lockV, workV
    <2>2. Doomed(c)
      BY <1>3 DEF TickReport, StaleInv
    <2>3. SealedInv'
      BY <1>1, <2>1, <2>2 DEF Doomed
    <2>4. WriteInv'
      BY <2>1
    <2> QED
      BY <2>3, <2>4
  <1> QED
    BY <1>2, <1>3

LEMMA SealRevive ==
    ASSUME TypeOK, SealInv, NEW t \in Control, ReviveStep(t) PROVE SealInv'
  <1>1. /\ UNCHANGED <<gen, owner, plock, sealed, phase, cyc, res>>
        /\ \A u \in Threads : u # t => pc'[u] = pc[u] /\ inst'[u] = inst[u]
        /\ pc'[t] \notin {"submit", "wait", "revoke", "force", "replace", "mark", "report"}
    <2> USE DEF TypeOK, PcType, TickType, Threads, Go, tickV, lockV, workV, diskV
    <2>1. CASE ReviveProbe(t)
      BY <2>1 DEF ReviveProbe
    <2>2. CASE ReviveForce(t)
      BY <2>2 DEF ReviveForce, ForceRelease
    <2>3. CASE ReviveReplace(t)
      BY <2>3 DEF ReviveReplace, ForceRelease
    <2>4. CASE ReviveClear(t)
      BY <2>4 DEF ReviveClear
    <2>5. CASE ReviveRelease(t)
      BY <2>5 DEF ReviveRelease, ForceRelease
    <2>6. CASE ReviveStop(t)
      BY <2>6 DEF ReviveStop
    <2>7. CASE ReviveCancel(t)
      BY <2>7 DEF ReviveCancel
    <2>8. CASE ReviveStart(t)
      BY <2>8 DEF ReviveStart
    <2>9. CASE ReviveJob(t)
      BY <2>9 DEF ReviveJob
    <2>10. CASE ReviveEnsure(t)
      BY <2>10 DEF ReviveEnsure
    <2> QED
      BY <2>1, <2>2, <2>3, <2>4, <2>5, <2>6, <2>7, <2>8, <2>9, <2>10 DEF ReviveStep
  <1> QED
    BY <1>1 DEF SealInv, StaleInv, SealedInv, WriteInv, Doomed

LEMMA SealWork ==
    ASSUME TypeOK, SealInv, NEW c \in Cycles, Work(c) PROVE SealInv'
  <1>1. UNCHANGED <<pc, cyc, res, inst, gen, owner, sealed>>
    BY DEF Work, WorkStart, WorkEnter, WorkBody, WorkSkip, WorkPersist, WorkWrite,
           WorkCheck, WorkUnlock, tickV, lockV, diskV
  <1>2. StaleInv' /\ SealedInv'
    BY <1>1 DEF SealInv, StaleInv, SealedInv, Doomed
  <1> USE DEF TypeOK, WorkType, DiskType, SealInv, WriteInv, At, diskV
  <1>3. CASE WorkPersist(c)
    <2>1. c \in Insts \X Gens /\ plock[c[1]] = 0 /\ c \notin sealed
      BY <1>3 DEF WorkPersist, Owns, Cycles, SealedInv, Doomed
    <2>2. /\ plock' = [plock EXCEPT ![c[1]] = c[2]]
          /\ phase' = [phase EXCEPT ![c] = "write"]
      BY <1>3 DEF WorkPersist
    <2>3. ASSUME NEW i \in Insts, NEW g \in Gens \ {0}, phase'[<<i, g>>] = "write"
          PROVE  <<i, g>> \notin sealed' /\ plock'[i] = g
      <3>1. CASE <<i, g>> = c
        BY <1>1, <2>1, <2>2, <3>1
      <3>2. CASE <<i, g>> # c
        <4>1. phase[<<i, g>>] = "write"
          BY <2>2, <2>3, <3>2 DEF Cycles
        <4>2. i # c[1]
          BY <2>1, <4>1
        <4> QED
          BY <1>1, <2>2, <4>1, <4>2
      <3> QED
        BY <3>1, <3>2
    <2> QED
      BY <1>2, <2>3
  <1>4. CASE WorkWrite(c)
    <2>1. c \in Insts \X Gens /\ phase[c] = "write" /\ c = <<c[1], c[2]>>
      BY <1>4 DEF WorkWrite, Cycles
    <2>2. /\ plock' = [plock EXCEPT ![c[1]] = 0]
          /\ \A d \in Cycles : phase'[d] = "write" => phase[d] = "write" /\ d # c
      BY <1>4 DEF WorkWrite, Advance
    <2>3. ASSUME NEW i \in Insts, NEW g \in Gens \ {0}, phase'[<<i, g>>] = "write"
          PROVE  <<i, g>> \notin sealed' /\ plock'[i] = g
      <3>1. phase[<<i, g>>] = "write" /\ <<i, g>> # c
        BY <2>2, <2>3 DEF Cycles
      <3>2. i # c[1]
        BY <2>1, <3>1, c[1] \in Insts, c[2] \in Gens \ {0} DEF Cycles
      <3> QED
        BY <1>1, <2>2, <3>1, <3>2
    <2> QED
      BY <1>2, <2>3
  <1>5. CASE ~WorkPersist(c) /\ ~WorkWrite(c)
    <2>1. plock' = plock /\ \A d \in Cycles : phase'[d] = "write" => phase[d] = "write"
      BY <1>5 DEF Work, WorkStart, WorkEnter, WorkBody, WorkSkip, Advance, WorkCheck,
                  WorkUnlock
    <2> QED
      BY <1>1, <1>2, <2>1 DEF Cycles
  <1> QED
    BY <1>3, <1>4, <1>5

LEMMA SealOther ==
    ASSUME TypeOK, SealInv,
           \/ \E t \in Exec, d \in Ids : FireJob(t, d)
           \/ \E t \in Control : RunOnce(t) \/ Revive(t)
           \/ (\E d \in Ids : DropJob(d)) \/ OtherEnter \/ OtherLeave \/ Age
    PROVE  SealInv'
  <1> USE DEF TypeOK, PcType, TickType, SealInv, StaleInv, SealedInv, WriteInv,
              Doomed, Threads, Go, tickV, lockV, workV, diskV
  <1>1. CASE \E t \in Exec, d \in Ids : FireJob(t, d)
    BY <1>1 DEF FireJob, Begin
  <1>2. CASE \E t \in Control : RunOnce(t)
    BY <1>2 DEF RunOnce, Begin
  <1>3. CASE \E t \in Control : Revive(t)
    BY <1>3 DEF Revive
  <1>4. CASE (\E d \in Ids : DropJob(d)) \/ Age
    BY <1>4 DEF DropJob, Age
  <1>5. CASE OtherEnter \/ OtherLeave
    BY <1>5 DEF OtherEnter, OtherLeave
  <1> QED
    BY <1>1, <1>2, <1>3, <1>4, <1>5

LEMMA SealNext == TypeOK /\ SealInv /\ [Next]_vars => SealInv'
  <1> SUFFICES ASSUME TypeOK, SealInv, [Next]_vars PROVE SealInv'
    OBVIOUS
  <1>1. CASE \E t \in Threads : Tick(t)
    BY <1>1, StaleTick, WriteTick DEF SealInv
  <1>2. CASE \E t \in Control : ReviveStep(t)
    BY <1>2, SealRevive
  <1>3. CASE \E c \in Cycles : Work(c)
    BY <1>3, SealWork
  <1>4. CASE UNCHANGED vars
    BY <1>4 DEF SealInv, StaleInv, SealedInv, WriteInv, Doomed, vars, tickV, lockV,
                workV, diskV
  <1> QED
    BY <1>1, <1>2, <1>3, <1>4, SealOther DEF Next

\* The steps that change last_cycle: skips, the timeout, and a worker's write.
LEMMA SummaryStep ==
    ASSUME TypeOK, SealInv, [Next]_vars, lastCycle' # lastCycle,
           lastCycle'.kind # "timeout"
    PROVE  lastCycle'.by \notin sealed
  <1>1. CASE \E t \in Threads : Tick(t)
    <2> PICK t \in Threads : Tick(t)
      BY <1>1
    <2>1. CASE TickBusy(t) \/ TickGate(t)
      BY <2>1 DEF TickBusy, TickGate, Summarise, NoCycle, SealInv, SealedInv, Doomed
    <2>2. CASE TickReport(t)
      BY <2>2 DEF TickReport, Summarise
    <2> QED
      BY <2>1, <2>2 DEF Tick, TickEnter, TickClaim, TickSubmit, TickResult, TickTimeout,
         TickRevoke, TickForce, TickReplace, ForceRelease, TickMark, TickClear, TickLeave,
         TickSettle, TickAddJob, TickRaised, diskV
  <1>2. CASE \E c \in Cycles : Work(c)
    <2> PICK c \in Cycles : Work(c)
      BY <1>2
    <2>1. WorkWrite(c)
      BY DEF Work, WorkStart, WorkEnter, WorkBody, WorkSkip, WorkPersist, WorkCheck,
             WorkUnlock, diskV
    <2>2. lastCycle'.by = c /\ phase[c] = "write"
      BY <2>1 DEF WorkWrite, Summarise
    <2> QED
      BY <2>2 DEF Cycles, SealInv, WriteInv
  <1>3. CASE \E t \in Control : ReviveStep(t)
    BY <1>3 DEF ReviveStep, ReviveProbe, ReviveForce, ReviveReplace, ReviveClear,
       ReviveRelease, ForceRelease, ReviveStop, ReviveCancel, ReviveStart, ReviveJob,
       ReviveEnsure, diskV
  <1>4. CASE \/ \E t \in Exec, d \in Ids : FireJob(t, d)
             \/ \E t \in Control : RunOnce(t) \/ Revive(t)
             \/ (\E d \in Ids : DropJob(d)) \/ OtherEnter \/ OtherLeave \/ Age
    BY <1>4 DEF FireJob, RunOnce, Begin, Revive, DropJob, OtherEnter,
       OtherLeave, Age, diskV
  <1>5. CASE UNCHANGED vars
    BY <1>5 DEF vars, diskV
  <1> QED
    BY <1>1, <1>2, <1>3, <1>4, <1>5 DEF Next

\* The summary of a timeout stays until another cycle, or a skip, writes: the
\* orphan it was written about never does, whatever it still persists.
THEOREM NoStaleSummaryAlways == Spec => NoStaleSummary
  <1>1. TypeOK /\ SealInv /\ [Next]_vars => (TypeOK /\ SealInv)'
    BY TypeNext, SealNext
  <1>2. TypeOK /\ SealInv /\ [Next]_vars =>
            [lastCycle' # lastCycle /\ lastCycle'.kind # "timeout"
                => lastCycle'.by \notin sealed]_vars
    BY SummaryStep
  <1> QED
    BY <1>1, <1>2, TypeInit, SealInit, PTL DEF Spec, NoStaleSummary

(***************************************************************************)
(* The tick uses the heavy-job slot as HeavyJobGate says.                  *)
(***************************************************************************)
\* A thread stays on its side of the slot.
SameSide == \A u \in Threads : pc'[u] \in InSlot <=> pc[u] \in InSlot

LEMMA SameInside ==
    ASSUME SameSide, slot' = slot, other' = other PROVE UNCHANGED <<slot, Inside>>
  BY DEF SameSide, Inside

LEMMA GateTick ==
    ASSUME TypeOK, WorkerInv, NEW t \in Threads, Tick(t)
    PROVE  [Gate!GateNext]_<<slot, Inside>>
  <1> USE DEF TypeOK, PcType, Go, gateV
  <1>1. CASE TickEnter(t)
    <2>1. CASE slot = NoOne
      <3>1. slot' = t /\ other' = other /\ pc' = [pc EXCEPT ![t] = "gate"]
        BY <1>1, <2>1 DEF TickEnter
      <3>2. Inside' = Inside \cup {t}
        BY <3>1 DEF Inside, InSlot
      <3> QED
        BY <2>1, <3>1, <3>2 DEF Gate!GateNext, Gate!Acquire
    <2>2. CASE slot # NoOne
      <3>1. SameSide /\ slot' = slot /\ other' = other
        BY <1>1, <2>2 DEF TickEnter, SameSide, InSlot
      <3> QED
        BY <3>1, SameInside
    <2> QED
      BY <2>1, <2>2
  <1>2. CASE TickLeave(t)
    <2>1. /\ pc[t] = "leave" /\ slot' = NoOne /\ other' = other
          /\ pc' \in {[pc EXCEPT ![t] = "raised"], [pc EXCEPT ![t] = "settle"]}
      BY <1>2 DEF TickLeave
    <2>2. slot = t /\ t \in Inside
      BY <2>1 DEF WorkerInv, SlotInv, InSlot, Inside
    <2>3. Inside' = Inside \ {t}
      BY <2>1, ThreadsAssumption DEF Inside, InSlot, Threads
    <2> QED
      BY <2>1, <2>2, <2>3 DEF Gate!GateNext, Gate!Release
  <1>3. CASE ~TickEnter(t) /\ ~TickLeave(t)
    <2> USE DEF SameSide, InSlot
    <2>1. CASE TickBusy(t)
      BY <2>1, SameInside DEF TickBusy
    <2>2. CASE TickGate(t)
      BY <2>2, SameInside DEF TickGate
    <2>3. CASE TickClaim(t)
      BY <2>3, SameInside DEF TickClaim
    <2>4. CASE TickSubmit(t)
      BY <2>4, SameInside DEF TickSubmit
    <2>5. CASE TickResult(t)
      BY <2>5, SameInside DEF TickResult
    <2>6. CASE TickTimeout(t)
      BY <2>6, SameInside DEF TickTimeout
    <2>7. CASE TickRevoke(t)
      BY <2>7, SameInside DEF TickRevoke
    <2>8. CASE TickForce(t)
      BY <2>8, SameInside DEF TickForce, ForceRelease
    <2>9. CASE TickReplace(t)
      BY <2>9, SameInside DEF TickReplace, ForceRelease
    <2>10. CASE TickMark(t)
      BY <2>10, SameInside DEF TickMark
    <2>11. CASE TickReport(t)
      BY <2>11, SameInside DEF TickReport
    <2>12. CASE TickClear(t)
      BY <2>12, SameInside DEF TickClear
    <2>13. CASE TickSettle(t)
      BY <2>13, SameInside DEF TickSettle, Return, Home
    <2>14. CASE TickAddJob(t)
      BY <2>14, SameInside DEF TickAddJob, Return, Home
    <2>15. CASE TickRaised(t)
      BY <2>15, SameInside DEF TickRaised, Return, Home
    <2> QED
      BY <1>3, <2>1, <2>2, <2>3, <2>4, <2>5, <2>6, <2>7, <2>8, <2>9, <2>10, <2>11, <2>12, <2>13, <2>14, <2>15 DEF Tick
  <1> QED
    BY <1>1, <1>2, <1>3

LEMMA GateOther ==
    ASSUME TypeOK, WorkerInv, Next, \A t \in Threads : ~Tick(t)
    PROVE  [Gate!GateNext]_<<slot, Inside>>
  <1> USE DEF TypeOK, PcType, Go, gateV
  <1>1. CASE OtherEnter
    <2>1. slot = NoOne /\ slot' = Other /\ other' /\ pc' = pc
      BY <1>1 DEF OtherEnter
    <2>2. Inside' = Inside \cup {Other}
      BY <2>1 DEF Inside
    <2> QED
      BY <2>1, <2>2 DEF Gate!GateNext, Gate!Acquire
  <1>2. CASE OtherLeave
    <2>1. other /\ slot' = NoOne /\ ~other' /\ pc' = pc
      BY <1>2 DEF OtherLeave
    <2>2. Other \in Inside /\ Inside' = Inside \ {Other}
      BY <2>1, ThreadsAssumption DEF Inside, Threads
    <2> QED
      BY <2>1, <2>2 DEF Gate!GateNext, Gate!Release
  <1>3. ASSUME NEW t \in Control, ReviveStep(t)
        PROVE  UNCHANGED <<slot, Inside>>
    <2> USE SameInside DEF SameSide, InSlot, Threads
    <2>1. CASE ReviveProbe(t)
      BY <2>1 DEF ReviveProbe
    <2>2. CASE ReviveForce(t)
      BY <2>2 DEF ReviveForce, ForceRelease
    <2>3. CASE ReviveReplace(t)
      BY <2>3 DEF ReviveReplace, ForceRelease
    <2>4. CASE ReviveClear(t)
      BY <2>4 DEF ReviveClear
    <2>5. CASE ReviveRelease(t)
      BY <2>5 DEF ReviveRelease, ForceRelease
    <2>6. CASE ReviveStop(t)
      BY <2>6 DEF ReviveStop
    <2>7. CASE ReviveCancel(t)
      BY <2>7 DEF ReviveCancel
    <2>8. CASE ReviveStart(t)
      BY <2>8 DEF ReviveStart
    <2>9. CASE ReviveJob(t)
      BY <2>9 DEF ReviveJob
    <2>10. CASE ReviveEnsure(t)
      BY <2>10 DEF ReviveEnsure
    <2> QED
      BY <1>3, <2>1, <2>2, <2>3, <2>4, <2>5, <2>6, <2>7, <2>8, <2>9, <2>10 DEF ReviveStep
  <1>4. CASE \/ \E t \in Exec, d \in Ids : FireJob(t, d)
             \/ \E t \in Control : RunOnce(t) \/ Revive(t)
             \/ (\E d \in Ids : DropJob(d)) \/ Age
    <2>1. SameSide /\ slot' = slot /\ other' = other
      BY <1>4 DEF FireJob, RunOnce, Begin, Revive, DropJob, Age, SameSide,
         InSlot, Threads
    <2> QED
      BY <2>1, SameInside
  <1>5. CASE \E c \in Cycles : Work(c)
    <2>1. SameSide /\ slot' = slot /\ other' = other
      BY <1>5 DEF Work, WorkStart, WorkEnter, WorkBody, WorkSkip, WorkPersist,
         WorkWrite, WorkCheck, WorkUnlock, SameSide
    <2> QED
      BY <2>1, SameInside
  <1> QED
    BY <1>1, <1>2, <1>3, <1>4, <1>5 DEF Next

\* The ticks of every scheduler, with the pump and the snapshot producer beside
\* them, implement the slot: a thread enters it when it is free, clears it only
\* when it is inside, and leaves it on every path, the exception included.
THEOREM GateImplemented == Spec => GateRefined
  <1>1. Init => Gate!GateInit
    BY DEF Init, InitState, StartScheduled, StartImmediate, Inside, InSlot, Gate!GateInit
  <1>2. TypeOK /\ WorkerInv /\ [Next]_vars => [Gate!GateNext]_<<slot, Inside>>
    <2> SUFFICES ASSUME TypeOK, WorkerInv, [Next]_vars
                 PROVE  [Gate!GateNext]_<<slot, Inside>>
      OBVIOUS
    <2>1. CASE UNCHANGED vars
      BY <2>1 DEF vars, gateV, Inside
    <2>2. CASE \E t \in Threads : Tick(t)
      BY <2>2, GateTick
    <2>3. CASE Next /\ \A t \in Threads : ~Tick(t)
      BY <2>3, GateOther
    <2> QED
      BY <2>1, <2>2, <2>3
  <1> QED
    BY <1>1, <1>2, WorkerAlways, PTL DEF Spec, GateRefined, Gate!GateSpec, Gate!gateVars

(***************************************************************************)
(* One scheduler re-arms.  Only the singleton is active; a revive clears   *)
(* the singleton after it has stopped it, and only a control thread        *)
(* revives, of which there is one.                                         *)
(***************************************************************************)
ReviveLabels == {"probe", "rforce", "rreplace", "rclear", "rrelease", "rstop",
                 "rcancel", "rstart"}

ActiveInv ==
    /\ \A i \in Insts : active[i] => i = cur
    /\ \A t \in Threads : pc[t] \in ReviveLabels => t \in Control
    /\ \A t \in Threads : pc[t] \in {"rcancel", "rstart"} => \A i \in Insts : ~active[i]

LEMMA ActiveInit == Init => ActiveInv
  <1> SUFFICES ASSUME Init PROVE ActiveInv
    OBVIOUS
  <1>1. \A i \in Insts : active[i] => i = cur
    BY Zenon DEF Init, InitState
  <1>2. \A t \in Threads : pc[t] \in {"idle", "enter"}
    BY DEF Init, StartScheduled, StartImmediate
  <1> QED
    BY <1>1, <1>2 DEF ActiveInv, ReviveLabels

LEMMA ActiveTick ==
    ASSUME TypeOK, ActiveInv, NEW t \in Threads, Tick(t) PROVE ActiveInv'
  <1> USE DEF TypeOK, PcType, ActiveInv, ReviveLabels, Go, schedV, jobV, retryV
  <1>1. CASE TickEnter(t)
    BY <1>1 DEF TickEnter
  <1>2. CASE TickBusy(t)
    BY <1>2 DEF TickBusy
  <1>3. CASE TickGate(t)
    BY <1>3 DEF TickGate, InflightLive
  <1>4. CASE TickClaim(t)
    BY <1>4 DEF TickClaim
  <1>5. CASE TickSubmit(t)
    BY <1>5 DEF TickSubmit
  <1>6. CASE TickResult(t)
    BY <1>6 DEF TickResult
  <1>7. CASE TickTimeout(t)
    BY <1>7 DEF TickTimeout
  <1>8. CASE TickRevoke(t)
    BY <1>8 DEF TickRevoke
  <1>9. CASE TickForce(t)
    BY <1>9 DEF TickForce, ForceRelease
  <1>10. CASE TickReplace(t)
    BY <1>10 DEF TickReplace, ForceRelease
  <1>11. CASE TickMark(t)
    BY <1>11 DEF TickMark
  <1>12. CASE TickReport(t)
    BY <1>12 DEF TickReport
  <1>13. CASE TickClear(t)
    BY <1>13 DEF TickClear, InflightLive
  <1>14. CASE TickLeave(t)
    BY <1>14 DEF TickLeave
  <1>15. CASE TickSettle(t)
    BY <1>15 DEF TickSettle, Return, Home
  <1>16. CASE TickAddJob(t)
    BY <1>16 DEF TickAddJob, Return, Home
  <1>17. CASE TickRaised(t)
    BY <1>17 DEF TickRaised, Return, Home
  <1> QED
    BY <1>1, <1>2, <1>3, <1>4, <1>5, <1>6, <1>7, <1>8, <1>9, <1>10, <1>11, <1>12, <1>13, <1>14, <1>15, <1>16, <1>17 DEF Tick

LEMMA ActiveRevive ==
    ASSUME TypeOK, ActiveInv, NEW t \in Control, ReviveStep(t) PROVE ActiveInv'
  <1> USE DEF TypeOK, PcType, SchedType, JobType, Threads, ActiveInv, ReviveLabels, Go, schedV, jobV, retryV
  <1>1. CASE ReviveProbe(t)
    BY <1>1 DEF ReviveProbe
  <1>2. CASE ReviveForce(t)
    BY <1>2 DEF ReviveForce, ForceRelease
  <1>3. CASE ReviveReplace(t)
    BY <1>3 DEF ReviveReplace, ForceRelease
  <1>4. CASE ReviveClear(t)
    BY <1>4 DEF ReviveClear, InflightLive
  <1>5. CASE ReviveRelease(t)
    BY <1>5 DEF ReviveRelease, ForceRelease
  <1>6. CASE ReviveStop(t)
    BY <1>6, ControlAssumption DEF ReviveStop
  <1>7. CASE ReviveCancel(t)
    BY <1>7, ControlAssumption DEF ReviveCancel
  <1>8. CASE ReviveStart(t)
    BY <1>8, ControlAssumption DEF ReviveStart
  <1>9. CASE ReviveJob(t)
    BY <1>9 DEF ReviveJob
  <1>10. CASE ReviveEnsure(t)
    BY <1>10 DEF ReviveEnsure
  <1> QED
    BY <1>1, <1>2, <1>3, <1>4, <1>5, <1>6, <1>7, <1>8, <1>9, <1>10 DEF ReviveStep

LEMMA ActiveOther ==
    ASSUME TypeOK, ActiveInv,
           \/ \E t \in Exec, d \in Ids : FireJob(t, d)
           \/ \E t \in Control : RunOnce(t) \/ Revive(t)
           \/ (\E d \in Ids : DropJob(d)) \/ OtherEnter \/ OtherLeave \/ Age
    PROVE  ActiveInv'
  <1> USE DEF TypeOK, PcType, ActiveInv, ReviveLabels, Threads, Go, schedV, jobV, retryV
  <1>1. CASE \E t \in Exec, d \in Ids : FireJob(t, d)
    BY <1>1 DEF FireJob, Begin
  <1>2. CASE \E t \in Control : RunOnce(t)
    BY <1>2 DEF RunOnce, Begin
  <1>3. CASE \E t \in Control : Revive(t)
    BY <1>3 DEF Revive
  <1>4. CASE (\E d \in Ids : DropJob(d)) \/ Age
    BY <1>4 DEF DropJob, Age
  <1>5. CASE OtherEnter \/ OtherLeave
    BY <1>5 DEF OtherEnter, OtherLeave
  <1> QED
    BY <1>1, <1>2, <1>3, <1>4, <1>5

\* The cycle threads touch neither the singleton nor _active.
LEMMA WorkFrame ==
    ASSUME NEW c \in Cycles, Work(c) PROVE UNCHANGED <<pc, tickV, schedV, jobV>>
  BY DEF Work, WorkStart, WorkEnter, WorkBody, WorkSkip, WorkPersist, WorkWrite,
         WorkCheck, WorkUnlock

LEMMA ActiveNext == TypeOK /\ ActiveInv /\ [Next]_vars => ActiveInv'
  <1> SUFFICES ASSUME TypeOK, ActiveInv, [Next]_vars PROVE ActiveInv'
    OBVIOUS
  <1>1. CASE \E t \in Threads : Tick(t)
    BY <1>1, ActiveTick
  <1>2. CASE \E t \in Control : ReviveStep(t)
    BY <1>2, ActiveRevive
  <1>3. CASE \E c \in Cycles : Work(c)
    BY <1>3, WorkFrame DEF ActiveInv, schedV, jobV, retryV
  <1>4. CASE UNCHANGED vars
    BY <1>4 DEF ActiveInv, vars, schedV, jobV, retryV
  <1> QED
    BY <1>1, <1>2, <1>3, <1>4, ActiveOther DEF Next

\* Whatever a revive meets, never two schedulers re-arm JOB_ID.
THEOREM OneActiveAlways == Spec => []OneActive
  <1>1. TypeOK /\ ActiveInv /\ [Next]_vars => (TypeOK /\ ActiveInv)'
    BY TypeNext, ActiveNext
  <1>2. ActiveInv => OneActive
    BY DEF ActiveInv, OneActive
  <1> QED
    BY <1>1, <1>2, TypeInit, ActiveInit, PTL DEF Spec

\* Two cycles that anyone waits for never run at once: who waits is in the slot.
THEOREM OverlapIsOrphanAlways == Spec => []OverlapIsOrphan
  <1>1. WorkerInv => OverlapIsOrphan
    BY DEF WorkerInv, SlotInv, InSlot, OverlapIsOrphan, Awaited
  <1> QED
    BY <1>1, WorkerAlways, PTL

(***************************************************************************)
(* The loop is never silently dead, where there is no revive (one          *)
(* instance) and no misfire, unless _guarded gives it up.  A run that      *)
(* APScheduler started ends by adding the job, by a retry or by giving up, *)
(* and an id is dropped only while an earlier run of it goes on.           *)
(***************************************************************************)
NoRevive == MaxInst = 1 /\ ~Misfires

OneInstance ==
    /\ newest = 1
    /\ \A t \in Threads : pc[t] \notin ReviveLabels \cup {"rjob", "ensure"} /\ src[t] # "revive"

WillArm(t) == pc[t] = "addjob" \/ (pc[t] # "idle" /\ src[t] = "scheduled")

ArmedInv ==
    /\ OneInstance
    /\ active[1] /\ nextRun[1] /\ 1 \notin gaveUp =>
           Pending(1) \/ \E t \in Threads : WillArm(t)

LEMMA ArmedInit == Init => ArmedInv
  <1> SUFFICES ASSUME Init PROVE ArmedInv
    OBVIOUS
  <1>1. newest = 1 /\ \A t \in Threads : pc[t] \in {"idle", "enter"} /\ src[t] = "direct"
    BY DEF Init, InitState, StartScheduled, StartImmediate
  <1>2. OneInstance
    BY <1>1 DEF OneInstance, ReviveLabels
  <1>3. nextRun[1] => Pending(1)
    <2>1. CASE StartScheduled
      <3>1. JobId \in Ids /\ jobs[JobId] = 1
        BY <2>1, BoundsAssumption DEF StartScheduled, Ids, JobId
      <3> QED
        BY <3>1 DEF Pending
    <2>2. CASE StartImmediate
      BY <2>2, Constants DEF StartImmediate
    <2> QED
      BY <2>1, <2>2 DEF Init
  <1> QED
    BY <1>2, <1>3 DEF ArmedInv

\* A tick that goes on leaves what keeps the loop alive as it was.
LEMMA ArmedFrame ==
    ASSUME TypeOK, ArmedInv, NEW t \in Threads,
           UNCHANGED <<active, nextRun, newest, jobs, gaveUp, src>>,
           \A u \in Threads : u # t => pc'[u] = pc[u],
           pc[t] \notin {"idle", "addjob"},
           pc'[t] \notin ReviveLabels \cup {"idle", "rjob", "ensure"}
    PROVE  ArmedInv'
  <1>1. OneInstance'
    BY DEF ArmedInv, OneInstance
  <1>2. Pending(1)' <=> Pending(1)
    BY DEF Pending
  <1>3. \A u \in Threads : WillArm(u) => WillArm(u)'
    BY DEF WillArm
  <1> QED
    BY <1>1, <1>2, <1>3 DEF ArmedInv

\* A tick that returns leaves a job of the one instance, or has given it up.
LEMMA ArmedReturn ==
    ASSUME TypeOK, NoRevive, ArmedInv, NEW t \in Threads, Return(t, "idle"),
           newest' = newest, active' = active, nextRun' = nextRun,
           \/ Pending(1)' \/ 1 \in gaveUp'
           \/ ~WillArm(t) /\ jobs' = jobs /\ gaveUp' = gaveUp
    PROVE  ArmedInv'
  <1> USE DEF TypeOK, PcType, TickType
  <1>1. pc'[t] = "idle" /\ src'[t] = "direct"
        /\ \A u \in Threads : u # t => pc'[u] = pc[u] /\ src'[u] = src[u]
    BY DEF Return, Go
  <1>2. OneInstance'
    BY <1>1 DEF ArmedInv, OneInstance, ReviveLabels
  <1>3. \A u \in Threads : u # t => (WillArm(u)' <=> WillArm(u))
    BY <1>1 DEF WillArm
  <1>4. CASE Pending(1)' \/ 1 \in gaveUp'
    BY <1>2, <1>4 DEF ArmedInv
  <1>5. CASE ~WillArm(t) /\ jobs' = jobs /\ gaveUp' = gaveUp
    <2>1. Pending(1)' <=> Pending(1)
      BY <1>5 DEF Pending
    <2> QED
      BY <1>2, <1>3, <1>5, <2>1 DEF ArmedInv
  <1> QED
    BY <1>4, <1>5

LEMMA ArmedTick ==
    ASSUME TypeOK, NoRevive, ArmedInv, NEW t \in Threads, Tick(t) PROVE ArmedInv'
  <1> USE DEF TypeOK, PcType
  <1>1. CASE \/ TickEnter(t) \/ TickBusy(t) \/ TickGate(t) \/ TickClaim(t) \/ TickSubmit(t)
             \/ TickResult(t) \/ TickTimeout(t) \/ TickRevoke(t) \/ TickForce(t)
             \/ TickReplace(t) \/ TickMark(t) \/ TickReport(t) \/ TickClear(t) \/ TickLeave(t)
    <2>1. /\ UNCHANGED <<active, nextRun, newest, jobs, gaveUp, src>>
          /\ \A u \in Threads : u # t => pc'[u] = pc[u]
          /\ pc[t] \notin {"idle", "addjob"} /\ pc'[t] \in InSlot \cup {"busy", "settle", "raised"}
      <3> USE DEF Go, InSlot, tickV, schedV, jobV, retryV
      <3>1. CASE TickEnter(t) \/ TickBusy(t)
        BY <3>1 DEF TickEnter, TickBusy
      <3>2. CASE TickGate(t)
        BY <3>2 DEF TickGate
      <3>3. CASE TickClaim(t) \/ TickSubmit(t) \/ TickResult(t)
        BY <3>3 DEF TickClaim, TickSubmit, TickResult
      <3>4. CASE TickTimeout(t) \/ TickRevoke(t)
        BY <3>4 DEF TickTimeout, TickRevoke
      <3>5. CASE TickForce(t) \/ TickReplace(t)
        BY <3>5 DEF TickForce, TickReplace, ForceRelease
      <3>6. CASE TickMark(t) \/ TickReport(t)
        BY <3>6 DEF TickMark, TickReport
      <3>7. CASE TickClear(t) \/ TickLeave(t)
        BY <3>7 DEF TickClear, TickLeave
      <3> QED
        BY <1>1, <3>1, <3>2, <3>3, <3>4, <3>5, <3>6, <3>7
    <2>2. pc'[t] \notin ReviveLabels \cup {"idle", "rjob", "ensure"}
      BY <2>1 DEF InSlot, ReviveLabels
    <2> HIDE DEF TypeOK
    <2> QED
      BY <2>1, <2>2, ArmedFrame
  <1>2. inst[t] = 1 /\ Home(t) = "idle" /\ id[t] \in 0..MaxRetry - 1
    BY DEF TickType, NoRevive, Insts, ArmedInv, OneInstance, Home
  <1>3. CASE TickSettle(t)
    <2>1. CASE active[1]
      <3>1. pc'[t] = "addjob" /\ src' = src /\ newest' = newest
            /\ \A u \in Threads : u # t => pc'[u] = pc[u]
        BY <1>2, <1>3, <2>1 DEF TickSettle, Go, tickV
      <3>2. OneInstance'
        BY <3>1 DEF ArmedInv, OneInstance, ReviveLabels
      <3> QED
        BY <3>1, <3>2 DEF ArmedInv, WillArm
    <2>2. CASE ~active[1]
      <3>1. Return(t, "idle") /\ active' = active /\ newest' = newest
        BY <1>2, <1>3, <2>2 DEF TickSettle
      <3>2. OneInstance'
        BY <3>1 DEF Return, Go, TickType, ArmedInv, OneInstance, ReviveLabels
      <3> QED
        BY <2>2, <3>1, <3>2 DEF ArmedInv
    <2> QED
      BY <2>1, <2>2
  <1>4. CASE TickAddJob(t)
    <2>1. JobId \in Ids /\ jobs \in [Ids -> Insts \cup {0}]
      BY BoundsAssumption DEF Ids, JobId, JobType
    <2>2. jobs'[JobId] = 1
      BY <1>2, <1>4, <2>1 DEF TickAddJob, Arm
    <2>3. Pending(1)'
      BY <2>1, <2>2 DEF Pending
    <2> QED
      BY <1>2, <1>4, <2>3, ArmedReturn DEF TickAddJob, schedV
  <1>5. CASE TickRaised(t)
    <2> USE <1>5
    <2>1. CASE src[t] = "scheduled" /\ retryCounts[id[t]] < RetryCap /\ Retry(t)
      <3>1. id[t] + 1 \in Ids /\ jobs \in [Ids -> {0, 1}]
        BY <1>2, BoundsAssumption DEF Ids, JobType, NoRevive, Insts
      <3>2. jobs'[id[t] + 1] = 1
        BY <1>2, <2>1, <3>1 DEF Retry
      <3>3. Pending(1)'
        BY <3>1, <3>2 DEF Pending
      <3> QED
        BY <3>3, ArmedReturn DEF TickRaised, schedV
    <2>2. CASE GiveUp(t)
      BY <1>2, <2>2, ArmedReturn DEF TickRaised, GiveUp, schedV
    <2>3. CASE src[t] # "scheduled" /\ UNCHANGED <<jobs, retryV>>
      <3>1. ~WillArm(t)
        BY <2>3 DEF WillArm, TickRaised
      <3> QED
        BY <2>3, <3>1, ArmedReturn DEF TickRaised, schedV, retryV
    <2> QED
      BY <2>1, <2>2, <2>3 DEF TickRaised
  <1> QED
    BY <1>1, <1>3, <1>4, <1>5 DEF Tick

\* A run that APScheduler starts takes the place of the job it was.
LEMMA ArmedBegin ==
    ASSUME TypeOK, ArmedInv, newest' = newest, gaveUp' = gaveUp,
           NEW t \in Threads, NEW i \in Insts, NEW d \in Ids,
           NEW k \in {"scheduled", "direct"}, Begin(t, i, k, d),
           k = "scheduled" \/ jobs' = jobs
    PROVE  ArmedInv'
  <1>1. /\ pc[t] = "idle" /\ pc'[t] = "enter" /\ src'[t] = k
        /\ \A u \in Threads : u # t => pc'[u] = pc[u] /\ src'[u] = src[u]
        /\ active' = active /\ nextRun' = nextRun
    BY DEF Begin, Go, TypeOK, PcType, TickType, schedV
  <1>2. OneInstance'
    BY <1>1 DEF ArmedInv, OneInstance, ReviveLabels
  <1>3. \A u \in Threads : WillArm(u) => WillArm(u)'
    BY <1>1 DEF WillArm
  <1>4. k = "scheduled" => WillArm(t)'
    BY <1>1 DEF WillArm
  <1>5. jobs' = jobs => (Pending(1)' <=> Pending(1))
    BY DEF Pending
  <1> QED
    BY <1>1, <1>2, <1>3, <1>4, <1>5 DEF ArmedInv

LEMMA ArmedOther ==
    ASSUME TypeOK, NoRevive, ArmedInv,
           \/ \E t \in Exec, d \in Ids : FireJob(t, d)
           \/ \E t \in Control : RunOnce(t) \/ Revive(t) \/ ReviveStep(t)
           \/ (\E d \in Ids : DropJob(d)) \/ OtherEnter \/ OtherLeave \/ Age
    PROVE  ArmedInv'
  <1>1. CASE \E t \in Exec, d \in Ids : FireJob(t, d)
    <2> PICK t \in Exec, d \in Ids : FireJob(t, d)
      BY <1>1
    <2>1. t \in Threads /\ jobs[d] \in Insts
      BY DEF FireJob, Threads, TypeOK, JobType
    <2> QED
      BY <2>1, ArmedBegin DEF FireJob, retryV
  <1>2. CASE \E t \in Control : RunOnce(t)
    <2> PICK t \in Control : RunOnce(t)
      BY <1>2
    <2>1. t \in Threads /\ cur \in Insts /\ JobId \in Ids
      BY BoundsAssumption DEF RunOnce, Threads, TypeOK, JobType, Ids, JobId
    <2> QED
      BY <2>1, ArmedBegin DEF RunOnce, jobV, retryV
  <1>3. CASE \E t \in Control : Revive(t) \/ ReviveStep(t)
    <2> PICK t \in Control : Revive(t) \/ ReviveStep(t)
      BY <1>3
    <2>1. ~Revive(t)
      BY DEF Revive, NoRevive, ArmedInv, OneInstance
    <2>2. pc[t] \notin ReviveLabels \cup {"rjob", "ensure"}
      BY DEF ArmedInv, OneInstance, Threads
    <2> QED
      BY <2>1, <2>2 DEF ReviveLabels, ReviveStep, ReviveProbe, ReviveForce, ReviveReplace,
         ReviveClear, ReviveRelease, ForceRelease, ReviveStop, ReviveCancel, ReviveStart,
         ReviveJob, ReviveEnsure
  <1>4. CASE \E d \in Ids : DropJob(d)
    <2> PICK d \in Ids : DropJob(d)
      BY <1>4
    <2>1. UNCHANGED <<pc, src, active, nextRun, newest, gaveUp>>
      BY DEF DropJob, tickV, schedV, retryV
    <2>2. PICK t \in Exec : pc[t] # "idle" /\ src[t] = "scheduled"
      BY DEF DropJob, Running, NoRevive
    <2> QED
      BY <2>1, <2>2 DEF ArmedInv, OneInstance, WillArm, Threads
  <1>5. CASE OtherEnter \/ OtherLeave \/ Age
    BY <1>5 DEF OtherEnter, OtherLeave, Age, ArmedInv, OneInstance, WillArm, Pending, tickV,
       schedV, jobV, retryV
  <1> QED
    BY <1>1, <1>2, <1>3, <1>4, <1>5

LEMMA ArmedNext == TypeOK /\ NoRevive /\ ArmedInv /\ [Next]_vars => ArmedInv'
  <1> SUFFICES ASSUME TypeOK, NoRevive, ArmedInv, [Next]_vars PROVE ArmedInv'
    OBVIOUS
  <1>1. CASE \E t \in Threads : Tick(t)
    BY <1>1, ArmedTick
  <1>2. CASE \E c \in Cycles : Work(c)
    BY <1>2, WorkFrame DEF ArmedInv, OneInstance, WillArm, Pending, tickV, schedV, jobV, retryV
  <1>3. CASE UNCHANGED vars
    BY <1>3 DEF ArmedInv, OneInstance, WillArm, Pending, vars, tickV, schedV, jobV, retryV
  <1> QED
    BY <1>1, <1>2, <1>3, ArmedOther DEF Next

\* The self-rearming loop is never silently dead, for any threads and generations.
THEOREM ArmedHasJobAlways == NoRevive /\ Spec => []ArmedHasJob
  <1>1. TypeOK /\ NoRevive /\ ArmedInv => ArmedHasJob
    <2> SUFFICES ASSUME TypeOK, NoRevive, ArmedInv, cur # 0, active[cur], nextRun[cur]
                 PROVE  \/ Pending(cur) \/ cur \in gaveUp
                        \/ \E t \in Threads : pc[t] # "idle" /\ (inst[t] = cur \/ t \in Control)
      BY DEF ArmedHasJob
    <2>1. cur = 1 /\ \A t \in Threads : inst[t] = 1
      BY DEF TypeOK, JobType, TickType, NoRevive, Insts
    <2> QED
      BY <2>1 DEF ArmedInv, WillArm
  <1>2. NoRevive /\ TypeOK /\ ArmedInv /\ [Next]_vars => (TypeOK /\ ArmedInv)'
    BY TypeNext, ArmedNext
  <1>3. ASSUME NoRevive PROVE TypeOK /\ ArmedInv /\ [Next]_vars => (TypeOK /\ ArmedInv)'
    BY <1>2, <1>3
  <1>4. ASSUME NoRevive PROVE TypeOK /\ ArmedInv => ArmedHasJob
    BY <1>1, <1>4
  <1>5. ASSUME NoRevive PROVE Spec => []ArmedHasJob
    BY <1>3, <1>4, <1>5, TypeInit, ArmedInit, PTL DEF Spec
  <1> QED
    BY <1>5
=============================================================================
