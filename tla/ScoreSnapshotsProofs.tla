------------------------- MODULE ScoreSnapshotsProofs -------------------------
(***************************************************************************)
(* What holds of ScoreSnapshots for every number of generations and of     *)
(* ends of the process, and for every set of run ids: the properties its   *)
(* run checks, the refinement of SnapshotProducer among them.              *)
(***************************************************************************)
EXTENDS ScoreSnapshots, FiniteSetTheorems, TLAPS

(***************************************************************************)
(* The inductive invariant.                                                *)
(***************************************************************************)
\* Who works, works for a generation.
Acting == Tick \cup (Starting \ {"register_gen"}) \cup (Stopping \ {"unregister"})

WorksFor == \A t \in Threads : pc[t] \in Acting => me[t] # 0

ControlOK == pc \in [Threads -> Labels] /\ me \in [Threads -> 0..MaxGen] /\ WorksFor

TypeInv == TypeOK /\ ControlOK

\* The boot thread ticks once, when main has armed.
BootInv ==
    /\ \A t \in Threads : pc[t] = "golive_now" => t = "main"
    /\ pc["main"] \in {"register_gen", "arm", "schedule", "golive", "golive_now"}
         => pc["boot"] = "idle"

\* FlagHasOneOwner without a count: one holder, or a callback that waits, or no flag.
FlagInv ==
    /\ \A t \in Holders : active /\ late = 0
    /\ \A t, u \in Holders : t = u
    /\ active => late # 0 \/ Holders # {}
    /\ late # 0 => active
    /\ \A g \in Gens : mine[g] <=> late = g \/ \E t \in Holders : me[t] = g

\* A generation is registered once, and who gives one up works for one that is past.
GenInv ==
    /\ scheduler \in {0, lastRegistered} /\ lastRegistered <= made
    /\ \A g \in Gens : armed[g] => g <= made
    /\ job <= made /\ late <= made /\ \A t \in Threads : me[t] <= made
    /\ \A t \in Starters :
         /\ pc[t] \in {"schedule", "golive", "golive_now", "verify"} /\ scheduler = me[t]
              => armed[me[t]]
         /\ pc[t] \in {"undo", "drop", "drop_live", "cancel", "stop_live"}
              => scheduler # me[t]

\* The record is that of the generation registered last, which says "started" once
\* its start has got that far.
LifeInv ==
    /\ lastRegistered # 0 => mem[lastRegistered].ok = live.ok
    /\ \A g \in Gens : scheduler = g /\ armed[g] =>
         \/ live.life = "started" /\ mem[g].life = "started"
         \/ \E t \in Starters : pc[t] \in {"schedule", "golive", "golive_now"} /\ me[t] = g

\* Where the next job of the registered generation comes from.
JobInv ==
    /\ job # 0 => owner = job
    /\ \A t \in {"pool", "boot"} : pc[t] = "idle" => me[t] = 0
    /\ \A g \in Gens : scheduler = g /\ armed[g] =>
         \/ job = g \/ WillRearm(g) \/ lost
         \/ \E t \in Starters : pc[t] \in {"schedule", "golive_now"} /\ me[t] = g

\* A live build belongs to the holder, or to the callback; a run to the flag.
RunInv ==
    /\ future = "live" =>
         \/ late # 0
         \/ \E t \in Holders : pc[t] \in {"wait", "record", "summary", "finish", "register"}
    /\ \A t \in Holders : pc[t] = "begin" <=> run = 0
    /\ late # 0 => run # 0
    /\ ~active => run = 0

Inv == TypeInv /\ BootInv /\ FlagInv /\ GenInv /\ LifeInv /\ JobInv /\ RunInv

(***************************************************************************)
(* The operators the actions are made of.                                  *)
(***************************************************************************)

\* A record of the tracker with its life or its last success changed.
LEMMA RecordWith ==
    ASSUME NEW r \in Record, NEW l \in {"new", "started", "stopped"}, NEW b \in BOOLEAN
    PROVE  /\ [r EXCEPT !.life = l] \in Record
           /\ [r EXCEPT !.ok = @ \/ b] \in Record
           /\ [r EXCEPT !.life = l].ok = r.ok
           /\ [r EXCEPT !.life = l].life = l
           /\ [r EXCEPT !.ok = @ \/ b].life = r.life
           /\ r.ok => [r EXCEPT !.ok = @ \/ b].ok
  BY DEF Record

\* What is persisted is a record, on disk and in memory.
LEMMA PersistType ==
    ASSUME live \in Record, mem \in [Gens -> Record], NEW g \in Gens, NEW s \in BOOLEAN,
           NEW r \in Record, PersistLiveness(g, s, r)
    PROVE  live' \in Record /\ mem' \in [Gens -> Record]
  BY DEF PersistLiveness, liveV

\* The same of a result.
LEMMA ResultType ==
    ASSUME live \in Record, mem \in [Gens -> Record], NEW g \in Gens, NEW b \in BOOLEAN,
           RecordResult(g, b)
    PROVE  live' \in Record /\ mem' \in [Gens -> Record]
  BY RecordWith, PersistType DEF RecordResult

\* The three cases of a callback that is registered.
LEMMA RegisterCases ==
    ASSUME TypeOK, NEW t \in Tickers, RegisterCallback(t)
    PROVE  \/ future = "none" /\ ClearFlags(t) /\ Go(t, "force") /\ UNCHANGED late
           \/ future = "done" /\ Go(t, "c_live") /\ UNCHANGED <<flagV, run, out, late>>
           \/ future = "live" /\ late' = me[t] /\ Return(t) /\ UNCHANGED <<flagV, run, out>>
  <1>1. CASE future = "none"
    BY <1>1 DEF RegisterCallback
  <1>2. CASE future = "done"
    BY <1>2 DEF RegisterCallback
  <1>3. CASE future = "live"
    BY <1>3 DEF RegisterCallback
  <1> QED
    BY <1>1, <1>2, <1>3 DEF TypeOK

\* Where a tick goes from its first look.
LEMMA ProbeCases ==
    ASSUME NEW t \in Tickers, Probe(t)
    PROVE  /\ pc[t] = "probe"
           /\ \/ Go(t, "skip") \/ Go(t, "claim")
              \/ Scheduled(t) /\ Go(t, "rearm")
              \/ ~Scheduled(t) /\ Return(t)
  BY DEF Probe, Leave

\* The three ways a start can go on from the liveness record.
LEMMA StartCases ==
    ASSUME NEW t \in Starters, StartLiveness(t)
    PROVE  \/ ~OwnsRecord(me[t], TRUE) /\ Go(t, "undo")
           \/ OwnsRecord(me[t], TRUE) /\ pc[t] = "golive" /\ Go(t, "verify")
           \/ /\ OwnsRecord(me[t], TRUE) /\ pc[t] = "golive_now"
              /\ pc' = [pc EXCEPT ![t] = "verify", !["boot"] = "gate"]
              /\ me' = [me EXCEPT !["boot"] = me[t]]
  <1>1. CASE ~OwnsRecord(me[t], TRUE)
    BY <1>1 DEF StartLiveness
  <1>2. CASE OwnsRecord(me[t], TRUE) /\ pc[t] = "golive"
    BY <1>2 DEF StartLiveness
  <1>3. CASE OwnsRecord(me[t], TRUE) /\ pc[t] = "golive_now"
    BY <1>3 DEF StartLiveness
  <1> QED
    BY <1>1, <1>2, <1>3 DEF StartLiveness

\* What a new process starts with has its type.
LEMMA EmptyTypes ==
    /\ NoGens \in [Gens -> BOOLEAN] /\ NoResult \in [Tickers -> BOOLEAN]
    /\ NewMem \in [Gens -> Record] /\ NewPc \in [Threads -> Labels]
    /\ Nobody \in [Threads -> 0..MaxGen]
  <1>1. NoGens \in [Gens -> BOOLEAN] /\ NoResult \in [Tickers -> BOOLEAN]
    BY Zenon DEF NoGens, NoResult
  <1>2. NewMem \in [Gens -> Record]
    BY DEF NewMem, Record
  <1>3. NewPc \in [Threads -> Labels]
    BY DEF NewPc, Labels, Starting, Threads
  <1>4. Nobody \in [Threads -> 0..MaxGen]
    BY SnapshotAssumption DEF Nobody
  <1> QED
    BY <1>1, <1>2, <1>3, <1>4

\* 0 stands for no generation.
LEMMA GenBounds ==
    /\ 0 \in 0..MaxGen
    /\ \A g \in 0..MaxGen : g # 0 => g \in Gens
    /\ \A g \in Gens : g \in 0..MaxGen /\ g # 0
  BY SnapshotAssumption DEF Gens

\* Who starts, ticks and builds.
LEMMA SomeThread ==
    /\ Starters \subseteq Threads /\ Tickers \subseteq Threads /\ "builder" \in Threads
    /\ "main" \in Starters /\ "guard" \in Starters
    /\ "guard" \in Tickers /\ "boot" \in Tickers /\ "pool" \in Tickers
  BY DEF Starters, Tickers, Threads

\* Every step leaves each thread at a label, with a generation if it works for one.
LEMMA ControlStep ==
    ASSUME TypeInv, Next
    PROVE  ControlOK'
  <1> USE GenBounds, SomeThread DEF TypeInv, TypeOK, ControlOK, WorksFor, Labels,
     Tick, Body, Complete, Starting, Stopping, Acting, Go, Call, Return
  <1>1. ASSUME NEW t \in Starters, RegisterGen(t) PROVE ControlOK'
    <2>1. scheduler' \in Gens
      BY <1>1, SnapshotAssumption DEF RegisterGen, Gens
    <2> QED
      BY <1>1, <2>1 DEF RegisterGen
  <1>2. ASSUME NEW t \in Starters, Arm(t) PROVE ControlOK'
    BY <1>2 DEF Arm, Started
  <1>3. ASSUME NEW t \in Starters, ScheduleFirst(t) PROVE ControlOK'
    BY <1>3 DEF ScheduleFirst, Started
  <1>4. ASSUME NEW t \in Starters, StartLiveness(t) PROVE ControlOK'
    <2>1. me[t] # 0 /\ t \in Threads /\ "boot" \in Threads
      BY <1>4 DEF StartLiveness
    <2>2. CASE Go(t, "undo") \/ Go(t, "verify")
      BY <1>4, <2>1, <2>2 DEF StartLiveness
    <2>3. CASE /\ pc' = [pc EXCEPT ![t] = "verify", !["boot"] = "gate"]
               /\ me' = [me EXCEPT !["boot"] = me[t]]
      BY <1>4, <2>1, <2>3 DEF StartLiveness
    <2> QED
      BY <1>4, <2>2, <2>3, StartCases
  <1>5. ASSUME NEW t \in Starters, Verify(t) PROVE ControlOK'
    BY <1>5 DEF Verify, Started
  <1>6. ASSUME NEW t \in Starters, DropJob(t) PROVE ControlOK'
    BY <1>6 DEF DropJob, Started
  <1>7. ASSUME NEW t \in Starters, DropLiveness(t) PROVE ControlOK'
    BY <1>7 DEF DropLiveness, Started
  <1>8. ASSUME NEW t \in Starters, Unregister(t) PROVE ControlOK'
    BY <1>8 DEF Unregister, Stopped
  <1>9. ASSUME NEW t \in Starters, StopJob(t) PROVE ControlOK'
    BY <1>9 DEF StopJob
  <1>10. ASSUME NEW t \in Starters, StopLiveness(t) PROVE ControlOK'
    BY <1>10 DEF StopLiveness, Stopped
  <1>11. ASSUME NEW t \in Tickers, Gate(t) PROVE ControlOK'
    BY <1>11 DEF Gate, Scheduled
  <1>12. ASSUME NEW t \in Tickers, Probe(t) PROVE ControlOK'
    <2>1. Go(t, "skip") \/ Go(t, "claim") \/ Go(t, "rearm") \/ Return(t)
      BY <1>12 DEF Probe, Leave
    <2> QED
      BY <1>12, <2>1 DEF Probe
  <1>13. ASSUME NEW t \in Tickers, SkipSummary(t) PROVE ControlOK'
    BY <1>13 DEF SkipSummary
  <1>14. ASSUME NEW t \in Tickers, SkipLiveness(t) PROVE ControlOK'
    BY <1>14 DEF SkipLiveness, Leave, Scheduled
  <1>15. ASSUME NEW t \in Tickers, Rearm(t) PROVE ControlOK'
    BY <1>15 DEF Rearm
  <1>16. ASSUME NEW t \in Tickers, Claim(t) PROVE ControlOK'
    BY <1>16 DEF Claim, Scheduled
  <1>17. ASSUME NEW t \in Tickers, Begin(t) PROVE ControlOK'
    BY <1>17 DEF Begin
  <1>18. ASSUME NEW t \in Tickers, Write(t) PROVE ControlOK'
    BY <1>18 DEF Write
  <1>19. ASSUME NEW t \in Tickers, Wait(t) PROVE ControlOK'
    BY <1>19 DEF Wait
  <1>20. ASSUME NEW t \in Tickers, RecordLiveness(t) PROVE ControlOK'
    BY <1>20 DEF RecordLiveness
  <1>21. ASSUME NEW t \in Tickers, Summary(t) PROVE ControlOK'
    BY <1>21 DEF Summary
  <1>22. ASSUME NEW t \in Tickers, Finish(t) PROVE ControlOK'
    BY <1>22 DEF Finish, Leave, Scheduled
  <1>23. ASSUME NEW t \in Tickers, RegisterCallback(t) PROVE ControlOK'
    <2>1. Go(t, "force") \/ Go(t, "c_live") \/ Return(t)
      BY <1>23, RegisterCases
    <2> QED
      BY <1>23, <2>1 DEF RegisterCallback
  <1>24. ASSUME NEW t \in Threads, CompleteLiveness(t) PROVE ControlOK'
    BY <1>24 DEF CompleteLiveness
  <1>25. ASSUME NEW t \in Threads, CompleteSummary(t) PROVE ControlOK'
    BY <1>25 DEF CompleteSummary
  <1>26. ASSUME NEW t \in Threads, CompleteClear(t) PROVE ControlOK'
    BY <1>26 DEF CompleteClear
  <1>27. ASSUME NEW t \in Threads, ForceRearm(t) PROVE ControlOK'
    BY <1>27 DEF ForceRearm
  <1>28. ASSUME NEW m \in Marks, Progress(m) PROVE ControlOK'
    BY <1>28 DEF Progress
  <1>29. CASE BuildDone
    BY <1>29 DEF BuildDone
  <1>30. CASE Release
    BY <1>30 DEF Release
  <1>31. CASE Revive
    BY <1>31 DEF Revive
  <1>32. CASE RunOnce
    BY <1>32 DEF RunOnce
  <1>33. CASE Shutdown
    BY <1>33 DEF Shutdown
  <1>34. CASE Fire
    BY <1>34 DEF Fire
  <1>35. CASE Lose
    BY <1>35 DEF Lose
  <1>36. CASE Crash
    BY <1>36, EmptyTypes DEF Crash, NewPc
  <1> QED
    BY <1>1, <1>2, <1>3, <1>4, <1>5, <1>6, <1>7, <1>8, <1>9, <1>10, <1>11, <1>12,
       <1>13, <1>14, <1>15, <1>16, <1>17, <1>18, <1>19, <1>20, <1>21, <1>22, <1>23,
       <1>24, <1>25, <1>26, <1>27, <1>28, <1>29, <1>30, <1>31, <1>32, <1>33, <1>34,
       <1>35, <1>36
       DEF Next, StartStep, StopStep, TickStep, BuildStep, CompleteStep, Threads,
          Tickers, Starters

\* Every step keeps the types of the rest of the state.
LEMMA DataStep ==
    ASSUME TypeInv, ControlOK', Next
    PROVE  TypeOK'
  <1> USE GenBounds, SomeThread DEF TypeInv, TypeOK, ControlOK, WorksFor, Acting,
     Tick, Body, Complete, Starting, Stopping, schedV, jobV, flagV, workV, liveV,
     runV
  <1>1. ASSUME NEW t \in Starters, RegisterGen(t) PROVE TypeOK'
    <2>1. made' \in 0..MaxGen /\ scheduler' \in 0..MaxGen /\ lastRegistered' \in 0..MaxGen
      BY <1>1, SnapshotAssumption DEF RegisterGen
    <2>2. mem' \in [Gens -> Record]
      BY <1>1 DEF RegisterGen
    <2> QED
      BY <1>1, <2>1, <2>2 DEF RegisterGen
  <1>2. ASSUME NEW t \in Starters, Arm(t) PROVE TypeOK'
    BY <1>2 DEF Arm
  <1>3. ASSUME NEW t \in Starters, ScheduleFirst(t) PROVE TypeOK'
    BY <1>3 DEF ScheduleFirst, ScheduleTick, ArmStillValid
  <1>4. ASSUME NEW t \in Starters, StartLiveness(t) PROVE TypeOK'
    <2>1. me[t] \in Gens
      BY <1>4 DEF StartLiveness
    <2>2. [mem[me[t]] EXCEPT !.life = "started"] \in Record
      BY <2>1, RecordWith
    <2>3. live' \in Record /\ mem' \in [Gens -> Record]
      BY <1>4, <2>1, <2>2, PersistType DEF StartLiveness
    <2> QED
      BY <1>4, <2>3 DEF StartLiveness
  <1>5. ASSUME NEW t \in Starters, Verify(t) PROVE TypeOK'
    BY <1>5 DEF Verify, ArmStillValid
  <1>6. ASSUME NEW t \in Starters, DropJob(t) PROVE TypeOK'
    BY <1>6 DEF DropJob, CancelOwnJob
  <1>7. ASSUME NEW t \in Starters, DropLiveness(t) PROVE TypeOK'
    <2>1. me[t] \in Gens
      BY <1>7 DEF DropLiveness
    <2>2. [mem[me[t]] EXCEPT !.life = "stopped"] \in Record
      BY <2>1, RecordWith
    <2>3. live' \in Record /\ mem' \in [Gens -> Record]
      BY <1>7, <2>1, <2>2, PersistType DEF DropLiveness
    <2> QED
      BY <1>7, <2>3 DEF DropLiveness
  <1>8. ASSUME NEW t \in Starters, Unregister(t) PROVE TypeOK'
    BY <1>8 DEF Unregister
  <1>9. ASSUME NEW t \in Starters, StopJob(t) PROVE TypeOK'
    BY <1>9 DEF StopJob, CancelOwnJob
  <1>10. ASSUME NEW t \in Starters, StopLiveness(t) PROVE TypeOK'
    <2>1. me[t] \in Gens
      BY <1>10 DEF StopLiveness
    <2>2. [mem[me[t]] EXCEPT !.life = "stopped"] \in Record
      BY <2>1, RecordWith
    <2>3. live' \in Record /\ mem' \in [Gens -> Record]
      BY <1>10, <2>1, <2>2, PersistType DEF StopLiveness
    <2> QED
      BY <1>10, <2>3 DEF StopLiveness
  <1>11. ASSUME NEW t \in Tickers, Gate(t) PROVE TypeOK'
    BY <1>11 DEF Gate, ArmStillValid
  <1>12. ASSUME NEW t \in Tickers, Probe(t) PROVE TypeOK'
    BY <1>12 DEF Probe
  <1>13. ASSUME NEW t \in Tickers, SkipSummary(t) PROVE TypeOK'
    BY <1>13 DEF SkipSummary, Blank
  <1>14. ASSUME NEW t \in Tickers, SkipLiveness(t) PROVE TypeOK'
    <2>1. live' \in Record /\ mem' \in [Gens -> Record]
      BY <1>14, ResultType DEF SkipLiveness
    <2> QED
      BY <1>14, <2>1 DEF SkipLiveness
  <1>15. ASSUME NEW t \in Tickers, Rearm(t) PROVE TypeOK'
    BY <1>15 DEF Rearm, ScheduleTick, ArmStillValid
  <1>16. ASSUME NEW t \in Tickers, Claim(t) PROVE TypeOK'
    BY <1>16 DEF Claim, ArmStillValid
  <1>17. ASSUME NEW t \in Tickers, Begin(t) PROVE TypeOK'
    BY <1>17, FreshRun DEF Begin, NewRun, Scoring
  <1>18. ASSUME NEW t \in Tickers, Write(t) PROVE TypeOK'
    BY <1>18 DEF Write
  <1>19. ASSUME NEW t \in Tickers, Wait(t) PROVE TypeOK'
    BY <1>19 DEF Wait
  <1>20. ASSUME NEW t \in Tickers, RecordLiveness(t) PROVE TypeOK'
    <2>1. live' \in Record /\ mem' \in [Gens -> Record]
      BY <1>20, ResultType DEF RecordLiveness
    <2> QED
      BY <1>20, <2>1 DEF RecordLiveness
  <1>21. ASSUME NEW t \in Tickers, Summary(t) PROVE TypeOK'
    BY <1>21 DEF Summary, Blank
  <1>22. ASSUME NEW t \in Tickers, Finish(t) PROVE TypeOK'
    BY <1>22 DEF Finish, ClearFlags
  <1>23. ASSUME NEW t \in Tickers, RegisterCallback(t) PROVE TypeOK'
    BY <1>23, RegisterCases DEF RegisterCallback, ClearFlags
  <1>24. ASSUME NEW t \in Threads, CompleteLiveness(t) PROVE TypeOK'
    <2>1. live' \in Record /\ mem' \in [Gens -> Record]
      BY <1>24, ResultType DEF CompleteLiveness
    <2> QED
      BY <1>24, <2>1 DEF CompleteLiveness
  <1>25. ASSUME NEW t \in Threads, CompleteSummary(t) PROVE TypeOK'
    BY <1>25 DEF CompleteSummary, Blank
  <1>26. ASSUME NEW t \in Threads, CompleteClear(t) PROVE TypeOK'
    BY <1>26 DEF CompleteClear, ClearFlags
  <1>27. ASSUME NEW t \in Threads, ForceRearm(t) PROVE TypeOK'
    BY <1>27 DEF ForceRearm, ScheduleTick, ArmStillValid
  <1>28. ASSUME NEW m \in Marks, Progress(m) PROVE TypeOK'
    BY <1>28 DEF Progress, Scoring
  <1>29. CASE BuildDone
    BY <1>29 DEF BuildDone
  <1>30. CASE Release
    BY <1>30 DEF Release
  <1>31. CASE Revive
    BY <1>31 DEF Revive
  <1>32. CASE RunOnce
    BY <1>32 DEF RunOnce
  <1>33. CASE Shutdown
    BY <1>33 DEF Shutdown
  <1>34. CASE Fire
    BY <1>34 DEF Fire
  <1>35. CASE Lose
    BY <1>35 DEF Lose
  <1>36. CASE Crash
    <2>1. crashes' \in 0..MaxCrashes
      BY <1>36, SnapshotAssumption DEF Crash
    <2>2. live' \in Record /\ mem' \in [Gens -> Record] /\ res' \in [Tickers -> BOOLEAN]
      BY <1>36, EmptyTypes DEF Crash
    <2>3. armed' \in [Gens -> BOOLEAN] /\ mine' \in [Gens -> BOOLEAN]
      BY <1>36, EmptyTypes DEF Crash
    <2> QED
      BY <1>36, <2>1, <2>2, <2>3 DEF Crash
  <1> QED
    BY <1>1, <1>2, <1>3, <1>4, <1>5, <1>6, <1>7, <1>8, <1>9, <1>10, <1>11, <1>12,
       <1>13, <1>14, <1>15, <1>16, <1>17, <1>18, <1>19, <1>20, <1>21, <1>22, <1>23,
       <1>24, <1>25, <1>26, <1>27, <1>28, <1>29, <1>30, <1>31, <1>32, <1>33, <1>34,
       <1>35, <1>36
       DEF Next, StartStep, StopStep, TickStep, BuildStep, CompleteStep, Threads,
          Tickers, Starters

\* The boot thread is started once.
LEMMA BootStep ==
    ASSUME TypeInv, BootInv, Next
    PROVE  BootInv'
  <1> USE DEF Starters, Tickers, Threads, TypeInv, TypeOK, ControlOK, BootInv, Go, Call, Return
  <1>1. ASSUME NEW t \in Starters, RegisterGen(t) PROVE BootInv'
    BY <1>1 DEF RegisterGen
  <1>2. ASSUME NEW t \in Starters, Arm(t) PROVE BootInv'
    BY <1>2 DEF Arm, Started
  <1>3. ASSUME NEW t \in Starters, ScheduleFirst(t) PROVE BootInv'
    BY <1>3 DEF ScheduleFirst, Started
  <1>4. ASSUME NEW t \in Starters, StartLiveness(t) PROVE BootInv'
    BY <1>4, StartCases DEF StartLiveness
  <1>5. ASSUME NEW t \in Starters, Verify(t) PROVE BootInv'
    BY <1>5 DEF Verify, Started
  <1>6. ASSUME NEW t \in Starters, DropJob(t) PROVE BootInv'
    BY <1>6 DEF DropJob, Started
  <1>7. ASSUME NEW t \in Starters, DropLiveness(t) PROVE BootInv'
    BY <1>7 DEF DropLiveness, Started
  <1>8. ASSUME NEW t \in Starters, Unregister(t) PROVE BootInv'
    BY <1>8 DEF Unregister, Stopped
  <1>9. ASSUME NEW t \in Starters, StopJob(t) PROVE BootInv'
    BY <1>9 DEF StopJob
  <1>10. ASSUME NEW t \in Starters, StopLiveness(t) PROVE BootInv'
    BY <1>10 DEF StopLiveness, Stopped
  <1>11. ASSUME NEW t \in Tickers, Gate(t) PROVE BootInv'
    BY <1>11 DEF Gate, Scheduled
  <1>12. ASSUME NEW t \in Tickers, Probe(t) PROVE BootInv'
    BY <1>12 DEF Probe, Leave, Scheduled
  <1>13. ASSUME NEW t \in Tickers, SkipSummary(t) PROVE BootInv'
    BY <1>13 DEF SkipSummary
  <1>14. ASSUME NEW t \in Tickers, SkipLiveness(t) PROVE BootInv'
    BY <1>14 DEF SkipLiveness, Leave, Scheduled
  <1>15. ASSUME NEW t \in Tickers, Rearm(t) PROVE BootInv'
    BY <1>15 DEF Rearm
  <1>16. ASSUME NEW t \in Tickers, Claim(t) PROVE BootInv'
    BY <1>16 DEF Claim, Scheduled
  <1>17. ASSUME NEW t \in Tickers, Begin(t) PROVE BootInv'
    BY <1>17 DEF Begin
  <1>18. ASSUME NEW t \in Tickers, Write(t) PROVE BootInv'
    BY <1>18 DEF Write
  <1>19. ASSUME NEW t \in Tickers, Wait(t) PROVE BootInv'
    BY <1>19 DEF Wait
  <1>20. ASSUME NEW t \in Tickers, RecordLiveness(t) PROVE BootInv'
    BY <1>20 DEF RecordLiveness
  <1>21. ASSUME NEW t \in Tickers, Summary(t) PROVE BootInv'
    BY <1>21 DEF Summary
  <1>22. ASSUME NEW t \in Tickers, Finish(t) PROVE BootInv'
    BY <1>22 DEF Finish, Leave, Scheduled
  <1>23. ASSUME NEW t \in Tickers, RegisterCallback(t) PROVE BootInv'
    <2>1. pc[t] = "register" /\ (Go(t, "force") \/ Go(t, "c_live") \/ Return(t))
      BY <1>23, RegisterCases DEF RegisterCallback
    <2> QED
      BY <2>1
  <1>24. ASSUME NEW t \in Threads, CompleteLiveness(t) PROVE BootInv'
    BY <1>24 DEF CompleteLiveness
  <1>25. ASSUME NEW t \in Threads, CompleteSummary(t) PROVE BootInv'
    BY <1>25 DEF CompleteSummary
  <1>26. ASSUME NEW t \in Threads, CompleteClear(t) PROVE BootInv'
    BY <1>26 DEF CompleteClear
  <1>27. ASSUME NEW t \in Threads, ForceRearm(t) PROVE BootInv'
    BY <1>27 DEF ForceRearm
  <1>28. ASSUME NEW m \in Marks, Progress(m) PROVE BootInv'
    BY <1>28 DEF Progress
  <1>29. CASE BuildDone
    BY <1>29 DEF BuildDone
  <1>30. CASE Release
    BY <1>30 DEF Release
  <1>31. CASE Revive
    BY <1>31 DEF Revive
  <1>32. CASE RunOnce
    BY <1>32 DEF RunOnce
  <1>33. CASE Shutdown
    BY <1>33 DEF Shutdown
  <1>34. CASE Fire
    BY <1>34 DEF Fire
  <1>35. CASE Lose
    BY <1>35 DEF Lose
  <1>36. CASE Crash
    BY <1>36 DEF Crash, NewPc
  <1> QED
    BY <1>1, <1>2, <1>3, <1>4, <1>5, <1>6, <1>7, <1>8, <1>9, <1>10, <1>11, <1>12,
       <1>13, <1>14, <1>15, <1>16, <1>17, <1>18, <1>19, <1>20, <1>21, <1>22, <1>23,
       <1>24, <1>25, <1>26, <1>27, <1>28, <1>29, <1>30, <1>31, <1>32, <1>33, <1>34,
       <1>35, <1>36
       DEF Next, StartStep, StopStep, TickStep, BuildStep, CompleteStep, Threads,
          Tickers, Starters

SameHolders ==
    \A t \in Threads : (t \in Holders' <=> t \in Holders) /\ (t \in Holders => me'[t] = me[t])

\* A step that moves nobody in or out of a tick's body leaves the flags as they are.
LEMMA FlagFrame ==
    ASSUME FlagInv, UNCHANGED flagV, UNCHANGED late,
           SameHolders
    PROVE  FlagInv'
  BY DEF FlagInv, Holders, flagV, SameHolders

\* The one holder gives the flags back.
LEMMA FlagClear ==
    ASSUME TypeInv, FlagInv, NEW t \in Threads, t \in Holders, ClearFlags(t), UNCHANGED late,
           t \notin Holders', \A u \in Threads \ {t} : u \in Holders' => u \in Holders
    PROVE  FlagInv'
  <1>1. Holders' = {} /\ Holders = {t} /\ late = 0
    BY DEF FlagInv, Holders
  <1>2. \A g \in Gens : mine[g] <=> me[t] = g
    BY <1>1, GenBounds DEF FlagInv
  <1>3. \A g \in Gens : ~mine'[g]
    BY <1>2 DEF ClearFlags, TypeInv, TypeOK
  <1> QED
    BY <1>1, <1>3, GenBounds DEF FlagInv, ClearFlags

\* Every step hands the flags over whole.
LEMMA FlagStep ==
    ASSUME TypeInv, BootInv, FlagInv, Next
    PROVE  FlagInv'
  <1> USE GenBounds, SomeThread DEF SameHolders, TypeInv, TypeOK, ControlOK, Holders, Body,
     Complete, Go, Call, Return
  <1>1. ASSUME NEW t \in Starters, RegisterGen(t) PROVE FlagInv'
    <2>1. SameHolders
      BY <1>1 DEF RegisterGen
    <2> QED
      BY <1>1, <2>1, FlagFrame DEF RegisterGen, workV
  <1>2. ASSUME NEW t \in Starters, Arm(t) PROVE FlagInv'
    <2>1. SameHolders
      BY <1>2 DEF Arm, Started
    <2> QED
      BY <1>2, <2>1, FlagFrame DEF Arm, workV
  <1>3. ASSUME NEW t \in Starters, ScheduleFirst(t) PROVE FlagInv'
    <2>1. SameHolders
      BY <1>3 DEF ScheduleFirst, Started
    <2> QED
      BY <1>3, <2>1, FlagFrame DEF ScheduleFirst, workV
  <1>4. ASSUME NEW t \in Starters, StartLiveness(t) PROVE FlagInv'
    <2>1. pc[t] = "golive_now" => t # "boot" /\ pc["boot"] = "idle"
      BY <1>4 DEF StartLiveness, BootInv, Starters
    <2>2. SameHolders
      <3>1. pc[t] \in {"golive",
         "golive_now"} /\ t \in Threads /\ "boot" \in Threads
        BY <1>4 DEF StartLiveness
      <3>2. CASE Go(t, "undo") \/ Go(t, "verify")
        BY <3>1, <3>2
      <3>3. CASE /\ pc[t] = "golive_now"
                 /\ pc' = [pc EXCEPT ![t] = "verify", !["boot"] = "gate"]
                 /\ me' = [me EXCEPT !["boot"] = me[t]]
        BY <2>1, <3>1, <3>3
      <3> QED
        BY <1>4, <3>2, <3>3, StartCases
    <2> QED
      BY <1>4, <2>2, FlagFrame DEF StartLiveness, workV
  <1>5. ASSUME NEW t \in Starters, Verify(t) PROVE FlagInv'
    <2>1. SameHolders
      BY <1>5 DEF Verify, Started
    <2> QED
      BY <1>5, <2>1, FlagFrame DEF Verify, workV
  <1>6. ASSUME NEW t \in Starters, DropJob(t) PROVE FlagInv'
    <2>1. SameHolders
      BY <1>6 DEF DropJob, Started
    <2> QED
      BY <1>6, <2>1, FlagFrame DEF DropJob, workV
  <1>7. ASSUME NEW t \in Starters, DropLiveness(t) PROVE FlagInv'
    <2>1. SameHolders
      BY <1>7 DEF DropLiveness, Started
    <2> QED
      BY <1>7, <2>1, FlagFrame DEF DropLiveness, workV
  <1>8. ASSUME NEW t \in Starters, Unregister(t) PROVE FlagInv'
    <2>1. SameHolders
      BY <1>8 DEF Unregister, Stopped
    <2> QED
      BY <1>8, <2>1, FlagFrame DEF Unregister, workV
  <1>9. ASSUME NEW t \in Starters, StopJob(t) PROVE FlagInv'
    <2>1. SameHolders
      BY <1>9 DEF StopJob
    <2> QED
      BY <1>9, <2>1, FlagFrame DEF StopJob, workV
  <1>10. ASSUME NEW t \in Starters, StopLiveness(t) PROVE FlagInv'
    <2>1. SameHolders
      BY <1>10 DEF StopLiveness, Stopped
    <2> QED
      BY <1>10, <2>1, FlagFrame DEF StopLiveness, workV
  <1>11. ASSUME NEW t \in Tickers, Gate(t) PROVE FlagInv'
    <2>1. SameHolders
      BY <1>11 DEF Gate, Scheduled
    <2> QED
      BY <1>11, <2>1, FlagFrame DEF Gate, workV
  <1>12. ASSUME NEW t \in Tickers, Probe(t) PROVE FlagInv'
    <2>1. pc[t] = "probe" /\ (Go(t, "skip") \/ Go(t, "claim") \/ Go(t, "rearm") \/ Return(t))
      BY <1>12, ProbeCases
    <2>2. SameHolders
      BY <2>1
    <2> QED
      BY <1>12, <2>2, FlagFrame DEF Probe, workV
  <1>13. ASSUME NEW t \in Tickers, SkipSummary(t) PROVE FlagInv'
    <2>1. SameHolders
      BY <1>13 DEF SkipSummary
    <2> QED
      BY <1>13, <2>1, FlagFrame DEF SkipSummary, workV
  <1>14. ASSUME NEW t \in Tickers, SkipLiveness(t) PROVE FlagInv'
    <2>1. SameHolders
      BY <1>14 DEF SkipLiveness, Leave, Scheduled
    <2> QED
      BY <1>14, <2>1, FlagFrame DEF SkipLiveness, workV
  <1>15. ASSUME NEW t \in Tickers, Rearm(t) PROVE FlagInv'
    <2>1. SameHolders
      BY <1>15 DEF Rearm
    <2> QED
      BY <1>15, <2>1, FlagFrame DEF Rearm, workV
  <1>16. ASSUME NEW t \in Tickers, Claim(t) PROVE FlagInv'
    <2>1. CASE UNCHANGED flagV /\ (Return(t) \/ Go(t, "skip_live"))
      <3>1. SameHolders
        BY <1>16, <2>1 DEF Claim
      <3> QED
        BY <1>16, <2>1, <3>1, FlagFrame DEF Claim, workV
    <2>2. CASE /\ ~active /\ active' = TRUE /\ mine' = [mine EXCEPT ![me[t]] = TRUE]
               /\ Go(t, "begin")
      <3>1. Holders = {} /\ late = 0 /\ late' = 0
        BY <1>16, <2>2 DEF Claim, FlagInv, workV
      <3>2. Holders' = {t} /\ me' = me
        BY <1>16, <2>2, <3>1 DEF Claim
      <3> QED
        BY <2>2, <3>1, <3>2 DEF FlagInv
    <2> QED
      BY <1>16, <2>1, <2>2 DEF Claim
  <1>17. ASSUME NEW t \in Tickers, Begin(t) PROVE FlagInv'
    <2>1. SameHolders
      BY <1>17 DEF Begin
    <2> QED
      BY <1>17, <2>1, FlagFrame DEF Begin, workV
  <1>18. ASSUME NEW t \in Tickers, Write(t) PROVE FlagInv'
    <2>1. SameHolders
      BY <1>18 DEF Write
    <2> QED
      BY <1>18, <2>1, FlagFrame DEF Write
  <1>19. ASSUME NEW t \in Tickers, Wait(t) PROVE FlagInv'
    <2>1. SameHolders
      BY <1>19 DEF Wait
    <2> QED
      BY <1>19, <2>1, FlagFrame DEF Wait, workV
  <1>20. ASSUME NEW t \in Tickers, RecordLiveness(t) PROVE FlagInv'
    <2>1. SameHolders
      BY <1>20 DEF RecordLiveness
    <2> QED
      BY <1>20, <2>1, FlagFrame DEF RecordLiveness, workV
  <1>21. ASSUME NEW t \in Tickers, Summary(t) PROVE FlagInv'
    <2>1. SameHolders
      BY <1>21 DEF Summary
    <2> QED
      BY <1>21, <2>1, FlagFrame DEF Summary, workV
  <1>22. ASSUME NEW t \in Tickers, Finish(t) PROVE FlagInv'
    <2>1. CASE future = "live"
      <3>1. SameHolders
        BY <1>22, <2>1 DEF Finish
      <3> QED
        BY <1>22, <2>1, <3>1, FlagFrame DEF Finish, workV
    <2>2. CASE future # "live"
      <3>1. t \in Holders /\ t \notin Holders' /\ \A u \in Threads \ {t} : u \in Holders' => u \in Holders
        BY <1>22, <2>2 DEF Finish, Leave
      <3> QED
        BY <1>22, <2>2, <3>1, FlagClear DEF Finish, workV
    <2> QED
      BY <2>1, <2>2
  <1>23. ASSUME NEW t \in Tickers, RegisterCallback(t) PROVE FlagInv'
    <2>1. pc[t] = "register" /\ t \in Holders
      BY <1>23 DEF RegisterCallback
    <2>2. CASE ClearFlags(t) /\ Go(t, "force") /\ UNCHANGED late
      <3>1. t \notin Holders' /\ \A u \in Threads \ {t} : u \in Holders' => u \in Holders
        BY <2>1, <2>2
      <3> QED
        BY <2>1, <2>2, <3>1, FlagClear
    <2>3. CASE Go(t, "c_live") /\ UNCHANGED <<flagV, run, out, late>>
      <3>1. SameHolders
        BY <2>1, <2>3
      <3> QED
        BY <2>3, <3>1, FlagFrame
    <2>4. CASE late' = me[t] /\ Return(t) /\ UNCHANGED <<flagV, run, out>>
      <3>1. Holders = {t} /\ active /\ late = 0
        BY <2>1 DEF FlagInv
      <3>2. Holders' = {}
        BY <2>1, <2>4, <3>1
      <3>3. me[t] # 0
        BY <2>1 DEF WorksFor, Acting, Tick
      <3> QED
        BY <2>4, <3>1, <3>2, <3>3 DEF FlagInv, flagV
    <2> QED
      BY <1>23, <2>2, <2>3, <2>4, RegisterCases
  <1>24. ASSUME NEW t \in Threads, CompleteLiveness(t) PROVE FlagInv'
    <2>1. SameHolders
      BY <1>24 DEF CompleteLiveness
    <2> QED
      BY <1>24, <2>1, FlagFrame DEF CompleteLiveness, workV
  <1>25. ASSUME NEW t \in Threads, CompleteSummary(t) PROVE FlagInv'
    <2>1. SameHolders
      BY <1>25 DEF CompleteSummary
    <2> QED
      BY <1>25, <2>1, FlagFrame DEF CompleteSummary, workV
  <1>26. ASSUME NEW t \in Threads, CompleteClear(t) PROVE FlagInv'
    <2>1. t \in Holders /\ t \notin Holders' /\ \A u \in Threads \ {t} : u \in Holders' => u \in Holders
      BY <1>26 DEF CompleteClear
    <2> QED
      BY <1>26, <2>1, FlagClear DEF CompleteClear
  <1>27. ASSUME NEW t \in Threads, ForceRearm(t) PROVE FlagInv'
    <2>1. SameHolders
      BY <1>27 DEF ForceRearm
    <2> QED
      BY <1>27, <2>1, FlagFrame DEF ForceRearm, workV
  <1>28. ASSUME NEW m \in Marks, Progress(m) PROVE FlagInv'
    <2>1. SameHolders
      BY <1>28 DEF Progress
    <2> QED
      BY <1>28, <2>1, FlagFrame DEF Progress, workV
  <1>29. CASE BuildDone
    <2>1. SameHolders
      BY <1>29 DEF BuildDone
    <2> QED
      BY <1>29, <2>1, FlagFrame DEF BuildDone, workV
  <1>30. CASE Release
    <2>1. CASE UNCHANGED late /\ Call("builder", "idle", 0)
      <3>1. SameHolders
        BY <1>30, <2>1 DEF Release
      <3> QED
        BY <1>30, <2>1, <3>1, FlagFrame DEF Release
    <2>2. CASE late # 0 /\ late' = 0 /\ Call("builder", "c_live", late)
      <3>1. Holders = {} /\ active
        BY <2>2 DEF FlagInv
      <3>2. Holders' = {"builder"} /\ me'["builder"] = late
        BY <2>2, <3>1
      <3> QED
        BY <1>30, <2>2, <3>1, <3>2 DEF FlagInv, Release, flagV
    <2> QED
      BY <1>30, <2>1, <2>2 DEF Release
  <1>31. CASE Revive
    <2>1. SameHolders
      BY <1>31 DEF Revive
    <2> QED
      BY <1>31, <2>1, FlagFrame DEF Revive, workV
  <1>32. CASE RunOnce
    <2>1. SameHolders
      BY <1>32 DEF RunOnce
    <2> QED
      BY <1>32, <2>1, FlagFrame DEF RunOnce, workV
  <1>33. CASE Shutdown
    <2>1. SameHolders
      BY <1>33 DEF Shutdown
    <2> QED
      BY <1>33, <2>1, FlagFrame DEF Shutdown, workV
  <1>34. CASE Fire
    <2>1. SameHolders
      BY <1>34 DEF Fire
    <2> QED
      BY <1>34, <2>1, FlagFrame DEF Fire, workV
  <1>35. CASE Lose
    <2>1. SameHolders
      BY <1>35 DEF Lose
    <2> QED
      BY <1>35, <2>1, FlagFrame DEF Lose, workV
  <1>36. CASE Crash
    <2>1. Holders' = {} /\ late' = 0 /\ active' = FALSE /\ mine' = NoGens
      BY <1>36 DEF Crash, NewPc
    <2> QED
      BY <2>1 DEF FlagInv, NoGens, Gens
  <1> QED
    BY <1>1, <1>2, <1>3, <1>4, <1>5, <1>6, <1>7, <1>8, <1>9, <1>10, <1>11, <1>12,
       <1>13, <1>14, <1>15, <1>16, <1>17, <1>18, <1>19, <1>20, <1>21, <1>22, <1>23,
       <1>24, <1>25, <1>26, <1>27, <1>28, <1>29, <1>30, <1>31, <1>32, <1>33, <1>34,
       <1>35, <1>36
       DEF Next, StartStep, StopStep, TickStep, BuildStep, CompleteStep, Threads,
          Tickers, Starters

\* No step registers a generation again.
LEMMA GenStep ==
    ASSUME TypeInv, BootInv, GenInv, Next
    PROVE  GenInv'
  <1> USE GenBounds, SomeThread DEF TypeInv, TypeOK, ControlOK, GenInv, Go, Call,
     Return
  <1>1. ASSUME NEW t \in Starters, RegisterGen(t) PROVE GenInv'
    BY <1>1 DEF RegisterGen, jobV, workV
  <1>2. ASSUME NEW t \in Starters, Arm(t) PROVE GenInv'
    <2>1. CASE UNCHANGED armed /\ Started(t)
      BY <1>2, <2>1 DEF Arm, Started, jobV, workV
    <2>2. CASE /\ scheduler = me[t] /\ armed' = [armed EXCEPT ![me[t]] = TRUE]
               /\ Go(t, "schedule") \/ Go(t, "golive_now")
      <3>1. armed' \in [Gens -> BOOLEAN] /\ \A g \in Gens : armed'[g] => g <= made
        BY <2>2
      <3>2. me[t] # 0
        BY <1>2 DEF Arm, WorksFor, Acting, Starting
      <3>3. \A u \in Starters : pc[u] \in {"schedule", "golive", "golive_now",
         "verify"}
                                 /\ scheduler = me[u] => armed'[me[u]]
        BY <2>2, <3>2
      <3> QED
        BY <1>2, <2>2, <3>1, <3>2, <3>3 DEF Arm, jobV, workV
    <2> QED
      BY <1>2, <2>1, <2>2 DEF Arm
  <1>3. ASSUME NEW t \in Starters, ScheduleFirst(t) PROVE GenInv'
    BY <1>3 DEF ScheduleFirst, ScheduleTick, ArmStillValid, jobV, Started, schedV,
       workV
  <1>4. ASSUME NEW t \in Starters, StartLiveness(t) PROVE GenInv'
    <2>1. pc[t] \in {"golive", "golive_now"} /\ t \in Threads /\ me[t] # 0
      BY <1>4 DEF StartLiveness, WorksFor, Acting, Starting
    <2>2. CASE ~OwnsRecord(me[t], TRUE) /\ Go(t, "undo")
      <3>1. scheduler # me[t]
        BY <2>1, <2>2 DEF OwnsRecord
      <3> QED
        BY <1>4, <2>1, <2>2, <3>1 DEF StartLiveness, schedV, jobV, workV
    <2>3. CASE Go(t, "verify")
      BY <1>4, <2>1, <2>3 DEF StartLiveness, schedV, jobV, workV
    <2>4. CASE /\ pc' = [pc EXCEPT ![t] = "verify", !["boot"] = "gate"]
               /\ me' = [me EXCEPT !["boot"] = me[t]]
      BY <1>4, <2>1, <2>4 DEF StartLiveness, schedV, jobV, workV, Starters
    <2> QED
      BY <1>4, <2>2, <2>3, <2>4, StartCases
  <1>5. ASSUME NEW t \in Starters, Verify(t) PROVE GenInv'
    BY <1>5 DEF Verify, ArmStillValid, Started, schedV, jobV, workV
  <1>6. ASSUME NEW t \in Starters, DropJob(t) PROVE GenInv'
    BY <1>6 DEF DropJob, CancelOwnJob, jobV, Started, workV
  <1>7. ASSUME NEW t \in Starters, DropLiveness(t) PROVE GenInv'
    BY <1>7 DEF DropLiveness, Started, schedV, jobV, workV
  <1>8. ASSUME NEW t \in Starters, Unregister(t) PROVE GenInv'
    <2>1. scheduler' = 0 /\ lastRegistered' <= made
      BY <1>8 DEF Unregister
    <2>2. CASE Stopped(t)
      BY <1>8, <2>1, <2>2 DEF Unregister, Stopped, jobV, workV
    <2>3. CASE scheduler # 0 /\ Call(t, "cancel", scheduler)
      BY <1>8, <2>1, <2>3 DEF Unregister, jobV, workV, WorksFor, Acting, Starting,
         Stopping
    <2> QED
      BY <1>8, <2>2, <2>3 DEF Unregister
  <1>9. ASSUME NEW t \in Starters, StopJob(t) PROVE GenInv'
    BY <1>9 DEF StopJob, CancelOwnJob, jobV, workV
  <1>10. ASSUME NEW t \in Starters, StopLiveness(t) PROVE GenInv'
    BY <1>10 DEF StopLiveness, Stopped, schedV, jobV, workV
  <1>11. ASSUME NEW t \in Tickers, Gate(t) PROVE GenInv'
    BY <1>11 DEF Gate, Scheduled, ArmStillValid, schedV, jobV, workV
  <1>12. ASSUME NEW t \in Tickers, Probe(t) PROVE GenInv'
    <2>1. pc[t] = "probe" /\ (Go(t, "skip") \/ Go(t, "claim") \/ Go(t, "rearm") \/ Return(t))
      BY <1>12, ProbeCases
    <2> QED
      BY <1>12, <2>1 DEF Probe, schedV, jobV, workV
  <1>13. ASSUME NEW t \in Tickers, SkipSummary(t) PROVE GenInv'
    BY <1>13 DEF SkipSummary, schedV, jobV, workV
  <1>14. ASSUME NEW t \in Tickers, SkipLiveness(t) PROVE GenInv'
    BY <1>14 DEF SkipLiveness, Leave, Scheduled, schedV, jobV, workV
  <1>15. ASSUME NEW t \in Tickers, Rearm(t) PROVE GenInv'
    BY <1>15 DEF Rearm, ScheduleTick, ArmStillValid, jobV, schedV, workV
  <1>16. ASSUME NEW t \in Tickers, Claim(t) PROVE GenInv'
    BY <1>16 DEF Claim, Scheduled, ArmStillValid, schedV, jobV, workV
  <1>17. ASSUME NEW t \in Tickers, Begin(t) PROVE GenInv'
    BY <1>17 DEF Begin, schedV, jobV, workV
  <1>18. ASSUME NEW t \in Tickers, Write(t) PROVE GenInv'
    BY <1>18 DEF Write, schedV, jobV
  <1>19. ASSUME NEW t \in Tickers, Wait(t) PROVE GenInv'
    BY <1>19 DEF Wait, schedV, jobV
  <1>20. ASSUME NEW t \in Tickers, RecordLiveness(t) PROVE GenInv'
    BY <1>20 DEF RecordLiveness, schedV, jobV, workV
  <1>21. ASSUME NEW t \in Tickers, Summary(t) PROVE GenInv'
    BY <1>21 DEF Summary, schedV, jobV, workV
  <1>22. ASSUME NEW t \in Tickers, Finish(t) PROVE GenInv'
    BY <1>22 DEF Finish, Leave, Scheduled, schedV, jobV, workV
  <1>23. ASSUME NEW t \in Tickers, RegisterCallback(t) PROVE GenInv'
    <2>1. late' \in {late, me[t]} /\ pc[t] = "register"
          /\ (Go(t, "force") \/ Go(t, "c_live") \/ Return(t))
      BY <1>23, RegisterCases DEF RegisterCallback
    <2> QED
      BY <1>23, <2>1 DEF RegisterCallback, schedV, jobV
  <1>24. ASSUME NEW t \in Threads, CompleteLiveness(t) PROVE GenInv'
    BY <1>24 DEF CompleteLiveness, schedV, jobV, workV
  <1>25. ASSUME NEW t \in Threads, CompleteSummary(t) PROVE GenInv'
    BY <1>25 DEF CompleteSummary, schedV, jobV, workV
  <1>26. ASSUME NEW t \in Threads, CompleteClear(t) PROVE GenInv'
    BY <1>26 DEF CompleteClear, schedV, jobV
  <1>27. ASSUME NEW t \in Threads, ForceRearm(t) PROVE GenInv'
    BY <1>27 DEF ForceRearm, ScheduleTick, ArmStillValid, jobV, schedV, workV
  <1>28. ASSUME NEW m \in Marks, Progress(m) PROVE GenInv'
    BY <1>28 DEF Progress, schedV, jobV, workV
  <1>29. CASE BuildDone
    BY <1>29 DEF BuildDone, schedV, jobV
  <1>30. CASE Release
    BY <1>30 DEF Release, schedV, jobV
  <1>31. CASE Revive
    BY <1>31 DEF Revive, schedV, jobV, workV
  <1>32. CASE RunOnce
    BY <1>32 DEF RunOnce, schedV, jobV, workV
  <1>33. CASE Shutdown
    BY <1>33 DEF Shutdown, schedV, jobV, workV
  <1>34. CASE Fire
    BY <1>34 DEF Fire, schedV, workV
  <1>35. CASE Lose
    BY <1>35 DEF Lose, schedV, workV
  <1>36. CASE Crash
    BY <1>36 DEF Crash, NoGens, NewPc, Nobody
  <1> QED
    BY <1>1, <1>2, <1>3, <1>4, <1>5, <1>6, <1>7, <1>8, <1>9, <1>10, <1>11, <1>12,
       <1>13, <1>14, <1>15, <1>16, <1>17, <1>18, <1>19, <1>20, <1>21, <1>22, <1>23,
       <1>24, <1>25, <1>26, <1>27, <1>28, <1>29, <1>30, <1>31, <1>32, <1>33, <1>34,
       <1>35, <1>36
       DEF Next, StartStep, StopStep, TickStep, BuildStep, CompleteStep, Threads,
          Tickers, Starters

\* Whoever writes the record is the generation registered last.
LEMMA PersistEffect ==
    ASSUME GenInv, NEW g \in Gens, NEW s \in BOOLEAN, NEW r, PersistLiveness(g, s, r)
    PROVE  \/ g = lastRegistered /\ live' = r /\ mem' = [mem EXCEPT ![g] = r]
           \/ UNCHANGED liveV
  BY GenBounds DEF PersistLiveness, OwnsRecord, GenInv

\* A result keeps a success, and says nothing of the life of the scheduler.
LEMMA ResultEffect ==
    ASSUME TypeOK, GenInv, NEW g \in Gens, NEW b \in BOOLEAN, RecordResult(g, b)
    PROVE  \/ /\ g = lastRegistered /\ live' \in Record /\ mem' = [mem EXCEPT ![g] = live']
              /\ live'.life = mem[g].life /\ (mem[g].ok => live'.ok)
           \/ UNCHANGED liveV
  <1> DEFINE r == [mem[g] EXCEPT !.ok = @ \/ b]
  <1>1. r \in Record /\ r.life = mem[g].life /\ (mem[g].ok => r.ok)
    BY RecordWith DEF TypeOK, Record
  <1>2. PersistLiveness(g, FALSE, r)
    BY DEF RecordResult
  <1> HIDE DEF r
  <1>3. \/ g = lastRegistered /\ live' = r /\ mem' = [mem EXCEPT ![g] = r]
        \/ UNCHANGED liveV
    BY <1>2, PersistEffect
  <1> QED
    BY <1>1, <1>3

\* The end of a life is written when nobody is registered, or not at all.
LEMMA StopEffect ==
    ASSUME TypeOK, GenInv, NEW g \in Gens, scheduler # g,
           PersistLiveness(g, FALSE, [mem[g] EXCEPT !.life = "stopped"])
    PROVE  \/ /\ scheduler = 0 /\ g = lastRegistered /\ live' \in Record
              /\ mem' = [mem EXCEPT ![g] = live'] /\ live'.ok = mem[g].ok
           \/ UNCHANGED liveV
  <1> DEFINE r == [mem[g] EXCEPT !.life = "stopped"]
  <1>1. r \in Record /\ r.ok = mem[g].ok
    BY RecordWith DEF TypeOK, Record
  <1> HIDE DEF r
  <1>2. PersistLiveness(g, FALSE, r)
    BY DEF r
  <1>3. \/ g = lastRegistered /\ live' = r /\ mem' = [mem EXCEPT ![g] = r]
        \/ UNCHANGED liveV
    BY <1>2, PersistEffect
  <1> QED
    BY <1>1, <1>3, GenBounds DEF GenInv

\* The start of a life is written by the registered generation.
LEMMA StartEffect ==
    ASSUME TypeOK, GenInv, NEW g \in Gens, OwnsRecord(g, TRUE),
           PersistLiveness(g, TRUE, [mem[g] EXCEPT !.life = "started"])
    PROVE  /\ scheduler = g /\ g = lastRegistered /\ live' \in Record
           /\ mem' = [mem EXCEPT ![g] = live']
           /\ live'.ok = mem[g].ok /\ live'.life = "started"
  <1> DEFINE r == [mem[g] EXCEPT !.life = "started"]
  <1>1. mem[g] \in Record
    BY DEF TypeOK
  <1>2. r \in Record /\ r.ok = mem[g].ok /\ r.life = "started"
    BY <1>1 DEF Record
  <1>3. live' = r /\ mem' = [mem EXCEPT ![g] = r]
    BY DEF PersistLiveness
  <1>4. scheduler = g /\ g = lastRegistered
    BY GenBounds DEF OwnsRecord, GenInv
  <1> HIDE DEF r
  <1> QED
    BY <1>2, <1>3, <1>4

\* A result leaves LifeInv, whoever writes it.
LEMMA LifeKept ==
    ASSUME TypeOK, GenInv, LifeInv, NEW g \in Gens, NEW b \in BOOLEAN, RecordResult(g, b),
           UNCHANGED schedV,
           \A u \in Starters : pc[u] \in {"schedule", "golive", "golive_now"}
                                 => pc'[u] = pc[u] /\ me'[u] = me[u]
    PROVE  LifeInv'
  <1>1. CASE UNCHANGED liveV
    BY <1>1 DEF LifeInv, schedV, liveV
  <1>2. CASE /\ g = lastRegistered /\ live' \in Record /\ mem' = [mem EXCEPT ![g] = live']
             /\ live'.life = mem[g].life
    <2>1. mem'[lastRegistered] = live'
      BY <1>2 DEF TypeOK
    <2>2. \A h \in Gens : scheduler = h => h = lastRegistered
      BY GenBounds DEF GenInv
    <2> QED
      BY <1>2, <2>1, <2>2 DEF LifeInv, schedV
  <1> QED
    BY <1>1, <1>2, ResultEffect

\* No step writes the record of a generation that is past over that of a later one.
LEMMA LifeStep ==
    ASSUME TypeInv, BootInv, GenInv, LifeInv, Next
    PROVE  LifeInv'
  <1> USE GenBounds, SomeThread DEF TypeInv, TypeOK, ControlOK, LifeInv, Go, Call,
     Return
  <1>1. ASSUME NEW t \in Starters, RegisterGen(t) PROVE LifeInv'
    <2>1. pc[t] = "register_gen" /\ \A u \in Starters : u # t => pc'[u] = pc[u] /\ me'[u] = me[u]
      BY <1>1 DEF RegisterGen
    <2>2. CASE scheduler # 0 /\ UNCHANGED <<made, scheduler, lastRegistered, mem>>
      BY <1>1, <2>1, <2>2 DEF RegisterGen
    <2>3. CASE /\ scheduler = 0 /\ scheduler' = made' /\ lastRegistered' = made' /\ made' \in Gens
               /\ made' = made + 1 /\ mem' = [mem EXCEPT ![made'] = live]
      <3>1. ~armed[made']
        BY <2>3 DEF GenInv
      <3> QED
        BY <1>1, <2>3, <3>1 DEF RegisterGen
    <2> QED
      BY <1>1, <2>2, <2>3, SnapshotAssumption DEF RegisterGen, Gens
  <1>2. ASSUME NEW t \in Starters, Arm(t) PROVE LifeInv'
    BY <1>2 DEF Arm, Started, liveV
  <1>3. ASSUME NEW t \in Starters, ScheduleFirst(t) PROVE LifeInv'
    <2>1. CASE ArmStillValid(me[t])
      BY <1>3, <2>1 DEF ScheduleFirst, schedV, liveV
    <2>2. CASE ~ArmStillValid(me[t])
      BY <1>3, <2>2 DEF ScheduleFirst, ArmStillValid, Started, schedV, liveV
    <2> QED
      BY <2>1, <2>2
  <1>4. ASSUME NEW t \in Starters, StartLiveness(t) PROVE LifeInv'
    <2>1. me[t] \in Gens /\ t \in Threads /\ pc[t] \in {"golive", "golive_now"}
      BY <1>4 DEF StartLiveness, WorksFor, Acting, Starting
    <2>2. \A u \in Starters : u # t => pc'[u] = pc[u] /\ me'[u] = me[u]
      <3>1. CASE Go(t, "undo") \/ Go(t, "verify")
        BY <2>1, <3>1
      <3>2. CASE /\ pc' = [pc EXCEPT ![t] = "verify", !["boot"] = "gate"]
                 /\ me' = [me EXCEPT !["boot"] = me[t]]
        BY <2>1, <3>2 DEF Starters
      <3> QED
        BY <1>4, <3>1, <3>2, StartCases
    <2>3. CASE OwnsRecord(me[t], TRUE)
      <3>1. /\ scheduler = me[t] /\ me[t] = lastRegistered /\ live' \in Record
            /\ mem' = [mem EXCEPT ![me[t]] = live']
            /\ live'.ok = mem[me[t]].ok /\ live'.life = "started"
        BY <1>4, <2>1, <2>3, StartEffect DEF StartLiveness
      <3> QED
        BY <1>4, <2>1, <3>1 DEF StartLiveness, schedV
    <2>4. CASE ~OwnsRecord(me[t], TRUE)
      <3>1. UNCHANGED liveV /\ ~(scheduler = me[t] /\ armed[me[t]])
        BY <1>4, <2>4 DEF StartLiveness, PersistLiveness, OwnsRecord
      <3> QED
        BY <1>4, <2>2, <3>1 DEF StartLiveness, schedV, liveV
    <2> QED
      BY <2>3, <2>4
  <1>5. ASSUME NEW t \in Starters, Verify(t) PROVE LifeInv'
    BY <1>5 DEF Verify, Started, schedV, liveV
  <1>6. ASSUME NEW t \in Starters, DropJob(t) PROVE LifeInv'
    BY <1>6 DEF DropJob, CancelOwnJob, Started, liveV
  <1>7. ASSUME NEW t \in Starters, DropLiveness(t) PROVE LifeInv'
    <2>1. me[t] \in Gens /\ scheduler # me[t] /\ t \in Threads
      BY <1>7 DEF DropLiveness, WorksFor, Acting, Starting, Stopping, GenInv
    <2>2. \A u \in Starters : pc[u] \in {"schedule", "golive", "golive_now"}
                               => pc'[u] = pc[u] /\ me'[u] = me[u]
      BY <1>7 DEF DropLiveness, Started
    <2>3. CASE UNCHANGED liveV
      BY <1>7, <2>2, <2>3 DEF DropLiveness, schedV, liveV
    <2>4. CASE /\ scheduler = 0 /\ me[t] = lastRegistered /\ live' \in Record
               /\ mem' = [mem EXCEPT ![me[t]] = live']
      BY <1>7, <2>1, <2>4 DEF DropLiveness, schedV
    <2> QED
      BY <1>7, <2>1, <2>3, <2>4, StopEffect DEF DropLiveness
  <1>8. ASSUME NEW t \in Starters, Unregister(t) PROVE LifeInv'
    <2>1. scheduler' = 0 /\ lastRegistered' = lastRegistered
      BY <1>8 DEF Unregister, GenInv
    <2> QED
      BY <1>8, <2>1 DEF Unregister, liveV
  <1>9. ASSUME NEW t \in Starters, StopJob(t) PROVE LifeInv'
    BY <1>9 DEF StopJob, CancelOwnJob, liveV
  <1>10. ASSUME NEW t \in Starters, StopLiveness(t) PROVE LifeInv'
    <2>1. me[t] \in Gens /\ scheduler # me[t] /\ t \in Threads
      BY <1>10 DEF StopLiveness, WorksFor, Acting, Starting, Stopping, GenInv
    <2>2. \A u \in Starters : pc[u] \in {"schedule", "golive", "golive_now"}
                               => pc'[u] = pc[u] /\ me'[u] = me[u]
      BY <1>10 DEF StopLiveness, Stopped
    <2>3. CASE UNCHANGED liveV
      BY <1>10, <2>2, <2>3 DEF StopLiveness, schedV, liveV
    <2>4. CASE /\ scheduler = 0 /\ me[t] = lastRegistered /\ live' \in Record
               /\ mem' = [mem EXCEPT ![me[t]] = live']
      BY <1>10, <2>1, <2>4 DEF StopLiveness, schedV
    <2> QED
      BY <1>10, <2>1, <2>3, <2>4, StopEffect DEF StopLiveness
  <1>11. ASSUME NEW t \in Tickers, Gate(t) PROVE LifeInv'
    BY <1>11 DEF Gate, Scheduled, schedV, liveV
  <1>12. ASSUME NEW t \in Tickers, Probe(t) PROVE LifeInv'
    <2>1. pc[t] = "probe" /\ (Go(t, "skip") \/ Go(t, "claim") \/ Go(t, "rearm") \/ Return(t))
      BY <1>12, ProbeCases
    <2> QED
      BY <1>12, <2>1 DEF Probe, schedV, liveV
  <1>13. ASSUME NEW t \in Tickers, SkipSummary(t) PROVE LifeInv'
    BY <1>13 DEF SkipSummary, schedV, liveV
  <1>14. ASSUME NEW t \in Tickers, SkipLiveness(t) PROVE LifeInv'
    <2>1. me[t] \in Gens /\ RecordResult(me[t], FALSE) /\ FALSE \in BOOLEAN
      BY <1>14 DEF SkipLiveness, WorksFor, Acting, Tick, Body, Complete
    <2>2. \A u \in Starters : pc[u] \in {"schedule", "golive", "golive_now"}
                               => pc'[u] = pc[u] /\ me'[u] = me[u]
      BY <1>14 DEF SkipLiveness, Leave
    <2> QED
      BY <1>14, <2>1, <2>2, LifeKept DEF SkipLiveness
  <1>15. ASSUME NEW t \in Tickers, Rearm(t) PROVE LifeInv'
    BY <1>15 DEF Rearm, schedV, liveV
  <1>16. ASSUME NEW t \in Tickers, Claim(t) PROVE LifeInv'
    BY <1>16 DEF Claim, Scheduled, schedV, liveV
  <1>17. ASSUME NEW t \in Tickers, Begin(t) PROVE LifeInv'
    BY <1>17 DEF Begin, schedV, liveV
  <1>18. ASSUME NEW t \in Tickers, Write(t) PROVE LifeInv'
    BY <1>18 DEF Write, schedV, liveV
  <1>19. ASSUME NEW t \in Tickers, Wait(t) PROVE LifeInv'
    BY <1>19 DEF Wait, schedV, liveV
  <1>20. ASSUME NEW t \in Tickers, RecordLiveness(t) PROVE LifeInv'
    <2>1. me[t] \in Gens /\ RecordResult(me[t], res[t]) /\ res[t] \in BOOLEAN
      BY <1>20 DEF RecordLiveness, WorksFor, Acting, Tick, Body, Complete
    <2>2. \A u \in Starters : pc[u] \in {"schedule", "golive", "golive_now"}
                               => pc'[u] = pc[u] /\ me'[u] = me[u]
      BY <1>20 DEF RecordLiveness
    <2> QED
      BY <1>20, <2>1, <2>2, LifeKept DEF RecordLiveness
  <1>21. ASSUME NEW t \in Tickers, Summary(t) PROVE LifeInv'
    BY <1>21 DEF Summary, schedV, liveV
  <1>22. ASSUME NEW t \in Tickers, Finish(t) PROVE LifeInv'
    BY <1>22 DEF Finish, Leave, Scheduled, schedV, liveV
  <1>23. ASSUME NEW t \in Tickers, RegisterCallback(t) PROVE LifeInv'
    <2>1. pc[t] = "register" /\ (Go(t, "force") \/ Go(t, "c_live") \/ Return(t))
      BY <1>23, RegisterCases DEF RegisterCallback
    <2> QED
      BY <1>23, <2>1 DEF RegisterCallback, schedV, liveV
  <1>24. ASSUME NEW t \in Threads, CompleteLiveness(t) PROVE LifeInv'
    <2>1. me[t] \in Gens /\ RecordResult(me[t], out) /\ out \in BOOLEAN
      BY <1>24 DEF CompleteLiveness, WorksFor, Acting, Tick, Body, Complete
    <2>2. \A u \in Starters : pc[u] \in {"schedule", "golive", "golive_now"}
                               => pc'[u] = pc[u] /\ me'[u] = me[u]
      BY <1>24 DEF CompleteLiveness
    <2> QED
      BY <1>24, <2>1, <2>2, LifeKept DEF CompleteLiveness
  <1>25. ASSUME NEW t \in Threads, CompleteSummary(t) PROVE LifeInv'
    BY <1>25 DEF CompleteSummary, schedV, liveV
  <1>26. ASSUME NEW t \in Threads, CompleteClear(t) PROVE LifeInv'
    BY <1>26 DEF CompleteClear, schedV, liveV
  <1>27. ASSUME NEW t \in Threads, ForceRearm(t) PROVE LifeInv'
    BY <1>27 DEF ForceRearm, schedV, liveV
  <1>28. ASSUME NEW m \in Marks, Progress(m) PROVE LifeInv'
    BY <1>28 DEF Progress, schedV, liveV
  <1>29. CASE BuildDone
    BY <1>29 DEF BuildDone, schedV, liveV
  <1>30. CASE Release
    BY <1>30 DEF Release, schedV, liveV
  <1>31. CASE Revive
    BY <1>31 DEF Revive, schedV, liveV
  <1>32. CASE RunOnce
    BY <1>32 DEF RunOnce, schedV, liveV
  <1>33. CASE Shutdown
    BY <1>33 DEF Shutdown, schedV, liveV
  <1>34. CASE Fire
    BY <1>34 DEF Fire, schedV, liveV
  <1>35. CASE Lose
    BY <1>35 DEF Lose, schedV, liveV
  <1>36. CASE Crash
    BY <1>36 DEF Crash, NoGens, NewPc, Nobody
  <1> HIDE DEF LifeInv, TypeInv, TypeOK, ControlOK
  <1> QED
    BY <1>1, <1>2, <1>3, <1>4, <1>5, <1>6, <1>7, <1>8, <1>9, <1>10, <1>11, <1>12,
       <1>13, <1>14, <1>15, <1>16, <1>17, <1>18, <1>19, <1>20, <1>21, <1>22, <1>23,
       <1>24, <1>25, <1>26, <1>27, <1>28, <1>29, <1>30, <1>31, <1>32, <1>33, <1>34,
       <1>35, <1>36
       DEF Next, StartStep, StopStep, TickStep, BuildStep, CompleteStep, Threads,
          Tickers, Starters

\* Only the steps of a tick, of its callback and of its late build end a promise of a job.
LEMMA RearmKept ==
    ASSUME NEW t \in Starters, UNCHANGED late,
           pc[t] \notin {"c_live", "c_summary", "c_clear", "force"},
           \A u \in Threads : u # t => pc'[u] = pc[u] /\ me'[u] = me[u]
    PROVE  \A g \in Gens : WillRearm(g) => WillRearm(g)'
  BY DEF WillRearm, Scheduled, Starters, Tickers, Threads

\* No step loses the next job of the registered generation.
LEMMA JobStep ==
    ASSUME TypeInv, BootInv, FlagInv, GenInv, JobInv, Next
    PROVE  JobInv'
  <1> USE GenBounds, SomeThread DEF TypeInv, TypeOK, ControlOK, JobInv, WillRearm,
     Scheduled, Go, Call, Return
  <1>1. ASSUME NEW t \in Starters, RegisterGen(t) PROVE JobInv'
    <2>1. \A g \in Gens : scheduler' = g /\ armed'[g] => scheduler = g /\ armed[g]
      BY <1>1 DEF RegisterGen, GenInv
    <2>2. pc[t] = "register_gen" /\ pc' = [pc EXCEPT ![t] = "arm"]
          /\ \A u \in Threads : u # t => me'[u] = me[u]
      BY <1>1 DEF RegisterGen
    <2>3. \A g \in Gens : WillRearm(g) => WillRearm(g)'
      BY <1>1, <2>2, RearmKept DEF RegisterGen, workV
    <2> QED
      BY <1>1, <2>1, <2>2, <2>3 DEF RegisterGen, jobV
  <1>2. ASSUME NEW t \in Starters, Arm(t) PROVE JobInv'
    <2>1. pc[t] = "arm" /\ UNCHANGED late /\ \A u \in Threads : u # t => pc'[u] = pc[u] /\ me'[u] = me[u]
      BY <1>2 DEF Arm, Started, workV
    <2>2. \A g \in Gens : WillRearm(g) => WillRearm(g)'
      BY <2>1, RearmKept
    <2>3. CASE UNCHANGED armed
      BY <1>2, <2>1, <2>2, <2>3 DEF Arm, jobV, Starters
    <2>4. CASE /\ scheduler = me[t] /\ armed' = [armed EXCEPT ![me[t]] = TRUE]
               /\ Go(t, "schedule") \/ Go(t, "golive_now")
      BY <1>2, <2>1, <2>2, <2>4 DEF Arm, jobV
    <2> QED
      BY <1>2, <2>3, <2>4 DEF Arm
  <1>3. ASSUME NEW t \in Starters, ScheduleFirst(t) PROVE JobInv'
    BY <1>3 DEF ScheduleFirst, ScheduleTick, ArmStillValid, jobV, Started, schedV,
       workV
  <1>4. ASSUME NEW t \in Starters, StartLiveness(t) PROVE JobInv'
    BY <1>4 DEF StartLiveness, OwnsRecord, schedV, jobV, workV
  <1>5. ASSUME NEW t \in Starters, Verify(t) PROVE JobInv'
    <2>1. pc[t] = "verify" /\ UNCHANGED late /\ \A u \in Threads : u # t => pc'[u] = pc[u] /\ me'[u] = me[u]
      BY <1>5 DEF Verify, Started, workV
    <2>2. \A g \in Gens : WillRearm(g) => WillRearm(g)'
      BY <2>1, RearmKept
    <2> QED
      BY <1>5, <2>1, <2>2 DEF Verify, schedV, jobV, Starters
  <1>6. ASSUME NEW t \in Starters, DropJob(t) PROVE JobInv'
    BY <1>6 DEF DropJob, CancelOwnJob, jobV, Started, workV
  <1>7. ASSUME NEW t \in Starters, DropLiveness(t) PROVE JobInv'
    <2>1. pc[t] = "drop_live" /\ UNCHANGED late /\ \A u \in Threads : u # t => pc'[u] = pc[u] /\ me'[u] = me[u]
      BY <1>7 DEF DropLiveness, Started, workV
    <2>2. \A g \in Gens : WillRearm(g) => WillRearm(g)'
      BY <2>1, RearmKept
    <2> QED
      BY <1>7, <2>1, <2>2 DEF DropLiveness, schedV, jobV, Starters
  <1>8. ASSUME NEW t \in Starters, Unregister(t) PROVE JobInv'
    BY <1>8 DEF Unregister, Stopped, jobV, workV
  <1>9. ASSUME NEW t \in Starters, StopJob(t) PROVE JobInv'
    BY <1>9 DEF StopJob, CancelOwnJob, jobV, workV
  <1>10. ASSUME NEW t \in Starters, StopLiveness(t) PROVE JobInv'
    <2>1. pc[t] = "stop_live" /\ UNCHANGED late /\ \A u \in Threads : u # t => pc'[u] = pc[u] /\ me'[u] = me[u]
      BY <1>10 DEF StopLiveness, Stopped, workV
    <2>2. \A g \in Gens : WillRearm(g) => WillRearm(g)'
      BY <2>1, RearmKept
    <2> QED
      BY <1>10, <2>1, <2>2 DEF StopLiveness, schedV, jobV, Starters
  <1>11. ASSUME NEW t \in Tickers, Gate(t) PROVE JobInv'
    BY <1>11 DEF Gate, ArmStillValid, schedV, jobV, workV
  <1>12. ASSUME NEW t \in Tickers, Probe(t) PROVE JobInv'
    <2>1. /\ pc[t] = "probe"
          /\ \/ Go(t, "skip") \/ Go(t, "claim")
             \/ Scheduled(t) /\ Go(t, "rearm")
             \/ ~Scheduled(t) /\ Return(t)
      BY <1>12, ProbeCases
    <2>2. \A g \in Gens : WillRearm(g) => WillRearm(g)'
      BY <1>12, <2>1 DEF Probe, workV
    <2> QED
      BY <1>12, <2>1, <2>2 DEF Probe, schedV, jobV
  <1>13. ASSUME NEW t \in Tickers, SkipSummary(t) PROVE JobInv'
    BY <1>13 DEF SkipSummary, schedV, jobV, workV
  <1>14. ASSUME NEW t \in Tickers, SkipLiveness(t) PROVE JobInv'
    BY <1>14 DEF SkipLiveness, OwnsRecord, Leave, schedV, jobV, workV
  <1>15. ASSUME NEW t \in Tickers, Rearm(t) PROVE JobInv'
    BY <1>15 DEF Rearm, ScheduleTick, ArmStillValid, jobV, schedV, workV
  <1>16. ASSUME NEW t \in Tickers, Claim(t) PROVE JobInv'
    BY <1>16 DEF Claim, ArmStillValid, schedV, jobV, workV
  <1>17. ASSUME NEW t \in Tickers, Begin(t) PROVE JobInv'
    BY <1>17 DEF Begin, schedV, jobV, workV
  <1>18. ASSUME NEW t \in Tickers, Write(t) PROVE JobInv'
    BY <1>18 DEF Write, schedV, jobV
  <1>19. ASSUME NEW t \in Tickers, Wait(t) PROVE JobInv'
    BY <1>19 DEF Wait, schedV, jobV
  <1>20. ASSUME NEW t \in Tickers, RecordLiveness(t) PROVE JobInv'
    BY <1>20 DEF RecordLiveness, OwnsRecord, schedV, jobV, workV
  <1>21. ASSUME NEW t \in Tickers, Summary(t) PROVE JobInv'
    BY <1>21 DEF Summary, schedV, jobV, workV
  <1>22. ASSUME NEW t \in Tickers, Finish(t) PROVE JobInv'
    BY <1>22 DEF Finish, Leave, schedV, jobV, workV
  <1>23. ASSUME NEW t \in Tickers, RegisterCallback(t) PROVE JobInv'
    <2>1. pc[t] = "register" /\ t \in Threads /\ late = 0
      BY <1>23 DEF RegisterCallback, FlagInv, Holders, Body
    <2>2. CASE (Go(t, "force") \/ Go(t, "c_live")) /\ UNCHANGED late
      BY <1>23, <2>1, <2>2 DEF RegisterCallback, schedV, jobV
    <2>3. CASE late' = me[t] /\ Return(t)
      BY <1>23, <2>1, <2>3 DEF RegisterCallback, schedV, jobV
    <2> QED
      BY <1>23, <2>2, <2>3, RegisterCases DEF workV
  <1>24. ASSUME NEW t \in Threads, CompleteLiveness(t) PROVE JobInv'
    BY <1>24 DEF CompleteLiveness, OwnsRecord, schedV, jobV, workV
  <1>25. ASSUME NEW t \in Threads, CompleteSummary(t) PROVE JobInv'
    BY <1>25 DEF CompleteSummary, schedV, jobV, workV
  <1>26. ASSUME NEW t \in Threads, CompleteClear(t) PROVE JobInv'
    BY <1>26 DEF CompleteClear, schedV, jobV
  <1>27. ASSUME NEW t \in Threads, ForceRearm(t) PROVE JobInv'
    BY <1>27 DEF ForceRearm, ScheduleTick, ArmStillValid, jobV, schedV, workV
  <1>28. ASSUME NEW m \in Marks, Progress(m) PROVE JobInv'
    BY <1>28 DEF Progress, schedV, jobV, workV
  <1>29. CASE BuildDone
    BY <1>29 DEF BuildDone, schedV, jobV
  <1>30. CASE Release
    BY <1>30 DEF Release, schedV, jobV
  <1>31. CASE Revive
    BY <1>31 DEF Revive, schedV, jobV, workV
  <1>32. CASE RunOnce
    BY <1>32 DEF RunOnce, schedV, jobV, workV
  <1>33. CASE Shutdown
    BY <1>33 DEF Shutdown, schedV, jobV, workV
  <1>34. CASE Fire
    BY <1>34 DEF Fire, schedV, workV
  <1>35. CASE Lose
    BY <1>35 DEF Lose, schedV, workV
  <1>36. CASE Crash
    BY <1>36 DEF Crash, NoGens, NewPc, Nobody
  <1> HIDE DEF JobInv, TypeInv, TypeOK, ControlOK, WillRearm, Scheduled
  <1> QED
    BY <1>1, <1>2, <1>3, <1>4, <1>5, <1>6, <1>7, <1>8, <1>9, <1>10, <1>11, <1>12,
       <1>13, <1>14, <1>15, <1>16, <1>17, <1>18, <1>19, <1>20, <1>21, <1>22, <1>23,
       <1>24, <1>25, <1>26, <1>27, <1>28, <1>29, <1>30, <1>31, <1>32, <1>33, <1>34,
       <1>35, <1>36
       DEF Next, StartStep, StopStep, TickStep, BuildStep, CompleteStep, Threads,
          Tickers, Starters

\* No step leaves a build or a run without somebody who will end it.
LEMMA RunStep ==
    ASSUME TypeInv, BootInv, FlagInv, RunInv, Next
    PROVE  RunInv'
  <1> USE GenBounds, SomeThread DEF TypeInv, TypeOK, ControlOK, RunInv, FlagInv,
     Holders, Body, Complete, Go, Call, Return
  <1>1. ASSUME NEW t \in Starters, RegisterGen(t) PROVE RunInv'
    BY <1>1 DEF RegisterGen, flagV, workV, runV
  <1>2. ASSUME NEW t \in Starters, Arm(t) PROVE RunInv'
    BY <1>2 DEF Arm, Started, flagV, workV, runV
  <1>3. ASSUME NEW t \in Starters, ScheduleFirst(t) PROVE RunInv'
    BY <1>3 DEF ScheduleFirst, Started, flagV, workV, runV
  <1>4. ASSUME NEW t \in Starters, StartLiveness(t) PROVE RunInv'
    <2>1. \A u \in Holders' : u \in Holders /\ pc'[u] = pc[u]
      <3>1. pc[t] \in {"golive",
         "golive_now"} /\ t \in Threads /\ "boot" \in Threads
        BY <1>4 DEF StartLiveness
      <3>2. CASE Go(t, "undo") \/ Go(t, "verify")
        BY <3>1, <3>2
      <3>3. CASE pc' = [pc EXCEPT ![t] = "verify", !["boot"] = "gate"]
        BY <3>1, <3>3
      <3> QED
        BY <1>4, <3>2, <3>3, StartCases
    <2>2. \A u \in Holders : u \in Holders' /\ pc'[u] = pc[u]
      <3>1. pc[t] \in {"golive",
         "golive_now"} /\ t \in Threads /\ "boot" \in Threads
            /\ (pc[t] = "golive_now" => pc["boot"] = "idle")
        BY <1>4 DEF StartLiveness, BootInv
      <3>2. CASE Go(t, "undo") \/ Go(t, "verify")
        BY <3>1, <3>2
      <3>3. CASE pc[t] = "golive_now" /\ pc' = [pc EXCEPT ![t] = "verify",
         !["boot"] = "gate"]
        BY <3>1, <3>3
      <3> QED
        BY <1>4, <3>2, <3>3, StartCases
    <2> QED
      BY <1>4, <2>1, <2>2 DEF StartLiveness, flagV, workV, runV
  <1>5. ASSUME NEW t \in Starters, Verify(t) PROVE RunInv'
    BY <1>5 DEF Verify, Started, flagV, workV, runV
  <1>6. ASSUME NEW t \in Starters, DropJob(t) PROVE RunInv'
    BY <1>6 DEF DropJob, Started, flagV, workV, runV
  <1>7. ASSUME NEW t \in Starters, DropLiveness(t) PROVE RunInv'
    BY <1>7 DEF DropLiveness, Started, flagV, workV, runV
  <1>8. ASSUME NEW t \in Starters, Unregister(t) PROVE RunInv'
    BY <1>8 DEF Unregister, Stopped, flagV, workV, runV
  <1>9. ASSUME NEW t \in Starters, StopJob(t) PROVE RunInv'
    BY <1>9 DEF StopJob, flagV, workV, runV
  <1>10. ASSUME NEW t \in Starters, StopLiveness(t) PROVE RunInv'
    BY <1>10 DEF StopLiveness, Stopped, flagV, workV, runV
  <1>11. ASSUME NEW t \in Tickers, Gate(t) PROVE RunInv'
    BY <1>11 DEF Gate, Scheduled, flagV, workV, runV
  <1>12. ASSUME NEW t \in Tickers, Probe(t) PROVE RunInv'
    <2>1. pc[t] = "probe" /\ (Go(t, "skip") \/ Go(t, "claim") \/ Go(t, "rearm") \/ Return(t))
      BY <1>12, ProbeCases
    <2> QED
      BY <1>12, <2>1 DEF Probe, flagV, workV, runV
  <1>13. ASSUME NEW t \in Tickers, SkipSummary(t) PROVE RunInv'
    BY <1>13 DEF SkipSummary, flagV, workV, runV
  <1>14. ASSUME NEW t \in Tickers, SkipLiveness(t) PROVE RunInv'
    BY <1>14 DEF SkipLiveness, Leave, Scheduled, flagV, workV, runV
  <1>15. ASSUME NEW t \in Tickers, Rearm(t) PROVE RunInv'
    BY <1>15 DEF Rearm, flagV, workV, runV
  <1>16. ASSUME NEW t \in Tickers, Claim(t) PROVE RunInv'
    BY <1>16 DEF Claim, Scheduled, flagV, workV, runV
  <1>17. ASSUME NEW t \in Tickers, Begin(t) PROVE RunInv'
    <2>1. NewRun \in Runs /\ NewRun # 0
      BY FreshRun, SnapshotAssumption DEF NewRun
    <2>2. t \in Holders /\ Holders = {t} /\ active /\ late = 0
      BY <1>17 DEF Begin
    <2>3. Holders' = {t} /\ pc'[t] = "write"
      BY <1>17, <2>2 DEF Begin
    <2> QED
      BY <1>17, <2>1, <2>2, <2>3 DEF Begin, flagV, workV
  <1>18. ASSUME NEW t \in Tickers, Write(t) PROVE RunInv'
    BY <1>18 DEF Write, flagV, runV
  <1>19. ASSUME NEW t \in Tickers, Wait(t) PROVE RunInv'
    BY <1>19 DEF Wait, flagV
  <1>20. ASSUME NEW t \in Tickers, RecordLiveness(t) PROVE RunInv'
    BY <1>20 DEF RecordLiveness, flagV, workV
  <1>21. ASSUME NEW t \in Tickers, Summary(t) PROVE RunInv'
    BY <1>21 DEF Summary, flagV, workV, runV
  <1>22. ASSUME NEW t \in Tickers, Finish(t) PROVE RunInv'
    BY <1>22 DEF Finish, flagV, ClearFlags, Leave, Scheduled, workV
  <1>23. ASSUME NEW t \in Tickers, RegisterCallback(t) PROVE RunInv'
    <2>1. pc[t] = "register" /\ t \in Holders /\ Holders = {t} /\ active /\ late = 0 /\ run # 0
      BY <1>23 DEF RegisterCallback
    <2>2. CASE future = "none" /\ ClearFlags(t) /\ Go(t, "force") /\ UNCHANGED late
      <3>1. Holders' = {}
        BY <2>1, <2>2
      <3> QED
        BY <1>23, <2>1, <2>2, <3>1 DEF RegisterCallback, ClearFlags
    <2>3. CASE future = "done" /\ Go(t, "c_live") /\ UNCHANGED <<flagV, run, out,
       late>>
      <3>1. Holders' = {t} /\ pc'[t] = "c_live"
        BY <2>1, <2>3
      <3> QED
        BY <1>23, <2>1, <2>3, <3>1 DEF RegisterCallback, flagV
    <2>4. CASE late' = me[t] /\ Return(t) /\ UNCHANGED <<flagV, run, out>>
      <3>1. Holders' = {}
        BY <2>1, <2>4
      <3>2. me[t] # 0
        BY <2>1 DEF WorksFor, Acting, Tick
      <3> QED
        BY <1>23, <2>1, <2>4, <3>1, <3>2 DEF RegisterCallback, flagV
    <2> QED
      BY <1>23, <2>2, <2>3, <2>4, RegisterCases
  <1>24. ASSUME NEW t \in Threads, CompleteLiveness(t) PROVE RunInv'
    BY <1>24 DEF CompleteLiveness, flagV, workV, runV
  <1>25. ASSUME NEW t \in Threads, CompleteSummary(t) PROVE RunInv'
    BY <1>25 DEF CompleteSummary, flagV, workV, runV
  <1>26. ASSUME NEW t \in Threads, CompleteClear(t) PROVE RunInv'
    BY <1>26 DEF CompleteClear, ClearFlags
  <1>27. ASSUME NEW t \in Threads, ForceRearm(t) PROVE RunInv'
    BY <1>27 DEF ForceRearm, flagV, workV, runV
  <1>28. ASSUME NEW m \in Marks, Progress(m) PROVE RunInv'
    BY <1>28 DEF Progress, Scoring, flagV, workV, runV
  <1>29. CASE BuildDone
    BY <1>29 DEF BuildDone, flagV
  <1>30. CASE Release
    BY <1>30 DEF Release, flagV, runV
  <1>31. CASE Revive
    BY <1>31 DEF Revive, flagV, workV, runV
  <1>32. CASE RunOnce
    BY <1>32 DEF RunOnce, flagV, workV, runV
  <1>33. CASE Shutdown
    BY <1>33 DEF Shutdown, flagV, workV, runV
  <1>34. CASE Fire
    BY <1>34 DEF Fire, flagV, workV, runV
  <1>35. CASE Lose
    BY <1>35 DEF Lose, flagV, workV, runV
  <1>36. CASE Crash
    BY <1>36 DEF Crash, NoGens, NewPc, Nobody
  <1> QED
    BY <1>1, <1>2, <1>3, <1>4, <1>5, <1>6, <1>7, <1>8, <1>9, <1>10, <1>11, <1>12,
       <1>13, <1>14, <1>15, <1>16, <1>17, <1>18, <1>19, <1>20, <1>21, <1>22, <1>23,
       <1>24, <1>25, <1>26, <1>27, <1>28, <1>29, <1>30, <1>31, <1>32, <1>33, <1>34,
       <1>35, <1>36
       DEF Next, StartStep, StopStep, TickStep, BuildStep, CompleteStep, Threads,
          Tickers, Starters

\* The initial state.
LEMMA InvInit == Init => Inv
  <1> SUFFICES ASSUME Init PROVE Inv
    OBVIOUS
  <1> USE DEF Init
  <1>1. TypeOK
    <2>1. crashes \in 0..MaxCrashes /\ cycle \in [run : Runs \cup {0}, mark : Marks \cup {0}]
      BY SnapshotAssumption DEF Blank
    <2>2. live \in Record
      BY DEF Record
    <2> QED
      BY <2>1, <2>2, EmptyTypes, GenBounds DEF TypeOK
  <1>2. ControlOK
    BY EmptyTypes DEF ControlOK, WorksFor, NewPc, Acting, Tick, Body, Complete, Starting, Stopping
  <1>3. BootInv
    BY DEF BootInv, NewPc, Threads, Starters, Tickers
  <1>4. Holders = {}
    BY DEF Holders, NewPc, Body, Complete
  <1>5. FlagInv
    BY <1>4, GenBounds DEF FlagInv, NoGens
  <1>6. GenInv
    BY SomeThread DEF GenInv, NoGens, Nobody, NewPc
  <1>7. LifeInv
    BY DEF LifeInv, NoGens
  <1>8. JobInv
    BY SomeThread DEF JobInv, NoGens, Nobody
  <1>9. RunInv
    BY <1>4 DEF RunInv
  <1> QED
    BY <1>1, <1>2, <1>3, <1>5, <1>6, <1>7, <1>8, <1>9 DEF Inv, TypeInv

\* A step that changes nothing.
LEMMA InvFrame == Inv /\ UNCHANGED vars => Inv'
  <1> SUFFICES ASSUME Inv, UNCHANGED vars PROVE Inv'
    OBVIOUS
  <1> USE DEF Inv, vars, schedV, jobV, flagV, workV, liveV, runV
  <1>1. TypeInv' /\ BootInv'
    BY DEF TypeInv, TypeOK, ControlOK, WorksFor, BootInv
  <1>2. FlagInv' /\ RunInv'
    BY DEF FlagInv, RunInv, Holders
  <1>3. GenInv' /\ LifeInv'
    BY DEF GenInv, LifeInv
  <1>4. JobInv'
    BY DEF JobInv, WillRearm, Scheduled
  <1> QED
    BY <1>1, <1>2, <1>3, <1>4

\* The invariant is inductive.
LEMMA InvStep == Inv /\ [Next]_vars => Inv'
  <1> SUFFICES ASSUME Inv, [Next]_vars PROVE Inv'
    OBVIOUS
  <1>1. CASE Next
    <2>1. TypeInv'
      BY <1>1, ControlStep, DataStep DEF Inv, TypeInv
    <2>2. BootInv' /\ FlagInv' /\ GenInv'
      BY <1>1, BootStep, FlagStep, GenStep DEF Inv
    <2>3. LifeInv' /\ JobInv' /\ RunInv'
      BY <1>1, LifeStep, JobStep, RunStep DEF Inv
    <2> QED
      BY <2>1, <2>2, <2>3 DEF Inv
  <1>2. CASE UNCHANGED vars
    BY <1>2, InvFrame
  <1> QED
    BY <1>1, <1>2

\* Every reachable state has the inductive invariant.
THEOREM InvAlways == Spec => []Inv
  BY InvInit, InvStep, PTL DEF Spec

(***************************************************************************)
(* The properties.                                                         *)
(***************************************************************************)

\* TypeOK: every variable keeps its range, whatever is fenced, lost or restarted.
THEOREM TypeAlways == Spec => []TypeOK
  <1>1. Inv => TypeOK
    BY DEF Inv, TypeInv
  <1> QED
    BY <1>1, InvAlways, PTL

\* FlagHasOneOwner: the active flag has exactly one holder, and it is never left up
\* nor taken down under a tick at work (_tick_body, _complete_write_future).
THEOREM FlagHasOneOwnerAlways == Spec => []FlagHasOneOwner
  <1>1. Inv => FlagHasOneOwner
    <2> SUFFICES ASSUME TypeInv, FlagInv PROVE FlagHasOneOwner
      BY DEF Inv
    <2>1. CASE Holders = {}
      <3>1. Cardinality(Holders) = 0
        BY <2>1, FS_EmptySet
      <3>2. active <=> late # 0
        BY <2>1 DEF FlagInv
      <3> QED
        BY <3>1, <3>2 DEF FlagHasOneOwner, FlagInv, TypeInv, TypeOK
    <2>2. CASE Holders # {}
      <3>1. PICK t \in Holders : TRUE
        BY <2>2
      <3>2. Holders = {t} /\ active /\ late = 0
        BY <3>1 DEF FlagInv
      <3>3. Cardinality(Holders) = 1
        BY <3>2, FS_Singleton
      <3> QED
        BY <3>2, <3>3 DEF FlagHasOneOwner, FlagInv
    <2> QED
      BY <2>1, <2>2
  <1> QED
    BY <1>1, InvAlways, PTL

\* ArmedAlive: an armed generation has its job, or somebody who will set it, unless
\* APScheduler dropped the job (_schedule_tick, _cancel_own_job, _tick).
THEOREM ArmedAliveAlways == Spec => []ArmedAlive
  <1>1. Inv => ArmedAlive
    <2> SUFFICES ASSUME TypeInv, JobInv PROVE ArmedAlive
      BY DEF Inv
    <2>1. \A g \in Gens : scheduler = g /\ armed[g] /\ Settled => job = g \/ WillRearm(g) \/ lost
      BY DEF JobInv, Settled, Starting
    <2> QED
      BY <2>1, GenBounds DEF ArmedAlive, JobInv, TypeInv, TypeOK
  <1> QED
    BY <1>1, InvAlways, PTL

\* LifeTruth: the record of an armed generation says "started", whoever stopped or
\* started another meanwhile (_persist_liveness, _start_liveness).
THEOREM LifeTruthAlways == Spec => []LifeTruth
  <1>1. Inv => LifeTruth
    <2> SUFFICES ASSUME TypeInv, LifeInv PROVE LifeTruth
      BY DEF Inv
    <2>1. \A g \in Gens : scheduler = g /\ armed[g] /\ Settled => live.life = "started"
      BY DEF LifeInv, Settled, Starting
    <2> QED
      BY <2>1, GenBounds DEF LifeTruth, TypeInv, TypeOK
  <1> QED
    BY <1>1, InvAlways, PTL

\* The producer's step of a step.
ProducerMove == [Producer!ProducerNext]_(Producer!producerVars)

\* What the revive takes for a running tick is the active flag.
LEMMA BusyIsActive == Inv => Busy = active
  <1> SUFFICES ASSUME Inv PROVE Busy <=> active
    BY Zenon DEF Inv, TypeInv, TypeOK, Busy
  <1>1. future = "live" => active
    BY DEF Inv, RunInv, FlagInv
  <1>2. scheduler # 0 /\ mine[scheduler] => active
    BY GenBounds DEF Inv, FlagInv, TypeInv, TypeOK
  <1> QED
    BY <1>1, <1>2 DEF Busy

\* The same after a step.
LEMMA BusyNextIsActive == Inv' => (Busy = active)'
  BY BusyIsActive, PTL

\* Every step is one of the abstract producer, or none.
LEMMA ProducerStep ==
    ASSUME Inv, Inv', Next
    PROVE  ProducerMove
  <1>0. Busy = active /\ Busy' = active'
    BY BusyIsActive, BusyNextIsActive
  <1> USE <1>0 DEF ProducerMove, Producer!producerVars
  <1>1. ASSUME NEW t \in Starters, RegisterGen(t) PROVE ProducerMove
    BY <1>1 DEF RegisterGen, flagV, runV
  <1>2. ASSUME NEW t \in Starters, Arm(t) PROVE ProducerMove
    BY <1>2 DEF Arm, flagV, runV
  <1>3. ASSUME NEW t \in Starters, ScheduleFirst(t) PROVE ProducerMove
    BY <1>3 DEF ScheduleFirst, flagV, runV
  <1>4. ASSUME NEW t \in Starters, StartLiveness(t) PROVE ProducerMove
    BY <1>4 DEF StartLiveness, flagV, runV
  <1>5. ASSUME NEW t \in Starters, Verify(t) PROVE ProducerMove
    BY <1>5 DEF Verify, flagV, runV
  <1>6. ASSUME NEW t \in Starters, DropJob(t) PROVE ProducerMove
    BY <1>6 DEF DropJob, flagV, runV
  <1>7. ASSUME NEW t \in Starters, DropLiveness(t) PROVE ProducerMove
    BY <1>7 DEF DropLiveness, flagV, runV
  <1>8. ASSUME NEW t \in Starters, Unregister(t) PROVE ProducerMove
    BY <1>8 DEF Unregister, flagV, runV
  <1>9. ASSUME NEW t \in Starters, StopJob(t) PROVE ProducerMove
    BY <1>9 DEF StopJob, flagV, runV
  <1>10. ASSUME NEW t \in Starters, StopLiveness(t) PROVE ProducerMove
    BY <1>10 DEF StopLiveness, flagV, runV
  <1>11. ASSUME NEW t \in Tickers, Gate(t) PROVE ProducerMove
    BY <1>11 DEF Gate, flagV, runV
  <1>12. ASSUME NEW t \in Tickers, Probe(t) PROVE ProducerMove
    BY <1>12 DEF Probe, flagV, runV
  <1>13. ASSUME NEW t \in Tickers, SkipSummary(t) PROVE ProducerMove
    BY <1>13 DEF SkipSummary, Blank, flagV, runV, Producer!ProducerNext,
       Producer!CloseRow, Producer!NoRow
  <1>14. ASSUME NEW t \in Tickers, SkipLiveness(t) PROVE ProducerMove
    BY <1>14 DEF SkipLiveness, flagV, runV
  <1>15. ASSUME NEW t \in Tickers, Rearm(t) PROVE ProducerMove
    BY <1>15 DEF Rearm, flagV, runV
  <1>16. ASSUME NEW t \in Tickers, Claim(t) PROVE ProducerMove
    BY <1>16 DEF Claim, flagV, runV, Producer!ProducerNext, Producer!TakeTick
  <1>17. ASSUME NEW t \in Tickers, Begin(t) PROVE ProducerMove
    <2>1. active /\ run = 0
      BY <1>17 DEF Begin, Inv, FlagInv, RunInv, Holders, Body, Complete, Tickers,
         Threads
    <2>2. NewRun \in Runs /\ NewRun # cycle.run
      BY FreshRun DEF NewRun, Inv, TypeInv, TypeOK
    <2>3. Producer!BeginRun(NewRun)
      BY <1>17, <2>1, <2>2 DEF Begin, Scoring, flagV, Producer!BeginRun
    <2> QED
      BY <2>2, <2>3 DEF Producer!ProducerNext
  <1>18. ASSUME NEW t \in Tickers, Write(t) PROVE ProducerMove
    BY <1>18 DEF Write, flagV, runV
  <1>19. ASSUME NEW t \in Tickers, Wait(t) PROVE ProducerMove
    BY <1>19 DEF Wait, flagV
  <1>20. ASSUME NEW t \in Tickers, RecordLiveness(t) PROVE ProducerMove
    BY <1>20 DEF RecordLiveness, flagV
  <1>21. ASSUME NEW t \in Tickers, Summary(t) PROVE ProducerMove
    BY <1>21 DEF Summary, Blank, flagV, runV, Producer!ProducerNext,
       Producer!CloseRow, Producer!NoRow
  <1>22. ASSUME NEW t \in Tickers, Finish(t) PROVE ProducerMove
    <2>1. active /\ run # 0
      BY <1>22 DEF Finish, Inv, FlagInv, RunInv, Holders, Body, Complete, Tickers,
         Threads
    <2> QED
      BY <1>22, <2>1 DEF Finish, ClearFlags, flagV, Producer!ProducerNext,
         Producer!EndTick
  <1>23. ASSUME NEW t \in Tickers, RegisterCallback(t) PROVE ProducerMove
    <2>1. active /\ run # 0
      BY <1>23 DEF RegisterCallback, Inv, FlagInv, RunInv, Holders, Body, Complete,
         Tickers, Threads
    <2>2. UNCHANGED cycle /\ (ClearFlags(t) \/ UNCHANGED <<active, run>>)
      BY <1>23, RegisterCases DEF RegisterCallback, Inv, TypeInv, flagV
    <2> QED
      BY <2>1, <2>2 DEF ClearFlags, Producer!ProducerNext, Producer!EndTick
  <1>24. ASSUME NEW t \in Threads, CompleteLiveness(t) PROVE ProducerMove
    BY <1>24 DEF CompleteLiveness, flagV, runV
  <1>25. ASSUME NEW t \in Threads, CompleteSummary(t) PROVE ProducerMove
    BY <1>25 DEF CompleteSummary, Blank, flagV, runV, Producer!ProducerNext,
       Producer!CloseRow, Producer!NoRow
  <1>26. ASSUME NEW t \in Threads, CompleteClear(t) PROVE ProducerMove
    <2>1. active /\ run # 0
      BY <1>26 DEF CompleteClear, Inv, FlagInv, RunInv, Holders, Body, Complete,
         Tickers, Threads
    <2> QED
      BY <1>26, <2>1 DEF CompleteClear, ClearFlags, Producer!ProducerNext,
         Producer!EndTick
  <1>27. ASSUME NEW t \in Threads, ForceRearm(t) PROVE ProducerMove
    BY <1>27 DEF ForceRearm, flagV, runV
  <1>28. ASSUME NEW m \in Marks, Progress(m) PROVE ProducerMove
    <2>1. active /\ run # 0
      BY <1>28 DEF Progress, Inv, FlagInv, RunInv
    <2>2. Producer!AdvanceRun(m)
      BY <1>28, <2>1 DEF Progress, Scoring, flagV, runV, Producer!AdvanceRun
    <2> QED
      BY <2>2 DEF Producer!ProducerNext
  <1>29. CASE BuildDone
    BY <1>29 DEF BuildDone, flagV
  <1>30. CASE Release
    BY <1>30 DEF Release, flagV, runV
  <1>31. CASE Revive
    BY <1>31 DEF Revive, flagV, runV
  <1>32. CASE RunOnce
    BY <1>32 DEF RunOnce, flagV, runV
  <1>33. CASE Shutdown
    BY <1>33 DEF Shutdown, flagV, runV
  <1>34. CASE Fire
    BY <1>34 DEF Fire, flagV, runV
  <1>35. CASE Lose
    BY <1>35 DEF Lose, flagV, runV
  <1>36. CASE Crash
    BY <1>36 DEF Crash, Producer!ProducerNext, Producer!EndProcess
  <1> QED
    BY <1>1, <1>2, <1>3, <1>4, <1>5, <1>6, <1>7, <1>8, <1>9, <1>10, <1>11, <1>12,
       <1>13, <1>14, <1>15, <1>16, <1>17, <1>18, <1>19, <1>20, <1>21, <1>22, <1>23,
       <1>24, <1>25, <1>26, <1>27, <1>28, <1>29, <1>30, <1>31, <1>32, <1>33, <1>34,
       <1>35, <1>36
       DEF Next, StartStep, StopStep, TickStep, BuildStep, CompleteStep, Threads,
          Tickers, Starters

LEMMA SuccessStep ==
    ASSUME Inv, Next
    PROVE  live.ok => live'.ok
  <1> USE GenBounds, SomeThread
  <1>1. ASSUME NEW t \in Starters, RegisterGen(t) PROVE live.ok => live'.ok
    BY <1>1 DEF RegisterGen
  <1>2. ASSUME NEW t \in Starters, Arm(t) PROVE live.ok => live'.ok
    BY <1>2 DEF Arm, liveV
  <1>3. ASSUME NEW t \in Starters, ScheduleFirst(t) PROVE live.ok => live'.ok
    BY <1>3 DEF ScheduleFirst, liveV
  <1>4. ASSUME NEW t \in Starters, StartLiveness(t) PROVE live.ok => live'.ok
    <2>1. me[t] \in Gens
      BY <1>4 DEF StartLiveness, Inv, TypeInv, TypeOK, ControlOK, WorksFor, Acting,
         Starting
    <2>2. CASE OwnsRecord(me[t], TRUE)
      BY <1>4, <2>1, <2>2, StartEffect DEF StartLiveness, Inv, TypeInv, LifeInv
    <2>3. CASE ~OwnsRecord(me[t], TRUE)
      BY <1>4, <2>3 DEF StartLiveness, PersistLiveness, liveV
    <2> QED
      BY <2>2, <2>3
  <1>5. ASSUME NEW t \in Starters, Verify(t) PROVE live.ok => live'.ok
    BY <1>5 DEF Verify, liveV
  <1>6. ASSUME NEW t \in Starters, DropJob(t) PROVE live.ok => live'.ok
    BY <1>6 DEF DropJob, liveV
  <1>7. ASSUME NEW t \in Starters, DropLiveness(t) PROVE live.ok => live'.ok
    <2>1. me[t] \in Gens /\ scheduler # me[t]
      BY <1>7 DEF DropLiveness, Inv, TypeInv, TypeOK, ControlOK, WorksFor, Acting,
         Starting, Stopping, GenInv
    <2> QED
      BY <1>7, <2>1, StopEffect DEF DropLiveness, Inv, TypeInv, LifeInv, liveV
  <1>8. ASSUME NEW t \in Starters, Unregister(t) PROVE live.ok => live'.ok
    BY <1>8 DEF Unregister, liveV
  <1>9. ASSUME NEW t \in Starters, StopJob(t) PROVE live.ok => live'.ok
    BY <1>9 DEF StopJob, liveV
  <1>10. ASSUME NEW t \in Starters, StopLiveness(t) PROVE live.ok => live'.ok
    <2>1. me[t] \in Gens /\ scheduler # me[t]
      BY <1>10 DEF StopLiveness, Inv, TypeInv, TypeOK, ControlOK, WorksFor, Acting,
         Starting, Stopping, GenInv
    <2> QED
      BY <1>10, <2>1, StopEffect DEF StopLiveness, Inv, TypeInv, LifeInv, liveV
  <1>11. ASSUME NEW t \in Tickers, Gate(t) PROVE live.ok => live'.ok
    BY <1>11 DEF Gate, liveV
  <1>12. ASSUME NEW t \in Tickers, Probe(t) PROVE live.ok => live'.ok
    BY <1>12 DEF Probe, liveV
  <1>13. ASSUME NEW t \in Tickers, SkipSummary(t) PROVE live.ok => live'.ok
    BY <1>13 DEF SkipSummary, liveV
  <1>14. ASSUME NEW t \in Tickers, SkipLiveness(t) PROVE live.ok => live'.ok
    <2>1. me[t] \in Gens /\ FALSE \in BOOLEAN
      BY <1>14 DEF SkipLiveness, Inv, TypeInv, TypeOK, ControlOK, WorksFor, Acting,
         Tick, Body, Complete
    <2> QED
      BY <1>14, <2>1, ResultEffect DEF SkipLiveness, Inv, TypeInv, LifeInv, liveV
  <1>15. ASSUME NEW t \in Tickers, Rearm(t) PROVE live.ok => live'.ok
    BY <1>15 DEF Rearm, liveV
  <1>16. ASSUME NEW t \in Tickers, Claim(t) PROVE live.ok => live'.ok
    BY <1>16 DEF Claim, liveV
  <1>17. ASSUME NEW t \in Tickers, Begin(t) PROVE live.ok => live'.ok
    BY <1>17 DEF Begin, liveV
  <1>18. ASSUME NEW t \in Tickers, Write(t) PROVE live.ok => live'.ok
    BY <1>18 DEF Write, liveV
  <1>19. ASSUME NEW t \in Tickers, Wait(t) PROVE live.ok => live'.ok
    BY <1>19 DEF Wait, liveV
  <1>20. ASSUME NEW t \in Tickers, RecordLiveness(t) PROVE live.ok => live'.ok
    <2>1. me[t] \in Gens /\ res[t] \in BOOLEAN
      BY <1>20 DEF RecordLiveness, Inv, TypeInv, TypeOK, ControlOK, WorksFor,
         Acting, Tick, Body, Complete
    <2> QED
      BY <1>20, <2>1, ResultEffect DEF RecordLiveness, Inv, TypeInv, LifeInv, liveV
  <1>21. ASSUME NEW t \in Tickers, Summary(t) PROVE live.ok => live'.ok
    BY <1>21 DEF Summary, liveV
  <1>22. ASSUME NEW t \in Tickers, Finish(t) PROVE live.ok => live'.ok
    BY <1>22 DEF Finish, liveV
  <1>23. ASSUME NEW t \in Tickers, RegisterCallback(t) PROVE live.ok => live'.ok
    BY <1>23 DEF RegisterCallback, liveV
  <1>24. ASSUME NEW t \in Threads, CompleteLiveness(t) PROVE live.ok => live'.ok
    <2>1. me[t] \in Gens /\ out \in BOOLEAN
      BY <1>24 DEF CompleteLiveness, Inv, TypeInv, TypeOK, ControlOK, WorksFor,
         Acting, Tick, Body, Complete
    <2> QED
      BY <1>24, <2>1, ResultEffect DEF CompleteLiveness, Inv, TypeInv, LifeInv,
         liveV
  <1>25. ASSUME NEW t \in Threads, CompleteSummary(t) PROVE live.ok => live'.ok
    BY <1>25 DEF CompleteSummary, liveV
  <1>26. ASSUME NEW t \in Threads, CompleteClear(t) PROVE live.ok => live'.ok
    BY <1>26 DEF CompleteClear, liveV
  <1>27. ASSUME NEW t \in Threads, ForceRearm(t) PROVE live.ok => live'.ok
    BY <1>27 DEF ForceRearm, liveV
  <1>28. ASSUME NEW m \in Marks, Progress(m) PROVE live.ok => live'.ok
    BY <1>28 DEF Progress, liveV
  <1>29. CASE BuildDone
    BY <1>29 DEF BuildDone, liveV
  <1>30. CASE Release
    BY <1>30 DEF Release, liveV
  <1>31. CASE Revive
    BY <1>31 DEF Revive, liveV
  <1>32. CASE RunOnce
    BY <1>32 DEF RunOnce, liveV
  <1>33. CASE Shutdown
    BY <1>33 DEF Shutdown, liveV
  <1>34. CASE Fire
    BY <1>34 DEF Fire, liveV
  <1>35. CASE Lose
    BY <1>35 DEF Lose, liveV
  <1>36. CASE Crash
    BY <1>36 DEF Crash
  <1> QED
    BY <1>1, <1>2, <1>3, <1>4, <1>5, <1>6, <1>7, <1>8, <1>9, <1>10, <1>11, <1>12,
       <1>13, <1>14, <1>15, <1>16, <1>17, <1>18, <1>19, <1>20, <1>21, <1>22, <1>23,
       <1>24, <1>25, <1>26, <1>27, <1>28, <1>29, <1>30, <1>31, <1>32, <1>33, <1>34,
       <1>35, <1>36
       DEF Next, StartStep, StopStep, TickStep, BuildStep, CompleteStep, Threads,
          Tickers, Starters

\* SuccessKept: a success in the liveness record is never forgotten, however late a
\* generation writes its own, and a restart carries it on (_persist_liveness).
THEOREM SuccessKeptAlways == Spec => SuccessKept
  <1>1. Inv /\ [Next]_vars => [live.ok => live'.ok]_live
    <2> SUFFICES ASSUME Inv, [Next]_vars PROVE live.ok => live'.ok \/ UNCHANGED live
      OBVIOUS
    <2>1. CASE Next
      BY <2>1, SuccessStep
    <2>2. CASE UNCHANGED vars
      BY <2>2 DEF vars, liveV
    <2> QED
      BY <2>1, <2>2
  <1> QED
    BY <1>1, InvAlways, PTL DEF Spec, SuccessKept

\* ProducerRefined: the scheduler, its ticks and its builds do what SnapshotProducer
\* promises, which LoopStallGuard relies on.
THEOREM ProducerRefines == Spec => ProducerRefined
  <1>1. Init => Producer!ProducerInit
    BY InvInit, BusyIsActive DEF Init, Blank, Producer!ProducerInit, Producer!NoRow
  <1>2. Inv /\ Inv' /\ [Next]_vars => [Producer!ProducerNext]_(Producer!producerVars)
    <2> SUFFICES ASSUME Inv, Inv', [Next]_vars PROVE ProducerMove
      BY DEF ProducerMove
    <2>1. CASE Next
      BY <2>1, ProducerStep
    <2>2. CASE UNCHANGED vars
      BY <2>2 DEF ProducerMove, Producer!producerVars, Busy, vars, schedV, flagV, workV, runV
    <2> QED
      BY <2>1, <2>2
  <1> QED
    BY <1>1, <1>2, InvAlways, PTL DEF Spec, ProducerRefined, Producer!ProducerSpec
===============================================================================
