------------------------- MODULE JobSchedulerProofs -------------------------
(***************************************************************************)
(* What holds of JobScheduler for every set of loops and every bound.      *)
(***************************************************************************)
EXTENDS JobScheduler, TLAPS

\* A retry is only ever scheduled from a run above the depth bound, and a
\* thread that is past get_background_scheduler works on a scheduler that was made.
CallInv ==
    /\ \A t \in Threads : pc[t] \in {"enter", "get", "install", "add"} /\ mode[t] = "retry"
           => t \in Ids /\ t[2] < MaxDepth
    /\ \A t \in Threads : mode[t] # "start" => t \in Ids
    /\ \A t \in Threads : pc[t] \in {"install", "add"} => sched # "none"
    /\ sched \in {"closing", "stopped"} => shuttingDown

Inv == TypeOK /\ CallInv

LEMMA FirstId == \A j \in Loops : First(j) \in Ids
  BY BoundsAssumption DEF First, Ids

LEMMA ThreadLoop == \A t \in Threads : t[1] \in Loops
  BY DEF Threads, Ids

LEMMA InvInit == Init => Inv
  <1> SUFFICES ASSUME Init PROVE TypeOK /\ CallInv
    BY DEF Inv
  <1>1. TypeOK
    BY DEF Init, TypeOK, Labels, Modes
  <1>2. CallInv
    BY DEF Init, CallInv
  <1> QED
    BY <1>1, <1>2

LEMMA InvFail ==
    ASSUME Inv, NEW x \in Ids, Fail(x), x[2] < MaxDepth \/ shuttingDown
    PROVE  Inv'
  <1>1. x \in Threads /\ x[1] \in Loops
    BY DEF Threads, Ids
  <1>2. TypeOK'
    BY <1>1 DEF Inv, TypeOK, Fail, Go, Labels, Modes, schedVars
  <1>3. CallInv'
    BY <1>1 DEF Inv, TypeOK, CallInv, Fail, Go, schedVars
  <1> QED
    BY <1>2, <1>3 DEF Inv

LEMMA LeaveType ==
    ASSUME Inv, NEW t \in Threads, Leave(t), UNCHANGED schedVars,
           store' \subseteq Ids
    PROVE  Inv'
  <1> USE ThreadLoop DEF Inv, TypeOK, Leave, Go, schedVars
  <1>1. TypeOK'
    BY DEF Labels, Modes
  <1>2. CallInv'
    BY DEF CallInv
  <1> QED
    BY <1>1, <1>2

LEMMA InvSchedule ==
    ASSUME Inv, NEW t \in Threads, Schedule(t) PROVE Inv'
  <1> USE DEF Inv
  <1>1. CASE Enter(t)
    <2>1. CASE shuttingDown
      BY <1>1, <2>1, LeaveType DEF Enter, TypeOK
    <2>2. CASE ~shuttingDown
      BY <1>1, <2>2 DEF Enter, Go, TypeOK, CallInv, Labels, schedVars, loopVars
    <2> QED
      BY <2>1, <2>2
  <1>2. CASE Get(t)
    <2>1. CASE ~shuttingDown
      <3>1. TypeOK'
        BY <1>2, <2>1 DEF Get, Go, TypeOK, Labels, loopVars
      <3>2. CallInv'
        BY <1>2, <2>1 DEF Get, Go, TypeOK, CallInv, loopVars
      <3> QED
        BY <3>1, <3>2
    <2>2. CASE shuttingDown /\ mode[t] = "rearm" /\ Fail(t)
      BY <2>2, InvFail DEF CallInv
    <2>3. CASE shuttingDown /\ Leave(t) /\ UNCHANGED <<schedVars, store>>
      BY <2>3, LeaveType DEF TypeOK
    <2> QED
      BY <1>2, <2>1, <2>2, <2>3 DEF Get, CallInv
  <1>3. CASE Install(t)
    <2>3. installed' \in BOOLEAN /\ listeners' \in Nat
      <3>1. \/ installed' = installed /\ listeners' = listeners
            \/ installed' = TRUE /\ listeners' = listeners + 1
        BY <1>3 DEF Install
      <3>2. installed' \in BOOLEAN
        BY <3>1, Zenon DEF TypeOK
      <3>3. listeners' \in Nat
        BY <3>1 DEF TypeOK
      <3> QED
        BY <3>2, <3>3
    <2>4. pc' \in [Threads -> Labels]
      BY <1>3 DEF Install, Go, TypeOK, Labels
    <2>1. TypeOK'
      BY <1>3, <2>3, <2>4 DEF Install, TypeOK, loopVars
    <2>2. CallInv'
      BY <1>3 DEF Install, Go, TypeOK, CallInv, loopVars
    <2> QED
      BY <2>1, <2>2
  <1>4. CASE Add(t)
    <2>1. Target(t) \in Ids
      <3>1. CASE mode[t] = "retry"
        <4>1. t \in Ids /\ t[2] < MaxDepth /\ Target(t) = <<t[1], t[2] + 1>>
          BY <1>4, <3>1 DEF Add, CallInv, Target
        <4> QED
          BY <4>1, BoundsAssumption DEF Ids
      <3>2. CASE mode[t] # "retry"
        BY <3>2, ThreadLoop, FirstId DEF Target
      <3> QED
        BY <3>1, <3>2
    <2> QED
      BY <1>4, <2>1, LeaveType DEF Add, TypeOK
  <1> QED
    BY <1>1, <1>2, <1>3, <1>4 DEF Schedule

LEMMA InvNext == Inv /\ [Next]_vars => Inv'
  <1> SUFFICES ASSUME Inv, [Next]_vars PROVE Inv'
    OBVIOUS
  <1> USE DEF Inv
  <1>1. CASE \E j \in Loops : Start(j)
    <2> PICK j \in Loops, s \in Starts :
            /\ wanted' = wanted \cup {j} /\ gaveUp' = gaveUp \ {j}
            /\ pc[<<j, s>>] = "idle" /\ Go(<<j, s>>, "enter")
            /\ UNCHANGED <<schedVars, store, mode, retryCounts, fails>>
      BY <1>1 DEF Start
    <2>1. <<j, s>> \in Threads
      BY DEF Threads
    <2>2. TypeOK'
      BY <2>1 DEF Go, TypeOK, Labels, schedVars
    <2>3. \A t \in Threads : t # <<j, s>> => pc'[t] = pc[t]
      BY <2>1 DEF Go, TypeOK
    <2>4. pc'[<<j, s>>] = "enter" /\ <<j, s>> \notin Ids
      BY <2>1, StartsAssumption DEF Go, TypeOK, Ids
    <2>5. CallInv'
      BY <2>1, <2>3, <2>4 DEF CallInv, schedVars
    <2> QED
      BY <2>2, <2>5
  <1>2. CASE \E j \in Loops : Cancel(j)
    BY <1>2 DEF Cancel, TypeOK, CallInv, schedVars
  <1>3. CASE \E t \in Threads : Schedule(t)
    BY <1>3, InvSchedule
  <1>4. CASE \E x \in Ids : BodyOk(x) \/ BodyLast(x)
    <2>1. TypeOK'
      BY <1>4 DEF BodyOk, BodyLast, Go, TypeOK, Labels, Modes, Threads, schedVars, loopVars
    <2>2. CallInv'
      BY <1>4 DEF BodyOk, BodyLast, Go, TypeOK, CallInv, Threads, schedVars, loopVars
    <2> QED
      BY <2>1, <2>2
  <1>5. CASE \E x \in Ids : BodyFail(x)
    BY <1>5, InvFail DEF BodyFail
  <1>6. CASE \E x \in Ids : Fire(x) \/ Drop(x)
    BY <1>6 DEF Fire, Drop, Go, TypeOK, CallInv, Labels, Threads, schedVars, loopVars
  <1>7. CASE Shutdown
    BY <1>7 DEF Shutdown, ShutdownFlag, ShutdownStop, ShutdownJoin, TypeOK, CallInv, loopVars
  <1>8. CASE UNCHANGED vars
    BY <1>8 DEF vars, TypeOK, CallInv, schedVars, loopVars
  <1> QED
    BY <1>1, <1>2, <1>3, <1>4, <1>5, <1>6, <1>7, <1>8 DEF Next

LEMMA InvAlways == Spec => []Inv
  BY InvInit, InvNext, PTL DEF Spec

\* Type correctness of the job store, the counters and the running wrappers.
THEOREM TypeCorrect == Spec => []TypeOK
  BY InvAlways, PTL DEF Inv

(***************************************************************************)
(* No step other than a misfire loses a loop.                              *)
(***************************************************************************)
\* What keeps a loop alive is a thread of it at work or an id of it in the store.
LEMMA AliveThread ==
    ASSUME NEW j \in Loops, NEW t \in Threads, t[1] = j, pc[t] # "idle" PROVE Alive(j)
  BY DEF Alive, Runs, Threads

LEMMA AliveStays ==
    ASSUME NEW j \in Loops, Alive(j), store \subseteq store',
           \A t \in Threads : pc[t] # "idle" => pc'[t] # "idle"
    PROVE  Alive(j)'
  BY DEF Alive, Runs, Threads

LEMMA LoopFail ==
    ASSUME Inv, LoopAlive, NEW x \in Ids, Fail(x) PROVE LoopAlive'
  <1>1. x \in Threads /\ x[1] \in Loops
    BY DEF Threads, Ids
  <1>2. \A j \in wanted' \ gaveUp' : j \in wanted \ gaveUp
    BY DEF Fail
  <1>3. CASE shuttingDown
    BY <1>3 DEF Fail, schedVars, LoopAlive
  <1>4. CASE ~shuttingDown /\ CapReached(x)
    <2>1. SUFFICES ASSUME NEW j \in wanted' \ gaveUp', ~shuttingDown' PROVE Alive(j)'
      BY DEF LoopAlive
    <2>2. j # x[1] /\ j \in wanted \ gaveUp /\ j \in Loops
      BY <1>4, <2>1 DEF Fail, Inv, TypeOK
    <2>3. Alive(j)
      BY <1>4, <2>2 DEF LoopAlive
    <2>4. store' = store /\ \A t \in Threads : t # x => pc'[t] = pc[t]
      BY DEF Fail, Go, Inv, TypeOK
    <2>5. \A t \in Threads : t[1] = j => pc'[t] = pc[t]
      BY <2>2, <2>4
    <2> QED
      BY <2>2, <2>3, <2>4, <2>5 DEF Alive, Runs, Threads
  <1>5. CASE ~shuttingDown /\ ~CapReached(x)
    <2>1. pc' = [pc EXCEPT ![x] = "enter"] /\ store' = store /\ wanted' = wanted
          /\ gaveUp' = gaveUp /\ shuttingDown' = shuttingDown
      BY <1>5 DEF Fail, Go, schedVars
    <2>2. \A t \in Threads : pc[t] # "idle" => pc'[t] # "idle"
      BY <1>1, <2>1 DEF Inv, TypeOK
    <2> QED
      BY <2>1, <2>2, AliveStays DEF LoopAlive, Inv, TypeOK
  <1> QED
    BY <1>3, <1>4, <1>5

LEMMA LoopNext ==
    ASSUME Inv, LoopAlive, [Next]_vars, Misfires = FALSE PROVE LoopAlive'
  <1> USE DEF Inv, TypeOK
  <1>1. ASSUME NEW j \in Loops, Start(j) PROVE LoopAlive'
    <2>1. PICK s \in Starts :
            /\ wanted' = wanted \cup {j} /\ gaveUp' = gaveUp \ {j}
            /\ pc[<<j, s>>] = "idle" /\ Go(<<j, s>>, "enter")
            /\ UNCHANGED <<schedVars, store, mode, retryCounts, fails>>
      BY <1>1 DEF Start
    <2>2. <<j, s>> \in Threads /\ pc' = [pc EXCEPT ![<<j, s>>] = "enter"] /\ store' = store
      BY <2>1 DEF Threads, Go
    <2>3. \A t \in Threads : pc[t] # "idle" => pc'[t] # "idle"
      BY <2>2
    <2>4. Alive(j)'
      BY <2>2 DEF Alive
    <2>5. \A k \in wanted' \ gaveUp' : k = j \/ k \in wanted \ gaveUp
      BY <2>1
    <2>6. shuttingDown' = shuttingDown
      BY <2>1 DEF schedVars
    <2> QED
      BY <2>2, <2>3, <2>4, <2>5, <2>6, AliveStays DEF LoopAlive
  <1>2. ASSUME NEW j \in Loops, Cancel(j) PROVE LoopAlive'
    <2>1. /\ wanted' = wanted \ {j} /\ store' = store \ {First(j)} /\ pc' = pc
          /\ gaveUp' = gaveUp /\ shuttingDown' = shuttingDown
      BY <1>2 DEF Cancel, schedVars
    <2>2. ASSUME NEW k \in Loops, k # j, Alive(k) PROVE Alive(k)'
      BY <2>1, <2>2 DEF Alive, Runs, First
    <2> QED
      BY <2>1, <2>2 DEF LoopAlive
  <1>3. ASSUME NEW t \in Threads, Schedule(t) PROVE LoopAlive'
    <2>1. CASE Enter(t)
      <3>1. CASE shuttingDown
        BY <2>1, <3>1 DEF Enter, LoopAlive, schedVars
      <3>2. CASE ~shuttingDown
        <4>1. pc' = [pc EXCEPT ![t] = "get"] /\ UNCHANGED <<store, wanted, gaveUp, shuttingDown>>
          BY <2>1, <3>2 DEF Enter, Go, loopVars, schedVars
        <4>2. \A u \in Threads : pc[u] # "idle" => pc'[u] # "idle"
          BY <4>1
        <4> QED
          BY <4>1, <4>2, AliveStays DEF LoopAlive
      <3> QED
        BY <3>1, <3>2
    <2>2. CASE Get(t)
      <3>1. CASE shuttingDown
        <4>1. shuttingDown'
          BY <2>2, <3>1 DEF Get, Fail, schedVars
        <4> QED
          BY <4>1 DEF LoopAlive
      <3>2. CASE ~shuttingDown
        <4>1. /\ pc' \in {[pc EXCEPT ![t] = "add"], [pc EXCEPT ![t] = "install"]}
              /\ UNCHANGED <<store, wanted, gaveUp, shuttingDown>>
          BY <2>2, <3>2 DEF Get, Go, loopVars
        <4>2. \A u \in Threads : pc[u] # "idle" => pc'[u] # "idle"
          BY <4>1
        <4> QED
          BY <4>1, <4>2, AliveStays DEF LoopAlive
      <3> QED
        BY <3>1, <3>2
    <2>3. CASE Install(t)
      <3>1. pc' = [pc EXCEPT ![t] = "add"] /\ UNCHANGED <<store, wanted, gaveUp, shuttingDown>>
        BY <2>3 DEF Install, Go, loopVars
      <3>2. \A u \in Threads : pc[u] # "idle" => pc'[u] # "idle"
        BY <3>1
      <3> QED
        BY <3>1, <3>2, AliveStays DEF LoopAlive
    <2>4. CASE Add(t)
      <3>1. /\ pc' = [pc EXCEPT ![t] = "idle"]
            /\ UNCHANGED <<wanted, gaveUp, shuttingDown>>
            /\ sched # "none"
            /\ sched \in {"closing", "stopped"} => shuttingDown
        BY <2>4 DEF Add, Leave, Go, CallInv, schedVars
      <3>2. CASE sched # "up"
        BY <3>1, <3>2 DEF LoopAlive, CallInv
      <3>3. CASE sched = "up"
        <4>1. store' = store \cup {Target(t)} /\ Target(t)[1] = t[1]
          BY <2>4, <3>3 DEF Add, Target, First
        <4>2. ASSUME NEW k \in Loops, Alive(k) PROVE Alive(k)'
          <5>1. CASE k = t[1]
            BY <4>1, <5>1 DEF Alive
          <5>2. CASE k # t[1]
            <6>1. \A u \in Threads : u[1] = k => pc'[u] = pc[u]
              BY <3>1, <5>2
            <6> QED
              BY <4>1, <4>2, <6>1 DEF Alive, Runs, Threads
          <5> QED
            BY <5>1, <5>2
        <4> QED
          BY <3>1, <4>2 DEF LoopAlive
      <3> QED
        BY <3>2, <3>3
    <2> QED
      BY <1>3, <2>1, <2>2, <2>3, <2>4 DEF Schedule
  <1>4. ASSUME NEW x \in Ids, BodyOk(x) \/ BodyFail(x) \/ BodyLast(x) PROVE LoopAlive'
    <2>1. CASE BodyFail(x)
      BY <2>1, LoopFail DEF BodyFail
    <2>2. CASE BodyOk(x)
      <3>1. pc' = [pc EXCEPT ![x] = "enter"] /\ UNCHANGED <<store, wanted, gaveUp, shuttingDown>>
        BY <2>2 DEF BodyOk, Go, loopVars, schedVars
      <3>2. \A u \in Threads : pc[u] # "idle" => pc'[u] # "idle"
        BY <3>1
      <3> QED
        BY <3>1, <3>2, AliveStays DEF LoopAlive
    <2>3. CASE BodyLast(x)
      <3>1. /\ pc' = [pc EXCEPT ![x] = "idle"] /\ x[1] \notin wanted
            /\ UNCHANGED <<store, wanted, gaveUp, shuttingDown>>
        BY <2>3 DEF BodyLast, Go, schedVars
      <3>2. ASSUME NEW k \in wanted, k \in Loops, Alive(k) PROVE Alive(k)'
        <4>1. \A u \in Threads : u[1] = k => pc'[u] = pc[u]
          BY <3>1
        <4> QED
          BY <3>1, <3>2, <4>1 DEF Alive, Runs, Threads
      <3> QED
        BY <3>1, <3>2 DEF LoopAlive
    <2> QED
      BY <1>4, <2>1, <2>2, <2>3
  <1>5. ASSUME NEW x \in Ids, Fire(x) \/ Drop(x) PROVE LoopAlive'
    <2>1. /\ store' = store \ {x} /\ pc'[x] # "idle" /\ x \in Threads
          /\ \A u \in Threads : pc[u] # "idle" => pc'[u] # "idle"
          /\ UNCHANGED <<wanted, gaveUp, shuttingDown>>
      BY <1>5 DEF Fire, Drop, Go, Threads, loopVars, schedVars
    <2>2. ASSUME NEW k \in Loops, Alive(k) PROVE Alive(k)'
      <3>1. CASE k = x[1]
        <4>1. Runs(k)' # {}
          BY <2>1, <3>1 DEF Runs
        <4> QED
          BY <4>1 DEF Alive
      <3>2. CASE k # x[1]
        BY <2>1, <2>2, <3>2 DEF Alive, Runs, Threads
      <3> QED
        BY <3>1, <3>2
    <2> QED
      BY <2>1, <2>2 DEF LoopAlive
  <1>6. CASE Shutdown
    BY <1>6 DEF Shutdown, ShutdownFlag, ShutdownStop, ShutdownJoin, LoopAlive, Alive, Runs,
       loopVars
  <1>7. CASE UNCHANGED vars
    BY <1>7 DEF vars, schedVars, loopVars, LoopAlive, Alive, Runs
  <1> QED
    BY <1>1, <1>2, <1>3, <1>4, <1>5, <1>6, <1>7 DEF Next

\* A loop that is wanted and not given up is never silently dead, whatever its
\* function raises, as long as no job is started later than its grace time.
THEOREM LoopAliveAlways ==
    ASSUME Misfires = FALSE PROVE Spec => []LoopAlive
  <1>1. Init => LoopAlive
    BY DEF Init, LoopAlive
  <1>2. Inv /\ LoopAlive /\ [Next]_vars => (Inv /\ LoopAlive)'
    BY InvNext, LoopNext
  <1> QED
    BY <1>1, <1>2, InvInit, PTL DEF Spec
=============================================================================
