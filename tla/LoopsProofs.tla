----------------------------- MODULE LoopsProofs -----------------------------
(***************************************************************************)
(* What holds of PumpScheduler, for every set of body threads and of API   *)
(* scans, of LiveSync, and of MCLoops, the sum of these with JobScheduler  *)
(* and PumpLadder.                                                         *)
(***************************************************************************)
EXTENDS MCLoops, JobSchedulerProofs, PumpLadderProofs

(***************************************************************************)
(* PumpScheduler.                                                          *)
(***************************************************************************)
\* Whoever is inside the slot is its holder, and so for _scan_lock; and the thread of
\* an immediate start has not begun before it is started.
SlotInv == InPumpSlot = IF pumpSlot = "none" THEN {} ELSE {pumpSlot}
ScanInv == Scanning = IF scanLock = "none" THEN {} ELSE {scanLock}
BootInv == (starter = "arm" => active) /\ (~active \/ starter = "arm" => pumpTick["boot"] = "idle")

PumpInv == PumpTypeOK /\ SlotInv /\ ScanInv /\ BootInv /\ PumpAlive

LEMMA TickNames == "job" \in Ticks /\ "boot" \in Ticks /\ "none" \notin Ticks /\ "other" \notin Ticks
  BY DEF Ticks

LEMMA ScannerNames == "none" \notin Scanners /\ Bodies \subseteq Scanners /\ Kicks \subseteq Scanners
  BY PumpAssumption DEF Scanners

LEMMA PumpInvInit == PumpInit => PumpInv
  <1> SUFFICES ASSUME PumpInit PROVE PumpInv
    OBVIOUS
  <1>1. PumpTypeOK
    BY DEF PumpInit, PumpTypeOK
  <1>2. SlotInv /\ ScanInv
    BY DEF PumpInit, SlotInv, ScanInv, InPumpSlot, Scanning
  <1>3. BootInv /\ PumpAlive
    BY TickNames DEF PumpInit, BootInv, PumpAlive
  <1> QED
    BY <1>1, <1>2, <1>3 DEF PumpInv

\* The slots, step by step.
InPlaces == {"spawn", "wait", "record", "rearm", "leave"}

LEMMA TickMoves ==
    ASSUME PumpTypeOK, NEW t \in Ticks, NEW place, TickTo(t, place), other' = other
    PROVE  InPumpSlot' = IF place \in InPlaces THEN InPumpSlot \cup {t} ELSE InPumpSlot \ {t}
  <1>1. \A u \in Ticks : pumpTick'[u] = IF u = t THEN place ELSE pumpTick[u]
    BY DEF TickTo, PumpTypeOK
  <1> QED
    BY <1>1, TickNames DEF InPumpSlot, InPlaces

LEMMA PumpSlotStep ==
    ASSUME PumpTypeOK, SlotInv, BootInv, PumpNext
    PROVE  PumpGate!GateNext \/ UNCHANGED <<pumpSlot, InPumpSlot>>
  <1> USE DEF slotV
  <1>1. CASE OtherIn
    <2>1. InPumpSlot' = InPumpSlot \cup {"other"}
      BY <1>1 DEF OtherIn, InPumpSlot
    <2> QED
      BY <1>1, <2>1 DEF OtherIn, PumpGate!GateNext, PumpGate!Acquire
  <1>2. CASE OtherOut
    <2>1. InPumpSlot' = InPumpSlot \ {"other"} /\ "other" \in InPumpSlot
      BY <1>2, TickNames DEF OtherOut, InPumpSlot
    <2> QED
      BY <1>2, <2>1 DEF OtherOut, PumpGate!GateNext, PumpGate!Release
  <1>3. ASSUME NEW t \in Ticks, EnterSlot(t) PROVE PumpGate!GateNext
    <2>1. CASE pumpSlot = "none"
      <3>1. pumpSlot' = t /\ InPumpSlot' = InPumpSlot \cup {t}
        BY <1>3, <2>1, TickMoves DEF EnterSlot, InPlaces
      <3> QED
        BY <2>1, <3>1 DEF PumpGate!GateNext, PumpGate!Acquire
    <2>2. CASE pumpSlot # "none"
      <3>1. pumpSlot' = pumpSlot /\ InPumpSlot' = InPumpSlot \ {t}
        BY <1>3, <2>2, TickMoves DEF EnterSlot, InPlaces
      <3>2. t \notin InPumpSlot
        BY <1>3, TickNames DEF EnterSlot, InPumpSlot
      <3> QED
        BY <2>2, <3>1, <3>2 DEF PumpGate!GateNext, PumpGate!Reject, PumpGate!gateVars
    <2> QED
      BY <2>1, <2>2
  <1>4. ASSUME NEW t \in Ticks, LeaveSlot(t) PROVE PumpGate!GateNext
    <2>1. t \in InPumpSlot
      BY <1>4 DEF LeaveSlot, InPumpSlot
    <2>2. pumpSlot' = "none" /\ InPumpSlot' = InPumpSlot \ {t}
      BY <1>4, TickMoves DEF LeaveSlot, InPlaces
    <2> QED
      BY <2>1, <2>2 DEF PumpGate!GateNext, PumpGate!Release
  <1>5. ASSUME NEW t \in Ticks, SpawnBody(t) \/ BodyDone(t) \/ Stall(t) \/ RecordTick(t) \/ RearmTick(t)
        PROVE  UNCHANGED <<pumpSlot, InPumpSlot>>
    <2>1. pumpSlot' = pumpSlot /\ other' = other
      BY <1>5 DEF SpawnBody, BodyDone, Stall, RecordTick, RearmTick
    <2>2. PICK place : TickTo(t, place) /\ (place \in InPlaces <=> pumpTick[t] \in InPlaces)
      BY <1>5 DEF SpawnBody, BodyDone, Stall, RecordTick, RearmTick, InPlaces
    <2>3. t \in InPumpSlot <=> pumpTick[t] \in InPlaces
      BY TickNames DEF InPumpSlot, InPlaces
    <2> QED
      BY <2>1, <2>2, <2>3, TickMoves
  <1>6. ASSUME NEW t \in Ticks, NEW place, TickTo(t, place), pumpTick[t] = "idle", place = "gate",
               UNCHANGED slotV
        PROVE  UNCHANGED <<pumpSlot, InPumpSlot>>
    <2>1. t \notin InPumpSlot
      BY <1>6, TickNames DEF InPumpSlot
    <2> QED
      BY <1>6, <2>1, TickMoves DEF InPlaces
  <1>7. CASE FirstTick
    <2>1. CASE UNCHANGED pumpTick
      BY <1>7, <2>1 DEF FirstTick, InPumpSlot
    <2>2. CASE TickTo("boot", "gate")
      BY <1>6, <1>7, <2>2, TickNames DEF FirstTick, BootInv
    <2> QED
      BY <1>7, <2>1, <2>2 DEF FirstTick
  <1>8. CASE FirePump
    BY <1>6, <1>8, TickNames DEF FirePump
  <1>9. CASE Activate \/ DropPump \/ FetchEnds
    BY <1>9 DEF Activate, DropPump, FetchEnds, InPumpSlot
  <1>10. ASSUME NEW b \in Scanners, Kick(b) \/ ScanStep(b) \/ RowsDone(b)
         PROVE  UNCHANGED <<pumpSlot, InPumpSlot>>
    BY <1>10 DEF Kick, ScanStep, RowsDone, FetchRows, TakeScanLock, RecordScan, Unlock,
                 ReportBody, RearmBody, InPumpSlot
  <1> QED
    BY <1>1, <1>2, <1>3, <1>4, <1>5, <1>7, <1>8, <1>9, <1>10 DEF PumpNext, TickStep

LEMMA ScanMoves ==
    ASSUME PumpTypeOK, NEW b \in Scanners, NEW place, ScanTo(b, place)
    PROVE  Scanning' = IF place \in {"rows", "record", "unlock"} THEN Scanning \cup {b}
                                                               ELSE Scanning \ {b}
  <1>1. \A c \in Scanners : scan'[c] = IF c = b THEN place ELSE scan[c]
    BY DEF ScanTo, PumpTypeOK
  <1> QED
    BY <1>1 DEF Scanning

LEMMA ScanLockStep ==
    ASSUME PumpTypeOK, ScanInv, PumpNext
    PROVE  ScanGate!GateNext \/ UNCHANGED <<scanLock, Scanning>>
  <1> USE DEF scanV
  <1>1. ASSUME NEW b \in Scanners, TakeScanLock(b) PROVE ScanGate!GateNext
    <2>1. b \notin Scanning
      BY <1>1 DEF TakeScanLock, Scanning
    <2>2. CASE scanLock = "none"
      <3>1. scanLock' = b /\ Scanning' = Scanning \cup {b}
        BY <1>1, <2>2, ScanMoves DEF TakeScanLock
      <3> QED
        BY <2>2, <3>1 DEF ScanGate!GateNext, ScanGate!Acquire
    <2>3. CASE scanLock # "none"
      <3>1. scanLock' = scanLock /\ Scanning' = Scanning \ {b}
        BY <1>1, <2>3, ScanMoves DEF TakeScanLock, AfterScan
      <3> QED
        BY <2>1, <2>3, <3>1 DEF ScanGate!GateNext, ScanGate!Reject, ScanGate!gateVars
    <2> QED
      BY <2>2, <2>3
  <1>2. ASSUME NEW b \in Scanners, Unlock(b) PROVE ScanGate!GateNext
    <2>1. b \in Scanning
      BY <1>2 DEF Unlock, Scanning
    <2>2. scanLock' = "none" /\ Scanning' = Scanning \ {b}
      BY <1>2, ScanMoves DEF Unlock, AfterScan
    <2> QED
      BY <2>1, <2>2 DEF ScanGate!GateNext, ScanGate!Release
  <1>3. ASSUME NEW b \in Scanners,
               Kick(b) \/ FetchRows(b) \/ RowsDone(b) \/ RecordScan(b) \/ ReportBody(b) \/ RearmBody(b)
        PROVE  UNCHANGED <<scanLock, Scanning>>
    <2>1. scanLock' = scanLock
      BY <1>3 DEF Kick, FetchRows, RowsDone, RecordScan, ReportBody, RearmBody
    <2>2. PICK place : /\ ScanTo(b, place)
                       /\ place \in {"rows", "record", "unlock"}
                            <=> scan[b] \in {"rows", "record", "unlock"}
      BY <1>3 DEF Kick, FetchRows, RowsDone, RecordScan, ReportBody, RearmBody, AfterScan
    <2>3. b \in Scanning <=> scan[b] \in {"rows", "record", "unlock"}
      BY DEF Scanning
    <2> QED
      BY <2>1, <2>2, <2>3, ScanMoves
  <1>4. ASSUME NEW t \in Ticks, SpawnBody(t) PROVE UNCHANGED <<scanLock, Scanning>>
    <2>1. PICK b \in Bodies : scan[b] = "idle" /\ ScanTo(b, "fetch")
      BY <1>4 DEF SpawnBody
    <2>2. b \in Scanners /\ b \notin Scanning
      BY <2>1, ScannerNames DEF Scanning
    <2> QED
      BY <1>4, <2>1, <2>2, ScanMoves DEF SpawnBody
  <1>5. ASSUME NEW t \in Ticks, EnterSlot(t) \/ BodyDone(t) \/ Stall(t) \/ RecordTick(t)
                 \/ RearmTick(t) \/ LeaveSlot(t)
        PROVE  UNCHANGED <<scanLock, Scanning>>
    BY <1>5 DEF EnterSlot, BodyDone, Stall, RecordTick, RearmTick, LeaveSlot, Scanning
  <1>6. CASE Activate \/ FirstTick \/ FirePump \/ DropPump \/ OtherIn \/ OtherOut \/ FetchEnds
    BY <1>6 DEF Activate, FirstTick, FirePump, DropPump, OtherIn, OtherOut, FetchEnds, Scanning
  <1> QED
    BY <1>1, <1>2, <1>3, <1>4, <1>5, <1>6 DEF PumpNext, TickStep, ScanStep

\* What HeavyJobGate keeps, whatever uses it.
LEMMA PumpGateKeeps == SlotInv /\ [PumpGate!GateNext]_<<pumpSlot, InPumpSlot>> => SlotInv'
  BY TickNames DEF SlotInv, PumpGate!GateNext, PumpGate!Acquire, PumpGate!Reject,
                   PumpGate!Release, PumpGate!gateVars

LEMMA ScanGateKeeps == ScanInv /\ [ScanGate!GateNext]_<<scanLock, Scanning>> => ScanInv'
  BY ScannerNames DEF ScanInv, ScanGate!GateNext, ScanGate!Acquire, ScanGate!Reject,
                      ScanGate!Release, ScanGate!gateVars

\* Types, and what arms the next tick.
LEMMA PumpTickStep ==
    ASSUME PumpTypeOK, BootInv, PumpAlive, NEW t \in Ticks, TickStep(t)
    PROVE  PumpTypeOK' /\ BootInv' /\ PumpAlive'
  <1> USE TickNames, ScannerNames DEF PumpTypeOK, BootInv, PumpAlive, WillArm, TickTo, startV, jobV, slotV, scanV
  <1>1. CASE EnterSlot(t)
    BY <1>1 DEF EnterSlot
  <1>2. CASE SpawnBody(t)
    BY <1>2 DEF SpawnBody, ScanTo
  <1>3. CASE BodyDone(t)
    BY <1>3 DEF BodyDone
  <1>4. CASE Stall(t)
    BY <1>4 DEF Stall
  <1>5. CASE RecordTick(t)
    BY <1>5 DEF RecordTick
  <1>6. CASE RearmTick(t)
    BY <1>6 DEF RearmTick
  <1>7. CASE LeaveSlot(t)
    BY <1>7 DEF LeaveSlot
  <1> QED
    BY <1>1, <1>2, <1>3, <1>4, <1>5, <1>6, <1>7 DEF TickStep

LEMMA PumpScanStep ==
    ASSUME PumpTypeOK, BootInv, PumpAlive, NEW b \in Scanners, Kick(b) \/ ScanStep(b) \/ RowsDone(b)
    PROVE  PumpTypeOK' /\ BootInv' /\ PumpAlive'
  <1> USE TickNames, ScannerNames DEF PumpTypeOK, BootInv, PumpAlive, WillArm, ScanTo, startV, jobV, slotV, AfterScan
  <1>1. CASE Kick(b)
    BY <1>1 DEF Kick
  <1>2. CASE FetchRows(b)
    BY <1>2 DEF FetchRows
  <1>3. CASE TakeScanLock(b)
    BY <1>3 DEF TakeScanLock
  <1>4. CASE RowsDone(b)
    BY <1>4 DEF RowsDone
  <1>5. CASE RecordScan(b)
    BY <1>5 DEF RecordScan
  <1>6. CASE Unlock(b)
    BY <1>6 DEF Unlock
  <1>7. CASE ReportBody(b)
    BY <1>7 DEF ReportBody
  <1>8. CASE RearmBody(b)
    BY <1>8 DEF RearmBody
  <1> QED
    BY <1>1, <1>2, <1>3, <1>4, <1>5, <1>6, <1>7, <1>8 DEF ScanStep

LEMMA PumpOtherStep ==
    ASSUME PumpTypeOK, BootInv, PumpAlive,
           Activate \/ FirstTick \/ FirePump \/ DropPump \/ OtherIn \/ OtherOut \/ FetchEnds
    PROVE  PumpTypeOK' /\ BootInv' /\ PumpAlive'
  <1> USE TickNames, ScannerNames DEF PumpTypeOK, BootInv, PumpAlive, WillArm, TickTo, startV, jobV, slotV, scanV
  <1>1. CASE Activate
    BY <1>1 DEF Activate
  <1>2. CASE FirstTick
    BY <1>2 DEF FirstTick
  <1>3. CASE FirePump
    BY <1>3 DEF FirePump
  <1>4. CASE DropPump
    BY <1>4 DEF DropPump
  <1>5. CASE OtherIn
    BY <1>5 DEF OtherIn
  <1>6. CASE OtherOut
    BY <1>6 DEF OtherOut
  <1>7. CASE FetchEnds
    BY <1>7 DEF FetchEnds
  <1> HIDE DEF PumpTypeOK, BootInv, PumpAlive
  <1> QED
    BY <1>1, <1>2, <1>3, <1>4, <1>5, <1>6, <1>7

LEMMA PumpInvNext == PumpInv /\ [PumpNext]_pumpVars => PumpInv'
  <1> SUFFICES ASSUME PumpInv, [PumpNext]_pumpVars PROVE PumpInv'
    OBVIOUS
  <1>1. CASE PumpNext
    <2>1. PumpTypeOK' /\ BootInv' /\ PumpAlive'
      BY <1>1, PumpTickStep, PumpScanStep, PumpOtherStep DEF PumpInv, PumpNext
    <2>2. SlotInv' /\ ScanInv'
      BY <1>1, PumpSlotStep, ScanLockStep, PumpGateKeeps, ScanGateKeeps DEF PumpInv
    <2> QED
      BY <2>1, <2>2 DEF PumpInv
  <1>2. CASE UNCHANGED pumpVars
    BY <1>2 DEF pumpVars, startV, jobV, slotV, scanV, PumpInv, PumpTypeOK, SlotInv, ScanInv, BootInv,
                PumpAlive, WillArm, InPumpSlot, Scanning
  <1> QED
    BY <1>1, <1>2

LEMMA PumpInvAlways == PumpSpec => []PumpInv
  BY PumpInvInit, PumpInvNext, PTL DEF PumpSpec

\* A started pump scheduler always has its next tick, or something at work that arms
\* it, for any number of bodies left behind and of API scans (_run_body_bounded).
THEOREM PumpAliveAlways == PumpSpec => []PumpAlive
  <1>1. PumpInv => PumpAlive
    BY DEF PumpInv
  <1> QED
    BY <1>1, PumpInvAlways, PTL

\* The tick uses the heavy-job slot, and every scan uses _scan_lock, as HeavyJobGate
\* says: one inside, and what is given back is one's own, also when a body is given up,
\* ends late, or is turned away (_tick, scan_all_subnets).
THEOREM PumpGatesImplemented == PumpSpec => PumpGatesRefined
  <1>1. PumpInit => PumpGate!GateInit /\ ScanGate!GateInit
    BY DEF PumpInit, InPumpSlot, Scanning, PumpGate!GateInit, ScanGate!GateInit
  <1>2. PumpInv /\ [PumpNext]_pumpVars
          => [PumpGate!GateNext]_<<pumpSlot, InPumpSlot>> /\ [ScanGate!GateNext]_<<scanLock, Scanning>>
    <2> SUFFICES ASSUME PumpInv, [PumpNext]_pumpVars
                 PROVE  [PumpGate!GateNext]_<<pumpSlot, InPumpSlot>>
                          /\ [ScanGate!GateNext]_<<scanLock, Scanning>>
      OBVIOUS
    <2>1. CASE UNCHANGED pumpVars
      BY <2>1 DEF pumpVars, slotV, scanV, InPumpSlot, Scanning
    <2> QED
      BY <2>1, PumpSlotStep, ScanLockStep DEF PumpInv
  <1> QED
    BY <1>1, <1>2, PumpInvAlways, PTL
       DEF PumpSpec, PumpGatesRefined, PumpGate!GateSpec, ScanGate!GateSpec,
           PumpGate!gateVars, ScanGate!gateVars

(***************************************************************************)
(* LiveSync.                                                               *)
(***************************************************************************)
\* The parent is past its spawn, and not yet through with making the child end.
ChildAbout == {"hello", "send", "result", "terminate", "kill", "reap"}

SyncInv ==
    /\ SyncTypeOK
    /\ parent \notin ChildAbout => child = "none"
    /\ boot \in {"due", "defer"} => parent = "none"

LEMMA SyncInvInit == SyncInit => SyncInv
  BY DEF SyncInit, SyncInv, SyncTypeOK, ChildAbout

LEMMA SyncInvNext == SyncInv /\ [SyncNext]_syncVars => SyncInv'
  <1> SUFFICES ASSUME SyncInv, [SyncNext]_syncVars PROVE SyncInv'
    OBVIOUS
  <1> USE DEF SyncInv, SyncTypeOK, ChildAbout, wireVars
  <1>1. CASE BootSync
    BY <1>1 DEF BootSync
  <1>2. CASE StartLoop
    BY <1>2 DEF StartLoop
  <1>3. CASE LoopSync
    BY <1>3 DEF LoopSync
  <1>4. CASE Refuse
    BY <1>4 DEF Refuse, EndSync
  <1>5. CASE Check
    BY <1>5 DEF Check
  <1>6. CASE Spawn
    BY <1>6 DEF Spawn, EndSync
  <1>7. CASE Hello
    BY <1>7 DEF Hello
  <1>8. CASE SendParams
    BY <1>8 DEF SendParams
  <1>9. CASE Receive
    BY <1>9 DEF Receive, Answers
  <1>10. CASE GiveUp
    BY <1>10 DEF GiveUp
  <1>11. CASE Terminate
    BY <1>11 DEF Terminate
  <1>12. CASE Kill
    BY <1>12 DEF Kill
  <1>13. CASE Reap
    BY <1>13 DEF Reap
  <1>14. CASE Answer
    BY <1>14 DEF Answer, EndSync
  <1>15. CASE Ready
    BY <1>15 DEF Ready, Emit
  <1>16. CASE TakeParams
    BY <1>16 DEF TakeParams
  <1>17. CASE Fetch
    BY <1>17 DEF Fetch
  <1>18. CASE SendAnswer
    BY <1>18 DEF SendAnswer, Emit, Answers
  <1>19. CASE ChildExits
    BY <1>19 DEF ChildExits
  <1>20. CASE UNCHANGED syncVars
    BY <1>20 DEF syncVars
  <1> HIDE DEF SyncInv
  <1> QED
    BY <1>1, <1>2, <1>3, <1>4, <1>5, <1>6, <1>7, <1>8, <1>9, <1>10,
       <1>11, <1>12, <1>13, <1>14, <1>15, <1>16, <1>17, <1>18, <1>19, <1>20
       DEF SyncNext, ParentStep, ChildStep

LEMMA SyncInvAlways == SyncSpec => []SyncInv
  BY SyncInvInit, SyncInvNext, PTL DEF SyncSpec

\* A sync that is over has left no child, wherever the child hung or died and whichever
\* deadline was missed (_fetch_chain_data, _terminate_fetch_process).
THEOREM NoChildLeftAlways == SyncSpec => [](parent = "none" => child = "none")
  <1>1. SyncInv => (parent = "none" => child = "none")
    BY DEF SyncInv, ChildAbout
  <1> QED
    BY <1>1, SyncInvAlways, PTL

\* How many steps of the parent are left, at most.
StepsLeft ==
    CASE parent = "none" -> 0
      [] parent = "answer" -> 1
      [] parent = "kill" -> IF open THEN 5 ELSE 2
      [] parent = "terminate" -> IF open THEN 6 ELSE 3
      [] parent = "reap" -> 4
      [] parent = "result" -> 7
      [] parent = "send" -> 8
      [] parent = "hello" -> 9
      [] parent = "spawn" -> 10
      [] parent = "checks" -> 11

\* A sync is over after eleven steps of the parent: each brings it nearer to its end,
\* and nothing that the child, the boot or the loop does puts the end off.  (That the
\* parent can always take a step, and does, is what ChildEnds adds.)
THEOREM SyncIsShort ==
    SyncSpec => [][/\ StepsLeft \in 0..11
                   /\ ParentStep => StepsLeft' < StepsLeft
                   /\ parent # "none" /\ ~ParentStep => StepsLeft' = StepsLeft]_syncVars
  <1> DEFINE Short == /\ StepsLeft \in 0..11
                      /\ ParentStep => StepsLeft' < StepsLeft
                      /\ parent # "none" /\ ~ParentStep => StepsLeft' = StepsLeft
  <1>1. SyncInv /\ [SyncNext]_syncVars => [Short]_syncVars
    <2> SUFFICES ASSUME SyncInv, SyncNext PROVE Short
      OBVIOUS
    <2>1. parent \in {"none", "checks", "spawn", "hello", "send", "result", "terminate", "kill",
                      "reap", "answer"} /\ open \in BOOLEAN
      BY DEF SyncInv, SyncTypeOK
    <2>2. StepsLeft \in 0..11
      BY <2>1 DEF StepsLeft
    <2>3. ASSUME ParentStep PROVE StepsLeft' < StepsLeft
      <3>1. CASE Refuse \/ Check \/ Spawn \/ Hello \/ SendParams \/ Receive
        BY <3>1 DEF Refuse, Check, Spawn, Hello, SendParams, Receive, EndSync, StepsLeft
      <3>2. CASE GiveUp
        BY <2>1, <3>2 DEF GiveUp, wireVars, StepsLeft
      <3>3. CASE Terminate \/ Kill
        BY <2>1, <3>3 DEF Terminate, Kill, wireVars, StepsLeft
      <3>4. CASE Reap \/ Answer
        BY <3>4 DEF Reap, Answer, EndSync, StepsLeft
      <3> QED
        BY <2>3, <3>1, <3>2, <3>3, <3>4 DEF ParentStep
    <2>4. ASSUME parent # "none", ~ParentStep PROVE StepsLeft' = StepsLeft
      <3>1. parent' = parent /\ open' = open
        BY <2>4 DEF SyncInv, SyncNext, BootSync, StartLoop, LoopSync, ChildStep, Ready, TakeParams,
                    Fetch, SendAnswer, ChildExits, wireVars
      <3> QED
        BY <3>1 DEF StepsLeft
    <2> QED
      BY <2>2, <2>3, <2>4
  <1> QED
    BY <1>1, SyncInvAlways, PTL DEF SyncSpec

(***************************************************************************)
(* The sum of the parts.                                                   *)
(***************************************************************************)
\* What the sum does, each part may do by itself: a step of one part is none of the
\* others, so what is proved of a part holds of it in the sum, too.
THEOREM PartsOfLoops ==
    LoopsSpec => (Init /\ [][Next]_vars) /\ PumpSpec /\ LadderSpec /\ SyncSpec
  <1>1. LoopsInit => Init /\ PumpInit /\ LadderInit /\ SyncInit
    BY DEF LoopsInit
  <1>2. [LoopsNext]_<<part, loops>> =>
          [Next]_vars /\ [PumpNext]_pumpVars /\ [LadderNext]_ladderVars /\ [SyncNext]_syncVars
    BY DEF LoopsNext, loops
  <1> QED
    BY <1>1, <1>2, PTL DEF LoopsSpec, PumpSpec, LadderSpec, SyncSpec

\* Every state that the loops reach has its type: the job store and its callers, the
\* pump's ticks and scans, the ladder's row, the sync and its child
\* (schedule_in_seconds, _tick, transition_subnet, _sync_once).
THEOREM LoopsTypeCorrect == LoopsSpec => []LoopsTypeOK
  <1>1. PumpInv => PumpTypeOK
    BY DEF PumpInv
  <1>2. SyncInv => SyncTypeOK
    BY DEF SyncInv
  <1>3. Inv => TypeOK
    BY DEF Inv
  <1>4. TypeOK /\ PumpTypeOK /\ LadderTypeOK /\ SyncTypeOK => LoopsTypeOK
    BY DEF LoopsTypeOK
  <1> QED
    BY <1>1, <1>2, <1>3, <1>4, PartsOfLoops, InvInit, InvNext, PumpInvAlways, LadderTypeCorrect,
       SyncInvAlways, PTL
=============================================================================
