----------------------------- MODULE WorkerProofs -----------------------------
(***************************************************************************)
(* What holds of the four parts of MCWorker, which share no state, and of  *)
(* their sum: of LoopStallGuard for every age limit, progress limit, cap,  *)
(* number of strikes, boot grace and number of restarts; of OwnerGuard for *)
(* every set of processes, however often the lock file and the marker are  *)
(* replaced; of DailyPick for every set of readers, number of builds and   *)
(* of restarts; of LivenessTracker for every set of recording threads.     *)
(***************************************************************************)
EXTENDS MCWorker, Integers, TLAPS

(***************************************************************************)
(* LoopStallGuard.                                                         *)
(***************************************************************************)
\* The row shown is the active run's, or no scoring row.
RowInv ==
    /\ run # 0 => active
    /\ run # 0 => row.run \in {0, run}

\* A watch over the active run is not older than the run, nor its quiet time than the
\* run's own while the mark is the one last seen.
WatchInv ==
    watch.on /\ run # 0 /\ watch.run = run =>
      /\ watch.ran <= ran
      /\ row.run = run /\ watch.mark = row.mark => watch.quiet <= quiet

\* The last strike is given on the way to the verdict.
StrikeInv ==
    /\ ~undeserved
    /\ up /\ guard \in {"sleep", "check", "active", "token"} => strikes < Strikes

JudgeInv == GuardTypeOK /\ RowInv /\ WatchInv /\ StrikeInv

(***************************************************************************)
(* How many more stale checks there can be before the end or a new run.    *)
(***************************************************************************)
ToCome == IF guard = "check" THEN 1 ELSE 0             \* this interval's is not counted
Taken  == IF guard \in {"active", "token"} THEN 1 ELSE 0     \* it is, and not judged

\* Under a watch: until its cap, each perhaps without a strike; then all with one.
Left ==
    IF watch.ran <= Cap THEN (Cap - watch.ran) + Strikes + ToCome
                        ELSE Strikes - strikes - Taken

\* Without a tick each check is a strike, unless the tick ended under the probe.
LeftIdle ==
    IF guard # "token" THEN Strikes - strikes - Taken
    ELSE IF ~watch.on THEN Strikes
    ELSE IF row.run \in {0, watch.run} THEN Left ELSE Cap + Strikes

\* A watch over no run or an earlier one may still be replaced by one over the run.
LeftInRun ==
    IF ~watch.on THEN StallLimit - Taken
    ELSE IF watch.run = run THEN Left ELSE Cap + Strikes + Left

\* A tick that has begun no run begins one before the next check.
Rest == IF run # 0 THEN LeftInRun ELSE IF active THEN ToCome ELSE LeftIdle

StallInv == IF up THEN overdue + Rest <= StallLimit ELSE overdue <= StallLimit

GuardInv == JudgeInv /\ StallInv

LEMMA Constants ==
    /\ Prog \in Nat \ {0} /\ Cap \in Nat /\ Strikes \in Nat \ {0} /\ Grace \in Nat
    /\ MaxAge \in Nat /\ StallLimit = 2 * (Cap + Strikes) + 1 /\ StallLimit \in Nat
    /\ 0 \notin Runs /\ 0 \notin Marks /\ Unknown = 0
  BY GuardAssumption, IdsAssumption DEF StallLimit, Unknown

LEMMA NothingAdded ==
    ASSUME NEW a, NEW b \in Int, NEW c \in Nat, a = 0, b <= c
    PROVE  a + b <= c
  OBVIOUS

LEMMA CappedType ==
    ASSUME NEW top \in Nat, NEW n \in 0..top
    PROVE  /\ Capped(n, top) \in 0..top
           /\ Capped(n, top) = IF n < top THEN n + 1 ELSE n
  BY DEF Capped

LEMMA NewWatchType ==
    ASSUME NEW r \in Runs \cup {0}, NEW m \in Marks \cup {0}
    PROVE  /\ NewWatch(r, m) \in Watches
           /\ NewWatch(r, m).on /\ NewWatch(r, m).run = r /\ NewWatch(r, m).mark = m
           /\ NewWatch(r, m).quiet = 0 /\ NewWatch(r, m).ran = 0
  <1> USE Constants DEF NewWatch
  <1>1. TRUE \in BOOLEAN /\ 0 \in 0..(Prog + 1) /\ 0 \in 0..(Cap + 1)
    OBVIOUS
  <1>2. NewWatch(r, m) \in Watches
    BY <1>1, Zenon DEF Watches
  <1> QED
    BY <1>2

LEMMA NoWatchType == NoWatch \in Watches /\ ~NoWatch.on
  <1> USE Constants DEF NoWatch
  <1>1. FALSE \in BOOLEAN /\ 0 \in 0..(Prog + 1) /\ 0 \in 0..(Cap + 1) /\ 0 \in Runs \cup {0}
          /\ 0 \in Marks \cup {Unknown}
    OBVIOUS
  <1>2. NoWatch \in Watches
    BY <1>1, Zenon DEF Watches
  <1> QED
    BY <1>2

(***************************************************************************)
(* The watch is just: no strike that counts is given to a tick at work.    *)
(***************************************************************************)
LEMMA JudgeInit == GuardInit => JudgeInv
  <1> SUFFICES ASSUME GuardInit PROVE JudgeInv
    OBVIOUS
  <1> USE Constants DEF GuardInit, ProducerInit
  <1>1. NoRow \in Row
    BY DEF NoRow, Row
  <1>2. GuardTypeOK
    <2>1. receipt \in 0..(MaxAge + 1) /\ 0 \in 0..(Prog + 1) /\ 0 \in 0..(Cap + 1)
            /\ 0 \in 0..(StallLimit + 1) /\ 0 \in 0..Strikes /\ Grace \in 0..Grace
            /\ restarts \in 0..MaxRestarts
      BY GuardAssumption
    <2>2. ProducerTypeOK
      BY <1>1 DEF ProducerTypeOK
    <2> QED
      BY <2>1, <2>2, NoWatchType DEF GuardTypeOK
  <1>3. RowInv /\ WatchInv /\ StrikeInv
    BY DEF RowInv, WatchInv, StrikeInv
  <1> QED
    BY <1>2, <1>3 DEF JudgeInv

LEMMA FieldTypes ==
    ASSUME JudgeInv
    PROVE  /\ active \in BOOLEAN /\ run \in Runs \cup {0}
           /\ row.run \in Runs \cup {0} /\ row.mark \in Marks \cup {0}
           /\ watch.on \in BOOLEAN /\ watch.run \in Runs \cup {0}
           /\ watch.mark \in Marks \cup {0}
           /\ watch.quiet \in 0..(Prog + 1) /\ watch.ran \in 0..(Cap + 1)
           /\ quiet \in 0..(Prog + 1) /\ ran \in 0..(Cap + 1)
           /\ strikes \in 0..Strikes /\ overdue \in 0..(StallLimit + 1)
  BY Constants DEF JudgeInv, GuardTypeOK, ProducerTypeOK, Row, Watches

LEMMA ChosenRun ==
    ASSUME JudgeInv, StartRun
    PROVE  /\ run' \in Runs /\ run' # watch.run /\ active /\ run = 0 /\ UNCHANGED active
           /\ row' = [run |-> run', mark |-> 0] /\ row' \in Row
  <1> DEFINE fresh == CHOOSE r \in Runs : r # row.run /\ r # watch.run
  <1>1. fresh \in Runs /\ fresh # watch.run
    BY FieldTypes, FreshAssumption
  <1>2. run' = fresh /\ row' = [run |-> fresh, mark |-> 0] /\ active /\ run = 0 /\ UNCHANGED active
    BY DEF StartRun, BeginRun
  <1> QED
    BY <1>1, <1>2 DEF Row

LEMMA ChosenMark ==
    ASSUME JudgeInv, Advance
    PROVE  /\ run # 0 /\ UNCHANGED <<active, run>>
           /\ \E m \in Marks : m # watch.mark /\ row' = [run |-> run, mark |-> m]
           /\ row' \in Row
  <1> DEFINE fresh == CHOOSE m \in Marks : m # watch.mark
  <1>1. fresh \in Marks /\ fresh # watch.mark
    BY FieldTypes, FreshAssumption
  <1>2. row' = [run |-> run, mark |-> fresh] /\ run # 0 /\ UNCHANGED <<active, run>>
    BY DEF Advance, AdvanceRun
  <1> QED
    BY <1>1, <1>2, FieldTypes DEF Row

LEMMA NoneUndeserved == JudgeInv => undeserved = FALSE
  BY DEF JudgeInv, GuardTypeOK, StrikeInv

LEMMA ProducerJudged == JudgeInv /\ ProducerMoves => JudgeInv'
  <1> SUFFICES ASSUME JudgeInv, ProducerMoves PROVE JudgeInv'
    OBVIOUS
  <1> USE Constants, FieldTypes DEF JudgeInv, StrikeInv, watchV, producerVars
  <1>0. UNCHANGED <<guard, watch, grace, revived, withdrawn, strikes, undeserved, up, restarts>>
    BY DEF ProducerMoves
  <1>1. CASE StartTick
    BY <1>0, <1>1 DEF StartTick, TakeTick, GuardTypeOK, ProducerTypeOK, RowInv, WatchInv
  <1>2. CASE StartRun
    <2>1. GuardTypeOK'
      BY <1>0, <1>2, ChosenRun DEF StartRun, GuardTypeOK, ProducerTypeOK
    <2>2. RowInv' /\ WatchInv'
      BY <1>0, <1>2, ChosenRun DEF RowInv, WatchInv
    <2> QED
      BY <1>0, <2>1, <2>2
  <1>3. CASE Advance
    <2>1. GuardTypeOK'
      BY <1>0, <1>3, ChosenMark DEF Advance, GuardTypeOK, ProducerTypeOK
    <2>2. RowInv'
      BY <1>0, <1>3, ChosenMark DEF RowInv
    <2>3. WatchInv'
      BY <1>0, <1>3, ChosenMark DEF WatchInv, Advance
    <2> QED
      BY <1>0, <2>1, <2>2, <2>3
  <1>4. CASE WriteReceipt
    BY <1>0, <1>4 DEF WriteReceipt, GuardTypeOK, ProducerTypeOK, RowInv, WatchInv
  <1>5. CASE ReplaceRow
    <2>1. NoRow \in Row /\ NoRow.run = 0
      BY DEF NoRow, Row
    <2> QED
      BY <1>0, <1>5, <2>1
         DEF ReplaceRow, CloseRow, GuardTypeOK, ProducerTypeOK, RowInv, WatchInv
  <1>6. CASE EndRun
    <2>1. active' = FALSE /\ run' = 0 /\ quiet' = 0 /\ ran' = 0 /\ UNCHANGED <<row, receipt, overdue>>
      BY <1>6 DEF EndRun, EndTick
    <2>2. ProducerTypeOK'
      BY <2>1 DEF GuardTypeOK, ProducerTypeOK
    <2>3. quiet' \in 0..(Prog + 1) /\ ran' \in 0..(Cap + 1)
      BY <2>1
    <2>4. GuardTypeOK'
      BY <1>0, <2>1, <2>2, <2>3 DEF GuardTypeOK
    <2> QED
      BY <1>0, <2>1, <2>4 DEF RowInv, WatchInv
  <1> QED
    BY <1>1, <1>2, <1>3, <1>4, <1>5, <1>6 DEF ProducerMoves

\* An interval ages the run and the watch alike.
LEMMA PassJudged ==
    ASSUME JudgeInv, Pass
    PROVE  /\ receipt' \in 0..(MaxAge + 1) /\ quiet' \in 0..(Prog + 1) /\ ran' \in 0..(Cap + 1)
           /\ watch' \in Watches /\ (watch'.on <=> watch.on) /\ watch'.run = watch.run
           /\ watch.on => watch'.ran = Capped(watch.ran, Cap + 1)
           /\ WatchInv' /\ RowInv' /\ UNCHANGED producerVars
  <1> USE Constants, FieldTypes DEF Pass, JudgeInv
  <1>0. MaxAge + 1 \in Nat /\ Prog + 1 \in Nat /\ Cap + 1 \in Nat
    OBVIOUS
  <1>1. receipt' \in 0..(MaxAge + 1)
    BY <1>0, CappedType DEF GuardTypeOK
  <1>2. quiet' \in 0..(Prog + 1) /\ ran' \in 0..(Cap + 1)
    BY <1>0, CappedType
  <1>3. Capped(watch.quiet, Prog + 1) \in 0..(Prog + 1) /\ Capped(watch.ran, Cap + 1) \in 0..(Cap + 1)
    BY <1>0, CappedType
  <1>4. CASE watch.on
    <2>1. /\ watch' \in Watches /\ (watch'.on <=> watch.on) /\ watch'.run = watch.run
          /\ watch'.ran = Capped(watch.ran, Cap + 1) /\ watch'.mark = watch.mark
          /\ watch'.quiet = Capped(watch.quiet, Prog + 1)
      <3> DEFINE q == Capped(watch.quiet, Prog + 1)
                 n == Capped(watch.ran, Cap + 1)
      <3>1. watch' = [watch EXCEPT !.quiet = q, !.ran = n]
        BY <1>4
      <3>2. watch \in Watches /\ q \in 0..(Prog + 1) /\ n \in 0..(Cap + 1)
        BY <1>3 DEF GuardTypeOK
      <3>3. q = Capped(watch.quiet, Prog + 1) /\ n = Capped(watch.ran, Cap + 1)
        OBVIOUS
      <3> HIDE DEF q, n
      <3> QED
        BY ONLY <3>1, <3>2, <3>3, Constants DEF Watches
    <2>2. WatchInv'
      BY <2>1, <1>4 DEF WatchInv, Capped, producerVars
    <2> QED
      BY <1>1, <1>2, <2>1, <2>2 DEF RowInv, producerVars
  <1>5. CASE ~watch.on
    BY <1>1, <1>2, <1>5 DEF GuardTypeOK, WatchInv, RowInv, producerVars
  <1> QED
    BY <1>4, <1>5

\* What a probe of a scoring row makes of the watch.
LEMMA TokenWatch ==
    ASSUME JudgeInv, ProbeToken
    PROVE  /\ watch' \in Watches /\ watch'.on /\ watch'.run = row.run /\ watch'.mark = row.mark
           /\ ~watch.on \/ watch.run # row.run => watch'.ran = 0 /\ watch'.quiet = 0
           /\ watch.on /\ watch.run = row.run =>
                /\ watch'.ran = watch.ran
                /\ watch'.quiet = IF watch.mark = row.mark THEN watch.quiet ELSE 0
  <1> USE Constants, FieldTypes
  <1>1. watch' = WatchActiveTick(row.run, row.mark) /\ watch \in Watches
    BY DEF ProbeToken, JudgeInv, GuardTypeOK
  <1>2. CASE ~watch.on \/ watch.run # row.run
    <2>1. watch' = NewWatch(row.run, row.mark)
      BY <1>1, <1>2 DEF WatchActiveTick
    <2> QED
      BY <1>2, <2>1, NewWatchType
  <1>3. CASE watch.on /\ watch.run = row.run
    <2> DEFINE q == IF row.mark = watch.mark THEN watch.quiet ELSE 0
    <2>1. watch' = [watch EXCEPT !.mark = row.mark, !.quiet = q]
      BY <1>1, <1>3 DEF WatchActiveTick
    <2>2. q \in 0..(Prog + 1) /\ q = IF watch.mark = row.mark THEN watch.quiet ELSE 0
      OBVIOUS
    <2> HIDE DEF q
    <2> QED
      BY ONLY <1>1, <1>3, <2>1, <2>2, FieldTypes, Constants, JudgeInv DEF Watches
  <1> QED
    BY <1>2, <1>3

\* A tick that such a probe finds hung is hung.
LEMMA TokenJust ==
    ASSUME JudgeInv, ProbeToken
    PROVE  WatchInv' /\ (Hung(watch') => RunHung)
  <1> USE Constants, FieldTypes, TokenWatch
  <1>1. row.run # 0 /\ UNCHANGED producerVars /\ UNCHANGED <<quiet, ran>>
    BY DEF ProbeToken
  <1>2. WatchInv'
    BY <1>1 DEF JudgeInv, WatchInv, RowInv, producerVars
  <1>3. ASSUME run # 0, Hung(watch') PROVE RunHung
    <2>1. row.run = run
      BY <1>1, <1>3 DEF JudgeInv, RowInv
    <2>2. watch.on /\ watch.run = run
      BY <1>3, <2>1 DEF Hung
    <2> QED
      BY <1>3, <2>1, <2>2 DEF JudgeInv, WatchInv, Hung, RunHung
  <1> QED
    BY <1>2, <1>3 DEF RunHung

\* What a probe in vain makes of it.
LEMMA VainWatch ==
    ASSUME JudgeInv, ProbeUnknown
    PROVE  /\ watch' \in Watches /\ watch'.on
           /\ watch.on => watch' = watch
           /\ ~watch.on => watch'.run = 0 /\ watch'.ran = 0
           /\ WatchInv'
  <1> USE Constants, FieldTypes, NewWatchType
  <1>1. watch' = WatchUnknown /\ UNCHANGED <<active, run, row, quiet, ran>>
    BY DEF ProbeUnknown, producerVars
  <1> QED
    BY <1>1 DEF WatchUnknown, JudgeInv, GuardTypeOK, WatchInv

LEMMA StrikeCount ==
    ASSUME JudgeInv, up, guard \in {"active", "token"}, Strike(TRUE)
    PROVE  /\ strikes' = strikes + 1 /\ strikes' \in 0..Strikes /\ undeserved' = FALSE
           /\ guard' \in {"revive", "verdict"}
  <1>1. strikes' = strikes + 1 /\ strikes' \in 0..Strikes
    BY Constants, FieldTypes DEF JudgeInv, StrikeInv, Strike
  <1>2. undeserved' = FALSE
    BY NoneUndeserved, Zenon DEF Strike
  <1>3. guard' \in {"revive", "verdict"}
    BY DEF Strike
  <1> QED
    BY <1>1, <1>2, <1>3

\* The parts of the type that a step of the guard's judgement changes.
LEMMA JudgedType ==
    ASSUME GuardTypeOK, watch' \in Watches, strikes' \in 0..Strikes, undeserved' = FALSE,
           guard' \in {"sleep", "check", "active", "token", "revive", "once", "verdict"},
           revived' \in BOOLEAN, withdrawn' \in BOOLEAN, overdue' \in 0..(StallLimit + 1),
           UNCHANGED <<active, run, row, receipt, quiet, ran, grace, up, restarts>>
    PROVE  GuardTypeOK'
  <1>1. undeserved' \in BOOLEAN
    BY Zenon
  <1> QED
    BY <1>1 DEF GuardTypeOK, ProducerTypeOK

LEMMA GuardJudged == JudgeInv /\ up /\ GuardMoves => JudgeInv'
  <1> SUFFICES ASSUME JudgeInv, up, GuardMoves PROVE JudgeInv'
    OBVIOUS
  <1> USE Constants, FieldTypes, NoneUndeserved DEF JudgeInv, producerVars, watchV, pastV
  <1>1. CASE Sleep
    <2>1. grace' \in 0..Grace
      BY <1>1 DEF Sleep, GuardTypeOK
    <2>2. GuardTypeOK'
      BY <1>1, <2>1, PassJudged DEF Sleep, GuardTypeOK, ProducerTypeOK
    <2> QED
      BY <1>1, <2>2, PassJudged DEF Sleep, StrikeInv
  <1>2. CASE CheckAge
    <2> USE <1>2 DEF CheckAge, NoStrike
    <2>1. overdue' \in 0..(StallLimit + 1) /\ strikes' \in {0, strikes} /\ undeserved' = FALSE
            /\ withdrawn' \in BOOLEAN /\ guard' \in {"sleep", "active"}
      <3>1. StallLimit + 1 \in Nat /\ 0 \in 0..(StallLimit + 1)
        OBVIOUS
      <3>2. overdue' \in 0..(StallLimit + 1)
        <4>1. overdue' = 0 \/ overdue' = Capped(overdue, StallLimit + 1)
          OBVIOUS
        <4>2. Capped(overdue, StallLimit + 1) \in 0..(StallLimit + 1)
          BY <3>1, CappedType
        <4> QED
          BY ONLY <3>1, <4>1, <4>2
      <3>3. strikes' \in {0, strikes} /\ undeserved' = FALSE /\ guard' \in {"sleep", "active"}
        OBVIOUS
      <3>4. withdrawn' \in BOOLEAN
        BY DEF GuardTypeOK
      <3> QED
        BY <3>2, <3>3, <3>4
    <2>2. watch' \in Watches /\ (watch'.on => watch' = watch)
      BY NoWatchType DEF GuardTypeOK
    <2>3. GuardTypeOK'
      <3>1. GuardTypeOK /\ strikes' \in 0..Strikes /\ undeserved' = FALSE
              /\ revived' \in BOOLEAN /\ withdrawn' \in BOOLEAN /\ overdue' \in 0..(StallLimit + 1)
        BY <2>1 DEF GuardTypeOK
      <3>2. UNCHANGED <<active, run, row, receipt, quiet, ran, grace, up, restarts>>
        BY <2>1 DEF CheckAge
      <3>3. watch' \in Watches
        BY <2>2
      <3>4. guard' \in {"sleep", "check", "active", "token", "revive", "once", "verdict"}
        BY <2>1
      <3> QED
        BY ONLY JudgedType, <3>1, <3>2, <3>3, <3>4
    <2>4. WatchInv'
      BY <2>2 DEF WatchInv
    <2> QED
      BY <2>1, <2>3, <2>4 DEF RowInv, StrikeInv
  <1>3. CASE ProbeActive
    <2> USE <1>3 DEF ProbeActive
    <2>1. CASE active
      BY <2>1 DEF GuardTypeOK, ProducerTypeOK, RowInv, WatchInv, StrikeInv
    <2>2. CASE ~active
      <3>1. /\ strikes' = strikes + 1 /\ strikes' \in 0..Strikes /\ undeserved' = FALSE
            /\ guard' \in {"revive", "verdict"}
        BY <2>2, StrikeCount
      <3>2. watch' \in Watches /\ ~watch'.on
        BY <2>2, NoWatchType
      <3>3. GuardTypeOK'
        BY <3>1, <3>2 DEF GuardTypeOK, ProducerTypeOK
      <3> QED
        BY <3>1, <3>2, <3>3 DEF RowInv, WatchInv, StrikeInv
    <2> QED
      BY <2>1, <2>2
  <1>4. CASE ProbeToken
    <2>1. CASE Hung(watch')
      <3>1. Strike(RunHung) /\ guard = "token"
        BY <1>4, <2>1 DEF ProbeToken
      <3>2. Strike(TRUE)
        BY <1>4, <2>1, <3>1, TokenJust DEF Strike
      <3>3. strikes' \in 0..Strikes /\ undeserved' = FALSE /\ guard' \in {"revive", "verdict"}
        BY <3>1, <3>2, StrikeCount
      <3>4. GuardTypeOK'
        BY <1>4, <3>3, TokenWatch, JudgedType DEF ProbeToken, GuardTypeOK
      <3> QED
        BY <1>4, <3>3, <3>4, TokenJust DEF ProbeToken, RowInv, StrikeInv
    <2>2. CASE ~Hung(watch')
      <3>1. strikes' = 0 /\ undeserved' = FALSE /\ guard' = "sleep"
        BY <1>4, <2>2 DEF ProbeToken, NoStrike
      <3>2. GuardTypeOK'
        <4>1. GuardTypeOK /\ strikes' \in 0..Strikes /\ undeserved' = FALSE
                /\ revived' \in BOOLEAN /\ withdrawn' \in BOOLEAN /\ overdue' \in 0..(StallLimit + 1)
          BY <1>4, <3>1 DEF ProbeToken, GuardTypeOK
        <4>2. UNCHANGED <<active, run, row, receipt, quiet, ran, grace, up, restarts>>
          BY <1>4 DEF ProbeToken
        <4>3. watch' \in Watches
          BY <1>4, TokenWatch
        <4>4. guard' \in {"sleep", "check", "active", "token", "revive", "once", "verdict"}
          BY <1>4, <3>1
        <4> QED
          BY ONLY JudgedType, <4>1, <4>2, <4>3, <4>4
      <3> QED
        BY <1>4, <3>1, <3>2, TokenJust DEF ProbeToken, RowInv, StrikeInv
    <2> QED
      BY <2>1, <2>2
  <1>5. CASE ProbeUnknown
    <2>1. strikes' \in 0..Strikes /\ undeserved' = FALSE
            /\ \/ guard' \in {"revive", "verdict"}
               \/ guard' = "sleep" /\ strikes' = 0
      <3>1. CASE watch'.ran > Cap
        BY <1>5, <3>1, StrikeCount DEF ProbeUnknown
      <3>2. CASE ~(watch'.ran > Cap)
        <4>1. NoStrike
          BY <1>5, <3>2 DEF ProbeUnknown
        <4> QED
          BY <4>1 DEF NoStrike
      <3> QED
        BY <3>1, <3>2
    <2>2. GuardTypeOK'
      BY <1>5, <2>1, VainWatch, JudgedType DEF ProbeUnknown, GuardTypeOK
    <2> QED
      <3>1. ~undeserved'
        BY <2>1, Zenon
      <3>2. up' /\ guard' \in {"sleep", "check", "active", "token"} => strikes' < Strikes
        BY <2>1
      <3>3. RowInv'
        BY <1>5 DEF ProbeUnknown, RowInv
      <3> QED
        BY <1>5, <2>2, <3>1, <3>2, <3>3, VainWatch DEF StrikeInv
  <1>6. CASE Revive
    <2>1. /\ guard = "revive" /\ guard' \in {"sleep", "verdict", "once"} /\ undeserved' = FALSE
          /\ revived' \in BOOLEAN /\ withdrawn' \in BOOLEAN
          /\ strikes' = strikes \/ strikes' = 0
          /\ guard' = "sleep" => strikes' = 0
      <3>1. CASE active /\ ~watch.on /\ ~withdrawn
        BY <1>6, <3>1 DEF Revive, NoStrike, GuardTypeOK
      <3>2. CASE active /\ (watch.on \/ withdrawn)
        BY <1>6, <3>2 DEF Revive, GuardTypeOK, StrikeInv
      <3>3. CASE ~active
        BY <1>6, <3>3 DEF Revive, GuardTypeOK, StrikeInv
      <3> QED
        BY <3>1, <3>2, <3>3
    <2>2. GuardTypeOK'
      <3>1. GuardTypeOK /\ strikes' \in 0..Strikes /\ undeserved' = FALSE
              /\ revived' \in BOOLEAN /\ withdrawn' \in BOOLEAN /\ overdue' \in 0..(StallLimit + 1)
        BY <1>6, <2>1 DEF Revive, GuardTypeOK
      <3>2. UNCHANGED <<active, run, row, receipt, quiet, ran, grace, up, restarts>>
        BY <1>6 DEF Revive
      <3>3. watch' \in Watches
        BY <1>6 DEF Revive, GuardTypeOK
      <3>4. guard' \in {"sleep", "check", "active", "token", "revive", "once", "verdict"}
        BY <1>6, <2>1
      <3> QED
        BY ONLY JudgedType, <3>1, <3>2, <3>3, <3>4
    <2> QED
      BY <1>6, <2>1, <2>2 DEF Revive, RowInv, WatchInv, StrikeInv
  <1>7. CASE Block
    <2>1. GuardTypeOK'
      BY <1>7, PassJudged DEF Block, GuardTypeOK, ProducerTypeOK
    <2> QED
      BY <1>7, <2>1, PassJudged DEF Block, StrikeInv
  <1>8. CASE Revived
    BY <1>8 DEF Revived, GuardTypeOK, ProducerTypeOK, RowInv, WatchInv, StrikeInv
  <1>9. CASE Verdict
    BY <1>9 DEF Verdict, GuardTypeOK, ProducerTypeOK, RowInv, WatchInv, StrikeInv
  <1> QED
    BY <1>1, <1>2, <1>3, <1>4, <1>5, <1>6, <1>7, <1>8, <1>9 DEF GuardMoves

LEMMA RestartJudged == JudgeInv /\ Restart => JudgeInv'
  <1> SUFFICES ASSUME JudgeInv, Restart PROVE JudgeInv'
    OBVIOUS
  <1> USE Constants, FieldTypes DEF JudgeInv, Restart, EndProcess
  <1>1. restarts' \in 0..MaxRestarts
    BY GuardAssumption DEF GuardTypeOK
  <1>2. ProducerTypeOK'
    BY DEF GuardTypeOK, ProducerTypeOK
  <1>3. 0 \in 0..(Prog + 1) /\ 0 \in 0..(Cap + 1) /\ 0 \in 0..(StallLimit + 1)
          /\ 0 \in 0..Strikes /\ Grace \in 0..Grace
    OBVIOUS
  <1>4. GuardTypeOK'
    BY <1>1, <1>2, <1>3, NoWatchType DEF GuardTypeOK
  <1> QED
    BY <1>4, NoWatchType DEF RowInv, WatchInv, StrikeInv

LEMMA JudgeNext == JudgeInv /\ [GuardNext]_guardVars => JudgeInv'
  <1> SUFFICES ASSUME JudgeInv, [GuardNext]_guardVars PROVE JudgeInv'
    OBVIOUS
  <1>1. CASE UNCHANGED guardVars
    BY <1>1 DEF guardVars, producerVars, watchV, pastV, JudgeInv, GuardTypeOK, ProducerTypeOK,
                RowInv, WatchInv, StrikeInv
  <1> QED
    BY <1>1, ProducerJudged, GuardJudged, RestartJudged DEF GuardNext

\* Every reachable state of the guard and the producer has its type
\* (loop_stall_guard.py, _guard_loop).
THEOREM GuardTypeCorrect == GuardSpec => []GuardTypeOK
  <1>1. JudgeInv => GuardTypeOK
    BY DEF JudgeInv
  <1> QED
    BY <1>1, JudgeInit, JudgeNext, PTL DEF GuardSpec

\* The process is never ended over a strike that was given to a tick which was probed
\* and at work, for any limits and however often the probe fails (_watch_active_tick).
THEOREM KillJustifiedAlways == GuardSpec => []KillJustified
  <1>1. JudgeInv => KillJustified
    BY DEF JudgeInv, StrikeInv, KillJustified
  <1> QED
    BY <1>1, JudgeInit, JudgeNext, PTL DEF GuardSpec

(***************************************************************************)
(* A stall ends: each stale check leaves fewer to come.                    *)
(***************************************************************************)
LEMMA StallInit == GuardInit => StallInv
  BY Constants DEF GuardInit, ProducerInit, StallInv, Rest, LeftIdle, Taken, NoWatch

LEMMA LeftBounds ==
    ASSUME JudgeInv, up
    PROVE  /\ ToCome \in 0..1 /\ Taken \in 0..1 /\ Left \in Nat /\ Rest \in Nat
           /\ Left <= Cap + Strikes + ToCome /\ Left >= Strikes - strikes - Taken
           /\ Rest <= StallLimit
           /\ guard \in {"sleep", "check", "active", "token"} => strikes + 1 <= Strikes
  <1> USE Constants, FieldTypes
  <1>1. ToCome \in 0..1 /\ Taken \in 0..1 /\ (Taken = 1 => ToCome = 0)
    BY DEF ToCome, Taken
  <1>2. guard \in {"sleep", "check", "active", "token"} => strikes + 1 <= Strikes
    BY DEF JudgeInv, StrikeInv
  <1>3. strikes + Taken <= Strikes
    BY <1>2 DEF Taken
  <1>4. Left \in Nat /\ Left <= Cap + Strikes + ToCome /\ Left >= Strikes - strikes - Taken
    BY <1>1, <1>3 DEF Left
  <1>5. Rest \in Nat /\ Rest <= StallLimit
    BY <1>1, <1>3, <1>4 DEF Rest, LeftIdle, LeftInRun
  <1> QED
    BY <1>1, <1>2, <1>4, <1>5

LEMMA ProducerStalls == JudgeInv /\ StallInv /\ up /\ ProducerMoves => StallInv'
  <1> SUFFICES ASSUME JudgeInv, StallInv, up, ProducerMoves PROVE StallInv'
    OBVIOUS
  <1> USE Constants, FieldTypes, LeftBounds
  <1>0. UNCHANGED <<guard, watch, strikes, up>>
    BY DEF ProducerMoves, watchV
  <1>1. ToCome' = ToCome /\ Taken' = Taken /\ Left' = Left
    BY <1>0 DEF ToCome, Taken, Left
  <1>2. CASE StartTick
    <2>1. ~active /\ run = 0 /\ active' /\ run' = 0 /\ overdue' = overdue
      BY <1>2 DEF StartTick, TakeTick, JudgeInv, RowInv
    <2>2. ToCome <= LeftIdle
      BY DEF LeftIdle, ToCome, Taken
    <2>3. Rest = LeftIdle /\ Rest' = ToCome
      BY <1>1, <2>1 DEF Rest
    <2> QED
      BY <1>0, <2>1, <2>2, <2>3 DEF StallInv, StallLimit
  <1>3. CASE StartRun
    <2>1. overdue' = 0
      BY <1>3 DEF StartRun
    <2>2. run' # 0 /\ run' # watch.run
      BY <1>3, ChosenRun
    <2>3. LeftInRun' \in Int /\ LeftInRun' <= StallLimit
      BY <1>0, <1>1, <2>2 DEF LeftInRun
    <2>4. Rest' = LeftInRun'
      BY <2>2 DEF Rest
    <2> QED
      <3>1. Rest' \in Int /\ Rest' <= StallLimit
        BY ONLY <2>3, <2>4
      <3>2. overdue' + Rest' <= StallLimit
        BY ONLY <2>1, <3>1, Constants, NothingAdded, Zenon
      <3>3. StallLimit' = StallLimit /\ up'
        BY <1>0 DEF StallLimit
      <3> QED
        BY ONLY <3>2, <3>3 DEF StallInv
  <1>4. CASE Advance \/ WriteReceipt
    <2>1. run # 0 /\ UNCHANGED <<run, overdue>>
      BY <1>4, ChosenMark DEF WriteReceipt, producerVars, Advance
    <2> QED
      BY <1>0, <1>1, <2>1 DEF StallInv, Rest, LeftInRun
  <1>5. CASE ReplaceRow
    <2>1. row'.run = 0 /\ UNCHANGED <<active, run, overdue>>
      BY <1>5 DEF ReplaceRow, CloseRow, NoRow
    <2>2. LeftIdle' <= LeftIdle /\ LeftIdle' \in Nat
      BY <1>0, <1>1, <2>1 DEF LeftIdle, ToCome, Taken
    <2>3. LeftInRun' = LeftInRun
      BY <1>0, <1>1, <2>1 DEF LeftInRun
    <2> QED
      BY <1>0, <1>1, <2>1, <2>2, <2>3 DEF StallInv, Rest
  <1>6. CASE EndRun
    <2>1. run # 0 /\ run' = 0 /\ ~active' /\ UNCHANGED <<row, overdue>>
      BY <1>6 DEF EndRun, EndTick
    <2>2. row.run \in {0, run}
      BY <2>1 DEF JudgeInv, RowInv
    <2>3. LeftIdle' <= LeftInRun
      BY <1>0, <1>1, <2>1, <2>2 DEF LeftIdle, LeftInRun, Taken
    <2>4. LeftIdle' \in Int /\ LeftInRun \in Int
      BY <1>0, <1>1, <2>1 DEF LeftIdle, LeftInRun
    <2> QED
      BY <1>0, <2>1, <2>3, <2>4 DEF StallInv, Rest
  <1> QED
    BY <1>2, <1>3, <1>4, <1>5, <1>6 DEF ProducerMoves

\* An interval leaves no more to come than before.
LEMMA PassStalls ==
    ASSUME JudgeInv, Pass, guard # "check", Taken = 0, UNCHANGED strikes,
           \/ guard' # "check" /\ Taken' = 0
           \/ guard = "sleep" /\ guard' = "check"
    PROVE  up => Rest' \in Int /\ Rest' <= Rest
  <1> SUFFICES ASSUME up PROVE Rest' \in Int /\ Rest' <= Rest
    OBVIOUS
  <1> USE Constants, FieldTypes, LeftBounds, PassJudged
  <1>1. UNCHANGED <<active, run>> /\ (active => run # 0) /\ (run # 0 => active)
    BY DEF Pass, producerVars, JudgeInv, RowInv
  <1>2. guard # "token" /\ guard' # "token" /\ Taken' = 0
    BY DEF Taken
  <1>3. ASSUME watch.on PROVE Left' <= Left /\ Left' \in Int
    <2>1. watch'.ran = IF watch.ran < Cap + 1 THEN watch.ran + 1 ELSE watch.ran
      BY <1>3 DEF Capped
    <2>2. CASE guard = "sleep" /\ guard' = "check"
      BY <2>1, <2>2 DEF Left, ToCome, Taken
    <2>3. CASE guard' # "check"
      BY <2>1, <2>3, <1>2 DEF Left, ToCome
    <2> QED
      BY <2>2, <2>3
  <1>4. LeftInRun' \in Int /\ LeftInRun' <= LeftInRun
    BY <1>1, <1>2, <1>3 DEF LeftInRun
  <1>5. LeftIdle' \in Int /\ LeftIdle' <= LeftIdle
    BY <1>2 DEF LeftIdle
  <1> QED
    BY <1>1, <1>4, <1>5 DEF Rest

LEMMA CheckStalls == JudgeInv /\ StallInv /\ up /\ CheckAge => StallInv'
  <1> SUFFICES ASSUME JudgeInv, StallInv, up, CheckAge PROVE StallInv'
    OBVIOUS
  <1> USE Constants, FieldTypes, LeftBounds
  <1>0. guard = "check" /\ UNCHANGED <<active, run, row, up>>
    BY DEF CheckAge, producerVars
  <1>1. CASE NoStrike /\ overdue' = 0 /\ (watch' = watch \/ watch' = NoWatch)
    <2>1. guard' = "sleep" /\ strikes' = 0 /\ overdue' = 0
      BY <1>1 DEF NoStrike
    <2>2. ToCome' = 0 /\ Taken' = 0
      BY <2>1 DEF ToCome, Taken
    <2>3. watch'.ran \in Nat
      BY <1>1 DEF NoWatch
    <2>4. Left' \in Int /\ Left' <= Cap + Strikes
      BY <2>1, <2>2, <2>3 DEF Left
    <2>5. LeftInRun' \in Int /\ LeftInRun' <= StallLimit
      <3>1. StallLimit' = StallLimit
        BY DEF StallLimit
      <3>2. StallLimit - Taken' \in Int /\ StallLimit - Taken' <= StallLimit
        BY ONLY <2>2, Constants
      <3>3. Left' <= StallLimit
        BY ONLY <2>4, Constants
      <3>4. Cap + Strikes + Left' \in Int /\ Cap + Strikes + Left' <= StallLimit
        <4>1. Cap + Strikes \in Nat /\ StallLimit = (Cap + Strikes) + (Cap + Strikes) + 1
          BY ONLY Constants
        <4>2. Left' \in Int /\ Left' <= Cap + Strikes
          BY ONLY <2>4
        <4> QED
          BY ONLY <4>1, <4>2
      <3> QED
        BY ONLY <2>4, <3>1, <3>2, <3>3, <3>4 DEF LeftInRun
    <2>6. LeftIdle' \in Int /\ LeftIdle' <= StallLimit
      BY <2>1, <2>2 DEF LeftIdle
    <2>7. Rest' \in Int /\ Rest' <= StallLimit
      BY <2>2, <2>5, <2>6 DEF Rest
    <2> QED
      <3>1. overdue' + Rest' <= StallLimit
        BY ONLY <2>1, <2>7, Constants, NothingAdded, Zenon
      <3>2. StallLimit' = StallLimit /\ up'
        BY <1>0 DEF StallLimit
      <3> QED
        BY ONLY <3>1, <3>2 DEF StallInv
  <1>2. CASE overdue' = Capped(overdue, StallLimit + 1) /\ guard' = "active"
               /\ UNCHANGED <<strikes, watch>>
    <2>1. ToCome = 1 /\ ToCome' = 0 /\ Taken = 0 /\ Taken' = 1
      BY <1>0, <1>2 DEF ToCome, Taken
    <2>2. Left' = Left - 1
      BY <1>2, <2>1 DEF Left
    <2>3. LeftInRun' = LeftInRun - 1
      BY <1>0, <1>2, <2>1, <2>2 DEF LeftInRun
    <2>4. LeftIdle' = LeftIdle - 1
      BY <1>0, <1>2, <2>1 DEF LeftIdle
    <2>5. Rest' = Rest - 1
      BY <1>0, <2>1, <2>3, <2>4 DEF Rest
    <2>6. Rest >= 1
      BY <1>0, <2>1 DEF Rest, LeftInRun, LeftIdle
    <2>7. overdue + Rest <= StallLimit
      BY DEF StallInv
    <2>8. overdue' = overdue + 1
      BY <1>2, <2>6, <2>7 DEF Capped
    <2> QED
      BY <1>0, <2>5, <2>7, <2>8 DEF StallInv
  <1> QED
    BY <1>1, <1>2 DEF CheckAge

\* A probe that is no strike starts the count anew under a watch that may still run to
\* its cap; one that is, is one fewer to come.
LEMMA ProbeStalls ==
    JudgeInv /\ StallInv /\ up /\ (ProbeActive \/ ProbeToken \/ ProbeUnknown) => StallInv'
  <1> SUFFICES ASSUME JudgeInv, StallInv, up, ProbeActive \/ ProbeToken \/ ProbeUnknown
               PROVE  StallInv'
    OBVIOUS
  <1> USE Constants, FieldTypes, LeftBounds
  <1>0. UNCHANGED <<active, run, row, up, overdue>> /\ overdue + Rest <= StallLimit
          /\ Taken = 1 /\ ToCome = 0
    BY DEF ProbeActive, ProbeToken, ProbeUnknown, producerVars, StallInv, Taken, ToCome
  <1>1. SUFFICES Rest' <= Rest /\ Rest' \in Int
    BY <1>0 DEF StallInv
  <1>2. CASE ProbeActive /\ active
    <2>1. guard' = "token" /\ UNCHANGED <<watch, strikes>> /\ guard = "active"
      BY <1>2 DEF ProbeActive
    <2>2. Taken' = 1 /\ ToCome' = 0
      BY <2>1 DEF Taken, ToCome
    <2>3. Left' = Left
      BY <1>0, <2>1, <2>2 DEF Left
    <2> QED
      BY <1>0, <1>2, <2>1, <2>2, <2>3 DEF Rest, LeftInRun
  <1>3. CASE ProbeActive /\ ~active
    <2>1. Strike(TRUE) /\ guard = "active" /\ run = 0
      BY <1>3 DEF ProbeActive, JudgeInv, RowInv
    <2>2. strikes' = strikes + 1 /\ guard' \in {"revive", "verdict"}
      BY <2>1, StrikeCount
    <2>3. Taken' = 0 /\ ToCome' = 0
      BY <2>2 DEF Taken, ToCome
    <2> QED
      BY <1>0, <1>3, <2>1, <2>2, <2>3 DEF Rest, LeftIdle
  <1>4. ASSUME guard = "token", watch'.ran \in 0..(Cap + 1),
               \/ strikes' = strikes + 1 /\ guard' \in {"revive", "verdict"}
               \/ strikes' = 0 /\ guard' = "sleep" /\ watch'.ran <= Cap
        PROVE  /\ Taken' = 0 /\ ToCome' = 0 /\ guard' # "token" /\ Left' \in Int
               /\ Left' <= Cap + Strikes
               /\ watch'.ran = watch.ran => Left' <= Left
               /\ LeftIdle' <= Strikes /\ LeftIdle' \in Int
               /\ strikes' = strikes + 1 => LeftIdle' = Strikes - strikes - 1
    <2>1. Taken' = 0 /\ ToCome' = 0 /\ guard' # "token"
      BY <1>4 DEF Taken, ToCome
    <2>2. Left' \in Int /\ Left' <= Cap + Strikes /\ (watch'.ran = watch.ran => Left' <= Left)
      BY <1>0, <1>4, <2>1 DEF Left
    <2> QED
      BY <1>4, <2>1, <2>2 DEF LeftIdle
  <1>5. CASE ProbeToken
    <2>1. guard = "token" /\ row.run # 0
      BY <1>5 DEF ProbeToken
    <2>2. watch'.ran \in 0..(Cap + 1)
      BY <1>5, TokenWatch
    <2>3. \/ strikes' = strikes + 1 /\ guard' \in {"revive", "verdict"} /\ Hung(watch')
          \/ strikes' = 0 /\ guard' = "sleep" /\ watch'.ran <= Cap
      <3>1. CASE Hung(watch')
        BY <1>5, <3>1 DEF ProbeToken, Strike
      <3>2. CASE ~Hung(watch')
        BY <1>5, <2>2, <3>2 DEF ProbeToken, NoStrike, Hung
      <3> QED
        BY <3>1, <3>2
    <2>4. CASE run # 0
      <3>1. row.run = run
        BY <2>1, <2>4 DEF JudgeInv, RowInv
      <3>2. watch'.on /\ watch'.run = run
        BY <1>5, <3>1, TokenWatch
      <3>3. Rest' = Left'
        BY <1>0, <2>4, <3>2 DEF Rest, LeftInRun
      <3>4. watch.on /\ watch.run = run => watch'.ran = watch.ran
        BY <1>5, <3>1, TokenWatch
      <3> QED
        BY <1>0, <1>4, <2>1, <2>2, <2>3, <2>4, <3>3, <3>4 DEF Rest, LeftInRun
    <2>5. CASE run = 0 /\ active
      BY <1>0, <1>4, <2>1, <2>2, <2>3, <2>5 DEF Rest
    <2>6. CASE run = 0 /\ ~active
      <3>1. Rest = LeftIdle /\ Rest' = LeftIdle'
        BY <1>0, <2>6 DEF Rest
      <3>2. CASE watch.on /\ watch.run = row.run
        <4>1. watch'.ran = watch.ran
          BY <1>5, <3>2, TokenWatch
        <4>2. LeftIdle = Left
          BY <2>1, <3>2 DEF LeftIdle
        <4>3. strikes' = strikes + 1 \/ (watch.ran <= Cap /\ Left >= Strikes)
          BY <1>0, <2>3, <4>1 DEF Left
        <4> QED
          BY <1>0, <1>4, <2>1, <2>2, <2>3, <3>1, <4>2, <4>3
      <3>3. CASE ~(watch.on /\ watch.run = row.run)
        <4>1. LeftIdle >= Strikes
          BY <2>1, <3>3 DEF LeftIdle
        <4> QED
          BY <1>4, <2>1, <2>2, <2>3, <3>1, <4>1
      <3> QED
        BY <3>2, <3>3
    <2> QED
      BY <2>4, <2>5, <2>6
  <1>6. CASE ProbeUnknown
    <2>1. guard = "token"
      BY <1>6 DEF ProbeUnknown
    <2>2. watch'.ran \in 0..(Cap + 1) /\ watch'.on
            /\ (watch.on => watch'.ran = watch.ran /\ watch'.run = watch.run)
            /\ (~watch.on => watch'.ran = 0 /\ watch'.run = 0)
      BY <1>6, VainWatch
    <2>3. \/ strikes' = strikes + 1 /\ guard' \in {"revive", "verdict"} /\ watch'.ran > Cap
          \/ strikes' = 0 /\ guard' = "sleep" /\ watch'.ran <= Cap
      <3>1. CASE watch'.ran > Cap
        BY <1>6, <3>1 DEF ProbeUnknown, Strike
      <3>2. CASE ~(watch'.ran > Cap)
        <4>1. NoStrike
          BY <1>6, <3>2 DEF ProbeUnknown
        <4> QED
          BY <2>2, <3>2, <4>1 DEF NoStrike
      <3> QED
        BY <3>1, <3>2
    <2>4. CASE run # 0
      <3>1. CASE watch.on
        BY <1>0, <1>4, <2>1, <2>2, <2>3, <2>4, <3>1 DEF Rest, LeftInRun
      <3>2. CASE ~watch.on
        <4>1. Rest = StallLimit - 1
          BY <1>0, <2>4, <3>2 DEF Rest, LeftInRun
        <4>2. Rest' = Cap + Strikes + Left'
          BY <1>0, <2>2, <2>4, <3>2 DEF Rest, LeftInRun
        <4> QED
          BY <1>4, <2>1, <2>2, <2>3, <4>1, <4>2
      <3> QED
        BY <3>1, <3>2
    <2>5. CASE run = 0 /\ active
      BY <1>0, <1>4, <2>1, <2>2, <2>3, <2>5 DEF Rest
    <2>6. CASE run = 0 /\ ~active
      <3>1. Rest = LeftIdle /\ Rest' = LeftIdle'
        BY <1>0, <2>6 DEF Rest
      <3>2. LeftIdle >= Strikes \/ (strikes' = strikes + 1 /\ LeftIdle >= Strikes - strikes - 1)
        BY <1>0, <2>1, <2>2, <2>3 DEF LeftIdle, Left
      <3> QED
        BY <1>4, <2>1, <2>2, <2>3, <3>1, <3>2
    <2> QED
      BY <2>4, <2>5, <2>6
  <1> QED
    BY <1>2, <1>3, <1>5, <1>6

LEMMA GuardStalls == JudgeInv /\ StallInv /\ up /\ GuardMoves => StallInv'
  <1> SUFFICES ASSUME JudgeInv, StallInv, up, GuardMoves PROVE StallInv'
    OBVIOUS
  <1> USE Constants, FieldTypes, LeftBounds
  <1>0. overdue + Rest <= StallLimit
    BY DEF StallInv
  <1>1. ASSUME UNCHANGED <<overdue, up>>, Rest' <= Rest, Rest' \in Int PROVE StallInv'
    BY <1>0, <1>1 DEF StallInv, StallLimit
  <1>2. ASSUME guard \in {"revive", "once"}, guard' \in {"sleep", "verdict", "once"},
               UNCHANGED <<active, run, watch, overdue, up>>,
               strikes' = strikes \/ (active /\ (run = 0 \/ ~watch.on))
        PROVE  StallInv'
    <2>1. Taken = 0 /\ ToCome = 0 /\ Taken' = 0 /\ ToCome' = 0 /\ guard # "token" /\ guard' # "token"
      BY <1>2 DEF Taken, ToCome
    <2>2. CASE strikes' = strikes
      <3>1. Left' = Left
        BY <1>2, <2>1, <2>2 DEF Left
      <3>2. LeftInRun' = LeftInRun /\ LeftIdle' = LeftIdle
        BY <1>2, <2>1, <2>2, <3>1 DEF LeftInRun, LeftIdle, StallLimit
      <3>3. Rest' = Rest
        BY <1>2, <2>1, <3>2 DEF Rest
      <3> QED
        BY <1>1, <1>2, <3>3
    <2>3. CASE active /\ (run = 0 \/ ~watch.on)
      <3>1. Rest' = Rest
        BY <1>2, <2>1, <2>3 DEF Rest, LeftInRun, StallLimit
      <3> QED
        BY <1>1, <1>2, <3>1
    <2> QED
      BY <1>2, <2>2, <2>3
  <1>3. CASE Sleep \/ Block
    <2>1. Pass /\ Taken = 0 /\ UNCHANGED <<strikes, overdue, up>> /\ guard # "check"
            /\ \/ guard' # "check" /\ Taken' = 0
               \/ guard = "sleep" /\ guard' = "check"
      BY <1>3 DEF Sleep, Block, Taken, pastV
    <2>2. Rest' <= Rest /\ Rest' \in Int
      BY <2>1, PassStalls
    <2> QED
      BY <1>1, <2>1, <2>2
  <1>4. CASE CheckAge
    BY <1>4, CheckStalls
  <1>5. CASE ProbeActive \/ ProbeToken \/ ProbeUnknown
    BY <1>5, ProbeStalls
  <1>6. CASE Revive
    BY <1>2, <1>6 DEF Revive, NoStrike, producerVars
  <1>7. CASE Revived
    BY <1>2, <1>7 DEF Revived, watchV, pastV, producerVars
  <1>8. CASE Verdict
    <2>1. CASE strikes < Strikes
      <3>1. /\ guard = "verdict" /\ guard' = "sleep"
            /\ UNCHANGED <<active, run, watch, strikes, overdue, up>>
        BY <1>8, <2>1 DEF Verdict, watchV, pastV, producerVars
      <3>2. Taken = 0 /\ ToCome = 0 /\ Taken' = 0 /\ ToCome' = 0
        BY <3>1 DEF Taken, ToCome
      <3>3. Left' = Left
        BY <3>1, <3>2 DEF Left
      <3>4. Rest' = Rest
        BY <3>1, <3>2, <3>3 DEF Rest, LeftInRun, LeftIdle, StallLimit
      <3> QED
        BY <1>1, <3>1, <3>4
    <2>2. CASE ~(strikes < Strikes)
      BY <1>0, <1>8, <2>2 DEF Verdict, pastV, StallInv, StallLimit
    <2> QED
      BY <2>1, <2>2
  <1> QED
    BY <1>3, <1>4, <1>5, <1>6, <1>7, <1>8 DEF GuardMoves

LEMMA RestartStalls == JudgeInv /\ Restart => StallInv'
  BY Constants DEF Restart, EndProcess, StallInv, Rest, LeftIdle, Taken, StallLimit

LEMMA StallNext == JudgeInv /\ StallInv /\ [GuardNext]_guardVars => StallInv'
  <1> SUFFICES ASSUME JudgeInv, StallInv, [GuardNext]_guardVars PROVE StallInv'
    OBVIOUS
  <1>1. CASE UNCHANGED guardVars
    BY <1>1 DEF guardVars, producerVars, watchV, pastV, StallInv, Rest, LeftIdle, LeftInRun, Left,
                Taken, ToCome, StallLimit
  <1> QED
    BY <1>1, ProducerStalls, GuardStalls, RestartStalls DEF GuardNext

\* A stall never outlasts twice the cap and the strikes, and one more check, counted
\* from the start of its last run: for any cap, any number of strikes and however
\* often the probe fails, the watch is renewed or a strike withdrawn (_guard_loop).
THEOREM StallBoundedAlways == GuardSpec => []StallBounded
  <1>1. JudgeInv /\ StallInv => StallBounded
    <2> SUFFICES ASSUME JudgeInv, StallInv PROVE StallBounded
      OBVIOUS
    <2>1. CASE up
      BY <2>1, Constants, FieldTypes, LeftBounds DEF StallInv, StallBounded
    <2>2. CASE ~up
      BY <2>2 DEF StallInv, StallBounded
    <2> QED
      BY <2>1, <2>2
  <1>2. GuardInit => JudgeInv /\ StallInv
    BY JudgeInit, StallInit
  <1>3. JudgeInv /\ StallInv /\ [GuardNext]_guardVars => (JudgeInv /\ StallInv)'
    BY JudgeNext, StallNext
  <1> QED
    BY <1>1, <1>2, <1>3, PTL DEF GuardSpec

(***************************************************************************)
(* OwnerGuard.                                                             *)
(***************************************************************************)
\* A lock file is flocked by one process.
OneFlock ==
    \A p, q \in Procs : place[p] \in Holding /\ place[q] \in Holding /\ fd[p] = fd[q] => p = q

\* While nothing was replaced, all have the file at the path open.
SameFile == tampers = 0 => \A p \in Procs : place[p] # "down" => fd[p] = lockFile /\ lockFile # 0

OwnerInv == OwnerTypeOK /\ OneFlock /\ SameFile

LEMMA MarkerType ==
    ASSUME NEW n \in Nat, NEW i \in 0..n, NEW v \in BOOLEAN
    PROVE  [id |-> i, valid |-> v] \in [id : 0..n, valid : BOOLEAN]
  BY Zenon

LEMMA MarkerGrows ==
    ASSUME NEW n \in Nat, NEW m \in [id : 0..n, valid : BOOLEAN]
    PROVE  m \in [id : 0..(n + 1), valid : BOOLEAN]
  OBVIOUS

LEMMA OwnerInvInit == OwnerInit => OwnerInv
  <1> SUFFICES ASSUME OwnerInit PROVE OwnerInv
    OBVIOUS
  <1> USE OwnerAssumption DEF OwnerInit
  <1>1. marker \in [id : 0..ids, valid : BOOLEAN]
    BY MarkerType, 0 \in 0..1, 1 \in 0..1
  <1>2. OwnerTypeOK
    BY <1>1 DEF OwnerTypeOK, Places
  <1>3. OneFlock /\ SameFile
    BY DEF OneFlock, SameFile, Holding, Places
  <1> QED
    BY <1>2, <1>3 DEF OwnerInv

\* The first half of a start: the lock file.
LEMMA LockStep ==
    ASSUME OwnerInv, NEW p \in Procs, OpenLock(p) \/ TakeFlock(p) \/ Exit(p)
    PROVE  OwnerInv'
  <1> USE DEF OwnerInv, OwnerTypeOK, OneFlock, SameFile, Places, Holding, Move, filesV, seenV
  <1>1. CASE OpenLock(p)
    <2>1. inodes' \in Nat /\ lockFile' \in 1..inodes' /\ inodes' >= inodes
      BY <1>1 DEF OpenLock
    <2>2. OwnerTypeOK'
      BY <1>1, <2>1 DEF OpenLock
    <2>3. OneFlock' /\ SameFile'
      BY <1>1, <2>1 DEF OpenLock
    <2> QED
      BY <2>2, <2>3
  <1>2. CASE TakeFlock(p)
    BY <1>2 DEF TakeFlock, Contended
  <1>3. CASE Exit(p)
    BY <1>3 DEF Exit
  <1> QED
    BY <1>1, <1>2, <1>3

\* The second half of a start: the marker.
LEMMA MarkerStep ==
    ASSUME OwnerInv, NEW p \in Procs,
           Classify(p) \/ Bootstrap(p) \/ VerifyMarker(p) \/ StatFiles(p)
    PROVE  OwnerInv'
  <1> USE DEF OwnerInv, OwnerTypeOK, OneFlock, SameFile, Places, Holding, Move, filesV, seenV
  <1>1. CASE Classify(p)
    BY <1>1 DEF Classify
  <1>2. CASE Bootstrap(p)
    <2>1. ids' = ids \/ ids' = ids + 1
      BY <1>2 DEF Bootstrap
    <2>2. marker' \in [id : 0..ids', valid : BOOLEAN]
      <3>1. CASE marker.id = 0
        <4>1. ids' = ids + 1 /\ marker' = [id |-> ids', valid |-> TRUE]
          BY <1>2, <3>1 DEF Bootstrap
        <4> QED
          BY <4>1, MarkerType, ids' \in Nat, ids' \in 0..ids'
      <3>2. CASE marker.id # 0
        BY <1>2, <3>2 DEF Bootstrap
      <3> QED
        BY <3>1, <3>2
    <2>3. OwnerTypeOK'
      BY <1>2, <2>1, <2>2 DEF Bootstrap
    <2>4. OneFlock' /\ SameFile'
      BY <1>2 DEF Bootstrap
    <2> QED
      BY <2>3, <2>4
  <1>3. CASE VerifyMarker(p)
    BY <1>3 DEF VerifyMarker
  <1>4. CASE StatFiles(p)
    BY <1>4 DEF StatFiles
  <1> QED
    BY <1>1, <1>2, <1>3, <1>4

\* An owner inspects and writes.
LEMMA WriteStep ==
    ASSUME OwnerInv, NEW p \in Procs, Inspect(p) \/ Written(p)
    PROVE  OwnerInv'
  BY DEF OwnerInv, OwnerTypeOK, OneFlock, SameFile, Places, Holding, Move, filesV, seenV,
         Inspect, Written

LEMMA TamperStep == OwnerInv /\ (UnlinkLock \/ ReplaceMarker) => OwnerInv'
  <1> SUFFICES ASSUME OwnerInv, UnlinkLock \/ ReplaceMarker PROVE OwnerInv'
    OBVIOUS
  <1> USE OwnerAssumption
      DEF OwnerInv, OwnerTypeOK, OneFlock, SameFile, Tampers
  <1>1. tampers' \in 0..MaxTampers /\ tampers' # 0
    BY DEF UnlinkLock, ReplaceMarker
  <1>2. CASE UnlinkLock
    BY <1>1, <1>2 DEF UnlinkLock, seenV
  <1>3. CASE ReplaceMarker
    <2>1. CASE ids' = ids /\ marker' = [id |-> 0, valid |-> FALSE]
      <3>1. marker' \in [id : 0..ids', valid : BOOLEAN]
        BY <2>1, MarkerType, 0 \in 0..ids
      <3> QED
        BY <1>1, <1>3, <2>1, <3>1 DEF ReplaceMarker, seenV
    <2>2. CASE \E valid \in BOOLEAN : ids' = ids + 1 /\ marker' = [id |-> ids', valid |-> valid]
      <3>1. ids' = ids + 1 /\ marker' \in [id : 0..ids', valid : BOOLEAN]
        BY <2>2, MarkerType, ids + 1 \in Nat, ids + 1 \in 0..(ids + 1)
      <3> QED
        BY <1>1, <1>3, <3>1 DEF ReplaceMarker, seenV
    <2> QED
      BY <1>3, <2>1, <2>2 DEF ReplaceMarker
  <1> QED
    BY <1>2, <1>3

LEMMA OwnerInvNext == OwnerInv /\ [OwnerNext]_ownerVars => OwnerInv'
  <1> SUFFICES ASSUME OwnerInv, [OwnerNext]_ownerVars PROVE OwnerInv'
    OBVIOUS
  <1>1. CASE OwnerNext
    BY <1>1, LockStep, MarkerStep, WriteStep, TamperStep DEF OwnerNext
  <1>2. CASE UNCHANGED ownerVars
    BY <1>2 DEF ownerVars, filesV, seenV, OwnerInv, OwnerTypeOK, OneFlock, SameFile
  <1> QED
    BY <1>1, <1>2

LEMMA OwnerInvSafe == OwnerSpec => []OwnerInv
  BY OwnerInvInit, OwnerInvNext, PTL DEF OwnerSpec

\* Every reachable state of the owner lock, its files and its processes has its type
\* (owner_guard.py, module state).
THEOREM OwnerTypeCorrect == OwnerSpec => []OwnerTypeOK
  <1>1. OwnerInv => OwnerTypeOK
    BY DEF OwnerInv
  <1> QED
    BY <1>1, OwnerInvSafe, PTL

\* At most one process passes the inspection before a write, whatever files are
\* replaced and whoever starts; and while none is, at most one is an owner
\* (owner_guard, _owner_invariants_reason).
THEOREM OneWriterAlways == OwnerSpec => []OneWriter
  <1>1. OwnerInv => OneWriter
    BY DEF OwnerInv, OneFlock, SameFile, OneWriter, Sound, Owning, Holding, Places
  <1> QED
    BY <1>1, OwnerInvSafe, PTL

(***************************************************************************)
(* DailyPick.                                                              *)
(***************************************************************************)
Savers == Builders \cup {"tick"}

\* Rows to save are of different moments, and of another than the row they replace.
StampInv ==
    /\ dayRow.stamp <= clock
    /\ \A x \in Savers : draft[x].stamp <= clock
    /\ \A x, y \in Savers : x # y /\ draft[x].stamp # 0 => draft[x].stamp # draft[y].stamp
    /\ \A x \in Savers : draft[x].stamp # 0 => draft[x].stamp # dayRow.stamp

\* Who is about to save has a row of its kind.
DraftInv ==
    /\ \A b \in Builders : build[b] \in {"score", "save"}
           => draft[b].stamp # 0 /\ draft[b].kind \in {"decision", "pick"}
    /\ tick = "hold_save" => draft["tick"].stamp # 0 /\ draft["tick"].kind = "hold"

\* A worker that a tick waits for ends with a result.
OutcomeInv == tick = "wait" /\ build["worker"] = "idle" => outcome # "none"

\* Where the next tick comes from.
LoopInv ==
    /\ stopped => ~daily
    /\ ~daily /\ ~stopped => dailyJob = "none" /\ tick = "idle"
    /\ dailyJob = "slot" => tick = "idle" /\ Finished(dayRow)
    /\ ready => tick \in {"rearm", "schedule"} /\ Finished(dayRow)
    /\ DailyLoopAlive

SaveInv == DailyTypeOK /\ StampInv /\ DraftInv
DailyInv == SaveInv /\ OutcomeInv /\ LoopInv

LEMMA DailyInvInit == DailyInit => DailyInv
  <1> SUFFICES ASSUME DailyInit PROVE DailyInv
    OBVIOUS
  <1> USE DailyAssumption DEF DailyInit, NoDrafts, NoBuilds, NoDay, Savers, Builders
  <1>1. DailyTypeOK
    <2>1. NoDay \in DayRow
      BY DEF DayRow, Kinds
    <2>2. draft \in [Savers -> DayRow] /\ dayRow \in DayRow
      BY <2>1
    <2>3. build \in [Builders -> {"idle", "queued", "load", "score", "save"}]
      OBVIOUS
    <2>4. boots \in 1..MaxBoots /\ clock \in 0..MaxStamp
      OBVIOUS
    <2> QED
      BY <2>2, <2>3, <2>4 DEF DailyTypeOK, Outcomes
  <1>2. dayRow.stamp = 0 /\ \A x \in Savers : draft[x].stamp = 0
    <2>1. draft = [x \in Savers |-> NoDay]
      OBVIOUS
    <2> QED
      BY <2>1
  <1>3. StampInv
    BY <1>2 DEF StampInv
  <1>4. DraftInv
    BY DEF DraftInv
  <1>5. OutcomeInv /\ LoopInv
    BY DEF OutcomeInv, LoopInv, DailyLoopAlive
  <1> QED
    BY <1>1, <1>3, <1>4, <1>5 DEF DailyInv, SaveInv

(***************************************************************************)
(* A saved row, its type and its stamp.                                    *)
(***************************************************************************)
LEMMA SavedRow ==
    ASSUME SaveInv, NEW x \in Savers, draft[x].stamp # 0, SaveDay(draft[x])
    PROVE  /\ dayRow' \in DayRow
           /\ dayRow' # dayRow => dayRow' = draft[x] /\ dayRow'.stamp > dayRow.stamp
           /\ dayRow.kind = "pick" => dayRow'.kind # "hold"
  <1>1. draft[x] \in DayRow /\ dayRow \in DayRow
    BY DEF SaveInv, DailyTypeOK, Savers
  <1> USE DailyAssumption DEF SaveInv, DailyTypeOK, DayRow, StampInv, Savers
  <1>2. CASE dayRow' = dayRow
    BY <1>1, <1>2
  <1>3. CASE dayRow' = draft[x] /\ ~Older(draft[x])
                /\ ~(draft[x].kind = "hold" /\ dayRow.kind = "pick")
    <2>1. draft[x].stamp > dayRow.stamp
      BY <1>1, <1>3 DEF Older
    <2>2. dayRow.kind = "pick" => dayRow'.kind # "hold"
      BY <1>3
    <2>3. dayRow' \in DayRow
      BY <1>1, <1>3
    <2> QED
      BY <1>3, <2>1, <2>2, <2>3
  <1> QED
    BY <1>2, <1>3 DEF SaveDay

\* Whoever leaves its draft behind, whether it was saved or not.
LEMMA DroppedDraft ==
    ASSUME SaveInv, NEW x \in Savers, dayRow' = dayRow \/ dayRow' = draft[x],
           dayRow' \in DayRow, draft' = [draft EXCEPT ![x] = NoDay], clock' = clock
    PROVE  StampInv'
  BY DailyAssumption DEF SaveInv, DailyTypeOK, DayRow, StampInv, NoDay, Savers

\* Whoever begins a row has the latest stamp.
LEMMA FreshDraft ==
    ASSUME SaveInv, NEW x \in Savers, NEW k \in Kinds, clock < MaxStamp, clock' = clock + 1,
           draft' = [draft EXCEPT ![x] = [kind |-> k, stamp |-> clock']], dayRow' = dayRow
    PROVE  StampInv' /\ clock' \in 0..MaxStamp /\ draft' \in [Savers -> DayRow]
  <1> USE DailyAssumption DEF SaveInv, DailyTypeOK, DayRow, StampInv, Savers
  <1>1. clock' \in 0..MaxStamp
    OBVIOUS
  <1>2. [kind |-> k, stamp |-> clock'] \in DayRow
    BY <1>1
  <1>3. draft' \in [Savers -> DayRow]
    BY <1>2
  <1>4. \A y \in Savers : draft'[y].stamp = IF y = x THEN clock' ELSE draft[y].stamp
    OBVIOUS
  <1>5. StampInv'
    BY <1>1, <1>4
  <1> QED
    BY <1>1, <1>3, <1>5

(***************************************************************************)
(* One step of a worker or a reader.                                       *)
(***************************************************************************)
LEMMA BuilderTypes ==
    /\ "worker" \in Builders /\ "tick" \notin Builders
    /\ Builders \subseteq Savers /\ "tick" \in Savers
  BY DailyAssumption DEF Builders, Savers

LEMMA FinishStep ==
    ASSUME DailyInv, NEW b \in Builders, build[b] \in {"load", "score", "save"},
           NEW how \in Outcomes \ {"none"}, Finish(b, how),
           (SaveDay(draft[b]) /\ build[b] = "save") \/ UNCHANGED dayRow,
           UNCHANGED <<boots, daily, stopped, dailyJob, dropped, tickV, cancelled, clock>>
    PROVE  DailyInv'
  <1> USE BuilderTypes DEF tickV
  <1>1. dayRow' \in DayRow /\ (dayRow' # dayRow => dayRow' = draft[b] /\ Finished(dayRow'))
    <2>1. CASE UNCHANGED dayRow
      BY <2>1 DEF DailyInv, SaveInv, DailyTypeOK
    <2>2. CASE SaveDay(draft[b]) /\ build[b] = "save"
      BY <2>2, SavedRow DEF DailyInv, SaveInv, DraftInv, Finished
    <2> QED
      BY <2>1, <2>2
  <1>2. StampInv'
    BY <1>1, DroppedDraft DEF DailyInv, Finish
  <1>3. DailyTypeOK'
    <2>1. NoDay \in DayRow
      BY DailyAssumption DEF NoDay, DayRow, Kinds
    <2> QED
      BY <1>1, <2>1 DEF DailyInv, SaveInv, DailyTypeOK, Finish, Savers
  <1>4. DraftInv'
    BY DEF DailyInv, SaveInv, DraftInv, DailyTypeOK, Finish, Savers
  <1>5. OutcomeInv'
    BY DEF DailyInv, SaveInv, OutcomeInv, DailyTypeOK, Finish
  <1>6. Finished(dayRow) => Finished(dayRow')
    BY <1>1 DEF Finished
  <1>7. LoopInv'
    BY <1>6 DEF DailyInv, LoopInv, DailyLoopAlive
  <1> QED
    BY <1>2, <1>3, <1>4, <1>5, <1>7 DEF DailyInv, SaveInv

LEMMA BuildStep == DailyInv /\ BuildMoves => DailyInv'
  <1> SUFFICES ASSUME DailyInv, BuildMoves PROVE DailyInv'
    OBVIOUS
  <1> USE BuilderTypes
  <1>1. CASE WorkBegins
    BY <1>1 DEF WorkBegins, DailyInv, SaveInv, DailyTypeOK, StampInv, DraftInv, OutcomeInv,
                LoopInv, DailyLoopAlive, tickV
  <1>2. ASSUME NEW b \in Builders, Read(b) PROVE DailyInv'
    <2>1. b # "worker" /\ build[b] = "idle"
      BY <1>2, DailyAssumption DEF Read
    <2> QED
      BY <1>2, <2>1 DEF Read, DailyInv, SaveInv, DailyTypeOK, StampInv, DraftInv, OutcomeInv,
                        LoopInv, DailyLoopAlive, tickV
  <1>3. ASSUME NEW b \in Builders, LoadDay(b) PROVE DailyInv'
    <2>1. CASE Finish(b, "payload") /\ UNCHANGED clock
      BY <1>3, <2>1, FinishStep DEF LoadDay, Outcomes
    <2>2. ASSUME NEW next \in {"score", "save"}, clock < MaxStamp, clock' = clock + 1,
                 build' = [build EXCEPT ![b] = next],
                 draft' = [draft EXCEPT ![b] = [kind |-> "decision", stamp |-> clock']],
                 UNCHANGED outcome
          PROVE  DailyInv'
      <3> USE <1>3, <2>2 DEF LoadDay, tickV
      <3>1. StampInv' /\ clock' \in 0..MaxStamp /\ draft' \in [Savers -> DayRow]
        BY FreshDraft DEF DailyInv, Kinds
      <3>2. DailyTypeOK'
        BY <3>1 DEF DailyInv, SaveInv, DailyTypeOK, Savers
      <3>3. clock' # 0
        BY DailyAssumption DEF DailyInv, SaveInv, DailyTypeOK
      <3>4. DraftInv'
        BY <3>3 DEF DailyInv, SaveInv, DraftInv, DailyTypeOK, Savers
      <3>5. OutcomeInv' /\ LoopInv'
        BY DEF DailyInv, SaveInv, DailyTypeOK, OutcomeInv, LoopInv, DailyLoopAlive
      <3> QED
        BY <3>1, <3>2, <3>4, <3>5 DEF DailyInv, SaveInv
    <2> QED
      BY <1>3, <2>1, <2>2 DEF LoadDay
  <1>4. ASSUME NEW b \in Builders, Score(b) PROVE DailyInv'
    <2>1. CASE \E how \in Raises \cup {"cancelled"} : Finish(b, how)
      <3>1. PICK how \in Raises \cup {"cancelled"} : Finish(b, how)
        BY <2>1
      <3>2. how \in Outcomes \ {"none"}
        BY DEF Outcomes, Raises
      <3>3. build[b] \in {"load", "score", "save"} /\ UNCHANGED dayRow
            /\ UNCHANGED <<boots, daily, stopped, dailyJob, dropped, tickV, cancelled, clock>>
        BY <1>4 DEF Score
      <3> QED
        BY <3>1, <3>2, <3>3, FinishStep
    <2>2. ASSUME NEW kind \in {"decision", "pick"}, draft' = [draft EXCEPT ![b].kind = kind],
                 build' = [build EXCEPT ![b] = "save"], UNCHANGED outcome
          PROVE  DailyInv'
      <3> USE <1>4, <2>2 DEF Score, tickV
      <3>1. draft' \in [Savers -> DayRow] /\ draft'[b].kind = kind
              /\ (\A x \in Savers : draft'[x].stamp = draft[x].stamp)
              /\ (\A x \in Savers \ {b} : draft'[x] = draft[x])
        BY DEF DailyInv, SaveInv, DailyTypeOK, DayRow, Kinds, Savers
      <3>2. DailyTypeOK'
        BY <3>1 DEF DailyInv, SaveInv, DailyTypeOK, Savers
      <3>3. StampInv'
        BY <3>1 DEF DailyInv, SaveInv, StampInv
      <3>4. DraftInv'
        BY <3>1 DEF DailyInv, SaveInv, DraftInv, DailyTypeOK
      <3>5. OutcomeInv' /\ LoopInv'
        BY DEF DailyInv, SaveInv, DailyTypeOK, OutcomeInv, LoopInv, DailyLoopAlive
      <3> QED
        BY <3>2, <3>3, <3>4, <3>5 DEF DailyInv, SaveInv
    <2> QED
      BY <1>4, <2>1, <2>2 DEF Score
  <1>5. ASSUME NEW b \in Builders, SaveBuild(b) PROVE DailyInv'
    BY <1>5, FinishStep DEF SaveBuild, Outcomes, Raises
  <1> QED
    BY <1>1, <1>2, <1>3, <1>4, <1>5 DEF BuildMoves

(***************************************************************************)
(* One step of the tick.                                                   *)
(***************************************************************************)
LEMMA HoldStep == DailyInv /\ (BeginHold \/ SaveHold) => DailyInv'
  <1> SUFFICES ASSUME DailyInv, BeginHold \/ SaveHold PROVE DailyInv'
    OBVIOUS
  <1> USE BuilderTypes DEF TickGoes
  <1>1. CASE BeginHold /\ dayRow.kind = "pick" /\ tick' = "rearm" /\ UNCHANGED <<draft, clock>>
    BY <1>1 DEF BeginHold, DailyInv, SaveInv, DailyTypeOK, StampInv, DraftInv, OutcomeInv,
                LoopInv, DailyLoopAlive
  <1>2. CASE /\ BeginHold /\ clock < MaxStamp /\ clock' = clock + 1 /\ tick' = "hold_save"
             /\ draft' = [draft EXCEPT !["tick"] = [kind |-> "hold", stamp |-> clock']]
    <2> USE <1>2 DEF BeginHold
    <2>1. StampInv' /\ clock' \in 0..MaxStamp /\ draft' \in [Savers -> DayRow]
      BY FreshDraft DEF DailyInv, Kinds
    <2>2. DailyTypeOK'
      BY <2>1 DEF DailyInv, SaveInv, DailyTypeOK, Savers
    <2>3. clock' # 0
      BY DailyAssumption DEF DailyInv, SaveInv, DailyTypeOK
    <2>4. DraftInv'
      BY <2>3 DEF DailyInv, SaveInv, DraftInv, DailyTypeOK, Savers
    <2>5. OutcomeInv' /\ LoopInv'
      BY DEF DailyInv, SaveInv, DailyTypeOK, OutcomeInv, LoopInv, DailyLoopAlive
    <2> QED
      BY <2>1, <2>2, <2>4, <2>5 DEF DailyInv, SaveInv
  <1>3. CASE SaveHold
    <2> USE <1>3 DEF SaveHold
    <2>1. dayRow' \in DayRow /\ (dayRow' # dayRow => dayRow' = draft["tick"])
      BY SavedRow DEF DailyInv, SaveInv, DailyTypeOK, DraftInv
    <2>2. StampInv'
      BY <2>1, DroppedDraft DEF DailyInv
    <2>3. DailyTypeOK'
      <3>1. NoDay \in DayRow
        BY DailyAssumption DEF NoDay, DayRow, Kinds
      <3> QED
        BY <2>1, <3>1 DEF DailyInv, SaveInv, DailyTypeOK
    <2>4. DraftInv'
      BY DEF DailyInv, SaveInv, DraftInv, DailyTypeOK
    <2>5. OutcomeInv' /\ LoopInv'
      BY DEF DailyInv, SaveInv, DailyTypeOK, OutcomeInv, LoopInv, DailyLoopAlive
    <2> QED
      BY <2>2, <2>3, <2>4, <2>5 DEF DailyInv, SaveInv
  <1> QED
    BY <1>1, <1>2, <1>3 DEF BeginHold

\* What a step that saves nothing and leaves the drafts and the clock alone keeps.
LEMMA SameRows ==
    ASSUME StampInv, UNCHANGED <<draft, dayRow, clock>>
    PROVE  StampInv'
  BY DEF StampInv

LEMMA TickStep == DailyInv /\ TickMoves => DailyInv'
  <1> SUFFICES ASSUME DailyInv, TickMoves PROVE DailyInv'
    OBVIOUS
  <1> USE BuilderTypes DEF TickGoes, buildV
  <1>1. CASE LoadSubnets \/ CheckReady \/ Failed \/ StillScheduled \/ ScheduleNext
    <2> USE <1>1 DEF LoadSubnets, CheckReady, Failed, StillScheduled, ScheduleNext
    <2>1. StampInv'
      BY SameRows DEF DailyInv, SaveInv
    <2>2. DailyTypeOK'
      BY DEF DailyInv, SaveInv, DailyTypeOK, Finished
    <2>3. DraftInv' /\ OutcomeInv'
      BY DEF DailyInv, SaveInv, DraftInv, OutcomeInv
    <2>4. LoopInv'
      BY DEF DailyInv, SaveInv, DailyTypeOK, LoopInv, DailyLoopAlive, Finished
    <2> QED
      BY <2>1, <2>2, <2>3, <2>4 DEF DailyInv, SaveInv
  <1>2. CASE Submit \/ AwaitWork
    <2> USE <1>2 DEF Submit, AwaitWork, Outcomes, Raises
    <2>1. StampInv'
      BY SameRows DEF DailyInv, SaveInv
    <2>2. DailyTypeOK'
      BY DEF DailyInv, SaveInv, DailyTypeOK, OutcomeInv
    <2>3. DraftInv' /\ OutcomeInv'
      BY DEF DailyInv, SaveInv, DailyTypeOK, DraftInv, OutcomeInv
    <2>4. LoopInv'
      BY DEF DailyInv, SaveInv, DailyTypeOK, LoopInv, OutcomeInv, DailyLoopAlive, Finished
    <2> QED
      BY <2>1, <2>2, <2>3, <2>4 DEF DailyInv, SaveInv
  <1>3. CASE BeginHold \/ SaveHold
    BY <1>3, HoldStep
  <1> QED
    BY <1>1, <1>2, <1>3 DEF TickMoves

(***************************************************************************)
(* One step of the scheduler or the process.                               *)
(***************************************************************************)
LEMMA ControlStep ==
    DailyInv /\ (StartDaily \/ FireDaily \/ DropDaily \/ StopDaily \/ CancelDaily) => DailyInv'
  <1> SUFFICES ASSUME DailyInv,
                      StartDaily \/ FireDaily \/ DropDaily \/ StopDaily \/ CancelDaily
               PROVE  DailyInv'
    OBVIOUS
  <1> USE DEF StartDaily, FireDaily, DropDaily, StopDaily, CancelDaily, TickGoes, tickV, buildV
  <1>1. StampInv'
    BY SameRows DEF DailyInv, SaveInv
  <1>2. DailyTypeOK'
    <2>1. tick' \in {tick, "load"} /\ dailyJob' \in {dailyJob, "soon", "none"}
      OBVIOUS
    <2>2. daily' \in BOOLEAN /\ stopped' \in BOOLEAN /\ dropped' \in BOOLEAN
      BY DEF DailyInv, SaveInv, DailyTypeOK
    <2>3. UNCHANGED <<boots, ready, cancelled, build, draft, outcome, dayRow, clock>>
      OBVIOUS
    <2> QED
      BY <2>1, <2>2, <2>3 DEF DailyInv, SaveInv, DailyTypeOK
  <1>3. DraftInv' /\ OutcomeInv'
    BY DEF DailyInv, SaveInv, DailyTypeOK, DraftInv, OutcomeInv, LoopInv
  <1>4. LoopInv'
    BY DEF DailyInv, SaveInv, DailyTypeOK, LoopInv, DailyLoopAlive
  <1> QED
    BY <1>1, <1>2, <1>3, <1>4 DEF DailyInv, SaveInv

LEMMA RebootStep == DailyInv /\ Reboot => DailyInv'
  <1> SUFFICES ASSUME DailyInv, Reboot PROVE DailyInv'
    OBVIOUS
  <1> USE BuilderTypes DEF Reboot
  <1>1. NoDay \in DayRow
    BY DailyAssumption DEF NoDay, DayRow, Kinds
  <1>2. draft' = [x \in Savers |-> NoDay] /\ build' = [b \in Builders |-> "idle"]
    BY DEF NoDrafts, NoBuilds, Savers
  <1>3. DailyTypeOK'
    <2>1. boots' \in 1..MaxBoots
      BY DailyAssumption DEF DailyInv, SaveInv, DailyTypeOK
    <2>2. draft' \in [Savers -> DayRow] /\ build' \in [Builders -> {"idle"}]
      BY <1>1, <1>2
    <2> QED
      BY <2>1, <2>2 DEF DailyInv, SaveInv, DailyTypeOK, Outcomes, Savers
  <1>4. StampInv'
    BY <1>2 DEF DailyInv, SaveInv, DailyTypeOK, StampInv, NoDay, DayRow
  <1>5. DraftInv' /\ OutcomeInv'
    BY <1>2 DEF DraftInv, OutcomeInv
  <1>6. LoopInv'
    BY DEF LoopInv, DailyLoopAlive
  <1> QED
    BY <1>3, <1>4, <1>5, <1>6 DEF DailyInv, SaveInv

LEMMA DailyInvNext == DailyInv /\ [DailyNext]_dailyVars => DailyInv'
  <1> SUFFICES ASSUME DailyInv, [DailyNext]_dailyVars PROVE DailyInv'
    OBVIOUS
  <1>1. CASE DailyNext
    BY <1>1, BuildStep, TickStep, ControlStep, RebootStep DEF DailyNext
  <1>2. CASE UNCHANGED dailyVars
    BY <1>2 DEF dailyVars, tickV, buildV, DailyInv, SaveInv, DailyTypeOK, StampInv, DraftInv,
                OutcomeInv, LoopInv, DailyLoopAlive
  <1> QED
    BY <1>1, <1>2

LEMMA DailyInvSafe == DailySpec => []DailyInv
  BY DailyInvInit, DailyInvNext, PTL DEF DailySpec

\* Every reachable state of the daily pick, its tick and its builds has its type
\* (pick_scheduler.py, daily_pick_engine.py).
THEOREM DailyTypeCorrect == DailySpec => []DailyTypeOK
  <1>1. DailyInv => DailyTypeOK
    BY DEF DailyInv, SaveInv
  <1> QED
    BY <1>1, DailyInvSafe, PTL

\* A registered scheduler has a next tick whichever way its tick, worker and
\* placeholder end, and a soon one while the day has no finished row (_tick).
THEOREM DailyLoopAliveAlways == DailySpec => []DailyLoopAlive
  <1>1. DailyInv => DailyLoopAlive
    BY DEF DailyInv, LoopInv
  <1> QED
    BY <1>1, DailyInvSafe, PTL

\* Today's row is replaced by later builds only, and a published pick never by a
\* placeholder, however many readers and late workers save (_save).
THEOREM PublishedPickKeptAlways == DailySpec => PublishedPickKept
  <1> DEFINE Kept == dayRow' # dayRow =>
                       /\ dayRow'.stamp > dayRow.stamp
                       /\ ~(dayRow.kind = "pick" /\ dayRow'.kind = "hold")
  <1>1. DailyInv /\ [DailyNext]_dailyVars => [Kept]_dayRow
    <2> SUFFICES ASSUME DailyInv, DailyNext, dayRow' # dayRow PROVE Kept
      BY DEF dailyVars
    <2>1. \E x \in Savers : draft[x].stamp # 0 /\ SaveDay(draft[x])
      <3>1. CASE \E b \in Builders : SaveBuild(b)
        BY <3>1, BuilderTypes DEF SaveBuild, DailyInv, SaveInv, DraftInv
      <3>2. CASE SaveHold
        BY <3>2, BuilderTypes DEF SaveHold, DailyInv, SaveInv, DraftInv
      <3> QED
        BY <3>1, <3>2 DEF DailyNext, BuildMoves, TickMoves, WorkBegins, Read, LoadDay, Score,
             LoadSubnets, Submit, AwaitWork, CheckReady, Failed, BeginHold, StillScheduled,
             ScheduleNext, StartDaily, FireDaily, DropDaily, StopDaily, CancelDaily, Reboot
    <2> QED
      BY <2>1, SavedRow DEF DailyInv
  <1> QED
    BY <1>1, DailyInvSafe, PTL DEF DailySpec, PublishedPickKept

(***************************************************************************)
(* LivenessTracker.                                                        *)
(***************************************************************************)
\* The tracker is never behind its record, nor ahead of the clock; and a record that
\* nobody is about to write has the tracker's epochs.
EpochsInv ==
    /\ LivenessTypeOK
    /\ stored.success <= fields.success /\ fields.success <= epoch
    /\ (\A t \in Recorders : saving[t] = "idle") /\ ~unsaved =>
         stored.success = fields.success /\ stored.event = fields.event

\* What the calls make of the fields.
LEMMA FieldsWith ==
    ASSUME NEW f \in Fields, NEW e \in 0..MaxEpoch, NEW l \in {"new", "started", "stopped"},
           NEW a \in 0..1, NEW b \in 0..1
    PROVE  /\ [f EXCEPT !.life = l] \in Fields
           /\ [f EXCEPT !.skips = a, !.event = e] \in Fields
           /\ [f EXCEPT !.fails = a, !.event = e] \in Fields
           /\ [f EXCEPT !.fails = a, !.skips = b] \in Fields
           /\ [f EXCEPT !.success = e, !.event = e, !.fails = a, !.skips = b] \in Fields
           /\ f.success \in 0..MaxEpoch /\ f.event \in 0..MaxEpoch
  <1>1. [f EXCEPT !.life = l] \in Fields
    BY DEF Fields
  <1>2. [f EXCEPT !.skips = a, !.event = e] \in Fields
    BY DEF Fields
  <1>3. [f EXCEPT !.fails = a, !.event = e] \in Fields
    BY DEF Fields
  <1>4. [f EXCEPT !.fails = a, !.skips = b] \in Fields
    BY DEF Fields
  <1>5. [f EXCEPT !.success = e, !.event = e, !.fails = a, !.skips = b] \in Fields
    BY DEF Fields
  <1>6. f.success \in 0..MaxEpoch /\ f.event \in 0..MaxEpoch
    BY DEF Fields
  <1> QED
    BY <1>1, <1>2, <1>3, <1>4, <1>5, <1>6

\* The fields of each record call.
LEMMA Recorded ==
    ASSUME NEW f \in Fields, NEW e \in 0..MaxEpoch
    PROVE  /\ [f EXCEPT !.life = "started"] \in Fields
           /\ [f EXCEPT !.life = "stopped"] \in Fields
           /\ [f EXCEPT !.fails = 0, !.skips = 0] \in Fields
           /\ [f EXCEPT !.skips = 1, !.event = e] \in Fields
           /\ [f EXCEPT !.fails = 1, !.event = e] \in Fields
           /\ [f EXCEPT !.success = e, !.event = e, !.fails = 0, !.skips = 0] \in Fields
  <1>1. /\ 0 \in 0..1 /\ 1 \in 0..1
        /\ "started" \in {"new", "started", "stopped"}
        /\ "stopped" \in {"new", "started", "stopped"}
    OBVIOUS
  <1> QED
    BY <1>1, FieldsWith, Zenon

\* Only a success changes the epoch of the last success.
LEMMA RecordedSuccess ==
    ASSUME NEW f \in Fields, NEW e
    PROVE  /\ [f EXCEPT !.life = "started"].success = f.success
           /\ [f EXCEPT !.life = "stopped"].success = f.success
           /\ [f EXCEPT !.fails = 0, !.skips = 0].success = f.success
           /\ [f EXCEPT !.skips = 1, !.event = e].success = f.success
           /\ [f EXCEPT !.fails = 1, !.event = e].success = f.success
           /\ [f EXCEPT !.success = e, !.event = e, !.fails = 0, !.skips = 0].success = e
  BY DEF Fields

\* A tracker of its own defaults.
LEMMA NewFieldsType == NewFields \in Fields
  <1>1. \A s, e \in 0..MaxEpoch, l \in {"new", "started", "stopped"}, a, b \in 0..1 :
          [success |-> s, event |-> e, life |-> l, fails |-> a, skips |-> b] \in Fields
    BY Zenon DEF Fields
  <1>2. 0 \in 0..MaxEpoch /\ 0 \in 0..1
    BY EpochAssumption
  <1> QED
    BY <1>1, <1>2 DEF NewFields

\* A record call leaves the fields well formed, and their success no older.
LEMMA RecordKeeps ==
    ASSUME EpochsInv, NEW t \in Recorders, NEW new \in Fields, Record(t, new),
           fields.success <= new.success, new.success <= epoch
    PROVE  EpochsInv' /\ stored'.success >= stored.success
  <1>1. saving'[t] # "idle"
    BY DEF Record, EpochsInv, LivenessTypeOK
  <1>2. LivenessTypeOK'
    BY DEF Record, EpochsInv, LivenessTypeOK
  <1>3. stored'.success <= fields'.success /\ fields'.success <= epoch'
    BY DEF Record, EpochsInv, LivenessTypeOK, Fields
  <1>4. stored'.success >= stored.success
    BY DEF Record, EpochsInv, LivenessTypeOK, Fields
  <1> QED
    BY <1>1, <1>2, <1>3, <1>4 DEF EpochsInv

\* The initial state.
LEMMA EpochsInit == LivenessInit => EpochsInv
  <1> SUFFICES ASSUME LivenessInit PROVE EpochsInv
    OBVIOUS
  <1>1. NewFields.success = 0 /\ 1 \in 1..MaxEpoch
    BY EpochAssumption DEF NewFields
  <1>2. LivenessTypeOK
    BY <1>1, NewFieldsType DEF LivenessInit, LivenessTypeOK
  <1> QED
    BY <1>1, <1>2 DEF LivenessInit, EpochsInv

\* Every step keeps the epochs in order.
LEMMA EpochsStep ==
    ASSUME EpochsInv, [LivenessNext]_livenessVars
    PROVE  EpochsInv' /\ stored'.success >= stored.success
  <1> USE DEF EpochsInv, LivenessTypeOK
  <1>0. fields.success \in Int /\ stored.success \in Int /\ epoch \in Int
    BY DEF Fields
  <1>1. CASE Clock
    BY <1>0, <1>1, EpochAssumption DEF Clock
  <1>2. CASE Hydrate
    <2>1. LivenessTypeOK'
      BY <1>2, NewFieldsType DEF Hydrate
    <2> QED
      BY <1>0, <1>2, <2>1 DEF Hydrate
  <1>3. ASSUME NEW t \in Recorders, StartLife(t) \/ StopLife(t) \/ ClearBurst(t)
        PROVE  EpochsInv' /\ stored'.success >= stored.success
    <2>1. 0 \in 0..MaxEpoch
      BY EpochAssumption
    <2>2. \E new \in Fields : Record(t, new) /\ new.success = fields.success
      <3>1. CASE StartLife(t)
        BY <2>1, <3>1, Recorded, RecordedSuccess DEF StartLife
      <3>2. CASE StopLife(t)
        BY <2>1, <3>2, Recorded, RecordedSuccess DEF StopLife
      <3>3. CASE ClearBurst(t)
        BY <2>1, <3>3, Recorded, RecordedSuccess DEF ClearBurst
      <3> QED
        BY <1>3, <3>1, <3>2, <3>3
    <2> QED
      BY <1>0, <2>2, RecordKeeps
  <1>4. ASSUME NEW t \in Recorders, RecordSkip(t) \/ RecordFailure(t)
        PROVE  EpochsInv' /\ stored'.success >= stored.success
    <2>1. epoch \in 0..MaxEpoch
      BY EpochAssumption
    <2>2. \E new \in Fields : Record(t, new) /\ new.success = fields.success
      <3>1. CASE RecordSkip(t)
        <4> DEFINE new == [fields EXCEPT !.skips = 1, !.event = epoch]
        <4>1. new \in Fields
          BY <2>1, Recorded
        <4>2. new.success = fields.success
          BY RecordedSuccess
        <4>3. Record(t, new)
          BY <3>1 DEF RecordSkip
        <4> QED
          BY <4>1, <4>2, <4>3
      <3>2. CASE RecordFailure(t)
        <4> DEFINE new == [fields EXCEPT !.fails = 1, !.event = epoch]
        <4>1. new \in Fields
          BY <2>1, Recorded
        <4>2. new.success = fields.success
          BY RecordedSuccess
        <4>3. Record(t, new)
          BY <3>2 DEF RecordFailure
        <4> QED
          BY <4>1, <4>2, <4>3
      <3> QED
        BY <1>4, <3>1, <3>2
    <2> QED
      BY <1>0, <2>2, RecordKeeps
  <1>5. ASSUME NEW t \in Recorders, RecordSuccess(t)
        PROVE  EpochsInv' /\ stored'.success >= stored.success
    <2> DEFINE new == [fields EXCEPT !.success = epoch, !.event = epoch, !.fails = 0, !.skips = 0]
    <2>1. epoch \in 0..MaxEpoch
      BY EpochAssumption
    <2>2. new \in Fields /\ new.success = epoch
      <3>1. new \in Fields
        BY <2>1, Recorded
      <3>2. new.success = epoch
        BY DEF Fields
      <3> QED
        BY <3>1, <3>2
    <2>3. Record(t, new)
      BY <1>5 DEF RecordSuccess
    <2> HIDE DEF new
    <2> QED
      BY <1>0, <2>2, <2>3, RecordKeeps
  <1>6. ASSUME NEW t \in Recorders, TakeSnapshot(t)
        PROVE  EpochsInv' /\ stored'.success >= stored.success
    <2>1. saving'[t] # "idle"
      BY <1>6 DEF TakeSnapshot
    <2> QED
      BY <1>0, <1>6, <2>1 DEF TakeSnapshot
  <1>7. ASSUME NEW t \in Recorders, Mutate(t)
        PROVE  EpochsInv' /\ stored'.success >= stored.success
    <2>1. /\ Mutated(t) \in Fields /\ Mutated(t).success = fields.success
          /\ Mutated(t).event = fields.event
      BY DEF Mutated, Fields
    <2>2. saving' \in [Recorders -> {"idle", "snapshot", "mutator"}]
          /\ snap' \in [Recorders -> Fields]
      BY <1>7, NewFieldsType DEF Mutate
    <2>3. CASE stored' = Mutated(t) /\ unsaved' = FALSE
      <3>1. LivenessTypeOK'
        BY <1>7, <2>1, <2>2, <2>3 DEF Mutate
      <3>2. /\ stored'.success = fields'.success /\ stored'.event = fields'.event
            /\ stored'.success <= fields'.success /\ fields'.success <= epoch'
        BY <1>0, <1>7, <2>1, <2>3 DEF Mutate
      <3>3. stored'.success >= stored.success
        BY <1>0, <2>1, <2>3
      <3> QED
        BY <3>1, <3>2, <3>3
    <2>4. CASE unsaved' = TRUE /\ UNCHANGED stored
      BY <1>0, <1>7, <2>2, <2>4 DEF Mutate
    <2> QED
      BY <1>7, <2>3, <2>4 DEF Mutate
  <1>8. CASE UNCHANGED livenessVars
    BY <1>0, <1>8 DEF livenessVars
  <1> HIDE DEF EpochsInv, LivenessTypeOK
  <1> QED
    BY <1>1, <1>2, <1>3, <1>4, <1>5, <1>6, <1>7, <1>8 DEF LivenessNext

\* EpochsKept: however the saves of any threads overtake each other, fail or are cut
\* off, the stored success never goes back, and a record nobody is about to write has
\* the tracker's epochs (_save, write_soul_map).
THEOREM EpochsKeptAlways == LivenessSpec => EpochsKept
  <1>1. EpochsInv /\ [LivenessNext]_livenessVars
          => EpochsInv' /\ [stored'.success >= stored.success]_livenessVars
    BY EpochsStep
  <1>2. EpochsInv => ((\A t \in Recorders : saving[t] = "idle") /\ ~unsaved =>
                        stored.success = fields.success /\ stored.event = fields.event)
    BY DEF EpochsInv
  <1> QED
    BY EpochsInit, <1>1, <1>2, PTL DEF LivenessSpec, EpochsKept

(***************************************************************************)
(* The sum of the parts.                                                   *)
(***************************************************************************)
\* What the sum does, each part may do by itself: a step of one part is none of the
\* others, so what is proved of a part holds of it in the sum, too.
THEOREM PartsOfWorker == Spec => GuardSpec /\ OwnerSpec /\ DailySpec /\ LivenessSpec
  <1>1. Init => GuardInit /\ OwnerInit /\ DailyInit /\ LivenessInit
    BY DEF Init
  <1>2. [Next]_<<focus, parts>> =>
          /\ [GuardNext]_guardVars /\ [OwnerNext]_ownerVars
          /\ [DailyNext]_dailyVars /\ [LivenessNext]_livenessVars
    BY DEF Next, parts
  <1> QED
    BY <1>1, <1>2, PTL DEF Spec, GuardSpec, OwnerSpec, DailySpec, LivenessSpec

\* Every state that the worker's parts reach has its type: the guard and its producer,
\* the owner lock and its files, the pick and its builds, the tracker and its record
\* (_guard_loop, try_acquire_write_owner_lock, _tick, _save).
THEOREM WorkerTypeCorrect == Spec => []WorkerTypeOK
  <1>1. LivenessSpec => []LivenessTypeOK
    <2>1. EpochsInv /\ [LivenessNext]_livenessVars => EpochsInv'
      BY EpochsStep
    <2>2. EpochsInv => LivenessTypeOK
      BY DEF EpochsInv
    <2> QED
      BY EpochsInit, <2>1, <2>2, PTL DEF LivenessSpec
  <1>2. GuardTypeOK /\ OwnerTypeOK /\ DailyTypeOK /\ LivenessTypeOK => WorkerTypeOK
    BY DEF WorkerTypeOK
  <1> QED
    BY <1>1, <1>2, PartsOfWorker, GuardTypeCorrect, OwnerTypeCorrect, DailyTypeCorrect, PTL
===============================================================================
