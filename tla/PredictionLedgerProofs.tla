----------------------- MODULE PredictionLedgerProofs -----------------------
(***************************************************************************)
(* What holds of the ledger for every set of rows and threads, and however *)
(* the loads and the writes of the passes interleave, fail or are lost.    *)
(* The argument: a pass writes back nothing but a copy, so a fact that     *)
(* every copy of the file has, and that each step keeps, is the file's.    *)
(* The last part is about one cycle whose writes succeed.                  *)
(***************************************************************************)
EXTENDS PredictionLedger, TLAPS

RowSound(r, row, n, l) ==
    /\ row.st = "resolved" /\ r \notin Shadows \cup Pumps => n >= 1
    /\ row.st = "expired" /\ r \notin Corrupt \cup Legacy => l >= Cap
    /\ row.tries <= l
    /\ row.legacy => r \in Legacy

Unique(d) == \A r, s \in Having(d, {"pending"}) \ Legacy : Slot[r] = Slot[s] => r = s

\* A copy d of the file agrees with the nudges n and the lookups l made so far.
Sound(d, n, l) == (\A r \in Rows : RowSound(r, d[r], n[r], l[r])) /\ Unique(d)

Copies    == \A t \in Threads : Sound(snap[t], nudges, lookups) /\ Sound(inner[t], nudges, lookups)
SoundInv  == Sound(file, nudges, lookups) /\ Copies
Inv       == TypeOK /\ SoundInv

(***************************************************************************)
(* Types of the operators.                                                 *)
(***************************************************************************)
LEMMA CapNat == Cap \in Nat /\ Cap >= 1
  BY RowsAssumption

LEMMA RowParts == \A row \in Row : row.st \in Status /\ row.tries \in 0..Cap /\ row.legacy \in BOOLEAN
  BY DEF Row

LEMMA SetStatusType ==
    ASSUME NEW d \in Ledger, NEW rs, NEW s \in Status PROVE SetStatus(d, rs, s) \in Ledger
  <1>1. \A r \in Rows : d[r] \in Row /\ [d[r] EXCEPT !.st = s] \in Row
    BY DEF Ledger, Row
  <1> QED
    BY <1>1 DEF SetStatus, Ledger

LEMMA StatusFacts ==
    /\ "expired" \in Status /\ "resolved" \in Status /\ "duplicate" \in Status
    /\ "ungradeable" \in Status /\ "pending" \in Status /\ "none" \in Status
  BY DEF Status, Closed, Retired

LEMMA NoLedgerType == NoLedger \in Ledger /\ NoRow \in Row
  BY CapNat, StatusFacts DEF NoLedger, NoRow, Ledger, Row

LEMMA RestoredType == ASSUME NEW d \in Ledger, NEW now PROVE Restored(d, now) \in Ledger
  <1>1. \A row \in Row : /\ [row EXCEPT !.legacy = FALSE] \in Row
                         /\ [row EXCEPT !.st = "pending", !.legacy = FALSE] \in Row
    BY StatusFacts DEF Row
  <1>2. \A r \in Rows : d[r] \in Row
    BY DEF Ledger
  <1> QED
    BY <1>1, <1>2 DEF Restored, Ledger

LEMMA DedupedType == ASSUME NEW d \in Ledger PROVE Deduped(d) \subseteq Ledger
  <1>1. \A rs : SetStatus(d, rs, "duplicate") \in Ledger
    BY SetStatusType, StatusFacts
  <1>2. \A e \in Deduped(d) : \E rs : e = SetStatus(d, rs, "duplicate")
    BY DEF Deduped
  <1> QED
    BY <1>1, <1>2

LEMMA VerdictsType ==
    ASSUME NEW r \in Rows, NEW row \in Row, NEW now PROVE Verdicts(r, row, now) \subseteq Row
  <1>1. \A s \in Status : [row EXCEPT !.st = s] \in Row
    BY DEF Row
  <1>2. Miss(row) \in Row
    BY CapNat DEF Miss, Row
  <1> QED
    BY <1>1, <1>2, StatusFacts DEF Verdicts, Lookups

LEMMA CountType ==
    ASSUME NEW b \in Nat, NEW f \in [Rows -> 0..b], NEW r \in Rows
    PROVE  /\ Count(f, r, b) \in [Rows -> 0..b]
           /\ \A s \in Rows : f[s] <= Count(f, r, b)[s]
           /\ Count(f, r, b)[r] >= IF f[r] < b THEN f[r] + 1 ELSE b
  BY DEF Count

(***************************************************************************)
(* The type invariant.                                                     *)
(***************************************************************************)
LEMMA TypeInit == Init => TypeOK
  <1> SUFFICES ASSUME Init PROVE TypeOK
    OBVIOUS
  <1>1. file \in Ledger
    <2>1. [st |-> "expired", tries |-> 0, legacy |-> TRUE] \in Row
      BY CapNat, StatusFacts DEF Row
    <2> QED
      BY <2>1, NoLedgerType DEF Init, Ledger
  <1> QED
    BY <1>1, NoLedgerType, CapNat, RowsAssumption DEF Init, TypeOK, Labels, Times, MaxNudges

LEMMA WriteType == ASSUME TypeOK, NEW d \in Ledger, Write(d) PROVE file' \in Ledger
  BY DEF TypeOK, Write

LEMMA LearnType ==
    ASSUME TypeOK, NEW r \in Rows, NEW graded \in BOOLEAN, Learn(r, graded)
    PROVE  nudges' \in [Rows -> 0..MaxNudges]
  BY CountType DEF TypeOK, Learn, MaxNudges

LEMMA LookupType ==
    ASSUME TypeOK, NEW r \in Rows PROVE Count(lookups, r, Cap) \in [Rows -> 0..Cap]
  BY CountType, CapNat DEF TypeOK

LEMMA EndType ==
    ASSUME TypeOK, NEW t \in Threads, End(t), file' \in Ledger,
           UNCHANGED <<time, issued, histVars>>
    PROVE  TypeOK'
  BY NoLedgerType DEF TypeOK, End, Go, Labels, Times, histVars

LEMMA TypeRows == ASSUME TypeOK, NEW r \in Rows, Append(r) \/ Elapse(r) PROVE TypeOK'
  <1>1. CASE Append(r)
    <2>1. [NoRow EXCEPT !.st = "pending"] \in Row
      BY NoLedgerType, StatusFacts DEF Row
    <2> QED
      BY <1>1, <2>1 DEF Append, TypeOK, Ledger, threadVars, histVars
  <1>2. CASE Elapse(r)
    BY <1>2 DEF Elapse, TypeOK, Times, threadVars, histVars
  <1> QED
    BY <1>1, <1>2

LEMMA TypeResolve == ASSUME TypeOK, NEW t \in Threads, Load(t) \/ Resolve(t) PROVE TypeOK'
  <1> USE DEF TypeOK, Go, histVars
  <1> "regload" \in Labels /\ "regrade" \in Labels /\ "restored" \in Labels
      /\ "regsave" \in Labels /\ "merge" \in Labels /\ "grade" \in Labels
      /\ "save" \in Labels /\ "expload" \in Labels /\ "expsave" \in Labels
    BY DEF Labels
  <1>1. CASE Load(t)
    BY <1>1, RestoredType DEF Load
  <1>2. CASE SaveRestored(t)
    BY <1>2, WriteType DEF SaveRestored
  <1>3. CASE RegradeLoad(t)
    <2>1. PICK d \in Ledger : snap' = [snap EXCEPT ![t] = d]
      BY <1>3, DedupedType DEF RegradeLoad
    <2>2. Having(file, {"expired"}) \ Corrupt \in SUBSET Rows
      BY DEF Having
    <2> QED
      BY <1>3, <2>1, <2>2 DEF RegradeLoad
  <1>4. CASE RegradeRow(t)
    <2> PICK r \in todo[t], graded \in BOOLEAN :
            /\ todo' = [todo EXCEPT ![t] = @ \ {r}]
            /\ inner' = [inner EXCEPT ![t] = IF graded THEN SetStatus(@, {r}, "resolved") ELSE @]
            /\ dirty' = [dirty EXCEPT ![t] = @ \/ graded]
            /\ Learn(r, graded) /\ lookups' = Count(lookups, r, Cap)
            /\ UNCHANGED <<file, time, pc, snap, seen, issued>>
      BY <1>4 DEF RegradeRow
    <2>1. r \in Rows
      OBVIOUS
    <2>2. SetStatus(inner[t], {r}, "resolved") \in Ledger
      BY SetStatusType, StatusFacts
    <2>3. inner' \in [Threads -> Ledger]
      BY <2>2
    <2>4. dirty' \in [Threads -> BOOLEAN] /\ todo' \in [Threads -> SUBSET Rows]
      OBVIOUS
    <2> QED
      BY <2>1, <2>3, <2>4, LearnType, LookupType
  <1>5. CASE RegradeEnd(t)
    <2>1. pc' \in [Threads -> Labels]
      BY <1>5 DEF RegradeEnd, ToGrade
    <2>2. todo' \in [Threads -> SUBSET Rows]
      <3>1. Having(snap[t], {"pending"}) \in SUBSET Rows
        BY DEF Having
      <3> QED
        BY <1>5, <3>1 DEF RegradeEnd, ToGrade
    <2> QED
      BY <1>5, <2>1, <2>2 DEF RegradeEnd
  <1>6. CASE RegradeSave(t)
    BY <1>6, WriteType DEF RegradeSave
  <1>7. CASE Merge(t)
    <2> DEFINE merged == [r \in Rows |->
                IF snap[t][r].st \in Closed /\ file[r].st \in Closed
                THEN file[r] ELSE snap[t][r]]
    <2>1. merged \in Ledger
      BY DEF Ledger
    <2>2. snap' = [snap EXCEPT ![t] = merged] /\ ToGrade(t, merged)
      BY <1>7 DEF Merge
    <2>3. Having(merged, {"pending"}) \in SUBSET Rows
      BY DEF Having
    <2> HIDE DEF merged
    <2>4. snap' \in [Threads -> Ledger]
      BY <2>1, <2>2
    <2>5. pc' \in [Threads -> Labels] /\ todo' \in [Threads -> SUBSET Rows]
      BY <2>2, <2>3 DEF ToGrade
    <2> QED
      BY <1>7, <2>4, <2>5 DEF Merge
  <1>8. CASE GradeRow(t)
    <2> PICK r \in todo[t] :
            /\ todo' = [todo EXCEPT ![t] = @ \ {r}]
            /\ \E v \in Verdicts(r, snap[t][r], seen[t][r]) :
                  /\ snap' = [snap EXCEPT ![t][r] = v]
                  /\ Learn(r, v.st = "resolved")
            /\ \/ lookups' = Count(lookups, r, Cap)
               \/ lookups' = lookups
            /\ UNCHANGED <<file, time, pc, seen, inner, dirty, issued>>
      BY <1>8 DEF GradeRow
    <2>1. r \in Rows
      OBVIOUS
    <2>2. PICK v \in Verdicts(r, snap[t][r], seen[t][r]) :
             snap' = [snap EXCEPT ![t][r] = v] /\ Learn(r, v.st = "resolved")
      OBVIOUS
    <2>3. snap[t][r] \in Row
      BY <2>1 DEF Ledger
    <2>4. v \in Row
      BY <2>1, <2>2, <2>3, VerdictsType
    <2>5. snap' \in [Threads -> Ledger]
      <3>1. [snap[t] EXCEPT ![r] = v] \in Ledger
        BY <2>1, <2>4 DEF Ledger
      <3> QED
        BY <2>2, <3>1
    <2>6. nudges' \in [Rows -> 0..MaxNudges]
      BY <2>1, <2>2, LearnType
    <2>7. lookups' \in [Rows -> 0..Cap]
      BY <2>1, LookupType
    <2>8. todo' \in [Threads -> SUBSET Rows]
      OBVIOUS
    <2> QED
      BY <2>5, <2>6, <2>7, <2>8
  <1>9. CASE GradeEnd(t)
    BY <1>9 DEF GradeEnd
  <1>10. CASE Save(t)
    <2>1. file' \in Ledger
      BY <1>10, WriteType DEF Save
    <2>2. CASE t \in Cycles
      BY <1>10, <2>1, <2>2 DEF Save
    <2>3. CASE t \notin Cycles
      BY <1>10, <2>1, <2>3, EndType DEF Save
    <2> QED
      BY <2>2, <2>3
  <1>11. CASE ExpireLoad(t)
    BY <1>11, SetStatusType, StatusFacts DEF ExpireLoad
  <1>12. CASE ExpireSave(t)
    BY <1>12, WriteType, EndType DEF ExpireSave
  <1> QED
    BY <1>1, <1>2, <1>3, <1>4, <1>5, <1>6, <1>7, <1>8, <1>9, <1>10, <1>11, <1>12 DEF Resolve

LEMMA TypeRecover == ASSUME TypeOK, NEW t \in Threads, RecoverLoad(t) \/ Recover(t) PROVE TypeOK'
  <1> USE DEF TypeOK, Go, histVars
  <1>1. CASE RecoverLoad(t)
    <2>1. Having(file, Retired) \ Corrupt \in SUBSET Rows /\ "recover" \in Labels
      BY DEF Having, Labels
    <2> QED
      BY <1>1, <2>1 DEF RecoverLoad
  <1>2. CASE RecoverRow(t)
    <2> PICK r \in todo[t], graded \in BOOLEAN :
            /\ todo' = [todo EXCEPT ![t] = @ \ {r}]
            /\ snap' = [snap EXCEPT ![t] = IF graded THEN SetStatus(@, {r}, "resolved") ELSE @]
            /\ dirty' = [dirty EXCEPT ![t] = @ \/ graded]
            /\ Learn(r, graded) /\ lookups' = Count(lookups, r, Cap)
            /\ UNCHANGED <<file, time, pc, seen, inner, issued>>
      BY <1>2 DEF RecoverRow
    <2>1. r \in Rows
      OBVIOUS
    <2>2. SetStatus(snap[t], {r}, "resolved") \in Ledger
      BY SetStatusType, StatusFacts
    <2>3. snap' \in [Threads -> Ledger]
      BY <2>2
    <2>4. dirty' \in [Threads -> BOOLEAN] /\ todo' \in [Threads -> SUBSET Rows]
      OBVIOUS
    <2> QED
      BY <2>1, <2>3, <2>4, LearnType, LookupType
  <1>3. CASE RecoverEnd(t)
    <2>1. file' \in Ledger
      BY <1>3, WriteType DEF RecoverEnd
    <2> QED
      BY <1>3, <2>1, EndType DEF RecoverEnd
  <1> QED
    BY <1>1, <1>2, <1>3 DEF Recover

LEMMA TypeNext == TypeOK /\ [Next]_vars => TypeOK'
  <1> SUFFICES ASSUME TypeOK, [Next]_vars PROVE TypeOK'
    OBVIOUS
  <1>1. CASE \E r \in Rows : Append(r) \/ Elapse(r)
    BY <1>1, TypeRows
  <1>2. CASE \E t \in Threads : Load(t) \/ Resolve(t)
    BY <1>2, TypeResolve
  <1>3. CASE \E t \in Threads : RecoverLoad(t) \/ Recover(t)
    BY <1>3, TypeRecover
  <1>4. CASE \E t \in Threads : Restart(t)
    BY <1>4, EndType DEF Restart, TypeOK
  <1>5. CASE UNCHANGED vars
    BY <1>5 DEF vars, threadVars, histVars, TypeOK
  <1> QED
    BY <1>1, <1>2, <1>3, <1>4, <1>5 DEF Next

\* Every reachable state of the ledger and its passes has its type: the count of
\* missed lookups never passes the cap, whatever copies are written back.
THEOREM TypeCorrect == Spec => []TypeOK
  BY TypeInit, TypeNext, PTL DEF Spec

(***************************************************************************)
(* Soundness of a copy.                                                    *)
(***************************************************************************)
\* More nudges and lookups take nothing away from a copy.
Grows == \A r \in Rows : nudges[r] <= nudges'[r] /\ lookups[r] <= lookups'[r]

LEMMA SoundGrows ==
    ASSUME TypeOK, TypeOK', Grows, NEW d \in Ledger, Sound(d, nudges, lookups)
    PROVE  Sound(d, nudges', lookups')
  <1> SUFFICES ASSUME NEW r \in Rows PROVE RowSound(r, d[r], nudges'[r], lookups'[r])
    BY DEF Sound
  <1>1. RowSound(r, d[r], nudges[r], lookups[r])
    BY DEF Sound
  <1>2. nudges[r] \in Nat /\ nudges'[r] \in Nat /\ nudges[r] <= nudges'[r]
    <2>1. nudges \in [Rows -> 0..MaxNudges] /\ nudges' \in [Rows -> 0..MaxNudges]
      BY DEF TypeOK
    <2> QED
      BY <2>1 DEF MaxNudges, Grows
  <1>3. lookups[r] \in Nat /\ lookups'[r] \in Nat /\ lookups[r] <= lookups'[r]
    <2>1. lookups \in [Rows -> 0..Cap] /\ lookups' \in [Rows -> 0..Cap]
      BY DEF TypeOK
    <2> QED
      BY <2>1, CapNat DEF Grows
  <1>4. d[r].tries \in Nat
    BY CapNat, RowParts DEF Ledger
  <1> QED
    BY <1>1, <1>2, <1>3, <1>4, CapNat DEF RowSound

\* Copies with fewer pending rows, legacy rows aside, have fewer rivals.
LEMMA UniqueFewer ==
    ASSUME NEW d, NEW e, Unique(d),
           \A r \in Rows \ Legacy : e[r].st = "pending" => d[r].st = "pending"
    PROVE  Unique(e)
  BY DEF Unique, Having

LEMMA SoundSetStatus ==
    ASSUME NEW d \in Ledger, NEW rs, NEW s, NEW n, NEW l, Sound(d, n, l),
           s \in {"expired", "resolved", "duplicate"},
           s = "expired" => \A r \in rs \ (Corrupt \cup Legacy) : l[r] >= Cap,
           s = "resolved" => \A r \in rs \ (Shadows \cup Pumps) : n[r] >= 1
    PROVE  Sound(SetStatus(d, rs, s), n, l)
  <1> DEFINE e == SetStatus(d, rs, s)
  <1>1. \A r \in Rows : /\ r \in rs => e[r].st = s
                        /\ r \notin rs => e[r].st = d[r].st
                        /\ e[r].tries = d[r].tries /\ e[r].legacy = d[r].legacy
    BY DEF SetStatus, Ledger, Row
  <1> HIDE DEF e
  <1>2. Unique(e)
    BY <1>1, UniqueFewer DEF Sound
  <1>3. ASSUME NEW r \in Rows PROVE RowSound(r, e[r], n[r], l[r])
    <2>1. RowSound(r, d[r], n[r], l[r])
      BY DEF Sound
    <2> QED
      BY <1>1, <2>1 DEF RowSound
  <1>4. Sound(e, n, l)
    BY <1>2, <1>3 DEF Sound
  <1> QED
    BY <1>4 DEF e

LEMMA SoundRestored ==
    ASSUME NEW d \in Ledger, NEW now, NEW n, NEW l, Sound(d, n, l)
    PROVE  Sound(Restored(d, now), n, l)
  <1> DEFINE e == Restored(d, now)
  <1>1. \A r \in Rows : /\ e[r].st = "pending" => d[r].st = "pending" \/ d[r].legacy
                        /\ e[r].st # "pending" => e[r].st = d[r].st
                        /\ e[r].tries = d[r].tries
                        /\ e[r].legacy => d[r].legacy
    BY DEF Restored, Restorable, Ledger, Row
  <1> HIDE DEF e
  <1>2. ASSUME NEW r \in Rows PROVE RowSound(r, e[r], n[r], l[r])
    <2>1. RowSound(r, d[r], n[r], l[r])
      BY DEF Sound
    <2> QED
      BY <1>1, <2>1 DEF RowSound
  <1>3. Unique(e)
    <2>1. \A r \in Rows \ Legacy : e[r].st = "pending" => d[r].st = "pending"
      BY <1>1 DEF Sound, RowSound
    <2> QED
      BY <2>1, UniqueFewer DEF Sound
  <1>4. Sound(e, n, l)
    BY <1>2, <1>3 DEF Sound
  <1> QED
    BY <1>4 DEF e

LEMMA SoundDeduped ==
    ASSUME NEW d \in Ledger, NEW n, NEW l, Sound(d, n, l), NEW e \in Deduped(d)
    PROVE  Sound(e, n, l)
  <1>1. PICK rs : e = SetStatus(d, rs, "duplicate")
    BY DEF Deduped
  <1> QED
    BY <1>1, SoundSetStatus

(***************************************************************************)
(* Every step keeps every copy sound.                                      *)
(***************************************************************************)
LEMMA SoundInit == Init => SoundInv
  <1> SUFFICES ASSUME Init PROVE SoundInv
    OBVIOUS
  <1>1. Sound(NoLedger, nudges, lookups)
    BY DEF Init, Sound, RowSound, NoLedger, NoRow, Unique, Having
  <1>2. Sound(file, nudges, lookups)
    BY DEF Init, Sound, RowSound, NoRow, Unique, Having
  <1> QED
    BY <1>1, <1>2 DEF Init, SoundInv, Copies

\* A thread's step answers for the file and for its own two copies.
LEMMA Frame ==
    ASSUME Inv, TypeOK', Grows, NEW t \in Threads,
           \A u \in Threads : u # t => snap'[u] = snap[u] /\ inner'[u] = inner[u],
           file' = file \/ Sound(file', nudges', lookups'),
           snap'[t] = snap[t] \/ Sound(snap'[t], nudges', lookups'),
           inner'[t] = inner[t] \/ Sound(inner'[t], nudges', lookups')
    PROVE  SoundInv'
  <1> USE DEF Inv, SoundInv, Copies
  <1>1. Sound(file, nudges', lookups')
    BY SoundGrows DEF TypeOK
  <1>2. \A u \in Threads :
            Sound(snap[u], nudges', lookups') /\ Sound(inner[u], nudges', lookups')
    <2> SUFFICES ASSUME NEW u \in Threads
        PROVE  Sound(snap[u], nudges', lookups') /\ Sound(inner[u], nudges', lookups')
      OBVIOUS
    <2>1. snap[u] \in Ledger /\ inner[u] \in Ledger
      BY DEF TypeOK
    <2> QED
      BY <2>1, SoundGrows
  <1>3. Sound(file', nudges', lookups')
    BY <1>1
  <1>4. \A u \in Threads :
            Sound(snap'[u], nudges', lookups') /\ Sound(inner'[u], nudges', lookups')
    BY <1>2
  <1> QED
    BY <1>3, <1>4

LEMMA GrowsSame == ASSUME TypeOK, UNCHANGED histVars PROVE Grows
  <1>1. nudges \in [Rows -> 0..MaxNudges] /\ lookups \in [Rows -> 0..Cap]
    BY DEF TypeOK
  <1> QED
    BY <1>1, CapNat DEF Grows, histVars, MaxNudges

\* A row that is looked up and perhaps learnt from.
LEMMA GrowsRow ==
    ASSUME TypeOK, NEW r \in Rows, NEW graded \in BOOLEAN, Learn(r, graded),
           lookups' = Count(lookups, r, Cap) \/ lookups' = lookups
    PROVE  /\ Grows
           /\ graded /\ r \notin Shadows \cup Pumps => nudges'[r] >= 1
           /\ lookups' = Count(lookups, r, Cap)
                => lookups'[r] >= IF lookups[r] < Cap THEN lookups[r] + 1 ELSE Cap
  <1>1. nudges \in [Rows -> 0..2] /\ lookups \in [Rows -> 0..Cap]
    BY DEF TypeOK, MaxNudges
  <1>2. \/ nudges' = nudges /\ ~(graded /\ r \notin Shadows \cup Pumps)
        \/ nudges' = Count(nudges, r, 2)
    BY DEF Learn, MaxNudges
  <1>3. /\ Count(nudges, r, 2) \in [Rows -> 0..2]
        /\ \A s \in Rows : nudges[s] <= Count(nudges, r, 2)[s]
        /\ Count(nudges, r, 2)[r] >= IF nudges[r] < 2 THEN nudges[r] + 1 ELSE 2
    BY <1>1, CountType
  <1>4. /\ \A s \in Rows : lookups[s] <= Count(lookups, r, Cap)[s]
        /\ Count(lookups, r, Cap)[r] >= IF lookups[r] < Cap THEN lookups[r] + 1 ELSE Cap
    BY <1>1, CountType, CapNat
  <1>5. \A s \in Rows : nudges[s] <= nudges'[s]
    BY <1>1, <1>2, <1>3
  <1>6. \A s \in Rows : lookups[s] <= lookups'[s]
    BY <1>1, <1>4, CapNat
  <1>7. nudges' = Count(nudges, r, 2) => nudges'[r] >= 1
    <2>1. nudges[r] \in 0..2 /\ Count(nudges, r, 2)[r] \in 0..2
      BY <1>1, <1>3
    <2>2. Count(nudges, r, 2)[r] >= 1
      BY <1>3, <2>1
    <2> QED
      BY <2>2
  <1> QED
    BY <1>2, <1>4, <1>5, <1>6, <1>7 DEF Grows

LEMMA SoundRows ==
    ASSUME Inv, TypeOK', NEW r \in Rows, Append(r) \/ Elapse(r) PROVE SoundInv'
  <1>1. CASE Append(r)
    <2>1. /\ file' = [file EXCEPT ![r] = [NoRow EXCEPT !.st = "pending"]]
          /\ ~\E s \in Having(file, {"pending"}) : Slot[s] = Slot[r]
          /\ UNCHANGED <<snap, inner, nudges, lookups>>
      BY <1>1 DEF Append, threadVars, histVars
    <2>2. file \in Ledger /\ lookups[r] \in Nat
      BY CapNat DEF Inv, TypeOK
    <2>3. /\ file'[r].st = "pending" /\ file'[r].tries = 0 /\ file'[r].legacy = FALSE
          /\ \A s \in Rows \ {r} : file'[s] = file[s]
      BY <2>1, <2>2 DEF Ledger, NoRow
    <2>4. \A s \in Rows : RowSound(s, file'[s], nudges[s], lookups[s])
      BY <2>2, <2>3 DEF RowSound, Inv, SoundInv, Sound
    <2>5. Unique(file')
      <3>1. Unique(file)
        BY DEF Inv, SoundInv, Sound
      <3> QED
        BY <2>1, <2>3, <3>1 DEF Unique, Having
    <2>6. Sound(file', nudges, lookups)
      BY <2>4, <2>5 DEF Sound
    <2> QED
      BY <2>1, <2>6 DEF Inv, SoundInv, Copies
  <1>2. CASE Elapse(r)
    BY <1>2 DEF Elapse, threadVars, histVars, Inv, SoundInv, Copies
  <1> QED
    BY <1>1, <1>2

LEMMA SoundEnd ==
    ASSUME Inv, TypeOK', NEW t \in Threads, End(t), UNCHANGED histVars,
           file' = file \/ Sound(file', nudges, lookups)
    PROVE  SoundInv'
  <1>1. Sound(NoLedger, nudges, lookups)
    <2>1. \A r \in Rows : lookups[r] \in Nat
      BY CapNat DEF Inv, TypeOK
    <2> QED
      BY <2>1 DEF Sound, RowSound, NoLedger, NoRow, Unique, Having
  <1>2. /\ snap'[t] = NoLedger /\ inner'[t] = NoLedger
        /\ \A u \in Threads : u # t => snap'[u] = snap[u] /\ inner'[u] = inner[u]
    BY DEF End, Inv, TypeOK
  <1>3. nudges' = nudges /\ lookups' = lookups
    BY DEF histVars
  <1> QED
    BY <1>1, <1>2, <1>3, GrowsSame, Frame DEF Inv

LEMMA SoundWrite ==
    ASSUME Inv, NEW t \in Threads, Write(snap[t]) \/ Write(inner[t]) \/ UNCHANGED file
    PROVE  file' = file \/ Sound(file', nudges, lookups)
  BY DEF Write, Inv, SoundInv, Copies

\* A graded row of a copy, with its nudge.
LEMMA SoundGraded ==
    ASSUME Inv, TypeOK', NEW d \in Ledger, Sound(d, nudges, lookups), NEW r \in Rows,
           NEW graded \in BOOLEAN, Learn(r, graded), lookups' = Count(lookups, r, Cap),
           NEW e, e = IF graded THEN SetStatus(d, {r}, "resolved") ELSE d
    PROVE  Grows /\ Sound(e, nudges', lookups')
  <1>1. Grows /\ (graded /\ r \notin Shadows \cup Pumps => nudges'[r] >= 1)
    BY GrowsRow DEF Inv
  <1>2. Sound(d, nudges', lookups')
    BY <1>1, SoundGrows DEF Inv
  <1>3. graded => Sound(SetStatus(d, {r}, "resolved"), nudges', lookups')
    BY <1>1, <1>2, SoundSetStatus
  <1> QED
    BY <1>1, <1>2, <1>3

\* What the loop makes of a row is sound, once its lookup and its nudge count.
LEMMA VerdictSound ==
    ASSUME NEW r \in Rows, NEW row \in Row, NEW now, NEW v \in Verdicts(r, row, now),
           NEW n \in Nat, NEW n2 \in Nat, NEW l \in 0..Cap, NEW l2 \in 0..Cap,
           n <= n2, l <= l2, RowSound(r, row, n, l),
           v.st = "resolved" /\ r \notin Shadows \cup Pumps => n2 >= 1,
           LooksUp(r, row, now) => l2 >= IF l < Cap THEN l + 1 ELSE Cap
    PROVE  RowSound(r, v, n2, l2) /\ (v.st = "pending" => row.st = "pending")
  <1> USE CapNat DEF RowSound
  <1>1. row.tries \in 0..Cap
    BY RowParts
  <1>2. CASE v = [row EXCEPT !.st = "expired"] /\ (r \in Corrupt \/ IsExpired(row, now))
    BY <1>1, <1>2 DEF Row, IsExpired
  <1>3. CASE v = [row EXCEPT !.st = "resolved"] \/ v = [row EXCEPT !.st = "ungradeable"]
    BY <1>1, <1>3 DEF Row
  <1>4. CASE v = Miss(row) /\ r \notin Corrupt /\ ~IsExpired(row, now) /\ now # "early"
    <2>1. /\ v.st = row.st /\ v.legacy = row.legacy
          /\ v.tries = IF row.tries < Cap THEN row.tries + 1 ELSE Cap
      BY <1>4 DEF Miss, Row
    <2>2. l2 >= IF l < Cap THEN l + 1 ELSE Cap
      BY <1>4 DEF LooksUp
    <2>3. v.tries <= l2
      BY <1>1, <2>1, <2>2
    <2> QED
      BY <2>1, <2>3
  <1>5. CASE v = row
    BY <1>1, <1>5
  <1> QED
    BY <1>2, <1>3, <1>4, <1>5 DEF Verdicts, Lookups

LEMMA SoundGradeRow == ASSUME Inv, TypeOK', NEW t \in Threads, GradeRow(t) PROVE SoundInv'
  <1> PICK r \in todo[t] :
         /\ \E v \in Verdicts(r, snap[t][r], seen[t][r]) :
               snap' = [snap EXCEPT ![t][r] = v] /\ Learn(r, v.st = "resolved")
         /\ lookups' = IF LooksUp(r, snap[t][r], seen[t][r])
                       THEN Count(lookups, r, Cap) ELSE lookups
         /\ UNCHANGED <<file, inner>>
    BY DEF GradeRow
  <1> DEFINE d == snap[t]  now == seen[t][r]
  <1> PICK v \in Verdicts(r, d[r], now) :
         snap' = [snap EXCEPT ![t][r] = v] /\ Learn(r, v.st = "resolved")
    OBVIOUS
  <1>1. r \in Rows /\ d \in Ledger /\ d[r] \in Row /\ Sound(d, nudges, lookups)
    BY DEF Inv, TypeOK, Ledger, SoundInv, Copies
  <1>2. /\ Grows
        /\ v.st = "resolved" /\ r \notin Shadows \cup Pumps => nudges'[r] >= 1
        /\ LooksUp(r, d[r], now) => lookups'[r] >= IF lookups[r] < Cap THEN lookups[r] + 1 ELSE Cap
    <2>1. Inv /\ (v.st = "resolved") \in BOOLEAN
      OBVIOUS
    <2>2. lookups' = Count(lookups, r, Cap) \/ lookups' = lookups
      OBVIOUS
    <2> QED
      BY <1>1, <2>1, <2>2, GrowsRow DEF Inv
  <1>3. /\ nudges[r] \in Nat /\ nudges'[r] \in Nat /\ nudges[r] <= nudges'[r]
        /\ lookups[r] \in 0..Cap /\ lookups'[r] \in 0..Cap /\ lookups[r] <= lookups'[r]
    <2>1. /\ nudges \in [Rows -> 0..MaxNudges] /\ nudges' \in [Rows -> 0..MaxNudges]
          /\ lookups \in [Rows -> 0..Cap] /\ lookups' \in [Rows -> 0..Cap]
      BY DEF Inv, TypeOK
    <2> QED
      BY <1>1, <1>2, <2>1 DEF Grows, MaxNudges
  <1>4. RowSound(r, d[r], nudges[r], lookups[r])
    BY <1>1 DEF Sound
  <1>5. RowSound(r, v, nudges'[r], lookups'[r]) /\ (v.st = "pending" => d[r].st = "pending")
    BY <1>1, <1>2, <1>3, <1>4, VerdictSound
  <1>6. /\ snap'[t] = [d EXCEPT ![r] = v]
        /\ \A u \in Threads : u # t => snap'[u] = snap[u]
    BY DEF Inv, TypeOK
  <1>7. Sound(d, nudges', lookups')
    BY <1>1, <1>2, SoundGrows DEF Inv
  <1>8. snap'[t][r] = v /\ \A s \in Rows \ {r} : snap'[t][s] = d[s]
    BY <1>1, <1>6 DEF Ledger
  <1> HIDE DEF d, now
  <1>9. Unique(snap'[t])
    <2>1. \A s \in Rows \ Legacy : snap'[t][s].st = "pending" => d[s].st = "pending"
      BY <1>5, <1>8
    <2>2. Unique(d)
      BY <1>7 DEF Sound
    <2> QED
      BY <2>1, <2>2, UniqueFewer
  <1>10. Sound(snap'[t], nudges', lookups')
    BY <1>5, <1>7, <1>8, <1>9 DEF Sound
  <1> QED
    BY <1>2, <1>6, <1>10, Frame

LEMMA SoundResolve ==
    ASSUME Inv, TypeOK', NEW t \in Threads, Load(t) \/ Resolve(t) PROVE SoundInv'
  <1>0. /\ file \in Ledger /\ Sound(file, nudges, lookups)
        /\ snap[t] \in Ledger /\ Sound(snap[t], nudges, lookups)
        /\ inner[t] \in Ledger /\ Sound(inner[t], nudges, lookups)
        /\ snap = [u \in Threads |-> snap[u]] /\ inner = [u \in Threads |-> inner[u]]
    BY DEF Inv, TypeOK, SoundInv, Copies
  <1>same. ASSUME UNCHANGED histVars PROVE Grows /\ nudges' = nudges /\ lookups' = lookups
    BY <1>same, GrowsSame DEF Inv, histVars
  <1>1. CASE Load(t)
    <2>1. snap' = [snap EXCEPT ![t] = Restored(file, time)] /\ UNCHANGED <<file, inner, histVars>>
      BY <1>1 DEF Load
    <2>2. Sound(Restored(file, time), nudges, lookups)
      BY <1>0, SoundRestored
    <2> QED
      BY <1>0, <1>same, <2>1, <2>2, Frame
  <1>2. CASE SaveRestored(t)
    BY <1>0, <1>2, <1>same, SoundWrite, Frame DEF SaveRestored
  <1>3. CASE RegradeLoad(t)
    <2>1. PICK d \in Deduped(snap[t]) : snap' = [snap EXCEPT ![t] = d]
      BY <1>3 DEF RegradeLoad
    <2>2. inner' = [inner EXCEPT ![t] = file] /\ UNCHANGED <<file, histVars>>
      BY <1>3 DEF RegradeLoad
    <2>3. Sound(d, nudges, lookups)
      BY <1>0, SoundDeduped
    <2> QED
      BY <1>0, <1>same, <2>1, <2>2, <2>3, Frame
  <1>4. CASE RegradeRow(t)
    <2> PICK r \in todo[t], graded \in BOOLEAN :
            /\ inner' = [inner EXCEPT ![t] = IF graded THEN SetStatus(@, {r}, "resolved") ELSE @]
            /\ Learn(r, graded) /\ lookups' = Count(lookups, r, Cap)
            /\ UNCHANGED <<file, snap>>
      BY <1>4 DEF RegradeRow
    <2> DEFINE e == IF graded THEN SetStatus(inner[t], {r}, "resolved") ELSE inner[t]
    <2>1. r \in Rows
      BY DEF Inv, TypeOK
    <2>2. Grows /\ Sound(e, nudges', lookups')
      BY <1>0, <2>1, SoundGraded
    <2>3. inner'[t] = e /\ \A u \in Threads : u # t => inner'[u] = inner[u]
      BY <1>0
    <2> HIDE DEF e
    <2> QED
      BY <2>2, <2>3, Frame
  <1>5. CASE RegradeEnd(t) \/ GradeEnd(t)
    BY <1>5, <1>same, Frame DEF RegradeEnd, GradeEnd
  <1>6. CASE RegradeSave(t)
    BY <1>0, <1>6, <1>same, SoundWrite, Frame DEF RegradeSave
  <1>7. CASE Merge(t)
    <2> DEFINE merged == [r \in Rows |->
                IF snap[t][r].st \in Closed /\ file[r].st \in Closed
                THEN file[r] ELSE snap[t][r]]
    <2>1. snap' = [snap EXCEPT ![t] = merged] /\ UNCHANGED <<file, inner, histVars>>
      BY <1>7 DEF Merge
    <2>2. \A r \in Rows : /\ merged[r] = file[r] \/ merged[r] = snap[t][r]
                          /\ merged[r].st = "pending" => snap[t][r].st = "pending"
      BY DEF Closed, Retired
    <2> HIDE DEF merged
    <2>3. Unique(merged)
      BY <1>0, <2>2, UniqueFewer DEF Sound
    <2>4. Sound(merged, nudges, lookups)
      BY <1>0, <2>2, <2>3 DEF Sound
    <2> QED
      BY <1>0, <1>same, <2>1, <2>4, Frame
  <1>8. CASE GradeRow(t)
    BY <1>8, SoundGradeRow
  <1>9. CASE Save(t)
    <2>1. (file' = file \/ Sound(file', nudges, lookups)) /\ UNCHANGED histVars
      BY <1>9, SoundWrite DEF Save
    <2>2. CASE t \in Cycles
      BY <1>9, <1>same, <2>1, <2>2, Frame DEF Save
    <2>3. CASE t \notin Cycles
      BY <1>9, <2>1, <2>3, SoundEnd DEF Save
    <2> QED
      BY <2>2, <2>3
  <1>10. CASE ExpireLoad(t)
    <2>1. /\ snap' = [snap EXCEPT ![t] = SetStatus(file, Stale(file, time), "expired")]
          /\ UNCHANGED <<file, inner, histVars>>
      BY <1>10 DEF ExpireLoad
    <2>2. \A r \in Stale(file, time) \ (Corrupt \cup Legacy) : lookups[r] >= Cap
      <3> SUFFICES ASSUME NEW r \in Stale(file, time), r \notin Corrupt
          PROVE  lookups[r] >= Cap
        OBVIOUS
      <3>1. r \in Rows /\ file[r].tries >= Cap
        BY DEF Stale, IsExpired, Having
      <3>2. file[r].tries <= lookups[r]
        BY <1>0, <3>1 DEF Sound, RowSound
      <3>3. file[r].tries \in Nat /\ lookups[r] \in Nat
        BY <1>0, <3>1, RowParts, CapNat DEF Inv, TypeOK, Ledger
      <3> QED
        BY <3>1, <3>2, <3>3, CapNat
    <2>3. Sound(SetStatus(file, Stale(file, time), "expired"), nudges, lookups)
      BY <1>0, <2>2, SoundSetStatus
    <2> QED
      BY <1>0, <1>same, <2>1, <2>3, Frame
  <1>11. CASE ExpireSave(t)
    BY <1>11, SoundWrite, SoundEnd DEF ExpireSave
  <1> QED
    BY <1>1, <1>2, <1>3, <1>4, <1>5, <1>6, <1>7, <1>8, <1>9, <1>10, <1>11 DEF Resolve

LEMMA SoundRecover ==
    ASSUME Inv, TypeOK', NEW t \in Threads, RecoverLoad(t) \/ Recover(t) PROVE SoundInv'
  <1>0. /\ Sound(file, nudges, lookups)
        /\ snap[t] \in Ledger /\ Sound(snap[t], nudges, lookups)
        /\ snap = [u \in Threads |-> snap[u]]
    BY DEF Inv, TypeOK, SoundInv, Copies
  <1>1. CASE RecoverLoad(t)
    <2>1. snap' = [snap EXCEPT ![t] = file] /\ UNCHANGED <<file, inner, histVars>>
      BY <1>1 DEF RecoverLoad
    <2>2. Grows /\ nudges' = nudges /\ lookups' = lookups
      BY <2>1, GrowsSame DEF Inv, histVars
    <2> QED
      BY <1>0, <2>1, <2>2, Frame
  <1>2. CASE RecoverRow(t)
    <2> PICK r \in todo[t], graded \in BOOLEAN :
            /\ snap' = [snap EXCEPT ![t] = IF graded THEN SetStatus(@, {r}, "resolved") ELSE @]
            /\ Learn(r, graded) /\ lookups' = Count(lookups, r, Cap)
            /\ UNCHANGED <<file, inner>>
      BY <1>2 DEF RecoverRow
    <2> DEFINE e == IF graded THEN SetStatus(snap[t], {r}, "resolved") ELSE snap[t]
    <2>1. r \in Rows
      BY DEF Inv, TypeOK
    <2>2. Grows /\ Sound(e, nudges', lookups')
      BY <1>0, <2>1, SoundGraded
    <2>3. snap'[t] = e /\ \A u \in Threads : u # t => snap'[u] = snap[u]
      BY <1>0
    <2> HIDE DEF e
    <2> QED
      BY <2>2, <2>3, Frame
  <1>3. CASE RecoverEnd(t)
    <2>1. file' = file \/ Sound(file', nudges, lookups)
      BY <1>3, SoundWrite DEF RecoverEnd
    <2> QED
      BY <1>3, <2>1, SoundEnd DEF RecoverEnd
  <1> QED
    BY <1>1, <1>2, <1>3 DEF Recover

LEMMA InvNext == Inv /\ [Next]_vars => Inv'
  <1> SUFFICES ASSUME Inv, [Next]_vars PROVE Inv'
    OBVIOUS
  <1>1. TypeOK'
    BY TypeNext DEF Inv
  <1>2. CASE \E r \in Rows : Append(r) \/ Elapse(r)
    BY <1>1, <1>2, SoundRows DEF Inv
  <1>3. CASE \E t \in Threads : Load(t) \/ Resolve(t)
    BY <1>1, <1>3, SoundResolve DEF Inv
  <1>4. CASE \E t \in Threads : RecoverLoad(t) \/ Recover(t)
    BY <1>1, <1>4, SoundRecover DEF Inv
  <1>5. CASE \E t \in Threads : Restart(t)
    BY <1>1, <1>5, SoundEnd DEF Restart, Inv
  <1>6. CASE UNCHANGED vars
    BY <1>1, <1>6 DEF vars, threadVars, histVars, Inv, SoundInv, Copies
  <1> QED
    BY <1>2, <1>3, <1>4, <1>5, <1>6 DEF Next

LEMMA InvAlways == Spec => []Inv
  <1>1. Init => Inv
    BY TypeInit, SoundInit DEF Inv
  <1> QED
    BY <1>1, InvNext, PTL DEF Spec

\* append_prediction's duplicate check holds of the file for ever: two pending
\* rows of one slot never meet in it, legacy rows aside.
THEOREM UniquePendingAlways == Spec => []UniquePending
  <1>1. Inv => UniquePending
    BY DEF Inv, SoundInv, Sound, Unique, UniquePending
  <1> QED
    BY <1>1, InvAlways, PTL

\* A row the file shows as expired had all the price lookups it is owed.
THEOREM ExpiredAfterRetriesAlways == Spec => []ExpiredAfterRetries
  <1>1. Inv => ExpiredAfterRetries
    BY DEF Inv, SoundInv, Sound, RowSound, ExpiredAfterRetries, Having
  <1> QED
    BY <1>1, InvAlways, PTL

\* A grade that the file shows has nudged the weights.
THEOREM GradeIsLearntAlways == Spec => []GradeIsLearnt
  <1>1. Inv => GradeIsLearnt
    BY DEF Inv, SoundInv, Sound, RowSound, GradeIsLearnt, Having
  <1> QED
    BY <1>1, InvAlways, PTL

(***************************************************************************)
(* One cycle thread whose writes succeed: no row is learnt from twice, and *)
(* no grade is lost.  Stage says of a row, where the thread stands, how    *)
(* the file, its copy and regrade's copy agree about it, and that it was   *)
(* not learnt from while the copy that counts shows it open.               *)
(***************************************************************************)
OneCycle ==
    /\ Requests = {} /\ Recoveries = {} /\ \A s, t \in Threads : s = t
    /\ ~SaveFails /\ ~Restarts

Open == {"pending", "expired"}

\* Of regrade's copy i and the pass's copy s, which was loaded just before it.
Regraded(i, s, dirt) ==
    \/ i = s
    \/ i = "pending" /\ s \in {"none", "duplicate"}
    \/ i = "resolved" /\ s = "expired" /\ dirt

\* Of the file f and a copy i of it that is to replace it: f has later appends.
Ahead(f, i, n) == f = i \/ (i = "none" /\ f = "pending" /\ n = 0)

\* f, s, i: the row's status in the file, snap and inner; n: its nudges.
StageOf(label, f, s, i, n, dirt, queued) ==
    CASE label \in {"idle", "expload"} -> f \in Open => n = 0
      [] label = "restored" ->
            (f \in Open \/ s \in Open => n = 0) /\ (f = "resolved" => s = "resolved")
      [] label = "regload" -> (f \in Open => n = 0) /\ Ahead(f, s, n)
      [] label \in {"regrade", "regsave"} ->
            /\ i \in Open => n = 0
            /\ Ahead(f, i, n) \/ (i = "resolved" /\ f = "expired" /\ dirt)
            /\ Regraded(i, s, dirt)
            /\ queued => i = "expired"
      [] label = "merge" ->
            (i \in Open => n = 0) /\ Ahead(f, i, n) /\ Regraded(i, s, TRUE)
      [] label \in {"grade", "save"} ->
            /\ s \in Open => n = 0
            /\ f \in Open => n = 0 \/ s = "resolved"
            /\ f = "resolved" => s = "resolved"
            /\ queued => s = "pending"
      [] label = "expsave" ->
            (f \in Open \/ s \in Open => n = 0) /\ (f = "resolved" => s = "resolved")
      [] OTHER -> FALSE

Stage(t, r) == StageOf(pc[t], file[r].st, snap[t][r].st, inner[t][r].st, nudges[r],
                       dirty[t], r \in todo[t])

OnceInv ==
    /\ NudgeOnce
    /\ \A r \in Rows \ issued :
         /\ file[r].st = "none" /\ nudges[r] = 0
         /\ \A t \in Threads : snap[t][r].st = "none" /\ inner[t][r].st = "none"
    /\ \A t \in Threads, r \in Rows : Stage(t, r)

LEMMA StatusOf ==
    ASSUME NEW d \in Ledger, NEW rs, NEW s, NEW r \in Rows
    PROVE  SetStatus(d, rs, s)[r].st = IF r \in rs THEN s ELSE d[r].st
  BY DEF SetStatus, Ledger, Row

\* With one thread, a step answers for itself.
LEMMA OnceStep ==
    ASSUME OneCycle, NEW t \in Threads, issued' = issued,
           \A r \in Rows :
             /\ nudges'[r] <= 1 /\ Stage(t, r)'
             /\ r \notin issued => /\ file'[r].st = "none" /\ nudges'[r] = 0
                                   /\ snap'[t][r].st = "none" /\ inner'[t][r].st = "none"
    PROVE  OnceInv'
  <1>1. \A u \in Threads : u = t
    BY DEF OneCycle
  <1> QED
    BY <1>1 DEF OnceInv, NudgeOnce

LEMMA OnceInit == Init /\ OneCycle => OnceInv
  <1> SUFFICES ASSUME Init, OneCycle PROVE OnceInv
    OBVIOUS
  <1>1. \A r \in Rows : nudges[r] = 0 /\ (r \notin issued => file[r].st = "none")
    BY DEF Init, NoRow
  <1>2. \A t \in Threads, r \in Rows : snap[t][r].st = "none" /\ inner[t][r].st = "none"
    BY DEF Init, NoLedger, NoRow
  <1>3. \A t \in Threads, r \in Rows : Stage(t, r)
    BY <1>1 DEF Init, Stage, StageOf
  <1> QED
    BY <1>1, <1>2, <1>3 DEF OnceInv, NudgeOnce

LEMMA OnceAppend ==
    ASSUME TypeOK, OneCycle, OnceInv, NEW r \in Rows, Append(r) PROVE OnceInv'
  <1>1. /\ r \notin issued /\ issued' = issued \cup {r}
        /\ file' = [file EXCEPT ![r] = [NoRow EXCEPT !.st = "pending"]]
        /\ UNCHANGED <<pc, snap, inner, todo, dirty, nudges>>
    BY DEF Append, threadVars, histVars
  <1>2. /\ file'[r].st = "pending" /\ file[r].st = "none" /\ nudges[r] = 0
        /\ \A s \in Rows \ {r} : file'[s] = file[s]
    BY <1>1 DEF TypeOK, Ledger, NoRow, OnceInv
  <1>3. \A t \in Threads, s \in Rows : Stage(t, s)'
    <2> SUFFICES ASSUME NEW t \in Threads, NEW s \in Rows PROVE Stage(t, s)'
      OBVIOUS
    <2>1. CASE s # r
      BY <1>1, <1>2, <2>1 DEF Stage, OnceInv
    <2>2. CASE s = r
      <3>1. snap[t][s].st = "none" /\ inner[t][s].st = "none" /\ Stage(t, s)
        BY <1>1, <2>2 DEF OnceInv
      <3> QED
        BY <1>1, <1>2, <2>2, <3>1 DEF Stage, StageOf, Ahead, Regraded, Open
    <2> QED
      BY <2>1, <2>2
  <1> QED
    BY <1>1, <1>2, <1>3 DEF OnceInv, NudgeOnce

\* A lesson from a row that had none, or none.
LEMMA OnceLearn ==
    ASSUME TypeOK, NEW r \in Rows, NEW graded \in BOOLEAN, Learn(r, graded), NudgeOnce,
           graded => nudges[r] = 0
    PROVE  \A s \in Rows : /\ nudges'[s] <= 1
                           /\ s # r \/ ~graded => nudges'[s] = nudges[s]
  <1>1. nudges \in [Rows -> 0..2]
    BY DEF TypeOK, MaxNudges
  <1>2. nudges' = nudges \/ (graded /\ nudges' = Count(nudges, r, 2))
    BY DEF Learn, MaxNudges
  <1>3. CASE nudges' = nudges
    BY <1>3 DEF NudgeOnce
  <1>4. CASE graded /\ nudges' = Count(nudges, r, 2)
    BY <1>1, <1>4 DEF Count, NudgeOnce
  <1> QED
    BY <1>2, <1>3, <1>4

LEMMA OnceRegrade ==
    ASSUME TypeOK, OneCycle, OnceInv, NEW t \in Threads, RegradeRow(t) PROVE OnceInv'
  <1> PICK q \in todo[t], graded \in BOOLEAN :
          /\ todo' = [todo EXCEPT ![t] = @ \ {q}]
          /\ inner' = [inner EXCEPT ![t] = IF graded THEN SetStatus(@, {q}, "resolved") ELSE @]
          /\ dirty' = [dirty EXCEPT ![t] = @ \/ graded]
          /\ Learn(q, graded) /\ UNCHANGED <<file, pc, snap, issued>>
    BY DEF RegradeRow
  <1>1. q \in Rows /\ pc[t] = "regrade" /\ inner[t] \in Ledger
    BY DEF TypeOK, RegradeRow
  <1>2. inner[t][q].st = "expired" /\ nudges[q] = 0
    BY <1>1 DEF OnceInv, Stage, StageOf, Open
  <1>3. \A r \in Rows : /\ nudges'[r] <= 1
                        /\ r # q \/ ~graded => nudges'[r] = nudges[r]
    BY <1>1, <1>2, OnceLearn DEF OnceInv
  <1>4. \A r \in Rows : inner'[t][r].st =
            IF graded /\ r = q THEN "resolved" ELSE inner[t][r].st
    BY <1>1, StatusOf DEF TypeOK
  <1>5. dirty'[t] = (dirty[t] \/ graded) /\ (\A r : r \in todo'[t] <=> r \in todo[t] /\ r # q)
    BY DEF TypeOK
  <1>6. ASSUME NEW r \in Rows
        PROVE  Stage(t, r)' /\ (r \notin issued => nudges'[r] = 0 /\ inner'[t][r].st = "none")
    <2>1. Stage(t, r) /\ (r \notin issued => inner[t][r].st = "none" /\ nudges[r] = 0)
      BY DEF OnceInv
    <2>2. CASE r = q /\ graded
      <3>1. file[r].st = "expired" /\ snap[t][r].st = "expired"
        BY <1>1, <1>2, <2>1, <2>2 DEF Stage, StageOf, Ahead, Regraded
      <3>2. inner'[t][r].st = "resolved" /\ dirty'[t] /\ r \in issued
        BY <1>2, <1>4, <1>5, <2>1, <2>2
      <3> QED
        BY <1>1, <1>5, <2>2, <3>1, <3>2 DEF Stage, StageOf, Ahead, Regraded, Open
    <2>3. CASE r # q \/ ~graded
      BY <1>1, <1>3, <1>4, <1>5, <2>1, <2>3 DEF Stage, StageOf, Ahead, Regraded, Open
    <2> QED
      BY <2>2, <2>3
  <1> QED
    BY <1>3, <1>6, OnceStep DEF OnceInv

LEMMA OnceGrade ==
    ASSUME TypeOK, OneCycle, OnceInv, NEW t \in Threads, GradeRow(t) PROVE OnceInv'
  <1> PICK q \in todo[t] :
         /\ todo' = [todo EXCEPT ![t] = @ \ {q}]
         /\ \E v \in Verdicts(q, snap[t][q], seen[t][q]) :
               snap' = [snap EXCEPT ![t][q] = v] /\ Learn(q, v.st = "resolved")
         /\ UNCHANGED <<file, pc, inner, dirty, issued>>
    BY DEF GradeRow
  <1> PICK v \in Verdicts(q, snap[t][q], seen[t][q]) :
         snap' = [snap EXCEPT ![t][q] = v] /\ Learn(q, v.st = "resolved")
    OBVIOUS
  <1>1. q \in Rows /\ pc[t] = "grade" /\ snap[t] \in Ledger
    BY DEF TypeOK, GradeRow
  <1>2. snap[t][q].st = "pending" /\ nudges[q] = 0 /\ q \in issued
    <2>1. Stage(t, q) /\ (q \notin issued => snap[t][q].st = "none")
      BY <1>1 DEF OnceInv
    <2> QED
      BY <1>1, <2>1 DEF Stage, StageOf, Open
  <1>3. \A r \in Rows : /\ nudges'[r] <= 1
                        /\ r # q \/ v.st # "resolved" => nudges'[r] = nudges[r]
    <2>1. (v.st = "resolved") \in BOOLEAN
      OBVIOUS
    <2> QED
      BY <1>1, <1>2, <2>1, OnceLearn DEF OnceInv
  <1>4. snap'[t][q] = v /\ \A r \in Rows \ {q} : snap'[t][r] = snap[t][r]
    BY <1>1 DEF TypeOK, Ledger
  <1>5. \A r : r \in todo'[t] <=> r \in todo[t] /\ r # q
    BY DEF TypeOK
  <1>6. ASSUME NEW r \in Rows
        PROVE  /\ Stage(t, r)'
               /\ r \notin issued => nudges'[r] = 0 /\ snap'[t][r].st = "none"
    <2>1. Stage(t, r) /\ (r \notin issued => snap[t][r].st = "none" /\ nudges[r] = 0)
      BY DEF OnceInv
    <2>2. CASE r = q
      BY <1>1, <1>2, <1>3, <1>4, <1>5, <2>1, <2>2 DEF Stage, StageOf, Open
    <2>3. CASE r # q
      BY <1>1, <1>3, <1>4, <1>5, <2>1, <2>3 DEF Stage, StageOf, Open
    <2> QED
      BY <2>2, <2>3
  <1> QED
    BY <1>3, <1>6, OnceStep DEF OnceInv

\* The steps that learn nothing.
LEMMA OnceQuiet ==
    ASSUME TypeOK, OneCycle, OnceInv, NEW t \in Threads,
           Load(t) \/ SaveRestored(t) \/ RegradeLoad(t) \/ RegradeEnd(t) \/ RegradeSave(t)
             \/ Merge(t) \/ GradeEnd(t) \/ Save(t) \/ ExpireLoad(t) \/ ExpireSave(t)
    PROVE  OnceInv'
  <1>1. file \in Ledger /\ snap[t] \in Ledger /\ inner[t] \in Ledger
    BY DEF TypeOK
  <1>2. \A d : Write(d) => file' = d
    BY DEF Write, OneCycle
  <1>3. t \in Cycles
    BY DEF Threads, OneCycle
  <1>4. nudges' = nudges /\ issued' = issued
    BY <1>3 DEF Load, SaveRestored, RegradeLoad, RegradeEnd, RegradeSave, Merge, GradeEnd,
                Save, ExpireLoad, ExpireSave, histVars
  <1> SUFFICES ASSUME NEW r \in Rows
               PROVE  /\ Stage(t, r)'
                      /\ r \notin issued => /\ file'[r].st = "none"
                                            /\ snap'[t][r].st = "none" /\ inner'[t][r].st = "none"
    BY <1>4, OnceStep DEF OnceInv, NudgeOnce
  <1>5. /\ Stage(t, r)
        /\ r \notin issued => /\ file[r].st = "none"
                              /\ snap[t][r].st = "none" /\ inner[t][r].st = "none"
    BY DEF OnceInv
  <1> USE <1>1, <1>4, <1>5 DEF TypeOK, Go, Stage, StageOf, Ahead, Regraded, Open
  <1>6. CASE Load(t)
    <2>1. /\ snap'[t] = Restored(file, time) /\ pc[t] = "idle" /\ UNCHANGED <<file, inner>>
          /\ pc'[t] = IF Restorable(file, time) # {} THEN "restored" ELSE "regload"
      BY <1>6 DEF Load
    <2>2. /\ r \in Restorable(file, time) => file[r].st = "expired"
          /\ Restored(file, time)[r].st =
               IF r \in Restorable(file, time) THEN "pending" ELSE file[r].st
      BY DEF Restored, Restorable, Ledger, Row
    <2> QED
      BY <2>1, <2>2
  <1>7. CASE SaveRestored(t)
    <2>1. file' = snap[t] /\ pc[t] = "restored" /\ pc'[t] = "regload" /\ UNCHANGED <<snap, inner>>
      BY <1>2, <1>7 DEF SaveRestored
    <2> QED
      BY <2>1
  <1>8. CASE RegradeLoad(t)
    <2> DEFINE pending == Having(snap[t], {"pending"})
    <2> PICK d \in Deduped(snap[t]) : snap' = [snap EXCEPT ![t] = d]
      BY <1>8 DEF RegradeLoad
    <2> PICK k \in SUBSET pending : d = SetStatus(snap[t], pending \ k, "duplicate")
      BY DEF Deduped
    <2> DEFINE rs == pending \ k
    <2>1. snap'[t] = SetStatus(snap[t], rs, "duplicate") /\ rs \subseteq pending
      OBVIOUS
    <2>2. snap'[t][r].st = IF r \in rs THEN "duplicate" ELSE snap[t][r].st
      BY <2>1, StatusOf
    <2>3. /\ inner'[t] = file /\ pc[t] = "regload" /\ pc'[t] = "regrade" /\ UNCHANGED file
          /\ r \in todo'[t] => file[r].st = "expired"
          /\ r \in rs => snap[t][r].st = "pending"
      BY <1>8, <2>1 DEF RegradeLoad, Having
    <2> QED
      BY <2>2, <2>3
  <1>9. CASE RegradeEnd(t)
    <2>1. pc[t] = "regrade" /\ UNCHANGED <<file, snap, inner, dirty>> /\ todo[t] = {}
      BY <1>9 DEF RegradeEnd
    <2>2. \/ pc'[t] = "regsave" /\ todo'[t] = {}
          \/ ~dirty[t] /\ pc'[t] = "grade" /\ (r \in todo'[t] => snap[t][r].st = "pending")
      BY <1>9 DEF RegradeEnd, ToGrade, Having
    <2> QED
      BY <2>1, <2>2
  <1>10. CASE RegradeSave(t)
    <2>1. /\ file' = inner[t] /\ pc[t] = "regsave" /\ pc'[t] = "merge"
          /\ UNCHANGED <<snap, inner>>
      BY <1>2, <1>10 DEF RegradeSave
    <2> QED
      BY <2>1
  <1>11. CASE Merge(t)
    <2>1. /\ pc[t] = "merge" /\ pc'[t] = "grade" /\ UNCHANGED <<file, inner>>
          /\ snap'[t][r] = IF snap[t][r].st \in Closed /\ file[r].st \in Closed
                           THEN file[r] ELSE snap[t][r]
          /\ r \in todo'[t] => snap'[t][r].st = "pending"
      BY <1>11 DEF Merge, ToGrade, Having
    <2>2. "expired" \in Closed /\ "resolved" \in Closed /\ "duplicate" \in Closed
          /\ "none" \notin Closed /\ "pending" \notin Closed
      BY DEF Closed, Retired
    <2> QED
      BY <2>1, <2>2
  <1>12. CASE GradeEnd(t)
    <2>1. /\ pc[t] = "grade" /\ pc'[t] = "save" /\ UNCHANGED <<file, snap, inner, todo>>
      BY <1>12 DEF GradeEnd
    <2> QED
      BY <2>1
  <1>13. CASE Save(t)
    <2>1. /\ file' = snap[t] /\ pc[t] = "save" /\ pc'[t] = "expload"
          /\ UNCHANGED <<snap, inner>>
      BY <1>2, <1>3, <1>13 DEF Save
    <2> QED
      BY <2>1
  <1>14. CASE ExpireLoad(t)
    <2>1. /\ snap'[t] = SetStatus(file, Stale(file, time), "expired")
          /\ pc[t] = "expload" /\ pc'[t] = "expsave" /\ UNCHANGED <<file, inner>>
      BY <1>14 DEF ExpireLoad
    <2>2. /\ snap'[t][r].st = IF r \in Stale(file, time) THEN "expired" ELSE file[r].st
          /\ r \in Stale(file, time) => file[r].st = "pending"
      BY <2>1, StatusOf DEF Stale, Having
    <2> QED
      BY <2>1, <2>2
  <1>15. CASE ExpireSave(t)
    <2>1. /\ file' = snap[t] /\ pc[t] = "expsave" /\ pc'[t] = "idle"
          /\ snap'[t] = NoLedger /\ inner'[t] = NoLedger
      BY <1>2, <1>15 DEF ExpireSave, End
    <2>2. NoLedger[r].st = "none"
      BY DEF NoLedger, NoRow
    <2> QED
      BY <2>1, <2>2
  <1> QED
    BY <1>6, <1>7, <1>8, <1>9, <1>10, <1>11, <1>12, <1>13, <1>14, <1>15

\* A grade in the file stays through each of these steps.
Final == Having(file, {"resolved"}) \subseteq Having(file', {"resolved"})

LEMMA OnceNext == OneCycle /\ TypeOK /\ OnceInv /\ [Next]_vars => OnceInv' /\ Final
  <1> SUFFICES ASSUME OneCycle, TypeOK, OnceInv, [Next]_vars PROVE OnceInv' /\ Final
    OBVIOUS
  <1>1. ASSUME NEW r \in Rows, Append(r) PROVE OnceInv' /\ Final
    <2>1. file[r].st = "none" /\ \A s \in Rows \ {r} : file'[s] = file[s]
      BY <1>1 DEF Append, TypeOK, Ledger, OnceInv
    <2> QED
      BY <1>1, <2>1, OnceAppend DEF Final, Having
  <1>2. ASSUME NEW r \in Rows, Elapse(r) PROVE OnceInv' /\ Final
    BY <1>2 DEF Elapse, threadVars, histVars, OnceInv, NudgeOnce, Stage, Final
  <1>3. ASSUME NEW t \in Threads, Load(t) \/ Resolve(t) PROVE OnceInv' /\ Final
    <2>1. OnceInv'
      BY <1>3, OnceRegrade, OnceGrade, OnceQuiet DEF Resolve
    <2>2. t \in Cycles /\ \A d : Write(d) => file' = d
      BY DEF Threads, OneCycle, Write
    <2>3. ASSUME NEW r \in Rows, file[r].st = "resolved" PROVE file'[r].st = "resolved"
      <3>1. Stage(t, r)
        BY DEF OnceInv
      <3>2. CASE UNCHANGED file
        BY <2>3, <3>2
      <3>3. CASE SaveRestored(t) \/ Save(t) \/ ExpireSave(t)
        BY <2>2, <2>3, <3>1, <3>3 DEF SaveRestored, Save, ExpireSave, Stage, StageOf
      <3>4. CASE RegradeSave(t)
        BY <2>2, <2>3, <3>1, <3>4 DEF RegradeSave, Stage, StageOf, Ahead
      <3> QED
        BY <1>3, <3>2, <3>3, <3>4 DEF Load, Resolve, RegradeLoad, RegradeRow, RegradeEnd,
                                      Merge, GradeRow, GradeEnd, ExpireLoad
    <2> QED
      BY <2>1, <2>3 DEF Final, Having
  <1>4. ASSUME NEW t \in Threads, RecoverLoad(t) \/ Recover(t) \/ Restart(t)
        PROVE  OnceInv' /\ Final
    <2>1. ~RecoverLoad(t) /\ ~Restart(t)
      BY DEF RecoverLoad, Restart, OneCycle
    <2>2. ASSUME NEW r \in Rows PROVE pc[t] # "recover"
      <3>1. Stage(t, r)
        BY DEF OnceInv
      <3> QED
        BY <3>1 DEF Stage, StageOf
    <2>3. CASE Rows = {}
      BY <2>3 DEF OnceInv, NudgeOnce, Final, Having
    <2> QED
      BY <1>4, <2>1, <2>2, <2>3 DEF Recover, RecoverRow, RecoverEnd
  <1>5. CASE UNCHANGED vars
    BY <1>5 DEF vars, threadVars, histVars, OnceInv, NudgeOnce, Stage, Final
  <1> QED
    BY <1>1, <1>2, <1>3, <1>4, <1>5 DEF Next

LEMMA OnceAlways == OneCycle /\ Spec => [](OneCycle /\ TypeOK /\ OnceInv)
  <1>1. OneCycle /\ Init => TypeOK /\ OnceInv
    BY TypeInit, OnceInit
  <1>2. OneCycle /\ TypeOK /\ OnceInv /\ [Next]_vars => (OneCycle /\ TypeOK /\ OnceInv)'
    <2>1. OneCycle => OneCycle'
      BY DEF OneCycle, Threads
    <2> QED
      BY <2>1, TypeNext, OnceNext
  <1> QED
    BY <1>1, <1>2, PTL DEF Spec

\* One cycle whose writes succeed nudges the weights once for a row, although it grades
\* in two stages that each work on a copy of its own, and rows are appended beside it.
THEOREM NudgeOnceAlways == OneCycle /\ Spec => []NudgeOnce
  <1>1. OnceInv => NudgeOnce
    BY DEF OnceInv
  <1> QED
    BY <1>1, OnceAlways, PTL

\* It never takes a grade back from the file, neither by its stale list nor by its
\* expire stage.
THEOREM GradeIsFinalAlways == OneCycle /\ Spec => GradeIsFinal
  <1>1. OneCycle /\ TypeOK /\ OnceInv /\ [Next]_vars
          => [Having(file, {"resolved"}) \subseteq Having(file', {"resolved"})]_vars
    BY OnceNext DEF Final
  <1> QED
    BY <1>1, OnceAlways, PTL DEF Spec, GradeIsFinal

(***************************************************************************)
(* The same cycle looks like one writer of the ledger.  LifeStage adds to  *)
(* Stage what the next write will do to a row: the copy that is to be      *)
(* written has the grade of every lesson, differs from the file only in    *)
(* rows the file shows open, and has no legacy mark the file has not.      *)
(***************************************************************************)
\* A copy s goes over the file f: where they differ, the file's row is pending.
Moves(f, s) == s = f \/ f = "pending"

\* As StageOf; fl, sl and il are the legacy marks of the file, snap and inner.
LifeStageOf(label, f, s, i, n, fl, sl, il) ==
    /\ sl => fl
    /\ label \in {"regrade", "regsave"} => (sl => il) /\ (il => fl) /\ (n # 0 => i = "resolved")
    /\ label \in {"grade", "save"} => Moves(f, s) /\ (n # 0 => s = "resolved")
    /\ label \notin {"regrade", "regsave", "grade", "save"} /\ n # 0 => f = "resolved"
    /\ label = "expsave" => Moves(f, s)
    /\ label = "restored" => Moves(f, s) \/ (f = "expired" /\ s = "pending" /\ fl /\ ~sl)

LifeStage(t, r) == LifeStageOf(pc[t], file[r].st, snap[t][r].st, inner[t][r].st, nudges[r],
                               file[r].legacy, snap[t][r].legacy, inner[t][r].legacy)

LifeInv == Legacy \subseteq issued /\ \A t \in Threads, r \in Rows : LifeStage(t, r)

LEMMA LifeInvInit == Init => LifeInv
  <1> SUFFICES ASSUME Init PROVE LifeInv
    OBVIOUS
  <1>1. ASSUME NEW t \in Threads, NEW r \in Rows PROVE LifeStage(t, r)
    <2>1. /\ snap[t][r].legacy = FALSE /\ inner[t][r].legacy = FALSE
          /\ pc[t] = "idle" /\ nudges[r] = 0
      BY <1>1 DEF Init, NoLedger, NoRow
    <2> QED
      BY <2>1 DEF LifeStage, LifeStageOf
  <1> QED
    BY <1>1 DEF LifeInv, Init

\* The legacy marks of the copies that the steps write.
LEMMA MarkOf ==
    ASSUME NEW d \in Ledger, NEW rs, NEW s, NEW r \in Rows
    PROVE  SetStatus(d, rs, s)[r].legacy = d[r].legacy
  BY DEF SetStatus, Ledger, Row

LEMMA VerdictMark ==
    ASSUME NEW r, NEW row \in Row, NEW now, NEW v \in Verdicts(r, row, now)
    PROVE  v.legacy = row.legacy
  BY DEF Verdicts, Lookups, Miss, Row

\* With one thread, a step answers for itself.
LEMMA LifeStep ==
    ASSUME OneCycle, LifeInv, NEW t \in Threads, issued' = issued,
           \A r \in Rows : LifeStage(t, r)'
    PROVE  LifeInv'
  <1>1. \A u \in Threads : u = t
    BY DEF OneCycle
  <1> QED
    BY <1>1 DEF LifeInv

LEMMA LifeAppend ==
    ASSUME Inv, OneCycle, OnceInv, LifeInv, NEW r \in Rows, Append(r) PROVE LifeInv'
  <1>1. /\ r \notin issued /\ issued' = issued \cup {r}
        /\ file' = [file EXCEPT ![r] = [NoRow EXCEPT !.st = "pending"]]
        /\ UNCHANGED <<pc, snap, inner, nudges>>
    BY DEF Append, threadVars, histVars
  <1>2. /\ file'[r].st = "pending" /\ file'[r].legacy = FALSE
        /\ \A s \in Rows \ {r} : file'[s] = file[s]
    BY <1>1 DEF Inv, TypeOK, Ledger, NoRow
  <1>3. ASSUME NEW t \in Threads, NEW s \in Rows PROVE LifeStage(t, s)'
    <2>1. CASE s # r
      BY <1>1, <1>2, <2>1 DEF LifeStage, LifeInv
    <2>2. CASE s = r
      <3>1. snap[t][r].st = "none" /\ inner[t][r].st = "none" /\ nudges[r] = 0
        BY <1>1 DEF OnceInv
      <3>2. ~snap[t][r].legacy /\ ~inner[t][r].legacy
        <4>1. RowSound(r, snap[t][r], nudges[r], lookups[r])
                /\ RowSound(r, inner[t][r], nudges[r], lookups[r])
          BY DEF Inv, SoundInv, Copies, Sound
        <4>2. r \notin Legacy
          BY <1>1 DEF LifeInv
        <4> QED
          BY <4>1, <4>2 DEF RowSound
      <3> QED
        BY <1>1, <1>2, <2>2, <3>1, <3>2 DEF LifeStage, LifeStageOf, Moves
    <2> QED
      BY <2>1, <2>2
  <1> QED
    BY <1>1, <1>3 DEF LifeInv

\* Grading a row whose horizon the file shows open teaches it, or says nothing.
LEMMA LifeTeach ==
    ASSUME TypeOK, NEW q \in Rows, NEW graded \in BOOLEAN, Learn(q, graded),
           nudges[q] = 0, file[q].st \in Open, UNCHANGED <<file, issued>>
    PROVE  Life!LifeNext \/ UNCHANGED Life!lifeVars
  <1>1. Fate' = Fate /\ {r \in Rows : file[r].legacy}' = {r \in Rows : file[r].legacy}
    BY DEF Fate
  <1>2. CASE nudges' = nudges
    BY <1>1, <1>2 DEF Life!lifeVars
  <1>3. CASE nudges' # nudges
    <2>1. q \notin Shadows \cup Pumps /\ nudges' = Count(nudges, q, 2)
      BY <1>3 DEF Learn, MaxNudges
    <2>2. nudges' = [nudges EXCEPT ![q] = 1]
      BY <2>1 DEF Count, TypeOK, MaxNudges
    <2>3. Fate[q] \in Life!Ungraded
      BY DEF Fate, Open, Life!Ungraded
    <2>4. Life!Teach(q)
      BY <1>1, <2>1, <2>2, <2>3 DEF Life!Teach
    <2> QED
      BY <2>4 DEF Life!LifeNext
  <1> QED
    BY <1>2, <1>3

\* What a write of the file does to a row.
FileMoves(r) ==
    /\ \/ Moves(file[r].st, file'[r].st)
       \/ file[r].st = "expired" /\ file'[r].st = "resolved"
       \/ file[r].st = "expired" /\ file'[r].st = "pending" /\ file[r].legacy /\ ~file'[r].legacy
    /\ file'[r].legacy => file[r].legacy
    /\ nudges[r] # 0 => file'[r].st = "resolved"

LEMMA LifeWrite ==
    ASSUME Inv, Inv', OnceInv, OnceInv', UNCHANGED <<issued, nudges>>, \A r \in Rows : FileMoves(r)
    PROVE  Life!LifeNext
  <1> DEFINE back == {r \in Rows : file[r].legacy}
  <1>1. ASSUME NEW r \in Rows PROVE Life!Written(r)
    <2>1. /\ file[r].st \in Status /\ file'[r].st \in Status
          /\ r \notin issued => file[r].st = "none" /\ file'[r].st = "none"
      BY RowParts DEF Inv, TypeOK, Ledger, OnceInv
    <2>2. file'[r].st = "resolved" /\ r \notin Shadows \cup Pumps => nudges[r] = 1
      <3>1. RowSound(r, file'[r], nudges[r], lookups'[r])
        BY DEF Inv, SoundInv, Sound
      <3>2. nudges[r] \in 0..2 /\ nudges[r] <= 1
        BY DEF Inv, TypeOK, MaxNudges, OnceInv, NudgeOnce
      <3> QED
        BY <3>1, <3>2 DEF RowSound
    <2>3. /\ Fate[r] = IF file[r].st = "none" /\ r \in issued THEN "lost" ELSE file[r].st
          /\ Fate'[r] = IF file'[r].st = "none" /\ r \in issued THEN "lost" ELSE file'[r].st
      BY DEF Fate
    <2>4. (r \in back <=> file[r].legacy) /\ (r \in back' <=> file'[r].legacy)
      OBVIOUS
    <2> HIDE DEF back
    <2> DEFINE f == file[r].st  g == file'[r].st
    <2>5. \/ g = f
          \/ f = "pending" /\ r \in issued
          \/ f = "expired" /\ g = "resolved"
          \/ f = "expired" /\ g = "pending" /\ r \in back /\ r \notin back'
      BY <2>1, <2>4 DEF FileMoves, Moves
    <2>6. nudges[r] = 1 => g = "resolved"
      BY DEF FileMoves
    <2>7. Fate'[r] = Fate[r] \/ Life!Closes(r) \/ Life!Grades(r)
            \/ (f = "expired" /\ g = "pending" /\ r \in back /\ r \notin back')
      BY <2>1, <2>2, <2>3, <2>5 DEF Status, Closed, Retired, Life!Closes, Life!Grades, Life!Ungraded
    <2>8. nudges[r] = 1 => Fate'[r] = "resolved"
      BY <2>3, <2>6
    <2> QED
      BY <2>3, <2>7, <2>8 DEF Life!Written, Life!Returns, back
  <1>2. Fate' \in [Rows -> Life!Fates]
    <2>1. ASSUME NEW r \in Rows
          PROVE  (IF file'[r].st = "none" /\ r \in issued' THEN "lost" ELSE file'[r].st) \in Life!Fates
      <3>1. file'[r].st \in Status
        BY RowParts DEF Inv, TypeOK, Ledger
      <3> QED
        BY <3>1 DEF Status, Closed, Retired, Life!Fates, Life!Ungraded
    <2> QED
      BY <2>1 DEF Fate
  <1>3. back' \subseteq back
    BY DEF FileMoves
  <1>4. Life!WriteAll
    BY <1>1, <1>2, <1>3 DEF Life!WriteAll
  <1> QED
    BY <1>4 DEF Life!LifeNext

LEMMA LifeSame == UNCHANGED <<file, issued, nudges>> => UNCHANGED Life!lifeVars
  BY DEF Life!lifeVars, Fate

LEMMA LifeRegrade ==
    ASSUME Inv, OneCycle, OnceInv, LifeInv, NEW t \in Threads, RegradeRow(t)
    PROVE  LifeInv' /\ (Life!LifeNext \/ UNCHANGED Life!lifeVars)
  <1> PICK q \in todo[t], graded \in BOOLEAN :
          /\ inner' = [inner EXCEPT ![t] = IF graded THEN SetStatus(@, {q}, "resolved") ELSE @]
          /\ Learn(q, graded) /\ UNCHANGED <<file, pc, snap, issued>>
    BY DEF RegradeRow
  <1>1. q \in Rows /\ pc[t] = "regrade" /\ inner[t] \in Ledger
    BY DEF Inv, TypeOK, RegradeRow
  <1>2. inner[t][q].st = "expired" /\ nudges[q] = 0 /\ file[q].st = "expired"
    BY <1>1 DEF OnceInv, Stage, StageOf, Open, Ahead
  <1>3. \A r \in Rows : r # q \/ ~graded => nudges'[r] = nudges[r]
    BY <1>1, <1>2, OnceLearn DEF OnceInv, Inv
  <1>4. \A r \in Rows : /\ inner'[t][r].legacy = inner[t][r].legacy
                        /\ inner'[t][r].st = IF graded /\ r = q THEN "resolved"
                                             ELSE inner[t][r].st
    BY <1>1, StatusOf, MarkOf DEF Inv, TypeOK
  <1>5. ASSUME NEW r \in Rows PROVE LifeStage(t, r)'
    <2>1. LifeStage(t, r)
      BY DEF LifeInv
    <2> QED
      BY <1>1, <1>3, <1>4, <2>1 DEF LifeStage, LifeStageOf
  <1>6. Life!LifeNext \/ UNCHANGED Life!lifeVars
    <2>1. file[q].st \in Open
      BY <1>2 DEF Open
    <2> QED
      BY <1>1, <1>2, <2>1, LifeTeach DEF Inv
  <1> QED
    BY <1>5, <1>6, LifeStep

LEMMA LifeGrade ==
    ASSUME Inv, OneCycle, OnceInv, LifeInv, NEW t \in Threads, GradeRow(t)
    PROVE  LifeInv' /\ (Life!LifeNext \/ UNCHANGED Life!lifeVars)
  <1> PICK q \in todo[t] :
         /\ \E v \in Verdicts(q, snap[t][q], seen[t][q]) :
               snap' = [snap EXCEPT ![t][q] = v] /\ Learn(q, v.st = "resolved")
         /\ UNCHANGED <<file, pc, inner, issued>>
    BY DEF GradeRow
  <1> PICK v \in Verdicts(q, snap[t][q], seen[t][q]) :
         snap' = [snap EXCEPT ![t][q] = v] /\ Learn(q, v.st = "resolved")
    OBVIOUS
  <1>1. q \in Rows /\ pc[t] = "grade" /\ snap[t] \in Ledger
    BY DEF Inv, TypeOK, GradeRow
  <1>2. snap[t][q].st = "pending" /\ nudges[q] = 0
    <2>1. Stage(t, q)
      BY <1>1 DEF OnceInv
    <2> QED
      BY <1>1, <2>1 DEF Stage, StageOf, Open
  <1>3. file[q].st = "pending"
    <2>1. LifeStage(t, q)
      BY <1>1 DEF LifeInv
    <2> QED
      BY <1>1, <1>2, <2>1 DEF LifeStage, LifeStageOf, Moves
  <1>4. (v.st = "resolved") \in BOOLEAN
    OBVIOUS
  <1>5. \A r \in Rows : r # q \/ v.st # "resolved" => nudges'[r] = nudges[r]
    BY <1>1, <1>2, <1>4, OnceLearn DEF OnceInv, Inv
  <1>6. snap'[t][q] = v /\ \A r \in Rows \ {q} : snap'[t][r] = snap[t][r]
    BY <1>1 DEF Inv, TypeOK, Ledger
  <1>7. v.legacy = snap[t][q].legacy
    <2>1. snap[t][q] \in Row
      BY <1>1 DEF Ledger
    <2> QED
      BY <2>1, VerdictMark
  <1>8. ASSUME NEW r \in Rows PROVE LifeStage(t, r)'
    <2>1. LifeStage(t, r)
      BY DEF LifeInv
    <2>2. CASE r = q
      BY <1>1, <1>2, <1>3, <1>5, <1>6, <1>7, <2>1, <2>2 DEF LifeStage, LifeStageOf, Moves
    <2>3. CASE r # q
      BY <1>1, <1>5, <1>6, <2>1, <2>3 DEF LifeStage, LifeStageOf
    <2> QED
      BY <2>2, <2>3
  <1>9. file[q].st \in Open
    BY <1>3 DEF Open
  <1>10. Life!LifeNext \/ UNCHANGED Life!lifeVars
    BY <1>1, <1>2, <1>4, <1>9, LifeTeach DEF Inv
  <1> QED
    BY <1>8, <1>10, LifeStep

\* The steps that learn nothing, as OnceQuiet.
LEMMA LifeQuiet ==
    ASSUME Inv, OneCycle, OnceInv, LifeInv, NEW t \in Threads,
           Load(t) \/ SaveRestored(t) \/ RegradeLoad(t) \/ RegradeEnd(t) \/ RegradeSave(t)
             \/ Merge(t) \/ GradeEnd(t) \/ Save(t) \/ ExpireLoad(t) \/ ExpireSave(t)
    PROVE  /\ LifeInv' /\ UNCHANGED <<issued, nudges>>
           /\ UNCHANGED file \/ \A r \in Rows : FileMoves(r)
  <1>1. file \in Ledger /\ snap[t] \in Ledger /\ inner[t] \in Ledger
    BY DEF Inv, TypeOK
  <1>2. \A d : Write(d) => file' = d
    BY DEF Write, OneCycle
  <1>3. t \in Cycles
    BY DEF Threads, OneCycle
  <1>4. nudges' = nudges /\ issued' = issued
    BY <1>3 DEF Load, SaveRestored, RegradeLoad, RegradeEnd, RegradeSave, Merge, GradeEnd,
                Save, ExpireLoad, ExpireSave, histVars
  <1> SUFFICES ASSUME NEW r \in Rows PROVE LifeStage(t, r)' /\ (UNCHANGED file \/ FileMoves(r))
    BY <1>4, LifeStep
  <1>5. LifeStage(t, r) /\ Stage(t, r)
    BY DEF LifeInv, OnceInv
  <1>6. pc \in [Threads -> Labels] /\ snap \in [Threads -> Ledger] /\ inner \in [Threads -> Ledger]
    BY DEF Inv, TypeOK
  <1> USE <1>1, <1>4, <1>5, <1>6 DEF Go, LifeStage, LifeStageOf, Moves
  <1>7. CASE Load(t)
    <2>1. /\ snap'[t] = Restored(file, time) /\ pc[t] = "idle" /\ UNCHANGED <<file, inner>>
          /\ pc'[t] = IF Restorable(file, time) # {} THEN "restored" ELSE "regload"
      BY <1>7 DEF Load
    <2>2. /\ r \in Restorable(file, time) => file[r].st = "expired" /\ file[r].legacy
          /\ Restored(file, time)[r].st =
               IF r \in Restorable(file, time) THEN "pending" ELSE file[r].st
          /\ Restored(file, time)[r].legacy =
               IF file[r].st = "expired" THEN FALSE ELSE file[r].legacy
      BY DEF Restored, Restorable, Ledger, Row
    <2> QED
      BY <2>1, <2>2
  <1>8. CASE SaveRestored(t)
    <2>1. file' = snap[t] /\ pc[t] = "restored" /\ pc'[t] = "regload" /\ UNCHANGED <<snap, inner>>
      BY <1>2, <1>8 DEF SaveRestored
    <2> QED
      BY <2>1 DEF FileMoves
  <1>9. CASE RegradeLoad(t)
    <2> DEFINE pending == Having(snap[t], {"pending"})
    <2> PICK d \in Deduped(snap[t]) : snap' = [snap EXCEPT ![t] = d]
      BY <1>9 DEF RegradeLoad
    <2> PICK k \in SUBSET pending : d = SetStatus(snap[t], pending \ k, "duplicate")
      BY DEF Deduped
    <2> DEFINE rs == pending \ k
    <2>1. snap'[t] = SetStatus(snap[t], rs, "duplicate")
      OBVIOUS
    <2>2. snap'[t][r].legacy = snap[t][r].legacy
      BY <2>1, MarkOf
    <2>3. inner'[t] = file /\ pc[t] = "regload" /\ pc'[t] = "regrade" /\ UNCHANGED file
      BY <1>9 DEF RegradeLoad
    <2> QED
      BY <2>2, <2>3
  <1>10. CASE RegradeEnd(t)
    <2>1. pc[t] = "regrade" /\ UNCHANGED <<file, snap, inner>>
      BY <1>10 DEF RegradeEnd
    <2>2. pc'[t] = "regsave" \/ (~dirty[t] /\ pc'[t] = "grade")
      BY <1>10 DEF RegradeEnd, ToGrade
    <2> QED
      BY <2>1, <2>2 DEF Stage, StageOf, Ahead, Regraded
  <1>11. CASE RegradeSave(t)
    <2>1. /\ file' = inner[t] /\ pc[t] = "regsave" /\ pc'[t] = "merge"
          /\ UNCHANGED <<snap, inner>>
      BY <1>2, <1>11 DEF RegradeSave
    <2> QED
      BY <2>1 DEF FileMoves, Stage, StageOf, Ahead
  <1>12. CASE Merge(t)
    <2>1. /\ pc[t] = "merge" /\ pc'[t] = "grade" /\ UNCHANGED <<file, inner>>
          /\ snap'[t][r] = IF snap[t][r].st \in Closed /\ file[r].st \in Closed
                           THEN file[r] ELSE snap[t][r]
      BY <1>12 DEF Merge, ToGrade
    <2>2. "expired" \in Closed /\ "resolved" \in Closed /\ "duplicate" \in Closed
          /\ "none" \notin Closed /\ "pending" \notin Closed
      BY DEF Closed, Retired
    <2> QED
      BY <2>1, <2>2 DEF Stage, StageOf, Ahead, Regraded
  <1>13. CASE GradeEnd(t)
    <2>1. /\ pc[t] = "grade" /\ pc'[t] = "save" /\ UNCHANGED <<file, snap, inner>>
      BY <1>13 DEF GradeEnd
    <2> QED
      BY <2>1
  <1>14. CASE Save(t)
    <2>1. /\ file' = snap[t] /\ pc[t] = "save" /\ pc'[t] = "expload"
          /\ UNCHANGED <<snap, inner>>
      BY <1>2, <1>3, <1>14 DEF Save
    <2> QED
      BY <2>1 DEF FileMoves
  <1>15. CASE ExpireLoad(t)
    <2>1. /\ snap'[t] = SetStatus(file, Stale(file, time), "expired")
          /\ pc[t] = "expload" /\ pc'[t] = "expsave" /\ UNCHANGED <<file, inner>>
      BY <1>15 DEF ExpireLoad
    <2>2. /\ snap'[t][r].st = IF r \in Stale(file, time) THEN "expired" ELSE file[r].st
          /\ snap'[t][r].legacy = file[r].legacy
          /\ r \in Stale(file, time) => file[r].st = "pending"
      BY <2>1, StatusOf, MarkOf DEF Stale, Having
    <2> QED
      BY <2>1, <2>2
  <1>16. CASE ExpireSave(t)
    <2>1. /\ file' = snap[t] /\ pc[t] = "expsave" /\ pc'[t] = "idle"
          /\ snap'[t] = NoLedger /\ inner'[t] = NoLedger
      BY <1>2, <1>16 DEF ExpireSave, End
    <2>2. NoLedger[r].legacy = FALSE
      BY DEF NoLedger, NoRow
    <2> QED
      BY <2>1, <2>2 DEF FileMoves, Stage, StageOf
  <1> QED
    BY <1>7, <1>8, <1>9, <1>10, <1>11, <1>12, <1>13, <1>14, <1>15, <1>16

LEMMA LifeNextStep ==
    OneCycle /\ Inv /\ OnceInv /\ LifeInv /\ [Next]_vars
      => LifeInv' /\ [Life!LifeNext]_Life!lifeVars
  <1> SUFFICES ASSUME OneCycle, Inv, OnceInv, LifeInv, [Next]_vars
               PROVE  LifeInv' /\ (Life!LifeNext \/ UNCHANGED Life!lifeVars)
    OBVIOUS
  <1>1. ASSUME NEW r \in Rows, Append(r) PROVE LifeInv' /\ Life!LifeNext
    <2>1. /\ r \notin issued /\ issued' = issued \cup {r} /\ UNCHANGED nudges
          /\ \A s \in Rows : file[s].st = "pending" => Slot[s] # Slot[r]
          /\ file[r].st = "none" /\ file'[r].st = "pending"
          /\ file[r].legacy = FALSE /\ file'[r].legacy = FALSE
          /\ \A s \in Rows \ {r} : file'[s] = file[s]
      <3>1. file[r].legacy = FALSE
        <4>1. RowSound(r, file[r], nudges[r], lookups[r]) /\ r \notin Legacy
                /\ file[r].legacy \in BOOLEAN
          BY <1>1, RowParts DEF Append, Inv, TypeOK, Ledger, SoundInv, Sound, LifeInv
        <4> QED
          BY <4>1 DEF RowSound
      <3> QED
        BY <1>1, <3>1 DEF Append, Having, Inv, TypeOK, Ledger, OnceInv, NoRow, histVars
    <2>2. Fate' = [Fate EXCEPT ![r] = "pending"]
      <3>1. ASSUME NEW s \in Rows
            PROVE  (IF file'[s].st = "none" /\ s \in issued' THEN "lost" ELSE file'[s].st)
                     = [Fate EXCEPT ![r] = "pending"][s]
        BY <2>1 DEF Fate
      <3> QED
        BY <3>1 DEF Fate
    <2>3. {s \in Rows : file[s].legacy}' = {s \in Rows : file[s].legacy}
      BY <2>1
    <2>4. Fate[r] = "none" /\ \A s \in Rows : Fate[s] = "pending" => Slot[s] # Slot[r]
      BY <2>1 DEF Fate
    <2>5. Life!Issue(r)
      BY <2>1, <2>2, <2>3, <2>4 DEF Life!Issue
    <2> QED
      BY <1>1, <2>5, LifeAppend DEF Life!LifeNext
  <1>2. ASSUME NEW r \in Rows, Elapse(r) PROVE LifeInv' /\ UNCHANGED Life!lifeVars
    BY <1>2, LifeSame DEF Elapse, threadVars, histVars, LifeInv, LifeStage
  <1>3. ASSUME NEW t \in Threads, RegradeRow(t) \/ GradeRow(t)
        PROVE  LifeInv' /\ (Life!LifeNext \/ UNCHANGED Life!lifeVars)
    BY <1>3, LifeRegrade, LifeGrade
  <1>4. ASSUME NEW t \in Threads,
               Load(t) \/ SaveRestored(t) \/ RegradeLoad(t) \/ RegradeEnd(t) \/ RegradeSave(t)
                 \/ Merge(t) \/ GradeEnd(t) \/ Save(t) \/ ExpireLoad(t) \/ ExpireSave(t)
        PROVE  LifeInv' /\ (Life!LifeNext \/ UNCHANGED Life!lifeVars)
    <2>1. Inv' /\ OnceInv'
      BY InvNext, OnceNext DEF Inv
    <2> QED
      BY <1>4, <2>1, LifeQuiet, LifeWrite, LifeSame
  <1>5. ASSUME NEW t \in Threads, RecoverLoad(t) \/ Recover(t) \/ Restart(t)
        PROVE  LifeInv' /\ UNCHANGED Life!lifeVars
    <2>1. ~RecoverLoad(t) /\ ~Restart(t)
      BY DEF RecoverLoad, Restart, OneCycle
    <2>2. ASSUME NEW r \in Rows PROVE pc[t] # "recover"
      <3>1. Stage(t, r)
        BY DEF OnceInv
      <3> QED
        BY <3>1 DEF Stage, StageOf
    <2>3. CASE Rows = {}
      <3>1. LifeInv'
        BY <2>3, RowsAssumption DEF LifeInv
      <3>2. nudges \in [Rows -> 0..MaxNudges] /\ nudges' \in [Rows -> 0..MaxNudges]
        BY TypeNext DEF Inv, TypeOK
      <3>3. nudges' = nudges
        BY <2>3, <3>2
      <3> QED
        BY <2>3, <3>1, <3>3 DEF Life!lifeVars, Fate
    <2> QED
      BY <1>5, <2>1, <2>2, <2>3 DEF Recover, RecoverRow, RecoverEnd
  <1>6. CASE UNCHANGED vars
    BY <1>6, LifeSame DEF vars, threadVars, histVars, LifeInv, LifeStage
  <1> QED
    BY <1>1, <1>2, <1>3, <1>4, <1>5, <1>6 DEF Next, Resolve

\* One cycle whose writes succeed implements the life of a prediction: what was taught
\* is graded in the next write, a grade is taught before it is written and never taken
\* back, and no closed row is reopened, however the stages' copies replace each other.
THEOREM LedgerImplementsLife == OneCycle /\ Spec => LedgerRefined
  <1>1. Init => LifeInv /\ Life!LifeInit
    <2> SUFFICES ASSUME Init PROVE Life!LifeInit
      BY LifeInvInit
    <2>1. \A r \in Rows : (file[r].st = IF r \in Legacy THEN "expired" ELSE "none")
                            /\ (file[r].legacy <=> r \in Legacy)
      BY DEF Init, NoRow
    <2>2. Fate = [r \in Rows |-> IF r \in Legacy THEN "expired" ELSE "none"]
      BY <2>1 DEF Fate, Init
    <2>3. {r \in Rows : file[r].legacy} = Legacy
      BY <2>1, RowsAssumption
    <2> QED
      BY <2>2, <2>3 DEF Init, Life!LifeInit
  <1>2. OneCycle /\ Spec => [](OneCycle /\ Inv /\ OnceInv)
    BY OnceAlways, InvAlways, PTL
  <1>3. OneCycle /\ Inv /\ OnceInv /\ LifeInv /\ [Next]_vars
          => LifeInv' /\ [Life!LifeNext]_Life!lifeVars
    BY LifeNextStep
  <1> QED
    BY <1>1, <1>2, <1>3, PTL DEF Spec, LedgerRefined, Life!LifeSpec
=============================================================================
