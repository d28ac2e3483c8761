--------------------------- MODULE SoulMapIOProofs ---------------------------
(***************************************************************************)
(* What holds of SoulMapIO for every set of processes, threads and keys.   *)
(* Two facts need that one process does all the writing.                   *)
(***************************************************************************)
EXTENDS SoulMapIO, TLAPS

\* Who is at a label holds the locks that the label is reached with.
LockInv ==
    /\ \A t \in Readers : pc[t] \in {"idle", "want", "fill"}
    /\ \A t \in Threads : pc[t] \in {"flock", "rlock", "body", "persist", "put"}
           => writers[ProcOf[t]] = t
    /\ \A t \in Threads : pc[t] \in {"rlock", "body", "persist", "put"} => flock = t
    /\ \A t \in Threads : pc[t] \in {"fill", "body", "persist", "put"}
           => reader[ProcOf[t]] = t

\* In the writing process, what is in hand or in the cache is the file's content.
DataInv ==
    /\ \A t \in Threads : pc[t] = "fill" /\ ProcOf[t] \in WritingProcs => blob[t] = disk
    /\ \A t \in Updaters : pc[t] = "persist" => \E k \in Keys : blob[t] = Bump(disk, k)
    /\ \A t \in Threads : pc[t] = "put" => blob[t] = disk
    /\ CacheIsFile

LockedInv == TypeOK /\ LockInv
Inv       == LockedInv /\ DataInv

LEMMA BumpType == \A b \in Blob, k \in Keys : Bump(b, k) \in Blob
  BY BoundAssumption DEF Blob, Bump

LEMMA NoBlobType == NoBlob \in Blob
  BY BoundAssumption DEF Blob, NoBlob

LEMMA BaseType == \A t \in Threads : TypeOK => Base(t) \in Blob
  BY ThreadsAssumption DEF TypeOK, Base

LEMMA ProcType == \A t \in Threads : ProcOf[t] \in Procs
  BY ThreadsAssumption

LEMMA LockedInit == Init => LockedInv
  BY NoBlobType DEF Init, LockedInv, TypeOK, LockInv, Labels, Threads, Writers

LEMMA ReadLocked ==
    ASSUME LockedInv, NEW t \in Threads, StartRead(t) \/ StartUpdate(t) \/ Read(t)
    PROVE  LockedInv'
  <1> USE ProcType, NoBlobType, ThreadsAssumption
      DEF LockedInv, TypeOK, LockInv, Go, Hold, Labels, locks, Threads, Writers
  <1>1. CASE StartRead(t)
    BY <1>1 DEF StartRead
  <1>2. CASE StartUpdate(t)
    BY <1>2 DEF StartUpdate
  <1>3. CASE ReadHit(t)
    BY <1>3 DEF ReadHit, Use
  <1>4. CASE ReadMiss(t)
    BY <1>4 DEF ReadMiss
  <1>5. CASE Fill(t)
    BY <1>5 DEF Fill, Use
  <1> QED
    BY <1>1, <1>2, <1>3, <1>4, <1>5 DEF Read

LEMMA ReleaseLocked ==
    ASSUME LockedInv, NEW t \in Threads, pc[t] \in {"body", "persist", "put"},
           Release(t), disk' \in Blob, cache' \in [Procs -> Blob \cup {Free}]
    PROVE  LockedInv'
  <1> USE ProcType, NoBlobType, ThreadsAssumption
      DEF LockedInv, TypeOK, LockInv, Release, Go, Hold, Threads, Writers
  <1>1. TypeOK'
    BY DEF Labels
  <1>2. LockInv'
    OBVIOUS
  <1> QED
    BY <1>1, <1>2

LEMMA WriteLocked ==
    ASSUME LockedInv, NEW t \in Threads, Write(t)
    PROVE  LockedInv'
  <1> USE ProcType, NoBlobType, ThreadsAssumption
      DEF LockedInv, TypeOK, LockInv, Go, Hold, Labels, locks, Threads, Writers
  <1>1. CASE TakeWriters(t)
    BY <1>1 DEF TakeWriters
  <1>2. CASE TakeFlock(t)
    BY <1>2 DEF TakeFlock
  <1>3. CASE TakeReader(t)
    BY <1>3 DEF TakeReader
  <1>4. CASE GiveUp(t)
    BY <1>4 DEF GiveUp
  <1>5. CASE Mutate(t)
    <2>1. PICK b \in Blob : blob' = [blob EXCEPT ![t] = b]
      BY <1>5, BumpType, BaseType DEF Mutate
    <2> QED
      BY <1>5, <2>1 DEF Mutate
  <1>6. CASE Raise(t) \/ PersistFails(t) \/ Put(t)
    BY <1>6, ReleaseLocked DEF Raise, PersistFails, Put
  <1>7. CASE Persist(t)
    BY <1>7 DEF Persist
  <1> QED
    BY <1>1, <1>2, <1>3, <1>4, <1>5, <1>6, <1>7 DEF Write

LEMMA ProcLocked ==
    ASSUME LockedInv, NEW p \in Procs, Expire(p) \/ Restart(p)
    PROVE  LockedInv'
  <1> USE ProcType, NoBlobType, ThreadsAssumption
      DEF LockedInv, TypeOK, LockInv, Labels, locks, Threads, Writers
  <1>1. CASE Expire(p)
    BY <1>1 DEF Expire
  <1>2. CASE Restart(p)
    BY <1>2 DEF Restart
  <1> QED
    BY <1>1, <1>2

LEMMA LockedNext == LockedInv /\ [Next]_vars => LockedInv'
  <1>1. LockedInv /\ Next => LockedInv'
    BY ReadLocked, WriteLocked, ProcLocked DEF Next
  <1>2. LockedInv /\ UNCHANGED vars => LockedInv'
    BY DEF vars, locks, LockedInv, TypeOK, LockInv
  <1> QED
    BY <1>1, <1>2

\* Whatever fails or restarts, every reachable state of soul_map_io has its type.
THEOREM TypeCorrect == Spec => []TypeOK
  <1>1. LockedInv => TypeOK
    BY DEF LockedInv
  <1> QED
    BY <1>1, LockedInit, LockedNext, PTL DEF Spec

(***************************************************************************)
(* One writing process.                                                    *)
(***************************************************************************)
LEMMA WriterProc == \A t \in Writers : ProcOf[t] \in WritingProcs
  BY DEF WritingProcs

LEMMA DataInit == Init => DataInv
  BY ThreadsAssumption DEF WritingProcs, Init, DataInv, CacheIsFile, Threads, Writers

LEMMA ReadData ==
    ASSUME Inv, NEW t \in Threads, StartRead(t) \/ StartUpdate(t) \/ Read(t)
    PROVE  DataInv'
  <1> USE ThreadsAssumption, ProcType
      DEF Inv, LockedInv, TypeOK, LockInv, DataInv, CacheIsFile, Go, Hold, locks,
          Threads, Writers
  <1>1. CASE StartRead(t) \/ StartUpdate(t)
    BY <1>1 DEF StartRead, StartUpdate
  <1>2. CASE ReadHit(t)
    BY <1>2 DEF ReadHit, Use
  <1>3. CASE ReadMiss(t)
    BY <1>3 DEF ReadMiss
  <1>4. CASE Fill(t)
    BY <1>4 DEF Fill, Use
  <1> QED
    BY <1>1, <1>2, <1>3, <1>4 DEF Read

LEMMA WriteData ==
    ASSUME Inv, OneWritingProcess, NEW t \in Threads, Write(t)
    PROVE  DataInv'
  <1> USE ThreadsAssumption, ProcType, WriterProc
      DEF Inv, LockedInv, TypeOK, LockInv, DataInv, CacheIsFile, Go, Hold, locks,
          Threads, Writers
  <1>1. CASE TakeWriters(t)
    BY <1>1 DEF TakeWriters
  <1>2. CASE TakeFlock(t)
    BY <1>2 DEF TakeFlock
  <1>3. CASE TakeReader(t)
    BY <1>3 DEF TakeReader
  <1>4. CASE GiveUp(t)
    BY <1>4 DEF GiveUp
  <1>5. CASE Mutate(t)
    <2>1. PICK k \in Keys : Hold(t, Bump(Base(t), k))
      BY <1>5 DEF Mutate
    <2>2. t \in Updaters => Base(t) = disk
      BY <1>5 DEF Mutate, Base
    <2> QED
      BY <1>5, <2>1, <2>2 DEF Mutate
  <1>6. CASE Raise(t) \/ PersistFails(t)
    BY <1>6 DEF Raise, PersistFails, Release
  <1>7. CASE Persist(t)
    BY <1>7 DEF Persist, OneWritingProcess
  <1>8. CASE Put(t)
    BY <1>8 DEF Put, Release, OneWritingProcess
  <1> QED
    BY <1>1, <1>2, <1>3, <1>4, <1>5, <1>6, <1>7, <1>8 DEF Write

LEMMA ProcData ==
    ASSUME Inv, OneWritingProcess, NEW p \in Procs, Expire(p) \/ Restart(p)
    PROVE  DataInv'
  <1> USE ThreadsAssumption, ProcType, WriterProc
      DEF Inv, LockedInv, TypeOK, LockInv, DataInv, CacheIsFile, locks, Threads, Writers
  <1>1. CASE Expire(p)
    BY <1>1 DEF Expire
  <1>2. CASE Restart(p)
    BY <1>2 DEF Restart, OneWritingProcess
  <1> QED
    BY <1>1, <1>2

LEMMA InvNext == ASSUME OneWritingProcess PROVE Inv /\ [Next]_vars => Inv'
  <1>1. Inv /\ Next => DataInv'
    BY ReadData, WriteData, ProcData DEF Next
  <1>2. Inv /\ UNCHANGED vars => DataInv'
    BY DEF vars, locks, Inv, DataInv, CacheIsFile
  <1> QED
    BY <1>1, <1>2, LockedNext DEF Inv

\* With one writing process, its cache is the file or is empty: a read after a
\* write sees the write.
THEOREM CacheIsFileAlways == ASSUME OneWritingProcess PROVE Spec => []CacheIsFile
  <1>1. Init => Inv
    BY LockedInit, DataInit DEF Inv
  <1>2. Inv => CacheIsFile
    BY DEF Inv, DataInv
  <1> QED
    BY <1>1, <1>2, InvNext, PTL DEF Spec

LEMMA StepAddsOne == ASSUME Inv, Next PROVE AddsOne
  <1> USE DEF AddsOne
  <1>1. CASE \E t \in Threads : Persist(t)
    <2> PICK t \in Threads : Persist(t)
      BY <1>1
    <2>1. t \in Writers /\ pc'[t] = "put" /\ disk' = blob[t]
      BY DEF Persist, Go, Inv, LockedInv, LockInv, TypeOK, Threads
    <2>2. CASE t \in Updaters
      BY <2>1, <2>2 DEF Persist, Inv, DataInv
    <2>3. CASE t \in Replacers
      BY <2>1, <2>3 DEF Persist
    <2> QED
      BY <2>1, <2>2, <2>3 DEF Writers
  <1>2. CASE ~\E t \in Threads : Persist(t)
    BY <1>2 DEF Next, StartRead, StartUpdate, Read, ReadHit, ReadMiss, Fill, Write,
        TakeWriters, TakeFlock, TakeReader, GiveUp, Mutate, Raise, PersistFails, Put,
        Expire, Restart
  <1> QED
    BY <1>1, <1>2

\* With one writing process, write_soul_map never loses an update: a mutator's
\* write adds its own update to the file of that moment.
THEOREM NoLostUpdateAlways == ASSUME OneWritingProcess PROVE Spec => NoLostUpdate
  <1>1. Init => Inv
    BY LockedInit, DataInit DEF Inv
  <1>2. Inv /\ [Next]_vars => [AddsOne]_vars
    BY StepAddsOne
  <1> QED
    BY <1>1, <1>2, InvNext, PTL DEF Spec, NoLostUpdate

(***************************************************************************)
(* The same process implements SoulMapStore, step by step.                 *)
(***************************************************************************)
Outside == {"idle", "want", "put"}
Changed == {t \in Replacers : pc[t] = "persist"}

LEMMA CallerType == Replacers \subseteq Threads
  BY DEF Threads, Writers

\* A caller's copy and its change are told by its own place and blob.
LEMMA StoreSame ==
    ASSUME disk' = disk,
           \A t \in Replacers : /\ (pc'[t] \in Outside <=> pc[t] \in Outside)
                                /\ (pc'[t] = "persist" <=> pc[t] = "persist")
                                /\ pc[t] \notin Outside => blob'[t] = blob[t]
    PROVE  UNCHANGED Store!storeVars
  BY DEF Store!storeVars, Copies, Outside

\* A step of an updater or a reader is no caller's.
LEMMA OtherStep ==
    ASSUME TypeOK, NEW t \in Threads, t \notin Replacers, NEW label, NEW b, Go(t, label),
           Hold(t, b) \/ UNCHANGED blob
    PROVE  Copies' = Copies /\ Changed' = Changed
  <1>1. \A u \in Replacers : pc'[u] = pc[u] /\ blob'[u] = blob[u]
    BY CallerType DEF TypeOK, Go, Hold
  <1> QED
    BY <1>1 DEF Copies, Changed

\* A step of one caller.
LEMMA CallerStep ==
    ASSUME TypeOK, NEW t \in Replacers, NEW label, Go(t, label), NEW b, b = blob'[t],
           Hold(t, b) \/ UNCHANGED blob
    PROVE  /\ Copies' = [Copies EXCEPT ![t] = IF label \in Outside THEN Free ELSE b]
           /\ Changed' = IF label = "persist" THEN Changed \cup {t} ELSE Changed \ {t}
           /\ Copies[t] = IF pc[t] \in Outside THEN Free ELSE blob[t]
  <1>1. /\ pc'[t] = label /\ blob'[t] = b
        /\ \A u \in Replacers : u # t => pc'[u] = pc[u] /\ blob'[u] = blob[u]
    BY CallerType DEF TypeOK, Go, Hold
  <1>2. Copies' = [Copies EXCEPT ![t] = IF label \in Outside THEN Free ELSE b]
    <2>1. ASSUME NEW u \in Replacers
          PROVE  (IF pc'[u] \in {"idle", "want", "put"} THEN Free ELSE blob'[u])
                   = [Copies EXCEPT ![t] = IF label \in Outside THEN Free ELSE b][u]
      BY <1>1 DEF Copies, Outside
    <2> QED
      BY <2>1 DEF Copies
  <1>3. Changed' = IF label = "persist" THEN Changed \cup {t} ELSE Changed \ {t}
    BY <1>1 DEF Changed
  <1> QED
    BY <1>2, <1>3 DEF Copies, Outside

\* A copy is never mistaken for none.
LEMMA CopyIsBlob == \A b \in Blob : b # Free
  BY ThreadsAssumption

LEMMA PutIsBump == \A b, k : Store!Put(b, k) = Bump(b, k)
  BY DEF Store!Put, Bump

LEMMA ReadStore ==
    ASSUME Inv, NEW t \in Threads, StartRead(t) \/ StartUpdate(t) \/ Read(t)
    PROVE  Store!StoreNext \/ UNCHANGED Store!storeVars
  <1>0. TypeOK /\ disk' = disk /\ Changed = {u \in Replacers : pc[u] = "persist"}
    BY DEF Inv, LockedInv, StartRead, StartUpdate, Read, ReadHit, ReadMiss, Fill, Changed
  <1>1. CASE t \notin Replacers
    <2>1. PICK label, b : Go(t, label) /\ (Hold(t, b) \/ UNCHANGED blob)
      BY DEF StartRead, StartUpdate, Read, ReadHit, ReadMiss, Fill, Use
    <2>2. Copies' = Copies /\ Changed' = Changed
      BY <1>0, <1>1, <2>1, OtherStep
    <2> QED
      BY <1>0, <2>2 DEF Store!storeVars, Changed
  <1>2. CASE t \in Replacers
    <2>1. t \notin Updaters /\ t \notin Readers
      BY <1>2, ThreadsAssumption DEF Writers
    <2>2. CASE StartRead(t)
      <3>1. pc[t] = "idle" /\ \A u \in Replacers : pc'[u] = IF u = t THEN "want" ELSE pc[u]
        BY <1>0, <2>2 DEF StartRead, Go, TypeOK
      <3> QED
        BY <1>0, <2>2, <3>1, StoreSame DEF StartRead, Outside
    <2>3. CASE ReadHit(t) \/ ReadMiss(t)
      <3>1. PICK label \in {"writers", "fill"} : Go(t, label) /\ Hold(t, disk)
        <4>1. ReadHit(t) => cache[ProcOf[t]] = disk
          BY <1>2, WriterProc, ThreadsAssumption, ProcType
             DEF ReadHit, Inv, LockedInv, LockInv, DataInv, CacheIsFile, Threads, Writers
        <4> QED
          BY <2>1, <2>3, <4>1 DEF ReadHit, ReadMiss, Use
      <3>2. pc[t] = "want" /\ blob'[t] = disk
        BY <1>0, <2>3, <3>1 DEF ReadHit, ReadMiss, Hold, TypeOK
      <3>3. /\ Copies' = [Copies EXCEPT ![t] = disk] /\ Copies[t] = Free
            /\ Changed' = Changed \ {t} /\ t \notin Changed
        BY <1>0, <1>2, <3>1, <3>2, CallerStep DEF Outside, Changed
      <3>4. Store!TakeCopy(t)
        BY <1>0, <3>3 DEF Store!TakeCopy, Changed
      <3> QED
        BY <1>2, <3>4 DEF Store!StoreNext
    <2>4. CASE Fill(t)
      <3>1. /\ pc[t] = "fill"
            /\ \A u \in Replacers : /\ pc'[u] = IF u = t THEN "writers" ELSE pc[u]
                                    /\ blob'[u] = blob[u]
        BY <1>0, <2>1, <2>4, CallerType DEF Fill, Use, Go, Hold, TypeOK
      <3> QED
        BY <1>0, <3>1, StoreSame DEF Outside
    <2> QED
      BY <2>1, <2>2, <2>3, <2>4 DEF StartUpdate, Read
  <1> QED
    BY <1>1, <1>2

LEMMA WriteStore ==
    ASSUME Inv, NEW t \in Threads, Write(t)
    PROVE  Store!StoreNext \/ UNCHANGED Store!storeVars
  <1>0. TypeOK /\ Changed = {u \in Replacers : pc[u] = "persist"} /\ blob[t] \in Blob
    BY DEF Inv, LockedInv, Changed, TypeOK
  <1>1. CASE t \notin Replacers
    <2>1. PICK label, b : Go(t, label) /\ (Hold(t, b) \/ UNCHANGED blob)
      BY DEF Write, TakeWriters, TakeFlock, TakeReader, GiveUp, Mutate, Raise, Persist,
             PersistFails, Put, Release
    <2>2. Copies' = Copies /\ Changed' = Changed
      BY <1>0, <1>1, <2>1, OtherStep
    <2>3. disk' = disk \/ \E k \in Keys : disk' = Bump(disk, k)
      <3>1. CASE Persist(t)
        <4>1. t \in Updaters
          BY <1>1, <3>1 DEF Persist, Inv, LockedInv, LockInv, Threads, Writers
        <4> QED
          BY <3>1, <4>1 DEF Persist, Inv, DataInv
      <3> QED
        BY <3>1 DEF Write, TakeWriters, TakeFlock, TakeReader, GiveUp, Mutate, Raise,
                    PersistFails, Put
    <2>4. CASE disk' = disk
      BY <2>2, <2>4 DEF Store!storeVars, Changed
    <2>5. CASE \E k \in Keys : disk' = Bump(disk, k)
      BY <2>2, <2>5, PutIsBump DEF Store!StoreNext, Store!Update, Changed
    <2> QED
      BY <2>3, <2>4, <2>5
  <1>2. CASE t \in Replacers
    <2>1. CASE TakeWriters(t) \/ TakeFlock(t) \/ TakeReader(t) \/ GiveUp(t)
      <3>1. /\ pc[t] \notin Outside \cup {"persist"} /\ pc'[t] \notin Outside \cup {"persist"}
            /\ disk' = disk /\ blob' = blob
            /\ \A u \in Replacers : u # t => pc'[u] = pc[u]
        BY <1>0, <2>1, CallerType DEF TakeWriters, TakeFlock, TakeReader, GiveUp, Go, TypeOK, Outside
      <3> QED
        BY <3>1, StoreSame
    <2>2. CASE Mutate(t)
      <3>1. PICK k \in Keys : Hold(t, Bump(blob[t], k))
        BY <1>2, <2>2 DEF Mutate, Base
      <3>2. pc[t] = "body" /\ Go(t, "persist") /\ disk' = disk /\ blob'[t] = Bump(blob[t], k)
        BY <1>0, <2>2, <3>1 DEF Mutate, Hold, TypeOK
      <3>3. /\ Copies' = [Copies EXCEPT ![t] = Bump(blob[t], k)] /\ Copies[t] = blob[t]
            /\ Changed' = Changed \cup {t} /\ t \notin Changed
        BY <1>0, <1>2, <3>1, <3>2, CallerStep DEF Outside, Changed
      <3>4. Store!Change(t, k)
        BY <1>0, <1>2, <3>2, <3>3, CopyIsBlob, PutIsBump DEF Store!Change, Changed, Copies
      <3> QED
        BY <1>2, <3>4 DEF Store!StoreNext
    <2>3. CASE Persist(t)
      <3>1. pc[t] = "persist" /\ Go(t, "put") /\ disk' = blob[t] /\ blob' = blob
        BY <2>3 DEF Persist
      <3>2. /\ Copies' = [Copies EXCEPT ![t] = Free] /\ Copies[t] = blob[t]
            /\ Changed' = Changed \ {t} /\ t \in Changed
        BY <1>0, <1>2, <3>1, CallerStep DEF Outside, Changed
      <3>3. Store!PutBack(t)
        BY <3>1, <3>2 DEF Store!PutBack, Changed
      <3> QED
        BY <1>2, <3>3 DEF Store!StoreNext
    <2>4. CASE Raise(t) \/ PersistFails(t)
      <3>1. Go(t, "idle") /\ Hold(t, NoBlob) /\ disk' = disk /\ blob'[t] = NoBlob
        BY <1>0, <2>4 DEF Raise, PersistFails, Release, Hold, TypeOK
      <3>2. Copies' = [Copies EXCEPT ![t] = Free] /\ Changed' = Changed \ {t}
        BY <1>0, <1>2, <3>1, CallerStep DEF Outside
      <3>3. Copies' = [u \in Replacers |-> IF u \in {t} THEN Free ELSE Copies[u]]
        BY <3>2 DEF Copies
      <3>4. Store!Drop({t})
        BY <3>1, <3>2, <3>3 DEF Store!Drop, Changed
      <3> QED
        BY <1>2, <3>4 DEF Store!StoreNext
    <2>5. CASE Put(t)
      <3>1. /\ pc[t] = "put" /\ disk' = disk
            /\ \A u \in Replacers : /\ pc'[u] = IF u = t THEN "idle" ELSE pc[u]
                                    /\ u # t => blob'[u] = blob[u]
        BY <1>0, <2>5 DEF Put, Release, Go, Hold, TypeOK
      <3> QED
        BY <3>1, StoreSame DEF Outside
    <2> QED
      BY <2>1, <2>2, <2>3, <2>4, <2>5 DEF Write
  <1> QED
    BY <1>1, <1>2

LEMMA ProcStore ==
    ASSUME Inv, NEW p \in Procs, Expire(p) \/ Restart(p)
    PROVE  Store!StoreNext \/ UNCHANGED Store!storeVars
  <1>1. CASE Expire(p)
    BY <1>1, StoreSame DEF Expire
  <1>2. CASE Restart(p)
    <2> DEFINE mine == {t \in Threads : ProcOf[t] = p}
    <2>1. /\ disk' = disk
          /\ \A t \in Replacers : /\ pc'[t] = IF t \in mine THEN "idle" ELSE pc[t]
                                  /\ blob'[t] = IF t \in mine THEN NoBlob ELSE blob[t]
      BY <1>2 DEF Restart, Threads, Writers
    <2> HIDE DEF mine
    <2>2. Copies' = [t \in Replacers |-> IF t \in Replacers \cap mine THEN Free ELSE Copies[t]]
      BY <2>1 DEF Copies
    <2>3. Changed' = Changed \ (Replacers \cap mine)
      BY <2>1 DEF Changed
    <2>4. Store!Drop(Replacers \cap mine)
      BY <2>1, <2>2, <2>3 DEF Store!Drop, Changed
    <2> QED
      BY <2>4 DEF Store!StoreNext
  <1> QED
    BY <1>1, <1>2

\* With one writing process, read_soul_map and write_soul_map implement a value that is
\* updated at once: no copy is older than the file of its moment, and no write adds to
\* another value than the file's, whatever fails, expires or restarts meanwhile.
THEOREM StoreImplemented == ASSUME OneWritingProcess PROVE Spec => StoreRefined
  <1>1. Init => Inv /\ Store!StoreInit
    <2>1. Init => Store!StoreInit
      BY DEF Init, Store!StoreInit, NoBlob, Copies, Threads, Writers
    <2> QED
      BY <2>1, LockedInit, DataInit DEF Inv
  <1>2. Inv /\ [Next]_vars => [Store!StoreNext]_Store!storeVars
    <2>1. Inv /\ Next => Store!StoreNext \/ UNCHANGED Store!storeVars
      BY ReadStore, WriteStore, ProcStore DEF Next
    <2>2. UNCHANGED vars => UNCHANGED Store!storeVars
      BY DEF vars, Store!storeVars, Copies
    <2> QED
      BY <2>1, <2>2
  <1> QED
    BY <1>1, <1>2, InvNext, PTL DEF Spec, StoreRefined, Store!StoreSpec

(***************************************************************************)
(* The three locks and the lock order, with any number of writing          *)
(* processes: a lock that is held is held by a thread at work inside it.   *)
(***************************************************************************)
HolderInv ==
    /\ \A p \in Procs : reader[p] # Free =>
         ProcOf[reader[p]] = p /\ pc[reader[p]] \in {"fill", "body", "persist", "put"}
    /\ \A p \in Procs : writers[p] # Free =>
         ProcOf[writers[p]] = p /\ pc[writers[p]] \in {"flock", "rlock", "body", "persist", "put"}
    /\ flock # Free => pc[flock] \in {"rlock", "body", "persist", "put"}

\* The thread is in a call, and no lock it wants is taken.  Who waits for the readers'
\* lock with the others in hand gives the file's lock back.
CanGo(t) ==
    \/ pc[t] = "want" /\ reader[ProcOf[t]] = Free
    \/ pc[t] = "writers" /\ writers[ProcOf[t]] = Free
    \/ pc[t] = "flock" /\ flock = Free
    \/ pc[t] \in {"fill", "rlock", "body", "persist", "put"}

SomeoneGoes == (\E t \in Threads : pc[t] # "idle") => \E t \in Threads : CanGo(t)

LEMMA HolderInit == Init => HolderInv
  BY DEF Init, HolderInv

LEMMA HolderRead ==
    ASSUME LockedInv, HolderInv, NEW t \in Threads, StartRead(t) \/ StartUpdate(t) \/ Read(t)
    PROVE  HolderInv'
  <1> USE ProcType, ThreadsAssumption
      DEF LockedInv, TypeOK, LockInv, HolderInv, Go, locks, Threads, Writers
  <1>1. CASE StartRead(t)
    BY <1>1 DEF StartRead
  <1>2. CASE StartUpdate(t)
    BY <1>2 DEF StartUpdate
  <1>3. CASE ReadHit(t)
    BY <1>3 DEF ReadHit, Use
  <1>4. CASE ReadMiss(t)
    BY <1>4 DEF ReadMiss
  <1>5. CASE Fill(t)
    BY <1>5 DEF Fill, Use
  <1> HIDE DEF LockedInv, HolderInv
  <1> QED
    BY <1>1, <1>2, <1>3, <1>4, <1>5 DEF Read

LEMMA HolderWrite ==
    ASSUME LockedInv, HolderInv, NEW t \in Threads, Write(t) PROVE HolderInv'
  <1> USE ProcType, ThreadsAssumption
      DEF LockedInv, TypeOK, LockInv, HolderInv, Go, locks, Threads, Writers
  <1>1. CASE TakeWriters(t)
    BY <1>1 DEF TakeWriters
  <1>2. CASE TakeFlock(t)
    BY <1>2 DEF TakeFlock
  <1>3. CASE TakeReader(t)
    BY <1>3 DEF TakeReader
  <1>4. CASE GiveUp(t)
    BY <1>4 DEF GiveUp
  <1>5. CASE Mutate(t)
    BY <1>5 DEF Mutate
  <1>6. CASE Persist(t)
    BY <1>6 DEF Persist
  <1>7. CASE pc[t] \in {"body", "persist", "put"} /\ Release(t)
    BY <1>7 DEF Release
  <1> HIDE DEF LockedInv, HolderInv
  <1> QED
    BY <1>1, <1>2, <1>3, <1>4, <1>5, <1>6, <1>7 DEF Write, Raise, PersistFails, Put

LEMMA HolderProc ==
    ASSUME LockedInv, HolderInv, NEW p \in Procs, Expire(p) \/ Restart(p) PROVE HolderInv'
  <1> USE ProcType, ThreadsAssumption
      DEF LockedInv, TypeOK, LockInv, HolderInv, locks, Threads, Writers
  <1>1. CASE Expire(p)
    BY <1>1 DEF Expire
  <1>2. CASE Restart(p)
    BY <1>2 DEF Restart
  <1> QED
    BY <1>1, <1>2

LEMMA HolderAlways == Spec => [](LockedInv /\ HolderInv)
  <1>1. LockedInv /\ HolderInv /\ Next => HolderInv'
    BY HolderRead, HolderWrite, HolderProc DEF Next
  <1>2. LockedInv /\ HolderInv /\ UNCHANGED vars => HolderInv'
    BY DEF vars, locks, HolderInv
  <1> QED
    BY <1>1, <1>2, HolderInit, LockedInit, LockedNext, PTL DEF Spec

\* Never does everybody wait for everybody: while a call of read_soul_map or
\* write_soul_map is open anywhere, one thread has all it needs for its next step,
\* whatever processes share the file and whoever fails or restarts.
THEOREM NoDeadlock == Spec => []SomeoneGoes
  <1>1. LockedInv /\ HolderInv => SomeoneGoes
    <2> SUFFICES ASSUME LockedInv, HolderInv, NEW t \in Threads, pc[t] # "idle"
                 PROVE  \E u \in Threads : CanGo(u)
      BY DEF SomeoneGoes
    <2>1. ASSUME flock # Free PROVE \E u \in Threads : CanGo(u)
      <3>1. flock \in Threads /\ pc[flock] \in {"rlock", "body", "persist", "put"}
        BY <2>1 DEF HolderInv, LockedInv, TypeOK, Threads
      <3> QED
        BY <3>1 DEF CanGo
    <2>2. ASSUME NEW u \in Threads, pc[u] = "flock" PROVE \E v \in Threads : CanGo(v)
      BY <2>1, <2>2 DEF CanGo
    <2>3. CASE pc[t] = "want" /\ reader[ProcOf[t]] # Free
      <3>1. /\ reader[ProcOf[t]] \in Threads
            /\ pc[reader[ProcOf[t]]] \in {"fill", "body", "persist", "put"}
        BY <2>3, ProcType DEF HolderInv, LockedInv, TypeOK
      <3> QED
        BY <3>1 DEF CanGo
    <2>4. CASE pc[t] = "writers" /\ writers[ProcOf[t]] # Free
      <3>1. /\ writers[ProcOf[t]] \in Threads
            /\ pc[writers[ProcOf[t]]] \in {"flock", "rlock", "body", "persist", "put"}
        BY <2>4, ProcType DEF HolderInv, LockedInv, TypeOK, Threads
      <3> QED
        BY <3>1, <2>2 DEF CanGo
    <2>5. pc[t] \in Labels
      BY DEF LockedInv, TypeOK
    <2> QED
      BY <2>2, <2>3, <2>4, <2>5 DEF CanGo, Labels
  <1> QED
    BY <1>1, HolderAlways, PTL
=============================================================================
