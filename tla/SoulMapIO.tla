------------------------------ MODULE SoulMapIO ------------------------------
(***************************************************************************)
(* data/soul_map.json: the weights, the pick mirror and the schedulers'    *)
(* evidence in one file.  write_soul_map takes, in this order, a lock of   *)
(* the process for its writers, a lock of the file across processes, and   *)
(* the lock that readers of the process use; it works on a copy of the     *)
(* process's cache, or of the file when that is too old.                   *)
(* Some callers (_save_raw) read a copy first and then write all of it.    *)
(***************************************************************************)
EXTENDS Naturals

CONSTANTS
    Procs,       \* processes that share the file
    Updaters,    \* threads that mutate the blob in place (_mutate_raw)
    Replacers,   \* threads that write back a copy they read (_save_raw)
    Readers,     \* threads that only read
    ProcOf,      \* the process of a thread
    Keys,        \* parts of the blob, each with a number of updates
    MaxWrites,   \* bound on that number
    Failures,    \* TRUE: mutators raise, the disk fails, processes restart
    Free         \* a lock nobody holds; an expired or absent cache entry

Writers == Updaters \cup Replacers
Threads == Writers \cup Readers
Blob    == [Keys -> 0..MaxWrites]

ASSUME ThreadsAssumption ==
    /\ Updaters \cap Replacers = {} /\ Writers \cap Readers = {}
    /\ ProcOf \in [Threads -> Procs]
    /\ Free \notin Threads /\ Free \notin Blob
ASSUME BoundAssumption == MaxWrites \in Nat \ {0} /\ Failures \in BOOLEAN

VARIABLES
    disk,       \* the file
    cache,      \* per process: _cache, Free when missing or older than its TTL
    writers,    \* per process: holder of _lock_for(path + ".writers")
    flock,      \* holder of the lock file
    reader,     \* per process: holder of _lock_for(path)
    pc, blob    \* per thread: label, the blob it works on

locks == <<writers, flock, reader>>
vars  == <<disk, cache, locks, pc, blob>>

Labels == {"idle", "want", "fill", "writers", "flock", "rlock", "body", "persist", "put"}

TypeOK ==
    /\ disk \in Blob
    /\ cache \in [Procs -> Blob \cup {Free}]
    /\ writers \in [Procs -> Writers \cup {Free}]
    /\ flock \in Writers \cup {Free}
    /\ reader \in [Procs -> Threads \cup {Free}]
    /\ pc \in [Threads -> Labels] /\ blob \in [Threads -> Blob]

NoBlob == [k \in Keys |-> 0]

Init ==
    /\ disk = NoBlob
    /\ cache = [p \in Procs |-> Free]
    /\ writers = [p \in Procs |-> Free] /\ flock = Free
    /\ reader = [p \in Procs |-> Free]
    /\ pc = [t \in Threads |-> "idle"] /\ blob = [t \in Threads |-> NoBlob]

Go(t, label) == pc' = [pc EXCEPT ![t] = label]
Hold(t, b)   == blob' = [blob EXCEPT ![t] = b]

(***************************************************************************)
(* read_soul_map.                                                          *)
(***************************************************************************)
\* What a thread does with the copy it read.
Use(t, b) ==
    IF t \in Readers THEN Go(t, "idle") /\ Hold(t, NoBlob)
    ELSE Go(t, "writers") /\ Hold(t, b)

StartRead(t) ==
    /\ t \in Readers \cup Replacers /\ pc[t] = "idle"
    /\ Go(t, "want") /\ UNCHANGED <<disk, cache, locks, blob>>

\* Bug: the file is read without the lock.
ReadMissUnlocked(t) == LET p == ProcOf[t] IN
    /\ pc[t] = "want" /\ reader[p] = Free
    /\ cache[p] = Free /\ Go(t, "fill") /\ Hold(t, disk)
    /\ UNCHANGED <<disk, cache, locks>>

ReadHit(t) == LET p == ProcOf[t] IN
    /\ pc[t] = "want" /\ reader[p] = Free
    /\ cache[p] # Free /\ Use(t, cache[p])
    /\ UNCHANGED <<disk, cache, locks>>

ReadMiss(t) == LET p == ProcOf[t] IN
    /\ pc[t] = "want" /\ reader[p] = Free
    /\ cache[p] = Free /\ Go(t, "fill") /\ Hold(t, disk)
    /\ reader' = [reader EXCEPT ![p] = t]
    /\ UNCHANGED <<disk, cache, writers, flock>>

\* _cache_put, and the lock is free again.
Fill(t) == LET p == ProcOf[t] IN
    /\ pc[t] = "fill" /\ Use(t, blob[t])
    /\ cache' = [cache EXCEPT ![p] = blob[t]]
    /\ reader' = [reader EXCEPT ![p] = IF @ = t THEN Free ELSE @]
    /\ UNCHANGED <<disk, writers, flock>>

(***************************************************************************)
(* write_soul_map.                                                         *)
(***************************************************************************)
StartUpdate(t) ==
    /\ t \in Updaters /\ pc[t] = "idle"
    /\ Go(t, "writers") /\ UNCHANGED <<disk, cache, locks, blob>>

TakeWriters(t) == LET p == ProcOf[t] IN
    /\ pc[t] = "writers" /\ writers[p] = Free
    /\ writers' = [writers EXCEPT ![p] = t] /\ Go(t, "flock")
    /\ UNCHANGED <<disk, cache, flock, reader, blob>>

\* The file lock is polled; after five seconds the poll starts again.
TakeFlock(t) ==
    /\ pc[t] = "flock" /\ flock = Free
    /\ flock' = t /\ Go(t, "rlock")
    /\ UNCHANGED <<disk, cache, writers, reader, blob>>

TakeReader(t) == LET p == ProcOf[t] IN
    /\ pc[t] = "rlock" /\ reader[p] = Free
    /\ reader' = [reader EXCEPT ![p] = t] /\ Go(t, "body")
    /\ UNCHANGED <<disk, cache, writers, flock, blob>>

\* 50 ms without the readers' lock: the file lock is given back meanwhile.
GiveUp(t) ==
    /\ pc[t] = "rlock" /\ reader[ProcOf[t]] # Free
    /\ flock' = Free /\ Go(t, "flock")
    /\ UNCHANGED <<disk, cache, writers, reader, blob>>

Release(t) == LET p == ProcOf[t] IN
    /\ writers' = [writers EXCEPT ![p] = Free] /\ flock' = Free
    /\ reader' = [reader EXCEPT ![p] = Free]
    /\ Go(t, "idle") /\ Hold(t, NoBlob)

Bump(b, k) == [b EXCEPT ![k] = IF @ < MaxWrites THEN @ + 1 ELSE @]

\* Bug: the mutator gets an empty blob when the cache has expired.
BaseEmpty(t) ==
    IF t \in Replacers THEN blob[t]
    ELSE IF cache[ProcOf[t]] # Free THEN cache[ProcOf[t]] ELSE NoBlob

\* What the mutator gets, which for _save_raw is the copy its caller read.
Base(t) ==
    IF t \in Replacers THEN blob[t]
    ELSE IF cache[ProcOf[t]] # Free THEN cache[ProcOf[t]] ELSE disk

Mutate(t) ==
    /\ pc[t] = "body" /\ Go(t, "persist")
    /\ \E k \in Keys : Hold(t, Bump(Base(t), k))
    /\ UNCHANGED <<disk, cache, locks>>

\* Bug: the file lock is kept when the mutator raises.
RaiseKeepsFlock(t) == LET p == ProcOf[t] IN
    /\ Failures /\ pc[t] = "body"
    /\ writers' = [writers EXCEPT ![p] = Free] /\ flock' = flock
    /\ reader' = [reader EXCEPT ![p] = Free]
    /\ Go(t, "idle") /\ Hold(t, NoBlob) /\ UNCHANGED <<disk, cache>>

\* The mutator raises: nothing is written.
Raise(t) == Failures /\ pc[t] = "body" /\ Release(t) /\ UNCHANGED <<disk, cache>>

\* os.replace; a failure leaves the file and the cache as they are.
Persist(t) ==
    /\ pc[t] = "persist" /\ disk' = blob[t] /\ Go(t, "put")
    /\ UNCHANGED <<cache, locks, blob>>

PersistFails(t) ==
    Failures /\ pc[t] = "persist" /\ Release(t) /\ UNCHANGED <<disk, cache>>

Put(t) ==
    /\ pc[t] = "put" /\ cache' = [cache EXCEPT ![ProcOf[t]] = blob[t]]
    /\ Release(t) /\ UNCHANGED disk

(***************************************************************************)
(* The cache's TTL; a process that restarts loses its locks and its cache. *)
(***************************************************************************)
Expire(p) ==
    /\ cache[p] # Free /\ cache' = [cache EXCEPT ![p] = Free]
    /\ UNCHANGED <<disk, locks, pc, blob>>

Restart(p) == LET mine == {t \in Threads : ProcOf[t] = p} IN
    /\ Failures /\ \E t \in mine : pc[t] # "idle"
    /\ cache' = [cache EXCEPT ![p] = Free]
    /\ writers' = [writers EXCEPT ![p] = Free] /\ reader' = [reader EXCEPT ![p] = Free]
    /\ flock' = IF flock \in mine THEN Free ELSE flock
    /\ pc' = [t \in Threads |-> IF t \in mine THEN "idle" ELSE pc[t]]
    /\ blob' = [t \in Threads |-> IF t \in mine THEN NoBlob ELSE blob[t]]
    /\ UNCHANGED disk

Read(t)  == ReadHit(t) \/ ReadMiss(t) \/ Fill(t)
Write(t) == TakeWriters(t) \/ TakeFlock(t) \/ TakeReader(t) \/ GiveUp(t)
            \/ Mutate(t) \/ Raise(t) \/ Persist(t) \/ PersistFails(t) \/ Put(t)

Next ==
    \/ \E t \in Threads : StartRead(t) \/ StartUpdate(t) \/ Read(t) \/ Write(t)
    \/ \E p \in Procs : Expire(p) \/ Restart(p)

Spec == Init /\ [][Next]_vars

(***************************************************************************)
(* Fairness: a thread that can run does, and a lock that comes free again  *)
(* and again while a thread waits for it goes to that thread at last.      *)
(***************************************************************************)
Fairness ==
    /\ \A t \in Writers :
        WF_vars(Write(t)) /\ SF_vars(TakeWriters(t) \/ TakeFlock(t) \/ TakeReader(t))
    /\ \A t \in Readers \cup Replacers :
        WF_vars(Fill(t)) /\ SF_vars(ReadHit(t) \/ ReadMiss(t))

FairSpec == Spec /\ Fairness

(***************************************************************************)
(* Properties.                                                             *)
(***************************************************************************)
WritingProcs == {ProcOf[t] : t \in Writers}
OneWritingProcess == \A p, q \in WritingProcs : p = q

\* "Thread-safe read-modify-write": a write of a mutator adds its own update to
\* what the file holds at that moment, and takes nothing away, whatever the
\* cache, an expiry, a failed write or a restart did before.
AddsOne ==
    \/ disk' = disk
    \/ \E k \in Keys : disk' = Bump(disk, k)
    \/ \E t \in Replacers : pc[t] = "persist" /\ pc'[t] = "put"
NoLostUpdate == [][AddsOne]_vars

\* Between its read and the end of its write a replacer has a copy.
Copies == [t \in Replacers |-> IF pc[t] \in {"idle", "want", "put"} THEN Free ELSE blob[t]]

Store == INSTANCE SoulMapStore WITH
    Nothing <- Free, value <- disk, held <- Copies,
    changed <- {t \in Replacers : pc[t] = "persist"}

\* Seen from its callers the locks, the cache, its expiry, failed writes and restarts
\* are one value that is updated at once: every copy is the value of the moment it was
\* taken, and every mutator's write adds its own update to the value of its moment.
StoreRefined == Store!StoreSpec

\* "always immediately visible regardless of the cache": the cache of the writing
\* process is the file, except inside a write, where its readers are locked out.
CacheIsFile == \A p \in WritingProcs :
    cache[p] \in {Free, disk} \/ \E t \in Writers : reader[p] = t /\ pc[t] = "put"

\* A writer that waits for the lock file does not keep the readers out: every read ends.
ReadEnds == \A t \in Threads : pc[t] = "want" ~> pc[t] # "want"

\* Every write ends, also behind mutators that raise and writes that fail, unless
\* readers hold the readers' lock past a writer's 50 ms again and again.
Crowded   == \E t \in Writers : pc[t] = "rlock" /\ reader[ProcOf[t]] \in Readers
WriteEnds == []<>Crowded \/ \A t \in Writers : []<>(pc[t] = "idle")

\* Nobody waits for ever in read_soul_map or write_soul_map.
CallsEnd == ReadEnds /\ WriteEnds

\* No write takes from the file what another write put there.
NothingErased == [][\A k \in Keys : disk'[k] >= disk[k]]_vars
=============================================================================
