---------------------------- MODULE LivenessTracker ----------------------------
(***************************************************************************)
(* internal/liveness.py: one tracker, the threads that record with it and  *)
(* its record in the store.  A record changes the fields under the         *)
(* tracker's lock; the save that follows takes a snapshot under it again   *)
(* and hands a mutator to write_soul_map, which runs it when it has its    *)
(* own locks: the epochs are read then, the rest comes from the snapshot.  *)
(***************************************************************************)
EXTENDS Integers

CONSTANTS
    Recorders,  \* threads that record with the tracker
    MaxEpoch    \* clock (bound)

ASSUME EpochAssumption == MaxEpoch \in Nat \ {0}

VARIABLES
    epoch,      \* time.time()
    fields,     \* the tracker's fields; epoch 0 stands for None
    stored,     \* its record in the store; the defaults when there is none
    unsaved,    \* the last write has failed
    saving,     \* per thread: its place in a record call
    snap        \* per thread: what snapshot() gave its _save

livenessVars == <<epoch, fields, stored, unsaved, saving, snap>>

\* Of the consecutive failures and skips the model keeps whether there are any.
Fields == [success : 0..MaxEpoch, event : 0..MaxEpoch,
           life : {"new", "started", "stopped"}, fails : 0..1, skips : 0..1]

NewFields == [success |-> 0, event |-> 0, life |-> "new", fails |-> 0, skips |-> 0]

LivenessTypeOK ==
    /\ epoch \in 1..MaxEpoch
    /\ fields \in Fields /\ stored \in Fields /\ unsaved \in BOOLEAN
    /\ saving \in [Recorders -> {"idle", "snapshot", "mutator"}]
    /\ snap \in [Recorders -> Fields]

LivenessInit ==
    /\ epoch = 1 /\ fields = NewFields /\ stored = NewFields /\ unsaved = FALSE
    /\ saving = [t \in Recorders |-> "idle"]
    /\ snap = [t \in Recorders |-> NewFields]

Clock ==
    /\ epoch < MaxEpoch /\ epoch' = epoch + 1
    /\ UNCHANGED <<fields, stored, unsaved, saving, snap>>

(***************************************************************************)
(* Record calls: the fields, under the tracker's lock.                     *)
(***************************************************************************)
Record(t, new) ==
    /\ saving[t] = "idle"
    /\ fields' = new
    /\ saving' = [saving EXCEPT ![t] = "snapshot"]
    /\ UNCHANGED <<epoch, stored, unsaved, snap>>

StartLife(t) == Record(t, [fields EXCEPT !.life = "started"])
StopLife(t)  == Record(t, [fields EXCEPT !.life = "stopped"])

RecordSkip(t)    == Record(t, [fields EXCEPT !.skips = 1, !.event = epoch])
RecordFailure(t) == Record(t, [fields EXCEPT !.fails = 1, !.event = epoch])

RecordSuccess(t) == Record(t, [fields EXCEPT
    !.success = epoch, !.event = epoch, !.fails = 0, !.skips = 0])

ClearBurst(t) == Record(t, [fields EXCEPT !.fails = 0, !.skips = 0])

(***************************************************************************)
(* _save.                                                                  *)
(***************************************************************************)
TakeSnapshot(t) ==
    /\ saving[t] = "snapshot"
    /\ snap' = [snap EXCEPT ![t] = fields]
    /\ saving' = [saving EXCEPT ![t] = "mutator"]
    /\ UNCHANGED <<epoch, fields, stored, unsaved>>

\* Bug: the epochs are those of the snapshot, too.
MutatedAsSeen(t) == snap[t]

\* The record a mutator writes: the epochs of now, the rest as the snapshot saw it.
Mutated(t) == [snap[t] EXCEPT !.success = fields.success, !.event = fields.event]

\* write_soul_map; a write that fails is swallowed.
Mutate(t) ==
    /\ saving[t] = "mutator"
    /\ \/ stored' = Mutated(t) /\ unsaved' = FALSE
       \/ unsaved' = TRUE /\ UNCHANGED stored
    /\ saving' = [saving EXCEPT ![t] = "idle"]
    /\ snap' = [snap EXCEPT ![t] = NewFields]
    /\ UNCHANGED <<epoch, fields>>

\* A new process makes its tracker from the stored record.
Hydrate ==
    /\ fields' = stored /\ unsaved' = FALSE
    /\ saving' = [t \in Recorders |-> "idle"]
    /\ snap' = [t \in Recorders |-> NewFields]
    /\ UNCHANGED <<epoch, stored>>

LivenessNext ==
    \/ Clock \/ Hydrate
    \/ \E t \in Recorders :
          \/ StartLife(t) \/ StopLife(t) \/ ClearBurst(t)
          \/ RecordSkip(t) \/ RecordFailure(t) \/ RecordSuccess(t)
          \/ TakeSnapshot(t) \/ Mutate(t)

LivenessSpec == LivenessInit /\ [][LivenessNext]_livenessVars

(***************************************************************************)
(* However the saves of several threads overtake each other, fail or are   *)
(* cut off by a restart: the stored success never goes back to an older    *)
(* one, and when all threads are through and the last write went well, the *)
(* stored epochs are the tracker's.  (Its counters need not be: they are   *)
(* those of the snapshot that was written last.)                           *)
(***************************************************************************)
EpochsKept ==
    /\ [][stored'.success >= stored.success]_livenessVars
    /\ []((\A t \in Recorders : saving[t] = "idle") /\ ~unsaved =>
            stored.success = fields.success /\ stored.event = fields.event)
=============================================================================
