----------------------------- MODULE SoulMapStore -----------------------------
(***************************************************************************)
(* What data/soul_map.json promises its users in the one process that      *)
(* writes it: a value that is updated in one step, and callers that take   *)
(* a copy, change it once and put all of it back.  SoulMapIO, with its     *)
(* three locks and its cache, is shown to implement this.                  *)
(***************************************************************************)
EXTENDS Naturals

CONSTANTS
    Keys,        \* parts of the value
    Replacers,   \* callers that put a copy back
    MaxWrites,   \* bound on the updates counted in a part
    Nothing      \* held by a caller without a copy

VARIABLES
    value,       \* the stored value
    held,        \* per caller: its copy
    changed      \* callers that have changed their copy

storeVars == <<value, held, changed>>

Put(v, k) == [v EXCEPT ![k] = IF @ < MaxWrites THEN @ + 1 ELSE @]

StoreInit ==
    /\ value = [k \in Keys |-> 0]
    /\ held = [t \in Replacers |-> Nothing]
    /\ changed = {}

Update(k) == value' = Put(value, k) /\ UNCHANGED <<held, changed>>

\* The copy is the value of that moment.
TakeCopy(t) ==
    /\ held[t] = Nothing
    /\ held' = [held EXCEPT ![t] = value]
    /\ UNCHANGED <<value, changed>>

Change(t, k) ==
    /\ held[t] # Nothing /\ t \notin changed
    /\ held' = [held EXCEPT ![t] = Put(@, k)]
    /\ changed' = changed \cup {t}
    /\ UNCHANGED value

PutBack(t) ==
    /\ t \in changed
    /\ value' = held[t]
    /\ held' = [held EXCEPT ![t] = Nothing]
    /\ changed' = changed \ {t}

\* Callers that fail, or go down with their process.
Drop(ts) ==
    /\ held' = [t \in Replacers |-> IF t \in ts THEN Nothing ELSE held[t]]
    /\ changed' = changed \ ts
    /\ UNCHANGED value

StoreNext ==
    \/ \E k \in Keys : Update(k)
    \/ \E t \in Replacers : TakeCopy(t) \/ PutBack(t) \/ \E k \in Keys : Change(t, k)
    \/ \E ts \in SUBSET Replacers : Drop(ts)

StoreSpec == StoreInit /\ [][StoreNext]_storeVars
=============================================================================
