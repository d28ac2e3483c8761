------------------------------ MODULE OwnerGuard ------------------------------
(***************************************************************************)
(* internal/owner_guard.py: which of the processes that share a data       *)
(* directory may write to it.                                              *)
(*                                                                         *)
(* A process owns the directory while it holds a flock on the lock file    *)
(* and the volume's marker is the one it found.  Both are plain files that *)
(* an operator, a restore or a second machine can replace, so an owner     *)
(* inspects them again before each write, and one that finds them changed  *)
(* never writes again: it exits and its supervisor starts it anew.         *)
(***************************************************************************)
EXTENDS Naturals

CONSTANTS
    Procs,       \* processes that may become the owner
    MaxTampers   \* bound: times the lock file or the marker is replaced

ASSUME OwnerAssumption == MaxTampers \in Nat

VARIABLES
    lockFile, inodes,    \* inode at the lock's path (0: none); inodes made so far
    marker, ids,         \* the marker: identity (0: absent), validity; identities so far
    place, fd,           \* per process: where it is; inode of its open lock file
    pathSeen, markerSeen,\* _lock_path_inode_at_acquire, _marker_stat_at_acquire
    tampers              \* replacements so far

filesV == <<lockFile, inodes, marker, ids, tampers>>
seenV  == <<pathSeen, markerSeen>>
ownerVars == <<filesV, place, fd, seenV>>

Places  == {"down", "opened", "classify", "bootstrap", "verify", "stat", "owner", "writing",
            "lost"}
Holding == Places \ {"down", "opened"}      \* the flock of the file it opened
Owning  == {"owner", "writing"}

OwnerTypeOK ==
    /\ inodes \in Nat /\ lockFile \in 0..inodes /\ ids \in Nat
    /\ marker \in [id : 0..ids, valid : BOOLEAN]
    /\ place \in [Procs -> Places] /\ fd \in [Procs -> 0..inodes]
    /\ pathSeen \in [Procs -> 0..inodes] /\ markerSeen \in [Procs -> 0..ids]
    /\ tampers \in 0..MaxTampers

OwnerInit ==
    /\ lockFile = 0 /\ inodes = 0
    /\ ids = 1 /\ marker \in {[id |-> 0, valid |-> FALSE], [id |-> 1, valid |-> TRUE]}
    /\ place = [p \in Procs |-> "down"] /\ fd = [p \in Procs |-> 0]
    /\ pathSeen = [p \in Procs |-> 0] /\ markerSeen = [p \in Procs |-> 0]
    /\ tampers = 0

Move(p, from, to) == place[p] = from /\ place' = [place EXCEPT ![p] = to]

(***************************************************************************)
(* try_acquire_write_owner_lock, when the process starts.                  *)
(***************************************************************************)
\* _open_write_lock: the file at the path, made if there is none.
OpenLock(p) ==
    /\ Move(p, "down", "opened")
    /\ IF lockFile = 0
       THEN inodes' = inodes + 1 /\ lockFile' = inodes'
       ELSE UNCHANGED <<inodes, lockFile>>
    /\ fd' = [fd EXCEPT ![p] = lockFile']
    /\ UNCHANGED <<marker, ids, tampers, seenV>>

\* Another process holds the flock of the file p has open.
Contended(p) == \E q \in Procs \ {p} : place[q] \in Holding /\ fd[q] = fd[p]

TakeFlock(p) ==
    /\ ~Contended(p)
    /\ Move(p, "opened", "classify")
    /\ UNCHANGED <<filesV, fd, seenV>>

\* The process ends, and the kernel closes what it holds: a contended flock, a mount,
\* a pin or a marker that does not prove the volume, an error, a crash.
Exit(p) ==
    /\ place[p] # "down"
    /\ place' = [place EXCEPT ![p] = "down"] /\ fd' = [fd EXCEPT ![p] = 0]
    /\ pathSeen' = [pathSeen EXCEPT ![p] = 0] /\ markerSeen' = [markerSeen EXCEPT ![p] = 0]
    /\ UNCHANGED filesV

\* The marker is valid, or absent on a volume that may have a new one.
Classify(p) ==
    /\ \/ marker.id # 0 /\ marker.valid /\ Move(p, "classify", "verify")
       \/ marker.id = 0 /\ Move(p, "classify", "bootstrap")
    /\ UNCHANGED <<filesV, fd, seenV>>

\* _bootstrap_volume_marker: link a new one, unless there is one by now.
Bootstrap(p) ==
    /\ Move(p, "bootstrap", "verify")
    /\ IF marker.id = 0
       THEN ids' = ids + 1 /\ marker' = [id |-> ids', valid |-> TRUE]
       ELSE marker.valid /\ UNCHANGED <<ids, marker>>
    /\ UNCHANGED <<lockFile, inodes, tampers, fd, seenV>>

VerifyMarker(p) ==
    /\ marker.id # 0 /\ marker.valid
    /\ Move(p, "verify", "stat")
    /\ UNCHANGED <<filesV, fd, seenV>>

\* What the path and the marker are now is what the owner will compare them with.
StatFiles(p) ==
    /\ lockFile # 0 /\ marker.id # 0
    /\ Move(p, "stat", "owner")
    /\ pathSeen' = [pathSeen EXCEPT ![p] = lockFile]
    /\ markerSeen' = [markerSeen EXCEPT ![p] = marker.id]
    /\ UNCHANGED <<filesV, fd>>

(***************************************************************************)
(* owner_guard, before a write.                                            *)
(***************************************************************************)
\* Bug: the path is compared with what it was, not with the open file.
SoundByPath(p) ==
    /\ lockFile # 0 /\ lockFile = pathSeen[p]
    /\ marker.id # 0 /\ marker.id = markerSeen[p]

\* _owner_invariants_reason finds nothing: the path still leads to the locked file
\* and the marker is the same.
Sound(p) ==
    /\ lockFile # 0 /\ lockFile = pathSeen[p] /\ lockFile = fd[p]
    /\ marker.id # 0 /\ marker.id = markerSeen[p]

Inspect(p) ==
    /\ Move(p, "owner", IF Sound(p) THEN "writing" ELSE "lost")
    /\ UNCHANGED <<filesV, fd, seenV>>

Written(p) == Move(p, "writing", "owner") /\ UNCHANGED <<filesV, fd, seenV>>

(***************************************************************************)
(* Replacements of the files by others.                                    *)
(***************************************************************************)
Tampers == tampers < MaxTampers /\ tampers' = tampers + 1

UnlinkLock ==
    /\ Tampers /\ lockFile # 0 /\ lockFile' = 0
    /\ UNCHANGED <<inodes, marker, ids, place, fd, seenV>>

\* Removed, or written anew with the same or another content.
ReplaceMarker ==
    /\ Tampers
    /\ \/ marker' = [id |-> 0, valid |-> FALSE] /\ UNCHANGED ids
       \/ \E valid \in BOOLEAN : ids' = ids + 1 /\ marker' = [id |-> ids', valid |-> valid]
    /\ UNCHANGED <<lockFile, inodes, place, fd, seenV>>

OwnerNext ==
    \/ \E p \in Procs :
         OpenLock(p) \/ TakeFlock(p) \/ Classify(p) \/ Bootstrap(p) \/ VerifyMarker(p)
           \/ StatFiles(p) \/ Inspect(p) \/ Written(p) \/ Exit(p)
    \/ UnlinkLock \/ ReplaceMarker

OwnerSpec == OwnerInit /\ [][OwnerNext]_ownerVars

(***************************************************************************)
(* Properties.                                                             *)
(***************************************************************************)
\* No two processes would pass an inspection at the same time, whatever was replaced
\* under a start or an owner and whoever started since; and while nothing was
\* replaced no two own the directory at all (owner_guard).
OneWriter ==
    \A p, q \in Procs :
      /\ place[p] \in Owning /\ place[q] \in Owning /\ Sound(p) /\ Sound(q) => p = q
      /\ place[p] \in Owning /\ place[q] \in Owning /\ tampers = 0 => p = q
=============================================================================
