------------------------------- MODULE LiveSync -------------------------------
(***************************************************************************)
(* One sync of internal/live_subnets.py: the worker (the parent) has a     *)
(* child process fetch the chain rows and talks to it over a socket pair   *)
(* with deadlines.  The boot thread syncs, then starts the loop thread,    *)
(* which syncs for ever; they never sync at the same time, so one place    *)
(* stands for both.                                                        *)
(*                                                                         *)
(* The child may hang at any step and may die at any step.  What it is     *)
(* told to end by, terminate() and then kill(), does end it.               *)
(***************************************************************************)

VARIABLES
    boot,       \* _live_subnets_boot: "due", "defer", "sync", or "done" with the loop on
    parent,     \* place of the thread that syncs; "none" when _sync_lock is free
    child,      \* the child's place; "none" when no child process is alive
    wire,       \* the frame on its way to the parent; "cut" when its sender gave up in it
    params,     \* the RPC deadline is on its way to the child
    open,       \* the parent's end of the socket pair is open
    got,        \* the child's answer, once it is read
    cache       \* live_subnets.json

syncVars == <<boot, parent, child, wire, params, open, got, cache>>

Answers == {"full", "partial", "empty", "error"}

SyncTypeOK ==
    /\ boot \in {"due", "defer", "sync", "done"}
    /\ parent \in {"none", "checks", "spawn", "hello", "send", "result", "terminate", "kill",
                   "reap", "answer"}
    /\ child \in {"none", "import", "params", "fetch", "send", "close"}
    /\ wire \in {"none", "ready", "cut"} \cup Answers
    /\ params \in BOOLEAN /\ open \in BOOLEAN
    /\ got \in {"none"} \cup Answers
    /\ cache \in {"none", "full", "partial"}

SyncInit ==
    /\ boot = "due" /\ parent = "none" /\ child = "none"
    /\ wire = "none" /\ params = FALSE /\ open = FALSE
    /\ got = "none"
    /\ cache \in {"none", "full", "partial"}

wireVars == <<wire, params, open>>

(***************************************************************************)
(* _live_subnets_boot and the loop.                                        *)
(***************************************************************************)
\* Without netuids the boot is tried again later.  With LIVE_SUBNETS_BOOT_IMMEDIATE
\* it syncs itself; either way it then starts the loop, which syncs at once.
BootSync ==
    /\ boot \in {"due", "defer"}
    /\ \/ boot' = "defer" /\ UNCHANGED parent
       \/ boot' = "sync" /\ parent' = "checks"
       \/ boot' = "done" /\ UNCHANGED parent
    /\ UNCHANGED <<child, wireVars, got, cache>>

StartLoop ==
    /\ boot = "sync" /\ parent = "none"
    /\ boot' = "done"
    /\ UNCHANGED <<parent, child, wireVars, got, cache>>

LoopSync ==
    /\ boot = "done" /\ parent = "none"
    /\ parent' = "checks"
    /\ UNCHANGED <<boot, child, wireVars, got, cache>>

(***************************************************************************)
(* The parent: _sync_once and _fetch_chain_data.                           *)
(***************************************************************************)
\* Release of _sync_lock.
EndSync == parent' = "none" /\ got' = "none"

\* Not the owner process, or the registry is not ready.
Refuse ==
    /\ parent = "checks"
    /\ EndSync
    /\ UNCHANGED <<boot, child, wireVars, cache>>

Check ==
    /\ parent = "checks"
    /\ parent' = "spawn"
    /\ UNCHANGED <<boot, child, wireVars, got, cache>>

\* proc.start(), which may raise.
Spawn ==
    /\ parent = "spawn"
    /\ \/ /\ parent' = "hello" /\ child' = "import"
          /\ wire' = "none" /\ params' = FALSE /\ open' = TRUE
          /\ UNCHANGED got
       \/ EndSync /\ UNCHANGED <<child, wireVars>>
    /\ UNCHANGED <<boot, cache>>

\* recv_message returns a frame that came whole.
Hello ==
    /\ parent = "hello" /\ wire = "ready"
    /\ wire' = "none" /\ parent' = "send"
    /\ UNCHANGED <<boot, child, params, open, got, cache>>

SendParams ==
    /\ parent = "send" /\ child # "none"
    /\ params' = TRUE /\ parent' = "result"
    /\ UNCHANGED <<boot, child, wire, open, got, cache>>

Receive ==
    /\ parent = "result" /\ wire \in Answers
    /\ got' = wire /\ wire' = "none" /\ parent' = "reap"
    /\ UNCHANGED <<boot, child, params, open, cache>>

\* The deadline is over, whatever is on the wire, or the child's end is closed with
\* no whole frame left.  A send fails at its deadline, too.
GiveUp ==
    /\ parent \in {"hello", "send", "result"}
    /\ parent' = "terminate"
    /\ UNCHANGED <<boot, child, wireVars, got, cache>>

\* _terminate_fetch_process: terminate() and a join that may time out ...
Terminate ==
    /\ parent = "terminate"
    /\ \/ child' = "none" /\ parent' = IF open THEN "reap" ELSE "answer"
       \/ child # "none" /\ parent' = "kill" /\ UNCHANGED child
    /\ UNCHANGED <<boot, wireVars, got, cache>>

\* ... then kill() and a join.
Kill ==
    /\ parent = "kill"
    /\ child' = "none"
    /\ parent' = IF open THEN "reap" ELSE "answer"
    /\ UNCHANGED <<boot, wireVars, got, cache>>

\* Bug: a child that does not end within the second is left alone.
ReapOnce ==
    /\ parent = "reap"
    /\ open' = FALSE /\ wire' = "none" /\ params' = FALSE
    /\ parent' = "answer"
    /\ UNCHANGED <<boot, child, got, cache>>

\* The `finally`: close the socket, give the child a second, then make it end.
Reap ==
    /\ parent = "reap"
    /\ open' = FALSE /\ wire' = "none" /\ params' = FALSE
    /\ parent' = IF child = "none" THEN "answer" ELSE "terminate"
    /\ UNCHANGED <<boot, child, got, cache>>

\* No rows: the file stays.  Else the merged rows replace it, unless that fails; a
\* partial fetch replaces a full one, and is reported as a failed sync.
Answer ==
    /\ parent = "answer"
    /\ cache' \in {cache} \cup ({got} \cap {"full", "partial"})
    /\ EndSync
    /\ UNCHANGED <<boot, child, wireVars>>

ParentStep ==
    \/ Refuse \/ Check \/ Spawn
    \/ Hello \/ SendParams \/ Receive \/ GiveUp
    \/ Terminate \/ Kill \/ Reap \/ Answer

(***************************************************************************)
(* The child: run_fetch_child.                                             *)
(***************************************************************************)
\* A frame goes out whole, or its sender gives up in the middle of it.
Emit(frames) == wire' \in IF open THEN frames \cup {"cut"} ELSE {wire}

Ready ==
    /\ child = "import"
    /\ Emit({"ready"})
    /\ child' = IF wire' = "ready" THEN "params" ELSE "close"
    /\ UNCHANGED <<boot, parent, params, open, got, cache>>

\* The deadline for the parent's frame is 5 s; its end may be closed before.
TakeParams ==
    /\ child = "params"
    /\ \/ params /\ params' = FALSE /\ child' = "fetch"
       \/ child' = "close" /\ UNCHANGED params
    /\ UNCHANGED <<boot, parent, wire, open, got, cache>>

Fetch ==
    /\ child = "fetch"
    /\ child' = "send"
    /\ UNCHANGED <<boot, parent, wireVars, got, cache>>

\* The rows, or the error that fetching or sending them met.
SendAnswer ==
    /\ child = "send"
    /\ Emit(Answers)
    /\ child' = "close"
    /\ UNCHANGED <<boot, parent, params, open, got, cache>>

\* The end of the child, after its last step or in the middle of any other.
ChildExits ==
    /\ child # "none"
    /\ child' = "none"
    /\ UNCHANGED <<boot, parent, wireVars, got, cache>>

ChildStep == Ready \/ TakeParams \/ Fetch \/ SendAnswer \/ ChildExits

SyncNext == BootSync \/ StartLoop \/ LoopSync \/ ParentStep \/ ChildStep

SyncSpec == SyncInit /\ [][SyncNext]_syncVars

\* The parent's thread runs; the deadlines of its waits are part of its steps.
\* Nothing is assumed of the child.
SyncFairness == WF_syncVars(ParentStep)

(***************************************************************************)
(* "On RPC budget expiry the child is terminate/kill so no orphan fetch    *)
(* process can wedge the web or worker": a sync that has begun ends,       *)
(* whatever its child does, and leaves no child behind.                    *)
(***************************************************************************)
ChildEnds ==
    /\ [](parent = "none" => child = "none")
    /\ parent # "none" ~> parent = "none"
=============================================================================
