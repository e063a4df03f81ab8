-------------------------- MODULE SharedAllocations --------------------------
(***************************************************************************)
(* Workspace directories on a shared volume: an allocation is staged,      *)
(* recorded and renamed into place, on one queue with input publication    *)
(* and deletion, and shares one capacity with them.  The controller may    *)
(* crash between any two of its file operations.                           *)
(***************************************************************************)
EXTENDS Naturals, FiniteSets

CONSTANTS
    Alloc,         \* storage identifiers, one per workspace
    Extracted,     \* those whose outputs are extracted before deletion
    Capacity,      \* maxBytes and maxFiles, in allocations
    MaxInputs,     \* inputs the publisher is asked to project
    MaxStops       \* bound on crashes and failing file operations

VARIABLES
    row,        \* workspace_storage: "none", "allocating", "ready", "deleted"
    pending,    \* pending/<id>: "none", "staged", "recorded"
    flagged,    \* directories holding .extraction-pending
    published,  \* workspaces/<id>
    inputs,     \* units the input publisher holds
    work,       \* the operation at the head of the queue: [id, step], id "none" when idle
    mounted,    \* directories a runtime was given
    extracted,  \* allocations whose outputs were saved
    stops

allocVars == <<row, pending, flagged, published, inputs, work, mounted, extracted, stops>>

Idle == [id |-> "none", step |-> "none"]
AllocInit ==
    /\ row = [a \in Alloc |-> "none"] /\ pending = [a \in Alloc |-> "none"] /\ flagged = {} /\ published = {}
    /\ inputs = 0 /\ work = Idle /\ mounted = {} /\ extracted = {} /\ stops = 0

\* listStorage: what is published, and what is staged and not published.
listStorage == published \cup {a \in Alloc : pending[a] # "none"}
\* reserved reads the record of every listed directory, and fails on one that has none.
unreadable == \E a \in listStorage : a \notin published /\ pending[a] = "staged"
reserved == Cardinality(listStorage)
At(a, step) == work = [id |-> a, step |-> step]
Goto(a, step) == work' = [id |-> a, step |-> step]

-----------------------------------------------------------------------------
\* prepareStorage inserts the row and asks for the allocation; a retry asks again.
prepareStorage(a) ==
    /\ work = Idle /\ row[a] \in {"none", "allocating"}
    /\ row' = [row EXCEPT ![a] = "allocating"] /\ Goto(a, "find")
    /\ UNCHANGED <<pending, flagged, published, inputs, mounted, extracted, stops>>
\* A published directory is returned as it is; otherwise the retrying owner reclaims its staging.
findPublished(a) ==
    /\ At(a, "find") /\ UNCHANGED <<row, published, inputs, mounted, extracted, stops>>
    /\ IF a \in published THEN Goto(a, "save") /\ UNCHANGED <<pending, flagged>>
       ELSE Goto(a, "check") /\ pending' = [pending EXCEPT ![a] = "none"] /\ flagged' = flagged \ {a}
checkCapacity(a) ==
    /\ At(a, "check") /\ UNCHANGED <<row, pending, flagged, published, inputs, mounted, extracted, stops>>
    /\ IF unreadable \/ reserved + inputs + 1 > Capacity THEN work' = Idle ELSE Goto(a, "stage")
stage(a) ==
    /\ At(a, "stage") /\ pending' = [pending EXCEPT ![a] = "staged"] /\ Goto(a, "record")
    /\ UNCHANGED <<row, flagged, published, inputs, mounted, extracted, stops>>
record(a) ==
    /\ At(a, "record") /\ pending' = [pending EXCEPT ![a] = "recorded"] /\ Goto(a, "flag")
    /\ UNCHANGED <<row, flagged, published, inputs, mounted, extracted, stops>>
NoFlag(a) ==
    /\ At(a, "flag") /\ Goto(a, "rename") /\ UNCHANGED <<row, pending, flagged, published, inputs, mounted, extracted, stops>>
\* .extraction-pending is durable before the rename makes the directory visible.
flag(a) ==
    /\ At(a, "flag") /\ flagged' = (IF a \in Extracted THEN flagged \cup {a} ELSE flagged) /\ Goto(a, "rename")
    /\ UNCHANGED <<row, pending, published, inputs, mounted, extracted, stops>>
rename(a) ==
    /\ At(a, "rename") /\ pending' = [pending EXCEPT ![a] = "none"] /\ published' = published \cup {a} /\ Goto(a, "save")
    /\ UNCHANGED <<row, flagged, inputs, mounted, extracted, stops>>
\* The reference is saved and runtimeMounts resolves the directories.
saveStorage(a) ==
    /\ At(a, "save") /\ row' = [row EXCEPT ![a] = "ready"] /\ mounted' = mounted \cup {a} /\ work' = Idle
    /\ UNCHANGED <<pending, flagged, published, inputs, extracted, stops>>

publishInputs ==
    /\ work = Idle /\ inputs < MaxInputs /\ ~unreadable /\ reserved + inputs + 1 <= Capacity /\ inputs' = inputs + 1
    /\ UNCHANGED <<row, pending, flagged, published, work, mounted, extracted, stops>>
releaseInputs ==
    /\ work = Idle /\ inputs > 0 /\ inputs' = inputs - 1
    /\ UNCHANGED <<row, pending, flagged, published, work, mounted, extracted, stops>>
\* The outputs are saved, then the marker goes; not on the queue.
completeExtraction(a) ==
    /\ a \in flagged /\ a \in published /\ row[a] = "ready" /\ extracted' = extracted \cup {a} /\ flagged' = flagged \ {a}
    /\ UNCHANGED <<row, pending, published, inputs, work, mounted, stops>>
\* deleteAllocation: the directory and its staging, never while extraction is pending.
deleteAllocation(a) ==
    /\ work = Idle /\ row[a] = "ready" /\ a \notin flagged
    /\ published' = published \ {a} /\ mounted' = mounted \ {a} /\ pending' = [pending EXCEPT ![a] = "none"]
    /\ row' = [row EXCEPT ![a] = "deleted"] /\ UNCHANGED <<flagged, inputs, work, extracted, stops>>
\* cleanupWorkspaceStorage of a row that never got its reference deletes nothing on disk.
forgetStorage(a) ==
    /\ work = Idle /\ row[a] = "allocating" /\ row' = [row EXCEPT ![a] = "deleted"]
    /\ UNCHANGED <<pending, flagged, published, inputs, work, mounted, extracted, stops>>
\* A purge lists the volume and deletes what it finds of the workspace.
purge(a) ==
    /\ work = Idle /\ row[a] = "deleted" /\ a \in listStorage /\ a \notin flagged
    /\ published' = published \ {a} /\ pending' = [pending EXCEPT ![a] = "none"] /\ mounted' = mounted \ {a}
    /\ UNCHANGED <<row, flagged, inputs, work, extracted, stops>>
Crash ==
    /\ work # Idle /\ stops < MaxStops /\ stops' = stops + 1 /\ work' = Idle
    /\ UNCHANGED <<row, pending, flagged, published, inputs, mounted, extracted>>

AllocNext ==
    \/ publishInputs \/ releaseInputs \/ Crash
    \/ \E a \in Alloc : \/ prepareStorage(a) \/ findPublished(a) \/ checkCapacity(a) \/ stage(a) \/ record(a) \/ flag(a)
                        \/ rename(a) \/ saveStorage(a) \/ completeExtraction(a) \/ deleteAllocation(a)
                        \/ forgetStorage(a) \/ purge(a)

-----------------------------------------------------------------------------
(* Whatever crashed, what is staged, published and projected fits the      *)
(* volume; a runtime mounts only a directory that is published; and a      *)
(* directory whose outputs must be extracted is there, marked, until they  *)
(* have been.                                                              *)
VolumeIsSafe ==
    /\ Cardinality(published \cup {a \in Alloc : pending[a] # "none"}) + inputs <= Capacity
    /\ mounted \subseteq published
    /\ \A a \in Extracted : row[a] = "ready" /\ a \notin extracted => a \in published /\ a \in flagged
=============================================================================
