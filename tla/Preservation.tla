------------------------------ MODULE Preservation ------------------------------
(***************************************************************************)
(* Preserve, restore, verify, delete and purge: the services of the server *)
(* that move a workspace's files into a checkpoint, out of it, and away.   *)
(* Each operation is a task of the server whose steps end where the code   *)
(* awaits; pc says which step is next.  A crash forgets every task and     *)
(* every transfer in progress; the rows, the provider objects and the      *)
(* archive files stay, and startup and the coordinator's ticks take the    *)
(* operations up again.                                                    *)
(*                                                                         *)
(* Transient failures (a journal or issuer that does not answer, a driver  *)
(* error, a lost connection, a passed deadline) and crashes share a budget *)
(* of MaxFaults.                                                           *)
(***************************************************************************)
EXTENDS Naturals, FiniteSets, Sequences, WorkspaceStates

--------------------------------------------------------------------------------
(* The rows that preserving, restoring and purging a workspace go through, *)
(* and the transactions that change them: operations, checkpoints, archive *)
(* transfers and the purge fence.  A transaction is one action, and its    *)
(* checks are the ones the store repeats under its locks, whatever the     *)
(* caller checked before.                                                  *)
(*                                                                         *)
(* An operation is a record [kind, workspace, checkpoint, target]; the set *)
(* Operation lists the requests that may be made, each under its own       *)
(* idempotency key, so that a repeated request finds its row and changes   *)
(* nothing.                                                                *)

CONSTANTS
    Workspace,
    Checkpoint,
    Operation,
    MaxOperations,   \* persistenceLimits.maxConcurrentOperations
    MaxRetained      \* persistenceLimits.maxCheckpointsPerPrincipal

OfKind(k) == {o \in Operation : o.kind = k}

ASSUME OperationAssumption ==
    /\ \A o \in Operation :
         /\ o.kind \in {"preserve", "restore", "verify", "delete", "purge"}
         /\ o.workspace \in Workspace
         /\ o.kind # "purge" => o.checkpoint \in Checkpoint
         /\ o.kind = "restore" => o.target \in Workspace \ {o.workspace}
    /\ \A o, p \in OfKind("preserve") : o.checkpoint = p.checkpoint => o = p
    /\ MaxOperations \in Nat /\ MaxRetained \in Nat

\* A checkpoint is made by a preserve, the operations on it name its workspace, and
\* every restore makes a workspace of its own (the ids are fresh).
ASSUME RequestAssumption ==
    /\ \A c \in Checkpoint : \E p \in OfKind("preserve") : p.checkpoint = c
    /\ \A p \in OfKind("preserve"), o \in Operation \ OfKind("purge") :
         o.checkpoint = p.checkpoint => o.workspace = p.workspace
    /\ \A o, p \in OfKind("restore") : o.target = p.target => o = p

VARIABLES
    mode,      \* "transfer": archives sent to the controller; "snapshot": storage driver
    ws,        \* workspace rows, "absent" before their insertion
    storage,   \* workspace_storage rows
    prov,      \* the workspaces whose provider object exists
    disk,      \* the workspaces whose files a storage driver keeps (mode "snapshot")
    fence,     \* the workspaces with purgeRequestedAt
    ck,        \* workspace_checkpoints rows
    upload,    \* the upload transfer of each checkpoint
    download,  \* the download transfer of each restore
    archive,   \* the archive file, or snapshot, of each checkpoint
    published, \* the checkpoints whose providerRef is set; it never is cleared
    op,        \* workspace_operations rows
    linked     \* the operations whose checkpointId or resultWorkspaceId is saved

rowVars == <<mode, ws, storage, prov, disk, fence, ck, upload, download, archive,
             published, op, linked>>

OperationState == {"none", "pending", "running", "succeeded", "failed"}
CheckpointState == {"none", "creating", "ready", "failed", "deleting", "deleted"}
StorageState == {"none", "ready", "restoring", "snapshotting", "retained", "deleted"}
TransferState == {"none", "granted", "streaming", "publishing", "validated",
                  "complete", "aborted"}
ArchiveState == {"none", "partial", "final"}

Preserve(c) == CHOOSE o \in OfKind("preserve") : o.checkpoint = c
OwnerOf(c) == Preserve(c).workspace
CheckpointsOf(w) == {c \in Checkpoint : OwnerOf(c) = w /\ ck[c] # "none"}
Terminal(w) == ws[w] \in TerminalState
Nonterminal(w) == ws[w] \in WorkspaceState \ TerminalState

--------------------------------------------------------------------------------
(* Operations.                                                             *)

Incomplete == {o \in Operation : op[o] \in {"pending", "running"}}
countIncomplete == Cardinality(Incomplete)

\* Mutant of admitIntent: the fence stops only what runs, not new requests.
IntentUnfenced(o) == op[o] = "none" /\ countIncomplete < MaxOperations

\* The purge fence refuses every other kind, and the bound counts purges too.
admitIntent(o) ==
    /\ op[o] = "none"
    /\ o.workspace \in fence => o.kind = "purge"
    /\ countIncomplete < MaxOperations

\* A purge raises the fence and a deletion claims its checkpoint in the
\* transaction that records them.
insertOperation(o) ==
    /\ admitIntent(o)
    /\ fence' = IF o.kind = "purge" THEN fence \cup {o.workspace} ELSE fence
    /\ ck' = IF o.kind = "delete" THEN [ck EXCEPT ![o.checkpoint] = "deleting"] ELSE ck
    /\ op' = [op EXCEPT ![o] = IF o.kind = "verify" THEN "running" ELSE "pending"]

updateOperation(o, s) == op' = [op EXCEPT ![o] = s]

--------------------------------------------------------------------------------
(* Workspace rows.                                                         *)

Fenced == {"provisioning", "connected", "ready", "preserving", "queued"}

\* transitionWorkspace refuses a row that moved on, an edge the machine does
\* not have, and an active state for a fenced workspace.
MayMove(w, from, to) ==
    /\ ws[w] \in from
    /\ CanTransition(ws[w], to)
    /\ w \in fence => to \notin Fenced

\* The transition, or nothing when it is refused: what a caller sees that
\* ignores the result.
Moved(w, from, to) ==
    IF MayMove(w, from, to) THEN [ws EXCEPT ![w] = to] ELSE ws

updateWorkspaceStorage(w, s) == storage' = [storage EXCEPT ![w] = s]
updateCheckpoint(c, s) == ck' = [ck EXCEPT ![c] = s]

--------------------------------------------------------------------------------
(* Transfers.                                                              *)

checkpointUploadAuthority(o) ==
    /\ o \in Incomplete /\ o \in linked
    /\ ck[o.checkpoint] = "creating"
    /\ ws[o.workspace] = "preserving"
    /\ o.workspace \notin fence

Promised(c) ==
    {d \in Checkpoint \ {c} : upload[d] \in {"granted", "streaming", "publishing"}}
Retained(c) == {d \in Checkpoint \ {c} : ck[d] \in {"ready", "deleting"}}

\* A checkpoint may be deleting while its upload is still promised.
assertCheckpointRetention(c) ==
    Cardinality(Retained(c)) + Cardinality(Promised(c)) + 1 <= MaxRetained

grantUpload(o) ==
    /\ checkpointUploadAuthority(o)
    /\ assertCheckpointRetention(o.checkpoint)
    /\ upload' = [upload EXCEPT ![o.checkpoint] = "granted"]

claimUpload(o) ==
    /\ upload[o.checkpoint] = "granted"
    /\ checkpointUploadAuthority(o)
    /\ upload' = [upload EXCEPT ![o.checkpoint] = "streaming"]

\* The file's identity is recorded once the file exists.
stage(o) ==
    /\ upload[o.checkpoint] = "streaming"
    /\ checkpointUploadAuthority(o)
    /\ upload' = [upload EXCEPT ![o.checkpoint] = "publishing"]

publish(o) ==
    /\ upload[o.checkpoint] = "publishing"
    /\ checkpointUploadAuthority(o)
    /\ assertCheckpointRetention(o.checkpoint)
    /\ upload' = [upload EXCEPT ![o.checkpoint] = "complete"]
    /\ published' = published \cup {o.checkpoint}
    /\ ck' = [ck EXCEPT ![o.checkpoint] = "ready"]

\* Mutant of checkpointDownloadAuthority: the source's purge goes unnoticed.
DownloadAuthorityUnfenced(o) ==
    /\ o \in Incomplete /\ o \in linked
    /\ ck[o.checkpoint] = "ready"
    /\ ws[o.target] = "connected"
    /\ o.target \notin fence
    /\ upload[o.checkpoint] = "complete"

checkpointDownloadAuthority(o) ==
    /\ o \in Incomplete /\ o \in linked
    /\ ck[o.checkpoint] = "ready"
    /\ ws[o.target] = "connected"
    /\ o.target \notin fence /\ o.workspace \notin fence
    /\ upload[o.checkpoint] = "complete"

grantDownload(o) ==
    /\ checkpointDownloadAuthority(o)
    /\ download' = [download EXCEPT ![o] = "granted"]

claimDownload(o) ==
    /\ download[o] = "granted"
    /\ checkpointDownloadAuthority(o)
    /\ download' = [download EXCEPT ![o] = "streaming"]

downloaded(o) ==
    /\ download[o] = "streaming"
    /\ checkpointDownloadAuthority(o)
    /\ download' = [download EXCEPT ![o] = "validated"]

completeCheckpointStorage(w) ==
    storage[w] = "restoring" /\ updateWorkspaceStorage(w, "ready")

\* The supervisor installed the files: the restored storage is ready.
installed(o) ==
    /\ download[o] = "validated"
    /\ checkpointDownloadAuthority(o)
    /\ download' = [download EXCEPT ![o] = "complete"]
    /\ completeCheckpointStorage(o.target)

\* Readiness of a restored workspace and the end of its restore are one
\* transaction, and it asks for the authority again.
completeRestore(o) ==
    /\ download[o] = "complete"
    /\ checkpointDownloadAuthority(o)
    /\ MayMove(o.target, {"connected"}, "ready")
    /\ ws' = [ws EXCEPT ![o.target] = "ready"]
    /\ updateOperation(o, "succeeded")

abortUpload(c) ==
    /\ upload[c] \notin {"complete", "none"}
    /\ upload' = [upload EXCEPT ![c] = "aborted"]

abortDownload(o) ==
    /\ download[o] \notin {"complete", "none"}
    /\ download' = [download EXCEPT ![o] = "aborted"]

\* The archive is unlinked inside the transaction that forgets it.
removePublication(c) ==
    /\ upload[c] = "complete" /\ ck[c] = "deleting"
    /\ archive[c] = "none"
    /\ upload' = [upload EXCEPT ![c] = "aborted"]

listUnsettled == {c \in Checkpoint : upload[c] \notin {"none", "aborted"}}

--------------------------------------------------------------------------------
(* The tasks of the server.                                                *)

CONSTANTS
    MaxFaults,
    MaxRequests   \* the requests made in one behaviour

ASSUME FaultsAssumption == MaxFaults \in Nat /\ MaxRequests \in Nat

None == [o \in Operation |-> "none"]
Nothing == [o \in Operation |-> <<>>]

VARIABLES
    pc,      \* the next step of each operation's task, or idle
    seen,    \* what it read earlier and works with: rows, a reference, its target
    live,    \* the transfer context of a preserve or restore
    cut,     \* the contexts that were aborted
    purged,  \* the workspaces whose new preparations are refused
    proof,   \* the interrupted archives whose removal this process proved
    listed,  \* the incomplete operations the current tick listed, by state
    boot,    \* what startup reconciliation is visiting
    todo,    \* the rows it has still to visit
    faults

memory == <<pc, seen, live, cut, purged, proof, listed, boot, todo>>
vars == <<rowVars, memory, faults>>

Transfer == mode = "transfer"
Up == boot = "up"

Fault == faults < MaxFaults /\ faults' = faults + 1
NoFault == UNCHANGED faults

Step(o, from, to) == pc[o] = from /\ pc' = [pc EXCEPT ![o] = to]
Stop(o) == pc' = [pc EXCEPT ![o] = "idle"]
Forget(o) == seen' = [seen EXCEPT ![o] = <<>>]

Quiet == UNCHANGED <<mode, live, cut, purged, proof, listed, boot, todo>>

Runner == {"attempt", "revoke", "inspect", "source", "prepare", "granted", "upload",
           "published", "released", "snapshot", "saved", "detach", "commit", "finish",
           "failing", "stopped", "retain", "abandon"}
owns(w) == \E o \in OfKind("preserve") : o.workspace = w /\ pc[o] \in Runner

HasStorage(w) == storage[w] \notin {"none", "deleted"}

\* Reading a published archive back finds it whole.
Verifiable(c) == archive[c] = "final" /\ (Transfer => upload[c] = "complete")

--------------------------------------------------------------------------------
(* A preserve request.                                                     *)

preserve(o) ==
    /\ Up /\ o.kind = "preserve" /\ ws[o.workspace] # "absent"
    /\ insertOperation(o)
    /\ Step(o, "idle", "admit")
    /\ Quiet /\ NoFault
    /\ UNCHANGED <<ws, storage, prov, disk, upload, download, archive, published, linked, seen>>

checkpointUsage == Cardinality({c \in Checkpoint : ck[c] \in {"ready", "deleting"}})

assertPreserveAdmission(o) ==
    /\ pc[o] = "admit"
    /\ IF checkpointUsage < MaxRetained /\ storage[o.workspace] = "ready"
       THEN /\ updateCheckpoint(o.checkpoint, "creating")
            /\ pc' = [pc EXCEPT ![o] = "link"]
            /\ UNCHANGED op
       ELSE updateOperation(o, "failed") /\ Stop(o) /\ UNCHANGED ck
    /\ Quiet /\ NoFault
    /\ UNCHANGED <<ws, storage, prov, disk, fence, upload, download, archive, published, linked, seen>>

linkCheckpoint(o) ==
    /\ Step(o, "link", "enter")
    /\ linked' = linked \cup {o}
    /\ Quiet /\ NoFault
    /\ UNCHANGED <<ws, storage, prov, disk, fence, ck, upload, download, archive, published, op, seen>>

\* The row may have moved, or been fenced, since the request began.
enterPreserving(o) ==
    /\ pc[o] = "enter"
    /\ LET w == o.workspace IN
       IF MayMove(w, {"connected", "ready"}, "preserving")
       THEN /\ ws' = [ws EXCEPT ![w] = "preserving"]
            /\ pc' = [pc EXCEPT ![o] = IF owns(w) THEN "idle" ELSE "attempt"]
            /\ UNCHANGED <<ck, op>>
       ELSE /\ updateCheckpoint(o.checkpoint, "failed")
            /\ updateOperation(o, "failed")
            /\ Stop(o) /\ UNCHANGED ws
    /\ Quiet /\ NoFault
    /\ UNCHANGED <<storage, prov, disk, fence, upload, download, archive, published, linked, seen>>

--------------------------------------------------------------------------------
(* The preserve runner.                                                    *)

RowsOf(o) == <<ck[o.checkpoint], ws[o.workspace]>>

\* Every attempt reopens its operation and reads the rows it will work from.
attempt(o) ==
    /\ Step(o, "attempt", "revoke")
    /\ updateOperation(o, "pending")
    /\ seen' = [seen EXCEPT ![o] = RowsOf(o)]
    /\ Quiet /\ NoFault
    /\ UNCHANGED <<ws, storage, prov, disk, fence, ck, upload, download, archive, published, linked>>

revokeLeases(o) ==
    /\ pc[o] = "revoke"
    /\ \/ pc' = [pc EXCEPT ![o] = "inspect"] /\ NoFault /\ UNCHANGED seen
       \/ Stop(o) /\ Fault /\ Forget(o)
    /\ Quiet /\ UNCHANGED <<ws, storage, prov, disk, fence, ck, upload, download, archive,
                            published, op, linked>>

\* The archive was published and the workspace preserved before this attempt began.
AlreadyDone(o) == Transfer /\ seen[o] = <<"ready", "preserved">>

inspect(o) ==
    /\ pc[o] = "inspect"
    /\ LET done == AlreadyDone(o) IN
       \/ /\ done
          /\ op' = IF Verifiable(o.checkpoint) THEN [op EXCEPT ![o] = "succeeded"] ELSE op
          /\ Stop(o) /\ Forget(o) /\ UNCHANGED ck
       \/ /\ ~done /\ ws[o.workspace] # "preserving"
          /\ updateCheckpoint(o.checkpoint, "failed")
          /\ updateOperation(o, "failed")
          /\ Stop(o) /\ Forget(o)
       \/ /\ ~done /\ ws[o.workspace] = "preserving"
          /\ IF HasStorage(o.workspace)
             THEN /\ updateOperation(o, "running")
                  /\ pc' = [pc EXCEPT ![o] = "source"] /\ UNCHANGED seen
             ELSE updateOperation(o, "failed") /\ Stop(o) /\ Forget(o)
          /\ UNCHANGED ck
    /\ Quiet /\ NoFault
    /\ UNCHANGED <<ws, storage, prov, disk, fence, upload, download, archive, published, linked>>

\* A published archive is verified, anything else is captured now.
FromSource(o) ==
    IF seen[o][1] # "ready" THEN "prepare"
    ELSE IF Verifiable(o.checkpoint) THEN "published" ELSE "failing"

runTransferPreserve(o) ==
    /\ Transfer /\ pc[o] = "source"
    /\ updateWorkspaceStorage(o.workspace, "snapshotting")
    /\ pc' = [pc EXCEPT ![o] = FromSource(o)]
    /\ Forget(o) /\ Quiet /\ NoFault
    /\ UNCHANGED <<ws, prov, disk, fence, ck, upload, download, archive, published, op, linked>>

\* The supervisor measures the mounts; the store admits the upload.
prepareArchive(o) ==
    /\ pc[o] = "prepare"
    /\ LET w == o.workspace
           may == w \notin purged /\ w \in prov /\ checkpointUploadAuthority(o)
                  /\ assertCheckpointRetention(o.checkpoint) IN
       \/ grantUpload(o) /\ w \notin purged /\ w \in prov /\ NoFault
          /\ pc' = [pc EXCEPT ![o] = "granted"]
       \/ /\ IF may THEN Fault ELSE NoFault
          /\ pc' = [pc EXCEPT ![o] = "failing"] /\ UNCHANGED upload
    /\ Quiet
    /\ UNCHANGED <<ws, storage, prov, disk, fence, ck, download, archive, published, op, linked, seen>>

\* From here on the transfer is one the recovery of stray rows leaves alone.
openGrant(o) ==
    /\ Step(o, "granted", "upload")
    /\ live' = [live EXCEPT ![o] = "open"]
    /\ NoFault
    /\ UNCHANGED <<rowVars, seen, cut, purged, proof, listed, boot, todo>>

uploadSettled(o) ==
    /\ pc[o] = "upload" /\ live[o] = "no"
    /\ pc' = [pc EXCEPT ![o] = IF ck[o.checkpoint] = "ready" THEN "published" ELSE "failing"]
    /\ NoFault
    /\ UNCHANGED <<rowVars, seen, live, cut, purged, proof, listed, boot, todo>>

cleanupTransferSource(o) ==
    /\ pc[o] = "published"
    /\ \/ /\ prov' = prov \ {o.workspace}
          /\ pc' = [pc EXCEPT ![o] = "released"] /\ NoFault
       \/ pc' = [pc EXCEPT ![o] = "failing"] /\ Fault /\ UNCHANGED prov
    /\ Quiet
    /\ UNCHANGED <<ws, storage, disk, fence, ck, upload, download, archive, published, op, linked, seen>>

sourceDeleted(o) ==
    /\ Step(o, "released", "commit")
    /\ updateWorkspaceStorage(o.workspace, "deleted")
    /\ Quiet /\ NoFault
    /\ UNCHANGED <<ws, prov, disk, fence, ck, upload, download, archive, published, op, linked, seen>>

commitPreserved(o) ==
    /\ Step(o, "commit", "finish")
    /\ ws' = Moved(o.workspace, {"preserving"}, "preserved")
    /\ Quiet /\ NoFault
    /\ UNCHANGED <<storage, prov, disk, fence, ck, upload, download, archive, published, op, linked, seen>>

finishPreserve(o) ==
    /\ Step(o, "finish", "idle")
    /\ updateOperation(o, "succeeded")
    /\ Quiet /\ NoFault
    /\ UNCHANGED <<ws, storage, prov, disk, fence, ck, upload, download, archive, published, linked, seen>>

\* A storage driver copies the files of a provider that was stopped.
stopForSnapshot(o) ==
    /\ ~Transfer /\ pc[o] = "source"
    /\ \/ pc' = [pc EXCEPT ![o] = "snapshot"] /\ NoFault
       \/ pc' = [pc EXCEPT ![o] = "failing"] /\ Fault
    /\ Forget(o) /\ Quiet
    /\ UNCHANGED <<ws, storage, prov, disk, fence, ck, upload, download, archive, published,
                   op, linked>>

createSnapshot(o) ==
    /\ pc[o] = "snapshot"
    /\ updateWorkspaceStorage(o.workspace, "snapshotting")
    /\ \/ /\ o.workspace \in disk
          /\ archive' = [archive EXCEPT ![o.checkpoint] = "final"]
          /\ pc' = [pc EXCEPT ![o] = "saved"] /\ NoFault
       \/ /\ IF o.workspace \in disk THEN Fault ELSE NoFault
          /\ pc' = [pc EXCEPT ![o] = "stopped"] /\ UNCHANGED archive
    /\ Quiet
    /\ UNCHANGED <<ws, prov, disk, fence, ck, upload, download, published, op, linked, seen>>

completePreserve(o) ==
    /\ Step(o, "saved", "detach")
    /\ updateCheckpoint(o.checkpoint, "ready")
    /\ published' = published \cup {o.checkpoint}
    /\ updateWorkspaceStorage(o.workspace, "retained")
    /\ Quiet /\ NoFault
    /\ UNCHANGED <<ws, prov, disk, fence, upload, download, archive, op, linked, seen>>

detachSource(o) ==
    /\ pc[o] = "detach"
    /\ \/ /\ prov' = prov \ {o.workspace}
          /\ pc' = [pc EXCEPT ![o] = "commit"] /\ NoFault
       \/ pc' = [pc EXCEPT ![o] = "stopped"] /\ Fault /\ UNCHANGED prov
    /\ Quiet
    /\ UNCHANGED <<ws, storage, disk, fence, ck, upload, download, archive, published, op, linked, seen>>

\* What failed decides what is left: without a published archive the source is
\* retained for its owner, with one the source goes and the checkpoint stays.
handlePreserveFailure(o) ==
    /\ pc[o] \in {"failing", "stopped"}
    /\ LET w == o.workspace
           c == o.checkpoint IN
       \/ /\ Transfer /\ ck[c] # "ready"
          /\ pc' = [pc EXCEPT ![o] = "retain"]
          /\ UNCHANGED <<ws, storage, prov, ck, op>>
       \/ /\ Transfer /\ ck[c] = "ready"
          /\ IF Verifiable(c)
             THEN /\ prov' = prov \ {w}
                  /\ updateWorkspaceStorage(w, "deleted")
                  /\ pc' = [pc EXCEPT ![o] = "abandon"]
             ELSE Stop(o) /\ UNCHANGED <<prov, storage>>
          /\ UNCHANGED <<ws, ck, op>>
       \/ /\ ~Transfer
          /\ updateCheckpoint(c, "failed")
          /\ updateWorkspaceStorage(w, IF pc[o] = "stopped" THEN "retained" ELSE "ready")
          /\ prov' \in IF pc[o] = "stopped" THEN {prov, prov \ {w}} ELSE {prov}
          /\ ws' = Moved(w, {"preserving"}, "failed")
          /\ updateOperation(o, "failed")
          /\ Stop(o)
    /\ Quiet /\ NoFault
    /\ UNCHANGED <<disk, fence, upload, download, archive, published, linked, seen>>

\* A recovery looks for the storage again; the runner uses the row it has.
retainUnpublishedSource(o) ==
    /\ pc[o] \in {"retain", "recover"}
    /\ \/ /\ storage' = IF pc[o] = "retain" \/ HasStorage(o.workspace)
                          THEN [storage EXCEPT ![o.workspace] = "retained"] ELSE storage
          /\ updateCheckpoint(o.checkpoint, "failed")
          /\ updateOperation(o, "failed") /\ NoFault
       \/ Fault /\ UNCHANGED <<storage, ck, op>>
    /\ Stop(o)
    /\ Quiet
    /\ UNCHANGED <<ws, prov, disk, fence, upload, download, archive, published, linked, seen>>

abandonSource(o) ==
    /\ Step(o, "abandon", "idle")
    /\ ws' = Moved(o.workspace, {"preserving"}, "failed")
    /\ updateOperation(o, "failed")
    /\ Quiet /\ NoFault
    /\ UNCHANGED <<storage, prov, disk, fence, ck, upload, download, archive, published, linked, seen>>

--------------------------------------------------------------------------------
(* The upload's HTTP request and the download's, and how a transfer ends.  *)

Context == UNCHANGED <<pc, seen, purged, proof, listed, boot, todo>>

claim(o) ==
    /\ live[o] = "open" /\ o \notin cut
    /\ \/ o.kind = "preserve" /\ claimUpload(o) /\ UNCHANGED download
       \/ o.kind = "restore" /\ claimDownload(o) /\ UNCHANGED upload
    /\ live' = [live EXCEPT ![o] = "busy"]
    /\ Context /\ NoFault
    /\ UNCHANGED <<mode, ws, storage, prov, disk, fence, ck, archive, published, op, linked, cut>>

\* The archive is spooled, checked, and its publication file created.
createArchive(o) ==
    /\ live[o] = "busy" /\ o.kind = "preserve" /\ o \notin cut
    /\ upload[o.checkpoint] = "streaming" /\ checkpointUploadAuthority(o)
    /\ archive[o.checkpoint] = "none"
    /\ archive' = [archive EXCEPT ![o.checkpoint] = "partial"]
    /\ Context /\ NoFault
    /\ UNCHANGED <<mode, ws, storage, prov, disk, fence, ck, upload, download, published, op,
                   linked, live, cut>>

stageArchive(o) ==
    /\ live[o] = "busy" /\ o.kind = "preserve" /\ o \notin cut
    /\ archive[o.checkpoint] = "partial" /\ stage(o)
    /\ Context /\ NoFault
    /\ UNCHANGED <<mode, ws, storage, prov, disk, fence, ck, download, archive, published, op,
                   linked, live, cut>>

\* Written, synced, read back, and renamed to its final name.
sealArchive(o) ==
    /\ live[o] = "busy" /\ o.kind = "preserve" /\ o \notin cut
    /\ upload[o.checkpoint] = "publishing" /\ checkpointUploadAuthority(o)
    /\ archive[o.checkpoint] = "partial"
    /\ archive' = [archive EXCEPT ![o.checkpoint] = "final"]
    /\ Context /\ NoFault
    /\ UNCHANGED <<mode, ws, storage, prov, disk, fence, ck, upload, download, published, op,
                   linked, live, cut>>

\* Mutant of publishArchive: the commit does not wait for the sealed file.
PublishUnsealed(o) ==
    /\ live[o] = "busy" /\ o.kind = "preserve" /\ o \notin cut
    /\ publish(o)
    /\ live' = [live EXCEPT ![o] = "no"]
    /\ Context /\ NoFault
    /\ UNCHANGED <<mode, ws, storage, prov, disk, fence, download, archive, op, linked, cut>>

publishArchive(o) ==
    /\ live[o] = "busy" /\ o.kind = "preserve" /\ o \notin cut
    /\ archive[o.checkpoint] = "final" /\ publish(o)
    /\ live' = [live EXCEPT ![o] = "no"]
    /\ Context /\ NoFault
    /\ UNCHANGED <<mode, ws, storage, prov, disk, fence, download, archive, op, linked, cut>>

validateCheckpointTransfer(o) ==
    IF o.kind = "preserve" THEN checkpointUploadAuthority(o) ELSE checkpointDownloadAuthority(o)

\* A context ends by an abort, a lost authority, or a fault of its own.
Doomed(o) == o \in cut \/ ~validateCheckpointTransfer(o)

closeUploadOwners(o) ==
    /\ live[o] = "busy" /\ o.kind = "preserve"
    /\ IF Doomed(o) \/ ~assertCheckpointRetention(o.checkpoint) THEN NoFault ELSE Fault
    /\ archive' = [archive EXCEPT ![o.checkpoint] = "none"]
    /\ live' = [live EXCEPT ![o] = "stopped"]
    /\ Context
    /\ UNCHANGED <<mode, ws, storage, prov, disk, fence, ck, upload, download, published, op,
                   linked, cut>>

\* The owned files are gone; now the row may say so.
cleanup(o) ==
    /\ \/ live[o] = "stopped" /\ NoFault
       \/ /\ live[o] = "open" \/ (live[o] = "busy" /\ o.kind = "restore")
          /\ IF Doomed(o) THEN NoFault ELSE Fault
    /\ IF o.kind = "preserve"
       THEN abortUpload(o.checkpoint) /\ UNCHANGED download
       ELSE abortDownload(o) /\ UNCHANGED upload
    /\ live' = [live EXCEPT ![o] = "no"]
    /\ cut' = cut \ {o}
    /\ Context
    /\ UNCHANGED <<mode, ws, storage, prov, disk, fence, ck, archive, published, op, linked>>

restoreGrant(o) ==
    /\ Up /\ Transfer /\ o.kind = "restore" /\ live[o] = "no" /\ download[o] = "none"
    /\ o.target \in prov /\ grantDownload(o)
    /\ live' = [live EXCEPT ![o] = "open"]
    /\ Context /\ NoFault
    /\ UNCHANGED <<mode, ws, storage, prov, disk, fence, ck, upload, archive, published, op,
                   linked, cut>>

downloadArchive(o) ==
    /\ live[o] = "busy" /\ o.kind = "restore" /\ o \notin cut
    /\ archive[o.checkpoint] = "final" /\ downloaded(o)
    /\ Context /\ NoFault
    /\ UNCHANGED <<mode, ws, storage, prov, disk, fence, ck, upload, archive, published, op,
                   linked, live, cut>>

checkpointInstalled(o) ==
    /\ live[o] = "busy" /\ o.kind = "restore" /\ o \notin cut
    /\ installed(o)
    /\ live' = [live EXCEPT ![o] = "no"]
    /\ Context /\ NoFault
    /\ UNCHANGED <<mode, ws, prov, disk, fence, ck, upload, archive, published, op, linked, cut>>

restoreReady(o) ==
    /\ Up /\ o.kind = "restore" /\ o.target \in prov /\ completeRestore(o)
    /\ Context /\ NoFault
    /\ UNCHANGED <<mode, storage, prov, disk, fence, ck, upload, download, archive, published,
                   linked, live, cut>>

--------------------------------------------------------------------------------
(* Restore and verify requests.                                            *)

restore(o) ==
    /\ Up /\ o.kind = "restore" /\ op[o] = "none" /\ ck[o.checkpoint] = "ready"
    /\ Step(o, "idle", "insert")
    /\ Quiet /\ NoFault
    /\ UNCHANGED <<ws, storage, prov, disk, fence, ck, upload, download, archive, published, op,
                   linked, seen>>

\* A refused insertion is an error to the caller and changes nothing.
insertRestore(o) ==
    /\ o.kind = "restore" /\ pc[o] = "insert"
    /\ \/ insertOperation(o) /\ pc' = [pc EXCEPT ![o] = "target"]
       \/ ~admitIntent(o) /\ Stop(o) /\ UNCHANGED <<op, fence, ck>>
    /\ Quiet /\ NoFault
    /\ UNCHANGED <<ws, storage, prov, disk, upload, download, archive, published, linked, seen>>

insertTarget(o) ==
    /\ pc[o] = "target"
    /\ \/ /\ ws' = [ws EXCEPT ![o.target] = "queued"]
          /\ pc' = [pc EXCEPT ![o] = "linkTarget"] /\ NoFault /\ UNCHANGED op
       \/ updateOperation(o, "failed") /\ Stop(o) /\ Fault /\ UNCHANGED ws
    /\ Quiet
    /\ UNCHANGED <<storage, prov, disk, fence, ck, upload, download, archive, published, linked, seen>>

linkTarget(o) ==
    /\ Step(o, "linkTarget", "idle")
    /\ linked' = linked \cup {o}
    /\ Quiet /\ NoFault
    /\ UNCHANGED <<ws, storage, prov, disk, fence, ck, upload, download, archive, published, op, seen>>

verify(o) ==
    /\ Up /\ o.kind = "verify" /\ op[o] = "none" /\ ck[o.checkpoint] = "ready"
    /\ Step(o, "idle", "insert")
    /\ Quiet /\ NoFault
    /\ UNCHANGED <<ws, storage, prov, disk, fence, ck, upload, download, archive, published, op,
                   linked, seen>>

insertVerify(o) ==
    /\ o.kind = "verify" /\ pc[o] = "insert"
    /\ \/ insertOperation(o) /\ pc' = [pc EXCEPT ![o] = "verifying"]
       \/ ~admitIntent(o) /\ Stop(o) /\ UNCHANGED <<op, fence, ck>>
    /\ Quiet /\ NoFault
    /\ UNCHANGED <<ws, storage, prov, disk, upload, download, archive, published, linked, seen>>

finishVerify(o) ==
    /\ pc[o] = "verifying"
    /\ IF Verifiable(o.checkpoint)
       THEN updateOperation(o, "succeeded") /\ UNCHANGED ck
       ELSE updateOperation(o, "failed") /\ updateCheckpoint(o.checkpoint, "failed")
    /\ Stop(o)
    /\ Quiet /\ NoFault
    /\ UNCHANGED <<ws, storage, prov, disk, fence, upload, download, archive, published, linked, seen>>

--------------------------------------------------------------------------------
(* Deleting a checkpoint.                                                  *)

Reference == <<"ref">>

\* The row is read, with its reference, before the intent is recorded.
delete(o) ==
    /\ Up /\ o.kind = "delete" /\ op[o] = "none" /\ ck[o.checkpoint] # "none"
    /\ ~ \E r \in OfKind("restore") \cap Incomplete : r.checkpoint = o.checkpoint
    /\ Step(o, "idle", "insert")
    /\ seen' = [seen EXCEPT ![o] = IF o.checkpoint \in published THEN Reference ELSE <<>>]
    /\ Quiet /\ NoFault
    /\ UNCHANGED <<ws, storage, prov, disk, fence, ck, upload, download, archive, published, op, linked>>

insertDelete(o) ==
    /\ o.kind = "delete" /\ pc[o] = "insert"
    /\ \/ insertOperation(o) /\ pc' = [pc EXCEPT ![o] = "acknowledge"] /\ UNCHANGED seen
       \/ ~admitIntent(o) /\ Stop(o) /\ Forget(o) /\ UNCHANGED <<op, fence, ck>>
    /\ Quiet /\ NoFault
    /\ UNCHANGED <<ws, storage, prov, disk, upload, download, archive, published, linked>>

\* The journal has to hold the intent before anything is removed.
acknowledgeDelete(o) ==
    /\ pc[o] = "acknowledge"
    /\ \/ /\ updateOperation(o, "running")
          /\ updateCheckpoint(o.checkpoint, "deleting")
          /\ pc' = [pc EXCEPT ![o] = IF seen[o] = Reference THEN "remove" ELSE "removed"] /\ NoFault
       \/ Stop(o) /\ Fault /\ UNCHANGED <<op, ck>>
    /\ Forget(o) /\ Quiet
    /\ UNCHANGED <<ws, storage, prov, disk, fence, upload, download, archive, published, linked>>

Holding(c) == {o \in Operation \ OfKind("purge") : o.checkpoint = c /\ live[o] # "no"}

\* The archive's transfers are aborted first, then the file is unlinked under
\* the transaction that forgets it (removed once that commits).  An archive
\* that is not there, or a row that is not complete, is an error.
removeArchive(o, c, unlinked, failed) ==
    \/ /\ Transfer /\ Holding(c) \ cut # {} /\ upload[c] = "complete"
       /\ cut' = cut \cup Holding(c)
       /\ UNCHANGED <<pc, archive, op>>
    \/ /\ Holding(c) = {} /\ Verifiable(c)
       /\ archive' = [archive EXCEPT ![c] = "none"]
       /\ pc' = [pc EXCEPT ![o] = unlinked]
       /\ UNCHANGED <<cut, op>>
    \/ /\ Transfer => upload[c] # "complete" \/ (Holding(c) = {} /\ ~Verifiable(c))
       /\ ~Transfer => archive[c] = "none"
       /\ op' = [op EXCEPT ![o] = failed]
       /\ Stop(o) /\ UNCHANGED <<cut, archive>>

deleteArchive(o) ==
    /\ pc[o] = "remove"
    /\ removeArchive(o, o.checkpoint, "unlinked", "failed")
    /\ NoFault
    /\ UNCHANGED <<mode, ws, storage, prov, disk, fence, ck, upload, download, published, linked,
                   seen, live, purged, proof, listed, boot, todo>>

commitRemoval(o) ==
    /\ o.kind = "delete" /\ pc[o] = "unlinked"
    /\ IF ~Transfer
       THEN pc' = [pc EXCEPT ![o] = "removed"] /\ UNCHANGED <<upload, op>>
       ELSE \/ /\ removePublication(o.checkpoint)
               /\ pc' = [pc EXCEPT ![o] = "removed"] /\ UNCHANGED op
            \/ /\ ck[o.checkpoint] # "deleting"
               /\ updateOperation(o, "failed") /\ Stop(o) /\ UNCHANGED upload
    /\ Quiet /\ NoFault
    /\ UNCHANGED <<ws, storage, prov, disk, fence, ck, download, archive, published, linked, seen>>

finishDelete(o) ==
    /\ Step(o, "removed", "sweep")
    /\ updateCheckpoint(o.checkpoint, "deleted")
    /\ updateOperation(o, "succeeded")
    /\ Quiet /\ NoFault
    /\ UNCHANGED <<ws, storage, prov, disk, fence, upload, download, archive, published, linked, seen>>

\* The last checkpoint of a preserved workspace takes the retained files along.
cleanupPreservedStorage(o) ==
    /\ Step(o, "sweep", "idle")
    /\ LET w == o.workspace IN
       IF /\ ~Transfer /\ storage[w] = "retained" /\ ws[w] = "preserved"
          /\ \A c \in CheckpointsOf(w) : ck[c] = "deleted"
          /\ \A p \in Incomplete : p.workspace # w /\ p.target # w
          /\ w \notin prov
       THEN updateWorkspaceStorage(w, "deleted") /\ disk' = disk \ {w}
       ELSE UNCHANGED <<storage, disk>>
    /\ Quiet /\ NoFault
    /\ UNCHANGED <<ws, prov, fence, ck, upload, download, archive, published, op, linked, seen>>

--------------------------------------------------------------------------------
(* Purge.                                                                  *)

ContextWorkspace(o) == IF o.kind = "restore" THEN o.target ELSE o.workspace
CopiesOf(w) ==
    {o \in OfKind("preserve") \cup OfKind("restore") :
        live[o] # "no" /\ (o.checkpoint \in CheckpointsOf(w) \/ ContextWorkspace(o) = w)}

Purges(w) == {o \in OfKind("purge") : o.workspace = w}

\* One task runs for a workspace; a request that finds one waits for a tick.
purge(o) ==
    /\ Up /\ o.kind = "purge" /\ ws[o.workspace] # "absent"
    /\ insertOperation(o)
    /\ pc' = IF \A p \in Purges(o.workspace) : pc[p] = "idle"
             THEN [pc EXCEPT ![o] = "drain"] ELSE pc
    /\ Quiet /\ NoFault
    /\ UNCHANGED <<ws, storage, prov, disk, upload, download, archive, published, linked, seen>>

\* Whatever goes wrong, the operation waits for the next tick.
PurgeFails(o) == updateOperation(o, "pending") /\ Stop(o)

acknowledgePurge(o) ==
    /\ pc[o] = "drain"
    /\ \/ updateOperation(o, "running") /\ pc' = [pc EXCEPT ![o] = "cancel"] /\ NoFault
       \/ PurgeFails(o) /\ Fault
    /\ Quiet
    /\ UNCHANGED <<ws, storage, prov, disk, fence, ck, upload, download, archive, published, linked, seen>>

cancelCopies(o) ==
    /\ Step(o, "cancel", "settle")
    /\ purged' = IF Transfer THEN purged \cup {o.workspace} ELSE purged
    /\ cut' = IF Transfer THEN cut \cup CopiesOf(o.workspace) ELSE cut
    /\ NoFault
    /\ UNCHANGED <<rowVars, seen, live, proof, listed, boot, todo>>

copiesSettled(o) ==
    /\ Step(o, "settle", "copies")
    /\ Transfer => CopiesOf(o.workspace) = {} /\ ~owns(o.workspace)
    /\ Quiet /\ NoFault
    /\ UNCHANGED <<ws, storage, prov, disk, fence, ck, upload, download, archive, published,
                   op, linked, seen>>

\* The restores whose end this purge brings about or waits for.
Ends(w, r) == r.target = w \/ r.workspace = w
Spared(w, r) == Transfer /\ r.target = w /\ Nonterminal(w) /\ ws[w] # "queued"
Settles(w, r) ==
    /\ r \in linked /\ ~Spared(w, r)
    /\ Terminal(r.target) \/ (r.target = w /\ ws[w] = "queued")

settleRestore(o, r) ==
    /\ pc[o] = "copies" /\ r \in OfKind("restore") \cap Incomplete
    /\ Settles(o.workspace, r)
    /\ updateOperation(r, "failed")
    /\ Quiet /\ NoFault
    /\ UNCHANGED <<ws, storage, prov, disk, fence, ck, upload, download, archive, published,
                   linked, pc, seen>>

\* A live destination is told to end; for a queued one the code asks for the
\* edge queued to failed, which the state machine does not have.
Endable(w, r) ==
    /\ Transfer /\ r \in linked /\ r.workspace = w
    /\ \/ MayMove(r.target, {"queued"}, "failed")
       \/ ws[r.target] \in {"connected", "ready", "preserving"}

endRestore(o, r) ==
    /\ pc[o] = "copies" /\ r \in OfKind("restore") \cap Incomplete
    /\ Endable(o.workspace, r)
    /\ ws' = [ws EXCEPT ![r.target] = IF @ = "queued" THEN "failed" ELSE "terminating"]
    /\ Quiet /\ NoFault
    /\ UNCHANGED <<storage, prov, disk, fence, ck, upload, download, archive, published, op,
                   linked, pc, seen>>

hasActiveCopies(o) ==
    /\ pc[o] = "copies"
    /\ LET w == o.workspace
           busy == {p \in Incomplete \ OfKind("purge") :
                       Ends(w, p) /\ ~(p.kind = "restore" /\ Spared(w, p))} IN
       /\ \A r \in busy \cap OfKind("restore") : ~Settles(w, r) /\ ~Endable(w, r)
       /\ IF busy = {} THEN pc' = [pc EXCEPT ![o] = "end"] /\ UNCHANGED op
                       ELSE PurgeFails(o)
    /\ Quiet /\ NoFault
    /\ UNCHANGED <<ws, storage, prov, disk, fence, ck, upload, download, archive, published,
                   linked, seen>>

\* A queued row is canceled here, any other live one through the scheduler.
endWorkspace(o) ==
    /\ pc[o] = "end"
    /\ LET w == o.workspace IN
       \/ /\ Terminal(w) /\ pc' = [pc EXCEPT ![o] = "provider"]
          /\ UNCHANGED <<ws, op>>
       \/ /\ ws[w] = "queued" /\ ws' = [ws EXCEPT ![w] = "canceled"]
          /\ pc' = [pc EXCEPT ![o] = "provider"] /\ UNCHANGED op
       \/ /\ Nonterminal(w) /\ ws[w] \notin {"queued", "terminating"}
          /\ ws' = [ws EXCEPT ![w] = "terminating"] /\ UNCHANGED <<pc, op>>
       \/ ws[w] = "terminating" /\ PurgeFails(o) /\ UNCHANGED ws
    /\ Quiet /\ NoFault
    /\ UNCHANGED <<storage, prov, disk, fence, ck, upload, download, archive, published, linked, seen>>

removeProvider(o) ==
    /\ pc[o] = "provider"
    /\ \/ /\ prov' = prov \ {o.workspace}
          /\ pc' = [pc EXCEPT ![o] = "storage"] /\ NoFault /\ UNCHANGED op
       \/ PurgeFails(o) /\ Fault /\ UNCHANGED prov
    /\ Quiet
    /\ UNCHANGED <<ws, storage, disk, fence, ck, upload, download, archive, published, linked, seen>>

\* An archive file that no transfer row names keeps every purge waiting.
Unknown(c) == archive[c] = "partial" \/ (archive[c] = "final" /\ upload[c] \in {"none", "aborted"})

PurgeTarget(c) == c \in published /\ ck[c] # "deleted"

purgeCheckpoint(o, c) ==
    /\ pc[o] = "storage" /\ c \in CheckpointsOf(o.workspace) /\ PurgeTarget(c)
    /\ Transfer => \A d \in Checkpoint : ~Unknown(d)
    /\ ck' = IF Transfer THEN [ck EXCEPT ![c] = "deleting"] ELSE ck
    /\ seen' = [seen EXCEPT ![o] = <<c>>]
    /\ IF ~Transfer /\ archive[c] = "none"
       THEN pc' = [pc EXCEPT ![o] = "forget"] /\ UNCHANGED <<cut, archive, op>>
       ELSE removeArchive(o, c, "forget", "pending")
    /\ NoFault
    /\ UNCHANGED <<mode, ws, storage, prov, disk, fence, upload, download, published, linked,
                   live, purged, proof, listed, boot, todo>>

forgetCheckpoint(o) ==
    /\ pc[o] = "forget"
    /\ LET c == seen[o][1] IN
       \/ /\ IF Transfer THEN removePublication(c) ELSE UNCHANGED upload
          /\ updateCheckpoint(c, "deleted")
          /\ pc' = [pc EXCEPT ![o] = "storage"] /\ UNCHANGED op
       \/ /\ Transfer /\ ck[c] # "deleting"
          /\ PurgeFails(o) /\ UNCHANGED <<upload, ck>>
    /\ Forget(o) /\ Quiet /\ NoFault
    /\ UNCHANGED <<ws, storage, prov, disk, fence, download, archive, published, linked>>

purgeStorage(o) ==
    /\ pc[o] = "storage"
    /\ LET w == o.workspace
           mine == CheckpointsOf(w) IN
       IF Transfer /\ \E c \in Checkpoint : Unknown(c)
       THEN PurgeFails(o) /\ UNCHANGED <<ck, storage, archive, disk>>
       ELSE /\ \A c \in mine : ~PurgeTarget(c)
            /\ ck' = [c \in Checkpoint |-> IF c \in mine THEN "deleted" ELSE ck[c]]
            /\ archive' = IF Transfer THEN archive
                          ELSE [c \in Checkpoint |-> IF c \in mine THEN "none" ELSE archive[c]]
            /\ storage' = [storage EXCEPT ![w] = IF @ = "none" THEN @ ELSE "deleted"]
            /\ disk' = disk \ {w}
            /\ pc' = [pc EXCEPT ![o] = "content"] /\ UNCHANGED op
    /\ Quiet /\ NoFault
    /\ UNCHANGED <<ws, prov, fence, upload, download, published, linked, seen>>

purgeWorkspaceContent(o) ==
    /\ pc[o] = "content" /\ o.workspace \in fence
    /\ updateOperation(o, "succeeded") /\ Stop(o)
    /\ Quiet /\ NoFault
    /\ UNCHANGED <<ws, storage, prov, disk, fence, ck, upload, download, archive, published, linked, seen>>

--------------------------------------------------------------------------------
(* What the scheduler does to the workspaces meanwhile (module Lifecycle). *)

Elsewhere == UNCHANGED <<mode, fence, ck, upload, archive, published, linked, pc, seen,
                         purged, proof, listed, boot, todo>>

\* A restored workspace launches: its storage is cloned by the driver, or is
\* filled by the download that follows.
launch(o) ==
    /\ Up /\ o.kind = "restore" /\ ws[o.target] = "queued" /\ o.target \notin fence
    /\ LET w == o.target
           clones == ck[o.checkpoint] = "ready" /\ archive[o.checkpoint] = "final" IN
       \/ /\ Transfer \/ (clones /\ o \in linked)
          /\ ws' = [ws EXCEPT ![w] = "connected"]
          /\ prov' = prov \cup {w}
          /\ disk' = IF Transfer THEN disk ELSE disk \cup {w}
          /\ updateWorkspaceStorage(w, IF Transfer THEN "restoring" ELSE "ready")
          /\ op' = IF ~Transfer /\ o \in Incomplete THEN [op EXCEPT ![o] = "succeeded"] ELSE op
       \/ /\ ~Transfer /\ ~clones
          /\ ws' = [ws EXCEPT ![w] = "failed"]
          /\ updateWorkspaceStorage(w, "deleted")
          /\ op' = IF o \in Incomplete /\ o \in linked THEN [op EXCEPT ![o] = "failed"] ELSE op
          /\ UNCHANGED <<prov, disk>>
    /\ Elsewhere /\ NoFault /\ UNCHANGED <<download, live, cut>>

beginTermination(w) ==
    /\ Up /\ ws[w] \in {"connected", "ready", "preserving"}
    /\ ws' = [ws EXCEPT ![w] = "terminating"]
    /\ Elsewhere /\ Fault /\ UNCHANGED <<storage, prov, disk, download, op, live, cut>>

\* Retained files of a failed preserve are kept for a while, then the workspace ends.
sweepPreserving(w) ==
    /\ Up /\ ws[w] = "preserving" /\ storage[w] = "retained"
    /\ ~ \E o \in OfKind("preserve") \cap Incomplete : o.workspace = w
    /\ ws' = [ws EXCEPT ![w] = "terminating"]
    /\ Elsewhere /\ NoFault /\ UNCHANGED <<storage, prov, disk, download, op, live, cut>>

OwnContexts(w) == {o \in OfKind("preserve") \cup OfKind("restore") :
                      live[o] # "no" /\ ContextWorkspace(o) = w}

cutTransfers(w) ==
    /\ ws[w] = "terminating" /\ OwnContexts(w) \ cut # {}
    /\ cut' = cut \cup OwnContexts(w)
    /\ Elsewhere /\ NoFault /\ UNCHANGED <<ws, storage, prov, disk, download, op, live>>

finalize(w) ==
    /\ Up /\ ws[w] = "terminating"
    /\ OwnContexts(w) = {}
    /\ ws' = [ws EXCEPT ![w] = "canceled"]
    /\ prov' = prov \ {w}
    /\ IF ~Transfer /\ storage[w] = "retained"
       THEN UNCHANGED <<storage, disk>>
       ELSE updateWorkspaceStorage(w, "deleted") /\ disk' = disk \ {w}
    /\ op' = [o \in Operation |->
                IF Transfer /\ o.kind = "restore" /\ o.target = w /\ o \in linked \cap Incomplete
                THEN "failed" ELSE op[o]]
    /\ Elsewhere /\ NoFault /\ UNCHANGED <<download, live, cut>>

\* A destination whose grant is refused, or whose transfer ended, fails its setup.
bootstrapFails(o) ==
    /\ Up /\ Transfer /\ o.kind = "restore" /\ ws[o.target] = "connected" /\ live[o] = "no"
    /\ download[o] = "aborted" \/ ~checkpointDownloadAuthority(o)
    /\ ws' = [ws EXCEPT ![o.target] = "terminating"]
    /\ Elsewhere /\ NoFault /\ UNCHANGED <<storage, prov, disk, download, op, live, cut>>

\* A workspace cloned by a storage driver becomes ready like any other.
becomesReady(o) ==
    /\ Up /\ ~Transfer /\ o.kind = "restore"
    /\ MayMove(o.target, {"connected"}, "ready")
    /\ ws' = [ws EXCEPT ![o.target] = "ready"]
    /\ Elsewhere /\ NoFault /\ UNCHANGED <<storage, prov, disk, download, op, live, cut>>

--------------------------------------------------------------------------------
(* The coordinator's tick.                                                 *)

Ticking == UNCHANGED <<mode, fence, published, linked, live, cut, purged, boot>>

\* It lists the interrupted preserves, then the waiting ones, and acts on each list,
\* one operation after the other.
Listing(state) ==
    /\ Up /\ listed = None
    /\ \E o \in OfKind("preserve") : op[o] = state
    /\ listed' = [o \in Operation |->
                    IF o.kind = "preserve" /\ op[o] = state THEN state ELSE "none"]
    /\ NoFault /\ UNCHANGED <<rowVars, pc, seen, live, cut, purged, proof, boot, todo>>

listRunning == Listing("running")
listPending == Listing("pending")

retryPreserve(o) ==
    /\ Up /\ o.kind = "preserve" /\ listed[o] = "pending"
    /\ listed' = [listed EXCEPT ![o] = "none"]
    /\ LET w == o.workspace
           mine == o \in linked /\ (ws[w] \in {"preserving", "terminating"} \/ Terminal(w)) IN
       pc' = IF mine /\ ~owns(w) /\ pc[o] = "idle" THEN [pc EXCEPT ![o] = "attempt"] ELSE pc
    /\ NoFault /\ UNCHANGED <<rowVars, seen, live, cut, purged, proof, boot, todo>>

\* An interrupted preserve goes on if its archive was published, else it failed.
recoverPreserve(o) ==
    /\ LET c == o.checkpoint IN
       \/ /\ upload[c] \notin {"none", "aborted", "complete"}
          /\ UNCHANGED <<pc, op>>
       \/ /\ upload[c] \in {"none", "aborted", "complete"} /\ ck[c] = "ready"
          /\ updateOperation(o, "pending") /\ pc' = [pc EXCEPT ![o] = "attempt"]
       \/ /\ upload[c] \in {"none", "aborted", "complete"} /\ ck[c] # "ready"
          /\ pc' = [pc EXCEPT ![o] = "recover"] /\ UNCHANGED op

recoverRunning(o) ==
    /\ Up /\ o.kind = "preserve" /\ listed[o] = "running"
    /\ listed' = [listed EXCEPT ![o] = "none"]
    /\ IF Transfer /\ o \in linked /\ ~owns(o.workspace)
       THEN recoverPreserve(o) ELSE UNCHANGED <<pc, op>>
    /\ Ticking /\ NoFault
    /\ UNCHANGED <<ws, storage, prov, disk, ck, upload, download, archive, seen, proof, todo>>

\* The purges it finds are started at once.
retryPurge(o) ==
    /\ Up /\ o.kind = "purge" /\ o \in Incomplete
    /\ \A p \in Purges(o.workspace) : pc[p] = "idle"
    /\ pc' = [pc EXCEPT ![o] = "drain"]
    /\ NoFault /\ UNCHANGED <<rowVars, seen, live, cut, purged, proof, listed, boot, todo>>

\* A transfer row that no context of this process holds.
Stray(c) ==
    /\ upload[c] \notin {"none", "aborted", "complete"} /\ live[Preserve(c)] = "no"
    /\ Up \/ (boot = "rows" /\ c \in todo)

\* Only a recorded inode may be unlinked.
removeInterrupted(c) ==
    /\ Stray(c) /\ upload[c] = "publishing" /\ archive[c] # "none"
    /\ archive' = [archive EXCEPT ![c] = "none"]
    /\ proof' = proof \cup {c}
    /\ NoFault /\ UNCHANGED <<mode, ws, storage, prov, disk, fence, ck, upload, download, published,
                              op, linked, pc, seen, live, cut, purged, listed, boot, todo>>

\* The row ends once nothing it names is left: a recorded inode needs the proof
\* of this very removal, an unrecorded one must never have had a file.
settleUpload(c) ==
    /\ Stray(c) /\ archive[c] = "none"
    /\ upload[c] = "publishing" => c \in proof
    /\ abortUpload(c)
    /\ todo' = todo \ {c}
    /\ NoFault /\ UNCHANGED <<mode, ws, storage, prov, disk, fence, ck, download, archive, published,
                              op, linked, pc, seen, live, cut, purged, proof, listed, boot>>

settleDownload(o) ==
    /\ Up \/ boot = "rows"
    /\ o.kind = "restore" /\ live[o] = "no" /\ download[o] \notin {"none", "aborted", "complete"}
    /\ abortDownload(o)
    /\ NoFault /\ UNCHANGED <<mode, ws, storage, prov, disk, fence, ck, upload, archive, published,
                              op, linked, pc, seen, live, cut, purged, proof, listed, boot, todo>>

--------------------------------------------------------------------------------
(* A crash, and the startup that follows.                                  *)

crash ==
    /\ Up /\ Fault
    /\ pc' = [o \in Operation |-> "idle"] /\ seen' = Nothing
    /\ live' = [o \in Operation |-> "no"] /\ cut' = {}
    /\ purged' = {} /\ proof' = {} /\ listed' = None
    /\ boot' = "rows" /\ todo' = listUnsettled
    /\ UNCHANGED rowVars

Booting == UNCHANGED <<mode, live, cut, purged, proof, listed>>

\* A published archive is read back; a row that cannot be settled stays.
verifyPublication(c) ==
    /\ boot = "rows" /\ c \in todo
    /\ ~ \/ (Stray(c) /\ upload[c] = "publishing" /\ archive[c] # "none")
         \/ (Stray(c) /\ archive[c] = "none" /\ (upload[c] = "publishing" => c \in proof))
    /\ todo' = todo \ {c}
    /\ ck' = IF upload[c] = "complete" /\ ck[c] = "ready" /\ ~Verifiable(c)
             THEN [ck EXCEPT ![c] = "failed"] ELSE ck
    /\ Booting /\ NoFault
    /\ UNCHANGED <<ws, storage, prov, disk, fence, upload, download, archive, published, op, linked,
                   pc, seen, boot>>

rowsVisited ==
    /\ boot = "rows" /\ todo = {}
    /\ boot' = "operations" /\ todo' = Incomplete
    /\ Booting /\ NoFault
    /\ UNCHANGED <<ws, storage, prov, disk, fence, ck, upload, download, archive, published, op,
                   linked, pc, seen>>

Visit(o) == boot = "operations" /\ o \in todo /\ todo' = todo \ {o} /\ UNCHANGED boot

reconcileRestore(o) ==
    /\ o.kind = "restore" /\ Visit(o)
    /\ op' = IF ws[o.target] = "absent" \/ Terminal(o.target)
             THEN [op EXCEPT ![o] = "failed"] ELSE op
    /\ linked' = IF ws[o.target] = "absent" THEN linked ELSE linked \cup {o}
    /\ Booting /\ NoFault
    /\ UNCHANGED <<ws, storage, prov, disk, fence, ck, upload, download, archive, published, pc, seen>>

\* Without its checkpoint being ready, an interrupted verification of a snapshot
\* is left as it is.
reconcileVerification(o) ==
    /\ o.kind = "verify" /\ Visit(o)
    /\ LET c == o.checkpoint IN
       IF ck[c] = "ready" /\ Verifiable(c)
       THEN updateOperation(o, "succeeded") /\ UNCHANGED ck
       ELSE IF Transfer \/ ck[c] = "ready"
            THEN /\ updateOperation(o, "failed")
                 /\ ck' = IF Transfer THEN [ck EXCEPT ![c] = "failed"] ELSE ck
            ELSE UNCHANGED <<op, ck>>
    /\ Booting /\ NoFault
    /\ UNCHANGED <<ws, storage, prov, disk, fence, upload, download, archive, published, linked, pc, seen>>

\* A deletion starts over.  What it throws ends the whole reconciliation.
reconcileDeletion(o) ==
    /\ o.kind = "delete" /\ boot = "operations" /\ o \in todo
    /\ LET c == o.checkpoint IN
       \/ /\ pc[o] = "idle" /\ (Transfer => upload[c] = "complete" /\ archive[c] = "final")
          /\ ~Transfer => c \in published
          /\ archive' = [archive EXCEPT ![c] = "none"]
          /\ upload' = IF Transfer /\ ck[c] = "deleting"
                       THEN [upload EXCEPT ![c] = "aborted"] ELSE upload
          /\ updateCheckpoint(c, "deleted") /\ updateOperation(o, "succeeded")
          /\ todo' = todo \ {o} /\ UNCHANGED boot
       \/ /\ ~Transfer /\ c \notin published
          /\ todo' = todo \ {o} /\ UNCHANGED <<boot, archive, upload, ck, op>>
       \/ /\ Transfer /\ (upload[c] # "complete" \/ archive[c] # "final")
          /\ boot' = "up" /\ todo' = {} /\ UNCHANGED <<archive, upload, ck, op>>
    /\ Booting /\ NoFault
    /\ UNCHANGED <<ws, storage, prov, disk, fence, download, published, linked, pc, seen>>

\* A preserve that never entered preserving owns nothing and fails; a pending one
\* that did waits for the tick.
reconcilePending(o) ==
    /\ o.kind = "preserve" /\ Visit(o)
    /\ o \notin linked \/ (op[o] = "pending" /\ (~Transfer \/ ck[o.checkpoint] = "creating"))
    /\ LET w == o.workspace IN
       IF o \in linked /\ (ws[w] \in {"preserving", "terminating"} \/ Terminal(w))
       THEN UNCHANGED <<op, ck>>
       ELSE /\ updateOperation(o, "failed")
            /\ ck' = IF o \in linked THEN [ck EXCEPT ![o.checkpoint] = "failed"] ELSE ck
    /\ Booting /\ NoFault
    /\ UNCHANGED <<ws, storage, prov, disk, fence, upload, download, archive, published, linked, pc, seen>>

reconcileTransferred(o) ==
    /\ o.kind = "preserve" /\ Visit(o) /\ Transfer /\ o \in linked
    /\ op[o] = "running" \/ ck[o.checkpoint] # "creating"
    /\ IF owns(o.workspace) THEN UNCHANGED <<pc, op>> ELSE recoverPreserve(o)
    /\ Booting /\ NoFault
    /\ UNCHANGED <<ws, storage, prov, disk, fence, ck, upload, download, archive, published, linked, seen>>

reconcileSnapshot(o) ==
    /\ o.kind = "preserve" /\ Visit(o) /\ ~Transfer /\ o \in linked /\ op[o] = "running"
    /\ LET w == o.workspace
           c == o.checkpoint IN
       \/ /\ ck[c] = "ready" /\ ws[w] = "preserving"
          /\ ws' = [ws EXCEPT ![w] = "preserved"]
          /\ updateOperation(o, "succeeded") /\ UNCHANGED <<storage, ck>>
       \/ /\ ~(ck[c] = "ready" /\ ws[w] = "preserving")
          /\ updateWorkspaceStorage(w, "retained")
          /\ ck' = IF ck[c] = "creating" THEN [ck EXCEPT ![c] = "failed"] ELSE ck
          /\ ws' = Moved(w, {"preserving"}, "failed")
          /\ updateOperation(o, "failed")
    /\ prov' = prov \ {o.workspace}
    /\ Booting /\ NoFault
    /\ UNCHANGED <<disk, fence, upload, download, archive, published, linked, pc, seen>>

skipPurge(o) ==
    /\ o.kind = "purge" /\ Visit(o)
    /\ Booting /\ NoFault
    /\ UNCHANGED <<ws, storage, prov, disk, fence, ck, upload, download, archive, published, op,
                   linked, pc, seen>>

started ==
    /\ boot = "operations" /\ todo = {} /\ boot' = "up"
    /\ Booting /\ NoFault
    /\ UNCHANGED <<ws, storage, prov, disk, fence, ck, upload, download, archive, published, op,
                   linked, pc, seen, todo>>
--------------------------------------------------------------------------------
(* The specification.                                                      *)

\* Destinations do not exist yet; every other workspace runs, with its files.
Sources == Workspace \ {o.target : o \in OfKind("restore")}

Init ==
    /\ mode \in {"transfer", "snapshot"}
    /\ ws = [w \in Workspace |-> IF w \in Sources THEN "ready" ELSE "absent"]
    /\ storage = [w \in Workspace |-> IF w \in Sources THEN "ready" ELSE "none"]
    /\ prov = Sources /\ disk = Sources /\ fence = {}
    /\ ck = [c \in Checkpoint |-> "none"] /\ upload = [c \in Checkpoint |-> "none"]
    /\ archive = [c \in Checkpoint |-> "none"] /\ published = {}
    /\ download = None /\ op = None /\ linked = {}
    /\ pc = [o \in Operation |-> "idle"] /\ seen = Nothing
    /\ live = [o \in Operation |-> "no"] /\ cut = {} /\ purged = {} /\ proof = {}
    /\ listed = None /\ boot = "up" /\ todo = {} /\ faults = 0

\* The requests that were made and not refused.
Asked == {o \in Operation : op[o] # "none" \/ pc[o] # "idle"}

Request(o) ==
    /\ op[o] = "none"
    /\ preserve(o) \/ restore(o) \/ verify(o) \/ delete(o) \/ purge(o)
    /\ Cardinality(Asked) < MaxRequests

PreserveTask(o) ==
    /\ pc[o] # "idle"
    /\ \/ assertPreserveAdmission(o) \/ linkCheckpoint(o) \/ enterPreserving(o)
       \/ attempt(o) \/ revokeLeases(o) \/ inspect(o) \/ runTransferPreserve(o)
       \/ prepareArchive(o) \/ openGrant(o) \/ uploadSettled(o) \/ cleanupTransferSource(o)
       \/ sourceDeleted(o) \/ commitPreserved(o) \/ finishPreserve(o) \/ stopForSnapshot(o)
       \/ createSnapshot(o) \/ completePreserve(o) \/ detachSource(o)
       \/ handlePreserveFailure(o) \/ retainUnpublishedSource(o) \/ abandonSource(o)

CheckpointTask(o) ==
    /\ pc[o] # "idle"
    /\ \/ insertRestore(o) \/ insertTarget(o) \/ linkTarget(o) \/ insertVerify(o) \/ finishVerify(o)
       \/ insertDelete(o) \/ acknowledgeDelete(o) \/ deleteArchive(o) \/ commitRemoval(o)
       \/ finishDelete(o) \/ cleanupPreservedStorage(o)

PurgeTask(o) ==
    /\ pc[o] # "idle"
    /\ \/ acknowledgePurge(o) \/ cancelCopies(o) \/ copiesSettled(o)
       \/ \E r \in Operation : settleRestore(o, r) \/ endRestore(o, r)
       \/ hasActiveCopies(o) \/ endWorkspace(o) \/ removeProvider(o)
       \/ \E c \in Checkpoint : purgeCheckpoint(o, c)
       \/ forgetCheckpoint(o) \/ purgeStorage(o) \/ purgeWorkspaceContent(o)

Transfers(o) ==
    \/ claim(o) \/ createArchive(o) \/ stageArchive(o) \/ sealArchive(o) \/ publishArchive(o)
    \/ closeUploadOwners(o) \/ cleanup(o) \/ restoreGrant(o) \/ downloadArchive(o)
    \/ checkpointInstalled(o) \/ restoreReady(o)

Scheduling ==
    \/ \E o \in Operation : launch(o) \/ bootstrapFails(o) \/ becomesReady(o)
    \/ \E w \in Workspace : sweepPreserving(w) \/ cutTransfers(w) \/ finalize(w)

TickSteps(o) == retryPreserve(o) \/ recoverRunning(o) \/ retryPurge(o)

Recovery ==
    \/ \E c \in Checkpoint : removeInterrupted(c) \/ settleUpload(c) \/ verifyPublication(c)
    \/ \E o \in Operation :
         \/ settleDownload(o) \/ reconcileRestore(o) \/ reconcileVerification(o)
         \/ reconcileDeletion(o) \/ reconcilePending(o) \/ reconcileTransferred(o)
         \/ reconcileSnapshot(o) \/ skipPurge(o)
    \/ rowsVisited \/ started

Next ==
    \/ \E o \in Operation :
         \/ Request(o) \/ PreserveTask(o) \/ CheckpointTask(o) \/ PurgeTask(o)
         \/ Transfers(o) \/ TickSteps(o)
    \/ Scheduling \/ Recovery \/ crash
    \/ listRunning \/ listPending
    \/ \E w \in Workspace : beginTermination(w)

Spec == Init /\ [][Next]_vars

--------------------------------------------------------------------------------
(* Properties.                                                             *)

\* Every variable keeps to the values of its column or task.
TypeOK ==
    /\ mode \in {"transfer", "snapshot"}
    /\ ws \in [Workspace -> WorkspaceState \cup {"absent"}]
    /\ storage \in [Workspace -> StorageState]
    /\ prov \subseteq Workspace /\ disk \subseteq Workspace /\ fence \subseteq Workspace /\ purged \subseteq Workspace
    /\ ck \in [Checkpoint -> CheckpointState]
    /\ upload \in [Checkpoint -> TransferState] /\ download \in [Operation -> TransferState]
    /\ archive \in [Checkpoint -> ArchiveState]
    /\ published \subseteq Checkpoint /\ proof \subseteq Checkpoint
    /\ op \in [Operation -> OperationState] /\ linked \subseteq Operation
    /\ live \in [Operation -> {"no", "open", "busy", "stopped"}] /\ cut \subseteq Operation
    /\ boot \in {"up", "rows", "operations"} /\ faults \in 0 .. MaxFaults

\* A deletion of the checkpoint succeeded, and its archive is still the published one of a
\* transfer: it read the row before the archive was published, and removed nothing.
Deleted(c) == \E d \in OfKind("delete") : d.checkpoint = c /\ op[d] = "succeeded"
Missed(c) == Transfer /\ upload[c] = "complete" /\ Deleted(c)

\* A purge that succeeded left nothing, and nothing comes back: no archive file, no
\* files of the workspace, no provider object, no transfer on its way, and no
\* checkpoint to restore from (persistence-purge.ts, attempt; the fence is
\* what stops every task that began before it, also across a restart).  A second
\* purge may claim a row that failed since; it is incomplete until the row is gone.
\* The one file it may leave is the archive an earlier deletion missed: the purge
\* passes over a row that says deleted (persistence-maintenance.ts, delete).
PurgedStaysPurged ==
    \A o \in OfKind("purge") : op[o] = "succeeded" =>
        LET w == o.workspace IN
        /\ Terminal(w) /\ w \notin prov /\ (Transfer \/ w \notin disk)
        /\ \A c \in CheckpointsOf(w) :
             /\ archive[c] = "none" \/ Missed(c)
             /\ \/ ck[c] \in {"deleted", "failed"}
                \/ ck[c] = "deleting" /\ Incomplete \cap Purges(w) # {}
        /\ CopiesOf(w) = {}

\* A checkpoint that callers may restore from has its whole archive, and where
\* archives are sent to the controller, its completed transfer (publish commits
\* after the file is sealed; deletions claim the row before they unlink).
ReadyHasArchive ==
    \A c \in Checkpoint : ck[c] = "ready" /\ OwnerOf(c) \notin fence => Verifiable(c)

\* A restored workspace becomes ready only from files that came out of a whole
\* archive, and never once its own purge or its source's was requested.  Its storage
\* is retained where a preserve of it was cut by a crash before it entered, and the
\* checkpoint's deletion made recovery treat it as begun (recoverPreserve).
RestoreNeedsSource ==
    [][\A o \in OfKind("restore") :
         ws[o.target] = "connected" /\ ws'[o.target] = "ready" =>
           /\ storage[o.target] \in {"ready", "retained"}
           /\ o.target \notin fence
           /\ Transfer => o.workspace \notin fence /\ op'[o] = "succeeded"]_vars

--------------------------------------------------------------------------------
\* The instance TLC checks: a workspace with a checkpoint, and one restored from it.
SourceRequests == {
    [kind |-> "preserve", workspace |-> "source", checkpoint |-> "kept", target |-> "none"],
    [kind |-> "restore", workspace |-> "source", checkpoint |-> "kept", target |-> "restored"],
    [kind |-> "verify", workspace |-> "source", checkpoint |-> "kept", target |-> "none"],
    [kind |-> "delete", workspace |-> "source", checkpoint |-> "kept", target |-> "none"],
    [kind |-> "purge", workspace |-> "source", checkpoint |-> "none", target |-> "none"]}
================================================================================
