-------------------------- MODULE PreservationProofs --------------------------
EXTENDS Preservation, TLAPS
(***************************************************************************)
(* The proofs about Preservation.  One inductive invariant in three        *)
(* layers: Shape (types, and the step of a task tells the kind of its      *)
(* operation), Copies (what makes a ready checkpoint's archive whole and a *)
(* restore sound) and PurgeInv (what makes a purge final).  Each conjunct  *)
(* has one lemma below: it holds after a step if the conjuncts the lemma   *)
(* names held before it, with one step per action.                         *)
(***************************************************************************)

\* The steps of the tasks of a preserve, a deletion and a purge.
Runs == {"admit", "link", "enter", "recover"} \cup Runner
Deletes == {"acknowledge", "remove", "unlinked", "removed", "sweep"}
Purging == {"drain", "cancel", "settle", "copies", "end", "provider", "storage", "forget", "content"}

\* The step of a task tells the kind of its operation.
Kinds ==
    \A o \in Operation :
        /\ pc[o] \in Runs => o.kind = "preserve"
        /\ pc[o] \in {"target", "linkTarget"} => o.kind = "restore"
        /\ pc[o] = "verifying" => o.kind = "verify"
        /\ pc[o] \in Deletes => o.kind = "delete"
        /\ pc[o] \in Purging => o.kind = "purge"
        /\ pc[o] = "insert" => o.kind \in {"restore", "verify", "delete"}

\* What EXCEPT needs of the tasks' private state.
Functions ==
    /\ pc = [o \in Operation |-> pc[o]] /\ seen = [o \in Operation |-> seen[o]]
    /\ listed \in [Operation -> OperationState]

\* A workspace past its last move, or about to make it; one that left `connected` to be
\* preserved; a checkpoint whose row left creating; an upload no one has settled.
Ended(w) == ws[w] \in {"terminating"} \cup TerminalState
Past(w) == ws[w] = "preserving" \/ Ended(w)
Decided(c) == ck[c] \notin {"none", "creating"}
Active(c) == upload[c] \in {"granted", "streaming", "publishing"}

\* The target of a restore exists only once its task inserted it, and
\* downloads only once it was launched.
Born ==
    \A o \in OfKind("restore") :
        /\ op[o] = "none" \/ pc[o] = "target" => ws[o.target] = "absent"
        /\ pc[o] = "target" => op[o] # "none"
        /\ download[o] # "none" => ws[o.target] \notin {"absent", "queued"}

\* A preserve at work has moved its workspace.
Entered ==
    \A p \in OfKind("preserve") :
        /\ pc[p] \in Runner => Past(p.workspace)
        /\ op[p] = "running" \/ listed[p] = "running" => Past(p.workspace)

\* A checkpoint has a row once its preserve is admitted, and is published only by a
\* preserve that moved its workspace: what admitting and deleting one row agree on.
Begun ==
    \A p \in OfKind("preserve") :
        /\ op[p] = "none" \/ pc[p] = "admit" => ck[p.checkpoint] = "none"
        /\ p.checkpoint \in published => Past(p.workspace) /\ Decided(p.checkpoint)
        /\ ck[p.checkpoint] = "ready" => p.checkpoint \in published
        /\ \A d \in OfKind("delete") : d.checkpoint = p.checkpoint /\ pc[d] = "insert" =>
             op[p] # "none" /\ pc[p] # "admit"

\* A verification or a deletion works on a decided row; one that unlinks
\* an archive has claimed the row away from ready first.
Claimed ==
    /\ \A v \in OfKind("verify") :
        /\ op[v] # "none" \/ pc[v] = "insert" => Decided(v.checkpoint)
        /\ pc[v] = "verifying" => op[v] # "none"
    /\ \A d \in OfKind("delete") :
        /\ op[d] # "none" => Decided(d.checkpoint)
        /\ pc[d] \notin {"idle", "insert", "sweep"} => d \in Incomplete
        /\ seen[d] = Reference => d.checkpoint \in published
        /\ pc[d] \in {"remove", "unlinked"} =>
             d.checkpoint \in published /\ ck[d.checkpoint] # "ready"

\* A purge has raised the fence of its workspace before it has a row or a task.
FencedPurge ==
    \A o \in OfKind("purge") :
        /\ op[o] # "none" => o.workspace \in fence /\ ws[o.workspace] # "absent"
        /\ pc[o] # "idle" => o \in Incomplete
        /\ pc[o] = "forget" => seen[o][1] \in published

\* Recovery runs alone: no task but the preserves it started itself, and the
\* operations it still has to look at are incomplete and without a task.
Startup ==
    /\ ~Up => \A o \in Operation : o.kind # "preserve" => pc[o] = "idle"
    /\ boot = "rows" => \A o \in Operation : pc[o] = "idle"
    /\ boot = "operations" => \A o \in Operation : o \in todo => o \in Incomplete /\ pc[o] = "idle"

\* A connected restore that its download completed has its files.
Restored ==
    \A o \in OfKind("restore") :
        o.target \notin fence /\ ws[o.target] = "connected" /\ (Transfer => download[o] = "complete")
        => storage[o.target] \in {"ready", "retained"}

\* A transfer context belongs to a preserve that waits for its upload, or to a
\* restore; its checkpoint has a row.
Uploads ==
    /\ ~Transfer => live = [o \in Operation |-> "no"] /\ upload = [c \in Checkpoint |-> "none"]
    /\ \A p \in OfKind("preserve") :
        /\ live[p] # "no" => pc[p] = "upload"
        /\ live[p] = "busy" => upload[p.checkpoint] \in {"streaming", "publishing"}
    /\ \A o \in OfKind("preserve") \cup OfKind("restore") : live[o] # "no" => ck[o.checkpoint] # "none"

\* The steps of the transfer path and of the snapshot path do not mix.
Modes ==
    \A p \in OfKind("preserve") :
        /\ pc[p] \in {"prepare", "granted", "upload", "published", "released", "retain", "recover",
                      "abandon"} => Transfer
        /\ pc[p] \in {"snapshot", "saved", "detach", "stopped"} => ~Transfer

\* The row of a preserve with a task tells how far the task is.
Tasks ==
    \A p \in OfKind("preserve") :
        /\ pc[p] \in {"admit", "link", "enter"} => op[p] = "pending"
        /\ pc[p] \in Runner \ {"attempt", "revoke", "inspect"} => op[p] = "running"
        /\ pc[p] \in {"enter", "recover"} \cup Runner => p \in linked
        /\ p \in linked \/ pc[p] = "link" => ck[p.checkpoint] # "none"

\* One runner at a time for a workspace.
OneRunner ==
    \A p, q \in OfKind("preserve") :
        p.workspace = q.workspace /\ pc[p] \in Runner /\ pc[q] \in Runner => p = q

\* On the snapshot path, a published checkpoint of a preserving workspace is on
\* its way to commit or waits for recovery; a snapshot being recorded was taken.
Snapshots ==
    ~Transfer => \A p \in OfKind("preserve") :
        /\ p.checkpoint \in published =>
             /\ pc[p] \notin {"source", "snapshot", "saved"}
             /\ ws[p.workspace] = "preserving" =>
                  /\ op[p] = "running" /\ p \in linked
                  /\ \/ pc[p] \in {"detach", "commit", "stopped"}
                     \/ boot = "rows"
                     \/ boot = "operations" /\ p \in todo
        /\ pc[p] = "saved" => archive[p.checkpoint] = "final" \/ p.workspace \in fence

\* An upload in progress has a running preserve that waits for it or that
\* recovery will find; one that completed has published the checkpoint.
Unsettled ==
    \A p \in OfKind("preserve") :
        /\ Active(p.checkpoint) =>
             /\ op[p] = "running" /\ p \in linked
             /\ pc[p] \in {"granted", "upload"} \/ (pc[p] = "idle" /\ listed[p] # "pending")
        /\ pc[p] = "upload" /\ live[p] = "no" => ~Active(p.checkpoint)
        /\ upload[p.checkpoint] = "complete" => p.checkpoint \in published
        /\ upload[p.checkpoint] # "validated"

\* A preserve at work still has its source.
Sourced ==
    /\ \A p \in OfKind("preserve") :
        /\ Transfer /\ ws[p.workspace] = "preserving"
        /\ pc[p] \in {"source", "prepare", "granted", "upload", "published", "released", "failing",
                      "retain"}
        => HasStorage(p.workspace)
    /\ \A w \in Workspace :
        ~Transfer /\ ws[w] \in {"connected", "ready", "preserving"} => HasStorage(w)

\* What a preserve read of its rows before an await and relies on after it.
Reads ==
    \A p \in OfKind("preserve") :
        /\ pc[p] \in {"revoke", "inspect", "source"} /\ seen[p][1] = "ready" =>
             Decided(p.checkpoint)
        /\ pc[p] \in {"published", "released", "detach", "commit", "finish", "abandon"} =>
             Decided(p.checkpoint)
        /\ pc[p] = "finish" => ws[p.workspace] # "preserving"

\* A deleted checkpoint whose upload completed has lost its archive, or its deletion missed it.
Removed ==
    Transfer => \A c \in Checkpoint :
        ck[c] = "deleted" /\ upload[c] = "complete" => archive[c] = "none" \/ Missed(c)

\* The preserves that will take a preserving workspace to its end: on the
\* snapshot path it always has one.
Attendants(w) ==
    {p \in OfKind("preserve") :
        /\ p.workspace = w /\ p \in linked /\ p \in Incomplete
        /\ pc[p] \notin {"admit", "link", "enter"}}
Attended ==
    ~Transfer => \A w \in Workspace : ws[w] = "preserving" => Attendants(w) # {}

\* No step leaves a workspace that is preserving without one of its attendants.
AttendantsStay ==
    ~Transfer => \A w \in Workspace : ws'[w] = "preserving" =>
        IF ws[w] = "preserving" THEN Attendants(w) \subseteq Attendants(w)'
                                ELSE Attendants(w)' # {}

\* The purge has reached one of the steps, or is over.
At(o, steps) == pc[o] \in steps \/ op[o] = "succeeded"

\* One purge task at a time for a workspace.
OnePurge ==
    \A o, q \in OfKind("purge") :
        o.workspace = q.workspace /\ pc[o] # "idle" /\ pc[q] # "idle" => o = q

\* Once its copies are cancelled, no transfer of the workspace is alive.
Quieted ==
    \A o \in OfKind("purge") : At(o, {"copies", "end", "provider", "storage", "forget", "content"}) =>
        /\ \A p \in OfKind("preserve") :
             p.workspace = o.workspace => pc[p] \notin {"granted", "upload"}
        /\ \A r \in OfKind("restore") :
             live[r] # "no" => r.workspace # o.workspace /\ r.target # o.workspace

\* Once its operations are settled, no preserve or deletion of the workspace
\* can make or take an archive.
Settled ==
    \A o \in OfKind("purge") : At(o, {"end", "provider", "storage", "forget", "content"}) =>
        /\ \A p \in OfKind("preserve") : p.workspace = o.workspace =>
             /\ ~Active(p.checkpoint) /\ pc[p] \notin {"admit", "link", "enter"}
             /\ ~Transfer => pc[p] \notin {"source", "snapshot", "saved"}
        /\ \A d \in OfKind("delete") : d.workspace = o.workspace => d \notin Incomplete
        /\ ~Transfer => ws[o.workspace] # "preserving"

\* Past its end the workspace is terminal; past the provider it holds no compute.
Finished ==
    \A o \in OfKind("purge") :
        /\ At(o, {"provider", "storage", "forget", "content"}) => Terminal(o.workspace)
        /\ At(o, {"storage", "forget", "content"}) => o.workspace \notin prov

\* Past its storage nothing is left of it. A second purge may show a row as
\* deleting again, with nothing behind it.
Emptied ==
    \A o \in OfKind("purge") : At(o, {"content"}) =>
        /\ Transfer \/ o.workspace \notin disk
        /\ \A c \in CheckpointsOf(o.workspace) :
             /\ archive[c] = "none" \/ Missed(c)
             /\ \/ ck[c] \in {"deleted", "failed"}
                \/ /\ pc[o] # "content" /\ ck[c] = "deleting"
                   /\ Incomplete \cap Purges(o.workspace) # {}

\* What RestoreNeedsSource says of a step.
SoundReady ==
    \A o \in OfKind("restore") :
        ws[o.target] = "connected" /\ ws'[o.target] = "ready" =>
          /\ storage[o.target] \in {"ready", "retained"}
          /\ o.target \notin fence
          /\ Transfer => o.workspace \notin fence /\ op'[o] = "succeeded"

\* A deletion that read an archive reference read something.
LEMMA ReferenceIsSome == Reference # <<>>
  BY DEF Reference

\* What a preserve reads first is the state of its checkpoint.
LEMMA RowsOfFirst ==
    ASSUME NEW o \in Operation
    PROVE  RowsOf(o)[1] = ck[o.checkpoint]
  BY DEF RowsOf

\* A preserve skips the work only on the transfer path, over a ready row.
LEMMA DoneIsReady ==
    ASSUME NEW o \in Operation, AlreadyDone(o)
    PROVE  Transfer /\ seen[o][1] = "ready"
  BY DEF AlreadyDone

\* Where the transfer path goes from its source, and why.
LEMMA FromSourceIs ==
    ASSUME NEW o \in Operation
    PROVE  /\ FromSource(o) \in {"prepare", "published", "failing"}
           /\ FromSource(o) = "published" => seen[o][1] = "ready"
  BY DEF FromSource

\* Where the transfer path goes from its source.
LEMMA SourceGoes ==
    ASSUME NEW o \in Operation
    PROVE  FromSource(o) \in {"prepare", "published", "failing"}
  BY DEF FromSource

\* A checkpoint has one preserve.
LEMMA PreserveOf ==
    ASSUME NEW p \in OfKind("preserve")
    PROVE  Preserve(p.checkpoint) = p
  BY OperationAssumption DEF Preserve, OfKind

\* Every checkpoint has a preserve.
LEMMA MakerOf ==
    ASSUME NEW c \in Checkpoint
    PROVE  Preserve(c) \in OfKind("preserve") /\ Preserve(c).checkpoint = c
  BY RequestAssumption DEF Preserve, OfKind

\* An operation's checkpoint is of its workspace.
LEMMA OwnerIs ==
    ASSUME NEW o \in Operation, o.kind # "purge"
    PROVE  OwnerOf(o.checkpoint) = o.workspace
  <1>1. o.checkpoint \in Checkpoint
    BY OperationAssumption
  <1> QED BY <1>1, MakerOf, RequestAssumption DEF OwnerOf, OfKind

\* The fence stops no move that ends a workspace.
LEMMA MovedIs ==
    ASSUME NEW w \in Workspace, NEW to \in {"preserved", "failed"}
    PROVE  Moved(w, {"preserving"}, to)
             = IF ws[w] = "preserving" THEN [ws EXCEPT ![w] = to] ELSE ws
  BY DEF Moved, MayMove, CanTransition, Transitions, WorkspaceState, Fenced

\* Whose task takes a step.
LEMMA PreserveKind ==
    ASSUME Kinds, NEW o \in Operation, PreserveTask(o)
    PROVE  o.kind = "preserve"
  <1>1. pc[o] \in Runs
    BY DEF PreserveTask, Step, assertPreserveAdmission, linkCheckpoint, enterPreserving,
        attempt, revokeLeases, inspect, runTransferPreserve, prepareArchive, openGrant,
        uploadSettled, cleanupTransferSource, sourceDeleted, commitPreserved, finishPreserve,
        stopForSnapshot, createSnapshot, completePreserve, detachSource, handlePreserveFailure,
        retainUnpublishedSource, abandonSource, Runs, Runner
  <1> QED BY <1>1 DEF Kinds

\* Whose task restores, verifies and deletes.
LEMMA CheckpointKind ==
    ASSUME Kinds, NEW o \in Operation
    PROVE  /\ insertTarget(o) \/ linkTarget(o) => o.kind = "restore"
           /\ finishVerify(o) => o.kind = "verify"
           /\ \/ acknowledgeDelete(o) \/ deleteArchive(o) \/ finishDelete(o)
              \/ cleanupPreservedStorage(o)
              => o.kind = "delete"
  BY DEF Kinds, Deletes, insertTarget, linkTarget, finishVerify, acknowledgeDelete, deleteArchive,
         finishDelete, cleanupPreservedStorage, Step

\* Whose task purges.
LEMMA PurgeKind ==
    ASSUME Kinds, NEW o \in Operation, PurgeTask(o)
    PROVE  o.kind = "purge"
  <1>1. pc[o] \in Purging
    BY DEF PurgeTask, Step, acknowledgePurge, cancelCopies, copiesSettled, settleRestore,
        endRestore, hasActiveCopies, endWorkspace, removeProvider, purgeCheckpoint,
        forgetCheckpoint, purgeStorage, purgeWorkspaceContent, Purging
  <1> QED BY <1>1 DEF Kinds

-------------------------------------------------------------------------------
\* The types.

\* A task of one kind never takes a step of another.
LEMMA KindsStep ==
    Functions /\ Kinds /\ Next => Kinds'
  <1> SUFFICES ASSUME Functions, Kinds, Next
               PROVE  Kinds'
    OBVIOUS
  <1> USE OperationAssumption DEF Kinds, Functions, Runs, Runner, Deletes, Purging, Step, Stop,
          Quiet, NoFault, Fault, Forget, updateOperation, updateCheckpoint
  <1>1. ASSUME NEW o \in Operation, Request(o)
         PROVE  Kinds'
    <2>1. CASE preserve(o)
      BY <2>1 DEF preserve, Up, insertOperation, admitIntent
    <2>2. CASE restore(o)
      BY <2>2 DEF restore, Up
    <2>3. CASE verify(o)
      BY <2>3 DEF verify, Up
    <2>4. CASE delete(o)
      BY <2>4 DEF delete, Up, Incomplete, OfKind
    <2>5. CASE purge(o)
      BY <2>5 DEF purge, Up, insertOperation, admitIntent
    <2> HIDE DEF Kinds
    <2> QED BY <1>1, <2>1, <2>2, <2>3, <2>4, <2>5 DEF Request
  <1>2. ASSUME NEW o \in Operation, PreserveTask(o)
         PROVE  Kinds'
    <2> o.kind = "preserve"
      BY <1>2, PreserveKind
    <2>1. CASE assertPreserveAdmission(o)
      BY <2>1 DEF assertPreserveAdmission
    <2>2. CASE linkCheckpoint(o)
      BY <2>2 DEF linkCheckpoint
    <2>3. CASE enterPreserving(o)
      BY <2>3 DEF enterPreserving, MayMove
    <2>4. CASE attempt(o)
      BY <2>4 DEF attempt
    <2>5. CASE revokeLeases(o)
      BY <2>5 DEF revokeLeases
    <2>6. CASE inspect(o)
      BY <2>6 DEF inspect
    <2>7. CASE runTransferPreserve(o)
      <3>1. /\ pc[o] = "source" /\ pc' = [pc EXCEPT ![o] = FromSource(o)]
        BY <2>7 DEF runTransferPreserve, Transfer, updateWorkspaceStorage
      <3> QED BY <3>1, SourceGoes
    <2>8. CASE prepareArchive(o)
      BY <2>8 DEF prepareArchive, checkpointUploadAuthority, grantUpload, Incomplete
    <2>9. CASE openGrant(o)
      BY <2>9 DEF openGrant, rowVars
    <2>10. CASE uploadSettled(o)
      BY <2>10 DEF uploadSettled, rowVars
    <2>11. CASE cleanupTransferSource(o)
      BY <2>11 DEF cleanupTransferSource
    <2>12. CASE sourceDeleted(o)
      BY <2>12 DEF sourceDeleted, updateWorkspaceStorage
    <2>13. CASE commitPreserved(o)
      BY <2>13 DEF commitPreserved, Moved, MayMove
    <2>14. CASE finishPreserve(o)
      BY <2>14 DEF finishPreserve
    <2>15. CASE stopForSnapshot(o)
      BY <2>15 DEF stopForSnapshot, Transfer
    <2>16. CASE createSnapshot(o)
      BY <2>16 DEF createSnapshot, updateWorkspaceStorage
    <2>17. CASE completePreserve(o)
      BY <2>17 DEF completePreserve, updateWorkspaceStorage
    <2>18. CASE detachSource(o)
      BY <2>18 DEF detachSource
    <2>19. CASE handlePreserveFailure(o)
      BY <2>19 DEF handlePreserveFailure, Transfer, updateWorkspaceStorage, Moved, MayMove
    <2>20. CASE retainUnpublishedSource(o)
      BY <2>20 DEF retainUnpublishedSource
    <2>21. CASE abandonSource(o)
      BY <2>21 DEF abandonSource, Moved, MayMove
    <2> HIDE DEF Kinds
    <2> QED BY <1>2, <2>1, <2>2, <2>3, <2>4, <2>5, <2>6, <2>7, <2>8, <2>9, <2>10, <2>11, <2>12,
         <2>13, <2>14, <2>15, <2>16, <2>17, <2>18, <2>19, <2>20, <2>21 DEF PreserveTask
  <1>3. ASSUME NEW o \in Operation, CheckpointTask(o)
         PROVE  Kinds'
    <2>1. CASE insertRestore(o)
      BY <2>1 DEF insertRestore, insertOperation, admitIntent
    <2>2. CASE insertTarget(o)
      BY <2>2, CheckpointKind DEF insertTarget
    <2>3. CASE linkTarget(o)
      BY <2>3, CheckpointKind DEF linkTarget
    <2>4. CASE insertVerify(o)
      BY <2>4 DEF insertVerify, insertOperation, admitIntent
    <2>5. CASE finishVerify(o)
      BY <2>5, CheckpointKind DEF finishVerify
    <2>6. CASE insertDelete(o)
      BY <2>6 DEF insertDelete, insertOperation, admitIntent
    <2>7. CASE acknowledgeDelete(o)
      BY <2>7, CheckpointKind DEF acknowledgeDelete
    <2>8. CASE deleteArchive(o)
      BY <2>8, CheckpointKind DEF deleteArchive, removeArchive, Transfer
    <2>9. CASE commitRemoval(o)
      BY <2>9 DEF commitRemoval, Transfer, removePublication
    <2>10. CASE finishDelete(o)
      BY <2>10, CheckpointKind DEF finishDelete
    <2>11. CASE cleanupPreservedStorage(o)
      BY <2>11, CheckpointKind
      DEF cleanupPreservedStorage, Transfer, Incomplete, updateWorkspaceStorage
    <2> HIDE DEF Kinds
    <2> QED BY <1>3, <2>1, <2>2, <2>3, <2>4, <2>5, <2>6, <2>7, <2>8, <2>9, <2>10, <2>11
    DEF CheckpointTask
  <1>4. ASSUME NEW o \in Operation, PurgeTask(o)
         PROVE  Kinds'
    <2> o.kind = "purge"
      BY <1>4, PurgeKind
    <2>1. CASE acknowledgePurge(o)
      BY <2>1 DEF acknowledgePurge, PurgeFails
    <2>2. CASE cancelCopies(o)
      BY <2>2 DEF cancelCopies, Transfer, rowVars
    <2>3. CASE copiesSettled(o)
      BY <2>3 DEF copiesSettled, Transfer
    <2>4. CASE hasActiveCopies(o)
      BY <2>4 DEF hasActiveCopies, Incomplete, OfKind, PurgeFails
    <2>5. CASE endWorkspace(o)
      BY <2>5 DEF endWorkspace, Terminal, Nonterminal, PurgeFails
    <2>6. CASE removeProvider(o)
      BY <2>6 DEF removeProvider, PurgeFails
    <2>7. ASSUME NEW c \in Checkpoint, purgeCheckpoint(o, c)
           PROVE  Kinds'
      BY <2>7 DEF purgeCheckpoint, Transfer, removeArchive
    <2>8. CASE forgetCheckpoint(o)
      BY <2>8 DEF forgetCheckpoint, Transfer, removePublication, PurgeFails
    <2>9. CASE purgeStorage(o)
      BY <2>9 DEF purgeStorage, Transfer, PurgeFails
    <2>10. CASE purgeWorkspaceContent(o)
      BY <2>10 DEF purgeWorkspaceContent
    <2>11. ASSUME NEW r \in Operation, settleRestore(o, r) \/ endRestore(o, r)
           PROVE  Kinds'
      BY <2>11 DEF settleRestore, OfKind, Incomplete, endRestore
    <2> HIDE DEF Kinds
    <2> QED BY <1>4, <2>1, <2>2, <2>3, <2>4, <2>5, <2>6, <2>7, <2>8, <2>9, <2>10, <2>11
    DEF PurgeTask
  <1>5. ASSUME NEW o \in Operation, Transfers(o)
         PROVE  Kinds'
    <2>1. CASE claim(o) \/ createArchive(o) \/ stageArchive(o) \/ sealArchive(o)
               \/ publishArchive(o) \/ closeUploadOwners(o) \/ cleanup(o) \/ restoreGrant(o)
               \/ downloadArchive(o) \/ checkpointInstalled(o)
      BY <2>1
      DEF claim, claimUpload, claimDownload, Context, checkpointUploadAuthority,
          checkpointDownloadAuthority, Incomplete, createArchive, stageArchive, stage,
          sealArchive, publishArchive, publish, closeUploadOwners, cleanup, abortUpload,
          abortDownload, restoreGrant, Up, Transfer, grantDownload, downloadArchive, downloaded,
          checkpointInstalled, installed, completeCheckpointStorage, updateWorkspaceStorage
    <2>2. CASE restoreReady(o)
      BY <2>2
      DEF restoreReady, Up, completeRestore, Context, checkpointDownloadAuthority, MayMove,
          Incomplete
    <2> HIDE DEF Kinds
    <2> QED BY <1>5, <2>1, <2>2 DEF Transfers
  <1>6. ASSUME NEW o \in Operation, TickSteps(o)
         PROVE  Kinds'
    <2>1. CASE retryPreserve(o)
      BY <2>1 DEF retryPreserve, Up, Terminal, rowVars
    <2>2. CASE recoverRunning(o)
      BY <2>2 DEF recoverRunning, Up, Transfer, recoverPreserve, Ticking
    <2>3. CASE retryPurge(o)
      BY <2>3 DEF retryPurge, Up, Incomplete, rowVars
    <2> HIDE DEF Kinds
    <2> QED BY <1>6, <2>1, <2>2, <2>3 DEF TickSteps
  <1>7. ASSUME NEW o \in Operation, reconcileTransferred(o)
         PROVE  Kinds'
    BY <1>7 DEF reconcileTransferred, Visit, Transfer, recoverPreserve, Booting
  <1>8. ASSUME crash
         PROVE  Kinds'
    BY <1>8 DEF crash, Up, Nothing, None, rowVars
  <1>9. ASSUME NEW o \in Operation, launch(o) \/ bootstrapFails(o) \/ becomesReady(o)
                                    \/ settleDownload(o) \/ reconcileRestore(o)
                                    \/ reconcileVerification(o) \/ reconcileDeletion(o)
                                    \/ reconcilePending(o) \/ reconcileSnapshot(o)
                                    \/ skipPurge(o)
         PROVE  Kinds'
    BY <1>9
    DEF launch, Up, Transfer, updateWorkspaceStorage, Incomplete, Elsewhere, bootstrapFails,
        checkpointDownloadAuthority, becomesReady, MayMove, settleDownload, abortDownload,
        reconcileRestore, Visit, Terminal, Booting, reconcileVerification, reconcileDeletion,
        reconcilePending, reconcileSnapshot, Moved, skipPurge
  <1>10. ASSUME NEW w \in Workspace, sweepPreserving(w) \/ cutTransfers(w) \/ finalize(w)
                                     \/ beginTermination(w)
         PROVE  Kinds'
    BY <1>10
    DEF sweepPreserving, Up, OfKind, Incomplete, Elsewhere, cutTransfers, finalize, Transfer,
        updateWorkspaceStorage, beginTermination
  <1>11. ASSUME NEW c \in Checkpoint, removeInterrupted(c) \/ settleUpload(c)
                                      \/ verifyPublication(c)
         PROVE  Kinds'
    BY <1>11 DEF removeInterrupted, settleUpload, abortUpload, verifyPublication, Booting
  <1>12. ASSUME rowsVisited \/ started \/ listRunning \/ listPending
         PROVE  Kinds'
    BY <1>12
    DEF rowsVisited, Incomplete, Booting, started, listRunning, Listing, Up, None, OfKind,
        rowVars, listPending
  <1> HIDE DEF Kinds
  <1> QED BY <1>1, <1>2, <1>3, <1>4, <1>5, <1>6, <1>7, <1>8, <1>9, <1>10, <1>11, <1>12
    DEF Next, Scheduling, Recovery

\* Every action writes values of its columns only.
LEMMA TypeStep ==
    Functions /\ Kinds /\ TypeOK /\ Next => TypeOK'
  <1> SUFFICES ASSUME Functions, Kinds, TypeOK, Next
               PROVE  TypeOK'
    OBVIOUS
  <1> USE OperationAssumption, FaultsAssumption DEF TypeOK, Functions, OperationState,
          CheckpointState, StorageState, TransferState, ArchiveState, Step, Stop, Quiet,
          NoFault, Fault, Forget, updateOperation, updateCheckpoint
  <1>1. ASSUME NEW o \in Operation, Request(o)
         PROVE  TypeOK'
    <2>1. CASE preserve(o)
      BY <2>1 DEF preserve, Up, insertOperation, admitIntent
    <2>2. CASE restore(o)
      BY <2>2 DEF restore, Up
    <2>3. CASE verify(o)
      BY <2>3 DEF verify, Up
    <2>4. CASE delete(o)
      BY <2>4 DEF delete, Up, Incomplete, OfKind
    <2>5. CASE purge(o)
      BY <2>5 DEF purge, Up, insertOperation, admitIntent
    <2> HIDE DEF TypeOK
    <2> QED BY <1>1, <2>1, <2>2, <2>3, <2>4, <2>5 DEF Request
  <1>2. ASSUME NEW o \in Operation, PreserveTask(o)
         PROVE  TypeOK'
    <2> o.kind = "preserve"
      BY <1>2, PreserveKind
    <2>1. CASE assertPreserveAdmission(o)
      <3>1. ck' \in [Checkpoint -> CheckpointState]
        BY <2>1 DEF assertPreserveAdmission
      <3>2. op' \in [Operation -> OperationState]
        BY <2>1 DEF assertPreserveAdmission
      <3> QED BY <2>1, <3>1, <3>2 DEF assertPreserveAdmission
    <2>2. CASE linkCheckpoint(o)
      BY <2>2 DEF linkCheckpoint
    <2>3. CASE enterPreserving(o)
      BY <2>3 DEF enterPreserving, MayMove, WorkspaceState, TerminalState
    <2>4. CASE attempt(o)
      BY <2>4 DEF attempt
    <2>5. CASE revokeLeases(o)
      BY <2>5 DEF revokeLeases
    <2>6. CASE inspect(o)
      BY <2>6 DEF inspect
    <2>7. CASE runTransferPreserve(o)
      BY <2>7 DEF runTransferPreserve, Transfer, updateWorkspaceStorage
    <2>8. CASE prepareArchive(o)
      BY <2>8 DEF prepareArchive, checkpointUploadAuthority, grantUpload, Incomplete
    <2>9. CASE openGrant(o)
      BY <2>9 DEF openGrant, rowVars
    <2>10. CASE uploadSettled(o)
      BY <2>10 DEF uploadSettled, rowVars
    <2>11. CASE cleanupTransferSource(o)
      BY <2>11 DEF cleanupTransferSource
    <2>12. CASE sourceDeleted(o)
      BY <2>12 DEF sourceDeleted, updateWorkspaceStorage
    <2>13. CASE commitPreserved(o)
      BY <2>13 DEF commitPreserved, Moved, MayMove, WorkspaceState, TerminalState
    <2>14. CASE finishPreserve(o)
      BY <2>14 DEF finishPreserve
    <2>15. CASE stopForSnapshot(o)
      BY <2>15 DEF stopForSnapshot, Transfer
    <2>16. CASE createSnapshot(o)
      BY <2>16 DEF createSnapshot, updateWorkspaceStorage
    <2>17. CASE completePreserve(o)
      BY <2>17 DEF completePreserve, updateWorkspaceStorage
    <2>18. CASE detachSource(o)
      BY <2>18 DEF detachSource
    <2>19. CASE handlePreserveFailure(o)
      <3>1. ck' \in [Checkpoint -> CheckpointState]
        BY <2>19 DEF handlePreserveFailure, Moved, updateWorkspaceStorage
      <3>2. ws' \in [Workspace -> WorkspaceState \cup {"absent"}]
        BY <2>19 DEF handlePreserveFailure, Moved, updateWorkspaceStorage, WorkspaceState
      <3>3. op' \in [Operation -> OperationState]
        BY <2>19 DEF handlePreserveFailure, Moved, updateWorkspaceStorage
      <3>4. storage' \in [Workspace -> StorageState]
        BY <2>19 DEF handlePreserveFailure, Moved, updateWorkspaceStorage
      <3> QED BY <2>19, <3>1, <3>2, <3>3, <3>4 DEF handlePreserveFailure
    <2>20. CASE retainUnpublishedSource(o)
      <3>1. ck' \in [Checkpoint -> CheckpointState]
        BY <2>20 DEF retainUnpublishedSource, updateWorkspaceStorage
      <3>2. op' \in [Operation -> OperationState]
        BY <2>20 DEF retainUnpublishedSource, updateWorkspaceStorage
      <3>3. storage' \in [Workspace -> StorageState]
        BY <2>20 DEF retainUnpublishedSource, updateWorkspaceStorage
      <3> QED BY <2>20, <3>1, <3>2, <3>3 DEF retainUnpublishedSource
    <2>21. CASE abandonSource(o)
      BY <2>21 DEF abandonSource, Moved, MayMove, WorkspaceState, TerminalState
    <2> HIDE DEF TypeOK
    <2> QED BY <1>2, <2>1, <2>2, <2>3, <2>4, <2>5, <2>6, <2>7, <2>8, <2>9, <2>10, <2>11, <2>12,
         <2>13, <2>14, <2>15, <2>16, <2>17, <2>18, <2>19, <2>20, <2>21 DEF PreserveTask
  <1>3. ASSUME NEW o \in Operation, CheckpointTask(o)
         PROVE  TypeOK'
    <2>1. CASE insertRestore(o)
      BY <2>1 DEF insertRestore, insertOperation, admitIntent
    <2>2. CASE insertTarget(o)
      <3>1. ws' \in [Workspace -> WorkspaceState \cup {"absent"}]
        BY <2>2, CheckpointKind DEF insertTarget, WorkspaceState
      <3>2. op' \in [Operation -> OperationState]
        BY <2>2, CheckpointKind DEF insertTarget
      <3> QED BY <2>2, <3>1, <3>2 DEF insertTarget
    <2>3. CASE linkTarget(o)
      BY <2>3, CheckpointKind DEF linkTarget
    <2>4. CASE insertVerify(o)
      BY <2>4 DEF insertVerify, insertOperation, admitIntent
    <2>5. CASE finishVerify(o)
      <3>1. ck' \in [Checkpoint -> CheckpointState]
        BY <2>5 DEF finishVerify
      <3>2. op' \in [Operation -> OperationState]
        BY <2>5 DEF finishVerify
      <3> QED BY <2>5, <3>1, <3>2 DEF finishVerify
    <2>6. CASE insertDelete(o)
      <3>1. ck' \in [Checkpoint -> CheckpointState]
        BY <2>6 DEF insertDelete, insertOperation
      <3>2. op' \in [Operation -> OperationState]
        BY <2>6 DEF insertDelete, insertOperation
      <3> QED BY <2>6, <3>1, <3>2 DEF insertDelete, insertOperation
    <2>7. CASE acknowledgeDelete(o)
      <3>1. ck' \in [Checkpoint -> CheckpointState]
        BY <2>7 DEF acknowledgeDelete
      <3>2. op' \in [Operation -> OperationState]
        BY <2>7 DEF acknowledgeDelete
      <3> QED BY <2>7, <3>1, <3>2 DEF acknowledgeDelete
    <2>8. CASE deleteArchive(o)
      <3>1. op' \in [Operation -> OperationState]
        BY <2>8 DEF deleteArchive, removeArchive
      <3>2. archive' \in [Checkpoint -> ArchiveState]
        BY <2>8 DEF deleteArchive, removeArchive
      <3>3. cut' \subseteq Operation
        BY <2>8 DEF deleteArchive, removeArchive, Holding, OfKind
      <3> QED BY <2>8, <3>1, <3>2, <3>3 DEF deleteArchive
    <2>9. CASE commitRemoval(o)
      <3>1. upload' \in [Checkpoint -> TransferState]
        BY <2>9 DEF commitRemoval, removePublication
      <3>2. op' \in [Operation -> OperationState]
        BY <2>9 DEF commitRemoval, removePublication
      <3> QED BY <2>9, <3>1, <3>2 DEF commitRemoval
    <2>10. CASE finishDelete(o)
      BY <2>10, CheckpointKind DEF finishDelete
    <2>11. CASE cleanupPreservedStorage(o)
      <3>1. storage' \in [Workspace -> StorageState]
        BY <2>11, CheckpointKind DEF cleanupPreservedStorage, updateWorkspaceStorage
      <3> QED BY <2>11, <3>1 DEF cleanupPreservedStorage
    <2> HIDE DEF TypeOK
    <2> QED BY <1>3, <2>1, <2>2, <2>3, <2>4, <2>5, <2>6, <2>7, <2>8, <2>9, <2>10, <2>11
    DEF CheckpointTask
  <1>4. ASSUME NEW o \in Operation, PurgeTask(o)
         PROVE  TypeOK'
    <2> o.kind = "purge"
      BY <1>4, PurgeKind
    <2>1. CASE acknowledgePurge(o)
      BY <2>1 DEF acknowledgePurge, PurgeFails
    <2>2. CASE cancelCopies(o)
      BY <2>2 DEF cancelCopies, Transfer, CopiesOf, rowVars, OfKind, ContextWorkspace
    <2>3. CASE copiesSettled(o)
      BY <2>3 DEF copiesSettled, Transfer
    <2>4. ASSUME NEW r \in Operation, settleRestore(o, r)
           PROVE  TypeOK'
      BY <2>4 DEF settleRestore, OfKind, Incomplete
    <2>5. ASSUME NEW r \in Operation, endRestore(o, r)
           PROVE  TypeOK'
      BY <2>5 DEF endRestore, OfKind, Incomplete, WorkspaceState, TerminalState
    <2>6. CASE hasActiveCopies(o)
      BY <2>6 DEF hasActiveCopies, Incomplete, OfKind, PurgeFails
    <2>7. CASE endWorkspace(o)
      BY <2>7 DEF endWorkspace, Terminal, Nonterminal, PurgeFails, WorkspaceState, TerminalState
    <2>8. CASE removeProvider(o)
      BY <2>8 DEF removeProvider, PurgeFails
    <2>9. ASSUME NEW c \in Checkpoint, purgeCheckpoint(o, c)
           PROVE  TypeOK'
      <3>1. ck' \in [Checkpoint -> CheckpointState]
        BY <2>9 DEF purgeCheckpoint, removeArchive, PurgeFails
      <3>2. op' \in [Operation -> OperationState]
        BY <2>9 DEF purgeCheckpoint, removeArchive, PurgeFails
      <3>3. archive' \in [Checkpoint -> ArchiveState]
        BY <2>9 DEF purgeCheckpoint, removeArchive, PurgeFails
      <3>4. cut' \subseteq Operation
        BY <2>9 DEF purgeCheckpoint, removeArchive, Holding, OfKind
      <3> QED BY <2>9, <3>1, <3>2, <3>3, <3>4 DEF purgeCheckpoint
    <2>10. CASE forgetCheckpoint(o)
      <3>1. upload' \in [Checkpoint -> TransferState]
        BY <2>10 DEF forgetCheckpoint, removePublication, PurgeFails
      <3>2. ck' \in [Checkpoint -> CheckpointState]
        BY <2>10 DEF forgetCheckpoint, removePublication, PurgeFails
      <3>3. op' \in [Operation -> OperationState]
        BY <2>10 DEF forgetCheckpoint, removePublication, PurgeFails
      <3> QED BY <2>10, <3>1, <3>2, <3>3 DEF forgetCheckpoint
    <2>11. CASE purgeStorage(o)
      BY <2>11 DEF purgeStorage, Transfer, PurgeFails
    <2>12. CASE purgeWorkspaceContent(o)
      BY <2>12 DEF purgeWorkspaceContent
    <2> HIDE DEF TypeOK
    <2> QED BY <1>4, <2>1, <2>2, <2>3, <2>4, <2>5, <2>6, <2>7, <2>8, <2>9, <2>10, <2>11, <2>12
    DEF PurgeTask
  <1>5. ASSUME NEW o \in Operation, Transfers(o)
         PROVE  TypeOK'
    <2>1. CASE claim(o)
      BY <2>1
      DEF claim, claimUpload, claimDownload, Context, checkpointUploadAuthority,
          checkpointDownloadAuthority, Incomplete
    <2>2. CASE createArchive(o)
      BY <2>2 DEF createArchive, checkpointUploadAuthority, Context, Incomplete
    <2>3. CASE stageArchive(o)
      BY <2>3 DEF stageArchive, stage, Context, checkpointUploadAuthority, Incomplete
    <2>4. CASE sealArchive(o)
      BY <2>4 DEF sealArchive, checkpointUploadAuthority, Context, Incomplete
    <2>5. CASE publishArchive(o)
      BY <2>5 DEF publishArchive, publish, Context, checkpointUploadAuthority, Incomplete
    <2>6. CASE closeUploadOwners(o)
      BY <2>6 DEF closeUploadOwners, Context
    <2>7. CASE cleanup(o)
      <3>1. upload' \in [Checkpoint -> TransferState]
        BY <2>7 DEF cleanup, abortUpload
      <3>2. download' \in [Operation -> TransferState]
        BY <2>7 DEF cleanup, abortDownload
      <3>3. faults' \in 0 .. MaxFaults
        BY <2>7 DEF cleanup
      <3> QED BY <2>7, <3>1, <3>2, <3>3 DEF cleanup, Context
    <2>8. CASE restoreGrant(o)
      BY <2>8
      DEF restoreGrant, Up, Transfer, grantDownload, Context, checkpointDownloadAuthority,
          Incomplete
    <2>9. CASE downloadArchive(o)
      BY <2>9 DEF downloadArchive, downloaded, Context, checkpointDownloadAuthority, Incomplete
    <2>10. CASE checkpointInstalled(o)
      BY <2>10
      DEF checkpointInstalled, installed, Context, checkpointDownloadAuthority,
          completeCheckpointStorage, Incomplete, updateWorkspaceStorage
    <2>11. CASE restoreReady(o)
      BY <2>11
      DEF restoreReady, Up, completeRestore, Context, checkpointDownloadAuthority, MayMove,
          Incomplete, WorkspaceState, TerminalState
    <2> HIDE DEF TypeOK
    <2> QED BY <1>5, <2>1, <2>2, <2>3, <2>4, <2>5, <2>6, <2>7, <2>8, <2>9, <2>10, <2>11
    DEF Transfers
  <1>6. ASSUME NEW o \in Operation, TickSteps(o)
         PROVE  TypeOK'
    <2>1. CASE retryPreserve(o)
      BY <2>1 DEF retryPreserve, Up, Terminal, rowVars
    <2>2. CASE recoverRunning(o)
      BY <2>2 DEF recoverRunning, Up, Transfer, recoverPreserve, Ticking
    <2>3. CASE retryPurge(o)
      BY <2>3 DEF retryPurge, Up, Incomplete, rowVars
    <2> HIDE DEF TypeOK
    <2> QED BY <1>6, <2>1, <2>2, <2>3 DEF TickSteps
  <1>7. ASSUME NEW o \in Operation, launch(o)
         PROVE  TypeOK'
    BY <1>7
    DEF launch, Up, Transfer, updateWorkspaceStorage, Incomplete, Elsewhere, WorkspaceState,
        TerminalState
  <1>8. ASSUME NEW o \in Operation, bootstrapFails(o)
         PROVE  TypeOK'
    BY <1>8
    DEF bootstrapFails, Up, Transfer, checkpointDownloadAuthority, Elsewhere, Incomplete,
        WorkspaceState, TerminalState
  <1>9. ASSUME NEW o \in Operation, becomesReady(o)
         PROVE  TypeOK'
    BY <1>9 DEF becomesReady, Up, Transfer, MayMove, Elsewhere, WorkspaceState, TerminalState
  <1>10. ASSUME NEW w \in Workspace, sweepPreserving(w)
         PROVE  TypeOK'
    BY <1>10 DEF sweepPreserving, Up, OfKind, Incomplete, Elsewhere, WorkspaceState, TerminalState
  <1>11. ASSUME NEW w \in Workspace, cutTransfers(w)
         PROVE  TypeOK'
    BY <1>11 DEF cutTransfers, OwnContexts, Elsewhere, OfKind, ContextWorkspace
  <1>12. ASSUME NEW w \in Workspace, finalize(w)
         PROVE  TypeOK'
    BY <1>12
    DEF finalize, Up, Transfer, updateWorkspaceStorage, Incomplete, Elsewhere, WorkspaceState,
        TerminalState
  <1>13. ASSUME NEW c \in Checkpoint, removeInterrupted(c)
         PROVE  TypeOK'
    BY <1>13 DEF removeInterrupted
  <1>14. ASSUME NEW c \in Checkpoint, settleUpload(c)
         PROVE  TypeOK'
    BY <1>14 DEF settleUpload, abortUpload
  <1>15. ASSUME NEW c \in Checkpoint, verifyPublication(c)
         PROVE  TypeOK'
    BY <1>15 DEF verifyPublication, Booting
  <1>16. ASSUME NEW o \in Operation, settleDownload(o)
         PROVE  TypeOK'
    BY <1>16 DEF settleDownload, Up, abortDownload
  <1>17. ASSUME NEW o \in Operation, reconcileRestore(o)
         PROVE  TypeOK'
    BY <1>17 DEF reconcileRestore, Visit, Terminal, Booting
  <1>18. ASSUME NEW o \in Operation, reconcileVerification(o)
         PROVE  TypeOK'
    <2>1. ck' \in [Checkpoint -> CheckpointState]
      BY <1>18 DEF reconcileVerification
    <2>2. op' \in [Operation -> OperationState]
      BY <1>18 DEF reconcileVerification
    <2> QED BY <1>18, <2>1, <2>2 DEF reconcileVerification, Booting, Visit
  <1>19. ASSUME NEW o \in Operation, reconcileDeletion(o)
         PROVE  TypeOK'
    <2>1. ck' \in [Checkpoint -> CheckpointState]
      BY <1>19 DEF reconcileDeletion
    <2>2. op' \in [Operation -> OperationState]
      BY <1>19 DEF reconcileDeletion
    <2>3. upload' \in [Checkpoint -> TransferState]
      BY <1>19 DEF reconcileDeletion
    <2>4. archive' \in [Checkpoint -> ArchiveState]
      BY <1>19 DEF reconcileDeletion
    <2> QED BY <1>19, <2>1, <2>2, <2>3, <2>4 DEF reconcileDeletion, Booting
  <1>20. ASSUME NEW o \in Operation, reconcilePending(o)
         PROVE  TypeOK'
    <2>1. ck' \in [Checkpoint -> CheckpointState]
      BY <1>20 DEF reconcilePending
    <2>2. op' \in [Operation -> OperationState]
      BY <1>20 DEF reconcilePending
    <2> QED BY <1>20, <2>1, <2>2 DEF reconcilePending, Booting, Visit
  <1>21. ASSUME NEW o \in Operation, reconcileTransferred(o)
         PROVE  TypeOK'
    BY <1>21 DEF reconcileTransferred, Visit, Transfer, recoverPreserve, Booting
  <1>22. ASSUME NEW o \in Operation, reconcileSnapshot(o)
         PROVE  TypeOK'
    <2>1. ck' \in [Checkpoint -> CheckpointState]
      BY <1>22 DEF reconcileSnapshot, updateWorkspaceStorage, Moved
    <2>2. op' \in [Operation -> OperationState]
      BY <1>22 DEF reconcileSnapshot, updateWorkspaceStorage, Moved
    <2>3. storage' \in [Workspace -> StorageState]
      BY <1>22 DEF reconcileSnapshot, updateWorkspaceStorage, Moved
    <2>4. ws' \in [Workspace -> WorkspaceState \cup {"absent"}]
      BY <1>22 DEF reconcileSnapshot, updateWorkspaceStorage, Moved, WorkspaceState
    <2> QED BY <1>22, <2>1, <2>2, <2>3, <2>4 DEF reconcileSnapshot, Booting, Visit
  <1>23. ASSUME NEW o \in Operation, skipPurge(o)
         PROVE  TypeOK'
    BY <1>23 DEF skipPurge, Visit, Booting
  <1>24. ASSUME rowsVisited
         PROVE  TypeOK'
    BY <1>24 DEF rowsVisited, Incomplete, Booting
  <1>25. ASSUME started
         PROVE  TypeOK'
    BY <1>25 DEF started, Booting
  <1>26. ASSUME crash
         PROVE  TypeOK'
    BY <1>26 DEF crash, Up, Nothing, None, rowVars
  <1>27. ASSUME listRunning
         PROVE  TypeOK'
    BY <1>27 DEF listRunning, Listing, Up, None, OfKind, rowVars
  <1>28. ASSUME listPending
         PROVE  TypeOK'
    BY <1>28 DEF listPending, Listing, Up, None, OfKind, rowVars
  <1>29. ASSUME NEW w \in Workspace, beginTermination(w)
         PROVE  TypeOK'
    BY <1>29 DEF beginTermination, Up, Elsewhere, WorkspaceState, TerminalState
  <1> HIDE DEF TypeOK
  <1> QED BY <1>1, <1>2, <1>3, <1>4, <1>5, <1>6, <1>7, <1>8, <1>9, <1>10, <1>11, <1>12, <1>13,
         <1>14, <1>15, <1>16, <1>17, <1>18, <1>19, <1>20, <1>21, <1>22, <1>23, <1>24, <1>25,
         <1>26, <1>27, <1>28, <1>29
    DEF Next, Scheduling, Recovery

\* The storage mode is fixed at startup.
LEMMA ModeStep ==
    Kinds /\ Next => mode' = mode
  <1> SUFFICES ASSUME Kinds, Next
               PROVE  mode' = mode
    OBVIOUS
  <1> USE DEF rowVars, Step, Stop, Quiet, NoFault, Fault, Forget, updateOperation,
          updateCheckpoint
  <1>1. ASSUME NEW o \in Operation, Request(o)
         PROVE  mode' = mode
    <2>1. CASE preserve(o) \/ restore(o) \/ verify(o) \/ delete(o) \/ purge(o)
      BY <2>1
      DEF preserve, Up, insertOperation, admitIntent, restore, verify, delete, Incomplete,
          OfKind, purge
    <2> HIDE DEF rowVars
    <2> QED BY <1>1, <2>1 DEF Request
  <1>2. ASSUME NEW o \in Operation, PreserveTask(o)
         PROVE  mode' = mode
    <2> o.kind = "preserve"
      BY <1>2, PreserveKind
    <2>1. CASE assertPreserveAdmission(o) \/ linkCheckpoint(o) \/ enterPreserving(o)
               \/ attempt(o) \/ revokeLeases(o) \/ inspect(o) \/ runTransferPreserve(o)
               \/ prepareArchive(o) \/ openGrant(o) \/ uploadSettled(o)
      BY <2>1
      DEF assertPreserveAdmission, linkCheckpoint, enterPreserving, MayMove, attempt,
          revokeLeases, inspect, runTransferPreserve, Transfer, updateWorkspaceStorage,
          prepareArchive, checkpointUploadAuthority, grantUpload, Incomplete, openGrant,
          uploadSettled
    <2>2. CASE cleanupTransferSource(o) \/ sourceDeleted(o) \/ commitPreserved(o)
               \/ finishPreserve(o) \/ stopForSnapshot(o) \/ createSnapshot(o)
               \/ completePreserve(o) \/ detachSource(o) \/ handlePreserveFailure(o)
               \/ retainUnpublishedSource(o)
      BY <2>2
      DEF cleanupTransferSource, sourceDeleted, updateWorkspaceStorage, commitPreserved, Moved,
          MayMove, finishPreserve, stopForSnapshot, Transfer, createSnapshot, completePreserve,
          detachSource, handlePreserveFailure, retainUnpublishedSource
    <2>3. CASE abandonSource(o)
      BY <2>3 DEF abandonSource, Moved, MayMove
    <2> HIDE DEF rowVars
    <2> QED BY <1>2, <2>1, <2>2, <2>3 DEF PreserveTask
  <1>3. ASSUME NEW o \in Operation, CheckpointTask(o)
         PROVE  mode' = mode
    <2>1. CASE insertRestore(o) \/ insertTarget(o) \/ linkTarget(o) \/ insertVerify(o)
               \/ finishVerify(o) \/ insertDelete(o) \/ acknowledgeDelete(o)
               \/ deleteArchive(o) \/ commitRemoval(o) \/ finishDelete(o)
      BY <2>1, CheckpointKind
      DEF insertRestore, insertOperation, admitIntent, insertTarget, linkTarget, insertVerify,
          finishVerify, insertDelete, acknowledgeDelete, deleteArchive, removeArchive, Transfer,
          commitRemoval, removePublication, finishDelete
    <2>2. CASE cleanupPreservedStorage(o)
      BY <2>2, CheckpointKind
      DEF cleanupPreservedStorage, Transfer, Incomplete, updateWorkspaceStorage
    <2> HIDE DEF rowVars
    <2> QED BY <1>3, <2>1, <2>2 DEF CheckpointTask
  <1>4. ASSUME NEW o \in Operation, PurgeTask(o)
         PROVE  mode' = mode
    <2> o.kind = "purge"
      BY <1>4, PurgeKind
    <2>1. CASE acknowledgePurge(o) \/ cancelCopies(o) \/ copiesSettled(o) \/ hasActiveCopies(o)
               \/ endWorkspace(o) \/ removeProvider(o) \/ forgetCheckpoint(o)
               \/ purgeStorage(o) \/ purgeWorkspaceContent(o)
      BY <2>1
      DEF acknowledgePurge, PurgeFails, cancelCopies, Transfer, copiesSettled, hasActiveCopies,
          Incomplete, OfKind, endWorkspace, Terminal, Nonterminal, removeProvider,
          forgetCheckpoint, removePublication, purgeStorage, purgeWorkspaceContent
    <2>2. ASSUME NEW r \in Operation, settleRestore(o, r) \/ endRestore(o, r)
           PROVE  mode' = mode
      BY <2>2 DEF settleRestore, OfKind, Incomplete, endRestore
    <2>3. ASSUME NEW c \in Checkpoint, purgeCheckpoint(o, c)
           PROVE  mode' = mode
      BY <2>3 DEF purgeCheckpoint, Transfer, removeArchive
    <2> HIDE DEF rowVars
    <2> QED BY <1>4, <2>1, <2>2, <2>3 DEF PurgeTask
  <1>5. ASSUME NEW o \in Operation, Transfers(o)
         PROVE  mode' = mode
    <2>1. CASE claim(o) \/ createArchive(o) \/ stageArchive(o) \/ sealArchive(o)
               \/ publishArchive(o) \/ closeUploadOwners(o) \/ cleanup(o) \/ restoreGrant(o)
               \/ downloadArchive(o) \/ checkpointInstalled(o)
      BY <2>1
      DEF claim, claimUpload, claimDownload, Context, checkpointUploadAuthority,
          checkpointDownloadAuthority, Incomplete, createArchive, stageArchive, stage,
          sealArchive, publishArchive, publish, closeUploadOwners, cleanup, abortUpload,
          abortDownload, restoreGrant, Up, Transfer, grantDownload, downloadArchive, downloaded,
          checkpointInstalled, installed, completeCheckpointStorage, updateWorkspaceStorage
    <2>2. CASE restoreReady(o)
      BY <2>2
      DEF restoreReady, Up, completeRestore, Context, checkpointDownloadAuthority, MayMove,
          Incomplete
    <2> HIDE DEF rowVars
    <2> QED BY <1>5, <2>1, <2>2 DEF Transfers
  <1>6. ASSUME NEW o \in Operation, TickSteps(o)
         PROVE  mode' = mode
    <2>1. CASE retryPreserve(o) \/ recoverRunning(o) \/ retryPurge(o)
      BY <2>1
      DEF retryPreserve, Up, Terminal, recoverRunning, Transfer, recoverPreserve, Ticking,
          retryPurge, Incomplete
    <2> HIDE DEF rowVars
    <2> QED BY <1>6, <2>1 DEF TickSteps
  <1>7. ASSUME NEW o \in Operation, launch(o) \/ bootstrapFails(o) \/ becomesReady(o)
                                    \/ settleDownload(o) \/ reconcileRestore(o)
                                    \/ reconcileVerification(o) \/ reconcileDeletion(o)
                                    \/ reconcilePending(o) \/ reconcileTransferred(o)
                                    \/ reconcileSnapshot(o)
         PROVE  mode' = mode
    BY <1>7
    DEF launch, Up, Transfer, updateWorkspaceStorage, Incomplete, Elsewhere, bootstrapFails,
        checkpointDownloadAuthority, becomesReady, MayMove, settleDownload, abortDownload,
        reconcileRestore, Visit, Terminal, Booting, reconcileVerification, reconcileDeletion,
        reconcilePending, reconcileTransferred, recoverPreserve, reconcileSnapshot, Moved
  <1>8. ASSUME NEW o \in Operation, skipPurge(o)
         PROVE  mode' = mode
    BY <1>8 DEF skipPurge, Visit, Booting
  <1>9. ASSUME NEW w \in Workspace, sweepPreserving(w) \/ cutTransfers(w) \/ finalize(w)
                                    \/ beginTermination(w)
         PROVE  mode' = mode
    BY <1>9
    DEF sweepPreserving, Up, OfKind, Incomplete, Elsewhere, cutTransfers, finalize, Transfer,
        updateWorkspaceStorage, beginTermination
  <1>10. ASSUME NEW c \in Checkpoint, removeInterrupted(c) \/ settleUpload(c)
                                      \/ verifyPublication(c)
         PROVE  mode' = mode
    BY <1>10 DEF removeInterrupted, settleUpload, abortUpload, verifyPublication, Booting
  <1>11. ASSUME rowsVisited \/ started \/ crash \/ listRunning \/ listPending
         PROVE  mode' = mode
    BY <1>11
    DEF rowsVisited, Incomplete, Booting, started, crash, Up, Nothing, None, listRunning,
        Listing, OfKind, listPending
  <1> HIDE DEF rowVars
  <1> QED BY <1>1, <1>2, <1>3, <1>4, <1>5, <1>6, <1>7, <1>8, <1>9, <1>10, <1>11
    DEF Next, Scheduling, Recovery

\* The private state of the tasks stays a function.
LEMMA FunctionsStep ==
    Functions /\ Kinds /\ Next => Functions'
  <1> SUFFICES ASSUME Functions, Kinds, Next
               PROVE  Functions'
    OBVIOUS
  <1> USE DEF Functions, OperationState, Step, Stop, Quiet, NoFault, Fault, Forget,
          updateOperation, updateCheckpoint
  <1>1. ASSUME NEW o \in Operation, Request(o)
         PROVE  Functions'
    <2>1. CASE preserve(o)
      BY <2>1 DEF preserve, Up, insertOperation, admitIntent
    <2>2. CASE restore(o)
      BY <2>2 DEF restore, Up
    <2>3. CASE verify(o)
      BY <2>3 DEF verify, Up
    <2>4. CASE delete(o)
      BY <2>4 DEF delete, Up, Incomplete, OfKind
    <2>5. CASE purge(o)
      BY <2>5 DEF purge, Up, insertOperation, admitIntent
    <2> HIDE DEF Functions
    <2> QED BY <1>1, <2>1, <2>2, <2>3, <2>4, <2>5 DEF Request
  <1>2. ASSUME NEW o \in Operation, PreserveTask(o)
         PROVE  Functions'
    <2> o.kind = "preserve"
      BY <1>2, PreserveKind
    <2>1. CASE assertPreserveAdmission(o)
      BY <2>1 DEF assertPreserveAdmission
    <2>2. CASE linkCheckpoint(o)
      BY <2>2 DEF linkCheckpoint
    <2>3. CASE enterPreserving(o)
      BY <2>3 DEF enterPreserving, MayMove
    <2>4. CASE attempt(o)
      BY <2>4 DEF attempt
    <2>5. CASE revokeLeases(o)
      BY <2>5 DEF revokeLeases
    <2>6. CASE inspect(o)
      BY <2>6 DEF inspect
    <2>7. CASE runTransferPreserve(o)
      BY <2>7, SourceGoes DEF runTransferPreserve, Transfer, updateWorkspaceStorage
    <2>8. CASE prepareArchive(o)
      BY <2>8 DEF prepareArchive, checkpointUploadAuthority, grantUpload, Incomplete
    <2>9. CASE openGrant(o)
      BY <2>9 DEF openGrant, rowVars
    <2>10. CASE uploadSettled(o)
      BY <2>10 DEF uploadSettled, rowVars
    <2>11. CASE cleanupTransferSource(o)
      BY <2>11 DEF cleanupTransferSource
    <2>12. CASE sourceDeleted(o)
      BY <2>12 DEF sourceDeleted, updateWorkspaceStorage
    <2>13. CASE commitPreserved(o)
      BY <2>13 DEF commitPreserved, Moved, MayMove
    <2>14. CASE finishPreserve(o)
      BY <2>14 DEF finishPreserve
    <2>15. CASE stopForSnapshot(o)
      BY <2>15 DEF stopForSnapshot, Transfer
    <2>16. CASE createSnapshot(o)
      BY <2>16 DEF createSnapshot, updateWorkspaceStorage
    <2>17. CASE completePreserve(o)
      BY <2>17 DEF completePreserve, updateWorkspaceStorage
    <2>18. CASE detachSource(o)
      BY <2>18 DEF detachSource
    <2>19. CASE handlePreserveFailure(o)
      BY <2>19 DEF handlePreserveFailure, Transfer, updateWorkspaceStorage, Moved, MayMove
    <2>20. CASE retainUnpublishedSource(o)
      BY <2>20 DEF retainUnpublishedSource
    <2>21. CASE abandonSource(o)
      BY <2>21 DEF abandonSource, Moved, MayMove
    <2> HIDE DEF Functions
    <2> QED BY <1>2, <2>1, <2>2, <2>3, <2>4, <2>5, <2>6, <2>7, <2>8, <2>9, <2>10, <2>11, <2>12,
         <2>13, <2>14, <2>15, <2>16, <2>17, <2>18, <2>19, <2>20, <2>21 DEF PreserveTask
  <1>3. ASSUME NEW o \in Operation, CheckpointTask(o)
         PROVE  Functions'
    <2>1. CASE insertRestore(o)
      BY <2>1 DEF insertRestore, insertOperation, admitIntent
    <2>2. CASE insertTarget(o)
      BY <2>2, CheckpointKind DEF insertTarget
    <2>3. CASE linkTarget(o)
      BY <2>3, CheckpointKind DEF linkTarget
    <2>4. CASE insertVerify(o)
      BY <2>4 DEF insertVerify, insertOperation, admitIntent
    <2>5. CASE finishVerify(o)
      BY <2>5, CheckpointKind DEF finishVerify
    <2>6. CASE insertDelete(o)
      BY <2>6 DEF insertDelete, insertOperation, admitIntent
    <2>7. CASE acknowledgeDelete(o)
      BY <2>7, CheckpointKind DEF acknowledgeDelete
    <2>8. CASE deleteArchive(o)
      BY <2>8, CheckpointKind DEF deleteArchive, removeArchive, Transfer
    <2>9. CASE commitRemoval(o)
      BY <2>9 DEF commitRemoval, Transfer, removePublication
    <2>10. CASE finishDelete(o)
      BY <2>10, CheckpointKind DEF finishDelete
    <2>11. CASE cleanupPreservedStorage(o)
      BY <2>11, CheckpointKind
      DEF cleanupPreservedStorage, Transfer, Incomplete, updateWorkspaceStorage
    <2> HIDE DEF Functions
    <2> QED BY <1>3, <2>1, <2>2, <2>3, <2>4, <2>5, <2>6, <2>7, <2>8, <2>9, <2>10, <2>11
    DEF CheckpointTask
  <1>4. ASSUME NEW o \in Operation, PurgeTask(o)
         PROVE  Functions'
    <2> o.kind = "purge"
      BY <1>4, PurgeKind
    <2>1. CASE acknowledgePurge(o)
      BY <2>1 DEF acknowledgePurge, PurgeFails
    <2>2. CASE cancelCopies(o)
      BY <2>2 DEF cancelCopies, Transfer, rowVars
    <2>3. CASE copiesSettled(o)
      BY <2>3 DEF copiesSettled, Transfer
    <2>4. CASE hasActiveCopies(o)
      BY <2>4 DEF hasActiveCopies, Incomplete, OfKind, PurgeFails
    <2>5. CASE endWorkspace(o)
      BY <2>5 DEF endWorkspace, Terminal, Nonterminal, PurgeFails
    <2>6. CASE removeProvider(o)
      BY <2>6 DEF removeProvider, PurgeFails
    <2>7. ASSUME NEW c \in Checkpoint, purgeCheckpoint(o, c)
           PROVE  Functions'
      BY <2>7 DEF purgeCheckpoint, Transfer, removeArchive
    <2>8. CASE forgetCheckpoint(o)
      BY <2>8 DEF forgetCheckpoint, Transfer, removePublication, PurgeFails
    <2>9. CASE purgeStorage(o)
      BY <2>9 DEF purgeStorage, Transfer, PurgeFails
    <2>10. CASE purgeWorkspaceContent(o)
      BY <2>10 DEF purgeWorkspaceContent
    <2>11. ASSUME NEW r \in Operation, settleRestore(o, r) \/ endRestore(o, r)
           PROVE  Functions'
      BY <2>11 DEF settleRestore, OfKind, Incomplete, endRestore
    <2> HIDE DEF Functions
    <2> QED BY <1>4, <2>1, <2>2, <2>3, <2>4, <2>5, <2>6, <2>7, <2>8, <2>9, <2>10, <2>11
    DEF PurgeTask
  <1>5. ASSUME NEW o \in Operation, Transfers(o)
         PROVE  Functions'
    <2>1. CASE claim(o) \/ createArchive(o) \/ stageArchive(o) \/ sealArchive(o)
               \/ publishArchive(o) \/ closeUploadOwners(o) \/ cleanup(o) \/ restoreGrant(o)
               \/ downloadArchive(o) \/ checkpointInstalled(o)
      BY <2>1
      DEF claim, claimUpload, claimDownload, Context, checkpointUploadAuthority,
          checkpointDownloadAuthority, Incomplete, createArchive, stageArchive, stage,
          sealArchive, publishArchive, publish, closeUploadOwners, cleanup, abortUpload,
          abortDownload, restoreGrant, Up, Transfer, grantDownload, downloadArchive, downloaded,
          checkpointInstalled, installed, completeCheckpointStorage, updateWorkspaceStorage
    <2>2. CASE restoreReady(o)
      BY <2>2
      DEF restoreReady, Up, completeRestore, Context, checkpointDownloadAuthority, MayMove,
          Incomplete
    <2> HIDE DEF Functions
    <2> QED BY <1>5, <2>1, <2>2 DEF Transfers
  <1>6. ASSUME NEW o \in Operation, TickSteps(o)
         PROVE  Functions'
    <2>1. CASE retryPreserve(o)
      BY <2>1 DEF retryPreserve, Up, Terminal, rowVars
    <2>2. CASE recoverRunning(o)
      BY <2>2 DEF recoverRunning, Up, Transfer, recoverPreserve, Ticking
    <2>3. CASE retryPurge(o)
      BY <2>3 DEF retryPurge, Up, Incomplete, rowVars
    <2> HIDE DEF Functions
    <2> QED BY <1>6, <2>1, <2>2, <2>3 DEF TickSteps
  <1>7. ASSUME NEW o \in Operation, reconcileTransferred(o)
         PROVE  Functions'
    BY <1>7 DEF reconcileTransferred, Visit, Transfer, recoverPreserve, Booting
  <1>8. ASSUME crash
         PROVE  Functions'
    BY <1>8 DEF crash, Up, Nothing, None, rowVars
  <1>9. ASSUME listRunning
         PROVE  Functions'
    BY <1>9 DEF listRunning, Listing, Up, None, OfKind, rowVars
  <1>10. ASSUME listPending
         PROVE  Functions'
    BY <1>10 DEF listPending, Listing, Up, None, OfKind, rowVars
  <1>11. ASSUME NEW o \in Operation, launch(o) \/ bootstrapFails(o) \/ becomesReady(o)
                                     \/ settleDownload(o) \/ reconcileRestore(o)
                                     \/ reconcileVerification(o) \/ reconcileDeletion(o)
                                     \/ reconcilePending(o) \/ reconcileSnapshot(o)
                                     \/ skipPurge(o)
         PROVE  Functions'
    BY <1>11
    DEF launch, Up, Transfer, updateWorkspaceStorage, Incomplete, Elsewhere, bootstrapFails,
        checkpointDownloadAuthority, becomesReady, MayMove, settleDownload, abortDownload,
        reconcileRestore, Visit, Terminal, Booting, reconcileVerification, reconcileDeletion,
        reconcilePending, reconcileSnapshot, Moved, skipPurge
  <1>12. ASSUME NEW w \in Workspace, sweepPreserving(w) \/ cutTransfers(w) \/ finalize(w)
                                     \/ beginTermination(w)
         PROVE  Functions'
    BY <1>12
    DEF sweepPreserving, Up, OfKind, Incomplete, Elsewhere, cutTransfers, finalize, Transfer,
        updateWorkspaceStorage, beginTermination
  <1>13. ASSUME NEW c \in Checkpoint, removeInterrupted(c) \/ settleUpload(c)
                                      \/ verifyPublication(c)
         PROVE  Functions'
    BY <1>13 DEF removeInterrupted, settleUpload, abortUpload, verifyPublication, Booting
  <1>14. ASSUME rowsVisited \/ started
         PROVE  Functions'
    BY <1>14 DEF rowsVisited, Incomplete, Booting, started
  <1> HIDE DEF Functions
  <1> QED BY <1>1, <1>2, <1>3, <1>4, <1>5, <1>6, <1>7, <1>8, <1>9, <1>10, <1>11, <1>12, <1>13,
         <1>14
    DEF Next, Scheduling, Recovery

-------------------------------------------------------------------------------
\* Requests, tasks and the rows they have written.

\* Only insertTarget creates a target.
LEMMA BornStep ==
    Functions /\ TypeOK /\ Kinds /\ Born /\ Next => Born'
  <1> SUFFICES ASSUME Functions, TypeOK, Kinds, Born, Next
               PROVE  Born'
    OBVIOUS
  <1> USE OperationAssumption DEF Born, OfKind, TypeOK, Functions, Step, Stop, Quiet, NoFault,
          Fault, Forget, updateOperation, updateCheckpoint
  <1>1. ASSUME NEW o \in Operation, Request(o)
         PROVE  Born'
    <2>1. CASE preserve(o)
      BY <2>1 DEF preserve, Up, insertOperation, admitIntent
    <2>2. CASE restore(o)
      BY <2>2 DEF restore, Up
    <2>3. CASE verify(o)
      BY <2>3 DEF verify, Up
    <2>4. CASE delete(o)
      BY <2>4 DEF delete, Up, Incomplete
    <2>5. CASE purge(o)
      BY <2>5 DEF purge, Up, insertOperation, admitIntent
    <2> HIDE DEF Born
    <2> QED BY <1>1, <2>1, <2>2, <2>3, <2>4, <2>5 DEF Request
  <1>2. ASSUME NEW o \in Operation, PreserveTask(o)
         PROVE  Born'
    <2> o.kind = "preserve"
      BY <1>2, PreserveKind
    <2>1. CASE assertPreserveAdmission(o)
      BY <2>1 DEF assertPreserveAdmission
    <2>2. CASE linkCheckpoint(o)
      BY <2>2 DEF linkCheckpoint
    <2>3. CASE enterPreserving(o)
      BY <2>3 DEF enterPreserving, MayMove
    <2>4. CASE attempt(o)
      BY <2>4 DEF attempt
    <2>5. CASE revokeLeases(o)
      BY <2>5 DEF revokeLeases
    <2>6. CASE inspect(o)
      BY <2>6 DEF inspect
    <2>7. CASE runTransferPreserve(o)
      BY <2>7, SourceGoes DEF runTransferPreserve, Transfer, updateWorkspaceStorage
    <2>8. CASE prepareArchive(o)
      BY <2>8 DEF prepareArchive, checkpointUploadAuthority, grantUpload, Incomplete
    <2>9. CASE openGrant(o)
      BY <2>9 DEF openGrant, rowVars
    <2>10. CASE uploadSettled(o)
      BY <2>10 DEF uploadSettled, rowVars
    <2>11. CASE cleanupTransferSource(o)
      BY <2>11 DEF cleanupTransferSource
    <2>12. CASE sourceDeleted(o)
      BY <2>12 DEF sourceDeleted, updateWorkspaceStorage
    <2>13. CASE commitPreserved(o)
      BY <2>13 DEF commitPreserved, Moved, MayMove
    <2>14. CASE finishPreserve(o)
      BY <2>14 DEF finishPreserve
    <2>15. CASE stopForSnapshot(o)
      BY <2>15 DEF stopForSnapshot, Transfer
    <2>16. CASE createSnapshot(o)
      BY <2>16 DEF createSnapshot, updateWorkspaceStorage
    <2>17. CASE completePreserve(o)
      BY <2>17 DEF completePreserve, updateWorkspaceStorage
    <2>18. CASE detachSource(o)
      BY <2>18 DEF detachSource
    <2>19. CASE handlePreserveFailure(o)
      BY <2>19 DEF handlePreserveFailure, Transfer, updateWorkspaceStorage, Moved, MayMove
    <2>20. CASE retainUnpublishedSource(o)
      BY <2>20 DEF retainUnpublishedSource
    <2>21. CASE abandonSource(o)
      BY <2>21 DEF abandonSource, Moved, MayMove
    <2> HIDE DEF Born
    <2> QED BY <1>2, <2>1, <2>2, <2>3, <2>4, <2>5, <2>6, <2>7, <2>8, <2>9, <2>10, <2>11, <2>12,
         <2>13, <2>14, <2>15, <2>16, <2>17, <2>18, <2>19, <2>20, <2>21 DEF PreserveTask
  <1>3. ASSUME NEW o \in Operation, CheckpointTask(o)
         PROVE  Born'
    <2>1. CASE insertRestore(o)
      BY <2>1 DEF insertRestore, insertOperation, admitIntent
    <2>2. CASE insertTarget(o)
      BY <2>2, CheckpointKind, RequestAssumption DEF insertTarget
    <2>3. CASE linkTarget(o)
      BY <2>3, CheckpointKind DEF linkTarget
    <2>4. CASE insertVerify(o)
      BY <2>4 DEF insertVerify, insertOperation, admitIntent
    <2>5. CASE finishVerify(o)
      BY <2>5, CheckpointKind DEF finishVerify
    <2>6. CASE insertDelete(o)
      BY <2>6 DEF insertDelete, insertOperation, admitIntent
    <2>7. CASE acknowledgeDelete(o)
      BY <2>7, CheckpointKind DEF acknowledgeDelete
    <2>8. CASE deleteArchive(o)
      BY <2>8, CheckpointKind DEF deleteArchive, removeArchive, Transfer
    <2>9. CASE commitRemoval(o)
      BY <2>9 DEF commitRemoval, Transfer, removePublication
    <2>10. CASE finishDelete(o)
      BY <2>10, CheckpointKind DEF finishDelete
    <2>11. CASE cleanupPreservedStorage(o)
      BY <2>11, CheckpointKind
      DEF cleanupPreservedStorage, Transfer, Incomplete, updateWorkspaceStorage
    <2> HIDE DEF Born
    <2> QED BY <1>3, <2>1, <2>2, <2>3, <2>4, <2>5, <2>6, <2>7, <2>8, <2>9, <2>10, <2>11
    DEF CheckpointTask
  <1>4. ASSUME NEW o \in Operation, PurgeTask(o)
         PROVE  Born'
    <2> o.kind = "purge"
      BY <1>4, PurgeKind
    <2>1. CASE acknowledgePurge(o)
      BY <2>1 DEF acknowledgePurge, PurgeFails
    <2>2. CASE cancelCopies(o)
      BY <2>2 DEF cancelCopies, Transfer, rowVars
    <2>3. CASE copiesSettled(o)
      BY <2>3 DEF copiesSettled, Transfer
    <2>4. ASSUME NEW r \in Operation, settleRestore(o, r)
           PROVE  Born'
      BY <2>4 DEF settleRestore, Incomplete
    <2>5. ASSUME NEW r \in Operation, endRestore(o, r)
           PROVE  Born'
      BY <2>5, RequestAssumption DEF endRestore, Incomplete, Endable, Transfer, MayMove
    <2>6. CASE hasActiveCopies(o)
      BY <2>6 DEF hasActiveCopies, Incomplete, PurgeFails
    <2>7. CASE endWorkspace(o)
      BY <2>7 DEF endWorkspace, Terminal, Nonterminal, PurgeFails, WorkspaceState, TerminalState
    <2>8. CASE removeProvider(o)
      BY <2>8 DEF removeProvider, PurgeFails
    <2>9. ASSUME NEW c \in Checkpoint, purgeCheckpoint(o, c)
           PROVE  Born'
      BY <2>9 DEF purgeCheckpoint, Transfer, removeArchive
    <2>10. CASE forgetCheckpoint(o)
      BY <2>10 DEF forgetCheckpoint, Transfer, removePublication, PurgeFails
    <2>11. CASE purgeStorage(o)
      BY <2>11 DEF purgeStorage, Transfer, PurgeFails
    <2>12. CASE purgeWorkspaceContent(o)
      BY <2>12 DEF purgeWorkspaceContent
    <2> HIDE DEF Born
    <2> QED BY <1>4, <2>1, <2>2, <2>3, <2>4, <2>5, <2>6, <2>7, <2>8, <2>9, <2>10, <2>11, <2>12
    DEF PurgeTask
  <1>5. ASSUME NEW o \in Operation, Transfers(o)
         PROVE  Born'
    <2>1. CASE claim(o)
      BY <2>1
      DEF claim, claimUpload, claimDownload, Context, checkpointUploadAuthority,
          checkpointDownloadAuthority, Incomplete
    <2>2. CASE cleanup(o)
      BY <2>2 DEF cleanup, abortUpload, abortDownload, Context
    <2>3. CASE restoreGrant(o)
      BY <2>3
      DEF restoreGrant, Up, Transfer, grantDownload, Context, checkpointDownloadAuthority,
          Incomplete
    <2>4. CASE downloadArchive(o)
      BY <2>4 DEF downloadArchive, downloaded, Context, checkpointDownloadAuthority, Incomplete
    <2>5. CASE checkpointInstalled(o)
      BY <2>5
      DEF checkpointInstalled, installed, Context, checkpointDownloadAuthority,
          completeCheckpointStorage, Incomplete, updateWorkspaceStorage
    <2>6. CASE restoreReady(o)
      BY <2>6
      DEF restoreReady, Up, completeRestore, Context, checkpointDownloadAuthority, MayMove,
          Incomplete
    <2>7. CASE createArchive(o) \/ stageArchive(o) \/ sealArchive(o) \/ publishArchive(o)
               \/ closeUploadOwners(o)
      BY <2>7
      DEF createArchive, checkpointUploadAuthority, Context, Incomplete, stageArchive, stage,
          sealArchive, publishArchive, publish, closeUploadOwners
    <2> HIDE DEF Born
    <2> QED BY <1>5, <2>1, <2>2, <2>3, <2>4, <2>5, <2>6, <2>7 DEF Transfers
  <1>6. ASSUME NEW o \in Operation, TickSteps(o)
         PROVE  Born'
    <2>1. CASE retryPreserve(o)
      BY <2>1 DEF retryPreserve, Up, Terminal, rowVars
    <2>2. CASE recoverRunning(o)
      BY <2>2 DEF recoverRunning, Up, Transfer, recoverPreserve, Ticking
    <2>3. CASE retryPurge(o)
      BY <2>3 DEF retryPurge, Up, Incomplete, rowVars
    <2> HIDE DEF Born
    <2> QED BY <1>6, <2>1, <2>2, <2>3 DEF TickSteps
  <1>7. ASSUME NEW o \in Operation, launch(o)
         PROVE  Born'
    BY <1>7 DEF launch, Up, Transfer, updateWorkspaceStorage, Incomplete, Elsewhere
  <1>8. ASSUME NEW o \in Operation, bootstrapFails(o)
         PROVE  Born'
    BY <1>8 DEF bootstrapFails, Up, Transfer, checkpointDownloadAuthority, Elsewhere, Incomplete
  <1>9. ASSUME NEW o \in Operation, becomesReady(o)
         PROVE  Born'
    BY <1>9 DEF becomesReady, Up, Transfer, MayMove, Elsewhere
  <1>10. ASSUME NEW w \in Workspace, sweepPreserving(w)
         PROVE  Born'
    BY <1>10 DEF sweepPreserving, Up, Incomplete, Elsewhere
  <1>11. ASSUME NEW w \in Workspace, finalize(w)
         PROVE  Born'
    BY <1>11 DEF finalize, Up, Transfer, updateWorkspaceStorage, Incomplete, Elsewhere
  <1>12. ASSUME NEW o \in Operation, settleDownload(o)
         PROVE  Born'
    BY <1>12 DEF settleDownload, Up, abortDownload
  <1>13. ASSUME NEW o \in Operation, reconcileRestore(o)
         PROVE  Born'
    BY <1>13 DEF reconcileRestore, Visit, Terminal, Booting
  <1>14. ASSUME NEW o \in Operation, reconcileVerification(o)
         PROVE  Born'
    BY <1>14 DEF reconcileVerification, Visit, Transfer, Booting
  <1>15. ASSUME NEW o \in Operation, reconcileDeletion(o)
         PROVE  Born'
    BY <1>15 DEF reconcileDeletion, Transfer, Booting
  <1>16. ASSUME NEW o \in Operation, reconcilePending(o)
         PROVE  Born'
    BY <1>16 DEF reconcilePending, Visit, Transfer, Terminal, Booting
  <1>17. ASSUME NEW o \in Operation, reconcileTransferred(o)
         PROVE  Born'
    BY <1>17 DEF reconcileTransferred, Visit, Transfer, recoverPreserve, Booting
  <1>18. ASSUME NEW o \in Operation, reconcileSnapshot(o)
         PROVE  Born'
    BY <1>18
    DEF reconcileSnapshot, Visit, Transfer, updateWorkspaceStorage, Moved, Booting, MayMove
  <1>19. ASSUME crash
         PROVE  Born'
    BY <1>19 DEF crash, Up, Nothing, None, rowVars
  <1>20. ASSUME NEW w \in Workspace, beginTermination(w)
         PROVE  Born'
    BY <1>20 DEF beginTermination, Up, Elsewhere
  <1>21. ASSUME NEW w \in Workspace, cutTransfers(w)
         PROVE  Born'
    BY <1>21 DEF cutTransfers, Elsewhere
  <1>22. ASSUME NEW c \in Checkpoint, removeInterrupted(c) \/ settleUpload(c)
                                      \/ verifyPublication(c)
         PROVE  Born'
    BY <1>22 DEF removeInterrupted, settleUpload, abortUpload, verifyPublication, Booting
  <1>23. ASSUME NEW o \in Operation, skipPurge(o)
         PROVE  Born'
    BY <1>23 DEF skipPurge, Visit, Booting
  <1>24. ASSUME rowsVisited \/ started \/ listRunning \/ listPending
         PROVE  Born'
    BY <1>24
    DEF rowsVisited, Incomplete, Booting, started, listRunning, Listing, Up, None, rowVars,
        listPending
  <1> HIDE DEF Born
  <1> QED BY <1>1, <1>2, <1>3, <1>4, <1>5, <1>6, <1>7, <1>8, <1>9, <1>10, <1>11, <1>12, <1>13,
         <1>14, <1>15, <1>16, <1>17, <1>18, <1>19, <1>20, <1>21, <1>22, <1>23, <1>24
    DEF Next, Scheduling, Recovery

\* Only enterPreserving starts the work of a preserve.
LEMMA EnteredStep ==
    /\ Functions /\ TypeOK /\ Kinds /\ Born /\ Begun /\ FencedPurge
    /\ Startup /\ Tasks /\ Entered
    /\ Next
    => Entered'
  <1> SUFFICES ASSUME Functions, TypeOK, Kinds, Born, Begun, FencedPurge, Startup, Tasks,
      Entered, Next
               PROVE  Entered'
    OBVIOUS
  <1> USE OperationAssumption DEF Entered, Begun, Past, Ended, TerminalState, Decided,
          Incomplete, Runner, OfKind, TypeOK, Functions, Step, Stop, Quiet, NoFault, Fault,
          Forget, updateOperation, updateCheckpoint
  <1>1. ASSUME NEW o \in Operation, Request(o)
         PROVE  Entered'
    <2>1. CASE preserve(o)
      BY <2>1 DEF preserve, Up, insertOperation, admitIntent
    <2>2. CASE restore(o)
      BY <2>2 DEF restore, Up
    <2>3. CASE verify(o)
      BY <2>3 DEF verify, Up
    <2>4. CASE delete(o)
      BY <2>4 DEF delete, Up
    <2>5. CASE purge(o)
      BY <2>5 DEF purge, Up, insertOperation, admitIntent
    <2> HIDE DEF Entered
    <2> QED BY <1>1, <2>1, <2>2, <2>3, <2>4, <2>5 DEF Request
  <1>2. ASSUME NEW o \in Operation, PreserveTask(o)
         PROVE  Entered'
    <2> o.kind = "preserve"
      BY <1>2, PreserveKind
    <2>1. CASE assertPreserveAdmission(o)
      BY <2>1 DEF assertPreserveAdmission
    <2>2. CASE linkCheckpoint(o)
      BY <2>2 DEF linkCheckpoint
    <2>3. CASE enterPreserving(o)
      BY <2>3 DEF enterPreserving, MayMove
    <2>4. CASE attempt(o)
      <3>1. /\ pc[o] = "attempt" /\ pc' = [pc EXCEPT ![o] = "revoke"]
            /\ op' = [op EXCEPT ![o] = "pending"]
            /\ UNCHANGED <<ws, fence, ck, published, linked, listed>>
        BY <2>4 DEF attempt
      <3> QED BY <3>1
    <2>5. CASE revokeLeases(o)
      BY <2>5 DEF revokeLeases
    <2>6. CASE inspect(o)
      BY <2>6 DEF inspect
    <2>7. CASE runTransferPreserve(o)
      <3>1. /\ pc[o] = "source" /\ pc' = [pc EXCEPT ![o] = FromSource(o)]
            /\ UNCHANGED <<ws, fence, ck, published, op, linked, listed>>
        BY <2>7 DEF runTransferPreserve, Transfer, updateWorkspaceStorage
      <3> QED BY <3>1, SourceGoes
    <2>8. CASE prepareArchive(o)
      BY <2>8 DEF prepareArchive, checkpointUploadAuthority, grantUpload
    <2>9. CASE openGrant(o)
      BY <2>9 DEF openGrant, rowVars
    <2>10. CASE uploadSettled(o)
      BY <2>10 DEF uploadSettled, rowVars
    <2>11. CASE cleanupTransferSource(o)
      BY <2>11 DEF cleanupTransferSource
    <2>12. CASE sourceDeleted(o)
      BY <2>12 DEF sourceDeleted, updateWorkspaceStorage
    <2>13. CASE commitPreserved(o)
      BY <2>13 DEF commitPreserved, Moved, MayMove
    <2>14. CASE finishPreserve(o)
      BY <2>14 DEF finishPreserve
    <2>15. CASE stopForSnapshot(o)
      BY <2>15 DEF stopForSnapshot, Transfer
    <2>16. CASE createSnapshot(o)
      BY <2>16 DEF createSnapshot, updateWorkspaceStorage
    <2>17. CASE completePreserve(o)
      BY <2>17 DEF completePreserve, updateWorkspaceStorage
    <2>18. CASE detachSource(o)
      BY <2>18 DEF detachSource
    <2>19. CASE handlePreserveFailure(o)
      BY <2>19 DEF handlePreserveFailure, Transfer, updateWorkspaceStorage, Moved, MayMove
    <2>20. CASE retainUnpublishedSource(o)
      BY <2>20 DEF retainUnpublishedSource
    <2>21. CASE abandonSource(o)
      BY <2>21 DEF abandonSource, Moved, MayMove
    <2> HIDE DEF Entered
    <2> QED BY <1>2, <2>1, <2>2, <2>3, <2>4, <2>5, <2>6, <2>7, <2>8, <2>9, <2>10, <2>11, <2>12,
         <2>13, <2>14, <2>15, <2>16, <2>17, <2>18, <2>19, <2>20, <2>21 DEF PreserveTask
  <1>3. ASSUME NEW o \in Operation, CheckpointTask(o)
         PROVE  Entered'
    <2>1. CASE insertRestore(o)
      BY <2>1 DEF insertRestore, insertOperation, admitIntent
    <2>2. CASE insertTarget(o)
      BY <2>2, CheckpointKind DEF insertTarget, Born
    <2>3. CASE linkTarget(o)
      BY <2>3, CheckpointKind DEF linkTarget
    <2>4. CASE insertVerify(o)
      BY <2>4 DEF insertVerify, insertOperation, admitIntent
    <2>5. CASE finishVerify(o)
      BY <2>5, CheckpointKind DEF finishVerify
    <2>6. CASE insertDelete(o)
      BY <2>6 DEF insertDelete, insertOperation, admitIntent
    <2>7. CASE acknowledgeDelete(o)
      BY <2>7, CheckpointKind DEF acknowledgeDelete
    <2>8. CASE deleteArchive(o)
      BY <2>8, CheckpointKind DEF deleteArchive, removeArchive, Transfer
    <2>9. CASE commitRemoval(o)
      BY <2>9 DEF commitRemoval, Transfer, removePublication
    <2>10. CASE finishDelete(o)
      BY <2>10, CheckpointKind DEF finishDelete
    <2>11. CASE cleanupPreservedStorage(o)
      BY <2>11, CheckpointKind DEF cleanupPreservedStorage, Transfer, updateWorkspaceStorage
    <2> HIDE DEF Entered
    <2> QED BY <1>3, <2>1, <2>2, <2>3, <2>4, <2>5, <2>6, <2>7, <2>8, <2>9, <2>10, <2>11
    DEF CheckpointTask
  <1>4. ASSUME NEW o \in Operation, PurgeTask(o)
         PROVE  Entered'
    <2> o.kind = "purge"
      BY <1>4, PurgeKind
    <2>1. CASE acknowledgePurge(o)
      BY <2>1 DEF acknowledgePurge, PurgeFails
    <2>2. CASE cancelCopies(o)
      BY <2>2 DEF cancelCopies, Transfer, rowVars
    <2>3. CASE copiesSettled(o)
      BY <2>3 DEF copiesSettled, Transfer
    <2>4. ASSUME NEW r \in Operation, settleRestore(o, r)
           PROVE  Entered'
      BY <2>4 DEF settleRestore
    <2>5. ASSUME NEW r \in Operation, endRestore(o, r)
           PROVE  Entered'
      BY <2>5 DEF endRestore
    <2>6. CASE hasActiveCopies(o)
      BY <2>6 DEF hasActiveCopies, PurgeFails
    <2>7. CASE endWorkspace(o)
      BY <2>7 DEF endWorkspace, Terminal, Nonterminal, PurgeFails
    <2>8. CASE removeProvider(o)
      BY <2>8 DEF removeProvider, PurgeFails
    <2>9. ASSUME NEW c \in Checkpoint, purgeCheckpoint(o, c)
           PROVE  Entered'
      BY <2>9 DEF purgeCheckpoint, Transfer, removeArchive
    <2>10. CASE forgetCheckpoint(o)
      BY <2>10 DEF forgetCheckpoint, Transfer, removePublication, PurgeFails
    <2>11. CASE purgeStorage(o)
      BY <2>11 DEF purgeStorage, Transfer, PurgeFails
    <2>12. CASE purgeWorkspaceContent(o)
      BY <2>12 DEF purgeWorkspaceContent
    <2> HIDE DEF Entered
    <2> QED BY <1>4, <2>1, <2>2, <2>3, <2>4, <2>5, <2>6, <2>7, <2>8, <2>9, <2>10, <2>11, <2>12
    DEF PurgeTask
  <1>5. ASSUME NEW o \in Operation, Transfers(o)
         PROVE  Entered'
    <2>1. CASE restoreReady(o)
      BY <2>1 DEF restoreReady, Up, completeRestore, Context, checkpointDownloadAuthority, MayMove
    <2>2. CASE claim(o) \/ createArchive(o) \/ stageArchive(o) \/ sealArchive(o)
               \/ publishArchive(o) \/ closeUploadOwners(o) \/ cleanup(o) \/ restoreGrant(o)
               \/ downloadArchive(o) \/ checkpointInstalled(o)
      BY <2>2
      DEF claim, claimUpload, claimDownload, Context, checkpointUploadAuthority,
          checkpointDownloadAuthority, createArchive, stageArchive, stage, sealArchive,
          publishArchive, publish, closeUploadOwners, cleanup, abortUpload, abortDownload,
          restoreGrant, Up, Transfer, grantDownload, downloadArchive, downloaded,
          checkpointInstalled, installed, completeCheckpointStorage, updateWorkspaceStorage
    <2> HIDE DEF Entered
    <2> QED BY <1>5, <2>1, <2>2 DEF Transfers
  <1>6. ASSUME NEW o \in Operation, TickSteps(o)
         PROVE  Entered'
    <2>1. CASE retryPreserve(o)
      BY <2>1 DEF retryPreserve, Up, Terminal, rowVars
    <2>2. CASE recoverRunning(o)
      BY <2>2 DEF recoverRunning, Up, Transfer, recoverPreserve, Ticking
    <2>3. CASE retryPurge(o)
      BY <2>3 DEF retryPurge, Up, rowVars
    <2> HIDE DEF Entered
    <2> QED BY <1>6, <2>1, <2>2, <2>3 DEF TickSteps
  <1>7. ASSUME NEW o \in Operation, launch(o)
         PROVE  Entered'
    BY <1>7 DEF launch, Up, Transfer, updateWorkspaceStorage, Elsewhere
  <1>8. ASSUME NEW o \in Operation, bootstrapFails(o)
         PROVE  Entered'
    BY <1>8 DEF bootstrapFails, Up, Transfer, checkpointDownloadAuthority, Elsewhere
  <1>9. ASSUME NEW o \in Operation, becomesReady(o)
         PROVE  Entered'
    BY <1>9 DEF becomesReady, Up, Transfer, MayMove, Elsewhere
  <1>10. ASSUME NEW w \in Workspace, sweepPreserving(w)
         PROVE  Entered'
    BY <1>10 DEF sweepPreserving, Up, Elsewhere
  <1>11. ASSUME NEW w \in Workspace, finalize(w)
         PROVE  Entered'
    BY <1>11 DEF finalize, Up, Transfer, updateWorkspaceStorage, Elsewhere
  <1>12. ASSUME NEW o \in Operation, reconcileRestore(o)
         PROVE  Entered'
    BY <1>12 DEF reconcileRestore, Visit, Terminal, Booting
  <1>13. ASSUME NEW o \in Operation, reconcileVerification(o)
         PROVE  Entered'
    BY <1>13 DEF reconcileVerification, Visit, Transfer, Booting
  <1>14. ASSUME NEW o \in Operation, reconcileDeletion(o)
         PROVE  Entered'
    BY <1>14 DEF reconcileDeletion, Transfer, Booting
  <1>15. ASSUME NEW o \in Operation, reconcilePending(o)
         PROVE  Entered'
    BY <1>15 DEF reconcilePending, Visit, Transfer, Terminal, Booting
  <1>16. ASSUME NEW o \in Operation, reconcileTransferred(o)
         PROVE  Entered'
    BY <1>16 DEF reconcileTransferred, Visit, Transfer, recoverPreserve, Booting, Tasks, Startup
  <1>17. ASSUME NEW o \in Operation, reconcileSnapshot(o)
         PROVE  Entered'
    BY <1>17
    DEF reconcileSnapshot, Visit, Transfer, updateWorkspaceStorage, Moved, Booting, MayMove
  <1>18. ASSUME crash
         PROVE  Entered'
    BY <1>18 DEF crash, Up, Nothing, None, rowVars
  <1>19. ASSUME listRunning
         PROVE  Entered'
    BY <1>19 DEF listRunning, Listing, Up, None, rowVars
  <1>20. ASSUME listPending
         PROVE  Entered'
    BY <1>20 DEF listPending, Listing, Up, None, rowVars
  <1>21. ASSUME NEW w \in Workspace, beginTermination(w)
         PROVE  Entered'
    BY <1>21 DEF beginTermination, Up, Elsewhere
  <1>22. ASSUME NEW w \in Workspace, cutTransfers(w)
         PROVE  Entered'
    BY <1>22 DEF cutTransfers, Elsewhere
  <1>23. ASSUME NEW c \in Checkpoint, removeInterrupted(c) \/ settleUpload(c)
                                      \/ verifyPublication(c)
         PROVE  Entered'
    BY <1>23 DEF removeInterrupted, settleUpload, abortUpload, verifyPublication, Booting
  <1>24. ASSUME NEW o \in Operation, settleDownload(o) \/ skipPurge(o)
         PROVE  Entered'
    BY <1>24 DEF settleDownload, Up, abortDownload, skipPurge, Visit, Booting
  <1>25. ASSUME rowsVisited \/ started
         PROVE  Entered'
    BY <1>25 DEF rowsVisited, Booting, started
  <1> HIDE DEF Entered
  <1> QED BY <1>1, <1>2, <1>3, <1>4, <1>5, <1>6, <1>7, <1>8, <1>9, <1>10, <1>11, <1>12, <1>13,
         <1>14, <1>15, <1>16, <1>17, <1>18, <1>19, <1>20, <1>21, <1>22, <1>23, <1>24, <1>25
    DEF Next, Scheduling, Recovery

\* No caller and no recovery decides a row that a preserve may still fill.
LEMMA BegunStep ==
    /\ Functions /\ TypeOK /\ Kinds /\ Born /\ Entered /\ FencedPurge
    /\ Claimed /\ Startup /\ Tasks /\ Begun
    /\ Next
    => Begun'
  <1> SUFFICES ASSUME Functions, TypeOK, Kinds, Born, Entered, FencedPurge, Claimed, Startup,
      Tasks, Begun, Next
               PROVE  Begun'
    OBVIOUS
  <1> USE OperationAssumption DEF Begun, Past, Ended, TerminalState, Decided, Incomplete,
          OfKind, TypeOK, Functions, Step, Stop, Quiet, NoFault, Fault, Forget, updateOperation,
          updateCheckpoint
  <1>1. ASSUME NEW o \in Operation, Request(o)
         PROVE  Begun'
    <2>1. CASE preserve(o)
      BY <2>1 DEF preserve, Up, insertOperation, admitIntent
    <2>2. CASE restore(o)
      BY <2>2 DEF restore, Up
    <2>3. CASE verify(o)
      BY <2>3 DEF verify, Up
    <2>4. CASE delete(o)
      <3>1. ck[o.checkpoint] # "none" /\ pc' = [pc EXCEPT ![o] = "insert"]
        BY <2>4 DEF delete
      <3>2. UNCHANGED <<ws, ck, fence, op, published>>
        BY <2>4 DEF delete
      <3> QED BY <3>1, <3>2
    <2>5. CASE purge(o)
      BY <2>5 DEF purge, Up, insertOperation, admitIntent
    <2> HIDE DEF Begun
    <2> QED BY <1>1, <2>1, <2>2, <2>3, <2>4, <2>5 DEF Request
  <1>2. ASSUME NEW o \in Operation, PreserveTask(o)
         PROVE  Begun'
    <2> o.kind = "preserve"
      BY <1>2, PreserveKind
    <2>1. CASE assertPreserveAdmission(o)
      BY <2>1 DEF assertPreserveAdmission, Tasks
    <2>2. CASE linkCheckpoint(o)
      BY <2>2 DEF linkCheckpoint
    <2>3. CASE enterPreserving(o)
      BY <2>3 DEF enterPreserving, MayMove
    <2>4. CASE attempt(o)
      <3>1. /\ pc[o] = "attempt" /\ pc' = [pc EXCEPT ![o] = "revoke"]
            /\ op' = [op EXCEPT ![o] = "pending"]
            /\ UNCHANGED <<ws, fence, ck, published, linked, listed>>
        BY <2>4 DEF attempt
      <3> QED BY <3>1 DEF Entered, Runner
    <2>5. CASE revokeLeases(o)
      BY <2>5 DEF revokeLeases
    <2>6. CASE inspect(o)
      BY <2>6 DEF inspect
    <2>7. CASE runTransferPreserve(o)
      <3>1. /\ pc[o] = "source" /\ pc' = [pc EXCEPT ![o] = FromSource(o)]
            /\ UNCHANGED <<ws, fence, ck, published, op, linked, listed>>
        BY <2>7 DEF runTransferPreserve, Transfer, updateWorkspaceStorage
      <3> QED BY <3>1, SourceGoes
    <2>8. CASE prepareArchive(o)
      BY <2>8 DEF prepareArchive, checkpointUploadAuthority, grantUpload
    <2>9. CASE openGrant(o)
      BY <2>9 DEF openGrant, rowVars
    <2>10. CASE uploadSettled(o)
      BY <2>10 DEF uploadSettled, rowVars
    <2>11. CASE cleanupTransferSource(o)
      BY <2>11 DEF cleanupTransferSource
    <2>12. CASE sourceDeleted(o)
      BY <2>12 DEF sourceDeleted, updateWorkspaceStorage
    <2>13. CASE commitPreserved(o)
      BY <2>13 DEF commitPreserved, Moved, MayMove
    <2>14. CASE finishPreserve(o)
      BY <2>14 DEF finishPreserve
    <2>15. CASE stopForSnapshot(o)
      BY <2>15 DEF stopForSnapshot, Transfer
    <2>16. CASE createSnapshot(o)
      BY <2>16 DEF createSnapshot, updateWorkspaceStorage
    <2>17. CASE completePreserve(o)
      BY <2>17 DEF completePreserve, updateWorkspaceStorage, Entered, Tasks, Runner
    <2>18. CASE detachSource(o)
      BY <2>18 DEF detachSource
    <2>19. CASE handlePreserveFailure(o)
      BY <2>19 DEF handlePreserveFailure, Transfer, updateWorkspaceStorage, Moved, MayMove
    <2>20. CASE retainUnpublishedSource(o)
      BY <2>20 DEF retainUnpublishedSource
    <2>21. CASE abandonSource(o)
      BY <2>21 DEF abandonSource, Moved, MayMove
    <2> HIDE DEF Begun
    <2> QED BY <1>2, <2>1, <2>2, <2>3, <2>4, <2>5, <2>6, <2>7, <2>8, <2>9, <2>10, <2>11, <2>12,
         <2>13, <2>14, <2>15, <2>16, <2>17, <2>18, <2>19, <2>20, <2>21 DEF PreserveTask
  <1>3. ASSUME NEW o \in Operation, CheckpointTask(o)
         PROVE  Begun'
    <2>1. CASE insertRestore(o)
      BY <2>1 DEF insertRestore, insertOperation, admitIntent
    <2>2. CASE insertTarget(o)
      BY <2>2, CheckpointKind DEF insertTarget, Born
    <2>3. CASE linkTarget(o)
      BY <2>3, CheckpointKind DEF linkTarget
    <2>4. CASE insertVerify(o)
      BY <2>4 DEF insertVerify, insertOperation, admitIntent
    <2>5. CASE finishVerify(o)
      BY <2>5, CheckpointKind DEF finishVerify, Claimed
    <2>6. CASE insertDelete(o)
      BY <2>6 DEF insertDelete, insertOperation, admitIntent
    <2>7. CASE acknowledgeDelete(o)
      <3>1. /\ o.kind = "delete" /\ pc[o] = "acknowledge"
            /\ \/ /\ op' = [op EXCEPT ![o] = "running"]
                  /\ ck' = [ck EXCEPT ![o.checkpoint] = "deleting"]
                  /\ pc' \in {[pc EXCEPT ![o] = "remove"], [pc EXCEPT ![o] = "removed"]}
               \/ pc' = [pc EXCEPT ![o] = "idle"] /\ UNCHANGED <<op, ck>>
            /\ UNCHANGED <<ws, fence, published>>
        BY <2>7, CheckpointKind DEF acknowledgeDelete
      <3>2. \A p \in OfKind("preserve") : pc'[p] = pc[p] /\ op'[p] = op[p]
        BY <3>1
      <3>3. \A d \in OfKind("delete") : pc'[d] = "insert" => pc[d] = "insert"
        BY <3>1
      <3>4. Decided(o.checkpoint)
        BY <3>1 DEF Claimed
      <3>5. \A c \in Checkpoint : /\ Decided(c)' <=> Decided(c)
                                  /\ ck'[c] = "none" <=> ck[c] = "none"
                                  /\ ck'[c] = "ready" => ck[c] = "ready"
        BY <3>1, <3>4
      <3>6. \A p \in OfKind("preserve") : p.checkpoint \in Checkpoint
        OBVIOUS
      <3> QED BY <3>1, <3>2, <3>3, <3>5, <3>6
    <2>8. CASE deleteArchive(o)
      BY <2>8, CheckpointKind DEF deleteArchive, removeArchive, Transfer
    <2>9. CASE commitRemoval(o)
      BY <2>9 DEF commitRemoval, Transfer, removePublication
    <2>10. CASE finishDelete(o)
      <3>1. o.kind = "delete" /\ ck' = [ck EXCEPT ![o.checkpoint] = "deleted"]
            /\ pc' = [pc EXCEPT ![o] = "sweep"] /\ op' = [op EXCEPT ![o] = "succeeded"]
            /\ UNCHANGED <<ws, fence, published>>
        BY <2>10, CheckpointKind DEF finishDelete
      <3>2. Decided(o.checkpoint)
        BY <2>10, <3>1 DEF finishDelete, Claimed
      <3> QED BY <3>1, <3>2
    <2>11. CASE cleanupPreservedStorage(o)
      BY <2>11, CheckpointKind DEF cleanupPreservedStorage, Transfer, updateWorkspaceStorage
    <2> HIDE DEF Begun
    <2> QED BY <1>3, <2>1, <2>2, <2>3, <2>4, <2>5, <2>6, <2>7, <2>8, <2>9, <2>10, <2>11
    DEF CheckpointTask
  <1>4. ASSUME NEW o \in Operation, PurgeTask(o)
         PROVE  Begun'
    <2> o.kind = "purge"
      BY <1>4, PurgeKind
    <2>1. CASE acknowledgePurge(o)
      BY <2>1 DEF acknowledgePurge, PurgeFails
    <2>2. CASE cancelCopies(o)
      BY <2>2 DEF cancelCopies, Transfer, rowVars
    <2>3. CASE copiesSettled(o)
      BY <2>3 DEF copiesSettled, Transfer
    <2>4. ASSUME NEW r \in Operation, settleRestore(o, r)
           PROVE  Begun'
      BY <2>4 DEF settleRestore
    <2>5. ASSUME NEW r \in Operation, endRestore(o, r)
           PROVE  Begun'
      BY <2>5 DEF endRestore
    <2>6. CASE hasActiveCopies(o)
      BY <2>6 DEF hasActiveCopies, PurgeFails
    <2>7. CASE endWorkspace(o)
      BY <2>7 DEF endWorkspace, Terminal, Nonterminal, PurgeFails
    <2>8. CASE removeProvider(o)
      BY <2>8 DEF removeProvider, PurgeFails
    <2>9. ASSUME NEW c \in Checkpoint, purgeCheckpoint(o, c)
           PROVE  Begun'
      BY <2>9 DEF purgeCheckpoint, PurgeTarget, Transfer, removeArchive
    <2>10. CASE forgetCheckpoint(o)
      BY <2>10 DEF forgetCheckpoint, Transfer, removePublication, PurgeFails, FencedPurge
    <2>11. CASE purgeStorage(o)
      BY <2>11, PreserveOf
      DEF purgeStorage, CheckpointsOf, Transfer, PurgeFails, OwnerOf, FencedPurge
    <2>12. CASE purgeWorkspaceContent(o)
      BY <2>12 DEF purgeWorkspaceContent
    <2> HIDE DEF Begun
    <2> QED BY <1>4, <2>1, <2>2, <2>3, <2>4, <2>5, <2>6, <2>7, <2>8, <2>9, <2>10, <2>11, <2>12
    DEF PurgeTask
  <1>5. ASSUME NEW o \in Operation, Transfers(o)
         PROVE  Begun'
    <2>1. CASE publishArchive(o)
      BY <2>1 DEF publishArchive, publish, Context, checkpointUploadAuthority
    <2>2. CASE restoreReady(o)
      BY <2>2 DEF restoreReady, Up, completeRestore, Context, checkpointDownloadAuthority, MayMove
    <2>3. CASE claim(o) \/ createArchive(o) \/ stageArchive(o) \/ sealArchive(o)
               \/ closeUploadOwners(o) \/ cleanup(o) \/ restoreGrant(o) \/ downloadArchive(o)
               \/ checkpointInstalled(o)
      BY <2>3
      DEF claim, claimUpload, claimDownload, Context, checkpointUploadAuthority,
          checkpointDownloadAuthority, createArchive, stageArchive, stage, sealArchive,
          closeUploadOwners, cleanup, abortUpload, abortDownload, restoreGrant, Up, Transfer,
          grantDownload, downloadArchive, downloaded, checkpointInstalled, installed,
          completeCheckpointStorage, updateWorkspaceStorage
    <2> HIDE DEF Begun
    <2> QED BY <1>5, <2>1, <2>2, <2>3 DEF Transfers
  <1>6. ASSUME NEW o \in Operation, TickSteps(o)
         PROVE  Begun'
    <2>1. CASE retryPreserve(o)
      BY <2>1 DEF retryPreserve, Up, Terminal, rowVars
    <2>2. CASE recoverRunning(o)
      BY <2>2 DEF recoverRunning, Up, Transfer, recoverPreserve, Ticking
    <2>3. CASE retryPurge(o)
      BY <2>3 DEF retryPurge, Up, rowVars
    <2> HIDE DEF Begun
    <2> QED BY <1>6, <2>1, <2>2, <2>3 DEF TickSteps
  <1>7. ASSUME NEW o \in Operation, launch(o)
         PROVE  Begun'
    BY <1>7 DEF launch, Up, Transfer, updateWorkspaceStorage, Elsewhere
  <1>8. ASSUME NEW o \in Operation, bootstrapFails(o)
         PROVE  Begun'
    BY <1>8 DEF bootstrapFails, Up, Transfer, checkpointDownloadAuthority, Elsewhere
  <1>9. ASSUME NEW o \in Operation, becomesReady(o)
         PROVE  Begun'
    BY <1>9 DEF becomesReady, Up, Transfer, MayMove, Elsewhere
  <1>10. ASSUME NEW w \in Workspace, sweepPreserving(w)
         PROVE  Begun'
    BY <1>10 DEF sweepPreserving, Up, Elsewhere
  <1>11. ASSUME NEW w \in Workspace, finalize(w)
         PROVE  Begun'
    BY <1>11 DEF finalize, Up, Transfer, updateWorkspaceStorage, Elsewhere
  <1>12. ASSUME NEW c \in Checkpoint, verifyPublication(c)
         PROVE  Begun'
    BY <1>12 DEF verifyPublication, Booting
  <1>13. ASSUME NEW o \in Operation, reconcileRestore(o)
         PROVE  Begun'
    BY <1>13 DEF reconcileRestore, Visit, Terminal, Booting
  <1>14. ASSUME NEW o \in Operation, reconcileVerification(o)
         PROVE  Begun'
    BY <1>14 DEF reconcileVerification, Visit, Transfer, Booting, Claimed, Startup
  <1>15. ASSUME NEW o \in Operation, reconcileDeletion(o)
         PROVE  Begun'
    BY <1>15 DEF reconcileDeletion, Transfer, Booting, Claimed, Startup
  <1>16. ASSUME NEW o \in Operation, reconcilePending(o)
         PROVE  Begun'
    BY <1>16 DEF reconcilePending, Visit, Transfer, Terminal, Booting, Startup, Tasks
  <1>17. ASSUME NEW o \in Operation, reconcileTransferred(o)
         PROVE  Begun'
    BY <1>17 DEF reconcileTransferred, Visit, Transfer, recoverPreserve, Booting
  <1>18. ASSUME NEW o \in Operation, reconcileSnapshot(o)
         PROVE  Begun'
    BY <1>18
    DEF reconcileSnapshot, Visit, Transfer, updateWorkspaceStorage, Moved, Booting, MayMove
  <1>19. ASSUME crash
         PROVE  Begun'
    BY <1>19 DEF crash, Up, Nothing, None, rowVars
  <1>20. ASSUME NEW w \in Workspace, beginTermination(w)
         PROVE  Begun'
    BY <1>20 DEF beginTermination, Up, Elsewhere
  <1>21. ASSUME NEW w \in Workspace, cutTransfers(w)
         PROVE  Begun'
    BY <1>21 DEF cutTransfers, Elsewhere
  <1>22. ASSUME NEW c \in Checkpoint, removeInterrupted(c) \/ settleUpload(c)
         PROVE  Begun'
    BY <1>22 DEF removeInterrupted, settleUpload, abortUpload
  <1>23. ASSUME NEW o \in Operation, settleDownload(o) \/ skipPurge(o)
         PROVE  Begun'
    BY <1>23 DEF settleDownload, Up, abortDownload, skipPurge, Visit, Booting
  <1>24. ASSUME rowsVisited \/ started \/ listRunning \/ listPending
         PROVE  Begun'
    BY <1>24
    DEF rowsVisited, Booting, started, listRunning, Listing, Up, None, rowVars, listPending
  <1> HIDE DEF Begun
  <1> QED BY <1>1, <1>2, <1>3, <1>4, <1>5, <1>6, <1>7, <1>8, <1>9, <1>10, <1>11, <1>12, <1>13,
         <1>14, <1>15, <1>16, <1>17, <1>18, <1>19, <1>20, <1>21, <1>22, <1>23, <1>24
    DEF Next, Scheduling, Recovery

\* Archives are unlinked only behind a claim.
LEMMA ClaimedStep ==
    Functions /\ TypeOK /\ Kinds /\ Begun /\ Modes /\ Snapshots /\ Claimed /\ Next => Claimed'
  <1> SUFFICES ASSUME Functions, TypeOK, Kinds, Begun, Modes, Snapshots, Claimed, Next
               PROVE  Claimed'
    OBVIOUS
  <1> USE OperationAssumption DEF Begun, Claimed, Decided, Incomplete, OfKind, TypeOK,
          Functions, Step, Stop, Quiet, NoFault, Fault, Forget, updateOperation,
          updateCheckpoint
  <1>1. ASSUME NEW o \in Operation, Request(o)
         PROVE  Claimed'
    <2>1. CASE preserve(o)
      BY <2>1 DEF preserve, Up, insertOperation, admitIntent
    <2>2. CASE restore(o)
      BY <2>2 DEF restore, Up
    <2>3. CASE verify(o)
      BY <2>3 DEF verify, Up
    <2>4. CASE delete(o)
      BY <2>4, ReferenceIsSome DEF delete, Up
    <2>5. CASE purge(o)
      BY <2>5 DEF purge, Up, insertOperation, admitIntent
    <2> HIDE DEF Claimed
    <2> QED BY <1>1, <2>1, <2>2, <2>3, <2>4, <2>5 DEF Request
  <1>2. ASSUME NEW o \in Operation, PreserveTask(o)
         PROVE  Claimed'
    <2> o.kind = "preserve"
      BY <1>2, PreserveKind
    <2>1. CASE assertPreserveAdmission(o)
      BY <2>1 DEF assertPreserveAdmission
    <2>2. CASE linkCheckpoint(o)
      BY <2>2 DEF linkCheckpoint
    <2>3. CASE enterPreserving(o)
      BY <2>3 DEF enterPreserving, MayMove
    <2>4. CASE attempt(o)
      BY <2>4 DEF attempt
    <2>5. CASE revokeLeases(o)
      BY <2>5 DEF revokeLeases
    <2>6. CASE inspect(o)
      BY <2>6 DEF inspect
    <2>7. CASE runTransferPreserve(o)
      BY <2>7, SourceGoes DEF runTransferPreserve, Transfer, updateWorkspaceStorage
    <2>8. CASE prepareArchive(o)
      BY <2>8 DEF prepareArchive, checkpointUploadAuthority, grantUpload
    <2>9. CASE openGrant(o)
      BY <2>9 DEF openGrant, rowVars
    <2>10. CASE uploadSettled(o)
      BY <2>10 DEF uploadSettled, rowVars
    <2>11. CASE cleanupTransferSource(o)
      BY <2>11 DEF cleanupTransferSource
    <2>12. CASE sourceDeleted(o)
      BY <2>12 DEF sourceDeleted, updateWorkspaceStorage
    <2>13. CASE commitPreserved(o)
      BY <2>13 DEF commitPreserved, Moved, MayMove
    <2>14. CASE finishPreserve(o)
      BY <2>14 DEF finishPreserve
    <2>15. CASE stopForSnapshot(o)
      BY <2>15 DEF stopForSnapshot, Transfer
    <2>16. CASE createSnapshot(o)
      BY <2>16 DEF createSnapshot, updateWorkspaceStorage
    <2>17. CASE completePreserve(o)
      BY <2>17 DEF completePreserve, updateWorkspaceStorage, Snapshots, Modes
    <2>18. CASE detachSource(o)
      BY <2>18 DEF detachSource
    <2>19. CASE handlePreserveFailure(o)
      BY <2>19 DEF handlePreserveFailure, Transfer, updateWorkspaceStorage, Moved, MayMove
    <2>20. CASE retainUnpublishedSource(o)
      BY <2>20 DEF retainUnpublishedSource
    <2>21. CASE abandonSource(o)
      BY <2>21 DEF abandonSource, Moved, MayMove
    <2> HIDE DEF Claimed
    <2> QED BY <1>2, <2>1, <2>2, <2>3, <2>4, <2>5, <2>6, <2>7, <2>8, <2>9, <2>10, <2>11, <2>12,
         <2>13, <2>14, <2>15, <2>16, <2>17, <2>18, <2>19, <2>20, <2>21 DEF PreserveTask
  <1>3. ASSUME NEW o \in Operation, CheckpointTask(o)
         PROVE  Claimed'
    <2>1. CASE insertRestore(o)
      BY <2>1 DEF insertRestore, insertOperation, admitIntent
    <2>2. CASE insertTarget(o)
      BY <2>2, CheckpointKind DEF insertTarget
    <2>3. CASE linkTarget(o)
      BY <2>3, CheckpointKind DEF linkTarget
    <2>4. CASE insertVerify(o)
      BY <2>4 DEF insertVerify, insertOperation, admitIntent
    <2>5. CASE finishVerify(o)
      BY <2>5, CheckpointKind DEF finishVerify
    <2>6. CASE insertDelete(o)
      BY <2>6, ReferenceIsSome DEF insertDelete, insertOperation, admitIntent
    <2>7. CASE acknowledgeDelete(o)
      <3>1. /\ o.kind = "delete" /\ pc[o] = "acknowledge"
            /\ \/ /\ op' = [op EXCEPT ![o] = "running"]
                  /\ ck' = [ck EXCEPT ![o.checkpoint] = "deleting"]
                  /\ pc' = [pc EXCEPT ![o] = IF seen[o] = Reference THEN "remove" ELSE "removed"]
               \/ pc' = [pc EXCEPT ![o] = "idle"] /\ UNCHANGED <<op, ck>>
            /\ seen' = [seen EXCEPT ![o] = <<>>] /\ UNCHANGED published
        BY <2>7, CheckpointKind DEF acknowledgeDelete
      <3> QED BY <3>1, ReferenceIsSome
    <2>8. CASE deleteArchive(o)
      BY <2>8, CheckpointKind DEF deleteArchive, removeArchive, Transfer
    <2>9. CASE commitRemoval(o)
      <3>1. /\ o.kind = "delete" /\ pc[o] = "unlinked"
            /\ \/ pc' = [pc EXCEPT ![o] = "removed"] /\ op' = op
               \/ pc' = [pc EXCEPT ![o] = "idle"] /\ op' = [op EXCEPT ![o] = "failed"]
            /\ UNCHANGED <<ck, seen, published>>
        BY <2>9 DEF commitRemoval, Transfer
      <3>2. \A x \in Operation : x # o => pc'[x] = pc[x] /\ op'[x] = op[x]
        BY <3>1
      <3>3. /\ pc'[o] \in {"removed", "idle"} /\ op[o] # "none" /\ op'[o] # "none"
            /\ pc'[o] = "removed" => (o \in Incomplete)'
        BY <3>1
      <3> QED BY <3>1, <3>2, <3>3
    <2>10. CASE finishDelete(o)
      <3>1. /\ o.kind = "delete" /\ pc[o] = "removed" /\ pc' = [pc EXCEPT ![o] = "sweep"]
            /\ op' = [op EXCEPT ![o] = "succeeded"] /\ ck' = [ck EXCEPT ![o.checkpoint] = "deleted"]
            /\ UNCHANGED <<seen, published>>
        BY <2>10, CheckpointKind DEF finishDelete
      <3> QED BY <3>1
    <2>11. CASE cleanupPreservedStorage(o)
      BY <2>11, CheckpointKind DEF cleanupPreservedStorage, Transfer, updateWorkspaceStorage
    <2> HIDE DEF Claimed
    <2> QED BY <1>3, <2>1, <2>2, <2>3, <2>4, <2>5, <2>6, <2>7, <2>8, <2>9, <2>10, <2>11
    DEF CheckpointTask
  <1>4. ASSUME NEW o \in Operation, PurgeTask(o)
         PROVE  Claimed'
    <2> o.kind = "purge"
      BY <1>4, PurgeKind
    <2>1. CASE acknowledgePurge(o)
      BY <2>1 DEF acknowledgePurge, PurgeFails
    <2>2. CASE cancelCopies(o)
      BY <2>2 DEF cancelCopies, Transfer, rowVars
    <2>3. CASE copiesSettled(o)
      BY <2>3 DEF copiesSettled, Transfer
    <2>4. ASSUME NEW r \in Operation, settleRestore(o, r)
           PROVE  Claimed'
      BY <2>4 DEF settleRestore
    <2>5. CASE hasActiveCopies(o)
      BY <2>5 DEF hasActiveCopies, PurgeFails
    <2>6. CASE endWorkspace(o)
      BY <2>6 DEF endWorkspace, Terminal, Nonterminal, PurgeFails
    <2>7. CASE removeProvider(o)
      <3>1. /\ \/ pc' = [pc EXCEPT ![o] = "storage"] /\ op' = op
               \/ pc' = [pc EXCEPT ![o] = "idle"] /\ op' = [op EXCEPT ![o] = "pending"]
            /\ UNCHANGED <<ck, seen, published>>
        BY <2>7 DEF removeProvider, PurgeFails
      <3> QED BY <3>1
    <2>8. ASSUME NEW c \in Checkpoint, purgeCheckpoint(o, c)
           PROVE  Claimed'
      BY <2>8 DEF purgeCheckpoint, Transfer, removeArchive
    <2>9. CASE forgetCheckpoint(o)
      BY <2>9 DEF forgetCheckpoint, Transfer, removePublication, PurgeFails
    <2>10. CASE purgeStorage(o)
      BY <2>10 DEF purgeStorage, Transfer, PurgeFails
    <2>11. CASE purgeWorkspaceContent(o)
      BY <2>11 DEF purgeWorkspaceContent
    <2>12. ASSUME NEW r \in Operation, endRestore(o, r)
           PROVE  Claimed'
      BY <2>12 DEF endRestore
    <2> HIDE DEF Claimed
    <2> QED BY <1>4, <2>1, <2>2, <2>3, <2>4, <2>5, <2>6, <2>7, <2>8, <2>9, <2>10, <2>11, <2>12
    DEF PurgeTask
  <1>5. ASSUME NEW o \in Operation, Transfers(o)
         PROVE  Claimed'
    <2>1. CASE publishArchive(o)
      BY <2>1 DEF publishArchive, publish, Context, checkpointUploadAuthority
    <2>2. CASE restoreReady(o)
      BY <2>2 DEF restoreReady, Up, completeRestore, Context, checkpointDownloadAuthority, MayMove
    <2>3. CASE claim(o) \/ createArchive(o) \/ stageArchive(o) \/ sealArchive(o)
               \/ closeUploadOwners(o) \/ cleanup(o) \/ restoreGrant(o) \/ downloadArchive(o)
               \/ checkpointInstalled(o)
      BY <2>3
      DEF claim, claimUpload, claimDownload, Context, checkpointUploadAuthority,
          checkpointDownloadAuthority, createArchive, stageArchive, stage, sealArchive,
          closeUploadOwners, cleanup, abortUpload, abortDownload, restoreGrant, Up, Transfer,
          grantDownload, downloadArchive, downloaded, checkpointInstalled, installed,
          completeCheckpointStorage, updateWorkspaceStorage
    <2> HIDE DEF Claimed
    <2> QED BY <1>5, <2>1, <2>2, <2>3 DEF Transfers
  <1>6. ASSUME NEW o \in Operation, TickSteps(o)
         PROVE  Claimed'
    <2>1. CASE retryPreserve(o)
      BY <2>1 DEF retryPreserve, Up, Terminal, rowVars
    <2>2. CASE recoverRunning(o)
      BY <2>2 DEF recoverRunning, Up, Transfer, recoverPreserve, Ticking
    <2>3. CASE retryPurge(o)
      BY <2>3 DEF retryPurge, Up, rowVars
    <2> HIDE DEF Claimed
    <2> QED BY <1>6, <2>1, <2>2, <2>3 DEF TickSteps
  <1>7. ASSUME NEW o \in Operation, launch(o)
         PROVE  Claimed'
    BY <1>7 DEF launch, Up, Transfer, updateWorkspaceStorage, Elsewhere
  <1>8. ASSUME NEW w \in Workspace, finalize(w)
         PROVE  Claimed'
    BY <1>8 DEF finalize, Up, Transfer, updateWorkspaceStorage, Elsewhere
  <1>9. ASSUME NEW c \in Checkpoint, verifyPublication(c)
         PROVE  Claimed'
    BY <1>9 DEF verifyPublication, Booting
  <1>10. ASSUME NEW o \in Operation, reconcileRestore(o)
         PROVE  Claimed'
    BY <1>10 DEF reconcileRestore, Visit, Terminal, Booting
  <1>11. ASSUME NEW o \in Operation, reconcileVerification(o)
         PROVE  Claimed'
    BY <1>11 DEF reconcileVerification, Visit, Transfer, Booting
  <1>12. ASSUME NEW o \in Operation, reconcileDeletion(o)
         PROVE  Claimed'
    BY <1>12 DEF reconcileDeletion, Transfer, Booting
  <1>13. ASSUME NEW o \in Operation, reconcilePending(o)
         PROVE  Claimed'
    BY <1>13 DEF reconcilePending, Visit, Transfer, Terminal, Booting
  <1>14. ASSUME NEW o \in Operation, reconcileTransferred(o)
         PROVE  Claimed'
    BY <1>14 DEF reconcileTransferred, Visit, Transfer, recoverPreserve, Booting
  <1>15. ASSUME NEW o \in Operation, reconcileSnapshot(o)
         PROVE  Claimed'
    BY <1>15
    DEF reconcileSnapshot, Visit, Transfer, updateWorkspaceStorage, Moved, Booting, MayMove
  <1>16. ASSUME crash
         PROVE  Claimed'
    BY <1>16, ReferenceIsSome DEF crash, Up, Nothing, None, rowVars
  <1>17. ASSUME NEW o \in Operation, bootstrapFails(o) \/ becomesReady(o) \/ settleDownload(o)
                                     \/ skipPurge(o)
         PROVE  Claimed'
    BY <1>17
    DEF bootstrapFails, Up, Transfer, checkpointDownloadAuthority, Elsewhere, becomesReady,
        MayMove, settleDownload, abortDownload, skipPurge, Visit, Booting
  <1>18. ASSUME NEW w \in Workspace, sweepPreserving(w) \/ cutTransfers(w)
                                     \/ beginTermination(w)
         PROVE  Claimed'
    BY <1>18 DEF sweepPreserving, Up, Elsewhere, cutTransfers, beginTermination
  <1>19. ASSUME NEW c \in Checkpoint, removeInterrupted(c) \/ settleUpload(c)
         PROVE  Claimed'
    BY <1>19 DEF removeInterrupted, settleUpload, abortUpload
  <1>20. ASSUME rowsVisited \/ started \/ listRunning \/ listPending
         PROVE  Claimed'
    BY <1>20
    DEF rowsVisited, Booting, started, listRunning, Listing, Up, None, rowVars, listPending
  <1> HIDE DEF Claimed
  <1> QED BY <1>1, <1>2, <1>3, <1>4, <1>5, <1>6, <1>7, <1>8, <1>9, <1>10, <1>11, <1>12, <1>13,
         <1>14, <1>15, <1>16, <1>17, <1>18, <1>19, <1>20
    DEF Next, Scheduling, Recovery

\* The fence is never lowered.
LEMMA FencedPurgeStep ==
    Functions /\ TypeOK /\ Kinds /\ Startup /\ FencedPurge /\ Next => FencedPurge'
  <1> SUFFICES ASSUME Functions, TypeOK, Kinds, Startup, FencedPurge, Next
               PROVE  FencedPurge'
    OBVIOUS
  <1> USE OperationAssumption DEF FencedPurge, Incomplete, PurgeTarget, OfKind, TypeOK,
          Functions, Step, Stop, Quiet, NoFault, Fault, Forget, updateOperation,
          updateCheckpoint
  <1>1. ASSUME NEW o \in Operation, Request(o)
         PROVE  FencedPurge'
    <2>1. CASE preserve(o)
      BY <2>1 DEF preserve, Up, insertOperation, admitIntent
    <2>2. CASE restore(o)
      BY <2>2 DEF restore, Up
    <2>3. CASE verify(o)
      BY <2>3 DEF verify, Up
    <2>4. CASE delete(o)
      BY <2>4 DEF delete, Up
    <2>5. CASE purge(o)
      BY <2>5 DEF purge, Up, insertOperation, admitIntent
    <2> HIDE DEF FencedPurge
    <2> QED BY <1>1, <2>1, <2>2, <2>3, <2>4, <2>5 DEF Request
  <1>2. ASSUME NEW o \in Operation, PreserveTask(o)
         PROVE  FencedPurge'
    <2> o.kind = "preserve"
      BY <1>2, PreserveKind
    <2>1. CASE assertPreserveAdmission(o)
      BY <2>1 DEF assertPreserveAdmission
    <2>2. CASE linkCheckpoint(o)
      BY <2>2 DEF linkCheckpoint
    <2>3. CASE enterPreserving(o)
      BY <2>3 DEF enterPreserving, MayMove
    <2>4. CASE attempt(o)
      BY <2>4 DEF attempt
    <2>5. CASE revokeLeases(o)
      BY <2>5 DEF revokeLeases
    <2>6. CASE inspect(o)
      BY <2>6 DEF inspect
    <2>7. CASE runTransferPreserve(o)
      BY <2>7, SourceGoes DEF runTransferPreserve, Transfer, updateWorkspaceStorage
    <2>8. CASE prepareArchive(o)
      BY <2>8 DEF prepareArchive, checkpointUploadAuthority, grantUpload
    <2>9. CASE openGrant(o)
      BY <2>9 DEF openGrant, rowVars
    <2>10. CASE uploadSettled(o)
      BY <2>10 DEF uploadSettled, rowVars
    <2>11. CASE cleanupTransferSource(o)
      BY <2>11 DEF cleanupTransferSource
    <2>12. CASE sourceDeleted(o)
      BY <2>12 DEF sourceDeleted, updateWorkspaceStorage
    <2>13. CASE commitPreserved(o)
      BY <2>13 DEF commitPreserved, Moved, MayMove
    <2>14. CASE finishPreserve(o)
      BY <2>14 DEF finishPreserve
    <2>15. CASE stopForSnapshot(o)
      BY <2>15 DEF stopForSnapshot, Transfer
    <2>16. CASE createSnapshot(o)
      BY <2>16 DEF createSnapshot, updateWorkspaceStorage
    <2>17. CASE completePreserve(o)
      BY <2>17 DEF completePreserve, updateWorkspaceStorage
    <2>18. CASE detachSource(o)
      BY <2>18 DEF detachSource
    <2>19. CASE handlePreserveFailure(o)
      BY <2>19 DEF handlePreserveFailure, Transfer, updateWorkspaceStorage, Moved, MayMove
    <2>20. CASE retainUnpublishedSource(o)
      BY <2>20 DEF retainUnpublishedSource
    <2>21. CASE abandonSource(o)
      BY <2>21 DEF abandonSource, Moved, MayMove
    <2> HIDE DEF FencedPurge
    <2> QED BY <1>2, <2>1, <2>2, <2>3, <2>4, <2>5, <2>6, <2>7, <2>8, <2>9, <2>10, <2>11, <2>12,
         <2>13, <2>14, <2>15, <2>16, <2>17, <2>18, <2>19, <2>20, <2>21 DEF PreserveTask
  <1>3. ASSUME NEW o \in Operation, CheckpointTask(o)
         PROVE  FencedPurge'
    <2>1. CASE insertRestore(o)
      BY <2>1 DEF insertRestore, insertOperation, admitIntent
    <2>2. CASE insertTarget(o)
      BY <2>2, CheckpointKind DEF insertTarget
    <2>3. CASE linkTarget(o)
      BY <2>3, CheckpointKind DEF linkTarget
    <2>4. CASE insertVerify(o)
      BY <2>4 DEF insertVerify, insertOperation, admitIntent
    <2>5. CASE finishVerify(o)
      BY <2>5, CheckpointKind DEF finishVerify
    <2>6. CASE insertDelete(o)
      BY <2>6 DEF insertDelete, insertOperation, admitIntent
    <2>7. CASE acknowledgeDelete(o)
      BY <2>7, CheckpointKind DEF acknowledgeDelete
    <2>8. CASE deleteArchive(o)
      BY <2>8, CheckpointKind DEF deleteArchive, removeArchive, Transfer
    <2>9. CASE commitRemoval(o)
      BY <2>9 DEF commitRemoval, Transfer, removePublication
    <2>10. CASE finishDelete(o)
      BY <2>10, CheckpointKind DEF finishDelete
    <2>11. CASE cleanupPreservedStorage(o)
      BY <2>11, CheckpointKind DEF cleanupPreservedStorage, Transfer, updateWorkspaceStorage
    <2> HIDE DEF FencedPurge
    <2> QED BY <1>3, <2>1, <2>2, <2>3, <2>4, <2>5, <2>6, <2>7, <2>8, <2>9, <2>10, <2>11
    DEF CheckpointTask
  <1>4. ASSUME NEW o \in Operation, PurgeTask(o)
         PROVE  FencedPurge'
    <2> o.kind = "purge"
      BY <1>4, PurgeKind
    <2>1. CASE acknowledgePurge(o)
      BY <2>1 DEF acknowledgePurge, PurgeFails
    <2>2. CASE cancelCopies(o)
      BY <2>2 DEF cancelCopies, Transfer, rowVars
    <2>3. CASE copiesSettled(o)
      BY <2>3 DEF copiesSettled, Transfer
    <2>4. ASSUME NEW r \in Operation, settleRestore(o, r)
           PROVE  FencedPurge'
      BY <2>4 DEF settleRestore
    <2>5. ASSUME NEW r \in Operation, endRestore(o, r)
           PROVE  FencedPurge'
      BY <2>5 DEF endRestore
    <2>6. CASE hasActiveCopies(o)
      BY <2>6 DEF hasActiveCopies, PurgeFails
    <2>7. CASE endWorkspace(o)
      BY <2>7 DEF endWorkspace, Terminal, Nonterminal, PurgeFails
    <2>8. CASE removeProvider(o)
      BY <2>8 DEF removeProvider, PurgeFails
    <2>9. ASSUME NEW c \in Checkpoint, purgeCheckpoint(o, c)
           PROVE  FencedPurge'
      BY <2>9 DEF purgeCheckpoint, Transfer, removeArchive
    <2>10. CASE forgetCheckpoint(o)
      BY <2>10 DEF forgetCheckpoint, Transfer, removePublication, PurgeFails
    <2>11. CASE purgeStorage(o)
      BY <2>11 DEF purgeStorage, Transfer, PurgeFails
    <2>12. CASE purgeWorkspaceContent(o)
      BY <2>12 DEF purgeWorkspaceContent
    <2> HIDE DEF FencedPurge
    <2> QED BY <1>4, <2>1, <2>2, <2>3, <2>4, <2>5, <2>6, <2>7, <2>8, <2>9, <2>10, <2>11, <2>12
    DEF PurgeTask
  <1>5. ASSUME NEW o \in Operation, Transfers(o)
         PROVE  FencedPurge'
    <2>1. CASE publishArchive(o)
      BY <2>1 DEF publishArchive, publish, Context, checkpointUploadAuthority
    <2>2. CASE restoreReady(o)
      BY <2>2 DEF restoreReady, Up, completeRestore, Context, checkpointDownloadAuthority, MayMove
    <2>3. CASE claim(o) \/ createArchive(o) \/ stageArchive(o) \/ sealArchive(o)
               \/ closeUploadOwners(o) \/ cleanup(o) \/ restoreGrant(o) \/ downloadArchive(o)
               \/ checkpointInstalled(o)
      BY <2>3
      DEF claim, claimUpload, claimDownload, Context, checkpointUploadAuthority,
          checkpointDownloadAuthority, createArchive, stageArchive, stage, sealArchive,
          closeUploadOwners, cleanup, abortUpload, abortDownload, restoreGrant, Up, Transfer,
          grantDownload, downloadArchive, downloaded, checkpointInstalled, installed,
          completeCheckpointStorage, updateWorkspaceStorage
    <2> HIDE DEF FencedPurge
    <2> QED BY <1>5, <2>1, <2>2, <2>3 DEF Transfers
  <1>6. ASSUME NEW o \in Operation, TickSteps(o)
         PROVE  FencedPurge'
    <2>1. CASE retryPreserve(o)
      BY <2>1 DEF retryPreserve, Up, Terminal, rowVars
    <2>2. CASE recoverRunning(o)
      BY <2>2 DEF recoverRunning, Up, Transfer, recoverPreserve, Ticking
    <2>3. CASE retryPurge(o)
      BY <2>3 DEF retryPurge, Up, rowVars
    <2> HIDE DEF FencedPurge
    <2> QED BY <1>6, <2>1, <2>2, <2>3 DEF TickSteps
  <1>7. ASSUME NEW o \in Operation, launch(o)
         PROVE  FencedPurge'
    BY <1>7 DEF launch, Up, Transfer, updateWorkspaceStorage, Elsewhere
  <1>8. ASSUME NEW o \in Operation, bootstrapFails(o)
         PROVE  FencedPurge'
    BY <1>8 DEF bootstrapFails, Up, Transfer, checkpointDownloadAuthority, Elsewhere
  <1>9. ASSUME NEW o \in Operation, becomesReady(o)
         PROVE  FencedPurge'
    BY <1>9 DEF becomesReady, Up, Transfer, MayMove, Elsewhere
  <1>10. ASSUME NEW w \in Workspace, sweepPreserving(w)
         PROVE  FencedPurge'
    BY <1>10 DEF sweepPreserving, Up, Elsewhere
  <1>11. ASSUME NEW w \in Workspace, finalize(w)
         PROVE  FencedPurge'
    BY <1>11 DEF finalize, Up, Transfer, updateWorkspaceStorage, Elsewhere
  <1>12. ASSUME NEW o \in Operation, reconcileRestore(o)
         PROVE  FencedPurge'
    BY <1>12 DEF reconcileRestore, Visit, Terminal, Booting
  <1>13. ASSUME NEW o \in Operation, reconcileVerification(o)
         PROVE  FencedPurge'
    BY <1>13 DEF reconcileVerification, Visit, Transfer, Booting
  <1>14. ASSUME NEW o \in Operation, reconcileDeletion(o)
         PROVE  FencedPurge'
    BY <1>14 DEF reconcileDeletion, Transfer, Booting
  <1>15. ASSUME NEW o \in Operation, reconcilePending(o)
         PROVE  FencedPurge'
    BY <1>15 DEF reconcilePending, Visit, Transfer, Terminal, Booting
  <1>16. ASSUME NEW o \in Operation, reconcileTransferred(o)
         PROVE  FencedPurge'
    BY <1>16 DEF reconcileTransferred, Visit, Transfer, recoverPreserve, Booting
  <1>17. ASSUME NEW o \in Operation, reconcileSnapshot(o)
         PROVE  FencedPurge'
    BY <1>17
    DEF reconcileSnapshot, Visit, Transfer, updateWorkspaceStorage, Moved, Booting, MayMove
  <1>18. ASSUME crash
         PROVE  FencedPurge'
    BY <1>18 DEF crash, Up, Nothing, None, rowVars
  <1>19. ASSUME NEW w \in Workspace, beginTermination(w)
         PROVE  FencedPurge'
    BY <1>19 DEF beginTermination, Up, Elsewhere
  <1>20. ASSUME NEW w \in Workspace, cutTransfers(w)
         PROVE  FencedPurge'
    BY <1>20 DEF cutTransfers, Elsewhere
  <1>21. ASSUME NEW c \in Checkpoint, removeInterrupted(c) \/ settleUpload(c)
                                      \/ verifyPublication(c)
         PROVE  FencedPurge'
    BY <1>21 DEF removeInterrupted, settleUpload, abortUpload, verifyPublication, Booting
  <1>22. ASSUME NEW o \in Operation, settleDownload(o) \/ skipPurge(o)
         PROVE  FencedPurge'
    BY <1>22 DEF settleDownload, Up, abortDownload, skipPurge, Visit, Booting
  <1>23. ASSUME rowsVisited \/ started \/ listRunning \/ listPending
         PROVE  FencedPurge'
    BY <1>23
    DEF rowsVisited, Booting, started, listRunning, Listing, Up, None, rowVars, listPending
  <1> HIDE DEF FencedPurge
  <1> QED BY <1>1, <1>2, <1>3, <1>4, <1>5, <1>6, <1>7, <1>8, <1>9, <1>10, <1>11, <1>12, <1>13,
         <1>14, <1>15, <1>16, <1>17, <1>18, <1>19, <1>20, <1>21, <1>22, <1>23
    DEF Next, Scheduling, Recovery

\* Recovery stays alone until it is done.
LEMMA StartupStep ==
    Functions /\ TypeOK /\ Kinds /\ Startup /\ Next => Startup'
  <1> SUFFICES ASSUME Functions, TypeOK, Kinds, Startup, Next
               PROVE  Startup'
    OBVIOUS
  <1> USE OperationAssumption DEF Startup, Incomplete, Up, OfKind, TypeOK, Functions, Step,
          Stop, Quiet, NoFault, Fault, Forget, updateOperation, updateCheckpoint
  <1>1. ASSUME NEW o \in Operation, Request(o)
         PROVE  Startup'
    <2>1. CASE preserve(o)
      BY <2>1 DEF preserve, insertOperation, admitIntent
    <2>2. CASE restore(o)
      BY <2>2 DEF restore
    <2>3. CASE verify(o)
      BY <2>3 DEF verify
    <2>4. CASE delete(o)
      BY <2>4 DEF delete
    <2>5. CASE purge(o)
      BY <2>5 DEF purge, insertOperation, admitIntent
    <2> HIDE DEF Startup
    <2> QED BY <1>1, <2>1, <2>2, <2>3, <2>4, <2>5 DEF Request
  <1>2. ASSUME NEW o \in Operation, PreserveTask(o)
         PROVE  Startup'
    <2> o.kind = "preserve"
      BY <1>2, PreserveKind
    <2>1. CASE assertPreserveAdmission(o)
      BY <2>1 DEF assertPreserveAdmission
    <2>2. CASE linkCheckpoint(o)
      BY <2>2 DEF linkCheckpoint
    <2>3. CASE enterPreserving(o)
      BY <2>3 DEF enterPreserving, MayMove
    <2>4. CASE attempt(o)
      BY <2>4 DEF attempt
    <2>5. CASE revokeLeases(o)
      BY <2>5 DEF revokeLeases
    <2>6. CASE inspect(o)
      BY <2>6 DEF inspect
    <2>7. CASE runTransferPreserve(o)
      BY <2>7, SourceGoes DEF runTransferPreserve, Transfer, updateWorkspaceStorage
    <2>8. CASE prepareArchive(o)
      BY <2>8 DEF prepareArchive, checkpointUploadAuthority, grantUpload
    <2>9. CASE openGrant(o)
      BY <2>9 DEF openGrant, rowVars
    <2>10. CASE uploadSettled(o)
      BY <2>10 DEF uploadSettled, rowVars
    <2>11. CASE cleanupTransferSource(o)
      BY <2>11 DEF cleanupTransferSource
    <2>12. CASE sourceDeleted(o)
      BY <2>12 DEF sourceDeleted, updateWorkspaceStorage
    <2>13. CASE commitPreserved(o)
      BY <2>13 DEF commitPreserved, Moved, MayMove
    <2>14. CASE finishPreserve(o)
      BY <2>14 DEF finishPreserve
    <2>15. CASE stopForSnapshot(o)
      BY <2>15 DEF stopForSnapshot, Transfer
    <2>16. CASE createSnapshot(o)
      BY <2>16 DEF createSnapshot, updateWorkspaceStorage
    <2>17. CASE completePreserve(o)
      BY <2>17 DEF completePreserve, updateWorkspaceStorage
    <2>18. CASE detachSource(o)
      BY <2>18 DEF detachSource
    <2>19. CASE handlePreserveFailure(o)
      BY <2>19 DEF handlePreserveFailure, Transfer, updateWorkspaceStorage, Moved, MayMove
    <2>20. CASE retainUnpublishedSource(o)
      BY <2>20 DEF retainUnpublishedSource
    <2>21. CASE abandonSource(o)
      BY <2>21 DEF abandonSource, Moved, MayMove
    <2> HIDE DEF Startup
    <2> QED BY <1>2, <2>1, <2>2, <2>3, <2>4, <2>5, <2>6, <2>7, <2>8, <2>9, <2>10, <2>11, <2>12,
         <2>13, <2>14, <2>15, <2>16, <2>17, <2>18, <2>19, <2>20, <2>21 DEF PreserveTask
  <1>3. ASSUME NEW o \in Operation, CheckpointTask(o)
         PROVE  Startup'
    <2>1. CASE insertRestore(o)
      BY <2>1 DEF insertRestore, insertOperation, admitIntent
    <2>2. CASE insertTarget(o)
      BY <2>2, CheckpointKind DEF insertTarget
    <2>3. CASE linkTarget(o)
      BY <2>3, CheckpointKind DEF linkTarget
    <2>4. CASE insertVerify(o)
      BY <2>4 DEF insertVerify, insertOperation, admitIntent
    <2>5. CASE finishVerify(o)
      BY <2>5, CheckpointKind DEF finishVerify
    <2>6. CASE insertDelete(o)
      BY <2>6 DEF insertDelete, insertOperation, admitIntent
    <2>7. CASE acknowledgeDelete(o)
      BY <2>7, CheckpointKind DEF acknowledgeDelete
    <2>8. CASE deleteArchive(o)
      BY <2>8, CheckpointKind DEF deleteArchive, removeArchive, Transfer
    <2>9. CASE commitRemoval(o)
      BY <2>9 DEF commitRemoval, Transfer, removePublication
    <2>10. CASE finishDelete(o)
      BY <2>10, CheckpointKind DEF finishDelete
    <2>11. CASE cleanupPreservedStorage(o)
      BY <2>11, CheckpointKind DEF cleanupPreservedStorage, Transfer, updateWorkspaceStorage
    <2> HIDE DEF Startup
    <2> QED BY <1>3, <2>1, <2>2, <2>3, <2>4, <2>5, <2>6, <2>7, <2>8, <2>9, <2>10, <2>11
    DEF CheckpointTask
  <1>4. ASSUME NEW o \in Operation, PurgeTask(o)
         PROVE  Startup'
    <2> o.kind = "purge"
      BY <1>4, PurgeKind
    <2>1. CASE acknowledgePurge(o)
      BY <2>1 DEF acknowledgePurge, PurgeFails
    <2>2. CASE cancelCopies(o)
      BY <2>2 DEF cancelCopies, Transfer, rowVars
    <2>3. CASE copiesSettled(o)
      BY <2>3 DEF copiesSettled, Transfer
    <2>4. ASSUME NEW r \in Operation, settleRestore(o, r)
           PROVE  Startup'
      BY <2>4 DEF settleRestore
    <2>5. CASE hasActiveCopies(o)
      BY <2>5 DEF hasActiveCopies, PurgeFails
    <2>6. CASE endWorkspace(o)
      BY <2>6 DEF endWorkspace, Terminal, Nonterminal, PurgeFails
    <2>7. CASE removeProvider(o)
      BY <2>7 DEF removeProvider, PurgeFails
    <2>8. ASSUME NEW c \in Checkpoint, purgeCheckpoint(o, c)
           PROVE  Startup'
      BY <2>8 DEF purgeCheckpoint, Transfer, removeArchive
    <2>9. CASE forgetCheckpoint(o)
      BY <2>9 DEF forgetCheckpoint, Transfer, removePublication, PurgeFails
    <2>10. CASE purgeStorage(o)
      BY <2>10 DEF purgeStorage, Transfer, PurgeFails
    <2>11. CASE purgeWorkspaceContent(o)
      BY <2>11 DEF purgeWorkspaceContent
    <2>12. ASSUME NEW r \in Operation, endRestore(o, r)
           PROVE  Startup'
      BY <2>12 DEF endRestore
    <2> HIDE DEF Startup
    <2> QED BY <1>4, <2>1, <2>2, <2>3, <2>4, <2>5, <2>6, <2>7, <2>8, <2>9, <2>10, <2>11, <2>12
    DEF PurgeTask
  <1>5. ASSUME NEW o \in Operation, Transfers(o)
         PROVE  Startup'
    <2>1. CASE restoreReady(o)
      BY <2>1 DEF restoreReady, completeRestore, Context, checkpointDownloadAuthority, MayMove
    <2>2. CASE claim(o) \/ createArchive(o) \/ stageArchive(o) \/ sealArchive(o)
               \/ publishArchive(o) \/ closeUploadOwners(o) \/ cleanup(o) \/ restoreGrant(o)
               \/ downloadArchive(o) \/ checkpointInstalled(o)
      BY <2>2
      DEF claim, claimUpload, claimDownload, Context, checkpointUploadAuthority,
          checkpointDownloadAuthority, createArchive, stageArchive, stage, sealArchive,
          publishArchive, publish, closeUploadOwners, cleanup, abortUpload, abortDownload,
          restoreGrant, Transfer, grantDownload, downloadArchive, downloaded,
          checkpointInstalled, installed, completeCheckpointStorage, updateWorkspaceStorage
    <2> HIDE DEF Startup
    <2> QED BY <1>5, <2>1, <2>2 DEF Transfers
  <1>6. ASSUME NEW o \in Operation, TickSteps(o)
         PROVE  Startup'
    <2>1. CASE retryPreserve(o)
      BY <2>1 DEF retryPreserve, Terminal, rowVars
    <2>2. CASE recoverRunning(o)
      BY <2>2 DEF recoverRunning, Transfer, recoverPreserve, Ticking
    <2>3. CASE retryPurge(o)
      BY <2>3 DEF retryPurge, rowVars
    <2> HIDE DEF Startup
    <2> QED BY <1>6, <2>1, <2>2, <2>3 DEF TickSteps
  <1>7. ASSUME NEW o \in Operation, launch(o)
         PROVE  Startup'
    BY <1>7 DEF launch, Transfer, updateWorkspaceStorage, Elsewhere
  <1>8. ASSUME NEW w \in Workspace, finalize(w)
         PROVE  Startup'
    BY <1>8 DEF finalize, Transfer, updateWorkspaceStorage, Elsewhere
  <1>9. ASSUME NEW c \in Checkpoint, settleUpload(c)
         PROVE  Startup'
    BY <1>9 DEF settleUpload, abortUpload
  <1>10. ASSUME NEW c \in Checkpoint, verifyPublication(c)
         PROVE  Startup'
    BY <1>10 DEF verifyPublication, Booting
  <1>11. ASSUME NEW o \in Operation, reconcileRestore(o)
         PROVE  Startup'
    BY <1>11 DEF reconcileRestore, Visit, Terminal, Booting
  <1>12. ASSUME NEW o \in Operation, reconcileVerification(o)
         PROVE  Startup'
    BY <1>12 DEF reconcileVerification, Visit, Transfer, Booting
  <1>13. ASSUME NEW o \in Operation, reconcileDeletion(o)
         PROVE  Startup'
    BY <1>13 DEF reconcileDeletion, Transfer, Booting
  <1>14. ASSUME NEW o \in Operation, reconcilePending(o)
         PROVE  Startup'
    BY <1>14 DEF reconcilePending, Visit, Transfer, Terminal, Booting
  <1>15. ASSUME NEW o \in Operation, reconcileTransferred(o)
         PROVE  Startup'
    BY <1>15 DEF reconcileTransferred, Visit, Transfer, recoverPreserve, Booting
  <1>16. ASSUME NEW o \in Operation, reconcileSnapshot(o)
         PROVE  Startup'
    BY <1>16
    DEF reconcileSnapshot, Visit, Transfer, updateWorkspaceStorage, Moved, Booting, MayMove
  <1>17. ASSUME NEW o \in Operation, skipPurge(o)
         PROVE  Startup'
    BY <1>17 DEF skipPurge, Visit, Booting
  <1>18. ASSUME rowsVisited
         PROVE  Startup'
    BY <1>18 DEF rowsVisited, Booting
  <1>19. ASSUME started
         PROVE  Startup'
    BY <1>19 DEF started, Booting
  <1>20. ASSUME crash
         PROVE  Startup'
    BY <1>20 DEF crash, Nothing, None, rowVars
  <1>21. ASSUME NEW o \in Operation, bootstrapFails(o) \/ becomesReady(o) \/ settleDownload(o)
         PROVE  Startup'
    BY <1>21
    DEF bootstrapFails, Transfer, checkpointDownloadAuthority, Elsewhere, becomesReady, MayMove,
        settleDownload, abortDownload
  <1>22. ASSUME NEW w \in Workspace, sweepPreserving(w) \/ cutTransfers(w)
                                     \/ beginTermination(w)
         PROVE  Startup'
    BY <1>22 DEF sweepPreserving, Elsewhere, cutTransfers, beginTermination
  <1>23. ASSUME NEW c \in Checkpoint, removeInterrupted(c)
         PROVE  Startup'
    BY <1>23 DEF removeInterrupted
  <1>24. ASSUME listRunning \/ listPending
         PROVE  Startup'
    BY <1>24 DEF listRunning, Listing, None, rowVars, listPending
  <1> HIDE DEF Startup
  <1> QED BY <1>1, <1>2, <1>3, <1>4, <1>5, <1>6, <1>7, <1>8, <1>9, <1>10, <1>11, <1>12, <1>13,
         <1>14, <1>15, <1>16, <1>17, <1>18, <1>19, <1>20, <1>21, <1>22, <1>23, <1>24
    DEF Next, Scheduling, Recovery

\* A restored target does not lose its files before it is ready.
LEMMA RestoredStep ==
    Functions /\ TypeOK /\ Kinds /\ Born /\ Entered /\ FencedPurge /\ Restored /\ Next => Restored'
  <1> SUFFICES ASSUME Functions, TypeOK, Kinds, Born, Entered, FencedPurge, Restored, Next
               PROVE  Restored'
    OBVIOUS
  <1> USE OperationAssumption DEF Restored, Born, Entered, FencedPurge, Past, Ended,
          TerminalState, Incomplete, Transfer, Runner, OfKind, TypeOK, Functions, Step, Stop,
          Quiet, NoFault, Fault, Forget, updateOperation, updateCheckpoint
  <1>1. ASSUME NEW o \in Operation, Request(o)
         PROVE  Restored'
    <2>1. CASE preserve(o)
      BY <2>1 DEF preserve, Up, insertOperation, admitIntent
    <2>2. CASE purge(o)
      BY <2>2 DEF purge, Up, insertOperation, admitIntent
    <2>3. CASE restore(o) \/ verify(o) \/ delete(o)
      BY <2>3 DEF restore, Up, verify, delete
    <2> HIDE DEF Restored
    <2> QED BY <1>1, <2>1, <2>2, <2>3 DEF Request
  <1>2. ASSUME NEW o \in Operation, PreserveTask(o)
         PROVE  Restored'
    <2> o.kind = "preserve"
      BY <1>2, PreserveKind
    <2>1. CASE enterPreserving(o)
      BY <2>1 DEF enterPreserving, MayMove
    <2>2. CASE runTransferPreserve(o)
      BY <2>2 DEF runTransferPreserve, updateWorkspaceStorage
    <2>3. CASE sourceDeleted(o)
      BY <2>3 DEF sourceDeleted, updateWorkspaceStorage
    <2>4. CASE commitPreserved(o)
      BY <2>4 DEF commitPreserved, Moved, MayMove
    <2>5. CASE createSnapshot(o)
      BY <2>5 DEF createSnapshot, updateWorkspaceStorage
    <2>6. CASE completePreserve(o)
      BY <2>6 DEF completePreserve, updateWorkspaceStorage
    <2>7. CASE handlePreserveFailure(o)
      BY <2>7 DEF handlePreserveFailure, updateWorkspaceStorage, Moved, MayMove
    <2>8. CASE retainUnpublishedSource(o)
      BY <2>8 DEF retainUnpublishedSource
    <2>9. CASE abandonSource(o)
      BY <2>9 DEF abandonSource, Moved, MayMove
    <2>10. CASE assertPreserveAdmission(o) \/ linkCheckpoint(o) \/ attempt(o) \/ revokeLeases(o)
               \/ inspect(o) \/ prepareArchive(o) \/ openGrant(o) \/ uploadSettled(o)
               \/ cleanupTransferSource(o) \/ finishPreserve(o)
      BY <2>10
      DEF assertPreserveAdmission, linkCheckpoint, attempt, revokeLeases, inspect,
          prepareArchive, checkpointUploadAuthority, grantUpload, openGrant, rowVars,
          uploadSettled, cleanupTransferSource, finishPreserve
    <2>11. CASE stopForSnapshot(o) \/ detachSource(o)
      BY <2>11 DEF stopForSnapshot, detachSource
    <2> HIDE DEF Restored
    <2> QED BY <1>2, <2>1, <2>2, <2>3, <2>4, <2>5, <2>6, <2>7, <2>8, <2>9, <2>10, <2>11
    DEF PreserveTask
  <1>3. ASSUME NEW o \in Operation, CheckpointTask(o)
         PROVE  Restored'
    <2>1. CASE insertRestore(o)
      BY <2>1 DEF insertRestore, insertOperation, admitIntent
    <2>2. CASE insertTarget(o)
      BY <2>2, CheckpointKind DEF insertTarget
    <2>3. CASE insertVerify(o)
      BY <2>3 DEF insertVerify, insertOperation, admitIntent
    <2>4. CASE insertDelete(o)
      BY <2>4 DEF insertDelete, insertOperation, admitIntent
    <2>5. CASE cleanupPreservedStorage(o)
      BY <2>5, CheckpointKind DEF cleanupPreservedStorage, updateWorkspaceStorage
    <2>6. CASE linkTarget(o) \/ finishVerify(o) \/ acknowledgeDelete(o) \/ deleteArchive(o)
               \/ commitRemoval(o) \/ finishDelete(o)
      BY <2>6, CheckpointKind
      DEF linkTarget, finishVerify, acknowledgeDelete, deleteArchive, removeArchive,
          commitRemoval, removePublication, finishDelete
    <2> HIDE DEF Restored
    <2> QED BY <1>3, <2>1, <2>2, <2>3, <2>4, <2>5, <2>6 DEF CheckpointTask
  <1>4. ASSUME NEW o \in Operation, PurgeTask(o)
         PROVE  Restored'
    <2> o.kind = "purge"
      BY <1>4, PurgeKind
    <2>1. ASSUME NEW r \in Operation, endRestore(o, r)
           PROVE  Restored'
      BY <2>1 DEF endRestore
    <2>2. CASE endWorkspace(o)
      BY <2>2 DEF endWorkspace, Terminal, Nonterminal, PurgeFails
    <2>3. CASE purgeStorage(o)
      BY <2>3 DEF purgeStorage, PurgeFails
    <2>4. CASE acknowledgePurge(o) \/ cancelCopies(o) \/ copiesSettled(o) \/ hasActiveCopies(o)
               \/ removeProvider(o) \/ forgetCheckpoint(o) \/ purgeWorkspaceContent(o)
      BY <2>4
      DEF acknowledgePurge, PurgeFails, cancelCopies, rowVars, copiesSettled, hasActiveCopies,
          removeProvider, forgetCheckpoint, removePublication, purgeWorkspaceContent
    <2>5. ASSUME NEW r \in Operation, settleRestore(o, r)
           PROVE  Restored'
      BY <2>5 DEF settleRestore
    <2>6. ASSUME NEW c \in Checkpoint, purgeCheckpoint(o, c)
           PROVE  Restored'
      BY <2>6 DEF purgeCheckpoint, removeArchive
    <2> HIDE DEF Restored
    <2> QED BY <1>4, <2>1, <2>2, <2>3, <2>4, <2>5, <2>6 DEF PurgeTask
  <1>5. ASSUME NEW o \in Operation, Transfers(o)
         PROVE  Restored'
    <2>1. CASE claim(o)
      BY <2>1
      DEF claim, claimUpload, claimDownload, Context, checkpointUploadAuthority,
          checkpointDownloadAuthority
    <2>2. CASE cleanup(o)
      BY <2>2 DEF cleanup, abortUpload, abortDownload, Context
    <2>3. CASE restoreGrant(o)
      BY <2>3 DEF restoreGrant, Up, grantDownload, Context, checkpointDownloadAuthority
    <2>4. CASE downloadArchive(o)
      BY <2>4 DEF downloadArchive, downloaded, Context, checkpointDownloadAuthority
    <2>5. CASE checkpointInstalled(o)
      BY <2>5
      DEF checkpointInstalled, installed, Context, checkpointDownloadAuthority,
          completeCheckpointStorage, updateWorkspaceStorage
    <2>6. CASE restoreReady(o)
      BY <2>6 DEF restoreReady, Up, completeRestore, Context, checkpointDownloadAuthority, MayMove
    <2>7. CASE createArchive(o) \/ stageArchive(o) \/ sealArchive(o) \/ publishArchive(o)
               \/ closeUploadOwners(o)
      BY <2>7
      DEF createArchive, checkpointUploadAuthority, Context, stageArchive, stage, sealArchive,
          publishArchive, publish, closeUploadOwners
    <2> HIDE DEF Restored
    <2> QED BY <1>5, <2>1, <2>2, <2>3, <2>4, <2>5, <2>6, <2>7 DEF Transfers
  <1>6. ASSUME NEW o \in Operation, TickSteps(o)
         PROVE  Restored'
    <2>1. CASE retryPreserve(o) \/ recoverRunning(o) \/ retryPurge(o)
      BY <2>1
      DEF retryPreserve, Up, Terminal, rowVars, recoverRunning, recoverPreserve, Ticking,
          retryPurge
    <2> HIDE DEF Restored
    <2> QED BY <1>6, <2>1 DEF TickSteps
  <1>7. ASSUME NEW o \in Operation, launch(o)
         PROVE  Restored'
    BY <1>7 DEF launch, Up, updateWorkspaceStorage, Elsewhere
  <1>8. ASSUME NEW o \in Operation, bootstrapFails(o)
         PROVE  Restored'
    BY <1>8 DEF bootstrapFails, Up, checkpointDownloadAuthority, Elsewhere
  <1>9. ASSUME NEW o \in Operation, becomesReady(o)
         PROVE  Restored'
    BY <1>9 DEF becomesReady, Up, MayMove, Elsewhere
  <1>10. ASSUME NEW w \in Workspace, sweepPreserving(w)
         PROVE  Restored'
    BY <1>10 DEF sweepPreserving, Up, Elsewhere
  <1>11. ASSUME NEW w \in Workspace, finalize(w)
         PROVE  Restored'
    BY <1>11 DEF finalize, Up, updateWorkspaceStorage, Elsewhere
  <1>12. ASSUME NEW o \in Operation, settleDownload(o)
         PROVE  Restored'
    BY <1>12 DEF settleDownload, Up, abortDownload
  <1>13. ASSUME NEW o \in Operation, reconcileSnapshot(o)
         PROVE  Restored'
    BY <1>13 DEF reconcileSnapshot, Visit, updateWorkspaceStorage, Moved, Booting, MayMove
  <1>14. ASSUME NEW w \in Workspace, beginTermination(w)
         PROVE  Restored'
    BY <1>14 DEF beginTermination, Up, Elsewhere
  <1>15. ASSUME NEW w \in Workspace, cutTransfers(w)
         PROVE  Restored'
    BY <1>15 DEF cutTransfers, Elsewhere
  <1>16. ASSUME NEW c \in Checkpoint, removeInterrupted(c) \/ settleUpload(c)
                                      \/ verifyPublication(c)
         PROVE  Restored'
    BY <1>16 DEF removeInterrupted, settleUpload, abortUpload, verifyPublication, Booting
  <1>17. ASSUME NEW o \in Operation, reconcileRestore(o) \/ reconcileVerification(o)
                                     \/ reconcileDeletion(o) \/ reconcilePending(o)
                                     \/ reconcileTransferred(o) \/ skipPurge(o)
         PROVE  Restored'
    BY <1>17
    DEF reconcileRestore, Visit, Terminal, Booting, reconcileVerification, reconcileDeletion,
        reconcilePending, reconcileTransferred, recoverPreserve, skipPurge
  <1>18. ASSUME rowsVisited \/ started \/ crash \/ listRunning \/ listPending
         PROVE  Restored'
    BY <1>18
    DEF rowsVisited, Booting, started, crash, Up, Nothing, None, rowVars, listRunning, Listing,
        listPending
  <1> HIDE DEF Restored
  <1> QED BY <1>1, <1>2, <1>3, <1>4, <1>5, <1>6, <1>7, <1>8, <1>9, <1>10, <1>11, <1>12, <1>13,
         <1>14, <1>15, <1>16, <1>17, <1>18
    DEF Next, Scheduling, Recovery

-------------------------------------------------------------------------------
\* Transfers and snapshots.

\* No context outlives the task that waits for it.
LEMMA UploadsStep ==
    Functions /\ TypeOK /\ Kinds /\ Startup /\ Tasks /\ Modes /\ Uploads /\ Next => Uploads'
  <1> SUFFICES ASSUME Functions, TypeOK, Kinds, Startup, Tasks, Modes, Uploads, Next
               PROVE  Uploads'
    OBVIOUS
  <1> USE OperationAssumption DEF Uploads, Modes, Transfer, OfKind, TypeOK, Functions, Step,
          Stop, Quiet, NoFault, Fault, Forget, updateOperation, updateCheckpoint
  <1>1. ASSUME NEW o \in Operation, Request(o)
         PROVE  Uploads'
    <2>1. CASE preserve(o)
      BY <2>1 DEF preserve, Up, insertOperation, admitIntent
    <2>2. CASE restore(o)
      BY <2>2 DEF restore, Up
    <2>3. CASE verify(o)
      BY <2>3 DEF verify, Up
    <2>4. CASE delete(o)
      BY <2>4 DEF delete, Up, Incomplete
    <2>5. CASE purge(o)
      BY <2>5 DEF purge, Up, insertOperation, admitIntent
    <2> HIDE DEF Uploads
    <2> QED BY <1>1, <2>1, <2>2, <2>3, <2>4, <2>5 DEF Request
  <1>2. ASSUME NEW o \in Operation, PreserveTask(o)
         PROVE  Uploads'
    <2> o.kind = "preserve"
      BY <1>2, PreserveKind
    <2>1. CASE assertPreserveAdmission(o)
      BY <2>1 DEF assertPreserveAdmission
    <2>2. CASE linkCheckpoint(o)
      BY <2>2 DEF linkCheckpoint
    <2>3. CASE enterPreserving(o)
      BY <2>3 DEF enterPreserving, MayMove
    <2>4. CASE attempt(o)
      BY <2>4 DEF attempt
    <2>5. CASE revokeLeases(o)
      BY <2>5 DEF revokeLeases
    <2>6. CASE inspect(o)
      BY <2>6 DEF inspect
    <2>7. CASE runTransferPreserve(o)
      BY <2>7, SourceGoes DEF runTransferPreserve, updateWorkspaceStorage
    <2>8. CASE prepareArchive(o)
      BY <2>8 DEF prepareArchive, checkpointUploadAuthority, grantUpload, Incomplete
    <2>9. CASE openGrant(o)
      BY <2>9 DEF openGrant, rowVars, Tasks, Runner
    <2>10. CASE uploadSettled(o)
      BY <2>10 DEF uploadSettled, rowVars
    <2>11. CASE cleanupTransferSource(o)
      BY <2>11 DEF cleanupTransferSource
    <2>12. CASE sourceDeleted(o)
      BY <2>12 DEF sourceDeleted, updateWorkspaceStorage
    <2>13. CASE commitPreserved(o)
      BY <2>13 DEF commitPreserved, Moved, MayMove
    <2>14. CASE finishPreserve(o)
      BY <2>14 DEF finishPreserve
    <2>15. CASE stopForSnapshot(o)
      BY <2>15 DEF stopForSnapshot
    <2>16. CASE createSnapshot(o)
      BY <2>16 DEF createSnapshot, updateWorkspaceStorage
    <2>17. CASE completePreserve(o)
      BY <2>17 DEF completePreserve, updateWorkspaceStorage
    <2>18. CASE detachSource(o)
      BY <2>18 DEF detachSource
    <2>19. CASE handlePreserveFailure(o)
      BY <2>19 DEF handlePreserveFailure, updateWorkspaceStorage, Moved, MayMove
    <2>20. CASE retainUnpublishedSource(o)
      BY <2>20 DEF retainUnpublishedSource
    <2>21. CASE abandonSource(o)
      BY <2>21 DEF abandonSource, Moved, MayMove
    <2> HIDE DEF Uploads
    <2> QED BY <1>2, <2>1, <2>2, <2>3, <2>4, <2>5, <2>6, <2>7, <2>8, <2>9, <2>10, <2>11, <2>12,
         <2>13, <2>14, <2>15, <2>16, <2>17, <2>18, <2>19, <2>20, <2>21 DEF PreserveTask
  <1>3. ASSUME NEW o \in Operation, CheckpointTask(o)
         PROVE  Uploads'
    <2>1. CASE insertRestore(o)
      BY <2>1 DEF insertRestore, insertOperation, admitIntent
    <2>2. CASE insertTarget(o)
      BY <2>2, CheckpointKind DEF insertTarget
    <2>3. CASE linkTarget(o)
      BY <2>3, CheckpointKind DEF linkTarget
    <2>4. CASE insertVerify(o)
      BY <2>4 DEF insertVerify, insertOperation, admitIntent
    <2>5. CASE finishVerify(o)
      BY <2>5, CheckpointKind DEF finishVerify
    <2>6. CASE insertDelete(o)
      BY <2>6 DEF insertDelete, insertOperation, admitIntent
    <2>7. CASE acknowledgeDelete(o)
      BY <2>7, CheckpointKind DEF acknowledgeDelete
    <2>8. CASE deleteArchive(o)
      BY <2>8, CheckpointKind DEF deleteArchive, removeArchive
    <2>9. CASE commitRemoval(o)
      BY <2>9 DEF commitRemoval, removePublication
    <2>10. CASE finishDelete(o)
      BY <2>10, CheckpointKind DEF finishDelete
    <2>11. CASE cleanupPreservedStorage(o)
      BY <2>11, CheckpointKind DEF cleanupPreservedStorage, Incomplete, updateWorkspaceStorage
    <2> HIDE DEF Uploads
    <2> QED BY <1>3, <2>1, <2>2, <2>3, <2>4, <2>5, <2>6, <2>7, <2>8, <2>9, <2>10, <2>11
    DEF CheckpointTask
  <1>4. ASSUME NEW o \in Operation, PurgeTask(o)
         PROVE  Uploads'
    <2> o.kind = "purge"
      BY <1>4, PurgeKind
    <2>1. CASE acknowledgePurge(o)
      BY <2>1 DEF acknowledgePurge, PurgeFails
    <2>2. CASE cancelCopies(o)
      BY <2>2 DEF cancelCopies, rowVars
    <2>3. CASE copiesSettled(o)
      BY <2>3 DEF copiesSettled
    <2>4. CASE hasActiveCopies(o)
      BY <2>4 DEF hasActiveCopies, Incomplete, PurgeFails
    <2>5. CASE endWorkspace(o)
      BY <2>5 DEF endWorkspace, Terminal, Nonterminal, PurgeFails
    <2>6. CASE removeProvider(o)
      BY <2>6 DEF removeProvider, PurgeFails
    <2>7. ASSUME NEW c \in Checkpoint, purgeCheckpoint(o, c)
           PROVE  Uploads'
      BY <2>7 DEF purgeCheckpoint, removeArchive
    <2>8. CASE forgetCheckpoint(o)
      BY <2>8 DEF forgetCheckpoint, removePublication, PurgeFails
    <2>9. CASE purgeStorage(o)
      BY <2>9 DEF purgeStorage, PurgeFails
    <2>10. CASE purgeWorkspaceContent(o)
      BY <2>10 DEF purgeWorkspaceContent
    <2>11. ASSUME NEW r \in Operation, settleRestore(o, r) \/ endRestore(o, r)
           PROVE  Uploads'
      BY <2>11 DEF settleRestore, Incomplete, endRestore
    <2> HIDE DEF Uploads
    <2> QED BY <1>4, <2>1, <2>2, <2>3, <2>4, <2>5, <2>6, <2>7, <2>8, <2>9, <2>10, <2>11
    DEF PurgeTask
  <1>5. ASSUME NEW o \in Operation, Transfers(o)
         PROVE  Uploads'
    <2>1. CASE claim(o)
      BY <2>1
      DEF claim, claimUpload, claimDownload, Context, checkpointUploadAuthority,
          checkpointDownloadAuthority, Incomplete
    <2>2. CASE stageArchive(o)
      BY <2>2 DEF stageArchive, stage, Context, checkpointUploadAuthority, Incomplete
    <2>3. CASE publishArchive(o)
      BY <2>3 DEF publishArchive, publish, Context, checkpointUploadAuthority, Incomplete
    <2>4. CASE closeUploadOwners(o)
      BY <2>4 DEF closeUploadOwners, Context
    <2>5. CASE cleanup(o)
      BY <2>5 DEF cleanup, abortUpload, abortDownload, Context
    <2>6. CASE restoreGrant(o)
      BY <2>6
      DEF restoreGrant, Up, grantDownload, Context, checkpointDownloadAuthority, Incomplete
    <2>7. CASE checkpointInstalled(o)
      BY <2>7
      DEF checkpointInstalled, installed, Context, checkpointDownloadAuthority,
          completeCheckpointStorage, Incomplete, updateWorkspaceStorage
    <2>8. CASE createArchive(o) \/ sealArchive(o) \/ downloadArchive(o) \/ restoreReady(o)
      BY <2>8
      DEF createArchive, checkpointUploadAuthority, Context, Incomplete, sealArchive,
          downloadArchive, downloaded, checkpointDownloadAuthority, restoreReady, Up,
          completeRestore, MayMove
    <2> HIDE DEF Uploads
    <2> QED BY <1>5, <2>1, <2>2, <2>3, <2>4, <2>5, <2>6, <2>7, <2>8 DEF Transfers
  <1>6. ASSUME NEW o \in Operation, TickSteps(o)
         PROVE  Uploads'
    <2>1. CASE retryPreserve(o)
      BY <2>1 DEF retryPreserve, Up, Terminal, rowVars
    <2>2. CASE recoverRunning(o)
      BY <2>2 DEF recoverRunning, Up, owns, recoverPreserve, Ticking, Runner
    <2>3. CASE retryPurge(o)
      BY <2>3 DEF retryPurge, Up, Incomplete, rowVars
    <2> HIDE DEF Uploads
    <2> QED BY <1>6, <2>1, <2>2, <2>3 DEF TickSteps
  <1>7. ASSUME NEW c \in Checkpoint, settleUpload(c)
         PROVE  Uploads'
    BY <1>7, PreserveOf DEF settleUpload, Stray, abortUpload, Up
  <1>8. ASSUME NEW c \in Checkpoint, verifyPublication(c)
         PROVE  Uploads'
    BY <1>8 DEF verifyPublication, Booting
  <1>9. ASSUME NEW o \in Operation, reconcileVerification(o)
         PROVE  Uploads'
    BY <1>9 DEF reconcileVerification, Visit, Booting
  <1>10. ASSUME NEW o \in Operation, reconcileDeletion(o)
         PROVE  Uploads'
    BY <1>10 DEF reconcileDeletion, Booting
  <1>11. ASSUME NEW o \in Operation, reconcilePending(o)
         PROVE  Uploads'
    BY <1>11 DEF reconcilePending, Visit, Terminal, Booting
  <1>12. ASSUME NEW o \in Operation, reconcileTransferred(o)
         PROVE  Uploads'
    BY <1>12 DEF reconcileTransferred, Visit, recoverPreserve, Booting, Startup
  <1>13. ASSUME NEW o \in Operation, reconcileSnapshot(o)
         PROVE  Uploads'
    BY <1>13 DEF reconcileSnapshot, Visit, updateWorkspaceStorage, Moved, Booting, MayMove
  <1>14. ASSUME crash
         PROVE  Uploads'
    BY <1>14 DEF crash, Up, Nothing, None, rowVars
  <1>15. ASSUME NEW o \in Operation, launch(o) \/ bootstrapFails(o) \/ becomesReady(o)
                                     \/ settleDownload(o) \/ reconcileRestore(o)
                                     \/ skipPurge(o)
         PROVE  Uploads'
    BY <1>15
    DEF launch, Up, updateWorkspaceStorage, Incomplete, Elsewhere, bootstrapFails,
        checkpointDownloadAuthority, becomesReady, MayMove, settleDownload, abortDownload,
        reconcileRestore, Visit, Terminal, Booting, skipPurge
  <1>16. ASSUME NEW w \in Workspace, sweepPreserving(w) \/ cutTransfers(w) \/ finalize(w)
                                     \/ beginTermination(w)
         PROVE  Uploads'
    BY <1>16
    DEF sweepPreserving, Up, Incomplete, Elsewhere, cutTransfers, finalize,
        updateWorkspaceStorage, beginTermination
  <1>17. ASSUME NEW c \in Checkpoint, removeInterrupted(c)
         PROVE  Uploads'
    BY <1>17 DEF removeInterrupted
  <1>18. ASSUME rowsVisited \/ started \/ listRunning \/ listPending
         PROVE  Uploads'
    BY <1>18
    DEF rowsVisited, Incomplete, Booting, started, listRunning, Listing, Up, None, rowVars,
        listPending
  <1> HIDE DEF Uploads
  <1> QED BY <1>1, <1>2, <1>3, <1>4, <1>5, <1>6, <1>7, <1>8, <1>9, <1>10, <1>11, <1>12, <1>13,
         <1>14, <1>15, <1>16, <1>17, <1>18
    DEF Next, Scheduling, Recovery

\* No step crosses from one path to the other.
LEMMA ModesStep ==
    Functions /\ TypeOK /\ Kinds /\ Modes /\ Next => Modes'
  <1> SUFFICES ASSUME Functions, TypeOK, Kinds, Modes, Next
               PROVE  Modes'
    OBVIOUS
  <1> USE OperationAssumption DEF Modes, Transfer, Runner, OfKind, TypeOK, Functions, Step,
          Stop, Quiet, NoFault, Fault, Forget, updateOperation, updateCheckpoint
  <1>1. ASSUME NEW o \in Operation, Request(o)
         PROVE  Modes'
    <2>1. CASE preserve(o)
      BY <2>1 DEF preserve, Up, insertOperation, admitIntent
    <2>2. CASE restore(o)
      BY <2>2 DEF restore, Up
    <2>3. CASE verify(o)
      BY <2>3 DEF verify, Up
    <2>4. CASE delete(o)
      BY <2>4 DEF delete, Up, Incomplete
    <2>5. CASE purge(o)
      BY <2>5 DEF purge, Up, insertOperation, admitIntent
    <2> HIDE DEF Modes
    <2> QED BY <1>1, <2>1, <2>2, <2>3, <2>4, <2>5 DEF Request
  <1>2. ASSUME NEW o \in Operation, PreserveTask(o)
         PROVE  Modes'
    <2> o.kind = "preserve"
      BY <1>2, PreserveKind
    <2>1. CASE assertPreserveAdmission(o)
      BY <2>1 DEF assertPreserveAdmission
    <2>2. CASE linkCheckpoint(o)
      BY <2>2 DEF linkCheckpoint
    <2>3. CASE enterPreserving(o)
      BY <2>3 DEF enterPreserving, MayMove
    <2>4. CASE attempt(o)
      BY <2>4 DEF attempt
    <2>5. CASE revokeLeases(o)
      BY <2>5 DEF revokeLeases
    <2>6. CASE inspect(o)
      BY <2>6 DEF inspect
    <2>7. CASE runTransferPreserve(o)
      BY <2>7, SourceGoes DEF runTransferPreserve, updateWorkspaceStorage
    <2>8. CASE prepareArchive(o)
      BY <2>8 DEF prepareArchive, checkpointUploadAuthority, grantUpload, Incomplete
    <2>9. CASE openGrant(o)
      BY <2>9 DEF openGrant, rowVars
    <2>10. CASE uploadSettled(o)
      BY <2>10 DEF uploadSettled, rowVars
    <2>11. CASE cleanupTransferSource(o)
      BY <2>11 DEF cleanupTransferSource
    <2>12. CASE sourceDeleted(o)
      BY <2>12 DEF sourceDeleted, updateWorkspaceStorage
    <2>13. CASE commitPreserved(o)
      BY <2>13 DEF commitPreserved, Moved, MayMove
    <2>14. CASE finishPreserve(o)
      BY <2>14 DEF finishPreserve
    <2>15. CASE stopForSnapshot(o)
      BY <2>15 DEF stopForSnapshot
    <2>16. CASE createSnapshot(o)
      BY <2>16 DEF createSnapshot, updateWorkspaceStorage
    <2>17. CASE completePreserve(o)
      BY <2>17 DEF completePreserve, updateWorkspaceStorage
    <2>18. CASE detachSource(o)
      BY <2>18 DEF detachSource
    <2>19. CASE handlePreserveFailure(o)
      BY <2>19 DEF handlePreserveFailure, updateWorkspaceStorage, Moved, MayMove
    <2>20. CASE retainUnpublishedSource(o)
      BY <2>20 DEF retainUnpublishedSource
    <2>21. CASE abandonSource(o)
      BY <2>21 DEF abandonSource, Moved, MayMove
    <2> HIDE DEF Modes
    <2> QED BY <1>2, <2>1, <2>2, <2>3, <2>4, <2>5, <2>6, <2>7, <2>8, <2>9, <2>10, <2>11, <2>12,
         <2>13, <2>14, <2>15, <2>16, <2>17, <2>18, <2>19, <2>20, <2>21 DEF PreserveTask
  <1>3. ASSUME NEW o \in Operation, CheckpointTask(o)
         PROVE  Modes'
    <2>1. CASE insertRestore(o)
      BY <2>1 DEF insertRestore, insertOperation, admitIntent
    <2>2. CASE insertTarget(o)
      BY <2>2, CheckpointKind DEF insertTarget
    <2>3. CASE linkTarget(o)
      BY <2>3, CheckpointKind DEF linkTarget
    <2>4. CASE insertVerify(o)
      BY <2>4 DEF insertVerify, insertOperation, admitIntent
    <2>5. CASE finishVerify(o)
      BY <2>5, CheckpointKind DEF finishVerify
    <2>6. CASE insertDelete(o)
      BY <2>6 DEF insertDelete, insertOperation, admitIntent
    <2>7. CASE acknowledgeDelete(o)
      BY <2>7, CheckpointKind DEF acknowledgeDelete
    <2>8. CASE deleteArchive(o)
      BY <2>8, CheckpointKind DEF deleteArchive, removeArchive
    <2>9. CASE commitRemoval(o)
      BY <2>9 DEF commitRemoval, removePublication
    <2>10. CASE finishDelete(o)
      BY <2>10, CheckpointKind DEF finishDelete
    <2>11. CASE cleanupPreservedStorage(o)
      BY <2>11, CheckpointKind DEF cleanupPreservedStorage, Incomplete, updateWorkspaceStorage
    <2> HIDE DEF Modes
    <2> QED BY <1>3, <2>1, <2>2, <2>3, <2>4, <2>5, <2>6, <2>7, <2>8, <2>9, <2>10, <2>11
    DEF CheckpointTask
  <1>4. ASSUME NEW o \in Operation, PurgeTask(o)
         PROVE  Modes'
    <2> o.kind = "purge"
      BY <1>4, PurgeKind
    <2>1. CASE acknowledgePurge(o)
      BY <2>1 DEF acknowledgePurge, PurgeFails
    <2>2. CASE cancelCopies(o)
      BY <2>2 DEF cancelCopies, rowVars
    <2>3. CASE copiesSettled(o)
      BY <2>3 DEF copiesSettled
    <2>4. CASE hasActiveCopies(o)
      BY <2>4 DEF hasActiveCopies, Incomplete, PurgeFails
    <2>5. CASE endWorkspace(o)
      BY <2>5 DEF endWorkspace, Terminal, Nonterminal, PurgeFails
    <2>6. CASE removeProvider(o)
      BY <2>6 DEF removeProvider, PurgeFails
    <2>7. ASSUME NEW c \in Checkpoint, purgeCheckpoint(o, c)
           PROVE  Modes'
      BY <2>7 DEF purgeCheckpoint, removeArchive
    <2>8. CASE forgetCheckpoint(o)
      BY <2>8 DEF forgetCheckpoint, removePublication, PurgeFails
    <2>9. CASE purgeStorage(o)
      BY <2>9 DEF purgeStorage, PurgeFails
    <2>10. CASE purgeWorkspaceContent(o)
      BY <2>10 DEF purgeWorkspaceContent
    <2>11. ASSUME NEW r \in Operation, settleRestore(o, r) \/ endRestore(o, r)
           PROVE  Modes'
      BY <2>11 DEF settleRestore, Incomplete, endRestore
    <2> HIDE DEF Modes
    <2> QED BY <1>4, <2>1, <2>2, <2>3, <2>4, <2>5, <2>6, <2>7, <2>8, <2>9, <2>10, <2>11
    DEF PurgeTask
  <1>5. ASSUME NEW o \in Operation, Transfers(o)
         PROVE  Modes'
    <2>1. CASE claim(o) \/ createArchive(o) \/ stageArchive(o) \/ sealArchive(o)
               \/ publishArchive(o) \/ closeUploadOwners(o) \/ cleanup(o) \/ restoreGrant(o)
               \/ downloadArchive(o) \/ checkpointInstalled(o)
      BY <2>1
      DEF claim, claimUpload, claimDownload, Context, checkpointUploadAuthority,
          checkpointDownloadAuthority, Incomplete, createArchive, stageArchive, stage,
          sealArchive, publishArchive, publish, closeUploadOwners, cleanup, abortUpload,
          abortDownload, restoreGrant, Up, grantDownload, downloadArchive, downloaded,
          checkpointInstalled, installed, completeCheckpointStorage, updateWorkspaceStorage
    <2>2. CASE restoreReady(o)
      BY <2>2
      DEF restoreReady, Up, completeRestore, Context, checkpointDownloadAuthority, MayMove,
          Incomplete
    <2> HIDE DEF Modes
    <2> QED BY <1>5, <2>1, <2>2 DEF Transfers
  <1>6. ASSUME NEW o \in Operation, TickSteps(o)
         PROVE  Modes'
    <2>1. CASE retryPreserve(o)
      BY <2>1 DEF retryPreserve, Up, Terminal, rowVars
    <2>2. CASE recoverRunning(o)
      BY <2>2 DEF recoverRunning, Up, recoverPreserve, Ticking
    <2>3. CASE retryPurge(o)
      BY <2>3 DEF retryPurge, Up, Incomplete, rowVars
    <2> HIDE DEF Modes
    <2> QED BY <1>6, <2>1, <2>2, <2>3 DEF TickSteps
  <1>7. ASSUME NEW o \in Operation, reconcileTransferred(o)
         PROVE  Modes'
    BY <1>7 DEF reconcileTransferred, Visit, recoverPreserve, Booting
  <1>8. ASSUME crash
         PROVE  Modes'
    BY <1>8 DEF crash, Up, Nothing, None, rowVars
  <1>9. ASSUME NEW o \in Operation, launch(o) \/ bootstrapFails(o) \/ becomesReady(o)
                                    \/ settleDownload(o) \/ reconcileRestore(o)
                                    \/ reconcileVerification(o) \/ reconcileDeletion(o)
                                    \/ reconcilePending(o) \/ reconcileSnapshot(o)
                                    \/ skipPurge(o)
         PROVE  Modes'
    BY <1>9
    DEF launch, Up, updateWorkspaceStorage, Incomplete, Elsewhere, bootstrapFails,
        checkpointDownloadAuthority, becomesReady, MayMove, settleDownload, abortDownload,
        reconcileRestore, Visit, Terminal, Booting, reconcileVerification, reconcileDeletion,
        reconcilePending, reconcileSnapshot, Moved, skipPurge
  <1>10. ASSUME NEW w \in Workspace, sweepPreserving(w) \/ cutTransfers(w) \/ finalize(w)
                                     \/ beginTermination(w)
         PROVE  Modes'
    BY <1>10
    DEF sweepPreserving, Up, Incomplete, Elsewhere, cutTransfers, finalize,
        updateWorkspaceStorage, beginTermination
  <1>11. ASSUME NEW c \in Checkpoint, removeInterrupted(c) \/ settleUpload(c)
                                      \/ verifyPublication(c)
         PROVE  Modes'
    BY <1>11 DEF removeInterrupted, settleUpload, abortUpload, verifyPublication, Booting
  <1>12. ASSUME rowsVisited \/ started \/ listRunning \/ listPending
         PROVE  Modes'
    BY <1>12
    DEF rowsVisited, Incomplete, Booting, started, listRunning, Listing, Up, None, rowVars,
        listPending
  <1> HIDE DEF Modes
  <1> QED BY <1>1, <1>2, <1>3, <1>4, <1>5, <1>6, <1>7, <1>8, <1>9, <1>10, <1>11, <1>12
    DEF Next, Scheduling, Recovery

\* Tasks and rows advance together.
LEMMA TasksStep ==
    Functions /\ TypeOK /\ Kinds /\ Entered /\ Begun /\ Startup /\ Tasks /\ Next => Tasks'
  <1> SUFFICES ASSUME Functions, TypeOK, Kinds, Entered, Begun, Startup, Tasks, Next
               PROVE  Tasks'
    OBVIOUS
  <1> USE OperationAssumption DEF Tasks, Runner, OfKind, TypeOK, Functions, Step, Stop, Quiet,
          NoFault, Fault, Forget, updateOperation, updateCheckpoint
  <1>1. ASSUME NEW o \in Operation, Request(o)
         PROVE  Tasks'
    <2>1. CASE preserve(o)
      BY <2>1 DEF preserve, Up, insertOperation, admitIntent
    <2>2. CASE restore(o)
      BY <2>2 DEF restore, Up
    <2>3. CASE verify(o)
      BY <2>3 DEF verify, Up
    <2>4. CASE delete(o)
      BY <2>4 DEF delete, Up, Incomplete
    <2>5. CASE purge(o)
      BY <2>5 DEF purge, Up, insertOperation, admitIntent
    <2> HIDE DEF Tasks
    <2> QED BY <1>1, <2>1, <2>2, <2>3, <2>4, <2>5 DEF Request
  <1>2. ASSUME NEW o \in Operation, PreserveTask(o)
         PROVE  Tasks'
    <2> o.kind = "preserve"
      BY <1>2, PreserveKind
    <2>1. CASE assertPreserveAdmission(o)
      BY <2>1 DEF assertPreserveAdmission
    <2>2. CASE linkCheckpoint(o)
      BY <2>2 DEF linkCheckpoint
    <2>3. CASE enterPreserving(o)
      BY <2>3 DEF enterPreserving, MayMove
    <2>4. CASE attempt(o)
      <3>1. /\ pc[o] = "attempt" /\ pc' = [pc EXCEPT ![o] = "revoke"]
            /\ op' = [op EXCEPT ![o] = "pending"]
            /\ UNCHANGED <<ws, fence, ck, published, linked, listed>>
        BY <2>4 DEF attempt
      <3> QED BY <3>1
    <2>5. CASE revokeLeases(o)
      BY <2>5 DEF revokeLeases
    <2>6. CASE inspect(o)
      BY <2>6 DEF inspect
    <2>7. CASE runTransferPreserve(o)
      <3>1. /\ pc[o] = "source" /\ pc' = [pc EXCEPT ![o] = FromSource(o)]
            /\ UNCHANGED <<ws, fence, ck, published, op, linked, listed>>
        BY <2>7 DEF runTransferPreserve, Transfer, updateWorkspaceStorage
      <3> QED BY <3>1, SourceGoes
    <2>8. CASE prepareArchive(o)
      BY <2>8 DEF prepareArchive, checkpointUploadAuthority, grantUpload, Incomplete
    <2>9. CASE openGrant(o)
      BY <2>9 DEF openGrant, rowVars
    <2>10. CASE uploadSettled(o)
      BY <2>10 DEF uploadSettled, rowVars
    <2>11. CASE cleanupTransferSource(o)
      BY <2>11 DEF cleanupTransferSource
    <2>12. CASE sourceDeleted(o)
      BY <2>12 DEF sourceDeleted, updateWorkspaceStorage
    <2>13. CASE commitPreserved(o)
      BY <2>13 DEF commitPreserved, Moved, MayMove
    <2>14. CASE finishPreserve(o)
      BY <2>14 DEF finishPreserve
    <2>15. CASE stopForSnapshot(o)
      BY <2>15 DEF stopForSnapshot, Transfer
    <2>16. CASE createSnapshot(o)
      BY <2>16 DEF createSnapshot, updateWorkspaceStorage
    <2>17. CASE completePreserve(o)
      BY <2>17 DEF completePreserve, updateWorkspaceStorage
    <2>18. CASE detachSource(o)
      BY <2>18 DEF detachSource
    <2>19. CASE handlePreserveFailure(o)
      BY <2>19 DEF handlePreserveFailure, Transfer, updateWorkspaceStorage, Moved, MayMove
    <2>20. CASE retainUnpublishedSource(o)
      BY <2>20 DEF retainUnpublishedSource
    <2>21. CASE abandonSource(o)
      BY <2>21 DEF abandonSource, Moved, MayMove
    <2> HIDE DEF Tasks
    <2> QED BY <1>2, <2>1, <2>2, <2>3, <2>4, <2>5, <2>6, <2>7, <2>8, <2>9, <2>10, <2>11, <2>12,
         <2>13, <2>14, <2>15, <2>16, <2>17, <2>18, <2>19, <2>20, <2>21 DEF PreserveTask
  <1>3. ASSUME NEW o \in Operation, CheckpointTask(o)
         PROVE  Tasks'
    <2>1. CASE insertRestore(o)
      BY <2>1 DEF insertRestore, insertOperation, admitIntent
    <2>2. CASE insertTarget(o)
      BY <2>2, CheckpointKind DEF insertTarget
    <2>3. CASE linkTarget(o)
      BY <2>3, CheckpointKind DEF linkTarget
    <2>4. CASE insertVerify(o)
      BY <2>4 DEF insertVerify, insertOperation, admitIntent
    <2>5. CASE finishVerify(o)
      BY <2>5, CheckpointKind DEF finishVerify
    <2>6. CASE insertDelete(o)
      BY <2>6 DEF insertDelete, insertOperation, admitIntent
    <2>7. CASE acknowledgeDelete(o)
      BY <2>7, CheckpointKind DEF acknowledgeDelete
    <2>8. CASE deleteArchive(o)
      BY <2>8, CheckpointKind DEF deleteArchive, removeArchive, Transfer
    <2>9. CASE commitRemoval(o)
      BY <2>9 DEF commitRemoval, Transfer, removePublication
    <2>10. CASE finishDelete(o)
      BY <2>10, CheckpointKind DEF finishDelete
    <2>11. CASE cleanupPreservedStorage(o)
      BY <2>11, CheckpointKind
      DEF cleanupPreservedStorage, Transfer, Incomplete, updateWorkspaceStorage
    <2> HIDE DEF Tasks
    <2> QED BY <1>3, <2>1, <2>2, <2>3, <2>4, <2>5, <2>6, <2>7, <2>8, <2>9, <2>10, <2>11
    DEF CheckpointTask
  <1>4. ASSUME NEW o \in Operation, PurgeTask(o)
         PROVE  Tasks'
    <2> o.kind = "purge"
      BY <1>4, PurgeKind
    <2>1. CASE acknowledgePurge(o)
      BY <2>1 DEF acknowledgePurge, PurgeFails
    <2>2. CASE cancelCopies(o)
      BY <2>2 DEF cancelCopies, Transfer, rowVars
    <2>3. CASE copiesSettled(o)
      BY <2>3 DEF copiesSettled, Transfer
    <2>4. ASSUME NEW r \in Operation, settleRestore(o, r)
           PROVE  Tasks'
      BY <2>4 DEF settleRestore, Incomplete
    <2>5. CASE hasActiveCopies(o)
      BY <2>5 DEF hasActiveCopies, Incomplete, PurgeFails
    <2>6. CASE endWorkspace(o)
      BY <2>6 DEF endWorkspace, Terminal, Nonterminal, PurgeFails
    <2>7. CASE removeProvider(o)
      BY <2>7 DEF removeProvider, PurgeFails
    <2>8. ASSUME NEW c \in Checkpoint, purgeCheckpoint(o, c)
           PROVE  Tasks'
      BY <2>8 DEF purgeCheckpoint, Transfer, removeArchive
    <2>9. CASE forgetCheckpoint(o)
      BY <2>9 DEF forgetCheckpoint, Transfer, removePublication, PurgeFails
    <2>10. CASE purgeStorage(o)
      BY <2>10 DEF purgeStorage, Transfer, PurgeFails
    <2>11. CASE purgeWorkspaceContent(o)
      BY <2>11 DEF purgeWorkspaceContent
    <2>12. ASSUME NEW r \in Operation, endRestore(o, r)
           PROVE  Tasks'
      BY <2>12 DEF endRestore, Incomplete
    <2> HIDE DEF Tasks
    <2> QED BY <1>4, <2>1, <2>2, <2>3, <2>4, <2>5, <2>6, <2>7, <2>8, <2>9, <2>10, <2>11, <2>12
    DEF PurgeTask
  <1>5. ASSUME NEW o \in Operation, Transfers(o)
         PROVE  Tasks'
    <2>1. CASE publishArchive(o)
      BY <2>1 DEF publishArchive, publish, Context, checkpointUploadAuthority, Incomplete
    <2>2. CASE restoreReady(o)
      BY <2>2
      DEF restoreReady, Up, completeRestore, Context, checkpointDownloadAuthority, MayMove,
          Incomplete
    <2>3. CASE claim(o) \/ createArchive(o) \/ stageArchive(o) \/ sealArchive(o)
               \/ closeUploadOwners(o) \/ cleanup(o) \/ restoreGrant(o) \/ downloadArchive(o)
               \/ checkpointInstalled(o)
      BY <2>3
      DEF claim, claimUpload, claimDownload, Context, checkpointUploadAuthority,
          checkpointDownloadAuthority, Incomplete, createArchive, stageArchive, stage,
          sealArchive, closeUploadOwners, cleanup, abortUpload, abortDownload, restoreGrant, Up,
          Transfer, grantDownload, downloadArchive, downloaded, checkpointInstalled, installed,
          completeCheckpointStorage, updateWorkspaceStorage
    <2> HIDE DEF Tasks
    <2> QED BY <1>5, <2>1, <2>2, <2>3 DEF Transfers
  <1>6. ASSUME NEW o \in Operation, TickSteps(o)
         PROVE  Tasks'
    <2>1. CASE retryPreserve(o)
      BY <2>1 DEF retryPreserve, Up, Terminal, rowVars
    <2>2. CASE recoverRunning(o)
      BY <2>2 DEF recoverRunning, Up, Transfer, recoverPreserve, Ticking
    <2>3. CASE retryPurge(o)
      BY <2>3 DEF retryPurge, Up, Incomplete, rowVars
    <2> HIDE DEF Tasks
    <2> QED BY <1>6, <2>1, <2>2, <2>3 DEF TickSteps
  <1>7. ASSUME NEW o \in Operation, launch(o)
         PROVE  Tasks'
    BY <1>7 DEF launch, Up, Transfer, updateWorkspaceStorage, Incomplete, Elsewhere
  <1>8. ASSUME NEW w \in Workspace, finalize(w)
         PROVE  Tasks'
    BY <1>8 DEF finalize, Up, Transfer, updateWorkspaceStorage, Incomplete, Elsewhere
  <1>9. ASSUME NEW c \in Checkpoint, verifyPublication(c)
         PROVE  Tasks'
    BY <1>9 DEF verifyPublication, Booting
  <1>10. ASSUME NEW o \in Operation, reconcileRestore(o)
         PROVE  Tasks'
    BY <1>10 DEF reconcileRestore, Visit, Terminal, Booting
  <1>11. ASSUME NEW o \in Operation, reconcileVerification(o)
         PROVE  Tasks'
    BY <1>11 DEF reconcileVerification, Visit, Transfer, Booting
  <1>12. ASSUME NEW o \in Operation, reconcileDeletion(o)
         PROVE  Tasks'
    BY <1>12 DEF reconcileDeletion, Transfer, Booting
  <1>13. ASSUME NEW o \in Operation, reconcilePending(o)
         PROVE  Tasks'
    BY <1>13 DEF reconcilePending, Visit, Transfer, Terminal, Booting, Startup
  <1>14. ASSUME NEW o \in Operation, reconcileTransferred(o)
         PROVE  Tasks'
    BY <1>14 DEF reconcileTransferred, Visit, Transfer, recoverPreserve, Booting
  <1>15. ASSUME NEW o \in Operation, reconcileSnapshot(o)
         PROVE  Tasks'
    BY <1>15
    DEF reconcileSnapshot, Visit, Transfer, updateWorkspaceStorage, Moved, Booting, MayMove,
        Startup
  <1>16. ASSUME crash
         PROVE  Tasks'
    BY <1>16 DEF crash, Up, Nothing, None, rowVars
  <1>17. ASSUME NEW o \in Operation, bootstrapFails(o) \/ becomesReady(o) \/ settleDownload(o)
                                     \/ skipPurge(o)
         PROVE  Tasks'
    BY <1>17
    DEF bootstrapFails, Up, Transfer, checkpointDownloadAuthority, Elsewhere, Incomplete,
        becomesReady, MayMove, settleDownload, abortDownload, skipPurge, Visit, Booting
  <1>18. ASSUME NEW w \in Workspace, sweepPreserving(w) \/ cutTransfers(w)
                                     \/ beginTermination(w)
         PROVE  Tasks'
    BY <1>18 DEF sweepPreserving, Up, Incomplete, Elsewhere, cutTransfers, beginTermination
  <1>19. ASSUME NEW c \in Checkpoint, removeInterrupted(c) \/ settleUpload(c)
         PROVE  Tasks'
    BY <1>19 DEF removeInterrupted, settleUpload, abortUpload
  <1>20. ASSUME rowsVisited \/ started \/ listRunning \/ listPending
         PROVE  Tasks'
    BY <1>20
    DEF rowsVisited, Incomplete, Booting, started, listRunning, Listing, Up, None, rowVars,
        listPending
  <1> HIDE DEF Tasks
  <1> QED BY <1>1, <1>2, <1>3, <1>4, <1>5, <1>6, <1>7, <1>8, <1>9, <1>10, <1>11, <1>12, <1>13,
         <1>14, <1>15, <1>16, <1>17, <1>18, <1>19, <1>20
    DEF Next, Scheduling, Recovery

\* A snapshot is recorded only after it is taken.
LEMMA SnapshotsStep ==
    /\ Functions /\ TypeOK /\ Kinds /\ Entered /\ Begun /\ FencedPurge
    /\ Startup /\ Modes /\ Tasks /\ Claimed /\ Uploads /\ Snapshots
    /\ Next
    => Snapshots'
  <1> SUFFICES ASSUME Functions, TypeOK, Kinds, Entered, Begun, FencedPurge, Startup, Modes,
      Tasks, Claimed, Uploads, Snapshots, Next
               PROVE  Snapshots'
    OBVIOUS
  <1> USE OperationAssumption DEF Snapshots, Modes, Tasks, Runner, Transfer, OfKind, TypeOK,
          Functions, Step, Stop, Quiet, NoFault, Fault, Forget, updateOperation,
          updateCheckpoint
  <1>1. ASSUME NEW o \in Operation, Request(o)
         PROVE  Snapshots'
    <2>1. CASE preserve(o)
      BY <2>1 DEF preserve, Up, insertOperation, admitIntent
    <2>2. CASE restore(o)
      BY <2>2 DEF restore, Up
    <2>3. CASE verify(o)
      BY <2>3 DEF verify, Up
    <2>4. CASE delete(o)
      BY <2>4 DEF delete, Up, Incomplete
    <2>5. CASE purge(o)
      BY <2>5 DEF purge, Up, insertOperation, admitIntent
    <2> HIDE DEF Snapshots
    <2> QED BY <1>1, <2>1, <2>2, <2>3, <2>4, <2>5 DEF Request
  <1>2. ASSUME NEW o \in Operation, PreserveTask(o)
         PROVE  Snapshots'
    <2> o.kind = "preserve"
      BY <1>2, PreserveKind
    <2>1. CASE assertPreserveAdmission(o)
      BY <2>1 DEF assertPreserveAdmission
    <2>2. CASE linkCheckpoint(o)
      BY <2>2 DEF linkCheckpoint
    <2>3. CASE enterPreserving(o)
      BY <2>3 DEF enterPreserving, MayMove, Begun, Past, Ended, TerminalState
    <2>4. CASE attempt(o)
      <3> HIDE DEF Snapshots, Modes, Tasks, Runner, Transfer, OfKind, TypeOK, Functions
      <3>1. pc[o] = "attempt" /\ pc' = [pc EXCEPT ![o] = "revoke"]
            /\ op' = [op EXCEPT ![o] = "pending"]
            /\ UNCHANGED <<mode, ws, published, linked, boot, todo, archive, fence>>
        BY <2>4 DEF attempt
      <3>2. ~Transfer /\ o.checkpoint \in published => ws[o.workspace] # "preserving"
        BY <3>1 DEF Snapshots, Startup, OfKind
      <3> QED BY <3>1, <3>2 DEF Snapshots, Transfer, OfKind, Functions, TypeOK
    <2>5. CASE revokeLeases(o)
      BY <2>5 DEF revokeLeases
    <2>6. CASE inspect(o)
      BY <2>6 DEF inspect, Startup
    <2>7. CASE runTransferPreserve(o)
      BY <2>7, SourceGoes DEF runTransferPreserve, updateWorkspaceStorage
    <2>8. CASE prepareArchive(o)
      BY <2>8 DEF prepareArchive, checkpointUploadAuthority, grantUpload, Incomplete
    <2>9. CASE openGrant(o)
      BY <2>9 DEF openGrant, rowVars
    <2>10. CASE uploadSettled(o)
      BY <2>10 DEF uploadSettled, rowVars
    <2>11. CASE cleanupTransferSource(o)
      BY <2>11 DEF cleanupTransferSource
    <2>12. CASE sourceDeleted(o)
      BY <2>12 DEF sourceDeleted, updateWorkspaceStorage
    <2>13. CASE commitPreserved(o)
      <3> HIDE DEF Snapshots, Modes, Tasks, Runner, Transfer, OfKind, TypeOK, Functions
      <3>1. pc[o] = "commit" /\ pc' = [pc EXCEPT ![o] = "finish"]
            /\ UNCHANGED <<mode, op, published, linked, boot, todo, archive, fence>>
            /\ ws' = Moved(o.workspace, {"preserving"}, "preserved")
        BY <2>13 DEF commitPreserved
      <3>2. ws' = IF ws[o.workspace] = "preserving"
                  THEN [ws EXCEPT ![o.workspace] = "preserved"] ELSE ws
        BY <3>1, MovedIs
      <3> QED BY <3>1, <3>2 DEF Snapshots, Transfer, OfKind, Functions, TypeOK
    <2>14. CASE finishPreserve(o)
      BY <2>14 DEF finishPreserve, Startup
    <2>15. CASE stopForSnapshot(o)
      BY <2>15 DEF stopForSnapshot
    <2>16. CASE createSnapshot(o)
      BY <2>16 DEF createSnapshot, updateWorkspaceStorage
    <2>17. CASE completePreserve(o)
      BY <2>17 DEF completePreserve, updateWorkspaceStorage
    <2>18. CASE detachSource(o)
      BY <2>18 DEF detachSource
    <2>19. CASE handlePreserveFailure(o)
      <3> HIDE DEF Snapshots, Modes, Tasks, Runner, Transfer, OfKind, TypeOK, Functions
      <3>1. pc' = [pc EXCEPT ![o] = pc'[o]] /\ pc'[o] \in {"retain", "abandon", "idle"}
            /\ UNCHANGED <<mode, published, linked, boot, todo, archive, fence>>
        BY <2>19 DEF handlePreserveFailure, Functions
      <3>2. CASE ~Transfer
        <4>1. ws' = Moved(o.workspace, {"preserving"}, "failed") /\ op' = [op EXCEPT ![o] = "failed"]
          BY <2>19, <3>2 DEF handlePreserveFailure
        <4>2. ws' = IF ws[o.workspace] = "preserving"
                    THEN [ws EXCEPT ![o.workspace] = "failed"] ELSE ws
          BY <4>1, MovedIs
        <4> QED BY <3>1, <4>1, <4>2 DEF Snapshots, Transfer, OfKind, Functions, TypeOK
      <3> QED BY <3>1, <3>2 DEF Snapshots, Transfer
    <2>20. CASE retainUnpublishedSource(o)
      BY <2>20 DEF retainUnpublishedSource
    <2>21. CASE abandonSource(o)
      BY <2>21 DEF abandonSource, Moved, MayMove
    <2> HIDE DEF Snapshots
    <2> QED BY <1>2, <2>1, <2>2, <2>3, <2>4, <2>5, <2>6, <2>7, <2>8, <2>9, <2>10, <2>11, <2>12,
         <2>13, <2>14, <2>15, <2>16, <2>17, <2>18, <2>19, <2>20, <2>21 DEF PreserveTask
  <1>3. ASSUME NEW o \in Operation, CheckpointTask(o)
         PROVE  Snapshots'
    <2>1. CASE insertRestore(o)
      BY <2>1 DEF insertRestore, insertOperation, admitIntent
    <2>2. CASE insertTarget(o)
      BY <2>2, CheckpointKind DEF insertTarget
    <2>3. CASE linkTarget(o)
      BY <2>3, CheckpointKind DEF linkTarget
    <2>4. CASE insertVerify(o)
      BY <2>4 DEF insertVerify, insertOperation, admitIntent
    <2>5. CASE finishVerify(o)
      BY <2>5, CheckpointKind DEF finishVerify
    <2>6. CASE insertDelete(o)
      BY <2>6 DEF insertDelete, insertOperation, admitIntent
    <2>7. CASE acknowledgeDelete(o)
      BY <2>7, CheckpointKind DEF acknowledgeDelete
    <2>8. CASE deleteArchive(o)
      BY <2>8, CheckpointKind DEF deleteArchive, removeArchive, Claimed
    <2>9. CASE commitRemoval(o)
      BY <2>9 DEF commitRemoval, removePublication
    <2>10. CASE finishDelete(o)
      <3>1. /\ o.kind = "delete" /\ pc' = [pc EXCEPT ![o] = "sweep"]
            /\ op' = [op EXCEPT ![o] = "succeeded"]
            /\ UNCHANGED <<mode, ws, fence, archive, published, linked, boot, todo>>
        BY <2>10, CheckpointKind DEF finishDelete
      <3> QED BY <3>1
    <2>11. CASE cleanupPreservedStorage(o)
      BY <2>11, CheckpointKind DEF cleanupPreservedStorage, Incomplete, updateWorkspaceStorage
    <2> HIDE DEF Snapshots
    <2> QED BY <1>3, <2>1, <2>2, <2>3, <2>4, <2>5, <2>6, <2>7, <2>8, <2>9, <2>10, <2>11
    DEF CheckpointTask
  <1>4. ASSUME NEW o \in Operation, PurgeTask(o)
         PROVE  Snapshots'
    <2> o.kind = "purge"
      BY <1>4, PurgeKind
    <2>1. CASE acknowledgePurge(o)
      BY <2>1 DEF acknowledgePurge, PurgeFails
    <2>2. CASE cancelCopies(o)
      BY <2>2 DEF cancelCopies, rowVars
    <2>3. CASE copiesSettled(o)
      BY <2>3 DEF copiesSettled
    <2>4. ASSUME NEW r \in Operation, settleRestore(o, r)
           PROVE  Snapshots'
      BY <2>4 DEF settleRestore, Incomplete
    <2>5. ASSUME NEW r \in Operation, endRestore(o, r)
           PROVE  Snapshots'
      BY <2>5 DEF endRestore, Incomplete
    <2>6. CASE hasActiveCopies(o)
      BY <2>6 DEF hasActiveCopies, Incomplete, PurgeFails
    <2>7. CASE endWorkspace(o)
      BY <2>7 DEF endWorkspace, Terminal, Nonterminal, PurgeFails
    <2>8. CASE removeProvider(o)
      BY <2>8 DEF removeProvider, PurgeFails
    <2>9. ASSUME NEW c \in Checkpoint, purgeCheckpoint(o, c)
           PROVE  Snapshots'
      BY <2>9 DEF purgeCheckpoint, PurgeTarget, removeArchive
    <2>10. CASE forgetCheckpoint(o)
      BY <2>10 DEF forgetCheckpoint, removePublication, PurgeFails
    <2>11. CASE purgeStorage(o)
      <3>1. pc' = [pc EXCEPT ![o] = pc'[o]] /\ pc'[o] \in {"content", "idle"}
            /\ UNCHANGED <<mode, ws, published, linked, boot, todo, fence>>
            /\ op' \in {op, [op EXCEPT ![o] = "pending"]}
        BY <2>11 DEF purgeStorage, PurgeFails
      <3>2. \A p \in OfKind("preserve") :
              archive'[p.checkpoint] = archive[p.checkpoint] \/ p.workspace \in fence
        <4>1. o.workspace \in fence
          BY <2>11 DEF purgeStorage, FencedPurge, Incomplete
        <4>2. \A c \in CheckpointsOf(o.workspace) : OwnerOf(c) \in fence
          BY <4>1 DEF CheckpointsOf
        <4>3. archive' = archive
              \/ archive' = [c \in Checkpoint |-> IF c \in CheckpointsOf(o.workspace) THEN "none"
                                                  ELSE archive[c]]
          BY <2>11 DEF purgeStorage
        <4> QED BY <4>2, <4>3, PreserveOf DEF OwnerOf
      <3> QED BY <3>1, <3>2
    <2>12. CASE purgeWorkspaceContent(o)
      BY <2>12 DEF purgeWorkspaceContent
    <2> HIDE DEF Snapshots
    <2> QED BY <1>4, <2>1, <2>2, <2>3, <2>4, <2>5, <2>6, <2>7, <2>8, <2>9, <2>10, <2>11, <2>12
    DEF PurgeTask
  <1>5. ASSUME NEW o \in Operation, Transfers(o)
         PROVE  Snapshots'
    <2>1. CASE createArchive(o)
      BY <2>1 DEF createArchive, checkpointUploadAuthority, Context, Incomplete
    <2>2. CASE sealArchive(o)
      BY <2>2 DEF sealArchive, checkpointUploadAuthority, Context, Incomplete
    <2>3. CASE publishArchive(o)
      BY <2>3 DEF publishArchive, publish, Context, checkpointUploadAuthority, Incomplete, Uploads
    <2>4. CASE closeUploadOwners(o)
      BY <2>4 DEF closeUploadOwners, Context, Uploads
    <2>5. CASE restoreReady(o)
      BY <2>5
      DEF restoreReady, Up, completeRestore, Context, checkpointDownloadAuthority, MayMove,
          Incomplete
    <2>6. CASE claim(o) \/ stageArchive(o) \/ cleanup(o) \/ restoreGrant(o)
               \/ downloadArchive(o) \/ checkpointInstalled(o)
      BY <2>6
      DEF claim, claimUpload, claimDownload, Context, checkpointUploadAuthority,
          checkpointDownloadAuthority, Incomplete, stageArchive, stage, cleanup, abortUpload,
          abortDownload, restoreGrant, Up, grantDownload, downloadArchive, downloaded,
          checkpointInstalled, installed, completeCheckpointStorage, updateWorkspaceStorage
    <2> HIDE DEF Snapshots
    <2> QED BY <1>5, <2>1, <2>2, <2>3, <2>4, <2>5, <2>6 DEF Transfers
  <1>6. ASSUME NEW o \in Operation, TickSteps(o)
         PROVE  Snapshots'
    <2>1. CASE retryPreserve(o)
      BY <2>1 DEF retryPreserve, Up, Terminal, rowVars
    <2>2. CASE recoverRunning(o)
      BY <2>2 DEF recoverRunning, Up, recoverPreserve, Ticking
    <2>3. CASE retryPurge(o)
      BY <2>3 DEF retryPurge, Up, Incomplete, rowVars
    <2> HIDE DEF Snapshots
    <2> QED BY <1>6, <2>1, <2>2, <2>3 DEF TickSteps
  <1>7. ASSUME NEW o \in Operation, launch(o)
         PROVE  Snapshots'
    BY <1>7 DEF launch, Up, updateWorkspaceStorage, Incomplete, Elsewhere
  <1>8. ASSUME NEW o \in Operation, bootstrapFails(o)
         PROVE  Snapshots'
    BY <1>8 DEF bootstrapFails, Up, checkpointDownloadAuthority, Elsewhere, Incomplete
  <1>9. ASSUME NEW o \in Operation, becomesReady(o)
         PROVE  Snapshots'
    BY <1>9 DEF becomesReady, Up, MayMove, Elsewhere
  <1>10. ASSUME NEW w \in Workspace, sweepPreserving(w)
         PROVE  Snapshots'
    BY <1>10 DEF sweepPreserving, Up, Incomplete, Elsewhere
  <1>11. ASSUME NEW w \in Workspace, finalize(w)
         PROVE  Snapshots'
    BY <1>11 DEF finalize, Up, updateWorkspaceStorage, Incomplete, Elsewhere
  <1>12. ASSUME NEW c \in Checkpoint, removeInterrupted(c)
         PROVE  Snapshots'
    BY <1>12 DEF removeInterrupted, Stray, Up, Uploads
  <1>13. ASSUME NEW c \in Checkpoint, settleUpload(c)
         PROVE  Snapshots'
    BY <1>13 DEF settleUpload, Stray, abortUpload, Up, Uploads
  <1>14. ASSUME NEW c \in Checkpoint, verifyPublication(c)
         PROVE  Snapshots'
    BY <1>14 DEF verifyPublication, Booting
  <1>15. ASSUME NEW o \in Operation, reconcileRestore(o)
         PROVE  Snapshots'
    BY <1>15 DEF reconcileRestore, Visit, Terminal, Booting
  <1>16. ASSUME NEW o \in Operation, reconcileVerification(o)
         PROVE  Snapshots'
    BY <1>16 DEF reconcileVerification, Visit, Booting
  <1>17. ASSUME NEW o \in Operation, reconcileDeletion(o)
         PROVE  Snapshots'
    BY <1>17 DEF reconcileDeletion, Booting
  <1>18. ASSUME NEW o \in Operation, reconcilePending(o)
         PROVE  Snapshots'
    BY <1>18 DEF reconcilePending, Visit, Terminal, Booting
  <1>19. ASSUME NEW o \in Operation, reconcileTransferred(o)
         PROVE  Snapshots'
    BY <1>19 DEF reconcileTransferred, Visit, recoverPreserve, Booting
  <1>20. ASSUME NEW o \in Operation, reconcileSnapshot(o)
         PROVE  Snapshots'
    <2> HIDE DEF Snapshots, Modes, Tasks, Runner, Transfer, OfKind, TypeOK, Functions
    <2>1. ~Transfer /\ o.kind = "preserve" /\ op' = [op EXCEPT ![o] = op'[o]]
          /\ todo' = todo \ {o} /\ ws' \in {[ws EXCEPT ![o.workspace] = "preserved"],
                                            Moved(o.workspace, {"preserving"}, "failed")}
          /\ UNCHANGED <<mode, pc, published, linked, boot, archive, fence>>
      BY <1>20 DEF reconcileSnapshot, Visit, Booting, TypeOK
    <2>2. ws' = [ws EXCEPT ![o.workspace] = "preserved"]
          \/ ws' = IF ws[o.workspace] = "preserving"
                   THEN [ws EXCEPT ![o.workspace] = "failed"] ELSE ws
      BY <2>1, MovedIs
    <2> QED BY <2>1, <2>2 DEF Snapshots, Transfer, OfKind, TypeOK
  <1>21. ASSUME NEW o \in Operation, skipPurge(o)
         PROVE  Snapshots'
    BY <1>21 DEF skipPurge, Visit, Booting
  <1>22. ASSUME rowsVisited
         PROVE  Snapshots'
    BY <1>22 DEF rowsVisited, Incomplete, Booting
  <1>23. ASSUME started
         PROVE  Snapshots'
    BY <1>23 DEF started, Booting
  <1>24. ASSUME crash
         PROVE  Snapshots'
    BY <1>24 DEF crash, Up, Nothing, None, rowVars
  <1>25. ASSUME NEW w \in Workspace, beginTermination(w)
         PROVE  Snapshots'
    BY <1>25 DEF beginTermination, Up, Elsewhere
  <1>26. ASSUME NEW w \in Workspace, cutTransfers(w)
         PROVE  Snapshots'
    BY <1>26 DEF cutTransfers, Elsewhere
  <1>27. ASSUME NEW o \in Operation, settleDownload(o)
         PROVE  Snapshots'
    BY <1>27 DEF settleDownload, Up, abortDownload
  <1>28. ASSUME listRunning \/ listPending
         PROVE  Snapshots'
    BY <1>28 DEF listRunning, Listing, Up, None, rowVars, listPending
  <1> HIDE DEF Snapshots
  <1> QED BY <1>1, <1>2, <1>3, <1>4, <1>5, <1>6, <1>7, <1>8, <1>9, <1>10, <1>11, <1>12, <1>13,
         <1>14, <1>15, <1>16, <1>17, <1>18, <1>19, <1>20, <1>21, <1>22, <1>23, <1>24, <1>25,
         <1>26, <1>27, <1>28
    DEF Next, Scheduling, Recovery

\* No step takes the archive of a ready checkpoint, or readies one without.
LEMMA ReadyStep ==
    /\ Functions /\ TypeOK /\ Kinds /\ Begun /\ Claimed /\ FencedPurge
    /\ Startup /\ Uploads /\ Modes /\ Snapshots /\ ReadyHasArchive
    /\ Next
    => ReadyHasArchive'
  <1> SUFFICES ASSUME Functions, TypeOK, Kinds, Begun, Claimed, FencedPurge, Startup, Uploads,
      Modes, Snapshots, ReadyHasArchive, Next
               PROVE  ReadyHasArchive'
    OBVIOUS
  <1> USE OperationAssumption DEF ReadyHasArchive, Verifiable, Transfer, OfKind, TypeOK,
          Functions, Step, Stop, Quiet, NoFault, Fault, Forget, updateOperation,
          updateCheckpoint
  <1>1. ASSUME NEW o \in Operation, Request(o)
         PROVE  ReadyHasArchive'
    <2>1. CASE preserve(o)
      BY <2>1 DEF preserve, Up, insertOperation, admitIntent
    <2>2. CASE purge(o)
      BY <2>2 DEF purge, Up, insertOperation, admitIntent
    <2>3. CASE restore(o) \/ verify(o) \/ delete(o)
      BY <2>3 DEF restore, Up, verify, delete, Incomplete
    <2> HIDE DEF ReadyHasArchive
    <2> QED BY <1>1, <2>1, <2>2, <2>3 DEF Request
  <1>2. ASSUME NEW o \in Operation, PreserveTask(o)
         PROVE  ReadyHasArchive'
    <2> o.kind = "preserve"
      BY <1>2, PreserveKind
    <2>1. CASE assertPreserveAdmission(o)
      BY <2>1 DEF assertPreserveAdmission
    <2>2. CASE enterPreserving(o)
      BY <2>2 DEF enterPreserving, MayMove
    <2>3. CASE inspect(o)
      BY <2>3 DEF inspect
    <2>4. CASE prepareArchive(o)
      BY <2>4 DEF prepareArchive, checkpointUploadAuthority, grantUpload, Incomplete
    <2>5. CASE createSnapshot(o)
      BY <2>5 DEF createSnapshot, updateWorkspaceStorage
    <2>6. CASE completePreserve(o)
      BY <2>6, PreserveOf DEF completePreserve, updateWorkspaceStorage, OwnerOf, Snapshots, Modes
    <2>7. CASE handlePreserveFailure(o)
      BY <2>7 DEF handlePreserveFailure, updateWorkspaceStorage, Moved, MayMove
    <2>8. CASE retainUnpublishedSource(o)
      BY <2>8 DEF retainUnpublishedSource
    <2>9. CASE linkCheckpoint(o) \/ attempt(o) \/ revokeLeases(o) \/ runTransferPreserve(o)
               \/ openGrant(o) \/ uploadSettled(o) \/ cleanupTransferSource(o)
               \/ sourceDeleted(o) \/ commitPreserved(o) \/ finishPreserve(o)
      BY <2>9
      DEF linkCheckpoint, attempt, revokeLeases, runTransferPreserve, updateWorkspaceStorage,
          openGrant, rowVars, uploadSettled, cleanupTransferSource, sourceDeleted,
          commitPreserved, Moved, MayMove, finishPreserve
    <2>10. CASE stopForSnapshot(o) \/ detachSource(o) \/ abandonSource(o)
      BY <2>10 DEF stopForSnapshot, detachSource, abandonSource, Moved, MayMove
    <2> HIDE DEF ReadyHasArchive
    <2> QED BY <1>2, <2>1, <2>2, <2>3, <2>4, <2>5, <2>6, <2>7, <2>8, <2>9, <2>10 DEF PreserveTask
  <1>3. ASSUME NEW o \in Operation, CheckpointTask(o)
         PROVE  ReadyHasArchive'
    <2>1. CASE insertRestore(o)
      BY <2>1 DEF insertRestore, insertOperation, admitIntent
    <2>2. CASE insertVerify(o)
      BY <2>2 DEF insertVerify, insertOperation, admitIntent
    <2>3. CASE finishVerify(o)
      BY <2>3, CheckpointKind DEF finishVerify
    <2>4. CASE insertDelete(o)
      BY <2>4 DEF insertDelete, insertOperation, admitIntent
    <2>5. CASE acknowledgeDelete(o)
      BY <2>5, CheckpointKind DEF acknowledgeDelete
    <2>6. CASE deleteArchive(o)
      BY <2>6, CheckpointKind DEF deleteArchive, removeArchive, Claimed
    <2>7. CASE commitRemoval(o)
      BY <2>7 DEF commitRemoval, removePublication
    <2>8. CASE finishDelete(o)
      BY <2>8, CheckpointKind DEF finishDelete
    <2>9. CASE insertTarget(o) \/ linkTarget(o) \/ cleanupPreservedStorage(o)
      BY <2>9, CheckpointKind
      DEF insertTarget, linkTarget, cleanupPreservedStorage, Incomplete, updateWorkspaceStorage
    <2> HIDE DEF ReadyHasArchive
    <2> QED BY <1>3, <2>1, <2>2, <2>3, <2>4, <2>5, <2>6, <2>7, <2>8, <2>9 DEF CheckpointTask
  <1>4. ASSUME NEW o \in Operation, PurgeTask(o)
         PROVE  ReadyHasArchive'
    <2> o.kind = "purge"
      BY <1>4, PurgeKind
    <2>1. ASSUME NEW c \in Checkpoint, purgeCheckpoint(o, c)
           PROVE  ReadyHasArchive'
      BY <2>1 DEF purgeCheckpoint, CheckpointsOf, removeArchive, FencedPurge, Incomplete
    <2>2. CASE forgetCheckpoint(o)
      BY <2>2 DEF forgetCheckpoint, removePublication, PurgeFails
    <2>3. CASE purgeStorage(o)
      BY <2>3 DEF purgeStorage, CheckpointsOf, PurgeFails, FencedPurge, Incomplete
    <2>4. CASE acknowledgePurge(o) \/ cancelCopies(o) \/ copiesSettled(o) \/ hasActiveCopies(o)
               \/ endWorkspace(o) \/ removeProvider(o) \/ purgeWorkspaceContent(o)
      BY <2>4
      DEF acknowledgePurge, PurgeFails, cancelCopies, rowVars, copiesSettled, hasActiveCopies,
          Incomplete, endWorkspace, Terminal, Nonterminal, removeProvider, purgeWorkspaceContent
    <2>5. ASSUME NEW r \in Operation, settleRestore(o, r) \/ endRestore(o, r)
           PROVE  ReadyHasArchive'
      BY <2>5 DEF settleRestore, Incomplete, endRestore
    <2> HIDE DEF ReadyHasArchive
    <2> QED BY <1>4, <2>1, <2>2, <2>3, <2>4, <2>5 DEF PurgeTask
  <1>5. ASSUME NEW o \in Operation, Transfers(o)
         PROVE  ReadyHasArchive'
    <2>1. CASE claim(o)
      BY <2>1
      DEF claim, claimUpload, claimDownload, Context, checkpointUploadAuthority,
          checkpointDownloadAuthority, Incomplete
    <2>2. CASE createArchive(o)
      BY <2>2 DEF createArchive, checkpointUploadAuthority, Context, Incomplete
    <2>3. CASE stageArchive(o)
      BY <2>3 DEF stageArchive, stage, Context, checkpointUploadAuthority, Incomplete
    <2>4. CASE sealArchive(o)
      BY <2>4 DEF sealArchive, checkpointUploadAuthority, Context, Incomplete
    <2>5. CASE publishArchive(o)
      BY <2>5, PreserveOf
      DEF publishArchive, publish, Context, checkpointUploadAuthority, Incomplete, OwnerOf
    <2>6. CASE closeUploadOwners(o)
      BY <2>6 DEF closeUploadOwners, Context, Uploads
    <2>7. CASE cleanup(o)
      BY <2>7 DEF cleanup, abortUpload, abortDownload, Context
    <2>8. CASE restoreGrant(o) \/ downloadArchive(o) \/ checkpointInstalled(o)
               \/ restoreReady(o)
      BY <2>8
      DEF restoreGrant, Up, grantDownload, Context, checkpointDownloadAuthority, Incomplete,
          downloadArchive, downloaded, checkpointInstalled, installed,
          completeCheckpointStorage, updateWorkspaceStorage, restoreReady, completeRestore,
          MayMove
    <2> HIDE DEF ReadyHasArchive
    <2> QED BY <1>5, <2>1, <2>2, <2>3, <2>4, <2>5, <2>6, <2>7, <2>8 DEF Transfers
  <1>6. ASSUME NEW o \in Operation, TickSteps(o)
         PROVE  ReadyHasArchive'
    <2>1. CASE retryPreserve(o) \/ recoverRunning(o) \/ retryPurge(o)
      BY <2>1
      DEF retryPreserve, Up, Terminal, rowVars, recoverRunning, recoverPreserve, Ticking,
          retryPurge, Incomplete
    <2> HIDE DEF ReadyHasArchive
    <2> QED BY <1>6, <2>1 DEF TickSteps
  <1>7. ASSUME NEW c \in Checkpoint, removeInterrupted(c)
         PROVE  ReadyHasArchive'
    BY <1>7 DEF removeInterrupted, Stray, Up, Uploads
  <1>8. ASSUME NEW c \in Checkpoint, settleUpload(c)
         PROVE  ReadyHasArchive'
    BY <1>8 DEF settleUpload, Stray, abortUpload, Up
  <1>9. ASSUME NEW c \in Checkpoint, verifyPublication(c)
         PROVE  ReadyHasArchive'
    BY <1>9 DEF verifyPublication, Booting
  <1>10. ASSUME NEW o \in Operation, reconcileVerification(o)
         PROVE  ReadyHasArchive'
    BY <1>10 DEF reconcileVerification, Visit, Booting
  <1>11. ASSUME NEW o \in Operation, reconcileDeletion(o)
         PROVE  ReadyHasArchive'
    BY <1>11 DEF reconcileDeletion, Booting
  <1>12. ASSUME NEW o \in Operation, reconcilePending(o)
         PROVE  ReadyHasArchive'
    BY <1>12 DEF reconcilePending, Visit, Terminal, Booting
  <1>13. ASSUME NEW o \in Operation, reconcileSnapshot(o)
         PROVE  ReadyHasArchive'
    BY <1>13 DEF reconcileSnapshot, Visit, updateWorkspaceStorage, Moved, Booting, MayMove
  <1>14. ASSUME NEW o \in Operation, launch(o) \/ bootstrapFails(o) \/ becomesReady(o)
                                     \/ settleDownload(o) \/ reconcileRestore(o)
                                     \/ reconcileTransferred(o) \/ skipPurge(o)
         PROVE  ReadyHasArchive'
    BY <1>14
    DEF launch, Up, updateWorkspaceStorage, Incomplete, Elsewhere, bootstrapFails,
        checkpointDownloadAuthority, becomesReady, MayMove, settleDownload, abortDownload,
        reconcileRestore, Visit, Terminal, Booting, reconcileTransferred, recoverPreserve,
        skipPurge
  <1>15. ASSUME NEW w \in Workspace, sweepPreserving(w) \/ cutTransfers(w) \/ finalize(w)
                                     \/ beginTermination(w)
         PROVE  ReadyHasArchive'
    BY <1>15
    DEF sweepPreserving, Up, Incomplete, Elsewhere, cutTransfers, finalize,
        updateWorkspaceStorage, beginTermination
  <1>16. ASSUME rowsVisited \/ started \/ crash \/ listRunning \/ listPending
         PROVE  ReadyHasArchive'
    BY <1>16
    DEF rowsVisited, Incomplete, Booting, started, crash, Up, Nothing, None, rowVars,
        listRunning, Listing, listPending
  <1> HIDE DEF ReadyHasArchive
  <1> QED BY <1>1, <1>2, <1>3, <1>4, <1>5, <1>6, <1>7, <1>8, <1>9, <1>10, <1>11, <1>12, <1>13,
         <1>14, <1>15, <1>16
    DEF Next, Scheduling, Recovery

\* No step readies a restored workspace without its source.
LEMMA SoundReadyStep ==
    Functions /\ TypeOK /\ Kinds /\ Born /\ Restored /\ Next => SoundReady
  <1> SUFFICES ASSUME Functions, TypeOK, Kinds, Born, Restored, Next
               PROVE  SoundReady
    OBVIOUS
  <1> USE OperationAssumption DEF SoundReady, OfKind, TypeOK, Functions, Step, Stop, Quiet,
          NoFault, Fault, Forget, updateOperation, updateCheckpoint
  <1>1. ASSUME NEW o \in Operation, Request(o)
         PROVE  SoundReady
    <2>1. CASE preserve(o) \/ restore(o) \/ verify(o) \/ delete(o) \/ purge(o)
      BY <2>1
      DEF preserve, Up, insertOperation, admitIntent, restore, verify, delete, Incomplete, purge
    <2> HIDE DEF SoundReady
    <2> QED BY <1>1, <2>1 DEF Request
  <1>2. ASSUME NEW o \in Operation, PreserveTask(o)
         PROVE  SoundReady
    <2> o.kind = "preserve"
      BY <1>2, PreserveKind
    <2>1. CASE enterPreserving(o)
      BY <2>1 DEF enterPreserving, MayMove
    <2>2. CASE commitPreserved(o)
      BY <2>2 DEF commitPreserved, Moved, MayMove
    <2>3. CASE handlePreserveFailure(o)
      BY <2>3 DEF handlePreserveFailure, Transfer, updateWorkspaceStorage, Moved, MayMove
    <2>4. CASE abandonSource(o)
      BY <2>4 DEF abandonSource, Moved, MayMove
    <2>5. CASE assertPreserveAdmission(o) \/ linkCheckpoint(o) \/ attempt(o) \/ revokeLeases(o)
               \/ inspect(o) \/ runTransferPreserve(o) \/ prepareArchive(o) \/ openGrant(o)
               \/ uploadSettled(o) \/ cleanupTransferSource(o)
      BY <2>5
      DEF assertPreserveAdmission, linkCheckpoint, attempt, revokeLeases, inspect,
          runTransferPreserve, Transfer, updateWorkspaceStorage, prepareArchive,
          checkpointUploadAuthority, grantUpload, Incomplete, openGrant, rowVars, uploadSettled,
          cleanupTransferSource
    <2>6. CASE sourceDeleted(o) \/ finishPreserve(o) \/ stopForSnapshot(o) \/ createSnapshot(o)
               \/ completePreserve(o) \/ detachSource(o) \/ retainUnpublishedSource(o)
      BY <2>6
      DEF sourceDeleted, updateWorkspaceStorage, finishPreserve, stopForSnapshot, Transfer,
          createSnapshot, completePreserve, detachSource, retainUnpublishedSource
    <2> HIDE DEF SoundReady
    <2> QED BY <1>2, <2>1, <2>2, <2>3, <2>4, <2>5, <2>6 DEF PreserveTask
  <1>3. ASSUME NEW o \in Operation, CheckpointTask(o)
         PROVE  SoundReady
    <2>1. CASE insertTarget(o)
      BY <2>1, CheckpointKind DEF insertTarget
    <2>2. CASE insertRestore(o) \/ linkTarget(o) \/ insertVerify(o) \/ finishVerify(o)
               \/ insertDelete(o) \/ acknowledgeDelete(o) \/ deleteArchive(o)
               \/ commitRemoval(o) \/ finishDelete(o) \/ cleanupPreservedStorage(o)
      BY <2>2, CheckpointKind
      DEF insertRestore, insertOperation, admitIntent, linkTarget, insertVerify, finishVerify,
          insertDelete, acknowledgeDelete, deleteArchive, removeArchive, Transfer,
          commitRemoval, removePublication, finishDelete, cleanupPreservedStorage, Incomplete,
          updateWorkspaceStorage
    <2> HIDE DEF SoundReady
    <2> QED BY <1>3, <2>1, <2>2 DEF CheckpointTask
  <1>4. ASSUME NEW o \in Operation, PurgeTask(o)
         PROVE  SoundReady
    <2> o.kind = "purge"
      BY <1>4, PurgeKind
    <2>1. ASSUME NEW r \in Operation, endRestore(o, r)
           PROVE  SoundReady
      BY <2>1 DEF endRestore, Incomplete
    <2>2. CASE endWorkspace(o)
      BY <2>2 DEF endWorkspace, Terminal, Nonterminal, PurgeFails
    <2>3. CASE acknowledgePurge(o) \/ cancelCopies(o) \/ copiesSettled(o) \/ hasActiveCopies(o)
               \/ removeProvider(o) \/ forgetCheckpoint(o) \/ purgeStorage(o)
               \/ purgeWorkspaceContent(o)
      BY <2>3
      DEF acknowledgePurge, PurgeFails, cancelCopies, Transfer, rowVars, copiesSettled,
          hasActiveCopies, Incomplete, removeProvider, forgetCheckpoint, removePublication,
          purgeStorage, purgeWorkspaceContent
    <2>4. ASSUME NEW r \in Operation, settleRestore(o, r)
           PROVE  SoundReady
      BY <2>4 DEF settleRestore, Incomplete
    <2>5. ASSUME NEW c \in Checkpoint, purgeCheckpoint(o, c)
           PROVE  SoundReady
      BY <2>5 DEF purgeCheckpoint, Transfer, removeArchive
    <2> HIDE DEF SoundReady
    <2> QED BY <1>4, <2>1, <2>2, <2>3, <2>4, <2>5 DEF PurgeTask
  <1>5. ASSUME NEW o \in Operation, Transfers(o)
         PROVE  SoundReady
    <2>1. CASE restoreReady(o)
      BY <2>1, RequestAssumption
      DEF restoreReady, Up, completeRestore, Context, checkpointDownloadAuthority, MayMove,
          Incomplete, Restored
    <2>2. CASE claim(o) \/ createArchive(o) \/ stageArchive(o) \/ sealArchive(o)
               \/ publishArchive(o) \/ closeUploadOwners(o) \/ cleanup(o) \/ restoreGrant(o)
               \/ downloadArchive(o) \/ checkpointInstalled(o)
      BY <2>2
      DEF claim, claimUpload, claimDownload, Context, checkpointUploadAuthority,
          checkpointDownloadAuthority, Incomplete, createArchive, stageArchive, stage,
          sealArchive, publishArchive, publish, closeUploadOwners, cleanup, abortUpload,
          abortDownload, restoreGrant, Up, Transfer, grantDownload, downloadArchive, downloaded,
          checkpointInstalled, installed, completeCheckpointStorage, updateWorkspaceStorage
    <2> HIDE DEF SoundReady
    <2> QED BY <1>5, <2>1, <2>2 DEF Transfers
  <1>6. ASSUME NEW o \in Operation, TickSteps(o)
         PROVE  SoundReady
    <2>1. CASE retryPreserve(o) \/ recoverRunning(o) \/ retryPurge(o)
      BY <2>1
      DEF retryPreserve, Up, Terminal, rowVars, recoverRunning, Transfer, recoverPreserve,
          Ticking, retryPurge, Incomplete
    <2> HIDE DEF SoundReady
    <2> QED BY <1>6, <2>1 DEF TickSteps
  <1>7. ASSUME NEW o \in Operation, launch(o)
         PROVE  SoundReady
    BY <1>7 DEF launch, Up, Transfer, updateWorkspaceStorage, Incomplete, Elsewhere
  <1>8. ASSUME NEW o \in Operation, bootstrapFails(o)
         PROVE  SoundReady
    BY <1>8 DEF bootstrapFails, Up, Transfer, checkpointDownloadAuthority, Elsewhere, Incomplete
  <1>9. ASSUME NEW o \in Operation, becomesReady(o)
         PROVE  SoundReady
    BY <1>9, RequestAssumption
    DEF becomesReady, Up, Transfer, MayMove, Elsewhere, Restored, Fenced
  <1>10. ASSUME NEW w \in Workspace, sweepPreserving(w)
         PROVE  SoundReady
    BY <1>10 DEF sweepPreserving, Up, Incomplete, Elsewhere
  <1>11. ASSUME NEW w \in Workspace, finalize(w)
         PROVE  SoundReady
    BY <1>11 DEF finalize, Up, Transfer, updateWorkspaceStorage, Incomplete, Elsewhere
  <1>12. ASSUME NEW o \in Operation, reconcileSnapshot(o)
         PROVE  SoundReady
    BY <1>12
    DEF reconcileSnapshot, Visit, Transfer, updateWorkspaceStorage, Moved, Booting, MayMove
  <1>13. ASSUME NEW w \in Workspace, beginTermination(w)
         PROVE  SoundReady
    BY <1>13 DEF beginTermination, Up, Elsewhere
  <1>14. ASSUME NEW w \in Workspace, cutTransfers(w)
         PROVE  SoundReady
    BY <1>14 DEF cutTransfers, Elsewhere
  <1>15. ASSUME NEW c \in Checkpoint, removeInterrupted(c) \/ settleUpload(c)
                                      \/ verifyPublication(c)
         PROVE  SoundReady
    BY <1>15 DEF removeInterrupted, settleUpload, abortUpload, verifyPublication, Booting
  <1>16. ASSUME NEW o \in Operation, settleDownload(o) \/ reconcileRestore(o)
                                     \/ reconcileVerification(o) \/ reconcileDeletion(o)
                                     \/ reconcilePending(o) \/ reconcileTransferred(o)
                                     \/ skipPurge(o)
         PROVE  SoundReady
    BY <1>16
    DEF settleDownload, Up, abortDownload, reconcileRestore, Visit, Terminal, Booting,
        reconcileVerification, Transfer, reconcileDeletion, reconcilePending,
        reconcileTransferred, recoverPreserve, skipPurge
  <1>17. ASSUME rowsVisited \/ started \/ crash \/ listRunning \/ listPending
         PROVE  SoundReady
    BY <1>17
    DEF rowsVisited, Incomplete, Booting, started, crash, Up, Nothing, None, rowVars,
        listRunning, Listing, listPending
  <1> HIDE DEF SoundReady
  <1> QED BY <1>1, <1>2, <1>3, <1>4, <1>5, <1>6, <1>7, <1>8, <1>9, <1>10, <1>11, <1>12, <1>13,
         <1>14, <1>15, <1>16, <1>17
    DEF Next, Scheduling, Recovery

\* No second runner starts for a workspace.
LEMMA OneRunnerStep ==
    Functions /\ Kinds /\ OneRunner /\ Next => OneRunner'
  <1> SUFFICES ASSUME Functions, Kinds, OneRunner, Next
               PROVE  OneRunner'
    OBVIOUS
  <1> USE OperationAssumption DEF OneRunner, Runner, owns, OfKind, Functions, Step, Stop, Quiet,
          NoFault, Fault, Forget, updateOperation, updateCheckpoint
  <1>1. ASSUME NEW o \in Operation, Request(o)
         PROVE  OneRunner'
    <2>1. CASE preserve(o)
      BY <2>1 DEF preserve, Up, insertOperation, admitIntent
    <2>2. CASE restore(o)
      BY <2>2 DEF restore, Up
    <2>3. CASE verify(o)
      BY <2>3 DEF verify, Up
    <2>4. CASE delete(o)
      BY <2>4 DEF delete, Up, Incomplete
    <2>5. CASE purge(o)
      BY <2>5 DEF purge, Up, insertOperation, admitIntent
    <2> HIDE DEF OneRunner
    <2> QED BY <1>1, <2>1, <2>2, <2>3, <2>4, <2>5 DEF Request
  <1>2. ASSUME NEW o \in Operation, PreserveTask(o)
         PROVE  OneRunner'
    <2> o.kind = "preserve"
      BY <1>2, PreserveKind
    <2>1. CASE assertPreserveAdmission(o)
      BY <2>1 DEF assertPreserveAdmission
    <2>2. CASE linkCheckpoint(o)
      BY <2>2 DEF linkCheckpoint
    <2>3. CASE enterPreserving(o)
      BY <2>3 DEF enterPreserving, MayMove
    <2>4. CASE attempt(o)
      BY <2>4 DEF attempt
    <2>5. CASE revokeLeases(o)
      BY <2>5 DEF revokeLeases
    <2>6. CASE inspect(o)
      BY <2>6 DEF inspect
    <2>7. CASE runTransferPreserve(o)
      BY <2>7, SourceGoes DEF runTransferPreserve, Transfer, updateWorkspaceStorage
    <2>8. CASE prepareArchive(o)
      BY <2>8 DEF prepareArchive, checkpointUploadAuthority, grantUpload, Incomplete
    <2>9. CASE openGrant(o)
      BY <2>9 DEF openGrant, rowVars
    <2>10. CASE uploadSettled(o)
      BY <2>10 DEF uploadSettled, rowVars
    <2>11. CASE cleanupTransferSource(o)
      BY <2>11 DEF cleanupTransferSource
    <2>12. CASE sourceDeleted(o)
      BY <2>12 DEF sourceDeleted, updateWorkspaceStorage
    <2>13. CASE commitPreserved(o)
      BY <2>13 DEF commitPreserved, Moved, MayMove
    <2>14. CASE finishPreserve(o)
      BY <2>14 DEF finishPreserve
    <2>15. CASE stopForSnapshot(o)
      BY <2>15 DEF stopForSnapshot, Transfer
    <2>16. CASE createSnapshot(o)
      BY <2>16 DEF createSnapshot, updateWorkspaceStorage
    <2>17. CASE completePreserve(o)
      BY <2>17 DEF completePreserve, updateWorkspaceStorage
    <2>18. CASE detachSource(o)
      BY <2>18 DEF detachSource
    <2>19. CASE handlePreserveFailure(o)
      BY <2>19 DEF handlePreserveFailure, Transfer, updateWorkspaceStorage, Moved, MayMove
    <2>20. CASE retainUnpublishedSource(o)
      BY <2>20 DEF retainUnpublishedSource
    <2>21. CASE abandonSource(o)
      BY <2>21 DEF abandonSource, Moved, MayMove
    <2> HIDE DEF OneRunner
    <2> QED BY <1>2, <2>1, <2>2, <2>3, <2>4, <2>5, <2>6, <2>7, <2>8, <2>9, <2>10, <2>11, <2>12,
         <2>13, <2>14, <2>15, <2>16, <2>17, <2>18, <2>19, <2>20, <2>21 DEF PreserveTask
  <1>3. ASSUME NEW o \in Operation, CheckpointTask(o)
         PROVE  OneRunner'
    <2>1. CASE insertRestore(o)
      BY <2>1 DEF insertRestore, insertOperation, admitIntent
    <2>2. CASE insertTarget(o)
      BY <2>2, CheckpointKind DEF insertTarget
    <2>3. CASE linkTarget(o)
      BY <2>3, CheckpointKind DEF linkTarget
    <2>4. CASE insertVerify(o)
      BY <2>4 DEF insertVerify, insertOperation, admitIntent
    <2>5. CASE finishVerify(o)
      BY <2>5, CheckpointKind DEF finishVerify
    <2>6. CASE insertDelete(o)
      BY <2>6 DEF insertDelete, insertOperation, admitIntent
    <2>7. CASE acknowledgeDelete(o)
      BY <2>7, CheckpointKind DEF acknowledgeDelete
    <2>8. CASE deleteArchive(o)
      BY <2>8, CheckpointKind DEF deleteArchive, removeArchive, Transfer
    <2>9. CASE commitRemoval(o)
      BY <2>9 DEF commitRemoval, Transfer, removePublication
    <2>10. CASE finishDelete(o)
      BY <2>10, CheckpointKind DEF finishDelete
    <2>11. CASE cleanupPreservedStorage(o)
      BY <2>11, CheckpointKind
      DEF cleanupPreservedStorage, Transfer, Incomplete, updateWorkspaceStorage
    <2> HIDE DEF OneRunner
    <2> QED BY <1>3, <2>1, <2>2, <2>3, <2>4, <2>5, <2>6, <2>7, <2>8, <2>9, <2>10, <2>11
    DEF CheckpointTask
  <1>4. ASSUME NEW o \in Operation, PurgeTask(o)
         PROVE  OneRunner'
    <2> o.kind = "purge"
      BY <1>4, PurgeKind
    <2>1. CASE acknowledgePurge(o)
      BY <2>1 DEF acknowledgePurge, PurgeFails
    <2>2. CASE cancelCopies(o)
      BY <2>2 DEF cancelCopies, Transfer, rowVars
    <2>3. CASE copiesSettled(o)
      BY <2>3 DEF copiesSettled, Transfer
    <2>4. CASE hasActiveCopies(o)
      BY <2>4 DEF hasActiveCopies, Incomplete, PurgeFails
    <2>5. CASE endWorkspace(o)
      BY <2>5 DEF endWorkspace, Terminal, Nonterminal, PurgeFails
    <2>6. CASE removeProvider(o)
      BY <2>6 DEF removeProvider, PurgeFails
    <2>7. ASSUME NEW c \in Checkpoint, purgeCheckpoint(o, c)
           PROVE  OneRunner'
      BY <2>7 DEF purgeCheckpoint, Transfer, removeArchive
    <2>8. CASE forgetCheckpoint(o)
      BY <2>8 DEF forgetCheckpoint, Transfer, removePublication, PurgeFails
    <2>9. CASE purgeStorage(o)
      BY <2>9 DEF purgeStorage, Transfer, PurgeFails
    <2>10. CASE purgeWorkspaceContent(o)
      BY <2>10 DEF purgeWorkspaceContent
    <2>11. ASSUME NEW r \in Operation, settleRestore(o, r) \/ endRestore(o, r)
           PROVE  OneRunner'
      BY <2>11 DEF settleRestore, Incomplete, endRestore
    <2> HIDE DEF OneRunner
    <2> QED BY <1>4, <2>1, <2>2, <2>3, <2>4, <2>5, <2>6, <2>7, <2>8, <2>9, <2>10, <2>11
    DEF PurgeTask
  <1>5. ASSUME NEW o \in Operation, Transfers(o)
         PROVE  OneRunner'
    <2>1. CASE claim(o) \/ createArchive(o) \/ stageArchive(o) \/ sealArchive(o)
               \/ publishArchive(o) \/ closeUploadOwners(o) \/ cleanup(o) \/ restoreGrant(o)
               \/ downloadArchive(o) \/ checkpointInstalled(o)
      BY <2>1
      DEF claim, claimUpload, claimDownload, Context, checkpointUploadAuthority,
          checkpointDownloadAuthority, Incomplete, createArchive, stageArchive, stage,
          sealArchive, publishArchive, publish, closeUploadOwners, cleanup, abortUpload,
          abortDownload, restoreGrant, Up, Transfer, grantDownload, downloadArchive, downloaded,
          checkpointInstalled, installed, completeCheckpointStorage, updateWorkspaceStorage
    <2>2. CASE restoreReady(o)
      BY <2>2
      DEF restoreReady, Up, completeRestore, Context, checkpointDownloadAuthority, MayMove,
          Incomplete
    <2> HIDE DEF OneRunner
    <2> QED BY <1>5, <2>1, <2>2 DEF Transfers
  <1>6. ASSUME NEW o \in Operation, TickSteps(o)
         PROVE  OneRunner'
    <2>1. CASE retryPreserve(o)
      BY <2>1 DEF retryPreserve, Up, Terminal, rowVars
    <2>2. CASE recoverRunning(o)
      BY <2>2 DEF recoverRunning, Up, Transfer, recoverPreserve, Ticking
    <2>3. CASE retryPurge(o)
      BY <2>3 DEF retryPurge, Up, Incomplete, rowVars
    <2> HIDE DEF OneRunner
    <2> QED BY <1>6, <2>1, <2>2, <2>3 DEF TickSteps
  <1>7. ASSUME NEW o \in Operation, reconcileTransferred(o)
         PROVE  OneRunner'
    BY <1>7 DEF reconcileTransferred, Visit, Transfer, recoverPreserve, Booting
  <1>8. ASSUME crash
         PROVE  OneRunner'
    BY <1>8 DEF crash, Up, Nothing, None, rowVars
  <1>9. ASSUME NEW o \in Operation, launch(o) \/ bootstrapFails(o) \/ becomesReady(o)
                                    \/ settleDownload(o) \/ reconcileRestore(o)
                                    \/ reconcileVerification(o) \/ reconcileDeletion(o)
                                    \/ reconcilePending(o) \/ reconcileSnapshot(o)
                                    \/ skipPurge(o)
         PROVE  OneRunner'
    BY <1>9
    DEF launch, Up, Transfer, updateWorkspaceStorage, Incomplete, Elsewhere, bootstrapFails,
        checkpointDownloadAuthority, becomesReady, MayMove, settleDownload, abortDownload,
        reconcileRestore, Visit, Terminal, Booting, reconcileVerification, reconcileDeletion,
        reconcilePending, reconcileSnapshot, Moved, skipPurge
  <1>10. ASSUME NEW w \in Workspace, sweepPreserving(w) \/ cutTransfers(w) \/ finalize(w)
                                     \/ beginTermination(w)
         PROVE  OneRunner'
    BY <1>10
    DEF sweepPreserving, Up, Incomplete, Elsewhere, cutTransfers, finalize, Transfer,
        updateWorkspaceStorage, beginTermination
  <1>11. ASSUME NEW c \in Checkpoint, removeInterrupted(c) \/ settleUpload(c)
                                      \/ verifyPublication(c)
         PROVE  OneRunner'
    BY <1>11 DEF removeInterrupted, settleUpload, abortUpload, verifyPublication, Booting
  <1>12. ASSUME rowsVisited \/ started \/ listRunning \/ listPending
         PROVE  OneRunner'
    BY <1>12
    DEF rowsVisited, Incomplete, Booting, started, listRunning, Listing, Up, None, rowVars,
        listPending
  <1> HIDE DEF OneRunner
  <1> QED BY <1>1, <1>2, <1>3, <1>4, <1>5, <1>6, <1>7, <1>8, <1>9, <1>10, <1>11, <1>12
    DEF Next, Scheduling, Recovery

-------------------------------------------------------------------------------
\* What stops, and what is removed.

\* An upload is settled before its preserve is.
LEMMA UnsettledStep ==
    Functions /\ TypeOK /\ Kinds /\ Tasks /\ Uploads /\ Startup /\ Unsettled /\ Next => Unsettled'
  <1> SUFFICES ASSUME Functions, TypeOK, Kinds, Tasks, Uploads, Startup, Unsettled, Next
               PROVE  Unsettled'
    OBVIOUS
  <1> USE OperationAssumption DEF Unsettled, Active, OfKind, TypeOK, Functions, Step, Stop,
          Quiet, NoFault, Fault, Forget, updateOperation, updateCheckpoint
  <1>1. ASSUME NEW o \in Operation, Request(o)
         PROVE  Unsettled'
    <2>1. CASE preserve(o)
      BY <2>1 DEF preserve, Up, insertOperation, admitIntent
    <2>2. CASE restore(o)
      BY <2>2 DEF restore, Up
    <2>3. CASE verify(o)
      BY <2>3 DEF verify, Up
    <2>4. CASE delete(o)
      BY <2>4 DEF delete, Up, Incomplete
    <2>5. CASE purge(o)
      BY <2>5 DEF purge, Up, insertOperation, admitIntent
    <2> HIDE DEF Unsettled
    <2> QED BY <1>1, <2>1, <2>2, <2>3, <2>4, <2>5 DEF Request
  <1>2. ASSUME NEW o \in Operation, PreserveTask(o)
         PROVE  Unsettled'
    <2> o.kind = "preserve"
      BY <1>2, PreserveKind
    <2>1. CASE assertPreserveAdmission(o)
      BY <2>1 DEF assertPreserveAdmission
    <2>2. CASE linkCheckpoint(o)
      BY <2>2 DEF linkCheckpoint
    <2>3. CASE enterPreserving(o)
      BY <2>3 DEF enterPreserving, MayMove
    <2>4. CASE attempt(o)
      BY <2>4 DEF attempt
    <2>5. CASE revokeLeases(o)
      BY <2>5 DEF revokeLeases
    <2>6. CASE inspect(o)
      BY <2>6 DEF inspect
    <2>7. CASE runTransferPreserve(o)
      BY <2>7, SourceGoes DEF runTransferPreserve, Transfer, updateWorkspaceStorage
    <2>8. CASE prepareArchive(o)
      BY <2>8
      DEF prepareArchive, checkpointUploadAuthority, grantUpload, Incomplete, Tasks, Runner
    <2>9. CASE openGrant(o)
      BY <2>9 DEF openGrant, rowVars
    <2>10. CASE uploadSettled(o)
      BY <2>10 DEF uploadSettled, rowVars
    <2>11. CASE cleanupTransferSource(o)
      BY <2>11 DEF cleanupTransferSource
    <2>12. CASE sourceDeleted(o)
      BY <2>12 DEF sourceDeleted, updateWorkspaceStorage
    <2>13. CASE commitPreserved(o)
      BY <2>13 DEF commitPreserved, Moved, MayMove
    <2>14. CASE finishPreserve(o)
      BY <2>14 DEF finishPreserve
    <2>15. CASE stopForSnapshot(o)
      BY <2>15 DEF stopForSnapshot, Transfer
    <2>16. CASE createSnapshot(o)
      BY <2>16 DEF createSnapshot, updateWorkspaceStorage
    <2>17. CASE completePreserve(o)
      BY <2>17 DEF completePreserve, updateWorkspaceStorage
    <2>18. CASE detachSource(o)
      BY <2>18 DEF detachSource
    <2>19. CASE handlePreserveFailure(o)
      BY <2>19 DEF handlePreserveFailure, Transfer, updateWorkspaceStorage, Moved, MayMove
    <2>20. CASE retainUnpublishedSource(o)
      BY <2>20 DEF retainUnpublishedSource
    <2>21. CASE abandonSource(o)
      BY <2>21 DEF abandonSource, Moved, MayMove
    <2> HIDE DEF Unsettled
    <2> QED BY <1>2, <2>1, <2>2, <2>3, <2>4, <2>5, <2>6, <2>7, <2>8, <2>9, <2>10, <2>11, <2>12,
         <2>13, <2>14, <2>15, <2>16, <2>17, <2>18, <2>19, <2>20, <2>21 DEF PreserveTask
  <1>3. ASSUME NEW o \in Operation, CheckpointTask(o)
         PROVE  Unsettled'
    <2>1. CASE insertRestore(o)
      BY <2>1 DEF insertRestore, insertOperation, admitIntent
    <2>2. CASE insertTarget(o)
      BY <2>2, CheckpointKind DEF insertTarget
    <2>3. CASE linkTarget(o)
      BY <2>3, CheckpointKind DEF linkTarget
    <2>4. CASE insertVerify(o)
      BY <2>4 DEF insertVerify, insertOperation, admitIntent
    <2>5. CASE finishVerify(o)
      BY <2>5, CheckpointKind DEF finishVerify
    <2>6. CASE insertDelete(o)
      BY <2>6 DEF insertDelete, insertOperation, admitIntent
    <2>7. CASE acknowledgeDelete(o)
      BY <2>7, CheckpointKind DEF acknowledgeDelete
    <2>8. CASE deleteArchive(o)
      BY <2>8, CheckpointKind DEF deleteArchive, removeArchive, Transfer
    <2>9. CASE commitRemoval(o)
      BY <2>9 DEF commitRemoval, Transfer, removePublication
    <2>10. CASE finishDelete(o)
      BY <2>10, CheckpointKind DEF finishDelete
    <2>11. CASE cleanupPreservedStorage(o)
      BY <2>11, CheckpointKind
      DEF cleanupPreservedStorage, Transfer, Incomplete, updateWorkspaceStorage
    <2> HIDE DEF Unsettled
    <2> QED BY <1>3, <2>1, <2>2, <2>3, <2>4, <2>5, <2>6, <2>7, <2>8, <2>9, <2>10, <2>11
    DEF CheckpointTask
  <1>4. ASSUME NEW o \in Operation, PurgeTask(o)
         PROVE  Unsettled'
    <2> o.kind = "purge"
      BY <1>4, PurgeKind
    <2>1. CASE acknowledgePurge(o)
      BY <2>1 DEF acknowledgePurge, PurgeFails
    <2>2. CASE cancelCopies(o)
      BY <2>2 DEF cancelCopies, Transfer, rowVars
    <2>3. CASE copiesSettled(o)
      BY <2>3 DEF copiesSettled, Transfer
    <2>4. ASSUME NEW r \in Operation, settleRestore(o, r)
           PROVE  Unsettled'
      BY <2>4 DEF settleRestore, Incomplete
    <2>5. CASE hasActiveCopies(o)
      BY <2>5 DEF hasActiveCopies, Incomplete, PurgeFails
    <2>6. CASE endWorkspace(o)
      BY <2>6 DEF endWorkspace, Terminal, Nonterminal, PurgeFails
    <2>7. CASE removeProvider(o)
      BY <2>7 DEF removeProvider, PurgeFails
    <2>8. ASSUME NEW c \in Checkpoint, purgeCheckpoint(o, c)
           PROVE  Unsettled'
      BY <2>8 DEF purgeCheckpoint, Transfer, removeArchive
    <2>9. CASE forgetCheckpoint(o)
      BY <2>9 DEF forgetCheckpoint, Transfer, removePublication, PurgeFails
    <2>10. CASE purgeStorage(o)
      BY <2>10 DEF purgeStorage, Transfer, PurgeFails
    <2>11. CASE purgeWorkspaceContent(o)
      BY <2>11 DEF purgeWorkspaceContent
    <2>12. ASSUME NEW r \in Operation, endRestore(o, r)
           PROVE  Unsettled'
      BY <2>12 DEF endRestore, Incomplete
    <2> HIDE DEF Unsettled
    <2> QED BY <1>4, <2>1, <2>2, <2>3, <2>4, <2>5, <2>6, <2>7, <2>8, <2>9, <2>10, <2>11, <2>12
    DEF PurgeTask
  <1>5. ASSUME NEW o \in Operation, Transfers(o)
         PROVE  Unsettled'
    <2>1. CASE claim(o)
      BY <2>1
      DEF claim, claimUpload, claimDownload, Context, checkpointUploadAuthority,
          checkpointDownloadAuthority, Incomplete
    <2>2. CASE stageArchive(o)
      BY <2>2 DEF stageArchive, stage, Context, checkpointUploadAuthority, Incomplete
    <2>3. CASE publishArchive(o)
      BY <2>3 DEF publishArchive, publish, Context, checkpointUploadAuthority, Incomplete
    <2>4. CASE closeUploadOwners(o)
      BY <2>4 DEF closeUploadOwners, Context
    <2>5. CASE cleanup(o)
      BY <2>5 DEF cleanup, abortUpload, abortDownload, Context
    <2>6. CASE restoreGrant(o)
      BY <2>6
      DEF restoreGrant, Up, Transfer, grantDownload, Context, checkpointDownloadAuthority,
          Incomplete
    <2>7. CASE checkpointInstalled(o)
      BY <2>7
      DEF checkpointInstalled, installed, Context, checkpointDownloadAuthority,
          completeCheckpointStorage, Incomplete, updateWorkspaceStorage
    <2>8. CASE restoreReady(o)
      BY <2>8
      DEF restoreReady, Up, completeRestore, Context, checkpointDownloadAuthority, MayMove,
          Incomplete
    <2>9. CASE createArchive(o) \/ sealArchive(o) \/ downloadArchive(o)
      BY <2>9
      DEF createArchive, checkpointUploadAuthority, Context, Incomplete, sealArchive,
          downloadArchive, downloaded, checkpointDownloadAuthority
    <2> HIDE DEF Unsettled
    <2> QED BY <1>5, <2>1, <2>2, <2>3, <2>4, <2>5, <2>6, <2>7, <2>8, <2>9 DEF Transfers
  <1>6. ASSUME NEW o \in Operation, TickSteps(o)
         PROVE  Unsettled'
    <2>1. CASE retryPreserve(o)
      BY <2>1 DEF retryPreserve, Up, Terminal, rowVars
    <2>2. CASE recoverRunning(o)
      BY <2>2 DEF recoverRunning, Up, Transfer, recoverPreserve, Ticking
    <2>3. CASE retryPurge(o)
      BY <2>3 DEF retryPurge, Up, Incomplete, rowVars
    <2> HIDE DEF Unsettled
    <2> QED BY <1>6, <2>1, <2>2, <2>3 DEF TickSteps
  <1>7. ASSUME NEW o \in Operation, launch(o)
         PROVE  Unsettled'
    BY <1>7 DEF launch, Up, Transfer, updateWorkspaceStorage, Incomplete, Elsewhere
  <1>8. ASSUME NEW w \in Workspace, finalize(w)
         PROVE  Unsettled'
    BY <1>8 DEF finalize, Up, Transfer, updateWorkspaceStorage, Incomplete, Elsewhere
  <1>9. ASSUME NEW c \in Checkpoint, settleUpload(c)
         PROVE  Unsettled'
    BY <1>9 DEF settleUpload, abortUpload
  <1>10. ASSUME NEW o \in Operation, reconcileRestore(o)
         PROVE  Unsettled'
    BY <1>10 DEF reconcileRestore, Visit, Terminal, Booting
  <1>11. ASSUME NEW o \in Operation, reconcileVerification(o)
         PROVE  Unsettled'
    BY <1>11 DEF reconcileVerification, Visit, Transfer, Booting
  <1>12. ASSUME NEW o \in Operation, reconcileDeletion(o)
         PROVE  Unsettled'
    BY <1>12 DEF reconcileDeletion, Transfer, Booting
  <1>13. ASSUME NEW o \in Operation, reconcilePending(o)
         PROVE  Unsettled'
    BY <1>13 DEF reconcilePending, Visit, Transfer, Terminal, Booting
  <1>14. ASSUME NEW o \in Operation, reconcileTransferred(o)
         PROVE  Unsettled'
    BY <1>14 DEF reconcileTransferred, Visit, Transfer, recoverPreserve, Booting
  <1>15. ASSUME NEW o \in Operation, reconcileSnapshot(o)
         PROVE  Unsettled'
    BY <1>15
    DEF reconcileSnapshot, Visit, Transfer, updateWorkspaceStorage, Moved, Booting, MayMove,
        Uploads
  <1>16. ASSUME crash
         PROVE  Unsettled'
    BY <1>16 DEF crash, Up, Nothing, None, rowVars
  <1>17. ASSUME listRunning
         PROVE  Unsettled'
    BY <1>17 DEF listRunning, Listing, Up, None, rowVars
  <1>18. ASSUME listPending
         PROVE  Unsettled'
    BY <1>18 DEF listPending, Listing, Up, None, rowVars
  <1>19. ASSUME NEW o \in Operation, bootstrapFails(o) \/ becomesReady(o) \/ settleDownload(o)
                                     \/ skipPurge(o)
         PROVE  Unsettled'
    BY <1>19
    DEF bootstrapFails, Up, Transfer, checkpointDownloadAuthority, Elsewhere, Incomplete,
        becomesReady, MayMove, settleDownload, abortDownload, skipPurge, Visit, Booting
  <1>20. ASSUME NEW w \in Workspace, sweepPreserving(w) \/ cutTransfers(w)
                                     \/ beginTermination(w)
         PROVE  Unsettled'
    BY <1>20 DEF sweepPreserving, Up, Incomplete, Elsewhere, cutTransfers, beginTermination
  <1>21. ASSUME NEW c \in Checkpoint, removeInterrupted(c) \/ verifyPublication(c)
         PROVE  Unsettled'
    BY <1>21 DEF removeInterrupted, verifyPublication, Booting
  <1>22. ASSUME rowsVisited \/ started
         PROVE  Unsettled'
    BY <1>22 DEF rowsVisited, Incomplete, Booting, started
  <1> HIDE DEF Unsettled
  <1> QED BY <1>1, <1>2, <1>3, <1>4, <1>5, <1>6, <1>7, <1>8, <1>9, <1>10, <1>11, <1>12, <1>13,
         <1>14, <1>15, <1>16, <1>17, <1>18, <1>19, <1>20, <1>21, <1>22
    DEF Next, Scheduling, Recovery

\* The source outlives the preserve that reads it.
LEMMA SourcedStep ==
    /\ Functions /\ TypeOK /\ Kinds /\ Born /\ Entered /\ Modes
    /\ OneRunner /\ Finished /\ Sourced
    /\ Next
    => Sourced'
  <1> SUFFICES ASSUME Functions, TypeOK, Kinds, Born, Entered, Modes, OneRunner, Finished,
      Sourced, Next
               PROVE  Sourced'
    OBVIOUS
  <1> USE OperationAssumption DEF Sourced, HasStorage, Transfer, OfKind, TypeOK, Functions,
          Step, Stop, Quiet, NoFault, Fault, Forget, updateOperation, updateCheckpoint
  <1>1. ASSUME NEW o \in Operation, Request(o)
         PROVE  Sourced'
    <2>1. CASE preserve(o)
      BY <2>1 DEF preserve, Up, insertOperation, admitIntent
    <2>2. CASE restore(o)
      BY <2>2 DEF restore, Up
    <2>3. CASE verify(o)
      BY <2>3 DEF verify, Up
    <2>4. CASE delete(o)
      BY <2>4 DEF delete, Up, Incomplete
    <2>5. CASE purge(o)
      BY <2>5 DEF purge, Up, insertOperation, admitIntent
    <2> HIDE DEF Sourced
    <2> QED BY <1>1, <2>1, <2>2, <2>3, <2>4, <2>5 DEF Request
  <1>2. ASSUME NEW o \in Operation, PreserveTask(o)
         PROVE  Sourced'
    <2> o.kind = "preserve"
      BY <1>2, PreserveKind
    <2>1. CASE assertPreserveAdmission(o)
      BY <2>1 DEF assertPreserveAdmission
    <2>2. CASE linkCheckpoint(o)
      BY <2>2 DEF linkCheckpoint
    <2>3. CASE enterPreserving(o)
      BY <2>3 DEF enterPreserving, MayMove, Entered, Past, Ended, TerminalState, Runner
    <2>4. CASE attempt(o)
      BY <2>4 DEF attempt
    <2>5. CASE revokeLeases(o)
      BY <2>5 DEF revokeLeases
    <2>6. CASE inspect(o)
      BY <2>6 DEF inspect
    <2>7. CASE runTransferPreserve(o)
      BY <2>7, SourceGoes DEF runTransferPreserve, updateWorkspaceStorage
    <2>8. CASE prepareArchive(o)
      BY <2>8 DEF prepareArchive, checkpointUploadAuthority, grantUpload, Incomplete
    <2>9. CASE openGrant(o)
      BY <2>9 DEF openGrant, rowVars
    <2>10. CASE uploadSettled(o)
      BY <2>10 DEF uploadSettled, rowVars
    <2>11. CASE cleanupTransferSource(o)
      BY <2>11 DEF cleanupTransferSource
    <2>12. CASE sourceDeleted(o)
      BY <2>12 DEF sourceDeleted, updateWorkspaceStorage, OneRunner, Modes, Runner
    <2>13. CASE commitPreserved(o)
      BY <2>13 DEF commitPreserved, Moved, MayMove
    <2>14. CASE finishPreserve(o)
      BY <2>14 DEF finishPreserve
    <2>15. CASE stopForSnapshot(o)
      BY <2>15 DEF stopForSnapshot
    <2>16. CASE createSnapshot(o)
      BY <2>16 DEF createSnapshot, updateWorkspaceStorage
    <2>17. CASE completePreserve(o)
      BY <2>17 DEF completePreserve, updateWorkspaceStorage
    <2>18. CASE detachSource(o)
      BY <2>18 DEF detachSource
    <2>19. CASE handlePreserveFailure(o)
      BY <2>19
      DEF handlePreserveFailure, updateWorkspaceStorage, Moved, MayMove, OneRunner, Modes,
          Runner
    <2>20. CASE retainUnpublishedSource(o)
      BY <2>20 DEF retainUnpublishedSource
    <2>21. CASE abandonSource(o)
      BY <2>21 DEF abandonSource, Moved, MayMove
    <2> HIDE DEF Sourced
    <2> QED BY <1>2, <2>1, <2>2, <2>3, <2>4, <2>5, <2>6, <2>7, <2>8, <2>9, <2>10, <2>11, <2>12,
         <2>13, <2>14, <2>15, <2>16, <2>17, <2>18, <2>19, <2>20, <2>21 DEF PreserveTask
  <1>3. ASSUME NEW o \in Operation, CheckpointTask(o)
         PROVE  Sourced'
    <2>1. CASE insertRestore(o)
      BY <2>1 DEF insertRestore, insertOperation, admitIntent
    <2>2. CASE insertTarget(o)
      BY <2>2, CheckpointKind DEF insertTarget
    <2>3. CASE linkTarget(o)
      BY <2>3, CheckpointKind DEF linkTarget
    <2>4. CASE insertVerify(o)
      BY <2>4 DEF insertVerify, insertOperation, admitIntent
    <2>5. CASE finishVerify(o)
      BY <2>5, CheckpointKind DEF finishVerify
    <2>6. CASE insertDelete(o)
      BY <2>6 DEF insertDelete, insertOperation, admitIntent
    <2>7. CASE acknowledgeDelete(o)
      BY <2>7, CheckpointKind DEF acknowledgeDelete
    <2>8. CASE deleteArchive(o)
      BY <2>8, CheckpointKind DEF deleteArchive, removeArchive
    <2>9. CASE commitRemoval(o)
      BY <2>9 DEF commitRemoval, removePublication
    <2>10. CASE finishDelete(o)
      BY <2>10, CheckpointKind DEF finishDelete
    <2>11. CASE cleanupPreservedStorage(o)
      BY <2>11, CheckpointKind DEF cleanupPreservedStorage, Incomplete, updateWorkspaceStorage
    <2> HIDE DEF Sourced
    <2> QED BY <1>3, <2>1, <2>2, <2>3, <2>4, <2>5, <2>6, <2>7, <2>8, <2>9, <2>10, <2>11
    DEF CheckpointTask
  <1>4. ASSUME NEW o \in Operation, PurgeTask(o)
         PROVE  Sourced'
    <2> o.kind = "purge"
      BY <1>4, PurgeKind
    <2>1. CASE acknowledgePurge(o)
      BY <2>1 DEF acknowledgePurge, PurgeFails
    <2>2. CASE cancelCopies(o)
      BY <2>2 DEF cancelCopies, rowVars
    <2>3. CASE copiesSettled(o)
      BY <2>3 DEF copiesSettled
    <2>4. ASSUME NEW r \in Operation, endRestore(o, r)
           PROVE  Sourced'
      BY <2>4 DEF endRestore, Incomplete
    <2>5. CASE hasActiveCopies(o)
      BY <2>5 DEF hasActiveCopies, Incomplete, PurgeFails
    <2>6. CASE endWorkspace(o)
      BY <2>6 DEF endWorkspace, Terminal, Nonterminal, PurgeFails
    <2>7. CASE removeProvider(o)
      BY <2>7 DEF removeProvider, PurgeFails
    <2>8. ASSUME NEW c \in Checkpoint, purgeCheckpoint(o, c)
           PROVE  Sourced'
      BY <2>8 DEF purgeCheckpoint, removeArchive
    <2>9. CASE forgetCheckpoint(o)
      BY <2>9 DEF forgetCheckpoint, removePublication, PurgeFails
    <2>10. CASE purgeStorage(o)
      <3>1. /\ pc[o] = "storage" /\ UNCHANGED <<mode, ws>>
            /\ pc' \in {[pc EXCEPT ![o] = "idle"], [pc EXCEPT ![o] = "content"]}
            /\ storage' = [storage EXCEPT ![o.workspace] = storage'[o.workspace]]
        BY <2>10 DEF purgeStorage, PurgeFails
      <3> QED BY <3>1 DEF Finished, At, Terminal, TerminalState
    <2>11. CASE purgeWorkspaceContent(o)
      BY <2>11 DEF purgeWorkspaceContent
    <2>12. ASSUME NEW r \in Operation, settleRestore(o, r)
           PROVE  Sourced'
      BY <2>12 DEF settleRestore, Incomplete
    <2> HIDE DEF Sourced
    <2> QED BY <1>4, <2>1, <2>2, <2>3, <2>4, <2>5, <2>6, <2>7, <2>8, <2>9, <2>10, <2>11, <2>12
    DEF PurgeTask
  <1>5. ASSUME NEW o \in Operation, Transfers(o)
         PROVE  Sourced'
    <2>1. CASE checkpointInstalled(o)
      BY <2>1
      DEF checkpointInstalled, installed, Context, checkpointDownloadAuthority,
          completeCheckpointStorage, Incomplete, updateWorkspaceStorage
    <2>2. CASE restoreReady(o)
      BY <2>2
      DEF restoreReady, Up, completeRestore, Context, checkpointDownloadAuthority, MayMove,
          Incomplete
    <2>3. CASE claim(o) \/ createArchive(o) \/ stageArchive(o) \/ sealArchive(o)
               \/ publishArchive(o) \/ closeUploadOwners(o) \/ cleanup(o) \/ restoreGrant(o)
               \/ downloadArchive(o)
      BY <2>3
      DEF claim, claimUpload, claimDownload, Context, checkpointUploadAuthority,
          checkpointDownloadAuthority, Incomplete, createArchive, stageArchive, stage,
          sealArchive, publishArchive, publish, closeUploadOwners, cleanup, abortUpload,
          abortDownload, restoreGrant, Up, grantDownload, downloadArchive, downloaded
    <2> HIDE DEF Sourced
    <2> QED BY <1>5, <2>1, <2>2, <2>3 DEF Transfers
  <1>6. ASSUME NEW o \in Operation, TickSteps(o)
         PROVE  Sourced'
    <2>1. CASE retryPreserve(o)
      BY <2>1 DEF retryPreserve, Up, Terminal, rowVars
    <2>2. CASE recoverRunning(o)
      BY <2>2 DEF recoverRunning, Up, recoverPreserve, Ticking
    <2>3. CASE retryPurge(o)
      BY <2>3 DEF retryPurge, Up, Incomplete, rowVars
    <2> HIDE DEF Sourced
    <2> QED BY <1>6, <2>1, <2>2, <2>3 DEF TickSteps
  <1>7. ASSUME NEW o \in Operation, launch(o)
         PROVE  Sourced'
    BY <1>7 DEF launch, Up, updateWorkspaceStorage, Incomplete, Elsewhere
  <1>8. ASSUME NEW o \in Operation, bootstrapFails(o)
         PROVE  Sourced'
    BY <1>8 DEF bootstrapFails, Up, checkpointDownloadAuthority, Elsewhere, Incomplete
  <1>9. ASSUME NEW o \in Operation, becomesReady(o)
         PROVE  Sourced'
    BY <1>9 DEF becomesReady, Up, MayMove, Elsewhere
  <1>10. ASSUME NEW w \in Workspace, sweepPreserving(w)
         PROVE  Sourced'
    BY <1>10 DEF sweepPreserving, Up, Incomplete, Elsewhere
  <1>11. ASSUME NEW w \in Workspace, finalize(w)
         PROVE  Sourced'
    BY <1>11 DEF finalize, Up, updateWorkspaceStorage, Incomplete, Elsewhere
  <1>12. ASSUME NEW o \in Operation, reconcileTransferred(o)
         PROVE  Sourced'
    BY <1>12 DEF reconcileTransferred, Visit, recoverPreserve, Booting
  <1>13. ASSUME NEW o \in Operation, reconcileSnapshot(o)
         PROVE  Sourced'
    BY <1>13 DEF reconcileSnapshot, Visit, updateWorkspaceStorage, Moved, Booting, MayMove
  <1>14. ASSUME crash
         PROVE  Sourced'
    BY <1>14 DEF crash, Up, Nothing, None, rowVars
  <1>15. ASSUME NEW w \in Workspace, beginTermination(w)
         PROVE  Sourced'
    BY <1>15 DEF beginTermination, Up, Elsewhere
  <1>16. ASSUME NEW w \in Workspace, cutTransfers(w)
         PROVE  Sourced'
    BY <1>16 DEF cutTransfers, Elsewhere
  <1>17. ASSUME NEW c \in Checkpoint, removeInterrupted(c) \/ settleUpload(c)
                                      \/ verifyPublication(c)
         PROVE  Sourced'
    BY <1>17 DEF removeInterrupted, settleUpload, abortUpload, verifyPublication, Booting
  <1>18. ASSUME NEW o \in Operation, settleDownload(o) \/ reconcileRestore(o)
                                     \/ reconcileVerification(o) \/ reconcileDeletion(o)
                                     \/ reconcilePending(o) \/ skipPurge(o)
         PROVE  Sourced'
    BY <1>18
    DEF settleDownload, Up, abortDownload, reconcileRestore, Visit, Terminal, Booting,
        reconcileVerification, reconcileDeletion, reconcilePending, skipPurge
  <1>19. ASSUME rowsVisited \/ started \/ listRunning \/ listPending
         PROVE  Sourced'
    BY <1>19
    DEF rowsVisited, Incomplete, Booting, started, listRunning, Listing, Up, None, rowVars,
        listPending
  <1> HIDE DEF Sourced
  <1> QED BY <1>1, <1>2, <1>3, <1>4, <1>5, <1>6, <1>7, <1>8, <1>9, <1>10, <1>11, <1>12, <1>13,
         <1>14, <1>15, <1>16, <1>17, <1>18, <1>19
    DEF Next, Scheduling, Recovery

\* What a preserve has read stays true of the row.
LEMMA ReadsStep ==
    Functions /\ TypeOK /\ Kinds /\ Begun /\ Entered /\ Reads /\ Next => Reads'
  <1> SUFFICES ASSUME Functions, TypeOK, Kinds, Begun, Entered, Reads, Next
               PROVE  Reads'
    OBVIOUS
  <1> USE OperationAssumption DEF Reads, Decided, OfKind, TypeOK, Functions, Step, Stop, Quiet,
          NoFault, Fault, Forget, updateOperation, updateCheckpoint
  <1>1. ASSUME NEW o \in Operation, Request(o)
         PROVE  Reads'
    <2>1. CASE preserve(o)
      BY <2>1 DEF preserve, Up, insertOperation, admitIntent
    <2>2. CASE restore(o)
      BY <2>2 DEF restore, Up
    <2>3. CASE verify(o)
      BY <2>3 DEF verify, Up
    <2>4. CASE delete(o)
      BY <2>4 DEF delete, Up, Incomplete
    <2>5. CASE purge(o)
      BY <2>5 DEF purge, Up, insertOperation, admitIntent
    <2> HIDE DEF Reads
    <2> QED BY <1>1, <2>1, <2>2, <2>3, <2>4, <2>5 DEF Request
  <1>2. ASSUME NEW o \in Operation, PreserveTask(o)
         PROVE  Reads'
    <2> o.kind = "preserve"
      BY <1>2, PreserveKind
    <2>1. CASE assertPreserveAdmission(o)
      BY <2>1 DEF assertPreserveAdmission
    <2>2. CASE linkCheckpoint(o)
      BY <2>2 DEF linkCheckpoint
    <2>3. CASE enterPreserving(o)
      BY <2>3 DEF enterPreserving, MayMove, Entered, Past, Ended, TerminalState, Runner
    <2>4. CASE attempt(o)
      BY <2>4, RowsOfFirst DEF attempt
    <2>5. CASE revokeLeases(o)
      BY <2>5 DEF revokeLeases
    <2>6. CASE inspect(o)
      BY <2>6 DEF inspect
    <2>7. CASE runTransferPreserve(o)
      <3>1. pc' = [pc EXCEPT ![o] = FromSource(o)] /\ pc[o] = "source"
            /\ seen' = [seen EXCEPT ![o] = <<>>] /\ UNCHANGED <<ws, ck>>
        BY <2>7 DEF runTransferPreserve
      <3>2. FromSource(o) = "published" => Decided(o.checkpoint)
        BY <3>1, FromSourceIs
      <3> QED BY <3>1, <3>2, FromSourceIs
    <2>8. CASE prepareArchive(o)
      BY <2>8 DEF prepareArchive, checkpointUploadAuthority, grantUpload, Incomplete
    <2>9. CASE openGrant(o)
      BY <2>9 DEF openGrant, rowVars
    <2>10. CASE uploadSettled(o)
      BY <2>10 DEF uploadSettled, rowVars
    <2>11. CASE cleanupTransferSource(o)
      BY <2>11 DEF cleanupTransferSource
    <2>12. CASE sourceDeleted(o)
      BY <2>12 DEF sourceDeleted, updateWorkspaceStorage
    <2>13. CASE commitPreserved(o)
      <3>1. pc' = [pc EXCEPT ![o] = "finish"] /\ pc[o] = "commit" /\ UNCHANGED <<ck, seen>>
            /\ ws' = Moved(o.workspace, {"preserving"}, "preserved")
        BY <2>13 DEF commitPreserved
      <3>2. ws' = IF ws[o.workspace] = "preserving"
                  THEN [ws EXCEPT ![o.workspace] = "preserved"] ELSE ws
        BY <3>1, MovedIs
      <3> QED BY <3>1, <3>2
    <2>14. CASE finishPreserve(o)
      BY <2>14 DEF finishPreserve
    <2>15. CASE stopForSnapshot(o)
      BY <2>15 DEF stopForSnapshot, Transfer
    <2>16. CASE createSnapshot(o)
      BY <2>16 DEF createSnapshot, updateWorkspaceStorage
    <2>17. CASE completePreserve(o)
      BY <2>17 DEF completePreserve, updateWorkspaceStorage
    <2>18. CASE detachSource(o)
      BY <2>18 DEF detachSource
    <2>19. CASE handlePreserveFailure(o)
      BY <2>19 DEF handlePreserveFailure, Transfer, updateWorkspaceStorage, Moved, MayMove
    <2>20. CASE retainUnpublishedSource(o)
      BY <2>20 DEF retainUnpublishedSource
    <2>21. CASE abandonSource(o)
      BY <2>21 DEF abandonSource, Moved, MayMove
    <2> HIDE DEF Reads
    <2> QED BY <1>2, <2>1, <2>2, <2>3, <2>4, <2>5, <2>6, <2>7, <2>8, <2>9, <2>10, <2>11, <2>12,
         <2>13, <2>14, <2>15, <2>16, <2>17, <2>18, <2>19, <2>20, <2>21 DEF PreserveTask
  <1>3. ASSUME NEW o \in Operation, CheckpointTask(o)
         PROVE  Reads'
    <2>1. CASE insertRestore(o)
      BY <2>1 DEF insertRestore, insertOperation, admitIntent
    <2>2. CASE insertTarget(o)
      BY <2>2, CheckpointKind DEF insertTarget
    <2>3. CASE linkTarget(o)
      BY <2>3, CheckpointKind DEF linkTarget
    <2>4. CASE insertVerify(o)
      BY <2>4 DEF insertVerify, insertOperation, admitIntent
    <2>5. CASE finishVerify(o)
      BY <2>5, CheckpointKind DEF finishVerify
    <2>6. CASE insertDelete(o)
      BY <2>6 DEF insertDelete, insertOperation, admitIntent
    <2>7. CASE acknowledgeDelete(o)
      BY <2>7, CheckpointKind DEF acknowledgeDelete
    <2>8. CASE deleteArchive(o)
      BY <2>8, CheckpointKind DEF deleteArchive, removeArchive, Transfer
    <2>9. CASE commitRemoval(o)
      BY <2>9 DEF commitRemoval, Transfer, removePublication
    <2>10. CASE finishDelete(o)
      BY <2>10, CheckpointKind DEF finishDelete
    <2>11. CASE cleanupPreservedStorage(o)
      BY <2>11, CheckpointKind
      DEF cleanupPreservedStorage, Transfer, Incomplete, updateWorkspaceStorage
    <2> HIDE DEF Reads
    <2> QED BY <1>3, <2>1, <2>2, <2>3, <2>4, <2>5, <2>6, <2>7, <2>8, <2>9, <2>10, <2>11
    DEF CheckpointTask
  <1>4. ASSUME NEW o \in Operation, PurgeTask(o)
         PROVE  Reads'
    <2> o.kind = "purge"
      BY <1>4, PurgeKind
    <2>1. CASE acknowledgePurge(o)
      BY <2>1 DEF acknowledgePurge, PurgeFails
    <2>2. CASE cancelCopies(o)
      BY <2>2 DEF cancelCopies, Transfer, rowVars
    <2>3. CASE copiesSettled(o)
      BY <2>3 DEF copiesSettled, Transfer
    <2>4. ASSUME NEW r \in Operation, endRestore(o, r)
           PROVE  Reads'
      BY <2>4 DEF endRestore, Incomplete
    <2>5. CASE hasActiveCopies(o)
      BY <2>5 DEF hasActiveCopies, Incomplete, PurgeFails
    <2>6. CASE endWorkspace(o)
      BY <2>6 DEF endWorkspace, Terminal, Nonterminal, PurgeFails
    <2>7. CASE removeProvider(o)
      BY <2>7 DEF removeProvider, PurgeFails
    <2>8. ASSUME NEW c \in Checkpoint, purgeCheckpoint(o, c)
           PROVE  Reads'
      BY <2>8 DEF purgeCheckpoint, Transfer, removeArchive
    <2>9. CASE forgetCheckpoint(o)
      BY <2>9 DEF forgetCheckpoint, Transfer, removePublication, PurgeFails
    <2>10. CASE purgeStorage(o)
      BY <2>10 DEF purgeStorage, Transfer, PurgeFails
    <2>11. CASE purgeWorkspaceContent(o)
      BY <2>11 DEF purgeWorkspaceContent
    <2>12. ASSUME NEW r \in Operation, settleRestore(o, r)
           PROVE  Reads'
      BY <2>12 DEF settleRestore, Incomplete
    <2> HIDE DEF Reads
    <2> QED BY <1>4, <2>1, <2>2, <2>3, <2>4, <2>5, <2>6, <2>7, <2>8, <2>9, <2>10, <2>11, <2>12
    DEF PurgeTask
  <1>5. ASSUME NEW o \in Operation, Transfers(o)
         PROVE  Reads'
    <2>1. CASE publishArchive(o)
      BY <2>1 DEF publishArchive, publish, Context, checkpointUploadAuthority, Incomplete
    <2>2. CASE restoreReady(o)
      BY <2>2
      DEF restoreReady, Up, completeRestore, Context, checkpointDownloadAuthority, MayMove,
          Incomplete
    <2>3. CASE claim(o) \/ createArchive(o) \/ stageArchive(o) \/ sealArchive(o)
               \/ closeUploadOwners(o) \/ cleanup(o) \/ restoreGrant(o) \/ downloadArchive(o)
               \/ checkpointInstalled(o)
      BY <2>3
      DEF claim, claimUpload, claimDownload, Context, checkpointUploadAuthority,
          checkpointDownloadAuthority, Incomplete, createArchive, stageArchive, stage,
          sealArchive, closeUploadOwners, cleanup, abortUpload, abortDownload, restoreGrant, Up,
          Transfer, grantDownload, downloadArchive, downloaded, checkpointInstalled, installed,
          completeCheckpointStorage, updateWorkspaceStorage
    <2> HIDE DEF Reads
    <2> QED BY <1>5, <2>1, <2>2, <2>3 DEF Transfers
  <1>6. ASSUME NEW o \in Operation, TickSteps(o)
         PROVE  Reads'
    <2>1. CASE retryPreserve(o)
      BY <2>1 DEF retryPreserve, Up, Terminal, rowVars
    <2>2. CASE recoverRunning(o)
      BY <2>2 DEF recoverRunning, Up, Transfer, recoverPreserve, Ticking
    <2>3. CASE retryPurge(o)
      BY <2>3 DEF retryPurge, Up, Incomplete, rowVars
    <2> HIDE DEF Reads
    <2> QED BY <1>6, <2>1, <2>2, <2>3 DEF TickSteps
  <1>7. ASSUME NEW o \in Operation, launch(o)
         PROVE  Reads'
    BY <1>7 DEF launch, Up, Transfer, updateWorkspaceStorage, Incomplete, Elsewhere
  <1>8. ASSUME NEW o \in Operation, bootstrapFails(o)
         PROVE  Reads'
    BY <1>8 DEF bootstrapFails, Up, Transfer, checkpointDownloadAuthority, Elsewhere, Incomplete
  <1>9. ASSUME NEW o \in Operation, becomesReady(o)
         PROVE  Reads'
    BY <1>9 DEF becomesReady, Up, Transfer, MayMove, Elsewhere
  <1>10. ASSUME NEW w \in Workspace, sweepPreserving(w)
         PROVE  Reads'
    BY <1>10 DEF sweepPreserving, Up, Incomplete, Elsewhere
  <1>11. ASSUME NEW w \in Workspace, finalize(w)
         PROVE  Reads'
    BY <1>11 DEF finalize, Up, Transfer, updateWorkspaceStorage, Incomplete, Elsewhere
  <1>12. ASSUME NEW c \in Checkpoint, verifyPublication(c)
         PROVE  Reads'
    BY <1>12 DEF verifyPublication, Booting
  <1>13. ASSUME NEW o \in Operation, reconcileVerification(o)
         PROVE  Reads'
    BY <1>13 DEF reconcileVerification, Visit, Transfer, Booting
  <1>14. ASSUME NEW o \in Operation, reconcileDeletion(o)
         PROVE  Reads'
    BY <1>14 DEF reconcileDeletion, Transfer, Booting
  <1>15. ASSUME NEW o \in Operation, reconcilePending(o)
         PROVE  Reads'
    BY <1>15 DEF reconcilePending, Visit, Transfer, Terminal, Booting
  <1>16. ASSUME NEW o \in Operation, reconcileTransferred(o)
         PROVE  Reads'
    BY <1>16 DEF reconcileTransferred, Visit, Transfer, recoverPreserve, Booting
  <1>17. ASSUME NEW o \in Operation, reconcileSnapshot(o)
         PROVE  Reads'
    BY <1>17
    DEF reconcileSnapshot, Visit, Transfer, updateWorkspaceStorage, Moved, Booting, MayMove
  <1>18. ASSUME crash
         PROVE  Reads'
    BY <1>18 DEF crash, Up, Nothing, None, rowVars
  <1>19. ASSUME NEW w \in Workspace, beginTermination(w)
         PROVE  Reads'
    BY <1>19 DEF beginTermination, Up, Elsewhere
  <1>20. ASSUME NEW w \in Workspace, cutTransfers(w)
         PROVE  Reads'
    BY <1>20 DEF cutTransfers, Elsewhere
  <1>21. ASSUME NEW c \in Checkpoint, removeInterrupted(c) \/ settleUpload(c)
         PROVE  Reads'
    BY <1>21 DEF removeInterrupted, settleUpload, abortUpload
  <1>22. ASSUME NEW o \in Operation, settleDownload(o) \/ reconcileRestore(o) \/ skipPurge(o)
         PROVE  Reads'
    BY <1>22
    DEF settleDownload, Up, abortDownload, reconcileRestore, Visit, Terminal, Booting, skipPurge
  <1>23. ASSUME rowsVisited \/ started \/ listRunning \/ listPending
         PROVE  Reads'
    BY <1>23
    DEF rowsVisited, Incomplete, Booting, started, listRunning, Listing, Up, None, rowVars,
        listPending
  <1> HIDE DEF Reads
  <1> QED BY <1>1, <1>2, <1>3, <1>4, <1>5, <1>6, <1>7, <1>8, <1>9, <1>10, <1>11, <1>12, <1>13,
         <1>14, <1>15, <1>16, <1>17, <1>18, <1>19, <1>20, <1>21, <1>22, <1>23
    DEF Next, Scheduling, Recovery

\* A deletion that succeeded is over: no task, recovery or tick reopens it.
LEMMA DeletedStays ==
    Functions /\ TypeOK /\ Kinds /\ Claimed /\ Startup /\ Next
    => \A c \in Checkpoint : Deleted(c) => Deleted(c)'
  <1> SUFFICES ASSUME Functions, TypeOK, Kinds, Claimed, Startup, Next,
                      NEW d \in OfKind("delete"), op[d] = "succeeded"
               PROVE  op'[d] = "succeeded"
    BY DEF Deleted
  <1> d \in Operation /\ d.kind = "delete" /\ d \notin Incomplete
    BY DEF OfKind, Incomplete
  <1> pc[d] \in {"idle", "insert", "sweep"}
    BY DEF Claimed
  <1> USE OperationAssumption DEF OfKind, TypeOK, Functions, Step, Stop,
          Quiet, NoFault, Fault, Forget, updateOperation, updateCheckpoint
  <1>1. ASSUME NEW o \in Operation, Request(o)
         PROVE  op'[d] = "succeeded"
    <2>1. CASE preserve(o)
      BY <2>1 DEF preserve, Up, insertOperation, admitIntent
    <2>2. CASE purge(o)
      BY <2>2 DEF purge, Up, insertOperation, admitIntent
    <2>3. CASE restore(o) \/ verify(o) \/ delete(o)
      BY <2>3 DEF restore, Up, verify, delete, Incomplete
    <2> QED BY <1>1, <2>1, <2>2, <2>3 DEF Request
  <1>2. ASSUME NEW o \in Operation, PreserveTask(o)
         PROVE  op'[d] = "succeeded"
    <2> o.kind = "preserve"
      BY <1>2, PreserveKind
    <2>1. CASE assertPreserveAdmission(o)
      BY <2>1 DEF assertPreserveAdmission
    <2>2. CASE enterPreserving(o)
      BY <2>2 DEF enterPreserving, MayMove
    <2>3. CASE inspect(o)
      BY <2>3 DEF inspect
    <2>4. CASE prepareArchive(o)
      BY <2>4 DEF prepareArchive, checkpointUploadAuthority, grantUpload, Incomplete
    <2>5. CASE createSnapshot(o)
      BY <2>5 DEF createSnapshot, updateWorkspaceStorage, Modes
    <2>6. CASE completePreserve(o)
      BY <2>6 DEF completePreserve, updateWorkspaceStorage
    <2>7. CASE handlePreserveFailure(o)
      BY <2>7 DEF handlePreserveFailure, updateWorkspaceStorage, Moved, MayMove
    <2>8. CASE retainUnpublishedSource(o)
      BY <2>8 DEF retainUnpublishedSource
    <2>9. CASE linkCheckpoint(o) \/ attempt(o) \/ revokeLeases(o) \/ runTransferPreserve(o)
               \/ openGrant(o) \/ uploadSettled(o) \/ cleanupTransferSource(o)
               \/ sourceDeleted(o) \/ commitPreserved(o) \/ finishPreserve(o)
      BY <2>9
      DEF linkCheckpoint, attempt, revokeLeases, runTransferPreserve, updateWorkspaceStorage,
          openGrant, rowVars, uploadSettled, cleanupTransferSource, sourceDeleted,
          commitPreserved, Moved, MayMove, finishPreserve
    <2>10. CASE stopForSnapshot(o) \/ detachSource(o) \/ abandonSource(o)
      BY <2>10 DEF stopForSnapshot, detachSource, abandonSource, Moved, MayMove
    <2> QED BY <1>2, <2>1, <2>2, <2>3, <2>4, <2>5, <2>6, <2>7, <2>8, <2>9, <2>10 DEF PreserveTask
  <1>3. ASSUME NEW o \in Operation, CheckpointTask(o)
         PROVE  op'[d] = "succeeded"
    <2>1. CASE insertRestore(o)
      BY <2>1 DEF insertRestore, insertOperation, admitIntent
    <2>2. CASE insertVerify(o)
      BY <2>2 DEF insertVerify, insertOperation, admitIntent
    <2>3. CASE finishVerify(o)
      BY <2>3, CheckpointKind DEF finishVerify
    <2>4. CASE insertDelete(o)
      BY <2>4 DEF insertDelete, insertOperation, admitIntent
    <2>5. CASE acknowledgeDelete(o)
      BY <2>5, CheckpointKind DEF acknowledgeDelete
    <2>6. CASE deleteArchive(o)
      BY <2>6, CheckpointKind DEF deleteArchive, removeArchive
    <2>7. CASE commitRemoval(o)
      BY <2>7 DEF commitRemoval, removePublication
    <2>8. CASE finishDelete(o)
      BY <2>8, CheckpointKind DEF finishDelete
    <2>9. CASE insertTarget(o) \/ linkTarget(o) \/ cleanupPreservedStorage(o)
      BY <2>9, CheckpointKind
      DEF insertTarget, linkTarget, cleanupPreservedStorage, Incomplete, updateWorkspaceStorage
    <2> QED BY <1>3, <2>1, <2>2, <2>3, <2>4, <2>5, <2>6, <2>7, <2>8, <2>9 DEF CheckpointTask
  <1>4. ASSUME NEW o \in Operation, PurgeTask(o)
         PROVE  op'[d] = "succeeded"
    <2> o.kind = "purge"
      BY <1>4, PurgeKind
    <2>1. ASSUME NEW c \in Checkpoint, purgeCheckpoint(o, c)
           PROVE  op'[d] = "succeeded"
      BY <2>1 DEF purgeCheckpoint, removeArchive
    <2>2. CASE forgetCheckpoint(o)
      BY <2>2 DEF forgetCheckpoint, removePublication, PurgeFails
    <2>3. CASE purgeStorage(o)
      BY <2>3 DEF purgeStorage, PurgeFails
    <2>4. CASE acknowledgePurge(o) \/ cancelCopies(o) \/ copiesSettled(o) \/ hasActiveCopies(o)
               \/ endWorkspace(o) \/ removeProvider(o) \/ purgeWorkspaceContent(o)
      BY <2>4
      DEF acknowledgePurge, PurgeFails, cancelCopies, rowVars, copiesSettled, hasActiveCopies,
          Incomplete, endWorkspace, Terminal, Nonterminal, removeProvider, purgeWorkspaceContent
    <2>5. ASSUME NEW r \in Operation, settleRestore(o, r) \/ endRestore(o, r)
           PROVE  op'[d] = "succeeded"
      BY <2>5 DEF settleRestore, Incomplete, endRestore
    <2> QED BY <1>4, <2>1, <2>2, <2>3, <2>4, <2>5 DEF PurgeTask
  <1>5. ASSUME NEW o \in Operation, Transfers(o)
         PROVE  op'[d] = "succeeded"
    <2>1. CASE claim(o)
      BY <2>1
      DEF claim, claimUpload, claimDownload, Context, checkpointUploadAuthority,
          checkpointDownloadAuthority, Incomplete
    <2>2. CASE createArchive(o)
      BY <2>2 DEF createArchive, checkpointUploadAuthority, Context, Incomplete
    <2>3. CASE stageArchive(o)
      BY <2>3 DEF stageArchive, stage, Context, checkpointUploadAuthority, Incomplete
    <2>4. CASE sealArchive(o)
      BY <2>4 DEF sealArchive, checkpointUploadAuthority, Context, Incomplete
    <2>5. CASE publishArchive(o)
      BY <2>5 DEF publishArchive, publish, Context, checkpointUploadAuthority, Incomplete
    <2>6. CASE closeUploadOwners(o)
      BY <2>6 DEF closeUploadOwners, Context
    <2>7. CASE cleanup(o)
      BY <2>7 DEF cleanup, abortUpload, abortDownload, Context
    <2>8. CASE restoreGrant(o) \/ downloadArchive(o) \/ checkpointInstalled(o)
               \/ restoreReady(o)
      BY <2>8
      DEF restoreGrant, Up, grantDownload, Context, checkpointDownloadAuthority, Incomplete,
          downloadArchive, downloaded, checkpointInstalled, installed,
          completeCheckpointStorage, updateWorkspaceStorage, restoreReady, completeRestore,
          MayMove
    <2> QED BY <1>5, <2>1, <2>2, <2>3, <2>4, <2>5, <2>6, <2>7, <2>8 DEF Transfers
  <1>6. ASSUME NEW o \in Operation, TickSteps(o)
         PROVE  op'[d] = "succeeded"
    <2>1. CASE retryPreserve(o) \/ recoverRunning(o) \/ retryPurge(o)
      BY <2>1
      DEF retryPreserve, Up, Terminal, rowVars, recoverRunning, recoverPreserve, Ticking,
          retryPurge, Incomplete
    <2> QED BY <1>6, <2>1 DEF TickSteps
  <1>7. ASSUME NEW c \in Checkpoint, removeInterrupted(c)
         PROVE  op'[d] = "succeeded"
    BY <1>7 DEF removeInterrupted
  <1>8. ASSUME NEW c \in Checkpoint, settleUpload(c)
         PROVE  op'[d] = "succeeded"
    BY <1>8 DEF settleUpload, abortUpload
  <1>9. ASSUME NEW c \in Checkpoint, verifyPublication(c)
         PROVE  op'[d] = "succeeded"
    BY <1>9 DEF verifyPublication, Booting
  <1>10. ASSUME NEW o \in Operation, reconcileVerification(o)
         PROVE  op'[d] = "succeeded"
    BY <1>10 DEF reconcileVerification, Visit, Booting
  <1>11. ASSUME NEW o \in Operation, reconcileDeletion(o)
         PROVE  op'[d] = "succeeded"
    BY <1>11 DEF reconcileDeletion, Booting
  <1>12. ASSUME NEW o \in Operation, reconcilePending(o)
         PROVE  op'[d] = "succeeded"
    BY <1>12 DEF reconcilePending, Visit, Terminal, Booting
  <1>13. ASSUME NEW o \in Operation, reconcileSnapshot(o)
         PROVE  op'[d] = "succeeded"
    BY <1>13 DEF reconcileSnapshot, Visit, updateWorkspaceStorage, Moved, Booting, MayMove
  <1>14. ASSUME NEW o \in Operation, launch(o) \/ bootstrapFails(o) \/ becomesReady(o)
                                     \/ settleDownload(o) \/ reconcileRestore(o)
                                     \/ reconcileTransferred(o) \/ skipPurge(o)
         PROVE  op'[d] = "succeeded"
    BY <1>14
    DEF launch, Up, updateWorkspaceStorage, Incomplete, Elsewhere, bootstrapFails,
        checkpointDownloadAuthority, becomesReady, MayMove, settleDownload, abortDownload,
        reconcileRestore, Visit, Terminal, Booting, reconcileTransferred, recoverPreserve,
        skipPurge
  <1>15. ASSUME NEW w \in Workspace, sweepPreserving(w) \/ cutTransfers(w) \/ finalize(w)
                                     \/ beginTermination(w)
         PROVE  op'[d] = "succeeded"
    BY <1>15
    DEF sweepPreserving, Up, Incomplete, Elsewhere, cutTransfers, finalize,
        updateWorkspaceStorage, beginTermination
  <1>16. ASSUME rowsVisited \/ started \/ crash \/ listRunning \/ listPending
         PROVE  op'[d] = "succeeded"
    BY <1>16
    DEF rowsVisited, Incomplete, Booting, started, crash, Up, Nothing, None, rowVars,
        listRunning, Listing, listPending
  <1> QED BY <1>1, <1>2, <1>3, <1>4, <1>5, <1>6, <1>7, <1>8, <1>9, <1>10, <1>11, <1>12, <1>13,
         <1>14, <1>15, <1>16
    DEF Next, Scheduling, Recovery

\* A published archive stays published until a deletion or a purge unlinked it.
LEMMA MissedStays ==
    /\ Functions /\ TypeOK /\ Kinds /\ Begun /\ Claimed /\ Startup /\ Modes /\ Unsettled
    /\ Next
    => \A c \in Checkpoint : Missed(c) => Missed(c)' \/ archive'[c] = "none"
  <1> SUFFICES ASSUME Functions, TypeOK, Kinds, Begun, Claimed, Startup, Modes, Unsettled, Next,
                      NEW k \in Checkpoint, upload[k] = "complete"
               PROVE  upload'[k] = "complete" \/ archive'[k] = "none"
    BY ModeStep, DeletedStays DEF Missed, Transfer
  <1> DEFINE Kept == upload'[k] = "complete" \/ archive'[k] = "none"
  <1> k \in published
    BY MakerOf DEF Unsettled
  <1> ck[k] \notin {"none", "creating"}
    BY MakerOf DEF Begun, Decided
  <1> USE OperationAssumption DEF OfKind, TypeOK, Functions, Step, Stop,
          Quiet, NoFault, Fault, Forget, updateOperation, updateCheckpoint
  <1>1. ASSUME NEW o \in Operation, Request(o)
         PROVE  Kept
    <2>1. CASE preserve(o)
      BY <2>1 DEF preserve, Up, insertOperation, admitIntent
    <2>2. CASE purge(o)
      BY <2>2 DEF purge, Up, insertOperation, admitIntent
    <2>3. CASE restore(o) \/ verify(o) \/ delete(o)
      BY <2>3 DEF restore, Up, verify, delete, Incomplete
    <2> QED BY <1>1, <2>1, <2>2, <2>3 DEF Request
  <1>2. ASSUME NEW o \in Operation, PreserveTask(o)
         PROVE  Kept
    <2> o.kind = "preserve"
      BY <1>2, PreserveKind
    <2>1. CASE assertPreserveAdmission(o)
      BY <2>1 DEF assertPreserveAdmission
    <2>2. CASE enterPreserving(o)
      BY <2>2 DEF enterPreserving, MayMove
    <2>3. CASE inspect(o)
      BY <2>3 DEF inspect
    <2>4. CASE prepareArchive(o)
      BY <2>4 DEF prepareArchive, checkpointUploadAuthority, grantUpload, Incomplete
    <2>5. CASE createSnapshot(o)
      BY <2>5 DEF createSnapshot, updateWorkspaceStorage, Modes
    <2>6. CASE completePreserve(o)
      BY <2>6 DEF completePreserve, updateWorkspaceStorage
    <2>7. CASE handlePreserveFailure(o)
      BY <2>7 DEF handlePreserveFailure, updateWorkspaceStorage, Moved, MayMove
    <2>8. CASE retainUnpublishedSource(o)
      BY <2>8 DEF retainUnpublishedSource
    <2>9. CASE linkCheckpoint(o) \/ attempt(o) \/ revokeLeases(o) \/ runTransferPreserve(o)
               \/ openGrant(o) \/ uploadSettled(o) \/ cleanupTransferSource(o)
               \/ sourceDeleted(o) \/ commitPreserved(o) \/ finishPreserve(o)
      BY <2>9
      DEF linkCheckpoint, attempt, revokeLeases, runTransferPreserve, updateWorkspaceStorage,
          openGrant, rowVars, uploadSettled, cleanupTransferSource, sourceDeleted,
          commitPreserved, Moved, MayMove, finishPreserve
    <2>10. CASE stopForSnapshot(o) \/ detachSource(o) \/ abandonSource(o)
      BY <2>10 DEF stopForSnapshot, detachSource, abandonSource, Moved, MayMove
    <2> QED BY <1>2, <2>1, <2>2, <2>3, <2>4, <2>5, <2>6, <2>7, <2>8, <2>9, <2>10 DEF PreserveTask
  <1>3. ASSUME NEW o \in Operation, CheckpointTask(o)
         PROVE  Kept
    <2>1. CASE insertRestore(o)
      BY <2>1 DEF insertRestore, insertOperation, admitIntent
    <2>2. CASE insertVerify(o)
      BY <2>2 DEF insertVerify, insertOperation, admitIntent
    <2>3. CASE finishVerify(o)
      BY <2>3, CheckpointKind DEF finishVerify
    <2>4. CASE insertDelete(o)
      BY <2>4 DEF insertDelete, insertOperation, admitIntent
    <2>5. CASE acknowledgeDelete(o)
      BY <2>5, CheckpointKind DEF acknowledgeDelete
    <2>6. CASE deleteArchive(o)
      BY <2>6, CheckpointKind DEF deleteArchive, removeArchive
    <2>7. CASE commitRemoval(o)
      BY <2>7 DEF commitRemoval, removePublication
    <2>8. CASE finishDelete(o)
      BY <2>8, CheckpointKind DEF finishDelete
    <2>9. CASE insertTarget(o) \/ linkTarget(o) \/ cleanupPreservedStorage(o)
      BY <2>9, CheckpointKind
      DEF insertTarget, linkTarget, cleanupPreservedStorage, Incomplete, updateWorkspaceStorage
    <2> QED BY <1>3, <2>1, <2>2, <2>3, <2>4, <2>5, <2>6, <2>7, <2>8, <2>9 DEF CheckpointTask
  <1>4. ASSUME NEW o \in Operation, PurgeTask(o)
         PROVE  Kept
    <2> o.kind = "purge"
      BY <1>4, PurgeKind
    <2>1. ASSUME NEW c \in Checkpoint, purgeCheckpoint(o, c)
           PROVE  Kept
      BY <2>1 DEF purgeCheckpoint, removeArchive
    <2>2. CASE forgetCheckpoint(o)
      BY <2>2 DEF forgetCheckpoint, removePublication, PurgeFails
    <2>3. CASE purgeStorage(o)
      BY <2>3 DEF purgeStorage, PurgeFails
    <2>4. CASE acknowledgePurge(o) \/ cancelCopies(o) \/ copiesSettled(o) \/ hasActiveCopies(o)
               \/ endWorkspace(o) \/ removeProvider(o) \/ purgeWorkspaceContent(o)
      BY <2>4
      DEF acknowledgePurge, PurgeFails, cancelCopies, rowVars, copiesSettled, hasActiveCopies,
          Incomplete, endWorkspace, Terminal, Nonterminal, removeProvider, purgeWorkspaceContent
    <2>5. ASSUME NEW r \in Operation, settleRestore(o, r) \/ endRestore(o, r)
           PROVE  Kept
      BY <2>5 DEF settleRestore, Incomplete, endRestore
    <2> QED BY <1>4, <2>1, <2>2, <2>3, <2>4, <2>5 DEF PurgeTask
  <1>5. ASSUME NEW o \in Operation, Transfers(o)
         PROVE  Kept
    <2>1. CASE claim(o)
      BY <2>1
      DEF claim, claimUpload, claimDownload, Context, checkpointUploadAuthority,
          checkpointDownloadAuthority, Incomplete
    <2>2. CASE createArchive(o)
      BY <2>2 DEF createArchive, checkpointUploadAuthority, Context, Incomplete
    <2>3. CASE stageArchive(o)
      BY <2>3 DEF stageArchive, stage, Context, checkpointUploadAuthority, Incomplete
    <2>4. CASE sealArchive(o)
      BY <2>4 DEF sealArchive, checkpointUploadAuthority, Context, Incomplete
    <2>5. CASE publishArchive(o)
      BY <2>5 DEF publishArchive, publish, Context, checkpointUploadAuthority, Incomplete
    <2>6. CASE closeUploadOwners(o)
      BY <2>6 DEF closeUploadOwners, Context
    <2>7. CASE cleanup(o)
      BY <2>7 DEF cleanup, abortUpload, abortDownload, Context
    <2>8. CASE restoreGrant(o) \/ downloadArchive(o) \/ checkpointInstalled(o)
               \/ restoreReady(o)
      BY <2>8
      DEF restoreGrant, Up, grantDownload, Context, checkpointDownloadAuthority, Incomplete,
          downloadArchive, downloaded, checkpointInstalled, installed,
          completeCheckpointStorage, updateWorkspaceStorage, restoreReady, completeRestore,
          MayMove
    <2> QED BY <1>5, <2>1, <2>2, <2>3, <2>4, <2>5, <2>6, <2>7, <2>8 DEF Transfers
  <1>6. ASSUME NEW o \in Operation, TickSteps(o)
         PROVE  Kept
    <2>1. CASE retryPreserve(o) \/ recoverRunning(o) \/ retryPurge(o)
      BY <2>1
      DEF retryPreserve, Up, Terminal, rowVars, recoverRunning, recoverPreserve, Ticking,
          retryPurge, Incomplete
    <2> QED BY <1>6, <2>1 DEF TickSteps
  <1>7. ASSUME NEW c \in Checkpoint, removeInterrupted(c)
         PROVE  Kept
    BY <1>7 DEF removeInterrupted
  <1>8. ASSUME NEW c \in Checkpoint, settleUpload(c)
         PROVE  Kept
    BY <1>8 DEF settleUpload, abortUpload
  <1>9. ASSUME NEW c \in Checkpoint, verifyPublication(c)
         PROVE  Kept
    BY <1>9 DEF verifyPublication, Booting
  <1>10. ASSUME NEW o \in Operation, reconcileVerification(o)
         PROVE  Kept
    BY <1>10 DEF reconcileVerification, Visit, Booting
  <1>11. ASSUME NEW o \in Operation, reconcileDeletion(o)
         PROVE  Kept
    BY <1>11 DEF reconcileDeletion, Booting
  <1>12. ASSUME NEW o \in Operation, reconcilePending(o)
         PROVE  Kept
    BY <1>12 DEF reconcilePending, Visit, Terminal, Booting
  <1>13. ASSUME NEW o \in Operation, reconcileSnapshot(o)
         PROVE  Kept
    BY <1>13 DEF reconcileSnapshot, Visit, updateWorkspaceStorage, Moved, Booting, MayMove
  <1>14. ASSUME NEW o \in Operation, launch(o) \/ bootstrapFails(o) \/ becomesReady(o)
                                     \/ settleDownload(o) \/ reconcileRestore(o)
                                     \/ reconcileTransferred(o) \/ skipPurge(o)
         PROVE  Kept
    BY <1>14
    DEF launch, Up, updateWorkspaceStorage, Incomplete, Elsewhere, bootstrapFails,
        checkpointDownloadAuthority, becomesReady, MayMove, settleDownload, abortDownload,
        reconcileRestore, Visit, Terminal, Booting, reconcileTransferred, recoverPreserve,
        skipPurge
  <1>15. ASSUME NEW w \in Workspace, sweepPreserving(w) \/ cutTransfers(w) \/ finalize(w)
                                     \/ beginTermination(w)
         PROVE  Kept
    BY <1>15
    DEF sweepPreserving, Up, Incomplete, Elsewhere, cutTransfers, finalize,
        updateWorkspaceStorage, beginTermination
  <1>16. ASSUME rowsVisited \/ started \/ crash \/ listRunning \/ listPending
         PROVE  Kept
    BY <1>16
    DEF rowsVisited, Incomplete, Booting, started, crash, Up, Nothing, None, rowVars,
        listRunning, Listing, listPending
  <1> QED BY <1>1, <1>2, <1>3, <1>4, <1>5, <1>6, <1>7, <1>8, <1>9, <1>10, <1>11, <1>12, <1>13,
         <1>14, <1>15, <1>16
    DEF Next, Scheduling, Recovery

\* No archive is left behind a deleted row.
LEMMA RemovedStep ==
    /\ Functions /\ TypeOK /\ Kinds /\ Modes /\ Unsettled
    /\ Claimed /\ Startup /\ Removed
    /\ Next
    => Removed'
  <1> SUFFICES ASSUME Functions, TypeOK, Kinds, Modes, Unsettled, Claimed, Startup,
      Removed, Next
               PROVE  Removed'
    OBVIOUS
  <1>0. mode' = mode /\ \A c \in Checkpoint : Deleted(c) => Deleted(c)'
    BY ModeStep, DeletedStays
  <1> USE <1>0, OperationAssumption DEF Removed, Missed, Transfer, OfKind, TypeOK, Functions, Step, Stop,
          Quiet, NoFault, Fault, Forget, updateOperation, updateCheckpoint
  <1>1. ASSUME NEW o \in Operation, Request(o)
         PROVE  Removed'
    <2>1. CASE preserve(o)
      BY <2>1 DEF preserve, Up, insertOperation, admitIntent
    <2>2. CASE purge(o)
      BY <2>2 DEF purge, Up, insertOperation, admitIntent
    <2>3. CASE restore(o) \/ verify(o) \/ delete(o)
      BY <2>3 DEF restore, Up, verify, delete, Incomplete
    <2> HIDE DEF Removed
    <2> QED BY <1>1, <2>1, <2>2, <2>3 DEF Request
  <1>2. ASSUME NEW o \in Operation, PreserveTask(o)
         PROVE  Removed'
    <2> o.kind = "preserve"
      BY <1>2, PreserveKind
    <2>1. CASE assertPreserveAdmission(o)
      BY <2>1 DEF assertPreserveAdmission
    <2>2. CASE enterPreserving(o)
      BY <2>2 DEF enterPreserving, MayMove
    <2>3. CASE inspect(o)
      BY <2>3 DEF inspect
    <2>4. CASE prepareArchive(o)
      BY <2>4 DEF prepareArchive, checkpointUploadAuthority, grantUpload, Incomplete
    <2>5. CASE createSnapshot(o)
      BY <2>5 DEF createSnapshot, updateWorkspaceStorage, Modes
    <2>6. CASE completePreserve(o)
      BY <2>6 DEF completePreserve, updateWorkspaceStorage
    <2>7. CASE handlePreserveFailure(o)
      BY <2>7 DEF handlePreserveFailure, updateWorkspaceStorage, Moved, MayMove
    <2>8. CASE retainUnpublishedSource(o)
      BY <2>8 DEF retainUnpublishedSource
    <2>9. CASE linkCheckpoint(o) \/ attempt(o) \/ revokeLeases(o) \/ runTransferPreserve(o)
               \/ openGrant(o) \/ uploadSettled(o) \/ cleanupTransferSource(o)
               \/ sourceDeleted(o) \/ commitPreserved(o) \/ finishPreserve(o)
      BY <2>9
      DEF linkCheckpoint, attempt, revokeLeases, runTransferPreserve, updateWorkspaceStorage,
          openGrant, rowVars, uploadSettled, cleanupTransferSource, sourceDeleted,
          commitPreserved, Moved, MayMove, finishPreserve
    <2>10. CASE stopForSnapshot(o) \/ detachSource(o) \/ abandonSource(o)
      BY <2>10 DEF stopForSnapshot, detachSource, abandonSource, Moved, MayMove
    <2> HIDE DEF Removed
    <2> QED BY <1>2, <2>1, <2>2, <2>3, <2>4, <2>5, <2>6, <2>7, <2>8, <2>9, <2>10 DEF PreserveTask
  <1>3. ASSUME NEW o \in Operation, CheckpointTask(o)
         PROVE  Removed'
    <2>1. CASE insertRestore(o)
      BY <2>1 DEF insertRestore, insertOperation, admitIntent
    <2>2. CASE insertVerify(o)
      BY <2>2 DEF insertVerify, insertOperation, admitIntent
    <2>3. CASE finishVerify(o)
      BY <2>3, CheckpointKind DEF finishVerify
    <2>4. CASE insertDelete(o)
      BY <2>4 DEF insertDelete, insertOperation, admitIntent
    <2>5. CASE acknowledgeDelete(o)
      BY <2>5, CheckpointKind DEF acknowledgeDelete
    <2>6. CASE deleteArchive(o)
      BY <2>6, CheckpointKind DEF deleteArchive, removeArchive
    <2>7. CASE commitRemoval(o)
      BY <2>7 DEF commitRemoval, removePublication
    <2>8. CASE finishDelete(o)
      <3>1. /\ o.kind = "delete" /\ o.checkpoint \in Checkpoint
            /\ ck' = [ck EXCEPT ![o.checkpoint] = "deleted"] /\ UNCHANGED <<mode, upload, archive>>
            /\ op' = [op EXCEPT ![o] = "succeeded"]
        BY <2>8, CheckpointKind DEF finishDelete
      <3>2. Deleted(o.checkpoint)'
        BY <3>1 DEF Deleted
      <3> QED BY <3>1, <3>2
    <2>9. CASE insertTarget(o) \/ linkTarget(o) \/ cleanupPreservedStorage(o)
      BY <2>9, CheckpointKind
      DEF insertTarget, linkTarget, cleanupPreservedStorage, Incomplete, updateWorkspaceStorage
    <2> HIDE DEF Removed
    <2> QED BY <1>3, <2>1, <2>2, <2>3, <2>4, <2>5, <2>6, <2>7, <2>8, <2>9 DEF CheckpointTask
  <1>4. ASSUME NEW o \in Operation, PurgeTask(o)
         PROVE  Removed'
    <2> o.kind = "purge"
      BY <1>4, PurgeKind
    <2>1. ASSUME NEW c \in Checkpoint, purgeCheckpoint(o, c)
           PROVE  Removed'
      BY <2>1 DEF purgeCheckpoint, removeArchive
    <2>2. CASE forgetCheckpoint(o)
      BY <2>2 DEF forgetCheckpoint, removePublication, PurgeFails
    <2>3. CASE purgeStorage(o)
      BY <2>3, MakerOf DEF purgeStorage, PurgeFails, PurgeTarget, Unsettled
    <2>4. CASE acknowledgePurge(o) \/ cancelCopies(o) \/ copiesSettled(o) \/ hasActiveCopies(o)
               \/ endWorkspace(o) \/ removeProvider(o) \/ purgeWorkspaceContent(o)
      BY <2>4
      DEF acknowledgePurge, PurgeFails, cancelCopies, rowVars, copiesSettled, hasActiveCopies,
          Incomplete, endWorkspace, Terminal, Nonterminal, removeProvider, purgeWorkspaceContent
    <2>5. ASSUME NEW r \in Operation, settleRestore(o, r) \/ endRestore(o, r)
           PROVE  Removed'
      BY <2>5 DEF settleRestore, Incomplete, endRestore
    <2> HIDE DEF Removed
    <2> QED BY <1>4, <2>1, <2>2, <2>3, <2>4, <2>5 DEF PurgeTask
  <1>5. ASSUME NEW o \in Operation, Transfers(o)
         PROVE  Removed'
    <2>1. CASE claim(o)
      BY <2>1
      DEF claim, claimUpload, claimDownload, Context, checkpointUploadAuthority,
          checkpointDownloadAuthority, Incomplete
    <2>2. CASE createArchive(o)
      BY <2>2 DEF createArchive, checkpointUploadAuthority, Context, Incomplete
    <2>3. CASE stageArchive(o)
      BY <2>3 DEF stageArchive, stage, Context, checkpointUploadAuthority, Incomplete
    <2>4. CASE sealArchive(o)
      BY <2>4 DEF sealArchive, checkpointUploadAuthority, Context, Incomplete
    <2>5. CASE publishArchive(o)
      BY <2>5 DEF publishArchive, publish, Context, checkpointUploadAuthority, Incomplete
    <2>6. CASE closeUploadOwners(o)
      BY <2>6 DEF closeUploadOwners, Context
    <2>7. CASE cleanup(o)
      BY <2>7 DEF cleanup, abortUpload, abortDownload, Context
    <2>8. CASE restoreGrant(o) \/ downloadArchive(o) \/ checkpointInstalled(o)
               \/ restoreReady(o)
      BY <2>8
      DEF restoreGrant, Up, grantDownload, Context, checkpointDownloadAuthority, Incomplete,
          downloadArchive, downloaded, checkpointInstalled, installed,
          completeCheckpointStorage, updateWorkspaceStorage, restoreReady, completeRestore,
          MayMove
    <2> HIDE DEF Removed
    <2> QED BY <1>5, <2>1, <2>2, <2>3, <2>4, <2>5, <2>6, <2>7, <2>8 DEF Transfers
  <1>6. ASSUME NEW o \in Operation, TickSteps(o)
         PROVE  Removed'
    <2>1. CASE retryPreserve(o) \/ recoverRunning(o) \/ retryPurge(o)
      BY <2>1
      DEF retryPreserve, Up, Terminal, rowVars, recoverRunning, recoverPreserve, Ticking,
          retryPurge, Incomplete
    <2> HIDE DEF Removed
    <2> QED BY <1>6, <2>1 DEF TickSteps
  <1>7. ASSUME NEW c \in Checkpoint, removeInterrupted(c)
         PROVE  Removed'
    BY <1>7 DEF removeInterrupted
  <1>8. ASSUME NEW c \in Checkpoint, settleUpload(c)
         PROVE  Removed'
    BY <1>8 DEF settleUpload, abortUpload
  <1>9. ASSUME NEW c \in Checkpoint, verifyPublication(c)
         PROVE  Removed'
    BY <1>9 DEF verifyPublication, Booting
  <1>10. ASSUME NEW o \in Operation, reconcileVerification(o)
         PROVE  Removed'
    BY <1>10 DEF reconcileVerification, Visit, Booting
  <1>11. ASSUME NEW o \in Operation, reconcileDeletion(o)
         PROVE  Removed'
    BY <1>11 DEF reconcileDeletion, Booting
  <1>12. ASSUME NEW o \in Operation, reconcilePending(o)
         PROVE  Removed'
    BY <1>12 DEF reconcilePending, Visit, Terminal, Booting
  <1>13. ASSUME NEW o \in Operation, reconcileSnapshot(o)
         PROVE  Removed'
    BY <1>13 DEF reconcileSnapshot, Visit, updateWorkspaceStorage, Moved, Booting, MayMove
  <1>14. ASSUME NEW o \in Operation, launch(o) \/ bootstrapFails(o) \/ becomesReady(o)
                                     \/ settleDownload(o) \/ reconcileRestore(o)
                                     \/ reconcileTransferred(o) \/ skipPurge(o)
         PROVE  Removed'
    BY <1>14
    DEF launch, Up, updateWorkspaceStorage, Incomplete, Elsewhere, bootstrapFails,
        checkpointDownloadAuthority, becomesReady, MayMove, settleDownload, abortDownload,
        reconcileRestore, Visit, Terminal, Booting, reconcileTransferred, recoverPreserve,
        skipPurge
  <1>15. ASSUME NEW w \in Workspace, sweepPreserving(w) \/ cutTransfers(w) \/ finalize(w)
                                     \/ beginTermination(w)
         PROVE  Removed'
    BY <1>15
    DEF sweepPreserving, Up, Incomplete, Elsewhere, cutTransfers, finalize,
        updateWorkspaceStorage, beginTermination
  <1>16. ASSUME rowsVisited \/ started \/ crash \/ listRunning \/ listPending
         PROVE  Removed'
    BY <1>16
    DEF rowsVisited, Incomplete, Booting, started, crash, Up, Nothing, None, rowVars,
        listRunning, Listing, listPending
  <1> HIDE DEF Removed
  <1> QED BY <1>1, <1>2, <1>3, <1>4, <1>5, <1>6, <1>7, <1>8, <1>9, <1>10, <1>11, <1>12, <1>13,
         <1>14, <1>15, <1>16
    DEF Next, Scheduling, Recovery

\* A preserving workspace never loses its last attendant.
LEMMA AttendedStep ==
    /\ Functions /\ TypeOK /\ Kinds /\ Begun /\ Modes /\ Sourced
    /\ Reads /\ Startup /\ Tasks
    /\ Next
    => AttendantsStay
  <1> SUFFICES ASSUME Functions, TypeOK, Kinds, Begun, Modes, Sourced, Reads, Startup, Tasks,
      Next
               PROVE  AttendantsStay
    OBVIOUS
  <1> USE OperationAssumption DEF AttendantsStay, Attendants, Transfer, Incomplete, OfKind,
          TypeOK, Functions, Step, Stop, Quiet, NoFault, Fault, Forget, updateOperation,
          updateCheckpoint
  <1>1. ASSUME NEW o \in Operation, Request(o)
         PROVE  AttendantsStay
    <2>1. CASE preserve(o)
      BY <2>1 DEF preserve, Up, insertOperation, admitIntent
    <2>2. CASE restore(o)
      BY <2>2 DEF restore, Up
    <2>3. CASE verify(o)
      BY <2>3 DEF verify, Up
    <2>4. CASE delete(o)
      BY <2>4 DEF delete, Up
    <2>5. CASE purge(o)
      BY <2>5 DEF purge, Up, insertOperation, admitIntent
    <2> HIDE DEF AttendantsStay
    <2> QED BY <1>1, <2>1, <2>2, <2>3, <2>4, <2>5 DEF Request
  <1>2. ASSUME NEW o \in Operation, PreserveTask(o)
         PROVE  AttendantsStay
    <2> o.kind = "preserve"
      BY <1>2, PreserveKind
    <2>1. CASE assertPreserveAdmission(o)
      BY <2>1 DEF assertPreserveAdmission
    <2>2. CASE linkCheckpoint(o)
      BY <2>2 DEF linkCheckpoint
    <2>3. CASE enterPreserving(o)
      <3>1. pc[o] = "enter" /\ UNCHANGED linked /\ o \in linked /\ op[o] = "pending"
        BY <2>3 DEF enterPreserving, Tasks
      <3>2. CASE ws' = [ws EXCEPT ![o.workspace] = "preserving"] /\ UNCHANGED op
                 /\ ws[o.workspace] # "preserving" /\ pc' = [pc EXCEPT ![o] = pc'[o]]
                 /\ pc'[o] \in {"idle", "attempt"}
        <4>1. o \in Attendants(o.workspace)'
          BY <3>1, <3>2
        <4>2. \A w \in Workspace : Attendants(w) \subseteq Attendants(w)'
          BY <3>1, <3>2
        <4> QED BY <3>2, <4>1, <4>2
      <3>3. CASE UNCHANGED ws /\ op' = [op EXCEPT ![o] = "failed"] /\ pc' = [pc EXCEPT ![o] = "idle"]
        BY <3>1, <3>3
      <3> QED BY <2>3, <3>2, <3>3 DEF enterPreserving, MayMove
    <2>4. CASE attempt(o)
      BY <2>4 DEF attempt
    <2>5. CASE revokeLeases(o)
      BY <2>5 DEF revokeLeases
    <2>6. CASE inspect(o)
      BY <2>6, DoneIsReady DEF inspect, Sourced, HasStorage
    <2>7. CASE runTransferPreserve(o)
      BY <2>7, SourceGoes DEF runTransferPreserve, updateWorkspaceStorage
    <2>8. CASE prepareArchive(o)
      BY <2>8 DEF prepareArchive, checkpointUploadAuthority, grantUpload
    <2>9. CASE openGrant(o)
      BY <2>9 DEF openGrant, rowVars
    <2>10. CASE uploadSettled(o)
      BY <2>10 DEF uploadSettled, rowVars
    <2>11. CASE cleanupTransferSource(o)
      BY <2>11 DEF cleanupTransferSource
    <2>12. CASE sourceDeleted(o)
      BY <2>12 DEF sourceDeleted, updateWorkspaceStorage
    <2>13. CASE commitPreserved(o)
      BY <2>13 DEF commitPreserved, Moved, MayMove
    <2>14. CASE finishPreserve(o)
      BY <2>14 DEF finishPreserve, Reads
    <2>15. CASE stopForSnapshot(o)
      BY <2>15 DEF stopForSnapshot
    <2>16. CASE createSnapshot(o)
      BY <2>16 DEF createSnapshot, updateWorkspaceStorage
    <2>17. CASE completePreserve(o)
      BY <2>17 DEF completePreserve, updateWorkspaceStorage
    <2>18. CASE detachSource(o)
      BY <2>18 DEF detachSource
    <2>19. CASE handlePreserveFailure(o)
      <3> SUFFICES ASSUME ~Transfer PROVE AttendantsStay
        OBVIOUS
      <3>1. ws' = Moved(o.workspace, {"preserving"}, "failed") /\ op' = [op EXCEPT ![o] = "failed"]
            /\ pc' = [pc EXCEPT ![o] = "idle"] /\ UNCHANGED linked
        BY <2>19 DEF handlePreserveFailure
      <3>2. ws' = IF ws[o.workspace] = "preserving"
                  THEN [ws EXCEPT ![o.workspace] = "failed"] ELSE ws
        BY <3>1, MovedIs
      <3>3. \A w \in Workspace : ws'[w] = "preserving" => w # o.workspace
        BY <3>2
      <3> QED BY <3>1, <3>2, <3>3
    <2>20. CASE retainUnpublishedSource(o)
      BY <2>20 DEF retainUnpublishedSource, Modes
    <2>21. CASE abandonSource(o)
      BY <2>21 DEF abandonSource, Moved, MayMove, Modes
    <2> HIDE DEF AttendantsStay
    <2> QED BY <1>2, <2>1, <2>2, <2>3, <2>4, <2>5, <2>6, <2>7, <2>8, <2>9, <2>10, <2>11, <2>12,
         <2>13, <2>14, <2>15, <2>16, <2>17, <2>18, <2>19, <2>20, <2>21 DEF PreserveTask
  <1>3. ASSUME NEW o \in Operation, CheckpointTask(o)
         PROVE  AttendantsStay
    <2>1. CASE insertRestore(o)
      BY <2>1 DEF insertRestore, insertOperation, admitIntent
    <2>2. CASE insertTarget(o)
      BY <2>2, CheckpointKind DEF insertTarget
    <2>3. CASE linkTarget(o)
      BY <2>3, CheckpointKind DEF linkTarget
    <2>4. CASE insertVerify(o)
      BY <2>4 DEF insertVerify, insertOperation, admitIntent
    <2>5. CASE finishVerify(o)
      BY <2>5, CheckpointKind DEF finishVerify
    <2>6. CASE insertDelete(o)
      BY <2>6 DEF insertDelete, insertOperation, admitIntent
    <2>7. CASE acknowledgeDelete(o)
      BY <2>7, CheckpointKind DEF acknowledgeDelete
    <2>8. CASE deleteArchive(o)
      BY <2>8, CheckpointKind DEF deleteArchive, removeArchive
    <2>9. CASE commitRemoval(o)
      BY <2>9 DEF commitRemoval, removePublication
    <2>10. CASE finishDelete(o)
      BY <2>10, CheckpointKind DEF finishDelete
    <2>11. CASE cleanupPreservedStorage(o)
      BY <2>11, CheckpointKind DEF cleanupPreservedStorage, updateWorkspaceStorage
    <2> HIDE DEF AttendantsStay
    <2> QED BY <1>3, <2>1, <2>2, <2>3, <2>4, <2>5, <2>6, <2>7, <2>8, <2>9, <2>10, <2>11
    DEF CheckpointTask
  <1>4. ASSUME NEW o \in Operation, PurgeTask(o)
         PROVE  AttendantsStay
    <2> o.kind = "purge"
      BY <1>4, PurgeKind
    <2>1. CASE acknowledgePurge(o)
      BY <2>1 DEF acknowledgePurge, PurgeFails
    <2>2. CASE cancelCopies(o)
      BY <2>2 DEF cancelCopies, rowVars
    <2>3. CASE copiesSettled(o)
      BY <2>3 DEF copiesSettled
    <2>4. ASSUME NEW r \in Operation, settleRestore(o, r)
           PROVE  AttendantsStay
      BY <2>4 DEF settleRestore
    <2>5. ASSUME NEW r \in Operation, endRestore(o, r)
           PROVE  AttendantsStay
      BY <2>5 DEF endRestore
    <2>6. CASE hasActiveCopies(o)
      BY <2>6 DEF hasActiveCopies, PurgeFails
    <2>7. CASE endWorkspace(o)
      BY <2>7 DEF endWorkspace, Terminal, Nonterminal, PurgeFails
    <2>8. CASE removeProvider(o)
      BY <2>8 DEF removeProvider, PurgeFails
    <2>9. ASSUME NEW c \in Checkpoint, purgeCheckpoint(o, c)
           PROVE  AttendantsStay
      BY <2>9 DEF purgeCheckpoint, removeArchive
    <2>10. CASE forgetCheckpoint(o)
      BY <2>10 DEF forgetCheckpoint, removePublication, PurgeFails
    <2>11. CASE purgeStorage(o)
      BY <2>11 DEF purgeStorage, PurgeFails
    <2>12. CASE purgeWorkspaceContent(o)
      BY <2>12 DEF purgeWorkspaceContent
    <2> HIDE DEF AttendantsStay
    <2> QED BY <1>4, <2>1, <2>2, <2>3, <2>4, <2>5, <2>6, <2>7, <2>8, <2>9, <2>10, <2>11, <2>12
    DEF PurgeTask
  <1>5. ASSUME NEW o \in Operation, Transfers(o)
         PROVE  AttendantsStay
    <2>1. CASE restoreReady(o)
      BY <2>1 DEF restoreReady, Up, completeRestore, Context, checkpointDownloadAuthority, MayMove
    <2>2. CASE claim(o) \/ createArchive(o) \/ stageArchive(o) \/ sealArchive(o)
               \/ publishArchive(o) \/ closeUploadOwners(o) \/ cleanup(o) \/ restoreGrant(o)
               \/ downloadArchive(o) \/ checkpointInstalled(o)
      BY <2>2
      DEF claim, claimUpload, claimDownload, Context, checkpointUploadAuthority,
          checkpointDownloadAuthority, createArchive, stageArchive, stage, sealArchive,
          publishArchive, publish, closeUploadOwners, cleanup, abortUpload, abortDownload,
          restoreGrant, Up, grantDownload, downloadArchive, downloaded, checkpointInstalled,
          installed, completeCheckpointStorage, updateWorkspaceStorage
    <2> HIDE DEF AttendantsStay
    <2> QED BY <1>5, <2>1, <2>2 DEF Transfers
  <1>6. ASSUME NEW o \in Operation, TickSteps(o)
         PROVE  AttendantsStay
    <2>1. CASE retryPreserve(o)
      BY <2>1 DEF retryPreserve, Up, Terminal, rowVars
    <2>2. CASE recoverRunning(o)
      BY <2>2 DEF recoverRunning, Up, recoverPreserve, Ticking
    <2>3. CASE retryPurge(o)
      BY <2>3 DEF retryPurge, Up, rowVars
    <2> HIDE DEF AttendantsStay
    <2> QED BY <1>6, <2>1, <2>2, <2>3 DEF TickSteps
  <1>7. ASSUME NEW o \in Operation, launch(o)
         PROVE  AttendantsStay
    <2>1. \A p \in OfKind("preserve") : op'[p] = op[p]
      BY <1>7 DEF launch
    <2>2. UNCHANGED <<mode, linked, pc>>
      BY <1>7 DEF launch, Elsewhere
    <2>3. \A w \in Workspace : ws'[w] = "preserving" => ws[w] = "preserving"
      BY <1>7 DEF launch
    <2> QED BY <2>1, <2>2, <2>3
  <1>8. ASSUME NEW o \in Operation, bootstrapFails(o)
         PROVE  AttendantsStay
    BY <1>8 DEF bootstrapFails, Up, checkpointDownloadAuthority, Elsewhere
  <1>9. ASSUME NEW o \in Operation, becomesReady(o)
         PROVE  AttendantsStay
    BY <1>9 DEF becomesReady, Up, MayMove, Elsewhere
  <1>10. ASSUME NEW w \in Workspace, sweepPreserving(w)
         PROVE  AttendantsStay
    BY <1>10 DEF sweepPreserving, Up, Elsewhere
  <1>11. ASSUME NEW w \in Workspace, finalize(w)
         PROVE  AttendantsStay
    BY <1>11 DEF finalize, Up, updateWorkspaceStorage, Elsewhere
  <1>12. ASSUME NEW o \in Operation, reconcileRestore(o)
         PROVE  AttendantsStay
    BY <1>12 DEF reconcileRestore, Visit, Terminal, Booting
  <1>13. ASSUME NEW o \in Operation, reconcileVerification(o)
         PROVE  AttendantsStay
    BY <1>13 DEF reconcileVerification, Visit, Booting
  <1>14. ASSUME NEW o \in Operation, reconcileDeletion(o)
         PROVE  AttendantsStay
    BY <1>14 DEF reconcileDeletion, Booting
  <1>15. ASSUME NEW o \in Operation, reconcilePending(o)
         PROVE  AttendantsStay
    BY <1>15 DEF reconcilePending, Visit, Terminal, Booting, Startup
  <1>16. ASSUME NEW o \in Operation, reconcileTransferred(o)
         PROVE  AttendantsStay
    BY <1>16 DEF reconcileTransferred, Visit, recoverPreserve, Booting
  <1>17. ASSUME NEW o \in Operation, reconcileSnapshot(o)
         PROVE  AttendantsStay
    <2>1. op' = [op EXCEPT ![o] = op'[o]] /\ UNCHANGED <<pc, linked>>
          /\ ws' \in {[ws EXCEPT ![o.workspace] = "preserved"],
                      Moved(o.workspace, {"preserving"}, "failed")}
      BY <1>17 DEF reconcileSnapshot
    <2>2. ws' = [ws EXCEPT ![o.workspace] = "preserved"]
          \/ ws' = IF ws[o.workspace] = "preserving"
                   THEN [ws EXCEPT ![o.workspace] = "failed"] ELSE ws
      BY <2>1, MovedIs
    <2>3. \A w \in Workspace : ws'[w] = "preserving" => w # o.workspace
      BY <2>2
    <2> QED BY <2>1, <2>2, <2>3
  <1>18. ASSUME crash
         PROVE  AttendantsStay
    BY <1>18 DEF crash, Up, Nothing, None, rowVars
  <1>19. ASSUME NEW w \in Workspace, beginTermination(w)
         PROVE  AttendantsStay
    BY <1>19 DEF beginTermination, Up, Elsewhere
  <1>20. ASSUME NEW w \in Workspace, cutTransfers(w)
         PROVE  AttendantsStay
    BY <1>20 DEF cutTransfers, Elsewhere
  <1>21. ASSUME NEW c \in Checkpoint, removeInterrupted(c) \/ settleUpload(c)
                                      \/ verifyPublication(c)
         PROVE  AttendantsStay
    BY <1>21 DEF removeInterrupted, settleUpload, abortUpload, verifyPublication, Booting
  <1>22. ASSUME NEW o \in Operation, settleDownload(o) \/ skipPurge(o)
         PROVE  AttendantsStay
    BY <1>22 DEF settleDownload, Up, abortDownload, skipPurge, Visit, Booting
  <1>23. ASSUME rowsVisited \/ started \/ listRunning \/ listPending
         PROVE  AttendantsStay
    BY <1>23
    DEF rowsVisited, Booting, started, listRunning, Listing, Up, None, rowVars, listPending
  <1> HIDE DEF AttendantsStay
  <1> QED BY <1>1, <1>2, <1>3, <1>4, <1>5, <1>6, <1>7, <1>8, <1>9, <1>10, <1>11, <1>12, <1>13,
         <1>14, <1>15, <1>16, <1>17, <1>18, <1>19, <1>20, <1>21, <1>22, <1>23
    DEF Next, Scheduling, Recovery

-------------------------------------------------------------------------------
\* The purge.

\* No second purge task starts for a workspace.
LEMMA OnePurgeStep ==
    Functions /\ Kinds /\ OnePurge /\ Next => OnePurge'
  <1> SUFFICES ASSUME Functions, Kinds, OnePurge, Next
               PROVE  OnePurge'
    OBVIOUS
  <1> USE OperationAssumption DEF OnePurge, OfKind, Functions, Step, Stop, Quiet, NoFault,
          Fault, Forget, updateOperation, updateCheckpoint
  <1>1. ASSUME NEW o \in Operation, Request(o)
         PROVE  OnePurge'
    <2>1. CASE preserve(o)
      BY <2>1 DEF preserve, Up, insertOperation, admitIntent
    <2>2. CASE restore(o)
      BY <2>2 DEF restore, Up
    <2>3. CASE verify(o)
      BY <2>3 DEF verify, Up
    <2>4. CASE delete(o)
      BY <2>4 DEF delete, Up, Incomplete
    <2>5. CASE purge(o)
      BY <2>5 DEF purge, Up, insertOperation, Purges, admitIntent
    <2> HIDE DEF OnePurge
    <2> QED BY <1>1, <2>1, <2>2, <2>3, <2>4, <2>5 DEF Request
  <1>2. ASSUME NEW o \in Operation, PreserveTask(o)
         PROVE  OnePurge'
    <2> o.kind = "preserve"
      BY <1>2, PreserveKind
    <2>1. CASE assertPreserveAdmission(o)
      BY <2>1 DEF assertPreserveAdmission
    <2>2. CASE linkCheckpoint(o)
      BY <2>2 DEF linkCheckpoint
    <2>3. CASE enterPreserving(o)
      BY <2>3 DEF enterPreserving, MayMove
    <2>4. CASE attempt(o)
      BY <2>4 DEF attempt
    <2>5. CASE revokeLeases(o)
      BY <2>5 DEF revokeLeases
    <2>6. CASE inspect(o)
      BY <2>6 DEF inspect
    <2>7. CASE runTransferPreserve(o)
      BY <2>7, SourceGoes DEF runTransferPreserve, Transfer, updateWorkspaceStorage
    <2>8. CASE prepareArchive(o)
      BY <2>8 DEF prepareArchive, checkpointUploadAuthority, grantUpload, Incomplete
    <2>9. CASE openGrant(o)
      BY <2>9 DEF openGrant, rowVars
    <2>10. CASE uploadSettled(o)
      BY <2>10 DEF uploadSettled, rowVars
    <2>11. CASE cleanupTransferSource(o)
      BY <2>11 DEF cleanupTransferSource
    <2>12. CASE sourceDeleted(o)
      BY <2>12 DEF sourceDeleted, updateWorkspaceStorage
    <2>13. CASE commitPreserved(o)
      BY <2>13 DEF commitPreserved, Moved, MayMove
    <2>14. CASE finishPreserve(o)
      BY <2>14 DEF finishPreserve
    <2>15. CASE stopForSnapshot(o)
      BY <2>15 DEF stopForSnapshot, Transfer
    <2>16. CASE createSnapshot(o)
      BY <2>16 DEF createSnapshot, updateWorkspaceStorage
    <2>17. CASE completePreserve(o)
      BY <2>17 DEF completePreserve, updateWorkspaceStorage
    <2>18. CASE detachSource(o)
      BY <2>18 DEF detachSource
    <2>19. CASE handlePreserveFailure(o)
      BY <2>19 DEF handlePreserveFailure, Transfer, updateWorkspaceStorage, Moved, MayMove
    <2>20. CASE retainUnpublishedSource(o)
      BY <2>20 DEF retainUnpublishedSource
    <2>21. CASE abandonSource(o)
      BY <2>21 DEF abandonSource, Moved, MayMove
    <2> HIDE DEF OnePurge
    <2> QED BY <1>2, <2>1, <2>2, <2>3, <2>4, <2>5, <2>6, <2>7, <2>8, <2>9, <2>10, <2>11, <2>12,
         <2>13, <2>14, <2>15, <2>16, <2>17, <2>18, <2>19, <2>20, <2>21 DEF PreserveTask
  <1>3. ASSUME NEW o \in Operation, CheckpointTask(o)
         PROVE  OnePurge'
    <2>1. CASE insertRestore(o)
      BY <2>1 DEF insertRestore, insertOperation, admitIntent
    <2>2. CASE insertTarget(o)
      BY <2>2, CheckpointKind DEF insertTarget
    <2>3. CASE linkTarget(o)
      BY <2>3, CheckpointKind DEF linkTarget
    <2>4. CASE insertVerify(o)
      BY <2>4 DEF insertVerify, insertOperation, admitIntent
    <2>5. CASE finishVerify(o)
      BY <2>5, CheckpointKind DEF finishVerify
    <2>6. CASE insertDelete(o)
      BY <2>6 DEF insertDelete, insertOperation, admitIntent
    <2>7. CASE acknowledgeDelete(o)
      BY <2>7, CheckpointKind DEF acknowledgeDelete
    <2>8. CASE deleteArchive(o)
      BY <2>8, CheckpointKind DEF deleteArchive, removeArchive, Transfer
    <2>9. CASE commitRemoval(o)
      BY <2>9 DEF commitRemoval, Transfer, removePublication
    <2>10. CASE finishDelete(o)
      BY <2>10, CheckpointKind DEF finishDelete
    <2>11. CASE cleanupPreservedStorage(o)
      BY <2>11, CheckpointKind
      DEF cleanupPreservedStorage, Transfer, Incomplete, updateWorkspaceStorage
    <2> HIDE DEF OnePurge
    <2> QED BY <1>3, <2>1, <2>2, <2>3, <2>4, <2>5, <2>6, <2>7, <2>8, <2>9, <2>10, <2>11
    DEF CheckpointTask
  <1>4. ASSUME NEW o \in Operation, PurgeTask(o)
         PROVE  OnePurge'
    <2> o.kind = "purge"
      BY <1>4, PurgeKind
    <2>1. CASE acknowledgePurge(o)
      BY <2>1 DEF acknowledgePurge, PurgeFails
    <2>2. CASE cancelCopies(o)
      BY <2>2 DEF cancelCopies, Transfer, rowVars
    <2>3. CASE copiesSettled(o)
      BY <2>3 DEF copiesSettled, Transfer
    <2>4. CASE hasActiveCopies(o)
      BY <2>4 DEF hasActiveCopies, Incomplete, PurgeFails
    <2>5. CASE endWorkspace(o)
      BY <2>5 DEF endWorkspace, Terminal, Nonterminal, PurgeFails
    <2>6. CASE removeProvider(o)
      BY <2>6 DEF removeProvider, PurgeFails
    <2>7. ASSUME NEW c \in Checkpoint, purgeCheckpoint(o, c)
           PROVE  OnePurge'
      BY <2>7 DEF purgeCheckpoint, Transfer, removeArchive
    <2>8. CASE forgetCheckpoint(o)
      BY <2>8 DEF forgetCheckpoint, Transfer, removePublication, PurgeFails
    <2>9. CASE purgeStorage(o)
      BY <2>9 DEF purgeStorage, Transfer, PurgeFails
    <2>10. CASE purgeWorkspaceContent(o)
      BY <2>10 DEF purgeWorkspaceContent
    <2>11. ASSUME NEW r \in Operation, settleRestore(o, r) \/ endRestore(o, r)
           PROVE  OnePurge'
      BY <2>11 DEF settleRestore, Incomplete, endRestore
    <2> HIDE DEF OnePurge
    <2> QED BY <1>4, <2>1, <2>2, <2>3, <2>4, <2>5, <2>6, <2>7, <2>8, <2>9, <2>10, <2>11
    DEF PurgeTask
  <1>5. ASSUME NEW o \in Operation, Transfers(o)
         PROVE  OnePurge'
    <2>1. CASE claim(o) \/ createArchive(o) \/ stageArchive(o) \/ sealArchive(o)
               \/ publishArchive(o) \/ closeUploadOwners(o) \/ cleanup(o) \/ restoreGrant(o)
               \/ downloadArchive(o) \/ checkpointInstalled(o)
      BY <2>1
      DEF claim, claimUpload, claimDownload, Context, checkpointUploadAuthority,
          checkpointDownloadAuthority, Incomplete, createArchive, stageArchive, stage,
          sealArchive, publishArchive, publish, closeUploadOwners, cleanup, abortUpload,
          abortDownload, restoreGrant, Up, Transfer, grantDownload, downloadArchive, downloaded,
          checkpointInstalled, installed, completeCheckpointStorage, updateWorkspaceStorage
    <2>2. CASE restoreReady(o)
      BY <2>2
      DEF restoreReady, Up, completeRestore, Context, checkpointDownloadAuthority, MayMove,
          Incomplete
    <2> HIDE DEF OnePurge
    <2> QED BY <1>5, <2>1, <2>2 DEF Transfers
  <1>6. ASSUME NEW o \in Operation, TickSteps(o)
         PROVE  OnePurge'
    <2>1. CASE retryPreserve(o)
      BY <2>1 DEF retryPreserve, Up, Terminal, rowVars
    <2>2. CASE recoverRunning(o)
      BY <2>2 DEF recoverRunning, Up, Transfer, recoverPreserve, Ticking
    <2>3. CASE retryPurge(o)
      BY <2>3 DEF retryPurge, Up, Incomplete, Purges, rowVars
    <2> HIDE DEF OnePurge
    <2> QED BY <1>6, <2>1, <2>2, <2>3 DEF TickSteps
  <1>7. ASSUME NEW o \in Operation, reconcileTransferred(o)
         PROVE  OnePurge'
    BY <1>7 DEF reconcileTransferred, Visit, Transfer, recoverPreserve, Booting
  <1>8. ASSUME crash
         PROVE  OnePurge'
    BY <1>8 DEF crash, Up, Nothing, None, rowVars
  <1>9. ASSUME NEW o \in Operation, launch(o) \/ bootstrapFails(o) \/ becomesReady(o)
                                    \/ settleDownload(o) \/ reconcileRestore(o)
                                    \/ reconcileVerification(o) \/ reconcileDeletion(o)
                                    \/ reconcilePending(o) \/ reconcileSnapshot(o)
                                    \/ skipPurge(o)
         PROVE  OnePurge'
    BY <1>9
    DEF launch, Up, Transfer, updateWorkspaceStorage, Incomplete, Elsewhere, bootstrapFails,
        checkpointDownloadAuthority, becomesReady, MayMove, settleDownload, abortDownload,
        reconcileRestore, Visit, Terminal, Booting, reconcileVerification, reconcileDeletion,
        reconcilePending, reconcileSnapshot, Moved, skipPurge
  <1>10. ASSUME NEW w \in Workspace, sweepPreserving(w) \/ cutTransfers(w) \/ finalize(w)
                                     \/ beginTermination(w)
         PROVE  OnePurge'
    BY <1>10
    DEF sweepPreserving, Up, Incomplete, Elsewhere, cutTransfers, finalize, Transfer,
        updateWorkspaceStorage, beginTermination
  <1>11. ASSUME NEW c \in Checkpoint, removeInterrupted(c) \/ settleUpload(c)
                                      \/ verifyPublication(c)
         PROVE  OnePurge'
    BY <1>11 DEF removeInterrupted, settleUpload, abortUpload, verifyPublication, Booting
  <1>12. ASSUME rowsVisited \/ started \/ listRunning \/ listPending
         PROVE  OnePurge'
    BY <1>12
    DEF rowsVisited, Incomplete, Booting, started, listRunning, Listing, Up, None, rowVars,
        listPending
  <1> HIDE DEF OnePurge
  <1> QED BY <1>1, <1>2, <1>3, <1>4, <1>5, <1>6, <1>7, <1>8, <1>9, <1>10, <1>11, <1>12
    DEF Next, Scheduling, Recovery

\* No transfer of the workspace comes alive behind the purge.
LEMMA QuietedStep ==
    Functions /\ TypeOK /\ Kinds /\ FencedPurge /\ Uploads /\ Modes /\ Quieted /\ Next => Quieted'
  <1> SUFFICES ASSUME Functions, TypeOK, Kinds, FencedPurge, Uploads, Modes, Quieted, Next
               PROVE  Quieted'
    OBVIOUS
  <1> USE OperationAssumption DEF Quieted, At, Transfer, OfKind, TypeOK, Functions, Step, Stop,
          Quiet, NoFault, Fault, Forget, updateOperation, updateCheckpoint
  <1>1. ASSUME NEW o \in Operation, Request(o)
         PROVE  Quieted'
    <2>1. CASE preserve(o)
      BY <2>1 DEF preserve, Up, insertOperation, admitIntent
    <2>2. CASE restore(o)
      BY <2>2 DEF restore, Up
    <2>3. CASE verify(o)
      BY <2>3 DEF verify, Up
    <2>4. CASE delete(o)
      BY <2>4 DEF delete, Up, Incomplete
    <2>5. CASE purge(o)
      BY <2>5 DEF purge, Up, insertOperation, admitIntent
    <2> HIDE DEF Quieted
    <2> QED BY <1>1, <2>1, <2>2, <2>3, <2>4, <2>5 DEF Request
  <1>2. ASSUME NEW o \in Operation, PreserveTask(o)
         PROVE  Quieted'
    <2> o.kind = "preserve"
      BY <1>2, PreserveKind
    <2>1. CASE assertPreserveAdmission(o)
      BY <2>1 DEF assertPreserveAdmission
    <2>2. CASE linkCheckpoint(o)
      BY <2>2 DEF linkCheckpoint
    <2>3. CASE enterPreserving(o)
      BY <2>3 DEF enterPreserving, MayMove
    <2>4. CASE attempt(o)
      BY <2>4 DEF attempt
    <2>5. CASE revokeLeases(o)
      BY <2>5 DEF revokeLeases
    <2>6. CASE inspect(o)
      BY <2>6 DEF inspect
    <2>7. CASE runTransferPreserve(o)
      BY <2>7, SourceGoes DEF runTransferPreserve, updateWorkspaceStorage
    <2>8. CASE prepareArchive(o)
      BY <2>8 DEF prepareArchive, checkpointUploadAuthority, grantUpload, Incomplete, FencedPurge
    <2>9. CASE openGrant(o)
      BY <2>9 DEF openGrant, rowVars
    <2>10. CASE uploadSettled(o)
      BY <2>10 DEF uploadSettled, rowVars
    <2>11. CASE cleanupTransferSource(o)
      BY <2>11 DEF cleanupTransferSource
    <2>12. CASE sourceDeleted(o)
      BY <2>12 DEF sourceDeleted, updateWorkspaceStorage
    <2>13. CASE commitPreserved(o)
      BY <2>13 DEF commitPreserved, Moved, MayMove
    <2>14. CASE finishPreserve(o)
      BY <2>14 DEF finishPreserve
    <2>15. CASE stopForSnapshot(o)
      BY <2>15 DEF stopForSnapshot
    <2>16. CASE createSnapshot(o)
      BY <2>16 DEF createSnapshot, updateWorkspaceStorage
    <2>17. CASE completePreserve(o)
      BY <2>17 DEF completePreserve, updateWorkspaceStorage
    <2>18. CASE detachSource(o)
      BY <2>18 DEF detachSource
    <2>19. CASE handlePreserveFailure(o)
      BY <2>19 DEF handlePreserveFailure, updateWorkspaceStorage, Moved, MayMove
    <2>20. CASE retainUnpublishedSource(o)
      BY <2>20 DEF retainUnpublishedSource
    <2>21. CASE abandonSource(o)
      BY <2>21 DEF abandonSource, Moved, MayMove
    <2> HIDE DEF Quieted
    <2> QED BY <1>2, <2>1, <2>2, <2>3, <2>4, <2>5, <2>6, <2>7, <2>8, <2>9, <2>10, <2>11, <2>12,
         <2>13, <2>14, <2>15, <2>16, <2>17, <2>18, <2>19, <2>20, <2>21 DEF PreserveTask
  <1>3. ASSUME NEW o \in Operation, CheckpointTask(o)
         PROVE  Quieted'
    <2>1. CASE insertRestore(o)
      BY <2>1 DEF insertRestore, insertOperation, admitIntent
    <2>2. CASE insertTarget(o)
      BY <2>2, CheckpointKind DEF insertTarget
    <2>3. CASE linkTarget(o)
      BY <2>3, CheckpointKind DEF linkTarget
    <2>4. CASE insertVerify(o)
      BY <2>4 DEF insertVerify, insertOperation, admitIntent
    <2>5. CASE finishVerify(o)
      BY <2>5, CheckpointKind DEF finishVerify
    <2>6. CASE insertDelete(o)
      BY <2>6 DEF insertDelete, insertOperation, admitIntent
    <2>7. CASE acknowledgeDelete(o)
      BY <2>7, CheckpointKind DEF acknowledgeDelete
    <2>8. CASE deleteArchive(o)
      BY <2>8, CheckpointKind DEF deleteArchive, removeArchive
    <2>9. CASE commitRemoval(o)
      BY <2>9 DEF commitRemoval, removePublication
    <2>10. CASE finishDelete(o)
      BY <2>10, CheckpointKind DEF finishDelete
    <2>11. CASE cleanupPreservedStorage(o)
      BY <2>11, CheckpointKind DEF cleanupPreservedStorage, Incomplete, updateWorkspaceStorage
    <2> HIDE DEF Quieted
    <2> QED BY <1>3, <2>1, <2>2, <2>3, <2>4, <2>5, <2>6, <2>7, <2>8, <2>9, <2>10, <2>11
    DEF CheckpointTask
  <1>4. ASSUME NEW o \in Operation, PurgeTask(o)
         PROVE  Quieted'
    <2> o.kind = "purge"
      BY <1>4, PurgeKind
    <2>1. CASE acknowledgePurge(o)
      BY <2>1 DEF acknowledgePurge, PurgeFails
    <2>2. CASE cancelCopies(o)
      BY <2>2 DEF cancelCopies, rowVars
    <2>3. CASE copiesSettled(o)
      <3>1. UNCHANGED <<live, op>> /\ pc' = [pc EXCEPT ![o] = "copies"]
        BY <2>3 DEF copiesSettled
      <3>2. \A p \in OfKind("preserve") :
              p.workspace = o.workspace => pc[p] \notin {"granted", "upload"}
        BY <2>3 DEF copiesSettled, owns, Runner, Modes
      <3>3. \A r \in OfKind("restore") :
              live[r] # "no" => r.workspace # o.workspace /\ r.target # o.workspace
        <4> SUFFICES ASSUME NEW r \in OfKind("restore"), live[r] # "no"
                     PROVE  r.workspace # o.workspace /\ r.target # o.workspace
          OBVIOUS
        <4>1. Transfer /\ r \in Operation /\ r.kind = "restore" /\ r.checkpoint \in Checkpoint
          BY DEF Uploads
        <4>2. r \notin CopiesOf(o.workspace)
          BY <2>3, <4>1 DEF copiesSettled
        <4>3. r.checkpoint \notin CheckpointsOf(o.workspace) /\ r.target # o.workspace
          BY <4>1, <4>2 DEF CopiesOf, ContextWorkspace
        <4>4. OwnerOf(r.checkpoint) = r.workspace
          BY <4>1, MakerOf, RequestAssumption DEF OwnerOf
        <4>5. ck[r.checkpoint] # "none"
          BY <4>1 DEF Uploads
        <4> QED BY <4>1, <4>3, <4>4, <4>5 DEF CheckpointsOf
      <3> QED BY <3>1, <3>2, <3>3
    <2>4. ASSUME NEW r \in Operation, settleRestore(o, r)
           PROVE  Quieted'
      BY <2>4 DEF settleRestore, Incomplete
    <2>5. CASE hasActiveCopies(o)
      BY <2>5 DEF hasActiveCopies, Incomplete, PurgeFails
    <2>6. CASE endWorkspace(o)
      BY <2>6 DEF endWorkspace, Terminal, Nonterminal, PurgeFails
    <2>7. CASE removeProvider(o)
      BY <2>7 DEF removeProvider, PurgeFails
    <2>8. ASSUME NEW c \in Checkpoint, purgeCheckpoint(o, c)
           PROVE  Quieted'
      BY <2>8 DEF purgeCheckpoint, removeArchive
    <2>9. CASE forgetCheckpoint(o)
      BY <2>9 DEF forgetCheckpoint, removePublication, PurgeFails
    <2>10. CASE purgeStorage(o)
      BY <2>10 DEF purgeStorage, PurgeFails
    <2>11. CASE purgeWorkspaceContent(o)
      BY <2>11 DEF purgeWorkspaceContent
    <2>12. ASSUME NEW r \in Operation, endRestore(o, r)
           PROVE  Quieted'
      BY <2>12 DEF endRestore, Incomplete
    <2> HIDE DEF Quieted
    <2> QED BY <1>4, <2>1, <2>2, <2>3, <2>4, <2>5, <2>6, <2>7, <2>8, <2>9, <2>10, <2>11, <2>12
    DEF PurgeTask
  <1>5. ASSUME NEW o \in Operation, Transfers(o)
         PROVE  Quieted'
    <2>1. CASE claim(o)
      BY <2>1
      DEF claim, claimUpload, claimDownload, Context, checkpointUploadAuthority,
          checkpointDownloadAuthority, Incomplete
    <2>2. CASE publishArchive(o)
      BY <2>2 DEF publishArchive, publish, Context, checkpointUploadAuthority, Incomplete
    <2>3. CASE closeUploadOwners(o)
      BY <2>3 DEF closeUploadOwners, Context
    <2>4. CASE cleanup(o)
      BY <2>4 DEF cleanup, abortUpload, abortDownload, Context
    <2>5. CASE restoreGrant(o)
      BY <2>5
      DEF restoreGrant, Up, grantDownload, Context, checkpointDownloadAuthority, Incomplete,
          FencedPurge
    <2>6. CASE checkpointInstalled(o)
      BY <2>6
      DEF checkpointInstalled, installed, Context, checkpointDownloadAuthority,
          completeCheckpointStorage, Incomplete, updateWorkspaceStorage
    <2>7. CASE restoreReady(o)
      BY <2>7
      DEF restoreReady, Up, completeRestore, Context, checkpointDownloadAuthority, MayMove,
          Incomplete
    <2>8. CASE createArchive(o) \/ stageArchive(o) \/ sealArchive(o) \/ downloadArchive(o)
      BY <2>8
      DEF createArchive, checkpointUploadAuthority, Context, Incomplete, stageArchive, stage,
          sealArchive, downloadArchive, downloaded, checkpointDownloadAuthority
    <2> HIDE DEF Quieted
    <2> QED BY <1>5, <2>1, <2>2, <2>3, <2>4, <2>5, <2>6, <2>7, <2>8 DEF Transfers
  <1>6. ASSUME NEW o \in Operation, TickSteps(o)
         PROVE  Quieted'
    <2>1. CASE retryPreserve(o)
      BY <2>1 DEF retryPreserve, Up, Terminal, rowVars
    <2>2. CASE recoverRunning(o)
      BY <2>2 DEF recoverRunning, Up, recoverPreserve, Ticking
    <2>3. CASE retryPurge(o)
      BY <2>3 DEF retryPurge, Up, Incomplete, rowVars
    <2> HIDE DEF Quieted
    <2> QED BY <1>6, <2>1, <2>2, <2>3 DEF TickSteps
  <1>7. ASSUME NEW o \in Operation, launch(o)
         PROVE  Quieted'
    BY <1>7 DEF launch, Up, updateWorkspaceStorage, Incomplete, Elsewhere
  <1>8. ASSUME NEW w \in Workspace, finalize(w)
         PROVE  Quieted'
    BY <1>8 DEF finalize, Up, updateWorkspaceStorage, Incomplete, Elsewhere
  <1>9. ASSUME NEW c \in Checkpoint, verifyPublication(c)
         PROVE  Quieted'
    BY <1>9 DEF verifyPublication, Booting
  <1>10. ASSUME NEW o \in Operation, reconcileRestore(o)
         PROVE  Quieted'
    BY <1>10 DEF reconcileRestore, Visit, Terminal, Booting
  <1>11. ASSUME NEW o \in Operation, reconcileVerification(o)
         PROVE  Quieted'
    BY <1>11 DEF reconcileVerification, Visit, Booting
  <1>12. ASSUME NEW o \in Operation, reconcileDeletion(o)
         PROVE  Quieted'
    BY <1>12 DEF reconcileDeletion, Booting
  <1>13. ASSUME NEW o \in Operation, reconcilePending(o)
         PROVE  Quieted'
    BY <1>13 DEF reconcilePending, Visit, Terminal, Booting
  <1>14. ASSUME NEW o \in Operation, reconcileTransferred(o)
         PROVE  Quieted'
    BY <1>14 DEF reconcileTransferred, Visit, recoverPreserve, Booting
  <1>15. ASSUME NEW o \in Operation, reconcileSnapshot(o)
         PROVE  Quieted'
    BY <1>15 DEF reconcileSnapshot, Visit, updateWorkspaceStorage, Moved, Booting, MayMove
  <1>16. ASSUME crash
         PROVE  Quieted'
    BY <1>16 DEF crash, Up, Nothing, None, rowVars
  <1>17. ASSUME NEW o \in Operation, bootstrapFails(o) \/ becomesReady(o) \/ settleDownload(o)
                                     \/ skipPurge(o)
         PROVE  Quieted'
    BY <1>17
    DEF bootstrapFails, Up, checkpointDownloadAuthority, Elsewhere, Incomplete, becomesReady,
        MayMove, settleDownload, abortDownload, skipPurge, Visit, Booting
  <1>18. ASSUME NEW w \in Workspace, sweepPreserving(w) \/ cutTransfers(w)
                                     \/ beginTermination(w)
         PROVE  Quieted'
    BY <1>18 DEF sweepPreserving, Up, Incomplete, Elsewhere, cutTransfers, beginTermination
  <1>19. ASSUME NEW c \in Checkpoint, removeInterrupted(c) \/ settleUpload(c)
         PROVE  Quieted'
    BY <1>19 DEF removeInterrupted, settleUpload, abortUpload
  <1>20. ASSUME rowsVisited \/ started \/ listRunning \/ listPending
         PROVE  Quieted'
    BY <1>20
    DEF rowsVisited, Incomplete, Booting, started, listRunning, Listing, Up, None, rowVars,
        listPending
  <1> HIDE DEF Quieted
  <1> QED BY <1>1, <1>2, <1>3, <1>4, <1>5, <1>6, <1>7, <1>8, <1>9, <1>10, <1>11, <1>12, <1>13,
         <1>14, <1>15, <1>16, <1>17, <1>18, <1>19, <1>20
    DEF Next, Scheduling, Recovery

\* No operation of the workspace starts behind the purge.
LEMMA SettledStep ==
    /\ Functions /\ TypeOK /\ Kinds /\ Claimed /\ FencedPurge /\ Uploads
    /\ Modes /\ Tasks /\ Unsettled /\ Attended /\ Settled
    /\ Next
    => Settled'
  <1> SUFFICES ASSUME Functions, TypeOK, Kinds, Claimed, FencedPurge, Uploads, Modes, Tasks,
      Unsettled, Attended, Settled, Next
               PROVE  Settled'
    OBVIOUS
  <1> USE OperationAssumption DEF Settled, At, Active, Incomplete, Transfer, OfKind, TypeOK,
          Functions, Step, Stop, Quiet, NoFault, Fault, Forget, updateOperation,
          updateCheckpoint
  <1>1. ASSUME NEW o \in Operation, Request(o)
         PROVE  Settled'
    <2>1. CASE preserve(o)
      BY <2>1 DEF preserve, Up, insertOperation, admitIntent, FencedPurge
    <2>2. CASE restore(o)
      BY <2>2 DEF restore, Up
    <2>3. CASE verify(o)
      BY <2>3 DEF verify, Up
    <2>4. CASE delete(o)
      BY <2>4 DEF delete, Up
    <2>5. CASE purge(o)
      BY <2>5 DEF purge, Up, insertOperation, admitIntent
    <2> HIDE DEF Settled
    <2> QED BY <1>1, <2>1, <2>2, <2>3, <2>4, <2>5 DEF Request
  <1>2. ASSUME NEW o \in Operation, PreserveTask(o)
         PROVE  Settled'
    <2> o.kind = "preserve"
      BY <1>2, PreserveKind
    <2>1. CASE assertPreserveAdmission(o)
      BY <2>1 DEF assertPreserveAdmission
    <2>2. CASE linkCheckpoint(o)
      BY <2>2 DEF linkCheckpoint
    <2>3. CASE enterPreserving(o)
      BY <2>3 DEF enterPreserving, MayMove
    <2>4. CASE attempt(o)
      BY <2>4 DEF attempt
    <2>5. CASE revokeLeases(o)
      BY <2>5 DEF revokeLeases
    <2>6. CASE inspect(o)
      BY <2>6 DEF inspect
    <2>7. CASE runTransferPreserve(o)
      <3>1. pc[o] = "source" /\ Transfer /\ pc' = [pc EXCEPT ![o] = FromSource(o)]
            /\ UNCHANGED <<mode, ws, op, upload>>
        BY <2>7 DEF runTransferPreserve
      <3> QED BY <3>1, FromSourceIs
    <2>8. CASE prepareArchive(o)
      BY <2>8 DEF prepareArchive, checkpointUploadAuthority, grantUpload, FencedPurge
    <2>9. CASE openGrant(o)
      BY <2>9 DEF openGrant, rowVars
    <2>10. CASE uploadSettled(o)
      BY <2>10 DEF uploadSettled, rowVars
    <2>11. CASE cleanupTransferSource(o)
      BY <2>11 DEF cleanupTransferSource
    <2>12. CASE sourceDeleted(o)
      BY <2>12 DEF sourceDeleted, updateWorkspaceStorage
    <2>13. CASE commitPreserved(o)
      BY <2>13 DEF commitPreserved, Moved, MayMove
    <2>14. CASE finishPreserve(o)
      BY <2>14 DEF finishPreserve
    <2>15. CASE stopForSnapshot(o)
      BY <2>15 DEF stopForSnapshot
    <2>16. CASE createSnapshot(o)
      BY <2>16 DEF createSnapshot, updateWorkspaceStorage
    <2>17. CASE completePreserve(o)
      BY <2>17 DEF completePreserve, updateWorkspaceStorage
    <2>18. CASE detachSource(o)
      BY <2>18 DEF detachSource
    <2>19. CASE handlePreserveFailure(o)
      BY <2>19 DEF handlePreserveFailure, updateWorkspaceStorage, Moved, MayMove
    <2>20. CASE retainUnpublishedSource(o)
      BY <2>20 DEF retainUnpublishedSource
    <2>21. CASE abandonSource(o)
      BY <2>21 DEF abandonSource, Moved, MayMove
    <2> HIDE DEF Settled
    <2> QED BY <1>2, <2>1, <2>2, <2>3, <2>4, <2>5, <2>6, <2>7, <2>8, <2>9, <2>10, <2>11, <2>12,
         <2>13, <2>14, <2>15, <2>16, <2>17, <2>18, <2>19, <2>20, <2>21 DEF PreserveTask
  <1>3. ASSUME NEW o \in Operation, CheckpointTask(o)
         PROVE  Settled'
    <2>1. CASE insertRestore(o)
      BY <2>1 DEF insertRestore, insertOperation, admitIntent
    <2>2. CASE insertTarget(o)
      BY <2>2, CheckpointKind DEF insertTarget
    <2>3. CASE linkTarget(o)
      BY <2>3, CheckpointKind DEF linkTarget
    <2>4. CASE insertVerify(o)
      BY <2>4 DEF insertVerify, insertOperation, admitIntent
    <2>5. CASE finishVerify(o)
      <3>1. /\ o.kind = "verify" /\ pc' = [pc EXCEPT ![o] = "idle"]
            /\ op' = [op EXCEPT ![o] = op'[o]]
            /\ UNCHANGED <<mode, ws, upload>>
        BY <2>5, CheckpointKind DEF finishVerify
      <3> QED BY <3>1
    <2>6. CASE insertDelete(o)
      BY <2>6 DEF insertDelete, insertOperation, admitIntent, FencedPurge
    <2>7. CASE acknowledgeDelete(o)
      <3>1. /\ o.kind = "delete" /\ pc[o] = "acknowledge"
            /\ \/ /\ op' = [op EXCEPT ![o] = "running"]
                  /\ ck' = [ck EXCEPT ![o.checkpoint] = "deleting"]
                  /\ pc' \in {[pc EXCEPT ![o] = "remove"], [pc EXCEPT ![o] = "removed"]}
               \/ pc' = [pc EXCEPT ![o] = "idle"] /\ UNCHANGED <<op, ck>>
            /\ UNCHANGED <<ws, fence, published, linked, upload, mode>>
        BY <2>7, CheckpointKind DEF acknowledgeDelete
      <3> QED BY <3>1 DEF Claimed
    <2>8. CASE deleteArchive(o)
      BY <2>8, CheckpointKind DEF deleteArchive, removeArchive
    <2>9. CASE commitRemoval(o)
      BY <2>9 DEF commitRemoval, removePublication
    <2>10. CASE finishDelete(o)
      <3>1. o.kind = "delete" /\ pc[o] = "removed" /\ pc' = [pc EXCEPT ![o] = "sweep"]
            /\ op' = [op EXCEPT ![o] = "succeeded"] /\ UNCHANGED <<mode, ws, upload>>
        BY <2>10, CheckpointKind DEF finishDelete
      <3> QED BY <3>1
    <2>11. CASE cleanupPreservedStorage(o)
      BY <2>11, CheckpointKind DEF cleanupPreservedStorage, updateWorkspaceStorage
    <2> HIDE DEF Settled
    <2> QED BY <1>3, <2>1, <2>2, <2>3, <2>4, <2>5, <2>6, <2>7, <2>8, <2>9, <2>10, <2>11
    DEF CheckpointTask
  <1>4. ASSUME NEW o \in Operation, PurgeTask(o)
         PROVE  Settled'
    <2> o.kind = "purge"
      BY <1>4, PurgeKind
    <2>1. CASE acknowledgePurge(o)
      BY <2>1 DEF acknowledgePurge, PurgeFails
    <2>2. CASE cancelCopies(o)
      BY <2>2 DEF cancelCopies, rowVars
    <2>3. CASE copiesSettled(o)
      BY <2>3 DEF copiesSettled
    <2>4. ASSUME NEW r \in Operation, settleRestore(o, r)
           PROVE  Settled'
      BY <2>4 DEF settleRestore
    <2>5. ASSUME NEW r \in Operation, endRestore(o, r)
           PROVE  Settled'
      BY <2>5 DEF endRestore
    <2>6. CASE hasActiveCopies(o)
      <3>1. CASE pc' = [pc EXCEPT ![o] = "idle"] /\ op' = [op EXCEPT ![o] = "pending"]
        BY <2>6, <3>1 DEF hasActiveCopies
      <3>2. CASE pc' = [pc EXCEPT ![o] = "end"] /\ UNCHANGED op
                 /\ \A x \in Incomplete : x.kind \in {"preserve", "delete"} => x.workspace # o.workspace
        <4>1. UNCHANGED <<mode, ws, upload>>
          BY <2>6 DEF hasActiveCopies
        <4>2. \A p \in OfKind("preserve") : p.workspace = o.workspace =>
                /\ ~Active(p.checkpoint) /\ pc[p] \notin {"admit", "link", "enter"}
                /\ pc[p] \notin {"source", "snapshot", "saved"}
          BY <3>2 DEF Unsettled, Tasks, Runner
        <4>3. \A d \in OfKind("delete") : d.workspace = o.workspace => d \notin Incomplete
          BY <3>2
        <4>4. ~Transfer => ws[o.workspace] # "preserving"
          BY <3>2 DEF Attended, Attendants
        <4> QED BY <3>2, <4>1, <4>2, <4>3, <4>4
      <3> QED BY <2>6, <3>1, <3>2 DEF hasActiveCopies, PurgeFails, Ends
    <2>7. CASE endWorkspace(o)
      BY <2>7 DEF endWorkspace, Terminal, Nonterminal, PurgeFails
    <2>8. CASE removeProvider(o)
      BY <2>8 DEF removeProvider, PurgeFails
    <2>9. ASSUME NEW c \in Checkpoint, purgeCheckpoint(o, c)
           PROVE  Settled'
      BY <2>9 DEF purgeCheckpoint, removeArchive
    <2>10. CASE forgetCheckpoint(o)
      BY <2>10 DEF forgetCheckpoint, removePublication, PurgeFails
    <2>11. CASE purgeStorage(o)
      BY <2>11 DEF purgeStorage, PurgeFails
    <2>12. CASE purgeWorkspaceContent(o)
      BY <2>12 DEF purgeWorkspaceContent
    <2> HIDE DEF Settled
    <2> QED BY <1>4, <2>1, <2>2, <2>3, <2>4, <2>5, <2>6, <2>7, <2>8, <2>9, <2>10, <2>11, <2>12
    DEF PurgeTask
  <1>5. ASSUME NEW o \in Operation, Transfers(o)
         PROVE  Settled'
    <2>1. CASE claim(o)
      BY <2>1
      DEF claim, claimUpload, claimDownload, Context, checkpointUploadAuthority,
          checkpointDownloadAuthority
    <2>2. CASE stageArchive(o)
      BY <2>2 DEF stageArchive, stage, Context, checkpointUploadAuthority
    <2>3. CASE publishArchive(o)
      BY <2>3 DEF publishArchive, publish, Context, checkpointUploadAuthority
    <2>4. CASE cleanup(o)
      BY <2>4 DEF cleanup, abortUpload, abortDownload, Context
    <2>5. CASE restoreReady(o)
      BY <2>5 DEF restoreReady, Up, completeRestore, Context, checkpointDownloadAuthority, MayMove
    <2>6. CASE createArchive(o) \/ sealArchive(o) \/ closeUploadOwners(o) \/ restoreGrant(o)
               \/ downloadArchive(o) \/ checkpointInstalled(o)
      BY <2>6
      DEF createArchive, checkpointUploadAuthority, Context, sealArchive, closeUploadOwners,
          restoreGrant, Up, grantDownload, checkpointDownloadAuthority, downloadArchive,
          downloaded, checkpointInstalled, installed, completeCheckpointStorage,
          updateWorkspaceStorage
    <2> HIDE DEF Settled
    <2> QED BY <1>5, <2>1, <2>2, <2>3, <2>4, <2>5, <2>6 DEF Transfers
  <1>6. ASSUME NEW o \in Operation, TickSteps(o)
         PROVE  Settled'
    <2>1. CASE retryPreserve(o)
      BY <2>1 DEF retryPreserve, Up, Terminal, rowVars
    <2>2. CASE recoverRunning(o)
      BY <2>2 DEF recoverRunning, Up, recoverPreserve, Ticking
    <2>3. CASE retryPurge(o)
      BY <2>3 DEF retryPurge, Up, rowVars
    <2> HIDE DEF Settled
    <2> QED BY <1>6, <2>1, <2>2, <2>3 DEF TickSteps
  <1>7. ASSUME NEW o \in Operation, launch(o)
         PROVE  Settled'
    BY <1>7 DEF launch, Up, updateWorkspaceStorage, Elsewhere
  <1>8. ASSUME NEW o \in Operation, bootstrapFails(o)
         PROVE  Settled'
    BY <1>8 DEF bootstrapFails, Up, checkpointDownloadAuthority, Elsewhere
  <1>9. ASSUME NEW o \in Operation, becomesReady(o)
         PROVE  Settled'
    BY <1>9 DEF becomesReady, Up, MayMove, Elsewhere
  <1>10. ASSUME NEW w \in Workspace, sweepPreserving(w)
         PROVE  Settled'
    BY <1>10 DEF sweepPreserving, Up, Elsewhere
  <1>11. ASSUME NEW w \in Workspace, finalize(w)
         PROVE  Settled'
    BY <1>11 DEF finalize, Up, updateWorkspaceStorage, Elsewhere
  <1>12. ASSUME NEW c \in Checkpoint, settleUpload(c)
         PROVE  Settled'
    BY <1>12 DEF settleUpload, abortUpload
  <1>13. ASSUME NEW o \in Operation, reconcileRestore(o)
         PROVE  Settled'
    BY <1>13 DEF reconcileRestore, Visit, Terminal, Booting
  <1>14. ASSUME NEW o \in Operation, reconcileVerification(o)
         PROVE  Settled'
    BY <1>14 DEF reconcileVerification, Visit, Booting
  <1>15. ASSUME NEW o \in Operation, reconcileDeletion(o)
         PROVE  Settled'
    BY <1>15 DEF reconcileDeletion, Booting
  <1>16. ASSUME NEW o \in Operation, reconcilePending(o)
         PROVE  Settled'
    BY <1>16 DEF reconcilePending, Visit, Terminal, Booting
  <1>17. ASSUME NEW o \in Operation, reconcileTransferred(o)
         PROVE  Settled'
    BY <1>17 DEF reconcileTransferred, Visit, recoverPreserve, Booting
  <1>18. ASSUME NEW o \in Operation, reconcileSnapshot(o)
         PROVE  Settled'
    BY <1>18 DEF reconcileSnapshot, Visit, updateWorkspaceStorage, Moved, Booting, MayMove
  <1>19. ASSUME crash
         PROVE  Settled'
    BY <1>19 DEF crash, Up, Nothing, None, rowVars
  <1>20. ASSUME NEW w \in Workspace, beginTermination(w)
         PROVE  Settled'
    BY <1>20 DEF beginTermination, Up, Elsewhere
  <1>21. ASSUME NEW w \in Workspace, cutTransfers(w)
         PROVE  Settled'
    BY <1>21 DEF cutTransfers, Elsewhere
  <1>22. ASSUME NEW c \in Checkpoint, removeInterrupted(c) \/ verifyPublication(c)
         PROVE  Settled'
    BY <1>22 DEF removeInterrupted, verifyPublication, Booting
  <1>23. ASSUME NEW o \in Operation, settleDownload(o) \/ skipPurge(o)
         PROVE  Settled'
    BY <1>23 DEF settleDownload, Up, abortDownload, skipPurge, Visit, Booting
  <1>24. ASSUME rowsVisited \/ started \/ listRunning \/ listPending
         PROVE  Settled'
    BY <1>24
    DEF rowsVisited, Booting, started, listRunning, Listing, Up, None, rowVars, listPending
  <1> HIDE DEF Settled
  <1> QED BY <1>1, <1>2, <1>3, <1>4, <1>5, <1>6, <1>7, <1>8, <1>9, <1>10, <1>11, <1>12, <1>13,
         <1>14, <1>15, <1>16, <1>17, <1>18, <1>19, <1>20, <1>21, <1>22, <1>23, <1>24
    DEF Next, Scheduling, Recovery

\* No workspace and no compute comes back behind the purge.
LEMMA FinishedStep ==
    Functions /\ TypeOK /\ Kinds /\ Born /\ Entered /\ FencedPurge /\ Finished /\ Next => Finished'
  <1> SUFFICES ASSUME Functions, TypeOK, Kinds, Born, Entered, FencedPurge, Finished, Next
               PROVE  Finished'
    OBVIOUS
  <1> USE OperationAssumption DEF Finished, At, Terminal, TerminalState, OfKind, TypeOK,
          Functions, Step, Stop, Quiet, NoFault, Fault, Forget, updateOperation,
          updateCheckpoint
  <1>1. ASSUME NEW o \in Operation, Request(o)
         PROVE  Finished'
    <2>1. CASE preserve(o)
      BY <2>1 DEF preserve, Up, insertOperation, admitIntent
    <2>2. CASE restore(o)
      BY <2>2 DEF restore, Up
    <2>3. CASE verify(o)
      BY <2>3 DEF verify, Up
    <2>4. CASE delete(o)
      BY <2>4 DEF delete, Up, Incomplete
    <2>5. CASE purge(o)
      BY <2>5 DEF purge, Up, insertOperation, admitIntent
    <2> HIDE DEF Finished
    <2> QED BY <1>1, <2>1, <2>2, <2>3, <2>4, <2>5 DEF Request
  <1>2. ASSUME NEW o \in Operation, PreserveTask(o)
         PROVE  Finished'
    <2> o.kind = "preserve"
      BY <1>2, PreserveKind
    <2>1. CASE assertPreserveAdmission(o)
      BY <2>1 DEF assertPreserveAdmission
    <2>2. CASE linkCheckpoint(o)
      BY <2>2 DEF linkCheckpoint
    <2>3. CASE enterPreserving(o)
      BY <2>3 DEF enterPreserving, MayMove
    <2>4. CASE attempt(o)
      BY <2>4 DEF attempt
    <2>5. CASE revokeLeases(o)
      BY <2>5 DEF revokeLeases
    <2>6. CASE inspect(o)
      BY <2>6 DEF inspect
    <2>7. CASE runTransferPreserve(o)
      BY <2>7, SourceGoes DEF runTransferPreserve, Transfer, updateWorkspaceStorage
    <2>8. CASE prepareArchive(o)
      BY <2>8 DEF prepareArchive, checkpointUploadAuthority, grantUpload, Incomplete
    <2>9. CASE openGrant(o)
      BY <2>9 DEF openGrant, rowVars
    <2>10. CASE uploadSettled(o)
      BY <2>10 DEF uploadSettled, rowVars
    <2>11. CASE cleanupTransferSource(o)
      BY <2>11 DEF cleanupTransferSource
    <2>12. CASE sourceDeleted(o)
      BY <2>12 DEF sourceDeleted, updateWorkspaceStorage
    <2>13. CASE commitPreserved(o)
      BY <2>13 DEF commitPreserved, Moved, MayMove
    <2>14. CASE finishPreserve(o)
      BY <2>14 DEF finishPreserve
    <2>15. CASE stopForSnapshot(o)
      BY <2>15 DEF stopForSnapshot, Transfer
    <2>16. CASE createSnapshot(o)
      BY <2>16 DEF createSnapshot, updateWorkspaceStorage
    <2>17. CASE completePreserve(o)
      BY <2>17 DEF completePreserve, updateWorkspaceStorage
    <2>18. CASE detachSource(o)
      BY <2>18 DEF detachSource
    <2>19. CASE handlePreserveFailure(o)
      BY <2>19 DEF handlePreserveFailure, Transfer, updateWorkspaceStorage, Moved, MayMove
    <2>20. CASE retainUnpublishedSource(o)
      BY <2>20 DEF retainUnpublishedSource
    <2>21. CASE abandonSource(o)
      BY <2>21 DEF abandonSource, Moved, MayMove
    <2> HIDE DEF Finished
    <2> QED BY <1>2, <2>1, <2>2, <2>3, <2>4, <2>5, <2>6, <2>7, <2>8, <2>9, <2>10, <2>11, <2>12,
         <2>13, <2>14, <2>15, <2>16, <2>17, <2>18, <2>19, <2>20, <2>21 DEF PreserveTask
  <1>3. ASSUME NEW o \in Operation, CheckpointTask(o)
         PROVE  Finished'
    <2>1. CASE insertRestore(o)
      BY <2>1 DEF insertRestore, insertOperation, admitIntent
    <2>2. CASE insertTarget(o)
      BY <2>2, CheckpointKind DEF insertTarget, Born
    <2>3. CASE linkTarget(o)
      BY <2>3, CheckpointKind DEF linkTarget
    <2>4. CASE insertVerify(o)
      BY <2>4 DEF insertVerify, insertOperation, admitIntent
    <2>5. CASE finishVerify(o)
      BY <2>5, CheckpointKind DEF finishVerify
    <2>6. CASE insertDelete(o)
      BY <2>6 DEF insertDelete, insertOperation, admitIntent
    <2>7. CASE acknowledgeDelete(o)
      BY <2>7, CheckpointKind DEF acknowledgeDelete
    <2>8. CASE deleteArchive(o)
      BY <2>8, CheckpointKind DEF deleteArchive, removeArchive, Transfer
    <2>9. CASE commitRemoval(o)
      BY <2>9 DEF commitRemoval, Transfer, removePublication
    <2>10. CASE finishDelete(o)
      BY <2>10, CheckpointKind DEF finishDelete
    <2>11. CASE cleanupPreservedStorage(o)
      BY <2>11, CheckpointKind
      DEF cleanupPreservedStorage, Transfer, Incomplete, updateWorkspaceStorage
    <2> HIDE DEF Finished
    <2> QED BY <1>3, <2>1, <2>2, <2>3, <2>4, <2>5, <2>6, <2>7, <2>8, <2>9, <2>10, <2>11
    DEF CheckpointTask
  <1>4. ASSUME NEW o \in Operation, PurgeTask(o)
         PROVE  Finished'
    <2> o.kind = "purge"
      BY <1>4, PurgeKind
    <2>1. CASE acknowledgePurge(o)
      BY <2>1 DEF acknowledgePurge, PurgeFails
    <2>2. CASE cancelCopies(o)
      BY <2>2 DEF cancelCopies, Transfer, rowVars
    <2>3. CASE copiesSettled(o)
      BY <2>3 DEF copiesSettled, Transfer
    <2>4. ASSUME NEW r \in Operation, settleRestore(o, r)
           PROVE  Finished'
      BY <2>4 DEF settleRestore, Incomplete
    <2>5. ASSUME NEW r \in Operation, endRestore(o, r)
           PROVE  Finished'
      BY <2>5 DEF endRestore, Incomplete, Endable, Transfer, MayMove
    <2>6. CASE hasActiveCopies(o)
      BY <2>6 DEF hasActiveCopies, Incomplete, PurgeFails
    <2>7. CASE endWorkspace(o)
      BY <2>7 DEF endWorkspace, Nonterminal, PurgeFails
    <2>8. CASE removeProvider(o)
      BY <2>8 DEF removeProvider, PurgeFails
    <2>9. ASSUME NEW c \in Checkpoint, purgeCheckpoint(o, c)
           PROVE  Finished'
      BY <2>9 DEF purgeCheckpoint, Transfer, removeArchive
    <2>10. CASE forgetCheckpoint(o)
      BY <2>10 DEF forgetCheckpoint, Transfer, removePublication, PurgeFails
    <2>11. CASE purgeStorage(o)
      BY <2>11 DEF purgeStorage, Transfer, PurgeFails
    <2>12. CASE purgeWorkspaceContent(o)
      BY <2>12 DEF purgeWorkspaceContent
    <2> HIDE DEF Finished
    <2> QED BY <1>4, <2>1, <2>2, <2>3, <2>4, <2>5, <2>6, <2>7, <2>8, <2>9, <2>10, <2>11, <2>12
    DEF PurgeTask
  <1>5. ASSUME NEW o \in Operation, Transfers(o)
         PROVE  Finished'
    <2>1. CASE restoreReady(o)
      BY <2>1
      DEF restoreReady, Up, completeRestore, Context, checkpointDownloadAuthority, MayMove,
          Incomplete
    <2>2. CASE claim(o) \/ createArchive(o) \/ stageArchive(o) \/ sealArchive(o)
               \/ publishArchive(o) \/ closeUploadOwners(o) \/ cleanup(o) \/ restoreGrant(o)
               \/ downloadArchive(o) \/ checkpointInstalled(o)
      BY <2>2
      DEF claim, claimUpload, claimDownload, Context, checkpointUploadAuthority,
          checkpointDownloadAuthority, Incomplete, createArchive, stageArchive, stage,
          sealArchive, publishArchive, publish, closeUploadOwners, cleanup, abortUpload,
          abortDownload, restoreGrant, Up, Transfer, grantDownload, downloadArchive, downloaded,
          checkpointInstalled, installed, completeCheckpointStorage, updateWorkspaceStorage
    <2> HIDE DEF Finished
    <2> QED BY <1>5, <2>1, <2>2 DEF Transfers
  <1>6. ASSUME NEW o \in Operation, TickSteps(o)
         PROVE  Finished'
    <2>1. CASE retryPreserve(o)
      BY <2>1 DEF retryPreserve, Up, rowVars
    <2>2. CASE recoverRunning(o)
      BY <2>2 DEF recoverRunning, Up, Transfer, recoverPreserve, Ticking
    <2>3. CASE retryPurge(o)
      BY <2>3 DEF retryPurge, Up, Incomplete, rowVars
    <2> HIDE DEF Finished
    <2> QED BY <1>6, <2>1, <2>2, <2>3 DEF TickSteps
  <1>7. ASSUME NEW o \in Operation, launch(o)
         PROVE  Finished'
    BY <1>7 DEF launch, Up, Transfer, updateWorkspaceStorage, Incomplete, Elsewhere
  <1>8. ASSUME NEW o \in Operation, bootstrapFails(o)
         PROVE  Finished'
    BY <1>8 DEF bootstrapFails, Up, Transfer, checkpointDownloadAuthority, Elsewhere, Incomplete
  <1>9. ASSUME NEW o \in Operation, becomesReady(o)
         PROVE  Finished'
    BY <1>9 DEF becomesReady, Up, Transfer, MayMove, Elsewhere
  <1>10. ASSUME NEW w \in Workspace, sweepPreserving(w)
         PROVE  Finished'
    BY <1>10 DEF sweepPreserving, Up, Incomplete, Elsewhere
  <1>11. ASSUME NEW w \in Workspace, finalize(w)
         PROVE  Finished'
    BY <1>11 DEF finalize, Up, Transfer, updateWorkspaceStorage, Incomplete, Elsewhere
  <1>12. ASSUME NEW o \in Operation, reconcileRestore(o)
         PROVE  Finished'
    BY <1>12 DEF reconcileRestore, Visit, Booting
  <1>13. ASSUME NEW o \in Operation, reconcileVerification(o)
         PROVE  Finished'
    BY <1>13 DEF reconcileVerification, Visit, Transfer, Booting
  <1>14. ASSUME NEW o \in Operation, reconcileDeletion(o)
         PROVE  Finished'
    BY <1>14 DEF reconcileDeletion, Transfer, Booting
  <1>15. ASSUME NEW o \in Operation, reconcilePending(o)
         PROVE  Finished'
    BY <1>15 DEF reconcilePending, Visit, Transfer, Booting
  <1>16. ASSUME NEW o \in Operation, reconcileTransferred(o)
         PROVE  Finished'
    BY <1>16 DEF reconcileTransferred, Visit, Transfer, recoverPreserve, Booting
  <1>17. ASSUME NEW o \in Operation, reconcileSnapshot(o)
         PROVE  Finished'
    BY <1>17
    DEF reconcileSnapshot, Visit, Transfer, updateWorkspaceStorage, Moved, Booting, MayMove
  <1>18. ASSUME crash
         PROVE  Finished'
    BY <1>18 DEF crash, Up, Nothing, None, rowVars
  <1>19. ASSUME NEW w \in Workspace, beginTermination(w)
         PROVE  Finished'
    BY <1>19 DEF beginTermination, Up, Elsewhere
  <1>20. ASSUME NEW w \in Workspace, cutTransfers(w)
         PROVE  Finished'
    BY <1>20 DEF cutTransfers, Elsewhere
  <1>21. ASSUME NEW c \in Checkpoint, removeInterrupted(c) \/ settleUpload(c)
                                      \/ verifyPublication(c)
         PROVE  Finished'
    BY <1>21 DEF removeInterrupted, settleUpload, abortUpload, verifyPublication, Booting
  <1>22. ASSUME NEW o \in Operation, settleDownload(o) \/ skipPurge(o)
         PROVE  Finished'
    BY <1>22 DEF settleDownload, Up, abortDownload, skipPurge, Visit, Booting
  <1>23. ASSUME rowsVisited \/ started \/ listRunning \/ listPending
         PROVE  Finished'
    BY <1>23
    DEF rowsVisited, Incomplete, Booting, started, listRunning, Listing, Up, None, rowVars,
        listPending
  <1> HIDE DEF Finished
  <1> QED BY <1>1, <1>2, <1>3, <1>4, <1>5, <1>6, <1>7, <1>8, <1>9, <1>10, <1>11, <1>12, <1>13,
         <1>14, <1>15, <1>16, <1>17, <1>18, <1>19, <1>20, <1>21, <1>22, <1>23
    DEF Next, Scheduling, Recovery

\* No content comes back behind the purge.
LEMMA EmptiedStep ==
    /\ Functions /\ TypeOK /\ Kinds /\ Begun /\ Claimed /\ FencedPurge
    /\ Startup /\ Modes /\ Tasks /\ Unsettled /\ Removed /\ OnePurge
    /\ Settled /\ Emptied
    /\ Next
    => Emptied'
  <1> SUFFICES ASSUME Functions, TypeOK, Kinds, Begun, Claimed, FencedPurge, Startup, Modes,
      Tasks, Unsettled, Removed, OnePurge, Settled, Emptied, Next
               PROVE  Emptied'
    OBVIOUS
  <1>0. \A c \in Checkpoint : Missed(c) => Missed(c)' \/ archive'[c] = "none"
    BY MissedStays
  <1> USE <1>0, OperationAssumption DEF Emptied, At, CheckpointsOf, Incomplete, Purges, Transfer,
          OfKind, TypeOK, Functions, Step, Stop, Quiet, NoFault, Fault, Forget, updateOperation,
          updateCheckpoint
  <1>1. ASSUME NEW o \in Operation, Request(o)
         PROVE  Emptied'
    <2>1. CASE preserve(o)
      BY <2>1 DEF preserve, Up, insertOperation, admitIntent
    <2>2. CASE restore(o)
      BY <2>2 DEF restore, Up
    <2>3. CASE verify(o)
      BY <2>3 DEF verify, Up
    <2>4. CASE delete(o)
      BY <2>4 DEF delete, Up
    <2>5. CASE purge(o)
      BY <2>5 DEF purge, Up, insertOperation, admitIntent
    <2> HIDE DEF Emptied
    <2> QED BY <1>1, <2>1, <2>2, <2>3, <2>4, <2>5 DEF Request
  <1>2. ASSUME NEW o \in Operation, PreserveTask(o)
         PROVE  Emptied'
    <2> o.kind = "preserve"
      BY <1>2, PreserveKind
    <2>1. CASE assertPreserveAdmission(o)
      BY <2>1, OwnerIs DEF assertPreserveAdmission, Settled
    <2>2. CASE linkCheckpoint(o)
      BY <2>2 DEF linkCheckpoint
    <2>3. CASE enterPreserving(o)
      BY <2>3, OwnerIs DEF enterPreserving, MayMove, Settled
    <2>4. CASE attempt(o)
      BY <2>4 DEF attempt
    <2>5. CASE revokeLeases(o)
      BY <2>5 DEF revokeLeases
    <2>6. CASE inspect(o)
      BY <2>6 DEF inspect, Tasks, Runner
    <2>7. CASE runTransferPreserve(o)
      BY <2>7, SourceGoes DEF runTransferPreserve, updateWorkspaceStorage
    <2>8. CASE prepareArchive(o)
      BY <2>8 DEF prepareArchive, checkpointUploadAuthority, grantUpload
    <2>9. CASE openGrant(o)
      BY <2>9 DEF openGrant, rowVars
    <2>10. CASE uploadSettled(o)
      BY <2>10 DEF uploadSettled, rowVars
    <2>11. CASE cleanupTransferSource(o)
      BY <2>11 DEF cleanupTransferSource
    <2>12. CASE sourceDeleted(o)
      BY <2>12 DEF sourceDeleted, updateWorkspaceStorage
    <2>13. CASE commitPreserved(o)
      BY <2>13 DEF commitPreserved, Moved, MayMove
    <2>14. CASE finishPreserve(o)
      BY <2>14 DEF finishPreserve
    <2>15. CASE stopForSnapshot(o)
      BY <2>15 DEF stopForSnapshot
    <2>16. CASE createSnapshot(o)
      BY <2>16, OwnerIs DEF createSnapshot, updateWorkspaceStorage, Settled, Modes
    <2>17. CASE completePreserve(o)
      BY <2>17, OwnerIs DEF completePreserve, updateWorkspaceStorage, Settled, Modes
    <2>18. CASE detachSource(o)
      BY <2>18 DEF detachSource
    <2>19. CASE handlePreserveFailure(o)
      BY <2>19 DEF handlePreserveFailure, updateWorkspaceStorage, Moved, MayMove, Tasks, Runner
    <2>20. CASE retainUnpublishedSource(o)
      BY <2>20 DEF retainUnpublishedSource, Tasks, Runner
    <2>21. CASE abandonSource(o)
      BY <2>21 DEF abandonSource, Moved, MayMove
    <2> HIDE DEF Emptied
    <2> QED BY <1>2, <2>1, <2>2, <2>3, <2>4, <2>5, <2>6, <2>7, <2>8, <2>9, <2>10, <2>11, <2>12,
         <2>13, <2>14, <2>15, <2>16, <2>17, <2>18, <2>19, <2>20, <2>21 DEF PreserveTask
  <1>3. ASSUME NEW o \in Operation, CheckpointTask(o)
         PROVE  Emptied'
    <2>1. CASE insertRestore(o)
      BY <2>1 DEF insertRestore, insertOperation, admitIntent
    <2>2. CASE insertTarget(o)
      BY <2>2, CheckpointKind DEF insertTarget
    <2>3. CASE linkTarget(o)
      BY <2>3, CheckpointKind DEF linkTarget
    <2>4. CASE insertVerify(o)
      BY <2>4 DEF insertVerify, insertOperation, admitIntent
    <2>5. CASE finishVerify(o)
      BY <2>5, CheckpointKind DEF finishVerify, Claimed, Decided
    <2>6. CASE insertDelete(o)
      BY <2>6, OwnerIs DEF insertDelete, insertOperation, admitIntent, FencedPurge
    <2>7. CASE acknowledgeDelete(o)
      <3>1. o.kind = "delete" /\ pc[o] = "acknowledge" /\ UNCHANGED <<mode, archive, disk>>
            /\ ck' \in {ck, [ck EXCEPT ![o.checkpoint] = "deleting"]}
        BY <2>7, CheckpointKind DEF acknowledgeDelete
      <3>2. \A q \in OfKind("purge") : pc'[q] = pc[q] /\ op'[q] = op[q]
        BY <2>7, <3>1 DEF acknowledgeDelete
      <3>3. \A q \in OfKind("purge") : At(q, {"content"}) => q.workspace # OwnerOf(o.checkpoint)
        BY <3>1, OwnerIs DEF Settled, Claimed
      <3> QED BY <3>1, <3>2, <3>3
    <2>8. CASE deleteArchive(o)
      BY <2>8, CheckpointKind DEF deleteArchive, removeArchive
    <2>9. CASE commitRemoval(o)
      <3>1. o.kind = "delete" /\ UNCHANGED <<mode, ck, archive, disk>>
        BY <2>9 DEF commitRemoval
      <3>2. \A q \in OfKind("purge") : pc'[q] = pc[q] /\ op'[q] = op[q]
        BY <2>9, <3>1 DEF commitRemoval
      <3> QED BY <3>1, <3>2
    <2>10. CASE finishDelete(o)
      <3>1. o.kind = "delete" /\ pc[o] = "removed" /\ UNCHANGED <<mode, archive, disk>>
            /\ ck' = [ck EXCEPT ![o.checkpoint] = "deleted"]
        BY <2>10, CheckpointKind DEF finishDelete
      <3>2. \A q \in OfKind("purge") : pc'[q] = pc[q] /\ op'[q] = op[q]
        BY <2>10, <3>1 DEF finishDelete
      <3>3. \A q \in OfKind("purge") : At(q, {"content"}) => q.workspace # OwnerOf(o.checkpoint)
        BY <3>1, OwnerIs DEF Settled, Claimed
      <3> QED BY <3>1, <3>2, <3>3
    <2>11. CASE cleanupPreservedStorage(o)
      BY <2>11, CheckpointKind DEF cleanupPreservedStorage, updateWorkspaceStorage
    <2> HIDE DEF Emptied
    <2> QED BY <1>3, <2>1, <2>2, <2>3, <2>4, <2>5, <2>6, <2>7, <2>8, <2>9, <2>10, <2>11
    DEF CheckpointTask
  <1>4. ASSUME NEW o \in Operation, PurgeTask(o)
         PROVE  Emptied'
    <2> o.kind = "purge"
      BY <1>4, PurgeKind
    <2>1. CASE acknowledgePurge(o)
      BY <2>1 DEF acknowledgePurge, PurgeFails
    <2>2. CASE cancelCopies(o)
      BY <2>2 DEF cancelCopies, rowVars
    <2>3. CASE copiesSettled(o)
      BY <2>3 DEF copiesSettled
    <2>4. ASSUME NEW r \in Operation, settleRestore(o, r)
           PROVE  Emptied'
      BY <2>4 DEF settleRestore
    <2>5. CASE hasActiveCopies(o)
      BY <2>5 DEF hasActiveCopies, PurgeFails
    <2>6. CASE endWorkspace(o)
      BY <2>6 DEF endWorkspace, Terminal, Nonterminal, PurgeFails
    <2>7. CASE removeProvider(o)
      BY <2>7 DEF removeProvider, PurgeFails
    <2>8. ASSUME NEW c \in Checkpoint, purgeCheckpoint(o, c)
           PROVE  Emptied'
      <3>1. pc[o] = "storage" /\ o \in Incomplete /\ OwnerOf(c) = o.workspace /\ ck[c] # "none"
        BY <2>8 DEF purgeCheckpoint, FencedPurge
      <3>2. UNCHANGED <<mode, disk>> /\ ck' \in {ck, [ck EXCEPT ![c] = "deleting"]}
            /\ pc' \in {pc, [pc EXCEPT ![o] = "forget"], [pc EXCEPT ![o] = "idle"]}
            /\ op' \in {op, [op EXCEPT ![o] = "pending"]}
            /\ archive' \in {archive, [archive EXCEPT ![c] = "none"]}
        BY <2>8 DEF purgeCheckpoint, removeArchive
      <3>3. \A q \in OfKind("purge") : At(q, {"content"})' => At(q, {"content"}) /\ q # o
        BY <3>1, <3>2
      <3>4. \A q \in OfKind("purge") \ {o} : pc'[q] = pc[q]
        BY <3>2
      <3>5. \A q \in OfKind("purge") \ {o} : q.workspace = o.workspace => pc[q] = "idle"
        BY <3>1 DEF OnePurge
      <3>6. Incomplete \subseteq Incomplete' /\ o \in Incomplete' \cap Purges(o.workspace)
        BY <3>1, <3>2
      <3> QED BY <3>1, <3>2, <3>3, <3>4, <3>5, <3>6
    <2>9. CASE forgetCheckpoint(o)
      <3> DEFINE c == seen[o][1]
      <3>1. pc[o] = "forget" /\ o \in Incomplete /\ c \in Checkpoint /\ c \in published
        BY <2>9 DEF forgetCheckpoint, FencedPurge
      <3>2. ck[c] # "none"
        BY <3>1, MakerOf DEF Begun, Decided
      <3>3. UNCHANGED <<mode, archive, disk>> /\ ck' \in {ck, [ck EXCEPT ![c] = "deleted"]}
            /\ pc' \in {[pc EXCEPT ![o] = "storage"], [pc EXCEPT ![o] = "idle"]}
            /\ op' \in {op, [op EXCEPT ![o] = "pending"]}
        BY <2>9 DEF forgetCheckpoint, PurgeFails
      <3> HIDE DEF c
      <3>4. \A q \in OfKind("purge") : At(q, {"content"})' => At(q, {"content"}) /\ q # o
        BY <3>1, <3>3
      <3>5. \A q \in OfKind("purge") \ {o} : pc'[q] = pc[q]
        BY <3>3
      <3>6. Incomplete \subseteq Incomplete'
        BY <3>1, <3>3
      <3> QED BY <3>1, <3>2, <3>3, <3>4, <3>5, <3>6
    <2>10. CASE purgeStorage(o)
      <3>1. pc[o] = "storage" /\ UNCHANGED mode
        BY <2>10 DEF purgeStorage
      <3>2. CASE Transfer /\ \E c \in Checkpoint : Unknown(c)
        <4>1. pc' = [pc EXCEPT ![o] = "idle"] /\ op' = [op EXCEPT ![o] = "pending"]
              /\ UNCHANGED <<ck, archive, disk>>
          BY <2>10, <3>2 DEF purgeStorage, PurgeFails
        <4> QED BY <3>1, <4>1
      <3>3. CASE ~(Transfer /\ \E c \in Checkpoint : Unknown(c))
        <4> DEFINE mine == CheckpointsOf(o.workspace)
        <4>1. /\ \A c \in mine : ~PurgeTarget(c)
              /\ ck' = [c \in Checkpoint |-> IF c \in mine THEN "deleted" ELSE ck[c]]
              /\ archive' = IF Transfer THEN archive
                            ELSE [c \in Checkpoint |-> IF c \in mine THEN "none" ELSE archive[c]]
              /\ disk' = disk \ {o.workspace}
              /\ pc' = [pc EXCEPT ![o] = "content"] /\ UNCHANGED op
          BY <2>10, <3>3 DEF purgeStorage
        <4>2. Transfer => \A c \in mine : archive[c] = "none" \/ Missed(c)
          <5> SUFFICES ASSUME Transfer, NEW c \in mine PROVE archive[c] = "none" \/ Missed(c)
            OBVIOUS
          <5>1. c \in Checkpoint /\ OwnerOf(c) = o.workspace /\ ~Unknown(c) /\ ~PurgeTarget(c)
            BY <3>3, <4>1
          <5>2. PICK p \in OfKind("preserve") : p.checkpoint = c /\ p.workspace = o.workspace
            BY <5>1, MakerOf DEF OwnerOf
          <5>3. ~Active(c) /\ upload[c] # "validated"
            BY <3>1, <5>2 DEF Settled, Unsettled
          <5>4. upload[c] = "complete" => ck[c] = "deleted"
            BY <5>1, <5>2 DEF Unsettled, PurgeTarget
          <5>5. upload[c] \in TransferState /\ archive[c] \in ArchiveState
            BY <5>1
          <5> QED BY <5>1, <5>3, <5>4, <5>5
          DEF Unknown, Active, Removed, TransferState, ArchiveState
        <4>3. /\ \A c \in mine : /\ c \in Checkpoint /\ ck'[c] = "deleted"
                                 /\ archive'[c] = "none" \/ Missed(c)'
              /\ \A c \in Checkpoint \ mine : ck'[c] = ck[c] /\ archive'[c] = archive[c]
          BY <4>1, <4>2
        <4>4. \A q \in OfKind("purge") : CheckpointsOf(q.workspace)' = CheckpointsOf(q.workspace)
          BY <4>3
        <4>5. \A q \in OfKind("purge") \ {o} : pc'[q] = pc[q]
          BY <4>1
        <4>6. UNCHANGED Incomplete
          BY <4>1
        <4>7. CheckpointsOf(o.workspace) = mine
          OBVIOUS
        <4> HIDE DEF mine
        <4>8. \A q \in OfKind("purge") \ {o} : At(q, {"content"})' =>
                /\ (Transfer \/ q.workspace \notin disk)'
                /\ \A c \in CheckpointsOf(q.workspace) :
                     /\ archive'[c] = "none" \/ Missed(c)'
                     /\ \/ ck'[c] \in {"deleted", "failed"}
                        \/ pc'[q] # "content" /\ ck'[c] = "deleting"
                           /\ Incomplete' \cap Purges(q.workspace) # {}
          BY <3>1, <4>1, <4>3, <4>5, <4>6
        <4>9. (Transfer \/ o.workspace \notin disk)'
              /\ \A c \in CheckpointsOf(o.workspace) :
                   (archive'[c] = "none" \/ Missed(c)') /\ ck'[c] = "deleted"
          BY <4>1, <4>3, <4>7
        <4> QED BY <4>4, <4>8, <4>9
      <3> QED BY <3>2, <3>3
    <2>11. CASE purgeWorkspaceContent(o)
      BY <2>11 DEF purgeWorkspaceContent
    <2>12. ASSUME NEW r \in Operation, endRestore(o, r)
           PROVE  Emptied'
      BY <2>12 DEF endRestore
    <2> HIDE DEF Emptied
    <2> QED BY <1>4, <2>1, <2>2, <2>3, <2>4, <2>5, <2>6, <2>7, <2>8, <2>9, <2>10, <2>11, <2>12
    DEF PurgeTask
  <1>5. ASSUME NEW o \in Operation, Transfers(o)
         PROVE  Emptied'
    <2>1. CASE createArchive(o)
      BY <2>1 DEF createArchive, checkpointUploadAuthority, Context
    <2>2. CASE sealArchive(o)
      BY <2>2 DEF sealArchive, checkpointUploadAuthority, Context
    <2>3. CASE publishArchive(o)
      BY <2>3 DEF publishArchive, publish, Context, checkpointUploadAuthority
    <2>4. CASE closeUploadOwners(o)
      BY <2>4 DEF closeUploadOwners, Context
    <2>5. CASE restoreReady(o)
      BY <2>5 DEF restoreReady, Up, completeRestore, Context, checkpointDownloadAuthority, MayMove
    <2>6. CASE claim(o) \/ stageArchive(o) \/ cleanup(o) \/ restoreGrant(o)
               \/ downloadArchive(o) \/ checkpointInstalled(o)
      BY <2>6
      DEF claim, claimUpload, claimDownload, Context, checkpointUploadAuthority,
          checkpointDownloadAuthority, stageArchive, stage, cleanup, abortUpload, abortDownload,
          restoreGrant, Up, grantDownload, downloadArchive, downloaded, checkpointInstalled,
          installed, completeCheckpointStorage, updateWorkspaceStorage
    <2> HIDE DEF Emptied
    <2> QED BY <1>5, <2>1, <2>2, <2>3, <2>4, <2>5, <2>6 DEF Transfers
  <1>6. ASSUME NEW o \in Operation, TickSteps(o)
         PROVE  Emptied'
    <2>1. CASE retryPreserve(o)
      BY <2>1 DEF retryPreserve, Up, Terminal, rowVars
    <2>2. CASE recoverRunning(o)
      BY <2>2 DEF recoverRunning, Up, recoverPreserve, Ticking
    <2>3. CASE retryPurge(o)
      BY <2>3 DEF retryPurge, Up, rowVars
    <2> HIDE DEF Emptied
    <2> QED BY <1>6, <2>1, <2>2, <2>3 DEF TickSteps
  <1>7. ASSUME NEW o \in Operation, launch(o)
         PROVE  Emptied'
    BY <1>7 DEF launch, Up, updateWorkspaceStorage, Elsewhere, FencedPurge
  <1>8. ASSUME NEW w \in Workspace, finalize(w)
         PROVE  Emptied'
    <2>1. \A q \in OfKind("purge") : op'[q] = op[q]
      BY <1>8 DEF finalize
    <2>2. disk' \subseteq disk /\ UNCHANGED <<mode, pc, ck, archive>>
      BY <1>8 DEF finalize, Elsewhere
    <2> QED BY <2>1, <2>2
  <1>9. ASSUME NEW c \in Checkpoint, removeInterrupted(c)
         PROVE  Emptied'
    BY <1>9 DEF removeInterrupted
  <1>10. ASSUME NEW c \in Checkpoint, verifyPublication(c)
         PROVE  Emptied'
    BY <1>10 DEF verifyPublication, Booting
  <1>11. ASSUME NEW o \in Operation, reconcileRestore(o)
         PROVE  Emptied'
    BY <1>11 DEF reconcileRestore, Visit, Terminal, Booting
  <1>12. ASSUME NEW o \in Operation, reconcileVerification(o)
         PROVE  Emptied'
    BY <1>12 DEF reconcileVerification, Visit, Booting, Claimed, Decided, Startup
  <1>13. ASSUME NEW o \in Operation, reconcileDeletion(o)
         PROVE  Emptied'
    BY <1>13 DEF reconcileDeletion, Booting
  <1>14. ASSUME NEW o \in Operation, reconcilePending(o)
         PROVE  Emptied'
    BY <1>14 DEF reconcilePending, Visit, Terminal, Booting, Tasks
  <1>15. ASSUME NEW o \in Operation, reconcileTransferred(o)
         PROVE  Emptied'
    BY <1>15 DEF reconcileTransferred, Visit, recoverPreserve, Booting
  <1>16. ASSUME NEW o \in Operation, reconcileSnapshot(o)
         PROVE  Emptied'
    BY <1>16 DEF reconcileSnapshot, Visit, updateWorkspaceStorage, Moved, Booting, MayMove
  <1>17. ASSUME crash
         PROVE  Emptied'
    BY <1>17 DEF crash, Up, Nothing, None, rowVars
  <1>18. ASSUME NEW o \in Operation, bootstrapFails(o) \/ becomesReady(o) \/ settleDownload(o)
                                     \/ skipPurge(o)
         PROVE  Emptied'
    BY <1>18
    DEF bootstrapFails, Up, checkpointDownloadAuthority, Elsewhere, becomesReady, MayMove,
        settleDownload, abortDownload, skipPurge, Visit, Booting
  <1>19. ASSUME NEW w \in Workspace, sweepPreserving(w) \/ cutTransfers(w)
                                     \/ beginTermination(w)
         PROVE  Emptied'
    BY <1>19 DEF sweepPreserving, Up, Elsewhere, cutTransfers, beginTermination
  <1>20. ASSUME NEW c \in Checkpoint, settleUpload(c)
         PROVE  Emptied'
    BY <1>20 DEF settleUpload, abortUpload
  <1>21. ASSUME rowsVisited \/ started \/ listRunning \/ listPending
         PROVE  Emptied'
    BY <1>21
    DEF rowsVisited, Booting, started, listRunning, Listing, Up, None, rowVars, listPending
  <1> HIDE DEF Emptied
  <1> QED BY <1>1, <1>2, <1>3, <1>4, <1>5, <1>6, <1>7, <1>8, <1>9, <1>10, <1>11, <1>12, <1>13,
         <1>14, <1>15, <1>16, <1>17, <1>18, <1>19, <1>20, <1>21
    DEF Next, Scheduling, Recovery

-------------------------------------------------------------------------------

--------------------------------------------------------------------------------
(* The invariant holds, and what follows from it.                          *)

\* What every step keeps by itself.
Shape == Functions /\ Kinds /\ TypeOK

\* The invariant behind the archives and the restores.
Copies ==
    /\ Shape
    /\ Born /\ Entered /\ Begun /\ Claimed /\ FencedPurge /\ Startup /\ Restored
    /\ Uploads /\ Modes /\ Tasks /\ Snapshots /\ ReadyHasArchive

\* The invariant behind the purges.
PurgeInv ==
    /\ Copies
    /\ OneRunner /\ Unsettled /\ Sourced /\ Reads /\ Removed /\ Attended
    /\ OnePurge /\ Quieted /\ Settled /\ Finished /\ Emptied

\* The initial states.
LEMMA InitShape == Init => Shape
  BY OperationAssumption, FaultsAssumption
  DEF Init, Shape, Functions, Kinds, TypeOK, Runs, Runner, Deletes, Purging, Sources, OfKind, None,
      Nothing, WorkspaceState, StorageState, CheckpointState, TransferState, ArchiveState,
      OperationState

LEMMA InitCopies == Init => Copies
  <1> SUFFICES ASSUME Init PROVE Copies
    OBVIOUS
  <1> USE OperationAssumption
  <1>1. Shape
    BY InitShape
  <1>2. Born /\ Restored
    BY DEF Init, Born, Restored, Sources, OfKind, None
  <1>3. Entered /\ Begun
    BY DEF Init, Entered, Begun, Decided, Incomplete, Runner, OfKind, None
  <1>4. Claimed
    BY ReferenceIsSome DEF Init, Claimed, OfKind, None, Nothing
  <1>5. FencedPurge /\ Startup
    BY DEF Init, FencedPurge, Startup, Up, OfKind, None
  <1>6. Uploads /\ Modes
    BY DEF Init, Uploads, Modes, OfKind
  <1>7. Tasks /\ Snapshots
    BY DEF Init, Tasks, Snapshots, Runner, OfKind, None
  <1>8. ReadyHasArchive
    BY DEF Init, ReadyHasArchive
  <1> QED BY <1>1, <1>2, <1>3, <1>4, <1>5, <1>6, <1>7, <1>8 DEF Copies

LEMMA InitPurgeInv == Init => PurgeInv
  <1> SUFFICES ASSUME Init PROVE PurgeInv
    OBVIOUS
  <1> USE OperationAssumption
  <1>1. Copies
    BY InitCopies
  <1>2. OneRunner /\ Unsettled /\ Reads
    BY DEF Init, OneRunner, Unsettled, Active, Reads, Runner, OfKind
  <1>3. Sourced
    BY DEF Init, Sourced, HasStorage, OfKind
  <1>5. Removed /\ Attended
    BY DEF Init, Removed, Attended
  <1>6. OnePurge
    BY DEF Init, OnePurge, OfKind
  <1>7. Quieted /\ Settled /\ Finished /\ Emptied
    BY DEF Init, Quieted, Settled, Finished, Emptied, At, OfKind, None
  <1> QED BY <1>1, <1>2, <1>3, <1>5, <1>6, <1>7 DEF PurgeInv

\* A stuttering step changes nothing.
LEMMA StutterShape == Shape /\ UNCHANGED vars => Shape'
  BY DEF Shape, Functions, Kinds, TypeOK, vars, rowVars, memory

LEMMA StutterCopies == Copies /\ UNCHANGED vars => Copies'
  <1> SUFFICES ASSUME Copies, UNCHANGED vars PROVE Copies'
    OBVIOUS
  <1> USE DEF vars, rowVars, memory
  <1>1. Shape'
    BY StutterShape DEF Copies
  <1>2. (Born /\ Entered /\ Begun)'
    BY DEF Copies, Born, Entered, Begun, Past, Ended, Decided, Incomplete
  <1>3. (Claimed /\ FencedPurge /\ Startup /\ Restored)'
    BY DEF Copies, Claimed, FencedPurge, Startup, Restored, Decided, Incomplete, Up, Transfer
  <1>4. (Uploads /\ Modes /\ Tasks)'
    BY DEF Copies, Uploads, Modes, Tasks, Transfer
  <1>5. (Snapshots /\ ReadyHasArchive)'
    BY DEF Copies, Snapshots, ReadyHasArchive, Verifiable, Transfer
  <1> QED BY <1>1, <1>2, <1>3, <1>4, <1>5 DEF Copies

LEMMA StutterPurgeInv == PurgeInv /\ UNCHANGED vars => PurgeInv'
  <1> SUFFICES ASSUME PurgeInv, UNCHANGED vars PROVE PurgeInv'
    OBVIOUS
  <1>1. Copies'
    BY StutterCopies DEF PurgeInv
  <1> USE DEF vars, rowVars, memory
  <1>2. (OneRunner /\ Unsettled /\ Sourced /\ Reads)'
    BY DEF PurgeInv, OneRunner, Unsettled, Sourced, Reads, Active, HasStorage, Decided, Transfer
  <1>4. (Removed /\ Attended)'
    BY DEF PurgeInv, Removed, Missed, Deleted, Attended, Attendants, Incomplete, Transfer
  <1>5. (OnePurge /\ Quieted)'
    BY DEF PurgeInv, OnePurge, Quieted, At
  <1>6. (Settled /\ Finished)'
    BY DEF PurgeInv, Settled, Finished, At, Active, Incomplete, Terminal, Transfer
  <1>7. Emptied'
    BY DEF PurgeInv, Emptied, Missed, Deleted, At, CheckpointsOf, Incomplete, Purges, Transfer
  <1> QED BY <1>1, <1>2, <1>4, <1>5, <1>6, <1>7 DEF PurgeInv

\* Each layer is inductive on the one below it.
LEMMA NextShape == Shape /\ [Next]_vars => Shape'
  BY FunctionsStep, KindsStep, TypeStep, StutterShape DEF Shape

LEMMA NextCopies == Copies /\ [Next]_vars => Copies'
  <1> SUFFICES ASSUME Copies, Next PROVE Copies'
    BY StutterCopies
  <1>1. Shape'
    BY NextShape DEF Copies
  <1>2. (Born /\ Entered /\ Begun)'
    BY BornStep, EnteredStep, BegunStep DEF Copies, Shape
  <1>3. (Claimed /\ FencedPurge /\ Startup)'
    BY ClaimedStep, FencedPurgeStep, StartupStep DEF Copies, Shape
  <1>4. (Restored /\ Uploads /\ Modes)'
    BY RestoredStep, UploadsStep, ModesStep DEF Copies, Shape
  <1>5. (Tasks /\ Snapshots /\ ReadyHasArchive)'
    BY TasksStep, SnapshotsStep, ReadyStep DEF Copies, Shape
  <1> QED BY <1>1, <1>2, <1>3, <1>4, <1>5 DEF Copies

LEMMA NextPurgeInv == PurgeInv /\ [Next]_vars => PurgeInv'
  <1> SUFFICES ASSUME PurgeInv, Next PROVE PurgeInv'
    BY StutterPurgeInv
  <1>1. Copies'
    BY NextCopies DEF PurgeInv
  <1>2. (OneRunner /\ Unsettled /\ Sourced /\ Reads)'
    BY OneRunnerStep, UnsettledStep, SourcedStep, ReadsStep DEF PurgeInv, Copies, Shape
  <1>3. Removed'
    BY RemovedStep DEF PurgeInv, Copies, Shape
  <1>4. Attended'
    BY AttendedStep, ModeStep
    DEF PurgeInv, Copies, Shape, Attended, AttendantsStay, Transfer
  <1>5. (OnePurge /\ Quieted /\ Settled)'
    BY OnePurgeStep, QuietedStep, SettledStep DEF PurgeInv, Copies, Shape
  <1>6. (Finished /\ Emptied)'
    BY FinishedStep, EmptiedStep DEF PurgeInv, Copies, Shape
  <1> QED BY <1>1, <1>2, <1>3, <1>4, <1>5, <1>6 DEF PurgeInv

\* What the purges' invariant says of a purge that succeeded.
LEMMA PurgeInvIsEnough == PurgeInv => PurgedStaysPurged
  <1> SUFFICES ASSUME PurgeInv, NEW o \in OfKind("purge"), op[o] = "succeeded"
               PROVE  /\ Terminal(o.workspace) /\ o.workspace \notin prov
                      /\ Transfer \/ o.workspace \notin disk
                      /\ \A c \in CheckpointsOf(o.workspace) :
                           /\ archive[c] = "none" \/ Missed(c)
                           /\ \/ ck[c] \in {"deleted", "failed"}
                              \/ ck[c] = "deleting" /\ Incomplete \cap Purges(o.workspace) # {}
                      /\ CopiesOf(o.workspace) = {}
    BY DEF PurgedStaysPurged
  <1>1. Terminal(o.workspace) /\ o.workspace \notin prov
    BY DEF PurgeInv, Finished, At
  <1>2. /\ Transfer \/ o.workspace \notin disk
        /\ \A c \in CheckpointsOf(o.workspace) :
             /\ archive[c] = "none" \/ Missed(c)
             /\ \/ ck[c] \in {"deleted", "failed"}
                \/ ck[c] = "deleting" /\ Incomplete \cap Purges(o.workspace) # {}
    BY DEF PurgeInv, Emptied, At
  <1>3. \A p \in OfKind("preserve") : p.workspace = o.workspace => live[p] = "no"
    BY DEF PurgeInv, Copies, Quieted, Uploads, At
  <1>4. \A r \in OfKind("restore") :
          live[r] # "no" => r.workspace # o.workspace /\ r.target # o.workspace
    BY DEF PurgeInv, Quieted, At
  <1>5. \A x \in OfKind("preserve") \cup OfKind("restore") :
          OwnerOf(x.checkpoint) = x.workspace
    BY OwnerIs DEF OfKind
  <1>6. CopiesOf(o.workspace) = {}
    BY <1>3, <1>4, <1>5 DEF CopiesOf, CheckpointsOf, ContextWorkspace, OfKind
  <1> QED BY <1>1, <1>2, <1>6

\* Types, whatever the callers do: every row, transfer, context and task of the
\* services keeps to the values of its column, for any set of requests.
THEOREM TypeCorrect == Spec => []TypeOK
  <1>1. Shape => TypeOK
    BY DEF Shape
  <1> QED BY <1>1, InitShape, NextShape, PTL DEF Spec

\* A checkpoint that callers may restore from has its whole archive: publish commits
\* after the file is sealed, a deletion claims the row before it unlinks, and a
\* snapshot is recorded only after it is taken, through crashes and retries.
THEOREM ReadyCheckpointsHaveArchives == Spec => []ReadyHasArchive
  <1>1. Copies => ReadyHasArchive
    BY DEF Copies
  <1>2. Copies /\ [Next]_vars => Copies'
    BY NextCopies
  <1> QED BY <1>1, <1>2, InitCopies, PTL DEF Spec

\* A restored workspace becomes ready only with its files in place, and never once
\* its own purge or its source's was requested (completeRestore asks again).
THEOREM RestoresNeedTheirSource == Spec => RestoreNeedsSource
  <1>1. Copies /\ [Next]_vars => Copies'
    BY NextCopies
  <1>2. Copies /\ [Next]_vars => [SoundReady]_vars
    BY SoundReadyStep DEF Copies, Shape
  <1> QED BY <1>1, <1>2, InitCopies, PTL DEF Spec, RestoreNeedsSource, SoundReady

\* A purge that succeeded left nothing of the workspace, and nothing comes back:
\* whatever preserve, restore, verification, deletion or second purge was under way
\* when the fence went up, and wherever a crash cut it.
THEOREM PurgesAreFinal == Spec => []PurgedStaysPurged
  <1>1. PurgeInv /\ [Next]_vars => PurgeInv'
    BY NextPurgeInv
  <1> QED BY <1>1, InitPurgeInv, PurgeInvIsEnough, PTL DEF Spec
===============================================================================
