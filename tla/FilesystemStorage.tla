----------------------------- MODULE FilesystemStorage -----------------------------
(***************************************************************************)
(* The filesystem storage driver: workspace storage, checkpoints copied    *)
(* from it, restores copied back, and deletion.  Its callers repeat an     *)
(* operation after an error or a crash, from whatever is on disk.          *)
(***************************************************************************)
EXTENDS Naturals, FiniteSets, Sequences, SequencesExt

CONSTANTS
    Names,      \* the files of the mount, as a sequence in the order of a scan
    MaxEdits,   \* bound on writes to a workspace and on damaged copies
    MaxKills    \* bound on crashes

VARIABLES
    store,     \* the workspace's storage: the version of each file, 0 when absent
    partial,   \* .creating-<id>: [up, files, manifest]
    final,     \* the checkpoint root: [up, files, manifest]
    expected,  \* the manifest the controller recorded
    restored,  \* the storage a checkpoint is cloned into: [up, files]
    call,      \* the running operation: [op, pc, at, digest]
    outcome,   \* operations that succeeded
    edits, kills

storageVars == <<store, partial, final, expected, restored, call, outcome, edits, kills>>

Files == ToSet(Names)
NoFiles == [f \in Files |-> 0]
NoRoot == [up |-> FALSE, files |-> NoFiles, manifest |-> NoFiles]
Idle == [op |-> "none", pc |-> "none", at |-> 0, digest |-> NoFiles]
StorageInit ==
    /\ store = NoFiles /\ partial = NoRoot /\ final = NoRoot /\ expected = NoFiles
    /\ restored = [up |-> FALSE, files |-> NoFiles] /\ call = Idle /\ outcome = {} /\ edits = 0 /\ kills = 0

Go(pc) == call' = [call EXCEPT !.pc = pc]
Done == call' = Idle /\ outcome' = outcome \cup {call.op}
Throw == call' = Idle /\ UNCHANGED outcome
Begin(op, pc) == call = Idle /\ call' = [Idle EXCEPT !.op = op, !.pc = pc, !.at = 1] /\ UNCHANGED outcome
keepFaults == UNCHANGED <<edits, kills>>
File == Names[call.at]

-----------------------------------------------------------------------------
\* allocate: the mounts are created empty; repeating it keeps what is there.
allocate ==
    /\ "allocate" \notin outcome /\ call = Idle /\ UNCHANGED call
    /\ outcome' = outcome \cup {"allocate"} /\ UNCHANGED <<store, partial, final, expected, restored>> /\ keepFaults

\* snapshot, first lines: a finished checkpoint is returned as it is, any other content under its name is refused.
snapshot ==
    /\ "allocate" \in outcome /\ "delete" \notin outcome /\ "deleting" \notin outcome
    /\ Begin("snapshot", "look") /\ UNCHANGED <<store, partial, final, expected, restored>> /\ keepFaults
lookFinal ==
    /\ call.pc = "look" /\ UNCHANGED <<store, partial, final, restored>> /\ keepFaults
    /\ \/ final.manifest # NoFiles /\ expected' = final.manifest /\ Done
       \/ final.up /\ final.manifest = NoFiles /\ Throw /\ UNCHANGED expected
       \/ ~final.up /\ Go("scan") /\ UNCHANGED <<expected, outcome>>
\* What an interrupted copy left is removed before the new one starts.
startCopy ==
    /\ call.pc = "scan" /\ partial' = [NoRoot EXCEPT !.up = TRUE] /\ Go("hash")
    /\ UNCHANGED <<store, final, expected, restored, outcome>> /\ keepFaults
\* scanFile: the digest is read first, the copy is made afterwards from the same name.
scanFile ==
    /\ call.pc = "hash" /\ call.at <= Len(Names)
    /\ call' = [call EXCEPT !.pc = "copy", !.digest[File] = store[File]]
    /\ UNCHANGED <<store, partial, final, expected, restored, outcome>> /\ keepFaults
copyFile ==
    /\ call.pc = "copy" /\ UNCHANGED <<store, final, expected, restored, outcome>> /\ keepFaults
    /\ partial' = [partial EXCEPT !.files[File] = store[File]] /\ call' = [call EXCEPT !.pc = "hash", !.at = @ + 1]
writeManifest ==
    /\ call.pc = "hash" /\ call.at > Len(Names) /\ call.digest # NoFiles
    /\ partial' = [partial EXCEPT !.manifest = call.digest] /\ Go("rename")
    /\ UNCHANGED <<store, final, expected, restored, outcome>> /\ keepFaults
\* Mutant of publishFinal: the root is renamed first and its manifest is written there.
RenameFirst ==
    \/ /\ call.pc = "rename" /\ final' = [partial EXCEPT !.manifest = NoFiles] /\ partial' = NoRoot /\ Go("late")
       /\ UNCHANGED <<store, restored, expected, outcome>> /\ keepFaults
    \/ /\ call.pc = "late" /\ final' = [final EXCEPT !.manifest = call.digest] /\ expected' = call.digest /\ Done
       /\ UNCHANGED <<store, partial, restored>> /\ keepFaults
\* The complete copy gets its name in one rename.
publishFinal ==
    /\ call.pc = "rename" /\ final' = partial /\ partial' = NoRoot /\ expected' = partial.manifest /\ Done
    /\ UNCHANGED <<store, restored>> /\ keepFaults
\* An error of the scan or the copy removes the partial root.
scanFails ==
    /\ call.pc \in {"hash", "copy", "rename"} /\ kills < MaxKills /\ kills' = kills + 1
    /\ partial' = NoRoot /\ Throw /\ UNCHANGED <<store, final, expected, restored, edits>>

-----------------------------------------------------------------------------
\* Mutant of verified: the manifest is compared, the content is not read again.
ManifestIsEnough == final.up /\ final.manifest = expected
\* verifyCheckpoint: the manifest on disk is the recorded one, and so is every file.
verified == final.up /\ final.manifest = expected /\ final.files = expected
cloneCheckpoint ==
    /\ expected # NoFiles /\ "deleting" \notin outcome /\ Begin("clone", "verify")
    /\ UNCHANGED <<store, partial, final, expected, restored>> /\ keepFaults
verifyCheckpoint ==
    /\ call.pc = "verify" /\ UNCHANGED <<store, partial, final, expected>> /\ keepFaults
    /\ IF verified THEN /\ Go("restore") /\ restored' = [up |-> TRUE, files |-> NoFiles]
                        /\ outcome' = outcome \ {"clone"}
       ELSE Throw /\ UNCHANGED restored
\* restoreCheckpointContent: the mount is emptied, then filled entry by entry.
restoreContent ==
    /\ call.pc = "restore" /\ UNCHANGED <<store, partial, final, expected>> /\ keepFaults
    /\ IF call.at <= Len(Names)
       THEN /\ restored' = [restored EXCEPT !.files[File] = final.files[File]] /\ call' = [call EXCEPT !.at = @ + 1]
            /\ UNCHANGED outcome
       ELSE Done /\ UNCHANGED restored

\* deleteCheckpoint: the root, then an interrupted copy; a removal may stop half way.
deleteCheckpoint ==
    /\ call = Idle /\ call' = [Idle EXCEPT !.op = "delete", !.pc = "final"]
    /\ outcome' = (outcome \cup {"deleting"}) \ {"delete"}
    /\ UNCHANGED <<store, partial, final, expected, restored>> /\ keepFaults
removeFinal ==
    /\ call.pc = "final" /\ UNCHANGED <<store, partial, expected, restored, outcome>> /\ keepFaults
    /\ \/ \E f \in Files : final.files[f] # 0 /\ final' = [final EXCEPT !.files[f] = 0] /\ UNCHANGED call
       \/ final.manifest # NoFiles /\ final' = [final EXCEPT !.manifest = NoFiles] /\ UNCHANGED call
       \/ final.files = NoFiles /\ final.manifest = NoFiles /\ final' = NoRoot /\ Go("partial")
\* Mutant of removePartial: only the checkpoint's own name is removed.
KeepPartial == call.pc = "partial" /\ Done /\ UNCHANGED <<store, partial, final, expected, restored>> /\ keepFaults
removePartial ==
    /\ call.pc = "partial" /\ partial' = NoRoot /\ Done
    /\ UNCHANGED <<store, final, expected, restored>> /\ keepFaults
deleteStorage ==
    /\ call = Idle /\ "allocate" \in outcome /\ store' = NoFiles
    /\ outcome' = (outcome \ {"allocate"}) \cup {"freed"} /\ UNCHANGED <<call, partial, final, expected, restored>> /\ keepFaults

\* discoverCheckpoints: finished and interrupted copies alike.
listCheckpoints == final.up \/ partial.up

-----------------------------------------------------------------------------
crash ==
    /\ kills < MaxKills /\ kills' = kills + 1 /\ call' = Idle /\ call # Idle
    /\ UNCHANGED <<store, partial, final, expected, restored, outcome, edits>>
\* A process of the workspace writes, or a stored file goes bad.
edit ==
    /\ edits < MaxEdits /\ edits' = edits + 1 /\ UNCHANGED <<partial, expected, restored, call, outcome, kills>>
    /\ \E f \in Files :
          \/ "allocate" \in outcome /\ store' = [store EXCEPT ![f] = edits + 1] /\ UNCHANGED final
          \/ final.files[f] # 0 /\ final' = [final EXCEPT !.files[f] = 99] /\ call.pc # "restore" /\ UNCHANGED store

StorageNext ==
    \/ allocate \/ snapshot \/ lookFinal \/ startCopy \/ scanFile \/ copyFile \/ writeManifest \/ publishFinal \/ scanFails
    \/ cloneCheckpoint \/ verifyCheckpoint \/ restoreContent
    \/ deleteCheckpoint \/ removeFinal \/ removePartial \/ deleteStorage \/ crash \/ edit

-----------------------------------------------------------------------------
\* What the driver reports is what is on disk: a checkpoint under its own name is never a partial copy, a clone that
\* succeeded has every byte the recorded manifest names, and a deletion that succeeded left nothing to list, also after
\* copies, restores or deletions that stopped anywhere.
StorageIsAsReported ==
    /\ (final.up /\ "deleting" \notin outcome) => final.manifest # NoFiles
    /\ "clone" \in outcome => restored.up /\ restored.files = expected
    /\ "delete" \in outcome => ~listCheckpoints
=============================================================================
