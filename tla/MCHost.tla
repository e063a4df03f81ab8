------------------------------- MODULE MCHost ----------------------------------
(***************************************************************************)
(* What runs outside the control server on small instances: the providers  *)
(* (warm runtimes, evidence of termination, docker launches, isolation,    *)
(* shared volumes), the storage of inputs, backups and checkpoints, the    *)
(* supervisor's transfers and screenshots, the egress proxy and the remote *)
(* client.                                                                 *)
(*                                                                         *)
(* One of them acts in a behaviour, the one that part names, and they take *)
(* turns in the same slots, as in MCServer.                                *)
(***************************************************************************)

CONSTANTS Runtime, Customer, MinReady, MaxTrouble, JobPod, Finalizer, MaxBreaks,
    WithInputs, Restricted, MaxAttempts, MaxOutages, Name, Device, Width, Alloc, Extracted,
    VolumeCapacity, MaxInputs, AllocationStops, Reservation, Quota, DiskFree, Headroom, InputFile,
    Manifest, MaxInputFaults, Selection, Object, PublisherCapacity, MaxPublisherFaults,
    Restore, Archive, Staging, MaxGenerations, MaxObjects, MaxSealed, BackupStops, Up, Folder,
    First, MaxFiles, MaxWrites, MaxSort, Unit, MaxSize, MaxEntries, Tree, FileSize, MaxArchive,
    Names, MaxEdits, MaxKills, MaxTransfers, MaxTroubles, Shot, MaxAdmitted, MaxCharged,
    MaxUpsets, Request, Host, Policy, MaxEvents, Batch, MaxFrames, MaxFaults, MaxGen, TurnFiles,
    MaxTurns, MaxMishaps

VARIABLES part, slot1, slot2, slot3, slot4, slot5, slot6, slot7, slot8, slot9, slot10, slot11,
    slot12, slot13, slot14, slot15, slot16, slot17, slot18, slot19, slot20, slot21, slot22, slot23,
    slot24, slot25, slot26, slot27, slot28, slot29, slot30, slot31

Warm == INSTANCE WarmPool WITH kind <- slot1, row <- slot2, ref <- slot3, owner <- slot4,
    object <- slot5, proof <- slot6, make <- slot7, socket <- slot8, hub <- slot9, mark <- slot10,
    frame <- slot11, got <- slot12, customer <- slot13, held <- slot14, held_proof <- slot15,
    lease <- slot16, pass <- slot17, seen <- slot18, drain <- slot19, aged <- slot20,
    trouble <- slot21

Evidence == INSTANCE TerminationEvidence WITH job <- slot1, suspend <- slot2, settled <- slot3,
    noted <- slot4, counted <- slot5, jproof <- slot6, rproof <- slot7, pod <- slot8, fin <- slot9,
    del <- slot10, known <- slot11, lost <- slot12, step <- slot13, pods <- slot14,
    leaving <- slot15, overtaken <- slot16, breaks <- slot17

Docker == INSTANCE DockerLaunch WITH stage <- slot1, attempt <- slot2, dirs <- slot3, main <- slot4,
    companion <- slot5, files <- slot6, aliased <- slot7, ref <- slot8, cleaner <- slot9,
    settled <- slot10, outages <- slot11

Isolated == INSTANCE Isolation WITH subject <- slot1, table <- slot2, backings <- slot3,
    policies <- slot4, storage <- slot5, outside <- slot6, code <- slot7, tampered <- slot8,
    verdict <- slot9

Allocations == INSTANCE SharedAllocations WITH Capacity <- VolumeCapacity,
    MaxStops <- AllocationStops, row <- slot1, pending <- slot2, flagged <- slot3,
    published <- slot4, inputs <- slot5, work <- slot6, mounted <- slot7, extracted <- slot8,
    stops <- slot9

Inputs == INSTANCE InputStorage WITH res <- slot1, obj <- slot2, late <- slot3, bytes <- slot4,
    up <- slot5, active1 <- slot6, pin <- slot7, clean <- slot8, wsp <- slot9, missed <- slot10,
    inputFaults <- slot11

Projections == INSTANCE InputProjections WITH Capacity <- PublisherCapacity, variant <- slot1,
    canon <- slot2, prune <- slot3, shown <- slot4, hidden <- slot5, receipt <- slot6,
    tomb <- slot7, root <- slot8, job <- slot9, freed <- slot10, faults <- slot11

Backup == INSTANCE OffNodeArchive WITH MaxStops <- BackupStops, cap <- slot1, disk <- slot2,
    charge <- slot3, remote <- slot4, parts <- slot5, sealed <- slot6, rst <- slot7, stops <- slot8

Capture == INSTANCE CheckpointCapture WITH harness <- slot1, stamp <- slot2, clock <- slot3,
    scan <- slot4, queue <- slot5, taken <- slot6, index <- slot7, emitted <- slot8,
    snapshot <- slot9

ArchiveFile == INSTANCE CheckpointArchive WITH recs <- slot1, header <- slot2, writer <- slot3,
    wire <- slot4, intact <- slot5, reader <- slot6

Destination == INSTANCE CheckpointDestination WITH feed <- slot1, got <- slot2, job <- slot3,
    slot <- slot4, size <- slot5, place <- slot6, stageUp <- slot7, dest <- slot8, tidy <- slot9,
    harm <- slot10, dirty <- slot11

Filesystem == INSTANCE FilesystemStorage WITH store <- slot1, partial <- slot2, final <- slot3,
    expected <- slot4, restored <- slot5, call <- slot6, outcome <- slot7, edits <- slot8,
    kills <- slot9

Transfers == INSTANCE SupervisorTransfers WITH active <- slot1, begun <- slot2, stage <- slot3,
    grants <- slot4, abort <- slot5, late <- slot6, closing <- slot7, scratch <- slot8,
    opened <- slot9, cancels <- slot10, sent <- slot11, stored <- slot12, published <- slot13,
    sessions <- slot14, writer <- slot15, hooks <- slot16, lowered <- slot17,
    quiescing <- slot18, shutting <- slot19, connected <- slot20, troubles <- slot21

Shots == INSTANCE Screenshots WITH capture <- slot1, aborted <- slot2, output <- slot3,
    charge <- slot4, upload <- slot5, image <- slot6, agent <- slot7, asked <- slot8,
    authority <- slot9, fence <- slot10, closing <- slot11, expired <- slot12, upsets <- slot13

Egress == INSTANCE EgressAudit WITH requests <- slot1, buffer <- slot2, sequence <- slot3,
    session <- slot4, upload <- slot5, kept <- slot6, released <- slot7, rows <- slot8,
    purged <- slot9, assigned <- slot10, agentSent <- slot11, pending <- slot12, upstream <- slot13,
    serverGot <- slot14, faults <- slot15

Remote == INSTANCE RemoteTurns WITH MaxFiles <- TurnFiles, ws <- slot1, agent <- slot2,
    parent <- slot3, attempts <- slot4, other <- slot5, pc <- slot6, turn <- slot7, tries <- slot8,
    current <- slot9, source <- slot10, baseline <- slot11, stream <- slot12, events <- slot13,
    submitted <- slot14, sending <- slot15, post <- slot16, deliveries <- slot17, aborted <- slot18,
    quitting <- slot19, interruptLost <- slot20, result <- slot21, reply <- slot22, queue <- slot23,
    captured <- slot24, uploaded <- slot25, committed <- slot26, files <- slot27, taken <- slot28,
    target <- slot29, chosen <- slot30, mishaps <- slot31

\* Slot n and those after it are unused: empty at first, and left alone.
EmptyFrom22 ==
    slot22 = 0 /\ slot23 = 0 /\ slot24 = 0 /\ slot25 = 0 /\ slot26 = 0 /\ slot27 = 0 /\ slot28 = 0 /\ slot29 = 0 /\ slot30 = 0 /\ slot31 = 0
EmptyFrom18 == slot18 = 0 /\ slot19 = 0 /\ slot20 = 0 /\ slot21 = 0 /\ EmptyFrom22
EmptyFrom16 == slot16 = 0 /\ slot17 = 0 /\ EmptyFrom18
EmptyFrom14 == slot14 = 0 /\ slot15 = 0 /\ EmptyFrom16
EmptyFrom12 == slot12 = 0 /\ slot13 = 0 /\ EmptyFrom14
EmptyFrom10 == slot10 = 0 /\ slot11 = 0 /\ EmptyFrom12
EmptyFrom9 == slot9 = 0 /\ EmptyFrom10
EmptyFrom7 == slot7 = 0 /\ slot8 = 0 /\ EmptyFrom9

SameFrom22 == UNCHANGED <<slot22, slot23, slot24, slot25, slot26, slot27, slot28, slot29, slot30, slot31>>
SameFrom18 == UNCHANGED <<slot18, slot19, slot20, slot21>> /\ SameFrom22
SameFrom16 == UNCHANGED <<slot16, slot17>> /\ SameFrom18
SameFrom14 == UNCHANGED <<slot14, slot15>> /\ SameFrom16
SameFrom12 == UNCHANGED <<slot12, slot13>> /\ SameFrom14
SameFrom10 == UNCHANGED <<slot10, slot11>> /\ SameFrom12
SameFrom9 == UNCHANGED <<slot9>> /\ SameFrom10
SameFrom7 == UNCHANGED <<slot7, slot8>> /\ SameFrom9

MCInit ==
    \/ part = "warm" /\ Warm!WarmInit /\ EmptyFrom22
    \/ part = "evidence" /\ Evidence!EvidenceInit /\ EmptyFrom18
    \/ part = "docker" /\ Docker!DockerInit /\ EmptyFrom12
    \/ part = "isolation" /\ Isolated!IsolationInit /\ EmptyFrom10
    \/ part = "allocations" /\ Allocations!AllocInit /\ EmptyFrom10
    \/ part = "inputs" /\ Inputs!InputInit /\ EmptyFrom12
    \/ part = "projections" /\ Projections!ProjectionInit /\ EmptyFrom12
    \/ part = "backup" /\ Backup!ArchiveInit /\ EmptyFrom9
    \/ part = "capture" /\ Capture!CaptureInit /\ EmptyFrom10
    \/ part = "archive" /\ ArchiveFile!ArchiveFileInit /\ EmptyFrom7
    \/ part = "destination" /\ Destination!DestinationInit /\ EmptyFrom12
    \/ part = "filesystem" /\ Filesystem!StorageInit /\ EmptyFrom10
    \/ part = "transfers" /\ Transfers!TransferInit /\ EmptyFrom22
    \/ part = "screenshots" /\ Shots!ShotInit /\ EmptyFrom14
    \/ part = "egress" /\ Egress!EgressInit /\ EmptyFrom16
    \/ part = "remote" /\ Remote!RemoteInit

MCNext ==
    /\ UNCHANGED part
    /\ \/ part = "warm" /\ Warm!WarmNext /\ SameFrom22
       \/ part = "evidence" /\ Evidence!EvidenceNext /\ SameFrom18
       \/ part = "docker" /\ Docker!DockerNext /\ SameFrom12
       \/ part = "isolation" /\ Isolated!IsolationNext /\ SameFrom10
       \/ part = "allocations" /\ Allocations!AllocNext /\ SameFrom10
       \/ part = "inputs" /\ Inputs!InputNext /\ SameFrom12
       \/ part = "projections" /\ Projections!ProjectionNext /\ SameFrom12
       \/ part = "backup" /\ Backup!ArchiveNext /\ SameFrom9
       \/ part = "capture" /\ Capture!CaptureNext /\ SameFrom10
       \/ part = "archive" /\ ArchiveFile!ArchiveFileNext /\ SameFrom7
       \/ part = "destination" /\ Destination!DestinationNext /\ SameFrom12
       \/ part = "filesystem" /\ Filesystem!StorageNext /\ SameFrom10
       \/ part = "transfers" /\ Transfers!TransferNext /\ SameFrom22
       \/ part = "screenshots" /\ Shots!ShotNext /\ SameFrom14
       \/ part = "egress" /\ Egress!EgressNext /\ SameFrom16
       \/ part = "remote" /\ Remote!RemoteNext

\* A workspace tree with a file in a directory and a link beside it.
MCTree == <<[kind |-> "directory", up |-> 0], [kind |-> "file", up |-> 1], [kind |-> "symlink", up |-> 0]>>

\* Five entries, two of them directories with one entry each.
MCUp == <<0, 1, 0, 3, 0>>
MCNames == <<"f", "g">>

\* Two manifests that share an object.
MCSelection == [m1 |-> {"o1"}, m2 |-> {"o1", "o2"}]

\* A wildcard rule, a more specific one that may reach private addresses, and one for another port.
MCHosts == {<<"com", "ex">>, <<"com", "ex", "db">>}
MCPolicy ==
    <<[domain |-> <<"com", "ex">>, wild |-> TRUE, port |-> 443, allowPrivate |-> FALSE],
      [domain |-> <<"com", "ex", "db">>, wild |-> FALSE, port |-> 443, allowPrivate |-> TRUE],
      [domain |-> <<"com", "ex">>, wild |-> FALSE, port |-> 80, allowPrivate |-> TRUE]>>

\* No runtime of the warm pool serves a second workspace; a workspace whose Job is gone has a saved
\* proof that its Pods ended, unless the Job's TTL came between a finalizer's read and its save; and
\* a docker launch that was cleaned up leaves no container, file or projection, and a companion only
\* after a fault (warm-pool.ts, kubernetes-evidence.ts, docker.ts).
ProvidersAccount ==
    /\ part = "warm" => Warm!NeverRecycled
    /\ part = "evidence" => Evidence!EvidenceIsSound
    /\ part = "docker" => Docker!LaunchIsCleaned

\* A workspace the checks accept reaches no file, device or network it must not reach
\* (docker-input-boundary.ts, kubernetes-shared-profile.ts, workload-policy.ts).
AcceptedIsIsolated == part = "isolation" => Isolated!AcceptedIsIsolated

\* Every byte of an input is charged and none that is in use is swept, but for a transfer that expired
\* before its controller had noted it; a shared volume never holds
\* more than it can, and a publisher shows a workspace the files it selected, all of them and only
\* while they are stored (input-storage.ts, kubernetes-shared-storage.ts, input-projection.ts).
InputFilesAreSafe ==
    /\ part = "inputs" => Inputs!BytesAreCharged /\ Inputs!NothingIsSweptInUse
    /\ part = "allocations" => Allocations!VolumeIsSafe
    /\ part = "projections" => Projections!ProjectionsAreWhole

\* A backup whose receipt was given can be restored, its scratch space is charged and a restore
\* loses nothing that was there (off-node-backup.ts, off-node-capacity.ts, restore.ts).
BackupRecovers ==
    part = "backup" =>
        Backup!ReceiptIsRecoverable /\ Backup!ScratchIsCharged /\ Backup!RestoreLosesNothing

\* A checkpoint is the tree of one moment, is read back as it was written, and appears whole or
\* not at all (source-capture.ts, archive-reader.ts, destination-publication.ts,
\* filesystem-storage.ts).
CheckpointIsWhole ==
    /\ part = "capture" => Capture!ArchiveIsOneMoment /\ Capture!IndexIsExact
    /\ part = "archive" => ArchiveFile!ArchiveRoundTrips
    /\ part = "destination" => Destination!PublicationIsWhole /\ Destination!CloseIsExact
    /\ part = "filesystem" => Filesystem!StorageIsAsReported

\* A transfer of the supervisor ends once, with what it did, and leaves its slot and its scratch
\* free, and offers an archive only of a quiet workspace, but for the late hook of an earlier
\* transfer; a screenshot is charged once, and its row and its bytes go together
\* (supervisor-transfers.ts, binary-outputs.ts).
SupervisorAccounts ==
    /\ part = "transfers" => Transfers!TransfersAreExact
    /\ part = "screenshots" => Shots!ShotsAreAccounted

\* Every byte the proxy lets through was allowed by the policy for the address it went to, and the
\* server stores each decision once and in order (proxy.ts, audit.ts).
EgressIsAccounted == part = "egress" => Egress!EgressIsAccounted

================================================================================
