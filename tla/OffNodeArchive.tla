------------------------------ MODULE OffNodeArchive ------------------------------
(***************************************************************************)
(* The off-node copy of an account.  A capture writes the controller's     *)
(* backup, seals it and uploads it; a restore downloads it, opens it and   *)
(* publishes it on a new volume.  Both keep an intent on disk and are run  *)
(* again under the same operation id after a crash or an error, so every   *)
(* step starts from whatever the earlier attempt left.                     *)
(***************************************************************************)
EXTENDS Naturals, FiniteSets, Sequences, SequencesExt, FiniteSetsExt

CONSTANTS
    Restore,    \* restore operations, which share one off-node folder
    Archive,    \* checkpoint archives of the restored backup
    Staging,    \* restores the staging policy admits at a time
    MaxGenerations, MaxObjects, MaxSealed, \* bounds on capture intents, object versions and ciphertexts
    MaxStops    \* bound on crashes and failed calls

VARIABLES
    cap,     \* the running capture: [pc, next, ver]
    disk,    \* its folder: [intent, tar, partial, enc, chk, verify, receipt]
    charge,  \* its reservations, one for each generation of the intent
    remote,  \* object versions under its prefix: the ciphertext of each, 0 when deleted
    parts,   \* an unfinished multipart upload under its prefix
    sealed,  \* the generation of the archive each ciphertext holds
    rst,     \* the restores
    stops

archiveVars == <<cap, disk, charge, remote, parts, sealed, rst, stops>>

NoCopy == [ver |-> 0, cipher |-> 0, gen |-> 0]
ArchiveInit ==
    /\ cap = [pc |-> "idle", next |-> "done", ver |-> 0]
    /\ disk = [intent |-> 0, tar |-> 0, partial |-> FALSE, enc |-> 0, chk |-> FALSE, verify |-> FALSE, receipt |-> NoCopy]
    /\ charge = <<>> /\ remote = <<>> /\ parts = FALSE /\ sealed = <<>> /\ stops = 0
    /\ rst = [r \in Restore |->
                [pc |-> "idle", intent |-> FALSE, record |-> FALSE, enc |-> FALSE, tar |-> FALSE, verify |-> FALSE,
                 stage |-> FALSE, held |-> {}, data |-> FALSE, out |-> {}, bound |-> {}, source |-> "reserved",
                 marked |-> FALSE, result |-> FALSE]]

Torn == 99 \* the size of a ciphertext that was not written to its end

-----------------------------------------------------------------------------
(* Capture *)

Cap(pc) == cap' = [cap EXCEPT !.pc = pc]
Gen == disk.intent
keepRemote == UNCHANGED <<remote, parts, sealed, rst, stops>>
capturePaths == disk.tar # 0 \/ disk.partial \/ disk.enc # 0 \/ disk.chk \/ disk.verify

\* existingReceipt: a finished capture is compared with its object, then only what it left is released.
existingReceipt ==
    /\ cap.pc = "idle"
    /\ IF disk.receipt = NoCopy THEN Cap("intent")
       ELSE /\ remote[disk.receipt.ver] = disk.receipt.cipher
            /\ cap' = [cap EXCEPT !.pc = "release", !.next = "done"]
    /\ UNCHANGED <<disk, charge>> /\ keepRemote

\* captureIntent: the durable intent names one reservation, and a retry reuses it.
captureIntent ==
    /\ cap.pc = "intent" /\ Cap("admit") /\ UNCHANGED charge /\ keepRemote
    /\ IF Gen # 0 THEN UNCHANGED disk
       ELSE Len(charge) < MaxGenerations /\ disk' = [disk EXCEPT !.intent = Len(charge) + 1]

\* admitCapture: without an archive the old generation is retired before a new bound is reserved.
admitCapture ==
    /\ cap.pc = "admit" /\ UNCHANGED disk /\ keepRemote
    /\ \/ /\ Gen > Len(charge) /\ charge' = Append(charge, "reserved") /\ Cap("clear")
       \/ /\ Gen <= Len(charge) /\ disk.tar = 0 /\ cap' = [cap EXCEPT !.pc = "release", !.next = "intent"] /\ UNCHANGED charge
       \/ /\ Gen <= Len(charge) /\ disk.tar # 0 /\ charge[Gen] = "reserved" /\ Cap("clear") /\ UNCHANGED charge

\* One file at a time, in the order of capturePaths.
removeScratch ==
    disk' = [disk EXCEPT !.tar = 0, !.enc = IF disk.tar # 0 THEN @ ELSE 0,
                         !.chk = @ /\ (disk.tar # 0 \/ disk.enc # 0),
                         !.partial = @ /\ (disk.tar # 0 \/ disk.enc # 0 \/ disk.chk),
                         !.verify = @ /\ (disk.tar # 0 \/ disk.enc # 0 \/ disk.chk \/ disk.partial)]
released == IF disk.receipt # NoCopy THEN disk.receipt.gen ELSE Gen
Charge(from, to) ==
    charge' = IF released \in DOMAIN charge /\ charge[released] = from THEN [charge EXCEPT ![released] = to] ELSE charge

\* Mutant of releaseCapture: the intent goes first, and with it the name of the reservation.
ForgetsFirst ==
    /\ keepRemote
    /\ \/ /\ cap.pc = "release" /\ removeScratch /\ UNCHANGED charge
          /\ Cap(IF capturePaths THEN "release" ELSE "forget")
       \/ cap.pc = "forget" /\ Charge("reserved", "releasing") /\ disk' = [disk EXCEPT !.intent = 0] /\ Cap("free")
       \/ cap.pc = "free" /\ Charge("releasing", "released") /\ UNCHANGED disk /\ Cap(cap.next)
\* releaseCapture: the files, then the row in two steps, then the intent.
releaseCapture ==
    /\ keepRemote
    /\ \/ /\ cap.pc = "release" /\ removeScratch /\ UNCHANGED charge
          /\ Cap(IF capturePaths THEN "release" ELSE "row")
       \/ cap.pc = "row" /\ Charge("reserved", "releasing") /\ UNCHANGED disk /\ Cap("free")
       \/ cap.pc = "free" /\ ~capturePaths /\ Charge("releasing", "released") /\ UNCHANGED disk /\ Cap("forget")
       \/ cap.pc = "forget" /\ disk' = [disk EXCEPT !.intent = 0] /\ Cap(cap.next) /\ UNCHANGED charge

\* run, before the archive: the leftovers of an unfinished attempt are removed.
clearLeftovers ==
    /\ cap.pc = "clear" /\ disk' = [disk EXCEPT !.partial = FALSE, !.verify = FALSE, !.chk = FALSE]
    /\ Cap(IF disk.tar = 0 THEN "archive" ELSE "inspect") /\ UNCHANGED charge /\ keepRemote

\* createArchiveOutput: a private partial file, linked into place when it is complete.
writeBackup ==
    /\ UNCHANGED charge /\ keepRemote
    /\ \/ cap.pc = "archive" /\ ~disk.partial /\ disk' = [disk EXCEPT !.partial = TRUE] /\ UNCHANGED cap
       \/ cap.pc = "archive" /\ disk.partial /\ disk' = [disk EXCEPT !.tar = Gen] /\ Cap("linked")
       \/ cap.pc = "linked" /\ disk' = [disk EXCEPT !.partial = FALSE] /\ Cap("inspect")
\* discard: a capture that fails removes its partial file.
discard ==
    /\ cap.pc = "archive" /\ disk.partial /\ stops < MaxStops /\ stops' = stops + 1
    /\ disk' = [disk EXCEPT !.partial = FALSE] /\ Cap("idle") /\ UNCHANGED <<charge, remote, parts, sealed, rst>>

\* inspectBackup and verifyBackup: the archive carries the generation that was admitted for it.
verifyBackup ==
    /\ UNCHANGED charge /\ keepRemote
    /\ \/ cap.pc = "inspect" /\ disk.tar = Gen /\ disk' = [disk EXCEPT !.verify = TRUE] /\ Cap("verify")
       \/ cap.pc = "verify" /\ disk' = [disk EXCEPT !.verify = FALSE] /\ Cap("cipher")

\* boundedMetadata: a receipt that cannot fit ends the operation, the remote copy first.
clean == remote' = [v \in DOMAIN remote |-> 0] /\ parts' = FALSE
boundedMetadata ==
    /\ cap.pc \in {"cipher", "receipt"} /\ stops < MaxStops /\ stops' = stops + 1
    /\ clean /\ cap' = [cap EXCEPT !.pc = "release", !.next = "idle"] /\ UNCHANGED <<disk, charge, sealed, rst>>

\* decryptFile: a ciphertext opens to the archive it was made from.
decryptFile == sealed[disk.enc] = disk.tar
\* prepareCipher: a ciphertext of an earlier attempt is opened and compared before it is used again.
prepareCipher ==
    /\ UNCHANGED <<charge, remote, parts, sealed, rst>>
    /\ \/ /\ cap.pc = "cipher" /\ disk.enc \in {0, Torn} /\ Len(sealed) < MaxSealed
          /\ disk' = [disk EXCEPT !.enc = 0] /\ Cap("seal") /\ UNCHANGED stops
       \/ /\ cap.pc = "cipher" /\ disk.enc \notin {0, Torn}
          /\ disk' = [disk EXCEPT !.chk = TRUE] /\ Cap("compare") /\ UNCHANGED stops
       \/ /\ cap.pc = "compare" /\ decryptFile
          /\ disk' = [disk EXCEPT !.chk = FALSE] /\ Cap("upload") /\ UNCHANGED stops
       \/ /\ cap.pc = "compare" /\ stops < MaxStops /\ stops' = stops + 1 \* it did not open
          /\ disk' = [disk EXCEPT !.chk = FALSE, !.enc = 0] /\ Cap("cipher")
\* encryptFile: a fresh nonce makes every ciphertext a new one; a crash leaves it torn.
encryptFile ==
    /\ cap.pc = "seal" /\ UNCHANGED <<charge, remote, parts, rst, stops>>
    /\ \/ disk.enc = 0 /\ disk' = [disk EXCEPT !.enc = Torn] /\ UNCHANGED <<sealed, cap>>
       \/ /\ disk.enc = Torn /\ sealed' = Append(sealed, disk.tar)
          /\ disk' = [disk EXCEPT !.enc = Len(sealed) + 1] /\ Cap("upload")

Latest == Max({v \in DOMAIN remote : remote[v] # 0} \cup {0})
\* Mutant of prior: the latest version is taken for this ciphertext without reading it.
AnyVersion == Latest # 0
\* A version an earlier attempt left is used when it holds this very ciphertext.
prior == Latest # 0 /\ remote[Latest] = disk.enc
\* upload and uploadFile: otherwise the prefix is emptied and the file goes up in parts.
upload ==
    /\ UNCHANGED <<disk, charge, sealed, rst>>
    /\ \/ /\ cap.pc = "upload" /\ prior /\ cap' = [cap EXCEPT !.pc = "receipt", !.ver = Latest]
          /\ UNCHANGED <<remote, parts, stops>>
       \/ /\ cap.pc = "upload" /\ ~prior /\ clean /\ Cap("send") /\ UNCHANGED stops
       \/ /\ cap.pc = "send" /\ Len(remote) < MaxObjects /\ parts' = TRUE /\ Cap("complete") /\ UNCHANGED <<remote, stops>>
       \/ /\ cap.pc = "complete" /\ parts' = FALSE /\ remote' = Append(remote, disk.enc)
          /\ \/ cap' = [cap EXCEPT !.pc = "receipt", !.ver = Len(remote) + 1] /\ UNCHANGED stops
             \/ stops < MaxStops /\ stops' = stops + 1 /\ Cap("idle") \* the answer is lost, the abort finds nothing
       \/ /\ cap.pc = "complete" /\ stops < MaxStops /\ stops' = stops + 1 \* a part failed: abort
          /\ parts' = FALSE /\ Cap("idle") /\ UNCHANGED remote

\* The receipt, then the archive and the ciphertext, then the rest of the staging.
writeReceipt ==
    /\ cap.pc = "receipt" /\ UNCHANGED charge /\ keepRemote
    /\ disk' = [disk EXCEPT !.receipt = [ver |-> cap.ver, cipher |-> disk.enc, gen |-> Gen]]
    /\ cap' = [cap EXCEPT !.pc = "release", !.next = "done"]

Capture == \/ existingReceipt \/ captureIntent \/ admitCapture \/ releaseCapture \/ clearLeftovers \/ writeBackup
           \/ discard \/ verifyBackup \/ boundedMetadata \/ prepareCipher \/ encryptFile \/ upload \/ writeReceipt

-----------------------------------------------------------------------------
(* Restore *)

R(r, x) == rst' = [rst EXCEPT ![r] = x] /\ UNCHANGED <<cap, disk, charge, remote, parts, sealed, stops>>
Scratch(x) == x.enc \/ x.tar \/ x.verify \/ x.stage \/ x.held # {}

\* bindRestoreIntent, then the lock of the shared folder: one restore runs at a time.  Its input is the receipt a
\* finished capture returned, and the source has stopped.
bindRestoreIntent(r) ==
    LET x == rst[r] IN
    /\ cap.pc = "done" /\ x.pc = "idle" /\ \A o \in Restore : rst[o].pc \in {"idle", "done"}
    /\ x.intent \/ (~x.data /\ ~x.stage /\ x.held = {} /\ x.out = {})
    /\ R(r, [x EXCEPT !.intent = TRUE, !.pc = IF x.result THEN "finish" ELSE "admit"])
\* admit: the records of the other restores count in full.
admit(r) ==
    LET x == rst[r] IN
    /\ x.pc = "admit" /\ Cardinality({o \in Restore \ {r} : rst[o].record}) < Staging
    /\ R(r, [x EXCEPT !.record = TRUE, !.pc = "clear"])
\* The scratch of an earlier attempt is removed, the object downloaded, opened and verified.
download(r) ==
    LET x == rst[r] IN
    \/ x.pc = "clear" /\ R(r, [x EXCEPT !.verify = FALSE, !.enc = FALSE, !.tar = FALSE, !.pc = "download"])
    \/ x.pc = "download" /\ R(r, [x EXCEPT !.enc = TRUE, !.pc = "open"])
    \/ x.pc = "open" /\ R(r, [x EXCEPT !.tar = TRUE, !.pc = "check"])
    \/ x.pc = "check" /\ R(r, [x EXCEPT !.verify = TRUE, !.pc = "checked"])
    \/ x.pc = "checked" /\ R(r, [x EXCEPT !.verify = FALSE, !.pc = "stages"])

\* Mutant of removeRestoreStages: a retry always starts with empty stages.
AlwaysEmpty(x) == [x EXCEPT !.stage = FALSE, !.held = {}, !.pc = IF x.data THEN "published" ELSE "stage"]
\* Stages are emptied only while the data folder was not published.
removeRestoreStages(x) ==
    IF x.data THEN [x EXCEPT !.pc = "published"] ELSE [x EXCEPT !.stage = FALSE, !.held = {}, !.pc = "stage"]
\* restoreBackup: extract and rebase in the stage, then one rename; a failure before it empties both stages.
restoreBackup(r) ==
    LET x == rst[r] IN
    \/ x.pc = "stages" /\ R(r, removeRestoreStages(x))
    \/ x.pc = "stage" /\ ~x.stage /\ R(r, [x EXCEPT !.stage = TRUE])
    \/ x.pc = "stage" /\ x.stage /\ x.held # Archive /\ \E a \in Archive \ x.held : R(r, [x EXCEPT !.held = @ \cup {a}])
    \/ x.pc = "stage" /\ x.stage /\ x.held # Archive /\ R(r, [x EXCEPT !.stage = FALSE, !.held = {}, !.pc = "idle"])
    \/ x.pc = "stage" /\ x.stage /\ x.held = Archive
       /\ R(r, [x EXCEPT !.stage = FALSE, !.data = TRUE, !.bound = Archive, !.pc = "published"])
\* published: the source's own staging reservation, copied with its database, is retired on the new volume.
published(r) ==
    LET x == rst[r] IN
    /\ x.pc = "published"
    /\ R(r, CASE x.source = "reserved" -> [x EXCEPT !.source = "releasing"]
              [] x.source = "releasing" -> [x EXCEPT !.source = "released"]
              [] OTHER -> [x EXCEPT !.pc = "link"])
\* publishRestoreCheckpoints: link, then unlink; either changes the ctime the database recorded.
publishCheckpoint(r, a) ==
    LET x == rst[r] IN
    /\ x.pc = "link" /\ a \in x.held
    /\ R(r, IF a \notin x.out THEN [x EXCEPT !.out = @ \cup {a}, !.bound = @ \ {a}]
            ELSE [x EXCEPT !.held = @ \ {a}, !.bound = @ \ {a}])
checkpointsPublished(r) ==
    LET x == rst[r] IN x.pc = "link" /\ x.held = {} /\ x.out = Archive /\ R(r, [x EXCEPT !.pc = "rebind"])
\* Mutant of reconcileRestoredPublications: only what this attempt linked is recorded again.
SkipsRebinding(r) == rst[r].pc = "rebind" /\ R(r, [rst[r] EXCEPT !.pc = "mark"])
\* reconcileRestoredPublications: one transaction over archives that have a single link.
reconcileRestoredPublications(r) ==
    LET x == rst[r] IN
    x.pc = "rebind" /\ x.held = {} /\ R(r, [x EXCEPT !.bound = x.out, !.pc = "mark"])
\* restoreOffNodeBackup, its end: the account starts suspended, the result, and the scratch.
finishRestore(r) ==
    LET x == rst[r] IN
    \/ x.pc = "mark" /\ R(r, [x EXCEPT !.marked = TRUE, !.pc = "result"])
    \/ x.pc = "result" /\ R(r, [x EXCEPT !.result = TRUE, !.pc = "finish"])
    \/ x.pc = "finish" /\ Scratch(x)
       /\ R(r, [x EXCEPT !.stage = FALSE, !.held = {}, !.verify = FALSE, !.enc = FALSE, !.tar = x.enc /\ @])
    \/ x.pc = "finish" /\ ~Scratch(x) /\ R(r, [x EXCEPT !.record = FALSE, !.pc = "done"])

\* A crash, or an error where no handler runs: the disk stays as it is and the operation is run again.
Stopped ==
    /\ stops < MaxStops /\ stops' = stops + 1
    /\ cap' = [cap EXCEPT !.pc = IF @ = "done" THEN @ ELSE "idle"]
    /\ rst' = [r \in Restore |-> [rst[r] EXCEPT !.pc = IF @ = "done" THEN @ ELSE "idle"]]
    /\ UNCHANGED <<disk, charge, remote, parts, sealed>>

Restores == \E r \in Restore :
    \/ bindRestoreIntent(r) \/ admit(r) \/ download(r) \/ restoreBackup(r) \/ published(r)
    \/ checkpointsPublished(r) \/ reconcileRestoredPublications(r) \/ finishRestore(r)
    \/ \E a \in Archive : publishCheckpoint(r, a)

ArchiveNext == Capture \/ Restores \/ Stopped

-----------------------------------------------------------------------------
\* A receipt always leads back to the backup: the version it names is there and holds the ciphertext of the
\* archive of its own generation (writeReceipt, upload, clean).
ReceiptIsRecoverable ==
    disk.receipt # NoCopy => /\ remote[disk.receipt.ver] = disk.receipt.cipher
                             /\ sealed[disk.receipt.cipher] = disk.receipt.gen

\* Scratch on disk is charged, no reservation outlives its capture, and the records of the restores never
\* promise more than the staging policy (admitCapture, releaseCapture, admit, release).
ScratchIsCharged ==
    /\ capturePaths => \E g \in DOMAIN charge : charge[g] # "released"
    /\ Cardinality({g \in DOMAIN charge : charge[g] # "released"}) <= 1
    /\ cap.pc = "done" => ~capturePaths /\ \A g \in DOMAIN charge : charge[g] = "released"
    /\ \A r \in Restore : Scratch(rst[r]) => rst[r].record
    /\ Cardinality({r \in Restore : rst[r].record}) <= Staging

\* A published data folder never loses an archive its database names, and a result promises all of them, each
\* under one name and with the identity the database holds, on a suspended account (restoreOffNodeBackup).
RestoreLosesNothing ==
    \A r \in Restore : LET x == rst[r] IN
        /\ x.data => x.held \cup x.out = Archive
        /\ x.result => /\ x.data /\ x.out = Archive /\ x.held = {} /\ x.bound = Archive
                       /\ x.marked /\ x.source = "released"
================================================================================
