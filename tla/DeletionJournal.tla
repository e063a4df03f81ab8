---------------------------- MODULE DeletionJournal ----------------------------
(***************************************************************************)
(* The journal of revocations and deletions, its off-node replica, and the *)
(* backups and restores it protects.  A data folder is a number in the     *)
(* order of creation; it lives on a host, next to a journal that a restore *)
(* of the folder cannot roll back.  A controller that runs on a folder     *)
(* holds the lock of its host's journal.                                   *)
(*                                                                         *)
(* An item stands for whatever a record names: a key, a principal, a       *)
(* secret or template version, a conversation, a checkpoint, a workspace.  *)
(* A digest chain is modelled by the sequence it digests, so a cursor is   *)
(* the prefix of the journal it points at.                                 *)
(***************************************************************************)
EXTENDS Naturals, Sequences, FiniteSets, SequencesExt

CONSTANTS
    Item,         \* what can be denied
    MaxFolders,   \* bound on the data folders
    MaxRecords,   \* bound on the records of a journal
    MaxCrashes    \* bound on crashes of controllers

VARIABLES
    offsite,    \* an off-node replica is configured
    folder,     \* the data folders: [host, denied, recovery, stale, cursor, source]
    jour,       \* the journal of each host
    run,        \* the folder the controller of a host runs on, 0 when it is down
    work,       \* the calls in flight of each host's controller
    claims,     \* remote writer claims: [gen, writer, snap]
    heads,      \* remote journal heads: [gen, writer, snap]
    backups,    \* published archives: [denied, cursor, off]
    promised,   \* items whose denial was answered and that nobody asked to allow again
    crashes

journalVars == <<offsite, folder, jour, run, work, claims, heads, backups, promised, crashes>>
remoteVars == <<claims, heads>>

Host == 1..2
Slot == 1..2
Folders == DOMAIN folder
Idle1 == [kind |-> "none", item |-> "none", pc |-> "idle", gen |-> 0, snap |-> <<>>]
Writer(f) == [kind |-> "writer", what |-> f]
Denial(k, i) == [kind |-> k, what |-> i]

JournalInit ==
    /\ offsite \in BOOLEAN
    /\ folder = <<[host |-> 1, denied |-> {}, recovery |-> FALSE, stale |-> FALSE, cursor |-> <<>>, source |-> 0]>>
    /\ jour = [h \in Host |-> <<>>] /\ run = [h \in Host |-> 0]
    /\ work = [h \in Host |-> [s \in Slot |-> Idle1]]
    /\ claims = {} /\ heads = {} /\ backups = {} /\ promised = {} /\ crashes = 0

-----------------------------------------------------------------------------
(* The journal file *)

\* append: the record is on disk before the change it describes; a write that fails leaves nothing behind.
append(h, r) == Len(jour[h]) < MaxRecords /\ jour' = [jour EXCEPT ![h] = Append(@, r)]

\* lastWriter: the folder that claimed the journal last, 0 for none.
lastWriter(j) ==
    LET w == {n \in DOMAIN j : j[n].kind = "writer"} IN IF w = {} THEN 0 ELSE j[Max(w)].what

\* bindJournal: outside recovery only the folder that claimed the journal last may open.
bindJournal(h, f) ==
    \/ folder[f].recovery /\ UNCHANGED jour
    \/ ~folder[f].recovery /\ lastWriter(jour[h]) = 0 /\ append(h, Writer(f))
    \/ ~folder[f].recovery /\ lastWriter(jour[h]) = f /\ UNCHANGED jour

\* The manager keeps the source fenced while its writer claim moves.
Moving(h) == \E g \in Host, s \in Slot : work[g][s].pc = "claim" /\ folder[folder[run[g]].source].host = h

Open(h, f) ==
    /\ run[h] = 0 /\ folder[f].host = h /\ ~Moving(h)
    /\ bindJournal(h, f)
    /\ run' = [run EXCEPT ![h] = f]
    /\ UNCHANGED <<offsite, folder, work, remoteVars, backups, promised, crashes>>

\* The controller dies: an open transaction is rolled back, its record stays.
Crash1(h) ==
    /\ run[h] # 0 /\ crashes < MaxCrashes /\ crashes' = crashes + 1
    /\ run' = [run EXCEPT ![h] = 0]
    /\ work' = [work EXCEPT ![h] = [s \in Slot |-> Idle1]]
    /\ UNCHANGED <<offsite, folder, jour, remoteVars, backups, promised>>

Serving(h) == run[h] # 0 /\ ~folder[run[h]].recovery

-----------------------------------------------------------------------------
(* The replica *)

\* covered: one journal holds all of another.
covered(snap, j) == IsPrefix(snap, j)
covers(j, cursor) == IsPrefix(cursor, j)

\* currentClaim: the claim of the highest generation with the longest head below it.
TopClaims == {c \in claims : \A d \in claims : d.gen <= c.gen}
HeadsOf(c) == {x \in heads : x.gen = c.gen /\ x.writer = c.writer}
TopHeads(c) ==
    LET all == {c.snap} \cup {x.snap : x \in HeadsOf(c)} IN {s \in all : \A t \in all : Len(t) <= Len(s)}
Ambiguous == \/ Cardinality(TopClaims) > 1
             \/ \E c \in TopClaims : Cardinality(TopHeads(c)) > 1
currentClaim ==
    IF claims = {} THEN [gen |-> 0, writer |-> 0, snap |-> <<>>]
    ELSE LET c == CHOOSE x \in TopClaims : TRUE IN
         [gen |-> c.gen, writer |-> c.writer, snap |-> CHOOSE s \in TopHeads(c) : TRUE]

-----------------------------------------------------------------------------
(* Calls of a controller *)

Free1(h, s) == work[h][s] = Idle1 /\ \A t \in 1..s - 1 : work[h][t] # Idle1
Acknowledging(h) == \E s \in Slot : work[h][s].pc \in {"put", "prove", "claim"}
Set1(h, s, w) == work' = [work EXCEPT ![h][s] = w]
Go(h, s, pc) == work' = [work EXCEPT ![h][s].pc = pc]
Start(h, s, k, i, pc) == Free1(h, s) /\ Set1(h, s, [Idle1 EXCEPT !.kind = k, !.item = i, !.pc = pc])

\* A restriction journals its record inside its transaction, a grant only after it has committed.
Mutate(h, s, k, i) ==
    /\ Serving(h)
    /\ \A t \in Slot : work[h][t].pc \notin {"appended", "granting"}     \* the transaction locks what it changes
    /\ \/ k = "deny" /\ append(h, Denial(k, i)) /\ Start(h, s, k, i, "appended")
       \/ k = "allow" /\ i \in folder[run[h]].denied /\ Start(h, s, k, i, "granting") /\ UNCHANGED jour
    /\ UNCHANGED <<offsite, folder, run, remoteVars, backups, promised, crashes>>

\* Denied items after one record.
applyRecord(denied, r) ==
    IF r.kind = "deny" THEN denied \cup {r.what} ELSE IF r.kind = "allow" THEN denied \ {r.what} ELSE denied

\* Mutant of Commit: the change is answered before its record is acknowledged.
CommitAnswers(h, s) ==
    /\ work[h][s].pc = "appended"
    /\ LET w == work[h][s] IN
       /\ folder' = [folder EXCEPT ![run[h]].denied = applyRecord(@, Denial(w.kind, w.item))]
       /\ promised' = IF w.kind = "deny" THEN promised \cup {w.item} ELSE promised
    /\ Set1(h, s, Idle1)
    /\ UNCHANGED <<offsite, jour, run, remoteVars, backups, crashes>>

\* The transaction commits.
Commit(h, s) ==
    /\ work[h][s].pc = "appended"
    /\ folder' = [folder EXCEPT ![run[h]].denied = applyRecord(@, Denial(work[h][s].kind, work[h][s].item))]
    /\ Go(h, s, "acknowledge")
    /\ UNCHANGED <<offsite, jour, run, remoteVars, backups, promised, crashes>>

\* A grant commits and is journaled; a record that is lost leaves a restored controller narrower, never wider.
Grant(h, s) ==
    /\ work[h][s].pc = "granting"
    /\ folder' = [folder EXCEPT ![run[h]].denied = @ \ {work[h][s].item}]
    /\ promised' = promised \ {work[h][s].item}
    /\ \/ append(h, Denial("allow", work[h][s].item)) /\ Go(h, s, "acknowledge")
       \/ Set1(h, s, Idle1) /\ UNCHANGED jour
    /\ UNCHANGED <<offsite, run, remoteVars, backups, crashes>>

\* The call has ended: a denial that was acknowledged is promised, a recovery goes on or opens service.
Answer(h, s) ==
    LET w == work[h][s] IN
    /\ promised' = IF w.kind = "deny" /\ w.item \in folder[run[h]].denied THEN promised \cup {w.item} ELSE promised
    /\ folder' = IF w.kind = "finish" THEN [folder EXCEPT ![run[h]].recovery = FALSE] ELSE folder
    /\ Set1(h, s, IF w.kind = "recover" THEN [w EXCEPT !.pc = "replay", !.gen = 0, !.snap = <<>>] ELSE Idle1)
Fail(h, s) == Set1(h, s, Idle1) /\ UNCHANGED <<folder, promised>>

\* acknowledgeJournal: the first start claims the replica; a later call retries what is pending.
acknowledgeJournal(h, s) ==
    /\ Serving(h) /\ offsite /\ currentClaim.snap # jour[h]     \* else the call changes nothing
    /\ \A t \in Slot : work[h][t].kind # "sync"
    /\ Start(h, s, "sync", "none", "acknowledge")
    /\ UNCHANGED <<offsite, folder, jour, run, remoteVars, backups, promised, crashes>>

\* acknowledge: the replica must belong to this writer and be covered by the local journal.
acknowledge(h, s) ==
    LET w == work[h][s]
        f == run[h]
        c == currentClaim IN
    /\ w.pc = "acknowledge" /\ ~Acknowledging(h)
    /\ IF ~offsite THEN Answer(h, s) /\ UNCHANGED claims
       ELSE IF claims = {}
       THEN IF jour[h] = <<Writer(f)>>
            THEN /\ claims' = {[gen |-> 0, writer |-> f, snap |-> jour[h]]}
                 /\ Set1(h, s, [w EXCEPT !.pc = "put", !.gen = 0, !.snap = jour[h]])
                 /\ UNCHANGED <<folder, promised>>
            ELSE Fail(h, s) /\ UNCHANGED claims
       ELSE /\ UNCHANGED claims
            /\ IF Ambiguous \/ c.writer # f \/ ~covered(c.snap, jour[h]) THEN Fail(h, s)
               ELSE IF c.snap = jour[h] THEN Answer(h, s)
               ELSE /\ Set1(h, s, [w EXCEPT !.pc = "put", !.gen = c.gen, !.snap = jour[h]])
                    /\ UNCHANGED <<folder, promised>>
    /\ UNCHANGED <<offsite, jour, run, heads, backups, crashes>>

\* publish puts the head of this writer, then reads the replica back.
publish(h, s) ==
    /\ work[h][s].pc = "put"
    /\ heads' = heads \cup {[gen |-> work[h][s].gen, writer |-> run[h], snap |-> work[h][s].snap]}
    /\ Go(h, s, "prove")
    /\ UNCHANGED <<offsite, folder, jour, run, claims, backups, promised, crashes>>
Proved(h, s) ==
    LET w == work[h][s]
        c == currentClaim IN
    /\ w.pc = "prove"
    /\ IF Ambiguous \/ c.writer # run[h] \/ c.snap # w.snap THEN Fail(h, s)
       ELSE IF jour[h] # w.snap THEN Go(h, s, "acknowledge") /\ UNCHANGED <<folder, promised>>
       ELSE Answer(h, s)
    /\ UNCHANGED <<offsite, jour, run, remoteVars, backups, crashes>>

-----------------------------------------------------------------------------
(* Backup and restore *)

\* writeBackup: what the archive holds, with the journal position it was taken at.
writeBackup(h) == [denied |-> folder[run[h]].denied, cursor |-> jour[h], off |-> FALSE]

\* captureDatabase runs while no transaction is open: the journal head covers the copy.
Backup1(h) ==
    /\ Serving(h) /\ backups = {}
    /\ \A s \in Slot : work[h][s].pc \notin {"appended", "granting"}
    /\ backups' = {writeBackup(h)}
    /\ UNCHANGED <<offsite, folder, jour, run, work, remoteVars, promised, crashes>>

\* createOffNodeBackup uploads the archive and writes its receipt once the replica covers the journal.
Upload1(h) ==
    /\ offsite /\ Serving(h) /\ ~Ambiguous
    /\ \E b \in backups :
        /\ ~b.off /\ currentClaim.writer = run[h] /\ IsPrefix(b.cursor, currentClaim.snap)
        /\ backups' = {[b EXCEPT !.off = TRUE]}
    /\ UNCHANGED <<offsite, folder, jour, run, work, remoteVars, promised, crashes>>

NewFolder(h, b, src) ==
    /\ Cardinality(Folders) < MaxFolders
    /\ folder' = Append(folder, [host |-> h, denied |-> b.denied, recovery |-> TRUE, stale |-> TRUE,
                                cursor |-> b.cursor, source |-> src])

\* restoreBackup: a new folder beside the same journal; the rename publishes all of it or nothing.
restoreBackup ==
    /\ \E b \in backups : NewFolder(1, b, 0)
    /\ UNCHANGED <<offsite, jour, run, work, remoteVars, backups, promised, crashes>>

installJournal(h, snap) == jour' = [jour EXCEPT ![h] = snap]

\* restoreOffNodeBackup: a new host with the current replica as its journal.
restoreOffNodeBackup ==
    /\ offsite /\ claims # {} /\ ~Ambiguous /\ \A f \in Folders : folder[f].host # 2
    /\ \E b \in backups :
        /\ b.off /\ covers(currentClaim.snap, b.cursor)
        /\ NewFolder(2, b, currentClaim.writer)
    /\ installJournal(2, currentClaim.snap)
    /\ UNCHANGED <<offsite, run, work, remoteVars, backups, promised, crashes>>

\* transfer: the manager has proved that no compute of the source is left.
SourceDead(f) == folder[f].source # 0 /\ run[folder[folder[f].source].host] = 0

\* Mutant of transfer: the replica is not compared with the journal that replaces it.
TransferUncovered(h, s) ==
    LET c == currentClaim IN
    /\ run[h] # 0 /\ folder[run[h]].recovery /\ SourceDead(run[h]) /\ claims # {} /\ ~Ambiguous /\ ~Acknowledging(h)
    /\ c.writer = folder[run[h]].source
    /\ Free1(h, s) /\ Set1(h, s, [Idle1 EXCEPT !.kind = "transfer", !.pc = "claim", !.gen = c.gen + 1, !.snap = jour[h]])
    /\ UNCHANGED <<offsite, folder, jour, run, remoteVars, backups, promised, crashes>>

transfer(h, s) ==
    LET c == currentClaim IN
    /\ run[h] # 0 /\ folder[run[h]].recovery /\ SourceDead(run[h]) /\ claims # {} /\ ~Ambiguous /\ ~Acknowledging(h)
    /\ covered(c.snap, jour[h])
    /\ Free1(h, s)
    /\ \/ /\ c.writer = run[h] /\ c.snap # jour[h]
          /\ Set1(h, s, [Idle1 EXCEPT !.kind = "transfer", !.pc = "put", !.gen = c.gen, !.snap = jour[h]])
       \/ /\ c.writer = folder[run[h]].source
          /\ Set1(h, s, [Idle1 EXCEPT !.kind = "transfer", !.pc = "claim", !.gen = c.gen + 1, !.snap = jour[h]])
    /\ UNCHANGED <<offsite, folder, jour, run, remoteVars, backups, promised, crashes>>
ClaimWriter(h, s) ==
    /\ work[h][s].pc = "claim" /\ SourceDead(run[h])
    /\ claims' = claims \cup {[gen |-> work[h][s].gen, writer |-> run[h], snap |-> work[h][s].snap]}
    /\ Go(h, s, "put")
    /\ UNCHANGED <<offsite, folder, jour, run, heads, backups, promised, crashes>>

\* completeRecovery: acknowledge, replay the whole journal, fence and purge, claim the journal, acknowledge, open.
completeRecovery(h, s) ==
    /\ run[h] # 0 /\ folder[run[h]].recovery
    /\ \A t \in Slot : work[h][t].kind \notin {"recover", "finish"}
    /\ Start(h, s, "recover", "none", "acknowledge")
    /\ UNCHANGED <<offsite, folder, jour, run, remoteVars, backups, promised, crashes>>

\* recoveryEvents and applyRecord, one transaction per record; a journal that misses the backup's position stops it.
replay1(h, s) ==
    LET w == work[h][s]
        f == run[h] IN
    /\ w.pc = "replay"
    /\ \/ ~IsPrefix(folder[f].cursor, jour[h]) /\ Set1(h, s, Idle1) /\ UNCHANGED folder
       \/ /\ IsPrefix(folder[f].cursor, jour[h]) /\ Len(w.snap) < Len(jour[h])
          /\ LET r == jour[h][Len(w.snap) + 1] IN
             /\ folder' = [folder EXCEPT ![f].denied = applyRecord(@, r)]
             /\ Set1(h, s, [w EXCEPT !.snap = Append(@, r)])
       \/ w.snap = jour[h] /\ Set1(h, s, [w EXCEPT !.pc = "fence", !.snap = <<>>]) /\ UNCHANGED folder
    /\ UNCHANGED <<offsite, jour, run, remoteVars, backups, promised, crashes>>

\* fenceRuntimes: the old controller's workspaces fail and their runtimes and leases go, or recovery stops here.
fenceRuntimes(h, s) ==
    /\ work[h][s].pc = "fence"
    /\ \/ folder' = [folder EXCEPT ![run[h]].stale = FALSE] /\ Go(h, s, "delete")
       \/ Set1(h, s, Idle1) /\ UNCHANGED folder
    /\ UNCHANGED <<offsite, jour, run, remoteVars, backups, promised, crashes>>

\* replayDeletion: the restored bytes of every journaled deletion are deleted again, or recovery stops here.
replayDeletion(h, s) ==
    /\ work[h][s].pc = "delete"
    /\ Go(h, s, "claimant") \/ Set1(h, s, Idle1)
    /\ UNCHANGED <<offsite, folder, jour, run, remoteVars, backups, promised, crashes>>

\* Mutant of finishRecovery: the journal keeps the writer of the old folder.
FinishUnclaimed(h, s) ==
    /\ work[h][s].pc = "claimant" /\ UNCHANGED jour
    /\ Set1(h, s, [work[h][s] EXCEPT !.kind = "finish", !.pc = "acknowledge"])
    /\ UNCHANGED <<offsite, folder, run, remoteVars, backups, promised, crashes>>

\* finishRecovery: the journal's claim moves to this folder, which closes the old one.
finishRecovery(h, s) ==
    /\ work[h][s].pc = "claimant"
    /\ IF lastWriter(jour[h]) = run[h] THEN UNCHANGED jour ELSE append(h, Writer(run[h]))
    /\ Set1(h, s, [work[h][s] EXCEPT !.kind = "finish", !.pc = "acknowledge"])
    /\ UNCHANGED <<offsite, folder, run, remoteVars, backups, promised, crashes>>

JournalNext ==
    \/ restoreBackup \/ restoreOffNodeBackup
    \/ \E h \in Host :
        \/ \E f \in Folders : Open(h, f)
        \/ Crash1(h) \/ Backup1(h) \/ Upload1(h)
        \/ \E s \in Slot :
            \/ \E i \in Item, k \in {"deny", "allow"} : Mutate(h, s, k, i)
            \/ Commit(h, s) \/ Grant(h, s) \/ acknowledgeJournal(h, s) \/ acknowledge(h, s) \/ publish(h, s) \/ Proved(h, s)
            \/ transfer(h, s) \/ ClaimWriter(h, s) \/ completeRecovery(h, s) \/ replay1(h, s)
            \/ fenceRuntimes(h, s) \/ replayDeletion(h, s) \/ finishRecovery(h, s)

-----------------------------------------------------------------------------
\* A revocation or deletion that was answered stays in force in every controller that may speak for the
\* account, through crashes, restores of older backups and a move to another host (after, completeRecovery).
AckedDenialHolds ==
    \A h \in Host : Serving(h) /\ (offsite => currentClaim.writer = run[h]) => promised \subseteq folder[run[h]].denied

\* Once a restored folder has claimed the journal of its host, the folder it replaced serves no more, even if
\* it is started again, and a restored folder serves only once the old runtimes are fenced (bindJournal, finishRecovery).
ReplacedStaysClosed ==
    \A h \in Host : Serving(h) => lastWriter(jour[h]) = run[h] /\ ~folder[run[h]].stale

\* The replica never forks: whatever was acknowledged by one writer is part of all that later ones acknowledge
\* (covered, transfer).
ReplicaIsOneHistory ==
    LET all == {c.snap : c \in claims} \cup {x.snap : x \in heads} IN
    \A s, t \in all : IsPrefix(s, t) \/ IsPrefix(t, s)
================================================================================
