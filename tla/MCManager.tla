------------------------------- MODULE MCManager -------------------------------
(***************************************************************************)
(* The life of an account on small instances: the manager's operations on  *)
(* it, its purge, the manager's own source, and in the account's control   *)
(* server the deletion journal and the maintenance windows.                *)
(*                                                                         *)
(* One of them acts in a behaviour, the one that part names, and they take *)
(* turns in the same slots, as in MCServer.                                *)
(***************************************************************************)

CONSTANTS Releases, First, OffNode, MaxOps, MaxPods, MaxFaults, Ids, MaxRestarts, Hosts,
    MaxTransfers, MaxOutages, Item, MaxFolders, MaxRecords, MaxCrashes, Place, WindowOps,
    MaxFailures

VARIABLES part, slot1, slot2, slot3, slot4, slot5, slot6, slot7, slot8, slot9, slot10, slot11,
    slot12, slot13, slot14, slot15, slot16, slot17, slot18, slot19

Accounts == INSTANCE ManagerAccounts WITH offNode <- slot1, acct <- slot2, ops <- slot3,
    backups <- slot4, work <- slot5, dep <- slot6, pods <- slot7, vols <- slot8, job <- slot9,
    runtimes <- slot10, faults <- slot11

Purge == INSTANCE ManagerPurge WITH mgr <- slot1, restarts <- slot2, db <- slot3, archive <- slot4,
    intent <- slot5, acked <- slot6, hist <- slot7, space <- slot8, ctl <- slot9, fenced <- slot10,
    drains <- slot11, bytes <- slot12, late <- slot13, drawn <- slot14, prog <- slot15,
    targets <- slot16, completion <- slot17, creator <- slot18, pass <- slot19

Source == INSTANCE ManagerSource WITH volume <- slot1, power <- slot2, proc <- slot3,
    claims <- slot4, prepared <- slot5, finished <- slot6, marker <- slot7, progress <- slot8,
    orders <- slot9, outages <- slot10

Journal == INSTANCE DeletionJournal WITH offsite <- slot1, folder <- slot2, jour <- slot3,
    run <- slot4, work <- slot5, claims <- slot6, heads <- slot7, backups <- slot8,
    promised <- slot9, crashes <- slot10

Window == INSTANCE Maintenance WITH MaxOps <- WindowOps, mode <- slot1, active <- slot2,
    fenced <- slot3, muted <- slot4, admitted <- slot5, window <- slot6, space <- slot7,
    job <- slot8, object <- slot9, warm <- slot10, spare <- slot11, keys <- slot12,
    account <- slot13, op <- slot14, intent <- slot15, purge <- slot16, cleanup <- slot17,
    unfenced <- slot18, failures <- slot19

\* Slot n and those after it are unused: empty at first, and left alone.
EmptyFrom12 == slot12 = 0 /\ slot13 = 0 /\ slot14 = 0 /\ slot15 = 0 /\ slot16 = 0 /\ slot17 = 0 /\ slot18 = 0 /\ slot19 = 0
EmptyFrom11 == slot11 = 0 /\ EmptyFrom12

SameFrom12 == UNCHANGED <<slot12, slot13, slot14, slot15, slot16, slot17, slot18, slot19>>
SameFrom11 == UNCHANGED <<slot11>> /\ SameFrom12

MCInit ==
    \/ part = "accounts" /\ Accounts!Init /\ EmptyFrom12
    \/ part = "purge" /\ Purge!PurgeInit
    \/ part = "source" /\ Source!SourceInit /\ EmptyFrom11
    \/ part = "journal" /\ Journal!JournalInit /\ EmptyFrom11
    \/ part = "maintenance" /\ Window!MaintenanceInit

MCNext ==
    /\ UNCHANGED part
    /\ \/ part = "accounts" /\ Accounts!Next /\ SameFrom12
       \/ part = "purge" /\ Purge!PurgeNext
       \/ part = "source" /\ Source!SourceNext /\ SameFrom11
       \/ part = "journal" /\ Journal!JournalNext /\ SameFrom11
       \/ part = "maintenance" /\ Window!MaintenanceNext

\* Release 2 keeps the data of release 1, release 3 extends it.
Catalog ==
    {[version |-> 1, data |-> 1, upgradesFrom |-> {}, rollbackTo |-> {}],
     [version |-> 2, data |-> 1, upgradesFrom |-> {1}, rollbackTo |-> {1}],
     [version |-> 3, data |-> 2, upgradesFrom |-> {1, 2}, rollbackTo |-> {1}]}

\* Only one controller writes an account's data, and its release knows that data, however an
\* upgrade, a rollback or a restore is retried (controller-stop.ts, releases.ts).
ControllersAreSafe == part = "accounts" => Accounts!ControllersNeverMix /\ Accounts!FormatUnderstood

\* An upgrade that may have changed data can be undone, a suspended account runs nothing and a
\* ready one serves (upgrade/reconcile.ts, reconcile-suspend.ts).
AccountsAreAsShown ==
    part = "accounts" => Accounts!RecoveryPointKept /\ Accounts!SuspendedIsQuiet /\ Accounts!ReadyServes

\* A purge that was answered is known to every manager that opens later, waits for whoever may
\* still write, and leaves nothing (authority.ts, purge-physical.ts, reconciliation.ts).
PurgeIsFinal ==
    part = "purge" => Purge!CompletionIsFinal /\ Purge!BytesAfterExit /\ Purge!AckedPurgeHolds

\* An open manager holds the newest completed claim of an unbroken line of transfers
\* (source-transfer.ts, writer.ts).
OpenHasLineage == part = "source" => Source!OpenHasLineage

\* A deletion that was acknowledged holds after every crash and restore, a replaced controller
\* stays closed and the replica is one history (principal-administration.ts, journal-replica.ts).
DenialsHold ==
    part = "journal" => Journal!AckedDenialHolds /\ Journal!ReplacedStaysClosed /\ Journal!ReplicaIsOneHistory

\* Nothing changes while a backup reads, a suspended account has no compute and a drained one no
\* authority; a warm runtime may be left when a resume under way lowered the fence of the purge
\* (maintenance.ts, lifecycle.ts, purge-cleanup.ts, account-lifecycle.ts).
WindowsAreQuiet ==
    part = "maintenance" =>
        Window!CaptureIsQuiet /\ Window!SuspendedHasNoCompute /\ Window!DrainedHasNoAuthority
================================================================================
