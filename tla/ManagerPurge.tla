------------------------------ MODULE ManagerPurge ------------------------------
(***************************************************************************)
(* The purge of a managed account.  Everything here belongs to one create  *)
(* request: the accounts made under it (more than one when the manager's   *)
(* database was restored from an older backup and the request repeated),   *)
(* their rows, their provision history, namespaces, controllers, volumes   *)
(* and archives, the permanent intent, the records of its progress and the *)
(* completion.                                                             *)
(*                                                                         *)
(* The database may be rolled back; the purge directory and the object     *)
(* store are independent of it.  A record is kept at one of three levels:  *)
(* "none", "local" (written in the directory) and "remote" (acknowledged   *)
(* by the object store too).  The directory may be replaced by an older    *)
(* copy, which forgets what is only local.                                 *)
(***************************************************************************)
EXTENDS Naturals, FiniteSets, FiniteSetsExt

CONSTANTS
    Ids,          \* account IDs, numbered in the order they are drawn
    MaxRestarts   \* bound on stops, crashes included

VARIABLES
    mgr,        \* the manager: "open", "down", or restored and "replaying"
    restarts,
    db,         \* account rows: "none", "provisioning" or "ready"
    archive,    \* the rows of the manager's own backup
    intent,     \* the purge intent: of which account, known in memory, its level
    acked,      \* the purge request was answered
    hist,       \* provision history: levels of the admission and the start of each account
    space,      \* namespaces: "none", "live", "gone"
    ctl,        \* controllers: "none", "running", "held" by a finalizer, "stopped", "gone"
    fenced,     \* controllers whose keys and leases are revoked for good
    drains,     \* accounts with live workspace runtimes
    bytes,      \* what else each account has: "volumes", archived "objects" and cluster "rbac"
    late,       \* accounts whose namespace a dead manager's request may still create
    drawn,      \* the last account ID drawn
    prog,       \* per account, the level of each stage's record
    targets,    \* the retained inventory of targets and its level
    completion, \* level of the completion
    creator,    \* a create request under way
    pass        \* the reconciler

purgeVars == <<mgr, restarts, db, archive, intent, acked, hist, space, ctl, fenced, drains, bytes, late, drawn,
               prog, targets, completion, creator, pass>>

Stages == {"controllers", "drained", "stopped", "inventory", "deleted"}
NoRow == [a \in Ids |-> "none"]
NoIntent == [of |-> 0, mem |-> FALSE, level |-> "none"]
NoCreator == [pc |-> "idle", id |-> 0]
NoPass == [pc |-> "idle", id |-> 0]

PurgeInit ==
    /\ mgr = "open" /\ restarts = 0
    /\ db = NoRow /\ archive = NoRow
    /\ intent = NoIntent /\ acked = FALSE
    /\ hist = [a \in Ids |-> [admission |-> "none", start |-> "none"]]
    /\ space = NoRow /\ ctl = NoRow /\ fenced = {} /\ drains = {}
    /\ bytes = [a \in Ids |-> {}] /\ late = {} /\ drawn = 0
    /\ prog = [a \in Ids |-> [s \in Stages |-> "none"]]
    /\ targets = [level |-> "none", ids |-> {}, never |-> {}]
    /\ completion = "none"
    /\ creator = NoCreator /\ pass = NoPass

Rows == {a \in Ids : db[a] # "none"}
places == <<space, ctl, fenced, drains, bytes, late>>
records == <<prog, targets, completion>>

-----------------------------------------------------------------------------
(* The authority: what the manager knows of the intent. *)

Intended == intent.mem \/ intent.level # "none"

\* refresh: every intent found in the directory, the store or the journal is known and acknowledged.
refresh == IF Intended THEN [intent EXCEPT !.mem = TRUE, !.level = "remote"] ELSE intent

\* assertAccount and assertRequest: the intent stops every account of its create request.
blocked == refresh.mem

\* Mutant of acknowledge: the request is answered once the directory has the intent.
AcknowledgeLocal ==
    /\ mgr = "open" /\ intent.mem
    /\ intent' = [intent EXCEPT !.level = IF @ = "none" THEN "local" ELSE @]
    /\ acked' = (intent'.level # "none")
    /\ UNCHANGED <<mgr, restarts, db, archive, hist, drawn, creator, pass>> /\ UNCHANGED places /\ UNCHANGED records

\* admit: a purge is admitted for an account the store still has.
admit ==
    /\ mgr = "open" /\ ~Intended
    /\ \E a \in Rows : intent' = [of |-> a, mem |-> TRUE, level |-> "none"]
    /\ UNCHANGED <<mgr, restarts, db, archive, acked, hist, drawn, creator, pass>>
    /\ UNCHANGED places /\ UNCHANGED records

\* acknowledge: the directory, then the account's remote key, from which refresh learns the intent again
\* ("remote"), then the request's key and the journal, which refresh repeats, and only then the answer.
acknowledge ==
    /\ mgr = "open" /\ intent.mem
    /\ intent' = [intent EXCEPT !.level = IF @ = "none" THEN "local" ELSE "remote"]
    /\ acked' = (acked \/ intent.level = "remote")
    /\ UNCHANGED <<mgr, restarts, db, archive, hist, drawn, creator, pass>> /\ UNCHANGED places /\ UNCHANGED records

-----------------------------------------------------------------------------
(* Creating and provisioning an account. *)

Raise(level) == IF level = "none" THEN "local" ELSE "remote"

\* createAccount: the request is refused once it is purged; a row that exists is returned.  A row is
\* inserted under a new ID, and the provision history admits it before the request is answered.
createAccount ==
    /\ mgr = "open"
    /\ \/ /\ creator.pc = "idle" /\ ~refresh.mem
          /\ creator' = [creator EXCEPT !.pc = "insert"]
          /\ UNCHANGED <<db, hist, drawn>>
       \/ /\ creator.pc = "insert"
          /\ \/ Rows # {} /\ creator' = NoCreator /\ UNCHANGED <<db, drawn>>
             \/ /\ Rows = {} /\ drawn + 1 \in Ids
                /\ drawn' = drawn + 1
                /\ db' = [db EXCEPT ![drawn'] = "provisioning"]
                /\ creator' = [pc |-> "admit", id |-> drawn']
          /\ UNCHANGED hist
       \/ /\ creator.pc = "admit"
          /\ hist' = [hist EXCEPT ![creator.id].admission = Raise(@)]
          /\ creator' = IF hist[creator.id].admission # "none" THEN NoCreator ELSE creator
          /\ UNCHANGED <<db, drawn>>
    /\ UNCHANGED <<mgr, restarts, archive, intent, acked, pass>> /\ UNCHANGED places /\ UNCHANGED records

\* The provision operation of an account, in the reconciler's pass after the purges.  The start is
\* acknowledged before the provider is touched, and the account is asked for again after it.
provision ==
    /\ mgr = "open"
    /\ \/ /\ pass.pc = "operations"
          /\ \E a \in Rows :
                /\ db[a] = "provisioning" /\ ~blocked
                /\ pass' = [pc |-> "start", id |-> a]
          /\ UNCHANGED <<db, hist, space, ctl, bytes>>
       \/ /\ pass.pc = "start"
          /\ hist' = [hist EXCEPT ![pass.id].start = Raise(@)]
          /\ pass' = IF hist[pass.id].start # "none" THEN [pass EXCEPT !.pc = "recheck"] ELSE pass
          /\ UNCHANGED <<db, space, ctl, bytes>>
       \/ /\ pass.pc = "recheck"
          /\ pass' = IF blocked THEN NoPass ELSE [pass EXCEPT !.pc = "ensure"]
          /\ UNCHANGED <<db, hist, space, ctl, bytes>>
       \/ /\ pass.pc = "ensure"
          /\ space' = [space EXCEPT ![pass.id] = "live"]
          /\ pass' = [pass EXCEPT !.pc = "ensured"]
          /\ UNCHANGED <<db, hist, ctl, bytes>>
       \/ /\ pass.pc = "ensured"
          /\ ctl' = [ctl EXCEPT ![pass.id] = "running"]
          /\ bytes' = [bytes EXCEPT ![pass.id] = {"volumes", "objects", "rbac"}]
          /\ pass' = [pass EXCEPT !.pc = "finish"]
          /\ UNCHANGED <<db, hist, space>>
       \/ /\ pass.pc = "finish"
          /\ db' = IF blocked THEN db ELSE [db EXCEPT ![pass.id] = "ready"]
          /\ pass' = NoPass
          /\ UNCHANGED <<hist, space, ctl, bytes>>
    /\ UNCHANGED <<mgr, restarts, archive, intent, acked, fenced, drains, late, drawn, creator>> /\ UNCHANGED records

-----------------------------------------------------------------------------
(* The purge in the reconciler's pass. *)

To(pc) == pass' = [pass EXCEPT !.pc = pc]
AtPurge(pc) == mgr = "open" /\ pass.pc = pc
unmoved == <<mgr, restarts, archive, acked, hist, drawn, creator>>

\* erase: every row of the create request.
erase == db' = NoRow

\* A pass: the purge first, then the accounts' operations.
beginPass ==
    /\ AtPurge("idle")
    /\ intent' = refresh
    /\ To(IF refresh.mem THEN "purge" ELSE "operations")
    /\ UNCHANGED <<db>> /\ UNCHANGED unmoved /\ UNCHANGED places /\ UNCHANGED records

\* settle: the creates admitted before the intent was known have ended.
settle == creator.pc = "idle"

\* completed: rows an older backup brought back are erased again.
completed ==
    /\ AtPurge("purge")
    /\ completion = "remote"
    /\ settle
    /\ erase
    /\ To("operations")
    /\ UNCHANGED intent /\ UNCHANGED unmoved /\ UNCHANGED places /\ UNCHANGED records

Live == {a \in Ids : space[a] = "live"}
Admitted == {a \in Ids : hist[a].admission # "none" \/ hist[a].start # "none"}

\* targets: the account named, the rows, the history and the namespaces of its create request.
discover == {intent.of} \cup Rows \cup Admitted \cup Live

\* Mutant of neverStarted: an account that was admitted and has no namespace yet never had one.
AdmittedOnly(a) == a \notin Live /\ hist[a].admission # "none"

neverStarted(a) == a \notin Live /\ hist[a].admission # "none" /\ hist[a].start = "none"

\* The history's local records are acknowledged when they are read.
historyRead ==
    [a \in Ids |-> [k \in {"admission", "start"} |-> IF hist[a][k] = "local" THEN "remote" ELSE hist[a][k]]]

\* The targets are retained once each of them has a namespace or was never started.
retainTargets ==
    /\ AtPurge("purge")
    /\ completion # "remote" /\ settle
    /\ hist' = historyRead
    /\ \/ /\ targets.level = "none"
          /\ IF \E a \in discover : ~neverStarted(a) /\ a \notin Live
             THEN To("operations") /\ UNCHANGED targets
             ELSE /\ targets' = [level |-> "local", ids |-> discover,
                                 never |-> {a \in discover : neverStarted(a)}]
                  /\ To("purge")
       \/ targets.level = "local" /\ targets' = [targets EXCEPT !.level = "remote"] /\ To("purge")
       \/ targets.level = "remote" /\ UNCHANGED targets /\ To("observe")
    /\ UNCHANGED <<db, intent, prog, completion, mgr, restarts, archive, acked, drawn, creator>> /\ UNCHANGED places

\* requireObserved: the inventory found now is the one retained.
requireObserved ==
    /\ AtPurge("observe")
    /\ discover = targets.ids
    /\ \A a \in targets.never : neverStarted(a)
    /\ To("next")
    /\ UNCHANGED <<db, intent>> /\ UNCHANGED unmoved /\ UNCHANGED places /\ UNCHANGED records

\* removeTargets: the next target whose deletion is not recorded; those never started are passed over.
removeTargets ==
    /\ AtPurge("next")
    /\ LET left == {a \in targets.ids \ targets.never : prog[a].deleted # "remote"}
       IN  pass' = IF left = {} THEN [pc |-> "clean", id |-> 0] ELSE [pc |-> "physical", id |-> Min(left)]
    /\ UNCHANGED <<db, intent>> /\ UNCHANGED unmoved /\ UNCHANGED places /\ UNCHANGED records

T == pass.id
Level(s) == prog[T][s]

\* retain and acknowledge of a stage: the directory, then the store.
Record(s) == prog' = [prog EXCEPT ![T][s] = Raise(@)]
kept == <<db, intent, targets, completion>>

\* The inventory of controllers, taken while the namespace stands.
inventoryControllers ==
    /\ AtPurge("physical")
    /\ Level("controllers") # "remote"
    /\ Level("controllers") = "none" => space[T] = "live" /\ ctl[T] = "running"
    /\ Record("controllers") /\ To("physical")
    /\ UNCHANGED kept /\ UNCHANGED unmoved /\ UNCHANGED places

\* The controllers are held, then one of them revokes the account and drains its runtimes.
drain ==
    /\ AtPurge("physical")
    /\ Level("controllers") = "remote" /\ Level("drained") = "none"
    /\ \/ /\ ctl[T] = "running"
          /\ ctl' = [ctl EXCEPT ![T] = "held"]
          /\ To("physical") /\ UNCHANGED <<prog, fenced, drains>>
       \/ /\ ctl[T] = "held"
          /\ fenced' = fenced \cup {T} /\ drains' = drains \ {T}
          /\ Record("drained") /\ To("physical") /\ UNCHANGED ctl
    /\ UNCHANGED <<space, bytes, late>> /\ UNCHANGED kept /\ UNCHANGED unmoved

\* The drain is acknowledged and the pass ends: the controller is stopped by a later one.
drained ==
    /\ AtPurge("physical") /\ Level("drained") = "local"
    /\ Record("drained") /\ To("operations")
    /\ UNCHANGED kept /\ UNCHANGED unmoved /\ UNCHANGED places

\* Mutant of stopController: a deployment at zero is taken for the exit of its pods.
StopUnproved ==
    /\ AtPurge("physical")
    /\ Level("drained") = "remote" /\ Level("inventory") = "none"
    /\ Level("stopped") # "remote" /\ Record("stopped") /\ To("physical")
    /\ UNCHANGED kept /\ UNCHANGED unmoved /\ UNCHANGED places

\* stop: exits are retained before the finalizers go.
stopController ==
    /\ AtPurge("physical")
    /\ Level("drained") = "remote" /\ Level("inventory") = "none"
    /\ \/ /\ Level("stopped") = "none" /\ ctl[T] = "held"
          /\ ctl' = [ctl EXCEPT ![T] = "stopped"]
          /\ To("physical") /\ UNCHANGED prog
       \/ /\ Level("stopped") # "remote" /\ ctl[T] = "stopped"
          /\ Record("stopped") /\ To("physical") /\ UNCHANGED ctl
       \/ /\ Level("stopped") = "remote" /\ ctl[T] = "stopped"
          /\ ctl' = [ctl EXCEPT ![T] = "gone"]
          /\ To("physical") /\ UNCHANGED prog
    /\ UNCHANGED <<space, fenced, drains, bytes, late>> /\ UNCHANGED kept /\ UNCHANGED unmoved

\* The inventory of volumes and endpoints, once no controller can write them.
inventoryAccountVolumes ==
    /\ AtPurge("physical")
    /\ Level("stopped") = "remote" /\ Level("inventory") # "remote"
    /\ ctl[T] # "stopped"
    /\ Record("inventory") /\ To("physical")
    /\ UNCHANGED kept /\ UNCHANGED unmoved /\ UNCHANGED places

\* removeAccountVolumes: only with the retained exits of every controller and runtime.
removeAccountVolumes ==
    /\ AtPurge("physical")
    /\ Level("inventory") = "remote" /\ Level("stopped") = "remote"
    /\ bytes' = [bytes EXCEPT ![T] = @ \ {"volumes"}]
    /\ To("rbac")
    /\ UNCHANGED <<space, ctl, fenced, drains, late, prog>> /\ UNCHANGED kept /\ UNCHANGED unmoved

\* removePurgeRbac: the cluster's roles and bindings of the account, by the inventory.
removePurgeRbac ==
    /\ AtPurge("rbac")
    /\ bytes' = [bytes EXCEPT ![T] = @ \ {"rbac"}]
    /\ To("namespace")
    /\ UNCHANGED <<space, ctl, fenced, drains, late, prog>> /\ UNCHANGED kept /\ UNCHANGED unmoved

\* removeNamespace: with it goes all that is left in it; gone already is no error.
removeNamespace ==
    /\ AtPurge("namespace")
    /\ space' = [space EXCEPT ![T] = "gone"]
    /\ ctl' = [ctl EXCEPT ![T] = "gone"]
    /\ To("deleted")
    /\ UNCHANGED <<fenced, drains, bytes, late, prog>> /\ UNCHANGED kept /\ UNCHANGED unmoved

recordDeleted ==
    /\ AtPurge("deleted")
    /\ Record("deleted")
    /\ To(IF Level("deleted") = "none" THEN "deleted" ELSE "next")
    /\ UNCHANGED kept /\ UNCHANGED unmoved /\ UNCHANGED places

\* The archives of every target are removed, those of a target that never started too.
clean ==
    /\ AtPurge("clean")
    /\ bytes' = [a \in Ids |-> IF a \in targets.ids THEN bytes[a] \ {"objects"} ELSE bytes[a]]
    /\ To("final")
    /\ UNCHANGED <<space, ctl, fenced, drains, late>> /\ UNCHANGED <<db, intent>>
    /\ UNCHANGED unmoved /\ UNCHANGED records

\* requireFinal and erase: nothing is left in the cluster, no target appeared, then the rows go.
requireFinal ==
    /\ AtPurge("final")
    /\ discover = targets.ids /\ Live = {}
    /\ \A a \in targets.never : neverStarted(a)
    /\ erase
    /\ To("complete")
    /\ UNCHANGED intent /\ UNCHANGED unmoved /\ UNCHANGED places /\ UNCHANGED records

\* complete: the completion in the directory, then in the store.
complete ==
    /\ AtPurge("complete")
    /\ completion' = Raise(completion)
    /\ To(IF completion = "none" THEN "complete" ELSE "operations")
    /\ UNCHANGED <<db, intent, prog, targets>> /\ UNCHANGED unmoved /\ UNCHANGED places

\* A requirement that fails, or a provider's error, leaves the intent pending for the next pass.
retryLater ==
    /\ mgr = "open"
    /\ pass.pc \in {"purge", "observe", "next", "physical", "rbac", "namespace", "deleted", "clean", "final", "complete"}
    /\ pass' = [pc |-> "operations", id |-> 0]
    /\ UNCHANGED <<db, intent>> /\ UNCHANGED unmoved /\ UNCHANGED places /\ UNCHANGED records

endPass ==
    /\ AtPurge("operations")
    /\ pass' = NoPass
    /\ UNCHANGED <<db, intent>> /\ UNCHANGED unmoved /\ UNCHANGED places /\ UNCHANGED records

-----------------------------------------------------------------------------
(* The world around: crashes, backups of the manager, a directory put back, runtimes. *)

\* The manager stops anywhere.  A request it had sent may still make the namespace.
Stop ==
    /\ mgr = "open" /\ restarts < MaxRestarts
    /\ mgr' = "down" /\ restarts' = restarts + 1
    /\ late' = IF pass.pc = "ensure" THEN late \cup {pass.id} ELSE late
    /\ intent' = [intent EXCEPT !.mem = FALSE, !.of = IF intent.level = "none" THEN 0 ELSE @]
    /\ pass' = NoPass /\ creator' = NoCreator
    /\ UNCHANGED <<db, archive, acked, hist, space, ctl, fenced, drains, bytes, drawn>> /\ UNCHANGED records

\* The request lands; one that meets the account's namespace, or its grave, changes nothing.
LateApply ==
    /\ \E a \in late :
          /\ late' = late \ {a}
          /\ space' = [space EXCEPT ![a] = IF @ = "none" THEN "live" ELSE @]
    /\ UNCHANGED <<mgr, restarts, db, archive, intent, acked, hist, ctl, fenced, drains, bytes, drawn, creator, pass>>
    /\ UNCHANGED records

down == <<acked, hist, drawn, creator, pass, restarts>>

\* createPurgeAuthority opens with a refresh.
Start ==
    /\ mgr = "down"
    /\ intent' = refresh /\ mgr' = "open"
    /\ UNCHANGED <<db, archive>> /\ UNCHANGED down /\ UNCHANGED places /\ UNCHANGED records

\* The folder is locked by its manager, so a backup is taken of a stopped one.
captureManagerBackup ==
    /\ mgr = "down"
    /\ intent' = [refresh EXCEPT !.mem = FALSE]
    /\ archive' = db
    /\ UNCHANGED <<mgr, db>> /\ UNCHANGED down /\ UNCHANGED places /\ UNCHANGED records

restoreManagerBackup ==
    /\ mgr = "down" /\ restarts < MaxRestarts
    /\ db' = archive /\ mgr' = "replaying"
    /\ intent' = [refresh EXCEPT !.mem = FALSE]
    /\ UNCHANGED archive /\ UNCHANGED down /\ UNCHANGED places /\ UNCHANGED records

\* completeManagerRecovery: every known intent erases its rows before the manager may open.
completeManagerRecovery ==
    /\ mgr = "replaying"
    /\ intent' = [refresh EXCEPT !.mem = FALSE]
    /\ db' = IF refresh.mem THEN NoRow ELSE db
    /\ mgr' = "down"
    /\ UNCHANGED archive /\ UNCHANGED down /\ UNCHANGED places /\ UNCHANGED records

Forget(level) == IF level = "local" THEN "none" ELSE level

\* The directory is put back as it was before its last local records.
LoseLocal ==
    /\ mgr = "down"
    /\ intent' = IF intent.level = "local" THEN NoIntent ELSE intent
    /\ hist' = [a \in Ids |-> [k \in {"admission", "start"} |-> Forget(hist[a][k])]]
    /\ prog' = [a \in Ids |-> [s \in Stages |-> Forget(prog[a][s])]]
    /\ targets' = IF targets.level = "local" THEN [level |-> "none", ids |-> {}, never |-> {}] ELSE targets
    /\ completion' = Forget(completion)
    /\ UNCHANGED <<mgr, restarts, db, archive, acked, drawn, creator, pass>> /\ UNCHANGED places

\* A workspace starts in an account that is not revoked.
RuntimeStarts ==
    /\ \E a \in Ids : ctl[a] \in {"running", "held"} /\ a \notin fenced /\ drains' = drains \cup {a}
    /\ UNCHANGED <<mgr, restarts, db, archive, intent, acked, hist, space, ctl, fenced, bytes, late, drawn, creator, pass>>
    /\ UNCHANGED records

PurgeNext ==
    \/ admit \/ acknowledge \/ createAccount \/ provision
    \/ beginPass \/ completed \/ retainTargets \/ requireObserved \/ removeTargets
    \/ inventoryControllers \/ drain \/ drained \/ stopController \/ inventoryAccountVolumes
    \/ removeAccountVolumes \/ removePurgeRbac \/ removeNamespace \/ recordDeleted \/ clean \/ requireFinal \/ complete
    \/ retryLater \/ endPass
    \/ Stop \/ LateApply \/ Start \/ captureManagerBackup \/ restoreManagerBackup
    \/ completeManagerRecovery \/ LoseLocal \/ RuntimeStarts

PurgeSpec == PurgeInit /\ [][PurgeNext]_purgeVars

-----------------------------------------------------------------------------
(* A completed purge is final: no account of the create request has a namespace, a controller, a  *)
(* runtime or a byte, whatever was rolled back, repeated or landed late (reconciliation.ts         *)
(* 109-126, restore.ts 152-188).                                                                   *)
CompletionIsFinal ==
    completion # "none" =>
        \A a \in Ids : space[a] # "live" /\ ctl[a] \in {"none", "gone"} /\ a \notin drains /\ bytes[a] = {}

(* The volumes stand as long as something may write them: a controller that has not exited or a    *)
(* runtime that was not drained (purge-physical.ts 84-104).                                        *)
BytesAfterExit ==
    \A a \in Ids : ctl[a] \in {"running", "held"} \/ a \in drains => "volumes" \in bytes[a]

(* A purge that was answered is known to every manager that opens after, even when its database    *)
(* and its purge directory are older than the answer (authority.ts 78-115).                        *)
AckedPurgeHolds == acked /\ mgr = "open" => intent.mem
================================================================================
