----------------------------- MODULE InputProjections -----------------------------
(***************************************************************************)
(* How accepted inputs reach a workload.  Canonical objects are uploaded   *)
(* under a private root; a publisher copies the objects of one execution's *)
(* manifest into a tree the workload mounts read-only, and a release takes *)
(* them away again.  There are two publishers, one whose tree is mounted   *)
(* per workspace and one for a shared volume; Variant picks one.  Work of  *)
(* a publisher runs in one queue; a crash can stop it anywhere, and        *)
(* requests are repeated and arrive late.                                  *)
(***************************************************************************)
EXTENDS Naturals, FiniteSets, FiniteSetsExt

CONSTANTS
    Selection,        \* the objects of each execution's manifest, as a function
    Object,           \* canonical objects, one byte each
    Capacity,         \* projection capacity in files, manifests included
    MaxPublisherFaults  \* bound on crashes, failed copies and bad canonical bytes

VARIABLES
    variant,    \* "mount" or "shared"
    canon,      \* each canonical object: [dir, file, creating]
    prune,      \* a pruning of empty directories: [on, spared]
    shown,      \* what the workload sees of each manifest: [up, objects, doc]
    hidden,     \* the staging copy of each manifest
    receipt,    \* manifests with a private receipt
    tomb,       \* manifests with a release marker
    root,       \* the workspace's tree is prepared
    job,        \* the publisher's running job: [kind, of, pc]
    freed,      \* manifests whose release succeeded
    faults

projectionVars == <<variant, canon, prune, shown, hidden, receipt, tomb, root, job, freed, faults>>

Execution == DOMAIN Selection
Nothing == [up |-> FALSE, objects |-> {}, doc |-> FALSE]
NoJob == [kind |-> "none", of |-> "none", pc |-> "none"]
Fresh == [dir |-> FALSE, file |-> "none", creating |-> "no"]
ProjectionInit ==
    /\ variant \in {"mount", "shared"} /\ canon = [o \in Object |-> Fresh] /\ prune = [on |-> FALSE, spared |-> {}]
    /\ shown = [m \in Execution |-> Nothing] /\ hidden = [m \in Execution |-> Nothing]
    /\ receipt = {} /\ tomb = {} /\ root = FALSE /\ job = NoJob /\ freed = {} /\ faults = 0

tree == <<shown, hidden, receipt, tomb, root>>
publisher == <<tree, job, freed>>
Goto(pc) == job' = [job EXCEPT !.pc = pc]
Finish == job' = NoJob
Whole(copy, m) == copy.up /\ copy.doc /\ copy.objects = Selection[m]

-----------------------------------------------------------------------------
(* FilesystemInputStorage: the canonical objects. *)

\* Mutant of DirectoriesFree: creations and prunings do not wait for each other.
Unqueued == TRUE
\* directoryWork: one creation or pruning touches directories at a time.
DirectoriesFree == ~prune.on /\ \A o \in Object : canon[o].creating # "made"
\* create: the object counts as active from the call, before its turn in the queue.
create(o) ==
    /\ canon[o] \in {Fresh, [Fresh EXCEPT !.dir = TRUE]} /\ canon' = [canon EXCEPT ![o].creating = "queued"]
    /\ UNCHANGED <<variant, prune, publisher, faults>>
init(o) ==
    /\ canon[o].creating = "queued" /\ DirectoriesFree
    /\ canon' = [canon EXCEPT ![o].dir = TRUE, ![o].creating = "made"]
    /\ UNCHANGED <<variant, prune, publisher, faults>>
openPending(o) ==
    /\ canon[o].creating = "made" /\ canon[o].dir
    /\ canon' = [canon EXCEPT ![o].file = "pending", ![o].creating = "writing"]
    /\ UNCHANGED <<variant, prune, publisher, faults>>
publishObject(o) ==
    /\ canon[o].creating = "writing" /\ canon' = [canon EXCEPT ![o].file = "payload", ![o].creating = "no"]
    /\ UNCHANGED <<variant, prune, publisher, faults>>
\* close after a failed upload leaves the pending file for the caller's remove.
abandon(o) ==
    /\ canon[o].creating = "writing" /\ faults < MaxPublisherFaults /\ faults' = faults + 1
    /\ canon' = [canon EXCEPT ![o].creating = "no"] /\ UNCHANGED <<variant, prune, publisher>>
remove(o) ==
    /\ canon[o].creating = "no" /\ canon[o].file # "none"
    /\ canon' = [canon EXCEPT ![o].file = "none"] /\ UNCHANGED <<variant, prune, publisher, faults>>
\* pruneEmpty: the files to spare are read once, at the start.
pruneEmpty ==
    /\ DirectoriesFree /\ prune' = [on |-> TRUE, spared |-> {o \in Object : canon[o].creating # "no"}]
    /\ UNCHANGED <<variant, canon, publisher, faults>>
removeEmpty(o) ==
    /\ prune.on /\ o \notin prune.spared /\ canon[o].dir /\ canon[o].file = "none"
    /\ canon' = [canon EXCEPT ![o].dir = FALSE] /\ UNCHANGED <<variant, prune, publisher, faults>>
pruned == prune.on /\ prune' = [prune EXCEPT !.on = FALSE] /\ UNCHANGED <<variant, canon, publisher, faults>>
\* verify: the payload has its declared size and digest.
readable(o) == canon[o].file = "payload"

-----------------------------------------------------------------------------
(* The publishers. *)

prepare == ~root /\ job = NoJob /\ root' = TRUE /\ UNCHANGED <<variant, canon, prune, shown, hidden, receipt, tomb, job, freed, faults>>

\* Files in the tree: a mount counts the visible copies and the receipts, a shared volume its pending copies as well.
Counted(copy) == IF copy.up THEN Cardinality(copy.objects) + (IF copy.doc THEN 1 ELSE 0) ELSE 0
usage ==
    MapThenSumSet(LAMBDA m : Counted(shown[m]) + (IF variant = "shared" THEN Counted(hidden[m]) ELSE 0), Execution)
    + (IF variant = "mount" THEN Cardinality(receipt) ELSE 0)
\* Mutant of requireProjectionCapacity: what is already published is not counted.
AddedOnly(m) == Cardinality(Selection[m]) + 1 <= Capacity
requireProjectionCapacity(m) ==
    usage + Cardinality(Selection[m]) + 1 + (IF variant = "mount" /\ m \notin receipt THEN 1 ELSE 0) <= Capacity

\* publish: a released execution is refused before anything else; so is a mount selection whose bytes do not verify.
publish(m) ==
    /\ job = NoJob /\ m \notin tomb
    /\ \/ variant = "mount" /\ root /\ \A o \in Selection[m] : readable(o)
       \/ variant = "shared"
    /\ root' = TRUE /\ job' = [kind |-> "publish", of |-> m, pc |-> "look"]
    /\ UNCHANGED <<variant, canon, prune, shown, hidden, receipt, tomb, freed, faults>>
\* A visible copy must be the accepted one; a partial one is never replaced.
lookDestination(m) ==
    /\ job.pc = "look" /\ m = job.of /\ UNCHANGED <<variant, canon, prune, shown, hidden, tomb, root, freed, faults>>
    /\ \/ shown[m].up /\ Finish /\ receipt' = IF variant = "mount" THEN receipt \cup {m} ELSE receipt
       \/ ~shown[m].up /\ Goto("stage") /\ UNCHANGED receipt
\* What an earlier copy left is cleared, then the capacity is asked for.
stage(m) ==
    /\ job.pc = "stage" /\ m = job.of /\ UNCHANGED <<variant, canon, prune, shown, tomb, root, freed, faults>>
    /\ LET cleared == IF variant = "mount" THEN [x \in Execution |-> Nothing] ELSE [hidden EXCEPT ![m] = Nothing]
       IN  IF requireProjectionCapacity(m)
           THEN /\ hidden' = [cleared EXCEPT ![m].up = TRUE] /\ Goto("copy")
                /\ receipt' = IF variant = "mount" THEN receipt \cup {m} ELSE receipt
           ELSE hidden' = cleared /\ Finish /\ UNCHANGED receipt
copyObject(m) ==
    /\ job.pc = "copy" /\ m = job.of /\ hidden[m].up
    /\ UNCHANGED <<variant, canon, prune, shown, receipt, tomb, root, freed, faults>>
    /\ \E o \in Selection[m] \ hidden[m].objects :
          IF readable(o) THEN hidden' = [hidden EXCEPT ![m].objects = @ \cup {o}] /\ UNCHANGED job
          ELSE hidden' = [hidden EXCEPT ![m] = Nothing] /\ Finish
writeProjectionManifest(m) ==
    /\ job.pc = "copy" /\ m = job.of /\ hidden[m].up /\ hidden[m].objects = Selection[m]
    /\ hidden' = [hidden EXCEPT ![m].doc = TRUE] /\ Goto("rename")
    /\ UNCHANGED <<variant, canon, prune, shown, receipt, tomb, root, freed, faults>>
\* The mount publisher reads the staged copy once more; the shared one hashed it while copying.
verifyStaged(m) == variant = "mount" => Whole(hidden[m], m)
renameStaged(m) ==
    /\ job.pc = "rename" /\ m = job.of /\ hidden[m].up /\ verifyStaged(m) /\ Finish
    /\ shown' = [shown EXCEPT ![m] = hidden[m]] /\ hidden' = [hidden EXCEPT ![m] = Nothing]
    /\ UNCHANGED <<variant, canon, prune, receipt, tomb, root, freed, faults>>

\* The tree went away under the copy, which fails.
copyFails(m) ==
    /\ job.pc \in {"copy", "rename"} /\ m = job.of /\ ~hidden[m].up /\ Finish
    /\ UNCHANGED <<variant, canon, prune, tree, freed, faults>>

\* release: the marker is durable before the first visible file goes.
release(m) ==
    /\ job = NoJob /\ job' = [kind |-> "release", of |-> m, pc |-> IF m \in tomb THEN "clear" ELSE "mark"]
    /\ UNCHANGED <<variant, canon, prune, tree, freed, faults>>
\* Mutant of markReleased: a release that finds no receipt leaves no marker.
MarkReceiptOnly(m) ==
    /\ job.pc = "mark" /\ m = job.of /\ tomb' = IF m \in receipt THEN tomb \cup {m} ELSE tomb
    /\ receipt' = receipt \ {m} /\ Goto("clear")
    /\ UNCHANGED <<variant, canon, prune, shown, hidden, root, freed, faults>>
markReleased(m) ==
    /\ job.pc = "mark" /\ m = job.of /\ tomb' = tomb \cup {m} /\ receipt' = receipt \ {m} /\ Goto("clear")
    /\ UNCHANGED <<variant, canon, prune, shown, hidden, root, freed, faults>>
\* rm is not atomic: entries go one by one.
clearShown(m) ==
    /\ job.pc = "clear" /\ m = job.of /\ UNCHANGED <<variant, canon, prune, hidden, receipt, tomb, root, faults>>
    /\ \/ \E o \in shown[m].objects :
             shown' = [shown EXCEPT ![m].objects = @ \ {o}] /\ UNCHANGED <<job, freed>>
       \/ shown[m].doc /\ shown' = [shown EXCEPT ![m].doc = FALSE] /\ UNCHANGED <<job, freed>>
       \/ /\ shown[m].objects = {} /\ ~shown[m].doc /\ shown' = [shown EXCEPT ![m] = Nothing]
          /\ Finish /\ freed' = IF job.kind = "overtaken" \/ (variant = "mount" /\ ~root) THEN freed ELSE freed \cup {m}

\* remove and purge: the workspace's whole tree.  The shared publisher's remove does not wait for its queue.
purge ==
    /\ job = NoJob \/ variant = "shared"
    /\ root /\ root' = FALSE /\ receipt' = {} /\ tomb' = {} /\ freed' = {}
    /\ shown' = [m \in Execution |-> Nothing] /\ hidden' = [m \in Execution |-> Nothing]
    /\ job' = IF job = NoJob THEN job ELSE [job EXCEPT !.kind = "overtaken"]
    /\ UNCHANGED <<variant, canon, prune, faults>>

-----------------------------------------------------------------------------
\* The controller stops: nothing on disk changes, active objects and queued work are forgotten.
crash ==
    /\ faults < MaxPublisherFaults /\ faults' = faults + 1 /\ Finish /\ prune' = [prune EXCEPT !.on = FALSE]
    /\ canon' = [o \in Object |-> [canon[o] EXCEPT !.creating = "no"]] /\ UNCHANGED <<variant, tree, freed>>
spoil(o) ==
    /\ faults < MaxPublisherFaults /\ faults' = faults + 1 /\ readable(o)
    /\ canon' = [canon EXCEPT ![o].file = "bad"] /\ UNCHANGED <<variant, prune, publisher>>

ProjectionNext ==
    \/ \E o \in Object : create(o) \/ init(o) \/ openPending(o) \/ publishObject(o) \/ abandon(o) \/ remove(o)
                         \/ removeEmpty(o) \/ spoil(o)
    \/ pruneEmpty \/ pruned \/ prepare \/ purge \/ crash
    \/ \E m \in Execution : publish(m) \/ lookDestination(m) \/ stage(m) \/ copyObject(m) \/ writeProjectionManifest(m)
                         \/ renameStaged(m) \/ copyFails(m) \/ release(m) \/ markReleased(m) \/ clearShown(m)

-----------------------------------------------------------------------------
\* A workload sees an execution's inputs whole or not at all until they are released; once a release has succeeded no
\* repeated or delayed publication brings them back while the workspace's tree lives; the tree never exceeds its capacity; and an upload that was given
\* its directory still has it when it opens its file, whatever pruning runs.
ProjectionsAreWhole ==
    /\ \A m \in Execution : (shown[m].up /\ m \notin tomb) => Whole(shown[m], m)
    /\ \A m \in freed : ~shown[m].up
    /\ usage <= Capacity
    /\ \A o \in Object : canon[o].creating = "made" => canon[o].dir
=============================================================================
