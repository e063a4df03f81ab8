---------------------------- MODULE ManagerAccounts ----------------------------
(***************************************************************************)
(* One managed account: the operations the manager admits on it, the       *)
(* reconciler that carries the pending one through its phases, and the     *)
(* cluster objects it works on (the controller's deployment and pods, the  *)
(* volumes, the restore job).                                              *)
(*                                                                         *)
(* The manager runs the work of one account one at a time, so the          *)
(* reconciler is a single coroutine: each step is one await, any of them   *)
(* may fail (the error is recorded and the next pass starts again from the *)
(* saved phase) and the manager may crash before any of them.  Kubernetes  *)
(* is external: it creates, deletes and evicts pods whenever it likes.     *)
(*                                                                         *)
(* A request repeated under its own ID finds its row and changes nothing.  *)
(***************************************************************************)
EXTENDS Integers, FiniteSets, FiniteSetsExt, Sequences

CONSTANTS
    Releases,    \* the catalog: [version, data, upgradesFrom, rollbackTo]; data counts its migrations
    First,       \* the version new accounts are created with
    OffNode,     \* the plans a behaviour may start with: a subset of BOOLEAN
    MaxOps,      \* bound on the operations admitted on the account
    MaxPods,     \* bound on controller pod identities known at the same time
    MaxFaults    \* bound on evictions and failed restore jobs

VARIABLES
    offNode,   \* plan.offNodeBackups
    acct,      \* the account row: state, volume, image (the version its plan names)
    ops,       \* the operation rows, in the order of their creation
    backups,   \* the backup rows, with what the archive holds
    work,      \* the reconciler: operation and step
    dep,       \* the controller's deployment
    pods,      \* the controller's pods
    vols,      \* the volumes, by the operation that made them (0: the first)
    job,       \* the restore job of the current operation
    runtimes,  \* workspace pods run
    faults

vars == <<offNode, acct, ops, backups, work, dep, pods, vols, job, runtimes, faults>>
rows == <<offNode, acct, ops, backups>>
cluster == <<dep, pods, vols, job, runtimes, faults>>

Release(v) == CHOOSE r \in Releases : r.version = v
Volumes == 0..MaxOps
PodIds == 1..MaxPods

NoProof ==
    [expected |-> {}, ended |-> FALSE, runtime |-> FALSE, backups |-> {}, source |-> "none",
     jobKnown |-> FALSE, jobFailed |-> FALSE, jobEnded |-> FALSE, result |-> FALSE]

NoVolume == [exists |-> FALSE, data |-> 0, admission |-> "none", restored |-> 0]
NoWork == [op |-> 0, pc |-> "idle"]

Init ==
    /\ offNode \in OffNode
    /\ acct = [state |-> "none", volume |-> 0, image |-> First]
    /\ ops = <<>> /\ backups = {}
    /\ work = NoWork
    /\ dep = [exists |-> FALSE, replicas |-> 0, image |-> First, volume |-> 0, note |-> <<>>]
    /\ pods = {}
    /\ vols = [v \in Volumes |-> NoVolume]
    /\ job = "none" /\ runtimes = FALSE /\ faults = 0

-----------------------------------------------------------------------------
(* Admission of operations. *)

unfinished(o) == o.state \in {"pending", "running"}
pending == {i \in DOMAIN ops : unfinished(ops[i])}

NewOperation(kind, phase) ==
    [kind |-> kind, state |-> "pending", phase |-> phase, err |-> FALSE, backup |-> 0,
     mode |-> "none", source |-> First, target |-> First, proof |-> NoProof]

createAccount ==
    /\ acct.state = "none"
    /\ acct' = [acct EXCEPT !.state = "provisioning"]
    /\ ops' = <<NewOperation("provision", "controller")>>
    /\ UNCHANGED <<offNode, backups, work>> /\ UNCHANGED cluster

\* One operation at a time, and only from the state its kind starts in.
validateTransition(from) == Len(ops) < MaxOps /\ pending = {} /\ acct.state = from

beginLifecycle ==
    \E t \in {<<"suspend", "ready", "suspending">>, <<"resume", "suspended", "resuming">>} :
        /\ validateTransition(t[2])
        /\ acct' = [acct EXCEPT !.state = t[3]]
        /\ ops' = Append(ops, NewOperation(t[1], "controller"))
        /\ UNCHANGED <<offNode, backups, work>> /\ UNCHANGED cluster

\* A backup is taken from a ready account and a suspended one is restored from it.
validateAdmission(kind) ==
    /\ offNode
    /\ validateTransition(IF kind = "backup" THEN "ready" ELSE "suspended")

beginBackupOperation ==
    \/ /\ validateAdmission("backup")
       /\ ops' = Append(ops, NewOperation("backup", "capture"))
       /\ UNCHANGED <<offNode, acct, backups, work>> /\ UNCHANGED cluster
    \/ /\ validateAdmission("restore")
       /\ \E b \in backups :
             ops' = Append(ops, [NewOperation("restore", "fence") EXCEPT !.backup = b.id])
       /\ acct' = [acct EXCEPT !.state = "restoring"]
       /\ UNCHANGED <<offNode, backups, work>> /\ UNCHANGED cluster

Claims == {v \in Volumes : vols[v].exists}

requireRecoveryCapacity == vols[acct.volume].exists /\ Cardinality(Claims) < 2

\* The target was tested from the source, and extends its migrations.
requireUpgrade(source, target) ==
    /\ source \in Release(target).upgradesFrom
    /\ Release(source).data <= Release(target).data

\* Mutant of requireRollback: the catalog's word is enough.
RollbackByName(source, target) == source \in Release(target).rollbackTo

requireRollback(source, target) ==
    /\ source \in Release(target).rollbackTo
    /\ Release(source).data = Release(target).data

beginUpgrade ==
    /\ work = NoWork
    /\ offNode /\ validateTransition("ready")
    /\ requireRecoveryCapacity
    /\ \E r \in Releases :
          /\ requireUpgrade(acct.image, r.version)
          /\ ops' = Append(ops, [NewOperation("upgrade", "fence") EXCEPT
                                   !.mode = "upgrade", !.source = acct.image, !.target = r.version])
    /\ acct' = [acct EXCEPT !.state = "upgrading"]
    /\ UNCHANGED <<offNode, backups, work>> /\ UNCHANGED cluster

\* What recoverUpgrade installs instead of the failed target.
resolveRecovery(o, mode) ==
    IF mode = "forward_fix" THEN {r.version : r \in {q \in Releases : requireUpgrade(o.target, q.version)}}
    ELSE IF mode = "rollback" THEN {v \in {o.source} : requireRollback(v, o.target)}
    ELSE {o.source}

\* A failed installation is replaced; the replacement's controller needs its own exit evidence.
recoverUpgrade ==
    /\ work = NoWork
    /\ \E i \in pending, mode \in {"rollback", "forward_fix", "restore"} :
          /\ ops[i].kind = "upgrade" /\ ops[i].err /\ ops[i].phase \in {"install", "verify"}
          /\ \E v \in resolveRecovery(ops[i], mode) :
                /\ ~(ops[i].mode = mode /\ (mode = "forward_fix" => v = ops[i].target))
                /\ ops' = [ops EXCEPT ![i].phase = "controller", ![i].err = FALSE, ![i].mode = mode,
                                      ![i].target = v, ![i].proof.expected = {}, ![i].proof.ended = FALSE]
    /\ UNCHANGED <<offNode, acct, backups, work>> /\ UNCHANGED cluster

-----------------------------------------------------------------------------
(* The reconciler's pass. *)

Op == ops[work.op]
At(pc) == work.pc = pc
Goto(pc) == work' = [work EXCEPT !.pc = pc]
Note == <<work.op, Op.mode, Op.target>>
SaveProof(p) == ops' = [ops EXCEPT ![work.op].proof = p]

\* setOperationPhase, and the step the reconciler goes on with.
setOperationPhase(phase, pc) == ops' = [ops EXCEPT ![work.op].phase = phase] /\ Goto(pc)

\* The first step of an operation from its saved phase.
reconcileOperation(o) ==
    CASE o.kind = "provision" -> "ensure"
      [] o.kind = "backup" -> "capture"
      [] o.kind = "resume" -> IF o.phase = "controller" THEN "scaleUp" ELSE "resume"
      [] o.kind = "suspend" /\ offNode -> "prepare"
      [] o.kind = "suspend" /\ ~offNode -> IF o.phase = "controller" THEN "suspend" ELSE "scaleDown"
      [] o.kind \in {"restore", "upgrade"} ->
           CASE o.phase = "fence" -> IF o.kind = "restore" THEN "fence" ELSE "format"
             [] o.phase = "capture" -> "capture"
             [] o.phase = "scale" -> "backupProof"
             [] o.phase = "controller" -> "prepare"
             [] o.phase = "install" -> "install"
             [] o.phase = "verify" -> "verify"
             [] o.phase = "restore" -> "prove"
             [] o.phase = "recover" -> "recover"
             [] o.phase = "open" -> IF o.kind = "restore" \/ o.mode = "restore" THEN "reopen" ELSE "open"

reconcile ==
    /\ work = NoWork
    /\ \E i \in pending :
          /\ ops' = [ops EXCEPT ![i].state = "running", ![i].err = FALSE]
          /\ work' = [op |-> i, pc |-> reconcileOperation(ops[i])]
    /\ UNCHANGED <<offNode, acct, backups>> /\ UNCHANGED cluster

\* A step throws: the error is recorded and the phase stays.
recordError ==
    /\ work # NoWork
    /\ work' = NoWork
    /\ ops' = [ops EXCEPT ![work.op].err = TRUE]
    /\ UNCHANGED <<offNode, acct, backups>> /\ UNCHANGED cluster

\* The manager stops between two awaits and starts again.
Crash ==
    /\ work # NoWork
    /\ work' = NoWork
    /\ UNCHANGED rows /\ UNCHANGED cluster

finishAccount(state) ==
    /\ acct' = [acct EXCEPT !.state = state]
    /\ ops' = [ops EXCEPT ![work.op].state = "succeeded", ![work.op].phase = "complete", ![work.op].err = FALSE]
    /\ work' = NoWork

-----------------------------------------------------------------------------
(* What the manager sees of the cluster. *)

Running == {p \in pods : p.run}
Template == [image |-> dep.image, volume |-> dep.volume, note |-> dep.note]
TemplateOf(p) == [image |-> p.image, volume |-> p.volume, note |-> p.note]

\* kubectl rollout status: a pod of the current template runs and no other does.
rolledOut == Running # {} /\ \A p \in Running : TemplateOf(p) = Template /\ ~p.deleted

\* kubectl exec deployment/controller reaches one of the running controllers.
Exec(p) == dep.exists /\ p \in Running

podHasStopped(p) == ~p.run

ids(ps) == {p.id : p \in ps}

\* The controller's manifest: one replica of the plan's image on the account's volume.
accountController(note) ==
    [exists |-> TRUE, replicas |-> 1, image |-> acct.image, volume |-> acct.volume, note |-> note]

ensure ==
    /\ At("ensure")
    /\ dep' = accountController(<<>>)
    /\ vols' = IF vols[acct.volume].exists THEN vols
               ELSE [vols EXCEPT ![acct.volume] = [exists |-> TRUE, data |-> 0, admission |-> "ready", restored |-> 0]]
    /\ Goto("ensured")
    /\ UNCHANGED rows /\ UNCHANGED <<pods, job, runtimes, faults>>

ensured ==
    /\ At("ensured") /\ rolledOut
    /\ finishAccount("ready")
    /\ UNCHANGED <<offNode, backups>> /\ UNCHANGED cluster

-----------------------------------------------------------------------------
(* Suspend and resume. *)

\* Mutant of performSuspend: a suspension that is still pending is taken for a finished one.
SuspendPending ==
    /\ At("suspend")
    /\ \E p \in Running : Exec(p)
    /\ Goto("suspended")
    /\ UNCHANGED rows /\ UNCHANGED cluster

\* perform suspend: the controller closes admission and drains its workspace pods.
performSuspend ==
    /\ At("suspend")
    /\ \E p \in Running : Exec(p) /\ vols' = [vols EXCEPT ![p.volume].admission = "suspended"]
    /\ runtimes' = FALSE
    /\ Goto("suspended")
    /\ UNCHANGED rows /\ UNCHANGED <<dep, pods, job, faults>>

\* retainBackupRuntimes: only the backups of the account's present volume can be proved.
backupProofs == {b.id : b \in {c \in backups : c.volume = acct.volume}}

\* The runtimes' exits are saved with the operation before its next phase.
suspended ==
    /\ At("suspended")
    /\ IF Op.kind = "upgrade"
       THEN /\ ops' = [ops EXCEPT ![work.op].proof.runtime = TRUE, ![work.op].phase = "capture"]
            /\ Goto("capture")
       ELSE /\ offNode /\ backupProofs # {} => \E p \in Running : Exec(p)
            /\ ops' = [ops EXCEPT ![work.op].phase = "scale",
                                  ![work.op].proof.runtime = offNode,
                                  ![work.op].proof.backups = IF offNode THEN backupProofs ELSE {}]
            /\ Goto(IF offNode THEN "prepare" ELSE "scaleDown")
    /\ UNCHANGED <<offNode, acct, backups>> /\ UNCHANGED cluster

scaleDown ==
    /\ At("scaleDown")
    /\ ~runtimes /\ job = "none"
    /\ dep' = [dep EXCEPT !.replicas = 0]
    /\ Goto("scaledDown")
    /\ UNCHANGED rows /\ UNCHANGED <<pods, vols, job, runtimes, faults>>

\* Mutant of scaledDown: the deployment at zero is taken for the end of its pods.
ScaledIsStopped ==
    /\ At("scaledDown")
    /\ dep.replicas = 0 /\ ~runtimes /\ job = "none"
    /\ finishAccount("suspended")
    /\ UNCHANGED <<offNode, backups>> /\ UNCHANGED cluster

\* kubectl wait --for=delete, then an inventory with no exception for controllers.
scaledDown ==
    /\ At("scaledDown")
    /\ pods = {} /\ ~runtimes /\ job = "none"
    /\ finishAccount("suspended")
    /\ UNCHANGED <<offNode, backups>> /\ UNCHANGED cluster

scaleUp ==
    \/ /\ At("scaleUp")
       /\ dep' = [dep EXCEPT !.replicas = 1]
       /\ Goto("scaledUp")
       /\ UNCHANGED rows /\ UNCHANGED <<pods, vols, job, runtimes, faults>>
    \/ /\ At("scaledUp") /\ rolledOut
       /\ setOperationPhase("scale", "resume")
       /\ UNCHANGED <<offNode, acct, backups>> /\ UNCHANGED cluster

\* perform resume: a controller whose recovery is not complete refuses it.
performResume ==
    /\ At("resume")
    /\ \E p \in Running :
          /\ Exec(p) /\ vols[p.volume].admission # "recovering"
          /\ vols' = [vols EXCEPT ![p.volume].admission = "ready"]
    /\ Goto("resumed")
    /\ UNCHANGED rows /\ UNCHANGED <<dep, pods, job, runtimes, faults>>

resumed ==
    /\ At("resumed")
    /\ finishAccount("ready")
    /\ UNCHANGED <<offNode, backups>> /\ UNCHANGED cluster

-----------------------------------------------------------------------------
(* Stopping a controller with evidence of its exit. *)

\* The step after prepare: the running core is suspended first, or the controller is stopped.
Prepared == IF Op.phase = "fence" \/ (Op.kind = "suspend" /\ Op.phase = "controller") THEN "suspend" ELSE "stop"

\* prepare: the controllers seen are named in the operation before they are touched.
prepare ==
    /\ At("prepare")
    /\ IF Op.proof.ended
       THEN Goto(Prepared) /\ UNCHANGED ops
       ELSE LET expected == Op.proof.expected \cup ids(pods)
            IN  /\ expected # {}
                /\ SaveProof([Op.proof EXCEPT !.expected = expected])
                /\ Goto("retain")
    /\ UNCHANGED <<offNode, acct, backups>> /\ UNCHANGED cluster

\* retain: every named pod gets the finalizer; a pod that is going takes no new one.
Held(expected) ==
    /\ expected \subseteq ids(pods)
    /\ \A p \in pods : p.id \in expected => p.held \/ ~p.deleted
    /\ pods' = {IF p.id \in expected THEN [p EXCEPT !.held = TRUE] ELSE p : p \in pods}

retain ==
    /\ At("retain")
    /\ Held(Op.proof.expected)
    /\ Goto(Prepared)
    /\ UNCHANGED rows /\ UNCHANGED <<dep, vols, job, runtimes, faults>>

stop ==
    /\ At("stop")
    /\ IF Op.proof.ended
       THEN Goto("release") /\ UNCHANGED <<dep, pods>>
       ELSE /\ Held(Op.proof.expected)
            /\ dep' = [dep EXCEPT !.replicas = 0]
            /\ Goto("waitStopped")
    /\ UNCHANGED rows /\ UNCHANGED <<vols, job, runtimes, faults>>

\* waitStopped: exactly the named pods remain, and all of them have stopped.
waitStopped ==
    /\ At("waitStopped")
    /\ ids(pods) = Op.proof.expected /\ ~runtimes /\ job = "none"
    /\ \A p \in pods : podHasStopped(p)
    /\ SaveProof([Op.proof EXCEPT !.ended = TRUE])
    /\ Goto("release")
    /\ UNCHANGED <<offNode, acct, backups>> /\ UNCHANGED cluster

release ==
    /\ At("release")
    /\ ids(pods) \subseteq Op.proof.expected /\ ~runtimes
    /\ \A p \in pods : podHasStopped(p)
    /\ pods' = {[p EXCEPT !.held = FALSE] : p \in pods}
    /\ Goto("released")
    /\ UNCHANGED rows /\ UNCHANGED <<dep, vols, job, runtimes, faults>>

released ==
    /\ At("released")
    /\ pods = {} /\ ~runtimes /\ job = "none"
    /\ IF Op.kind = "suspend" THEN finishAccount("suspended") /\ UNCHANGED <<offNode, backups>>
       ELSE /\ IF Op.mode = "restore" THEN setOperationPhase("restore", "prove")
               ELSE setOperationPhase("install", "install")
            /\ UNCHANGED <<offNode, acct, backups>>
    /\ UNCHANGED cluster

-----------------------------------------------------------------------------
(* Backup and restore. *)

\* saveBackup: the receipt is kept once and moves the operation on.
saveBackup(receipt) ==
    /\ backups' = IF \E b \in backups : b.id = work.op THEN backups ELSE backups \cup {receipt}
    /\ IF Op.kind = "upgrade"
       THEN ops' = [ops EXCEPT ![work.op].backup = work.op, ![work.op].phase = "scale"] /\ Goto("backupProof")
       ELSE /\ ops' = [ops EXCEPT ![work.op].state = "succeeded", ![work.op].phase = "complete", ![work.op].err = FALSE]
            /\ work' = NoWork

\* capture: what the running controller archives.
capture ==
    /\ At("capture")
    /\ \E p \in Running :
          /\ Exec(p)
          /\ saveBackup([id |-> work.op, volume |-> acct.volume, data |-> vols[p.volume].data,
                         fenced |-> vols[p.volume].admission = "suspended"])
    /\ UNCHANGED <<offNode, acct>> /\ UNCHANGED cluster

\* The retained proof of the latest finished suspension.
sourceComputeProof ==
    LET done == {i \in DOMAIN ops : ops[i].kind = "suspend" /\ ops[i].state = "succeeded"}
    IN  IF done = {} THEN NoProof ELSE ops[Max(done)].proof

\* proveSourceStopped: the retained exits, and nothing that could still write the source volume.
proveSourceStopped(proof) ==
    /\ proof.ended /\ proof.runtime
    /\ dep.exists /\ dep.replicas = 0
    /\ pods = {} /\ ~runtimes
    /\ vols[acct.volume].exists

fence ==
    /\ At("fence")
    /\ proveSourceStopped(sourceComputeProof) /\ job = "none"
    /\ ops' = [ops EXCEPT ![work.op].phase = "restore", ![work.op].proof.source = "proved",
                          ![work.op].proof.ended = sourceComputeProof.ended,
                          ![work.op].proof.runtime = sourceComputeProof.runtime,
                          ![work.op].proof.backups = sourceComputeProof.backups]
    /\ Goto("prove")
    /\ UNCHANGED <<offNode, acct, backups>> /\ UNCHANGED cluster

\* An upgrade's restore also names the source release in the plan before it touches the volume.
prove ==
    /\ At("prove")
    /\ proveSourceStopped(Op.proof)
    /\ SaveProof([Op.proof EXCEPT !.source = "proved"])
    /\ acct' = IF Op.kind = "upgrade" THEN [acct EXCEPT !.image = Op.target] ELSE acct
    /\ Goto("restoreVolume")
    /\ UNCHANGED <<offNode, backups>> /\ UNCHANGED cluster

\* prepareVolume: the account keeps at most two volumes.
prepareVolume == vols[work.op].exists \/ Cardinality(Claims) < 2

\* adoptJob: a job of an earlier pass is taken over; one that failed is removed and retired first.
adoptJob ==
    /\ At("restoreVolume") /\ prepareVolume
    /\ LET q == Op.proof IN
         \/ /\ job = "none" /\ q.result /\ q.jobEnded
            /\ Goto("prepared") /\ UNCHANGED <<ops, job>>
         \/ /\ job = "none" /\ ~q.result /\ (q.jobKnown => q.jobFailed /\ q.jobEnded)
            /\ SaveProof([q EXCEPT !.jobKnown = FALSE, !.jobFailed = FALSE, !.jobEnded = FALSE])
            /\ Goto("applyJob") /\ UNCHANGED job
         \/ /\ job \in {"running", "complete"}
            /\ SaveProof([q EXCEPT !.jobKnown = TRUE])
            /\ Goto("waitJob") /\ UNCHANGED job
         \/ /\ job = "failed"
            /\ SaveProof([q EXCEPT !.jobKnown = TRUE, !.jobFailed = TRUE])
            /\ Goto("endJob") /\ UNCHANGED job
    /\ UNCHANGED <<offNode, acct, backups>> /\ UNCHANGED <<dep, pods, vols, runtimes, faults>>

applyJob ==
    \/ /\ At("applyJob")
       /\ vols' = IF vols[work.op].exists THEN vols
                  ELSE [vols EXCEPT ![work.op] = [NoVolume EXCEPT !.exists = TRUE]]
       /\ job' = "running"
       /\ Goto("nameJob")
       /\ UNCHANGED rows /\ UNCHANGED <<dep, pods, runtimes, faults>>
    \/ /\ At("nameJob") /\ job # "none"
       /\ SaveProof([Op.proof EXCEPT !.jobKnown = TRUE])
       /\ Goto("waitJob")
       /\ UNCHANGED <<offNode, acct, backups>> /\ UNCHANGED cluster

saveResult ==
    /\ At("waitJob") /\ job = "complete"
    /\ SaveProof([Op.proof EXCEPT !.result = TRUE])
    /\ Goto("endJob")
    /\ UNCHANGED <<offNode, acct, backups>> /\ UNCHANGED cluster

\* removeJob: the exit is saved before the job is deleted.
removeJob ==
    \/ /\ At("endJob") /\ job \in {"complete", "failed"}
       /\ SaveProof([Op.proof EXCEPT !.jobEnded = TRUE])
       /\ Goto("removeJob")
       /\ UNCHANGED <<offNode, acct, backups>> /\ UNCHANGED cluster
    \/ /\ At("removeJob")
       /\ job' = "none"
       /\ Goto(IF Op.proof.jobFailed THEN "retire" ELSE "prepared")
       /\ UNCHANGED rows /\ UNCHANGED <<dep, pods, vols, runtimes, faults>>

\* retireFailedJob, and the error that ends the pass.
retireFailedJob ==
    /\ At("retire")
    /\ ops' = [ops EXCEPT ![work.op].err = TRUE,
                          ![work.op].proof = [@ EXCEPT !.jobKnown = FALSE, !.jobFailed = FALSE, !.jobEnded = FALSE]]
    /\ work' = NoWork
    /\ UNCHANGED <<offNode, acct, backups>> /\ UNCHANGED cluster

markRestorePrepared ==
    /\ At("prepared") /\ Op.phase = "restore"
    /\ acct' = [acct EXCEPT !.volume = work.op]
    /\ setOperationPhase("recover", "recover")
    /\ UNCHANGED <<offNode, backups>> /\ UNCHANGED cluster

\* recover: the controller is applied on the restored volume, with the plan's image.
recover ==
    /\ At("recover")
    /\ dep' = accountController(dep.note)
    /\ Goto("recovering")
    /\ UNCHANGED rows /\ UNCHANGED <<pods, vols, job, runtimes, faults>>

\* status: the running controller is the one this operation restored.
Restored(p) == Exec(p) /\ vols[p.volume].restored = work.op

\* The archived runtimes are reported ended from the source's proof, then recovery completes.
recovered ==
    /\ At("recovering")
    /\ \E p \in Running :
          /\ Restored(p)
          /\ vols[p.volume].admission = "recovering" => Op.backup \in Op.proof.backups
          /\ vols' = [vols EXCEPT ![p.volume].admission = IF @ = "recovering" THEN "recovered" ELSE @]
    /\ setOperationPhase("open", "reopen")
    /\ UNCHANGED <<offNode, acct, backups>> /\ UNCHANGED <<dep, pods, job, runtimes, faults>>

\* open: one restart, however often it is repeated, and the same controller answers after it.
reopen ==
    \/ /\ At("reopen")
       /\ \E p \in Running : Restored(p) /\ vols[p.volume].admission # "recovering"
       /\ dep' = [dep EXCEPT !.note = <<work.op>>]
       /\ Goto("reopened")
       /\ UNCHANGED rows /\ UNCHANGED <<pods, vols, job, runtimes, faults>>
    \/ /\ At("reopened") /\ rolledOut
       /\ \E p \in Running : Restored(p) /\ vols[p.volume].admission # "recovering"
       /\ Op.kind = "upgrade" => dep.image = Op.source
       /\ Goto("resume")
       /\ UNCHANGED rows /\ UNCHANGED cluster

-----------------------------------------------------------------------------
(* Upgrade. *)

\* format: the deployment names the release, and the running controller answers with its data.
Format(v) == dep.image = v /\ \E p \in Running : Exec(p) /\ vols[p.volume].data = Release(v).data

format ==
    /\ At("format") /\ Format(Op.source)
    /\ Goto("prepare")
    /\ UNCHANGED rows /\ UNCHANGED cluster

\* The archive's runtimes are proved once, while the source still runs.
backupProof ==
    /\ At("backupProof")
    /\ IF Op.proof.backups # {} THEN UNCHANGED ops
       ELSE /\ \E p \in Running : Exec(p)
            /\ \E b \in backups : b.id = work.op
            /\ SaveProof([Op.proof EXCEPT !.backups = {work.op}])
    /\ Goto("stop")
    /\ UNCHANGED <<offNode, acct, backups>> /\ UNCHANGED cluster

\* install: over a stopped controller, or over what this same installation applied before.
install ==
    \/ /\ At("install")
       /\ dep.replicas = 0 \/ dep.note = Note
       /\ dep' = [dep EXCEPT !.replicas = 1, !.image = Op.target, !.note = Note]
       /\ Goto("installed")
       /\ UNCHANGED rows /\ UNCHANGED <<pods, vols, job, runtimes, faults>>
    \/ /\ At("installed") /\ rolledOut
       /\ setOperationPhase("verify", "verify")
       /\ UNCHANGED <<offNode, acct, backups>> /\ UNCHANGED cluster

\* Mutant of verify: the plan is not changed once the target is verified.
VerifyForgets ==
    /\ At("verify") /\ Format(Op.target)
    /\ \E p \in Running : Exec(p) /\ vols[p.volume].admission = "suspended"
    /\ setOperationPhase("open", "open")
    /\ UNCHANGED <<offNode, acct, backups>> /\ UNCHANGED cluster

\* verify and installUpgradePlan: admission is still closed.
verify ==
    /\ At("verify") /\ Format(Op.target)
    /\ \E p \in Running : Exec(p) /\ vols[p.volume].admission = "suspended"
    /\ acct' = [acct EXCEPT !.image = Op.target]
    /\ setOperationPhase("open", "open")
    /\ UNCHANGED <<offNode, backups>> /\ UNCHANGED cluster

open ==
    /\ At("open") /\ Format(Op.target)
    /\ Goto("resume")
    /\ UNCHANGED rows /\ UNCHANGED cluster

-----------------------------------------------------------------------------
(* Kubernetes and the controllers. *)

PodsIn(o) == IF unfinished(o) THEN o.proof.expected ELSE {}
FreeIds == PodIds \ (ids(pods) \cup UNION {PodsIn(ops[i]) : i \in DOMAIN ops})

\* Mutant of mayStart: a rolling update starts the new pod next to the old one.
RollingUpdate == \A p \in Running : TemplateOf(p) = Template => p.deleted

\* strategy Recreate: no pod of another template runs when a new one is created.
mayStart == \A p \in Running : TemplateOf(p) = Template /\ p.deleted

\* A new pod opens its volume and applies the migrations of its image.
PodStarts ==
    /\ dep.replicas = 1 /\ mayStart /\ FreeIds # {}
    /\ vols[dep.volume].exists
    /\ pods' = pods \cup {[id |-> Min(FreeIds), image |-> dep.image, volume |-> dep.volume, note |-> dep.note,
                           run |-> TRUE, deleted |-> FALSE, held |-> FALSE]}
    /\ vols' = [vols EXCEPT ![dep.volume].data = Max({@, Release(dep.image).data})]
    /\ UNCHANGED rows /\ UNCHANGED <<work, dep, job, runtimes, faults>>

\* The deployment deletes what it no longer wants; a node may lose any pod.
PodDeleted(p) ==
    /\ ~p.deleted
    /\ \/ (dep.replicas = 0 \/ TemplateOf(p) # Template) /\ UNCHANGED faults
       \/ faults < MaxFaults /\ faults' = faults + 1
    /\ pods' = (pods \ {p}) \cup {[p EXCEPT !.deleted = TRUE]}
    /\ UNCHANGED rows /\ UNCHANGED <<work, dep, vols, job, runtimes>>

PodEnds(p) ==
    /\ p.deleted
    /\ \/ p.run /\ pods' = (pods \ {p}) \cup {[p EXCEPT !.run = FALSE]}
       \/ ~p.run /\ ~p.held /\ pods' = pods \ {p}
    /\ UNCHANGED rows /\ UNCHANGED <<work, dep, vols, job, runtimes, faults>>

\* The restore job fills its volume from the archive, or fails.
JobEnds ==
    /\ job = "running"
    /\ \E o \in pending : \E b \in backups :
          /\ b.id = ops[o].backup
          /\ \/ /\ job' = "complete"
                /\ vols' = [vols EXCEPT ![o] = [exists |-> TRUE, data |-> b.data, admission |-> "recovering",
                                                restored |-> o]]
                /\ UNCHANGED faults
             \/ job' = "failed" /\ UNCHANGED vols /\ faults < MaxFaults /\ faults' = faults + 1
    /\ UNCHANGED rows /\ UNCHANGED <<work, dep, pods, runtimes>>

\* A ready controller starts workspace pods; they end by themselves too.
Runtimes ==
    /\ \/ ~runtimes /\ (\E p \in Running : vols[p.volume].admission = "ready") /\ runtimes' = TRUE
       \/ runtimes /\ runtimes' = FALSE
    /\ UNCHANGED rows /\ UNCHANGED <<work, dep, pods, vols, job, faults>>

API == createAccount \/ beginLifecycle \/ beginBackupOperation \/ beginUpgrade \/ recoverUpgrade

Reconciler ==
    \/ reconcile \/ recordError \/ Crash
    \/ ensure \/ ensured
    \/ performSuspend \/ suspended \/ scaleDown \/ scaledDown \/ scaleUp \/ performResume \/ resumed
    \/ prepare \/ retain \/ stop \/ waitStopped \/ release \/ released
    \/ capture \/ fence \/ prove \/ adoptJob \/ applyJob \/ saveResult \/ removeJob \/ retireFailedJob
    \/ markRestorePrepared \/ recover \/ recovered \/ reopen
    \/ format \/ backupProof \/ install \/ verify \/ open

Kubernetes == PodStarts \/ (\E p \in pods : PodDeleted(p) \/ PodEnds(p)) \/ JobEnds \/ Runtimes

Next == API \/ Reconciler \/ Kubernetes

Spec == Init /\ [][Next]_vars

-----------------------------------------------------------------------------
(* Properties. *)

\* No two controllers of different images, volumes or restarts ever run at once, however an
\* upgrade, a rollback or a restore is retried: only one of them may write the account's data
\* (strategy Recreate, and the exit evidence controller-stop.ts keeps before it replaces one).
ControllersNeverMix == \A p, q \in Running : TemplateOf(p) = TemplateOf(q)

\* A controller never runs on data its release does not know: no rollback, forward fix or restore
\* leaves the account with an image older than its volume (requireUpgrade, requireRollback and the
\* order of installUpgradePlan and markRestorePrepared).
FormatUnderstood == \A p \in Running : vols[p.volume].data <= Release(p.image).data

\* From the moment an upgrade may change the data there is a backup of the source release, taken
\* while admission was closed, with the runtime proof a restore of it needs.
RecoveryPointKept ==
    \A i \in pending :
        ops[i].kind = "upgrade" /\ ops[i].phase \in {"install", "verify", "open", "controller", "restore", "recover"} =>
            /\ i \in ops[i].proof.backups
            /\ \E b \in backups : b.id = i /\ b.fenced /\ b.data = Release(ops[i].source).data

\* A suspended account has no controller and no workspace pod, and nothing that starts one.
SuspendedIsQuiet == acct.state = "suspended" => dep.replicas = 0 /\ Running = {} /\ ~runtimes

\* A ready account serves: its deployment has the plan's image and the account's volume, and the
\* controller on that volume admits work.
ReadyServes ==
    acct.state = "ready" =>
        /\ dep.replicas = 1 /\ dep.image = acct.image /\ dep.volume = acct.volume
        /\ vols[acct.volume].admission = "ready"
================================================================================
