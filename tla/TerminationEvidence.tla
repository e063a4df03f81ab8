------------------------- MODULE TerminationEvidence -------------------------
(***************************************************************************)
(* Stopping a Kubernetes Job with proof.  Several finalizers may stop the  *)
(* same Job; the Job controller, the kubelet, the node autoscaler and the  *)
(* Job's TTL act on their own.  A finalizer retains the Pods, suspends the *)
(* Job, deletes the Pods, waits until each has an exit record, writes the  *)
(* proof on the Job, releases the Pods, saves the proof in the row and     *)
(* only then removes the Job.                                              *)
(***************************************************************************)
EXTENDS Naturals, FiniteSets

CONSTANTS
    JobPod,
    Finalizer,
    MaxBreaks     \* bound on lost nodes, failed requests and controller crashes

VARIABLES
    job,       \* "present", "deleting", "absent"
    suspend, settled,  \* spec.suspend, and the condition: "no", "suspended" or "finished" (Complete, Failed)
    noted,     \* the pod-admitted annotation
    counted,   \* the Job's status counts a Pod
    jproof,    \* the proof on the Job: "none" or the Pods it covers
    rproof,    \* the proof in the row
    pod,       \* "none", "unbound", "running", "stopped", "unknown", "gone"
    fin,       \* Pods that carry the evidence finalizer
    del,       \* Pods with a deletion timestamp
    known,     \* Pods whose node identity is retained
    lost,      \* Pods whose node is gone
    step, pods, leaving,  \* a finalizer's place, its Pod snapshot, and whether the Job was in deletion when it was read
    overtaken, \* the TTL ended the Job when its Pods were no longer sure to wait for the saved proof
    breaks

evidenceVars == <<job, suspend, settled, noted, counted, jproof, rproof, pod, fin, del, known, lost, step, pods, leaving, overtaken, breaks>>

None == {"none"}
EvidenceInit ==
    /\ job = "present" /\ suspend = FALSE /\ settled = "no" /\ noted = FALSE /\ counted = FALSE
    /\ jproof = None /\ rproof = None /\ pod = [p \in JobPod |-> "none"] /\ fin = {} /\ del = {} /\ known = {} /\ lost = {}
    /\ step = [f \in Finalizer |-> "idle"] /\ pods = [f \in Finalizer |-> {}] /\ leaving = [f \in Finalizer |-> FALSE] /\ breaks = 0 /\ overtaken = FALSE

podsFor == {p \in JobPod : pod[p] \notin {"none", "gone"}}
\* podHasStopped: every container has an exit record, or the Pod was deleted before it was bound and never can be.
podHasStopped(p) == pod[p] = "stopped" \/ (pod[p] = "unbound" /\ p \in del)
\* hasNoPodAdmission: the template retains every Pod, and nothing says that one was ever admitted.
hasNoPodAdmission == ~noted /\ ~counted
retainedProof == job # "absent" /\ jproof # None

Cluster == <<job, suspend, settled, noted, counted, pod, fin, del, known, lost>>
Go(f, s) == step' = [step EXCEPT ![f] = s]
\* Another finalizer may have saved the proof already; otherwise this attempt ends and is retried.
Throw(f) == Go(f, IF rproof # None THEN "remove" ELSE "idle")
Break == breaks < MaxBreaks /\ breaks' = breaks + 1

-----------------------------------------------------------------------------
(* captureTermination. *)

captureTermination(f) ==
    /\ step[f] = "idle" /\ leaving' = [leaving EXCEPT ![f] = job = "deleting"]
    /\ IF job = "absent" THEN Throw(f) ELSE Go(f, IF jproof # None THEN "release" ELSE "list")
    /\ UNCHANGED <<jproof, rproof, pods, overtaken, breaks>> /\ UNCHANGED Cluster
\* The first snapshot; an empty one needs a proof of its own.
listPods(f) ==
    /\ step[f] = "list" /\ pods' = [pods EXCEPT ![f] = podsFor]
    /\ IF podsFor = {} /\ retainedProof THEN Go(f, "release")
       ELSE IF job = "absent" \/ (podsFor = {} /\ ~hasNoPodAdmission) THEN Throw(f) ELSE Go(f, "retain")
    /\ UNCHANGED <<jproof, rproof, leaving, overtaken, breaks>> /\ UNCHANGED Cluster
\* retainNodes: the finalizer and the node's identity; a node that is gone must have been noted before.
RetainOk(ps) == \A p \in ps : pod[p] = "unbound" \/ p \in known \/ p \notin lost
Retained(ps) == fin' = fin \cup (ps \cap podsFor) /\ known' = known \cup {p \in ps : pod[p] # "unbound"}
retainNodes(f) ==
    /\ step[f] = "retain" /\ UNCHANGED <<job, suspend, settled, noted, counted, pod, del, lost, jproof, rproof, pods, leaving, overtaken, breaks>>
    /\ IF pods[f] \subseteq podsFor /\ RetainOk(pods[f]) THEN Retained(pods[f]) /\ Go(f, "suspend") ELSE Throw(f) /\ UNCHANGED <<fin, known>>
\* Mutant of suspendJob: the Pods are deleted while the Job may still create others.
NeverSuspend(f) ==
    /\ step[f] = "suspend" /\ Go(f, "relist")
    /\ UNCHANGED <<job, suspend, settled, noted, counted, pod, fin, del, known, lost, jproof, rproof, pods, leaving, overtaken, breaks>>
suspendJob(f) ==
    /\ step[f] = "suspend" /\ UNCHANGED <<job, settled, noted, counted, pod, fin, del, known, lost, jproof, rproof, pods, leaving, overtaken, breaks>>
    /\ IF job = "absent" THEN Throw(f) /\ UNCHANGED suspend ELSE suspend' = TRUE /\ Go(f, "confirm")
\* stoppedJob: a condition of the Job controller says that it creates no further Pod.
stoppedJob(f) ==
    /\ step[f] = "confirm" /\ (settled # "no" \/ job = "absent")
    /\ IF job = "absent" \/ (pods[f] = {} /\ ~hasNoPodAdmission) THEN Throw(f) ELSE Go(f, "relist")
    /\ UNCHANGED <<jproof, rproof, pods, leaving, overtaken, breaks>> /\ UNCHANGED Cluster
relistPods(f) ==
    /\ step[f] = "relist" /\ IF podsFor # pods[f] THEN Throw(f) ELSE Go(f, "delete")
    /\ UNCHANGED <<jproof, rproof, pods, leaving, overtaken, breaks>> /\ UNCHANGED Cluster
deleteRetainedPods(f) ==
    /\ step[f] = "delete" /\ del' = del \cup (pods[f] \cap podsFor) /\ Go(f, "poll")
    /\ UNCHANGED <<job, suspend, settled, noted, counted, pod, fin, known, lost, jproof, rproof, pods, leaving, overtaken, breaks>>
\* Poll until every Pod has stopped; a changed set is an error unless another finalizer has written the proof.
pollPods(f) ==
    /\ step[f] = "poll" /\ UNCHANGED <<job, suspend, settled, noted, counted, pod, del, lost, jproof, rproof, pods, leaving, overtaken, breaks>>
    /\ IF podsFor # pods[f] THEN (IF retainedProof THEN Go(f, "release") ELSE Throw(f)) /\ UNCHANGED <<fin, known>>
       ELSE IF ~RetainOk(pods[f]) THEN Throw(f) /\ UNCHANGED <<fin, known>>
       ELSE /\ \A p \in pods[f] : podHasStopped(p)
            /\ Retained(pods[f]) /\ Go(f, "prove")
writeProof(f) ==
    /\ step[f] = "prove" /\ UNCHANGED <<rproof, pods, leaving, overtaken, breaks>> /\ UNCHANGED Cluster
    /\ IF job = "absent" THEN Throw(f) /\ UNCHANGED jproof ELSE jproof' = pods[f] /\ Go(f, "release")
\* Pods of a Job in deletion wait for remove().
releaseRetainedPods(f) ==
    /\ step[f] = "release" /\ fin' = (IF leaving[f] THEN fin ELSE {}) /\ Go(f, "read")
    /\ UNCHANGED <<job, suspend, settled, noted, counted, pod, del, known, lost, jproof, rproof, pods, leaving, overtaken, breaks>>
\* Mutant of readTerminationEvidence: removal comes first, and the row is written by the next attempt.
RemoveFirst(f) ==
    /\ step[f] = "read" /\ Go(f, "remove") /\ UNCHANGED <<jproof, rproof, pods, leaving, overtaken, breaks>> /\ UNCHANGED Cluster
\* readTerminationEvidence, and the proof is saved before removal.
readTerminationEvidence(f) ==
    /\ step[f] = "read" /\ rproof' = (IF retainedProof THEN jproof ELSE rproof) /\ Go(f, "remove")
    /\ UNCHANGED <<jproof, pods, leaving, overtaken, breaks>> /\ UNCHANGED Cluster
removeReferencedJob(f) ==
    /\ step[f] = "remove" /\ Go(f, "done") /\ fin' = {}
    /\ job' = (IF job = "present" THEN "deleting" ELSE job) /\ del' = IF job = "present" THEN del \cup podsFor ELSE del
    /\ UNCHANGED <<suspend, settled, noted, counted, pod, known, lost, jproof, rproof, pods, leaving, overtaken, breaks>>
requestFails(f) ==
    /\ step[f] \notin {"idle", "done"} /\ Break /\ Throw(f) /\ UNCHANGED <<jproof, rproof, pods, leaving, overtaken>> /\ UNCHANGED Cluster
\* inspect: the sweep notes that a Pod exists, and the identities of nodes while they are there.
retainNodeIdentities ==
    /\ job # "absent" /\ podsFor # {} /\ noted' = TRUE
    /\ known' = known \cup {p \in podsFor : pod[p] # "unbound" /\ p \notin lost}
    /\ UNCHANGED <<job, suspend, settled, counted, pod, fin, del, lost, jproof, rproof, step, pods, leaving, overtaken, breaks>>

-----------------------------------------------------------------------------
(* The cluster. *)

Ours == UNCHANGED <<jproof, rproof, step, pods, leaving, overtaken>>
createPod(p) ==
    /\ job = "present" /\ settled = "no" /\ pod[p] = "none" /\ \A q \in podsFor : q \in del
    /\ pod' = [pod EXCEPT ![p] = "unbound"] /\ fin' = fin \cup {p}
    /\ UNCHANGED <<job, suspend, settled, noted, counted, del, known, lost, breaks>> /\ Ours
countPods ==
    /\ ~counted /\ podsFor # {} /\ counted' = TRUE
    /\ UNCHANGED <<job, suspend, settled, noted, pod, fin, del, known, lost, breaks>> /\ Ours
bindPod(p) ==
    /\ pod[p] = "unbound" /\ p \notin del /\ pod' = [pod EXCEPT ![p] = "running"]
    /\ UNCHANGED <<job, suspend, settled, noted, counted, fin, del, known, lost, breaks>> /\ Ours
stopPod(p) ==
    /\ pod[p] = "running" /\ pod' = [pod EXCEPT ![p] = "stopped"]
    /\ UNCHANGED <<job, suspend, settled, noted, counted, fin, del, known, lost, breaks>> /\ Ours
\* A node is removed: a running Pod's fate is unknown, and Pods that were on it can no longer name it.
loseNode(p) ==
    /\ pod[p] \in {"running", "stopped"} /\ p \notin lost /\ Break /\ lost' = lost \cup {p} /\ del' = del \cup {p}
    /\ pod' = [pod EXCEPT ![p] = IF @ = "running" THEN "unknown" ELSE @]
    /\ UNCHANGED <<job, suspend, settled, noted, counted, fin, known>> /\ Ours
evictPod(p) ==
    /\ pod[p] \in {"unbound", "running"} /\ p \notin del /\ Break /\ del' = del \cup {p}
    /\ UNCHANGED <<job, suspend, settled, noted, counted, pod, fin, known, lost>> /\ Ours
dropPod(p) ==
    /\ p \in del /\ p \notin fin /\ pod[p] \in {"unbound", "stopped", "unknown"} /\ pod' = [pod EXCEPT ![p] = "gone"]
    /\ UNCHANGED <<job, suspend, settled, noted, counted, fin, del, known, lost, breaks>> /\ Ours
\* The Job controller observes the suspension, or the end of the Job's only run; it has counted its Pods by then.
settleJob ==
    /\ job # "absent"
    /\ \/ settled = "no" /\ suspend /\ settled' = "suspended"
       \/ /\ settled # "finished" /\ settled' = "finished"
          /\ \E p \in JobPod : pod[p] = "stopped" \/ (pod[p] = "unknown" /\ p \in del)
    /\ counted' = (counted \/ podsFor # {})
    /\ UNCHANGED <<job, suspend, noted, pod, fin, del, known, lost, breaks>> /\ Ours
\* A finalizer holds the Job as it was before this moment, or has released its Pods, and the row has no proof yet.
Exposed ==
    /\ rproof = None
    /\ \/ \E f \in Finalizer : step[f] \notin {"idle", "done"} /\ ~leaving[f]
       \/ jproof # None /\ fin = {}
\* The TTL of a finished Job ends, whatever the finalizers are doing.
ttl ==
    /\ job = "present" /\ settled = "finished" /\ job' = "deleting" /\ del' = del \cup podsFor
    /\ overtaken' = (overtaken \/ Exposed)
    /\ UNCHANGED <<suspend, settled, noted, counted, pod, fin, known, lost, breaks, jproof, rproof, step, pods, leaving>>
dropJob ==
    /\ job = "deleting" /\ podsFor = {} /\ job' = "absent"
    /\ UNCHANGED <<suspend, settled, noted, counted, pod, fin, del, known, lost, breaks>> /\ Ours
crash ==
    /\ Break /\ step' = [f \in Finalizer |-> IF step[f] = "done" THEN "done" ELSE "idle"]
    /\ UNCHANGED <<jproof, rproof, pods, leaving, overtaken>> /\ UNCHANGED Cluster

EvidenceNext ==
    \/ \E f \in Finalizer :
        \/ captureTermination(f) \/ listPods(f) \/ retainNodes(f) \/ suspendJob(f) \/ stoppedJob(f) \/ relistPods(f)
        \/ deleteRetainedPods(f) \/ pollPods(f) \/ writeProof(f) \/ releaseRetainedPods(f) \/ readTerminationEvidence(f)
        \/ removeReferencedJob(f) \/ requestFails(f)
    \/ \E p \in JobPod : createPod(p) \/ bindPod(p) \/ stopPod(p) \/ loseNode(p) \/ evictPod(p) \/ dropPod(p)
    \/ countPods \/ settleJob \/ ttl \/ dropJob \/ retainNodeIdentities \/ crash

-----------------------------------------------------------------------------
\* Whichever finalizers, evictions, node losses, TTL and crashes led there: a Job disappears only after the proof was
\* written on it, and after the row holds that proof unless the TTL came between a finalizer's read of the Job and its
\* save, where the code does not look again (kubernetes-evidence.ts:243); and a proof means that nothing of the Job runs,
\* nothing of it will, no Pod's fate is unknown, and a proof without Pods that there were none.
EvidenceIsSound ==
    /\ job = "absent" => jproof # None /\ (rproof # None \/ overtaken)
    /\ \A proof \in {jproof, rproof} : proof # None =>
          \A p \in JobPod : pod[p] \notin {"running", "unknown"} /\ (proof = {} => pod[p] = "none")
=============================================================================
