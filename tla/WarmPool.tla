------------------------------- MODULE WarmPool -------------------------------
(***************************************************************************)
(* Warm runtimes: a reconciliation pass creates them, an enrollment socket *)
(* makes them ready, admission leases one to a queued workspace, and every *)
(* party that finds one useless drains it: the pass, the socket's end, a   *)
(* lease whose assignment failed, and the workspace's own finalizers.  The *)
(* row is written without a condition, so the parties meet in any order.   *)
(***************************************************************************)
EXTENDS Naturals, FiniteSets

CONSTANTS
    Runtime,
    Customer,      \* workspaces
    MinReady,      \* runtimes the pool keeps available
    MaxTrouble     \* bound on restarts and on operations that fail

VARIABLES
    kind,      \* the driver: "docker" or "kubernetes"
    row,       \* warm_pool_runtimes: "none", "provisioning", "ready", "leased", "draining", "failed"
    ref,       \* rows that hold a provider reference
    owner,     \* the workspace a row was leased to
    object,    \* the provider: "none", "prepared", "submitting", "running", "exited", "stopped", "gone"
    proof,     \* rows whose reference holds termination evidence
    make,      \* createWarm of a runtime: "none", "inserted", "receipted", "submitting"
    socket,    \* its enrollment socket: "none", "validated", "open", "ended", "handled"
    hub,       \* runtimes with an attached connection
    mark,      \* markReady between its read and its write
    frame,     \* the assignment sent to a runtime, or "none"
    got,       \* the assignment its supervisor received, or "none"
    customer,  \* workspaces: "queued", "provisioning", "active", "terminating", "ended"
    held,      \* the runtime of a workspace's providerRef, or "none"
    held_proof,\* workspaces whose reference holds termination evidence
    lease,     \* tryLease: "none", "claimed", "draining"
    pass,      \* the reconciliation pass: "idle", "rows", "fill"
    seen,      \* the rows it read and has yet to visit
    drain,     \* the destroy each party runs: [r, knew, step] with r = "none" when idle
    aged,      \* runtimes past their enrollment or warm age
    trouble

warmVars == <<kind, row, ref, owner, object, proof, make, socket, hub, mark, frame, got, customer, held, held_proof, lease, pass, seen, drain, aged, trouble>>

Party == {"pass", "socket", "lease"}
Idle == [r |-> "none", knew |-> FALSE, step |-> "none"]
WarmInit ==
    /\ kind \in {"docker", "kubernetes"} /\ row = [r \in Runtime |-> "none"] /\ ref = {}
    /\ owner = [r \in Runtime |-> "none"] /\ object = [r \in Runtime |-> "none"] /\ proof = {}
    /\ make = [r \in Runtime |-> "none"] /\ socket = [r \in Runtime |-> "none"] /\ hub = {} /\ mark = {}
    /\ frame = [r \in Runtime |-> "none"] /\ got = [r \in Runtime |-> "none"]
    /\ customer = [w \in Customer |-> "queued"] /\ held = [w \in Customer |-> "none"] /\ held_proof = {}
    /\ lease = [w \in Customer |-> "none"] /\ pass = "idle" /\ seen = <<>> /\ drain = [p \in Party |-> Idle]
    /\ aged = {} /\ trouble = 0

Workspaces == <<customer, held, held_proof, lease>>
Agents == <<socket, hub, mark, frame, got>>
Trouble == trouble < MaxTrouble /\ trouble' = trouble + 1

-----------------------------------------------------------------------------
(* destroy: mark the row, close its connection, stop and remove the provider, record the end. *)

\* The row is written whatever it holds.
updateWarmPoolRuntime(r, state) == row' = [row EXCEPT ![r] = state]
Begin(p, r, knew) == drain' = [drain EXCEPT ![p] = [r |-> r, knew |-> knew, step |-> "mark"]]
markDraining(p) ==
    LET r == drain[p].r IN
    /\ drain[p].step = "mark" /\ updateWarmPoolRuntime(r, "draining")
    /\ hub' = hub \ {r} /\ socket' = [socket EXCEPT ![r] = IF r \in hub THEN "ended" ELSE @]
    /\ drain' = [drain EXCEPT ![p].step = IF drain[p].knew THEN "stop" ELSE "find"]
    /\ UNCHANGED <<kind, ref, owner, object, proof, make, mark, frame, got, pass, seen, aged, trouble>> /\ UNCHANGED Workspaces
\* Without a saved reference the driver looks for the object: docker's list may show nothing, kubernetes must prove absence.
uncommittedWarmProvider(r) ==
    IF kind = "docker" THEN IF object[r] \in {"running", "exited", "stopped"} THEN "found" ELSE "nothing"
    ELSE CASE object[r] \in {"running", "exited", "stopped"} -> "found" [] object[r] = "prepared" -> "claimed" [] OTHER -> "unproved"
findProvider(p) ==
    LET r == drain[p].r  answer == uncommittedWarmProvider(r) IN
    /\ drain[p].step = "find"
    /\ drain' = [drain EXCEPT ![p] = CASE answer = "unproved" -> [@ EXCEPT !.step = "false"] [] answer = "nothing" -> [@ EXCEPT !.step = "end"]
                                       [] OTHER -> [@ EXCEPT !.step = "stop"]]
    /\ ref' = IF answer \in {"found", "claimed"} THEN ref \cup {r} ELSE ref
    /\ proof' = IF answer = "claimed" THEN proof \cup {r} ELSE proof
    /\ object' = IF answer = "claimed" THEN [object EXCEPT ![r] = "stopped"] ELSE object
    /\ UNCHANGED <<kind, row, owner, make, pass, seen, aged, trouble>> /\ UNCHANGED Agents /\ UNCHANGED Workspaces
\* The evidence a leased runtime's workspace saved serves its row as well.
Evidence(r) == r \in proof \/ (owner[r] # "none" /\ held[owner[r]] = r /\ owner[r] \in held_proof)
\* driver.stop and its evidence; a provider that another party removed needs the saved proof.
stopProvider(p) ==
    LET r == drain[p].r  absent == object[r] \in {"none", "gone", "submitting"} IN
    /\ drain[p].step = "stop"
    /\ \/ /\ absent /\ kind = "kubernetes" /\ ~Evidence(r) /\ drain' = [drain EXCEPT ![p].step = "false"] /\ UNCHANGED <<object, proof, trouble>>
       \/ /\ kind = "docker" \/ ~absent \/ Evidence(r)
          /\ drain' = [drain EXCEPT ![p].step = "remove"]
          /\ object' = IF absent THEN object ELSE [object EXCEPT ![r] = "stopped"]
          /\ proof' = IF kind = "kubernetes" THEN proof \cup {r} ELSE proof
          /\ UNCHANGED trouble
       \/ Trouble /\ drain' = [drain EXCEPT ![p].step = "false"] /\ UNCHANGED <<object, proof>>
    /\ UNCHANGED <<kind, row, ref, owner, make, pass, seen, aged>> /\ UNCHANGED Agents /\ UNCHANGED Workspaces
Gone(r) == object' = [object EXCEPT ![r] = IF @ = "none" THEN "none" ELSE "gone"]
removeProvider(p) ==
    /\ drain[p].step = "remove" /\ Gone(drain[p].r) /\ drain' = [drain EXCEPT ![p].step = "end"]
    /\ UNCHANGED <<kind, row, ref, owner, proof, make, pass, seen, aged, trouble>> /\ UNCHANGED Agents /\ UNCHANGED Workspaces
\* Mutant of recordEnd: the row is closed although the clean-up failed.
EndAnyway(p) ==
    LET r == drain[p].r IN
    /\ drain[p].step \in {"end", "false"} /\ drain' = [drain EXCEPT ![p] = Idle] /\ row' = [row EXCEPT ![r] = "failed"]
    /\ lease' = lease /\ UNCHANGED <<kind, ref, owner, object, proof, make, pass, seen, aged, trouble, customer, held, held_proof>> /\ UNCHANGED Agents
recordEnd(p) ==
    LET r == drain[p].r IN
    /\ drain[p].step \in {"end", "false"} /\ drain' = [drain EXCEPT ![p] = Idle]
    /\ IF drain[p].step = "end" THEN updateWarmPoolRuntime(r, "failed") ELSE UNCHANGED row
    \* tryLease goes on: a clean miss returns the workspace to the queue, otherwise it must end.
    /\ LET ws == {w \in Customer : p = "lease" /\ lease[w] = "draining"}
           back == {w \in ws : customer[w] = "provisioning" /\ drain[p].step = "end"}
           out == {w \in ws : customer[w] = "provisioning" /\ drain[p].step = "false"} IN
       /\ lease' = [w \in Customer |-> IF w \in ws THEN "none" ELSE lease[w]]
       /\ customer' = [w \in Customer |-> IF w \in back THEN "queued" ELSE IF w \in out THEN "terminating" ELSE customer[w]]
       /\ held' = [w \in Customer |-> IF w \in back THEN "none" ELSE held[w]]
       /\ held_proof' = held_proof \ back
    /\ UNCHANGED <<kind, ref, owner, object, proof, make, pass, seen, aged, trouble>> /\ UNCHANGED Agents

-----------------------------------------------------------------------------
(* The reconciliation pass. *)

ToVisit == DOMAIN seen
Rest1 == UNCHANGED <<kind, owner, proof, make, aged, trouble>> /\ UNCHANGED Agents /\ UNCHANGED Workspaces
\* The rows are read, then the provider's list fills in references that were never saved.
startPass ==
    /\ pass = "idle" /\ pass' = "rows"
    /\ LET adopted == {r \in Runtime : r \notin ref /\ row[r] \in {"provisioning", "draining"} /\ object[r] \in {"running", "exited", "stopped"}} IN
       /\ ref' = ref \cup adopted
       /\ seen' = [r \in {x \in Runtime : row[x] # "none"} |-> [state |-> row[r], ref |-> r \in ref \cup adopted]]
    /\ UNCHANGED <<row, object, drain>> /\ Rest1
\* cleanupReason: the age counts while unassigned, the owner's end afterwards.
cleanupReason(r) ==
    \/ seen[r].state \in {"provisioning", "ready"} /\ r \in aged
    \/ owner[r] # "none" /\ seen[r].state = "leased" /\ customer[owner[r]] = "ended"
inspected(r) == object[r] = "running"
reconcileRow(r) ==
    /\ pass = "rows" /\ drain["pass"] = Idle /\ r \in ToVisit
    /\ seen' = [x \in ToVisit \ {r} |-> seen[x]]
    /\ IF \/ seen[r].state = "draining"
          \/ seen[r].state # "failed" /\ (cleanupReason(r) \/ (seen[r].ref /\ ~inspected(r)))
       THEN Begin("pass", r, seen[r].ref) ELSE UNCHANGED drain
    /\ UNCHANGED <<row, ref, object, pass>> /\ Rest1
startFill ==
    /\ pass = "rows" /\ ToVisit = {} /\ drain["pass"] = Idle /\ pass' = "fill"
    /\ UNCHANGED <<row, ref, object, seen, drain>> /\ Rest1
Available == {r \in Runtime : row[r] \in {"provisioning", "ready", "draining"}}
Making == {r \in Runtime : make[r] # "none"}
createRow(r) ==
    /\ pass = "fill" /\ Making = {} /\ drain["pass"] = Idle /\ Cardinality(Available) < MinReady /\ row[r] = "none"
    /\ updateWarmPoolRuntime(r, "provisioning") /\ make' = [make EXCEPT ![r] = "inserted"]
    /\ UNCHANGED <<kind, ref, owner, object, proof, pass, seen, drain, aged, trouble>> /\ UNCHANGED Agents /\ UNCHANGED Workspaces
endPass ==
    /\ pass = "fill" /\ Making = {} /\ drain["pass"] = Idle
    /\ (Cardinality(Available) >= MinReady \/ \A r \in Runtime : row[r] # "none")
    /\ pass' = "idle" /\ UNCHANGED <<row, ref, object, seen, drain>> /\ Rest1
\* docker starts one container.
createWarmDocker(r) ==
    /\ make[r] = "inserted" /\ kind = "docker" /\ make' = [make EXCEPT ![r] = "returned"] /\ object' = [object EXCEPT ![r] = "running"]
    /\ UNCHANGED <<kind, row, ref, owner, proof, pass, seen, drain, aged, trouble>> /\ UNCHANGED Agents /\ UNCHANGED Workspaces
\* kubernetes writes its receipt, claims the phase and submits the Job.
createKubernetesWarm(r) ==
    /\ UNCHANGED <<kind, row, ref, owner, proof, pass, seen, drain, aged, trouble>> /\ UNCHANGED Agents /\ UNCHANGED Workspaces
    /\ \/ /\ make[r] = "inserted" /\ kind = "kubernetes" /\ make' = [make EXCEPT ![r] = "receipted"] /\ object' = [object EXCEPT ![r] = "prepared"]
       \/ /\ make[r] = "receipted" /\ object[r] = "prepared" /\ make' = [make EXCEPT ![r] = "submitting"] /\ object' = [object EXCEPT ![r] = "submitting"]
       \/ /\ make[r] = "submitting" /\ object[r] = "submitting" /\ make' = [make EXCEPT ![r] = "returned"] /\ object' = [object EXCEPT ![r] = "running"]
\* The reference is saved, over whatever the row has become.
saveRef(r) ==
    /\ make[r] = "returned" /\ make' = [make EXCEPT ![r] = "none"] /\ ref' = ref \cup {r}
    /\ UNCHANGED <<kind, row, owner, object, proof, pass, seen, drain, aged, trouble>> /\ UNCHANGED Agents /\ UNCHANGED Workspaces
\* A step fails, or kubernetes refuses the phase because a clean-up claimed it: destroy with the row as inserted.
createFailed(r) ==
    /\ make[r] # "none" /\ drain["pass"] = Idle
    /\ IF make[r] = "receipted" /\ object[r] # "prepared" THEN UNCHANGED trouble ELSE Trouble
    /\ make' = [make EXCEPT ![r] = "none"] /\ updateWarmPoolRuntime(r, "draining") /\ Begin("pass", r, FALSE)
    /\ UNCHANGED <<kind, ref, owner, object, proof, pass, seen, aged>> /\ UNCHANGED Agents /\ UNCHANGED Workspaces
land(r) ==
    /\ object[r] = "submitting" /\ make[r] = "none" /\ object' = [object EXCEPT ![r] = "running"]
    /\ UNCHANGED <<row, ref, pass, seen, drain>> /\ Rest1

-----------------------------------------------------------------------------
(* The enrollment socket. *)

Rest2 == UNCHANGED <<kind, ref, owner, object, proof, make, pass, seen, aged, trouble>> /\ UNCHANGED Workspaces
poolConnectValidator(r) ==
    /\ object[r] = "running" /\ socket[r] = "none"
    /\ socket' = [socket EXCEPT ![r] = IF row[r] = "provisioning" /\ r \notin aged THEN "validated" ELSE "handled"]
    /\ UNCHANGED <<row, hub, mark, frame, got, drain>> /\ Rest2
\* pool_registered: the hub holds the connection before the row is ready.
attach(r) ==
    /\ socket[r] = "validated" /\ socket' = [socket EXCEPT ![r] = "open"] /\ hub' = hub \cup {r}
    /\ UNCHANGED <<row, mark, frame, got, drain>> /\ Rest2
\* markReady reads the row, and waits a while for the reference.
readRow(r) ==
    /\ socket[r] = "open" /\ r \notin mark /\ frame[r] = "none" /\ row[r] # "ready"
    /\ IF row[r] = "provisioning" /\ r \in ref THEN mark' = mark \cup {r} /\ UNCHANGED socket
       ELSE socket' = [socket EXCEPT ![r] = "ended"] /\ UNCHANGED mark
    /\ UNCHANGED <<row, hub, frame, got, drain>> /\ Rest2
\* Mutant of markReady: the runtime is enrolled again after its lease.
MarkAgain(r) ==
    /\ (r \in mark \/ (socket[r] \in {"ended", "handled"} /\ row[r] = "leased")) /\ mark' = mark \ {r} /\ updateWarmPoolRuntime(r, "ready")
    /\ UNCHANGED <<socket, hub, frame, got, drain>> /\ Rest2
markReady(r) ==
    /\ r \in mark /\ mark' = mark \ {r} /\ updateWarmPoolRuntime(r, "ready")
    /\ UNCHANGED <<socket, hub, frame, got, drain>> /\ Rest2
\* onClose: detach, read the row, and drain what was not leased.
disconnected(r) ==
    /\ socket[r] = "ended" /\ drain["socket"] = Idle
    /\ socket' = [socket EXCEPT ![r] = "handled"] /\ hub' = hub \ {r}
    /\ IF row[r] \in {"provisioning", "ready"} THEN Begin("socket", r, r \in ref) ELSE UNCHANGED drain
    /\ UNCHANGED <<row, mark, frame, got>> /\ Rest2
\* waitForPoolLease: one assignment, then the supervisor closes the socket.
waitForPoolLease(r) ==
    /\ frame[r] # "none" /\ got[r] = "none" /\ object[r] = "running" /\ socket[r] = "open"
    /\ got' = [got EXCEPT ![r] = frame[r]] /\ socket' = [socket EXCEPT ![r] = "ended"]
    /\ UNCHANGED <<row, hub, mark, frame, drain>> /\ Rest2
runtimeExits(r) ==
    /\ object[r] = "running" /\ Trouble /\ object' = [object EXCEPT ![r] = "exited"]
    /\ socket' = [socket EXCEPT ![r] = IF @ \in {"validated", "open"} THEN "ended" ELSE @]
    /\ UNCHANGED <<kind, row, ref, owner, proof, make, pass, seen, drain, aged, hub, mark, frame, got>> /\ UNCHANGED Workspaces

-----------------------------------------------------------------------------
(* Leases and the workspaces that hold them. *)

Rest3 == UNCHANGED <<kind, ref, proof, make, pass, seen, aged, trouble, socket, hub, mark>>
\* claimWarmPoolRuntime: the lease and the workspace commit together.
claimWarmPoolRuntime(w, r) ==
    /\ customer[w] = "queued" /\ lease[w] = "none" /\ row[r] = "ready" /\ r \in ref
    /\ row' = [row EXCEPT ![r] = "leased"] /\ owner' = [owner EXCEPT ![r] = w]
    /\ customer' = [customer EXCEPT ![w] = "provisioning"] /\ held' = [held EXCEPT ![w] = r] /\ lease' = [lease EXCEPT ![w] = "claimed"]
    /\ UNCHANGED <<object, held_proof, frame, got, drain>> /\ Rest3
assign(w) ==
    LET r == held[w] IN
    /\ lease[w] = "claimed" /\ drain["lease"] = Idle
    /\ IF r \in hub THEN frame' = [frame EXCEPT ![r] = w] /\ lease' = [lease EXCEPT ![w] = "none"] /\ UNCHANGED drain
       ELSE Begin("lease", r, TRUE) /\ lease' = [lease EXCEPT ![w] = "draining"] /\ UNCHANGED frame
    /\ UNCHANGED <<row, owner, object, customer, held, held_proof, got>> /\ Rest3
registerWorkspace(r) ==
    LET w == got[r] IN
    /\ w # "none" /\ object[r] = "running" /\ customer[w] = "provisioning" /\ held[w] = r
    /\ customer' = [customer EXCEPT ![w] = "active"]
    /\ UNCHANGED <<row, owner, object, held, held_proof, lease, frame, got, drain>> /\ Rest3
\* The sweep: a warm launch that did not register is stopped, removed and queued again.
sweepProvisioning(w) ==
    /\ customer[w] = "provisioning" /\ lease[w] = "none" /\ (kind = "docker" \/ object[held[w]] # "gone") /\ Gone(held[w])
    /\ customer' = [customer EXCEPT ![w] = "queued"] /\ held' = [held EXCEPT ![w] = "none"]
    /\ UNCHANGED <<row, owner, held_proof, lease, frame, got, drain>> /\ Rest3
\* The finalizer of Lifecycle: evidence in the workspace's reference, then removal.
finalize(w) ==
    /\ customer[w] \in {"provisioning", "active", "terminating"} /\ lease[w] = "none"
    /\ (kind = "docker" \/ object[held[w]] # "gone" \/ w \in held_proof)
    /\ Gone(held[w]) /\ customer' = [customer EXCEPT ![w] = "ended"] /\ held_proof' = held_proof \cup {w}
    /\ UNCHANGED <<row, owner, held, lease, frame, got, drain>> /\ Rest3

-----------------------------------------------------------------------------
age(r) ==
    /\ row[r] # "none" /\ r \notin aged /\ aged' = aged \cup {r}
    /\ UNCHANGED <<kind, row, ref, owner, object, proof, make, pass, seen, drain, trouble>> /\ UNCHANGED Agents /\ UNCHANGED Workspaces
restart ==
    /\ Trouble /\ pass' = "idle" /\ seen' = <<>> /\ drain' = [p \in Party |-> Idle] /\ hub' = {} /\ mark' = {}
    /\ make' = [r \in Runtime |-> "none"] /\ lease' = [w \in Customer |-> "none"]
    /\ socket' = [r \in Runtime |-> IF socket[r] = "none" THEN "none" ELSE "handled"]
    /\ object' = [r \in Runtime |-> IF object[r] = "running" /\ socket[r] \in {"validated", "open"} THEN "exited" ELSE object[r]]
    /\ UNCHANGED <<kind, row, ref, owner, proof, frame, got, customer, held, held_proof, aged>>

WarmNext ==
    \/ \E p \in Party : markDraining(p) \/ findProvider(p) \/ stopProvider(p) \/ removeProvider(p) \/ recordEnd(p)
    \/ startPass \/ startFill \/ endPass \/ restart
    \/ \E r \in Runtime :
        \/ reconcileRow(r) \/ createRow(r) \/ createWarmDocker(r) \/ createKubernetesWarm(r) \/ saveRef(r) \/ createFailed(r) \/ land(r)
        \/ poolConnectValidator(r) \/ attach(r) \/ readRow(r) \/ markReady(r) \/ disconnected(r) \/ waitForPoolLease(r)
        \/ runtimeExits(r) \/ registerWorkspace(r) \/ age(r)
        \/ \E w \in Customer : claimWarmPoolRuntime(w, r)
    \/ \E w \in Customer : assign(w) \/ sweepProvisioning(w) \/ finalize(w)

-----------------------------------------------------------------------------
\* A runtime serves one workspace in its life, however drains, leases, enrollments and restarts interleave; a workspace
\* uses only the runtime it holds; and a row is closed only when its provider has been removed, so that nothing the
\* pool created outlives its row.
NeverRecycled ==
    /\ \A r \in Runtime : got[r] # "none" => got[r] = owner[r]
    /\ \A w, x \in Customer : (w # x /\ held[w] # "none") => held[w] # held[x]
    /\ \A r \in Runtime : (row[r] = "failed" /\ make[r] = "none") => object[r] \in {"none", "gone"}

\* Kubernetes: once a Job that ran has been removed, its termination evidence is in the row or in its workspace's reference.
RemovalIsProved ==
    kind = "kubernetes" => \A r \in Runtime : object[r] = "gone" => Evidence(r)
=============================================================================
