---------------------------- MODULE WorkspaceLeases ----------------------------
(***************************************************************************)
(* The credentials an issuer mints for one workspace: the lease rows and   *)
(* their fence, the lease service that talks to the issuer, the frames     *)
(* that renew a credential and the file the supervisor keeps.  A lease is  *)
(* a number in the order of creation; "setup" leases serve the source      *)
(* checkout, "runtime" leases are renewed while the workspace runs.        *)
(*                                                                         *)
(* A call of the service is a task: every await of it is a step, and an    *)
(* issuer that does not answer in time may still act on the request later. *)
(* The issuer keeps a permanent tombstone per revoked request.             *)
(***************************************************************************)
EXTENDS Naturals, FiniteSets, FiniteSetsExt

CONSTANTS
    MaxLeases,   \* bound on the leases of the workspace
    MaxTasks,    \* bound on the calls of the lease service in flight
    MaxFaults    \* bound on timeouts, expiries, restarts and retirements

VARIABLES
    wsp,       \* the state of the workspace
    lease,     \* the lease rows: [state, purpose, request, delivered]
    fence,     \* workspace_lease_fences has the workspace
    retired,   \* the secret is retired
    tasks,     \* the calls in flight, by slot
    minted,    \* requests the issuer has minted a credential for
    tomb,      \* requests the issuer has revoked
    late,      \* mint requests that are still on their way to the issuer
    past,      \* leases whose expiry has passed
    file,      \* the lease in the supervisor's credential file, 0 for none, Exited when the supervisor is gone
    confirm,   \* confirmations the supervisor repeats: [previous, installed]
    lfaults

leaseVars == <<wsp, lease, fence, retired, tasks, minted, tomb, late, past, file, confirm, lfaults>>
store == <<wsp, lease, fence, retired>>
issuer == <<minted, tomb, late>>
agent == <<file, confirm>>

Leases == DOMAIN lease
Slots == 1..MaxTasks
NoTask == [op |-> "none", lease |-> 0, previous |-> 0, pc |-> "none", live |-> FALSE]
Exited == MaxLeases + 1
FirstRequest == 0     \* a request of a registration; a renewal's request is the lease it replaces

LeaseInit ==
    /\ wsp = "provisioning"
    /\ lease = [l \in {} |-> 0] /\ fence = FALSE /\ retired = FALSE
    /\ tasks = [s \in Slots |-> NoTask]
    /\ minted = {} /\ tomb = {} /\ late = {} /\ past = {}
    /\ file = 0 /\ confirm = {} /\ lfaults = 0

LeaseFault == lfaults < MaxFaults /\ lfaults' = lfaults + 1

-----------------------------------------------------------------------------
(* Lease rows *)

isClosed(l) == lease[l].state \in {"revoked", "expired"}
Pending == {l \in Leases : ~isClosed(l)}
leaseWorkspaceActive(purpose) ==
    wsp \in IF purpose = "setup" THEN {"provisioning"} ELSE {"provisioning", "connected", "ready"}

\* fenceWorkspaceLeaseRows: no lease is requested or delivered any more and every open one is revoking.
fenceWorkspaceLeaseRows ==
    /\ fence' = TRUE
    /\ lease' = [l \in Leases |-> IF isClosed(l) THEN lease[l] ELSE [lease[l] EXCEPT !.state = "revoking"]]

\* enforceReferenceLimit closes what has expired; requestWorkspaceLease then admits at most two open leases.
Expired(purpose) ==
    [l \in Leases |-> IF lease[l].purpose = purpose /\ ~isClosed(l) /\ l \in past /\ lease[l].issued
                      THEN [lease[l] EXCEPT !.state = "expired"] ELSE lease[l]]
requestWorkspaceLease(purpose, request) ==
    LET swept == Expired(purpose)
        new == Cardinality(Leases) + 1 IN
    /\ ~fence /\ leaseWorkspaceActive(purpose) /\ ~retired /\ new <= MaxLeases
    /\ Cardinality({l \in Leases : swept[l].purpose = purpose /\ swept[l].state \notin {"revoked", "expired"}}) < 2
    /\ lease' = [l \in Leases \cup {new} |->
                   IF l = new THEN [state |-> "requested", purpose |-> purpose, request |-> request,
                                    issued |-> FALSE, delivered |-> FALSE]
                   ELSE swept[l]]

setupLeaseClosed ==
    /\ \E l \in Leases : lease[l].purpose = "setup" /\ lease[l].delivered
    /\ \A l \in Leases : lease[l].purpose = "setup" => isClosed(l)

-----------------------------------------------------------------------------
(* Calls of the lease service *)

Free(s) == tasks[s] = NoTask /\ \A t \in 1..s - 1 : tasks[t] # NoTask
Task(s, op, l, p, pc) ==
    tasks' = [tasks EXCEPT ![s] = [op |-> op, lease |-> l, previous |-> p, pc |-> pc, live |-> TRUE]]
\* A registration is the first frame of a new connection: the answers of the one before reach nobody any more.
Register(s, l) ==
    tasks' = [t \in Slots |-> IF t = s THEN [op |-> "install", lease |-> l, previous |-> 0, pc |-> "deliver", live |-> TRUE]
                              ELSE [tasks[t] EXCEPT !.live = FALSE]]
\* The frames of one connection are handled one after the other.
Idle == \A s \in Slots : tasks[s].live => tasks[s].op \notin {"install", "renew", "confirm"}
At1(s, pc) == tasks[s].pc = pc
Next1(s, pc) == tasks' = [tasks EXCEPT ![s].pc = pc]
End(s) == tasks' = [tasks EXCEPT ![s] = NoTask]

\* issue: a new request for the setup credential, or for the runtime credential of a registration.
issue(s, purpose) ==
    /\ Free(s) /\ file # Exited
    /\ purpose = "setup" => wsp = "provisioning"
    /\ purpose = "setup" => \A l \in Pending : lease[l].purpose # "setup"     \* sourceCredentialFor replays it
    /\ purpose = "runtime" => \A l \in Pending : lease[l].purpose = "runtime" => lease[l].state = "revoking" \/ l \in past
    /\ requestWorkspaceLease(purpose, FirstRequest)
    /\ Register(s, Cardinality(Leases) + 1)
    /\ UNCHANGED <<wsp, fence, retired, issuer, past, agent, lfaults>>

\* workspaceCredentialsFor: a reconnect replays the last lease that is open and has not expired.
replay(s) ==
    LET open == {l \in Leases : /\ lease[l].purpose = "runtime" /\ l \notin past
                                /\ lease[l].state \in {"requested", "issued", "delivered"}} IN
    /\ Free(s) /\ wsp \in {"provisioning", "connected", "ready"} /\ open # {} /\ file # Exited
    /\ Register(s, Max(open))
    /\ UNCHANGED <<store, issuer, past, agent, lfaults>>

\* renewCredential: the supervisor asks again with the same request until it is answered.
renew(s) ==
    /\ Free(s) /\ Idle /\ file \in Leases /\ wsp \in {"connected", "ready"}
    /\ LET known == {l \in Leases : lease[l].request = file} IN
       \/ /\ known # {} /\ UNCHANGED lease
          /\ Task(s, "renew", CHOOSE l \in known : TRUE, file, "deliver")
       \/ /\ known = {} /\ requestWorkspaceLease("runtime", file)
          /\ Task(s, "renew", Cardinality(Leases) + 1, file, "deliver")
    /\ UNCHANGED <<wsp, fence, retired, issuer, past, agent, lfaults>>

\* deliver: the row is checked, then the issuer is called.
deliver(s) ==
    /\ At1(s, "deliver")
    /\ LET l == tasks[s].lease IN
       IF lease[l].state \in {"revoking", "revoked", "expired"} \/ l \in past \/ fence THEN End(s) ELSE Next1(s, "mint")
    /\ UNCHANGED <<store, issuer, past, agent, lfaults>>

\* issuer.mint: external; the same lease for the same request, none after its revocation.
Mint(l) == IF l \in tomb THEN UNCHANGED minted ELSE minted' = minted \cup {l}
mint(s) ==
    /\ At1(s, "mint")
    /\ Mint(tasks[s].lease)
    /\ IF tasks[s].lease \in tomb THEN End(s) ELSE Next1(s, "issued")
    /\ UNCHANGED <<store, tomb, late, past, agent, lfaults>>

\* The call times out: the request was lost, or it is still on its way.
MintTimeout(s) ==
    /\ At1(s, "mint") /\ LeaseFault
    /\ late' = late \cup {tasks[s].lease} /\ End(s)
    /\ UNCHANGED <<store, minted, tomb, past, agent>>
LateMint(l) ==
    /\ l \in late /\ late' = late \ {l}
    /\ Mint(l)
    /\ UNCHANGED <<store, tasks, tomb, past, agent, lfaults>>

\* recordWorkspaceLeaseIssued: a workspace that stopped meanwhile turns the lease to revoking.
recordIssued(s) ==
    /\ At1(s, "issued")
    /\ LET l == tasks[s].lease
           stopped == lease[l].state = "revoking" \/ fence \/ ~leaseWorkspaceActive(lease[l].purpose) IN
       /\ lease' = IF isClosed(l) THEN lease
                   ELSE [lease EXCEPT ![l].issued = TRUE,
                           ![l].state = IF stopped THEN "revoking" ELSE IF @ = "delivered" THEN @ ELSE "issued"]
       /\ Next1(s, IF ~isClosed(l) /\ stopped THEN "revoke" ELSE "delivered")
    /\ UNCHANGED <<wsp, fence, retired, issuer, past, agent, lfaults>>

\* recordWorkspaceLeaseDelivered, or the credential is revoked before anybody gets it.
recordDelivered(s) ==
    /\ At1(s, "delivered")
    /\ LET l == tasks[s].lease IN
       IF /\ lease[l].state \in {"issued", "delivered"} /\ l \notin past /\ ~fence
          /\ leaseWorkspaceActive(lease[l].purpose)
       THEN lease' = [lease EXCEPT ![l].state = "delivered", ![l].delivered = TRUE] /\ Next1(s, "reply")
       ELSE Next1(s, "revoke") /\ UNCHANGED lease
    /\ UNCHANGED <<wsp, fence, retired, issuer, past, agent, lfaults>>

\* The call is done; a confirmation is answered, which ends its repetition.
Done1(s) ==
    /\ End(s)
    /\ confirm' = IF tasks[s].op = "confirm" /\ tasks[s].live THEN {x \in confirm : x.previous # tasks[s].lease} ELSE confirm
    /\ UNCHANGED file

\* requestWorkspaceLeaseRevocation and recordWorkspaceLeaseExpired: a lease that expired needs no issuer.
requestRevocation(s) ==
    /\ At1(s, "revoke")
    /\ LET l == tasks[s].lease IN
       \/ isClosed(l) /\ Done1(s) /\ UNCHANGED lease
       \/ /\ ~isClosed(l) /\ l \in past /\ lease[l].issued
          /\ lease' = [lease EXCEPT ![l].state = "expired"] /\ Done1(s)
       \/ /\ ~isClosed(l) /\ ~(l \in past /\ lease[l].issued)
          /\ lease' = [lease EXCEPT ![l].state = "revoking"] /\ Next1(s, "tombstone") /\ UNCHANGED agent
    /\ UNCHANGED <<wsp, fence, retired, issuer, past, lfaults>>

\* issuer.revoke: external; it may not answer.
revoke(s) ==
    /\ At1(s, "tombstone")
    /\ \/ tomb' = tomb \cup {tasks[s].lease} /\ Next1(s, "revoked") /\ UNCHANGED lfaults
       \/ LeaseFault /\ End(s) /\ UNCHANGED tomb
    /\ UNCHANGED <<store, minted, late, past, agent>>

\* recordWorkspaceLeaseRevoked.
recordRevoked(s) ==
    /\ At1(s, "revoked")
    /\ lease' = [lease EXCEPT ![tasks[s].lease].state = IF @ = "revoking" THEN "revoked" ELSE @]
    /\ Done1(s)
    /\ UNCHANGED <<wsp, fence, retired, issuer, past, lfaults>>

\* Mutant of completeRenewal: the supervisor's word is not asked for.
RenewedIsEnough(s) ==
    /\ Free(s) /\ Idle /\ wsp \in {"connected", "ready"}
    /\ \E l \in Pending : lease[l].request # FirstRequest /\ lease[l].state = "delivered"
                          /\ Task(s, "confirm", lease[l].request, 0, "revoke")
    /\ UNCHANGED <<store, issuer, past, agent, lfaults>>

\* completeRenewal: the previous lease is revoked once its replacement is delivered.
completeRenewal(s) ==
    /\ Free(s) /\ Idle /\ wsp \in {"connected", "ready"}
    /\ \E x \in confirm :
        \/ isClosed(x.previous) /\ confirm' = confirm \ {x} /\ UNCHANGED tasks
        \/ /\ ~isClosed(x.previous) /\ lease[x.installed].state = "delivered"
           /\ Task(s, "confirm", x.previous, 0, "revoke") /\ UNCHANGED confirm
    /\ UNCHANGED <<store, issuer, past, file, lfaults>>

\* completeSetup, revokeWorkspace and reconcileSetupLeases revoke one lease after the other.
RevokeOpen(s) ==
    /\ Free(s)
    /\ \E l \in Pending :
        /\ \/ lease[l].purpose = "setup" /\ wsp = "connected"
           \/ lease[l].state = "revoking"
           \/ l \in past /\ lease[l].issued
        /\ Task(s, "revoke", l, 0, "revoke")
    /\ UNCHANGED <<store, issuer, past, agent, lfaults>>

-----------------------------------------------------------------------------
(* The supervisor *)

\* install and renewed: the file is replaced; a lease it replaced is confirmed until the server answers.
Install1(s) ==
    /\ At1(s, "reply") /\ End(s)
    /\ LET t == tasks[s] IN
       \/ /\ t.live /\ file # Exited /\ lease[t.lease].purpose = "runtime" /\ t.lease \notin past
          /\ t.op = "renew" => file = t.previous
          /\ file' = t.lease
          /\ confirm' = IF file \notin {0, t.lease} THEN confirm \cup {[previous |-> file, installed |-> t.lease]} ELSE confirm
       \/ UNCHANGED agent     \* the reply was lost, or the supervisor holds another lease by now
    /\ UNCHANGED <<store, issuer, past, lfaults>>

-----------------------------------------------------------------------------
(* The workspace *)

\* transition: only a workspace whose setup lease is closed becomes ready.
Advance ==
    /\ \/ wsp = "provisioning" /\ wsp' = "connected"
       \/ wsp = "connected" /\ (setupLeaseClosed \/ \A l \in Leases : lease[l].purpose # "setup") /\ wsp' = "ready"
    /\ UNCHANGED <<lease, fence, retired, tasks, issuer, past, agent, lfaults>>

\* prepareLeaseTransition: terminating fences the leases.
Stop ==
    /\ wsp \in {"provisioning", "connected", "ready"}
    /\ wsp' = "terminating" /\ fenceWorkspaceLeaseRows
    /\ UNCHANGED <<retired, tasks, issuer, past, agent, lfaults>>

\* Mutant of finish: the workspace ends with leases that are still open.
FinishAnyway ==
    /\ wsp # "ended"
    /\ wsp' = "ended" /\ fenceWorkspaceLeaseRows
    /\ UNCHANGED <<retired, tasks, issuer, past, agent, lfaults>>

\* finalize: revokeWorkspace fences, and the terminal transition refuses a lease that is still open.
finish ==
    /\ wsp # "ended"
    /\ \A l \in Leases : isClosed(l)
    /\ wsp' = "ended" /\ fenceWorkspaceLeaseRows
    /\ UNCHANGED <<retired, tasks, issuer, past, agent, lfaults>>

\* retireSecret: every workspace with an open lease of the secret is fenced.
retireSecret ==
    /\ ~retired /\ LeaseFault /\ retired' = TRUE
    /\ IF Pending # {} THEN fenceWorkspaceLeaseRows ELSE UNCHANGED <<fence, lease>>
    /\ UNCHANGED <<wsp, tasks, issuer, past, agent>>

\* Time passes the expiry of a lease; the issuer's credential ends with it, and so does a supervisor that holds it.
Expire(l) ==
    /\ l \notin past /\ LeaseFault /\ past' = past \cup {l}
    /\ IF file = l THEN file' = Exited /\ confirm' = {} ELSE UNCHANGED agent
    /\ UNCHANGED <<store, tasks, issuer>>

\* The server restarts: its calls are lost; startup finalizes workspaces with open leases.
Restart1 ==
    /\ LeaseFault /\ tasks' = [s \in Slots |-> NoTask]
    /\ late' = late \cup {tasks[s].lease : s \in {t \in Slots : At1(t, "mint")}}
    /\ IF Pending # {} /\ wsp # "ended" THEN fenceWorkspaceLeaseRows ELSE UNCHANGED <<fence, lease>>
    /\ wsp' = IF Pending # {} /\ wsp # "ended" THEN "terminating" ELSE wsp
    /\ UNCHANGED <<retired, minted, tomb, past, agent>>

LeaseNext ==
    \/ Advance \/ Stop \/ finish \/ retireSecret \/ Restart1
    \/ \E l \in Leases : Expire(l) \/ LateMint(l)
    \/ \E s \in Slots :
        \/ issue(s, "setup") \/ issue(s, "runtime") \/ replay(s) \/ renew(s) \/ deliver(s) \/ mint(s) \/ MintTimeout(s)
        \/ recordIssued(s) \/ recordDelivered(s) \/ requestRevocation(s) \/ revoke(s) \/ recordRevoked(s)
        \/ completeRenewal(s) \/ RevokeOpen(s) \/ Install1(s)

-----------------------------------------------------------------------------
\* A workspace that ended leaves no usable credential behind, whatever calls, lost replies and late
\* mints of its lifetime were still under way (deliver, revoke, prepareLeaseTransition).
EndedHoldsNoAuthority == wsp = "ended" => \A l \in minted : l \in tomb \/ l \in past

\* The credential a running workload reads is not revoked under it: a renewal closes a lease only after the
\* supervisor holds its replacement, and only a fenced workspace loses the one it holds.
InstalledIsUsable == file \in tomb => fence \/ file \in past \/ wsp = "ended"
================================================================================
