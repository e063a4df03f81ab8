------------------------------- MODULE Admission -------------------------------
(***************************************************************************)
(* Admission: which queued workspaces launch, in which order, and how many *)
(* may be active at once.  A coordinator's tick reads a snapshot of the    *)
(* queue and of the active counts, then tries each principal's oldest      *)
(* workspace in a rotation.  The counts it works with are the snapshot's,  *)
(* updated by the launches it saw succeed; the store counts again when it  *)
(* claims a row for a cold launch, and does not when it leases a warm one. *)
(*                                                                         *)
(* What happens to a workspace once it launches belongs to Lifecycle: here *)
(* a row is queued, active (provisioning to terminating) or gone.  A row   *)
(* that is gone stands for a terminal one, or one yet to be created.       *)
(***************************************************************************)
EXTENDS Naturals, FiniteSets, Sequences

CONSTANTS
    Workspace,       \* workspace ids; a gone id is reused for a new workspace
    Principal,
    Template,
    Owner,           \* the principal of each workspace
    TemplateOf,      \* the template of each workspace
    GlobalLimit,     \* limits.globalActiveWorkspaces
    PrincipalLimit,  \* limits.perPrincipalActiveWorkspaces
    TemplateLimit,   \* limits.perTemplateActiveWorkspaces, per template
    MaxQueued,       \* limits.maxQueuedWorkspaces
    MaxLaunchAttempts,
    Coordinator,     \* schedulers that share the store
    WarmPool,        \* the deployment has a warm pool
    Nobody           \* no principal was admitted yet

ASSUME SetsAssumption ==
    /\ IsFiniteSet(Workspace) /\ IsFiniteSet(Coordinator)
    /\ Owner \in [Workspace -> Principal]
    /\ TemplateOf \in [Workspace -> Template]
    /\ Nobody \notin Principal
ASSUME LimitsAssumption ==
    /\ GlobalLimit \in Nat /\ PrincipalLimit \in Nat /\ MaxQueued \in Nat
    /\ TemplateLimit \in [Template -> Nat]
    /\ MaxLaunchAttempts \in Nat \ {0}
    /\ WarmPool \in BOOLEAN

VARIABLES
    st,      \* queued, active or gone
    older,   \* createdAt: the rows that are not gone and were there before this one
    tries,   \* launchAttempts, no higher than MaxLaunchAttempts
    phase,   \* what each coordinator's tick is doing
    round,   \* the heads its round has still to try
    counts,  \* the active counts it works with
    last     \* lastAdmittedPrincipal

vars == <<st, older, tries, phase, round, counts, last>>

Queued == {w \in Workspace : st[w] = "queued"}
Active == {w \in Workspace : st[w] = "active"}

--------------------------------------------------------------------------------
(* The store's counts and the test every limit goes through.               *)

countActive ==
    [all       |-> Cardinality(Active),
     principal |-> [p \in Principal |-> Cardinality({w \in Active : Owner[w] = p})],
     template  |-> [t \in Template |-> Cardinality({w \in Active : TemplateOf[w] = t})]]

canAdmit(w, n) ==
    /\ n.all < GlobalLimit
    /\ n.principal[Owner[w]] < PrincipalLimit
    /\ n.template[TemplateOf[w]] < TemplateLimit[TemplateOf[w]]

recordAdmission(w, n) ==
    [all       |-> n.all + 1,
     principal |-> [n.principal EXCEPT ![Owner[w]] = @ + 1],
     template  |-> [n.template EXCEPT ![TemplateOf[w]] = @ + 1]]

--------------------------------------------------------------------------------
(* The snapshot: each principal's oldest queued row, oldest first, rotated *)
(* to start after the principal admitted last.                             *)

\* Mutant of IsHead: the newest row of the principal goes first.
NewestFirst(w) ==
    w \in Queued /\ \A v \in Queued : Owner[v] = Owner[w] => w \notin older[v]

IsHead(w) ==
    w \in Queued /\ \A v \in older[w] : v \in Queued => Owner[v] # Owner[w]

\* The heads in the order of their age, of which there is one.
HeadsByAge ==
    LET heads == {w \in Workspace : IsHead(w)}
    IN  {s \in [1 .. Cardinality(heads) -> heads] :
            \A i, j \in DOMAIN s : i < j => s[i] \in older[s[j]]}

Rotated(heads, n) == SubSeq(heads, n + 1, Len(heads)) \o SubSeq(heads, 1, n)

\* Mutant of principalRotation: the rotation stays on the principal it served.
RotationStays(heads, p) ==
    IF \E i \in DOMAIN heads : Owner[heads[i]] = p
    THEN Rotated(heads, (CHOOSE i \in DOMAIN heads : Owner[heads[i]] = p) - 1)
    ELSE heads

principalRotation(heads, p) ==
    IF \E i \in DOMAIN heads : Owner[heads[i]] = p
    THEN Rotated(heads, CHOOSE i \in DOMAIN heads : Owner[heads[i]] = p)
    ELSE heads

--------------------------------------------------------------------------------
Init ==
    /\ st = [w \in Workspace |-> "gone"]
    /\ older = [w \in Workspace |-> {}]
    /\ tries = [w \in Workspace |-> 0]
    /\ phase = [c \in Coordinator |-> "idle"]
    /\ round = [c \in Coordinator |-> <<>>]
    /\ counts = [c \in Coordinator |-> countActive]
    /\ last = [c \in Coordinator |-> Nobody]

rows == <<st, older, tries>>

Leaves(w) ==
    /\ st' = [st EXCEPT ![w] = "gone"]
    /\ older' = [v \in Workspace |-> IF v = w THEN {} ELSE older[v] \ {w}]
    /\ tries' = [tries EXCEPT ![w] = 0]

\* queued to provisioning, counting an attempt.
Claims(w) ==
    /\ st[w] = "queued"
    /\ st' = [st EXCEPT ![w] = "active"]
    /\ tries' = [tries EXCEPT ![w] = IF @ < MaxLaunchAttempts THEN @ + 1 ELSE @]
    /\ UNCHANGED older

\* provisioning to queued; the row keeps its age.
Requeues(w) ==
    /\ st[w] = "active"
    /\ st' = [st EXCEPT ![w] = "queued"]
    /\ UNCHANGED <<older, tries>>

\* Mutant of insertWorkspace: the bound is read one too high.
InsertOffByOne(w) ==
    /\ st[w] = "gone"
    /\ \A c \in Coordinator : \A i \in DOMAIN round[c] : round[c][i] # w
    /\ Cardinality(Queued) <= MaxQueued
    /\ st' = [st EXCEPT ![w] = "queued"]
    /\ older' = [older EXCEPT ![w] = Queued \cup Active]
    /\ UNCHANGED <<tries, phase, round, counts, last>>

\* A new workspace, under an id that no tick still holds.
insertWorkspace(w) ==
    /\ st[w] = "gone"
    /\ \A c \in Coordinator : \A i \in DOMAIN round[c] : round[c][i] # w
    /\ Cardinality(Queued) < MaxQueued
    /\ st' = [st EXCEPT ![w] = "queued"]
    /\ older' = [older EXCEPT ![w] = Queued \cup Active]
    /\ UNCHANGED <<tries, phase, round, counts, last>>

\* A queued workspace is canceled or expires.
LeaveQueue(w) ==
    /\ st[w] = "queued"
    /\ Leaves(w)
    /\ UNCHANGED <<phase, round, counts, last>>

\* An active workspace reaches a terminal state.
Finish(w) ==
    /\ st[w] = "active"
    /\ Leaves(w)
    /\ UNCHANGED <<phase, round, counts, last>>

--------------------------------------------------------------------------------
(* The tick of a coordinator.                                              *)

readAdmissionSnapshot(c) ==
    /\ phase[c] = "idle"
    /\ Queued # {} /\ countActive.all < GlobalLimit
    /\ \E heads \in HeadsByAge : round' = [round EXCEPT ![c] = principalRotation(heads, last[c])]
    /\ counts' = [counts EXCEPT ![c] = countActive]
    /\ phase' = [phase EXCEPT ![c] = "round"]
    /\ UNCHANGED <<rows, last>>

\* The row that the round tries next.
Trying(c) == Head(round[c])

\* The round goes on with the next principal.
Passes(c) ==
    /\ round' = [round EXCEPT ![c] = Tail(@)]
    /\ phase' = [phase EXCEPT ![c] = "round"]

Admitted(c) ==
    /\ Passes(c)
    /\ counts' = [counts EXCEPT ![c] = recordAdmission(Trying(c), @)]
    /\ last' = [last EXCEPT ![c] = Owner[Trying(c)]]

NotAdmitted(c) == Passes(c) /\ UNCHANGED <<counts, last>>

\* The round ends when it runs out of principals or of room.  The tick then
\* reads another snapshot, or leaves that to the next tick.
EndRound(c) ==
    /\ phase[c] = "round"
    /\ round[c] = <<>> \/ counts[c].all >= GlobalLimit
    /\ phase' = [phase EXCEPT ![c] = "idle"]
    /\ round' = [round EXCEPT ![c] = <<>>]
    /\ UNCHANGED <<rows, counts, last>>

\* Admission is fenced while the round runs: the loop breaks off.
Fenced(c) ==
    /\ phase[c] = "round"
    /\ phase' = [phase EXCEPT ![c] = "idle"]
    /\ round' = [round EXCEPT ![c] = <<>>]
    /\ UNCHANGED <<rows, counts, last>>

Tries(c) ==
    /\ phase[c] = "round" /\ round[c] # <<>>
    /\ counts[c].all < GlobalLimit

PassOver(c) ==
    /\ Tries(c) /\ ~canAdmit(Trying(c), counts[c])
    /\ NotAdmitted(c)
    /\ UNCHANGED rows

\* The launch policy refuses, or the pool asks to wait for a warm runtime.
Defer(c) ==
    /\ Tries(c) /\ canAdmit(Trying(c), counts[c])
    /\ NotAdmitted(c)
    /\ UNCHANGED rows

\* No warm runtime is ready: the launch is to be cold.
GoCold(c) ==
    /\ Tries(c) /\ canAdmit(Trying(c), counts[c])
    /\ phase' = [phase EXCEPT ![c] = "cold"]
    /\ UNCHANGED <<rows, round, counts, last>>

\* claimWarmPoolRuntime: the lease and the row commit together, if the row is
\* still queued; the limits are not read again.
LeaseWarm(c) ==
    /\ WarmPool /\ Tries(c) /\ canAdmit(Trying(c), counts[c])
    /\ Claims(Trying(c))
    /\ Admitted(c)

\* The leased runtime has lost its connection, so it must be destroyed.
LeaseBreaks(c) ==
    /\ WarmPool /\ Tries(c) /\ canAdmit(Trying(c), counts[c])
    /\ Claims(Trying(c))
    /\ phase' = [phase EXCEPT ![c] = "broken"]
    /\ UNCHANGED <<round, counts, last>>

\* Destroyed: the row goes back to the queue and the launch on to a cold one.
LeaseDestroyed(c) ==
    /\ phase[c] = "broken"
    /\ Requeues(Trying(c))
    /\ phase' = [phase EXCEPT ![c] = "cold"]
    /\ UNCHANGED <<round, counts, last>>

\* Destroyed, but the row was canceled meanwhile.
LeaseLost(c) ==
    /\ phase[c] = "broken"
    /\ phase' = [phase EXCEPT ![c] = "cold"]
    /\ UNCHANGED <<rows, round, counts, last>>

\* Not destroyed: the row is terminating, and the launch is not counted.
LeaseStuck(c) ==
    /\ phase[c] = "broken"
    /\ NotAdmitted(c)
    /\ UNCHANGED rows

\* Mutant of Claimable: the claim trusts the tick's counts.
ClaimableAsCounted(c) == st[Trying(c)] = "queued" /\ canAdmit(Trying(c), counts[c])

\* claimWorkspaceAdmission counts again, under the admission lock.
Claimable(c) == st[Trying(c)] = "queued" /\ canAdmit(Trying(c), countActive)

ClaimCold(c) ==
    /\ phase[c] = "cold"
    /\ Claimable(c)
    /\ Claims(Trying(c))
    /\ phase' = [phase EXCEPT ![c] = "launch"]
    /\ UNCHANGED <<round, counts, last>>

ClaimRefused(c) ==
    /\ phase[c] = "cold"
    /\ ~Claimable(c)
    /\ NotAdmitted(c)
    /\ UNCHANGED rows

LaunchSucceeds(c) ==
    /\ phase[c] = "launch"
    /\ Admitted(c)
    /\ UNCHANGED rows

\* The launch failed and left nothing: the row is requeued, with its age.
LaunchRequeues(c) ==
    /\ phase[c] = "launch" /\ tries[Trying(c)] < MaxLaunchAttempts
    /\ Requeues(Trying(c))
    /\ NotAdmitted(c)

\* The last attempt failed.
LaunchFails(c) ==
    /\ phase[c] = "launch" /\ tries[Trying(c)] = MaxLaunchAttempts
    /\ st[Trying(c)] = "active"
    /\ Leaves(Trying(c))
    /\ NotAdmitted(c)

\* The launch failed and may have left an object, or lost the row to a cancel:
\* the row stays as it is, and the launch is not counted.
LaunchUnsettled(c) ==
    /\ phase[c] = "launch"
    /\ NotAdmitted(c)
    /\ UNCHANGED rows

\* The sweep of a tick requeues a warm workspace that never registered.
SweepRequeues(c, w) ==
    /\ WarmPool /\ phase[c] = "idle" /\ tries[w] < MaxLaunchAttempts
    /\ Requeues(w)
    /\ UNCHANGED <<phase, round, counts, last>>

\* The controller restarts: the tick and the rotation are lost.
Restart(c) ==
    /\ phase' = [phase EXCEPT ![c] = "idle"]
    /\ round' = [round EXCEPT ![c] = <<>>]
    /\ last' = [last EXCEPT ![c] = Nobody]
    /\ UNCHANGED <<rows, counts>>

--------------------------------------------------------------------------------
\* A tick that nothing disturbs.
RoundStep(c) ==
    \/ readAdmissionSnapshot(c) \/ EndRound(c) \/ PassOver(c) \/ GoCold(c)
    \/ ClaimCold(c) \/ ClaimRefused(c)
    \/ LaunchSucceeds(c) \/ LaunchRequeues(c) \/ LaunchFails(c)

WarmStep(c) ==
    \/ LeaseWarm(c) \/ LeaseBreaks(c)
    \/ LeaseDestroyed(c) \/ LeaseLost(c) \/ LeaseStuck(c)

CalmNext ==
    \/ \E w \in Workspace : insertWorkspace(w) \/ Finish(w)
    \/ \E c \in Coordinator : RoundStep(c)

Next ==
    \/ CalmNext
    \/ \E w \in Workspace : LeaveQueue(w)
    \/ \E c \in Coordinator : WarmStep(c) \/ Defer(c) \/ Fenced(c) \/ LaunchUnsettled(c) \/ Restart(c)
    \/ \E c \in Coordinator, w \in Workspace : SweepRequeues(c, w)

Spec == Init /\ [][Next]_vars

--------------------------------------------------------------------------------
(* Properties.                                                             *)

TypeOK ==
    /\ st \in [Workspace -> {"gone", "queued", "active"}]
    /\ older \in [Workspace -> SUBSET Workspace]
    /\ tries \in [Workspace -> 0 .. MaxLaunchAttempts]
    /\ phase \in [Coordinator -> {"idle", "round", "cold", "broken", "launch"}]
    /\ round \in [Coordinator -> Seq(Workspace)]
    /\ last \in [Coordinator -> Principal \cup {Nobody}]

\* The active workspaces never exceed a limit, globally, per principal or per
\* template, however many coordinators claim at once and however stale the
\* counts of their rounds are (claimWorkspaceAdmission, admission.ts).  This is
\* said of a deployment without a warm pool: the lease of a warm runtime decides
\* on the counts of its round alone (LeaseWarm), so several coordinators that
\* lease at once can exceed a limit.
LimitsHold ==
    /\ Cardinality(Active) <= GlobalLimit
    /\ \A p \in Principal : Cardinality({w \in Active : Owner[w] = p}) <= PrincipalLimit
    /\ \A t \in Template : Cardinality({w \in Active : TemplateOf[w] = t}) <= TemplateLimit[t]

\* The durable queue overshoots its bound by no more than the launches in
\* flight: a requeue is not counted against it (insertWorkspace in repository.ts
\* and the requeue in scheduler-admission.ts).
QueueBounded == Cardinality(Queued) <= MaxQueued + Cardinality(Coordinator)

\* Within a principal, admission is first come first served: no row is admitted
\* past an older queued row of the same principal, a requeued one included
\* (readAdmissionSnapshot, admission-snapshot.ts).
FirstComeFirstServed ==
    [][\A w \in Workspace :
          st[w] = "queued" /\ st'[w] = "active" =>
              \A v \in Queued \ {w} : Owner[v] = Owner[w] => w \in older[v]]_vars

\* A tick finishes its round and its launches, and active workspaces end.
Fairness ==
    /\ \A c \in Coordinator : WF_vars(RoundStep(c))
    /\ \A w \in Workspace : WF_vars(Finish(w))

\* The quiet system: no warm pool, no policy that defers, no launch left
\* unsettled, no cancel from the queue and no restart.
CalmSpec == Init /\ [][CalmNext]_vars /\ Fairness

\* Even when nothing disturbs it, no queued workspace waits for ever behind the
\* others: the rotation gets to its principal, and the queue of that principal
\* to it (principalRotation, admitRound in scheduler-admission.ts).
EveryoneServed == \A w \in Workspace : st[w] = "queued" ~> st[w] # "queued"

--------------------------------------------------------------------------------
(* The instances TLC checks: principals a and b with two workspace ids     *)
(* each and c with one, spread over templates x and y.  A cfg picks the    *)
(* ids it needs.                                                           *)

OwnerOf == [a1 |-> "a", a2 |-> "a", b1 |-> "b", b2 |-> "b", c1 |-> "c"]
TemplateFor == [a1 |-> "x", a2 |-> "y", b1 |-> "x", b2 |-> "x", c1 |-> "x"]

MCOwner == [w \in Workspace |-> OwnerOf[w]]
MCTemplateOf == [w \in Workspace |-> TemplateFor[w]]
MCTemplateLimit == [x |-> 1, y |-> 2]

================================================================================
