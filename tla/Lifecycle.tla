------------------------------- MODULE Lifecycle -------------------------------
(***************************************************************************)
(* The life of a workspace under the control plane: admission's launch,    *)
(* the registration of the supervisor, readiness, the sweep of timeouts,   *)
(* cancellation, the finalizers that remove the provider object and commit *)
(* a terminal state, and a server crash followed by reconciliation.        *)
(*                                                                         *)
(* The server is one process of interleaved asynchronous tasks.  A step of *)
(* this specification is the code between two awaits; a task keeps the     *)
(* row it read in its own record, as the code keeps it in a variable, so   *)
(* the row may have changed by the time the task uses it.                  *)
(*                                                                         *)
(* The deployment modelled here has no warm pool, no lease issuer, no      *)
(* persistent mounts and no admission policy; those belong to modules of   *)
(* their own.                                                              *)
(***************************************************************************)
EXTENDS Integers, FiniteSets, WorkspaceStates

CONSTANTS
    Workspace,          \* workspace ids
    MaxLaunchAttempts,  \* limits.maxLaunchAttempts
    Receipts,           \* the driver proves absence with a launch receipt
                        \* (kubernetes); FALSE is the docker driver
    Manifest,           \* the template declares a workload: the launch binds
                        \* a runtime registration before the agent may connect
    SlowLaunch,         \* a launch may outlast its registration window
    Detached,           \* bound: finalizers running outside the tick
    MaxFaults           \* bound: crashes and provider errors of a behaviour

ASSUME AttemptsAssumption == MaxLaunchAttempts \in Nat \ {0}
ASSUME DriverAssumption ==
    Receipts \in BOOLEAN /\ Manifest \in BOOLEAN /\ SlowLaunch \in BOOLEAN
ASSUME BoundsAssumption == Detached \in Nat /\ MaxFaults \in Nat

VARIABLES
    row,          \* the workspaces table
    obj,          \* provider object: the attempt that created it, 0 if absent
    alive,        \* whether the provider object's container runs
    receipt,      \* kubernetes launch receipt: its phase
    inflight,     \* a create the server no longer waits for: its attempt or 0
    window,       \* registrationExpiresAt: none, still open, or closed
    late,         \* deadlineAt (or the queue age limit) has passed
    tick,         \* what the scheduler tick is doing with a workspace
    snap,         \* the row the tick's sweep read
    task,         \* finalizers: slot 0 is awaited by the tick, the others run
                  \* detached or are awaited by a request handler
    sock,         \* an authenticated socket that has not registered: its attempt
    join,         \* a registration committed but not yet attached: its attempt
    agent,        \* the attempt whose supervisor holds a reconnect credential
    hub,          \* the hub's connection: none, live, or left behind (stale)
    cancel,       \* the caller's cancel request
    unreconciled, \* rows startup reconciliation has yet to visit
    faults        \* faults so far

vars == <<row, obj, alive, receipt, inflight, window, late, tick, snap, task,
          sock, join, agent, hub, cancel, unreconciled, faults>>

provider == <<obj, alive, receipt, inflight>>
clock    == <<window, late>>
channel  == <<sock, join, agent, hub>>
server   == <<cancel, unreconciled>>

Attempt == 0 .. MaxLaunchAttempts

\* A reference whose receipt proves that the object was never admitted.
NeverAdmitted == MaxLaunchAttempts + 1

Ref == Attempt \cup {NeverAdmitted}

Slot == 0 .. Detached

Row == [state : WorkspaceState, ref : Ref, intent : TerminalState \cup {"none"},
        attempts : Attempt, secret : BOOLEAN,
        runtime : {"none", "bound", "ended"}, disconnected : BOOLEAN]

NewRow == [state |-> "queued", ref |-> 0, intent |-> "none", attempts |-> 0,
           secret |-> FALSE, runtime |-> "none", disconnected |-> FALSE]

Task == [pc : {"none", "begin", "list", "remove", "close", "commit"}, ref : Ref,
         target : TerminalState \cup {"relaunch"},
         runtime : {"none", "bound", "ended"}, closed : BOOLEAN]

NoTask == [pc |-> "none", ref |-> 0, target |-> "relaunch",
           runtime |-> "none", closed |-> FALSE]

\* The tick runs a launch, or a sweep that found one thing due.
Launching == {"storage", "create", "submit", "job", "created", "prepare"}
Sweeping  == {"lapse", "fail", "expire", "grace", "retry", "observe"}
TickPhase == Launching \cup Sweeping \cup {"idle", "await", "settle"}

--------------------------------------------------------------------------------
Init ==
    /\ row = [w \in Workspace |-> NewRow]
    /\ obj = [w \in Workspace |-> 0]
    /\ alive = [w \in Workspace |-> FALSE]
    /\ receipt = [w \in Workspace |-> "none"]
    /\ inflight = [w \in Workspace |-> 0]
    /\ window = [w \in Workspace |-> "none"]
    /\ late = [w \in Workspace |-> FALSE]
    /\ tick = [w \in Workspace |-> "idle"]
    /\ snap = [w \in Workspace |-> NewRow]
    /\ task = [w \in Workspace |-> [s \in Slot |-> NoTask]]
    /\ sock = [w \in Workspace |-> 0]
    /\ join = [w \in Workspace |-> 0]
    /\ agent = [w \in Workspace |-> 0]
    /\ hub = [w \in Workspace |-> "none"]
    /\ cancel = [w \in Workspace |-> "none"]
    /\ unreconciled = {}
    /\ faults = 0

Serving == unreconciled = {}

\* Ticks are coalesced: one sweep or one launch runs at a time.
TickFree == \A w \in Workspace : tick[w] = "idle"

Fault == faults < MaxFaults /\ faults' = faults + 1

Goto(w, phase) == tick' = [tick EXCEPT ![w] = phase]

--------------------------------------------------------------------------------
(* The store: a transition takes effect only from a listed state along the *)
(* contract's table, and a terminal state erases the registration digest.  *)

\* Mutant of Permits: the store forgets the contract's table.
PermitsAnyListed(r, from, to) == r.state \in from

Permits(r, from, to) == r.state \in from /\ CanTransition(r.state, to)

Entered(r, to) ==
    [r EXCEPT !.state = to, !.secret = (@ /\ to \notin TerminalState)]

Active == {"provisioning", "connected", "ready", "preserving"}

\* Mutant of Terminating: a termination already recorded is recorded anew.
TerminatingAgain(r, target) ==
    IF r.state \in Active \cup {"terminating"}
    THEN [Entered(r, "terminating") EXCEPT !.intent = target]
    ELSE r

\* The row after beginTermination's guarded transition.
Terminating(r, target) ==
    IF Permits(r, Active, "terminating")
    THEN [Entered(r, "terminating") EXCEPT !.intent = target]
    ELSE r

Finalizer(w, r, target) ==
    [pc |-> "begin", ref |-> r.ref, target |-> target, runtime |-> r.runtime,
     closed |-> window[w] = "closed"]

Spawned(w, s, r, target) ==
    [task EXCEPT ![w][s] = Finalizer(w, r, target)]

FreeSlot(w, s) == s \in Slot \ {0} /\ task[w][s].pc = "none"

--------------------------------------------------------------------------------
(* The launch of an admitted workspace, one awaited call at a time.        *)

\* Admission claims the head of the queue and mints a registration secret.
Claim(w) ==
    /\ Serving /\ TickFree
    /\ Permits(row[w], {"queued"}, "provisioning")
    /\ row' = [row EXCEPT ![w] =
            [Entered(@, "provisioning") EXCEPT !.attempts = row[w].attempts + 1,
                                               !.secret = TRUE]]
    /\ window' = [window EXCEPT ![w] = "open"]
    /\ Goto(w, "storage")
    /\ UNCHANGED <<provider, late, snap, task, channel, server, faults>>

PrepareStorage(w) ==
    /\ tick[w] = "storage"
    /\ Goto(w, "create")
    /\ UNCHANGED <<row, provider, clock, snap, task, channel, server, faults>>

\* Nothing was submitted: the launch settles without looking for an object.
LaunchNotSubmitted(w) ==
    /\ tick[w] = "storage" \/ (Receipts /\ tick[w] = "create")
    /\ Fault
    /\ Goto(w, "settle")
    /\ UNCHANGED <<row, provider, clock, snap, task, channel, server>>

\* docker run: the object exists when the call returns.
CreateContainer(w) ==
    /\ ~Receipts /\ tick[w] = "create"
    /\ obj[w] = 0
    /\ obj' = [obj EXCEPT ![w] = row[w].attempts]
    /\ alive' = [alive EXCEPT ![w] = TRUE]
    /\ Goto(w, "created")
    /\ UNCHANGED <<row, receipt, inflight, clock, snap, task, channel, server, faults>>

\* kubectl create of the input Secret that doubles as the launch receipt.
CreateReceipt(w) ==
    /\ Receipts /\ tick[w] = "create"
    /\ receipt[w] = "none"
    /\ receipt' = [receipt EXCEPT ![w] = "prepared"]
    /\ Goto(w, "submit")
    /\ UNCHANGED <<row, obj, alive, inflight, clock, snap, task, channel, server, faults>>

\* The compare-and-set that wins the receipt from a concurrent cleanup.
ClaimSubmitting(w) ==
    /\ tick[w] = "submit"
    /\ receipt[w] = "prepared"
    /\ receipt' = [receipt EXCEPT ![w] = "submitting"]
    /\ Goto(w, "job")
    /\ UNCHANGED <<row, obj, alive, inflight, clock, snap, task, channel, server, faults>>

CreateJob(w) ==
    /\ tick[w] = "job"
    /\ obj[w] = 0
    /\ obj' = [obj EXCEPT ![w] = row[w].attempts]
    /\ alive' = [alive EXCEPT ![w] = TRUE]
    /\ Goto(w, "created")
    /\ UNCHANGED <<row, receipt, inflight, clock, snap, task, channel, server, faults>>

\* The name or the receipt is taken, so the provider refuses the call.
CreateConflicts(w) ==
    \/ tick[w] = "create" /\ IF Receipts THEN receipt[w] # "none" ELSE obj[w] # 0
    \/ tick[w] = "submit" /\ receipt[w] # "prepared"
    \/ tick[w] = "job" /\ obj[w] # 0

\* Mutant of CleanupFailedLaunch: a failed create is taken to have left nothing.
CleanupSkipped(w) ==
    /\ UNCHANGED task
    /\ Goto(w, "settle")

\* The tick awaits a cleanup that starts from the row, not from a reference.
CleanupFailedLaunch(w) ==
    /\ task' = Spawned(w, 0, [row[w] EXCEPT !.ref = 0], "relaunch")
    /\ Goto(w, "await")

\* create throws: the launch looks for what it may have left behind.  A call
\* whose answer was lost may have written the receipt; a Job may still land.
CreateFails(w) ==
    /\ \/ CreateConflicts(w) /\ UNCHANGED <<receipt, inflight, faults>>
       \/ /\ tick[w] \in {"create", "submit", "job"} /\ Fault
          /\ \/ UNCHANGED <<receipt, inflight>>
             \/ /\ Receipts /\ tick[w] \in {"create", "submit"} /\ ~CreateConflicts(w)
                /\ receipt' = [receipt EXCEPT ![w] =
                                  IF tick[w] = "create" THEN "prepared" ELSE "submitting"]
                /\ UNCHANGED inflight
             \/ /\ tick[w] = "job"
                /\ inflight' = [inflight EXCEPT ![w] = row[w].attempts]
                /\ UNCHANGED receipt
    /\ CleanupFailedLaunch(w)
    /\ UNCHANGED <<row, obj, alive, clock, snap, channel, server>>

\* The reference is saved whatever became of the row during the create.
SaveRef(w) ==
    /\ tick[w] = "created"
    /\ row' = [row EXCEPT ![w].ref = row[w].attempts]
    /\ Goto(w, "prepare")
    /\ UNCHANGED <<provider, clock, snap, task, channel, server, faults>>

SaveRefFails(w) ==
    /\ tick[w] = "created" /\ Fault
    /\ CleanupFailedLaunch(w)
    /\ UNCHANGED <<row, provider, clock, snap, channel, server>>

\* bindWorkspaceRuntime: only the observed, still provisioning launch binds.
Binds(w) ==
    /\ obj[w] = row[w].attempts /\ alive[w]
    /\ row[w].state = "provisioning"
    /\ row[w].ref = row[w].attempts
    /\ row[w].runtime = "none"

PrepareRuntime(w) ==
    /\ tick[w] = "prepare"
    /\ Manifest => Binds(w)
    /\ row' = [row EXCEPT ![w].runtime = IF Manifest THEN "bound" ELSE @]
    /\ Goto(w, "idle")
    /\ UNCHANGED <<provider, clock, snap, task, channel, server, faults>>

PrepareRuntimeFails(w) ==
    /\ tick[w] = "prepare" /\ Manifest
    /\ \/ ~Binds(w) /\ UNCHANGED faults
       \/ Fault
    /\ CleanupFailedLaunch(w)
    /\ UNCHANGED <<row, provider, clock, snap, channel, server>>

\* Mutant of Settle: the last attempt is requeued as well.
SettleOffByOne(w) ==
    /\ tick[w] = "settle"
    /\ row' = [row EXCEPT ![w] =
            IF @.attempts <= MaxLaunchAttempts /\ Permits(@, {"provisioning"}, "queued")
            THEN [Entered(@, "queued") EXCEPT !.ref = 0, !.secret = FALSE]
            ELSE @]
    /\ Goto(w, "idle")
    /\ UNCHANGED <<provider, clock, snap, task, channel, server, faults>>

\* The bounded requeue, or the failure of the last attempt.
Settle(w) ==
    /\ tick[w] = "settle"
    /\ LET r == row[w]
           again == r.attempts < MaxLaunchAttempts
       IN  row' = [row EXCEPT ![w] =
               IF again /\ Permits(r, {"provisioning"}, "queued")
               THEN [Entered(r, "queued") EXCEPT !.ref = 0, !.secret = FALSE]
               ELSE IF ~again /\ Permits(r, {"provisioning"}, "failed")
               THEN Entered(r, "failed")
               ELSE r]
    /\ window' = [window EXCEPT ![w] = IF row'[w].state = "queued" THEN "none" ELSE @]
    /\ Goto(w, "idle")
    /\ UNCHANGED <<provider, late, snap, task, channel, server, faults>>

--------------------------------------------------------------------------------
(* Finalizers, and the cleanup of a failed launch, which shares their      *)
(* steps: find the object, remove it, then commit.                         *)

\* The tick goes on when the task it awaits ends.
Ended(w, s, phase) ==
    /\ task' = [task EXCEPT ![w][s] = NoTask]
    /\ tick' = IF s = 0 THEN [tick EXCEPT ![w] = phase] ELSE tick

\* A finalizer with a reference removes that object; one without reads the
\* row again and falls back to what the provider lists.
BeginTask(w, s) ==
    /\ task[w][s].pc = "begin"
    /\ LET known == IF task[w][s].ref # 0 THEN task[w][s].ref ELSE row[w].ref
       IN  task' = [task EXCEPT ![w][s].ref = known,
                                ![w][s].pc = IF known # 0 THEN "remove" ELSE "list"]
    /\ UNCHANGED <<row, provider, clock, tick, snap, channel, server, faults>>

\* The receipt proves that the launch submitted nothing and never will.
Fenceable(w) == Receipts /\ obj[w] = 0 /\ receipt[w] \in {"prepared", "cleanup"}

\* Mutants of ProvenAbsent: an empty list is proof enough, whatever the launch
\* receipt says; or the list is not consulted at all.
AbsentWhenUnlisted(w, s) == obj[w] = 0
AbsentUnlooked(w, s) == Receipts => receipt[w] = "none" /\ task[w][s].closed

\* No object, and nothing that a launch in progress could still create.
ProvenAbsent(w, s) ==
    /\ obj[w] = 0
    /\ Receipts => receipt[w] = "none" /\ task[w][s].closed

\* An object found by its label, or a fenced receipt, is committed to the row
\* before it is removed.
ListUncommitted(w, s) ==
    /\ task[w][s].pc = "list"
    /\ obj[w] # 0 \/ Fenceable(w)
    /\ LET found == IF obj[w] # 0 THEN obj[w] ELSE NeverAdmitted
       IN  /\ row' = [row EXCEPT ![w].ref = found]
           /\ task' = [task EXCEPT ![w][s].ref = found, ![w][s].pc = "remove"]
    /\ receipt' = [receipt EXCEPT ![w] = IF obj[w] = 0 THEN "cleanup" ELSE @]
    /\ UNCHANGED <<obj, alive, inflight, clock, tick, snap, channel, server, faults>>

ListNothing(w, s) ==
    /\ task[w][s].pc = "list"
    /\ ProvenAbsent(w, s)
    /\ task' = [task EXCEPT ![w][s].pc = "close"]
    /\ UNCHANGED <<row, provider, clock, tick, snap, channel, server, faults>>

\* stop, the evidence, remove and purgeInput: only the referenced object goes.
\* A stop that is not followed by the removal is ContainerDies before TaskFails.
RemoveProvider(w, s) ==
    /\ task[w][s].pc = "remove"
    /\ obj' = [obj EXCEPT ![w] = IF @ = task[w][s].ref THEN 0 ELSE @]
    /\ alive' = [alive EXCEPT ![w] = @ /\ obj[w] # task[w][s].ref]
    /\ receipt' = [receipt EXCEPT ![w] = "none"]
    /\ task' = [task EXCEPT ![w][s].pc = "close"]
    /\ UNCHANGED <<row, inflight, clock, tick, snap, channel, server, faults>>

\* Mutant of TaskFails: the patch of the failed cleanup loses the intent.
TaskFailsUnrecorded(w, s) ==
    /\ task[w][s].pc \in {"begin", "list", "remove"} /\ Fault
    /\ row' = [row EXCEPT ![w] =
            IF /\ task[w][s].target # "relaunch"
               /\ Permits(@, {"provisioning", "connected", "ready"}, "terminating")
            THEN Entered(@, "terminating") ELSE @]
    /\ Ended(w, s, "idle")
    /\ UNCHANGED <<provider, clock, snap, channel, server>>

\* The provider cannot answer, absence is unproved, or the row has another
\* reference when the evidence is to be saved.  A finalizer leaves the
\* workspace terminating for the sweep to retry; a failed launch leaves it
\* provisioning until its registration window closes.
TaskFails(w, s) ==
    /\ \/ /\ task[w][s].pc = "list" /\ obj[w] = 0
          /\ ~Fenceable(w) /\ ~ProvenAbsent(w, s)
          /\ UNCHANGED faults
       \/ task[w][s].pc = "remove" /\ row[w].ref # task[w][s].ref /\ UNCHANGED faults
       \/ task[w][s].pc \in {"begin", "list", "remove"} /\ Fault
    /\ row' = [row EXCEPT ![w] =
            IF /\ task[w][s].target # "relaunch"
               /\ Permits(@, {"provisioning", "connected", "ready"}, "terminating")
            THEN [Entered(@, "terminating") EXCEPT
                     !.intent = task[w][s].target, !.secret = FALSE]
            ELSE @]
    /\ Ended(w, s, "idle")
    /\ UNCHANGED <<provider, clock, snap, channel, server>>

LaunchCleaned(w) ==
    /\ task[w][0].pc = "close" /\ task[w][0].target = "relaunch"
    /\ Ended(w, 0, "settle")
    /\ UNCHANGED <<row, provider, clock, snap, channel, server, faults>>

Finalizable == {"queued", "provisioning", "connected", "ready", "terminating"}

\* The provider is gone: the runtime ends and the connection closes.
CloseConnection(w, s) ==
    /\ task[w][s].pc = "close" /\ task[w][s].target # "relaunch"
    /\ row' = [row EXCEPT ![w].runtime =
                  IF task[w][s].runtime # "none" /\ @ = "bound" THEN "ended" ELSE @]
    /\ hub' = [hub EXCEPT ![w] = "none"]
    /\ task' = [task EXCEPT ![w][s].pc = "commit"]
    /\ UNCHANGED <<provider, clock, tick, snap, sock, join, agent, server, faults>>

\* The terminal state commits, if the table still allows it.
CommitFinal(w, s) ==
    LET t == task[w][s] IN
    /\ t.pc = "commit"
    /\ row' = [row EXCEPT ![w] =
            IF Permits(@, Finalizable, t.target) THEN Entered(@, t.target) ELSE @]
    /\ Ended(w, s, "idle")
    /\ UNCHANGED <<provider, clock, snap, channel, server, faults>>

--------------------------------------------------------------------------------
(* The caller's cancel request: it reads the row, then acts on what it read. *)

Seen(state) ==
    CASE state = "queued" -> "queued"
      [] state \in TerminalState \cup {"terminating"} -> "returned"
      [] OTHER -> "active"

CallCancel(w) ==
    /\ Serving /\ cancel[w] = "none"
    /\ cancel' = [cancel EXCEPT ![w] = Seen(row[w].state)]
    /\ UNCHANGED <<row, provider, clock, tick, snap, task, channel, unreconciled, faults>>

\* Admission can win between the read and this write; then cancel reads again.
CancelQueued(w) ==
    /\ cancel[w] = "queued"
    /\ IF Permits(row[w], {"queued"}, "canceled")
       THEN /\ row' = [row EXCEPT ![w] = Entered(@, "canceled")]
            /\ cancel' = [cancel EXCEPT ![w] = "returned"]
       ELSE /\ cancel' = [cancel EXCEPT ![w] = Seen(row[w].state)]
            /\ UNCHANGED row
    /\ UNCHANGED <<provider, clock, tick, snap, task, channel, unreconciled, faults>>

CancelActive(w, s) ==
    /\ cancel[w] = "active" /\ FreeSlot(w, s)
    /\ row' = [row EXCEPT ![w] = Terminating(@, "canceled")]
    /\ task' = IF row' # row THEN Spawned(w, s, row'[w], "canceled") ELSE task
    /\ cancel' = [cancel EXCEPT ![w] = "returned"]
    /\ UNCHANGED <<provider, clock, tick, snap, channel, unreconciled, faults>>

--------------------------------------------------------------------------------
(* The supervisor's channel.                                               *)

\* Mutant of Authenticate: the socket does not wait for the runtime binding.
AuthenticateUnbound(w) ==
    /\ Serving /\ sock[w] = 0 /\ join[w] = 0 /\ agent[w] = 0
    /\ alive[w] /\ obj[w] = row[w].attempts
    /\ row[w].state = "provisioning" /\ row[w].secret /\ window[w] = "open"
    /\ sock' = [sock EXCEPT ![w] = obj[w]]
    /\ UNCHANGED <<row, provider, clock, tick, snap, task, join, agent, hub, server, faults>>

\* The upgrade request proves the registration secret of its own attempt.
Authenticate(w) ==
    /\ Serving /\ sock[w] = 0 /\ join[w] = 0 /\ agent[w] = 0
    /\ alive[w] /\ obj[w] = row[w].attempts
    /\ row[w].state = "provisioning" /\ row[w].secret /\ window[w] = "open"
    /\ Manifest => row[w].runtime = "bound"
    /\ sock' = [sock EXCEPT ![w] = obj[w]]
    /\ UNCHANGED <<row, provider, clock, tick, snap, task, join, agent, hub, server, faults>>

\* The first frame of an authenticated socket.  It looks at the state of the
\* row alone, and purges the launch input in the background.
Register(w) ==
    /\ sock[w] # 0
    /\ sock' = [sock EXCEPT ![w] = 0]
    /\ IF Permits(row[w], {"provisioning"}, "connected")
       THEN /\ row' = [row EXCEPT ![w] = [Entered(@, "connected") EXCEPT
                                            !.secret = FALSE, !.disconnected = FALSE]]
            /\ window' = [window EXCEPT ![w] = "none"]
            /\ join' = [join EXCEPT ![w] = sock[w]]
            /\ \/ UNCHANGED receipt
               \/ receipt' = [receipt EXCEPT ![w] = "none"]
       ELSE UNCHANGED <<row, window, join, receipt>>
    /\ UNCHANGED <<obj, alive, inflight, late, tick, snap, task, agent, hub, server, faults>>

\* The socket dies before its first frame.
SocketLost(w) ==
    /\ sock[w] # 0
    /\ sock' = [sock EXCEPT ![w] = 0]
    /\ UNCHANGED <<row, provider, clock, tick, snap, task, join, agent, hub, server, faults>>

Reconnect(w) ==
    /\ Serving /\ join[w] = 0 /\ hub[w] # "live"
    /\ agent[w] # 0 /\ obj[w] = agent[w] /\ alive[w]
    /\ row[w].state \in {"connected", "ready", "preserving", "terminating"}
    /\ row[w].runtime # "ended"
    /\ row' = [row EXCEPT ![w].disconnected = FALSE]
    /\ join' = [join EXCEPT ![w] = agent[w]]
    /\ UNCHANGED <<provider, clock, tick, snap, task, sock, agent, hub, server, faults>>

\* The hub takes the connection; a workspace that is no longer connected or
\* ready, or is past its deadline, has its socket closed, but not its entry.
Attach(w) ==
    LET kept == row[w].state \in {"connected", "ready"} /\ ~late[w] IN
    /\ join[w] # 0
    /\ join' = [join EXCEPT ![w] = 0]
    /\ hub' = [hub EXCEPT ![w] = IF kept THEN "live" ELSE "stale"]
    /\ agent' = [agent EXCEPT ![w] = IF kept THEN join[w] ELSE @]
    /\ UNCHANGED <<row, provider, clock, tick, snap, task, sock, server, faults>>

Speaks(w) == hub[w] = "live"

\* Health and process frames mark a connected workspace ready.
MaybeMarkReady(w) ==
    /\ Speaks(w) /\ row[w].runtime # "ended"
    /\ Permits(row[w], {"connected"}, "ready")
    /\ row' = [row EXCEPT ![w] = Entered(@, "ready")]
    /\ UNCHANGED <<provider, clock, tick, snap, task, channel, server, faults>>

\* The harness exits, the supervisor reports it and exits too.
HandleProcessExit(w, s, code) ==
    LET r == row[w] IN
    /\ Speaks(w) /\ FreeSlot(w, s)
    /\ obj[w] = agent[w] /\ alive[w]
    /\ r.state \notin TerminalState \cup {"preserving"} /\ r.runtime = "none"
    /\ task' = Spawned(w, s, r,
            CASE r.state = "terminating" /\ r.intent # "none" -> r.intent
              [] r.state = "terminating" /\ r.intent = "none" -> "failed"
              [] r.state # "terminating" /\ code = 0 -> "succeeded"
              [] r.state # "terminating" /\ code # 0 -> "failed")
    /\ alive' = [alive EXCEPT ![w] = FALSE]
    /\ UNCHANGED <<row, obj, receipt, inflight, clock, tick, snap, channel, server, faults>>

\* Egress enforcement broke: the workspace is finalized from any state.
NetworkDegraded(w, s) ==
    /\ Speaks(w) /\ FreeSlot(w, s) /\ Fault
    /\ row[w].state \notin TerminalState
    /\ task' = Spawned(w, s, row[w], "failed")
    /\ UNCHANGED <<row, provider, clock, tick, snap, channel, server>>

Disconnect(w) ==
    /\ hub[w] = "live"
    /\ hub' = [hub EXCEPT ![w] = "none"]
    /\ row' = [row EXCEPT ![w].disconnected =
                  @ \/ row[w].state \notin TerminalState \cup {"terminating", "preserving"}]
    /\ UNCHANGED <<provider, clock, tick, snap, task, sock, join, agent, server, faults>>

ContainerDies(w) ==
    /\ alive[w] /\ Fault
    /\ alive' = [alive EXCEPT ![w] = FALSE]
    /\ UNCHANGED <<row, obj, receipt, inflight, clock, tick, snap, task, channel, server>>

--------------------------------------------------------------------------------
(* Time.                                                                   *)

\* Unless launches are slow, every request of a launch reaches the provider
\* within the registration window.
CloseWindow(w) ==
    /\ window[w] = "open"
    /\ SlowLaunch \/ (tick[w] \notin {"storage", "create", "submit", "job"} /\ inflight[w] = 0)
    /\ window' = [window EXCEPT ![w] = "closed"]
    /\ UNCHANGED <<row, provider, late, tick, snap, task, channel, server, faults>>

Elapse(w) ==
    /\ ~late[w] /\ row[w].state \notin TerminalState
    /\ late' = [late EXCEPT ![w] = TRUE]
    /\ UNCHANGED <<row, provider, window, tick, snap, task, channel, server, faults>>

--------------------------------------------------------------------------------
(* The sweep lists the nonterminal rows, then handles each from what it    *)
(* listed.  Idle time, the disconnect grace and the cleanup retry delay are *)
(* not measured: any of them may have run out.                             *)

\* Mutant of Due: a terminating workspace is left to its first finalizer.
DueWithoutRetry(w) ==
    CASE row[w].state = "queued" -> IF late[w] THEN {"lapse"} ELSE {}
      [] row[w].state = "provisioning" /\ window[w] = "closed" -> {"fail"}
      [] row[w].state \in {"connected", "ready"} /\ late[w] -> {"expire"}
      [] OTHER -> {}

Due(w) ==
    LET r == row[w] IN
    CASE r.state = "queued" -> IF late[w] THEN {"lapse"} ELSE {}
      [] r.state = "provisioning" /\ window[w] = "closed" -> {"fail"}
      [] r.state \in {"connected", "ready"} /\ late[w] -> {"expire"}
      [] r.state \in {"connected", "ready"} /\ ~late[w] ->
            {"observe"}
            \cup (IF r.state = "ready" /\ r.runtime = "none" THEN {"expire"} ELSE {})
            \cup (IF r.disconnected THEN {"grace"} ELSE {})
      [] r.state = "terminating" -> {"retry"}
      [] r.state = "provisioning" /\ window[w] # "closed" -> {"observe"}
      [] OTHER -> {}

Sweep(w, phase) ==
    /\ Serving /\ TickFree
    /\ phase \in Due(w)
    /\ snap' = [snap EXCEPT ![w] = row[w]]
    /\ Goto(w, phase)
    /\ UNCHANGED <<row, provider, clock, task, channel, server, faults>>

SweepQueued(w) ==
    /\ tick[w] = "lapse"
    /\ row' = [row EXCEPT ![w] =
                  IF Permits(@, {"queued"}, "expired") THEN Entered(@, "expired") ELSE @]
    /\ Goto(w, "idle")
    /\ UNCHANGED <<provider, clock, snap, task, channel, server, faults>>

\* The tick awaits a finalizer built from the listed row.
AwaitFinalizer(w, target) ==
    /\ task' = Spawned(w, 0, snap[w], target)
    /\ Goto(w, "await")

\* registration_timeout, or the disconnect grace of a workspace the hub no
\* longer holds.
SweepFails(w) ==
    /\ tick[w] = "fail" \/ (tick[w] = "grace" /\ hub[w] = "none")
    /\ AwaitFinalizer(w, "failed")
    /\ UNCHANGED <<row, provider, clock, snap, channel, server, faults>>

SweepReconnected(w) ==
    /\ tick[w] = "grace" /\ hub[w] # "none"
    /\ Goto(w, "observe")
    /\ UNCHANGED <<row, provider, clock, snap, task, channel, server, faults>>

SweepTerminating(w) ==
    /\ tick[w] = "retry"
    /\ AwaitFinalizer(w, IF snap[w].intent = "none" THEN "failed" ELSE snap[w].intent)
    /\ UNCHANGED <<row, provider, clock, snap, channel, server, faults>>

\* beginTermination from the tick: with a reference the finalizer runs
\* detached, without one the tick awaits it.
TickTerminates(w, s, r, target) ==
    LET after == Terminating(r, target) IN
    /\ row' = [row EXCEPT ![w] = after]
    /\ IF r.state = after.state
       THEN Goto(w, "idle") /\ UNCHANGED task
       ELSE /\ IF after.ref # 0 THEN FreeSlot(w, s) ELSE s = 0
            /\ task' = Spawned(w, s, after, target)
            /\ Goto(w, IF s = 0 THEN "await" ELSE "idle")

SweepExpires(w, s) ==
    /\ tick[w] = "expire"
    /\ TickTerminates(w, s, row[w], "expired")
    /\ UNCHANGED <<provider, clock, snap, channel, server, faults>>

\* inspect: the object referenced by the row is gone or not running.
Lost(w, r) == obj[w] # r.ref \/ ~alive[w]

EndRuntime(r) == [r EXCEPT !.runtime = IF @ = "bound" THEN "ended" ELSE @]

\* observeProvider reads the row again only when a runtime is registered.
Observed(w) == IF snap[w].runtime # "none" THEN row[w] ELSE snap[w]

\* A launch the provider refused to start fails without waiting.
ObserveRefused(w) ==
    /\ Receipts /\ tick[w] = "observe"
    /\ Observed(w).state = "provisioning" /\ Observed(w).ref # 0
    /\ obj[w] = Observed(w).ref /\ ~alive[w]
    /\ AwaitFinalizer(w, "failed")
    /\ UNCHANGED <<row, provider, clock, snap, channel, server, faults>>

ObserveLost(w, s) ==
    /\ tick[w] = "observe"
    /\ Observed(w).state \in {"provisioning", "connected", "ready"}
    /\ Observed(w).ref # 0 /\ Observed(w).runtime # "none"
    /\ Lost(w, Observed(w))
    /\ TickTerminates(w, s, EndRuntime(row[w]), "failed")
    /\ UNCHANGED <<provider, clock, snap, channel, server, faults>>

ObserveNothing(w) ==
    /\ tick[w] = "observe"
    /\ Goto(w, "idle")
    /\ UNCHANGED <<row, provider, clock, snap, task, channel, server, faults>>

--------------------------------------------------------------------------------
(* A crash of the server loses everything but the store and the provider.  *)

\* A create call cut off by the crash may still reach the provider.
Crash ==
    /\ Fault
    /\ \E lost \in SUBSET {w \in Workspace : tick[w] \in {"create", "job"}} :
          inflight' = [w \in Workspace |->
              IF w \in lost /\ tick[w] = (IF Receipts THEN "job" ELSE "create")
              THEN row[w].attempts ELSE inflight[w]]
    /\ tick' = [w \in Workspace |-> "idle"]
    /\ task' = [w \in Workspace |-> [s \in Slot |-> NoTask]]
    /\ sock' = [w \in Workspace |-> 0]
    /\ join' = [w \in Workspace |-> 0]
    /\ hub' = [w \in Workspace |-> "none"]
    /\ cancel' = [w \in Workspace |-> IF cancel[w] = "returned" THEN "returned" ELSE "none"]
    /\ unreconciled' = Workspace
    /\ UNCHANGED <<row, obj, alive, receipt, clock, snap, agent>>

LandLate(w) ==
    /\ inflight[w] # 0 /\ obj[w] = 0
    /\ SlowLaunch \/ window[w] = "open"
    /\ obj' = [obj EXCEPT ![w] = inflight[w]]
    /\ alive' = [alive EXCEPT ![w] = TRUE]
    /\ inflight' = [inflight EXCEPT ![w] = 0]
    /\ UNCHANGED <<row, receipt, clock, tick, snap, task, channel, server, faults>>

InflightLost(w) ==
    /\ inflight[w] # 0
    /\ inflight' = [inflight EXCEPT ![w] = 0]
    /\ UNCHANGED <<row, obj, alive, receipt, clock, tick, snap, task, channel, server, faults>>

\* reconcileProviderRow: a workspace whose object is missing loses its
\* runtime and terminates; the others wait for their supervisor.
ReconcileProviderRow(w) ==
    LET r == row[w]
        kept == IF obj[w] = 0 THEN EndRuntime(r) ELSE r
    IN
    /\ w \in unreconciled
    /\ unreconciled' = unreconciled \ {w}
    /\ row' = [row EXCEPT ![w] =
            CASE r.state \in TerminalState \cup {"queued", "terminating"} -> r
              [] r.state \in {"connected", "ready"} /\ obj[w] = 0 ->
                    [Entered(kept, "terminating") EXCEPT !.intent = "failed"]
              [] r.state \in {"connected", "ready"} /\ obj[w] # 0 ->
                    [kept EXCEPT !.disconnected = TRUE]
              [] OTHER -> kept]
    /\ UNCHANGED <<provider, clock, tick, snap, task, channel, cancel, faults>>

\* The provider cannot be listed: startup goes on with what it has.
ReconcileAborted ==
    /\ unreconciled # {} /\ Fault
    /\ unreconciled' = {}
    /\ UNCHANGED <<row, provider, clock, tick, snap, task, channel, cancel>>

--------------------------------------------------------------------------------
LaunchStep(w) ==
    \/ Claim(w) \/ PrepareStorage(w) \/ LaunchNotSubmitted(w)
    \/ CreateContainer(w) \/ CreateReceipt(w) \/ ClaimSubmitting(w)
    \/ CreateJob(w) \/ CreateFails(w) \/ SaveRef(w) \/ SaveRefFails(w)
    \/ PrepareRuntime(w) \/ PrepareRuntimeFails(w) \/ Settle(w)

TaskStep(w, s) ==
    \/ BeginTask(w, s) \/ ListUncommitted(w, s) \/ ListNothing(w, s)
    \/ RemoveProvider(w, s) \/ TaskFails(w, s)
    \/ CloseConnection(w, s) \/ CommitFinal(w, s)

SweepStep(w) ==
    \/ SweepQueued(w) \/ SweepFails(w) \/ SweepReconnected(w) \/ SweepTerminating(w)
    \/ ObserveRefused(w) \/ ObserveNothing(w)
    \/ \E s \in Slot : SweepExpires(w, s) \/ ObserveLost(w, s)

CancelStep(w) ==
    \/ CallCancel(w) \/ CancelQueued(w)
    \/ \E s \in Slot : CancelActive(w, s)

ChannelStep(w) ==
    \/ Authenticate(w) \/ Register(w) \/ SocketLost(w) \/ Reconnect(w)
    \/ Attach(w) \/ MaybeMarkReady(w) \/ Disconnect(w)
    \/ \E s \in Slot : NetworkDegraded(w, s) \/ \E c \in {0, 1} : HandleProcessExit(w, s, c)

Environment(w) ==
    \/ ContainerDies(w) \/ CloseWindow(w) \/ Elapse(w)
    \/ LandLate(w) \/ InflightLost(w)

Next ==
    \/ \E w \in Workspace :
         \/ LaunchStep(w) \/ LaunchCleaned(w) \/ CancelStep(w) \/ ChannelStep(w)
         \/ Environment(w) \/ SweepStep(w) \/ ReconcileProviderRow(w)
         \/ \E s \in Slot : TaskStep(w, s)
         \/ \E phase \in Sweeping : Sweep(w, phase)
    \/ Crash \/ ReconcileAborted

Spec == Init /\ [][Next]_vars

--------------------------------------------------------------------------------
(* Properties.                                                             *)

\* Every variable keeps its type: in particular no row counts more launches
\* than limits.maxLaunchAttempts allows.
TypeOK ==
    /\ row \in [Workspace -> Row]
    /\ obj \in [Workspace -> Attempt]
    /\ alive \in [Workspace -> BOOLEAN]
    /\ receipt \in [Workspace -> {"none", "prepared", "submitting", "cleanup"}]
    /\ inflight \in [Workspace -> Attempt]
    /\ window \in [Workspace -> {"none", "open", "closed"}]
    /\ late \in [Workspace -> BOOLEAN]
    /\ tick \in [Workspace -> TickPhase]
    /\ snap \in [Workspace -> Row]
    /\ task \in [Workspace -> [Slot -> Task]]
    /\ sock \in [Workspace -> Attempt]
    /\ join \in [Workspace -> Attempt]
    /\ agent \in [Workspace -> Attempt]
    /\ hub \in [Workspace -> {"none", "live", "stale"}]
    /\ cancel \in [Workspace -> {"none", "queued", "active", "returned"}]
    /\ unreconciled \in SUBSET Workspace
    /\ faults \in 0 .. MaxFaults

\* Nobody is working on the workspace and no create call is on its way.
Quiet(w) ==
    /\ tick[w] = "idle" /\ inflight[w] = 0
    /\ \A s \in Slot : task[w][s].pc = "none"

\* Once a workspace is terminal and no task works on it any more, its provider
\* object is gone, whichever way launch, cancel, sweep, exit frames and crashes
\* interleaved (launch in scheduler-admission.ts, finalizeProvider in
\* scheduler-lifecycle.ts, cleanupUncommittedProvider).
TerminalLeavesNoProvider ==
    \A w \in Workspace :
        row[w].state \in TerminalState /\ Quiet(w) => obj[w] = 0

\* A workspace back in the queue has nothing at the provider and no create
\* call that could still land (the requeue in launch, scheduler-admission.ts).
RequeueIsClean ==
    \A w \in Workspace :
        row[w].state = "queued" => obj[w] = 0 /\ inflight[w] = 0 /\ row[w].ref = 0

\* A queued workspace always has a launch attempt left: the last failed launch
\* fails the workspace instead of requeueing it (launch, scheduler-admission.ts).
AttemptsLeft ==
    \A w \in Workspace : row[w].state = "queued" => row[w].attempts < MaxLaunchAttempts

\* Whoever moved a workspace to terminating recorded how it is to end, so the
\* sweep and the exit frame never fall back to a guess (terminalIntent ??
\* "failed" in scheduler-sweep.ts and ws-frame-handler.ts).
TerminatingHasIntent ==
    \A w \in Workspace : row[w].state = "terminating" => row[w].intent # "none"

\* The first termination to be recorded is the recorded one for good: a later
\* cancel, expiry, provider loss or cleanup failure does not replace the intent
\* (the from-lists of beginTermination and finalizeProvider).
IntentSticks ==
    [][\A w \in Workspace :
          row[w].intent # "none" => row'[w].intent = row[w].intent]_vars

\* A provider object always belongs to the last launch attempt: no launch runs
\* beside the leftovers of an earlier one (launch and cleanupFailedLaunch).
ObjectIsCurrent ==
    \A w \in Workspace : obj[w] # 0 => obj[w] = row[w].attempts

\* The supervisor that registered belongs to the last launch attempt
\* (authenticateRegistration in ws-auth.ts, registerConnection in ws-events.ts).
RegisteredIsCurrent ==
    \A w \in Workspace :
        \A a \in {join[w], agent[w]} \ {0} : a = row[w].attempts

\* A container that ran is never relaunched: the requeue is taken only when no
\* object was referenced, or its receipt proves it was never admitted (launch).
NeverRelaunched ==
    [][\A w \in Workspace :
          row[w].state = "provisioning" /\ row'[w].state = "queued"
            => row[w].ref \in {0, NeverAdmitted}]_vars

\* A connected workspace without a supervisor connection is on the disconnect
\* clock, so it ends after the grace and not only at its deadline
\* (detachConnection in ws-events.ts, reconcileProviderRow).
DisconnectClockRuns ==
    \A w \in Workspace :
        /\ Serving /\ Quiet(w)
        /\ row[w].state \in {"connected", "ready"}
        /\ hub[w] = "none" /\ join[w] = 0
        => row[w].disconnected

\* When a cancel request returns, the workspace has ended or is ending (cancel
\* in workspaces/service.ts).
CancelEnds ==
    \A w \in Workspace :
        cancel[w] = "returned" => row[w].state \in TerminalState \cup {"terminating"}

Machine == INSTANCE WorkspaceMachine
               WITH state <- [w \in Workspace |-> row[w].state]

\* Every writer of a row, stale or not, follows the contract's transition table:
\* the lifecycle implements WorkspaceMachine, so terminal states never reopen.
ImplementsMachine == Machine!Spec

\* The tasks of a running server make progress, timers elapse, and a sweep
\* comes round to every row again and again: strongly fair, since another row's
\* launch or sweep may hold the tick in between.
Fairness ==
    \A w \in Workspace :
        /\ WF_vars(LaunchStep(w) /\ ~Claim(w)) /\ WF_vars(LaunchCleaned(w))
        /\ WF_vars(SweepStep(w))
        /\ \A s \in Slot : WF_vars(TaskStep(w, s))
        /\ WF_vars(CloseWindow(w)) /\ WF_vars(Elapse(w)) /\ WF_vars(InflightLost(w))
        /\ WF_vars(ReconcileProviderRow(w))
        /\ WF_vars(Register(w) \/ SocketLost(w)) /\ WF_vars(Attach(w))
        /\ SF_vars(\E phase \in Sweeping \ {"observe"} : Sweep(w, phase))

FairSpec == Spec /\ Fairness

\* Every workspace ends, whatever its supervisor, its caller and the provider
\* do: some deadline, grace or retry of the sweep always gets it there.
EventuallyTerminal == \A w \in Workspace : <>(row[w].state \in TerminalState)

================================================================================
