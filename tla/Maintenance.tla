------------------------------ MODULE Maintenance ------------------------------
(***************************************************************************)
(* How a controller stops its own writes: the maintenance window of a      *)
(* backup, the fence of a suspended account and the permanent purge of an  *)
(* account.  Two facts survive a crash, the account state file and the     *)
(* private purge file; the fences live in memory and are rebuilt from them *)
(* when the controller starts.                                             *)
(*                                                                         *)
(* Admitted work is a request or a timer tick.  It creates a workspace,    *)
(* fills the warm pool or issues a key, and a tick hands launches to the   *)
(* scheduler, whose jobs outlive the tick.                                 *)
(***************************************************************************)
EXTENDS Naturals, FiniteSets

CONSTANTS
    Place,        \* workspaces the account may own
    MaxOps,       \* bound on the suspend and resume operations
    MaxFailures   \* bound on crashes and failed steps

VARIABLES
    mode,      \* "down", "normal", "purging": what the process serves
    active,    \* a maintenance window is open
    fenced,    \* mutations stay refused after the window
    muted,     \* control traffic is refused (purge only)
    admitted,  \* admitted work, one of each kind at most
    window,    \* the backup that holds the window: "none", "settling", "capturing"
    space,     \* row of each workspace: "none", "queued", "live", "preserving", "terminating", "ended"
    job,       \* workspaces the scheduler or the persistence service works on
    object,    \* workspaces whose runtime exists at the provider
    warm,      \* the warm runtime row: "none", "live", "failed"
    spare,     \* the warm runtime exists at the provider
    keys,      \* "active", "revoked" (locally) or "acknowledged"
    account,   \* account-lifecycle.json: [state, current, done]
    op,        \* the running account operation: [kind, at, todo]
    intent,    \* the purge authority names this account
    purge,     \* account-purge.json: [state, revoked]
    cleanup,   \* the running purge: [at, todo]
    unfenced,  \* history: a resume lowered the fence that a purge had raised
    failures

fenceVars == <<active, fenced, muted>>
computeVars == <<space, job, object, warm, spare>>
purgeVars == <<intent, purge, cleanup, unfenced>>
maintenanceVars == <<mode, fenceVars, admitted, window, computeVars, keys, account, op, purgeVars, failures>>

NoOp == [kind |-> "none", at |-> "idle", todo |-> {}]
NoCleanup == [at |-> "idle", todo |-> {}]
Nonterminal == {w \in Place : space[w] \notin {"none", "ended"}}

MaintenanceInit ==
    /\ mode = "down" /\ active = FALSE /\ fenced = FALSE /\ muted = FALSE
    /\ admitted = {} /\ window = "none"
    /\ space = [w \in Place |-> "none"] /\ job = {} /\ object = {} /\ warm = "none" /\ spare = FALSE
    /\ keys = "active"
    /\ account = [state |-> "ready", current |-> "none", done |-> 0]
    /\ op = NoOp /\ intent = FALSE /\ purge = [state |-> "none", revoked |-> FALSE] /\ cleanup = NoCleanup
    /\ unfenced = FALSE /\ failures = 0

-----------------------------------------------------------------------------
(* Process start and crash *)

\* Mutant of startPocketCoderServer: the fence of an unfinished or suspended account is not rebuilt.
StartUnfenced ==
    /\ mode = "down" /\ ~intent /\ mode' = "normal"
    /\ UNCHANGED <<fenceVars, admitted, window, computeVars, keys, account, op, purgeVars, failures>>

\* requireNormalController refuses a purged account; any account state but ready starts fenced.
startPocketCoderServer ==
    /\ mode = "down" /\ ~intent
    /\ mode' = "normal" /\ fenced' = (account.state # "ready")
    /\ UNCHANGED <<active, muted, admitted, window, computeVars, keys, account, op, purgeVars, failures>>

\* The purging controller opens only its private socket, fenced from the start.
startPurgingController ==
    /\ mode = "down" /\ intent
    /\ mode' = "purging" /\ fenced' = TRUE
    /\ UNCHANGED <<active, muted, admitted, window, computeVars, keys, account, op, purgeVars, failures>>

Launching == {w \in job : space[w] = "live"}

\* The process dies; a launch or a warm fill in flight may have reached the provider.
Die ==
    /\ mode # "down" /\ failures < MaxFailures /\ failures' = failures + 1
    /\ \E made \in SUBSET Launching : object' = object \cup made
    /\ \/ UNCHANGED <<warm, spare>>
       \/ "warm" \in admitted /\ warm # "live" /\ warm' = "live" /\ spare' \in BOOLEAN
    /\ mode' = "down" /\ active' = FALSE /\ fenced' = FALSE /\ muted' = FALSE
    /\ admitted' = {} /\ window' = "none" /\ job' = {} /\ op' = NoOp /\ cleanup' = NoCleanup
    /\ UNCHANGED <<space, keys, account, intent, purge, unfenced>>

-----------------------------------------------------------------------------
(* Admitted work *)

accountPurgeFence == ~intent
maintenanceGate == ~active /\ ~fenced
Requests == {"create", "key"}

\* admit, and pausable for the timers: nothing starts while a window or a fence is up.
\* Requests pass the purge gate first; timers do not.
admit(k) ==
    /\ mode = "normal" /\ maintenanceGate /\ k \notin admitted
    /\ k \in Requests => accountPurgeFence
    /\ admitted' = admitted \cup {k}
    /\ UNCHANGED <<mode, fenceVars, window, computeVars, keys, account, op, purgeVars, failures>>

\* What admitted work writes before it settles.
Settle(k) ==
    /\ k \in admitted /\ admitted' = admitted \ {k}
    /\ \/ /\ k = "create"
          /\ \E w \in Place : space[w] = "none" /\ space' = [space EXCEPT ![w] = "queued"]
          /\ UNCHANGED <<job, warm, spare, keys>>
       \/ /\ k = "tick"
          /\ \E w \in Place : /\ space[w] = "queued" /\ w \notin job
                              /\ space' = [space EXCEPT ![w] = "live"] /\ job' = job \cup {w}
          /\ UNCHANGED <<warm, spare, keys>>
       \/ k = "warm" /\ warm # "live" /\ warm' = "live" /\ spare' = TRUE /\ UNCHANGED <<space, job, keys>>
       \/ k = "key" /\ keys' = "active" /\ UNCHANGED <<space, job, warm, spare>>
       \/ UNCHANGED <<space, job, warm, spare, keys>>       \* it failed or had nothing to do
    /\ UNCHANGED <<mode, fenceVars, window, object, account, op, purgeVars, failures>>

\* A launch job creates the runtime; a finalizer or a preserve removes it and ends the row, or leaves it for a retry.
JobEnds(w) ==
    /\ w \in job /\ job' = job \ {w}
    /\ \/ space[w] = "live" /\ object' = object \cup {w} /\ UNCHANGED space
       \/ /\ space[w] \in {"terminating", "preserving"}
          /\ object' = object \ {w} /\ space' = [space EXCEPT ![w] = "ended"]
       \/ failures < MaxFailures /\ space[w] \in {"terminating", "preserving"} /\ UNCHANGED <<space, object>>
    /\ failures' = IF space'[w] \in {"terminating", "preserving"} THEN failures + 1 ELSE failures
    /\ UNCHANGED <<mode, fenceVars, admitted, window, warm, spare, keys, account, op, purgeVars>>

finalize(w) == space' = [space EXCEPT ![w] = "terminating"] /\ job' = job \cup {w}

\* controlActivity.run: control traffic goes on in a window and in a fence; an exit starts a finalizer.
ControlExit(w) ==
    /\ mode = "normal" /\ ~muted /\ ~intent /\ space[w] = "live" /\ w \in object /\ w \notin job
    /\ finalize(w)
    /\ UNCHANGED <<mode, fenceVars, admitted, window, object, warm, spare, keys, account, op, purgeVars, failures>>

-----------------------------------------------------------------------------
(* The maintenance window of a backup *)

Suspended == account.state = "suspended" /\ account.current = "none"

\* Mutant of run: the window opens only when earlier work has settled, but work admitted meanwhile goes on.
RunWithoutWaiting ==
    /\ mode = "normal" /\ window = "none" /\ accountPurgeFence /\ ~active /\ (fenced => Suspended)
    /\ active' = TRUE /\ window' = "capturing"
    /\ UNCHANGED <<mode, fenced, muted, admitted, computeVars, keys, account, op, purgeVars, failures>>

\* run: refused in a window, and in a fence unless the account is suspended.
run ==
    /\ mode = "normal" /\ window = "none" /\ accountPurgeFence /\ ~active /\ (fenced => Suspended)
    /\ active' = TRUE /\ window' = "settling"
    /\ UNCHANGED <<mode, fenced, muted, admitted, computeVars, keys, account, op, purgeVars, failures>>

\* settle: first the admitted work, then the jobs it started.
Settled == admitted = {} /\ job = {}

settle ==
    /\ window = "settling" /\ Settled /\ window' = "capturing"
    /\ UNCHANGED <<mode, fenceVars, admitted, computeVars, keys, account, op, purgeVars, failures>>

\* The capture ends, or the deadline passes before or in it: writes resume on every exit.
CloseWindow ==
    /\ window # "none" /\ window' = "none" /\ active' = FALSE
    /\ UNCHANGED <<mode, fenced, muted, admitted, computeVars, keys, account, op, purgeVars, failures>>

-----------------------------------------------------------------------------
(* Suspend and resume *)

from(k) == IF k = "suspend" THEN "ready" ELSE "suspended"
pending(k) == IF k = "suspend" THEN "suspending" ELSE "resuming"
done(k) == IF k = "suspend" THEN "suspended" ELSE "ready"

\* begin: a new operation fences and is saved; a retry of the current one goes on.
begin(k) ==
    /\ mode = "normal" /\ op = NoOp /\ (k = "resume" => accountPurgeFence)
    /\ \/ account.current = k /\ UNCHANGED <<account, fenced>>
       \/ /\ account.current = "none" /\ ~active /\ account.state = from(k) /\ account.done < MaxOps
          /\ account' = [account EXCEPT !.state = pending(k), !.current = k]
          /\ fenced' = TRUE
    /\ op' = [NoOp EXCEPT !.kind = k, !.at = "drain"]
    /\ UNCHANGED <<mode, active, muted, admitted, window, computeVars, keys, purgeVars, failures>>

At(k, at) == op.kind = k /\ op.at = at
Step(at) == op' = [op EXCEPT !.at = at, !.todo = {}]

\* A step throws: the operation stays current and the manager retries it.
OperationFails ==
    /\ op # NoOp /\ failures < MaxFailures /\ failures' = failures + 1 /\ op' = NoOp
    /\ UNCHANGED <<mode, fenceVars, admitted, window, computeVars, keys, account, purgeVars>>

drain ==
    /\ op.at = "drain" /\ Settled
    /\ IF op.kind = "suspend" THEN op' = [op EXCEPT !.at = "stop", !.todo = Nonterminal] ELSE Step("check")
    /\ UNCHANGED <<mode, fenceVars, admitted, window, computeVars, keys, account, purgeVars, failures>>

\* suspend: each listed workspace is preserved when it can be, else finalized; a row that ended meanwhile is left.
suspend(w) ==
    /\ At("suspend", "stop") /\ w \in op.todo
    /\ op' = [op EXCEPT !.todo = @ \ {w}]
    /\ \/ space[w] \in {"preserving", "ended"} /\ UNCHANGED <<space, job>>
       \/ space[w] \in {"live", "queued", "terminating"} /\ finalize(w)
       \/ space[w] = "live" /\ space' = [space EXCEPT ![w] = "preserving"] /\ job' = job \cup {w}
    /\ UNCHANGED <<mode, fenceVars, admitted, window, object, warm, spare, keys, account, purgeVars, failures>>

\* Every row was handled; interrupted preserves are retried and the jobs drained.
retryPreserves ==
    /\ At("suspend", "stop") /\ op.todo = {} /\ Step("jobs")
    /\ job' = job \cup {w \in Place : space[w] = "preserving"}
    /\ UNCHANGED <<mode, fenceVars, admitted, window, space, object, warm, spare, keys, account, purgeVars, failures>>

\* drainWarm: rows that are not failed are removed at the provider and marked failed.
drainWarm ==
    /\ At("suspend", "jobs") /\ job = {} /\ Step("check")
    /\ warm' = (IF warm = "live" THEN "failed" ELSE warm) /\ spare' = FALSE
    /\ UNCHANGED <<mode, fenceVars, admitted, window, space, job, object, keys, account, purgeVars, failures>>

NoRows == Nonterminal = {} /\ warm # "live"
NoObjects == object = {} /\ ~spare
\* zeroCompute: the rows and, whatever they say, the provider's own lists.
zeroCompute == NoRows /\ NoObjects

CheckCompute ==
    /\ op.at = "check" /\ zeroCompute /\ Step("save")
    /\ UNCHANGED <<mode, fenceVars, admitted, window, computeVars, keys, account, purgeVars, failures>>

\* The result is saved; a resume releases the fence, whoever raised it.
save ==
    /\ op.at = "save" /\ op' = NoOp
    /\ account' = [state |-> done(op.kind), current |-> "none", done |-> account.done + 1]
    /\ fenced' = (fenced /\ op.kind # "resume")
    /\ unfenced' = (unfenced \/ (op.kind = "resume" /\ muted))
    /\ UNCHANGED <<mode, active, muted, admitted, window, computeVars, keys, intent, purge, cleanup, failures>>

-----------------------------------------------------------------------------
(* The purge *)

\* acknowledge: the manager records the permanent intent, whatever the account's controller is doing.
Condemn ==
    /\ ~intent /\ intent' = TRUE
    /\ UNCHANGED <<mode, fenceVars, admitted, window, computeVars, keys, account, op, purge, cleanup, unfenced, failures>>

savePurgeState(next) == purge' = next

\* run: the intent is saved, then mutations and control traffic are fenced and admitted work drained.
perform ==
    /\ mode # "down" /\ intent /\ cleanup = NoCleanup
    /\ savePurgeState(IF purge.state = "none" THEN [purge EXCEPT !.state = "purging"] ELSE purge)
    /\ fenced' = TRUE /\ muted' = TRUE
    /\ cleanup' = [NoCleanup EXCEPT !.at = "drain"]
    /\ UNCHANGED <<mode, active, admitted, window, computeVars, keys, account, op, intent, unfenced, failures>>

To(at) == cleanup' = [cleanup EXCEPT !.at = at, !.todo = {}]

CleanupFails ==
    /\ cleanup # NoCleanup /\ failures < MaxFailures /\ failures' = failures + 1 /\ cleanup' = NoCleanup
    /\ UNCHANGED <<mode, fenceVars, admitted, window, computeVars, keys, account, op, intent, purge, unfenced>>

CleanupDrain ==
    /\ cleanup.at = "drain" /\ Settled /\ To("keys")
    /\ UNCHANGED <<mode, fenceVars, admitted, window, computeVars, keys, account, op, intent, purge, unfenced, failures>>

\* Mutant of revokeKeys: the revocation is saved as done before the journal acknowledged it.
RevokeUnacknowledged ==
    /\ cleanup.at = "keys" /\ keys' = "revoked" /\ purge' = [purge EXCEPT !.revoked = TRUE]
    /\ IF purge.state = "drained" THEN cleanup' = NoCleanup ELSE To("cancel")
    /\ UNCHANGED <<mode, fenceVars, admitted, window, computeVars, account, op, intent, unfenced, failures>>

\* revokeKeys: skipped once saved; the revocations are acknowledged before they are.
revokeKeys ==
    /\ cleanup.at = "keys"
    /\ \/ /\ ~purge.revoked /\ keys = "active" /\ keys' = "revoked" /\ UNCHANGED <<purge, cleanup>>
       \/ /\ purge.revoked \/ keys # "active"
          /\ keys' = IF purge.revoked THEN keys ELSE "acknowledged"
          /\ purge' = [purge EXCEPT !.revoked = TRUE]
          /\ IF purge.state = "drained" THEN cleanup' = NoCleanup
             ELSE cleanup' = [cleanup EXCEPT !.at = "cancel", !.todo = Nonterminal]
    /\ UNCHANGED <<mode, fenceVars, admitted, window, computeVars, account, op, intent, unfenced, failures>>

\* cancelWorkspaces: a preserve is given up too.
cancelWorkspaces(w) ==
    /\ cleanup.at = "cancel" /\ w \in cleanup.todo
    /\ cleanup' = [cleanup EXCEPT !.todo = @ \ {w}]
    /\ IF space[w] = "ended" THEN UNCHANGED <<space, job>> ELSE finalize(w)
    /\ UNCHANGED <<mode, fenceVars, admitted, window, object, warm, spare, keys, account, op, intent, purge, unfenced, failures>>

CleanupWarm ==
    /\ cleanup.at = "cancel" /\ cleanup.todo = {} /\ job = {} /\ To("check")
    /\ warm' = (IF warm = "live" THEN "failed" ELSE warm) /\ spare' = FALSE
    /\ UNCHANGED <<mode, fenceVars, admitted, window, space, job, object, keys, account, op, intent, purge, unfenced, failures>>

CleanupCheck ==
    /\ cleanup.at = "check" /\ zeroCompute /\ To("save")
    /\ UNCHANGED <<mode, fenceVars, admitted, window, computeVars, keys, account, op, intent, purge, unfenced, failures>>

CleanupSave ==
    /\ cleanup.at = "save" /\ cleanup' = NoCleanup /\ savePurgeState([purge EXCEPT !.state = "drained"])
    /\ UNCHANGED <<mode, fenceVars, admitted, window, computeVars, keys, account, op, intent, unfenced, failures>>

-----------------------------------------------------------------------------
MaintenanceNext ==
    \/ startPocketCoderServer \/ startPurgingController \/ Die
    \/ \E k \in {"create", "tick", "warm", "key"} : admit(k) \/ Settle(k)
    \/ \E w \in Place : JobEnds(w) \/ ControlExit(w) \/ suspend(w) \/ cancelWorkspaces(w)
    \/ run \/ settle \/ CloseWindow
    \/ \E k \in {"suspend", "resume"} : begin(k)
    \/ OperationFails \/ drain \/ retryPreserves \/ drainWarm \/ CheckCompute \/ save
    \/ Condemn \/ perform \/ CleanupFails \/ CleanupDrain \/ revokeKeys \/ CleanupWarm \/ CleanupCheck \/ CleanupSave

-----------------------------------------------------------------------------
(* Properties *)

\* A backup captures with no admitted mutation running and no launch of one still in flight; only control
\* traffic goes on (Maintenance.run, settle).
CaptureIsQuiet == window = "capturing" => admitted = {} /\ Launching = {}

\* An account saved as suspended owns no compute, in no row and not at the provider, until a resume is saved,
\* whatever crashed in between (createAccountLifecycle, accountState).
SuspendedHasNoCompute == account.state \in {"suspended", "resuming"} => zeroCompute

\* A purge saved as drained leaves no workspace, no runtime of one and no key, and its revocations were acknowledged; it
\* leaves no warm runtime either, unless a resume that was under way lowered the fence of the purge and let the timers fill
\* the pool again (createPurgeCleanup, account-lifecycle.ts run).
DrainedHasNoAuthority ==
    purge.state = "drained" =>
        /\ Nonterminal = {} /\ object = {} /\ keys = "acknowledged"
        /\ (warm = "live" \/ spare) => unfenced

=============================================================================
