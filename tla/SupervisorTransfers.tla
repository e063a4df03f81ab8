------------------------- MODULE SupervisorTransfers -------------------------
(***************************************************************************)
(* The checkpoint transfers of a supervisor.  It holds at most one: a      *)
(* prepared archive that waits for its upload grant, or a restore.  Each   *)
(* has a deadline timer, and is cancelled when the connection ends, the    *)
(* deadline passes or the supervisor shuts down; the cancellation waits    *)
(* for the task it saw and releases the transfer's files while another     *)
(* task of the same transfer may still be running.  The server's side of   *)
(* the archive request is external.                                        *)
(***************************************************************************)
EXTENDS Naturals, FiniteSets

CONSTANTS
    MaxTransfers,   \* transfers of a behaviour
    MaxTroubles     \* bound on disconnects, deadlines and failures

Transfer == 1..MaxTransfers
Preparing == {"quiesce", "hook", "scratch", "capture", "report", "prepareFailed"}
Uploading == {"put", "answered", "refused", "uploadFailed"}
Restoring == {"fetch", "extract", "publish", "close", "tell", "restoreFailed"}

VARIABLES
    active,      \* the active transfer, 0 for none
    begun,       \* transfers begun
    stage,       \* where each transfer's task is
    grants,      \* transfers whose upload grant arrived
    abort,       \* transfers whose signal is aborted
    late,        \* transfers past their deadline
    closing,     \* the memoized release: "none", "closing", "done" or "failed"
    scratch,     \* transfers whose scratch directory exists
    opened,      \* transfers whose captured files, or destination, are open
    cancels,     \* cancellations under way: [id, task] with the task each waits for
    sent,        \* what each transfer reported
    stored,      \* archives the server took
    published,   \* restores whose content is in place
    sessions,    \* terminals and proxied requests are open
    writer,      \* the agent runs
    hooks,       \* checkpoint hooks nobody waits for any more
    lowered,     \* history: transfers during which an earlier one's hook let sessions in again
    quiescing, shutting, connected, troubles

hookVars == <<writer, hooks, lowered>>
runVars == <<active, begun, stage, grants, abort, late, closing, cancels>>
fileVars == <<scratch, opened, published>>
transferVars == <<runVars, fileVars, sent, stored, sessions, hookVars, quiescing, shutting, connected, troubles>>

TransferInit ==
    /\ active = 0 /\ begun = 0 /\ stage = [i \in Transfer |-> "none"] /\ grants = {} /\ abort = {} /\ late = {}
    /\ closing = [i \in Transfer |-> "none"] /\ scratch = {} /\ opened = {} /\ cancels = {}
    /\ sent = [i \in Transfer |-> {}] /\ stored = {} /\ published = {}
    /\ sessions = TRUE /\ writer = TRUE /\ hooks = {} /\ lowered = {} /\ quiescing = FALSE /\ shutting = FALSE /\ connected = TRUE /\ troubles = 0

Trouble == troubles < MaxTroubles /\ troubles' = troubles + 1
At(i, s) == stage' = [stage EXCEPT ![i] = s]
\* check: the signal, the slot and the clock.
check(i) == i \notin abort /\ active = i /\ i \notin late
\* send: false when the connection is down; a report that is not sent is not made.
Send(i, what) == sent' = IF connected THEN [sent EXCEPT ![i] = @ \cup {what}] ELSE sent
\* Several awaits of a task may reject for reasons of their own.
Step(i, to, failure) == \/ check(i) /\ At(i, to) /\ UNCHANGED troubles
                        \/ ~check(i) /\ At(i, failure) /\ UNCHANGED troubles
                        \/ Trouble /\ At(i, failure)

-----------------------------------------------------------------------------
begin(s) ==
    /\ active = 0 /\ begun < MaxTransfers /\ connected /\ ~shutting
    /\ active' = begun + 1 /\ begun' = begun + 1 /\ At(begun + 1, s)
    /\ UNCHANGED <<grants, abort, late, closing, cancels, fileVars, sent, stored, troubles, sessions, hookVars, quiescing, shutting, connected>>
prepare == begin("quiesce")
\* quiesceArchive: new sessions are refused and the open ones closed, then the hook stops the writers.
quiesce(i) ==
    /\ stage[i] = "quiesce" /\ quiescing' = TRUE /\ sessions' = FALSE /\ At(i, "hook")
    /\ lowered' = lowered \ {i}
    /\ UNCHANGED <<active, begun, grants, abort, late, closing, cancels, fileVars, sent, stored, writer, hooks, shutting, connected, troubles>>
\* prepareCheckpoint: a failed hook lets a running agent go on; untilAborted leaves an aborted one to itself.
hook(i) ==
    /\ stage[i] = "hook"
    /\ \/ i \notin abort /\ At(i, "scratch") /\ writer' = FALSE /\ UNCHANGED <<hooks, lowered, quiescing, troubles>>
       \/ i \notin abort /\ Trouble /\ At(i, "prepareFailed") /\ quiescing' \in {TRUE, ~writer} /\ UNCHANGED hookVars
       \/ i \in abort /\ At(i, "prepareFailed") /\ hooks' = hooks \cup {i} /\ UNCHANGED <<writer, lowered, quiescing, troubles>>
    /\ UNCHANGED <<active, begun, grants, abort, late, closing, cancels, fileVars, sent, stored, sessions, shutting, connected>>
\* It ends whichever transfer is active by then, and its failure lets sessions in again all the same.
abandonedHook(i) ==
    /\ i \in hooks /\ hooks' = hooks \ {i}
    /\ \/ writer' = FALSE /\ UNCHANGED <<quiescing, lowered>>
       \/ writer /\ quiescing' = FALSE /\ lowered' = lowered \cup ({active} \ {0, i}) /\ UNCHANGED writer
    /\ UNCHANGED <<runVars, fileVars, sent, stored, sessions, shutting, connected, troubles>>
\* A terminal or a proxied request.
openSession ==
    /\ ~quiescing /\ ~shutting /\ connected /\ ~sessions /\ sessions' = TRUE
    /\ UNCHANGED <<runVars, fileVars, sent, stored, hookVars, quiescing, shutting, connected, troubles>>
\* mkdtemp is done before the check that may refuse.
makeScratch(i) ==
    /\ stage[i] = "scratch" /\ Step(i, "capture", "prepareFailed")
    /\ (scratch' = scratch \cup {i} \/ (stage'[i] = "prepareFailed" /\ UNCHANGED scratch))
    /\ UNCHANGED <<active, begun, grants, abort, late, closing, cancels, opened, published, sent, stored, sessions, hookVars, quiescing, shutting, connected>>
\* prepareFilesystemCheckpointUpload closes what it opened when it fails.
capture(i) ==
    /\ stage[i] = "capture" /\ Step(i, "report", "prepareFailed")
    /\ opened' = IF stage'[i] = "report" THEN opened \cup {i} ELSE opened
    /\ UNCHANGED <<active, begun, grants, abort, late, closing, cancels, scratch, published, sent, stored, sessions, hookVars, quiescing, shutting, connected>>
reportPrepared(i) ==
    /\ stage[i] = "report"
    /\ IF check(i) /\ connected THEN At(i, "ready") /\ Send(i, "prepared") ELSE At(i, "prepareFailed") /\ UNCHANGED sent
    /\ UNCHANGED <<active, begun, grants, abort, late, closing, cancels, fileVars, stored, troubles, sessions, hookVars, quiescing, shutting, connected>>

\* upload: a second grant is ignored; the grant waits for the prepare task.
grant(i) ==
    /\ active = i /\ i \notin grants /\ stage[i] \in Preparing \cup {"ready"} /\ connected /\ grants' = grants \cup {i}
    /\ UNCHANGED <<active, begun, stage, abort, late, closing, cancels, fileVars, sent, stored, troubles, sessions, hookVars, quiescing, shutting, connected>>
upload(i) ==
    /\ i \in grants /\ stage[i] = "ready"
    /\ At(i, IF i \notin opened \/ active # i THEN "done" ELSE IF check(i) THEN "put" ELSE "uploadFailed")
    /\ UNCHANGED <<active, begun, grants, abort, late, closing, cancels, fileVars, sent, stored, troubles, sessions, hookVars, quiescing, shutting, connected>>
\* The PUT: the server takes the whole archive or refuses it; the answer may be lost, the body cut by the signal or a closed file.
put(i) ==
    /\ stage[i] = "put"
    /\ \/ i \in opened /\ i \notin abort /\ At(i, "answered") /\ stored' = stored \cup {i} /\ UNCHANGED troubles
       \/ Trouble /\ At(i, "uploadFailed") /\ (stored' = stored \/ (i \in opened /\ stored' = stored \cup {i}))
       \/ (i \in abort \/ i \notin opened) /\ At(i, "uploadFailed") /\ UNCHANGED <<stored, troubles>>
    /\ UNCHANGED <<active, begun, grants, abort, late, closing, cancels, fileVars, sent, sessions, hookVars, quiescing, shutting, connected>>
reportUpload(i) ==
    /\ stage[i] \in {"answered", "uploadFailed"}
    /\ IF stage[i] = "answered" /\ check(i) THEN Send(i, "uploaded") /\ UNCHANGED abort
       ELSE Send(i, "uploadFailed") /\ abort' = abort \cup {i}
    /\ At(i, "release")
    /\ UNCHANGED <<active, begun, grants, late, closing, cancels, fileVars, stored, troubles, sessions, hookVars, quiescing, shutting, connected>>

\* restore: fetch and extract into the destination, publish it, close it, tell.
restore == begin("fetch")
receive(i) ==
    /\ stage[i] = "fetch" /\ Step(i, "extract", "restoreFailed")
    /\ (scratch' = scratch \cup {i} \/ (stage'[i] = "restoreFailed" /\ UNCHANGED scratch))
    /\ UNCHANGED <<active, begun, grants, abort, late, closing, cancels, opened, published, sent, stored, sessions, hookVars, quiescing, shutting, connected>>
extract(i) ==
    /\ stage[i] = "extract" /\ Step(i, "publish", "restoreFailed")
    /\ opened' = IF stage'[i] = "publish" THEN opened \cup {i} ELSE opened
    /\ UNCHANGED <<active, begun, grants, abort, late, closing, cancels, scratch, published, sent, stored, sessions, hookVars, quiescing, shutting, connected>>
publish(i) ==
    /\ stage[i] = "publish" /\ Step(i, "close", "restoreFailed")
    /\ published' = IF stage'[i] = "close" THEN published \cup {i} ELSE published
    /\ UNCHANGED <<active, begun, grants, abort, late, closing, cancels, scratch, opened, sent, stored, sessions, hookVars, quiescing, shutting, connected>>
closeDownload(i) ==
    /\ stage[i] = "close" /\ Step(i, "tell", "restoreFailed")
    /\ opened' = IF stage'[i] = "tell" THEN opened \ {i} ELSE opened
    /\ UNCHANGED <<active, begun, grants, abort, late, closing, cancels, scratch, published, sent, stored, sessions, hookVars, quiescing, shutting, connected>>
reportInstalled(i) ==
    /\ stage[i] = "tell"
    /\ IF check(i) /\ connected THEN At(i, "release") /\ Send(i, "installed") ELSE At(i, "restoreFailed") /\ UNCHANGED sent
    /\ UNCHANGED <<active, begun, grants, abort, late, closing, cancels, fileVars, stored, troubles, sessions, hookVars, quiescing, shutting, connected>>
\* The catch of a prepare or a restore; download.close in the finally removes what was not published.
fail(i) ==
    /\ stage[i] \in {"prepareFailed", "restoreFailed"}
    /\ Send(i, stage[i]) /\ At(i, "release") /\ opened' = IF stage[i] = "restoreFailed" THEN opened \ {i} ELSE opened
    /\ UNCHANGED <<active, begun, grants, abort, late, closing, cancels, scratch, published, stored, troubles, sessions, hookVars, quiescing, shutting, connected>>

-----------------------------------------------------------------------------
\* release: once per transfer; everyone waits for the same promise.
startRelease(i) == closing' = [closing EXCEPT ![i] = IF @ = "none" THEN "closing" ELSE @]
KeepsScratch(i) ==
    /\ closing[i] = "closing" /\ opened' = opened \ {i} /\ closing' = [closing EXCEPT ![i] = "done"]
    /\ active' = (IF active = i THEN 0 ELSE active) /\ UNCHANGED <<scratch, troubles>>
released(i) ==
    /\ closing[i] = "closing"
    /\ opened' = opened \ {i}
    /\ \/ scratch' = scratch \ {i} /\ closing' = [closing EXCEPT ![i] = "done"]
          /\ active' = (IF active = i THEN 0 ELSE active) /\ UNCHANGED troubles
       \/ i \in scratch /\ Trouble /\ closing' = [closing EXCEPT ![i] = "failed"] /\ UNCHANGED <<active, scratch>>
release(i) ==
    /\ released(i)
    /\ UNCHANGED <<begun, stage, grants, abort, late, cancels, published, sent, stored, sessions, hookVars, quiescing, shutting, connected>>
finishTask(i) ==
    /\ stage[i] = "release"
    /\ IF closing[i] = "none" THEN startRelease(i) /\ UNCHANGED stage
       ELSE closing[i] \in {"done", "failed"} /\ At(i, "done") /\ UNCHANGED closing
    /\ UNCHANGED <<active, begun, grants, abort, late, cancels, fileVars, sent, stored, troubles, sessions, hookVars, quiescing, shutting, connected>>

\* cancel: abort, wait for the task seen now, release.  A prepare that is over is no longer waited for.
Cancel == IF active = 0 THEN UNCHANGED <<abort, cancels>>
          ELSE /\ abort' = abort \cup {active}
               /\ cancels' = cancels \cup {[id |-> active, task |-> IF stage[active] \in Preparing \cup {"ready"} THEN "prepare" ELSE "other"]}
\* A prepare's task covers its own release; at "ready" it is over.
TaskOver(c) == stage[c.id] = "done" \/ (c.task = "prepare" /\ stage[c.id] \in {"ready"} \cup Uploading)
cancelled(c) ==
    /\ c \in cancels /\ TaskOver(c)
    /\ IF closing[c.id] = "none" THEN startRelease(c.id) /\ UNCHANGED cancels
       ELSE closing[c.id] \in {"done", "failed"} /\ cancels' = cancels \ {c} /\ UNCHANGED closing
    /\ UNCHANGED <<active, begun, stage, grants, abort, late, fileVars, sent, stored, troubles, sessions, hookVars, quiescing, shutting, connected>>
onDisconnect ==
    /\ connected /\ Trouble /\ connected' = FALSE /\ sessions' = FALSE /\ Cancel
    /\ UNCHANGED <<active, begun, stage, grants, late, closing, fileVars, sent, stored, hookVars, quiescing, shutting>>
reconnect ==
    /\ ~connected /\ ~shutting /\ connected' = TRUE
    /\ UNCHANGED <<runVars, fileVars, sent, stored, sessions, hookVars, quiescing, shutting, troubles>>
\* expire: the clock passes the deadline, then the timer fires, unless the release cleared it.
deadline(i) ==
    /\ active = i /\ i \notin late /\ Trouble /\ late' = late \cup {i}
    /\ UNCHANGED <<active, begun, stage, grants, abort, closing, cancels, fileVars, sent, stored, sessions, hookVars, quiescing, shutting, connected>>
expire(i) ==
    /\ i \in late /\ active = i /\ closing[i] = "none" /\ i \notin abort /\ Cancel
    /\ UNCHANGED <<active, begun, stage, grants, late, closing, fileVars, sent, stored, sessions, hookVars, quiescing, shutting, connected, troubles>>
\* gracefulShutdown.
shutdown ==
    /\ ~shutting /\ shutting' = TRUE /\ quiescing' = TRUE /\ sessions' = FALSE /\ Cancel
    /\ UNCHANGED <<active, begun, stage, grants, late, closing, fileVars, sent, stored, hookVars, connected, troubles>>

TransferNext ==
    \/ prepare \/ restore \/ onDisconnect \/ reconnect \/ shutdown \/ openSession
    \/ \E i \in Transfer : quiesce(i) \/ hook(i) \/ abandonedHook(i) \/ makeScratch(i) \/ capture(i) \/ reportPrepared(i) \/ grant(i) \/ upload(i) \/ put(i)
           \/ reportUpload(i) \/ receive(i) \/ extract(i) \/ publish(i) \/ closeDownload(i) \/ reportInstalled(i) \/ fail(i)
           \/ release(i) \/ finishTask(i) \/ deadline(i) \/ expire(i)
    \/ \E c \in cancels : cancelled(c)

-----------------------------------------------------------------------------
\* What the supervisor reports about a transfer is so, and it keeps nothing of a transfer it let go.  An archive reported
\* uploaded is with the server, a restore reported installed is published, and neither is also reported failed; a transfer that
\* was released has no scratch directory and no open file, even when it was cancelled while its upload began
\* (supervisor-transfers.ts cancel, upload), so that two transfers never hold files at once; and an archive is offered only with
\* the agent stopped and terminals and proxied requests closed, unless the failing hook of an earlier, aborted transfer let
\* them in again after this one had closed them (checkpoint-coordinator.ts setQuiescing(false)).
TransfersAreExact ==
    /\ \A i \in Transfer :
          /\ "uploaded" \in sent[i] => i \in stored /\ "uploadFailed" \notin sent[i]
          /\ "installed" \in sent[i] => i \in published /\ i \notin opened /\ "restoreFailed" \notin sent[i]
          /\ ("prepared" \in sent[i] /\ active = i) => ~writer /\ (sessions => i \in lowered)
          /\ closing[i] = "done" => i \notin scratch /\ i \notin opened
          /\ stage[i] = "done" => closing[i] # "none"
    /\ Cardinality(scratch \cup opened) <= 1
=============================================================================
