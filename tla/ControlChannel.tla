----------------------------- MODULE ControlChannel -----------------------------
(***************************************************************************)
(* The control channel of one workspace: the supervisor that runs in the   *)
(* workspace, its web sockets, the server's pipeline of each socket and    *)
(* the hub that names the one connection that may speak for the workspace. *)
(*                                                                         *)
(* A socket is a connection number.  The server handles the frames of a    *)
(* socket one after the other, but every await of a handler is a step of   *)
(* its own, so the handlers of two sockets, the close callbacks and the    *)
(* finalizer of the workspace interleave.  A handler works with the row it *)
(* read in its first step (job.row).                                       *)
(***************************************************************************)
EXTENDS Naturals, Sequences, FiniteSets

CONSTANTS
    MaxSockets,   \* bound on the sockets a supervisor opens
    MaxFrames,    \* bound on the frames of a socket that wait at its other end
    MaxEvents     \* bound on lost sockets, cancellations and requests of the server

VARIABLES
    kind,    \* what is launched: a restore, with a source credential, a waiting runtime,
             \* a restricted network, required services
    row,     \* the workspace's row and its setup lease
    hub,     \* the connection of the hub, 0 for none
    conn,    \* the server's and the transport's state of each socket
    up,      \* frames of the supervisor that wait for the server's pipeline, per socket
    down,    \* frames of the server that wait for the supervisor, per socket
    sup,     \* the supervisor
    ending,  \* a finalizer has ended the row and not yet closed the hub
    events   \* lost sockets, cancellations and requests so far

chVars == <<kind, row, hub, conn, up, down, sup, ending, events>>

Sockets == 1..MaxSockets
Event == events < MaxEvents /\ events' = events + 1
Waits == {"relay", "checkpoint"}   \* attachments and archives wait like these
NoJob == [frame |-> "none", row |-> [state |-> "none"]]
NewSocket ==
    [live |-> FALSE, seen |-> FALSE, told |-> FALSE, pc |-> "none", mode |-> "none", epoch |-> 0,
     registered |-> FALSE, harness |-> FALSE, installed |-> FALSE, waits |-> {}, job |-> NoJob]

Plain == [restore |-> FALSE, source |-> FALSE, waiting |-> FALSE, restricted |-> FALSE, services |-> FALSE]
Kinds == {[Plain EXCEPT !.source = TRUE], [Plain EXCEPT !.restore = TRUE],
          [Plain EXCEPT !.waiting = TRUE], [Plain EXCEPT !.services = TRUE, !.restricted = TRUE]}

ChInit ==
    /\ kind \in Kinds
    /\ row = [state |-> "provisioning", epoch |-> 0, away |-> FALSE, healthy |-> FALSE, network |-> FALSE,
              lease |-> "none", resolved |-> FALSE, prepared |-> FALSE]
    /\ events = 0
    /\ hub = 0
    /\ conn = [c \in Sockets |-> NewSocket]
    /\ up = [c \in Sockets |-> <<>>] /\ down = [c \in Sockets |-> <<>>]
    /\ sup = [socket |-> 0, credential |-> FALSE, exec |-> FALSE, step |-> "dial", started |-> FALSE,
              installed |-> FALSE, quiet |-> FALSE, reported |-> FALSE]
    /\ ending = FALSE

-----------------------------------------------------------------------------
(* Frames *)

\* AgentConnection.send: a frame of the supervisor; it is lost when its socket is gone.
Sends(q, c, frames) == IF c # 0 /\ conn[c].live THEN [q EXCEPT ![c] = @ \o frames] ELSE q
Room(q, c) == c # 0 => Len(q[c]) < MaxFrames

\* hub.send: a frame of the server to a connection.
HubSends(c, frame) == down' = Sends(down, c, <<frame>>)

\* hub.dropPending: everybody who waits for an answer over the connection is answered "unreachable".
dropPending(f, c) == IF c = 0 THEN f ELSE [f EXCEPT ![c].waits = {}]

-----------------------------------------------------------------------------
(* The row: the scheduler's beginTermination and finalize, as the handlers and the sweep call them *)

Live == {"provisioning", "connected", "ready", "preserving"}

\* beginTermination: the row moves to terminating and a registered connection is told to shut down.
beginTermination ==
    IF row.state \in Live
    THEN /\ row' = [row EXCEPT !.state = "terminating"]
         /\ down' = IF hub # 0 /\ conn[hub].registered THEN Sends(down, hub, <<"shutdown">>) ELSE down
    ELSE UNCHANGED <<row, down>>

\* finalize: the provider is stopped, which ends the supervisor, then the row ends; hub.close follows.
finalize ==
    IF row.state = "ended" THEN UNCHANGED <<row, sup, ending>>
    ELSE /\ row' = [row EXCEPT !.state = "ended"]
         /\ sup' = [sup EXCEPT !.step = "gone"]
         /\ ending' = TRUE

\* hub.close: the hub forgets the connection, answers its waiters and closes its socket.
CloseHub ==
    /\ ending
    /\ ending' = FALSE /\ hub' = 0
    /\ conn' = IF hub = 0 THEN conn ELSE [dropPending(conn, hub) EXCEPT ![hub].live = FALSE]
    /\ UNCHANGED <<events, kind, row, up, down, sup>>

\* A caller, the deadline, the idle sweep or a lost provider ends the workspace.
Terminate ==
    /\ Event /\ row.state \in Live
    /\ beginTermination
    /\ UNCHANGED <<kind, hub, conn, up, sup, ending>>

\* The finalizer of a terminating workspace, or of one whose supervisor exited.
Finalize ==
    /\ row.state = "terminating" \/ (row.state \in Live /\ sup.step = "gone")
    /\ finalize
    /\ UNCHANGED <<events, kind, hub, conn, up, down>>

-----------------------------------------------------------------------------
(* Authentication and registration of a socket *)

At(c, pc) == conn[c].pc = pc
Goto(c, pc) == conn' = [conn EXCEPT ![c].pc = pc]

\* closeProtocol: the server closes the socket; a refused registration leaves the pipeline without a connection.
Refused(f, c) ==
    [f EXCEPT ![c] = [NewSocket EXCEPT !.pc = "refused", !.seen = TRUE, !.registered = f[c].registered, !.waits = f[c].waits]]
Refuse(c) == conn' = Refused(conn, c)

validRegistration == row.state = "provisioning"
validReconnect == row.state \in {"connected", "ready", "preserving", "terminating"}

\* agentConnectValidator: the upgrade is refused or the supervisor's onopen sends its registration.
Authenticate(c) ==
    /\ At(c, "dial")
    /\ IF IF conn[c].mode = "register" THEN validRegistration ELSE validReconnect
       THEN Goto(c, "open") /\ up' = Sends(up, c, <<"registered">>)
       ELSE Refuse(c) /\ UNCHANGED up
    /\ UNCHANGED <<events, kind, row, hub, down, sup, ending>>

\* A restore cannot be resumed over a mount that its setup may have changed.
interruptedRestore(c) == conn[c].mode = "reconnect" /\ kind.restore /\ row.state = "connected"

\* registerConnection, its checks: the row is read and the epoch of the connection follows from it.
StartRegistration(c) ==
    /\ At(c, "open") /\ up[c] # <<>> /\ Head(up[c]) = "registered"
    /\ up' = [up EXCEPT ![c] = Tail(@)]
    /\ \/ /\ row.state = "ended" \/ (conn[c].mode = "register" /\ row.state # "provisioning")
          /\ Refuse(c) /\ UNCHANGED <<row, down>>
       \/ /\ row.state # "ended" /\ interruptedRestore(c)
          /\ beginTermination
          /\ Refuse(c)
       \/ /\ row.state # "ended" /\ (conn[c].mode = "register" => row.state = "provisioning")
          /\ ~interruptedRestore(c)
          /\ conn' = [conn EXCEPT ![c].pc = conn[c].mode, ![c].epoch = row.epoch + 1]
          /\ UNCHANGED <<row, down>>
    /\ UNCHANGED <<events, kind, hub, sup, ending>>

\* sourceCredentialFor: the setup lease is issued, or the issuer fails and the workspace ends.
IssueSource(c) ==
    /\ At(c, "register")
    /\ \/ /\ Goto(c, "commit")
          /\ row' = [row EXCEPT !.lease = IF kind.source THEN "issued" ELSE @]
          /\ UNCHANGED <<sup, ending>>
       \/ kind.source /\ finalize /\ Refuse(c)
    /\ UNCHANGED <<events, kind, hub, up, down>>

\* store.transition to connected: the registration is used once; a reconnect only moves the epoch.
CommitEpoch(c) ==
    /\ At(c, "commit") \/ At(c, "reconnect")
    /\ IF At(c, "commit") /\ row.state # "provisioning"
       THEN Refuse(c) /\ UNCHANGED row
       ELSE /\ row' = [row EXCEPT !.epoch = conn[c].epoch, !.away = FALSE,
                                  !.state = IF At(c, "commit") THEN "connected" ELSE @]
            /\ Goto(c, "attach")
    /\ UNCHANGED <<events, kind, hub, up, down, sup, ending>>

\* Mutant of attach: the waiters of the connection that is replaced are left to their timers.
AttachOnly(c) ==
    /\ At(c, "attach")
    /\ conn' = [(IF hub = 0 THEN conn ELSE [conn EXCEPT ![hub].live = FALSE])
                  EXCEPT ![c].pc = "attached", ![c].registered = TRUE]
    /\ hub' = c
    /\ UNCHANGED <<events, kind, row, up, down, sup, ending>>

\* hub.attach: the connection takes the hub, the one before it loses its waiters and its socket.
attach(c) ==
    /\ At(c, "attach")
    /\ conn' = [(IF hub = 0 THEN conn ELSE [dropPending(conn, hub) EXCEPT ![hub].live = FALSE])
                  EXCEPT ![c].pc = "attached", ![c].registered = TRUE]
    /\ hub' = c
    /\ UNCHANGED <<events, kind, row, up, down, sup, ending>>

activeConnectionWorkspace(c) ==
    row.epoch = conn[c].epoch /\ row.state \in {"connected", "ready"} /\ hub = c

\* hub.detach: only the connection of the hub leaves it.
detach(f, c) == IF hub = c THEN dropPending(f, c) ELSE f
detached(c) == IF hub = c THEN 0 ELSE hub

\* workspaceCredentialsFor, then the authority of the connection is read again; a failure ends the workspace.
DeliverCredentials(c) ==
    /\ At(c, "attached")
    /\ \/ /\ IF activeConnectionWorkspace(c) THEN Goto(c, "grant") ELSE Refuse(c)
          /\ UNCHANGED <<row, hub, sup, ending>>
       \/ /\ finalize
          /\ hub' = detached(c)
          /\ conn' = Refused(detach(conn, c), c)
    /\ UNCHANGED <<events, kind, up, down>>

\* restoreExec and registered_ack: the pipeline has a connection from here on; a socket that
\* closed meanwhile is detached at once.
Acknowledge(c) ==
    /\ At(c, "grant") /\ Room(down, c)
    /\ \/ /\ ~(kind.restore /\ row.state # "ready" /\ hub # c)
          /\ conn' = [conn EXCEPT ![c].pc = "up"]
          /\ HubSends(c, IF conn[c].mode = "register" THEN "ack_credential" ELSE "ack")
          /\ UNCHANGED hub
       \/ /\ kind.restore /\ row.state # "ready"      \* no restore grant
          /\ hub' = detached(c)
          /\ conn' = Refused(detach(conn, c), c)
          /\ UNCHANGED down
    /\ UNCHANGED <<events, kind, row, up, sup, ending>>

-----------------------------------------------------------------------------
(* Loss and close of a socket *)

\* The network drops the socket: frames that have not arrived are lost.
Lose(c) ==
    /\ Event /\ conn[c].live
    /\ conn' = [conn EXCEPT ![c].live = FALSE]
    /\ \E n \in {0, Len(up[c])} : up' = [up EXCEPT ![c] = SubSeq(@, 1, n)]
    /\ \E n \in {0, Len(down[c])} : down' = [down EXCEPT ![c] = SubSeq(@, 1, n)]
    /\ UNCHANGED <<kind, row, hub, sup, ending>>

\* detachConnection, its first part: hub.detach; only the connection of the hub goes on to the row.
Leave(c) ==
    /\ hub' = detached(c)
    /\ conn' = [detach(conn, c) EXCEPT ![c].seen = TRUE, ![c].registered = FALSE,
                                       ![c].mode = IF hub = c THEN "was_live" ELSE "none"]

\* onClose: a pipeline that has no connection yet detaches when its registration is done.
onClose(c) ==
    /\ ~conn[c].live /\ ~conn[c].seen /\ conn[c].pc \notin {"none", "dial"}
    /\ IF conn[c].pc \in {"up", "work", "check", "revoked"} THEN Leave(c)
       ELSE conn' = [conn EXCEPT ![c].seen = TRUE] /\ UNCHANGED hub
    /\ UNCHANGED <<events, kind, row, up, down, sup, ending>>

\* agentWsEvents, after a registration whose socket closed meanwhile.
LateLeave(c) ==
    /\ At(c, "up") /\ conn[c].seen /\ conn[c].registered
    /\ Leave(c)
    /\ UNCHANGED <<events, kind, row, up, down, sup, ending>>

\* detachConnection, its second part: a restore fails, another workspace starts its disconnect clock.
MarkAway(c) ==
    /\ conn[c].mode = "was_live"
    /\ conn' = [conn EXCEPT ![c].mode = "none"]
    /\ IF kind.restore /\ row.state = "connected" THEN beginTermination
       ELSE /\ row' = [row EXCEPT !.away = @ \/ row.state \notin {"ended", "terminating", "preserving"}]
            /\ UNCHANGED down
    /\ UNCHANGED <<events, kind, hub, up, sup, ending>>

-----------------------------------------------------------------------------
(* Frames of a connection *)

\* setupAuthorityClosed: the setup lease was delivered and is revoked.
setupAuthorityClosed == kind.source => row.lease = "revoked"

\* Mutant of restorePrepared: the installed archive alone makes a restore ready.
InstalledIsEnough == hub # 0 /\ conn[hub].installed

\* restorePrepared: what the connection the hub has now was told.
restorePrepared == hub # 0 /\ conn[hub].installed /\ (kind.waiting \/ conn[hub].harness)

\* maybeMarkReady, with the row its caller read.
mayBeReady(r) ==
    /\ kind.waiting => r.prepared
    /\ r.state = "connected" /\ setupAuthorityClosed
    /\ kind.restore => restorePrepared
    /\ (kind.services => r.healthy) /\ (kind.restricted => r.network)

\* handleConnectedFrame takes the next frame; the hub may have another connection by now.
Receive(c) ==
    /\ At(c, "up") /\ up[c] # <<>>
    /\ up' = [up EXCEPT ![c] = Tail(@)]
    /\ LET frame == Head(up[c]) IN
       conn' = [conn EXCEPT
           ![c].pc = IF hub = c /\ frame # "answer" THEN "work" ELSE @,
           ![c].job = IF hub = c /\ frame # "answer" THEN [frame |-> frame, row |-> row] ELSE @,
           ![c].harness = IF hub = c /\ frame \in {"running", "exited"} THEN frame = "running" ELSE @,
           ![c].waits = IF hub = c /\ frame = "answer" THEN {} ELSE @]    \* resolveRelay, resolveCheckpoint, pushAttachment
    /\ UNCHANGED <<events, kind, row, hub, down, sup, ending>>

Done(c) == conn' = [conn EXCEPT ![c].pc = "up", ![c].job = NoJob]
Check(c, r) == conn' = [conn EXCEPT ![c].pc = "check", ![c].job = [frame |-> conn[c].job.frame, row |-> r]]
Doing(c, frame) == At(c, "work") /\ conn[c].job.frame = frame
Read(c) == conn[c].job.row

\* handleServiceHealth, handleNetworkState and source_resolved write what they were told.
Report(c) ==
    /\ \/ /\ Doing(c, "health") /\ Read(c).state # "ended"
          /\ row' = [row EXCEPT !.healthy = TRUE]
          /\ Check(c, [Read(c) EXCEPT !.healthy = TRUE])
       \/ /\ Doing(c, "network") /\ Read(c).state # "ended"
          /\ row' = [row EXCEPT !.network = TRUE]
          /\ IF kind.waiting THEN Check(c, [Read(c) EXCEPT !.network = TRUE]) ELSE Done(c)
       \/ /\ Doing(c, "resolved")
          /\ row' = [row EXCEPT !.resolved = TRUE] /\ Done(c)
    /\ UNCHANGED <<events, kind, hub, up, down, sup, ending>>

\* handleProcessState: a running harness may make the workspace ready; an exit ends it.
ProcessState(c) ==
    /\ \/ /\ Doing(c, "running") /\ Read(c).state \notin {"ended", "preserving"} /\ ~kind.waiting
          /\ Check(c, Read(c)) /\ UNCHANGED <<row, sup, ending>>
       \/ /\ Doing(c, "exited") /\ Read(c).state \notin {"ended", "preserving"} /\ ~kind.waiting
          /\ finalize /\ Done(c)
       \/ Doing(c, "degraded") /\ Read(c).state # "ended" /\ finalize /\ Done(c)
    /\ UNCHANGED <<events, kind, hub, up, down>>

\* runtime_ready: markWorkspaceRuntimeReady accepts the current epoch only; the row is read again.
RuntimeReady(c) ==
    /\ Doing(c, "runtime_ready")
    /\ IF row.state = "connected" /\ row.epoch = conn[c].epoch
       THEN row' = [row EXCEPT !.prepared = TRUE] /\ Check(c, [row EXCEPT !.prepared = TRUE])
       ELSE Done(c) /\ UNCHANGED row
    /\ UNCHANGED <<events, kind, hub, up, down, sup, ending>>

\* handleCheckpointInstalled: the archive is installed on this connection; the hub is read before and after.
CheckpointInstalled(c) ==
    /\ Doing(c, "installed")
    /\ conn' = [conn EXCEPT ![c].installed = hub = c,
                            ![c].pc = IF hub = c THEN "check" ELSE "up",
                            ![c].job = IF hub = c THEN [frame |-> "installed", row |-> row] ELSE NoJob]
    /\ UNCHANGED <<events, kind, row, hub, up, down, sup, ending>>

\* A frame that its handler ignores for the row it read.
Ignored(c) ==
    /\ \/ Doing(c, "health") /\ Read(c).state = "ended"
       \/ Doing(c, "network") /\ Read(c).state = "ended"
       \/ Doing(c, "degraded") /\ Read(c).state = "ended"
       \/ Doing(c, "running") /\ (Read(c).state \in {"ended", "preserving"} \/ kind.waiting)
       \/ Doing(c, "exited") /\ (Read(c).state \in {"ended", "preserving"} \/ kind.waiting)
       \/ Doing(c, "setup_complete") /\ (Read(c).state # "connected" \/ hub # c)
    /\ Done(c)
    /\ UNCHANGED <<events, kind, row, hub, up, down, sup, ending>>

\* completeSourceSetup: the issuer revokes the setup lease, or does not confirm and the supervisor asks again.
RevokeSetup(c) ==
    /\ Doing(c, "setup_complete") /\ Read(c).state = "connected" /\ hub = c
    /\ \/ row' = [row EXCEPT !.lease = "revoked"] /\ Goto(c, "revoked")
       \/ row.lease # "revoked" /\ Done(c) /\ UNCHANGED row
    /\ UNCHANGED <<events, kind, hub, up, down, sup, ending>>

\* The second half of completeSourceSetup: state, hub and lease are read again before the answer.
AckSetup(c) ==
    /\ At(c, "revoked") /\ Room(down, c)
    /\ Done(c)
    /\ IF row.state = "connected" /\ hub = c /\ setupAuthorityClosed
       THEN HubSends(c, "setup_ack") ELSE UNCHANGED down
    /\ UNCHANGED <<events, kind, row, hub, up, sup, ending>>

\* maybeMarkReady: the transition is guarded by the state the row has now; a source that was not
\* resolved ends the workspace, a restore whose readiness does not settle ends it too.
maybeMarkReady(c) ==
    /\ At(c, "check") /\ Done(c)
    /\ \/ ~mayBeReady(Read(c)) /\ UNCHANGED <<row, hub, down, sup, ending>>
       \/ /\ mayBeReady(Read(c)) /\ kind.source /\ ~Read(c).resolved
          /\ finalize /\ UNCHANGED <<hub, down>>
       \/ /\ mayBeReady(Read(c)) /\ (kind.source => Read(c).resolved)
          /\ row' = [row EXCEPT !.state = IF @ = "connected" THEN "ready" ELSE @]
          /\ UNCHANGED <<hub, down, sup, ending>>
    /\ UNCHANGED <<events, kind, up>>

\* The restore could not be settled: the hub closes, then the workspace terminates without a frame.
restoreUnsettled(c) ==
    /\ At(c, "check") /\ mayBeReady(Read(c)) /\ kind.restore
    /\ conn' = [dropPending(conn, hub) EXCEPT ![hub].live = FALSE, ![c].pc = "up", ![c].job = NoJob]
    /\ hub' = 0
    /\ row' = [row EXCEPT !.state = IF @ \in Live THEN "terminating" ELSE @]
    /\ UNCHANGED <<events, kind, up, down, sup, ending>>

-----------------------------------------------------------------------------
(* Requests of the server over the hub's connection *)

\* bufferedRelay, prepareCheckpoint, attachments.open and next: the caller waits for an answer.
Request(w) ==
    /\ Event
    /\ hub # 0 /\ conn[hub].registered /\ w \notin conn[hub].waits /\ Room(down, hub)
    /\ w = "checkpoint" => row.state \in {"connected", "ready"}
    /\ row' = [row EXCEPT !.state = IF w = "checkpoint" THEN "preserving" ELSE @]
    /\ conn' = [conn EXCEPT ![hub].waits = @ \cup {w}]
    /\ HubSends(hub, IF w = "checkpoint" THEN "prepare" ELSE "request")
    /\ UNCHANGED <<kind, hub, up, sup, ending>>

\* The timer of a request: the caller is answered and the request is forgotten.
RequestTimeout(c) ==
    /\ conn[c].waits # {}
    /\ \E w \in conn[c].waits : conn' = [conn EXCEPT ![c].waits = @ \ {w}]
    /\ UNCHANGED <<events, kind, row, hub, up, down, sup, ending>>

-----------------------------------------------------------------------------
(* The supervisor *)

Running == sup.step \in {"run", "waiting"}
Stopped == sup.step \in {"stopping", "gone"}
Connected == sup.socket # 0 /\ ~conn[sup.socket].told

\* AgentConnection.connect: the registration secret first, the reconnect credential afterwards.
Connect(c) ==
    /\ ~Stopped /\ ~Connected
    /\ c = sup.socket + 1
    /\ sup.socket # 0 => sup.credential
    /\ sup' = [sup EXCEPT !.socket = c]
    /\ conn' = [conn EXCEPT ![c].live = TRUE, ![c].pc = "dial",
                            ![c].mode = IF sup.socket = 0 THEN "register" ELSE "reconnect"]
    /\ UNCHANGED <<events, kind, row, hub, up, down, ending>>

\* socket.onclose: without a reconnect credential the supervisor gives up.
Closed ==
    /\ sup.step # "gone" /\ Connected /\ ~conn[sup.socket].live /\ down[sup.socket] = <<>>
    /\ conn' = [conn EXCEPT ![sup.socket].told = TRUE]
    /\ sup' = [sup EXCEPT !.step = IF sup.credential THEN @ ELSE "gone",
                          !.quiet = @ /\ sup.step # "install"]
    /\ UNCHANGED <<events, kind, row, hub, up, down, ending>>

\* flushAndClose and exit: frames that are queued still arrive, then the socket closes with the process.
Exit ==
    /\ sup.step = "stopping"
    /\ sup' = [sup EXCEPT !.step = "gone"]
    /\ UNCHANGED <<events, kind, row, hub, conn, up, down, ending>>

\* The process has gone: its socket closes and nobody reads it.
HangUp ==
    /\ sup.step = "gone" /\ Connected
    /\ conn' = [conn EXCEPT ![sup.socket].live = FALSE, ![sup.socket].told = TRUE]
    /\ down' = [down EXCEPT ![sup.socket] = <<>>]
    /\ UNCHANGED <<events, kind, row, hub, up, sup, ending>>

SupSends(frames) == Room(up, sup.socket) /\ up' = Sends(up, IF Connected THEN sup.socket ELSE 0, frames)
Fails == sup' = [sup EXCEPT !.step = "stopping"] /\ SupSends(<<"exited">>)

\* registered_ack: the credential is kept; the first one starts the workspace, a later one repeats runtime_ready.
Registered ==
    /\ sup.socket # 0 /\ down[sup.socket] # <<>> /\ Head(down[sup.socket]) \in {"ack", "ack_credential"}
    /\ ~Stopped
    /\ down' = [down EXCEPT ![sup.socket] = Tail(@)]
    /\ sup' = [sup EXCEPT !.credential = TRUE, !.exec = TRUE,
                          !.step = IF @ = "dial" THEN "preflight" ELSE @]
    /\ IF sup.step = "waiting" THEN SupSends(<<"runtime_ready">>) ELSE UNCHANGED up
    /\ UNCHANGED <<events, kind, row, hub, conn, ending>>

\* preflightNetwork: the firewall answers, or the workspace reports it and stops.
Preflight ==
    /\ sup.step = "preflight"
    /\ \/ /\ sup' = [sup EXCEPT !.step = "install"]
          /\ IF kind.restricted THEN SupSends(<<"network">>) ELSE UNCHANGED up
       \/ kind.restricted /\ sup' = [sup EXCEPT !.step = "stopping"] /\ SupSends(<<"degraded">>)
    /\ UNCHANGED <<events, kind, row, hub, conn, down, ending>>

\* installRestoredCheckpoint: a connection that closes meanwhile cancels the download.
Install ==
    /\ sup.step = "install"
    /\ \/ ~kind.restore /\ sup' = [sup EXCEPT !.step = "setup"] /\ UNCHANGED up
       \/ /\ kind.restore /\ Connected
          /\ sup' = [sup EXCEPT !.step = "setup", !.installed = TRUE] /\ SupSends(<<"installed">>)
       \/ kind.restore /\ Fails
    /\ UNCHANGED <<events, kind, row, hub, conn, down, ending>>

\* prepareSourceSetup: setup steps, source bounds and the resolved commit; the credential then waits for its revocation.
Setup ==
    /\ sup.step = "setup"
    /\ \/ /\ sup' = [sup EXCEPT !.step = IF kind.source THEN "revocation" ELSE "start"]
          /\ IF kind.source THEN SupSends(<<"resolved">>) ELSE UNCHANGED up
       \/ /\ kind.source                   \* reportResolvedSource failed: nothing is sent
          /\ sup' = [sup EXCEPT !.step = "revocation"] /\ UNCHANGED up
       \/ Fails
    /\ UNCHANGED <<events, kind, row, hub, conn, down, ending>>

\* SetupCompletion.retry, every second until the answer or the expiry of the credential.
AskRevocation ==
    /\ sup.step = "revocation"
    /\ \/ /\ Connected /\ conn[sup.socket].job.frame # "setup_complete" /\ down[sup.socket] = <<>>   \* one at a time
          /\ SupSends(<<"setup_complete">>) /\ UNCHANGED sup
       \/ Fails
    /\ UNCHANGED <<events, kind, row, hub, conn, down, ending>>

\* startHarness or WaitingRuntime.startInfrastructure.
Start ==
    /\ sup.step = "start"
    /\ \/ /\ ~kind.waiting /\ sup' = [sup EXCEPT !.step = "run", !.started = TRUE] /\ SupSends(<<"running">>)
       \/ /\ kind.waiting /\ sup' = [sup EXCEPT !.step = "waiting", !.started = TRUE] /\ SupSends(<<"runtime_ready">>)
       \/ ~kind.waiting /\ Fails
    /\ UNCHANGED <<events, kind, row, hub, conn, down, ending>>

\* probeService: health is sent when it changes, also into a closed connection.
Probe ==
    /\ Running /\ ~sup.reported
    /\ sup' = [sup EXCEPT !.reported = TRUE]
    /\ SupSends(<<"health">>)
    /\ UNCHANGED <<events, kind, row, hub, conn, down, ending>>

\* The harness exits: a quiesced supervisor stays, another one reports and leaves.
HarnessExits ==
    /\ sup.step = "run"
    /\ sup' = [sup EXCEPT !.step = IF sup.quiet THEN "exited" ELSE "stopping"]
    /\ SupSends(<<"exited">>)
    /\ UNCHANGED <<events, kind, row, hub, conn, down, ending>>

\* Frames of the server: setup_complete_ack, requests, prepare_checkpoint, shutdown and signal.
Handle ==
    /\ sup.step # "gone" /\ sup.socket # 0 /\ down[sup.socket] # <<>>
    /\ down' = [down EXCEPT ![sup.socket] = Tail(@)]
    /\ LET frame == Head(down[sup.socket]) IN
       \/ /\ frame = "setup_ack"
          /\ sup' = [sup EXCEPT !.step = IF @ = "revocation" THEN "start" ELSE @] /\ UNCHANGED up
       \/ frame = "request" /\ ~Stopped /\ SupSends(<<"answer">>) /\ UNCHANGED sup
       \/ frame = "prepare" /\ ~Stopped /\ sup' = [sup EXCEPT !.quiet = TRUE] /\ SupSends(<<"answer">>)
       \/ frame = "shutdown" /\ sup' = [sup EXCEPT !.step = "stopping"] /\ UNCHANGED up
       \/ /\ (frame \in {"request", "prepare"} /\ Stopped) \/ (frame \in {"ack", "ack_credential"} /\ Stopped)
          /\ UNCHANGED <<sup, up>>
    /\ UNCHANGED <<events, kind, row, hub, conn, ending>>

ChNext ==
    \/ CloseHub \/ Terminate \/ Finalize
    \/ Closed \/ Exit \/ HangUp \/ Registered \/ Preflight \/ Install \/ Setup \/ AskRevocation
    \/ Start \/ Probe \/ HarnessExits \/ Handle
    \/ \E w \in Waits : Request(w)
    \/ \E c \in Sockets :
        \/ Authenticate(c) \/ StartRegistration(c) \/ IssueSource(c) \/ CommitEpoch(c) \/ attach(c)
        \/ DeliverCredentials(c) \/ Acknowledge(c)
        \/ Lose(c) \/ onClose(c) \/ LateLeave(c) \/ MarkAway(c)
        \/ Receive(c) \/ Report(c) \/ ProcessState(c) \/ RuntimeReady(c) \/ CheckpointInstalled(c)
        \/ Ignored(c) \/ RevokeSetup(c) \/ AckSetup(c) \/ maybeMarkReady(c) \/ restoreUnsettled(c)
        \/ RequestTimeout(c) \/ Connect(c)

-----------------------------------------------------------------------------
\* Nobody waits for a connection that lost its place: whoever waits over a socket that was replaced,
\* detached or closed has been answered (dropPending in attach, detach and close).
WaitersEnd == \A c \in Sockets : conn[c].waits # {} => hub = c

\* A workspace is ready only when its supervisor has really started the workload, after the restore it was
\* launched for was installed, and no workload runs while the setup credential is still valid.
ReadyIsEarned ==
    /\ row.state = "ready" => sup.started /\ (kind.restore => sup.installed)
    /\ kind.source /\ sup.started => row.lease = "revoked"

-----------------------------------------------------------------------------
(* The invariant that ServerProofs proves *)

Pcs == {"none", "dial", "open", "register", "reconnect", "commit", "attach", "attached", "grant", "up", "work",
        "check", "revoked", "refused"}
Steps == {"dial", "preflight", "install", "setup", "revocation", "start", "run", "waiting", "exited", "stopping", "gone"}
SupFrames == {"registered", "network", "degraded", "installed", "resolved", "setup_complete", "running", "health",
              "runtime_ready", "answer", "exited"}
HubFrames == {"ack", "ack_credential", "setup_ack", "request", "prepare", "shutdown"}
Row == [state : Live \cup {"terminating", "ended"}, epoch : Nat, away : BOOLEAN, healthy : BOOLEAN,
        network : BOOLEAN, lease : {"none", "issued", "revoked"}, resolved : BOOLEAN, prepared : BOOLEAN]
Job == [frame : SupFrames \cup {"none"}, row : Row \cup {NoJob.row}]
Conn == [live : BOOLEAN, seen : BOOLEAN, told : BOOLEAN, pc : Pcs, mode : {"none", "register", "reconnect", "was_live"},
         epoch : Nat, registered : BOOLEAN, harness : BOOLEAN, installed : BOOLEAN, waits : SUBSET Waits, job : Job]
Supervisor == [socket : Sockets \cup {0}, credential : BOOLEAN, exec : BOOLEAN, step : Steps, started : BOOLEAN,
               installed : BOOLEAN, quiet : BOOLEAN, reported : BOOLEAN]

Shapes ==
    /\ kind \in Kinds /\ row \in Row /\ hub \in Sockets \cup {0} /\ conn \in [Sockets -> Conn] /\ sup \in Supervisor

\* The frames the supervisor may have sent, and those the server may have.
Work == {"running", "health", "runtime_ready"}
BackedFrames ==
    {f \in SupFrames \cup {"none"} : (f \in Work => sup.started) /\ (f = "installed" => sup.installed /\ kind.restore)}
ToldFrames == {f \in HubFrames : f = "setup_ack" /\ kind.source => row.lease = "revoked"}

\* What is known of a socket c in state k: only the first one registers, and what the server was told over it happened.
SocketFacts(c, k) ==
    /\ k.mode = "register" \/ k.pc = "register" => c = 1
    /\ k.pc \in {"dial", "open", "register", "reconnect"} => k.mode \in {"register", "reconnect"}
    /\ k.job.frame \in BackedFrames
    /\ k.harness => sup.started
    /\ k.installed => sup.installed
    /\ k.pc \in {"work", "check"} => k.job.row \in Row /\ (k.job.row.prepared => sup.started)
    /\ k.pc = "check" => \/ k.job.frame \in Work
                         \/ k.job.frame = "network" /\ kind.waiting
                         \/ k.job.frame = "installed"

\* Until the registration of the first socket has its lease nothing else has happened.
Early == {"none", "dial", "open", "register"}
Opening ==
    /\ conn[1].pc \in Early =>
         /\ hub = 0 /\ ~sup.credential /\ ~sup.started /\ sup.step \in {"dial", "gone"}
         /\ \A c \in Sockets : down[c] = <<>> /\ (c # 1 => conn[c].pc = "none")
    /\ sup.socket = 0 => conn[1].pc = "none"

Evidence ==
    /\ up \in [Sockets -> Seq(BackedFrames)]
    /\ row.prepared => sup.started
    /\ sup.step \in {"run", "waiting"} => sup.started
    /\ row.state = "ready" => sup.started /\ (kind.restore => sup.installed)
    /\ \A c \in Sockets : SocketFacts(c, conn[c])

Authority ==
    /\ down \in [Sockets -> Seq(ToldFrames)]
    /\ kind.source /\ (sup.started \/ sup.step = "start") => row.lease = "revoked"

ChannelInv == Shapes /\ WaitersEnd /\ Opening /\ Evidence /\ Authority
============================================================
