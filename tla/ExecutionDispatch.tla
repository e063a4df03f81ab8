-------------------------- MODULE ExecutionDispatch --------------------------
(***************************************************************************)
(* Dispatch of explicit executions to one workspace runtime: the API that  *)
(* accepts and cancels them, the controller's dispatcher with its ordinary *)
(* and control lanes, the two transports (frames to the supervisor's       *)
(* finite process, relayed requests to an execution service), the          *)
(* supervisor's process and the frames it answers with.                    *)
(*                                                                         *)
(* The store's transactions are the operators of the first section.  A     *)
(* dispatcher task is a coroutine: each of its steps is one await of the   *)
(* code, and everything else may happen in between.  The execution service *)
(* is external: its requests may be handled late, after the relay gave up  *)
(* on them, in any order, or never.                                        *)
(***************************************************************************)
EXTENDS Naturals, FiniteSets, FiniteSetsExt, Sequences

--------------------------------------------------------------------------------
(* The durable record of one explicit execution and the transactions that  *)
(* read and write it: acceptance, claim, cancel, observation,              *)
(* acknowledgment and finalization of a process or of a conversation       *)
(* request.  Every operator is one transaction of the store: it takes the  *)
(* record (and the workspace row, which the transaction locks) and returns *)
(* what the transaction writes or answers.                                 *)
(*                                                                         *)
(* An acceptance keeps what validation tells apart: who owns the execution *)
(* and whether its digests are those of the installed producer.  Instants  *)
(* are abstracted to whether they have been set.                           *)

\* A field that holds nothing.
Null == "null"

\* The phases of an execution record ("none": no record was accepted).
ExecutionPhase ==
    {"none", "accepted", "dispatching", "running", "terminal", "canceled", "unknown", "lost"}

\* The execution record.
ExecutionRecord ==
    [phase : ExecutionPhase, claimed : BOOLEAN, cancel : BOOLEAN,
     acked : BOOLEAN, final : BOOLEAN, outcome : {Null, "done", "refused", "claimed", "running", "exited", "lost"}]

NoRecord ==
    [phase |-> "none", claimed |-> FALSE, cancel |-> FALSE, acked |-> FALSE, final |-> FALSE, outcome |-> Null]

\* What a finite process reports of itself.
FactPhase == {"none", "claimed", "running", "exited", "lost"}

executionSettled(r) == r.phase \in {"terminal", "canceled", "unknown", "lost"}

\* A claimed execution that ended is acknowledged to the producer that ran it.
needsAcknowledgment(r) == r.claimed /\ r.phase \in {"terminal", "canceled"} /\ ~r.acked

\* What the dispatcher's scan still has work for.
pending(r, owner) ==
    /\ r.phase # "none"
    /\ \/ ~executionSettled(r)
       \/ needsAcknowledgment(r)
       \/ owner = "conversation-request" /\ r.phase \in {"terminal", "canceled"} /\ ~r.final

-----------------------------------------------------------------------------
(* Validation. *)

\* A process adapter serves the finite-process profile, a service adapter conversation requests.
validateOwner(owner, profile) == owner = IF profile = "finite-process" THEN "process" ELSE "conversation-request"

\* The capabilities an operation of the profile needs: a service may be a weak producer.
operationCapabilities(profile) == IF profile = "finite-process" THEN {"targeted-cancel"} ELSE {}

\* The installed producer is the one the acceptance names.
installedEvidence(a) == a.digest = "installed"

requireExecutionPrincipal(w) == w.enabled

\* The workspace can take or launch the execution: a live ready incarnation within its deadline.
validateExecution(w, wl, a) ==
    /\ ~w.purge /\ w.state = "ready" /\ ~w.expired /\ w.ready /\ ~w.ended
    /\ installedEvidence(a)
    /\ validateOwner(a.owner, wl.profile)
    /\ operationCapabilities(wl.profile) \subseteq wl.capabilities

\* Requests of a workspace run one at a time, and of a conversation when the adapter runs them in parallel.
parallelConversations(wl) ==
    {"parallel-conversations", "request-lookup", "deduplicated-accept", "targeted-cancel"} \subseteq wl.capabilities

validateConversationExecution(others, e, conversation, wl) ==
    \A f \in DOMAIN others \ {e} :
        \/ others[f].phase = "none"
        \/ others[f].final
        \/ parallelConversations(wl) /\ conversation[f] # conversation[e]

pinExecutionInputs(pin) == pin # "released"

requireExecutionInputs(pin, stored) == pin = "pinned" /\ stored

acceptedRecord == [NoRecord EXCEPT !.phase = "accepted"]

-----------------------------------------------------------------------------
(* Transactions on a record. *)

\* What a claimed execution may still be asked: nothing once it settled or its runtime ended.
reconcileExecution(w, r) == r.claimed /\ ~executionSettled(r) /\ ~w.purge /\ w.ready /\ ~w.ended

\* claim: the record written, whether the caller goes on, and whether this is the first claim.
\* An admitted cancel controls an existing claim; it cannot launch work.
claimExecution(w, r, valid) ==
    LET kept(go) == [rec |-> r, go |-> go, first |-> FALSE]
    IN  CASE r.cancel                      -> kept(reconcileExecution(w, r))
          [] ~r.cancel /\ executionSettled(r) -> kept(FALSE)
          [] ~r.cancel /\ ~executionSettled(r) /\ ~valid ->
                 [rec |-> [r EXCEPT !.phase = "lost", !.outcome = Null], go |-> FALSE, first |-> FALSE]
          [] OTHER ->
                 [rec |-> [r EXCEPT !.claimed = TRUE, !.phase = IF r.claimed THEN @ ELSE "dispatching"],
                  go |-> TRUE, first |-> ~r.claimed]

\* cancel: an unclaimed execution ends here, a claimed one is only marked.
cancelExecution(r) ==
    CASE r.cancel \/ executionSettled(r) -> r
      [] ~r.cancel /\ ~executionSettled(r) /\ r.claimed -> [r EXCEPT !.cancel = TRUE]
      [] OTHER -> [r EXCEPT !.cancel = TRUE, !.phase = "canceled", !.final = TRUE]

\* Mutant of observeExecution: a settled record takes a later observation.
ObserveOverSettled(w, r, phase, outcome, epoch) ==
    IF r.claimed /\ w.epoch = epoch /\ ~w.ended
    THEN [rec |-> [r EXCEPT !.phase = phase, !.outcome = outcome], ok |-> TRUE]
    ELSE [rec |-> r, ok |-> FALSE]

\* observe: whether the observation stands, and the record it writes.
observeExecution(w, r, phase, outcome, epoch) ==
    LET current == r.claimed /\ w.epoch = epoch /\ ~w.ended
    IN  CASE ~current -> [rec |-> r, ok |-> FALSE]
          [] current /\ executionSettled(r) -> [rec |-> r, ok |-> r.phase = phase /\ r.outcome = outcome]
          [] OTHER -> [rec |-> [r EXCEPT !.phase = phase, !.outcome = outcome], ok |-> TRUE]

mayAcknowledge(r) == executionSettled(r)

acknowledgeExecution(r) == [r EXCEPT !.acked = TRUE]

mayFinalize(r) == executionSettled(r) /\ r.phase \notin {"unknown", "lost"} /\ ~needsAcknowledgment(r)

finalizeExecution(r) == [r EXCEPT !.final = TRUE]

-----------------------------------------------------------------------------
(* Facts of a finite process. *)

\* A fact never goes back: an ended one is final and a running one is not claimed again.
canRecord(previous, next) ==
    CASE previous = "none" -> TRUE
      [] previous \in {"exited", "lost"} -> next = previous
      [] previous = "running" -> next # "claimed"
      [] OTHER -> TRUE

acceptsProcessFact(r, fact) ==
    /\ r.claimed
    /\ executionSettled(r) =>
           /\ <<r.phase, fact>> \in {<<"terminal", "exited">>, <<"lost", "lost">>}
           /\ r.outcome = fact

observedProcessExecution(r, fact) ==
    [r EXCEPT !.phase = CASE fact = "running" -> "running"
                          [] fact = "exited" -> "terminal"
                          [] fact = "lost" -> "lost"
                          [] OTHER -> "dispatching",
              !.outcome = fact]

\* recordFiniteProcess: whether the row takes the fact.
mayRecord(w, wl, r, previous, fact, epoch) ==
    /\ ~w.purge /\ ~w.ended
    /\ w.state \in {"connected", "ready", "terminating"}
    /\ w.epoch = epoch
    /\ wl.profile = "finite-process"
    /\ canRecord(previous, fact)
    /\ acceptsProcessFact(r, fact)

\* The fact of a process whose runtime ended before it did.
endedFact(fact) == IF fact \in {"claimed", "running"} THEN "lost" ELSE fact

\* endWorkspaceRuntime: everything unsettled is lost with the incarnation that ran it.
lostExecution(r, owner, fact) ==
    IF r.phase = "none" \/ executionSettled(r) THEN r
    ELSE [r EXCEPT !.phase = "lost",
                   !.outcome = CASE owner # "process" -> @
                                 [] owner = "process" /\ fact = "none" -> Null
                                 [] OTHER -> endedFact(fact)]

--------------------------------------------------------------------------------
(* Dispatch.                                                               *)

CONSTANTS
    Executions,     \* request IDs clients start executions under
    Conversation,   \* the conversation of each request
    Workloads,      \* the installed workloads a behaviour may have: profile, capabilities, inputs
    Concurrency,    \* how many ordinary tasks run at once
    Losses,         \* what a caller may lose while the workspace lives: "enabled", "expired", "stored"
    MaxFaults,      \* bound on what goes wrong: connections lost, faults, maintenance, lost authority or provider
    MaxFrames,      \* bound on frames under way in one direction: a scan, a cancel or the supervisor waits for it to drain
    MaxLate         \* bound on relayed requests the controller gave up on that are still under way

ASSUME DispatchAssumption ==
    /\ IsFiniteSet(Executions) /\ Null \notin Executions
    /\ Conversation \in [Executions -> STRING]
    /\ Concurrency \in Nat \ {0}
    /\ Losses \subseteq {"enabled", "expired", "stored"}
    /\ {MaxFaults, MaxFrames, MaxLate} \subseteq Nat

VARIABLES
    wl,         \* the installed workload, fixed at launch
    ws,         \* the workspace row
    rec,        \* the execution records
    pin,        \* the input manifest of each execution
    rowFact,    \* the finite process fact of the workspace row
    mode,       \* the controller: "on", "maintenance" or "down"
    faults,     \* what went wrong so far
    disp,       \* the dispatcher's memory
    scan,       \* the pending list a scan read and has not queued yet
    hub,        \* epoch of the live supervisor connection, 0 when there is none
    toAgent,    \* frames under way to the supervisor
    toServer,   \* frames under way to the controller, in the order received
    wire,       \* relayed requests at or before the execution service
    service,    \* what the execution service knows of each request
    proc,       \* the supervisor's finite process
    alive,      \* the provider runs
    starts      \* how often each execution was started, capped at 2

vars == <<wl, ws, rec, pin, rowFact, mode, faults, disp, scan, hub, toAgent, toServer,
          wire, service, proc, alive, starts>>

durable == <<wl, ws, rec, pin, rowFact>>
producer == <<service, proc, alive, starts>>
network == <<hub, toAgent, toServer, wire>>

Lanes == {"ordinary", "control"}

\* A cancel still has something to do: stop the execution or acknowledge its end.
cancelPending(r) == ~executionSettled(r) \/ needsAcknowledgment(r)

\* What a task reads in the record it was started with.
Snapshot(r) ==
    [settled |-> executionSettled(r), claimed |-> r.claimed, control |-> r.cancel /\ cancelPending(r)]

Nothing == [settled |-> FALSE, claimed |-> FALSE, control |-> FALSE]

\* A lane without a task for the execution.
Idle == [pc |-> "idle", snap |-> Nothing, absent |-> 0, epoch |-> 0, act |-> Null, reply |-> Null]

NoEntry == [on |-> FALSE, snap |-> Nothing, absent |-> 0]

NoEntries == [e \in Executions |-> NoEntry]

NoScan == [on |-> FALSE, list |-> NoEntries]

InitDisp ==
    [task |-> [e \in Executions |-> [l \in Lanes |-> Idle]],
     queued |-> NoEntries,
     absences |-> [e \in Executions |-> 0],
     waits |-> {}]

Owner == IF wl.profile = "finite-process" THEN "process" ELSE "conversation-request"

\* The accepted acceptance of an execution.
Acceptance == [owner |-> Owner, digest |-> "installed"]

allowed == mode = "on"

\* The producer can be asked about a request and takes the same one only once.
canReconcile == {"request-lookup", "deduplicated-accept"} \subseteq wl.capabilities

Up(n) == Min({n + 1, 2})

Init ==
    /\ wl \in Workloads
    /\ ws = [state |-> "ready", purge |-> FALSE, expired |-> FALSE, enabled |-> TRUE, stored |-> TRUE,
             ready |-> TRUE, ended |-> FALSE, epoch |-> 1]
    /\ rec = [e \in Executions |-> NoRecord]
    /\ pin = [e \in Executions |-> "none"]
    /\ rowFact = "none"
    /\ mode = "on" /\ faults = 0
    /\ disp = InitDisp /\ scan = NoScan
    /\ hub = 1 /\ toAgent = <<>> /\ toServer = <<>> /\ wire = {}
    /\ service = [e \in Executions |-> "absent"]
    /\ proc = [fact |-> "none", of |-> Null, stopped |-> FALSE, cancellations |-> {}, pending |-> FALSE]
    /\ alive = TRUE
    /\ starts = [e \in Executions |-> 0]

-----------------------------------------------------------------------------
(* The API. *)

\* Accepts an execution of the workspace, or replays the one accepted before (no change).
acceptExecution(e) ==
    /\ mode # "down"
    /\ rec[e].phase = "none"
    /\ \E a \in [owner : {"process", "conversation-request"}, digest : {"installed", "other"}] :
           /\ requireExecutionPrincipal(ws)
           /\ validateExecution(ws, wl, a)
           /\ IF a.owner = "process"
              THEN \A f \in Executions : rec[f].phase = "none" /\ rowFact = "none"
              ELSE validateConversationExecution(rec, e, Conversation, wl)
    /\ ws.stored \/ ~wl.inputs
    /\ pinExecutionInputs(pin[e])
    /\ rec' = [rec EXCEPT ![e] = acceptedRecord]
    /\ pin' = [pin EXCEPT ![e] = "pinned"]
    /\ UNCHANGED <<wl, ws, rowFact, mode, faults, disp, scan>> /\ UNCHANGED <<network, producer>>

-----------------------------------------------------------------------------
(* The dispatcher's lanes. *)

Started(snap, absent) == [Idle EXCEPT !.pc = "start", !.snap = snap, !.absent = absent]

Running(d, l) == {e \in Executions : d.task[e][l] # Idle}

\* start: a lane holds one task per execution.
start(d, e, l, snap, absent) ==
    IF d.task[e][l] # Idle THEN d ELSE [d EXCEPT !.task[e][l] = Started(snap, absent)]

\* cancel: the control lane takes an admitted cancel at once, maintenance or not.
startCancel(d, e, r) ==
    IF r.cancel /\ cancelPending(r)
    THEN start(d, e, "control", Snapshot(r), 0)
    ELSE d

\* pump: queued executions start while the ordinary lane has room; one whose cancel is under way is dropped.
\* The order of the queue is any order.
pump(d) ==
    LET queue   == {e \in Executions : d.queued[e].on}
        blocked == queue \cap Running(d, "control")
        free    == Concurrency - Cardinality(Running(d, "ordinary"))
        after(gone, chosen) ==
            [d EXCEPT !.queued = [e \in Executions |-> IF e \in gone \cup chosen THEN NoEntry ELSE @[e]],
                      !.task = [e \in Executions |->
                                  IF e \in chosen
                                  THEN [@[e] EXCEPT !["ordinary"] = Started(d.queued[e].snap, d.queued[e].absent)]
                                  ELSE @[e]]]
    IN  IF ~allowed THEN {[d EXCEPT !.queued = NoEntries]}
        ELSE IF free <= 0 THEN {d}
        ELSE {after(p[1], p[2]) : p \in
                {q \in (SUBSET blocked) \X (SUBSET (queue \ blocked)) :
                    /\ Cardinality(q[2]) = Min({free, Cardinality(queue \ blocked)})
                    /\ Cardinality(q[2]) < free => q[1] = blocked}}

\* A proven absence may be answered by sending the execution again.
replayable(e, epoch) == ws.epoch = epoch /\ rec[e].claimed /\ ~executionSettled(rec[e]) /\ canReconcile

\* A task ends: an absence reported meanwhile queues the execution again.
Ended(d, e, l) ==
    LET again == l = "ordinary" /\ d.absences[e] # 0 /\ allowed
    IN  pump([d EXCEPT !.task[e][l] = Idle,
                       !.absences[e] = IF l = "ordinary" THEN 0 ELSE @,
                       !.queued[e] = IF again THEN [on |-> TRUE, snap |-> Nothing, absent |-> d.absences[e]] ELSE @])

TaskAt(e, l, pc) == mode # "down" /\ disp.task[e][l].pc = pc

Move(e, l, t) == disp' = [disp EXCEPT !.task[e][l] = t]

Goto(e, l, pc) == Move(e, l, [disp.task[e][l] EXCEPT !.pc = pc, !.reply = Null])

End(e, l) == disp' \in Ended(disp, e, l)

\* The wait for input capacity is over once accept returns.
Unwait(d, e) == [d EXCEPT !.waits = @ \ {e}]

\* Mutant of cancelRoute: the inputs of a claimed execution are released with its cancel.
CancelReleases(e) ==
    /\ mode # "down" /\ Len(toAgent) <= MaxFrames
    /\ rec[e].phase # "none"
    /\ rec' = [rec EXCEPT ![e] = cancelExecution(@)]
    /\ pin' = [pin EXCEPT ![e] = "released"]
    /\ disp' = startCancel(disp, e, rec'[e])
    /\ UNCHANGED <<wl, ws, rowFact, mode, faults, scan>> /\ UNCHANGED <<network, producer>>

\* The cancel route: the durable cancel is admitted first, then the control lane is started.
cancelRoute(e) ==
    /\ mode # "down" /\ Len(toAgent) <= MaxFrames
    /\ rec[e].phase # "none"
    /\ rec' = [rec EXCEPT ![e] = cancelExecution(@)]
    /\ pin' = [pin EXCEPT ![e] = IF ~executionSettled(rec[e]) /\ ~rec[e].claimed THEN "released" ELSE @]
    /\ disp' = startCancel(disp, e, rec'[e])
    /\ UNCHANGED <<wl, ws, rowFact, mode, faults, scan>> /\ UNCHANGED <<network, producer>>

\* A scan reads what is pending (scanPending up to its await).
scanRead ==
    /\ allowed /\ ~scan.on
    /\ Len(toAgent) < MaxFrames
    /\ scan' = [on |-> TRUE,
                list |-> [e \in Executions |->
                            IF pending(rec[e], Owner)
                            THEN [on |-> TRUE, snap |-> Snapshot(rec[e]), absent |-> 0] ELSE NoEntry]]
    /\ UNCHANGED <<mode, faults, disp>> /\ UNCHANGED <<durable, network, producer>>

\* The rest of scanPending: start the cancels and queue the others. An execution that failed waits for its
\* retry time, so a scan may pass over any of them.
scanQueue ==
    LET listed  == {e \in Executions : scan.list[e].on}
        control == {e \in listed : scan.list[e].snap.control}
        busy(e) == disp.queued[e].on \/ \E l \in Lanes : disp.task[e][l] # Idle
    IN  /\ mode # "down" /\ scan.on
        /\ IF ~allowed THEN UNCHANGED disp
           ELSE \E due \in SUBSET listed :
                  disp' \in pump(
                    [disp EXCEPT
                       !.waits = @ \cap listed,
                       !.task = [e \in Executions |->
                                   IF e \in control \cap due /\ @[e]["control"] = Idle
                                   THEN [@[e] EXCEPT !["control"] = Started(scan.list[e].snap, 0)] ELSE @[e]],
                       !.queued = [e \in Executions |->
                                     IF e \in due \ control /\ ~busy(e) THEN scan.list[e] ELSE @[e]]])
        /\ scan' = NoScan
        /\ UNCHANGED <<mode, faults>> /\ UNCHANGED <<durable, network, producer>>

-----------------------------------------------------------------------------
(* One dispatch, step by step. *)

\* Rows and clocks a step of a task leaves alone.
Quiet == UNCHANGED <<wl, ws, rowFact, mode, faults, scan>> /\ UNCHANGED producer

\* What endWorkspaceRuntime does to the rows of the ended incarnation.
endWorkspaceRuntime ==
    /\ ws' = [ws EXCEPT !.ended = TRUE]
    /\ rec' = IF ws.ended THEN rec ELSE [e \in Executions |-> lostExecution(rec[e], Owner, rowFact)]
    /\ rowFact' = IF ws.ended THEN rowFact ELSE endedFact(rowFact)

\* process transport: one frame on the connection the workspace was read with, or an error. conversation
\* transport: a request relayed to the execution service. The task goes on with the reply, if there is one.
Transmit(d, e, l, act) ==
    LET t    == d.task[e][l]
        over == Ended(IF act = "accept" THEN Unwait(d, e) ELSE d, e, l)
    IN  CASE Owner = "process" /\ hub = t.epoch ->
                /\ toAgent' = Append(toAgent, [act |-> act, e |-> e])
                /\ IF act = "ack" THEN disp' = [d EXCEPT !.task[e][l].pc = "acked"] ELSE disp' \in over
                /\ UNCHANGED <<hub, toServer, wire>>
          [] Owner # "process" /\ hub # 0 ->
                /\ wire' = wire \cup {[e |-> e, lane |-> l, act |-> act, late |-> FALSE]}
                /\ disp' = [d EXCEPT !.task[e][l].pc = "calling"]
                /\ UNCHANGED <<hub, toAgent, toServer>>
          [] OTHER -> disp' \in Ended(d, e, l) /\ UNCHANGED network

\* The dispatcher's memory with the task calling the producer: what it asked is remembered for the reply, and a
\* cancel sent in place of an accept still returns from accept.
Asking(d, e, l, act) == [d EXCEPT !.task[e][l].act = act, !.task[e][l].reply = Null]

\* Reads the workspace and inspects its provider: nothing is done for a purged or disconnected one, or when the
\* connection that reported an absence is gone; a runtime that is gone ends; a settled record is acknowledged
\* and another one claimed.
dispatchRead(e, l) ==
    LET t    == disp.task[e][l]
        skip == ws.purge \/ hub = 0 \/ t.absent \notin {0, ws.epoch}
        next == [disp EXCEPT !.task[e][l].epoch = ws.epoch]
    IN  /\ TaskAt(e, l, "start")
        /\ IF ~skip /\ ~alive THEN endWorkspaceRuntime ELSE UNCHANGED <<ws, rec, rowFact>>
        /\ \/ (skip \/ ~alive) /\ End(e, l) /\ UNCHANGED network
           \/ ~skip /\ alive /\ t.snap.settled /\ Transmit([next EXCEPT !.task[e][l].snap = Nothing], e, l, "ack")
           \/ ~skip /\ alive /\ ~t.snap.settled
              /\ disp' = [next EXCEPT !.task[e][l].pc = "claim"] /\ UNCHANGED network
           \/ ~skip /\ alive /\ End(e, l) /\ UNCHANGED network     \* the driver does not answer
        /\ UNCHANGED <<wl, pin, mode, faults, scan>> /\ UNCHANGED producer

\* mustResend: the producer reported the request absent, or it only waited for capacity.
mustResend(e, l) == disp.task[e][l].absent # 0 \/ (l = "ordinary" /\ e \in disp.waits)

validClaim(e) ==
    /\ requireExecutionPrincipal(ws)
    /\ validateExecution(ws, wl, Acceptance)
    /\ requireExecutionInputs(pin[e], ws.stored \/ ~wl.inputs)

\* Claims or reconciles the record and chooses what to tell the producer.
dispatchClaim(e, l) ==
    LET t     == disp.task[e][l]
        again == mustResend(e, l)
        claim == IF t.snap.claimed /\ ~again
                 THEN [rec |-> rec[e], go |-> reconcileExecution(ws, rec[e]), first |-> FALSE]
                 ELSE claimExecution(ws, rec[e], validClaim(e))
        next  == CASE ~claim.go \/ (l = "control" /\ ~claim.rec.cancel) -> "over"
                   [] claim.go /\ l = "ordinary" /\ claim.rec.cancel -> "hand over"
                   [] claim.go /\ l = "control" /\ claim.rec.cancel ->
                          IF "targeted-cancel" \in wl.capabilities THEN "cancel" ELSE "unknown"
                   [] claim.go /\ l = "ordinary" /\ ~claim.rec.cancel ->
                          CASE ~allowed -> "over"
                            [] allowed /\ (claim.first \/ again) -> "inputs"
                            [] allowed /\ ~claim.first /\ ~again /\ canReconcile -> "lookup"
                            [] OTHER -> "unknown"
        fresh == [disp EXCEPT !.task[e][l] = [Idle EXCEPT !.pc = next, !.epoch = t.epoch]]
    IN  /\ TaskAt(e, l, "claim")
        /\ rec' = [rec EXCEPT ![e] = claim.rec]
        /\ \/ next = "over" /\ End(e, l) /\ UNCHANGED network
           \/ next = "hand over" /\ disp' \in Ended(startCancel(disp, e, claim.rec), e, l) /\ UNCHANGED network
           \/ next \in {"cancel", "lookup"} /\ Transmit(Asking(fresh, e, l, next), e, l, next)
           \/ next \in {"inputs", "unknown"} /\ disp' = fresh /\ UNCHANGED network
        /\ Quiet /\ UNCHANGED pin

\* A producer that cannot be asked leaves the outcome unknown.
dispatchUnknown(e, l) ==
    /\ TaskAt(e, l, "unknown")
    /\ rec' = [rec EXCEPT ![e] = observeExecution(ws, @, "unknown", Null, disp.task[e][l].epoch).rec]
    /\ End(e, l)
    /\ Quiet /\ UNCHANGED <<pin, network>>

\* Publishes the inputs, then rechecks ordered cancel and deadline before sending. A projection without room is
\* waited for and counts as nothing sent.
acceptPrepare(e, l) ==
    LET claim == claimExecution(ws, rec[e], validClaim(e))
    IN  /\ TaskAt(e, l, "inputs")
        /\ \/ /\ rec' = [rec EXCEPT ![e] = claim.rec]
              /\ \/ ~claim.go /\ disp' \in Ended(Unwait(disp, e), e, l) /\ UNCHANGED network
                 \/ claim.go /\ claim.rec.cancel /\ Transmit(Asking(disp, e, l, "accept"), e, l, "cancel")
                 \/ claim.go /\ ~claim.rec.cancel /\ Goto(e, l, "accept") /\ UNCHANGED network
           \/ /\ wl.inputs
              /\ \/ disp' \in Ended([disp EXCEPT !.waits = @ \cup {e}], e, l)
                 \/ End(e, l)
              /\ UNCHANGED <<rec, network>>
        /\ Quiet /\ UNCHANGED pin

\* Sends what was just claimed; anything may have been admitted since the claim.
acceptSend(e, l) ==
    /\ TaskAt(e, l, "accept")
    /\ Transmit(Asking(disp, e, l, "accept"), e, l, "accept")
    /\ Quiet /\ UNCHANGED <<rec, pin>>

\* The transport returned: a task that was asked to accept no longer waits for capacity.
Returned(e, l) == disp' \in Ended(IF disp.task[e][l].act = "accept" THEN Unwait(disp, e) ELSE disp, e, l)

\* The relay gives up (timeout, lost connection): the request may still be under way.
callFails(e, l) ==
    /\ TaskAt(e, l, "calling")
    /\ End(e, l)
    /\ LET mine == {q \in wire : q.e = e /\ q.lane = l /\ ~q.late}
       IN  wire' \in {wire \ mine} \cup
                     (IF Cardinality({q \in wire : q.late}) < MaxLate
                      THEN {(wire \ mine) \cup {[q EXCEPT !.late = TRUE] : q \in mine}} ELSE {})
    /\ Quiet /\ UNCHANGED <<rec, pin, hub, toAgent, toServer>>

\* The reply of the service reaches the task: observe, then acknowledge an end.
observe(e, l) ==
    LET t      == disp.task[e][l]
        result == observeExecution(ws, rec[e], t.reply, IF t.reply = "terminal" THEN "done" ELSE Null, t.epoch)
        ended  == t.reply \in {"terminal", "canceled"} /\ result.ok
        next   == CASE t.reply = "acked" -> "acked"
                    [] t.reply = "refused" /\ ~canReconcile -> "refused"
                    [] t.reply = "absent" /\ t.act = "refused" -> "refused"
                    [] t.reply = "absent" /\ t.act = "lookup" -> "replay"
                    [] OTHER -> "over"
    IN  /\ TaskAt(e, l, "observe")
        /\ rec' = IF t.reply \in {"running", "terminal", "canceled"} THEN [rec EXCEPT ![e] = result.rec] ELSE rec
        /\ \/ ended /\ Transmit([disp EXCEPT !.task[e][l].reply = Null], e, l, "ack")
           \/ t.reply = "refused" /\ canReconcile /\ Transmit(Asking(disp, e, l, "refused"), e, l, "lookup")
           \/ next # "over" /\ Goto(e, l, next) /\ UNCHANGED network
           \/ t.reply = "absent" /\ t.act = "accept" /\ End(e, l) /\ UNCHANGED network
           \/ /\ next = "over" /\ ~ended /\ t.reply # "refused"
              /\ ~(t.reply = "absent" /\ t.act = "accept")
              /\ Returned(e, l) /\ UNCHANGED network
        /\ Quiet /\ UNCHANGED pin

\* replayable: a proven absence in the same connection dispatches the record once more.
dispatchReplay(e, l) ==
    LET t == disp.task[e][l]
    IN  /\ TaskAt(e, l, "replay")
        /\ IF replayable(e, t.epoch) /\ allowed
           THEN Move(e, l, Started(Snapshot(rec[e]), t.epoch))
           ELSE End(e, l)
        /\ Quiet /\ UNCHANGED <<rec, pin, network>>

\* refused: the refusal is the answer, and is settled.
settleRefused(e, l) ==
    /\ TaskAt(e, l, "refused")
    /\ rec' = [rec EXCEPT ![e] = observeExecution(ws, @, "terminal", "refused", disp.task[e][l].epoch).rec]
    /\ Goto(e, l, "acked")
    /\ Quiet /\ UNCHANGED <<pin, network>>

\* The acknowledgment is stored once the producer has it.
acknowledge(e, l) ==
    /\ TaskAt(e, l, "acked")
    /\ IF mayAcknowledge(rec[e])
       THEN /\ rec' = [rec EXCEPT ![e] = acknowledgeExecution(@)]
            /\ IF Owner = "process" THEN End(e, l) ELSE Goto(e, l, "finalize")
       ELSE End(e, l) /\ UNCHANGED rec
    /\ Quiet /\ UNCHANGED <<pin, network>>

\* finalizeServiceExecution: the projection is released and the record and its inputs are finalized.
finalizeServiceExecution(e, l) ==
    /\ TaskAt(e, l, "finalize")
    /\ \/ /\ mayFinalize(rec[e])
          /\ rec' = [rec EXCEPT ![e] = finalizeExecution(@)]
          /\ pin' = [pin EXCEPT ![e] = "released"]
          /\ Returned(e, l)
       \/ ~mayFinalize(rec[e]) /\ End(e, l) /\ UNCHANGED <<rec, pin>>
       \/ wl.inputs /\ End(e, l) /\ UNCHANGED <<rec, pin>>     \* the projection cannot be released
    /\ Quiet /\ UNCHANGED network

-----------------------------------------------------------------------------
(* The execution service, external to the repository. *)

\* How a service answers. One that takes a request only once remembers it, and remembers one it was told to
\* cancel; a weak one starts whatever it is sent. Either may refuse what it has not started.
Answers(e, act) ==
    LET known == service[e] # "absent" /\ canReconcile
    IN  CASE act = "accept" /\ known  -> {<<service[e], service[e]>>}
          [] act = "accept" /\ ~known -> {<<"running", "running">>, <<service[e], "refused">>}
          [] act = "lookup" -> {<<service[e], service[e]>>}
          [] act = "cancel" /\ service[e] # "terminal" /\ canReconcile -> {<<"canceled", "canceled">>}
          [] act = "cancel" /\ ~(service[e] # "terminal" /\ canReconcile) -> {<<service[e], service[e]>>}
          [] act = "ack"    -> {<<service[e], "acked">>}

serviceHandles(q) ==
    /\ alive /\ q \in wire
    /\ \E a \in Answers(q.e, q.act) :
           /\ service' = [service EXCEPT ![q.e] = a[1]]
           /\ starts' = IF q.act = "accept" /\ a[2] = "running" /\ ~(canReconcile /\ service[q.e] # "absent")
                        THEN [starts EXCEPT ![q.e] = Up(@)] ELSE starts
           /\ disp' = IF q.late THEN disp
                      ELSE [disp EXCEPT !.task[q.e][q.lane].pc = "observe", !.task[q.e][q.lane].reply = a[2]]
    /\ wire' = wire \ {q}
    /\ UNCHANGED <<mode, faults, scan, hub, toAgent, toServer, proc, alive>> /\ UNCHANGED durable

serviceFinishes(e) ==
    /\ alive /\ service[e] = "running"
    /\ service' = [service EXCEPT ![e] = "terminal"]
    /\ UNCHANGED <<mode, faults, disp, scan, proc, alive, starts>> /\ UNCHANGED <<durable, network>>

-----------------------------------------------------------------------------
(* The supervisor's finite process. *)

\* Mutant of replay: the leader's receipt is sent although its group still writes.
ReplayEarly(p) == IF p.fact = "none" THEN <<>>
                  ELSE <<[type |-> "fact", fact |-> p.fact, e |-> p.of, epoch |-> hub, stage |-> "record"]>>

\* What replay sends: nothing before a fact, nor for a leader that ended while its group still writes.
replay(p) == IF p.fact = "none" \/ (p.fact = "exited" /\ ~p.stopped) THEN <<>>
             ELSE <<[type |-> "fact", fact |-> p.fact, e |-> p.of, epoch |-> hub, stage |-> "record"]>>

Tells(p, frames) ==
    /\ proc' = [p EXCEPT !.pending = @ \/ \E i \in DOMAIN frames :
                                             frames[i].type = "fact" /\ frames[i].fact \in {"exited", "lost"}]
    /\ toServer' = IF hub = 0 THEN toServer ELSE toServer \o frames

Reply(type, e) == <<[type |-> type, fact |-> "none", e |-> e, epoch |-> hub, stage |-> "record"]>>

\* Mutant of processStart: a repeated start does not look for the process it claimed before.
StartAnyway(e) ==
    IF e \in proc.cancellations THEN Tells(proc, <<>>) /\ UNCHANGED starts
    ELSE /\ Tells([proc EXCEPT !.fact = "running", !.of = e], <<>>)
         /\ starts' = [starts EXCEPT ![e] = Up(@)]

\* start: claims before it spawns; a request canceled before it came is never started.
processStart(e) ==
    CASE proc.fact = "none" /\ e \in proc.cancellations -> Tells(proc, <<>>) /\ UNCHANGED starts
      [] proc.fact = "none" /\ e \notin proc.cancellations ->
            \E spawned \in BOOLEAN :
                LET claimed == [proc EXCEPT !.fact = "claimed", !.of = e]
                    after   == [claimed EXCEPT !.fact = IF spawned THEN "running" ELSE "lost"]
                IN  /\ Tells(after, replay(claimed) \o replay(after))
                    /\ starts' = IF spawned THEN [starts EXCEPT ![e] = Up(@)] ELSE starts
      [] OTHER -> Tells(proc, IF proc.of = e THEN replay(proc) ELSE <<>>) /\ UNCHANGED starts

\* Mutant of cancelOperation: the cancel of an unknown request is not remembered.
CancelForgotten(e) ==
    LET known == proc.fact # "none" /\ proc.of = e
    IN  Tells(proc, Reply(IF known THEN "cancel-requested" ELSE "cancel-canceled", e) \o replay(proc))

\* cancelOperation: an ended process answers for itself; another one is stopped, and an unknown request is
\* remembered as canceled.
cancelOperation(e) ==
    LET known == proc.fact # "none" /\ proc.of = e
        over  == known /\ (proc.fact = "lost" \/ (proc.fact = "exited" /\ proc.stopped))
        after == IF over THEN proc ELSE [proc EXCEPT !.cancellations = @ \cup {e}]
    IN  Tells(after, Reply(CASE over -> "cancel-terminal" [] ~over /\ known -> "cancel-requested"
                             [] OTHER -> "cancel-canceled", e) \o replay(after))

\* WaitingRuntime.handle: one frame of the controller.
handle ==
    /\ alive /\ hub # 0 /\ toAgent # <<>> /\ Len(toServer) < MaxFrames
    /\ LET f == Head(toAgent)
       IN  CASE f.act = "accept" -> processStart(f.e)
             [] f.act = "lookup" ->
                    /\ Tells(proc, IF proc.fact # "none" /\ proc.of = f.e THEN replay(proc) ELSE Reply("absent", f.e))
                    /\ UNCHANGED starts
             [] f.act = "cancel" -> cancelOperation(f.e) /\ UNCHANGED starts
             [] f.act = "ack" -> proc' = [proc EXCEPT !.pending = FALSE] /\ UNCHANGED <<toServer, starts>>
    /\ toAgent' = Tail(toAgent)
    /\ UNCHANGED <<mode, faults, disp, scan, hub, wire, service, alive>> /\ UNCHANGED durable

\* The leader exits, on its own or stopped by a cancel; its receipt stays private.
leaderExits ==
    /\ alive /\ proc.fact = "running"
    /\ proc' = [proc EXCEPT !.fact = "exited"]
    /\ UNCHANGED <<mode, faults, disp, scan, service, alive, starts>> /\ UNCHANGED <<durable, network>>

\* The last writer of the group is gone (waitForGroupStop): the receipt is sent.
groupStops ==
    /\ alive /\ proc.fact = "exited" /\ ~proc.stopped
    /\ LET after == [proc EXCEPT !.stopped = TRUE] IN Tells(after, replay(after))
    /\ UNCHANGED <<mode, faults, disp, scan, hub, toAgent, wire, service, alive, starts>>
    /\ UNCHANGED durable

\* The receipt is sent again until it is acknowledged.
resend ==
    /\ alive /\ hub # 0 /\ proc.pending /\ toServer = <<>> /\ Len(toAgent) <= MaxFrames
    /\ Tells(proc, replay(proc))
    /\ UNCHANGED <<mode, faults, disp, scan, hub, toAgent, wire, service, alive, starts>>
    /\ UNCHANGED durable

-----------------------------------------------------------------------------
(* Frames the controller handles. *)

NextFrame(type, stage) ==
    /\ mode # "down" /\ toServer # <<>>
    /\ Head(toServer).type = type /\ Head(toServer).stage = stage

\* recordFiniteProcess, and the acknowledgment frame of an ended process.
factFrame ==
    LET f  == Head(toServer)
        ok == mayRecord(ws, wl, rec[f.e], rowFact, f.fact, f.epoch)
        over == ok /\ f.fact \in {"exited", "lost"}
    IN  /\ NextFrame("fact", "record")
        /\ rec' = IF ok THEN [rec EXCEPT ![f.e] = observedProcessExecution(@, f.fact)] ELSE rec
        /\ rowFact' = IF ok THEN f.fact ELSE rowFact
        /\ toServer' = IF over THEN <<[f EXCEPT !.stage = "ack"]>> \o Tail(toServer) ELSE Tail(toServer)
        /\ toAgent' = IF over /\ hub = f.epoch THEN Append(toAgent, [act |-> "ack", e |-> f.e]) ELSE toAgent
        /\ UNCHANGED <<wl, ws, pin, mode, faults, disp, scan, hub, wire>> /\ UNCHANGED producer

\* process_absent: queues the execution again, or after the task that is sending it.
absentFrame ==
    LET f == Head(toServer)
    IN  /\ NextFrame("absent", "record")
        /\ toServer' = Tail(toServer)
        /\ CASE ~(replayable(f.e, f.epoch) /\ allowed) -> UNCHANGED disp
             [] replayable(f.e, f.epoch) /\ allowed /\ disp.task[f.e]["ordinary"] # Idle ->
                    disp' = [disp EXCEPT !.absences[f.e] = f.epoch]
             [] OTHER -> disp' \in pump([disp EXCEPT !.queued[f.e] =
                             [on |-> TRUE, snap |-> Snapshot(rec[f.e]), absent |-> f.epoch]])
        /\ UNCHANGED <<mode, faults, scan, hub, toAgent, wire>> /\ UNCHANGED <<durable, producer>>

\* process_cancel_result: only a request the supervisor never started is canceled by the answer.
canceledFrame ==
    LET f == Head(toServer)
        seen == observeExecution(ws, rec[f.e], "canceled", Null, f.epoch)
        ok == rec[f.e].cancel /\ seen.ok
    IN  /\ NextFrame("cancel-canceled", "record")
        /\ rec' = IF ok THEN [rec EXCEPT ![f.e] = seen.rec] ELSE rec
        /\ toServer' = IF ok THEN <<[f EXCEPT !.stage = "ack"]>> \o Tail(toServer) ELSE Tail(toServer)
        /\ UNCHANGED <<wl, ws, pin, rowFact, mode, faults, disp, scan, hub, toAgent, wire>>
        /\ UNCHANGED producer

\* Other answers to a cancel change nothing: the fact that follows settles the record.
otherCancelFrame ==
    /\ \E type \in {"cancel-terminal", "cancel-requested"} : NextFrame(type, "record")
    /\ toServer' = Tail(toServer)
    /\ UNCHANGED <<mode, faults, disp, scan, hub, toAgent, wire>> /\ UNCHANGED <<durable, producer>>

\* The stored acknowledgment that follows a settled fact or cancel.
acknowledgeFrame ==
    LET f == Head(toServer)
    IN  /\ mode # "down" /\ toServer # <<>> /\ f.stage = "ack"
        /\ toServer' = Tail(toServer)
        /\ rec' = IF mayAcknowledge(rec[f.e]) THEN [rec EXCEPT ![f.e] = acknowledgeExecution(@)] ELSE rec
        /\ UNCHANGED <<wl, ws, pin, rowFact, mode, faults, disp, scan, hub, toAgent, wire>>
        /\ UNCHANGED producer

-----------------------------------------------------------------------------
(* The rest of the system, and what goes wrong. *)

Fault == faults < MaxFaults /\ faults' = faults + 1

\* The connection breaks: frames to the supervisor are lost, those the controller has are still handled.
disconnect ==
    /\ hub # 0 /\ (Fault \/ (~alive /\ UNCHANGED faults))
    /\ hub' = 0 /\ toAgent' = <<>>
    /\ UNCHANGED <<mode, disp, scan, toServer, wire>> /\ UNCHANGED <<durable, producer>>

\* Mutant of reconnect: the connection is attached without storing its epoch.
ReconnectUnstored ==
    /\ alive /\ hub = 0 /\ mode # "down" /\ ~ws.purge /\ ~ws.ended /\ ws.state = "ready"
    /\ hub' = ws.epoch + 1
    /\ UNCHANGED <<toServer, proc, ws>>
    /\ UNCHANGED <<wl, rec, pin, rowFact, mode, faults, disp, scan, toAgent, wire, service, alive, starts>>

\* The supervisor registers again: a new epoch, and its fact is replayed.
reconnect ==
    /\ alive /\ hub = 0 /\ mode # "down" /\ ~ws.purge /\ ~ws.ended /\ ws.state = "ready"
    /\ ws' = [ws EXCEPT !.epoch = @ + 1]
    /\ hub' = ws.epoch + 1
    /\ toServer' = toServer \o [i \in DOMAIN replay(proc) |-> [replay(proc)[i] EXCEPT !.epoch = ws.epoch + 1]]
    /\ proc' = [proc EXCEPT !.pending = @ \/ (proc.fact = "lost" \/ (proc.fact = "exited" /\ proc.stopped))]
    /\ UNCHANGED <<wl, rec, pin, rowFact, mode, faults, disp, scan, toAgent, wire, service, alive, starts>>

\* The controller stops, losing its memory and its connections.
crash ==
    /\ mode # "down" /\ Fault /\ mode' = "down"
    /\ disp' = InitDisp /\ scan' = NoScan
    /\ hub' = 0 /\ toAgent' = <<>> /\ toServer' = <<>>
    /\ wire' \in {{}} \cup {{[q EXCEPT !.late = TRUE]} : q \in wire}
    /\ UNCHANGED <<durable, producer>>

restart ==
    /\ mode = "down" /\ mode' = "on"
    /\ UNCHANGED <<faults, disp, scan>> /\ UNCHANGED <<durable, network, producer>>

\* Maintenance stops ordinary work before its next step; admitted cancels go on.
maintenance ==
    /\ \/ mode = "on" /\ mode' = "maintenance" /\ Fault
       \/ mode = "maintenance" /\ mode' = "on" /\ UNCHANGED faults
    /\ UNCHANGED <<disp, scan>> /\ UNCHANGED <<durable, network, producer>>

\* The caller loses what a claim needs: the principal is disabled, the deadline passes, the bytes go.
loseAuthority(x) ==
    /\ ws.enabled /\ ~ws.expired /\ ws.stored
    /\ ws' = [ws EXCEPT ![x] = ~@]
    /\ Fault
    /\ UNCHANGED <<wl, rec, pin, rowFact, mode, disp, scan>> /\ UNCHANGED <<network, producer>>

\* The provider dies, its connection to be noticed later, or a purge stops it after fencing the workspace and emptying the queue (drain).
providerStops ==
    /\ alive /\ alive' = FALSE /\ Fault
    /\ toAgent' = <<>> /\ wire' = {}
    /\ service' = [e \in Executions |-> IF service[e] = "running" THEN "absent" ELSE service[e]]
    /\ proc' = [proc EXCEPT !.fact = IF @ = "running" THEN "lost" ELSE @]
    /\ \E purge \in BOOLEAN :
           /\ ws' = [ws EXCEPT !.purge = purge, !.state = IF purge THEN "terminating" ELSE @]
           /\ disp' = IF purge THEN [disp EXCEPT !.queued = NoEntries] ELSE disp
    /\ UNCHANGED <<wl, rec, pin, rowFact, mode, scan, hub, toServer, starts>>

\* The finalizer that sees the provider gone ends its runtime.
runtimeEnds ==
    /\ mode # "down" /\ ~alive /\ ~ws.ended
    /\ endWorkspaceRuntime
    /\ UNCHANGED <<wl, pin, mode, faults, disp, scan>> /\ UNCHANGED <<network, producer>>

-----------------------------------------------------------------------------
TaskStep(e, l) ==
    \/ dispatchRead(e, l) \/ dispatchClaim(e, l) \/ dispatchUnknown(e, l)
    \/ acceptPrepare(e, l) \/ acceptSend(e, l)
    \/ observe(e, l) \/ dispatchReplay(e, l) \/ settleRefused(e, l)
    \/ acknowledge(e, l) \/ finalizeServiceExecution(e, l)

Frame == factFrame \/ absentFrame \/ canceledFrame \/ otherCancelFrame \/ acknowledgeFrame

Next ==
    \/ \E e \in Executions : acceptExecution(e) \/ cancelRoute(e) \/ serviceFinishes(e)
    \/ scanRead \/ scanQueue
    \/ \E e \in Executions, l \in Lanes : TaskStep(e, l) \/ callFails(e, l)
    \/ \E q \in wire : serviceHandles(q)
    \/ handle \/ leaderExits \/ groupStops \/ resend
    \/ Frame
    \/ disconnect \/ reconnect \/ crash \/ restart \/ maintenance
    \/ \E x \in Losses : loseAuthority(x)
    \/ providerStops \/ runtimeEnds

Spec == Init /\ [][Next]_vars

-----------------------------------------------------------------------------
(* Properties. *)

PCs == {"idle", "start", "claim", "unknown", "inputs", "accept", "calling", "observe", "replay",
        "refused", "acked", "finalize"}

TypeOK ==
    /\ rec \in [Executions -> ExecutionRecord]
    /\ pin \in [Executions -> {"none", "pinned", "released"}]
    /\ rowFact \in FactPhase /\ proc.fact \in FactPhase
    /\ \A e \in Executions, l \in Lanes : disp.task[e][l].pc \in PCs
    /\ Cardinality(Running(disp, "ordinary")) <= Concurrency
    /\ hub \in {0, ws.epoch}

\* The producers that may be asked again: a finite process, and a service that looks requests up and takes each
\* one only once.
Reconcilable == Owner = "process" \/ canReconcile

\* An execution of a reconcilable producer is started at most once, whatever is retried, lost or sent again.
StartedOnce == Reconcilable => \A e \in Executions : starts[e] <= 1

\* A weak producer's ambiguous reply never makes the dispatcher send the request once more.
NoAutomaticReplay == ~Reconcilable => \A e \in Executions : starts[e] <= 1

\* An execution recorded as canceled does not run, and a late start frame or request cannot start it.
CanceledNeverRuns ==
    Reconcilable => \A e \in Executions :
        rec[e].phase = "canceled" => service[e] # "running" /\ (proc.of = e => proc.fact = "none")

\* A terminal record is the producer's own end: the whole process group stopped writing, or the service is done.
TerminalIsReal ==
    Reconcilable => \A e \in Executions : rec[e].phase = "terminal" /\ rec[e].outcome # "refused" =>
        IF Owner = "process" THEN proc.of = e /\ proc.fact = "exited" /\ proc.stopped ELSE service[e] = "terminal"

\* Accepted inputs stay pinned while the producer can still read them.
InputsHeld ==
    Reconcilable => \A e \in Executions :
        pin[e] = "released" /\ rec[e].outcome # "refused" => service[e] # "running" /\ proc.of # e

\* What settled stays as it settled.
SettledStays ==
    [][\A e \in Executions : executionSettled(rec[e]) =>
           rec'[e].phase = rec[e].phase /\ rec'[e].outcome = rec[e].outcome]_vars

-----------------------------------------------------------------------------
(* Instances for TLC. *)

Capable == {"request-lookup", "deduplicated-accept", "targeted-cancel"}

\* A finite process that can be looked up, a capable service and a weak one.
MCWorkloads ==
    {[profile |-> "finite-process", capabilities |-> Capable, inputs |-> FALSE],
     [profile |-> "service", capabilities |-> Capable, inputs |-> TRUE],
     [profile |-> "service", capabilities |-> {}, inputs |-> TRUE]}

MCWeak == {w \in MCWorkloads : w.capabilities = {}}

MCConversation == [e \in Executions |-> "c"]
================================================================================
