----------------------------- MODULE RemoteTurns -----------------------------
(***************************************************************************)
(* The turn of a remote client.  The resolver turns the session's          *)
(* workspace into one that is ready, resuming it once for every caller     *)
(* that asks; the turn uploads its files, reads a baseline, opens the      *)
(* event stream, waits for the agent, posts the prompt and looks for the   *)
(* reply on the stream or by polling.  The workspace may end, the stream   *)
(* may break, the post may be lost, the caller may press Escape, quit or   *)
(* run out of time at any point; an ended workspace is retried once.  The  *)
(* live session follows the resolved workspace with its status poller.     *)
(* The agent is external: it takes a prompt only when it is idle.          *)
(***************************************************************************)
EXTENDS Naturals, FiniteSets, Sequences

CONSTANTS
    MaxGen,         \* workspaces a conversation goes through
    MaxFiles,       \* files attached in a behaviour
    MaxTurns,       \* prompts of the session
    MaxMishaps      \* bound on failures outside the client

Gen == 1..MaxGen
Caller == {"turn", "other"}
Prompt == 1..MaxTurns
Foreign == 0        \* the prompt of another client

VARIABLES
    ws,          \* the state of each workspace
    agent,       \* its agent: [busy: the prompts it works on, replies: the prompts it answered]
    parent,      \* the workspace a resumed one came from, 0 for none
    attempts,    \* the resolver's attempt for each source: [phase, waiters, started, cut]
    other,       \* the other caller of the resolver
    pc, turn, tries, current, source,   \* the turn: its step, prompt, retries, workspace and captured target
    baseline, stream, events, submitted, sending, post, deliveries,
    aborted, quitting, interruptLost, result, reply,
    queue, captured, uploaded, committed, files, taken,  \* the attachment queue, the turn's batch and the files prompts took
    target, chosen, mishaps

resolverVars == <<attempts, other, parent>>
batchVars == <<queue, captured, uploaded, committed, files, taken>>
endVars == <<result, reply, interruptLost>>
sendVars == <<baseline, stream, events, submitted, sending, post, deliveries>>
turnVars == <<turn, tries, current, source>>
abortVars == <<aborted, quitting>>
sessionVars == <<target, chosen>>
remoteVars == <<ws, agent, pc, mishaps, resolverVars, batchVars, endVars, sendVars, turnVars, abortVars, sessionVars>>

Idle == [phase |-> "none", waiters |-> {}, started |-> FALSE, cut |-> FALSE]

RemoteInit ==
    /\ \E s \in {"ready", "preserving", "preserved"} : ws = [g \in Gen |-> IF g = 1 THEN s ELSE "none"]
    /\ \E b \in SUBSET {Foreign} : agent = [g \in Gen |-> [busy |-> IF g = 1 THEN b ELSE {}, replies |-> <<>>]]
    /\ parent = [g \in Gen |-> 0] /\ attempts = [g \in Gen |-> Idle] /\ other = "idle"
    /\ pc = "idle" /\ turn = 0 /\ tries = 0 /\ current = 0 /\ source = 0
    /\ baseline = 0 /\ stream = "closed" /\ events = <<>> /\ submitted = FALSE /\ sending = FALSE /\ post = "none" /\ deliveries = 0
    /\ aborted = FALSE /\ quitting = FALSE /\ interruptLost = FALSE /\ result = "none" /\ reply = Foreign
    /\ queue = <<>> /\ captured = 0 /\ uploaded = {} /\ committed = FALSE /\ files = 0 /\ taken = {}
    /\ target = 1 /\ chosen = 1 /\ mishaps = 0

Ready(g) == ws[g] = "ready"
Terminal(g) == ws[g] \in {"preserved", "failed"}    \* what the relay answers workspace.terminal for
Stable(g) == agent[g].busy = {}

-----------------------------------------------------------------------------
\* The resolver.  resolve joins the source's attempt or starts one.
Join(g, c) ==
    attempts' = [attempts EXCEPT ![g] = IF @.phase = "none" THEN [Idle EXCEPT !.phase = "reading", !.waiters = {c}]
                                        ELSE [@ EXCEPT !.waiters = @ \cup {c}]]
\* waitForCaller rejects; an attempt nobody waits for is aborted unless its resume began.
Leave(g, c) == [attempts EXCEPT ![g] = [@ EXCEPT !.waiters = @ \ {c}, !.cut = @ \/ (attempts[g].waiters = {c} /\ ~attempts[g].started)]]

Finish(r) == pc' = "ended" /\ result' = r
FailTurn == Finish("error") /\ UNCHANGED <<reply, interruptLost>>

\* run settles: every waiter gets the workspace, 0 for an error, and the attempt is forgotten.
Settle(g, value) ==
    /\ attempts' = [attempts EXCEPT ![g] = Idle]
    /\ other' = IF "other" \in attempts[g].waiters THEN "idle" ELSE other
    /\ IF "turn" \notin attempts[g].waiters THEN UNCHANGED <<pc, current, result, reply, interruptLost>>
       ELSE IF value = 0 THEN FailTurn /\ UNCHANGED current
       ELSE pc' = "upload" /\ current' = value /\ UNCHANGED endVars
resolverRest == <<turn, tries, source, sendVars, abortVars, batchVars, sessionVars>>

\* get: a ready source is the answer, a preserved one is resumed, any other cannot be.
run(g) ==
    /\ attempts[g].phase = "reading" /\ ~attempts[g].cut
    /\ \/ Ready(g) /\ Settle(g, g)
       \/ ws[g] = "failed" /\ Settle(g, 0)
       \/ /\ ws[g] \in {"preserving", "preserved"}
          /\ attempts' = [attempts EXCEPT ![g].phase = IF ws[g] = "preserving" THEN "preserving" ELSE "resuming",
                                          ![g].started = ws[g] = "preserved"]
          /\ UNCHANGED <<pc, current, endVars, other>>
    /\ UNCHANGED <<ws, agent, parent, mishaps, resolverRest>>
waitForPreserved(g) ==
    /\ attempts[g].phase = "preserving" /\ ~attempts[g].cut
    /\ \/ ws[g] = "preserved" /\ attempts' = [attempts EXCEPT ![g].phase = "resuming", ![g].started = TRUE]
          /\ UNCHANGED <<pc, current, endVars, other>>
       \/ ws[g] \in {"failed", "ready"} /\ Settle(g, 0)
    /\ UNCHANGED <<ws, agent, parent, mishaps, resolverRest>>
\* resumeWorkspace and its lineage: a new workspace restored from the source, then waitForReady.
resumeWorkspace(g) ==
    /\ attempts[g].phase = "resuming" /\ \E n \in Gen : ws[n] = "none"
    /\ LET n == CHOOSE n \in Gen : ws[n] = "none" /\ \A m \in 1..(n - 1) : ws[m] # "none" IN
       /\ ws' = [ws EXCEPT ![n] = "ready"] /\ parent' = [parent EXCEPT ![n] = g]
       /\ Settle(g, n)
    /\ UNCHANGED <<agent, mishaps, resolverRest>>
resolveFails(g) ==
    /\ attempts[g].phase # "none" /\ (attempts[g].cut \/ (mishaps < MaxMishaps))
    /\ mishaps' = IF attempts[g].cut THEN mishaps ELSE mishaps + 1
    /\ Settle(g, 0)
    /\ UNCHANGED <<ws, agent, parent, resolverRest>>
otherResolve ==
    /\ other = "idle" /\ Join(1, "other") /\ other' = "waiting"
    /\ UNCHANGED <<ws, agent, parent, pc, mishaps, current, endVars, resolverRest>>
otherAborts ==
    /\ other = "waiting" /\ attempts' = Leave(1, "other") /\ other' = "gone"
    /\ UNCHANGED <<ws, agent, parent, pc, mishaps, current, endVars, resolverRest>>

-----------------------------------------------------------------------------
\* The session's user.
attach ==
    /\ files < MaxFiles /\ files' = files + 1 /\ queue' = Append(queue, files + 1)
    /\ UNCHANGED <<ws, agent, pc, mishaps, resolverVars, captured, uploaded, committed, taken, endVars, sendVars, turnVars, abortVars, sessionVars>>
\* switchToWorkspace: another object, even for the same workspace.
switchToWorkspace ==
    /\ \E g \in Gen : ws[g] # "none" /\ g # target /\ target' = g /\ chosen' = g
    /\ UNCHANGED <<ws, agent, pc, mishaps, resolverVars, batchVars, endVars, sendVars, turnVars, abortVars>>
\* remoteStream: captures the target and the queue.
executeRemoteTurn ==
    /\ pc \in {"idle", "ended"} /\ turn < MaxTurns /\ ~quitting
    /\ turn' = turn + 1 /\ tries' = 0 /\ source' = target /\ chosen' = 0 /\ current' = 0
    /\ captured' = Len(queue) /\ uploaded' = {} /\ committed' = FALSE
    /\ aborted' = FALSE /\ interruptLost' = FALSE /\ result' = "none" /\ reply' = Foreign
    /\ submitted' = FALSE /\ sending' = FALSE /\ post' = "none" /\ deliveries' = 0 /\ stream' = "closed" /\ events' = <<>> /\ baseline' = 0
    /\ Join(target, "turn") /\ pc' = "resolve"
    /\ UNCHANGED <<ws, agent, mishaps, parent, other, quitting, target, queue, files, taken>>

\* A request the relay refused: the workspace ended.  It is tried once more, on its successor.
RetryAlways == tries = 0
isRetryableTerminal == tries = 0 /\ ~submitted
RetryOrFail ==
    IF isRetryableTerminal
    THEN /\ tries' = 1 /\ Join(current, "turn") /\ pc' = "resolve"
         /\ UNCHANGED <<turn, current, source, endVars, other, parent>>
    ELSE FailTurn /\ UNCHANGED <<turnVars, resolverVars>>
\* What a refused request does: a workspace that is only preserving is not ready, an error like any other.
Refused == ~Ready(current) /\ (IF Terminal(current) THEN RetryOrFail ELSE FailTurn /\ UNCHANGED <<turnVars, resolverVars>>)

\* upload: the batch keeps its ids, so a retry uploads the same files to the next workspace.
upload ==
    /\ pc = "upload"
    /\ \/ Ready(current) /\ uploaded' = {queue[i] : i \in 1..captured} /\ pc' = "baseline" /\ UNCHANGED <<turnVars, resolverVars, endVars>>
       \/ Refused /\ UNCHANGED uploaded
    /\ UNCHANGED <<ws, agent, mishaps, queue, captured, committed, files, taken, sendVars, abortVars, sessionVars>>
\* messages, workspaceChange and eventStream before the prompt.
initialReads ==
    /\ pc = "baseline"
    /\ \/ /\ Ready(current) /\ baseline' = Len(agent[current].replies) /\ pc' = "wait"
          /\ \E s \in {"open", "closed"} : stream' = s
          /\ events' = IF stream' = "open" THEN <<Stable(current)>> ELSE <<>>
          /\ UNCHANGED <<turnVars, resolverVars, endVars>>
       \/ Refused /\ UNCHANGED <<baseline, stream, events>>
    /\ UNCHANGED <<ws, agent, mishaps, batchVars, submitted, sending, post, deliveries, abortVars, sessionVars>>
\* waitForInput, then the post leaves.
waitForInput ==
    /\ pc = "wait"
    /\ \/ Ready(current) /\ Stable(current) /\ sending' = TRUE /\ post' = "flying" /\ pc' = "sending"
          /\ UNCHANGED <<turnVars, resolverVars, endVars>>
       \/ Refused /\ UNCHANGED <<sending, post>>
    /\ UNCHANGED <<ws, agent, mishaps, batchVars, baseline, stream, events, submitted, deliveries, abortVars, sessionVars>>

\* External: the relay or the agent takes the post, or refuses it.
deliver ==
    /\ post = "flying"
    /\ \/ /\ Ready(current) /\ Stable(current)
          /\ agent' = [agent EXCEPT ![current].busy = {turn}]
          /\ post' = "accepted" /\ deliveries' = deliveries + 1
          /\ events' = IF stream = "open" THEN Append(events, FALSE) ELSE events
       \/ ~(Ready(current) /\ Stable(current)) /\ post' = (IF Terminal(current) THEN "terminal" ELSE "refused") /\ UNCHANGED <<agent, events, deliveries>>
    /\ UNCHANGED <<ws, pc, mishaps, resolverVars, batchVars, endVars, baseline, stream, submitted, sending, turnVars, abortVars, sessionVars>>
\* The connection of the post breaks; what the agent took it keeps.
postLost ==
    /\ pc = "sending" /\ post \in {"flying", "accepted"} /\ mishaps < MaxMishaps
    /\ mishaps' = mishaps + 1 /\ post' = "lost"
    /\ UNCHANGED <<ws, agent, pc, resolverVars, batchVars, endVars, baseline, stream, events, submitted, sending, deliveries, turnVars, abortVars, sessionVars>>

\* onAbortAfterSend: quitting leaves the turn running, anything else interrupts it.
Interrupt ==
    /\ IF quitting THEN UNCHANGED <<agent, mishaps, interruptLost>>
       ELSE \/ agent' = [agent EXCEPT ![current].busy = {}] /\ UNCHANGED <<mishaps, interruptLost>>
            \/ mishaps < MaxMishaps /\ mishaps' = mishaps + 1 /\ interruptLost' = TRUE /\ UNCHANGED agent
EndAborted ==
    /\ Finish("aborted") /\ UNCHANGED reply
    /\ IF sending THEN Interrupt ELSE UNCHANGED <<agent, mishaps, interruptLost>>

\* commit drops what the batch captured and nothing attached since.
CommitAll == <<>>
commit == IF committed THEN queue ELSE SubSeq(queue, captured + 1, Len(queue))
SubmitEnds == post \in {"accepted", "terminal", "refused", "lost"}
submit ==
    /\ pc = "sending" /\ SubmitEnds
    /\ IF aborted THEN EndAborted /\ UNCHANGED <<submitted, queue, committed, taken, turnVars, resolverVars>>
       ELSE IF post = "accepted"
       THEN /\ submitted' = TRUE /\ committed' = TRUE /\ taken' = taken \cup uploaded
            /\ queue' = commit
            /\ pc' = IF stream = "open" THEN "events" ELSE "poll"
            /\ UNCHANGED <<agent, mishaps, endVars, turnVars, resolverVars>>
       ELSE (IF post = "terminal" THEN RetryOrFail ELSE FailTurn /\ UNCHANGED <<turnVars, resolverVars>>)
            /\ UNCHANGED <<submitted, committed, queue, taken, agent, mishaps>>
    /\ UNCHANGED <<ws, captured, uploaded, files, baseline, stream, events, sending, post, deliveries, abortVars, sessionVars>>

\* The last reply after the baseline.
lastReply == IF Len(agent[current].replies) > baseline THEN Len(agent[current].replies) ELSE 0
Reply == Finish("reply") /\ reply' = agent[current].replies[lastReply] /\ UNCHANGED interruptLost
\* onEvent: a stable status after the prompt was taken looks for the reply.
onEvent ==
    /\ stream = "open" /\ events # <<>> /\ pc \in {"wait", "sending", "events"}
    /\ events' = Tail(events)
    /\ ~(Head(events) /\ submitted) \/ Ready(current)
    /\ IF Head(events) /\ submitted /\ lastReply # 0 THEN Reply ELSE UNCHANGED <<pc, endVars>>
    /\ UNCHANGED <<ws, agent, mishaps, resolverVars, batchVars, baseline, stream, submitted, sending, post, deliveries, turnVars, abortVars, sessionVars>>
\* nextEventStream: a broken stream is opened again once the prompt was taken, or polling takes over.
consumeEvents ==
    /\ \/ stream = "open" /\ pc \in {"wait", "sending", "events"} /\ mishaps < MaxMishaps /\ mishaps' = mishaps + 1
          /\ stream' = "broken" /\ events' = <<>> /\ UNCHANGED pc
       \/ stream = "broken" /\ submitted /\ pc \in {"events", "poll"} /\ UNCHANGED mishaps
          /\ \/ Ready(current) /\ stream' = "open" /\ events' = <<Stable(current)>> /\ pc' = "events"
             \/ stream' = "closed" /\ pc' = "poll" /\ UNCHANGED events
    /\ UNCHANGED <<ws, agent, resolverVars, batchVars, endVars, baseline, submitted, sending, post, deliveries, turnVars, abortVars, sessionVars>>
pollForReply ==
    /\ pc = "poll" /\ stream = "closed" /\ Ready(current) /\ Stable(current) /\ lastReply # 0 /\ Reply
    /\ UNCHANGED <<ws, agent, mishaps, resolverVars, batchVars, sendVars, turnVars, abortVars, sessionVars>>
\* A request after the prompt was taken meets an ended workspace.
replyFails ==
    /\ pc \in {"events", "poll"} /\ (stream = "open" => events # <<>> /\ Head(events)) /\ Refused
    /\ UNCHANGED <<ws, agent, mishaps, batchVars, sendVars, abortVars, sessionVars>>

\* The caller's signal; the post alone is finished before it is heeded.
callerAborts ==
    /\ pc \notin {"idle", "ended"} /\ ~aborted /\ aborted' = TRUE /\ \E q \in BOOLEAN : quitting' = q
    /\ UNCHANGED <<ws, agent, pc, mishaps, resolverVars, batchVars, endVars, sendVars, turnVars, sessionVars>>
abortTurn ==
    /\ aborted /\ pc \in {"resolve", "upload", "baseline", "wait", "events", "poll"}
    /\ attempts' = IF pc = "resolve" THEN Leave(IF tries = 0 THEN source ELSE current, "turn") ELSE attempts
    /\ EndAborted
    /\ UNCHANGED <<ws, parent, other, batchVars, sendVars, turnVars, abortVars, sessionVars>>
\* The turn's own timer ends every request; the remote turn is left alone.
timeout ==
    /\ pc \in {"baseline", "wait", "sending", "events", "poll"} /\ mishaps < MaxMishaps /\ mishaps' = mishaps + 1
    /\ Finish("timeout") /\ UNCHANGED <<reply, interruptLost>>
    /\ post' = IF post = "flying" THEN "lost" ELSE post
    /\ UNCHANGED <<ws, agent, resolverVars, batchVars, baseline, stream, events, submitted, sending, deliveries, turnVars, abortVars, sessionVars>>

\* applyResolved: compareAndSwap on the target the turn started from.
SwapAnyway == TRUE
compareAndSwap == target = source /\ chosen = 0
applyResolved ==
    /\ pc = "ended" /\ result = "reply" /\ source # current /\ target # current /\ compareAndSwap
    /\ target' = current
    /\ UNCHANGED <<ws, agent, pc, mishaps, resolverVars, batchVars, endVars, sendVars, turnVars, abortVars, chosen>>

-----------------------------------------------------------------------------
\* External: the agent and the workspace.
agentAnswers(g) ==
    /\ Ready(g) /\ agent[g].busy # {}
    /\ agent' = [agent EXCEPT ![g] = [busy |-> {}, replies |-> Append(@.replies, CHOOSE p \in agent[g].busy : TRUE)]]
    /\ events' = IF g = current /\ stream = "open" THEN Append(events, TRUE) ELSE events
    /\ UNCHANGED <<ws, pc, mishaps, resolverVars, batchVars, endVars, baseline, stream, submitted, sending, post, deliveries, turnVars, abortVars, sessionVars>>
workspaceEnds(g) ==
    /\ \/ Ready(g) /\ mishaps < MaxMishaps /\ mishaps' = mishaps + 1 /\ ws' = [ws EXCEPT ![g] = "preserving"] /\ UNCHANGED agent
       \/ /\ ws[g] = "preserving" /\ UNCHANGED mishaps
          /\ \E s \in {"preserved", "failed"} : ws' = [ws EXCEPT ![g] = s]
          /\ agent' = [agent EXCEPT ![g].busy = {}]
    /\ UNCHANGED <<pc, resolverVars, batchVars, endVars, sendVars, turnVars, abortVars, sessionVars>>

RemoteNext ==
    \/ \E g \in Gen : run(g) \/ waitForPreserved(g) \/ resumeWorkspace(g) \/ resolveFails(g) \/ agentAnswers(g) \/ workspaceEnds(g)
    \/ otherResolve \/ otherAborts \/ attach \/ switchToWorkspace \/ executeRemoteTurn \/ upload \/ initialReads \/ waitForInput
    \/ deliver \/ postLost \/ submit \/ onEvent \/ consumeEvents \/ pollForReply \/ replyFails \/ callerAborts \/ abortTurn \/ timeout
    \/ applyResolved

-----------------------------------------------------------------------------
\* An event says whether the agent was stable.  The stream still has the one that says it took the prompt.
TakenUnread == \E i \in DOMAIN events : ~events[i]
=============================================================================
