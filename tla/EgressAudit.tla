----------------------------- MODULE EgressAudit -----------------------------
(***************************************************************************)
(* The egress sidecar of a restricted workspace: the HTTP/CONNECT proxy,   *)
(* which admits a request while the audit buffer has room, matches the     *)
(* policy, resolves the name and connects to the address it judged; the    *)
(* audit queue, which uploads what the proxy recorded in batches and       *)
(* retries; the server's side, which keeps one row per event; and the      *)
(* relay of the agent's control connection.  The names service, the        *)
(* destinations and the network of the upload are external.                *)
(***************************************************************************)
EXTENDS Naturals, FiniteSets, Sequences, SequencesExt

CONSTANTS
    Request,      \* requests of the workspace
    Host,         \* the names it asks for, as sequences of labels from the root
    Policy,       \* the allow rules in order: [domain, wild, port, allowPrivate]
    MaxEvents,    \* MAX_EVENTS of the buffer
    Batch,        \* events of one upload
    MaxFrames,    \* control frames of the agent
    MaxFaults     \* bound on lost answers, refusals and a restart of the sidecar

Port == {80, 443}
Address == {"public", "private"}
NoRule == 0

VARIABLES
    requests,   \* each request: [pc, host, port, rule, answers: the resolved addresses, to: where it went]
    buffer,     \* AuditQueue.events: the sequence numbers
    sequence,   \* the proxy's counter
    session,    \* sourceSessionId
    upload,     \* [phase, batch]
    kept,       \* the events the buffer accepted, by session
    released,   \* those the buffer let go after an answer
    rows,       \* workspaceNetworkEvents
    purged,     \* the workspace's content is no longer writable
    assigned,   \* the runtime has a workspace: a warm one has none before its lease
    agentSent, pending, upstream, serverGot,   \* the control relay
    faults

auditVars == <<buffer, sequence, session, upload, kept, released>>
serverVars == <<rows, purged, assigned>>
relayVars == <<agentSent, pending, upstream, serverGot>>
egressVars == <<requests, auditVars, serverVars, relayVars, faults>>

NoUpload == [phase |-> "idle", batch |-> <<>>]
Fresh == [pc |-> "new", host |-> <<>>, port |-> 80, rule |-> NoRule, answers |-> <<>>, to |-> "none"]

EgressInit ==
    /\ requests = [r \in Request |-> Fresh]
    /\ buffer = <<>> /\ sequence = 0 /\ session = 1 /\ upload = NoUpload /\ kept = {} /\ released = {}
    /\ rows = <<>> /\ purged = FALSE /\ assigned \in BOOLEAN
    /\ agentSent = 0 /\ pending = <<>> /\ upstream = "connecting" /\ serverGot = <<>> /\ faults = 0

Fault == faults < MaxFaults /\ faults' = faults + 1

-----------------------------------------------------------------------------
\* The policy.
matchesDomain(rule, host) ==
    IF rule.wild THEN Len(host) > Len(rule.domain) /\ IsPrefix(rule.domain, host) ELSE host = rule.domain
\* find: the first rule that matches decides, whatever a later one would allow.
findNetworkRule(host, port) ==
    LET hits == {i \in DOMAIN Policy : Policy[i].port = port /\ matchesDomain(Policy[i], host)}
    IN  IF hits = {} THEN NoRule ELSE CHOOSE i \in hits : \A j \in hits : i <= j
\* validate: any private answer refuses the name unless the rule allows private addresses.
FirstIsPublic(rule, answers) == answers # <<>> /\ (Policy[rule].allowPrivate \/ answers[1] # "private")
judged(rule, answers) == answers # <<>> /\ (Policy[rule].allowPrivate \/ \A i \in DOMAIN answers : answers[i] # "private")

\* The audit queue.
canAccept == Len(buffer) < MaxEvents
\* record: the counter moves even when the buffer is full and record throws.
record ==
    /\ sequence' = sequence + 1
    /\ IF Len(buffer) >= MaxEvents THEN UNCHANGED <<buffer, kept>>
       ELSE buffer' = Append(buffer, sequence + 1) /\ kept' = kept \cup {<<session, sequence + 1>>}
    /\ UNCHANGED <<session, upload, released>>
End(r, pc) == requests' = [requests EXCEPT ![r].pc = pc]

\* A request arrives.  A malformed target is recorded and refused.
admit(r) ==
    /\ requests[r].pc = "new"
    /\ IF ~canAccept THEN End(r, "busy") /\ UNCHANGED auditVars
       ELSE \/ End(r, "malformed") /\ record
            \/ \E h \in Host, p \in Port :
                  /\ requests' = [requests EXCEPT ![r] = [@ EXCEPT !.pc = "resolving", !.host = h, !.port = p, !.rule = findNetworkRule(h, p)]]
                  /\ UNCHANGED auditVars
    /\ UNCHANGED <<serverVars, relayVars, faults>>
\* validate ends: the name has no rule, does not resolve, has a private address, or may be reached.
validate(r) ==
    /\ requests[r].pc = "resolving"
    /\ IF requests[r].rule = NoRule THEN End(r, "denied") /\ record
       ELSE \E answers \in {<<>>} \cup {<<a>> : a \in Address} \cup {<<a, b>> : a, b \in Address} :
            IF ~judged(requests[r].rule, answers) THEN End(r, "denied") /\ record
            ELSE /\ requests' = [requests EXCEPT ![r] = [@ EXCEPT !.pc = "judged", !.answers = answers]]
                 /\ UNCHANGED auditVars
    /\ UNCHANGED <<serverVars, relayVars, faults>>
\* The upstream request goes to the address that was judged, not to the name; then the allow event.
ResolveAgain(r) == CHOOSE a \in Address : a = "private"
upstreamAddress(r) == requests[r].answers[1]
forward(r) ==
    /\ requests[r].pc = "judged"
    /\ requests' = [requests EXCEPT ![r] = [@ EXCEPT !.pc = "open", !.to = upstreamAddress(r)]]
    /\ record
    /\ UNCHANGED <<serverVars, relayVars, faults>>
\* connect of a CONNECT that never opens: the client is destroyed without an event.
connectFails(r) ==
    /\ requests[r].pc = "judged" /\ End(r, "failed")
    /\ UNCHANGED <<auditVars, serverVars, relayVars, faults>>

-----------------------------------------------------------------------------
\* flush.
startUpload ==
    /\ upload.phase = "idle" /\ buffer # <<>>
    /\ upload' = [phase |-> "sent", batch |-> SubSeq(buffer, 1, IF Len(buffer) < Batch THEN Len(buffer) ELSE Batch)]
    /\ UNCHANGED <<requests, buffer, sequence, session, kept, released, serverVars, relayVars, faults>>
\* appendNetworkEvents: one transaction; an event of the session the table has is skipped.
InsertAll(batch) == [i \in DOMAIN batch |-> <<session, batch[i]>>]
newRows(batch) == SelectSeq([i \in DOMAIN batch |-> <<session, batch[i]>>], LAMBDA e : e \notin {rows[i] : i \in DOMAIN rows})
appendNetworkEvents ==
    /\ upload.phase = "sent" /\ assigned
    /\ rows' = IF purged THEN rows ELSE rows \o newRows(upload.batch)
    /\ upload' = [upload EXCEPT !.phase = "answered"]
    /\ UNCHANGED <<requests, buffer, sequence, session, kept, released, purged, assigned, relayVars, faults>>
\* 409 before the lease, an error of the server, or an answer that is lost: the batch stays and is sent again.
uploadFails ==
    /\ upload.phase \in {"sent", "answered"} /\ (IF upload.phase = "sent" /\ ~assigned THEN UNCHANGED faults ELSE Fault)
    /\ upload' = NoUpload
    /\ UNCHANGED <<requests, buffer, sequence, session, kept, released, serverVars, relayVars>>
SpliceAll == <<>>
splice == SubSeq(buffer, Len(upload.batch) + 1, Len(buffer))
finishUpload ==
    /\ upload.phase = "answered"
    /\ released' = released \cup ({<<session, buffer[i]>> : i \in DOMAIN buffer} \ {<<session, splice[i]>> : i \in DOMAIN splice})
    /\ buffer' = splice /\ upload' = NoUpload
    /\ UNCHANGED <<requests, sequence, session, kept, serverVars, relayVars, faults>>
\* main: a restarted sidecar has a new session and an empty buffer.
restart ==
    /\ session = 1 /\ Fault /\ session' = 2 /\ buffer' = <<>> /\ sequence' = 0 /\ upload' = NoUpload
    /\ requests' = [r \in Request |-> IF requests[r].pc \in {"resolving", "judged"} THEN [requests[r] EXCEPT !.pc = "failed"] ELSE requests[r]]
    /\ pending' = <<>> /\ upstream' = "closed"
    /\ UNCHANGED <<kept, released, serverVars, agentSent, serverGot>>
\* External to the sidecar: the lease of a warm runtime, and the purge of the content.
lease == ~assigned /\ assigned' = TRUE /\ UNCHANGED <<requests, auditVars, rows, purged, relayVars, faults>>
purge == ~purged /\ assigned /\ purged' = TRUE /\ UNCHANGED <<requests, auditVars, rows, assigned, relayVars, faults>>

-----------------------------------------------------------------------------
\* startControlRelay: frames wait until the upstream opens and keep their order.
SendNow == serverGot' = Append(serverGot, agentSent + 1) /\ UNCHANGED pending
relayFrame == IF upstream = "open" THEN SendNow ELSE pending' = Append(pending, agentSent + 1) /\ UNCHANGED serverGot
agentFrame ==
    /\ upstream # "closed" /\ agentSent < MaxFrames /\ agentSent' = agentSent + 1 /\ relayFrame
    /\ UNCHANGED <<requests, auditVars, serverVars, upstream, faults>>
upstreamOpen ==
    /\ upstream = "connecting" /\ upstream' = "open" /\ serverGot' = serverGot \o pending /\ pending' = <<>>
    /\ UNCHANGED <<requests, auditVars, serverVars, agentSent, faults>>
upstreamClose ==
    /\ upstream # "closed" /\ Fault /\ upstream' = "closed" /\ pending' = <<>>
    /\ UNCHANGED <<requests, auditVars, serverVars, agentSent, serverGot>>

EgressNext ==
    \/ \E r \in Request : admit(r) \/ validate(r) \/ forward(r) \/ connectFails(r)
    \/ startUpload \/ appendNetworkEvents \/ uploadFails \/ finishUpload \/ restart \/ lease \/ purge
    \/ agentFrame \/ upstreamOpen \/ upstreamClose

-----------------------------------------------------------------------------
\* Traffic goes only to an address the policy judged: its rule matched the name and, unless it allows private addresses, no
\* answer of the name was private (proxy.ts validate).  The server's rows tell each recorded event once and in the order of its
\* session, and an event leaves the buffer only after the server has it or may no longer keep it (audit.ts flush).  The server
\* gets the agent's control frames in their order, without a gap (relay.ts).
EgressIsAccounted ==
    /\ \A r \in Request : requests[r].pc = "open" =>
          /\ requests[r].rule # NoRule /\ matchesDomain(Policy[requests[r].rule], requests[r].host)
          /\ requests[r].to = "private" => Policy[requests[r].rule].allowPrivate
          /\ ~Policy[requests[r].rule].allowPrivate => "private" \notin {requests[r].answers[i] : i \in DOMAIN requests[r].answers}
    /\ \A i, j \in DOMAIN rows : (i < j /\ rows[i][1] = rows[j][1]) => rows[i][2] < rows[j][2]
    /\ {rows[i] : i \in DOMAIN rows} \subseteq kept
    /\ released \subseteq {rows[i] : i \in DOMAIN rows} \/ purged
    /\ serverGot = [i \in 1..Len(serverGot) |-> i]
=============================================================================
