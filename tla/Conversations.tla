----------------------------- MODULE Conversations -----------------------------
(***************************************************************************)
(* Conversation history.  A request is accepted, its turn is collected in  *)
(* controller memory frame by frame, and the finished turn is written as   *)
(* one record of a document.  Documents are shared by a workspace and the  *)
(* workspaces restored from it; they are deleted, expire, and are          *)
(* converted from the rows of an earlier release.                          *)
(*                                                                         *)
(* All turns belong to one conversation, document "c"; messages without    *)
(* identity go to a document of their workspace.  A message is one byte.   *)
(***************************************************************************)
EXTENDS Naturals, Sequences, SequencesExt, FiniteSets, FiniteSetsExt

CONSTANTS
    Ws, Turn,
    LegacyRows,     \* the rows an earlier release left, one sequence of [turn, event] per workspace
    Keep,           \* retention after a workspace's end
    MaxTime, MaxMessages, MaxBytes, MaxFrames,
    MaxTroubles     \* bound on restarts, failed writes, deletions, purges and steps of the clock together

VARIABLES
    doc,        \* document |-> [status, ws, recs, last, expires, set]
    charged,    \* bytes counted against each workspace
    gone,       \* workspaces whose history was deleted
    request,    \* turn |-> [ws, phase]: the receipt and the execution's phase
    wsp,        \* workspace |-> [ended, fenced]: when it ended, and a requested purge
    queue,      \* frames of a turn that wait for their predecessor
    turns,      \* the open turns: [up, rev, fact, terminal]
    saving,     \* turns being written: [key, by, rev, fact, status]
    prune,      \* documents read for retention, each with the end it read
    legacy,     \* rows still to convert
    boot,       \* turns to record as interrupted before producers reconnect
    now, sent, troubles,
    lost        \* turn |-> "no", or how a restart lost the live messages of the dispatched turn: "named" with a receipt
                \* that names its workspace, "bare" without

conversationVars ==
    <<doc, charged, gone, request, wsp, queue, turns, saving, prune, legacy, boot, now, sent, troubles, lost>>

TurnKey == Ws \X Turn
Docs == {"c"} \cup Ws
NoTurn == [up |-> FALSE, rev |-> 0, fact |-> FALSE, terminal |-> "none"]
NoDoc == [status |-> "none", ws |-> "none", recs |-> <<>>, last |-> 0, expires |-> 0, set |-> FALSE]
Live == \A w \in Ws : legacy[w] = <<>>          \* conversion runs before the server serves
\* The store is new, or an earlier release left rows, which count as one frame.
ConversationInit ==
    /\ doc = [d \in Docs |-> NoDoc] /\ gone = {} /\ legacy \in {LegacyRows, [w \in Ws |-> <<>>]}
    /\ charged = [w \in Ws |-> Len(legacy[w])]
    /\ request = [t \in Turn |-> [ws |-> "none", phase |-> "none"]]
    /\ wsp = [w \in Ws |-> [ended |-> 0, fenced |-> FALSE]]
    /\ queue = [k \in TurnKey |-> <<>>] /\ turns = [k \in TurnKey |-> NoTurn] /\ saving = {} /\ prune = {} /\ boot = {}
    /\ now = 1 /\ sent = (IF Live THEN 0 ELSE 1) /\ troubles = 0
    /\ lost = [t \in Turn |-> "no"]

database == <<doc, charged, gone>>
live == <<queue, turns, saving, boot, lost>>
counters == <<now, sent, troubles>>
Trouble == troubles < MaxTroubles /\ troubles' = troubles + 1

-----------------------------------------------------------------------------
(* Documents and records. *)

Size(r) == r.to - r.from + 1
RecsOf(d) == ToSet(doc[d].recs)
Keys(d) == {r.key : r \in RecsOf(d)}
\* The messages that workspaces ws wrote to document d, by their numbers.
Messages(d, ws) == UNION {r.from..r.to : r \in {r \in RecsOf(d) : r.ws \in ws}}
\* insertRecord: the next sequence numbers; the conversation is active again.
insertRecord(old, w, key, n, status) ==
    [old EXCEPT !.status = IF @ = "none" THEN "retained" ELSE @, !.ws = w, !.last = @ + n, !.expires = 0, !.set = FALSE,
        !.recs = Append(@, [key |-> key, ws |-> w, from |-> old.last + 1, to |-> old.last + n, status |-> status])]
\* lockDocument: created by its first record, under the lock.
lockDocument(d, w) == IF doc[d].status = "none" THEN [NoDoc EXCEPT !.status = "retained", !.ws = w] ELSE doc[d]
\* Mutant of chargeWorkspace: the workspace's own deletion is not asked for.
ChargeOnly(w, n) == charged[w] + n <= MaxBytes
chargeWorkspace(w, n) == w \notin gone /\ charged[w] + n <= MaxBytes
\* writeRecord: what makes a write impossible for good.
refused(d, w, n) ==
    \/ wsp[w].fenced \/ lockDocument(d, w).status # "retained"
    \/ Cardinality(Messages(d, Ws)) + n > MaxMessages \/ ~chargeWorkspace(w, n)
writeRecord(d, w, key, n, status) ==
    IF key \in Keys(d) THEN UNCHANGED <<doc, charged>>
    ELSE /\ doc' = [doc EXCEPT ![d] = insertRecord(lockDocument(d, w), w, key, n, status)]
         /\ charged' = [charged EXCEPT ![w] = @ + n]
\* withTerminalFact: an interrupted turn without the producer's terminal fact gets one.
messages(s) == (IF s.rev > 0 THEN 1 ELSE 0) + (IF s.fact \/ s.status = "interrupted" THEN 1 ELSE 0)

\* clearConversations: records go, the tombstone stays, the quota gets its bytes back.
Freed(w, ds) == Cardinality(UNION {{d} \X Messages(d, {w}) : d \in ds})
AtLeastZero(a, b) == IF a > b THEN a - b ELSE 0
\* Mutant of clearConversations: the bytes go to the workspace that wrote last.
RefundsLast(ds, status) ==
    /\ doc' = [d \in Docs |-> IF d \in ds THEN [doc[d] EXCEPT !.status = status, !.recs = <<>>, !.expires = 0] ELSE doc[d]]
    /\ charged' = [w \in Ws |-> AtLeastZero(charged[w], Cardinality(UNION {{d} \X Messages(d, Ws) : d \in {d \in ds : doc[d].ws = w}}))]
clearConversations(ds, status) ==
    /\ doc' = [d \in Docs |-> IF d \in ds THEN [doc[d] EXCEPT !.status = status, !.recs = <<>>, !.expires = 0] ELSE doc[d]]
    /\ charged' = [w \in Ws |-> AtLeastZero(charged[w], Freed(w, ds))]
\* conversationIds: the documents one workspace wrote to.
conversationIds(w) == {d \in Docs : doc[d].status # "none" /\ (doc[d].ws = w \/ \E r \in RecsOf(d) : r.ws = w)}

-----------------------------------------------------------------------------
(* Requests. *)

\* acceptConversationRequest: a replay moves the unfinished turn to the workspace that replays it.
acceptConversationRequest(w, t) ==
    /\ Live /\ ~wsp[w].fenced /\ request[t].ws # w /\ request' = [request EXCEPT ![t].ws = w]
    /\ UNCHANGED <<database, wsp, live, prune, legacy, counters>>
Running(t) == request[t].phase \in {"accepted", "running"}
\* startExecution: one unfinished request at a time; an existing receipt takes the execution, otherwise a row without a
\* workspace is inserted.
insertConversationExecution(w, t) ==
    /\ Live /\ ~wsp[w].fenced /\ wsp[w].ended = 0 /\ request[t].phase = "none" /\ \A u \in Turn : ~Running(u)
    /\ request' = [request EXCEPT ![t].phase = "accepted", ![t].ws = IF @ = "none" THEN "null" ELSE @]
    /\ UNCHANGED <<database, wsp, live, prune, legacy, counters>>
dispatch(t) ==
    /\ request[t].phase = "accepted" /\ request' = [request EXCEPT ![t].phase = "running"]
    /\ UNCHANGED <<database, wsp, live, prune, legacy, counters>>
finalize(t) ==
    /\ request[t].phase = "running" /\ request' = [request EXCEPT ![t].phase = "final"]
    /\ UNCHANGED <<database, wsp, live, prune, legacy, counters>>
isAccepted(t) == request[t].ws # "none"

-----------------------------------------------------------------------------
(* Live turns. *)

\* receive: frames of one turn are applied in arrival order; 0 is the terminal fact, others are revisions of one event.
receive(k, f) ==
    /\ Live /\ boot = {} /\ sent < MaxFrames /\ sent' = sent + 1 /\ queue' = [queue EXCEPT ![k] = Append(@, f)]
    /\ UNCHANGED <<database, request, wsp, turns, saving, prune, legacy, boot, now, troubles, lost>>
ByQueue(k) == \E s \in saving : s.key = k /\ s.by = "queue"
\* apply, first await: a turn that is not open opens if its request was accepted; otherwise the frame fails.
openTurn(k) ==
    /\ queue[k] # <<>> /\ ~turns[k].up /\ ~ByQueue(k)
    /\ IF isAccepted(k[2]) THEN turns' = [turns EXCEPT ![k] = [NoTurn EXCEPT !.up = TRUE]] /\ UNCHANGED queue
       ELSE queue' = [queue EXCEPT ![k] = Tail(@)] /\ UNCHANGED turns
    /\ UNCHANGED <<database, request, wsp, saving, prune, legacy, boot, lost, counters>>
Saving(k, by, turn, status) == [key |-> k, by |-> by, rev |-> turn.rev, fact |-> turn.fact, status |-> status]
\* Mutant of apply: an older revision replaces a newer one.
ApplyAny(k) ==
    /\ queue[k] # <<>> /\ turns[k].up /\ ~ByQueue(k)
    /\ IF Head(queue[k]) = 0 /\ ~turns[k].fact
       THEN /\ saving' = saving \cup {Saving(k, "queue", [turns[k] EXCEPT !.fact = TRUE], "completed")}
            /\ turns' = [turns EXCEPT ![k] = NoTurn] /\ UNCHANGED queue
       ELSE /\ turns' = [turns EXCEPT ![k].rev = Head(queue[k])]
            /\ queue' = [queue EXCEPT ![k] = Tail(@)] /\ UNCHANGED saving
    /\ UNCHANGED <<database, request, wsp, prune, legacy, boot, lost, counters>>
\* apply: only a newer revision counts, and the terminal fact starts the write.
apply(k) ==
    /\ queue[k] # <<>> /\ turns[k].up /\ ~ByQueue(k)
    /\ IF Head(queue[k]) = 0 /\ ~turns[k].fact
       THEN /\ saving' = saving \cup {Saving(k, "queue", [turns[k] EXCEPT !.fact = TRUE], "completed")}
            /\ turns' = [turns EXCEPT ![k] = NoTurn] /\ UNCHANGED queue
       ELSE /\ turns' = [turns EXCEPT ![k].rev = Max({@, Head(queue[k])})]
            /\ queue' = [queue EXCEPT ![k] = Tail(@)] /\ UNCHANGED saving
    /\ UNCHANGED <<database, request, wsp, prune, legacy, boot, lost, counters>>
\* close: every open turn of an ended workspace, with the outcome an earlier failed write kept.
close(k) ==
    /\ wsp[k[1]].ended > 0 /\ turns[k].up /\ ~\E s \in saving : s.by = "close"
    /\ saving' = saving \cup {Saving(k, "close", turns[k], IF turns[k].terminal = "none" THEN "interrupted" ELSE turns[k].terminal)}
    /\ turns' = [turns EXCEPT ![k] = NoTurn]
    /\ UNCHANGED <<database, request, wsp, queue, prune, legacy, boot, lost, counters>>
Settled(s) ==
    /\ saving' = saving \ {s}
    /\ queue' = IF s.by = "queue" THEN [queue EXCEPT ![s.key] = Tail(@)] ELSE queue
\* commitConversationTurn: the record, or a refusal that no retry could change.
commit(s) ==
    /\ Settled(s) /\ UNCHANGED <<gone, request, wsp, turns, prune, legacy, boot, lost, counters>>
    /\ IF s.key[2] \notin Keys("c") /\ refused("c", s.key[1], messages(s)) THEN UNCHANGED <<doc, charged>>
       ELSE writeRecord("c", s.key[1], s.key[2], messages(s), s.status)
\* Any other error keeps the turn open with its outcome.
commitFails(s) ==
    /\ Trouble /\ Settled(s)
    /\ turns' = [turns EXCEPT ![s.key] = [up |-> TRUE, rev |-> s.rev, fact |-> s.fact, terminal |-> s.status]]
    /\ UNCHANGED <<database, request, wsp, prune, legacy, boot, lost, now, sent>>
\* appendWorkspaceMessage: a message without identity is final as sent.
appendWorkspaceMessage(w) ==
    /\ Live /\ boot = {} /\ sent < MaxFrames /\ sent' = sent + 1 /\ ~refused(w, w, 1)
    /\ writeRecord(w, w, <<"message", sent>>, 1, "message")
    /\ UNCHANGED <<gone, request, wsp, live, prune, legacy, now, troubles>>

-----------------------------------------------------------------------------
(* Restart. *)

\* Turns accepted and dispatched, without a record, are recorded as interrupted; waiting requests are dispatched again.
toRecord == {t \in Turn : request[t].ws \in Ws /\ request[t].phase # "accepted" /\ t \notin Keys("c")}
restart ==
    /\ Live /\ boot = {} /\ Trouble
    /\ lost' = [t \in Turn |-> IF request[t].phase # "accepted" /\ \E w \in Ws : turns[<<w, t>>].up
                               THEN IF request[t].ws \in Ws THEN "named" ELSE "bare"
                               ELSE lost[t]]
    /\ queue' = [k \in TurnKey |-> <<>>] /\ turns' = [k \in TurnKey |-> NoTurn] /\ saving' = {} /\ prune' = {} /\ boot' = toRecord
    /\ UNCHANGED <<database, request, wsp, legacy, now, sent>>
\* Mutant of recordInterruptedTurns: an unfinished turn is left to the producer's reconnect.
LeaveOpen(t) ==
    /\ t \in boot /\ boot' = boot \ {t}
    /\ UNCHANGED <<doc, charged, gone, request, wsp, queue, turns, saving, prune, legacy, lost, counters>>
recordInterruptedTurns(t) ==
    /\ t \in boot /\ boot' = boot \ {t}
    /\ IF refused("c", request[t].ws, 1) THEN lost' = [lost EXCEPT ![t] = "no"] /\ UNCHANGED <<doc, charged>>
       ELSE writeRecord("c", request[t].ws, t, 1, "interrupted") /\ UNCHANGED lost
    /\ UNCHANGED <<gone, request, wsp, queue, turns, saving, prune, legacy, counters>>

-----------------------------------------------------------------------------
(* Deletion and retention. *)

deleteConversation(w) ==
    /\ Live /\ Trouble /\ gone' = gone \cup {w} /\ w \notin gone /\ clearConversations(conversationIds(w), "deleted")
    /\ UNCHANGED <<request, wsp, live, prune, legacy, now, sent>>
deleteConversationById ==
    /\ Live /\ Trouble /\ doc["c"].status \in {"retained", "expired"} /\ clearConversations({"c"}, "deleted")
    /\ UNCHANGED <<gone, request, wsp, live, prune, legacy, now, sent>>
\* conversationRetention: the template's duration under the server's policy.
conversationRetention(end) == end + Keep
Ended == {d \in Docs : doc[d].status = "retained" /\ ~doc[d].set /\ wsp[doc[d].ws].ended > 0}
Starts(d, end) == [doc[d] EXCEPT !.expires = conversationRetention(end), !.set = TRUE]
\* pruneExpiredConversations: the ended conversations are read, then each gets its expiry, one after the other.
readEnded ==
    /\ Live /\ prune = {} /\ Ended # {}
    /\ prune' = {<<d, wsp[doc[d].ws].ended>> : d \in Ended} /\ UNCHANGED doc
    /\ UNCHANGED <<charged, gone, request, wsp, live, legacy, counters>>
startRetention ==
    /\ prune # {}
    /\ LET p == CHOOSE p \in prune : TRUE IN
       /\ prune' = prune \ {p}
       /\ doc' = IF doc[p[1]].set THEN doc ELSE [doc EXCEPT ![p[1]] = Starts(p[1], p[2])]
    /\ UNCHANGED <<charged, gone, request, wsp, live, legacy, counters>>
Due == {d \in Docs : doc[d].status = "retained" /\ doc[d].expires > 0 /\ doc[d].expires <= now}
\* The pass then clears what is due.
pruneExpired ==
    /\ prune = {} /\ Due # {} /\ clearConversations(Due, "expired")
    /\ UNCHANGED <<gone, request, wsp, live, prune, legacy, counters>>

-----------------------------------------------------------------------------
(* Conversion of an earlier release's rows: one workspace per transaction. *)

\* groupsInOrder: a turn's rows together, at its first row's place; runs without identity stay apart.
groupsInOrder(rows) ==
    LET First(i) == IF rows[i].turn = "none" THEN i = 1 \/ rows[i - 1].turn # "none"
                    ELSE \A j \in 1..(i - 1) : rows[j].turn # rows[i].turn
        Starting == SetToSortSeq({i \in 1..Len(rows) : First(i)}, <)
    IN  [g \in 1..Len(Starting) |-> LET i == Starting[g] IN
            IF rows[i].turn = "none"
            THEN {j \in i..Len(rows) : \A x \in i..j : rows[x].turn = "none"}
            ELSE {j \in i..Len(rows) : rows[j].turn = rows[i].turn}]
\* latestRevisions: only the last revision of each event is kept.
latestRevisions(rows, g) == {rows[i].event : i \in g}
Converted(w, d) ==
    LET rows == legacy[w]
        mine == SelectSeq(groupsInOrder(rows), LAMBDA g : LET t == rows[Min(g)].turn IN
                    IF d = "c" THEN t # "none" /\ t \notin Keys("c") ELSE t = "none")
        Step(old, g) == IF d = "c" THEN insertRecord(old, w, rows[Min(g)].turn, Cardinality(latestRevisions(rows, g)), "legacy")
                        ELSE insertRecord(old, w, <<"legacy", Min(g)>>, Cardinality(g), "legacy")
    IN  FoldLeft(Step, doc[d], mine)
convertLegacyConversations(w) ==
    /\ legacy[w] # <<>> /\ legacy' = [legacy EXCEPT ![w] = <<>>]
    /\ doc' = [doc EXCEPT !["c"] = Converted(w, "c"), ![w] = Converted(w, w)]
    /\ UNCHANGED <<charged, gone, request, wsp, live, prune, counters>>

-----------------------------------------------------------------------------
(* The workspaces' side. *)

end(w) ==
    /\ Live /\ wsp[w].ended = 0 /\ wsp' = [wsp EXCEPT ![w].ended = now]
    /\ UNCHANGED <<database, request, live, prune, legacy, counters>>
requestPurge(w) ==
    /\ wsp[w].ended > 0 /\ ~wsp[w].fenced /\ wsp' = [wsp EXCEPT ![w].fenced = TRUE] /\ Trouble
    /\ UNCHANGED <<database, request, live, prune, legacy, now, sent>>
\* Only the expiry of a document reads the clock, so it moves while one waits to expire.
tick ==
    /\ Live /\ (\E d \in Docs : doc[d].expires > now) /\ now < MaxTime /\ now' = now + 1 /\ Trouble
    /\ UNCHANGED <<database, request, wsp, live, prune, legacy, sent>>

ConversationNext ==
    \/ \E w \in Ws : \/ convertLegacyConversations(w) \/ appendWorkspaceMessage(w) \/ deleteConversation(w) \/ end(w)
                     \/ requestPurge(w)
                     \/ \E t \in Turn : acceptConversationRequest(w, t) \/ insertConversationExecution(w, t)
    \/ \E t \in Turn : dispatch(t) \/ finalize(t) \/ recordInterruptedTurns(t)
    \/ \E k \in TurnKey : openTurn(k) \/ apply(k) \/ close(k) \/ \E f \in 0..1 : receive(k, f)
    \/ \E s \in saving : commit(s) \/ commitFails(s)
    \/ restart \/ deleteConversationById \/ readEnded \/ startRetention \/ pruneExpired \/ tick

-----------------------------------------------------------------------------
(* Reads: pages of messages after a cursor. *)

\* readConversationMessages: as many records past the cursor as messages are asked for, then the first of their messages.
First(found, limit) == {n \in found : Cardinality({m \in found : m < n}) < limit}
readMessages(d, after, limit) ==
    LET recs == SelectSeq(doc[d].recs, LAMBDA r : r.to > after)
    IN  First({n \in UNION {recs[i].from..recs[i].to : i \in 1..Min({limit, Len(recs)})} : n > after}, limit)
\* The route asks for one message more than its page holds, to know whether another page follows.
page(d, after, limit) ==
    LET found == readMessages(d, after, limit + 1)
        items == First(found, limit)
    IN  [items |-> items, next |-> IF items = found THEN 0 ELSE Max(items)]
\* A page is the next messages after its cursor, and it has no next cursor exactly when none is left.
PageIsNext(d, after, limit) ==
    LET rest == Messages(d, Ws) \ 0..after
        p == page(d, after, limit)
    IN  /\ p.items \subseteq rest /\ \A n \in rest \ p.items : Cardinality(p.items) = limit /\ \A m \in p.items : m < n
        /\ p.next = 0 <=> p.items = rest

-----------------------------------------------------------------------------
\* Stored history stays exact through concurrent writers, retries and deletions: a turn has one record, sequence numbers
\* are consecutive and never reused, a tombstone and a deleted workspace keep no content that a late write could
\* bring back, the bytes counted against a workspace are never fewer than it stores, and pages of any size read every
\* message once.
HistoryIsExact ==
    /\ \A d \in Docs : LET recs == doc[d].recs IN
          /\ \A i, j \in DOMAIN recs : i < j => recs[i].key # recs[j].key /\ recs[j].from > recs[i].to
          /\ \A i \in DOMAIN recs : i > 1 => recs[i].from = recs[i - 1].to + 1
          /\ recs # <<>> => doc[d].last = Last(recs).to
          /\ doc[d].status \in {"deleted", "expired"} => recs = <<>>
          /\ recs # <<>> /\ doc[d].last > 1 => \A after \in 0..doc[d].last, limit \in 1..2 : PageIsNext(d, after, limit)
    /\ \A w \in gone : \A d \in Docs : \A r \in RecsOf(d) : r.ws # w
    /\ Live => \A w \in Ws : charged[w] >= Freed(w, Docs) /\ charged[w] <= MaxBytes + Len(LegacyRows[w])

\* After a restart no dispatched turn whose live messages were lost is a silent gap: once the interrupted turns are
\* recorded, it has a record, unless its history may not be written (deleted, fenced by a purge, or over its quota) or
\* the execution was inserted without a receipt, so that its row named no workspace when the server restarted
\* (recordInterruptedTurns, insertConversationExecution).
NoSilentGap ==
    boot = {} => \A t \in Turn : lost[t] # "no" =>
        t \in Keys("c") \/ doc["c"].status \in {"deleted", "expired"} \/ lost[t] = "bare"

\* Retention starts when the last workspace that wrote to a conversation ends: no conversation expires before that.
ExpiryIsEarned ==
    [][\A d \in Docs : (doc[d].status = "retained" /\ doc'[d].status = "expired") =>
          wsp[doc[d].ws].ended > 0 /\ now >= conversationRetention(wsp[doc[d].ws].ended)]_conversationVars
=============================================================================
