--------------------------------- MODULE Outbox ---------------------------------
(***************************************************************************)
(* The transactional outbox and its dispatcher.  A state transition adds   *)
(* its event in its own transaction.  One dispatcher at a time claims a    *)
(* batch of due events, which leases them for a minute, posts each to the  *)
(* sink and marks it; it may stop between any two of these steps.          *)
(***************************************************************************)
EXTENDS Naturals, FiniteSets

CONSTANTS
    Event,
    Limit,      \* events per claim
    MaxFaults   \* lost answers, store errors and crashes

ASSUME OutboxAssumption ==
    /\ Limit \in Nat \ {0}
    /\ MaxFaults \in Nat

VARIABLES
    st,      \* none, pending, delivered or purged
    born,    \* occurredAt, as the place of the event among all that occurred
    due,     \* nextAttemptAt has come
    got,     \* how often the sink accepted the event
    batch,   \* the claimed events still to post
    pc,      \* idle, send, accepted or refused
    faults,
    sink     \* a sink URL is configured

vars == <<st, born, due, got, batch, pc, faults, sink>>

Init ==
    /\ st = [e \in Event |-> "none"]
    /\ born = [e \in Event |-> 0]
    /\ due = [e \in Event |-> FALSE]
    /\ got = [e \in Event |-> 0]
    /\ batch = {}
    /\ pc = "idle"
    /\ faults = 0
    /\ sink \in BOOLEAN

--------------------------------------------------------------------------------
appendTransition(e) ==
    /\ st[e] = "none"
    /\ st' = [st EXCEPT ![e] = "pending"]
    /\ born' = [born EXCEPT ![e] = Cardinality({f \in Event : st[f] # "none"})]
    /\ due' = [due EXCEPT ![e] = TRUE]
    /\ UNCHANGED <<got, batch, pc, faults, sink>>

\* A purge of the workspace deletes its events, a claimed one included.
Purge(e) ==
    /\ st[e] \in {"pending", "delivered"}
    /\ st' = [st EXCEPT ![e] = "purged"]
    /\ UNCHANGED <<born, due, got, batch, pc, faults, sink>>

\* The lease or the backoff of an event ends.
Elapse(e) ==
    /\ st[e] = "pending" /\ ~due[e]
    /\ due' = [due EXCEPT ![e] = TRUE]
    /\ UNCHANGED <<st, born, got, batch, pc, faults, sink>>

--------------------------------------------------------------------------------
(* The dispatcher's tick; ticks do not overlap.                            *)

Oldest(events) ==
    {e \in events : Cardinality({f \in events : born[f] < born[e]}) < Limit}

\* Mutant of claimable: an event that was delivered is claimed again.
ClaimableAnyway(e) == due[e]

claimable(e) == st[e] = "pending" /\ due[e]

claimDueEvents ==
    /\ pc = "idle"
    /\ batch' = Oldest({e \in Event : claimable(e)})
    /\ batch' # {}
    /\ due' = [e \in Event |-> due[e] /\ e \notin batch']
    /\ pc' = "send"
    /\ UNCHANGED <<st, born, got, faults, sink>>

\* The batch is posted in the order in which its events occurred.
First == {e \in batch : \A f \in batch : born[e] <= born[f]}

Posting == CHOOSE e \in First : TRUE

\* On with the batch.
Continues ==
    /\ batch' = batch \ {Posting}
    /\ pc' = IF batch' = {} THEN "idle" ELSE "send"

Faulty == faults < MaxFaults /\ faults' = faults + 1

Heard == got' = [got EXCEPT ![Posting] = @ + 1]

SinkAccepts ==
    /\ sink /\ pc = "send"
    /\ Heard
    /\ pc' = "accepted"
    /\ UNCHANGED <<st, born, due, batch, faults, sink>>

\* Mutant of SinkRefuses: the status of the answer is not looked at.
RefusalUnread ==
    /\ sink /\ pc = "send"
    /\ pc' = "accepted"
    /\ UNCHANGED <<st, born, due, got, batch, faults, sink>>

\* A status that is not ok, or no answer.
SinkRefuses ==
    /\ sink /\ pc = "send"
    /\ pc' = "refused"
    /\ UNCHANGED <<st, born, due, got, batch, faults, sink>>

\* The sink took the event, and its answer is lost or late.
AnswerLost ==
    /\ sink /\ pc = "send" /\ Faulty
    /\ Heard
    /\ pc' = "refused"
    /\ UNCHANGED <<st, born, due, batch, sink>>

\* The update matches no row when the event was purged meanwhile.
Marked == st' = [st EXCEPT ![Posting] = IF @ = "purged" THEN @ ELSE "delivered"]

markEventDelivered ==
    /\ pc = "accepted"
    /\ Marked
    /\ Continues
    /\ UNCHANGED <<born, due, got, faults, sink>>

\* With no sink an event counts as delivered at once.
MarkUnsent ==
    /\ ~sink /\ pc = "send"
    /\ Marked
    /\ Continues
    /\ UNCHANGED <<born, due, got, faults, sink>>

\* The store fails after the sink accepted: handled like a refusal.
MarkFails ==
    /\ pc = "accepted" /\ Faulty
    /\ pc' = "refused"
    /\ UNCHANGED <<st, born, due, got, batch, sink>>

\* Mutant of markEventFailed: the event is given up.
FailedForGood ==
    /\ pc = "refused"
    /\ st' = [st EXCEPT ![Posting] = "dead"]
    /\ Continues
    /\ UNCHANGED <<born, due, got, faults, sink>>

\* The backoff starts, from however long the lease still had to run.
markEventFailed ==
    /\ pc = "refused"
    /\ due' = [due EXCEPT ![Posting] = FALSE]
    /\ Continues
    /\ UNCHANGED <<st, born, got, faults, sink>>

\* A crash, or a store error that leaves the tick: the rest of the batch waits
\* for its leases to end.
Stops ==
    /\ pc # "idle" /\ Faulty
    /\ pc' = "idle"
    /\ batch' = {}
    /\ UNCHANGED <<st, born, due, got, sink>>

--------------------------------------------------------------------------------
Dispatch ==
    \/ claimDueEvents \/ SinkAccepts \/ SinkRefuses \/ AnswerLost
    \/ markEventDelivered \/ MarkUnsent \/ MarkFails \/ markEventFailed \/ Stops

Next ==
    \/ \E e \in Event : appendTransition(e) \/ Purge(e) \/ Elapse(e)
    \/ Dispatch

Spec == Init /\ [][Next]_vars

--------------------------------------------------------------------------------
(* Properties.                                                             *)

\* The dispatcher's state fits together.
TypeOK ==
    /\ st \in [Event -> {"none", "pending", "delivered", "purged"}]
    /\ born \in [Event -> Nat] /\ batch \subseteq Event
    /\ due \in [Event -> BOOLEAN]
    /\ got \in [Event -> Nat]
    /\ pc \in {"idle", "send", "accepted", "refused"}
    /\ (pc = "idle") = (batch = {})
    /\ faults \in 0 .. MaxFaults
    /\ sink \in BOOLEAN

\* With a sink, an event is marked delivered only after the sink accepted it,
\* whatever answers were lost and wherever the dispatcher stopped (tick in
\* outbox.ts).
DeliveredWasAccepted == sink => \A e \in Event : st[e] = "delivered" => got[e] > 0

\* The sink sees an event again only because something failed: a lost answer, a
\* store error or a crash.  Neither the lease nor the order of the claims makes
\* duplicates of its own (claimDueEvents in the outbox repository).
DuplicatesNeedFaults == \A e \in Event : got[e] <= 1 + faults

\* The tick goes on, leases and backoffs end, and a sink that an event is posted
\* to again and again accepts it some time.
Fairness ==
    /\ WF_vars(Dispatch)
    /\ \A e \in Event : WF_vars(Elapse(e))
    /\ \A e \in Event : SF_vars(SinkAccepts /\ Posting = e)

FairSpec == Spec /\ Fairness

\* Every event is delivered in the end, unless its workspace is purged: a lease
\* left by a crash, a failed mark or a refusal never strands one (claimDueEvents,
\* retry).
EveryEventDelivered ==
    \A e \in Event : st[e] = "pending" ~> st[e] \in {"delivered", "purged"}

================================================================================
