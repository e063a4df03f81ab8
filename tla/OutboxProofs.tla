------------------------------ MODULE OutboxProofs ------------------------------
(***************************************************************************)
(* What the outbox promises for any set of events, any batch size and any  *)
(* number of faults: a delivered event was accepted by the sink, and the   *)
(* sink is sent an event twice only because something failed.              *)
(*                                                                         *)
(* Both need what the dispatcher's place in the batch stands for.  Between *)
(* the answer and the mark it stands for an accepted event; everything     *)
(* else that can still be posted was accepted at most once per fault.      *)
(***************************************************************************)
EXTENDS Outbox, FiniteSetTheorems, WellFoundedInduction, TLAPS

Occurred == {e \in Event : st[e] # "none"}

TypeInv == TypeOK /\ IsFiniteSet(Occurred) /\ batch \subseteq Occurred

AnswerIsReal == pc = "accepted" => \A e \in Event : Posting = e => got[e] > 0

AcceptInv == TypeInv /\ DeliveredWasAccepted /\ (sink => AnswerIsReal)

\* The dispatcher may post the event again, now or after a later claim.
Postable(e) == st[e] \in {"none", "pending"} \/ e \in batch

\* The sink accepted the event being posted and nothing has gone wrong since.
Answered(e) == pc = "accepted" /\ Posting = e

RepeatOK(e) ==
    /\ got[e] <= 1 + faults
    /\ Postable(e) /\ ~Answered(e) => got[e] <= faults

RepeatInv == TypeInv /\ \A e \in Event : RepeatOK(e)

--------------------------------------------------------------------------------
(* Types, and what the steps of the dispatcher do to one event.            *)

\* The sink hears of the event being posted and of no other.
LEMMA HeardOnce ==
    ASSUME TypeOK, Heard
    PROVE  /\ got' \in [Event -> Nat]
           /\ \A e \in Event : got'[e] = IF Posting = e THEN got[e] + 1 ELSE got[e]
<1> USE DEF TypeOK, Heard
<1>1. CASE Posting \in Event
  BY <1>1
<1>2. CASE Posting \notin Event
  <2>1. got' = got
    BY <1>2
  <2> QED
    BY <1>2, <2>1
<1> QED
  BY <1>1, <1>2

\* A mark ends the event being posted and leaves every other alone.
LEMMA MarkedOnce ==
    ASSUME TypeOK, Marked
    PROVE  /\ st' \in [Event -> {"none", "pending", "delivered", "purged"}]
           /\ \A e \in Event : st'[e] = st[e] \/ (Posting = e /\ st'[e] = "delivered")
           /\ Posting \in Event => st'[Posting] \in {"delivered", "purged"}
<1> USE DEF TypeOK, Marked
<1>1. CASE Posting \in Event
  BY <1>1
<1>2. CASE Posting \notin Event
  <2>1. st' = st
    BY <1>2
  <2> QED
    BY <1>2, <2>1
<1> QED
  BY <1>1, <1>2

LEMMA Lapsed ==
    ASSUME TypeOK, due' = [due EXCEPT ![Posting] = FALSE]
    PROVE  due' \in [Event -> BOOLEAN]
BY DEF TypeOK

\* An event that occurs comes after the batch, so the place in it stays.
LEMMA PlaceStays ==
    ASSUME TypeInv, NEW e \in Event, appendTransition(e)
    PROVE  Posting' = Posting
<1>1. /\ batch' = batch /\ batch \subseteq Event /\ e \notin batch
      /\ \A f \in batch : born'[f] = born[f]
  BY DEF TypeInv, TypeOK, Occurred, appendTransition
<1>2. First' = First
  BY <1>1 DEF First
<1> QED
  BY <1>2 DEF Posting

LEMMA PlaceSame ==
    ASSUME UNCHANGED <<batch, born>>
    PROVE  Posting' = Posting
<1>1. First' = First
  BY DEF First
<1> QED
  BY <1>1 DEF Posting

\* Every set of numbers that is not empty has a least one.
LEMMA LeastNumber ==
    ASSUME NEW T, T \subseteq Nat, T # {}
    PROVE  \E m \in T : \A n \in T : m <= n
<1>1. \A m, n \in Nat : m < n => <<m, n>> \in OpToRel(<, Nat)
  BY DEF OpToRel
<1>2. ASSUME NEW R, IsWellFoundedOn(R, Nat), \A m, n \in Nat : m < n => <<m, n>> \in R
      PROVE  \E m \in T : \A n \in T : m <= n
  <2>1. PICK m \in T : \A n \in T : ~(<<n, m>> \in R)
    BY ONLY IsWellFoundedOn(R, Nat), T \subseteq Nat, T # {}, WFMin
  <2>2. ASSUME NEW n \in T PROVE m <= n
    <3>1. m \in Nat /\ n \in Nat
      OBVIOUS
    <3>2. ~(n < m)
      BY <1>2, <2>1, <3>1, Zenon
    <3> QED
      BY <3>1, <3>2
  <2> QED
    BY <2>2
<1> QED
  BY <1>1, <1>2, NatLessThanWellFounded

\* While a batch is at work its place is one of its events.
LEMMA PlaceInBatch ==
    ASSUME TypeOK, batch # {}
    PROVE  Posting \in batch
<1> DEFINE T == {born[e] : e \in batch}
<1>1. T \in SUBSET Nat /\ T # {}
  BY DEF TypeOK
<1>2. PICK m \in T : \A n \in T : m <= n
  <2> HIDE DEF T
  <2> QED
    BY <1>1, LeastNumber
<1>3. PICK e \in batch : m = born[e]
  OBVIOUS
<1>4. e \in First
  BY <1>2, <1>3 DEF First
<1>5. Posting \in First
  BY <1>4 DEF Posting
<1> QED
  BY <1>5 DEF First

\* Only rows that are pending and due are claimed.
LEMMA ClaimedPending ==
    ASSUME TypeOK, claimDueEvents
    PROVE  batch' \subseteq {e \in Event : st[e] = "pending"}
BY DEF claimDueEvents, Oldest, claimable

LEMMA TypeInvNext == TypeInv /\ [Next]_vars => TypeInv'
<1> SUFFICES ASSUME TypeInv, [Next]_vars PROVE TypeInv'
  OBVIOUS
<1>0. TypeOK /\ IsFiniteSet(Occurred) /\ batch \subseteq Occurred
  BY DEF TypeInv
<1>a. MaxFaults \in Nat
  BY OutboxAssumption
<1> USE <1>0, <1>a DEF TypeOK
<1>1. ASSUME NEW e \in Event, appendTransition(e) PROVE TypeInv'
  <2>1. Occurred' = Occurred \cup {e}
    BY <1>1 DEF appendTransition, Occurred
  <2>2. IsFiniteSet(Occurred')
    BY <2>1, FS_AddElement
  <2>3. Cardinality({f \in Event : st[f] # "none"}) \in Nat
    BY FS_CardinalityType DEF Occurred
  <2>4. TypeOK'
    BY <1>1, <2>3 DEF appendTransition
  <2> QED
    BY <1>1, <2>1, <2>2, <2>4 DEF appendTransition, TypeInv
<1>2. ASSUME NEW e \in Event, Purge(e) PROVE TypeInv'
  <2>1. Occurred' = Occurred
    BY <1>2 DEF Purge, Occurred
  <2> QED
    BY <1>2, <2>1 DEF Purge, TypeInv
<1>3. ASSUME NEW e \in Event, Elapse(e) PROVE TypeInv'
  BY <1>3 DEF Elapse, TypeInv, Occurred
<1>4. CASE claimDueEvents
  <2>1. batch' \subseteq Occurred
    BY <1>4, ClaimedPending DEF Occurred
  <2>2. TypeOK'
    BY <1>4, <2>1 DEF claimDueEvents, Occurred
  <2>3. Occurred' = Occurred
    BY <1>4 DEF claimDueEvents, Occurred
  <2> QED
    BY <2>1, <2>2, <2>3 DEF TypeInv
<1>5. CASE SinkAccepts \/ SinkRefuses \/ AnswerLost \/ MarkFails \/ Stops
  <2>1. got' \in [Event -> Nat]
    BY <1>5, HeardOnce DEF SinkAccepts, SinkRefuses, AnswerLost, MarkFails, Stops
  <2>2. faults' \in 0 .. MaxFaults
    BY <1>5 DEF SinkAccepts, SinkRefuses, AnswerLost, MarkFails, Stops, Faulty
  <2>3. Occurred' = Occurred /\ batch' \subseteq batch
    BY <1>5 DEF SinkAccepts, SinkRefuses, AnswerLost, MarkFails, Stops, Occurred
  <2>4. TypeOK'
    BY <1>5, <2>1, <2>2 DEF SinkAccepts, SinkRefuses, AnswerLost, MarkFails, Stops
  <2> QED
    BY <2>3, <2>4 DEF TypeInv
<1>6. CASE markEventDelivered \/ MarkUnsent
  <2>1. /\ st' \in [Event -> {"none", "pending", "delivered", "purged"}]
        /\ \A e \in Event : (st'[e] = "none") => (st[e] = "none")
        /\ \A e \in Event : (st[e] = "none") => (e # Posting => st'[e] = "none")
    BY <1>6, MarkedOnce DEF markEventDelivered, MarkUnsent
  <2>2. TypeOK'
    BY <1>6, <2>1 DEF markEventDelivered, MarkUnsent, Continues
  <2>3. Occurred \subseteq Occurred' /\ Occurred' \in SUBSET (Occurred \cup {Posting})
    BY <2>1 DEF Occurred
  <2>4. IsFiniteSet(Occurred')
    BY <2>3, FS_AddElement, FS_Subset
  <2>5. batch' \subseteq batch
    BY <1>6 DEF markEventDelivered, MarkUnsent, Continues
  <2> QED
    BY <2>2, <2>3, <2>4, <2>5 DEF TypeInv
<1>7. CASE markEventFailed
  <2>1. TypeOK'
    BY <1>7, Lapsed DEF markEventFailed, Continues
  <2> QED
    BY <1>7, <2>1 DEF markEventFailed, Continues, TypeInv, Occurred
<1>8. CASE UNCHANGED vars
  BY <1>8 DEF vars, TypeInv, Occurred
<1> QED
  BY <1>1, <1>2, <1>3, <1>4, <1>5, <1>6, <1>7, <1>8 DEF Next, Dispatch

LEMMA TypeInvInit == Init => TypeInv
<1> SUFFICES ASSUME Init PROVE TypeInv
  OBVIOUS
<1>1. Occurred = {}
  BY DEF Init, Occurred
<1>2. IsFiniteSet(Occurred)
  BY <1>1, FS_EmptySet
<1> QED
  BY <1>1, <1>2, OutboxAssumption DEF Init, TypeInv, TypeOK

\* The rows, the leases, the batch and the dispatcher's place in it keep their
\* form: in particular the dispatcher is idle exactly when its batch is done.
THEOREM OutboxTypes == Spec => []TypeOK
<1>1. TypeInv => TypeOK
  BY DEF TypeInv
<1> QED
  BY <1>1, TypeInvInit, TypeInvNext, PTL DEF Spec

--------------------------------------------------------------------------------
(* Accepted before delivered.                                              *)

\* Only markEventDelivered marks an event once a sink is configured.
LEMMA AcceptInvNext == AcceptInv /\ [Next]_vars => AcceptInv'
<1> SUFFICES ASSUME AcceptInv, [Next]_vars PROVE (DeliveredWasAccepted /\ (sink => AnswerIsReal))'
  BY TypeInvNext DEF AcceptInv
<1>0. TypeInv /\ TypeOK /\ got \in [Event -> Nat] /\ st \in [Event -> {"none", "pending", "delivered", "purged"}]
  BY DEF AcceptInv, TypeInv, TypeOK
<1> DEFINE Goal == (DeliveredWasAccepted /\ (sink => AnswerIsReal))'
<1> USE <1>0 DEF AcceptInv, AnswerIsReal, DeliveredWasAccepted
<1>1. ASSUME NEW e \in Event, appendTransition(e) \/ Purge(e) \/ Elapse(e) PROVE Goal
  <2>1. Posting' = Posting
    BY <1>1, PlaceStays, PlaceSame DEF Purge, Elapse
  <2> HIDE DEF Posting
  <2> QED
    BY <1>1, <2>1 DEF appendTransition, Purge, Elapse
<1>2. CASE claimDueEvents \/ SinkRefuses \/ MarkFails \/ Stops
  BY <1>2 DEF claimDueEvents, SinkRefuses, MarkFails, Stops
<1>3. CASE SinkAccepts \/ AnswerLost
  <2>1. Posting' = Posting /\ Heard /\ UNCHANGED <<st, sink>>
    BY <1>3, PlaceSame DEF SinkAccepts, AnswerLost
  <2> HIDE DEF Posting
  <2> QED
    BY <1>3, <2>1, HeardOnce
<1>4. CASE markEventDelivered \/ MarkUnsent
  <2>1. /\ pc' # "accepted" /\ UNCHANGED <<got, sink>> /\ Marked
        /\ sink => pc = "accepted"
    BY <1>4 DEF markEventDelivered, MarkUnsent, Continues
  <2> HIDE DEF Posting
  <2> QED
    BY <2>1, MarkedOnce
<1>5. CASE markEventFailed
  BY <1>5 DEF markEventFailed, Continues
<1>6. CASE UNCHANGED vars
  <2>1. Posting' = Posting
    BY <1>6, PlaceSame DEF vars
  <2> HIDE DEF Posting
  <2> QED
    BY <1>6, <2>1 DEF vars
<1> QED
  BY <1>1, <1>2, <1>3, <1>4, <1>5, <1>6 DEF Next, Dispatch

\* AcceptedFirst: with a sink configured the dispatcher marks an event delivered
\* only after the sink answered ok to it, whatever is lost or fails (outbox.ts).
THEOREM AcceptedFirst == Spec => []DeliveredWasAccepted
<1>1. Init => AcceptInv
  BY TypeInvInit DEF Init, AcceptInv, AnswerIsReal, DeliveredWasAccepted
<1>2. AcceptInv => DeliveredWasAccepted
  BY DEF AcceptInv
<1> QED
  BY <1>1, <1>2, AcceptInvNext, PTL DEF Spec

--------------------------------------------------------------------------------
(* Repeats.                                                                *)

\* Whatever can still be posted was accepted at most once per fault, but for
\* the event whose mark is due.
LEMMA RepeatInvNext == RepeatInv /\ [Next]_vars => RepeatInv'
<1> SUFFICES ASSUME RepeatInv, [Next]_vars, NEW g \in Event PROVE RepeatOK(g)'
  BY TypeInvNext DEF RepeatInv
<1>0. /\ TypeInv /\ TypeOK /\ RepeatOK(g)
      /\ got[g] \in Nat /\ faults \in Nat
      /\ batch \subseteq Event /\ ((pc = "idle") = (batch = {}))
      /\ st \in [Event -> {"none", "pending", "delivered", "purged"}]
  BY OutboxAssumption DEF RepeatInv, TypeInv, TypeOK
<1> USE <1>0 DEF RepeatOK, Postable, Answered
<1>1. ASSUME NEW e \in Event, appendTransition(e) \/ Purge(e) \/ Elapse(e) PROVE RepeatOK(g)'
  <2>1. Posting' = Posting
    BY <1>1, PlaceStays, PlaceSame DEF Purge, Elapse
  <2> HIDE DEF Posting
  <2> QED
    BY <1>1, <2>1 DEF appendTransition, Purge, Elapse
<1>2. CASE claimDueEvents
  BY <1>2, ClaimedPending DEF claimDueEvents
<1>3. CASE SinkAccepts
  <2>1. Posting' = Posting /\ Posting \in batch
    BY <1>3, PlaceSame, PlaceInBatch DEF SinkAccepts
  <2> HIDE DEF Posting
  <2> QED
    BY <1>3, <2>1, HeardOnce DEF SinkAccepts
<1>4. CASE AnswerLost
  <2>1. Posting \in batch
    BY <1>4, PlaceInBatch DEF AnswerLost
  <2> HIDE DEF Posting
  <2> QED
    BY <1>4, <2>1, HeardOnce DEF AnswerLost, Faulty
<1>5. CASE SinkRefuses \/ MarkFails \/ Stops
  BY <1>5 DEF SinkRefuses, MarkFails, Stops, Faulty
<1>6. CASE markEventDelivered \/ MarkUnsent
  <2>1. /\ UNCHANGED <<got, faults>> /\ Marked /\ batch' = batch \ {Posting}
        /\ pc' # "accepted"
    BY <1>6 DEF markEventDelivered, MarkUnsent, Continues
  <2> HIDE DEF Posting
  <2> QED
    BY <2>1, MarkedOnce
<1>7. CASE markEventFailed
  <2>1. UNCHANGED <<got, st, faults>> /\ batch' \subseteq batch /\ pc # "accepted"
    BY <1>7 DEF markEventFailed, Continues
  <2> HIDE DEF Posting
  <2> QED
    BY <2>1
<1>8. CASE UNCHANGED vars
  <2>1. Posting' = Posting
    BY <1>8, PlaceSame DEF vars
  <2> HIDE DEF Posting
  <2> QED
    BY <1>8, <2>1 DEF vars
<1> QED
  BY <1>1, <1>2, <1>3, <1>4, <1>5, <1>6, <1>7, <1>8 DEF Next, Dispatch

\* RepeatsNeedFaults: the sink accepts an event once more than there were lost
\* answers, failed marks and stops, at most: a lease that ends while its event
\* still waits in a slow batch is no reason of its own (claimDueEvents, tick).
THEOREM RepeatsNeedFaults == Spec => []DuplicatesNeedFaults
<1>1. Init => RepeatInv
  BY TypeInvInit DEF Init, RepeatInv, RepeatOK
<1>2. RepeatInv => DuplicatesNeedFaults
  BY DEF RepeatInv, RepeatOK, DuplicatesNeedFaults
<1> QED
  BY <1>1, <1>2, RepeatInvNext, PTL DEF Spec
================================================================================
