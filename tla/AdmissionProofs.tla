---------------------------- MODULE AdmissionProofs ----------------------------
(***************************************************************************)
(* Without a warm pool the limits hold for any number of coordinators,     *)
(* principals, templates and workspaces.  A step either takes rows out of  *)
(* the active set or is a cold claim, which adds one row that the store    *)
(* has just found room for.  What the ticks remember plays no part.        *)
(*                                                                         *)
(* With one coordinator each principal is served in the order of its       *)
(* queue, warm pool or not.  What a tick remembers is all of this one: the *)
(* rows its round lists were the oldest of their principals when it read   *)
(* them, and until it has tried them no older row comes back to the queue. *)
(***************************************************************************)
EXTENDS Admission, FiniteSetTheorems, SequenceTheorems, TLAPS

Rows == st \in [Workspace -> {"gone", "queued", "active"}]

Inv == Rows /\ LimitsHold

\* The active rows that count against one limit are finitely many.
LEMMA ActiveFinite ==
    ASSUME NEW S, S \subseteq Workspace
    PROVE  IsFiniteSet(S) /\ Cardinality(S) \in Nat
<1>1. IsFiniteSet(S) BY SetsAssumption, FS_Subset
<1> QED BY <1>1, FS_CardinalityType

\* A subset of rows within a limit is within it.
LEMMA StillWithin ==
    ASSUME NEW S, S \subseteq Workspace, NEW T, T \subseteq S, NEW n \in Nat, Cardinality(S) <= n
    PROVE  Cardinality(T) <= n
<1>1. IsFiniteSet(S) /\ Cardinality(S) \in Nat BY ActiveFinite
<1>2. Cardinality(T) \in Nat BY ActiveFinite
<1>3. Cardinality(T) <= Cardinality(S) BY <1>1, FS_Subset
<1> QED BY <1>1, <1>2, <1>3

\* One more row stays within a limit that had room.
LEMMA RoomForOne ==
    ASSUME NEW S, S \subseteq Workspace, NEW w, NEW n \in Nat, Cardinality(S) < n
    PROVE  Cardinality(S \cup {w}) <= n
<1>1. IsFiniteSet(S) /\ Cardinality(S) \in Nat BY ActiveFinite
<1>2. Cardinality(S \cup {w}) = IF w \in S THEN Cardinality(S) ELSE Cardinality(S) + 1
    BY <1>1, FS_AddElement
<1> QED BY <1>1, <1>2

\* A step that activates nothing keeps the limits.
LEMMA Shrinks ==
    ASSUME Inv, Active' \subseteq Active
    PROVE  LimitsHold'
<1> USE DEF Inv
<1>0. Active \subseteq Workspace BY DEF Active
<1>1. Cardinality(Active') <= GlobalLimit
    BY <1>0, StillWithin, LimitsAssumption DEF LimitsHold
<1>2. ASSUME NEW p \in Principal
      PROVE  Cardinality({w \in Active' : Owner[w] = p}) <= PrincipalLimit
    <2>1. Cardinality({w \in Active : Owner[w] = p}) <= PrincipalLimit BY DEF LimitsHold
    <2>2. {w \in Active' : Owner[w] = p} \subseteq {w \in Active : Owner[w] = p} OBVIOUS
    <2>3. {w \in Active : Owner[w] = p} \subseteq Workspace BY <1>0
    <2> QED BY <2>1, <2>2, <2>3, StillWithin, LimitsAssumption
<1>3. ASSUME NEW t \in Template
      PROVE  Cardinality({w \in Active' : TemplateOf[w] = t}) <= TemplateLimit[t]
    <2>1. Cardinality({w \in Active : TemplateOf[w] = t}) <= TemplateLimit[t] BY DEF LimitsHold
    <2>2. {w \in Active' : TemplateOf[w] = t} \subseteq {w \in Active : TemplateOf[w] = t} OBVIOUS
    <2>3. {w \in Active : TemplateOf[w] = t} \subseteq Workspace BY <1>0
    <2>4. TemplateLimit[t] \in Nat BY LimitsAssumption
    <2> QED BY <2>1, <2>2, <2>3, <2>4, StillWithin
<1> QED BY <1>1, <1>2, <1>3 DEF LimitsHold

\* A step that activates one row the store found room for keeps the limits.
LEMMA Grows ==
    ASSUME Inv, NEW v \in Workspace, canAdmit(v, countActive), Active' = Active \cup {v}
    PROVE  LimitsHold'
<1> USE DEF Inv
<1>0. Active \subseteq Workspace BY DEF Active
<1>o. Owner[v] \in Principal /\ TemplateOf[v] \in Template BY SetsAssumption
<1>1. Cardinality(Active') <= GlobalLimit
    <2>1. Cardinality(Active) < GlobalLimit BY DEF canAdmit, countActive
    <2> QED BY <1>0, <2>1, RoomForOne, LimitsAssumption
<1>2. ASSUME NEW p \in Principal
      PROVE  Cardinality({w \in Active' : Owner[w] = p}) <= PrincipalLimit
    <2> DEFINE S == {w \in Active : Owner[w] = p}
    <2>1. S \subseteq Workspace BY <1>0
    <2>2. CASE Owner[v] = p
        <3>1. Cardinality(S) < PrincipalLimit BY <2>2, <1>o DEF canAdmit, countActive
        <3>2. {w \in Active' : Owner[w] = p} = S \cup {v} BY <2>2
        <3> HIDE DEF S
        <3> QED BY <2>1, <3>1, <3>2, RoomForOne, LimitsAssumption
    <2>3. CASE Owner[v] # p
        <3>1. {w \in Active' : Owner[w] = p} = S BY <2>3
        <3> QED BY <3>1 DEF LimitsHold
    <2> QED BY <2>2, <2>3
<1>3. ASSUME NEW t \in Template
      PROVE  Cardinality({w \in Active' : TemplateOf[w] = t}) <= TemplateLimit[t]
    <2> DEFINE S == {w \in Active : TemplateOf[w] = t}
    <2>1. S \subseteq Workspace BY <1>0
    <2>2. CASE TemplateOf[v] = t
        <3>1. Cardinality(S) < TemplateLimit[t] BY <2>2, <1>o DEF canAdmit, countActive
        <3>2. {w \in Active' : TemplateOf[w] = t} = S \cup {v} BY <2>2
        <3>3. TemplateLimit[t] \in Nat BY LimitsAssumption
        <3> HIDE DEF S
        <3> QED BY <2>1, <3>1, <3>2, <3>3, RoomForOne
    <2>3. CASE TemplateOf[v] # t
        <3>1. {w \in Active' : TemplateOf[w] = t} = S BY <2>3
        <3> QED BY <3>1 DEF LimitsHold
    <2> QED BY <2>2, <2>3
<1> QED BY <1>1, <1>2, <1>3 DEF LimitsHold

\* What each step does to the active set, with no warm pool.
LEMMA Steps ==
    ASSUME Inv, [Next]_vars, ~WarmPool
    PROVE  /\ Rows'
           /\ \/ Active' \subseteq Active
              \/ \E v \in Workspace : canAdmit(v, countActive) /\ Active' = Active \cup {v}
<1> USE DEF Inv, Rows
<1> DEFINE Goal ==
        /\ Rows'
        /\ \/ Active' \subseteq Active
           \/ \E v \in Workspace : canAdmit(v, countActive) /\ Active' = Active \cup {v}
<1>s. ASSUME UNCHANGED st PROVE Goal BY <1>s DEF Active
<1>l. ASSUME NEW w, NEW s \in {"gone", "queued"}, st' = [st EXCEPT ![w] = s] PROVE Goal
    BY <1>l DEF Active
<1>1. ASSUME NEW w \in Workspace, insertWorkspace(w) \/ LeaveQueue(w) \/ Finish(w) PROVE Goal
    BY <1>1, <1>l DEF insertWorkspace, LeaveQueue, Finish, Leaves
<1>2. ASSUME NEW c \in Coordinator, ClaimCold(c) PROVE Goal
    <2>1. st' = [st EXCEPT ![Trying(c)] = "active"] BY <1>2 DEF ClaimCold, Claims
    <2>2. CASE Trying(c) \in Workspace
        <3>1. canAdmit(Trying(c), countActive) BY <1>2 DEF ClaimCold, Claimable
        <3>2. Active' = Active \cup {Trying(c)} BY <2>1, <2>2 DEF Active
        <3>3. Rows' BY <2>1
        <3> QED BY <2>2, <3>1, <3>2, <3>3
    <2>3. CASE Trying(c) \notin Workspace BY <2>1, <2>3, <1>s
    <2> QED BY <2>2, <2>3
<1>3. ASSUME NEW c \in Coordinator, RoundStep(c), ~ClaimCold(c) PROVE Goal
    <2>1. CASE LaunchRequeues(c) BY <2>1, <1>l DEF LaunchRequeues, Requeues
    <2>2. CASE LaunchFails(c) BY <2>2, <1>l DEF LaunchFails, Leaves
    <2>3. CASE ~LaunchRequeues(c) /\ ~LaunchFails(c)
        BY <1>3, <2>3, <1>s DEF RoundStep, readAdmissionSnapshot, EndRound, PassOver, GoCold,
            ClaimRefused, LaunchSucceeds, rows
    <2> QED BY <2>1, <2>2, <2>3
<1>4. ASSUME NEW c \in Coordinator,
             WarmStep(c) \/ Defer(c) \/ Fenced(c) \/ LaunchUnsettled(c) \/ Restart(c)
      PROVE  Goal
    <2>1. CASE LeaseDestroyed(c) BY <2>1, <1>l DEF LeaseDestroyed, Requeues
    <2>2. CASE ~LeaseDestroyed(c)
        BY <1>4, <2>2, <1>s DEF WarmStep, LeaseWarm, LeaseBreaks, LeaseLost, LeaseStuck,
            Defer, Fenced, LaunchUnsettled, Restart, rows
    <2> QED BY <2>1, <2>2
<1>5. ASSUME NEW c \in Coordinator, NEW w \in Workspace, SweepRequeues(c, w) PROVE Goal
    BY <1>5 DEF SweepRequeues
<1>6. CASE UNCHANGED vars BY <1>6, <1>s DEF vars
<1> QED BY <1>1, <1>2, <1>3, <1>4, <1>5, <1>6 DEF Next, CalmNext

\* LimitsKept: without a warm pool, claimWorkspaceAdmission keeps the active
\* workspaces within the global, per-principal and per-template limits, for any
\* number of schedulers and however stale the counts of their rounds are.
THEOREM LimitsKept ==
    ASSUME ~WarmPool
    PROVE  Spec => []LimitsHold
<1>1. Init => Inv
    <2> SUFFICES ASSUME Init PROVE Inv OBVIOUS
    <2>1. Rows BY DEF Init, Rows
    <2>2. Active = {} BY DEF Init, Active
    <2>3. Cardinality({}) = 0 BY FS_EmptySet
    <2>4. \A p \in Principal : {w \in Active : Owner[w] = p} = {} BY <2>2
    <2>5. \A t \in Template : {w \in Active : TemplateOf[w] = t} = {} BY <2>2
    <2> QED BY <2>1, <2>2, <2>3, <2>4, <2>5, LimitsAssumption DEF Inv, LimitsHold
<1>2. Inv /\ [Next]_vars => Inv' BY Steps, Shrinks, Grows DEF Inv
<1>3. Inv => LimitsHold BY DEF Inv
<1> QED BY <1>1, <1>2, <1>3, PTL DEF Spec

--------------------------------------------------------------------------------
(* First come, first served.                                               *)

\* One scheduler owns the store.
Alone == \E c : Coordinator = {c}

\* The rows that are not gone are totally ordered by their age.
AgesOK ==
    /\ older \in [Workspace -> SUBSET Workspace]
    /\ \A v, w \in Workspace : v \in older[w] => st[v] # "gone" /\ st[w] # "gone" /\ w \notin older[v]
    /\ \A v, w \in Workspace :
          v # w /\ st[v] # "gone" /\ st[w] # "gone" => v \in older[w] \/ w \in older[v]

\* No queued row of its principal is older than w, if w is still there.
First(w) ==
    \/ st[w] = "gone"
    \/ \A v \in Workspace : st[v] = "queued" /\ v # w /\ Owner[v] = Owner[w] => w \in older[v]

\* A round lists one row of a principal.
Spread(s) == \A i, j \in DOMAIN s : i # j => Owner[s[i]] # Owner[s[j]]

RoundsOK ==
    /\ round \in [Coordinator -> Seq(Workspace)]
    /\ phase \in [Coordinator -> {"idle", "round", "cold", "broken", "launch"}]
    /\ \A c \in Coordinator :
          /\ phase[c] = "idle" => round[c] = <<>>
          /\ phase[c] \in {"cold", "broken", "launch"} => round[c] # <<>>
          /\ Spread(round[c])
          /\ \A i \in DOMAIN round[c] : First(round[c][i])

QueueInv == Rows /\ AgesOK /\ RoundsOK

\* A sequence of one row per principal keeps that shape when its head is dropped.
LEMMA Dropped ==
    ASSUME NEW s \in Seq(Workspace), s # <<>>, Spread(s)
    PROVE  /\ Head(s) = s[1] /\ 1 \in DOMAIN s /\ Head(s) \in Workspace
           /\ Tail(s) \in Seq(Workspace) /\ Spread(Tail(s))
           /\ \A i \in DOMAIN Tail(s) : \E j \in DOMAIN s : Tail(s)[i] = s[j]
<1>1. /\ Head(s) = s[1] /\ Tail(s) \in Seq(Workspace) /\ Len(s) \in Nat \ {0} /\ DOMAIN s = 1 .. Len(s)
      /\ Len(Tail(s)) = Len(s) - 1 /\ DOMAIN Tail(s) = 1 .. Len(Tail(s))
    OBVIOUS
<1>2. \A i \in DOMAIN Tail(s) : i + 1 \in DOMAIN s /\ Tail(s)[i] = s[i + 1] BY <1>1
<1>3. Spread(Tail(s))
    <2> SUFFICES ASSUME NEW i \in DOMAIN Tail(s), NEW j \in DOMAIN Tail(s), i # j
                 PROVE  Owner[Tail(s)[i]] # Owner[Tail(s)[j]]
        BY DEF Spread
    <2>1. i + 1 # j + 1 BY <1>1
    <2> QED BY <1>2, <2>1 DEF Spread
<1> QED BY <1>1, <1>2, <1>3

\* A rotation lists the same rows (principalRotation, scheduler-admission.ts).
LEMMA Rotates ==
    ASSUME NEW h \in Seq(Workspace), Spread(h), NEW p
    PROVE  /\ principalRotation(h, p) \in Seq(Workspace) /\ Spread(principalRotation(h, p))
           /\ \A i \in DOMAIN principalRotation(h, p) :
                 \E j \in DOMAIN h : principalRotation(h, p)[i] = h[j]
<1>1. CASE ~\E i \in DOMAIN h : Owner[h[i]] = p BY <1>1 DEF principalRotation
<1>2. CASE \E i \in DOMAIN h : Owner[h[i]] = p
    <2> DEFINE n == CHOOSE i \in DOMAIN h : Owner[h[i]] = p
               a == SubSeq(h, n + 1, Len(h))
               b == SubSeq(h, 1, n)
               at(i) == IF i <= Len(h) - n THEN i + n ELSE i - (Len(h) - n)
    <2>1. n \in 1 .. Len(h) /\ Len(h) \in Nat /\ DOMAIN h = 1 .. Len(h) BY <1>2
    <2>2. principalRotation(h, p) = a \o b BY <1>2 DEF principalRotation, Rotated
    <2> HIDE DEF n
    <2>3. /\ a \in Seq(Workspace) /\ Len(a) = Len(h) - n
          /\ \A i \in 1 .. Len(a) : a[i] = h[i + n]
        BY <2>1
    <2>4. /\ b \in Seq(Workspace) /\ Len(b) = n
          /\ \A i \in 1 .. Len(b) : b[i] = h[i]
        BY <2>1
    <2> HIDE DEF a, b
    <2>5. /\ a \o b \in Seq(Workspace) /\ Len(a \o b) = Len(a) + Len(b)
          /\ \A i \in 1 .. Len(a) + Len(b) : (a \o b)[i] = IF i <= Len(a) THEN a[i] ELSE b[i - Len(a)]
        BY <2>3, <2>4, ConcatProperties
    <2> DEFINE r == a \o b
    <2> HIDE DEF r
    <2>6. r \in Seq(Workspace) /\ DOMAIN r = 1 .. Len(h)
        <3>1. r \in Seq(Workspace) /\ Len(r) = Len(a) + Len(b) BY <2>5 DEF r
        <3>2. Len(r) = Len(h) BY <2>1, <2>3, <2>4, <3>1
        <3> QED BY <3>1, <3>2
    <2>7. ASSUME NEW i \in 1 .. Len(h) PROVE at(i) \in DOMAIN h /\ r[i] = h[at(i)]
        <3>1. CASE i <= Len(a) BY <2>1, <2>3, <2>4, <2>5, <3>1 DEF r
        <3>2. CASE ~(i <= Len(a))
            <4>1. i - Len(a) \in 1 .. Len(b) BY <2>1, <2>3, <2>4, <3>2
            <4>2. r[i] = b[i - Len(a)] BY <2>1, <2>3, <2>4, <2>5, <3>2 DEF r
            <4> QED BY <2>1, <2>3, <2>4, <3>2, <4>1, <4>2
        <3> QED BY <3>1, <3>2
    <2>8. \A i, j \in 1 .. Len(h) : i # j => at(i) # at(j) BY <2>1
    <2> HIDE DEF at
    <2>9. Spread(r) BY <2>6, <2>7, <2>8 DEF Spread
    <2> QED BY <2>2, <2>6, <2>7, <2>9 DEF r
<1> QED BY <1>1, <1>2

\* What the snapshot reads: each principal's oldest queued row (admission-snapshot.ts).
LEMMA SnapshotLists ==
    ASSUME Rows, AgesOK, NEW h \in HeadsByAge
    PROVE  /\ h \in Seq(Workspace) /\ Spread(h)
           /\ \A i \in DOMAIN h : First(h[i])
<1> USE DEF Rows, AgesOK
<1> DEFINE heads == {w \in Workspace : IsHead(w)}
<1>1. Cardinality(heads) \in Nat BY ActiveFinite
<1>2. /\ h \in [1 .. Cardinality(heads) -> heads]
      /\ \A i, j \in DOMAIN h : i < j => h[i] \in older[h[j]]
    BY DEF HeadsByAge
<1>3. \A i \in DOMAIN h : h[i] \in Workspace /\ IsHead(h[i]) BY <1>2
<1>4. h \in Seq(Workspace)
    <2> HIDE DEF heads
    <2> QED BY <1>1, <1>2, <1>3
<1>5. ASSUME NEW v \in Workspace, NEW w \in Workspace, IsHead(v), IsHead(w), v \in older[w]
      PROVE  Owner[v] # Owner[w]
    BY <1>5 DEF IsHead
<1>6. \A i, j \in DOMAIN h : i < j => Owner[h[i]] # Owner[h[j]] BY <1>2, <1>3, <1>5
<1>7. Spread(h)
    <2>1. DOMAIN h \subseteq Nat BY <1>1, <1>2
    <2>2. \A i, j \in DOMAIN h : i # j => i < j \/ j < i BY <2>1
    <2> QED BY <1>6, <2>2 DEF Spread
<1>8. ASSUME NEW w \in Workspace, IsHead(w) PROVE First(w) BY <1>8 DEF First, IsHead, Queued
<1> QED BY <1>3, <1>4, <1>7, <1>8

\* The rows keep their ages: a new row is younger than all, one that goes is forgotten.
LEMMA AgesKept ==
    ASSUME Rows, AgesOK, NEW v \in Workspace,
           insertWorkspace(v) \/ Leaves(v) \/ Claims(v) \/ Requeues(v)
    PROVE  AgesOK'
<1> USE DEF Rows, AgesOK
<1>1. CASE insertWorkspace(v)
    <2>1. /\ st[v] = "gone" /\ st' = [st EXCEPT ![v] = "queued"]
          /\ older' = [older EXCEPT ![v] = Queued \cup Active]
        BY <1>1 DEF insertWorkspace
    <2>2. Queued \cup Active = {w \in Workspace : st[w] # "gone"} BY DEF Queued, Active
    <2> QED BY <2>1, <2>2
<1>2. CASE Leaves(v) BY <1>2 DEF Leaves
<1>3. CASE Claims(v) \/ Requeues(v) BY <1>3 DEF Claims, Requeues
<1> QED BY <1>1, <1>2, <1>3

\* A row stays the first of its principal unless another of its rows is requeued.
LEMMA FirstKept ==
    ASSUME Rows, AgesOK, NEW w \in Workspace, First(w), NEW v \in Workspace,
           \/ insertWorkspace(v) /\ v # w
           \/ Leaves(v)
           \/ Claims(v)
           \/ Requeues(v) /\ (v = w \/ Owner[v] # Owner[w])
    PROVE  First(w)'
<1> USE DEF Rows, AgesOK, First
<1>1. CASE insertWorkspace(v) /\ v # w
    <2>1. /\ st[v] = "gone" /\ st' = [st EXCEPT ![v] = "queued"]
          /\ older' = [older EXCEPT ![v] = Queued \cup Active]
        BY <1>1 DEF insertWorkspace
    <2>2. Queued \cup Active = {u \in Workspace : st[u] # "gone"} BY DEF Queued, Active
    <2> QED BY <1>1, <2>1, <2>2
<1>2. CASE Leaves(v) BY <1>2 DEF Leaves
<1>3. CASE Claims(v) BY <1>3 DEF Claims
<1>4. CASE Requeues(v) /\ (v = w \/ Owner[v] # Owner[w]) BY <1>4 DEF Requeues
<1> QED BY <1>1, <1>2, <1>3, <1>4

\* The rows are left alone or one of them moves; only an idle tick, or the one that has just
\* failed to launch the row, requeues a row.
RowMoves(c) ==
    \/ UNCHANGED <<st, older>>
    \/ \E v \in Workspace :
          \/ insertWorkspace(v) \/ Leaves(v) \/ Claims(v)
          \/ Requeues(v) /\ (round[c] = <<>> \/ v = Trying(c))

\* The tick waits, launches the row it tries, breaks off, goes on to the next or reads a snapshot.
RoundMoves(c) ==
    \/ UNCHANGED <<round, phase>>
    \/ /\ round[c] # <<>> /\ UNCHANGED round
       /\ \E p \in {"cold", "broken", "launch"} : phase' = [phase EXCEPT ![c] = p]
    \/ round' = [round EXCEPT ![c] = <<>>] /\ phase' = [phase EXCEPT ![c] = "idle"]
    \/ round[c] # <<>> /\ Passes(c)
    \/ readAdmissionSnapshot(c)

\* A row is claimed for launch only by the tick that tries it.
ClaimsTried(c) == \A v \in Workspace : st[v] = "queued" /\ st'[v] = "active" => round[c] # <<>> /\ v = Trying(c)

\* What each step does to the rows and to the round of the coordinator.
LEMMA QueueSteps ==
    ASSUME Alone, QueueInv, Next, NEW c \in Coordinator
    PROVE  RowMoves(c) /\ RoundMoves(c) /\ ClaimsTried(c)
<1> USE DEF QueueInv, RoundsOK, Rows
<1>0. \A d \in Coordinator : d = c BY DEF Alone
<1>t. round[c] # <<>> => Trying(c) \in Workspace BY Dropped DEF Trying
<1>p. phase[c] \in {"cold", "broken", "launch"} => round[c] # <<>> OBVIOUS
<1>1. ASSUME NEW w \in Workspace, insertWorkspace(w) \/ Finish(w) \/ LeaveQueue(w)
      PROVE  RowMoves(c) /\ RoundMoves(c) /\ ClaimsTried(c)
    <2>1. UNCHANGED <<round, phase>> /\ (insertWorkspace(w) \/ Leaves(w))
        BY <1>1 DEF insertWorkspace, Finish, LeaveQueue
    <2>2. ClaimsTried(c) BY <2>1 DEF ClaimsTried, insertWorkspace, Leaves
    <2> QED BY <2>1, <2>2 DEF RowMoves, RoundMoves
<1>2. CASE readAdmissionSnapshot(c)
    BY <1>2 DEF RowMoves, RoundMoves, ClaimsTried, readAdmissionSnapshot, rows
<1>3. CASE EndRound(c) \/ Fenced(c) \/ Restart(c)
    BY <1>3 DEF RowMoves, RoundMoves, ClaimsTried, EndRound, Fenced, Restart, rows
<1>4. CASE PassOver(c) \/ Defer(c)
    BY <1>4 DEF RowMoves, RoundMoves, ClaimsTried, PassOver, Defer, Tries, NotAdmitted, rows
<1>5. CASE LeaseStuck(c) \/ ClaimRefused(c) \/ LaunchUnsettled(c) \/ LaunchSucceeds(c)
    BY <1>5, <1>p DEF RowMoves, RoundMoves, ClaimsTried, LeaseStuck, ClaimRefused, LaunchUnsettled,
        LaunchSucceeds, Admitted, NotAdmitted, rows
<1>6. CASE GoCold(c) \/ LeaseLost(c)
    BY <1>6, <1>p DEF RowMoves, RoundMoves, ClaimsTried, GoCold, LeaseLost, Tries, rows
<1>7. CASE LeaseWarm(c) \/ LeaseBreaks(c) \/ ClaimCold(c)
    <2>1. round[c] # <<>> /\ Claims(Trying(c))
        BY <1>7, <1>p DEF LeaseWarm, LeaseBreaks, ClaimCold, Tries
    <2>2. ClaimsTried(c) BY <2>1, <1>t DEF ClaimsTried, Claims
    <2>3. RowMoves(c) BY <2>1, <1>t DEF RowMoves
    <2>4. RoundMoves(c) BY <1>7, <2>1 DEF RoundMoves, LeaseWarm, LeaseBreaks, ClaimCold, Admitted
    <2> QED BY <2>2, <2>3, <2>4
<1>8. CASE LeaseDestroyed(c) \/ LaunchRequeues(c)
    <2>1. round[c] # <<>> /\ Requeues(Trying(c)) BY <1>8, <1>p DEF LeaseDestroyed, LaunchRequeues
    <2>2. ClaimsTried(c) BY <2>1, <1>t DEF ClaimsTried, Requeues
    <2>3. RowMoves(c) BY <2>1, <1>t DEF RowMoves
    <2>4. RoundMoves(c) BY <1>8, <2>1 DEF RoundMoves, LeaseDestroyed, LaunchRequeues, NotAdmitted
    <2> QED BY <2>2, <2>3, <2>4
<1>9. CASE LaunchFails(c)
    <2>1. round[c] # <<>> /\ Leaves(Trying(c)) BY <1>9, <1>p DEF LaunchFails
    <2>2. ClaimsTried(c) BY <2>1, <1>t DEF ClaimsTried, Leaves
    <2>3. RowMoves(c) BY <2>1, <1>t DEF RowMoves
    <2>4. RoundMoves(c) BY <1>9, <2>1 DEF RoundMoves, LaunchFails, NotAdmitted
    <2> QED BY <2>2, <2>3, <2>4
<1>10. ASSUME NEW w \in Workspace, SweepRequeues(c, w)
       PROVE  RowMoves(c) /\ RoundMoves(c) /\ ClaimsTried(c)
    <2>1. round[c] = <<>> /\ Requeues(w) /\ UNCHANGED <<round, phase>> BY <1>10 DEF SweepRequeues
    <2>2. ClaimsTried(c) BY <2>1 DEF ClaimsTried, Requeues
    <2> QED BY <2>1, <2>2 DEF RowMoves, RoundMoves
<1> QED
    BY <1>0, <1>1, <1>2, <1>3, <1>4, <1>5, <1>6, <1>7, <1>8, <1>9, <1>10
    DEF Next, CalmNext, RoundStep, WarmStep

\* What a round lists stays first: an older row of the principal would have to be requeued, and
\* the only row that is, while a round runs, is the one it tries.
LEMMA ListedStayFirst ==
    ASSUME QueueInv, NEW c \in Coordinator, RowMoves(c), NEW i \in DOMAIN round[c],
           NEW w \in Workspace, w = round[c][i],
           \A v \in Workspace : insertWorkspace(v) => v # w
    PROVE  First(w)'
<1> USE DEF QueueInv, RoundsOK
<1>1. First(w) OBVIOUS
<1>2. CASE UNCHANGED <<st, older>> BY <1>1, <1>2 DEF First
<1>3. CASE ~UNCHANGED <<st, older>>
    <2>1. PICK v \in Workspace :
              \/ insertWorkspace(v) \/ Leaves(v) \/ Claims(v)
              \/ Requeues(v) /\ (round[c] = <<>> \/ v = Trying(c))
        BY <1>3 DEF RowMoves
    <2>2. round[c] # <<>> /\ Trying(c) = round[c][1] /\ 1 \in DOMAIN round[c]
        BY Dropped DEF Trying
    <2>3. CASE Requeues(v) /\ v = Trying(c)
        <3>1. v = w \/ Owner[v] # Owner[w] BY <2>2, <2>3 DEF Spread
        <3> QED BY <1>1, <2>3, <3>1, FirstKept
    <2>4. CASE insertWorkspace(v) \/ Leaves(v) \/ Claims(v) BY <1>1, <2>4, FirstKept
    <2> QED BY <2>1, <2>2, <2>3, <2>4
<1> QED BY <1>2, <1>3

\* The inductive invariant of the queue and the round.
LEMMA QueueInductive ==
    ASSUME Alone, QueueInv, [Next]_vars
    PROVE  QueueInv'
<1> USE DEF QueueInv
<1>1. CASE UNCHANGED vars
    BY <1>1 DEF vars, Rows, AgesOK, RoundsOK, First, Spread
<1>2. CASE Next
    <2>0. PICK c \in Coordinator : Coordinator = {c} BY DEF Alone
    <2>1. RowMoves(c) /\ RoundMoves(c) BY <1>2, QueueSteps
    <2>2. Rows'
        BY <2>1 DEF RowMoves, Rows, insertWorkspace, Leaves, Claims, Requeues
    <2>3. AgesOK'
        <3>1. CASE UNCHANGED <<st, older>> BY <3>1 DEF AgesOK
        <3>2. CASE ~UNCHANGED <<st, older>> BY <2>1, <3>2, AgesKept DEF RowMoves
        <3> QED BY <3>1, <3>2
    <2>4. ASSUME NEW i \in DOMAIN round[c], NEW w \in Workspace, w = round[c][i] PROVE First(w)'
        <3>1. \A v \in Workspace : insertWorkspace(v) => v # w BY <2>4 DEF insertWorkspace
        <3> QED BY <2>1, <2>4, <3>1, ListedStayFirst
    <2>5. RoundsOK'
        <3> USE DEF RoundsOK
        <3>1. PICK s \in Seq(Workspace) : s = round[c] OBVIOUS
        <3>2. Spread(s) /\ \A i \in DOMAIN s : s[i] \in Workspace BY <3>1
        <3>3. \A i \in DOMAIN s : First(s[i])' BY <2>4, <3>1, <3>2
        <3>k. ASSUME NEW t \in Seq(Workspace), Spread(t), \A i \in DOMAIN t : First(t[i])',
                     NEW p \in {"idle", "round", "cold", "broken", "launch"},
                     p = "idle" => t = <<>>, p \in {"cold", "broken", "launch"} => t # <<>>,
                     round' = [round EXCEPT ![c] = t], phase' = [phase EXCEPT ![c] = p]
              PROVE  RoundsOK'
            <4>1. round'[c] = t /\ phase'[c] = p BY <3>k
            <4>2. /\ round' \in [Coordinator -> Seq(Workspace)]
                  /\ phase' \in [Coordinator -> {"idle", "round", "cold", "broken", "launch"}]
                BY <3>k
            <4>3. Spread(round[c])' BY <3>k, <4>1 DEF Spread
            <4>4. \A i \in DOMAIN round'[c] : First(round[c][i])'
                BY <3>k, <4>1 DEF First
            <4> QED BY <2>0, <3>k, <4>1, <4>2, <4>3, <4>4
        <3>s. round = [round EXCEPT ![c] = s] /\ phase = [phase EXCEPT ![c] = phase[c]] BY <3>1
        <3>4. CASE UNCHANGED <<round, phase>>
            BY <3>1, <3>2, <3>3, <3>4, <3>s, <3>k
        <3>5. CASE /\ round[c] # <<>> /\ UNCHANGED round
                   /\ \E p \in {"cold", "broken", "launch"} : phase' = [phase EXCEPT ![c] = p]
            BY <3>1, <3>2, <3>3, <3>5, <3>s, <3>k
        <3>6. CASE round' = [round EXCEPT ![c] = <<>>] /\ phase' = [phase EXCEPT ![c] = "idle"]
            <4>1. <<>> \in Seq(Workspace) /\ DOMAIN <<>> = {} OBVIOUS
            <4>2. Spread(<<>>) BY <4>1 DEF Spread
            <4> QED BY <3>6, <4>1, <4>2, <3>k
        <3>7. CASE round[c] # <<>> /\ Passes(c)
            <4>1. PICK t \in Seq(Workspace) :
                      t = Tail(s) /\ Spread(t) /\ \A i \in DOMAIN t : \E j \in DOMAIN s : t[i] = s[j]
                BY <3>1, <3>2, <3>7, Dropped
            <4>2. \A i \in DOMAIN t : First(t[i])' BY <3>3, <4>1
            <4> QED BY <3>1, <3>7, <4>1, <4>2, <3>k DEF Passes
        <3>8. CASE readAdmissionSnapshot(c)
            <4>1. UNCHANGED <<st, older>> BY <3>8 DEF readAdmissionSnapshot, rows
            <4>2. PICK h \in HeadsByAge : round' = [round EXCEPT ![c] = principalRotation(h, last[c])]
                BY <3>8 DEF readAdmissionSnapshot
            <4>3. h \in Seq(Workspace) /\ Spread(h) /\ \A i \in DOMAIN h : First(h[i])
                BY SnapshotLists
            <4>4. PICK t \in Seq(Workspace) :
                      /\ t = principalRotation(h, last[c]) /\ Spread(t)
                      /\ \A i \in DOMAIN t : \E j \in DOMAIN h : t[i] = h[j]
                BY <4>3, Rotates
            <4>5. \A i \in DOMAIN t : First(t[i])' BY <4>1, <4>3, <4>4 DEF First
            <4> QED BY <3>8, <4>2, <4>4, <4>5, <3>k DEF readAdmissionSnapshot
        <3> QED BY <2>1, <3>4, <3>5, <3>6, <3>7, <3>8 DEF RoundMoves
    <2> QED BY <2>2, <2>3, <2>5
<1> QED BY <1>1, <1>2

\* FirstServed: with one scheduler, a principal's workspaces are admitted in the order they were
\* created, for any limits, queue and warm pool, through requeues, cancels, broken leases,
\* fences and restarts (admitRound in scheduler-admission.ts, admission-snapshot.ts).
THEOREM FirstServed ==
    ASSUME Alone
    PROVE  Spec => FirstComeFirstServed
<1> DEFINE InOrder ==
        \A w \in Workspace :
            st[w] = "queued" /\ st'[w] = "active" =>
                \A v \in Queued \ {w} : Owner[v] = Owner[w] => w \in older[v]
<1>1. Init => QueueInv
    <2> SUFFICES ASSUME Init PROVE QueueInv OBVIOUS
    <2>1. <<>> \in Seq(Workspace) /\ DOMAIN <<>> = {} OBVIOUS
    <2> QED BY <2>1 DEF Init, QueueInv, Rows, AgesOK, RoundsOK, Spread
<1>2. QueueInv /\ [Next]_vars => QueueInv' BY QueueInductive
<1>3. QueueInv /\ [Next]_vars => [InOrder]_vars
    <2> SUFFICES ASSUME QueueInv, Next, NEW w \in Workspace, st[w] = "queued", st'[w] = "active",
                        NEW v \in Queued \ {w}, Owner[v] = Owner[w]
                 PROVE  w \in older[v]
        OBVIOUS
    <2>1. PICK c \in Coordinator : TRUE BY DEF Alone
    <2>2. round[c] # <<>> /\ w = Trying(c) BY QueueSteps DEF ClaimsTried
    <2>3. 1 \in DOMAIN round[c] /\ w = round[c][1] BY <2>2, Dropped DEF Trying, QueueInv, RoundsOK
    <2>4. First(w) BY <2>3 DEF QueueInv, RoundsOK
    <2> QED BY <2>4 DEF First, Queued
<1> QED BY <1>1, <1>2, <1>3, PTL DEF Spec, FirstComeFirstServed
================================================================================
