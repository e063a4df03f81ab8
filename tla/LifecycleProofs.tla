---------------------------- MODULE LifecycleProofs ----------------------------
(***************************************************************************)
(* What holds of the lifecycle for any number of workspaces, any limit on  *)
(* launches, either driver and any number of faults.                       *)
(*                                                                         *)
(* The argument is about one row at a time.  RowOK is the inductive        *)
(* invariant of a row, RowMove what any step may do to it; each action is  *)
(* shown to leave every row alone or to make one RowMove.  The invariants, *)
(* the action property and the refinement all follow from that.            *)
(***************************************************************************)
EXTENDS Lifecycle, TLAPS

Ending == TerminalState \cup {"terminating"}

RowOK(r) ==
    /\ r \in Row
    /\ r.state = "queued" => r.attempts < MaxLaunchAttempts
    /\ r.state = "terminating" => r.intent # "none"
    /\ r.intent # "none" => r.state \in Ending

RowMove(r, q) ==
    /\ RowOK(q)
    /\ q.state = r.state \/ CanTransition(r.state, q.state)
    /\ r.intent # "none" => q.intent = r.intent

--------------------------------------------------------------------------------
(* The contract's table.                                                   *)

\* A terminating workspace only becomes terminal, a terminal one stays, and
\* only a provisioning workspace returns to the queue (workspace.ts).
LEMMA TableFacts ==
    ASSUME NEW s \in WorkspaceState, NEW t \in WorkspaceState, CanTransition(s, t)
    PROVE  /\ s \in Ending => t \in TerminalState
           /\ s \notin TerminalState
           /\ t = "queued" => s = "provisioning"
           /\ t \notin {s}
BY DEF CanTransition, Transitions, WorkspaceState, TerminalState, Ending

\* The two states that reconciliation terminates may be terminated.
LEMMA TerminableFacts ==
    /\ CanTransition("connected", "terminating")
    /\ CanTransition("ready", "terminating")
BY DEF CanTransition, Transitions, WorkspaceState

\* Entering a state keeps the record's type and its other fields.
LEMMA EnteredFacts ==
    ASSUME NEW r \in Row, NEW to \in WorkspaceState
    PROVE  /\ Entered(r, to) \in Row
           /\ Entered(r, to).state = to
           /\ Entered(r, to).intent = r.intent
           /\ Entered(r, to).attempts = r.attempts
           /\ Entered(r, to).ref = r.ref
           /\ Entered(r, to).runtime = r.runtime
BY DEF Entered, Row

\* A permitted entry into a state other than queued or terminating is a move.
LEMMA EnterMoves ==
    ASSUME NEW r, RowOK(r), NEW from, NEW to \in WorkspaceState \ {"queued", "terminating"},
           Permits(r, from, to)
    PROVE  RowMove(r, Entered(r, to))
<1>1. r \in Row /\ r.state \in WorkspaceState
  BY DEF RowOK, Row
<1>2. r.state \in Ending => to \in TerminalState
  BY <1>1, TableFacts DEF Permits
<1> QED
  BY <1>1, <1>2, EnteredFacts DEF RowMove, RowOK, Permits, Ending

\* beginTermination's write is a move and so is its refusal.
LEMMA TerminatingMoves ==
    ASSUME NEW r, RowOK(r), NEW target \in TerminalState
    PROVE  RowMove(r, Terminating(r, target))
<1>1. r \in Row /\ r.state \in WorkspaceState /\ "terminating" \in WorkspaceState
  BY DEF RowOK, Row, WorkspaceState
<1>2. CASE Permits(r, Active, "terminating")
  <2>1. r.state \notin Ending
    BY <1>2 DEF Permits, Active, Ending, TerminalState
  <2>2. target # "none" /\ "terminating" # "queued"
    BY DEF TerminalState
  <2> DEFINE q == [Entered(r, "terminating") EXCEPT !.intent = target]
  <2>3. q \in Row /\ q.state = "terminating" /\ q.intent = target
    BY <1>1, EnteredFacts DEF Row
  <2> QED
    BY <1>1, <1>2, <2>1, <2>2, <2>3 DEF RowMove, RowOK, Permits, Terminating, Ending
<1>3. CASE ~Permits(r, Active, "terminating")
  BY <1>3 DEF Terminating, RowMove
<1> QED
  BY <1>2, <1>3

LEMMA TerminatingType ==
    ASSUME NEW r \in Row, NEW target \in TerminalState
    PROVE  Terminating(r, target) \in Row
<1> DEFINE e == Entered(r, "terminating")
<1>1. e \in Row
  BY EnteredFacts DEF WorkspaceState
<1> HIDE DEF e
<1>2. [e EXCEPT !.intent = target] \in Row
  BY <1>1 DEF Row
<1> QED
  BY <1>2 DEF Terminating, e

\* Writing a reference, a runtime or the disconnect clock is a move.
LEMMA FieldMoves ==
    ASSUME NEW r, RowOK(r), NEW ref \in Ref, NEW rt \in {"none", "bound", "ended"},
           NEW d \in BOOLEAN
    PROVE  /\ RowMove(r, [r EXCEPT !.ref = ref])
           /\ RowMove(r, [r EXCEPT !.runtime = rt])
           /\ RowMove(r, [r EXCEPT !.disconnected = d])
           /\ RowMove(r, r)
BY DEF RowMove, RowOK, Row

--------------------------------------------------------------------------------
(* Every step leaves all rows alone or makes one RowMove.                  *)

Inv == TypeOK /\ \A w \in Workspace : RowOK(row[w])

RowStep ==
    \/ row' = row
    \/ \E w \in Workspace : \E q :
          RowMove(row[w], q) /\ row' = [row EXCEPT ![w] = q]

\* The launch (scheduler-admission.ts).
LEMMA LaunchRows ==
    ASSUME Inv, NEW w \in Workspace, LaunchStep(w) \/ LaunchCleaned(w)
    PROVE  RowStep
<1> DEFINE r == row[w]
<1>0. RowOK(r) /\ r \in Row
  BY DEF Inv, TypeOK
<1>1. CASE Claim(w)
  <2> DEFINE q == [Entered(r, "provisioning") EXCEPT !.attempts = r.attempts + 1,
                                                  !.secret = TRUE]
  <2>1. /\ r.state = "queued" /\ CanTransition(r.state, "provisioning")
        /\ row' = [row EXCEPT ![w] = q]
    BY <1>1 DEF Claim, Permits
  <2>2. r.attempts < MaxLaunchAttempts /\ r.intent = "none" /\ r.attempts \in Attempt
    BY <1>0, <2>1 DEF RowOK, Row, Ending, TerminalState
  <2>3. r.attempts + 1 \in Attempt
    BY <2>2, AttemptsAssumption DEF Attempt
  <2>4. Entered(r, "provisioning") \in Row /\ Entered(r, "provisioning").intent = "none"
        /\ Entered(r, "provisioning").attempts = r.attempts
        /\ Entered(r, "provisioning").state = "provisioning"
    BY <1>0, <2>2, EnteredFacts DEF WorkspaceState
  <2>5. q \in Row /\ q.state = "provisioning" /\ q.intent = "none"
    BY <2>3, <2>4 DEF Row
  <2>6. RowMove(r, q)
    BY <2>1, <2>2, <2>5 DEF RowMove, RowOK
  <2> QED
    BY <2>1, <2>6 DEF RowStep
<1>2. CASE SaveRef(w)
  <2>1. r.attempts \in Ref /\ row' = [row EXCEPT ![w] = [r EXCEPT !.ref = r.attempts]]
    BY <1>0, <1>2 DEF SaveRef, Row, Ref, Inv, TypeOK
  <2> QED
    BY <1>0, <2>1, FieldMoves DEF RowStep, Row
<1>3. CASE PrepareRuntime(w)
  <2> DEFINE rt == IF Manifest THEN "bound" ELSE r.runtime
  <2>1. rt \in {"none", "bound", "ended"} /\ row' = [row EXCEPT ![w] = [r EXCEPT !.runtime = rt]]
    BY <1>0, <1>3 DEF PrepareRuntime, Row, Inv, TypeOK
  <2> QED
    BY <1>0, <2>1, FieldMoves DEF RowStep, Row
<1>4. CASE Settle(w)
  <2>1. CASE r.attempts < MaxLaunchAttempts /\ Permits(r, {"provisioning"}, "queued")
    <3> DEFINE q == [Entered(r, "queued") EXCEPT !.ref = 0, !.secret = FALSE]
    <3>1. row' = [row EXCEPT ![w] = q]
      BY <1>4, <2>1 DEF Settle
    <3>2. r.intent = "none" /\ r.state = "provisioning" /\ CanTransition(r.state, "queued")
      BY <1>0, <2>1 DEF Permits, RowOK, Row, Ending, TerminalState
    <3>3. /\ Entered(r, "queued") \in Row /\ Entered(r, "queued").intent = "none"
          /\ Entered(r, "queued").attempts = r.attempts
          /\ Entered(r, "queued").state = "queued"
      BY <1>0, <3>2, EnteredFacts DEF WorkspaceState
    <3>4. 0 \in Ref
      BY AttemptsAssumption DEF Ref, Attempt
    <3>5. q \in Row /\ q.state = "queued" /\ q.intent = "none" /\ q.attempts = r.attempts
      BY <3>3, <3>4 DEF Row
    <3>6. RowMove(r, q)
      BY <2>1, <3>2, <3>5 DEF RowMove, RowOK
    <3> QED
      BY <3>1, <3>6 DEF RowStep
  <2>2. CASE ~(r.attempts < MaxLaunchAttempts) /\ Permits(r, {"provisioning"}, "failed")
    <3>1. row' = [row EXCEPT ![w] = Entered(r, "failed")]
      BY <1>4, <2>2 DEF Settle
    <3> QED
      BY <1>0, <2>2, <3>1, EnterMoves DEF RowStep, WorkspaceState
  <2>3. CASE /\ ~(r.attempts < MaxLaunchAttempts /\ Permits(r, {"provisioning"}, "queued"))
             /\ ~(~(r.attempts < MaxLaunchAttempts) /\ Permits(r, {"provisioning"}, "failed"))
    <3>1. row' = [row EXCEPT ![w] = r]
      BY <1>4, <2>3 DEF Settle
    <3> QED
      BY <1>0, <3>1 DEF RowStep, RowMove
  <2> QED
    BY <2>1, <2>2, <2>3
<1>5. CASE \/ PrepareStorage(w) \/ LaunchNotSubmitted(w) \/ CreateContainer(w)
           \/ CreateReceipt(w) \/ ClaimSubmitting(w) \/ CreateJob(w) \/ CreateFails(w)
           \/ SaveRefFails(w) \/ PrepareRuntimeFails(w) \/ LaunchCleaned(w)
  BY <1>5 DEF RowStep, PrepareStorage, LaunchNotSubmitted, CreateContainer, CreateReceipt,
        ClaimSubmitting, CreateJob, CreateFails, SaveRefFails, PrepareRuntimeFails, LaunchCleaned
<1> QED
  BY <1>1, <1>2, <1>3, <1>4, <1>5 DEF LaunchStep

\* The finalizers (scheduler-lifecycle.ts, provider-termination.ts).
LEMMA TaskRows ==
    ASSUME Inv, NEW w \in Workspace, NEW s \in Slot, TaskStep(w, s)
    PROVE  RowStep
<1> DEFINE r == row[w]
           t == task[w][s]
<1>0. RowOK(r) /\ r \in Row /\ t \in Task
  BY DEF Inv, TypeOK
<1>1. CASE ListUncommitted(w, s)
  <2> DEFINE found == IF obj[w] # 0 THEN obj[w] ELSE NeverAdmitted
  <2>1. found \in Ref /\ row' = [row EXCEPT ![w] = [r EXCEPT !.ref = found]]
    BY <1>1 DEF ListUncommitted, Ref, Inv, TypeOK
  <2> QED
    BY <1>0, <2>1, FieldMoves DEF RowStep, Row
<1>2. CASE TaskFails(w, s)
  <2> DEFINE q == [Entered(r, "terminating") EXCEPT !.intent = t.target, !.secret = FALSE]
  <2>1. CASE /\ t.target # "relaunch"
             /\ Permits(r, {"provisioning", "connected", "ready"}, "terminating")
    <3>1. row' = [row EXCEPT ![w] = q]
      BY <1>2, <2>1 DEF TaskFails
    <3>2. t.target \in TerminalState /\ t.target # "none"
      BY <1>0, <2>1 DEF Task, TerminalState
    <3>3. r.intent = "none" /\ CanTransition(r.state, "terminating")
      BY <1>0, <2>1 DEF Permits, RowOK, Ending, TerminalState
    <3>4. Entered(r, "terminating") \in Row /\ Entered(r, "terminating").state = "terminating"
      BY <1>0, EnteredFacts DEF WorkspaceState
    <3>5. q \in Row /\ q.state = "terminating" /\ q.intent = t.target
      BY <3>2, <3>4 DEF Row
    <3>6. RowMove(r, q)
      BY <3>2, <3>3, <3>5 DEF RowMove, RowOK, Ending
    <3> QED
      BY <3>1, <3>6 DEF RowStep
  <2>2. CASE ~(/\ t.target # "relaunch"
               /\ Permits(r, {"provisioning", "connected", "ready"}, "terminating"))
    <3>1. row' = [row EXCEPT ![w] = r]
      BY <1>2, <2>2 DEF TaskFails
    <3> QED
      BY <1>0, <3>1 DEF RowStep, RowMove
  <2> QED
    BY <2>1, <2>2
<1>3. CASE CloseConnection(w, s)
  <2> DEFINE rt == IF t.runtime # "none" /\ r.runtime = "bound" THEN "ended" ELSE r.runtime
  <2>1. rt \in {"none", "bound", "ended"} /\ row' = [row EXCEPT ![w] = [r EXCEPT !.runtime = rt]]
    BY <1>0, <1>3 DEF CloseConnection, Row, Inv, TypeOK
  <2> QED
    BY <1>0, <2>1, FieldMoves DEF RowStep, Row
<1>4. CASE CommitFinal(w, s)
  <2>1. CASE Permits(r, Finalizable, t.target)
    <3>1. row' = [row EXCEPT ![w] = Entered(r, t.target)]
      BY <1>4, <2>1 DEF CommitFinal
    <3>2. r.state \in WorkspaceState
      BY <1>0 DEF Row
    <3>3. t.target # "relaunch"
      BY <2>1, <3>2 DEF Permits, CanTransition, Transitions, WorkspaceState
    <3>4. t.target \in WorkspaceState \ {"queued", "terminating"}
      BY <1>0, <3>3 DEF Task, TerminalState, WorkspaceState
    <3> QED
      BY <1>0, <2>1, <3>1, <3>4, EnterMoves DEF RowStep
  <2>2. CASE ~Permits(r, Finalizable, t.target)
    <3>1. row' = [row EXCEPT ![w] = r]
      BY <1>4, <2>2 DEF CommitFinal
    <3> QED
      BY <1>0, <3>1 DEF RowStep, RowMove
  <2> QED
    BY <2>1, <2>2
<1>5. CASE BeginTask(w, s) \/ ListNothing(w, s) \/ RemoveProvider(w, s)
  BY <1>5 DEF BeginTask, ListNothing, RemoveProvider, RowStep
<1> QED
  BY <1>1, <1>2, <1>3, <1>4, <1>5 DEF TaskStep

\* Cancellation (workspaces/service.ts).
LEMMA CancelRows ==
    ASSUME Inv, NEW w \in Workspace, CancelStep(w)
    PROVE  RowStep
<1> DEFINE r == row[w]
<1>0. RowOK(r) /\ r \in Row
  BY DEF Inv, TypeOK
<1>1. CASE CallCancel(w)
  BY <1>1 DEF CallCancel, RowStep
<1>2. CASE CancelQueued(w)
  <2>1. CASE Permits(r, {"queued"}, "canceled")
    BY <1>0, <1>2, <2>1, EnterMoves DEF CancelQueued, RowStep, WorkspaceState
  <2>2. CASE ~Permits(r, {"queued"}, "canceled")
    BY <1>2, <2>2 DEF CancelQueued, RowStep
  <2> QED
    BY <2>1, <2>2
<1>3. ASSUME NEW s \in Slot, CancelActive(w, s) PROVE RowStep
  <2>1. row' = [row EXCEPT ![w] = Terminating(r, "canceled")]
    BY <1>3 DEF CancelActive
  <2> QED
    BY <1>0, <2>1, TerminatingMoves DEF RowStep, TerminalState
<1> QED
  BY <1>1, <1>2, <1>3 DEF CancelStep

\* The control channel (ws-events.ts, ws-frame-handler.ts).
LEMMA ChannelRows ==
    ASSUME Inv, NEW w \in Workspace, ChannelStep(w)
    PROVE  RowStep
<1> DEFINE r == row[w]
<1>0. RowOK(r) /\ r \in Row
  BY DEF Inv, TypeOK
<1>1. CASE Register(w)
  <2>1. CASE Permits(r, {"provisioning"}, "connected")
    <3> DEFINE q == [Entered(r, "connected") EXCEPT !.secret = FALSE, !.disconnected = FALSE]
    <3>1. row' = [row EXCEPT ![w] = q]
      BY <1>1, <2>1 DEF Register
    <3>2. r.intent = "none" /\ CanTransition(r.state, "connected")
      BY <1>0, <2>1 DEF Permits, RowOK, Ending, TerminalState
    <3>3. /\ Entered(r, "connected") \in Row /\ Entered(r, "connected").intent = "none"
          /\ Entered(r, "connected").state = "connected"
      BY <1>0, <3>2, EnteredFacts DEF WorkspaceState
    <3>4. q \in Row /\ q.state = "connected" /\ q.intent = "none"
      BY <3>3 DEF Row
    <3>5. RowMove(r, q)
      BY <3>2, <3>4 DEF RowMove, RowOK
    <3> QED
      BY <3>1, <3>5 DEF RowStep
  <2>2. CASE ~Permits(r, {"provisioning"}, "connected")
    BY <1>1, <2>2 DEF Register, RowStep
  <2> QED
    BY <2>1, <2>2
<1>2. CASE Reconnect(w)
  <2>1. row' = [row EXCEPT ![w] = [r EXCEPT !.disconnected = FALSE]]
    BY <1>2 DEF Reconnect, Inv, TypeOK
  <2> QED
    BY <1>0, <2>1, FieldMoves DEF RowStep, Row
<1>3. CASE MaybeMarkReady(w)
  <2>1. row' = [row EXCEPT ![w] = Entered(r, "ready")] /\ Permits(r, {"connected"}, "ready")
    BY <1>3 DEF MaybeMarkReady
  <2> QED
    BY <1>0, <2>1, EnterMoves DEF RowStep, WorkspaceState
<1>4. CASE Disconnect(w)
  <2> DEFINE d == r.disconnected \/ r.state \notin TerminalState \cup {"terminating", "preserving"}
  <2>1. d \in BOOLEAN /\ row' = [row EXCEPT ![w] = [r EXCEPT !.disconnected = d]]
    BY <1>0, <1>4 DEF Disconnect, Row, Inv, TypeOK
  <2> QED
    BY <1>0, <2>1, FieldMoves DEF RowStep, Row
<1>5. CASE Authenticate(w) \/ SocketLost(w) \/ Attach(w)
  BY <1>5 DEF Authenticate, SocketLost, Attach, RowStep
<1>6. ASSUME NEW s \in Slot, NetworkDegraded(w, s) PROVE RowStep
  BY <1>6 DEF NetworkDegraded, RowStep
<1>7. ASSUME NEW s \in Slot, NEW c \in {0, 1}, HandleProcessExit(w, s, c) PROVE RowStep
  BY <1>7 DEF HandleProcessExit, RowStep
<1> QED
  BY <1>1, <1>2, <1>3, <1>4, <1>5, <1>6, <1>7 DEF ChannelStep

\* The sweep (scheduler-sweep.ts).
LEMMA SweepRows ==
    ASSUME Inv, NEW w \in Workspace,
           SweepStep(w) \/ \E phase \in Sweeping : Sweep(w, phase)
    PROVE  RowStep
<1> DEFINE r == row[w]
<1>0. RowOK(r) /\ r \in Row
  BY DEF Inv, TypeOK
<1>1. CASE SweepQueued(w)
  <2>1. CASE Permits(r, {"queued"}, "expired")
    <3>1. row' = [row EXCEPT ![w] = Entered(r, "expired")]
      BY <1>1, <2>1 DEF SweepQueued
    <3> QED
      BY <1>0, <2>1, <3>1, EnterMoves DEF RowStep, WorkspaceState
  <2>2. CASE ~Permits(r, {"queued"}, "expired")
    <3>1. row' = [row EXCEPT ![w] = r]
      BY <1>1, <2>2 DEF SweepQueued
    <3> QED
      BY <1>0, <3>1 DEF RowStep, RowMove
  <2> QED
    BY <2>1, <2>2
<1>2. CASE \/ SweepFails(w) \/ SweepReconnected(w) \/ SweepTerminating(w)
           \/ ObserveRefused(w) \/ ObserveNothing(w)
  BY <1>2 DEF SweepFails, SweepReconnected, SweepTerminating, ObserveRefused,
              ObserveNothing, RowStep
<1>3. ASSUME NEW s \in Slot, SweepExpires(w, s) PROVE RowStep
  <2>1. row' = [row EXCEPT ![w] = Terminating(r, "expired")]
    BY <1>3 DEF SweepExpires, TickTerminates
  <2> QED
    BY <1>0, <2>1, TerminatingMoves DEF RowStep, TerminalState
<1>4. ASSUME NEW s \in Slot, ObserveLost(w, s) PROVE RowStep
  <2> DEFINE e == EndRuntime(r)
             q == Terminating(e, "failed")
  <2>1. row' = [row EXCEPT ![w] = q]
    BY <1>4 DEF ObserveLost, TickTerminates
  <2>2. RowOK(e) /\ e.state = r.state /\ e.intent = r.intent
    BY <1>0 DEF EndRuntime, RowOK, Row
  <2>3. RowMove(e, q)
    BY <2>2, TerminatingMoves DEF TerminalState
  <2>4. RowMove(r, q)
    BY <2>2, <2>3 DEF RowMove
  <2> QED
    BY <2>1, <2>4 DEF RowStep
<1>5. ASSUME NEW phase \in Sweeping, Sweep(w, phase) PROVE RowStep
  BY <1>5 DEF Sweep, RowStep
<1> QED
  BY <1>1, <1>2, <1>3, <1>4, <1>5 DEF SweepStep

\* Reconciliation after a crash (reconcile.ts) and the environment.
LEMMA RecoveryRows ==
    ASSUME Inv, NEW w \in Workspace,
           ReconcileProviderRow(w) \/ Environment(w)
    PROVE  RowStep
<1> DEFINE r == row[w]
           e == EndRuntime(r)
           kept == IF obj[w] = 0 THEN e ELSE r
<1>0. RowOK(r) /\ r \in Row
  BY DEF Inv, TypeOK
<1>1. CASE ReconcileProviderRow(w)
  <2>0. RowMove(r, e) /\ RowMove(r, r) /\ e.state = r.state /\ e.intent = r.intent
    BY <1>0 DEF EndRuntime, RowMove, RowOK, Row
  <2>1. CASE r.state \in TerminalState \cup {"queued", "terminating"}
    <3>1. row' = [row EXCEPT ![w] = r]
      BY <1>1, <2>1 DEF ReconcileProviderRow, TerminalState
    <3> QED
      BY <2>0, <3>1 DEF RowStep
  <2>2. CASE r.state \in {"connected", "ready"} /\ obj[w] = 0
    <3> DEFINE q == [Entered(e, "terminating") EXCEPT !.intent = "failed"]
    <3>1. row' = [row EXCEPT ![w] = q]
      BY <1>1, <2>2 DEF ReconcileProviderRow, TerminalState
    <3>2. r.intent = "none" /\ CanTransition(r.state, "terminating")
      BY <1>0, <2>2, TerminableFacts DEF RowOK, Ending, TerminalState
    <3>3. e \in Row
      BY <2>0 DEF RowMove, RowOK
    <3>4. Entered(e, "terminating") \in Row /\ Entered(e, "terminating").state = "terminating"
      BY <3>3, EnteredFacts DEF WorkspaceState
    <3>5. q \in Row /\ q.state = "terminating" /\ q.intent = "failed"
      BY <3>4 DEF Row, TerminalState
    <3>6. RowMove(r, q)
      BY <3>2, <3>5 DEF RowMove, RowOK, Ending
    <3> QED
      BY <3>1, <3>6 DEF RowStep
  <2>3. CASE r.state \in {"connected", "ready"} /\ obj[w] # 0
    <3>1. row' = [row EXCEPT ![w] = [r EXCEPT !.disconnected = TRUE]]
      BY <1>1, <2>3 DEF ReconcileProviderRow, TerminalState
    <3> QED
      BY <1>0, <3>1, FieldMoves DEF RowStep, Row
  <2>4. CASE r.state \notin TerminalState \cup {"queued", "terminating", "connected", "ready"}
    <3>1. row' = [row EXCEPT ![w] = kept]
      BY <1>1, <2>4 DEF ReconcileProviderRow
    <3> QED
      BY <2>0, <3>1 DEF RowStep
  <2> QED
    BY <2>1, <2>2, <2>3, <2>4
<1>2. CASE Environment(w)
  BY <1>2 DEF Environment, ContainerDies, CloseWindow, Elapse, LandLate, InflightLost, RowStep
<1> QED
  BY <1>1, <1>2

--------------------------------------------------------------------------------
(* The types of everything but the rows.                                   *)

RestOK ==
    /\ obj \in [Workspace -> Attempt]
    /\ alive \in [Workspace -> BOOLEAN]
    /\ receipt \in [Workspace -> {"none", "prepared", "submitting", "cleanup"}]
    /\ inflight \in [Workspace -> Attempt]
    /\ window \in [Workspace -> {"none", "open", "closed"}]
    /\ late \in [Workspace -> BOOLEAN]
    /\ tick \in [Workspace -> TickPhase]
    /\ snap \in [Workspace -> Row]
    /\ task \in [Workspace -> [Slot -> Task]]
    /\ sock \in [Workspace -> Attempt]
    /\ join \in [Workspace -> Attempt]
    /\ agent \in [Workspace -> Attempt]
    /\ hub \in [Workspace -> {"none", "live", "stale"}]
    /\ cancel \in [Workspace -> {"none", "queued", "active", "returned"}]
    /\ unreconciled \in SUBSET Workspace
    /\ faults \in 0 .. MaxFaults

\* A finalizer built from a row is a task (finalizeProvider).
LEMMA SpawnedType ==
    ASSUME TypeOK, NEW w \in Workspace, NEW s \in Slot, NEW r \in Row,
           NEW target \in TerminalState \cup {"relaunch"}
    PROVE  Spawned(w, s, r, target) \in [Workspace -> [Slot -> Task]]
<1>1. Finalizer(w, r, target) \in Task
  BY DEF Finalizer, Task, Row
<1> QED
  BY <1>1 DEF Spawned, TypeOK

\* A task that goes on to its next call, or learns its reference, is a task.
LEMMA TaskMoves ==
    ASSUME TypeOK, NEW w \in Workspace, NEW s \in Slot, NEW ref \in Ref,
           NEW pc \in {"none", "begin", "list", "remove", "close", "commit"}
    PROVE  /\ [task EXCEPT ![w][s].pc = pc] \in [Workspace -> [Slot -> Task]]
           /\ [task EXCEPT ![w][s].ref = ref, ![w][s].pc = pc] \in [Workspace -> [Slot -> Task]]
<1>1. task \in [Workspace -> [Slot -> Task]]
  BY DEF TypeOK
<1> DEFINE t == task[w][s]
           u == [t EXCEPT !.pc = pc]
           v == [[t EXCEPT !.ref = ref] EXCEPT !.pc = pc]
<1>2. t \in Task
  BY <1>1
<1>3. u \in Task /\ v \in Task
  BY <1>2 DEF Task
<1>4. [task EXCEPT ![w][s].pc = pc] = [task EXCEPT ![w] = [task[w] EXCEPT ![s] = u]]
  BY <1>1
<1>5. [task EXCEPT ![w][s].ref = ref, ![w][s].pc = pc]
        = [task EXCEPT ![w] = [task[w] EXCEPT ![s] = v]]
  BY <1>1
<1> HIDE DEF u, v
<1>6. /\ [task EXCEPT ![w] = [task[w] EXCEPT ![s] = u]] \in [Workspace -> [Slot -> Task]]
      /\ [task EXCEPT ![w] = [task[w] EXCEPT ![s] = v]] \in [Workspace -> [Slot -> Task]]
  BY ONLY <1>1, <1>3
<1> QED
  BY <1>4, <1>5, <1>6

LEMMA ConstantTypes ==
    /\ 0 \in Attempt /\ 0 \in Ref /\ 0 \in Slot /\ NeverAdmitted \in Ref
    /\ Attempt \subseteq Ref
    /\ NoTask \in Task /\ NewRow \in Row
    /\ {"idle", "await", "settle"} \cup Launching \cup Sweeping \subseteq TickPhase
<1>1. 0 \in Attempt /\ 0 \in Ref /\ 0 \in Slot /\ NeverAdmitted \in Ref /\ Attempt \subseteq Ref
  BY AttemptsAssumption, BoundsAssumption DEF Attempt, Ref, Slot
<1>2. NoTask \in Task
  BY <1>1 DEF NoTask, Task
<1>3. NewRow \in Row
  BY <1>1 DEF NewRow, Row, WorkspaceState
<1> QED
  BY <1>1, <1>2, <1>3 DEF TickPhase

LEMMA FaultType ==
    ASSUME TypeOK, Fault
    PROVE  faults' \in 0 .. MaxFaults
BY BoundsAssumption DEF TypeOK, Fault

\* The launch (scheduler-admission.ts).
LEMMA LaunchTypes ==
    ASSUME TypeOK, NEW w \in Workspace, LaunchStep(w) \/ LaunchCleaned(w)
    PROVE  RestOK'
<1> USE ConstantTypes DEF TypeOK, RestOK, vars, provider, clock, channel, server, Goto, Launching
<1>a. row[w] \in Row
  OBVIOUS
<1>0. row[w].attempts \in Attempt /\ [row[w] EXCEPT !.ref = 0] \in Row
  <2>1. 0 \in Ref
    OBVIOUS
  <2> QED
    BY ONLY <1>a, <2>1 DEF Row
<1>1. Spawned(w, 0, [row[w] EXCEPT !.ref = 0], "relaunch") \in [Workspace -> [Slot -> Task]]
  BY <1>0, SpawnedType
<1>2. CASE Claim(w)
  BY <1>2 DEF Claim
<1>3. CASE PrepareStorage(w)
  BY <1>3 DEF PrepareStorage
<1>4. CASE LaunchNotSubmitted(w)
  BY <1>4, FaultType DEF LaunchNotSubmitted
<1>5. CASE CreateContainer(w)
  BY <1>0, <1>5 DEF CreateContainer
<1>6. CASE CreateReceipt(w)
  BY <1>6 DEF CreateReceipt
<1>7. CASE ClaimSubmitting(w)
  BY <1>7 DEF ClaimSubmitting
<1>8. CASE CreateJob(w)
  BY <1>0, <1>8 DEF CreateJob
<1>9. CASE CreateFails(w)
  BY <1>0, <1>1, <1>9, FaultType DEF CreateFails, CleanupFailedLaunch
<1>10. CASE SaveRef(w)
  BY <1>10 DEF SaveRef
<1>11. CASE SaveRefFails(w)
  BY <1>1, <1>11, FaultType DEF SaveRefFails, CleanupFailedLaunch
<1>12. CASE PrepareRuntime(w)
  BY <1>12 DEF PrepareRuntime
<1>13. CASE PrepareRuntimeFails(w)
  BY <1>1, <1>13, FaultType DEF PrepareRuntimeFails, CleanupFailedLaunch
<1>14. CASE Settle(w)
  BY <1>14 DEF Settle
<1>15. CASE LaunchCleaned(w)
  BY <1>15 DEF LaunchCleaned, Ended
<1> QED
  BY <1>2, <1>3, <1>4, <1>5, <1>6, <1>7, <1>8, <1>9, <1>10, <1>11, <1>12, <1>13, <1>14, <1>15
  DEF LaunchStep

\* The finalizers (scheduler-lifecycle.ts, provider-termination.ts).
LEMMA TaskTypes ==
    ASSUME TypeOK, NEW w \in Workspace, NEW s \in Slot, TaskStep(w, s)
    PROVE  RestOK'
<1> USE ConstantTypes DEF TypeOK, RestOK, vars, provider, clock, channel, server
<1>0. row[w].ref \in Ref /\ task[w][s].ref \in Ref /\ obj[w] \in Ref
  BY DEF Row, Task
<1>1. CASE BeginTask(w, s)
  <2> DEFINE known == IF task[w][s].ref # 0 THEN task[w][s].ref ELSE row[w].ref
             pc == IF known # 0 THEN "remove" ELSE "list"
  <2>1. task' = [task EXCEPT ![w][s].ref = known, ![w][s].pc = pc]
    BY <1>1 DEF BeginTask
  <2>a. known \in Ref /\ pc \in {"none", "begin", "list", "remove", "close", "commit"}
    BY <1>0
  <2> HIDE DEF known, pc
  <2>2. task' \in [Workspace -> [Slot -> Task]]
    BY <2>1, <2>a, TaskMoves, ZenonT(40)
  <2> QED
    BY <1>1, <2>2 DEF BeginTask
<1>2. CASE ListUncommitted(w, s)
  <2> DEFINE found == IF obj[w] # 0 THEN obj[w] ELSE NeverAdmitted
  <2>1. task' = [task EXCEPT ![w][s].ref = found, ![w][s].pc = "remove"]
    BY <1>2 DEF ListUncommitted
  <2>a. found \in Ref /\ "remove" \in {"none", "begin", "list", "remove", "close", "commit"}
    BY <1>0
  <2> HIDE DEF found
  <2>2. task' \in [Workspace -> [Slot -> Task]]
    BY <2>1, <2>a, TaskMoves, ZenonT(40)
  <2> QED
    BY <1>2, <2>2 DEF ListUncommitted
<1>3. CASE ListNothing(w, s)
  BY <1>3, TaskMoves DEF ListNothing
<1>4. CASE RemoveProvider(w, s)
  BY <1>4, TaskMoves DEF RemoveProvider
<1>5. CASE TaskFails(w, s)
  BY <1>5, FaultType DEF TaskFails, Ended
<1>6. CASE CloseConnection(w, s)
  BY <1>6, TaskMoves DEF CloseConnection
<1>7. CASE CommitFinal(w, s)
  BY <1>7 DEF CommitFinal, Ended
<1> QED
  BY <1>1, <1>2, <1>3, <1>4, <1>5, <1>6, <1>7 DEF TaskStep

\* Cancellation (workspaces/service.ts).
LEMMA CancelTypes ==
    ASSUME TypeOK, NEW w \in Workspace, CancelStep(w)
    PROVE  RestOK'
<1> USE ConstantTypes DEF TypeOK, RestOK, vars, provider, clock, channel, server
<1>0. Seen(row[w].state) \in {"none", "queued", "active", "returned"}
  BY DEF Seen
<1>1. CASE CallCancel(w)
  BY <1>0, <1>1 DEF CallCancel
<1>2. CASE CancelQueued(w)
  BY <1>0, <1>2 DEF CancelQueued
<1>3. ASSUME NEW s \in Slot, CancelActive(w, s) PROVE RestOK'
  <2>1. row[w] \in Row
    OBVIOUS
  <2>2. row'[w] = Terminating(row[w], "canceled")
    BY <1>3 DEF CancelActive
  <2>3. Terminating(row[w], "canceled") \in Row
    BY <2>1, TerminatingType DEF TerminalState
  <2>4. task' \in [Workspace -> [Slot -> Task]]
    BY <1>3, <2>2, <2>3, SpawnedType DEF CancelActive, TerminalState
  <2> QED
    BY <1>3, <2>4 DEF CancelActive
<1> QED
  BY <1>1, <1>2, <1>3 DEF CancelStep

\* The control channel (ws-auth.ts, ws-events.ts, ws-frame-handler.ts).
LEMMA ChannelTypes ==
    ASSUME TypeOK, NEW w \in Workspace, ChannelStep(w)
    PROVE  RestOK'
<1> USE ConstantTypes DEF TypeOK, RestOK, vars, provider, clock, channel, server
<1>1. CASE Authenticate(w)
  BY <1>1 DEF Authenticate
<1>2. CASE Register(w)
  <2>0. sock[w] \in Attempt /\ sock' \in [Workspace -> Attempt]
    BY <1>2 DEF Register
  <2>1. join' \in [Workspace -> Attempt]
    <3>1. join' = join \/ join' = [join EXCEPT ![w] = sock[w]]
      BY <1>2 DEF Register
    <3> QED
      BY <2>0, <3>1
  <2>2. receipt' \in [Workspace -> {"none", "prepared", "submitting", "cleanup"}]
    BY <1>2 DEF Register
  <2>3. window' \in [Workspace -> {"none", "open", "closed"}]
    BY <1>2 DEF Register
  <2> QED
    BY <1>2, <2>0, <2>1, <2>2, <2>3 DEF Register
<1>3. CASE SocketLost(w)
  BY <1>3 DEF SocketLost
<1>4. CASE Reconnect(w)
  BY <1>4 DEF Reconnect
<1>5. CASE Attach(w)
  BY <1>5 DEF Attach
<1>6. CASE MaybeMarkReady(w)
  BY <1>6 DEF MaybeMarkReady
<1>7. CASE Disconnect(w)
  BY <1>7 DEF Disconnect
<1>8. ASSUME NEW s \in Slot, NetworkDegraded(w, s) PROVE RestOK'
  <2>1. task' \in [Workspace -> [Slot -> Task]]
    BY <1>8, SpawnedType DEF NetworkDegraded, TerminalState
  <2> QED
    BY <1>8, <2>1, FaultType DEF NetworkDegraded
<1>9. ASSUME NEW s \in Slot, NEW c \in {0, 1}, HandleProcessExit(w, s, c) PROVE RestOK'
  <2>1. row[w] \in Row
    OBVIOUS
  <2>2. \E target \in TerminalState : task' = Spawned(w, s, row[w], target)
    BY <1>9, <2>1 DEF HandleProcessExit, Row, TerminalState
  <2>3. task' \in [Workspace -> [Slot -> Task]]
    BY <2>1, <2>2, SpawnedType
  <2> QED
    BY <1>9, <2>3 DEF HandleProcessExit
<1> QED
  BY <1>1, <1>2, <1>3, <1>4, <1>5, <1>6, <1>7, <1>8, <1>9 DEF ChannelStep

\* The sweep (scheduler-sweep.ts).
LEMMA TickTerminatesType ==
    ASSUME TypeOK, NEW w \in Workspace, NEW s \in Slot, NEW r \in Row,
           NEW target \in TerminalState, TickTerminates(w, s, r, target)
    PROVE  /\ task' \in [Workspace -> [Slot -> Task]]
           /\ tick' \in [Workspace -> TickPhase]
<1>1. Terminating(r, target) \in Row
  BY TerminatingType
<1>2. task' = task \/ task' = Spawned(w, s, Terminating(r, target), target)
  BY DEF TickTerminates
<1>3. task' \in [Workspace -> [Slot -> Task]]
  BY <1>1, <1>2, SpawnedType DEF TypeOK
<1>4. tick' = [tick EXCEPT ![w] = "idle"] \/ tick' = [tick EXCEPT ![w] = "await"]
  BY DEF TickTerminates, Goto
<1> QED
  BY <1>3, <1>4, ConstantTypes DEF TypeOK

LEMMA SweepTypes ==
    ASSUME TypeOK, NEW w \in Workspace,
           SweepStep(w) \/ \E phase \in Sweeping : Sweep(w, phase)
    PROVE  RestOK'
<1> USE ConstantTypes DEF TypeOK, RestOK, vars, provider, clock, channel, server, Goto
<1>0. row[w] \in Row /\ snap[w] \in Row
  OBVIOUS
<1>1. CASE SweepQueued(w)
  BY <1>1 DEF SweepQueued
<1>2. CASE SweepFails(w)
  <2>1. task' \in [Workspace -> [Slot -> Task]]
    BY <1>0, <1>2, SpawnedType DEF SweepFails, AwaitFinalizer, TerminalState
  <2> QED
    BY <1>2, <2>1 DEF SweepFails, AwaitFinalizer
<1>3. CASE SweepReconnected(w)
  BY <1>3 DEF SweepReconnected, Sweeping
<1>4. CASE SweepTerminating(w)
  <2> DEFINE target == IF snap[w].intent = "none" THEN "failed" ELSE snap[w].intent
  <2>1. target \in TerminalState
    BY <1>0 DEF Row, TerminalState
  <2>2. task' = Spawned(w, 0, snap[w], target)
    BY <1>4 DEF SweepTerminating, AwaitFinalizer
  <2> HIDE DEF target
  <2>3. task' \in [Workspace -> [Slot -> Task]]
    BY <1>0, <2>1, <2>2, SpawnedType
  <2> QED
    BY <1>4, <2>3 DEF SweepTerminating, AwaitFinalizer
<1>5. CASE ObserveRefused(w)
  <2>1. task' \in [Workspace -> [Slot -> Task]]
    BY <1>0, <1>5, SpawnedType DEF ObserveRefused, AwaitFinalizer, TerminalState
  <2> QED
    BY <1>5, <2>1 DEF ObserveRefused, AwaitFinalizer
<1>6. CASE ObserveNothing(w)
  BY <1>6 DEF ObserveNothing
<1>7. ASSUME NEW s \in Slot, SweepExpires(w, s) PROVE RestOK'
  <2>1. task' \in [Workspace -> [Slot -> Task]] /\ tick' \in [Workspace -> TickPhase]
    BY <1>0, <1>7, TickTerminatesType DEF SweepExpires, TerminalState
  <2> QED
    BY <1>7, <2>1 DEF SweepExpires
<1>8. ASSUME NEW s \in Slot, ObserveLost(w, s) PROVE RestOK'
  <2>1. EndRuntime(row[w]) \in Row
    BY <1>0 DEF EndRuntime, Row
  <2>2. task' \in [Workspace -> [Slot -> Task]] /\ tick' \in [Workspace -> TickPhase]
    BY <1>8, <2>1, TickTerminatesType DEF ObserveLost, TerminalState
  <2> QED
    BY <1>8, <2>2 DEF ObserveLost
<1>9. ASSUME NEW phase \in Sweeping, Sweep(w, phase) PROVE RestOK'
  BY <1>0, <1>9 DEF Sweep
<1> QED
  BY <1>1, <1>2, <1>3, <1>4, <1>5, <1>6, <1>7, <1>8, <1>9 DEF SweepStep

\* The environment, the crash and the reconciliation after it (reconcile.ts).
LEMMA RecoveryTypes ==
    ASSUME TypeOK,
           \/ \E w \in Workspace : ReconcileProviderRow(w) \/ Environment(w)
           \/ Crash \/ ReconcileAborted
    PROVE  RestOK'
<1> USE ConstantTypes DEF TypeOK, RestOK, vars, provider, clock, channel, server
<1>1. ASSUME NEW w \in Workspace, ReconcileProviderRow(w) PROVE RestOK'
  BY <1>1 DEF ReconcileProviderRow
<1>2. ASSUME NEW w \in Workspace, Environment(w) PROVE RestOK'
  <2>1. CASE ContainerDies(w)
    BY <2>1, FaultType DEF ContainerDies
  <2>2. CASE CloseWindow(w)
    BY <2>2 DEF CloseWindow
  <2>3. CASE Elapse(w)
    BY <2>3 DEF Elapse
  <2>4. CASE LandLate(w)
    BY <2>4 DEF LandLate
  <2>5. CASE InflightLost(w)
    BY <2>5 DEF InflightLost
  <2> QED
    BY <1>2, <2>1, <2>2, <2>3, <2>4, <2>5 DEF Environment
<1>3. CASE Crash
  <2>1. \A w \in Workspace : row[w].attempts \in Attempt
    BY DEF Row
  <2>2. inflight' \in [Workspace -> Attempt]
    BY <1>3, <2>1 DEF Crash
  <2>3. task' \in [Workspace -> [Slot -> Task]]
    BY <1>3 DEF Crash
  <2>4. cancel' \in [Workspace -> {"none", "queued", "active", "returned"}]
    BY <1>3 DEF Crash
  <2> QED
    BY <1>3, <2>2, <2>3, <2>4, FaultType DEF Crash
<1>4. CASE ReconcileAborted
  BY <1>4, FaultType DEF ReconcileAborted
<1> QED
  BY <1>1, <1>2, <1>3, <1>4

--------------------------------------------------------------------------------
(* The theorems.                                                           *)

\* The inductive invariant: every variable typed, every row RowOK.
LEMMA InitInv == Init => Inv
<1> USE ConstantTypes
<1> SUFFICES ASSUME Init PROVE Inv
  OBVIOUS
<1>1. TypeOK
  BY BoundsAssumption DEF Init, TypeOK
<1>2. RowOK(NewRow)
  BY AttemptsAssumption DEF RowOK, NewRow
<1> QED
  BY <1>1, <1>2 DEF Inv, Init

LEMMA NextRows ==
    ASSUME Inv, Next PROVE RowStep
<1>1. CASE Crash \/ ReconcileAborted
  BY <1>1 DEF Crash, ReconcileAborted, RowStep
<1> QED
  BY <1>1, LaunchRows, TaskRows, CancelRows, ChannelRows, SweepRows, RecoveryRows DEF Next

LEMMA NextTypes ==
    ASSUME TypeOK, Next PROVE RestOK'
BY LaunchTypes, TaskTypes, CancelTypes, ChannelTypes, SweepTypes, RecoveryTypes DEF Next

LEMMA NextInv == Inv /\ [Next]_vars => Inv'
<1> SUFFICES ASSUME Inv, [Next]_vars PROVE Inv'
  OBVIOUS
<1>1. CASE Next
  <2>1. RowStep /\ RestOK'
    BY <1>1, NextRows, NextTypes DEF Inv
  <2>2. row \in [Workspace -> Row] /\ \A w \in Workspace : RowOK(row[w])
    BY DEF Inv, TypeOK
  <2>3. row' \in [Workspace -> Row] /\ \A w \in Workspace : RowOK(row'[w])
    BY <2>1, <2>2 DEF RowStep, RowMove, RowOK
  <2> QED
    BY <2>1, <2>3 DEF Inv, TypeOK, RestOK, RowOK
<1>2. CASE UNCHANGED vars
  BY <1>2 DEF Inv, TypeOK, RowOK, vars
<1> QED
  BY <1>1, <1>2

LEMMA InvHolds == Spec => []Inv
BY InitInv, NextInv, PTL DEF Spec

\* The type invariant, for every limit on launches and every number of faults.
THEOREM TypeCorrect == Spec => []TypeOK
<1>1. Inv => TypeOK
  BY DEF Inv
<1> QED
  BY <1>1, InvHolds, PTL

\* A workspace back in the queue always has a launch attempt left.
THEOREM RetriesBounded == Spec => []AttemptsLeft
<1>1. Inv => AttemptsLeft
  BY DEF Inv, RowOK, AttemptsLeft
<1> QED
  BY <1>1, InvHolds, PTL

\* A terminating workspace has recorded how it is to end.
THEOREM IntentRecorded == Spec => []TerminatingHasIntent
<1>1. Inv => TerminatingHasIntent
  BY DEF Inv, RowOK, TerminatingHasIntent
<1> QED
  BY <1>1, InvHolds, PTL

\* Of several racing terminations the first recorded intent stays.
THEOREM FirstIntentStays == Spec => IntentSticks
<1>1. ASSUME Inv, [Next]_vars
      PROVE  \A w \in Workspace : row[w].intent # "none" => row'[w].intent = row[w].intent
  <2>1. RowStep
    BY <1>1, NextRows DEF RowStep, vars
  <2> QED
    BY <1>1, <2>1 DEF RowStep, RowMove, Inv, TypeOK
<1> QED
  BY <1>1, InvHolds, PTL DEF Spec, IntentSticks

\* The lifecycle implements the contract's state machine.
THEOREM ImplementsContract == Spec => ImplementsMachine
<1> DEFINE st == [w \in Workspace |-> row[w].state]
<1>1. Init => Machine!Init
  BY DEF Init, Machine!Init, NewRow
<1>2. ASSUME Inv, [Next]_vars PROVE [Machine!Next]_st
  <2>1. CASE row' = row
    BY <2>1
  <2>2. ASSUME NEW w \in Workspace, NEW q, RowMove(row[w], q), row' = [row EXCEPT ![w] = q]
        PROVE  [Machine!Next]_st
    <3>1. st' = [st EXCEPT ![w] = q.state]
      BY <1>2, <2>2 DEF Inv, TypeOK
    <3>2. q.state \in WorkspaceState
      BY <2>2 DEF RowMove, RowOK, Row
    <3>3. CASE q.state = row[w].state
      BY <3>1, <3>3
    <3>4. CASE CanTransition(row[w].state, q.state)
      BY <3>1, <3>2, <3>4 DEF Machine!Next, Machine!Move, Machine!CanTransition,
           Machine!Transitions, Machine!WorkspaceState, CanTransition, Transitions, WorkspaceState
    <3> QED
      BY <2>2, <3>3, <3>4 DEF RowMove
  <2>3. RowStep
    BY <1>2, NextRows DEF RowStep, vars
  <2> QED
    BY <2>1, <2>2, <2>3 DEF RowStep
<1> QED
  BY <1>1, <1>2, InvHolds, PTL DEF Spec, ImplementsMachine, Machine!Spec

--------------------------------------------------------------------------------
(***************************************************************************)
(* The rows together with the provider's objects and the supervisor's      *)
(* channel.                                                                *)
(*                                                                         *)
(* Three inductive invariants of one workspace build on each other.        *)
(* LaunchOK, for either driver: which tasks may run beside a launch, and   *)
(* what each of its phases left at the provider.  ChannelOK: with a        *)
(* manifest a socket exists only once its launch is over.  ReceiptOK, for  *)
(* the driver with launch receipts: whoever holds a reference, or has      *)
(* proved absence, knows that nothing can be created any more.             *)
(***************************************************************************)

\* The phases of a launch that may still create something.
Uncreated == {"storage", "create", "submit", "job"}

Clean(w) == obj[w] = 0 /\ inflight[w] = 0

Relaunching(w) == tick[w] = "await" /\ task[w][0].target = "relaunch"

--------------------------------------------------------------------------------
(* LaunchOK: while a workspace is queued or provisioning nobody but the    *)
(* tick works on it, so each phase knows what the provider holds.          *)

TasksOK(w) ==
    /\ tick[w] = "await" <=> task[w][0].pc # "none"
    /\ \A s \in Slot : task[w][s].pc # "none" => row[w].state # "queued"
    /\ \A s \in Slot \ {0} : task[w][s].pc # "none" => row[w].state # "provisioning"
    /\ row[w].state = "queued" => tick[w] \in {"idle", "lapse"}
    /\ hub[w] = "live" => row[w].state \notin {"queued", "provisioning"}

CurrentOK(w) ==
    /\ obj[w] # 0 => obj[w] = row[w].attempts
    /\ inflight[w] # 0 => inflight[w] = row[w].attempts
    /\ row[w].state = "queued" => Clean(w) /\ row[w].ref = 0

CleaningOK(w) ==
    /\ inflight[w] # 0 => Receipts /\ receipt[w] = "submitting" /\ row[w].ref = 0
    /\ task[w][0].pc = "begin" => task[w][0].ref = 0 /\ row[w].ref \in {0, row[w].attempts}
    /\ task[w][0].pc = "remove" =>
          inflight[w] = 0 /\ (task[w][0].ref = row[w].attempts \/ obj[w] = 0)
    /\ task[w][0].pc = "close" => Clean(w)

PhaseOK(w) ==
    row[w].state = "provisioning" =>
        /\ obj[w] # 0 => inflight[w] = 0
        /\ tick[w] \in Uncreated \cup {"settle"} => Clean(w)
        /\ tick[w] \in {"submit", "job"} => Receipts
        /\ tick[w] = "job" => receipt[w] = "submitting"
        /\ tick[w] \in Uncreated \cup {"created"} => row[w].ref = 0
        /\ tick[w] = "prepare" => row[w].ref = row[w].attempts
        /\ tick[w] \in {"created", "prepare"} => inflight[w] = 0
        /\ Relaunching(w) => CleaningOK(w)

LaunchOK(w) == TasksOK(w) /\ CurrentOK(w) /\ PhaseOK(w)

LaunchInv == Inv /\ \A w \in Workspace : LaunchOK(w)

--------------------------------------------------------------------------------
(* ChannelOK: a launch binds its runtime as its last step, so a socket     *)
(* that had to wait for the binding belongs to a launch that is over.      *)

ChannelOK(w) ==
    /\ row[w].runtime # "none" =>
          /\ row[w].state # "queued"
          /\ tick[w] \notin Launching \cup {"settle"} /\ ~Relaunching(w)
    /\ sock[w] # 0 => sock[w] = row[w].attempts /\ row[w].runtime # "none"
    /\ \A a \in {join[w], agent[w]} \ {0} :
          a = row[w].attempts /\ row[w].state \notin {"queued", "provisioning"}

ChannelInv == LaunchInv /\ \A w \in Workspace : ChannelOK(w)

--------------------------------------------------------------------------------
(* ReceiptOK: with launch receipts and launches that keep to their window, *)
(* a reference means that the create was sent, and a task past its removal *)
(* that nothing is there or will come.                                     *)

Barren(w) ==
    /\ Clean(w)
    /\ tick[w] \notin {"storage", "create", "job"}
    /\ tick[w] = "submit" => receipt[w] # "prepared"

Submitted(w) == inflight[w] = 0 /\ tick[w] \notin Uncreated

RefOK(w, ref) ==
    \/ ref = 0
    \/ ref = row[w].attempts /\ Submitted(w)
    \/ ref = NeverAdmitted /\ Barren(w)

WindowOK(w) ==
    /\ window[w] = "closed" => Submitted(w)
    /\ \A s \in Slot : task[w][s].pc # "none" /\ task[w][s].closed => Submitted(w)

SubmitOK(w) ==
    /\ obj[w] # 0 => Submitted(w)
    /\ tick[w] = "job" => receipt[w] \notin {"prepared", "cleanup"}
    /\ inflight[w] # 0 => receipt[w] \notin {"prepared", "cleanup"} /\ tick[w] \notin Launching
    /\ tick[w] \in {"storage", "create"} => receipt[w] = "none"
    /\ row[w].state = "queued" => receipt[w] = "none"
    /\ row[w].state = "provisioning" /\ tick[w] = "settle" => receipt[w] = "none"
    /\ row[w].state = "provisioning" /\ Relaunching(w) /\ task[w][0].pc = "close"
          => receipt[w] = "none"

RefsOK(w) ==
    /\ RefOK(w, row[w].ref)
    /\ tick[w] \in Sweeping => RefOK(w, snap[w].ref)
    /\ \A s \in Slot : task[w][s].pc # "none" => RefOK(w, task[w][s].ref)
    /\ \A s \in Slot : task[w][s].pc = "remove" => task[w][s].ref # 0

GoneOK(w) ==
    /\ \A s \in Slot : task[w][s].pc \in {"close", "commit"} => Barren(w)
    /\ row[w].state \in TerminalState => Barren(w)
    /\ tick[w] = "settle" => Barren(w)

ReceiptOK(w) == WindowOK(w) /\ SubmitOK(w) /\ RefsOK(w) /\ GoneOK(w)

ReceiptInv == LaunchInv /\ \A w \in Workspace : ReceiptOK(w)

--------------------------------------------------------------------------------
(* A step concerns one workspace; the others keep what was true of them.   *)

Same(v) ==
    /\ row'[v] = row[v] /\ obj'[v] = obj[v] /\ receipt'[v] = receipt[v]
    /\ inflight'[v] = inflight[v] /\ window'[v] = window[v] /\ tick'[v] = tick[v]
    /\ snap'[v] = snap[v] /\ task'[v] = task[v] /\ sock'[v] = sock[v]
    /\ join'[v] = join[v] /\ agent'[v] = agent[v] /\ hub'[v] = hub[v]

StepOf(w) ==
    \/ LaunchStep(w) \/ LaunchCleaned(w) \/ CancelStep(w) \/ ChannelStep(w)
    \/ Environment(w) \/ SweepStep(w) \/ ReconcileProviderRow(w)
    \/ \E s \in Slot : TaskStep(w, s)
    \/ \E phase \in Sweeping : Sweep(w, phase)

LEMMA OthersSame ==
    ASSUME TypeOK, NEW w \in Workspace, StepOf(w), NEW v \in Workspace, v # w
    PROVE  Same(v)
<1> USE DEF TypeOK, Same, provider, clock, channel, server, Goto
<1>1. CASE LaunchStep(w) \/ LaunchCleaned(w)
  BY <1>1 DEF LaunchStep, LaunchCleaned, Claim, PrepareStorage, LaunchNotSubmitted,
     CreateContainer, CreateReceipt, ClaimSubmitting, CreateJob, CreateFails, SaveRef,
     SaveRefFails, PrepareRuntime, PrepareRuntimeFails, Settle, CleanupFailedLaunch,
     Spawned, Ended
<1>2. CASE \E s \in Slot : TaskStep(w, s)
  BY <1>2 DEF TaskStep, BeginTask, ListUncommitted, ListNothing, RemoveProvider, TaskFails,
     CloseConnection, CommitFinal, Ended
<1>3. CASE CancelStep(w)
  BY <1>3 DEF CancelStep, CallCancel, CancelQueued, CancelActive, Spawned
<1>4. CASE ChannelStep(w)
  BY <1>4 DEF ChannelStep, Authenticate, Register, SocketLost, Reconnect, Attach,
     MaybeMarkReady, Disconnect, NetworkDegraded, HandleProcessExit, Spawned
<1>5. CASE Environment(w) \/ ReconcileProviderRow(w)
  BY <1>5 DEF Environment, ContainerDies, CloseWindow, Elapse, LandLate, InflightLost,
     ReconcileProviderRow
<1>6. CASE SweepStep(w) \/ \E phase \in Sweeping : Sweep(w, phase)
  BY <1>6 DEF SweepStep, SweepQueued, SweepFails, SweepReconnected, SweepTerminating,
     ObserveRefused, ObserveNothing, SweepExpires, ObserveLost, TickTerminates,
     AwaitFinalizer, Spawned, Sweep
<1> QED
  BY <1>1, <1>2, <1>3, <1>4, <1>5, <1>6 DEF StepOf

LEMMA OtherLaunchOK ==
    ASSUME NEW v \in Workspace, LaunchOK(v), Same(v)
    PROVE  LaunchOK(v)'
BY DEF LaunchOK, TasksOK, CurrentOK, PhaseOK, CleaningOK, Relaunching, Clean, Same

--------------------------------------------------------------------------------
(* LaunchOK is inductive.                                                  *)

\* What the steps below need of the types.
LEMMA TypesAt ==
    ASSUME Inv, NEW w \in Workspace
    PROVE  /\ row \in [Workspace -> Row] /\ row[w] \in Row
           /\ obj \in [Workspace -> Attempt] /\ inflight \in [Workspace -> Attempt]
           /\ receipt \in [Workspace -> {"none", "prepared", "submitting", "cleanup"}]
           /\ tick \in [Workspace -> TickPhase]
           /\ task \in [Workspace -> [Slot -> Task]] /\ 0 \in Slot
           /\ hub \in [Workspace -> {"none", "live", "stale"}]
           /\ Attempt \subseteq Nat
BY ConstantTypes DEF Inv, TypeOK, Attempt

\* The launch (scheduler-admission.ts).
LEMMA LaunchKeepsLaunch ==
    ASSUME LaunchInv, NEW w \in Workspace, LaunchStep(w) \/ LaunchCleaned(w)
    PROVE  LaunchOK(w)'
<1> DEFINE r == row[w]
<1>0. Inv /\ LaunchOK(w)
  BY DEF LaunchInv
<1> USE TypesAt, <1>0 DEF LaunchOK, TasksOK, CurrentOK, PhaseOK, CleaningOK, Relaunching, Clean, Uncreated,
        provider, clock, channel, server, Goto, Launching
<1>1. CASE Claim(w)
  <2>1. r.state = "queued" /\ TickFree
    BY <1>1 DEF Claim, Permits
  <2> DEFINE e == Entered(r, "provisioning")
             q == [e EXCEPT !.attempts = r.attempts + 1, !.secret = TRUE]
  <2>a. e \in Row /\ e.state = "provisioning" /\ e.ref = r.ref
    BY EnteredFacts DEF WorkspaceState
  <2>b. row'[w] = q
    BY <1>1 DEF Claim
  <2> HIDE DEF e
  <2>c. q.state = e.state /\ q.ref = e.ref /\ q.attempts = r.attempts + 1
    BY <2>a DEF Row
  <2>2. /\ row'[w].state = "provisioning" /\ row'[w].ref = r.ref
        /\ row'[w].attempts = r.attempts + 1
    BY <2>a, <2>b, <2>c
  <2> QED
    BY <1>1, <2>1, <2>2 DEF Claim, TickFree
<1>2. CASE PrepareStorage(w)
  BY <1>2 DEF PrepareStorage
<1>3. CASE LaunchNotSubmitted(w)
  BY <1>3 DEF LaunchNotSubmitted
<1>4. CASE CreateContainer(w)
  BY <1>4 DEF CreateContainer
<1>5. CASE CreateReceipt(w)
  BY <1>5 DEF CreateReceipt
<1>6. CASE ClaimSubmitting(w)
  BY <1>6 DEF ClaimSubmitting
<1>7. CASE CreateJob(w)
  BY <1>7 DEF CreateJob
<1>8. CASE CreateFails(w)
  <2>1. /\ tick[w] \in {"create", "submit", "job"} /\ tick'[w] = "await"
        /\ task'[w][0].pc = "begin" /\ task'[w][0].ref = 0
        /\ task'[w][0].target = "relaunch"
        /\ \A s \in Slot \ {0} : task'[w][s] = task[w][s]
    BY <1>8 DEF CreateFails, CreateConflicts, CleanupFailedLaunch, Spawned, Finalizer, Row
  <2>2. inflight' = inflight \/ (tick[w] = "job" /\ inflight'[w] = r.attempts)
    BY <1>8 DEF CreateFails, CreateConflicts
  <2> QED
    BY <1>8, <2>1, <2>2 DEF CreateFails, Row
<1>9. CASE SaveRef(w)
  BY <1>9 DEF SaveRef, Row
<1>10. CASE SaveRefFails(w)
  BY <1>10 DEF SaveRefFails, CleanupFailedLaunch, Spawned, Finalizer, Row
<1>11. CASE PrepareRuntime(w)
  BY <1>11 DEF PrepareRuntime, Row
<1>12. CASE PrepareRuntimeFails(w)
  BY <1>12 DEF PrepareRuntimeFails, CleanupFailedLaunch, Spawned, Finalizer, Row
<1>13. CASE Settle(w)
  <2>1. r.state \in WorkspaceState
    BY DEF Row
  <2>2. CASE r.attempts < MaxLaunchAttempts /\ Permits(r, {"provisioning"}, "queued")
    <3> DEFINE e == Entered(r, "queued")
               q == [e EXCEPT !.ref = 0, !.secret = FALSE]
    <3>1. row'[w] = q
      BY <1>13, <2>2 DEF Settle
    <3>2. e \in Row /\ e.state = "queued" /\ e.attempts = r.attempts
      BY EnteredFacts DEF WorkspaceState
    <3> HIDE DEF e
    <3>3. q.state = "queued" /\ q.ref = 0
      BY <3>2 DEF Row
    <3> QED
      BY <1>13, <2>2, <3>1, <3>3 DEF Settle, Permits
  <2>3. CASE ~(r.attempts < MaxLaunchAttempts) /\ Permits(r, {"provisioning"}, "failed")
    <3>1. row'[w] = Entered(r, "failed")
      BY <1>13, <2>3 DEF Settle
    <3>2. row'[w].state = "failed" /\ row'[w].attempts = r.attempts
      BY <3>1, EnteredFacts DEF WorkspaceState
    <3> QED
      BY <1>13, <2>3, <3>2 DEF Settle, Permits
  <2>4. CASE /\ ~(r.attempts < MaxLaunchAttempts /\ Permits(r, {"provisioning"}, "queued"))
             /\ ~(~(r.attempts < MaxLaunchAttempts) /\ Permits(r, {"provisioning"}, "failed"))
    <3>1. row'[w] = r
      BY <1>13, <2>4 DEF Settle
    <3> QED
      BY <1>13, <3>1 DEF Settle
  <2> QED
    BY <2>2, <2>3, <2>4
<1>14. CASE LaunchCleaned(w)
  BY <1>14 DEF LaunchCleaned, Ended, NoTask
<1> QED
  BY <1>1, <1>2, <1>3, <1>4, <1>5, <1>6, <1>7, <1>8, <1>9, <1>10, <1>11, <1>12, <1>13, <1>14
  DEF LaunchStep

\* Steps other than a launch's leave the attempt alone and bring no row to the
\* queue or to provisioning; most leave the reference alone too.
Later(w) ==
    /\ row'[w].attempts = row[w].attempts /\ row'[w].ref = row[w].ref
    /\ row'[w].state \in {"queued", "provisioning"} => row'[w].state = row[w].state

LEMMA TerminatingLater ==
    ASSUME NEW r \in Row, NEW target \in TerminalState
    PROVE  /\ Terminating(r, target).attempts = r.attempts
           /\ Terminating(r, target).ref = r.ref
           /\ Terminating(r, target).state \in {"queued", "provisioning"}
                 => Terminating(r, target).state = r.state
           /\ Terminating(r, target).state # r.state
                 => Terminating(r, target).state = "terminating"
<1> DEFINE e == Entered(r, "terminating")
<1>1. e \in Row /\ e.attempts = r.attempts /\ e.ref = r.ref /\ e.state = "terminating"
  BY EnteredFacts DEF WorkspaceState
<1> HIDE DEF e
<1>2. /\ [e EXCEPT !.intent = target].attempts = r.attempts
      /\ [e EXCEPT !.intent = target].ref = r.ref
      /\ [e EXCEPT !.intent = target].state = "terminating"
  BY <1>1 DEF Row
<1> QED
  BY <1>2 DEF Terminating, e

\* The finalizers (scheduler-lifecycle.ts, provider-termination.ts).
LEMMA TaskKeepsLaunch ==
    ASSUME LaunchInv, NEW w \in Workspace, NEW s \in Slot, TaskStep(w, s)
    PROVE  LaunchOK(w)'
<1> DEFINE r == row[w]
           t == task[w][s]
<1>0. Inv /\ LaunchOK(w) /\ t \in Task
  BY DEF LaunchInv, Inv, TypeOK
<1> USE TypesAt, <1>0 DEF LaunchOK, TasksOK, CurrentOK, PhaseOK, CleaningOK, Relaunching, Clean, Uncreated,
        provider, clock, channel, server, Goto, Launching
<1>1. CASE BeginTask(w, s)
  <2> DEFINE known == IF t.ref # 0 THEN t.ref ELSE r.ref
  <2>1. /\ task'[w][s].pc = IF known # 0 THEN "remove" ELSE "list"
        /\ task'[w][s].ref = known /\ task'[w][s].target = t.target
        /\ \A u \in Slot \ {s} : task'[w][u] = task[w][u]
    BY <1>1 DEF BeginTask, Task
  <2>2. /\ known = 0 \/ known = t.ref \/ (t.ref = 0 /\ known = r.ref)
        /\ task'[w][s].pc \in {"remove", "list"} /\ t.pc = "begin"
    BY <1>1, <2>1 DEF BeginTask
  <2> HIDE DEF known
  <2>3. CASE s = 0
    <3>1. ASSUME r.state = "provisioning", Relaunching(w)
          PROVE  task'[w][0].pc = "remove" => inflight[w] = 0 /\ task'[w][0].ref = r.attempts
      BY <2>1, <2>2, <2>3, <3>1
    <3>2. /\ row' = row /\ obj' = obj /\ inflight' = inflight /\ receipt' = receipt
          /\ tick' = tick /\ hub' = hub
      BY <1>1 DEF BeginTask
    <3>3. TasksOK(w)'
      BY <2>1, <2>2, <2>3, <3>2
    <3>4. PhaseOK(w)'
      BY <2>1, <2>2, <2>3, <3>1, <3>2
    <3> QED
      BY <3>2, <3>3, <3>4
  <2>4. CASE s # 0
    BY <1>1, <2>1, <2>2, <2>4, ZenonT(40) DEF BeginTask
  <2> QED
    BY <2>3, <2>4
<1>2. CASE ListUncommitted(w, s)
  <2> DEFINE found == IF obj[w] # 0 THEN obj[w] ELSE NeverAdmitted
  <2>1. /\ row'[w].ref = found /\ row'[w].state = r.state /\ row'[w].attempts = r.attempts
        /\ task'[w][s].pc = "remove" /\ task'[w][s].ref = found /\ task'[w][s].target = t.target
        /\ \A u \in Slot \ {s} : task'[w][u] = task[w][u]
    BY <1>2 DEF ListUncommitted, Row, Task
  <2>2. obj[w] = 0 => receipt[w] \in {"prepared", "cleanup"}
    BY <1>2 DEF ListUncommitted, Fenceable
  <2>3. /\ obj[w] # 0 => receipt'[w] = receipt[w]
        /\ obj[w] = 0 => receipt'[w] = "cleanup"
        /\ t.pc = "list"
        /\ UNCHANGED <<obj, alive, inflight, clock, tick, snap, channel, server, faults>>
    BY <1>2 DEF ListUncommitted
  <2>4. found # 0 /\ (obj[w] # 0 => found = obj[w])
    BY AttemptsAssumption DEF NeverAdmitted
  <2> HIDE DEF found
  <2> QED
    BY <2>1, <2>2, <2>3, <2>4, ZenonT(60)
<1>3. CASE ListNothing(w, s)
  <2>1. /\ task'[w][s].pc = "close" /\ task'[w][s].target = t.target
        /\ task'[w][s].ref = t.ref
        /\ \A u \in Slot \ {s} : task'[w][u] = task[w][u]
    BY <1>3 DEF ListNothing, Task
  <2> QED
    BY <1>3, <2>1 DEF ListNothing, ProvenAbsent
<1>4. CASE RemoveProvider(w, s)
  <2>1. /\ task'[w][s].pc = "close" /\ task'[w][s].target = t.target
        /\ task'[w][s].ref = t.ref
        /\ \A u \in Slot \ {s} : task'[w][u] = task[w][u]
    BY <1>4 DEF RemoveProvider, Task
  <2>2. obj'[w] = (IF obj[w] = t.ref THEN 0 ELSE obj[w]) /\ receipt'[w] = "none"
    BY <1>4 DEF RemoveProvider
  <2> QED
    BY <1>4, <2>1, <2>2 DEF RemoveProvider
<1>5. CASE TaskFails(w, s)
  <2> DEFINE e == Entered(r, "terminating")
             q == [e EXCEPT !.intent = t.target, !.secret = FALSE]
  <2>1. row'[w] = r \/ (row'[w] = q /\ r.state # "queued")
    BY <1>5 DEF TaskFails, Permits
  <2>2. e \in Row /\ e.state = "terminating" /\ e.attempts = r.attempts
    BY EnteredFacts DEF WorkspaceState
  <2> HIDE DEF e
  <2>3. q.state = "terminating" /\ q.attempts = r.attempts
    BY <2>2 DEF Row
  <2>4. /\ task'[w][s].pc = "none"
        /\ \A u \in Slot \ {s} : task'[w][u] = task[w][u]
        /\ tick'[w] = IF s = 0 THEN "idle" ELSE tick[w]
    BY <1>5 DEF TaskFails, Ended, NoTask
  <2> HIDE DEF q
  <2> QED
    BY <1>5, <2>1, <2>3, <2>4, ZenonT(40) DEF TaskFails
<1>6. CASE CloseConnection(w, s)
  <2>1. /\ task'[w][s].pc = "commit" /\ task'[w][s].target = t.target /\ t.target # "relaunch"
        /\ task'[w][s].ref = t.ref
        /\ \A u \in Slot \ {s} : task'[w][u] = task[w][u]
    BY <1>6 DEF CloseConnection, Task
  <2>2. row'[w].state = r.state /\ row'[w].attempts = r.attempts /\ row'[w].ref = r.ref
    BY <1>6 DEF CloseConnection, Row
  <2> QED
    BY <1>6, <2>1, <2>2 DEF CloseConnection
<1>7. CASE CommitFinal(w, s)
  <2>1. \/ row'[w] = r
        \/ /\ row'[w] = Entered(r, t.target)
           /\ Permits(r, Finalizable, t.target)
    BY <1>7 DEF CommitFinal, Permits
  <2>2. r.state \in WorkspaceState
    BY DEF Row
  <2>3. \/ row'[w] = r
        \/ /\ row'[w].state \in TerminalState /\ row'[w].attempts = r.attempts
    <3>1. ASSUME Permits(r, Finalizable, t.target) PROVE t.target \in TerminalState
      <4>1. t.target # "relaunch"
        BY <2>2, <3>1 DEF Permits, CanTransition, Transitions, WorkspaceState
      <4> QED
        BY <4>1 DEF Task
    <3> QED
      BY <2>1, <3>1, EnteredFacts DEF WorkspaceState, TerminalState
  <2>4. /\ task'[w][s].pc = "none"
        /\ \A u \in Slot \ {s} : task'[w][u] = task[w][u]
        /\ tick'[w] = IF s = 0 THEN "idle" ELSE tick[w]
    BY <1>7 DEF CommitFinal, Ended, NoTask
  <2> QED
    BY <1>7, <2>3, <2>4, ZenonT(40) DEF CommitFinal, TerminalState
<1> QED
  BY <1>1, <1>2, <1>3, <1>4, <1>5, <1>6, <1>7 DEF TaskStep

\* A detached finalizer is started only for a workspace past provisioning.
LEMMA SpawnedAt ==
    ASSUME TypeOK, NEW w \in Workspace, NEW s \in Slot, NEW r \in Row, NEW target,
           task' = Spawned(w, s, r, target)
    PROVE  /\ task'[w][s].pc = "begin" /\ task'[w][s].ref = r.ref
           /\ task'[w][s].target = target
           /\ task'[w][s].closed = (window[w] = "closed")
           /\ \A u \in Slot \ {s} : task'[w][u] = task[w][u]
BY DEF TypeOK, Spawned, Finalizer

\* Cancellation (workspaces/service.ts).
LEMMA CancelKeepsLaunch ==
    ASSUME LaunchInv, NEW w \in Workspace, CancelStep(w)
    PROVE  LaunchOK(w)'
<1> DEFINE r == row[w]
<1>0. Inv /\ LaunchOK(w) /\ TypeOK
  BY DEF LaunchInv, Inv
<1> USE TypesAt, <1>0 DEF LaunchOK, TasksOK, CurrentOK, PhaseOK, CleaningOK, Relaunching, Clean, Uncreated,
        provider, clock, channel, server, Goto, Launching
<1>1. CASE CallCancel(w)
  BY <1>1 DEF CallCancel
<1>2. CASE CancelQueued(w)
  <2>1. \/ row' = row
        \/ /\ row'[w] = Entered(r, "canceled")
    BY <1>2 DEF CancelQueued
  <2>2. row' = row \/ (row'[w].state = "canceled" /\ row'[w].attempts = r.attempts)
    BY <2>1, EnteredFacts DEF WorkspaceState
  <2> QED
    BY <1>2, <2>2 DEF CancelQueued
<1>3. ASSUME NEW s \in Slot, CancelActive(w, s) PROVE LaunchOK(w)'
  <2> DEFINE q == Terminating(r, "canceled")
  <2>1. row' = [row EXCEPT ![w] = q] /\ row'[w] = q /\ FreeSlot(w, s)
    BY <1>3 DEF CancelActive
  <2>2. CASE q = r
    <3>1. row' = row /\ task' = task
      BY <1>3, <2>1, <2>2 DEF CancelActive
    <3> QED
      BY <1>3, <3>1 DEF CancelActive
  <2>3. CASE q # r
    <3>1. Permits(r, Active, "terminating")
      BY <2>3 DEF Terminating
    <3>2. q \in Row /\ q.attempts = r.attempts /\ q.state = "terminating"
      <4> DEFINE e == Entered(r, "terminating")
      <4>1. e \in Row /\ e.attempts = r.attempts /\ e.state = "terminating"
        BY EnteredFacts DEF WorkspaceState
      <4>2. q = [e EXCEPT !.intent = "canceled"]
        BY <3>1 DEF Terminating
      <4> HIDE DEF e, q
      <4> QED
        BY <4>1, <4>2 DEF Row, TerminalState
    <3>3. task' = Spawned(w, s, q, "canceled")
      BY <1>3, <2>1, <2>3 DEF CancelActive
    <3> HIDE DEF q
    <3>4. s # 0 /\ task'[w][0] = task[w][0]
      BY <2>1, <3>2, <3>3, SpawnedAt DEF FreeSlot
    <3> QED
      BY <1>3, <2>1, <3>2, <3>4 DEF CancelActive
  <2> QED
    BY <2>2, <2>3
<1> QED
  BY <1>1, <1>2, <1>3 DEF CancelStep

\* The control channel (ws-events.ts, ws-frame-handler.ts).
LEMMA ChannelKeepsLaunch ==
    ASSUME LaunchInv, NEW w \in Workspace, ChannelStep(w)
    PROVE  LaunchOK(w)'
<1> DEFINE r == row[w]
<1>0. Inv /\ LaunchOK(w) /\ TypeOK
  BY DEF LaunchInv, Inv
<1> USE TypesAt, <1>0 DEF LaunchOK, TasksOK, CurrentOK, PhaseOK, CleaningOK, Relaunching, Clean, Uncreated,
        provider, clock, channel, server, Goto, Launching
<1>1. CASE Authenticate(w) \/ SocketLost(w) \/ Attach(w)
  BY <1>1 DEF Authenticate, SocketLost, Attach
<1>2. CASE Register(w)
  <2>1. CASE Permits(r, {"provisioning"}, "connected")
    <3> DEFINE e == Entered(r, "connected")
               q == [e EXCEPT !.secret = FALSE, !.disconnected = FALSE]
    <3>1. row'[w] = q
      BY <1>2, <2>1 DEF Register
    <3>2. e \in Row /\ e.attempts = r.attempts /\ e.state = "connected"
      BY EnteredFacts DEF WorkspaceState
    <3> HIDE DEF e
    <3>3. q.state = "connected" /\ q.attempts = r.attempts
      BY <3>2 DEF Row
    <3>4. r.state = "provisioning"
      BY <2>1 DEF Permits
    <3> HIDE DEF q
    <3> QED
      BY <1>2, <3>1, <3>3, <3>4 DEF Register
  <2>2. CASE ~Permits(r, {"provisioning"}, "connected")
    BY <1>2, <2>2 DEF Register
  <2> QED
    BY <2>1, <2>2
<1>3. CASE Reconnect(w) \/ Disconnect(w)
  <2>1. row'[w].state = r.state /\ row'[w].attempts = r.attempts /\ row'[w].ref = r.ref
    BY <1>3 DEF Reconnect, Disconnect, Row
  <2> QED
    BY <1>3, <2>1 DEF Reconnect, Disconnect
<1>4. CASE MaybeMarkReady(w)
  <2>1. row'[w] = Entered(r, "ready")
    BY <1>4 DEF MaybeMarkReady
  <2>2. row'[w].state = "ready" /\ row'[w].attempts = r.attempts
    BY <2>1, EnteredFacts DEF WorkspaceState
  <2> QED
    BY <1>4, <2>2 DEF MaybeMarkReady
<1>5. ASSUME NEW s \in Slot,
             NetworkDegraded(w, s) \/ \E c \in {0, 1} : HandleProcessExit(w, s, c)
      PROVE  LaunchOK(w)'
  <2>1. /\ hub[w] = "live" /\ FreeSlot(w, s) /\ row' = row /\ obj' = obj /\ inflight' = inflight
        /\ receipt' = receipt /\ tick' = tick /\ hub' = hub
        /\ \E target : task' = Spawned(w, s, r, target)
    BY <1>5 DEF NetworkDegraded, HandleProcessExit, Speaks
  <2>2. /\ s # 0 /\ task'[w][0] = task[w][0]
        /\ \A u \in Slot \ {s} : task'[w][u] = task[w][u]
    BY <2>1, SpawnedAt DEF FreeSlot
  <2> QED
    BY <2>1, <2>2
<1> QED
  BY <1>1, <1>2, <1>3, <1>4, <1>5 DEF ChannelStep

\* Reconciliation moves a row to terminating or leaves its state, and at most
\* ends its runtime.
LEMMA ReconciledLater ==
    ASSUME Inv, NEW w \in Workspace, ReconcileProviderRow(w)
    PROVE  /\ Later(w)
           /\ row'[w].runtime # "none" <=> row[w].runtime # "none"
<1> DEFINE r == row[w]
           e == EndRuntime(r)
<1>0. r \in Row /\ row \in [Workspace -> Row]
  BY DEF Inv, TypeOK
<1>a. e \in Row /\ e.attempts = r.attempts /\ e.ref = r.ref /\ e.state = r.state
      /\ (e.runtime # "none" <=> r.runtime # "none")
  BY <1>0 DEF EndRuntime, Row
<1>1. \/ row'[w] = r \/ row'[w] = e
      \/ row'[w] = [r EXCEPT !.disconnected = TRUE]
      \/ row'[w] = [Entered(e, "terminating") EXCEPT !.intent = "failed"]
  <2>1. CASE r.state \in TerminalState \cup {"queued", "terminating"}
    BY <1>0, <2>1 DEF ReconcileProviderRow, TerminalState
  <2>2. CASE r.state \in {"connected", "ready"} /\ obj[w] = 0
    BY <1>0, <2>2 DEF ReconcileProviderRow, TerminalState
  <2>3. CASE r.state \in {"connected", "ready"} /\ obj[w] # 0
    BY <1>0, <2>3 DEF ReconcileProviderRow, TerminalState
  <2>4. CASE r.state \notin TerminalState \cup {"queued", "terminating", "connected", "ready"}
    BY <1>0, <2>4 DEF ReconcileProviderRow
  <2> QED
    BY <2>1, <2>2, <2>3, <2>4
<1> HIDE DEF e
<1>2. Entered(e, "terminating") \in Row /\ Entered(e, "terminating").state = "terminating"
      /\ Entered(e, "terminating").attempts = r.attempts /\ Entered(e, "terminating").ref = r.ref
      /\ Entered(e, "terminating").runtime = e.runtime
  BY <1>a, EnteredFacts DEF WorkspaceState
<1> DEFINE f == Entered(e, "terminating")
           q == [f EXCEPT !.intent = "failed"]
<1> HIDE DEF f
<1>3. q.state = "terminating" /\ q.attempts = r.attempts /\ q.ref = r.ref
      /\ q.runtime = e.runtime
  BY <1>2 DEF f, Row
<1>4. LET d == [r EXCEPT !.disconnected = TRUE]
      IN  d.state = r.state /\ d.attempts = r.attempts /\ d.ref = r.ref /\ d.runtime = r.runtime
  BY <1>0 DEF Row
<1>5. row'[w] = q \/ row'[w] = r \/ row'[w] = e \/ row'[w] = [r EXCEPT !.disconnected = TRUE]
  BY <1>1 DEF f
<1> HIDE DEF q
<1> QED
  BY <1>a, <1>3, <1>4, <1>5 DEF Later

\* The sweep (scheduler-sweep.ts).
LEMMA SweepKeepsLaunch ==
    ASSUME LaunchInv, NEW w \in Workspace,
           SweepStep(w) \/ \E phase \in Sweeping : Sweep(w, phase)
    PROVE  LaunchOK(w)'
<1> DEFINE r == row[w]
<1>0. Inv /\ LaunchOK(w) /\ TypeOK /\ snap[w] \in Row
  BY DEF LaunchInv, Inv, TypeOK
<1> USE TypesAt, <1>0 DEF LaunchOK, TasksOK, CurrentOK, PhaseOK, CleaningOK, Relaunching, Clean, Uncreated,
        provider, clock, channel, server, Goto, Launching
<1>1. CASE SweepQueued(w)
  <2>1. row'[w] = r \/ (row'[w] = Entered(r, "expired") /\ r.state = "queued")
    BY <1>1 DEF SweepQueued, Permits
  <2>2. row'[w] = r \/ (row'[w].state = "expired" /\ row'[w].attempts = r.attempts)
    BY <2>1, EnteredFacts DEF WorkspaceState
  <2> QED
    BY <1>1, <2>2 DEF SweepQueued
<1>2. CASE SweepFails(w) \/ SweepTerminating(w) \/ ObserveRefused(w)
  <2>1. /\ \E target : target # "relaunch" /\ task' = Spawned(w, 0, snap[w], target)
        /\ tick[w] \in {"fail", "grace", "retry", "observe"} /\ tick'[w] = "await"
        /\ row' = row /\ obj' = obj /\ inflight' = inflight /\ receipt' = receipt /\ hub' = hub
    BY <1>2 DEF SweepFails, SweepTerminating, ObserveRefused, AwaitFinalizer, Row, TerminalState
  <2>2. /\ task'[w][0].pc = "begin" /\ task'[w][0].target # "relaunch"
        /\ \A u \in Slot \ {0} : task'[w][u] = task[w][u]
    BY <2>1, SpawnedAt
  <2> QED
    BY <2>1, <2>2
<1>3. CASE SweepReconnected(w) \/ ObserveNothing(w)
  BY <1>3 DEF SweepReconnected, ObserveNothing
<1>4. ASSUME NEW s \in Slot, NEW b \in Row, NEW target \in TerminalState,
             tick[w] \in {"expire", "observe"}, TickTerminates(w, s, b, target),
             b.attempts = r.attempts, b.ref = r.ref, b.state = r.state,
             obj' = obj, inflight' = inflight, receipt' = receipt, hub' = hub
      PROVE  LaunchOK(w)'
  <2> DEFINE q == Terminating(b, target)
  <2>0. row'[w] = q
    BY <1>4 DEF TickTerminates
  <2>1. /\ q.attempts = r.attempts /\ q.ref = r.ref /\ q \in Row
        /\ q.state \in {"queued", "provisioning"} => q.state = r.state
        /\ q.state # r.state => q.state = "terminating"
    BY <1>4, TerminatingLater, TerminatingType
  <2>2. CASE b.state = q.state
    <3>1. task' = task /\ tick'[w] = "idle"
      BY <1>4, <2>2 DEF TickTerminates
    <3> HIDE DEF q
    <3> QED
      BY <1>4, <2>0, <2>1, <2>2, <3>1
  <2>3. CASE b.state # q.state
    <3>1. /\ s = 0 \/ FreeSlot(w, s)
          /\ task' = Spawned(w, s, q, target)
          /\ tick'[w] = IF s = 0 THEN "await" ELSE "idle"
      BY <1>4, <2>3 DEF TickTerminates, FreeSlot
    <3> HIDE DEF q
    <3>2. task'[w][s].pc = "begin" /\ \A u \in Slot \ {s} : task'[w][u] = task[w][u]
      BY <2>1, <3>1, SpawnedAt
    <3> QED
      BY <1>4, <2>0, <2>1, <2>3, <3>1, <3>2
  <2> QED
    BY <2>2, <2>3
<1>5. ASSUME NEW s \in Slot, SweepExpires(w, s) PROVE LaunchOK(w)'
  BY <1>4, <1>5 DEF SweepExpires, TerminalState
<1>6. ASSUME NEW s \in Slot, ObserveLost(w, s) PROVE LaunchOK(w)'
  <2> DEFINE b == EndRuntime(r)
  <2>1. b \in Row /\ b.attempts = r.attempts /\ b.ref = r.ref /\ b.state = r.state
    BY DEF EndRuntime, Row
  <2>2. TickTerminates(w, s, b, "failed") /\ tick[w] = "observe" /\ UNCHANGED <<obj, inflight, receipt, hub>>
    BY <1>6 DEF ObserveLost
  <2> HIDE DEF b
  <2> QED
    BY <1>4, <2>1, <2>2 DEF TerminalState
<1>7. ASSUME NEW phase \in Sweeping, Sweep(w, phase) PROVE LaunchOK(w)'
  <2>1. r.state = "queued" => phase = "lapse"
    BY <1>7 DEF Sweep, Due
  <2> QED
    BY <1>7, <2>1 DEF Sweep, TickFree, Sweeping
<1> QED
  BY <1>1, <1>2, <1>3, <1>5, <1>6, <1>7 DEF SweepStep

\* Reconciliation after a crash (reconcile.ts) and the environment.
LEMMA RecoveryKeepsLaunch ==
    ASSUME LaunchInv, NEW w \in Workspace,
           ReconcileProviderRow(w) \/ Environment(w)
    PROVE  LaunchOK(w)'
<1> DEFINE r == row[w]
<1>0. Inv /\ LaunchOK(w)
  BY DEF LaunchInv, Inv, TypeOK
<1> USE TypesAt, <1>0 DEF LaunchOK, TasksOK, CurrentOK, PhaseOK, CleaningOK, Relaunching, Clean, Uncreated,
        provider, clock, channel, server, Goto, Launching
<1>1. CASE ReconcileProviderRow(w)
  <2>1. Later(w)
    BY <1>1, ReconciledLater
  <2> QED
    BY <1>1, <2>1 DEF ReconcileProviderRow, Later
<1>2. CASE Environment(w)
  BY <1>2 DEF Environment, ContainerDies, CloseWindow, Elapse, LandLate, InflightLost
<1> QED
  BY <1>1, <1>2

\* A crash leaves the store and the provider as they are, but for a create that
\* was cut off (its tick was in the call, so the workspace is not queued).
LEMMA CrashKeepsLaunch ==
    ASSUME LaunchInv, Crash, NEW w \in Workspace
    PROVE  LaunchOK(w)'
<1>0. Inv /\ LaunchOK(w)
  BY DEF LaunchInv, Inv, TypeOK
<1>1. /\ tick'[w] = "idle" /\ \A s \in Slot : task'[w][s].pc = "none"
      /\ hub'[w] = "none" /\ row'[w] = row[w] /\ obj'[w] = obj[w]
  BY DEF Crash, NoTask
<1>2. \/ inflight'[w] = inflight[w]
      \/ inflight'[w] = row[w].attempts /\ tick[w] \in {"create", "job"}
  BY DEF Crash
<1> QED
  BY <1>0, <1>1, <1>2, TypesAt DEF LaunchOK, TasksOK, CurrentOK, PhaseOK, CleaningOK, Relaunching, Clean, Uncreated,
     Launching

LEMMA LaunchInvInit == Init => LaunchInv
<1> SUFFICES ASSUME Init PROVE LaunchInv
  OBVIOUS
<1>1. Inv
  BY InitInv
<1>2. \A w \in Workspace : LaunchOK(w)
  BY ConstantTypes DEF Init, NewRow, NoTask, LaunchOK, TasksOK, CurrentOK, PhaseOK, CleaningOK,
     Relaunching, Clean, Uncreated
<1> QED
  BY <1>1, <1>2 DEF LaunchInv

LEMMA LaunchInvNext == LaunchInv /\ [Next]_vars => LaunchInv'
<1> SUFFICES ASSUME LaunchInv, [Next]_vars PROVE LaunchInv'
  OBVIOUS
<1>1. Inv' /\ Inv /\ TypeOK
  BY NextInv DEF LaunchInv, Inv
<1>2. ASSUME NEW w \in Workspace, StepOf(w) PROVE \A v \in Workspace : LaunchOK(v)'
  <2>1. LaunchOK(w)'
    BY <1>2, LaunchKeepsLaunch, TaskKeepsLaunch, CancelKeepsLaunch, ChannelKeepsLaunch,
       SweepKeepsLaunch, RecoveryKeepsLaunch DEF StepOf
  <2>2. ASSUME NEW v \in Workspace, v # w PROVE LaunchOK(v)'
    BY <1>1, <1>2, <2>2, OthersSame, OtherLaunchOK DEF LaunchInv
  <2> QED
    BY <2>1, <2>2
<1>3. CASE Crash
  BY <1>1, <1>3, CrashKeepsLaunch DEF LaunchInv
<1>4. CASE ReconcileAborted \/ UNCHANGED vars
  <2>1. \A v \in Workspace : Same(v)
    BY <1>4 DEF ReconcileAborted, vars, provider, clock, channel, Same
  <2> QED
    BY <1>1, <2>1, OtherLaunchOK DEF LaunchInv
<1> QED
  BY <1>1, <1>2, <1>3, <1>4 DEF Next, StepOf, LaunchInv

LEMMA LaunchInvHolds == Spec => []LaunchInv
BY LaunchInvInit, LaunchInvNext, PTL DEF Spec

--------------------------------------------------------------------------------
(* ChannelOK is inductive for a template with a manifest.                  *)

LEMMA OtherChannelOK ==
    ASSUME NEW v \in Workspace, ChannelOK(v), Same(v)
    PROVE  ChannelOK(v)'
BY DEF ChannelOK, Relaunching, Same

\* Entering a state keeps the runtime, and a termination begins nothing else.
LEMMA TerminatingRuntime ==
    ASSUME NEW r \in Row, NEW target \in TerminalState
    PROVE  Terminating(r, target).runtime = r.runtime
<1> DEFINE e == Entered(r, "terminating")
<1>1. e \in Row /\ e.runtime = r.runtime
  BY EnteredFacts DEF WorkspaceState
<1> HIDE DEF e
<1>2. [e EXCEPT !.intent = target].runtime = r.runtime
  BY <1>1 DEF Row
<1> QED
  BY <1>2 DEF Terminating, e

\* What any step outside a launch does to the parts ChannelOK speaks of: the
\* runtime only ends, and no launch phase and no cleanup of one begins.
Calm(w) ==
    /\ row'[w].attempts = row[w].attempts
    /\ row'[w].state \in {"queued", "provisioning"} => row'[w].state = row[w].state
    /\ row'[w].runtime # "none" <=> row[w].runtime # "none"
    /\ tick'[w] \in Launching \cup {"settle"} => tick'[w] = tick[w]
    /\ Relaunching(w)' => Relaunching(w)

LEMMA CalmKeeps ==
    ASSUME NEW w \in Workspace, ChannelOK(w), Calm(w), UNCHANGED <<sock, join, agent>>
    PROVE  ChannelOK(w)'
BY DEF ChannelOK, Calm

LEMMA TaskCalm ==
    ASSUME LaunchInv, NEW w \in Workspace, NEW s \in Slot, TaskStep(w, s)
    PROVE  Calm(w)
<1> DEFINE r == row[w]
           t == task[w][s]
<1>0. Inv /\ LaunchOK(w) /\ t \in Task
  BY DEF LaunchInv, Inv, TypeOK
<1> USE TypesAt, <1>0 DEF Calm, LaunchOK, TasksOK, Relaunching, Launching,
        provider, clock, channel, server
<1>1. CASE BeginTask(w, s)
  <2>1. task'[w][s].target = t.target /\ \A u \in Slot \ {s} : task'[w][u] = task[w][u]
    BY <1>1 DEF BeginTask, Task
  <2> QED
    BY <1>1, <2>1 DEF BeginTask
<1>2. CASE ListUncommitted(w, s)
  <2>1. /\ row'[w].runtime = r.runtime /\ row'[w].state = r.state /\ row'[w].attempts = r.attempts
        /\ task'[w][s].target = t.target
        /\ \A u \in Slot \ {s} : task'[w][u] = task[w][u]
    BY <1>2 DEF ListUncommitted, Row, Task
  <2> QED
    BY <1>2, <2>1 DEF ListUncommitted
<1>3. CASE ListNothing(w, s) \/ RemoveProvider(w, s)
  <2>0. task' = [task EXCEPT ![w][s].pc = "close"]
    BY <1>3 DEF ListNothing, RemoveProvider
  <2>1. task'[w][s].target = t.target /\ \A u \in Slot \ {s} : task'[w][u] = task[w][u]
    BY <2>0 DEF Task
  <2> QED
    BY <1>3, <2>1 DEF ListNothing, RemoveProvider
<1>5. CASE TaskFails(w, s)
  <2> DEFINE e == Entered(r, "terminating")
             q == [e EXCEPT !.intent = t.target, !.secret = FALSE]
  <2>1. row'[w] = r \/ row'[w] = q
    BY <1>5 DEF TaskFails
  <2>2. e \in Row /\ e.state = "terminating" /\ e.attempts = r.attempts /\ e.runtime = r.runtime
    BY EnteredFacts DEF WorkspaceState
  <2> HIDE DEF e
  <2>3. q.state = "terminating" /\ q.attempts = r.attempts /\ q.runtime = r.runtime
    BY <2>2 DEF Row
  <2>4. /\ \A u \in Slot \ {s} : task'[w][u] = task[w][u]
        /\ tick'[w] = IF s = 0 THEN "idle" ELSE tick[w]
    BY <1>5 DEF TaskFails, Ended
  <2> HIDE DEF q
  <2> QED
    BY <2>1, <2>3, <2>4
<1>6. CASE CloseConnection(w, s)
  <2>1. task'[w][s].target = t.target /\ \A u \in Slot \ {s} : task'[w][u] = task[w][u]
    BY <1>6 DEF CloseConnection, Task
  <2>2. /\ row'[w].state = r.state /\ row'[w].attempts = r.attempts
        /\ row'[w].runtime # "none" <=> r.runtime # "none"
    BY <1>6 DEF CloseConnection, Row
  <2> QED
    BY <1>6, <2>1, <2>2 DEF CloseConnection
<1>7. CASE CommitFinal(w, s)
  <2>1. row'[w] = r \/ (row'[w] = Entered(r, t.target) /\ Permits(r, Finalizable, t.target))
    BY <1>7 DEF CommitFinal
  <2>2. r.state \in WorkspaceState
    BY DEF Row
  <2>3. ASSUME Permits(r, Finalizable, t.target) PROVE t.target \in TerminalState
    <3>1. t.target # "relaunch"
      BY <2>2, <2>3 DEF Permits, CanTransition, Transitions, WorkspaceState
    <3> QED
      BY <3>1 DEF Task
  <2>4. \/ row'[w] = r
        \/ /\ row'[w].state \in TerminalState /\ row'[w].attempts = r.attempts
           /\ row'[w].runtime = r.runtime
    BY <2>1, <2>3, EnteredFacts DEF WorkspaceState, TerminalState
  <2>5. /\ \A u \in Slot \ {s} : task'[w][u] = task[w][u]
        /\ tick'[w] = IF s = 0 THEN "idle" ELSE tick[w]
    BY <1>7 DEF CommitFinal, Ended
  <2> QED
    BY <2>4, <2>5 DEF TerminalState
<1> QED
  BY <1>1, <1>2, <1>3, <1>5, <1>6, <1>7 DEF TaskStep

LEMMA CancelCalm ==
    ASSUME LaunchInv, NEW w \in Workspace, CancelStep(w)
    PROVE  Calm(w)
<1> DEFINE r == row[w]
<1>0. Inv /\ LaunchOK(w) /\ TypeOK
  BY DEF LaunchInv, Inv
<1> USE TypesAt, <1>0 DEF Calm, Relaunching, Launching, provider, clock, channel, server
<1>1. CASE CallCancel(w)
  BY <1>1 DEF CallCancel
<1>2. CASE CancelQueued(w)
  <2>1. row' = row \/ row'[w] = Entered(r, "canceled")
    BY <1>2 DEF CancelQueued
  <2>2. \/ row' = row
        \/ /\ row'[w].state = "canceled" /\ row'[w].attempts = r.attempts
           /\ row'[w].runtime = r.runtime
    BY <2>1, EnteredFacts DEF WorkspaceState
  <2> QED
    BY <1>2, <2>2 DEF CancelQueued
<1>3. ASSUME NEW s \in Slot, CancelActive(w, s) PROVE Calm(w)
  <2> DEFINE q == Terminating(r, "canceled")
  <2>1. row'[w] = q /\ FreeSlot(w, s)
    BY <1>3 DEF CancelActive
  <2>2. /\ q \in Row /\ q.attempts = r.attempts /\ q.runtime = r.runtime
        /\ q.state \in {"queued", "provisioning"} => q.state = r.state
    BY TerminatingLater, TerminatingType, TerminatingRuntime DEF TerminalState
  <2>3. task' = task \/ task' = Spawned(w, s, q, "canceled")
    BY <1>3, <2>1 DEF CancelActive
  <2> HIDE DEF q
  <2>4. task'[w][0] = task[w][0]
    BY <2>1, <2>2, <2>3, SpawnedAt DEF FreeSlot
  <2> QED
    BY <1>3, <2>1, <2>2, <2>4 DEF CancelActive
<1> QED
  BY <1>1, <1>2, <1>3 DEF CancelStep

LEMMA SweepCalm ==
    ASSUME LaunchInv, NEW w \in Workspace,
           SweepStep(w) \/ \E phase \in Sweeping : Sweep(w, phase)
    PROVE  Calm(w)
<1> DEFINE r == row[w]
<1>0. Inv /\ LaunchOK(w) /\ TypeOK /\ snap[w] \in Row
  BY DEF LaunchInv, Inv, TypeOK
<1> USE TypesAt, <1>0 DEF Calm, Relaunching, Launching, provider, clock, channel, server, Goto
<1>1. CASE SweepQueued(w)
  <2>1. row'[w] = r \/ row'[w] = Entered(r, "expired")
    BY <1>1 DEF SweepQueued
  <2>2. \/ row'[w] = r
        \/ /\ row'[w].state = "expired" /\ row'[w].attempts = r.attempts
           /\ row'[w].runtime = r.runtime
    BY <2>1, EnteredFacts DEF WorkspaceState
  <2> QED
    BY <1>1, <2>2 DEF SweepQueued
<1>2. CASE SweepFails(w) \/ SweepTerminating(w) \/ ObserveRefused(w)
  <2>1. /\ \E target : target # "relaunch" /\ task' = Spawned(w, 0, snap[w], target)
        /\ tick'[w] = "await" /\ row' = row
    BY <1>2 DEF SweepFails, SweepTerminating, ObserveRefused, AwaitFinalizer, Row, TerminalState
  <2>2. task'[w][0].target # "relaunch"
    BY <2>1, SpawnedAt
  <2> QED
    BY <2>1, <2>2
<1>3. CASE SweepReconnected(w) \/ ObserveNothing(w)
  BY <1>3 DEF SweepReconnected, ObserveNothing
<1>4. ASSUME NEW s \in Slot, NEW b \in Row, NEW target \in TerminalState,
             TickTerminates(w, s, b, target), b.attempts = r.attempts, b.state = r.state,
             b.runtime # "none" <=> r.runtime # "none"
      PROVE  Calm(w)
  <2> DEFINE q == Terminating(b, target)
  <2>1. row'[w] = q
    BY <1>4 DEF TickTerminates
  <2>2. /\ q \in Row /\ q.attempts = r.attempts /\ q.runtime = b.runtime
        /\ q.state \in {"queued", "provisioning"} => q.state = r.state
    BY <1>4, TerminatingLater, TerminatingType, TerminatingRuntime
  <2>3. \/ tick'[w] = "idle"
        \/ tick'[w] = "await" /\ s = 0 /\ task' = Spawned(w, s, q, target)
    BY <1>4 DEF TickTerminates
  <2>4. target # "relaunch"
    BY <1>4 DEF TerminalState
  <2> HIDE DEF q
  <2>5. tick'[w] = "await" => task'[w][0].target # "relaunch"
    BY <2>2, <2>3, <2>4, SpawnedAt
  <2> QED
    BY <1>4, <2>1, <2>2, <2>3, <2>5
<1>5. ASSUME NEW s \in Slot, SweepExpires(w, s) PROVE Calm(w)
  BY <1>4, <1>5 DEF SweepExpires, TerminalState
<1>6. ASSUME NEW s \in Slot, ObserveLost(w, s) PROVE Calm(w)
  <2> DEFINE b == EndRuntime(r)
  <2>1. /\ b \in Row /\ b.attempts = r.attempts /\ b.state = r.state
        /\ b.runtime # "none" <=> r.runtime # "none"
    BY DEF EndRuntime, Row
  <2>2. TickTerminates(w, s, b, "failed")
    BY <1>6 DEF ObserveLost
  <2> HIDE DEF b
  <2> QED
    BY <1>4, <2>1, <2>2 DEF TerminalState
<1>7. ASSUME NEW phase \in Sweeping, Sweep(w, phase) PROVE Calm(w)
  BY <1>7 DEF Sweep, Sweeping
<1> QED
  BY <1>1, <1>2, <1>3, <1>5, <1>6, <1>7 DEF SweepStep

LEMMA RecoveryCalm ==
    ASSUME LaunchInv, NEW w \in Workspace,
           ReconcileProviderRow(w) \/ Environment(w)
    PROVE  Calm(w)
<1>0. Inv
  BY DEF LaunchInv
<1> USE TypesAt, <1>0 DEF Calm, Relaunching, Launching, provider, clock, channel, server
<1>1. CASE ReconcileProviderRow(w)
  BY <1>1, ReconciledLater DEF ReconcileProviderRow, Later
<1>2. CASE Environment(w)
  BY <1>2 DEF Environment, ContainerDies, CloseWindow, Elapse, LandLate, InflightLost
<1> QED
  BY <1>1, <1>2

\* A launch binds the runtime in its last step and only if it was unbound, so
\* none of its steps runs beside a bound one.
LEMMA LaunchKeepsChannel ==
    ASSUME ChannelInv, NEW w \in Workspace, LaunchStep(w) \/ LaunchCleaned(w)
    PROVE  ChannelOK(w)'
<1> DEFINE r == row[w]
<1>0. LaunchInv /\ Inv /\ LaunchOK(w) /\ ChannelOK(w)
  BY DEF ChannelInv, LaunchInv
<1> USE TypesAt, <1>0 DEF ChannelOK, Relaunching, Launching, provider, clock, channel, server, Goto
<1>1. CASE Claim(w)
  <2>1. r.state = "queued"
    BY <1>1 DEF Claim, Permits
  <2> DEFINE e == Entered(r, "provisioning")
             q == [e EXCEPT !.attempts = r.attempts + 1, !.secret = TRUE]
  <2>2. e \in Row /\ e.runtime = r.runtime
    BY EnteredFacts DEF WorkspaceState
  <2>3. row'[w] = q
    BY <1>1 DEF Claim
  <2> HIDE DEF e
  <2>4. q.runtime = r.runtime
    BY <2>2 DEF Row
  <2> QED
    BY <1>1, <2>1, <2>3, <2>4 DEF Claim
<1>2. CASE \/ PrepareStorage(w) \/ LaunchNotSubmitted(w) \/ CreateContainer(w)
           \/ CreateReceipt(w) \/ ClaimSubmitting(w) \/ CreateJob(w)
  BY <1>2 DEF PrepareStorage, LaunchNotSubmitted, CreateContainer, CreateReceipt,
        ClaimSubmitting, CreateJob
<1>3. CASE CreateFails(w)
  BY <1>3 DEF CreateFails, CreateConflicts, CleanupFailedLaunch
<1>4. CASE SaveRef(w)
  <2>1. row'[w].state = r.state /\ row'[w].attempts = r.attempts /\ row'[w].runtime = r.runtime
    BY <1>4 DEF SaveRef, Row
  <2> QED
    BY <1>4, <2>1 DEF SaveRef
<1>5. CASE SaveRefFails(w) \/ PrepareRuntimeFails(w)
  BY <1>5 DEF SaveRefFails, PrepareRuntimeFails, CleanupFailedLaunch
<1>6. CASE PrepareRuntime(w)
  <2>1. row'[w].state = r.state /\ row'[w].attempts = r.attempts
    BY <1>6 DEF PrepareRuntime, Row
  <2>2. r.state # "queued"
    BY <1>6 DEF PrepareRuntime, LaunchOK, TasksOK
  <2>3. row'[w].runtime = IF Manifest THEN "bound" ELSE r.runtime
    BY <1>6 DEF PrepareRuntime, Row
  <2> QED
    BY <1>6, <2>1, <2>2, <2>3 DEF PrepareRuntime
<1>7. CASE Settle(w)
  <2>1. r.runtime = "none"
    BY <1>7 DEF Settle
  <2>2. row'[w].runtime = "none" /\ row'[w].attempts = r.attempts
        /\ (row'[w].state \in {"queued", "provisioning"} => r.state = "provisioning" \/ row'[w] = r)
    <3>1. \/ row'[w] = [Entered(r, "queued") EXCEPT !.ref = 0, !.secret = FALSE]
             /\ r.state = "provisioning"
          \/ row'[w] = Entered(r, "failed") \/ row'[w] = r
      BY <1>7 DEF Settle, Permits
    <3> DEFINE e == Entered(r, "queued")
    <3>2. /\ e \in Row /\ e.runtime = "none" /\ e.attempts = r.attempts
          /\ Entered(r, "failed").runtime = "none" /\ Entered(r, "failed").state = "failed"
          /\ Entered(r, "failed").attempts = r.attempts
      BY <2>1, EnteredFacts DEF WorkspaceState
    <3> HIDE DEF e
    <3>3. LET q == [e EXCEPT !.ref = 0, !.secret = FALSE]
          IN  q.runtime = "none" /\ q.attempts = r.attempts
      BY <3>2 DEF Row
    <3> QED
      BY <2>1, <3>1, <3>2, <3>3 DEF e
  <2>3. tick'[w] = "idle" /\ sock' = sock /\ join' = join /\ agent' = agent
    BY <1>7 DEF Settle
  <2> QED
    BY <2>1, <2>2, <2>3
<1>8. CASE LaunchCleaned(w)
  BY <1>8 DEF LaunchCleaned, Ended, LaunchOK, TasksOK
<1> QED
  BY <1>1, <1>2, <1>3, <1>4, <1>5, <1>6, <1>7, <1>8 DEF LaunchStep

\* The channel: a socket is authenticated for the object of the last attempt,
\* and the first frame hands it to a workspace that is still provisioning.
LEMMA ChannelKeepsChannel ==
    ASSUME Manifest, ChannelInv, NEW w \in Workspace, ChannelStep(w)
    PROVE  ChannelOK(w)'
<1> DEFINE r == row[w]
<1>0. LaunchInv /\ Inv /\ LaunchOK(w) /\ ChannelOK(w) /\ TypeOK
  BY DEF ChannelInv, LaunchInv, Inv
<1>a. /\ sock \in [Workspace -> Attempt] /\ join \in [Workspace -> Attempt]
      /\ agent \in [Workspace -> Attempt]
  BY <1>0 DEF TypeOK
<1> USE TypesAt, <1>0, <1>a DEF ChannelOK, Relaunching, Launching, provider, clock, channel, server, Goto
<1>1. CASE Authenticate(w)
  BY <1>1 DEF Authenticate
<1>2. CASE SocketLost(w)
  BY <1>2 DEF SocketLost
<1>3. CASE Register(w)
  <2>1. CASE Permits(r, {"provisioning"}, "connected")
    <3> DEFINE e == Entered(r, "connected")
               q == [e EXCEPT !.secret = FALSE, !.disconnected = FALSE]
    <3>1. row'[w] = q /\ join'[w] = sock[w] /\ sock'[w] = 0 /\ tick' = tick /\ task' = task /\ agent' = agent
      BY <1>3, <2>1 DEF Register
    <3>2. e \in Row /\ e.attempts = r.attempts /\ e.state = "connected" /\ e.runtime = r.runtime
      BY EnteredFacts DEF WorkspaceState
    <3> HIDE DEF e
    <3>3. q.state = "connected" /\ q.attempts = r.attempts /\ q.runtime = r.runtime
      BY <3>2 DEF Row
    <3> HIDE DEF q
    <3> QED
      BY <3>1, <3>3
  <2>2. CASE ~Permits(r, {"provisioning"}, "connected")
    BY <1>3, <2>2 DEF Register
  <2> QED
    BY <2>1, <2>2
<1>4. CASE Reconnect(w)
  <2>1. /\ row'[w].state = r.state /\ row'[w].attempts = r.attempts /\ row'[w].runtime = r.runtime
        /\ r.state \notin {"queued", "provisioning"}
    BY <1>4 DEF Reconnect, Row
  <2> QED
    BY <1>4, <2>1 DEF Reconnect
<1>5. CASE Attach(w)
  BY <1>5 DEF Attach
<1>6. CASE MaybeMarkReady(w)
  <2>1. row'[w] = Entered(r, "ready")
    BY <1>6 DEF MaybeMarkReady
  <2>2. row'[w].state = "ready" /\ row'[w].attempts = r.attempts /\ row'[w].runtime = r.runtime
    BY <2>1, EnteredFacts DEF WorkspaceState
  <2> QED
    BY <1>6, <2>2 DEF MaybeMarkReady
<1>7. CASE Disconnect(w)
  <2>1. row'[w].state = r.state /\ row'[w].attempts = r.attempts /\ row'[w].runtime = r.runtime
    BY <1>7 DEF Disconnect, Row
  <2> QED
    BY <1>7, <2>1 DEF Disconnect
<1>8. ASSUME NEW s \in Slot,
             NetworkDegraded(w, s) \/ \E c \in {0, 1} : HandleProcessExit(w, s, c)
      PROVE  ChannelOK(w)'
  <2>1. /\ FreeSlot(w, s) /\ UNCHANGED <<row, tick, sock, join, agent>>
        /\ \E target : task' = Spawned(w, s, r, target)
    BY <1>8 DEF NetworkDegraded, HandleProcessExit
  <2>2. task'[w][0] = task[w][0]
    BY <2>1, SpawnedAt DEF FreeSlot
  <2> QED
    BY <2>1, <2>2
<1> QED
  BY <1>1, <1>2, <1>3, <1>4, <1>5, <1>6, <1>7, <1>8 DEF ChannelStep

LEMMA CrashKeepsChannel ==
    ASSUME ChannelInv, Crash, NEW w \in Workspace
    PROVE  ChannelOK(w)'
<1>1. ChannelOK(w)
  BY DEF ChannelInv
<1>2. /\ tick'[w] = "idle" /\ sock'[w] = 0 /\ join'[w] = 0
      /\ row' = row /\ agent' = agent
  BY DEF Crash
<1> QED
  BY <1>1, <1>2 DEF ChannelOK, Relaunching, Launching

LEMMA ChannelInvHolds == ASSUME Manifest PROVE Spec => []ChannelInv
<1>1. Init => ChannelInv
  BY LaunchInvInit DEF Init, NewRow, NoTask, ChannelInv, ChannelOK, Relaunching, Launching
<1>2. ChannelInv /\ [Next]_vars => ChannelInv'
  <2> SUFFICES ASSUME ChannelInv, [Next]_vars PROVE \A v \in Workspace : ChannelOK(v)'
    BY LaunchInvNext DEF ChannelInv
  <2>1. LaunchInv /\ Inv /\ TypeOK /\ \A v \in Workspace : ChannelOK(v)
    BY DEF ChannelInv, LaunchInv, Inv
  <2>2. ASSUME NEW w \in Workspace, StepOf(w) PROVE \A v \in Workspace : ChannelOK(v)'
    <3>1. ASSUME LaunchStep(w) \/ LaunchCleaned(w) PROVE ChannelOK(w)'
      BY <3>1, LaunchKeepsChannel
    <3>2. ASSUME ChannelStep(w) PROVE ChannelOK(w)'
      BY <3>2, ChannelKeepsChannel
    <3>3. ASSUME \/ CancelStep(w) \/ Environment(w) \/ SweepStep(w) \/ ReconcileProviderRow(w)
                 \/ \E s \in Slot : TaskStep(w, s)
                 \/ \E phase \in Sweeping : Sweep(w, phase)
          PROVE  ChannelOK(w)'
      <4>1. Calm(w)
        BY <2>1, <3>3, TaskCalm, CancelCalm, SweepCalm, RecoveryCalm
      <4>2. UNCHANGED <<sock, join, agent>>
        <5>1. CASE CancelStep(w) \/ Environment(w) \/ ReconcileProviderRow(w)
          BY <5>1 DEF channel, CancelStep, CallCancel, CancelQueued, CancelActive, Environment,
             ContainerDies, CloseWindow, Elapse, LandLate, InflightLost, ReconcileProviderRow
        <5>2. CASE SweepStep(w) \/ \E phase \in Sweeping : Sweep(w, phase)
          BY <5>2 DEF channel, SweepStep, SweepQueued, SweepFails, SweepReconnected,
             SweepTerminating, ObserveRefused, ObserveNothing, SweepExpires, ObserveLost, Sweep
        <5>3. CASE \E s \in Slot : TaskStep(w, s)
          BY <5>3 DEF channel, TaskStep, BeginTask, ListUncommitted, ListNothing,
             RemoveProvider, TaskFails, CloseConnection, CommitFinal
        <5> QED
          BY <3>3, <5>1, <5>2, <5>3
      <4> QED
        BY <2>1, <4>1, <4>2, CalmKeeps
    <3>4. ChannelOK(w)'
      BY <2>2, <3>1, <3>2, <3>3 DEF StepOf
    <3>5. ASSUME NEW v \in Workspace, v # w PROVE ChannelOK(v)'
      BY <2>1, <2>2, <3>5, OthersSame, OtherChannelOK
    <3> QED
      BY <3>4, <3>5
  <2>3. CASE Crash
    BY <2>3, CrashKeepsChannel
  <2>4. CASE ReconcileAborted \/ UNCHANGED vars
    <3>1. \A v \in Workspace : Same(v)
      BY <2>4 DEF ReconcileAborted, vars, provider, clock, channel, Same
    <3> QED
      BY <2>1, <3>1, OtherChannelOK
  <2> QED
    BY <2>2, <2>3, <2>4 DEF Next, StepOf
<1> QED
  BY <1>1, <1>2, PTL DEF Spec

--------------------------------------------------------------------------------
(* ReceiptOK is inductive for the driver with launch receipts, as long as  *)
(* launches keep to their registration window.                             *)

LEMMA OtherReceiptOK ==
    ASSUME NEW v \in Workspace, ReceiptOK(v), Same(v)
    PROVE  ReceiptOK(v)'
BY DEF ReceiptOK, WindowOK, SubmitOK, RefsOK, GoneOK, RefOK, Submitted, Barren, Clean, Uncreated,
   Relaunching, Same

\* Outside admission nothing undoes what a reference or a proof of absence
\* rests on.
Steady(w) ==
    /\ row'[w].attempts = row[w].attempts
    /\ Submitted(w) => Submitted(w)'
    /\ Barren(w) => Barren(w)'

\* Every reference held after the step was sound before it.
SoundRefs(w) ==
    /\ RefOK(w, row'[w].ref)
    /\ tick'[w] \in Sweeping => RefOK(w, snap'[w].ref)
    /\ \A s \in Slot : task'[w][s].pc # "none" => RefOK(w, task'[w][s].ref)
    /\ \A s \in Slot : task'[w][s].pc = "remove" => task'[w][s].ref # 0

\* References that were sound before a steady step are sound after it.
LEMMA RefsKept ==
    ASSUME NEW w \in Workspace, Steady(w), SoundRefs(w)
    PROVE  RefsOK(w)'
BY DEF RefsOK, RefOK, Steady, SoundRefs

LEMMA NoRef == ASSUME NEW w PROVE RefOK(w, 0)
BY DEF RefOK

\* The launch (scheduler-admission.ts, kubernetes.ts).
LEMMA LaunchKeepsReceipt ==
    ASSUME Receipts, ReceiptInv, NEW w \in Workspace, LaunchStep(w) \/ LaunchCleaned(w)
    PROVE  ReceiptOK(w)'
<1> DEFINE r == row[w]
<1>0. Inv /\ LaunchOK(w) /\ ReceiptOK(w) /\ TypeOK
  BY DEF ReceiptInv, LaunchInv, Inv
<1>a. /\ window \in [Workspace -> {"none", "open", "closed"}]
  BY <1>0 DEF TypeOK
<1> USE TypesAt, <1>0, <1>a
    DEF ReceiptOK, WindowOK, SubmitOK, RefsOK, GoneOK, RefOK, Submitted, Barren, Clean, Uncreated,
        Relaunching, provider, clock, channel, server, Goto, Launching, Sweeping
<1>1. CASE Claim(w)
  <2>1. r.state = "queued" /\ tick[w] = "idle"
    BY <1>1 DEF Claim, Permits, TickFree
  <2> DEFINE e == Entered(r, "provisioning")
             q == [e EXCEPT !.attempts = r.attempts + 1, !.secret = TRUE]
  <2>2. e \in Row /\ e.ref = r.ref /\ e.state = "provisioning"
    BY EnteredFacts DEF WorkspaceState
  <2>3. row'[w] = q
    BY <1>1 DEF Claim
  <2> HIDE DEF e
  <2>4. q.ref = r.ref /\ q.state = "provisioning"
    BY <2>2 DEF Row
  <2> HIDE DEF q
  <2>5. r.ref = 0 /\ Clean(w) /\ receipt[w] = "none" /\ \A s \in Slot : task[w][s].pc = "none"
    BY <2>1 DEF LaunchOK, CurrentOK, TasksOK
  <2>6. /\ tick'[w] = "storage" /\ window'[w] = "open" /\ task' = task /\ obj' = obj
        /\ inflight' = inflight /\ receipt' = receipt
    BY <1>1 DEF Claim
  <2> QED
    BY <2>3, <2>4, <2>5, <2>6 DEF TerminalState
<1>2. CASE PrepareStorage(w)
  BY <1>2 DEF PrepareStorage
<1>3. CASE LaunchNotSubmitted(w)
  BY <1>3 DEF LaunchNotSubmitted
<1>4. CASE CreateContainer(w)
  BY <1>4 DEF CreateContainer
<1>5. CASE CreateReceipt(w)
  BY <1>5 DEF CreateReceipt, LaunchOK, TasksOK
<1>6. CASE ClaimSubmitting(w)
  BY <1>6 DEF ClaimSubmitting
<1>7. CASE CreateJob(w)
  BY <1>7 DEF CreateJob
<1>8. CASE CreateFails(w)
  <2>1. /\ tick[w] \in {"create", "submit", "job"} /\ tick'[w] = "await"
        /\ row' = row /\ obj' = obj /\ window' = window
        /\ task' = Spawned(w, 0, [r EXCEPT !.ref = 0], "relaunch")
    BY <1>8 DEF CreateFails, CreateConflicts, CleanupFailedLaunch
  <2>2. inflight' = inflight \/ (tick[w] = "job" /\ inflight'[w] = r.attempts)
    BY <1>8 DEF CreateFails, CreateConflicts
  <2>4. \/ receipt' = receipt
        \/ /\ tick[w] = "create" \/ (tick[w] = "submit" /\ receipt[w] = "prepared")
           /\ inflight' = inflight
    BY <1>8 DEF CreateFails, CreateConflicts
  <2>5. inflight'[w] # 0 => receipt'[w] = receipt[w]
    BY <1>8, <2>1, <2>4 DEF CreateFails, CreateConflicts
  <2>3. /\ task'[w][0].pc = "begin" /\ task'[w][0].ref = 0
        /\ task'[w][0].closed = (window[w] = "closed")
        /\ \A s \in Slot \ {0} : task'[w][s] = task[w][s]
    BY <2>1 DEF Spawned, Finalizer, Row
  <2>p. WindowOK(w)' /\ SubmitOK(w)' /\ GoneOK(w)' /\ Steady(w)
    <3>1. row[w].state # "queued" /\ obj'[w] = 0
      BY <2>1 DEF LaunchOK, TasksOK
    <3>2. WindowOK(w)'
      BY <2>1, <2>3
    <3>3. SubmitOK(w)'
      BY <2>1, <2>2, <2>3, <2>5, <3>1
    <3>4. Barren(w) => Barren(w)'
      BY <2>1, <2>2, <2>4, <2>5
    <3>5. Steady(w)
      BY <2>1, <3>4 DEF Steady
    <3> QED
      BY <2>1, <2>3, <3>2, <3>3, <3>4, <3>5
  <2>r. RefsOK(w)'
    <3> HIDE DEF RefOK, Submitted, Barren, Clean
    <3>1. SoundRefs(w)
      BY <2>1, <2>2, <2>3, NoRef, ZenonT(40) DEF SoundRefs
    <3> QED
      BY <2>p, <3>1, RefsKept
  <2> QED
    BY <2>p, <2>r
<1>9. CASE SaveRef(w)
  <2>1. row'[w].ref = r.attempts /\ row'[w].state = r.state /\ row'[w].attempts = r.attempts
    BY <1>9 DEF SaveRef, Row
  <2> QED
    BY <1>9, <2>1 DEF SaveRef
<1>10. CASE SaveRefFails(w) \/ PrepareRuntimeFails(w)
  <2>1. /\ tick[w] \in {"created", "prepare"} /\ tick'[w] = "await"
        /\ row' = row /\ obj' = obj /\ receipt' = receipt /\ window' = window
        /\ inflight' = inflight
        /\ task' = Spawned(w, 0, [r EXCEPT !.ref = 0], "relaunch")
    BY <1>10 DEF SaveRefFails, PrepareRuntimeFails, CleanupFailedLaunch
  <2>2. /\ task'[w][0].pc = "begin" /\ task'[w][0].ref = 0
        /\ task'[w][0].closed = (window[w] = "closed")
        /\ \A s \in Slot \ {0} : task'[w][s] = task[w][s]
    BY <2>1 DEF Spawned, Finalizer, Row
  <2>p. WindowOK(w)' /\ SubmitOK(w)' /\ GoneOK(w)' /\ Steady(w)
    BY <2>1, <2>2 DEF Steady
  <2>r. RefsOK(w)'
    <3> HIDE DEF RefOK, Submitted, Barren, Clean
    <3>1. SoundRefs(w)
      BY <2>1, <2>2, NoRef, ZenonT(40) DEF SoundRefs
    <3> QED
      BY <2>p, <3>1, RefsKept
  <2> QED
    BY <2>p, <2>r
<1>11. CASE PrepareRuntime(w)
  <2>1. row'[w].ref = r.ref /\ row'[w].state = r.state /\ row'[w].attempts = r.attempts
    BY <1>11 DEF PrepareRuntime, Row
  <2> QED
    BY <1>11, <2>1 DEF PrepareRuntime
<1>13. CASE Settle(w)
  <2>0. /\ tick'[w] = "idle" /\ task' = task /\ obj' = obj /\ inflight' = inflight
        /\ receipt' = receipt /\ (window'[w] = window[w] \/ window'[w] = "none") /\ tick[w] = "settle"
    BY <1>13 DEF Settle
  <2>2. CASE r.attempts < MaxLaunchAttempts /\ Permits(r, {"provisioning"}, "queued")
    <3> DEFINE e == Entered(r, "queued")
               q == [e EXCEPT !.ref = 0, !.secret = FALSE]
    <3>1. row'[w] = q
      BY <1>13, <2>2 DEF Settle
    <3>2. e \in Row /\ e.state = "queued" /\ e.attempts = r.attempts
      BY EnteredFacts DEF WorkspaceState
    <3> HIDE DEF e
    <3>3. q.state = "queued" /\ q.ref = 0 /\ q.attempts = r.attempts
      BY <3>2 DEF Row
    <3>4. r.state = "provisioning"
      BY <2>2 DEF Permits
    <3> HIDE DEF q
    <3> QED
      BY <2>0, <3>1, <3>3, <3>4
  <2>3. CASE ~(r.attempts < MaxLaunchAttempts) /\ Permits(r, {"provisioning"}, "failed")
    <3>1. row'[w] = Entered(r, "failed")
      BY <1>13, <2>3 DEF Settle
    <3>2. row'[w].state = "failed" /\ row'[w].attempts = r.attempts /\ row'[w].ref = r.ref
      BY <3>1, EnteredFacts DEF WorkspaceState
    <3> QED
      BY <2>0, <3>2
  <2>4. CASE /\ ~(r.attempts < MaxLaunchAttempts /\ Permits(r, {"provisioning"}, "queued"))
             /\ ~(~(r.attempts < MaxLaunchAttempts) /\ Permits(r, {"provisioning"}, "failed"))
    <3>1. row'[w] = r
      BY <1>13, <2>4 DEF Settle
    <3> QED
      BY <2>0, <3>1
  <2> QED
    BY <2>2, <2>3, <2>4
<1>14. CASE LaunchCleaned(w)
  <2>1. /\ tick'[w] = "settle" /\ task'[w][0].pc = "none"
        /\ \A s \in Slot \ {0} : task'[w][s] = task[w][s]
    BY <1>14 DEF LaunchCleaned, Ended, NoTask
  <2>2. Relaunching(w) /\ task[w][0].pc = "close" /\ UNCHANGED <<row, obj, inflight, receipt, window>>
    BY <1>14 DEF LaunchCleaned, LaunchOK, TasksOK
  <2>p. WindowOK(w)' /\ SubmitOK(w)' /\ GoneOK(w)' /\ Steady(w)
    BY <2>1, <2>2 DEF Steady
  <2>r. RefsOK(w)'
    <3> HIDE DEF RefOK, Submitted, Barren, Clean
    <3>1. SoundRefs(w)
      BY <2>1, <2>2, NoRef, ZenonT(40) DEF SoundRefs
    <3> QED
      BY <2>p, <3>1, RefsKept
  <2> QED
    BY <2>p, <2>r
<1> QED
  BY <1>1, <1>2, <1>3, <1>4, <1>5, <1>6, <1>7, <1>8, <1>9, <1>10, <1>11, <1>13, <1>14
  DEF LaunchStep

\* A commit writes the target it was given, or nothing at all.
LEMMA CommittedRow ==
    ASSUME TypeOK, NEW w \in Workspace, NEW s \in Slot, CommitFinal(w, s)
    PROVE  \/ row'[w] = row[w]
           \/ /\ row'[w] = Entered(row[w], task[w][s].target)
              /\ Permits(row[w], Finalizable, task[w][s].target)
BY DEF TypeOK, CommitFinal

\* The finalizers (scheduler-lifecycle.ts, provider-termination.ts,
\* kubernetes-uncommitted.ts): a removal leaves nothing, and an empty list is
\* trusted only with a closed window and no receipt.
LEMMA TaskKeepsReceipt ==
    ASSUME Receipts, ReceiptInv, NEW w \in Workspace, NEW s \in Slot, TaskStep(w, s)
    PROVE  ReceiptOK(w)'
<1> DEFINE r == row[w]
<1>0. Inv /\ LaunchOK(w) /\ ReceiptOK(w) /\ TypeOK
  BY DEF ReceiptInv, LaunchInv, Inv
<1>a. /\ window \in [Workspace -> {"none", "open", "closed"}]
      /\ snap \in [Workspace -> Row]
  BY <1>0 DEF TypeOK
<1> USE TypesAt, <1>0, <1>a
    DEF ReceiptOK, WindowOK, SubmitOK, RefsOK, GoneOK, RefOK, Submitted, Barren, Clean, Uncreated,
        Relaunching, provider, clock, channel, server, Goto, Launching, Sweeping
<1> DEFINE t == task[w][s]
<1>b. t \in Task
  OBVIOUS
<1>1. CASE BeginTask(w, s)
  <2> DEFINE known == IF t.ref # 0 THEN t.ref ELSE r.ref
  <2>1. /\ task'[w][s].pc = IF known # 0 THEN "remove" ELSE "list"
        /\ task'[w][s].ref = known /\ task'[w][s].target = t.target /\ t.pc = "begin"
        /\ task'[w][s].closed = t.closed
        /\ \A u \in Slot \ {s} : task'[w][u] = task[w][u]
    BY <1>1, <1>b DEF BeginTask, Task
  <2>2. UNCHANGED <<row, obj, inflight, receipt, window, tick, snap>>
    BY <1>1 DEF BeginTask
  <2>3. RefOK(w, t.ref) /\ RefOK(w, r.ref) /\ (known = t.ref \/ known = r.ref)
    BY <2>1
  <2> HIDE DEF known
  <2>p. WindowOK(w)' /\ SubmitOK(w)' /\ GoneOK(w)' /\ Steady(w)
    BY <2>1, <2>2, <2>3, ZenonT(40) DEF Steady
  <2>r. RefsOK(w)'
    <3> HIDE DEF RefOK, Submitted, Barren, Clean
    <3>1. SoundRefs(w)
      BY <2>1, <2>2, <2>3, NoRef DEF SoundRefs
    <3> QED
      BY <2>p, <3>1, RefsKept
  <2> QED
    BY <2>p, <2>r
<1>2. CASE ListUncommitted(w, s)
  <2> DEFINE found == IF obj[w] # 0 THEN obj[w] ELSE NeverAdmitted
  <2>1. /\ row'[w].ref = found /\ row'[w].state = r.state /\ row'[w].attempts = r.attempts
        /\ task'[w][s].pc = "remove" /\ task'[w][s].ref = found /\ task'[w][s].target = t.target
        /\ task'[w][s].closed = t.closed
        /\ \A u \in Slot \ {s} : task'[w][u] = task[w][u]
    BY <1>2, <1>b DEF ListUncommitted, Row, Task
  <2>2. /\ obj[w] = 0 => receipt[w] \in {"prepared", "cleanup"} /\ receipt'[w] = "cleanup"
        /\ obj[w] # 0 => receipt'[w] = receipt[w]
        /\ UNCHANGED <<obj, inflight, window, tick, snap>> /\ t.pc = "list"
    BY <1>2 DEF ListUncommitted, Fenceable
  <2>3. found # 0
    BY AttemptsAssumption DEF NeverAdmitted
  <2>4. /\ obj[w] # 0 => found = r.attempts
        /\ obj[w] = 0 => found = NeverAdmitted
    BY DEF LaunchOK, CurrentOK
  <2> HIDE DEF found
  <2>5. /\ Submitted(w) => Submitted(w)'
        /\ Barren(w) => Barren(w)'
        /\ obj[w] # 0 => Submitted(w)'
        /\ obj[w] = 0 => Barren(w)'
    BY <2>1, <2>2
  <2>6. RefOK(w, row[w].ref)' /\ task'[w][s].ref = row'[w].ref
    <3> HIDE DEF Submitted, Barren, Clean
    <3> QED
      BY <2>1, <2>4, <2>5
  <2>w. WindowOK(w)'
    BY <2>1, <2>2, <2>5
  <2>s. SubmitOK(w)'
    <3>1. (obj[w] # 0 => Submitted(w))'
      BY <2>2, <2>5
    <3> HIDE DEF Submitted, Barren, Clean
    <3>2. task'[w][0].pc # "close" \/ task'[w][0] = task[w][0]
      BY <2>1
    <3> QED
      BY <2>1, <2>2, <3>1, <3>2
  <2>g. GoneOK(w)'
    <3> HIDE DEF Barren
    <3> QED
      BY <2>1, <2>2, <2>5
  <2>r. RefsOK(w)'
    <3> HIDE DEF Submitted, Barren, Clean
    <3>1. \A ref : RefOK(w, ref) => RefOK(w, ref)'
      BY <2>1, <2>5
    <3> HIDE DEF RefOK
    <3>2. (tick[w] \in Sweeping => RefOK(w, snap[w].ref))'
      BY <2>2, <3>1
    <3>3. ASSUME NEW u \in Slot
          PROVE  /\ task'[w][u].pc # "none" => RefOK(w, task[w][u].ref)'
                 /\ task'[w][u].pc = "remove" => task'[w][u].ref # 0
      <4>1. CASE u = s
        BY <2>1, <2>3, <2>6, <4>1
      <4>2. CASE u # s
        BY <2>1, <3>1, <4>2
      <4> QED
        BY <4>1, <4>2
    <3> QED
      BY <2>6, <3>2, <3>3
  <2> QED
    BY <2>w, <2>s, <2>r, <2>g
<1>3. CASE ListNothing(w, s)
  <2>1. /\ task'[w][s].pc = "close" /\ task'[w][s].target = t.target
        /\ task'[w][s].ref = t.ref /\ task'[w][s].closed = t.closed /\ t.pc = "list"
        /\ \A u \in Slot \ {s} : task'[w][u] = task[w][u]
    BY <1>3, <1>b DEF ListNothing, Task
  <2>2. UNCHANGED <<row, obj, inflight, receipt, window, tick, snap>>
    BY <1>3 DEF ListNothing
  <2>3. receipt[w] = "none" /\ Barren(w)
    BY <1>3 DEF ListNothing, ProvenAbsent
  <2>p. WindowOK(w)' /\ SubmitOK(w)' /\ GoneOK(w)' /\ Steady(w)
    BY <2>1, <2>2, <2>3 DEF Steady
  <2>r. RefsOK(w)'
    <3> HIDE DEF RefOK, Submitted, Barren, Clean
    <3>1. SoundRefs(w)
      BY <2>1, <2>2, <2>3, NoRef DEF SoundRefs
    <3> QED
      BY <2>p, <3>1, RefsKept
  <2> QED
    BY <2>p, <2>r
<1>4. CASE RemoveProvider(w, s)
  <2>1. /\ task'[w][s].pc = "close" /\ task'[w][s].target = t.target
        /\ task'[w][s].ref = t.ref /\ task'[w][s].closed = t.closed /\ t.pc = "remove"
        /\ \A u \in Slot \ {s} : task'[w][u] = task[w][u]
    BY <1>4, <1>b DEF RemoveProvider, Task
  <2>2. /\ obj'[w] = (IF obj[w] = t.ref THEN 0 ELSE obj[w]) /\ receipt'[w] = "none"
        /\ UNCHANGED <<row, inflight, window, tick, snap>>
    BY <1>4 DEF RemoveProvider
  <2>3. /\ tick[w] \notin {"storage", "create", "job"} /\ inflight[w] = 0
        /\ obj'[w] = 0
    BY <2>1, <2>2 DEF LaunchOK, CurrentOK
  <2>p. WindowOK(w)' /\ SubmitOK(w)' /\ GoneOK(w)' /\ Steady(w)
    BY <2>1, <2>2, <2>3 DEF Steady
  <2>r. RefsOK(w)'
    <3> HIDE DEF RefOK, Submitted, Barren, Clean
    <3>1. SoundRefs(w)
      BY <2>1, <2>2, <2>3, NoRef DEF SoundRefs
    <3> QED
      BY <2>p, <3>1, RefsKept
  <2> QED
    BY <2>p, <2>r
<1>5. CASE TaskFails(w, s)
  <2> DEFINE e == Entered(r, "terminating")
             q == [e EXCEPT !.intent = t.target, !.secret = FALSE]
  <2>1. row'[w] = r \/ row'[w] = q
    BY <1>5 DEF TaskFails, Permits
  <2>2. e \in Row /\ e.state = "terminating" /\ e.attempts = r.attempts /\ e.ref = r.ref
    BY EnteredFacts DEF WorkspaceState
  <2> HIDE DEF e
  <2>3. q.state = "terminating" /\ q.attempts = r.attempts /\ q.ref = r.ref
    BY <2>2 DEF Row
  <2>4. /\ task'[w][s].pc = "none"
        /\ \A u \in Slot \ {s} : task'[w][u] = task[w][u]
        /\ tick'[w] = IF s = 0 THEN "idle" ELSE tick[w]
        /\ UNCHANGED <<obj, inflight, receipt, window, snap>> /\ t.pc # "none"
    BY <1>5 DEF TaskFails, Ended, NoTask
  <2> HIDE DEF q
  <2>5. /\ row'[w].ref = r.ref /\ row'[w].attempts = r.attempts
        /\ row'[w].state = r.state \/ row'[w].state = "terminating"
    BY <2>1, <2>3
  <2>6. "terminating" \notin TerminalState
    BY DEF TerminalState
  <2>p. WindowOK(w)' /\ SubmitOK(w)' /\ GoneOK(w)' /\ Steady(w)
    BY <2>4, <2>5, <2>6, ZenonT(60) DEF Steady
  <2>r. RefsOK(w)'
    <3> HIDE DEF RefOK, Submitted, Barren, Clean
    <3>1. SoundRefs(w)
      BY <2>4, <2>5, <2>6, NoRef DEF SoundRefs
    <3> QED
      BY <2>p, <3>1, RefsKept
  <2> QED
    BY <2>p, <2>r
<1>6. CASE CloseConnection(w, s)
  <2>1. /\ task'[w][s].pc = "commit" /\ task'[w][s].target = t.target /\ t.pc = "close"
        /\ task'[w][s].ref = t.ref /\ task'[w][s].closed = t.closed
        /\ \A u \in Slot \ {s} : task'[w][u] = task[w][u]
    BY <1>6, <1>b DEF CloseConnection, Task
  <2>2. /\ row'[w].state = r.state /\ row'[w].attempts = r.attempts /\ row'[w].ref = r.ref
        /\ UNCHANGED <<obj, inflight, receipt, window, tick, snap>>
    BY <1>6 DEF CloseConnection, Row
  <2>p. WindowOK(w)' /\ SubmitOK(w)' /\ GoneOK(w)' /\ Steady(w)
    BY <2>1, <2>2, ZenonT(40) DEF Steady
  <2>r. RefsOK(w)'
    <3> HIDE DEF RefOK, Submitted, Barren, Clean
    <3>1. SoundRefs(w)
      BY <2>1, <2>2, NoRef, ZenonT(40) DEF SoundRefs
    <3> QED
      BY <2>p, <3>1, RefsKept
  <2> QED
    BY <2>p, <2>r
<1>7. CASE CommitFinal(w, s)
  <2>1. row'[w] = r \/ (row'[w] = Entered(r, t.target) /\ Permits(r, Finalizable, t.target))
    BY <1>7, CommittedRow
  <2>2. ASSUME Permits(r, Finalizable, t.target) PROVE t.target \in TerminalState
    <3>1. r.state \in WorkspaceState
      BY DEF Row
    <3>2. t.target # "relaunch"
      BY <2>2, <3>1 DEF Permits, CanTransition, Transitions, WorkspaceState
    <3> QED
      BY <1>b, <3>2 DEF Task
  <2>3. /\ row'[w].attempts = r.attempts /\ row'[w].ref = r.ref
        /\ row'[w].state = r.state \/ row'[w].state \in TerminalState
    BY <2>1, <2>2, EnteredFacts DEF WorkspaceState, TerminalState
  <2>4. /\ task'[w][s].pc = "none" /\ t.pc = "commit"
        /\ \A u \in Slot \ {s} : task'[w][u] = task[w][u]
        /\ tick'[w] = IF s = 0 THEN "idle" ELSE tick[w]
        /\ UNCHANGED <<obj, inflight, receipt, window, snap>>
    BY <1>7 DEF CommitFinal, Ended, NoTask
  <2>5. "queued" \notin TerminalState /\ "provisioning" \notin TerminalState
    BY DEF TerminalState
  <2>p. WindowOK(w)' /\ SubmitOK(w)' /\ GoneOK(w)' /\ Steady(w)
    BY <2>3, <2>4, <2>5, ZenonT(60) DEF Steady
  <2>r. RefsOK(w)'
    <3> HIDE DEF RefOK, Submitted, Barren, Clean
    <3>1. SoundRefs(w)
      BY <2>3, <2>4, <2>5, NoRef DEF SoundRefs
    <3> QED
      BY <2>p, <3>1, RefsKept
  <2> QED
    BY <2>p, <2>r
<1> QED
  BY <1>1, <1>2, <1>3, <1>4, <1>5, <1>6, <1>7 DEF TaskStep

\* Cancellation (workspaces/service.ts): the finalizer takes the row's reference.
LEMMA CancelKeepsReceipt ==
    ASSUME Receipts, ReceiptInv, NEW w \in Workspace, CancelStep(w)
    PROVE  ReceiptOK(w)'
<1> DEFINE r == row[w]
<1>0. Inv /\ LaunchOK(w) /\ ReceiptOK(w) /\ TypeOK
  BY DEF ReceiptInv, LaunchInv, Inv
<1>a. /\ window \in [Workspace -> {"none", "open", "closed"}]
      /\ snap \in [Workspace -> Row]
  BY <1>0 DEF TypeOK
<1> USE TypesAt, <1>0, <1>a
    DEF ReceiptOK, WindowOK, SubmitOK, RefsOK, GoneOK, RefOK, Submitted, Barren, Clean, Uncreated,
        Relaunching, provider, clock, channel, server, Goto, Launching, Sweeping
<1>1. CASE CallCancel(w)
  BY <1>1 DEF CallCancel
<1>2. CASE CancelQueued(w)
  <2>1. row'[w] = r \/ (row'[w] = Entered(r, "canceled") /\ r.state = "queued")
    BY <1>2 DEF CancelQueued, Permits
  <2>2. /\ row'[w].ref = r.ref /\ row'[w].attempts = r.attempts
        /\ row'[w] = r \/ (row'[w].state = "canceled" /\ r.state = "queued")
    BY <2>1, EnteredFacts DEF WorkspaceState
  <2>3. UNCHANGED <<obj, inflight, receipt, window, tick, snap, task>>
    BY <1>2 DEF CancelQueued
  <2>4. r.state = "queued" => Barren(w)
    BY DEF LaunchOK, TasksOK, CurrentOK
  <2>p. WindowOK(w)' /\ SubmitOK(w)' /\ GoneOK(w)' /\ Steady(w)
    BY <2>2, <2>3, <2>4 DEF Steady
  <2>r. RefsOK(w)'
    <3> HIDE DEF RefOK, Submitted, Barren, Clean
    <3>1. SoundRefs(w)
      BY <2>2, <2>3, <2>4, NoRef DEF SoundRefs
    <3> QED
      BY <2>p, <3>1, RefsKept
  <2> QED
    BY <2>p, <2>r
<1>3. ASSUME NEW s \in Slot, CancelActive(w, s) PROVE ReceiptOK(w)'
  <2> DEFINE q == Terminating(r, "canceled")
  <2>1. row' = [row EXCEPT ![w] = q] /\ row'[w] = q /\ FreeSlot(w, s)
    BY <1>3 DEF CancelActive
  <2>2. UNCHANGED <<obj, inflight, receipt, window, tick, snap>>
    BY <1>3 DEF CancelActive
  <2>3. /\ q.attempts = r.attempts /\ q.ref = r.ref /\ q \in Row
        /\ q.state # r.state => q.state = "terminating"
    BY TerminatingLater, TerminatingType DEF TerminalState
  <2>4. task' = task \/ task' = Spawned(w, s, q, "canceled")
    BY <1>3, <2>1 DEF CancelActive
  <2> HIDE DEF q
  <2>5. \/ task' = task
        \/ /\ task'[w][s].pc = "begin" /\ task'[w][s].ref = r.ref
           /\ task'[w][s].closed = (window[w] = "closed") /\ s # 0
           /\ \A u \in Slot \ {s} : task'[w][u] = task[w][u]
    BY <2>1, <2>3, <2>4, SpawnedAt DEF FreeSlot
  <2>6. "terminating" \notin TerminalState
    BY DEF TerminalState
  <2>p. WindowOK(w)' /\ SubmitOK(w)' /\ GoneOK(w)' /\ Steady(w)
    BY <2>1, <2>2, <2>3, <2>5, <2>6, ZenonT(60) DEF Steady
  <2>r. RefsOK(w)'
    <3> HIDE DEF RefOK, Submitted, Barren, Clean
    <3>1. SoundRefs(w)
      BY <2>1, <2>2, <2>3, <2>5, <2>6, NoRef DEF SoundRefs
    <3> QED
      BY <2>p, <3>1, RefsKept
  <2> QED
    BY <2>p, <2>r
<1> QED
  BY <1>1, <1>2, <1>3 DEF CancelStep

\* The control channel (ws-events.ts, ws-frame-handler.ts).
LEMMA ChannelKeepsReceipt ==
    ASSUME Receipts, ReceiptInv, NEW w \in Workspace, ChannelStep(w)
    PROVE  ReceiptOK(w)'
<1> DEFINE r == row[w]
<1>0. Inv /\ LaunchOK(w) /\ ReceiptOK(w) /\ TypeOK
  BY DEF ReceiptInv, LaunchInv, Inv
<1>a. /\ window \in [Workspace -> {"none", "open", "closed"}]
      /\ snap \in [Workspace -> Row]
  BY <1>0 DEF TypeOK
<1> USE TypesAt, <1>0, <1>a
    DEF ReceiptOK, WindowOK, SubmitOK, RefsOK, GoneOK, RefOK, Submitted, Barren, Clean, Uncreated,
        Relaunching, provider, clock, channel, server, Goto, Launching, Sweeping
<1>1. CASE Authenticate(w) \/ SocketLost(w) \/ Attach(w)
  BY <1>1 DEF Authenticate, SocketLost, Attach
<1>2. CASE Register(w)
  <2>1. CASE Permits(r, {"provisioning"}, "connected")
    <3> DEFINE e == Entered(r, "connected")
               q == [e EXCEPT !.secret = FALSE, !.disconnected = FALSE]
    <3>1. /\ row'[w] = q /\ window'[w] = "none"
          /\ receipt'[w] = receipt[w] \/ receipt'[w] = "none"
          /\ UNCHANGED <<obj, inflight, tick, snap, task>>
      BY <1>2, <2>1 DEF Register
    <3>2. e \in Row /\ e.attempts = r.attempts /\ e.state = "connected" /\ e.ref = r.ref
      BY EnteredFacts DEF WorkspaceState
    <3> HIDE DEF e
    <3>3. q.state = "connected" /\ q.attempts = r.attempts /\ q.ref = r.ref
      BY <3>2 DEF Row
    <3> HIDE DEF q
    <3>4. /\ row'[w].state = "connected" /\ row'[w].attempts = r.attempts /\ row'[w].ref = r.ref
          /\ "connected" \notin TerminalState
      BY <3>1, <3>3 DEF TerminalState
    <3>p. WindowOK(w)' /\ SubmitOK(w)' /\ GoneOK(w)' /\ Steady(w)
      BY <3>1, <3>4 DEF Steady
    <3>r. RefsOK(w)'
      <4> HIDE DEF RefOK, Submitted, Barren, Clean
      <4>1. SoundRefs(w)
        BY <3>1, <3>4, NoRef DEF SoundRefs
      <4> QED
        BY <3>p, <4>1, RefsKept
    <3> QED
      BY <3>p, <3>r
  <2>2. CASE ~Permits(r, {"provisioning"}, "connected")
    BY <1>2, <2>2 DEF Register
  <2> QED
    BY <2>1, <2>2
<1>3. CASE Reconnect(w) \/ Disconnect(w) \/ MaybeMarkReady(w)
  <2>1. CASE Reconnect(w) \/ Disconnect(w)
    <3>1. row'[w].state = r.state /\ row'[w].attempts = r.attempts /\ row'[w].ref = r.ref
      BY <2>1, SMTT(20) DEF Reconnect, Disconnect, Row
    <3>2. UNCHANGED <<obj, inflight, receipt, window, tick, snap, task>>
      BY <2>1 DEF Reconnect, Disconnect
    <3>p. WindowOK(w)' /\ SubmitOK(w)' /\ GoneOK(w)' /\ Steady(w)
      BY <3>1, <3>2 DEF Steady
    <3>r. RefsOK(w)'
      <4> HIDE DEF RefOK, Submitted, Barren, Clean
      <4>1. SoundRefs(w)
        BY <3>1, <3>2, NoRef DEF SoundRefs
      <4> QED
        BY <3>p, <4>1, RefsKept
    <3> QED
      BY <3>p, <3>r
  <2>2. CASE MaybeMarkReady(w)
    <3>1. row'[w] = Entered(r, "ready") /\ UNCHANGED <<obj, inflight, receipt, window, tick, snap, task>>
      BY <2>2 DEF MaybeMarkReady
    <3>2. /\ row'[w].state = "ready" /\ row'[w].attempts = r.attempts /\ row'[w].ref = r.ref
          /\ "ready" \notin TerminalState
      BY <3>1, EnteredFacts DEF WorkspaceState, TerminalState
    <3>p. WindowOK(w)' /\ SubmitOK(w)' /\ GoneOK(w)' /\ Steady(w)
      BY <3>1, <3>2 DEF Steady
    <3>r. RefsOK(w)'
      <4> HIDE DEF RefOK, Submitted, Barren, Clean
      <4>1. SoundRefs(w)
        BY <3>1, <3>2, NoRef DEF SoundRefs
      <4> QED
        BY <3>p, <4>1, RefsKept
    <3> QED
      BY <3>p, <3>r
  <2> QED
    BY <1>3, <2>1, <2>2
<1>4. ASSUME NEW s \in Slot,
             NetworkDegraded(w, s) \/ \E c \in {0, 1} : HandleProcessExit(w, s, c)
      PROVE  ReceiptOK(w)'
  <2>1. /\ FreeSlot(w, s) /\ UNCHANGED <<row, obj, inflight, receipt, window, tick, snap>>
        /\ \E target : task' = Spawned(w, s, r, target)
    BY <1>4 DEF NetworkDegraded, HandleProcessExit
  <2>2. /\ task'[w][s].pc = "begin" /\ task'[w][s].ref = r.ref /\ s # 0
        /\ task'[w][s].closed = (window[w] = "closed")
        /\ \A u \in Slot \ {s} : task'[w][u] = task[w][u]
    BY <2>1, SpawnedAt DEF FreeSlot
  <2>p. WindowOK(w)' /\ SubmitOK(w)' /\ GoneOK(w)' /\ Steady(w)
    BY <2>1, <2>2 DEF Steady
  <2>r. RefsOK(w)'
    <3> HIDE DEF RefOK, Submitted, Barren, Clean
    <3>1. SoundRefs(w)
      BY <2>1, <2>2, NoRef DEF SoundRefs
    <3> QED
      BY <2>p, <3>1, RefsKept
  <2> QED
    BY <2>p, <2>r
<1> QED
  BY <1>1, <1>2, <1>3, <1>4 DEF ChannelStep

\* Reconciliation ends no workspace: it leaves that to a finalizer.
LEMMA ReconciledState ==
    ASSUME Inv, NEW w \in Workspace, ReconcileProviderRow(w)
    PROVE  row'[w].state \in TerminalState => row'[w].state = row[w].state
<1> DEFINE r == row[w]
           e == EndRuntime(r)
<1>0. r \in Row /\ row \in [Workspace -> Row]
  BY DEF Inv, TypeOK
<1>1. e \in Row /\ e.state = r.state
  BY <1>0 DEF EndRuntime, Row
<1>2. CASE r.state \in TerminalState \cup {"queued", "terminating"}
  BY <1>0, <1>2 DEF ReconcileProviderRow, TerminalState
<1>3. CASE r.state \in {"connected", "ready"} /\ obj[w] = 0
  <2> DEFINE f == Entered(e, "terminating")
             q == [f EXCEPT !.intent = "failed"]
  <2>1. row'[w] = q
    BY <1>0, <1>3 DEF ReconcileProviderRow, TerminalState
  <2> HIDE DEF e
  <2>2. f \in Row /\ f.state = "terminating"
    BY <1>1, EnteredFacts DEF WorkspaceState
  <2> HIDE DEF f
  <2>3. q.state = "terminating"
    BY <2>2 DEF Row
  <2> QED
    BY <2>1, <2>3 DEF TerminalState
<1>4. CASE r.state \in {"connected", "ready"} /\ obj[w] # 0
  <2>1. row'[w] = [r EXCEPT !.disconnected = TRUE]
    BY <1>0, <1>4 DEF ReconcileProviderRow, TerminalState
  <2> QED
    BY <1>0, <2>1 DEF Row
<1>5. CASE r.state \notin TerminalState \cup {"queued", "terminating", "connected", "ready"}
  BY <1>0, <1>1, <1>5 DEF ReconcileProviderRow
<1> QED
  BY <1>2, <1>3, <1>4, <1>5

\* The sweep (scheduler-sweep.ts): a finalizer may start from a row read
\* earlier, whose reference is still sound.
LEMMA SweepKeepsReceipt ==
    ASSUME Receipts, ReceiptInv, NEW w \in Workspace,
           SweepStep(w) \/ \E phase \in Sweeping : Sweep(w, phase)
    PROVE  ReceiptOK(w)'
<1> DEFINE r == row[w]
<1>0. Inv /\ LaunchOK(w) /\ ReceiptOK(w) /\ TypeOK
  BY DEF ReceiptInv, LaunchInv, Inv
<1>a. /\ window \in [Workspace -> {"none", "open", "closed"}]
      /\ snap \in [Workspace -> Row]
  BY <1>0 DEF TypeOK
<1> USE TypesAt, <1>0, <1>a
    DEF ReceiptOK, WindowOK, SubmitOK, RefsOK, GoneOK, RefOK, Submitted, Barren, Clean, Uncreated,
        Relaunching, provider, clock, channel, server, Goto, Launching, Sweeping
<1>1. CASE SweepQueued(w)
  <2>1. row'[w] = r \/ (row'[w] = Entered(r, "expired") /\ r.state = "queued")
    BY <1>1 DEF SweepQueued, Permits
  <2>2. /\ row'[w].ref = r.ref /\ row'[w].attempts = r.attempts
        /\ row'[w] = r \/ (row'[w].state = "expired" /\ r.state = "queued")
    BY <2>1, EnteredFacts DEF WorkspaceState
  <2>3. /\ UNCHANGED <<obj, inflight, receipt, window, snap, task>>
        /\ tick[w] = "lapse" /\ tick'[w] = "idle"
    BY <1>1 DEF SweepQueued
  <2>4. r.state = "queued" => Barren(w)
    BY DEF LaunchOK, TasksOK, CurrentOK
  <2>p. WindowOK(w)' /\ SubmitOK(w)' /\ GoneOK(w)' /\ Steady(w)
    BY <2>2, <2>3, <2>4 DEF Steady
  <2>r. RefsOK(w)'
    <3> HIDE DEF RefOK, Submitted, Barren, Clean
    <3>1. SoundRefs(w)
      BY <2>2, <2>3, <2>4, NoRef DEF SoundRefs
    <3> QED
      BY <2>p, <3>1, RefsKept
  <2> QED
    BY <2>p, <2>r
<1>2. CASE SweepFails(w) \/ SweepTerminating(w) \/ ObserveRefused(w)
  <2>1. /\ \E target : target # "relaunch" /\ task' = Spawned(w, 0, snap[w], target)
        /\ tick[w] \in {"fail", "grace", "retry", "observe"} /\ tick'[w] = "await"
        /\ UNCHANGED <<row, obj, inflight, receipt, window, snap>>
    BY <1>2 DEF SweepFails, SweepTerminating, ObserveRefused, AwaitFinalizer, Row, TerminalState
  <2>2. /\ task'[w][0].pc = "begin" /\ task'[w][0].target # "relaunch"
        /\ task'[w][0].ref = snap[w].ref
        /\ task'[w][0].closed = (window[w] = "closed")
        /\ \A u \in Slot \ {0} : task'[w][u] = task[w][u]
    BY <2>1, SpawnedAt
  <2>p. WindowOK(w)' /\ SubmitOK(w)' /\ GoneOK(w)' /\ Steady(w)
    BY <2>1, <2>2 DEF Steady
  <2>r. RefsOK(w)'
    <3> HIDE DEF RefOK, Submitted, Barren, Clean
    <3>1. SoundRefs(w)
      BY <2>1, <2>2, NoRef DEF SoundRefs
    <3> QED
      BY <2>p, <3>1, RefsKept
  <2> QED
    BY <2>p, <2>r
<1>3. CASE SweepReconnected(w) \/ ObserveNothing(w)
  <2>1. /\ UNCHANGED <<row, obj, inflight, receipt, window, snap, task>>
        /\ tick[w] \in Sweeping /\ tick'[w] \in {"observe", "idle"}
    BY <1>3 DEF SweepReconnected, ObserveNothing
  <2>p. WindowOK(w)' /\ SubmitOK(w)' /\ GoneOK(w)' /\ Steady(w)
    BY <2>1 DEF Steady
  <2>r. RefsOK(w)'
    <3> HIDE DEF RefOK, Submitted, Barren, Clean
    <3>1. SoundRefs(w)
      BY <2>1, NoRef DEF SoundRefs
    <3> QED
      BY <2>p, <3>1, RefsKept
  <2> QED
    BY <2>p, <2>r
<1>4. ASSUME NEW s \in Slot, NEW b \in Row, NEW target \in TerminalState,
             tick[w] \in {"expire", "observe"}, TickTerminates(w, s, b, target),
             b.attempts = r.attempts, b.ref = r.ref, b.state = r.state,
             UNCHANGED <<obj, inflight, receipt, window, snap>>
      PROVE  ReceiptOK(w)'
  <2> DEFINE q == Terminating(b, target)
  <2>1. row'[w] = q
    BY <1>4 DEF TickTerminates
  <2>2. /\ q.attempts = r.attempts /\ q.ref = r.ref /\ q \in Row
        /\ q.state # r.state => q.state = "terminating"
    BY <1>4, TerminatingLater, TerminatingType
  <2>3. \/ task' = task /\ tick'[w] = "idle"
        \/ /\ task' = Spawned(w, s, q, target) /\ q.state = "terminating"
           /\ tick'[w] = (IF s = 0 THEN "await" ELSE "idle")
    BY <1>4, <2>2 DEF TickTerminates
  <2> HIDE DEF q
  <2>4. \/ task' = task
        \/ /\ task'[w][s].pc = "begin" /\ task'[w][s].ref = r.ref
           /\ task'[w][s].closed = (window[w] = "closed") /\ q.state = "terminating"
           /\ \A u \in Slot \ {s} : task'[w][u] = task[w][u]
    BY <2>2, <2>3, SpawnedAt
  <2>5. "terminating" \notin TerminalState /\ tick'[w] \in {"await", "idle"}
    BY <2>3 DEF TerminalState
  <2>6. task' = task => tick'[w] = "idle" \/ q.state = "terminating"
    BY <2>3
  <2>p. WindowOK(w)' /\ SubmitOK(w)' /\ GoneOK(w)' /\ Steady(w)
    BY <1>4, <2>1, <2>2, <2>4, <2>5, <2>6, ZenonT(60) DEF Steady
  <2>r. RefsOK(w)'
    <3> HIDE DEF RefOK, Submitted, Barren, Clean
    <3>1. SoundRefs(w)
      BY <1>4, <2>1, <2>2, <2>4, <2>5, <2>6, NoRef, ZenonT(60) DEF SoundRefs
    <3> QED
      BY <2>p, <3>1, RefsKept
  <2> QED
    BY <2>p, <2>r
<1>5. ASSUME NEW s \in Slot, SweepExpires(w, s) PROVE ReceiptOK(w)'
  BY <1>4, <1>5 DEF SweepExpires, TerminalState
<1>6. ASSUME NEW s \in Slot, ObserveLost(w, s) PROVE ReceiptOK(w)'
  <2> DEFINE b == EndRuntime(r)
  <2>1. b \in Row /\ b.attempts = r.attempts /\ b.ref = r.ref /\ b.state = r.state
    BY ZenonT(40) DEF EndRuntime, Row
  <2>2. /\ TickTerminates(w, s, b, "failed") /\ tick[w] = "observe"
        /\ UNCHANGED <<obj, inflight, receipt, window, snap>>
    BY <1>6 DEF ObserveLost
  <2> HIDE DEF b
  <2> QED
    BY <1>4, <2>1, <2>2 DEF TerminalState
<1>7. ASSUME NEW phase \in Sweeping, Sweep(w, phase) PROVE ReceiptOK(w)'
  <2>1. /\ UNCHANGED <<row, obj, inflight, receipt, window, task>> /\ snap'[w] = r
        /\ tick[w] = "idle" /\ tick'[w] \in Sweeping
    BY <1>7 DEF Sweep, TickFree
  <2>p. WindowOK(w)' /\ SubmitOK(w)' /\ GoneOK(w)' /\ Steady(w)
    BY <2>1 DEF Steady
  <2>r. RefsOK(w)'
    <3> HIDE DEF RefOK, Submitted, Barren, Clean
    <3>1. SoundRefs(w)
      BY <2>1, NoRef DEF SoundRefs
    <3> QED
      BY <2>p, <3>1, RefsKept
  <2> QED
    BY <2>p, <2>r
<1> QED
  BY <1>1, <1>2, <1>3, <1>5, <1>6, <1>7 DEF SweepStep

\* Reconciliation (reconcile.ts) and the environment: the window closes only
\* behind a launch whose requests all arrived, and a create that still arrives
\* finds its receipt submitting.
LEMMA RecoveryKeepsReceipt ==
    ASSUME Receipts, ~SlowLaunch, ReceiptInv, NEW w \in Workspace,
           ReconcileProviderRow(w) \/ Environment(w)
    PROVE  ReceiptOK(w)'
<1> DEFINE r == row[w]
<1>0. Inv /\ LaunchOK(w) /\ ReceiptOK(w) /\ TypeOK
  BY DEF ReceiptInv, LaunchInv, Inv
<1>a. /\ window \in [Workspace -> {"none", "open", "closed"}]
      /\ snap \in [Workspace -> Row]
  BY <1>0 DEF TypeOK
<1> USE TypesAt, <1>0, <1>a
    DEF ReceiptOK, WindowOK, SubmitOK, RefsOK, GoneOK, RefOK, Submitted, Barren, Clean, Uncreated,
        Relaunching, provider, clock, channel, server, Goto, Launching, Sweeping
<1>1. CASE ReconcileProviderRow(w)
  <2>1. Later(w)
    BY <1>1, ReconciledLater
  <2>2. row'[w].state \in TerminalState => row'[w].state = r.state
    BY <1>1, ReconciledState
  <2>3. UNCHANGED <<obj, inflight, receipt, window, tick, snap, task>>
    BY <1>1 DEF ReconcileProviderRow
  <2>p. WindowOK(w)' /\ SubmitOK(w)' /\ GoneOK(w)' /\ Steady(w)
    BY <2>1, <2>2, <2>3 DEF Steady, Later
  <2>r. RefsOK(w)'
    <3> HIDE DEF RefOK, Submitted, Barren, Clean
    <3>1. SoundRefs(w)
      BY <2>1, <2>2, <2>3, NoRef DEF SoundRefs, Later
    <3> QED
      BY <2>p, <3>1, RefsKept
  <2> QED
    BY <2>p, <2>r
<1>2. CASE ContainerDies(w) \/ Elapse(w)
  BY <1>2 DEF ContainerDies, Elapse
<1>3. CASE CloseWindow(w)
  <2>1. /\ UNCHANGED <<row, obj, inflight, receipt, tick, snap, task>>
        /\ window'[w] = "closed" /\ Submitted(w)
    BY <1>3 DEF CloseWindow
  <2>p. WindowOK(w)' /\ SubmitOK(w)' /\ GoneOK(w)' /\ Steady(w)
    BY <2>1 DEF Steady
  <2>r. RefsOK(w)'
    <3> HIDE DEF RefOK, Submitted, Barren, Clean
    <3>1. SoundRefs(w)
      BY <2>1, NoRef DEF SoundRefs
    <3> QED
      BY <2>p, <3>1, RefsKept
  <2> QED
    BY <2>p, <2>r
<1>4. CASE LandLate(w)
  <2>1. /\ obj'[w] = inflight[w] /\ inflight'[w] = 0 /\ inflight[w] # 0 /\ obj[w] = 0
        /\ UNCHANGED <<row, receipt, window, tick, snap, task>>
    BY <1>4 DEF LandLate
  <2>2. tick[w] \notin Launching /\ ~Barren(w) /\ ~Submitted(w)
    BY <2>1
  <2>p. WindowOK(w)' /\ SubmitOK(w)' /\ GoneOK(w)' /\ Steady(w)
    BY <2>1, <2>2 DEF Steady
  <2>r. RefsOK(w)'
    <3> HIDE DEF RefOK, Submitted, Barren, Clean
    <3>1. SoundRefs(w)
      BY <2>1, <2>2, NoRef DEF SoundRefs
    <3> QED
      BY <2>p, <3>1, RefsKept
  <2> QED
    BY <2>p, <2>r
<1>5. CASE InflightLost(w)
  <2>1. /\ inflight'[w] = 0 /\ inflight[w] # 0
        /\ UNCHANGED <<row, obj, receipt, window, tick, snap, task>>
    BY <1>5 DEF InflightLost
  <2>p. WindowOK(w)' /\ SubmitOK(w)' /\ GoneOK(w)' /\ Steady(w)
    BY <2>1 DEF Steady
  <2>r. RefsOK(w)'
    <3> HIDE DEF RefOK, Submitted, Barren, Clean
    <3>1. SoundRefs(w)
      BY <2>1, NoRef DEF SoundRefs
    <3> QED
      BY <2>p, <3>1, RefsKept
  <2> QED
    BY <2>p, <2>r
<1> QED
  BY <1>1, <1>2, <1>3, <1>4, <1>5 DEF Environment

\* A crash: a create that was cut off had its receipt submitting and its window
\* open, and nobody holds a reference to it.
LEMMA CrashKeepsReceipt ==
    ASSUME Receipts, ReceiptInv, Crash, NEW w \in Workspace
    PROVE  ReceiptOK(w)'
<1>0. Inv /\ LaunchOK(w) /\ ReceiptOK(w) /\ TypeOK
  BY DEF ReceiptInv, LaunchInv, Inv
<1>1. /\ tick'[w] = "idle" /\ \A s \in Slot : task'[w][s].pc = "none"
      /\ row'[w] = row[w] /\ obj'[w] = obj[w] /\ receipt'[w] = receipt[w]
      /\ window'[w] = window[w]
  BY DEF Crash, NoTask, clock
<1>2. inflight'[w] = inflight[w] \/ tick[w] = "job"
  BY DEF Crash
<1>3. /\ Barren(w) => Barren(w)'
      /\ Submitted(w) => Submitted(w)'
  BY <1>1, <1>2 DEF Barren, Submitted, Clean, Uncreated
<1>4. /\ WindowOK(w)'
      /\ GoneOK(w)'
  BY <1>0, <1>1, <1>3 DEF ReceiptOK, WindowOK, GoneOK
<1>5. RefsOK(w)'
  BY <1>0, <1>1, <1>3 DEF ReceiptOK, RefsOK, RefOK, Sweeping
<1>6. SubmitOK(w)'
  BY <1>0, <1>1, <1>2, <1>3 DEF ReceiptOK, SubmitOK, Uncreated, Launching, Submitted, Relaunching
<1> QED
  BY <1>4, <1>5, <1>6 DEF ReceiptOK

LEMMA ReceiptInvHolds ==
    ASSUME Receipts, ~SlowLaunch
    PROVE  Spec => []ReceiptInv
<1>1. Init => ReceiptInv
  BY LaunchInvInit DEF Init, NewRow, NoTask, ReceiptInv, ReceiptOK, WindowOK, SubmitOK, RefsOK,
     GoneOK, RefOK, Submitted, Barren, Clean, Uncreated, Launching, Sweeping, TerminalState
<1>2. ReceiptInv /\ [Next]_vars => ReceiptInv'
  <2> SUFFICES ASSUME ReceiptInv, [Next]_vars PROVE \A v \in Workspace : ReceiptOK(v)'
    BY LaunchInvNext DEF ReceiptInv
  <2>1. TypeOK /\ \A v \in Workspace : ReceiptOK(v)
    BY DEF ReceiptInv, LaunchInv, Inv
  <2>2. ASSUME NEW w \in Workspace, StepOf(w) PROVE \A v \in Workspace : ReceiptOK(v)'
    <3>1. ReceiptOK(w)'
      BY <2>2, LaunchKeepsReceipt, TaskKeepsReceipt, CancelKeepsReceipt, ChannelKeepsReceipt,
         SweepKeepsReceipt, RecoveryKeepsReceipt DEF StepOf
    <3>2. ASSUME NEW v \in Workspace, v # w PROVE ReceiptOK(v)'
      BY <2>1, <2>2, <3>2, OthersSame, OtherReceiptOK
    <3> QED
      BY <3>1, <3>2
  <2>3. CASE Crash
    BY <2>3, CrashKeepsReceipt
  <2>4. CASE ReconcileAborted \/ UNCHANGED vars
    <3>1. \A v \in Workspace : Same(v)
      BY <2>4 DEF ReconcileAborted, vars, provider, clock, channel, Same
    <3> QED
      BY <2>1, <3>1, OtherReceiptOK
  <2> QED
    BY <2>2, <2>3, <2>4 DEF Next, StepOf
<1> QED
  BY <1>1, <1>2, PTL DEF Spec

--------------------------------------------------------------------------------
(* What the invariants say of the program.                                 *)

\* With either driver, a provider object always belongs to the last launch
\* attempt of its row: launch and cleanupFailedLaunch (scheduler-admission.ts)
\* never start an attempt beside what an earlier one left.
THEOREM LaunchesAlone == Spec => []ObjectIsCurrent
<1>1. LaunchInv => ObjectIsCurrent
  BY DEF LaunchInv, LaunchOK, CurrentOK, ObjectIsCurrent
<1> QED
  BY <1>1, LaunchInvHolds, PTL

\* With either driver, a workspace that the bounded retry of launch puts back in
\* the queue has nothing at the provider, no create call on its way and no
\* reference, whatever crashes, late creates and provider errors came before.
THEOREM RetriesStartClean == Spec => []RequeueIsClean
<1>1. LaunchInv => RequeueIsClean
  BY DEF LaunchInv, LaunchOK, CurrentOK, Clean, RequeueIsClean
<1> QED
  BY <1>1, LaunchInvHolds, PTL

\* Where the template declares a workload, the supervisor that registered is
\* that of the last launch attempt: authenticateRegistration (ws-auth.ts) waits
\* for the runtime binding, which launch writes after its last failing step.
THEOREM OnlyCurrentRegisters ==
    ASSUME Manifest
    PROVE  Spec => []RegisteredIsCurrent
<1>1. ChannelInv => RegisteredIsCurrent
  BY DEF ChannelInv, ChannelOK, RegisteredIsCurrent
<1> QED
  BY <1>1, ChannelInvHolds, PTL

\* With the kubernetes driver, and launches that keep to their registration
\* window, a terminal workspace that nobody works on has no provider object:
\* every path to a terminal state proved absence first (finalizeProvider in
\* scheduler-lifecycle.ts, cleanupUncommittedProvider, the launch receipt).
THEOREM TerminalIsCollected ==
    ASSUME Receipts, ~SlowLaunch
    PROVE  Spec => []TerminalLeavesNoProvider
<1>1. ReceiptInv => TerminalLeavesNoProvider
  BY DEF ReceiptInv, ReceiptOK, GoneOK, Barren, Clean, TerminalLeavesNoProvider
<1> QED
  BY <1>1, ReceiptInvHolds, PTL

\* Under the same conditions more is true, at every moment and not only at
\* rest: nothing exists for a terminal workspace and no step of a launch or a
\* late create can bring anything back.
THEOREM NothingComesBack ==
    ASSUME Receipts, ~SlowLaunch
    PROVE  Spec => [](\A w \in Workspace : row[w].state \in TerminalState => Barren(w))
<1>1. ReceiptInv => \A w \in Workspace : row[w].state \in TerminalState => Barren(w)
  BY DEF ReceiptInv, ReceiptOK, GoneOK
<1> QED
  BY <1>1, ReceiptInvHolds, PTL

================================================================================
