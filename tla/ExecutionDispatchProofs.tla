------------------------ MODULE ExecutionDispatchProofs ------------------------
(***************************************************************************)
(* What ExecutionDispatch guarantees for any number of executions, tasks,  *)
(* frames and faults.  The argument follows one execution: nothing leaves  *)
(* the controller before the record is claimed, a claim is never undone,   *)
(* and what the producer answers is still true of it when the answer is    *)
(* read, because a process or a request that ended, or was canceled before *)
(* it started, stays so.                                                   *)
(***************************************************************************)
EXTENDS ExecutionDispatch, TLAPS

--------------------------------------------------------------------------------
(* The invariant.                                                          *)

Act == {"accept", "lookup", "cancel", "ack"}

Reply3 == {"absent", "running", "terminal", "canceled"}

SnapshotType == [settled : BOOLEAN, claimed : BOOLEAN, control : BOOLEAN]

TaskType ==
    [pc : PCs \cup {"over", "hand over", "cancel", "lookup"}, snap : SnapshotType, absent : Nat, epoch : Nat,
     act : {Null, "accept", "lookup", "cancel", "refused"}, reply : Reply3 \cup {Null, "refused", "acked"}]

EntryType == [on : BOOLEAN, snap : SnapshotType, absent : Nat]

DispType ==
    [task : [Executions -> [Lanes -> TaskType]], queued : [Executions -> EntryType],
     absences : [Executions -> Nat], waits : SUBSET Executions]

WorkspaceType ==
    [state : {"ready", "terminating"}, purge : BOOLEAN, expired : BOOLEAN, enabled : BOOLEAN, stored : BOOLEAN,
     ready : BOOLEAN, ended : BOOLEAN, epoch : Nat]

ProcType ==
    [fact : FactPhase, of : Executions \cup {Null}, stopped : BOOLEAN,
     cancellations : SUBSET Executions, pending : BOOLEAN]

FrameType ==
    [type : {"fact", "absent", "cancel-terminal", "cancel-requested", "cancel-canceled"},
     fact : FactPhase, e : Executions, epoch : Nat, stage : {"record", "ack"}]

\* The executions whose record was claimed.
Claimed == {e \in Executions : rec[e].claimed}

\* The steps of a task that come after its claim, and those that only a relayed request has.
Engaged == {"inputs", "accept", "calling", "observe", "replay", "refused", "acked", "finalize"}
Relayed == {"calling", "observe", "replay", "refused", "finalize"}

\* A task is past its claim only for a claimed record, relays nothing to a process, and an end it was answered
\* is the service's.  C: the claimed executions; S: what the service knows.
TaskOK(e, t, C, S) ==
    /\ t.snap.settled \/ t.pc \in Engaged => e \in C
    /\ Owner = "process" => t.pc \notin Relayed
    /\ canReconcile /\ t.pc = "observe" /\ t.reply \in {"terminal", "canceled"} => S[e] = t.reply

\* Whoever read a settled record that still needs work read a claimed one.
EntryOK(e, n, C) == n.snap.settled => e \in C

DispOK(d, C, S) ==
    /\ d \in DispType
    /\ \A e \in Executions, l \in Lanes : TaskOK(e, d.task[e][l], C, S)
    /\ \A e \in Executions : EntryOK(e, d.queued[e], C)

ScanOK ==
    /\ scan \in [on : BOOLEAN, list : [Executions -> EntryType]]
    /\ \A e \in Executions : EntryOK(e, scan.list[e], Claimed)

\* What may be under way: only claimed executions are asked about.  A fact that says the process exited stays
\* true, and so does the answer that a request was canceled before it came.
Orders == [act : Act, e : Claimed]

FrameTrue(f) ==
    /\ f.e \in Claimed
    /\ f.type = "fact" =>
          /\ f.e = proc.of /\ f.fact # "none"
          /\ f.fact = "exited" => proc.fact = "exited" /\ proc.stopped
    /\ f.type = "cancel-canceled" => f.e \in proc.cancellations /\ proc.of # f.e

Frames == {f \in FrameType : FrameTrue(f)}

Requests == [e : Claimed, lane : Lanes, act : Act, late : BOOLEAN]

NetworkOK ==
    /\ hub \in Nat /\ toAgent \in Seq(Orders) /\ toServer \in Seq(Frames) /\ wire \subseteq Requests
    /\ IF Owner = "process" THEN wire = {} ELSE toAgent = <<>> /\ toServer = <<>>

ProducerOK ==
    /\ proc \in ProcType /\ alive \in BOOLEAN
    /\ service \in [Executions -> Reply3] /\ starts \in [Executions -> 0 .. 2]
    /\ (proc.fact = "none") = (proc.of = Null)
    /\ proc.of # Null => proc.of \in Claimed
    /\ IF Owner = "process" THEN \A e \in Executions : service[e] = "absent" ELSE proc.of = Null

RecordsOK ==
    /\ rec \in [Executions -> ExecutionRecord]
    /\ pin \in [Executions -> {"none", "pinned", "released"}]
    /\ rowFact \in FactPhase /\ ws \in WorkspaceType

\* A record says of its execution only what is true of the producer.
EndOK(e) ==
    LET r == rec[e] IN
    /\ r.phase \in {"none", "accepted"} => ~r.claimed
    /\ r.cancel => r.claimed \/ executionSettled(r)
    /\ r.phase = "terminal" => r.claimed
    /\ r.phase = "canceled" /\ ~r.claimed => r.final
    /\ Owner = "process" =>
          /\ r.phase = "canceled" /\ r.claimed => e \in proc.cancellations /\ proc.of # e
          /\ r.phase = "terminal" => proc.of = e /\ proc.fact = "exited" /\ proc.stopped
    /\ Owner # "process" /\ canReconcile =>
          /\ r.phase = "canceled" /\ r.claimed => service[e] = "canceled"
          /\ r.phase = "terminal" /\ r.outcome # "refused" => service[e] = "terminal"

\* Inputs are released only with a record that settled.
PinOK(e) ==
    pin[e] = "released" =>
        /\ rec[e].phase \in {"terminal", "canceled"}
        /\ rec[e].phase = "terminal" => Owner # "process"

\* What was not claimed was never started, and the producer remembers what it started.
StartOK(e) ==
    /\ ~rec[e].claimed => service[e] = "absent"
    /\ Owner = "process" => starts[e] <= 1 /\ (starts[e] = 1 => proc.of = e)
    /\ Owner # "process" /\ canReconcile =>
          starts[e] <= 1 /\ (alive /\ service[e] = "absent" => starts[e] = 0)

ExecutionsOK == \A e \in Executions : EndOK(e) /\ PinOK(e) /\ StartOK(e)

DispatchInv ==
    /\ RecordsOK /\ ProducerOK /\ NetworkOK /\ ScanOK
    /\ DispOK(disp, Claimed, service)
    /\ ExecutionsOK

--------------------------------------------------------------------------------
(* The dispatcher's memory.  Whatever happens to it, its tasks and entries *)
(* stay right, for the records and the service as they are after the step. *)

LEMMA LaneMembers == "ordinary" \in Lanes /\ "control" \in Lanes
  BY DEF Lanes

LEMMA IdleOK ==
    ASSUME NEW C, NEW S, NEW e \in Executions
    PROVE  Idle \in TaskType /\ TaskOK(e, Idle, C, S)
<1>1. Idle \in TaskType
  BY DEF Idle, Nothing, TaskType, SnapshotType, PCs
<1>2. ~Idle.snap.settled /\ Idle.pc = "idle"
  BY DEF Idle, Nothing
<1> QED
  BY <1>1, <1>2 DEF TaskOK, Engaged, Relayed

LEMMA NoEntryOK ==
    ASSUME NEW C, NEW e \in Executions
    PROVE  NoEntry \in EntryType /\ EntryOK(e, NoEntry, C)
  BY DEF NoEntry, Nothing, EntryType, SnapshotType, EntryOK

\* A task starts from what its starter read.
LEMMA StartedOK ==
    ASSUME NEW C, NEW S, NEW e \in Executions,
           NEW snap \in SnapshotType, NEW absent \in Nat, snap.settled => e \in C
    PROVE  /\ Started(snap, absent) \in TaskType
           /\ TaskOK(e, Started(snap, absent), C, S)
<1>1. Idle \in TaskType
  BY IdleOK
<1>2. Started(snap, absent) \in TaskType
  BY <1>1 DEF Started, TaskType, PCs
<1>3. Started(snap, absent).snap = snap /\ Started(snap, absent).pc = "start"
  BY <1>1 DEF Started, TaskType
<1> QED
  BY <1>2, <1>3 DEF TaskOK, Engaged, Relayed

\* More claims, and a service that keeps to its ends, disturb no task.
LEMMA DispGrows ==
    ASSUME NEW C, NEW D, C \subseteq D, NEW S, NEW T, NEW d, DispOK(d, C, S),
           \A e \in Executions : S[e] \in {"terminal", "canceled"} => T[e] = S[e]
    PROVE  DispOK(d, D, T)
<1>1. ASSUME NEW e \in Executions, NEW l \in Lanes
      PROVE  TaskOK(e, d.task[e][l], D, T)
  <2>1. TaskOK(e, d.task[e][l], C, S)
    BY DEF DispOK
  <2> QED
    BY <2>1 DEF TaskOK
<1>2. ASSUME NEW e \in Executions
      PROVE  EntryOK(e, d.queued[e], D)
  BY DEF DispOK, EntryOK
<1> QED
  BY <1>1, <1>2 DEF DispOK

LEMMA SetTask ==
    ASSUME NEW C, NEW S, NEW d, DispOK(d, C, S), NEW e \in Executions, NEW l \in Lanes,
           NEW t \in TaskType, TaskOK(e, t, C, S)
    PROVE  DispOK([d EXCEPT !.task[e][l] = t], C, S)
<1> DEFINE x == [d EXCEPT !.task[e][l] = t]
<1>1. x \in DispType /\ x.queued = d.queued
  BY DEF DispOK, DispType
<1>2. ASSUME NEW f \in Executions, NEW m \in Lanes
      PROVE  x.task[f][m] = IF f = e /\ m = l THEN t ELSE d.task[f][m]
  BY DEF DispOK, DispType
<1> HIDE DEF x
<1>3. ASSUME NEW f \in Executions, NEW m \in Lanes
      PROVE  TaskOK(f, x.task[f][m], C, S)
  BY <1>2 DEF DispOK
<1>4. DispOK(x, C, S)
  BY <1>1, <1>3 DEF DispOK
<1> QED
  BY <1>4 DEF x

LEMMA SetEntry ==
    ASSUME NEW C, NEW S, NEW d, DispOK(d, C, S), NEW e \in Executions,
           NEW n \in EntryType, EntryOK(e, n, C)
    PROVE  DispOK([d EXCEPT !.queued[e] = n], C, S)
  BY DEF DispOK, DispType

LEMMA SetWaits ==
    ASSUME NEW C, NEW S, NEW d, DispOK(d, C, S), NEW W \in SUBSET Executions
    PROVE  DispOK([d EXCEPT !.waits = W], C, S)
  BY DEF DispOK, DispType

LEMMA SetAbsence ==
    ASSUME NEW C, NEW S, NEW d, DispOK(d, C, S), NEW e \in Executions, NEW n \in Nat
    PROVE  DispOK([d EXCEPT !.absences[e] = n], C, S)
  BY DEF DispOK, DispType

\* The lane takes some of the queued entries and drops others.
Taken(d, gone, chosen) ==
    [d EXCEPT !.queued = [e \in Executions |-> IF e \in gone \cup chosen THEN NoEntry ELSE @[e]],
              !.task = [e \in Executions |->
                          IF e \in chosen
                          THEN [@[e] EXCEPT !["ordinary"] = Started(d.queued[e].snap, d.queued[e].absent)]
                          ELSE @[e]]]

LEMMA TakenKeeps ==
    ASSUME NEW C, NEW S, NEW d, DispOK(d, C, S), NEW gone, NEW chosen
    PROVE  DispOK(Taken(d, gone, chosen), C, S)
<1> DEFINE st(e) == Started(d.queued[e].snap, d.queued[e].absent)
           q == [e \in Executions |-> IF e \in gone \cup chosen THEN NoEntry ELSE d.queued[e]]
           k == [e \in Executions |-> IF e \in chosen THEN [d.task[e] EXCEPT !["ordinary"] = st(e)] ELSE d.task[e]]
           x == [d EXCEPT !.queued = q, !.task = k]
<1>1. ASSUME NEW e \in Executions PROVE st(e) \in TaskType /\ TaskOK(e, st(e), C, S)
  <2>1. d.queued[e] \in EntryType /\ EntryOK(e, d.queued[e], C)
    BY DEF DispOK, DispType
  <2>2. d.queued[e].snap \in SnapshotType /\ d.queued[e].absent \in Nat
    BY <2>1 DEF EntryType
  <2> QED
    BY <2>1, <2>2, StartedOK DEF EntryOK
<1>2. /\ d.task \in [Executions -> [Lanes -> TaskType]]
      /\ d.queued \in [Executions -> EntryType]
      /\ \A e \in Executions, l \in Lanes : TaskOK(e, d.task[e][l], C, S)
      /\ \A e \in Executions : EntryOK(e, d.queued[e], C)
  BY DEF DispOK, DispType
<1> HIDE DEF st
<1>3. /\ q \in [Executions -> EntryType]
      /\ \A e \in Executions : EntryOK(e, q[e], C)
  BY <1>2, NoEntryOK
<1>4. k \in [Executions -> [Lanes -> TaskType]]
  BY <1>1, <1>2, LaneMembers
<1>5. \A e \in Executions, l \in Lanes : TaskOK(e, k[e][l], C, S)
  BY <1>1, <1>2, LaneMembers
<1> HIDE DEF q, k
<1>6. x \in DispType /\ x.queued = q /\ x.task = k
  BY <1>3, <1>4 DEF DispOK, DispType
<1>7. DispOK(x, C, S)
  BY <1>3, <1>5, <1>6 DEF DispOK
<1> QED
  BY <1>7 DEF Taken, x, q, k, st

LEMMA PumpKeeps ==
    ASSUME NEW C, NEW S, NEW d, DispOK(d, C, S), NEW x \in pump(d)
    PROVE  DispOK(x, C, S)
<1> DEFINE queue == {e \in Executions : d.queued[e].on}
           blocked == queue \cap Running(d, "control")
           free == Concurrency - Cardinality(Running(d, "ordinary"))
<1>1. CASE ~allowed
  <2>1. x = [d EXCEPT !.queued = NoEntries]
    BY <1>1 DEF pump
  <2>2. NoEntries \in [Executions -> EntryType] /\ \A e \in Executions : EntryOK(e, NoEntries[e], C)
    BY NoEntryOK DEF NoEntries
  <2> QED
    BY <2>1, <2>2 DEF DispOK, DispType
<1>2. CASE allowed /\ free <= 0
  BY <1>2 DEF pump
<1>3. CASE allowed /\ ~(free <= 0)
  <2>1. PICK p \in (SUBSET blocked) \X (SUBSET (queue \ blocked)) : x = Taken(d, p[1], p[2])
    BY <1>3, Zenon DEF pump, Taken
  <2> QED
    BY <2>1, TakenKeeps
<1> QED
  BY <1>1, <1>2, <1>3

LEMMA EndedKeeps ==
    ASSUME NEW C, NEW S, NEW d, DispOK(d, C, S), NEW e \in Executions, NEW l \in Lanes,
           NEW x \in Ended(d, e, l)
    PROVE  DispOK(x, C, S)
<1> DEFINE again == l = "ordinary" /\ d.absences[e] # 0 /\ allowed
           a == IF l = "ordinary" THEN 0 ELSE d.absences[e]
           n == IF again THEN [on |-> TRUE, snap |-> Nothing, absent |-> d.absences[e]] ELSE d.queued[e]
           d1 == [d EXCEPT !.task[e][l] = Idle]
           d2 == [d1 EXCEPT !.absences[e] = a]
           d3 == [d2 EXCEPT !.queued[e] = n]
<1>1. a \in Nat /\ n \in EntryType /\ EntryOK(e, n, C)
  BY DEF DispOK, DispType, EntryType, SnapshotType, Nothing, EntryOK
<1>2. d3 = [d EXCEPT !.task[e][l] = Idle, !.absences[e] = a, !.queued[e] = n]
  BY DEF DispOK, DispType
<1> HIDE DEF a, n
<1>3. DispOK(d1, C, S)
  BY SetTask, IdleOK
<1>4. DispOK(d2, C, S)
  BY <1>1, <1>3, SetAbsence
<1>5. DispOK(d3, C, S)
  BY <1>1, <1>4, SetEntry
<1>6. x \in pump(d3)
  BY <1>2 DEF Ended, a, n
<1> QED
  BY <1>5, <1>6, PumpKeeps

\* The control lane is started only for a record that still needs a cancel.
LEMMA StartCancelKeeps ==
    ASSUME NEW C, NEW S, NEW d, DispOK(d, C, S), NEW e \in Executions,
           NEW r \in ExecutionRecord, r.claimed => e \in C
    PROVE  DispOK(startCancel(d, e, r), C, S)
<1>1. CASE r.cancel /\ cancelPending(r) /\ d.task[e]["control"] = Idle
  <2>1. Snapshot(r) \in SnapshotType /\ (Snapshot(r).settled => e \in C)
    BY <1>1 DEF Snapshot, SnapshotType, ExecutionRecord, cancelPending, needsAcknowledgment, executionSettled
  <2>2. startCancel(d, e, r) = [d EXCEPT !.task[e]["control"] = Started(Snapshot(r), 0)]
    BY <1>1 DEF startCancel, start
  <2> QED
    BY <2>1, <2>2, SetTask, StartedOK, LaneMembers
<1>2. CASE ~(r.cancel /\ cancelPending(r) /\ d.task[e]["control"] = Idle)
  BY <1>2 DEF startCancel, start
<1> QED
  BY <1>1, <1>2

--------------------------------------------------------------------------------
(* The transactions on a record.                                           *)

\* What most of them do: a claim stays, a settled record stays as it is, and nothing becomes terminal or canceled.
Plain(r, x) ==
    /\ x \in ExecutionRecord
    /\ r.claimed => x.claimed
    /\ executionSettled(r) => x.phase = r.phase /\ x.outcome = r.outcome
    /\ r.final => x.final
    /\ x.cancel => r.cancel
    /\ x.phase \in {"terminal", "canceled"} => r.phase = x.phase /\ r.outcome = x.outcome /\ (x.claimed => r.claimed)
    /\ x.phase \in {"none", "accepted"} => ~x.claimed

\* A record as the invariant has it.
Sound(r) == r \in ExecutionRecord /\ (r.phase \in {"none", "accepted"} => ~r.claimed)

LEMMA SoundIsPlain ==
    ASSUME NEW r, Sound(r)
    PROVE  Plain(r, r)
  BY DEF Sound, Plain

LEMMA ClaimPlain ==
    ASSUME NEW w, NEW r, Sound(r), NEW v
    PROVE  /\ Plain(r, claimExecution(w, r, v).rec)
           /\ claimExecution(w, r, v).go => claimExecution(w, r, v).rec.claimed
<1> DEFINE c == claimExecution(w, r, v)
<1>1. CASE r.cancel
  <2>1. c = [rec |-> r, go |-> reconcileExecution(w, r), first |-> FALSE]
    BY <1>1 DEF claimExecution
  <2>2. c.rec = r /\ c.go = reconcileExecution(w, r)
    BY <2>1
  <2>3. reconcileExecution(w, r) => r.claimed
    BY DEF reconcileExecution
  <2> HIDE DEF c
  <2>4. Plain(r, c.rec) /\ (c.go => c.rec.claimed)
    BY <2>2, <2>3, SoundIsPlain
  <2> QED
    BY <2>4 DEF c
<1>2. CASE ~r.cancel /\ executionSettled(r)
  <2>1. c = [rec |-> r, go |-> FALSE, first |-> FALSE]
    BY <1>2 DEF claimExecution
  <2> QED
    BY <2>1, SoundIsPlain
<1>3. CASE ~r.cancel /\ ~executionSettled(r) /\ ~v
  <2>1. c = [rec |-> [r EXCEPT !.phase = "lost", !.outcome = Null], go |-> FALSE, first |-> FALSE]
    BY <1>3 DEF claimExecution
  <2>2. c.rec = [r EXCEPT !.phase = "lost", !.outcome = Null] /\ c.go = FALSE
    BY <2>1
  <2> HIDE DEF c
  <2>3. Plain(r, c.rec)
    BY <2>2, <1>3 DEF Sound, Plain, ExecutionRecord, ExecutionPhase, executionSettled
  <2> QED
    BY <2>2, <2>3 DEF c
<1>4. CASE ~r.cancel /\ ~executionSettled(r) /\ v
  <2>1. c = [rec |-> [r EXCEPT !.claimed = TRUE, !.phase = IF r.claimed THEN @ ELSE "dispatching"],
             go |-> TRUE, first |-> ~r.claimed]
    BY <1>4 DEF claimExecution
  <2>2. c.rec = [r EXCEPT !.claimed = TRUE, !.phase = IF r.claimed THEN @ ELSE "dispatching"]
    BY <2>1
  <2> HIDE DEF c
  <2>3. Plain(r, c.rec)
    BY <2>2, <1>4 DEF Sound, Plain, ExecutionRecord, ExecutionPhase, executionSettled
  <2>4. c.rec.claimed
    BY <2>2 DEF Sound, ExecutionRecord
  <2> QED
    BY <2>3, <2>4 DEF c
<1> QED
  BY <1>1, <1>2, <1>3, <1>4

\* An observation that is no end.
LEMMA ObservePlain ==
    ASSUME NEW w, NEW r, Sound(r), NEW phase \in {"unknown", "running"}, NEW n
    PROVE  Plain(r, observeExecution(w, r, phase, Null, n).rec)
<1> DEFINE c == observeExecution(w, r, phase, Null, n)
<1>1. CASE c.rec = r
  BY <1>1, SoundIsPlain
<1>2. CASE r.claimed /\ ~executionSettled(r) /\ c.rec = [r EXCEPT !.phase = phase, !.outcome = Null]
  BY <1>2 DEF Sound, Plain, ExecutionRecord, ExecutionPhase, executionSettled
<1> QED
  BY <1>1, <1>2 DEF observeExecution

LEMMA LostPlain ==
    ASSUME NEW r, Sound(r), NEW owner, NEW fact \in FactPhase
    PROVE  Plain(r, lostExecution(r, owner, fact))
<1>1. CASE r.phase = "none" \/ executionSettled(r)
  BY <1>1, SoundIsPlain DEF lostExecution
<1>2. CASE ~(r.phase = "none" \/ executionSettled(r))
  <2> DEFINE o == CASE owner # "process" -> r.outcome
                    [] owner = "process" /\ fact = "none" -> Null
                    [] OTHER -> endedFact(fact)
  <2>1. o \in {Null, "done", "refused", "claimed", "running", "exited", "lost"}
    BY DEF endedFact, FactPhase, Sound, ExecutionRecord
  <2>2. lostExecution(r, owner, fact) = [r EXCEPT !.phase = "lost", !.outcome = o]
    BY <1>2 DEF lostExecution, Sound, ExecutionRecord
  <2> HIDE DEF o
  <2> QED
    BY <1>2, <2>1, <2>2 DEF Sound, Plain, ExecutionRecord, ExecutionPhase, executionSettled
<1> QED
  BY <1>1, <1>2

LEMMA StampPlain ==
    ASSUME NEW r, Sound(r)
    PROVE  Plain(r, acknowledgeExecution(r)) /\ Plain(r, finalizeExecution(r))
  BY DEF Sound, Plain, ExecutionRecord, executionSettled, acknowledgeExecution, finalizeExecution

--------------------------------------------------------------------------------
(* Steps of the controller: the producer is left alone and the records     *)
(* only move on.                                                           *)

LEMMA RecordSound ==
    ASSUME DispatchInv, NEW e \in Executions
    PROVE  Sound(rec[e])
  BY DEF DispatchInv, RecordsOK, ExecutionsOK, EndOK, Sound

\* What is under way fits the records as they are after the step.
Carried == toAgent \in Seq(Orders') /\ toServer \in Seq(Frames') /\ wire \subseteq Requests'

\* More claims leave everything under way right.
LEMMA CarriedOn ==
    ASSUME NetworkOK, Claimed \subseteq Claimed', UNCHANGED proc
    PROVE  Carried
<1>1. Orders \subseteq Orders' /\ Requests \subseteq Requests'
  BY DEF Orders, Requests, Lanes
<1>2. Frames \subseteq Frames'
  BY DEF Frames, FrameTrue, FrameType
<1> QED
  BY <1>1, <1>2 DEF NetworkOK, Carried

LEMMA EndStays ==
    ASSUME NEW e \in Executions, EndOK(e), Plain(rec[e], rec'[e]), UNCHANGED <<wl, service, proc>>
    PROVE  EndOK(e)'
<1>1. Owner' = Owner /\ canReconcile' = canReconcile
  BY DEF Owner, canReconcile
<1> QED
  BY <1>1 DEF EndOK, Plain, executionSettled

LEMMA PinStays ==
    ASSUME NEW e \in Executions, PinOK(e), Plain(rec[e], rec'[e]), UNCHANGED <<wl, pin>>
    PROVE  PinOK(e)'
<1>1. Owner' = Owner
  BY DEF Owner
<1> QED
  BY <1>1 DEF PinOK, Plain, executionSettled

LEMMA StartStays ==
    ASSUME NEW e \in Executions, StartOK(e), rec[e].claimed => rec'[e].claimed,
           UNCHANGED <<wl, service, proc, alive, starts>>
    PROVE  StartOK(e)'
<1>1. Owner' = Owner /\ canReconcile' = canReconcile
  BY DEF Owner, canReconcile
<1> QED
  BY <1>1 DEF StartOK

\* A step that changes records plainly and leaves producer and inputs alone.
LEMMA CalmStep ==
    ASSUME DispatchInv, UNCHANGED <<wl, pin, scan, service, proc, alive, starts>>,
           ws' \in WorkspaceType, rowFact' \in FactPhase,
           rec' \in [Executions -> ExecutionRecord],
           \A e \in Executions : Plain(rec[e], rec'[e])
    PROVE  /\ RecordsOK' /\ ProducerOK' /\ ScanOK' /\ ExecutionsOK'
           /\ Claimed \subseteq Claimed' /\ Carried
           /\ DispOK(disp, Claimed', service')
<1>1. Claimed \subseteq Claimed'
  BY DEF Claimed, Plain
<1>2. RecordsOK'
  BY DEF DispatchInv, RecordsOK
<1>3. Owner' = Owner
  BY DEF Owner
<1>4. ProducerOK'
  BY <1>1, <1>3 DEF DispatchInv, ProducerOK
<1>5. ScanOK'
  BY <1>1 DEF DispatchInv, ScanOK, EntryOK
<1>6. ExecutionsOK'
  BY EndStays, PinStays, StartStays DEF DispatchInv, ExecutionsOK, Plain
<1>7. Carried
  BY <1>1, CarriedOn DEF DispatchInv
<1>8. DispOK(disp, Claimed', service')
  BY <1>1, DispGrows DEF DispatchInv
<1> QED
  BY <1>1, <1>2, <1>4, <1>5, <1>6, <1>7, <1>8

\* The invariant of the dispatcher's memory, in the state after the step.
LEMMA DispPrimed ==
    ASSUME wl' = wl, DispOK(disp', Claimed', service')
    PROVE  DispOK(disp, Claimed, service)'
<1>1. Owner' = Owner /\ canReconcile' = canReconcile
  BY DEF Owner, canReconcile
<1>2. ASSUME NEW e \in Executions, NEW l \in Lanes
      PROVE  TaskOK(e, disp.task[e][l], Claimed, service)'
  <2>1. TaskOK(e, disp'.task[e][l], Claimed', service')
    BY DEF DispOK
  <2> QED
    BY <1>1, <2>1 DEF TaskOK
<1> QED
  BY <1>2 DEF DispOK, EntryOK

\* With the network as it was.
LEMMA NetworkStays ==
    ASSUME NetworkOK, Carried, UNCHANGED wl, UNCHANGED <<hub, toAgent, toServer, wire>>
    PROVE  NetworkOK'
  BY DEF NetworkOK, Carried, Owner

\* A task sends to its producer: the execution is claimed, so whatever comes of it may be under way.
LEMMA TransmitKeeps ==
    ASSUME NetworkOK, Carried, UNCHANGED wl,
           NEW e \in Executions, NEW l \in Lanes, NEW act \in Act, e \in Claimed',
           NEW d, DispOK(d, Claimed', service'), Transmit(d, e, l, act)
    PROVE  NetworkOK' /\ DispOK(disp', Claimed', service')
<1>1. Owner' = Owner
  BY DEF Owner
<1>2. DispOK(Unwait(d, e), Claimed', service')
  BY SetWaits DEF Unwait, DispOK, DispType
<1>3. d.task[e][l] \in TaskType /\ TaskOK(e, d.task[e][l], Claimed', service')
  BY DEF DispOK, DispType
<1>4. CASE Owner = "process" /\ hub = d.task[e][l].epoch
  <2>1. /\ toAgent' = Append(toAgent, [act |-> act, e |-> e])
        /\ IF act = "ack" THEN disp' = [d EXCEPT !.task[e][l].pc = "acked"]
           ELSE disp' \in Ended(IF act = "accept" THEN Unwait(d, e) ELSE d, e, l)
        /\ UNCHANGED <<hub, toServer, wire>>
    BY <1>4 DEF Transmit
  <2>2. [act |-> act, e |-> e] \in Orders'
    BY DEF Orders
  <2>3. toAgent' \in Seq(Orders')
    BY <2>1, <2>2 DEF Carried
  <2>4. NetworkOK'
    BY <1>1, <1>4, <2>1, <2>3 DEF NetworkOK, Carried
  <2>5. CASE act = "ack"
    <3> DEFINE t == [d.task[e][l] EXCEPT !.pc = "acked"]
    <3>1. t \in TaskType /\ TaskOK(e, t, Claimed', service')
      BY <1>3 DEF TaskType, PCs, TaskOK, Engaged, Relayed
    <3>2. disp' = [d EXCEPT !.task[e][l] = t]
      BY <2>1, <2>5
    <3> HIDE DEF t
    <3> QED
      BY <2>4, <3>1, <3>2, SetTask
  <2>6. CASE act # "ack"
    BY <2>1, <2>4, <2>6, <1>2, EndedKeeps
  <2> QED
    BY <2>5, <2>6
<1>5. CASE Owner # "process" /\ hub # 0
  <2>1. /\ wire' = wire \cup {[e |-> e, lane |-> l, act |-> act, late |-> FALSE]}
        /\ disp' = [d EXCEPT !.task[e][l].pc = "calling"]
        /\ UNCHANGED <<hub, toAgent, toServer>>
    BY <1>5 DEF Transmit
  <2>2. [e |-> e, lane |-> l, act |-> act, late |-> FALSE] \in Requests'
    BY DEF Requests
  <2>3. NetworkOK'
    BY <1>1, <1>5, <2>1, <2>2 DEF NetworkOK, Carried
  <2> DEFINE t == [d.task[e][l] EXCEPT !.pc = "calling"]
  <2>4. t \in TaskType /\ TaskOK(e, t, Claimed', service')
    BY <1>3, <1>5 DEF TaskType, PCs, TaskOK, Engaged, Relayed
  <2>5. disp' = [d EXCEPT !.task[e][l] = t]
    BY <2>1
  <2> HIDE DEF t
  <2> QED
    BY <2>3, <2>4, <2>5, SetTask
<1>6. CASE ~(Owner = "process" /\ hub = d.task[e][l].epoch) /\ ~(Owner # "process" /\ hub # 0)
  <2>1. disp' \in Ended(d, e, l) /\ UNCHANGED network
    BY <1>6 DEF Transmit
  <2> QED
    BY <2>1, EndedKeeps, NetworkStays DEF network
<1> QED
  BY <1>4, <1>5, <1>6

LEMMA Together ==
    ASSUME RecordsOK', ProducerOK', ScanOK', ExecutionsOK', NetworkOK', wl' = wl,
           DispOK(disp', Claimed', service')
    PROVE  DispatchInv'
  BY DispPrimed DEF DispatchInv

LEMMA TaskTyped ==
    ASSUME DispatchInv, NEW e \in Executions, NEW l \in Lanes
    PROVE  /\ disp.task[e][l] \in TaskType
           /\ TaskOK(e, disp.task[e][l], Claimed, service)
           /\ DispOK(disp, Claimed, service)
  BY DEF DispatchInv, DispOK, DispType

\* Ending the runtime loses what had not settled.
LEMMA RuntimeEndsPlain ==
    ASSUME DispatchInv, endWorkspaceRuntime
    PROVE  /\ ws' \in WorkspaceType /\ rowFact' \in FactPhase
           /\ rec' \in [Executions -> ExecutionRecord]
           /\ \A e \in Executions : Plain(rec[e], rec'[e])
<1>1. rowFact \in FactPhase /\ ws \in WorkspaceType /\ rec \in [Executions -> ExecutionRecord]
  BY DEF DispatchInv, RecordsOK
<1>2. ws' \in WorkspaceType
  BY <1>1 DEF endWorkspaceRuntime, WorkspaceType
<1>3. rowFact' \in FactPhase
  BY <1>1 DEF endWorkspaceRuntime, endedFact, FactPhase
<1>4. \A e \in Executions : rec'[e] = rec[e] \/ rec'[e] = lostExecution(rec[e], Owner, rowFact)
  BY DEF endWorkspaceRuntime
<1>5. \A e \in Executions : Plain(rec[e], rec'[e])
  BY <1>1, <1>4, RecordSound, SoundIsPlain, LostPlain
<1>6. DOMAIN rec' = Executions /\ rec' = [e \in Executions |-> rec'[e]]
  BY <1>1 DEF endWorkspaceRuntime
<1>7. rec' \in [Executions -> ExecutionRecord]
  BY <1>5, <1>6 DEF Plain
<1> QED
  BY <1>2, <1>3, <1>5, <1>7

\* A single record moves plainly.
LEMMA OnePlain ==
    ASSUME DispatchInv, NEW e \in Executions, NEW x, Plain(rec[e], x), rec' = [rec EXCEPT ![e] = x]
    PROVE  /\ rec' \in [Executions -> ExecutionRecord]
           /\ \A f \in Executions : Plain(rec[f], rec'[f])
           /\ x.claimed => e \in Claimed'
<1>1. rec \in [Executions -> ExecutionRecord]
  BY DEF DispatchInv, RecordsOK
<1> QED
  BY <1>1, RecordSound, SoundIsPlain DEF Plain, Claimed

LEMMA NonePlain ==
    ASSUME DispatchInv, rec' = rec
    PROVE  /\ rec' \in [Executions -> ExecutionRecord]
           /\ \A f \in Executions : Plain(rec[f], rec'[f])
  BY RecordSound, SoundIsPlain DEF DispatchInv, RecordsOK

LEMMA RowsTyped ==
    ASSUME DispatchInv
    PROVE  ws \in WorkspaceType /\ ws.epoch \in Nat /\ rowFact \in FactPhase
           /\ rec \in [Executions -> ExecutionRecord] /\ NetworkOK
  BY DEF DispatchInv, RecordsOK, WorkspaceType

LEMMA ReadKeeps ==
    ASSUME DispatchInv, NEW e \in Executions, NEW l \in Lanes, dispatchRead(e, l)
    PROVE  DispatchInv'
<1> DEFINE t == disp.task[e][l]
           skip == ws.purge \/ hub = 0 \/ t.absent \notin {0, ws.epoch}
           next == [disp EXCEPT !.task[e][l].epoch = ws.epoch]
           sent == [next EXCEPT !.task[e][l].snap = Nothing]
           go == [next EXCEPT !.task[e][l].pc = "claim"]
<1>1. UNCHANGED <<wl, pin, mode, faults, scan, service, proc, alive, starts>>
  BY DEF dispatchRead, producer
<1>2. /\ ws' \in WorkspaceType /\ rowFact' \in FactPhase
      /\ rec' \in [Executions -> ExecutionRecord]
      /\ \A f \in Executions : Plain(rec[f], rec'[f])
  BY RuntimeEndsPlain, NonePlain, RowsTyped DEF dispatchRead
<1>3. /\ RecordsOK' /\ ProducerOK' /\ ScanOK' /\ ExecutionsOK'
      /\ Claimed \subseteq Claimed' /\ Carried
      /\ DispOK(disp, Claimed', service')
  BY <1>1, <1>2, CalmStep
<1>4. NetworkOK /\ t \in TaskType /\ TaskOK(e, t, Claimed, service) /\ ws.epoch \in Nat
  BY RowsTyped, TaskTyped
<1>5. TaskOK(e, t, Claimed', service')
  BY <1>3 DEF DispOK
<1> DEFINE u == [t EXCEPT !.epoch = ws.epoch]
           v == [u EXCEPT !.snap = Nothing]
           w == [u EXCEPT !.pc = "claim"]
<1>6. /\ v \in TaskType /\ TaskOK(e, v, Claimed', service')
      /\ w \in TaskType /\ TaskOK(e, w, Claimed', service')
  <2> HIDE DEF t
  <2>1. Nothing \in SnapshotType /\ ~Nothing.settled
    BY DEF SnapshotType, Nothing
  <2>2. u \in TaskType /\ u.snap = t.snap /\ u.pc = t.pc /\ u.reply = t.reply
    BY <1>4 DEF TaskType
  <2> HIDE DEF u
  <2>3. v \in TaskType /\ v.snap = Nothing /\ v.pc = t.pc /\ v.reply = t.reply
    BY <2>1, <2>2 DEF TaskType
  <2>4. w \in TaskType /\ w.snap = t.snap /\ w.pc = "claim"
    BY <2>2 DEF TaskType, PCs
  <2> HIDE DEF v, w
  <2> QED
    BY <1>5, <2>1, <2>3, <2>4 DEF TaskOK, Engaged, Relayed
<1>7. sent = [disp EXCEPT !.task[e][l] = v] /\ go = [disp EXCEPT !.task[e][l] = w]
  BY <1>3 DEF DispOK, DispType
<1>8. DispOK(sent, Claimed', service') /\ DispOK(go, Claimed', service')
  <2> HIDE DEF v, w, t, sent, go
  <2> QED
    BY <1>3, <1>6, <1>7, SetTask
<1>9. CASE disp' \in Ended(disp, e, l) /\ UNCHANGED network
  BY <1>1, <1>3, <1>4, <1>9, EndedKeeps, NetworkStays, Together DEF network
<1>10. CASE t.snap.settled /\ Transmit(sent, e, l, "ack")
  <2>1. e \in Claimed'
    BY <1>5, <1>10 DEF TaskOK
  <2> HIDE DEF sent, t
  <2> QED
    BY <1>1, <1>3, <1>4, <1>8, <1>10, <2>1, TransmitKeeps, Together DEF Act
<1>11. CASE disp' = go /\ UNCHANGED network
  <2> HIDE DEF go
  <2> QED
    BY <1>1, <1>3, <1>4, <1>8, <1>11, NetworkStays, Together DEF network
<1>12. \/ disp' \in Ended(disp, e, l) /\ UNCHANGED network
       \/ t.snap.settled /\ Transmit(sent, e, l, "ack")
       \/ disp' = go /\ UNCHANGED network
  BY DEF dispatchRead, End
<1> QED
  BY <1>9, <1>10, <1>11, <1>12

LEMMA ClaimedTask ==
    ASSUME NEW C, NEW S, NEW e \in C, NEW t, t.pc # "observe", t.pc \in Relayed => Owner # "process"
    PROVE  TaskOK(e, t, C, S)
  BY DEF TaskOK

LEMMA AskingKeeps ==
    ASSUME NEW C, NEW S, NEW d, DispOK(d, C, S), NEW e \in Executions, NEW l \in Lanes,
           NEW act \in {"accept", "lookup", "cancel", "refused"}
    PROVE  DispOK(Asking(d, e, l, act), C, S)
<1> DEFINE t == d.task[e][l]
           u == [t EXCEPT !.act = act, !.reply = Null]
<1>1. t \in TaskType /\ TaskOK(e, t, C, S)
  BY DEF DispOK, DispType
<1>2. Asking(d, e, l, act) = [d EXCEPT !.task[e][l] = u]
  BY DEF Asking, DispOK, DispType, TaskType
<1> HIDE DEF t
<1>3. u \in TaskType /\ u.pc = t.pc /\ u.snap = t.snap /\ u.reply = Null
  BY <1>1 DEF TaskType
<1> HIDE DEF u
<1>4. TaskOK(e, u, C, S)
  BY <1>1, <1>3 DEF TaskOK, Null
<1> QED
  BY <1>2, <1>3, <1>4, SetTask

\* Going on to another step of a claimed execution.
LEMMA GotoKeeps ==
    ASSUME NEW C, NEW S, DispOK(disp, C, S), NEW e \in Executions, NEW l \in Lanes, e \in C,
           NEW pc \in PCs, pc # "observe", pc \in Relayed => Owner # "process", Goto(e, l, pc)
    PROVE  DispOK(disp', C, S)
<1> DEFINE t == disp.task[e][l]
           u == [t EXCEPT !.pc = pc, !.reply = Null]
<1>1. t \in TaskType
  BY DEF DispOK, DispType
<1>2. disp' = [disp EXCEPT !.task[e][l] = u]
  BY DEF Goto, Move
<1> HIDE DEF t
<1>3. u \in TaskType /\ u.pc = pc
  BY <1>1 DEF TaskType
<1> HIDE DEF u
<1> QED
  BY <1>2, <1>3, ClaimedTask, SetTask

LEMMA ClaimKeeps ==
    ASSUME DispatchInv, NEW e \in Executions, NEW l \in Lanes, dispatchClaim(e, l)
    PROVE  DispatchInv'
<1> DEFINE t == disp.task[e][l]
           again == mustResend(e, l)
           claim == IF t.snap.claimed /\ ~again
                    THEN [rec |-> rec[e], go |-> reconcileExecution(ws, rec[e]), first |-> FALSE]
                    ELSE claimExecution(ws, rec[e], validClaim(e))
<1>1. PICK next \in {"over", "hand over", "cancel", "lookup", "inputs", "unknown"} :
        LET fresh == [disp EXCEPT !.task[e][l] = [Idle EXCEPT !.pc = next, !.epoch = t.epoch]] IN
        /\ next # "over" => claim.go
        /\ \/ next = "over" /\ End(e, l) /\ UNCHANGED network
           \/ next = "hand over" /\ disp' \in Ended(startCancel(disp, e, claim.rec), e, l) /\ UNCHANGED network
           \/ next \in {"cancel", "lookup"} /\ Transmit(Asking(fresh, e, l, next), e, l, next)
           \/ next \in {"inputs", "unknown"} /\ disp' = fresh /\ UNCHANGED network
  BY Zenon DEF dispatchClaim
<1>2. rec' = [rec EXCEPT ![e] = claim.rec] /\ UNCHANGED <<wl, ws, rowFact, pin, scan, service, proc, alive, starts>>
  BY DEF dispatchClaim, Quiet, producer
<1>3. Plain(rec[e], claim.rec) /\ (claim.go => claim.rec.claimed)
  <2>1. CASE t.snap.claimed /\ ~again
    <3>1. claim.rec = rec[e] /\ claim.go = reconcileExecution(ws, rec[e])
      BY <2>1
    <3>2. reconcileExecution(ws, rec[e]) => rec[e].claimed
      BY DEF reconcileExecution
    <3> HIDE DEF claim
    <3> QED
      BY <3>1, <3>2, RecordSound, SoundIsPlain
  <2>2. CASE ~(t.snap.claimed /\ ~again)
    <3>1. claim = claimExecution(ws, rec[e], validClaim(e))
      BY <2>2
    <3> HIDE DEF claim
    <3> QED
      BY <3>1, RecordSound, ClaimPlain
  <2> QED
    BY <2>1, <2>2
<1> DEFINE fresh == [disp EXCEPT !.task[e][l] = [Idle EXCEPT !.pc = next, !.epoch = t.epoch]]
           f == [Idle EXCEPT !.pc = next, !.epoch = t.epoch]
<1>4. t \in TaskType /\ Idle \in TaskType
  BY TaskTyped, IdleOK
<1> HIDE DEF claim
<1>5. /\ rec' \in [Executions -> ExecutionRecord]
      /\ \A g \in Executions : Plain(rec[g], rec'[g])
      /\ claim.rec.claimed => e \in Claimed'
  BY <1>2, <1>3, OnePlain
<1>6. /\ RecordsOK' /\ ProducerOK' /\ ScanOK' /\ ExecutionsOK'
      /\ Claimed \subseteq Claimed' /\ Carried
      /\ DispOK(disp, Claimed', service')
  BY <1>2, <1>5, RowsTyped, CalmStep
<1>7. NetworkOK
  BY RowsTyped
<1>8. claim.rec \in ExecutionRecord
  BY <1>3 DEF Plain
<1>9. CASE next = "over"
  BY <1>1, <1>2, <1>6, <1>7, <1>9, EndedKeeps, NetworkStays, Together DEF End, network
<1>10. CASE next = "hand over"
  <2>1. DispOK(startCancel(disp, e, claim.rec), Claimed', service')
    BY <1>5, <1>6, <1>8, StartCancelKeeps
  <2> QED
    BY <1>1, <1>2, <1>6, <1>7, <1>10, <2>1, EndedKeeps, NetworkStays, Together DEF network
<1>11. CASE next \notin {"over", "hand over"}
  <2>1. e \in Claimed'
    BY <1>1, <1>3, <1>5, <1>11
  <2> HIDE DEF t
  <2>2. f \in TaskType /\ f.pc = next
    BY <1>4 DEF TaskType, PCs
  <2>3. TaskOK(e, f, Claimed', service')
    BY <2>1, <2>2, ClaimedTask DEF Relayed
  <2>4. DispOK(fresh, Claimed', service')
    <3> HIDE DEF f
    <3>1. fresh = [disp EXCEPT !.task[e][l] = f]
      BY DEF f
    <3> HIDE DEF fresh
    <3> QED
      BY <1>6, <2>2, <2>3, <3>1, SetTask
  <2> HIDE DEF f
  <2>5. CASE next \in {"cancel", "lookup"}
    <3>1. Transmit(Asking(fresh, e, l, next), e, l, next)
      BY <1>1, <2>5 DEF f, t
    <3> HIDE DEF fresh
    <3>2. DispOK(Asking(fresh, e, l, next), Claimed', service')
      BY <2>4, <2>5, AskingKeeps
    <3> QED
      BY <1>2, <1>6, <1>7, <2>1, <2>5, <3>1, <3>2, TransmitKeeps, Together DEF Act
  <2>6. CASE next \in {"inputs", "unknown"}
    <3>1. disp' = fresh /\ UNCHANGED network
      BY <1>1, <2>6 DEF f, t
    <3> HIDE DEF fresh
    <3> QED
      BY <1>2, <1>6, <1>7, <2>4, <3>1, NetworkStays, Together DEF network
  <2> QED
    BY <1>11, <2>5, <2>6
<1> QED
  BY <1>9, <1>10, <1>11

LEMMA UnknownKeeps ==
    ASSUME DispatchInv, NEW e \in Executions, NEW l \in Lanes, dispatchUnknown(e, l)
    PROVE  DispatchInv'
<1> DEFINE x == observeExecution(ws, rec[e], "unknown", Null, disp.task[e][l].epoch).rec
<1>1. /\ rec' = [rec EXCEPT ![e] = x] /\ disp' \in Ended(disp, e, l)
      /\ UNCHANGED <<wl, ws, rowFact, pin, scan, service, proc, alive, starts>>
      /\ UNCHANGED <<hub, toAgent, toServer, wire>>
  BY DEF dispatchUnknown, End, Quiet, producer, network
<1>2. Plain(rec[e], x)
  BY RecordSound, ObservePlain
<1> HIDE DEF x
<1>3. /\ RecordsOK' /\ ProducerOK' /\ ScanOK' /\ ExecutionsOK' /\ Carried
      /\ DispOK(disp, Claimed', service')
  BY <1>1, <1>2, OnePlain, RowsTyped, CalmStep
<1> QED
  BY <1>1, <1>3, RowsTyped, EndedKeeps, NetworkStays, Together

LEMMA PrepareKeeps ==
    ASSUME DispatchInv, NEW e \in Executions, NEW l \in Lanes, acceptPrepare(e, l)
    PROVE  DispatchInv'
<1> DEFINE claim == claimExecution(ws, rec[e], validClaim(e))
<1>1. /\ UNCHANGED <<wl, ws, rowFact, pin, scan, service, proc, alive, starts>>
      /\ disp.task[e][l].pc = "inputs"
  BY DEF acceptPrepare, Quiet, producer, TaskAt
<1>2. \/ /\ rec' = [rec EXCEPT ![e] = claim.rec]
         /\ \/ ~claim.go /\ disp' \in Ended(Unwait(disp, e), e, l) /\ UNCHANGED network
            \/ claim.go /\ claim.rec.cancel /\ Transmit(Asking(disp, e, l, "accept"), e, l, "cancel")
            \/ claim.go /\ ~claim.rec.cancel /\ Goto(e, l, "accept") /\ UNCHANGED network
      \/ /\ \/ disp' \in Ended([disp EXCEPT !.waits = @ \cup {e}], e, l)
            \/ disp' \in Ended(disp, e, l)
         /\ UNCHANGED <<rec, network>>
  BY Zenon DEF acceptPrepare, End
<1>3. Plain(rec[e], claim.rec) /\ (claim.go => claim.rec.claimed)
  BY RecordSound, ClaimPlain
<1> HIDE DEF claim
<1>4. CASE rec' = [rec EXCEPT ![e] = claim.rec]
  <2>1. /\ RecordsOK' /\ ProducerOK' /\ ScanOK' /\ ExecutionsOK' /\ Carried
        /\ DispOK(disp, Claimed', service')
        /\ claim.rec.claimed => e \in Claimed'
    BY <1>1, <1>3, <1>4, OnePlain, RowsTyped, CalmStep
  <2>2. DispOK(Unwait(disp, e), Claimed', service')
    BY <2>1, SetWaits DEF Unwait, DispOK, DispType
  <2>3. DispOK([disp EXCEPT !.waits = @ \cup {e}], Claimed', service')
    BY <2>1, SetWaits DEF DispOK, DispType
  <2>4. DispOK(Asking(disp, e, l, "accept"), Claimed', service')
    BY <2>1, AskingKeeps
  <2>5. CASE disp' \in Ended(Unwait(disp, e), e, l) /\ UNCHANGED network
    BY <1>1, <2>1, <2>2, <2>5, RowsTyped, EndedKeeps, NetworkStays, Together DEF network
  <2>6. CASE claim.go /\ Transmit(Asking(disp, e, l, "accept"), e, l, "cancel")
    BY <1>1, <1>3, <2>1, <2>4, <2>6, RowsTyped, TransmitKeeps, Together DEF Act
  <2>7. CASE claim.go /\ Goto(e, l, "accept") /\ UNCHANGED network
    <3>1. e \in Claimed'
      BY <1>3, <2>1, <2>7
    <3>2. DispOK(disp', Claimed', service')
      BY <2>1, <2>7, <3>1, GotoKeeps DEF PCs, Relayed
    <3> QED
      BY <1>1, <2>1, <2>7, <3>2, RowsTyped, NetworkStays, Together DEF network
  <2>8. CASE disp' \in Ended([disp EXCEPT !.waits = @ \cup {e}], e, l) /\ UNCHANGED network
    BY <1>1, <2>1, <2>3, <2>8, RowsTyped, EndedKeeps, NetworkStays, Together DEF network
  <2>9. CASE disp' \in Ended(disp, e, l) /\ UNCHANGED network
    BY <1>1, <2>1, <2>9, RowsTyped, EndedKeeps, NetworkStays, Together DEF network
  <2> QED
    BY <1>2, <2>5, <2>6, <2>7, <2>8, <2>9
<1>5. CASE rec' = rec /\ UNCHANGED network
           /\ \/ disp' \in Ended([disp EXCEPT !.waits = @ \cup {e}], e, l)
              \/ disp' \in Ended(disp, e, l)
  <2>1. /\ RecordsOK' /\ ProducerOK' /\ ScanOK' /\ ExecutionsOK' /\ Carried
        /\ DispOK(disp, Claimed', service')
    BY <1>1, <1>5, NonePlain, RowsTyped, CalmStep
  <2>2. DispOK([disp EXCEPT !.waits = @ \cup {e}], Claimed', service')
    BY <2>1, SetWaits DEF DispOK, DispType
  <2>3. DispOK(disp', Claimed', service')
    BY <1>5, <2>1, <2>2, EndedKeeps
  <2> QED
    BY <1>1, <1>5, <2>1, <2>3, RowsTyped, NetworkStays, Together DEF network
<1> QED
  BY <1>2, <1>4, <1>5

LEMMA SendKeeps ==
    ASSUME DispatchInv, NEW e \in Executions, NEW l \in Lanes, acceptSend(e, l)
    PROVE  DispatchInv'
<1>1. /\ UNCHANGED <<wl, ws, rec, rowFact, pin, scan, service, proc, alive, starts>>
      /\ disp.task[e][l].pc = "accept" /\ Transmit(Asking(disp, e, l, "accept"), e, l, "accept")
  BY DEF acceptSend, Quiet, producer, TaskAt
<1>2. /\ RecordsOK' /\ ProducerOK' /\ ScanOK' /\ ExecutionsOK' /\ Carried
      /\ DispOK(disp, Claimed', service')
  BY <1>1, NonePlain, RowsTyped, CalmStep
<1>3. e \in Claimed'
  BY <1>1, <1>2 DEF DispOK, TaskOK, Engaged
<1>4. DispOK(Asking(disp, e, l, "accept"), Claimed', service')
  BY <1>2, AskingKeeps
<1> QED
  BY <1>1, <1>2, <1>3, <1>4, RowsTyped, TransmitKeeps, Together DEF Act

LEMMA FailsKeeps ==
    ASSUME DispatchInv, NEW e \in Executions, NEW l \in Lanes, callFails(e, l)
    PROVE  DispatchInv'
<1>1. /\ UNCHANGED <<wl, ws, rec, rowFact, pin, scan, service, proc, alive, starts, hub, toAgent, toServer>>
      /\ disp' \in Ended(disp, e, l)
  BY DEF callFails, Quiet, producer, End
<1>2. /\ RecordsOK' /\ ProducerOK' /\ ScanOK' /\ ExecutionsOK' /\ Carried
      /\ DispOK(disp, Claimed', service')
  BY <1>1, NonePlain, RowsTyped, CalmStep
<1>3. \A q \in wire' : q \in wire \/ \E p \in wire : q = [p EXCEPT !.late = TRUE]
  BY DEF callFails
<1>4. wire' \subseteq Requests'
  BY <1>2, <1>3 DEF Carried, Requests
<1>5. wire = {} => wire' = {}
  BY <1>3
<1>6. NetworkOK'
  BY <1>1, <1>2, <1>4, <1>5, RowsTyped DEF NetworkOK, Carried, Owner
<1> QED
  BY <1>1, <1>2, <1>6, EndedKeeps, Together

LEMMA ReplayKeeps ==
    ASSUME DispatchInv, NEW e \in Executions, NEW l \in Lanes, dispatchReplay(e, l)
    PROVE  DispatchInv'
<1> DEFINE t == disp.task[e][l]
<1>1. /\ UNCHANGED <<wl, ws, rec, rowFact, pin, scan, service, proc, alive, starts, hub, toAgent, toServer, wire>>
      /\ \/ rec[e].claimed /\ disp' = [disp EXCEPT !.task[e][l] = Started(Snapshot(rec[e]), t.epoch)]
         \/ disp' \in Ended(disp, e, l)
  BY DEF dispatchReplay, Quiet, producer, End, network, Move, replayable
<1>2. /\ RecordsOK' /\ ProducerOK' /\ ScanOK' /\ ExecutionsOK' /\ Carried
      /\ DispOK(disp, Claimed', service')
  BY <1>1, NonePlain, RowsTyped, CalmStep
<1>3. CASE rec[e].claimed /\ disp' = [disp EXCEPT !.task[e][l] = Started(Snapshot(rec[e]), t.epoch)]
  <2>1. e \in Claimed'
    BY <1>1, <1>3 DEF Claimed
  <2>2. Snapshot(rec[e]) \in SnapshotType
    BY RowsTyped DEF Snapshot, SnapshotType, ExecutionRecord, executionSettled, cancelPending, needsAcknowledgment
  <2>3. t.epoch \in Nat
    BY TaskTyped DEF TaskType
  <2>4. DispOK(disp', Claimed', service')
    BY <1>2, <1>3, <2>1, <2>2, <2>3, StartedOK, SetTask
  <2> QED
    BY <1>1, <1>2, <2>4, RowsTyped, NetworkStays, Together
<1>4. CASE disp' \in Ended(disp, e, l)
  BY <1>1, <1>2, <1>4, RowsTyped, EndedKeeps, NetworkStays, Together
<1> QED
  BY <1>1, <1>3, <1>4

LEMMA AcknowledgeKeeps ==
    ASSUME DispatchInv, NEW e \in Executions, NEW l \in Lanes, acknowledge(e, l)
    PROVE  DispatchInv'
<1>1. /\ UNCHANGED <<wl, ws, rowFact, pin, scan, service, proc, alive, starts, hub, toAgent, toServer, wire>>
      /\ disp.task[e][l].pc = "acked"
      /\ rec' = [rec EXCEPT ![e] = acknowledgeExecution(@)] \/ rec' = rec
      /\ disp' \in Ended(disp, e, l) \/ (Owner # "process" /\ Goto(e, l, "finalize"))
  BY DEF acknowledge, Quiet, producer, End, network, TaskAt
<1>2. /\ RecordsOK' /\ ProducerOK' /\ ScanOK' /\ ExecutionsOK' /\ Carried
      /\ DispOK(disp, Claimed', service')
  <2>1. CASE rec' = rec
    BY <1>1, <2>1, NonePlain, RowsTyped, CalmStep
  <2>2. CASE rec' = [rec EXCEPT ![e] = acknowledgeExecution(@)]
    <3>1. Plain(rec[e], acknowledgeExecution(rec[e]))
      BY RecordSound, StampPlain
    <3> QED
      BY <1>1, <2>2, <3>1, OnePlain, RowsTyped, CalmStep
  <2> QED
    BY <1>1, <2>1, <2>2
<1>3. e \in Claimed'
  BY <1>1, <1>2 DEF DispOK, TaskOK, Engaged
<1>4. DispOK(disp', Claimed', service')
  BY <1>1, <1>2, <1>3, EndedKeeps, GotoKeeps DEF PCs, Relayed
<1> QED
  BY <1>1, <1>2, <1>4, RowsTyped, NetworkStays, Together

\* A step that settles a record, or changes its inputs, and leaves the producer alone.
LEMMA SettlingStep ==
    ASSUME DispatchInv, UNCHANGED <<wl, service, proc, alive, starts>>,
           ws' \in WorkspaceType, rowFact' \in FactPhase,
           rec' \in [Executions -> ExecutionRecord],
           pin' \in [Executions -> {"none", "pinned", "released"}],
           \A e \in Executions : (rec[e].claimed => rec'[e].claimed) /\ EndOK(e)' /\ PinOK(e)'
    PROVE  /\ RecordsOK' /\ ProducerOK' /\ ExecutionsOK'
           /\ Claimed \subseteq Claimed' /\ Carried
           /\ DispOK(disp, Claimed', service')
           /\ scan' = scan => ScanOK'
<1>1. Claimed \subseteq Claimed'
  BY DEF Claimed
<1>2. RecordsOK'
  BY DEF RecordsOK
<1>3. Owner' = Owner
  BY DEF Owner
<1>4. ProducerOK'
  BY <1>1, <1>3 DEF DispatchInv, ProducerOK
<1>5. scan' = scan => ScanOK'
  BY <1>1 DEF DispatchInv, ScanOK, EntryOK
<1>6. ExecutionsOK'
  BY StartStays DEF DispatchInv, ExecutionsOK
<1>7. Carried
  BY <1>1, CarriedOn DEF DispatchInv
<1>8. DispOK(disp, Claimed', service')
  BY <1>1, DispGrows DEF DispatchInv
<1> QED
  BY <1>1, <1>2, <1>4, <1>5, <1>6, <1>7, <1>8

\* One record settles; the others and all inputs stay.
LEMMA OneSettles ==
    ASSUME DispatchInv, NEW e \in Executions, NEW x \in ExecutionRecord, rec' = [rec EXCEPT ![e] = x],
           UNCHANGED <<wl, ws, pin, service, proc, alive, starts>>, rowFact' \in FactPhase,
           rec[e].claimed, x.claimed, EndOK(e)', x = rec[e] \/ ~executionSettled(rec[e])
    PROVE  /\ RecordsOK' /\ ProducerOK' /\ ExecutionsOK'
           /\ Claimed \subseteq Claimed' /\ Carried
           /\ DispOK(disp, Claimed', service')
           /\ scan' = scan => ScanOK'
<1>1. rec \in [Executions -> ExecutionRecord] /\ pin \in [Executions -> {"none", "pinned", "released"}]
  BY DEF DispatchInv, RecordsOK
<1>2. Owner' = Owner
  BY DEF Owner
<1>3. ASSUME NEW f \in Executions
      PROVE  (rec[f].claimed => rec'[f].claimed) /\ EndOK(f)' /\ PinOK(f)'
  <2>1. EndOK(f) /\ PinOK(f)
    BY DEF DispatchInv, ExecutionsOK
  <2>2. CASE f # e
    <3>1. rec'[f] = rec[f] /\ Plain(rec[f], rec[f])
      BY <1>1, <2>2, RecordSound, SoundIsPlain
    <3> QED
      BY <2>1, <3>1, EndStays, PinStays
  <2>3. CASE f = e
    <3>1. rec'[f] = x
      BY <1>1, <2>3
    <3>2. PinOK(f)'
      BY <1>2, <2>1, <2>3, <3>1 DEF PinOK, executionSettled
    <3> QED
      BY <2>3, <3>1, <3>2
  <2> QED
    BY <2>2, <2>3
<1> QED
  BY <1>1, <1>3, RowsTyped, SettlingStep

\* A service's end, or its refusal, is recorded by the task that got it.
LEMMA RelayedEnd ==
    ASSUME DispatchInv, NEW e \in Executions, UNCHANGED wl, UNCHANGED <<service, proc>>, Owner # "process",
           NEW phase \in {"terminal", "canceled"}, NEW outcome \in {Null, "done", "refused"}, NEW n,
           canReconcile /\ outcome # "refused" => service[e] = phase,
           outcome = "refused" => phase = "terminal",
           rec'[e] = observeExecution(ws, rec[e], phase, outcome, n).rec, rec[e].claimed
    PROVE  /\ observeExecution(ws, rec[e], phase, outcome, n).rec \in ExecutionRecord
           /\ observeExecution(ws, rec[e], phase, outcome, n).rec.claimed
           /\ EndOK(e)'
           /\ \/ observeExecution(ws, rec[e], phase, outcome, n).rec = rec[e]
              \/ ~executionSettled(rec[e])
<1> DEFINE x == observeExecution(ws, rec[e], phase, outcome, n).rec
<1>1. \/ x = rec[e]
      \/ ~executionSettled(rec[e]) /\ x = [rec[e] EXCEPT !.phase = phase, !.outcome = outcome]
  BY DEF observeExecution
<1>2. rec[e] \in ExecutionRecord /\ rec'[e] = x /\ EndOK(e)
  BY RowsTyped DEF DispatchInv, ExecutionsOK
<1> HIDE DEF x
<1>3. Owner' = Owner /\ canReconcile' = canReconcile
  BY DEF Owner, canReconcile
<1> DEFINE y == [rec[e] EXCEPT !.phase = phase, !.outcome = outcome]
<1>6. y \in ExecutionRecord /\ y.claimed = rec[e].claimed /\ y.phase = phase /\ y.outcome = outcome
  BY <1>2 DEF ExecutionRecord, ExecutionPhase
<1> HIDE DEF y
<1>4. x \in ExecutionRecord /\ x.claimed
  BY <1>1, <1>2, <1>6 DEF y
<1>5. EndOK(e)'
  <2>1. CASE x = rec[e]
    BY <1>2, <2>1, RecordSound, SoundIsPlain, EndStays
  <2>2. CASE x.phase = phase /\ x.outcome = outcome
    BY <1>2, <1>3, <1>4, <2>2 DEF EndOK, executionSettled
  <2> QED
    BY <1>1, <1>6, <2>1, <2>2 DEF y
<1> QED
  BY <1>1, <1>4, <1>5 DEF x

LEMMA RefusedKeeps ==
    ASSUME DispatchInv, NEW e \in Executions, NEW l \in Lanes, settleRefused(e, l)
    PROVE  DispatchInv'
<1> DEFINE x == observeExecution(ws, rec[e], "terminal", "refused", disp.task[e][l].epoch).rec
<1>1. /\ UNCHANGED <<wl, ws, rowFact, pin, scan, service, proc, alive, starts, hub, toAgent, toServer, wire>>
      /\ disp.task[e][l].pc = "refused"
      /\ rec' = [rec EXCEPT ![e] = x] /\ Goto(e, l, "acked")
  BY DEF settleRefused, Quiet, producer, network, TaskAt
<1>2. e \in Claimed /\ rec[e].claimed /\ Owner # "process"
  BY <1>1, TaskTyped DEF TaskOK, Engaged, Relayed, Claimed
<1>3. x \in ExecutionRecord /\ x.claimed /\ EndOK(e)' /\ (x = rec[e] \/ ~executionSettled(rec[e]))
  <2>1. rec'[e] = x
    BY <1>1, RowsTyped
  <2> QED
    BY <1>1, <1>2, <2>1, RelayedEnd
<1> HIDE DEF x
<1>4. /\ RecordsOK' /\ ProducerOK' /\ ExecutionsOK' /\ Claimed \subseteq Claimed' /\ Carried
      /\ DispOK(disp, Claimed', service') /\ ScanOK'
  BY <1>1, <1>2, <1>3, RowsTyped, OneSettles
<1>5. DispOK(disp', Claimed', service')
  BY <1>1, <1>2, <1>4, GotoKeeps DEF PCs, Relayed
<1> QED
  BY <1>1, <1>4, <1>5, RowsTyped, NetworkStays, Together

LEMMA FinalizeKeeps ==
    ASSUME DispatchInv, NEW e \in Executions, NEW l \in Lanes, finalizeServiceExecution(e, l)
    PROVE  DispatchInv'
<1>1. /\ UNCHANGED <<wl, ws, rowFact, scan, service, proc, alive, starts, hub, toAgent, toServer, wire>>
      /\ disp.task[e][l].pc = "finalize"
      /\ \/ /\ mayFinalize(rec[e])
            /\ rec' = [rec EXCEPT ![e] = finalizeExecution(@)]
            /\ pin' = [pin EXCEPT ![e] = "released"]
         \/ UNCHANGED <<rec, pin>>
      /\ disp' \in Ended(disp, e, l) \/ disp' \in Ended(Unwait(disp, e), e, l)
  BY DEF finalizeServiceExecution, Quiet, producer, network, TaskAt, End, Returned
<1>2. Owner # "process" /\ Owner' = Owner
  BY <1>1, TaskTyped DEF TaskOK, Relayed, Owner
<1>3. rec \in [Executions -> ExecutionRecord] /\ pin \in [Executions -> {"none", "pinned", "released"}]
  BY DEF DispatchInv, RecordsOK
<1>4. /\ RecordsOK' /\ ProducerOK' /\ ExecutionsOK' /\ Carried
      /\ DispOK(disp, Claimed', service') /\ ScanOK'
  <2>1. CASE UNCHANGED <<rec, pin>>
    BY <1>1, <2>1, NonePlain, RowsTyped, CalmStep
  <2>2. CASE /\ mayFinalize(rec[e])
             /\ rec' = [rec EXCEPT ![e] = finalizeExecution(@)]
             /\ pin' = [pin EXCEPT ![e] = "released"]
    <3>1. Plain(rec[e], finalizeExecution(rec[e])) /\ finalizeExecution(rec[e]).phase = rec[e].phase
      BY <1>3, RecordSound, StampPlain DEF finalizeExecution, ExecutionRecord
    <3>2. /\ rec' \in [Executions -> ExecutionRecord]
          /\ \A f \in Executions : Plain(rec[f], rec'[f])
      BY <2>2, <3>1, OnePlain
    <3>3. pin' \in [Executions -> {"none", "pinned", "released"}]
      BY <1>3, <2>2
    <3>4. ASSUME NEW f \in Executions
          PROVE  (rec[f].claimed => rec'[f].claimed) /\ EndOK(f)' /\ PinOK(f)'
      <4>1. EndOK(f) /\ PinOK(f)
        BY DEF DispatchInv, ExecutionsOK
      <4>2. EndOK(f)' /\ (rec[f].claimed => rec'[f].claimed)
        BY <1>1, <3>2, <4>1, EndStays DEF Plain
      <4>3. CASE f = e
        <5>1. rec'[e].phase \in {"terminal", "canceled"}
          BY <1>3, <2>2, <3>1 DEF mayFinalize, executionSettled
        <5> QED
          BY <1>2, <4>2, <4>3, <5>1 DEF PinOK
      <4>4. CASE f # e
        <5>1. rec'[f] = rec[f] /\ pin'[f] = pin[f]
          BY <1>3, <2>2, <4>4
        <5> QED
          BY <1>2, <4>1, <4>2, <5>1 DEF PinOK
      <4> QED
        BY <4>3, <4>4
    <3> QED
      BY <1>1, <3>2, <3>3, <3>4, RowsTyped, SettlingStep
  <2> QED
    BY <1>1, <2>1, <2>2
<1>5. DispOK(Unwait(disp, e), Claimed', service')
  BY <1>4, SetWaits DEF Unwait, DispOK, DispType
<1>6. DispOK(disp', Claimed', service')
  BY <1>1, <1>4, <1>5, EndedKeeps
<1> QED
  BY <1>1, <1>4, <1>6, RowsTyped, NetworkStays, Together

LEMMA ObserveKeeps ==
    ASSUME DispatchInv, NEW e \in Executions, NEW l \in Lanes, observe(e, l)
    PROVE  DispatchInv'
<1> DEFINE t == disp.task[e][l]
           outcome == IF t.reply = "terminal" THEN "done" ELSE Null
           x == observeExecution(ws, rec[e], t.reply, outcome, t.epoch).rec
           heard == [disp EXCEPT !.task[e][l].reply = Null]
<1>1. /\ UNCHANGED <<wl, ws, rowFact, pin, scan, service, proc, alive, starts>>
      /\ t.pc = "observe"
      /\ rec' = IF t.reply \in {"running", "terminal", "canceled"} THEN [rec EXCEPT ![e] = x] ELSE rec
  BY DEF observe, Quiet, producer, TaskAt
<1>2. \/ Transmit(heard, e, l, "ack")
      \/ Transmit(Asking(disp, e, l, "refused"), e, l, "lookup")
      \/ /\ Goto(e, l, "acked") \/ Goto(e, l, "refused") \/ Goto(e, l, "replay")
         /\ UNCHANGED network
      \/ disp' \in Ended(disp, e, l) /\ UNCHANGED network
      \/ disp' \in Ended(Unwait(disp, e), e, l) /\ UNCHANGED network
  <2> DEFINE next == CASE t.reply = "acked" -> "acked"
                       [] t.reply = "refused" /\ ~canReconcile -> "refused"
                       [] t.reply = "absent" /\ t.act = "refused" -> "refused"
                       [] t.reply = "absent" /\ t.act = "lookup" -> "replay"
                       [] OTHER -> "over"
  <2>1. next \in {"acked", "refused", "replay", "over"}
    OBVIOUS
  <2>2. Returned(e, l) => disp' \in Ended(disp, e, l) \/ disp' \in Ended(Unwait(disp, e), e, l)
    BY DEF Returned
  <2>3. \/ Transmit(heard, e, l, "ack")
        \/ Transmit(Asking(disp, e, l, "refused"), e, l, "lookup")
        \/ next # "over" /\ Goto(e, l, next) /\ UNCHANGED network
        \/ End(e, l) /\ UNCHANGED network
        \/ Returned(e, l) /\ UNCHANGED network
    BY Zenon DEF observe
  <2> HIDE DEF next
  <2> QED
    BY <2>1, <2>2, <2>3 DEF End
<1>3. /\ t \in TaskType /\ TaskOK(e, t, Claimed, service)
      /\ e \in Claimed /\ rec[e].claimed /\ Owner # "process"
  BY <1>1, TaskTyped DEF TaskOK, Engaged, Relayed, Claimed
<1> HIDE DEF t
<1>4. /\ RecordsOK' /\ ProducerOK' /\ ExecutionsOK' /\ Claimed \subseteq Claimed' /\ Carried
      /\ DispOK(disp, Claimed', service') /\ ScanOK'
  <2>1. CASE t.reply \notin {"running", "terminal", "canceled"}
    BY <1>1, <2>1, NonePlain, RowsTyped, CalmStep
  <2>2. CASE t.reply = "running"
    <3>1. Plain(rec[e], x)
      BY <2>2, RecordSound, ObservePlain
    <3> HIDE DEF x
    <3> QED
      BY <1>1, <2>2, <3>1, OnePlain, RowsTyped, CalmStep
  <2>3. CASE t.reply \in {"terminal", "canceled"}
    <3>1. outcome \in {Null, "done"} /\ outcome # "refused" /\ (canReconcile => service[e] = t.reply)
      BY <1>1, <1>3, <2>3 DEF TaskOK, Null
    <3> HIDE DEF outcome
    <3>2. rec' = [rec EXCEPT ![e] = x]
      BY <1>1, <2>3
    <3>3. x \in ExecutionRecord /\ x.claimed /\ EndOK(e)' /\ (x = rec[e] \/ ~executionSettled(rec[e]))
      <4>1. /\ t.reply \in {"terminal", "canceled"} /\ outcome \in {Null, "done", "refused"}
            /\ canReconcile /\ outcome # "refused" => service[e] = t.reply
            /\ outcome = "refused" => t.reply = "terminal"
            /\ UNCHANGED wl /\ UNCHANGED <<service, proc>>
        BY <1>1, <2>3, <3>1
      <4>2. rec'[e] = x
        BY <3>2, RowsTyped
      <4> QED
        BY <1>3, <4>1, <4>2, RelayedEnd
    <3> HIDE DEF x
    <3> QED
      BY <1>1, <1>3, <3>2, <3>3, RowsTyped, OneSettles
  <2> QED
    BY <2>1, <2>2, <2>3
<1>5. e \in Claimed'
  BY <1>3, <1>4
<1>6. DispOK(heard, Claimed', service')
  <2> DEFINE u == [t EXCEPT !.reply = Null]
  <2>1. u \in TaskType /\ u.pc = t.pc /\ u.snap = t.snap /\ u.reply = Null
    BY <1>3 DEF TaskType
  <2>2. heard = [disp EXCEPT !.task[e][l] = u]
    BY DEF t
  <2> HIDE DEF u, heard
  <2>3. TaskOK(e, u, Claimed', service')
    BY <1>1, <1>3, <1>5, <2>1 DEF TaskOK, Null
  <2> QED
    BY <1>4, <2>1, <2>2, <2>3, SetTask
<1> HIDE DEF heard
<1>7. DispOK(Asking(disp, e, l, "refused"), Claimed', service')
  BY <1>4, AskingKeeps
<1>8. DispOK(Unwait(disp, e), Claimed', service')
  BY <1>4, SetWaits DEF Unwait, DispOK, DispType
<1>9. CASE Transmit(heard, e, l, "ack")
  BY <1>1, <1>4, <1>5, <1>6, <1>9, RowsTyped, TransmitKeeps, Together DEF Act
<1>10. CASE Transmit(Asking(disp, e, l, "refused"), e, l, "lookup")
  BY <1>1, <1>4, <1>5, <1>7, <1>10, RowsTyped, TransmitKeeps, Together DEF Act
<1>11. CASE UNCHANGED network /\ (Goto(e, l, "acked") \/ Goto(e, l, "refused") \/ Goto(e, l, "replay"))
  <2>1. DispOK(disp', Claimed', service')
    BY <1>3, <1>4, <1>5, <1>11, GotoKeeps DEF PCs
  <2> QED
    BY <1>1, <1>4, <1>11, <2>1, RowsTyped, NetworkStays, Together DEF network
<1>12. CASE UNCHANGED network /\ (disp' \in Ended(disp, e, l) \/ disp' \in Ended(Unwait(disp, e), e, l))
  <2>1. DispOK(disp', Claimed', service')
    BY <1>4, <1>8, <1>12, EndedKeeps
  <2> QED
    BY <1>1, <1>4, <1>12, <2>1, RowsTyped, NetworkStays, Together DEF network
<1> QED
  BY <1>2, <1>9, <1>10, <1>11, <1>12

--------------------------------------------------------------------------------
(* The API and the scans.                                                  *)

LEMMA AcceptKeeps ==
    ASSUME DispatchInv, NEW e \in Executions, acceptExecution(e)
    PROVE  DispatchInv'
<1>1. /\ UNCHANGED <<wl, ws, rowFact, disp, scan, service, proc, alive, starts, hub, toAgent, toServer, wire>>
      /\ rec[e].phase = "none"
      /\ rec' = [rec EXCEPT ![e] = acceptedRecord] /\ pin' = [pin EXCEPT ![e] = "pinned"]
  BY DEF acceptExecution, network, producer
<1>2. rec \in [Executions -> ExecutionRecord] /\ pin \in [Executions -> {"none", "pinned", "released"}]
  BY DEF DispatchInv, RecordsOK
<1>3. /\ acceptedRecord \in ExecutionRecord /\ acceptedRecord.phase = "accepted"
      /\ ~acceptedRecord.claimed /\ ~acceptedRecord.cancel
  BY DEF acceptedRecord, NoRecord, ExecutionRecord, ExecutionPhase
<1>4. /\ rec' \in [Executions -> ExecutionRecord] /\ rec'[e] = acceptedRecord
      /\ pin' \in [Executions -> {"none", "pinned", "released"}] /\ pin'[e] = "pinned"
      /\ \A f \in Executions \ {e} : rec'[f] = rec[f] /\ pin'[f] = pin[f]
  BY <1>1, <1>2, <1>3
<1>5. Owner' = Owner
  BY <1>1 DEF Owner
<1>6. ASSUME NEW f \in Executions
      PROVE  (rec[f].claimed => rec'[f].claimed) /\ EndOK(f)' /\ PinOK(f)'
  <2>1. EndOK(f) /\ PinOK(f)
    BY DEF DispatchInv, ExecutionsOK
  <2>2. CASE f = e
    BY <1>1, <1>3, <1>4, <2>1, <2>2 DEF EndOK, PinOK
  <2>3. CASE f # e
    <3>1. rec'[f] = rec[f] /\ pin'[f] = pin[f] /\ Plain(rec[f], rec[f])
      BY <1>4, <2>3, RecordSound, SoundIsPlain
    <3> QED
      BY <1>1, <1>5, <2>1, <3>1, EndStays DEF PinOK
  <2> QED
    BY <2>2, <2>3
<1>7. /\ RecordsOK' /\ ProducerOK' /\ ExecutionsOK' /\ Carried /\ ScanOK'
      /\ DispOK(disp, Claimed', service')
  BY <1>1, <1>4, <1>6, RowsTyped, SettlingStep
<1> QED
  BY <1>1, <1>7, RowsTyped, NetworkStays, Together

\* Canceling ends an execution only before it was claimed, when nobody knows of it.
LEMMA CancelKeeps ==
    ASSUME DispatchInv, NEW e \in Executions, cancelRoute(e)
    PROVE  DispatchInv'
<1> DEFINE x == cancelExecution(rec[e])
           early == ~executionSettled(rec[e]) /\ ~rec[e].claimed
<1>1. /\ UNCHANGED <<wl, ws, rowFact, scan, service, proc, alive, starts, hub, toAgent, toServer, wire>>
      /\ rec[e].phase # "none" /\ rec' = [rec EXCEPT ![e] = x]
      /\ pin' = [pin EXCEPT ![e] = IF early THEN "released" ELSE @]
      /\ disp' = startCancel(disp, e, rec'[e])
  BY DEF cancelRoute, network, producer
<1>2. rec \in [Executions -> ExecutionRecord] /\ pin \in [Executions -> {"none", "pinned", "released"}]
  BY DEF DispatchInv, RecordsOK
<1>3. EndOK(e) /\ PinOK(e) /\ rec[e] \in ExecutionRecord
  BY <1>2 DEF DispatchInv, ExecutionsOK
<1>4. Owner' = Owner /\ canReconcile' = canReconcile
  BY <1>1 DEF Owner, canReconcile
<1>5. \/ x = rec[e] /\ ~early
      \/ ~early /\ rec[e].claimed /\ x = [rec[e] EXCEPT !.cancel = TRUE]
      \/ early /\ x = [rec[e] EXCEPT !.cancel = TRUE, !.phase = "canceled", !.final = TRUE]
  BY <1>3 DEF cancelExecution, EndOK
<1>6. x \in ExecutionRecord /\ (rec[e].claimed => x.claimed)
  BY <1>3, <1>5 DEF ExecutionRecord, ExecutionPhase
<1>7. /\ ~early => /\ x.phase = rec[e].phase /\ x.outcome = rec[e].outcome /\ x.claimed = rec[e].claimed
                   /\ x.final = rec[e].final /\ (x.cancel => rec[e].cancel \/ rec[e].claimed)
      /\ early => x.phase = "canceled" /\ ~x.claimed /\ x.final
  BY <1>3, <1>5 DEF ExecutionRecord
<1> HIDE DEF x
<1>8. /\ rec' \in [Executions -> ExecutionRecord] /\ rec'[e] = x
      /\ pin' \in [Executions -> {"none", "pinned", "released"}]
      /\ pin'[e] = IF early THEN "released" ELSE pin[e]
      /\ \A f \in Executions \ {e} : rec'[f] = rec[f] /\ pin'[f] = pin[f]
  BY <1>1, <1>2, <1>6
<1>9. ASSUME NEW f \in Executions
      PROVE  (rec[f].claimed => rec'[f].claimed) /\ EndOK(f)' /\ PinOK(f)'
  <2>1. EndOK(f) /\ PinOK(f)
    BY DEF DispatchInv, ExecutionsOK
  <2>2. CASE f = e
    <3>1. EndOK(e)'
      BY <1>1, <1>3, <1>4, <1>7, <1>8 DEF EndOK, executionSettled
    <3>2. PinOK(e)'
      BY <1>3, <1>4, <1>7, <1>8 DEF PinOK
    <3> QED
      BY <1>6, <1>8, <2>2, <3>1, <3>2
  <2>3. CASE f # e
    <3>1. rec'[f] = rec[f] /\ pin'[f] = pin[f] /\ Plain(rec[f], rec[f])
      BY <1>8, <2>3, RecordSound, SoundIsPlain
    <3> QED
      BY <1>1, <1>4, <2>1, <3>1, EndStays DEF PinOK
  <2> QED
    BY <2>2, <2>3
<1>10. /\ RecordsOK' /\ ProducerOK' /\ ExecutionsOK' /\ Carried /\ ScanOK'
       /\ DispOK(disp, Claimed', service')
  BY <1>1, <1>8, <1>9, RowsTyped, SettlingStep
<1>11. DispOK(disp', Claimed', service')
  BY <1>1, <1>6, <1>8, <1>10, StartCancelKeeps DEF Claimed
<1> QED
  BY <1>1, <1>10, <1>11, RowsTyped, NetworkStays, Together

LEMMA SnapshotTyped ==
    ASSUME NEW r \in ExecutionRecord
    PROVE  Snapshot(r) \in SnapshotType /\ Snapshot(r).settled = executionSettled(r)
  BY DEF Snapshot, SnapshotType, ExecutionRecord, executionSettled, cancelPending, needsAcknowledgment

LEMMA ScanReadKeeps ==
    ASSUME DispatchInv, scanRead
    PROVE  DispatchInv'
<1> DEFINE n(e) == [on |-> TRUE, snap |-> Snapshot(rec[e]), absent |-> 0]
<1>1. /\ UNCHANGED <<wl, ws, rec, pin, rowFact, disp, service, proc, alive, starts, hub, toAgent, toServer, wire>>
      /\ scan' = [on |-> TRUE,
                  list |-> [e \in Executions |-> IF pending(rec[e], Owner) THEN n(e) ELSE NoEntry]]
  BY DEF scanRead, durable, network, producer
<1>2. ASSUME NEW e \in Executions, pending(rec[e], Owner)
      PROVE  n(e) \in EntryType /\ EntryOK(e, n(e), Claimed')
  <2>1. rec[e] \in ExecutionRecord /\ EndOK(e)
    BY RowsTyped DEF DispatchInv, ExecutionsOK
  <2>2. executionSettled(rec[e]) => rec[e].claimed
    BY <1>2, <2>1 DEF pending, needsAcknowledgment, EndOK
  <2>3. n(e) \in EntryType /\ n(e).snap.settled = executionSettled(rec[e])
    BY <2>1, SnapshotTyped DEF EntryType
  <2> QED
    BY <1>1, <2>2, <2>3 DEF EntryOK, Claimed
<1> HIDE DEF n
<1>3. ScanOK'
  BY <1>1, <1>2, NoEntryOK DEF ScanOK
<1>4. /\ RecordsOK' /\ ProducerOK' /\ ExecutionsOK' /\ Carried
      /\ DispOK(disp, Claimed', service')
  <2>1. \A e \in Executions : (rec[e].claimed => rec'[e].claimed) /\ EndOK(e)' /\ PinOK(e)'
    BY <1>1, RecordSound, SoundIsPlain, EndStays, PinStays DEF DispatchInv, ExecutionsOK
  <2> QED
    BY <1>1, <2>1, RowsTyped, SettlingStep DEF DispatchInv, RecordsOK
<1> QED
  BY <1>1, <1>3, <1>4, RowsTyped, NetworkStays, Together

\* What a scan puts into the dispatcher's memory.
Scanned(d, W, list, urgent, fresh) ==
    [d EXCEPT !.waits = W,
              !.task = [e \in Executions |->
                          IF e \in urgent /\ @[e]["control"] = Idle
                          THEN [@[e] EXCEPT !["control"] = Started(list[e].snap, 0)] ELSE @[e]],
              !.queued = [e \in Executions |-> IF e \in fresh THEN list[e] ELSE @[e]]]

LEMMA QueuedKeeps ==
    ASSUME NEW C, NEW S, NEW d, DispOK(d, C, S), NEW W \in SUBSET Executions,
           NEW list \in [Executions -> EntryType], \A e \in Executions : EntryOK(e, list[e], C),
           NEW urgent, NEW fresh
    PROVE  DispOK(Scanned(d, W, list, urgent, fresh), C, S)
<1> DEFINE st(e) == Started(list[e].snap, 0)
           q == [e \in Executions |-> IF e \in fresh THEN list[e] ELSE d.queued[e]]
           k == [e \in Executions |-> IF e \in urgent /\ d.task[e]["control"] = Idle
                                      THEN [d.task[e] EXCEPT !["control"] = st(e)] ELSE d.task[e]]
           x == [d EXCEPT !.waits = W, !.task = k, !.queued = q]
<1>1. ASSUME NEW e \in Executions PROVE st(e) \in TaskType /\ TaskOK(e, st(e), C, S)
  BY StartedOK DEF EntryOK, EntryType
<1>2. /\ d.task \in [Executions -> [Lanes -> TaskType]]
      /\ d.queued \in [Executions -> EntryType]
      /\ \A e \in Executions, l \in Lanes : TaskOK(e, d.task[e][l], C, S)
      /\ \A e \in Executions : EntryOK(e, d.queued[e], C)
  BY DEF DispOK, DispType
<1> HIDE DEF st
<1>3. /\ q \in [Executions -> EntryType]
      /\ \A e \in Executions : EntryOK(e, q[e], C)
  BY <1>2
<1>4. k \in [Executions -> [Lanes -> TaskType]]
  BY <1>1, <1>2, LaneMembers
<1>5. \A e \in Executions, l \in Lanes : TaskOK(e, k[e][l], C, S)
  BY <1>1, <1>2, LaneMembers
<1> HIDE DEF q, k
<1>6. x \in DispType /\ x.queued = q /\ x.task = k
  BY <1>3, <1>4 DEF DispOK, DispType
<1>7. DispOK(x, C, S)
  BY <1>3, <1>5, <1>6 DEF DispOK
<1> QED
  BY <1>7 DEF Scanned, x, q, k, st

LEMMA ScanQueueKeeps ==
    ASSUME DispatchInv, scanQueue
    PROVE  DispatchInv'
<1> DEFINE listed == {e \in Executions : scan.list[e].on}
           control == {e \in listed : scan.list[e].snap.control}
           busy(e) == disp.queued[e].on \/ \E l \in Lanes : disp.task[e][l] # Idle
<1>1. /\ UNCHANGED <<wl, ws, rec, pin, rowFact, service, proc, alive, starts, hub, toAgent, toServer, wire>>
      /\ scan' = NoScan
  BY DEF scanQueue, durable, network, producer
<1>2. Claimed' = Claimed
  BY <1>1 DEF Claimed
<1>3. ScanOK'
  BY <1>1, NoEntryOK DEF ScanOK, NoScan, NoEntries
<1>4. /\ RecordsOK' /\ ProducerOK' /\ ExecutionsOK' /\ Carried
      /\ DispOK(disp, Claimed', service')
  <2>1. \A e \in Executions : (rec[e].claimed => rec'[e].claimed) /\ EndOK(e)' /\ PinOK(e)'
    BY <1>1, RecordSound, SoundIsPlain, EndStays, PinStays DEF DispatchInv, ExecutionsOK
  <2> QED
    BY <1>1, <2>1, RowsTyped, SettlingStep DEF DispatchInv, RecordsOK
<1>5. CASE disp' = disp
  BY <1>1, <1>3, <1>4, <1>5, RowsTyped, NetworkStays, Together
<1>6. CASE disp' # disp
  <2>1. PICK due \in SUBSET listed :
              disp' \in pump(
                 [disp EXCEPT
                    !.waits = @ \cap listed,
                    !.task = [e \in Executions |->
                                IF e \in control \cap due /\ @[e]["control"] = Idle
                                THEN [@[e] EXCEPT !["control"] = Started(scan.list[e].snap, 0)] ELSE @[e]],
                    !.queued = [e \in Executions |->
                                  IF e \in due \ control /\ ~busy(e) THEN scan.list[e] ELSE @[e]]])
    BY <1>6, Zenon DEF scanQueue
  <2>2. PICK urgent, fresh : urgent = control \cap due /\ fresh = {e \in due \ control : ~busy(e)}
    OBVIOUS
  <2> DEFINE W == disp.waits \cap listed
             list == scan.list
             x == Scanned(disp, W, list, urgent, fresh)
  <2>3. disp' \in pump(x)
    BY <2>1, <2>2 DEF Scanned
  <2>4. W \in SUBSET Executions /\ list \in [Executions -> EntryType]
        /\ \A e \in Executions : EntryOK(e, list[e], Claimed')
    BY <1>2, <1>4 DEF DispatchInv, ScanOK, DispOK, DispType
  <2> HIDE DEF W, list, listed, control, busy
  <2>5. DispOK(x, Claimed', service')
    BY <1>4, <2>4, QueuedKeeps
  <2> HIDE DEF x
  <2>6. DispOK(disp', Claimed', service')
    BY <2>3, <2>5, PumpKeeps
  <2> QED
    BY <1>1, <1>3, <1>4, <2>6, RowsTyped, NetworkStays, Together
<1> QED
  BY <1>5, <1>6

--------------------------------------------------------------------------------
(* The producer.                                                           *)

LEMMA UpCounts ==
    ASSUME NEW n \in 0 .. 2
    PROVE  Up(n) \in 0 .. 2 /\ (n = 0 => Up(n) = 1)
<1> DEFINE P(x) == x \in {n + 1, 2} /\ \A y \in {n + 1, 2} : x <= y
<1>1. Up(n) = CHOOSE x \in {n + 1, 2} : \A y \in {n + 1, 2} : x <= y
  BY DEF Up, Min
<1>2. \E x \in {n + 1, 2} : \A y \in {n + 1, 2} : x <= y
  <2>1. CASE n + 1 <= 2
    BY <2>1
  <2>2. CASE ~(n + 1 <= 2)
    BY <2>2
  <2> QED
    BY <2>1, <2>2
<1>3. Up(n) \in {n + 1, 2} /\ \A y \in {n + 1, 2} : Up(n) <= y
  BY <1>1, <1>2
<1> QED
  BY <1>3

\* The records stay and the producer moves.
LEMMA ProducerStep ==
    ASSUME DispatchInv, UNCHANGED <<wl, ws, rec, pin, rowFact, scan>>,
           ProducerOK', NetworkOK', \A e \in Executions : EndOK(e)' /\ StartOK(e)',
           DispOK(disp', Claimed', service')
    PROVE  DispatchInv'
<1>1. RecordsOK' /\ ScanOK' /\ Owner' = Owner
  BY DEF DispatchInv, RecordsOK, ScanOK, EntryOK, Claimed, Owner
<1>2. ExecutionsOK'
  BY <1>1 DEF DispatchInv, ExecutionsOK, PinOK
<1> QED
  BY <1>1, <1>2, Together

\* A service that can be reconciled keeps its ends, answers with what it knows, and starts only what it does not know.
LEMMA AnswersTrue ==
    ASSUME ProducerOK, NEW e \in Executions, NEW act \in Act, NEW a \in Answers(e, act)
    PROVE  /\ a[1] \in Reply3 /\ a[2] \in Reply3 \cup {"refused", "acked"}
           /\ canReconcile =>
                 /\ service[e] \in {"terminal", "canceled"} => a[1] = service[e]
                 /\ a[2] \in {"terminal", "canceled"} => a[1] = a[2]
                 /\ a[1] = "absent" => service[e] = "absent"
                 /\ service[e] = "absent" /\ act = "accept" /\ a[2] = "running" => a[1] = "running"
                 /\ service[e] = "absent" /\ ~(act = "accept" /\ a[2] = "running") => a[1] # "running"
<1>1. service[e] \in Reply3
  BY DEF ProducerOK
<1>2. CASE act = "accept" /\ service[e] # "absent" /\ canReconcile
  BY <1>1, <1>2 DEF Answers, Reply3
<1>3. CASE act = "accept" /\ ~(service[e] # "absent" /\ canReconcile)
  BY <1>1, <1>3 DEF Answers, Reply3
<1>4. CASE act = "lookup"
  BY <1>1, <1>4 DEF Answers, Reply3
<1>5. CASE act = "cancel" /\ service[e] # "terminal" /\ canReconcile
  BY <1>1, <1>5 DEF Answers, Reply3
<1>6. CASE act = "cancel" /\ ~(service[e] # "terminal" /\ canReconcile)
  BY <1>1, <1>6 DEF Answers, Reply3
<1>7. CASE act = "ack"
  BY <1>1, <1>7 DEF Answers, Reply3
<1> QED
  BY <1>2, <1>3, <1>4, <1>5, <1>6, <1>7 DEF Act

LEMMA ServiceKeeps ==
    ASSUME DispatchInv, NEW q \in wire, serviceHandles(q)
    PROVE  DispatchInv'
<1>1. /\ UNCHANGED <<wl, ws, rec, pin, rowFact, scan, hub, toAgent, toServer, proc, alive>>
      /\ alive /\ wire' = wire \ {q}
  BY DEF serviceHandles, durable
<1>2. /\ q \in Requests /\ q.e \in Claimed /\ q.e \in Executions /\ rec[q.e].claimed /\ q.lane \in Lanes /\ q.act \in Act
      /\ Owner # "process"
  BY RowsTyped DEF NetworkOK, Requests, Claimed
<1>3. ProducerOK
  BY DEF DispatchInv
<1> DEFINE e == q.e
<1>4. PICK a \in Answers(e, q.act) :
           /\ service' = [service EXCEPT ![e] = a[1]]
           /\ starts' = IF q.act = "accept" /\ a[2] = "running" /\ ~(canReconcile /\ service[e] # "absent")
                        THEN [starts EXCEPT ![e] = Up(@)] ELSE starts
           /\ disp' = IF q.late THEN disp
                      ELSE [disp EXCEPT !.task[e][q.lane].pc = "observe", !.task[e][q.lane].reply = a[2]]
  BY DEF serviceHandles
<1>5. /\ a[1] \in Reply3 /\ a[2] \in Reply3 \cup {"refused", "acked"}
      /\ canReconcile =>
            /\ service[e] \in {"terminal", "canceled"} => a[1] = service[e]
            /\ a[2] \in {"terminal", "canceled"} => a[1] = a[2]
            /\ a[1] = "absent" => service[e] = "absent"
            /\ service[e] = "absent" /\ q.act = "accept" /\ a[2] = "running" => a[1] = "running"
            /\ service[e] = "absent" /\ ~(q.act = "accept" /\ a[2] = "running") => a[1] # "running"
  BY <1>2, <1>3, AnswersTrue
<1> HIDE DEF e
<1>6. e \in Executions /\ e \in Claimed /\ rec[e].claimed
  BY <1>2 DEF e
<1>7. /\ service \in [Executions -> Reply3] /\ starts \in [Executions -> 0 .. 2]
      /\ service'[e] = a[1] /\ service' \in [Executions -> Reply3]
      /\ \A f \in Executions \ {e} : service'[f] = service[f] /\ starts'[f] = starts[f]
  BY <1>3, <1>4, <1>5, <1>6 DEF ProducerOK
<1>8. Claimed' = Claimed /\ Owner' = Owner /\ canReconcile' = canReconcile
  BY <1>1 DEF Claimed, Owner, canReconcile
<1>9. Up(starts[e]) \in 0 .. 2 /\ (starts[e] = 0 => Up(starts[e]) = 1)
  BY <1>6, <1>7, UpCounts
<1>10. ProducerOK'
  BY <1>1, <1>2, <1>3, <1>4, <1>6, <1>7, <1>8, <1>9 DEF ProducerOK
<1>11. NetworkOK'
  <2>1. Carried
    BY <1>1, <1>8, RowsTyped, CarriedOn
  <2> QED
    BY <1>1, <1>2, <1>8, <2>1, RowsTyped DEF NetworkOK, Carried
<1>12. ASSUME NEW f \in Executions
       PROVE  EndOK(f)' /\ StartOK(f)'
  <2>1. EndOK(f) /\ StartOK(f)
    BY DEF DispatchInv, ExecutionsOK
  <2>2. CASE f # e
    BY <1>1, <1>7, <1>8, <2>1, <2>2 DEF EndOK, StartOK
  <2>3. CASE f = e
    <3>1. EndOK(e)'
      BY <1>1, <1>2, <1>5, <1>7, <1>8, <2>1, <2>3 DEF EndOK
    <3>2. ASSUME canReconcile PROVE StartOK(e)'
      <4>1. CASE q.act = "accept" /\ a[2] = "running" /\ service[e] = "absent"
        <5>1. starts[e] = 0
          BY <1>1, <1>2, <2>1, <2>3, <3>2, <4>1 DEF StartOK
        <5>2. starts'[e] = 1
          BY <1>4, <1>6, <1>7, <1>9, <4>1, <5>1
        <5>3. service'[e] = "running"
          BY <1>5, <1>7, <3>2, <4>1
        <5> QED
          BY <1>1, <1>2, <1>6, <1>8, <5>2, <5>3 DEF StartOK
      <4>2. CASE ~(q.act = "accept" /\ a[2] = "running" /\ service[e] = "absent")
        <5>1. starts'[e] = starts[e]
          BY <1>4, <3>2, <4>2
        <5> QED
          BY <1>1, <1>2, <1>5, <1>6, <1>7, <1>8, <2>1, <2>3, <3>2, <5>1 DEF StartOK
      <4> QED
        BY <4>1, <4>2
    <3>3. ASSUME ~canReconcile PROVE StartOK(e)'
      BY <1>1, <1>2, <1>6, <1>8, <3>3 DEF StartOK
    <3> QED
      BY <2>3, <3>1, <3>2, <3>3
  <2> QED
    BY <2>2, <2>3
<1>13. DispOK(disp, Claimed', service')
  <2>1. CASE canReconcile
    <3>1. \A f \in Executions : service[f] \in {"terminal", "canceled"} => service'[f] = service[f]
      BY <1>5, <1>7, <2>1
    <3> QED
      BY <1>8, <3>1, DispGrows DEF DispatchInv
  <2>2. CASE ~canReconcile
    BY <1>8, <2>2 DEF DispatchInv, DispOK, TaskOK
  <2> QED
    BY <2>1, <2>2
<1>14. DispOK(disp', Claimed', service')
  <2> DEFINE l == q.lane
             t == disp.task[e][l]
             u == [t EXCEPT !.pc = "observe", !.reply = a[2]]
  <2>1. CASE q.late
    BY <1>4, <1>13, <2>1
  <2>2. CASE ~q.late
    <3>1. t \in TaskType
      BY <1>2, <1>6, TaskTyped
    <3>2. disp' = [disp EXCEPT !.task[e][l] = u]
      BY <1>2, <1>4, <1>6, <1>13, <2>2 DEF DispOK, DispType, TaskType
    <3> HIDE DEF t
    <3>3. u \in TaskType /\ u.pc = "observe" /\ u.reply = a[2]
      BY <1>5, <3>1 DEF TaskType, PCs
    <3> HIDE DEF u
    <3>4. TaskOK(e, u, Claimed', service')
      BY <1>2, <1>5, <1>6, <1>7, <1>8, <3>3 DEF TaskOK
    <3>5. l \in Lanes
      BY <1>2
    <3> HIDE DEF l
    <3> QED
      BY <1>6, <1>13, <3>2, <3>3, <3>4, <3>5, SetTask
  <2> QED
    BY <2>1, <2>2
<1> QED
  BY <1>1, <1>10, <1>11, <1>12, <1>14, ProducerStep

LEMMA ServiceFinishKeeps ==
    ASSUME DispatchInv, NEW e \in Executions, serviceFinishes(e)
    PROVE  DispatchInv'
<1>1. /\ UNCHANGED <<wl, ws, rec, pin, rowFact, scan, disp, hub, toAgent, toServer, wire, proc, alive, starts>>
      /\ service[e] = "running" /\ service' = [service EXCEPT ![e] = "terminal"]
  BY DEF serviceFinishes, durable, network
<1>2. Claimed' = Claimed /\ Owner' = Owner /\ canReconcile' = canReconcile
  BY <1>1 DEF Claimed, Owner, canReconcile
<1>3. ProducerOK /\ service \in [Executions -> Reply3] /\ Owner # "process"
  BY <1>1 DEF DispatchInv, ProducerOK
<1>4. /\ service' \in [Executions -> Reply3] /\ service'[e] = "terminal"
      /\ \A f \in Executions \ {e} : service'[f] = service[f]
  BY <1>1, <1>3 DEF Reply3
<1>5. ProducerOK'
  BY <1>1, <1>2, <1>3, <1>4 DEF ProducerOK
<1>6. NetworkOK'
  BY <1>1, <1>2, RowsTyped, CarriedOn, NetworkStays
<1>7. ASSUME NEW f \in Executions
      PROVE  EndOK(f)' /\ StartOK(f)'
  <2>1. EndOK(f) /\ StartOK(f)
    BY DEF DispatchInv, ExecutionsOK
  <2> QED
    BY <1>1, <1>2, <1>3, <1>4, <2>1 DEF EndOK, StartOK
<1>8. DispOK(disp', Claimed', service')
  <2>1. \A f \in Executions : service[f] \in {"terminal", "canceled"} => service'[f] = service[f]
    BY <1>1, <1>4
  <2> QED
    BY <1>1, <1>2, <2>1, DispGrows DEF DispatchInv
<1> QED
  BY <1>1, <1>5, <1>6, <1>7, <1>8, ProducerStep

--------------------------------------------------------------------------------
(* The supervisor's process.                                               *)

\* What the process never takes back: the request it claimed, that its whole group ended, and the cancels it got
\* before the request they name.
ProcMoves(p, x) ==
    /\ x \in ProcType
    /\ (x.fact = "none") = (x.of = Null)
    /\ p.of # Null => x.of = p.of
    /\ p.fact = "exited" /\ p.stopped => x.fact = "exited" /\ x.stopped
    /\ p.cancellations \subseteq x.cancellations
    /\ \A e \in p.cancellations : p.of # e => x.of # e

LEMMA NullFresh == Null \notin Executions
  BY DispatchAssumption

LEMMA FramesStay ==
    ASSUME Claimed' = Claimed, ProcMoves(proc, proc')
    PROVE  Frames \subseteq Frames'
<1> SUFFICES ASSUME NEW f \in Frames
             PROVE  f \in Frames'
  OBVIOUS
<1>1. f \in FrameType /\ FrameTrue(f) /\ f.e \in Executions
  BY DEF Frames, FrameType
<1>2. f.e # Null
  BY <1>1, NullFresh
<1>3. FrameTrue(f)'
  BY <1>1, <1>2 DEF FrameTrue, ProcMoves
<1> QED
  BY <1>1, <1>3 DEF Frames

LEMMA ProcessStep ==
    ASSUME DispatchInv, UNCHANGED <<wl, rec, pin, rowFact, scan, disp, service, alive, wire>>,
           ws' \in WorkspaceType, hub' \in Nat,
           ProcMoves(proc, proc'), proc'.of # Null => proc'.of \in Claimed,
           starts' \in [Executions -> 0 .. 2],
           Owner = "process" => \A e \in Executions : starts'[e] <= 1 /\ (starts'[e] = 1 => proc'.of = e),
           Owner # "process" => toAgent' = <<>> /\ toServer' = <<>> /\ proc'.of = Null /\ starts' = starts,
           toAgent' \in Seq(Orders), toServer' \in Seq(Frames')
    PROVE  DispatchInv'
<1>1. Claimed' = Claimed /\ Owner' = Owner /\ canReconcile' = canReconcile
  BY DEF Claimed, Owner, canReconcile
<1>2. RecordsOK' /\ ScanOK'
  BY <1>1 DEF DispatchInv, RecordsOK, ScanOK, EntryOK
<1>3. ProducerOK'
  BY <1>1 DEF DispatchInv, ProducerOK, ProcMoves
<1>4. NetworkOK'
  <2>1. Orders' = Orders /\ Requests' = Requests
    BY <1>1 DEF Orders, Requests
  <2> QED
    BY <1>1, <2>1 DEF DispatchInv, NetworkOK
<1>5. ASSUME NEW e \in Executions
      PROVE  EndOK(e)' /\ PinOK(e)' /\ StartOK(e)'
  <2>1. EndOK(e) /\ PinOK(e) /\ StartOK(e) /\ e # Null
    BY NullFresh DEF DispatchInv, ExecutionsOK
  <2>2. EndOK(e)'
    BY <1>1, <2>1 DEF EndOK, ProcMoves
  <2>3. PinOK(e)'
    BY <1>1, <2>1 DEF PinOK
  <2>4. StartOK(e)'
    BY <1>1, <2>1 DEF StartOK
  <2> QED
    BY <2>2, <2>3, <2>4
<1>6. DispOK(disp', Claimed', service')
  BY <1>1 DEF DispatchInv
<1> QED
  BY <1>2, <1>3, <1>4, <1>5, <1>6, Together DEF ExecutionsOK

\* What a fact frame says of the process is still so when the frame is handled.
LEMMA ReplayTrue ==
    ASSUME NEW p \in ProcType, hub \in Nat, Claimed' = Claimed,
           p.fact # "none" => p.of \in Claimed /\ p.of = proc'.of,
           p.fact = "exited" /\ p.stopped => proc'.fact = "exited" /\ proc'.stopped
    PROVE  replay(p) \in Seq(Frames')
<1>1. CASE p.fact = "none" \/ (p.fact = "exited" /\ ~p.stopped)
  BY <1>1 DEF replay
<1>2. CASE ~(p.fact = "none" \/ (p.fact = "exited" /\ ~p.stopped))
  <2> PICK n \in Nat : n = hub
    OBVIOUS
  <2> DEFINE f == [type |-> "fact", fact |-> p.fact, e |-> p.of, epoch |-> n, stage |-> "record"]
  <2>1. replay(p) = <<f>>
    BY <1>2 DEF replay
  <2>2. f \in FrameType
    BY <1>2 DEF FrameType, ProcType, Claimed
  <2>3. FrameTrue(f)'
    BY <1>2 DEF FrameTrue, ProcType
  <2>4. f \in Frames'
    BY <2>2, <2>3 DEF Frames
  <2> HIDE DEF f
  <2> QED
    BY <2>1, <2>4
<1> QED
  BY <1>1, <1>2

LEMMA TellsProc ==
    ASSUME NEW p \in ProcType, NEW frames, Tells(p, frames)
    PROVE  /\ proc' \in ProcType /\ proc'.fact = p.fact /\ proc'.of = p.of /\ proc'.stopped = p.stopped
           /\ proc'.cancellations = p.cancellations
<1> DEFINE b == p.pending \/ \E i \in DOMAIN frames : frames[i].type = "fact" /\ frames[i].fact \in {"exited", "lost"}
<1>1. proc' = [p EXCEPT !.pending = b]
  BY DEF Tells
<1>2. b \in BOOLEAN
  OBVIOUS
<1> HIDE DEF b
<1> QED
  BY <1>1, <1>2 DEF ProcType

LEMMA TellsFrames ==
    ASSUME NEW p, NEW frames \in Seq(Frames'), Tells(p, frames), toServer \in Seq(Frames')
    PROVE  toServer' \in Seq(Frames')
  BY DEF Tells

LEMMA ProcTyped ==
    ASSUME DispatchInv
    PROVE  /\ proc \in ProcType /\ (proc.fact = "none") = (proc.of = Null)
           /\ proc.of # Null => proc.of \in Claimed
           /\ proc.fact # "none" => Owner = "process"
           /\ starts \in [Executions -> 0 .. 2]
           /\ Owner = "process" => \A e \in Executions : starts[e] <= 1 /\ (starts[e] = 1 => proc.of = e)
           /\ Owner # "process" => toAgent = <<>> /\ toServer = <<>> /\ proc.of = Null
           /\ hub \in Nat /\ toAgent \in Seq(Orders) /\ toServer \in Seq(Frames)
           /\ ProcMoves(proc, proc)
  BY DEF DispatchInv, ProducerOK, NetworkOK, ExecutionsOK, StartOK, ProcMoves

LEMMA LeaderKeeps ==
    ASSUME DispatchInv, leaderExits
    PROVE  DispatchInv'
<1>1. /\ UNCHANGED <<wl, ws, rec, pin, rowFact, scan, disp, service, alive, starts, wire, hub, toAgent, toServer>>
      /\ proc.fact = "running" /\ proc' = [proc EXCEPT !.fact = "exited"]
  BY DEF leaderExits, durable, network
<1>2. ProcMoves(proc, proc') /\ proc'.of = proc.of
  BY <1>1, ProcTyped DEF ProcMoves, ProcType, FactPhase
<1>3. toServer' \in Seq(Frames')
  <2>1. Claimed' = Claimed
    BY <1>1 DEF Claimed
  <2> QED
    BY <1>1, <1>2, <2>1, ProcTyped, FramesStay
<1> QED
  BY <1>1, <1>2, <1>3, ProcTyped, RowsTyped, ProcessStep

LEMMA GroupKeeps ==
    ASSUME DispatchInv, groupStops
    PROVE  DispatchInv'
<1> DEFINE after == [proc EXCEPT !.stopped = TRUE]
<1>1. /\ UNCHANGED <<wl, ws, rec, pin, rowFact, scan, disp, service, alive, starts, wire, hub, toAgent>>
      /\ proc.fact = "exited" /\ Tells(after, replay(after))
  BY DEF groupStops, durable
<1>2. /\ after \in ProcType /\ after.fact = "exited" /\ after.stopped /\ after.of = proc.of
      /\ after.cancellations = proc.cancellations
  BY <1>1, ProcTyped DEF ProcType
<1> HIDE DEF after
<1>3. Claimed' = Claimed
  BY <1>1 DEF Claimed
<1>4. /\ proc' \in ProcType /\ proc'.fact = "exited" /\ proc'.of = proc.of /\ proc'.stopped
      /\ proc'.cancellations = proc.cancellations
  BY <1>1, <1>2, TellsProc
<1>5. ProcMoves(proc, proc')
  BY <1>1, <1>4, ProcTyped DEF ProcMoves
<1>6. toServer \in Seq(Frames')
  BY <1>3, <1>5, ProcTyped, FramesStay
<1>7. replay(after) \in Seq(Frames')
  BY <1>1, <1>2, <1>3, <1>4, ProcTyped, ReplayTrue
<1>8. toServer' \in Seq(Frames')
  BY <1>1, <1>6, <1>7, TellsFrames
<1> QED
  BY <1>1, <1>4, <1>5, <1>8, ProcTyped, RowsTyped, ProcessStep

LEMMA ResendKeeps ==
    ASSUME DispatchInv, resend
    PROVE  DispatchInv'
<1>1. /\ UNCHANGED <<wl, ws, rec, pin, rowFact, scan, disp, service, alive, starts, wire, hub, toAgent>>
      /\ Tells(proc, replay(proc))
  BY DEF resend, durable
<1>2. Claimed' = Claimed
  BY <1>1 DEF Claimed
<1>3. /\ proc' \in ProcType /\ proc'.fact = proc.fact /\ proc'.of = proc.of /\ proc'.stopped = proc.stopped
      /\ proc'.cancellations = proc.cancellations
  BY <1>1, ProcTyped, TellsProc
<1>4. ProcMoves(proc, proc')
  BY <1>3, ProcTyped DEF ProcMoves
<1>5. toServer \in Seq(Frames')
  BY <1>2, <1>4, ProcTyped, FramesStay
<1>6. replay(proc) \in Seq(Frames')
  BY <1>2, <1>3, ProcTyped, ReplayTrue
<1>7. toServer' \in Seq(Frames')
  BY <1>1, <1>5, <1>6, TellsFrames
<1>8. Owner # "process" => toServer' = <<>>
  BY <1>1, ProcTyped DEF Tells, replay
<1> QED
  BY <1>1, <1>3, <1>4, <1>7, <1>8, ProcTyped, RowsTyped, ProcessStep

LEMMA ReplyTrue ==
    ASSUME NEW type \in {"absent", "cancel-terminal", "cancel-requested", "cancel-canceled"}, NEW e \in Claimed,
           Claimed' = Claimed, hub \in Nat,
           type = "cancel-canceled" => e \in proc'.cancellations /\ proc'.of # e
    PROVE  Reply(type, e) \in Seq(Frames')
<1> PICK n \in Nat : n = hub
  OBVIOUS
<1> DEFINE f == [type |-> type, fact |-> "none", e |-> e, epoch |-> n, stage |-> "record"]
<1>1. Reply(type, e) = <<f>>
  BY DEF Reply
<1>2. f \in FrameType
  BY DEF FrameType, FactPhase, Claimed
<1>3. FrameTrue(f)'
  BY DEF FrameTrue
<1>4. f \in Frames'
  BY <1>2, <1>3 DEF Frames
<1> HIDE DEF f
<1> QED
  BY <1>1, <1>4

\* What the supervisor does on a frame of the controller.
Handled(e) ==
    /\ ProcMoves(proc, proc') /\ (proc'.of # Null => proc'.of \in Claimed)
    /\ starts' \in [Executions -> 0 .. 2]
    /\ \A f \in Executions : starts'[f] <= 1 /\ (starts'[f] = 1 => proc'.of = f)
    /\ toServer' \in Seq(Frames')

\* The process is told something and stays as it is but for a cancel it remembers.
LEMMA ToldOnly ==
    ASSUME DispatchInv, Owner = "process", Claimed' = Claimed, NEW e \in Executions,
           NEW p \in ProcType, p.fact = proc.fact, p.of = proc.of, p.stopped = proc.stopped,
           proc.cancellations \subseteq p.cancellations,
           NEW frames, Tells(p, frames), frames \in Seq(Frames'), UNCHANGED starts
    PROVE  Handled(e)
<1>1. /\ proc' \in ProcType /\ proc'.fact = proc.fact /\ proc'.of = proc.of /\ proc'.stopped = proc.stopped
      /\ proc'.cancellations = p.cancellations
  BY TellsProc
<1>2. ProcMoves(proc, proc')
  BY <1>1, ProcTyped DEF ProcMoves
<1>3. toServer' \in Seq(Frames')
  BY <1>2, ProcTyped, FramesStay, TellsFrames
<1> QED
  BY <1>1, <1>2, <1>3, ProcTyped DEF Handled

LEMMA StartHandled ==
    ASSUME DispatchInv, Owner = "process", Claimed' = Claimed, NEW e \in Claimed, processStart(e)
    PROVE  Handled(e)
<1>1. e \in Executions /\ e # Null
  BY NullFresh DEF Claimed
<1>2. CASE proc.fact = "none" /\ e \in proc.cancellations
  <2>1. Tells(proc, <<>>) /\ UNCHANGED starts
    BY <1>2 DEF processStart
  <2>2. <<>> \in Seq(Frames')
    OBVIOUS
  <2> QED
    BY <1>1, <2>1, <2>2, ProcTyped, ToldOnly
<1>3. CASE proc.fact = "none" /\ e \notin proc.cancellations
  <2> DEFINE claimed == [proc EXCEPT !.fact = "claimed", !.of = e]
             after(spawned) == [claimed EXCEPT !.fact = IF spawned THEN "running" ELSE "lost"]
  <2>1. PICK spawned \in BOOLEAN :
               /\ Tells(after(spawned), replay(claimed) \o replay(after(spawned)))
               /\ starts' = IF spawned THEN [starts EXCEPT ![e] = Up(@)] ELSE starts
    BY <1>3 DEF processStart
  <2> DEFINE a == after(spawned)
  <2>2. claimed \in ProcType /\ claimed.fact = "claimed" /\ claimed.of = e
    BY <1>1, ProcTyped DEF ProcType, FactPhase
  <2>3. /\ a \in ProcType /\ a.fact \in {"running", "lost"} /\ a.of = e
        /\ a.cancellations = proc.cancellations
    BY <1>1, ProcTyped DEF ProcType, FactPhase
  <2> HIDE DEF claimed, a
  <2>4. /\ proc' \in ProcType /\ proc'.fact \in {"running", "lost"} /\ proc'.of = e
        /\ proc'.cancellations = proc.cancellations
    BY <2>1, <2>3, TellsProc DEF a
  <2>5. ProcMoves(proc, proc')
    BY <1>1, <1>3, <2>4, ProcTyped DEF ProcMoves
  <2>6. replay(claimed) \in Seq(Frames') /\ replay(a) \in Seq(Frames')
    BY <2>2, <2>3, <2>4, ProcTyped, ReplayTrue
  <2>7. replay(claimed) \o replay(a) \in Seq(Frames')
    BY <2>6
  <2>8. toServer' \in Seq(Frames')
    <3>1. toServer \in Seq(Frames')
      BY <2>5, ProcTyped, FramesStay
    <3>2. Tells(a, replay(claimed) \o replay(a))
      BY <2>1 DEF a
    <3> QED
      BY <2>7, <3>1, <3>2, TellsFrames
  <2>9. \A f \in Executions : starts[f] = 0
    BY <1>3, NullFresh, ProcTyped
  <2>10. Up(0) = 1
    BY UpCounts
  <2>11. starts' \in [Executions -> 0 .. 2] /\ \A f \in Executions : starts'[f] <= 1 /\ (starts'[f] = 1 => f = e)
    BY <1>1, <2>1, <2>9, <2>10, ProcTyped
  <2> QED
    BY <2>4, <2>5, <2>8, <2>11 DEF Handled
<1>4. CASE proc.fact # "none"
  <2> DEFINE frames == IF proc.of = e THEN replay(proc) ELSE <<>>
  <2>1. Tells(proc, frames) /\ UNCHANGED starts
    BY <1>4 DEF processStart
  <2>2. /\ proc' \in ProcType /\ proc'.fact = proc.fact /\ proc'.of = proc.of /\ proc'.stopped = proc.stopped
    BY <2>1, ProcTyped, TellsProc
  <2>3. frames \in Seq(Frames')
    BY <2>2, ProcTyped, ReplayTrue
  <2> HIDE DEF frames
  <2> QED
    BY <1>1, <2>1, <2>3, ProcTyped, ToldOnly
<1> QED
  BY <1>2, <1>3, <1>4

LEMMA CancelHandled ==
    ASSUME DispatchInv, Owner = "process", Claimed' = Claimed, NEW e \in Claimed, cancelOperation(e), UNCHANGED starts
    PROVE  Handled(e)
<1> DEFINE known == proc.fact # "none" /\ proc.of = e
           over == known /\ (proc.fact = "lost" \/ (proc.fact = "exited" /\ proc.stopped))
           after == IF over THEN proc ELSE [proc EXCEPT !.cancellations = @ \cup {e}]
           type == CASE over -> "cancel-terminal" [] ~over /\ known -> "cancel-requested" [] OTHER -> "cancel-canceled"
<1>1. Tells(after, Reply(type, e) \o replay(after))
  BY DEF cancelOperation
<1>2. e \in Executions /\ e # Null
  BY NullFresh DEF Claimed
<1>3. /\ after \in ProcType /\ after.fact = proc.fact /\ after.of = proc.of /\ after.stopped = proc.stopped
      /\ proc.cancellations \subseteq after.cancellations
      /\ ~known => e \in after.cancellations
  BY <1>2, ProcTyped DEF ProcType
<1>4. type \in {"cancel-terminal", "cancel-requested", "cancel-canceled"} /\ (type = "cancel-canceled" => ~known)
  OBVIOUS
<1>5. ~known => proc.of # e
  BY <1>2, ProcTyped
<1> HIDE DEF after, type, known, over
<1>6. /\ proc' \in ProcType /\ proc'.fact = proc.fact /\ proc'.of = proc.of /\ proc'.stopped = proc.stopped
      /\ proc'.cancellations = after.cancellations
  BY <1>1, <1>3, TellsProc
<1>7. Reply(type, e) \in Seq(Frames')
  BY <1>3, <1>4, <1>5, <1>6, ProcTyped, ReplyTrue
<1>8. replay(after) \in Seq(Frames')
  BY <1>3, <1>6, ProcTyped, ReplayTrue
<1>9. Reply(type, e) \o replay(after) \in Seq(Frames')
  BY <1>7, <1>8
<1> QED
  BY <1>1, <1>2, <1>3, <1>9, ToldOnly

LEMMA HandleKeeps ==
    ASSUME DispatchInv, handle
    PROVE  DispatchInv'
<1> DEFINE f == Head(toAgent)
<1>1. /\ UNCHANGED <<wl, ws, rec, pin, rowFact, scan, disp, service, alive, wire, hub>>
      /\ toAgent # <<>> /\ toAgent' = Tail(toAgent)
  BY DEF handle, durable
<1>2. Claimed' = Claimed
  BY <1>1 DEF Claimed
<1>3. f \in Orders /\ toAgent' \in Seq(Orders) /\ Owner = "process"
  BY <1>1, ProcTyped
<1>4. f.e \in Claimed /\ f.act \in Act /\ f.e \in Executions
  BY <1>3 DEF Orders, Claimed
<1>5. CASE f.act = "accept"
  <2>1. processStart(f.e)
    BY <1>5 DEF handle
  <2> QED
    BY <1>1, <1>2, <1>3, <1>4, <2>1, StartHandled, ProcTyped, RowsTyped, ProcessStep DEF Handled
<1>6. CASE f.act = "lookup"
  <2> DEFINE frames == IF proc.fact # "none" /\ proc.of = f.e THEN replay(proc) ELSE Reply("absent", f.e)
  <2>1. Tells(proc, frames) /\ UNCHANGED starts
    BY <1>6 DEF handle
  <2>2. /\ proc' \in ProcType /\ proc'.fact = proc.fact /\ proc'.of = proc.of /\ proc'.stopped = proc.stopped
    BY <2>1, ProcTyped, TellsProc
  <2>3. replay(proc) \in Seq(Frames')
    BY <1>2, <2>2, ProcTyped, ReplayTrue
  <2>4. Reply("absent", f.e) \in Seq(Frames')
    BY <1>2, <1>4, ProcTyped, ReplyTrue
  <2>5. frames \in Seq(Frames')
    BY <2>3, <2>4
  <2> HIDE DEF frames
  <2>6. Handled(f.e)
    BY <1>2, <1>3, <1>4, <2>1, <2>5, ProcTyped, ToldOnly
  <2> QED
    BY <1>1, <1>3, <2>6, ProcTyped, RowsTyped, ProcessStep DEF Handled
<1>7. CASE f.act = "cancel"
  <2>1. cancelOperation(f.e) /\ UNCHANGED starts
    BY <1>7 DEF handle
  <2> QED
    BY <1>1, <1>2, <1>3, <1>4, <2>1, CancelHandled, ProcTyped, RowsTyped, ProcessStep DEF Handled
<1>8. CASE f.act = "ack"
  <2>1. proc' = [proc EXCEPT !.pending = FALSE] /\ UNCHANGED <<toServer, starts>>
    BY <1>8 DEF handle
  <2>2. ProcMoves(proc, proc') /\ proc'.of = proc.of
    BY <2>1, ProcTyped DEF ProcMoves, ProcType
  <2>3. toServer' \in Seq(Frames')
    BY <1>2, <2>1, <2>2, ProcTyped, FramesStay
  <2> QED
    BY <1>1, <1>3, <2>1, <2>2, <2>3, ProcTyped, RowsTyped, ProcessStep
<1> QED
  BY <1>4, <1>5, <1>6, <1>7, <1>8 DEF Act

--------------------------------------------------------------------------------
(* Frames the controller handles.                                          *)

\* The frame the controller takes next is true of the process, and so are the ones behind it.
LEMMA HeadTrue ==
    ASSUME DispatchInv, toServer # <<>>
    PROVE  /\ Owner = "process" /\ wire = {}
           /\ Head(toServer) \in FrameType /\ FrameTrue(Head(toServer)) /\ Head(toServer) \in Frames
           /\ Head(toServer).e \in Executions /\ Head(toServer).epoch \in Nat
           /\ Tail(toServer) \in Seq(Frames)
<1>1. Owner = "process" /\ wire = {} /\ toServer \in Seq(Frames)
  BY DEF DispatchInv, NetworkOK
<1>2. Head(toServer) \in Frames /\ Tail(toServer) \in Seq(Frames)
  BY <1>1
<1> QED
  BY <1>1, <1>2 DEF Frames, FrameType

\* A frame that was recorded stays to be acknowledged.
LEMMA Stamped ==
    ASSUME NEW f \in Frames
    PROVE  [f EXCEPT !.stage = "ack"] \in Frames
<1> DEFINE g == [f EXCEPT !.stage = "ack"]
<1>1. f \in FrameType /\ FrameTrue(f)
  BY DEF Frames
<1>2. g \in FrameType /\ g.type = f.type /\ g.fact = f.fact /\ g.e = f.e
  BY <1>1 DEF FrameType
<1> HIDE DEF g
<1>3. g \in Frames
  BY <1>1, <1>2 DEF Frames, FrameTrue
<1> QED
  BY <1>3 DEF g

\* What remains of the frames after one was handled.
LEMMA FramesLeft ==
    ASSUME DispatchInv, toServer # <<>>, Claimed \subseteq Claimed', UNCHANGED <<wl, proc, hub, wire>>,
           \/ toServer' = Tail(toServer)
           \/ toServer' = <<[Head(toServer) EXCEPT !.stage = "ack"]>> \o Tail(toServer),
           \/ toAgent' = toAgent
           \/ toAgent' = Append(toAgent, [act |-> "ack", e |-> Head(toServer).e])
    PROVE  NetworkOK'
<1> DEFINE g == [Head(toServer) EXCEPT !.stage = "ack"]
           o == [act |-> "ack", e |-> Head(toServer).e]
<1>1. Owner = "process" /\ Owner' = Owner /\ wire = {} /\ hub \in Nat
  BY HeadTrue DEF Owner, DispatchInv, NetworkOK
<1>2. g \in Frames /\ Tail(toServer) \in Seq(Frames)
  BY HeadTrue, Stamped
<1>3. o \in Orders /\ toAgent \in Seq(Orders)
  BY HeadTrue DEF Orders, Act, FrameTrue, DispatchInv, NetworkOK
<1>4. Frames \subseteq Frames' /\ Orders \subseteq Orders'
  BY DEF Frames, FrameTrue, FrameType, Orders
<1>5. toServer' \in Seq(Frames)
  <2>1. toServer' = Tail(toServer) \/ toServer' = <<g>> \o Tail(toServer)
    OBVIOUS
  <2>2. PICK h \in Frames, rest \in Seq(Frames) : toServer' = rest \/ toServer' = <<h>> \o rest
    BY <1>2, <2>1
  <2>3. <<h>> \o rest \in Seq(Frames)
    OBVIOUS
  <2> QED
    BY <2>2, <2>3
<1>6. toAgent' \in Seq(Orders)
  <2>1. toAgent' = toAgent \/ toAgent' = Append(toAgent, o)
    OBVIOUS
  <2> HIDE DEF o
  <2> QED
    BY <1>3, <2>1
<1> QED
  BY <1>1, <1>4, <1>5, <1>6 DEF NetworkOK

LEMMA FactKeeps ==
    ASSUME DispatchInv, factFrame
    PROVE  DispatchInv'
<1> DEFINE f == Head(toServer)
           ok == mayRecord(ws, wl, rec[f.e], rowFact, f.fact, f.epoch)
           x == observedProcessExecution(rec[f.e], f.fact)
<1>1. /\ UNCHANGED <<wl, ws, pin, disp, scan, hub, wire, service, proc, alive, starts>>
      /\ toServer # <<>> /\ f.type = "fact"
      /\ rec' = IF ok THEN [rec EXCEPT ![f.e] = x] ELSE rec
      /\ rowFact' = IF ok THEN f.fact ELSE rowFact
      /\ \/ toServer' = Tail(toServer)
         \/ toServer' = <<[Head(toServer) EXCEPT !.stage = "ack"]>> \o Tail(toServer)
      /\ \/ toAgent' = toAgent
         \/ toAgent' = Append(toAgent, [act |-> "ack", e |-> Head(toServer).e])
  BY DEF factFrame, NextFrame, producer
<1>2. f.e \in Executions /\ f.fact \in FactPhase /\ FrameTrue(f) /\ Owner = "process"
  BY <1>1, HeadTrue DEF FrameType
<1>3. f.e \in Claimed /\ f.e = proc.of /\ f.fact # "none" /\ (f.fact = "exited" => proc.fact = "exited" /\ proc.stopped)
  BY <1>1, <1>2 DEF FrameTrue
<1>4. rec \in [Executions -> ExecutionRecord] /\ rec[f.e] \in ExecutionRecord /\ EndOK(f.e) /\ rowFact \in FactPhase
  BY <1>2, RowsTyped DEF DispatchInv, ExecutionsOK
<1>5. /\ RecordsOK' /\ ProducerOK' /\ ScanOK' /\ ExecutionsOK' /\ Claimed \subseteq Claimed'
      /\ DispOK(disp, Claimed', service')
  <2>1. CASE ~ok
    BY <1>1, <2>1, NonePlain, RowsTyped, CalmStep
  <2>2. CASE ok
    <3>1. rec[f.e].claimed /\ (executionSettled(rec[f.e]) =>
             /\ <<rec[f.e].phase, f.fact>> \in {<<"terminal", "exited">>, <<"lost", "lost">>}
             /\ rec[f.e].outcome = f.fact)
      BY <2>2 DEF mayRecord, acceptsProcessFact
    <3> DEFINE ph == CASE f.fact = "running" -> "running"
                       [] f.fact = "exited" -> "terminal"
                       [] f.fact = "lost" -> "lost"
                       [] OTHER -> "dispatching"
               y == [rec[f.e] EXCEPT !.phase = ph, !.outcome = f.fact]
    <3>2. x = y
      BY DEF observedProcessExecution
    <3>3. /\ ph \in {"running", "terminal", "lost", "dispatching"} /\ (ph = "terminal" => f.fact = "exited")
          /\ executionSettled(rec[f.e]) => ph = rec[f.e].phase
      BY <3>1
    <3> HIDE DEF ph
    <3>4. y \in ExecutionRecord /\ y.claimed = rec[f.e].claimed /\ y.phase = ph /\ y.cancel = rec[f.e].cancel
      BY <1>2, <1>3, <1>4, <3>3 DEF ExecutionRecord, ExecutionPhase, FactPhase
    <3>5. y = rec[f.e] \/ ~executionSettled(rec[f.e])
      BY <1>4, <3>1, <3>3 DEF ExecutionRecord
    <3> HIDE DEF x, y, ok
    <3>6. PICK e \in Executions : e = f.e
      BY <1>2
    <3> HIDE DEF f
    <3>9. rec' = [rec EXCEPT ![e] = y] /\ rec'[e] = y /\ rowFact' \in FactPhase
      BY <1>1, <1>2, <1>4, <2>2, <3>2, <3>6
    <3>7. Owner' = Owner
      BY <1>1 DEF Owner
    <3>8. EndOK(e)'
      BY <1>1, <1>2, <1>3, <1>4, <3>1, <3>3, <3>4, <3>6, <3>9, <3>7 DEF EndOK
    <3> QED
      BY <1>1, <1>2, <3>1, <3>4, <3>5, <3>6, <3>9, <3>8, OneSettles
  <2> QED
    BY <2>1, <2>2
<1>6. NetworkOK'
  BY <1>1, <1>5, FramesLeft
<1> QED
  BY <1>1, <1>5, <1>6, Together

LEMMA CanceledKeeps ==
    ASSUME DispatchInv, canceledFrame
    PROVE  DispatchInv'
<1> DEFINE f == Head(toServer)
           seen == observeExecution(ws, rec[f.e], "canceled", Null, f.epoch)
           ok == rec[f.e].cancel /\ seen.ok
<1>1. /\ UNCHANGED <<wl, ws, pin, rowFact, disp, scan, hub, toAgent, wire, service, proc, alive, starts>>
      /\ toServer # <<>> /\ f.type = "cancel-canceled"
      /\ rec' = IF ok THEN [rec EXCEPT ![f.e] = seen.rec] ELSE rec
      /\ \/ toServer' = Tail(toServer)
         \/ toServer' = <<[Head(toServer) EXCEPT !.stage = "ack"]>> \o Tail(toServer)
  BY DEF canceledFrame, NextFrame, producer
<1>2. f.e \in Executions /\ FrameTrue(f) /\ Owner = "process"
  BY <1>1, HeadTrue
<1>3. f.e \in Claimed /\ f.e \in proc.cancellations /\ proc.of # f.e
  BY <1>1, <1>2 DEF FrameTrue
<1>4. rec \in [Executions -> ExecutionRecord] /\ rec[f.e] \in ExecutionRecord /\ EndOK(f.e) /\ rec[f.e].claimed
  BY <1>2, <1>3, RowsTyped DEF DispatchInv, ExecutionsOK, Claimed
<1>5. /\ RecordsOK' /\ ProducerOK' /\ ScanOK' /\ ExecutionsOK' /\ Claimed \subseteq Claimed'
      /\ DispOK(disp, Claimed', service')
  <2>1. CASE ~ok \/ seen.rec = rec[f.e]
    <3>1. rec' = rec
      BY <1>1, <1>4, <2>1
    <3> QED
      BY <1>1, <3>1, NonePlain, RowsTyped, CalmStep
  <2>2. CASE ok /\ seen.rec # rec[f.e]
    <3> DEFINE y == [rec[f.e] EXCEPT !.phase = "canceled", !.outcome = Null]
    <3>1. seen.rec = y /\ ~executionSettled(rec[f.e])
      BY <2>2 DEF observeExecution
    <3>2. y \in ExecutionRecord /\ y.claimed /\ y.phase = "canceled"
      BY <1>4 DEF ExecutionRecord, ExecutionPhase
    <3> HIDE DEF y
    <3>6. PICK e \in Executions : e = f.e
      BY <1>2
    <3>3. rec' = [rec EXCEPT ![e] = y] /\ rec'[e] = y
      BY <1>1, <1>2, <1>4, <2>2, <3>1, <3>6
    <3>4. Owner' = Owner
      BY <1>1 DEF Owner
    <3> HIDE DEF f, ok, seen
    <3>5. EndOK(e)'
      BY <1>1, <1>2, <1>3, <3>2, <3>6, <3>3, <3>4 DEF EndOK, executionSettled
    <3> QED
      BY <1>1, <1>2, <1>4, <3>1, <3>2, <3>6, <3>3, <3>5, RowsTyped, OneSettles
  <2> QED
    BY <2>1, <2>2
<1>6. NetworkOK'
  BY <1>1, <1>5, FramesLeft
<1> QED
  BY <1>1, <1>5, <1>6, Together

LEMMA AbsentKeeps ==
    ASSUME DispatchInv, absentFrame
    PROVE  DispatchInv'
<1> DEFINE f == Head(toServer)
           n == [on |-> TRUE, snap |-> Snapshot(rec[f.e]), absent |-> f.epoch]
<1>1. /\ UNCHANGED <<wl, ws, rec, pin, rowFact, scan, hub, toAgent, wire, service, proc, alive, starts>>
      /\ toServer # <<>> /\ toServer' = Tail(toServer)
      /\ \/ disp' = disp
         \/ disp' = [disp EXCEPT !.absences[f.e] = f.epoch]
         \/ replayable(f.e, f.epoch) /\ disp' \in pump([disp EXCEPT !.queued[f.e] = n])
  BY DEF absentFrame, NextFrame, producer, durable
<1>2. f.e \in Executions /\ f.epoch \in Nat
  BY <1>1, HeadTrue
<1>3. /\ RecordsOK' /\ ProducerOK' /\ ScanOK' /\ ExecutionsOK' /\ Claimed \subseteq Claimed'
      /\ DispOK(disp, Claimed', service')
  BY <1>1, NonePlain, RowsTyped, CalmStep
<1>4. NetworkOK'
  BY <1>1, <1>3, FramesLeft
<1>5. ASSUME replayable(f.e, f.epoch)
      PROVE  n \in EntryType /\ EntryOK(f.e, n, Claimed')
  <2>1. Snapshot(rec[f.e]) \in SnapshotType /\ ~Snapshot(rec[f.e]).settled
    BY <1>2, <1>5, RowsTyped, SnapshotTyped DEF replayable
  <2> QED
    BY <1>2, <2>1 DEF EntryType, EntryOK
<1> HIDE DEF f, n
<1>6. DispOK(disp', Claimed', service')
  <2>1. CASE disp' = disp
    BY <1>3, <2>1
  <2>2. CASE disp' = [disp EXCEPT !.absences[f.e] = f.epoch]
    BY <1>2, <1>3, <2>2, SetAbsence
  <2>3. CASE replayable(f.e, f.epoch) /\ disp' \in pump([disp EXCEPT !.queued[f.e] = n])
    BY <1>2, <1>3, <1>5, <2>3, SetEntry, PumpKeeps
  <2> QED
    BY <1>1, <2>1, <2>2, <2>3
<1> QED
  BY <1>1, <1>3, <1>4, <1>6, Together

LEMMA OtherFrameKeeps ==
    ASSUME DispatchInv, otherCancelFrame
    PROVE  DispatchInv'
<1>1. /\ UNCHANGED <<wl, ws, rec, pin, rowFact, disp, scan, hub, toAgent, wire, service, proc, alive, starts>>
      /\ toServer # <<>> /\ toServer' = Tail(toServer)
  BY DEF otherCancelFrame, NextFrame, producer, durable
<1>2. /\ RecordsOK' /\ ProducerOK' /\ ScanOK' /\ ExecutionsOK' /\ Claimed \subseteq Claimed'
      /\ DispOK(disp, Claimed', service')
  BY <1>1, NonePlain, RowsTyped, CalmStep
<1> QED
  BY <1>1, <1>2, FramesLeft, Together

LEMMA StoredAckKeeps ==
    ASSUME DispatchInv, acknowledgeFrame
    PROVE  DispatchInv'
<1> DEFINE f == Head(toServer)
<1>1. /\ UNCHANGED <<wl, ws, pin, rowFact, disp, scan, hub, toAgent, wire, service, proc, alive, starts>>
      /\ toServer # <<>> /\ toServer' = Tail(toServer)
      /\ rec' = rec \/ rec' = [rec EXCEPT ![f.e] = acknowledgeExecution(rec[f.e])]
  BY DEF acknowledgeFrame, producer
<1>2. f.e \in Executions
  BY <1>1, HeadTrue
<1> HIDE DEF f
<1>3. Plain(rec[f.e], acknowledgeExecution(rec[f.e]))
  BY <1>2, RecordSound, StampPlain
<1>4. rec' \in [Executions -> ExecutionRecord] /\ \A e \in Executions : Plain(rec[e], rec'[e])
  BY <1>1, <1>2, <1>3, OnePlain, NonePlain
<1>5. /\ RecordsOK' /\ ProducerOK' /\ ScanOK' /\ ExecutionsOK' /\ Claimed \subseteq Claimed'
      /\ DispOK(disp, Claimed', service')
  BY <1>1, <1>4, RowsTyped, CalmStep
<1> QED
  BY <1>1, <1>5, FramesLeft, Together

--------------------------------------------------------------------------------
(* What goes wrong.                                                        *)

LEMMA InitDispOK ==
    ASSUME NEW C, NEW S
    PROVE  DispOK(InitDisp, C, S)
<1>1. InitDisp \in DispType
  BY IdleOK, NoEntryOK DEF InitDisp, DispType, NoEntries
<1>2. ASSUME NEW e \in Executions, NEW l \in Lanes
      PROVE  InitDisp.task[e][l] = Idle /\ InitDisp.queued[e] = NoEntry
  BY DEF InitDisp, NoEntries
<1> QED
  BY <1>1, <1>2, IdleOK, NoEntryOK, LaneMembers DEF DispOK

LEMMA NoScanOK ==
    /\ NoScan \in [on : BOOLEAN, list : [Executions -> EntryType]]
    /\ \A e \in Executions : \A C : EntryOK(e, NoScan.list[e], C)
<1>1. NoEntries \in [Executions -> EntryType] /\ \A e \in Executions : NoEntries[e] = NoEntry
  BY NoEntryOK DEF NoEntries
<1>2. NoScan \in [on : BOOLEAN, list : [Executions -> EntryType]] /\ NoScan.list = NoEntries
  BY <1>1 DEF NoScan
<1> QED
  BY <1>1, <1>2, NoEntryOK

LEMMA DisconnectKeeps ==
    ASSUME DispatchInv, disconnect
    PROVE  DispatchInv'
<1>1. /\ UNCHANGED <<wl, ws, rec, pin, rowFact, disp, scan, toServer, wire, service, proc, alive, starts>>
      /\ hub' = 0 /\ toAgent' = <<>>
  BY DEF disconnect, durable, producer
<1>2. /\ RecordsOK' /\ ProducerOK' /\ ScanOK' /\ ExecutionsOK' /\ Carried
      /\ DispOK(disp, Claimed', service')
  BY <1>1, NonePlain, RowsTyped, CalmStep
<1>3. Owner' = Owner
  BY <1>1 DEF Owner
<1>4. NetworkOK'
  BY <1>1, <1>2, <1>3, RowsTyped DEF NetworkOK, Carried
<1> QED
  BY <1>1, <1>2, <1>4, Together

\* The replayed frames carry the epoch of the new connection.
LEMMA Renumbered ==
    ASSUME NEW s \in Seq(Frames'), NEW n \in Nat
    PROVE  [i \in DOMAIN s |-> [s[i] EXCEPT !.epoch = n]] \in Seq(Frames')
<1>1. ASSUME NEW f \in Frames' PROVE [f EXCEPT !.epoch = n] \in Frames'
  <2> DEFINE g == [f EXCEPT !.epoch = n]
  <2>1. f \in FrameType /\ FrameTrue(f)'
    BY DEF Frames
  <2>2. g \in FrameType /\ g.type = f.type /\ g.fact = f.fact /\ g.e = f.e
    BY <2>1 DEF FrameType
  <2>3. PICK h : h = g
    OBVIOUS
  <2>4. FrameTrue(h)'
    BY <2>1, <2>2, <2>3 DEF FrameTrue
  <2>5. h \in Frames'
    BY <2>2, <2>3, <2>4 DEF Frames
  <2> QED
    BY <2>3, <2>5
<1>2. DOMAIN s = 1 .. Len(s) /\ Len(s) \in Nat /\ \A i \in DOMAIN s : s[i] \in Frames'
  OBVIOUS
<1>3. [i \in DOMAIN s |-> [s[i] EXCEPT !.epoch = n]] \in [1 .. Len(s) -> Frames']
  BY <1>1, <1>2
<1> QED
  BY <1>2, <1>3

LEMMA ReconnectKeeps ==
    ASSUME DispatchInv, reconnect
    PROVE  DispatchInv'
<1> DEFINE b == proc.pending \/ (proc.fact = "lost" \/ (proc.fact = "exited" /\ proc.stopped))
<1>1. /\ UNCHANGED <<wl, rec, pin, rowFact, scan, disp, service, alive, starts, wire, toAgent>>
      /\ ws' = [ws EXCEPT !.epoch = @ + 1] /\ hub' = ws.epoch + 1
      /\ toServer' = toServer \o [i \in DOMAIN replay(proc) |-> [replay(proc)[i] EXCEPT !.epoch = ws.epoch + 1]]
      /\ proc' = [proc EXCEPT !.pending = b]
  BY DEF reconnect
<1>2. ws' \in WorkspaceType /\ hub' \in Nat /\ ws.epoch + 1 \in Nat
  <2>1. PICK n \in Nat : n = ws.epoch + 1
    BY RowsTyped
  <2>2. ws' = [ws EXCEPT !.epoch = n] /\ hub' = n
    BY <1>1, <2>1
  <2>3. ws' \in WorkspaceType
    BY <2>2, RowsTyped DEF WorkspaceType
  <2> QED
    BY <2>1, <2>2, <2>3
<1>3. b \in BOOLEAN
  BY ProcTyped DEF ProcType
<1> HIDE DEF b
<1>4. /\ proc' \in ProcType /\ proc'.fact = proc.fact /\ proc'.of = proc.of /\ proc'.stopped = proc.stopped
      /\ proc'.cancellations = proc.cancellations
  BY <1>1, <1>3, ProcTyped DEF ProcType
<1>5. ProcMoves(proc, proc')
  BY <1>4, ProcTyped DEF ProcMoves
<1>6. Claimed' = Claimed
  BY <1>1 DEF Claimed
<1>7. toServer \in Seq(Frames') /\ replay(proc) \in Seq(Frames')
  BY <1>4, <1>5, <1>6, ProcTyped, FramesStay, ReplayTrue
<1>8. PICK n \in Nat : n = ws.epoch + 1
  BY <1>2
<1>9. PICK s \in Seq(Frames') : s = replay(proc)
  BY <1>7
<1>10. PICK r \in Seq(Frames') : r = [i \in DOMAIN s |-> [s[i] EXCEPT !.epoch = n]]
  BY Renumbered
<1>11. toServer' = toServer \o r
  BY <1>1, <1>8, <1>9, <1>10
<1>12. toServer' \in Seq(Frames')
  BY <1>7, <1>11
<1>13. Owner # "process" => toServer' = <<>>
  <2>1. SUFFICES ASSUME Owner # "process" PROVE toServer' = <<>>
    OBVIOUS
  <2>2. s = <<>> /\ toServer = <<>>
    BY <1>9, <2>1, ProcTyped DEF replay
  <2>3. r = <<>>
    BY <1>10, <2>2
  <2> QED
    BY <1>11, <2>2, <2>3
<1> QED
  BY <1>1, <1>2, <1>4, <1>5, <1>12, <1>13, ProcTyped, ProcessStep

LEMMA CrashKeeps ==
    ASSUME DispatchInv, crash
    PROVE  DispatchInv'
<1>1. /\ UNCHANGED <<wl, ws, rec, pin, rowFact, service, proc, alive, starts>>
      /\ disp' = InitDisp /\ scan' = NoScan
      /\ hub' = 0 /\ toAgent' = <<>> /\ toServer' = <<>>
      /\ wire' \in {{}} \cup {{[q EXCEPT !.late = TRUE]} : q \in wire}
  BY DEF crash, durable, producer
<1>2. \A e \in Executions : (rec[e].claimed => rec'[e].claimed) /\ EndOK(e)' /\ PinOK(e)'
  BY <1>1, RecordSound, SoundIsPlain, EndStays, PinStays DEF DispatchInv, ExecutionsOK
<1>3. RecordsOK' /\ ProducerOK' /\ ExecutionsOK'
  BY <1>1, <1>2, RowsTyped, SettlingStep DEF DispatchInv, RecordsOK
<1>4. ScanOK'
  BY <1>1, NoScanOK DEF ScanOK
<1>5. Claimed' = Claimed /\ Owner' = Owner
  BY <1>1 DEF Claimed, Owner
<1>6. wire' \subseteq Requests /\ (wire = {} => wire' = {})
  BY <1>1, RowsTyped DEF NetworkOK, Requests
<1>7. NetworkOK'
  BY <1>1, <1>5, <1>6, RowsTyped DEF NetworkOK, Requests
<1>8. DispOK(disp', Claimed', service')
  BY <1>1, InitDispOK
<1> QED
  BY <1>1, <1>3, <1>4, <1>7, <1>8, Together

\* Only the controller's mode or the count of faults changes.
LEMMA SameKeeps ==
    ASSUME DispatchInv,
           UNCHANGED <<wl, ws, rec, pin, rowFact, disp, scan, hub, toAgent, toServer, wire, service, proc, alive, starts>>
    PROVE  DispatchInv'
<1>1. /\ RecordsOK' /\ ProducerOK' /\ ScanOK' /\ ExecutionsOK' /\ Carried
      /\ DispOK(disp, Claimed', service')
  BY NonePlain, RowsTyped, CalmStep
<1> QED
  BY <1>1, RowsTyped, NetworkStays, Together

LEMMA AuthorityKeeps ==
    ASSUME DispatchInv, NEW x \in Losses, loseAuthority(x)
    PROVE  DispatchInv'
<1>1. /\ UNCHANGED <<wl, rec, pin, rowFact, disp, scan, hub, toAgent, toServer, wire, service, proc, alive, starts>>
      /\ ws' = [ws EXCEPT ![x] = ~@]
  BY DEF loseAuthority, network, producer
<1>2. x \in {"enabled", "expired", "stored"}
  BY DispatchAssumption
<1>3. ws' \in WorkspaceType
  BY <1>1, <1>2, RowsTyped DEF WorkspaceType
<1>4. /\ RecordsOK' /\ ProducerOK' /\ ScanOK' /\ ExecutionsOK' /\ Carried
      /\ DispOK(disp, Claimed', service')
  BY <1>1, <1>3, NonePlain, RowsTyped, CalmStep
<1> QED
  BY <1>1, <1>4, RowsTyped, NetworkStays, Together

LEMMA RuntimeEndsKeeps ==
    ASSUME DispatchInv, runtimeEnds
    PROVE  DispatchInv'
<1>1. /\ UNCHANGED <<wl, pin, disp, scan, hub, toAgent, toServer, wire, service, proc, alive, starts>>
      /\ endWorkspaceRuntime
  BY DEF runtimeEnds, network, producer
<1>2. /\ RecordsOK' /\ ProducerOK' /\ ScanOK' /\ ExecutionsOK' /\ Carried
      /\ DispOK(disp, Claimed', service')
  BY <1>1, RuntimeEndsPlain, CalmStep
<1> QED
  BY <1>1, <1>2, RowsTyped, NetworkStays, Together

\* What ran is gone with the provider; what had ended, and what was canceled before it came, stays so.
LEMMA ProviderKeeps ==
    ASSUME DispatchInv, providerStops
    PROVE  DispatchInv'
<1>1. /\ UNCHANGED <<wl, rec, pin, rowFact, scan, hub, toServer, starts>>
      /\ alive' = FALSE /\ toAgent' = <<>> /\ wire' = {}
      /\ service' = [e \in Executions |-> IF service[e] = "running" THEN "absent" ELSE service[e]]
      /\ proc' = [proc EXCEPT !.fact = IF @ = "running" THEN "lost" ELSE @]
  BY DEF providerStops
<1>2. PICK purge \in BOOLEAN :
         /\ ws' = [ws EXCEPT !.purge = purge, !.state = IF purge THEN "terminating" ELSE @]
         /\ disp' = IF purge THEN [disp EXCEPT !.queued = NoEntries] ELSE disp
  BY DEF providerStops
<1>3. Claimed' = Claimed /\ Owner' = Owner /\ canReconcile' = canReconcile
  BY <1>1 DEF Claimed, Owner, canReconcile
<1>4. ws' \in WorkspaceType
  BY <1>2, RowsTyped DEF WorkspaceType
<1>5. service \in [Executions -> Reply3] /\ ProducerOK
  BY DEF DispatchInv, ProducerOK
<1>6. /\ service' \in [Executions -> Reply3]
      /\ \A e \in Executions : service'[e] = service[e] \/ (service[e] = "running" /\ service'[e] = "absent")
  BY <1>1, <1>5 DEF Reply3
<1>7. /\ proc' \in ProcType /\ proc'.of = proc.of /\ proc'.stopped = proc.stopped
      /\ proc'.cancellations = proc.cancellations
      /\ proc'.fact = IF proc.fact = "running" THEN "lost" ELSE proc.fact
  BY <1>1, ProcTyped DEF ProcType, FactPhase
<1>8. ProcMoves(proc, proc')
  BY <1>7, ProcTyped DEF ProcMoves
<1>9. RecordsOK' /\ ScanOK'
  BY <1>1, <1>3, <1>4 DEF DispatchInv, RecordsOK, ScanOK, EntryOK
<1>10. ProducerOK'
  <2>1. (proc'.fact = "none") = (proc'.of = Null)
    BY <1>8 DEF ProcMoves
  <2>2. IF Owner = "process" THEN \A e \in Executions : service'[e] = "absent" ELSE proc'.of = Null
    BY <1>5, <1>6, <1>7 DEF ProducerOK
  <2>3. starts' \in [Executions -> 0 .. 2] /\ alive' \in BOOLEAN
    BY <1>1, <1>5 DEF ProducerOK
  <2>4. proc'.of # Null => proc'.of \in Claimed'
    BY <1>3, <1>7, ProcTyped
  <2> QED
    BY <1>3, <1>6, <1>7, <2>1, <2>2, <2>3, <2>4 DEF ProducerOK
<1>11. NetworkOK'
  <2>1. toServer' \in Seq(Frames') /\ hub' \in Nat
    BY <1>1, <1>3, <1>8, ProcTyped, FramesStay
  <2> QED
    BY <1>1, <1>3, <2>1, RowsTyped DEF NetworkOK
<1>12. ASSUME NEW e \in Executions
       PROVE  EndOK(e)' /\ PinOK(e)' /\ StartOK(e)'
  <2>1. EndOK(e) /\ PinOK(e) /\ StartOK(e) /\ e # Null
    BY NullFresh DEF DispatchInv, ExecutionsOK
  <2>2. EndOK(e)'
    BY <1>1, <1>3, <1>6, <1>7, <2>1 DEF EndOK
  <2>3. PinOK(e)'
    BY <1>1, <1>3, <2>1 DEF PinOK
  <2>4. StartOK(e)'
    BY <1>1, <1>3, <1>6, <1>7, <2>1 DEF StartOK
  <2> QED
    BY <2>2, <2>3, <2>4
<1>13. DispOK(disp, Claimed', service')
  <2>1. \A e \in Executions : service[e] \in {"terminal", "canceled"} => service'[e] = service[e]
    BY <1>6
  <2> QED
    BY <1>3, <2>1, DispGrows DEF DispatchInv
<1>14. DispOK(disp', Claimed', service')
  <2>1. NoEntries \in [Executions -> EntryType] /\ \A e \in Executions : EntryOK(e, NoEntries[e], Claimed')
    BY NoEntryOK DEF NoEntries
  <2>2. DispOK([disp EXCEPT !.queued = NoEntries], Claimed', service')
    BY <1>13, <2>1 DEF DispOK, DispType
  <2> QED
    BY <1>2, <1>13, <2>2
<1> QED
  BY <1>1, <1>9, <1>10, <1>11, <1>12, <1>14, Together DEF ExecutionsOK

--------------------------------------------------------------------------------
(* The invariant holds, and what follows from it.                          *)

LEMMA InitKeeps ==
    ASSUME Init
    PROVE  DispatchInv
<1>1. ws \in WorkspaceType
  BY DEF Init, WorkspaceType
<1>2. /\ rec \in [Executions -> ExecutionRecord] /\ \A e \in Executions : rec[e] = NoRecord
      /\ NoRecord.phase = "none" /\ ~NoRecord.claimed /\ ~NoRecord.cancel
  BY DEF Init, NoRecord, ExecutionRecord, ExecutionPhase
<1>3. pin \in [Executions -> {"none", "pinned", "released"}] /\ \A e \in Executions : pin[e] = "none"
  BY DEF Init
<1>4. RecordsOK
  BY <1>1, <1>2, <1>3 DEF Init, RecordsOK, FactPhase
<1>5. /\ proc \in ProcType /\ proc.fact = "none" /\ proc.of = Null
      /\ service \in [Executions -> Reply3] /\ \A e \in Executions : service[e] = "absent"
      /\ starts \in [Executions -> 0 .. 2] /\ \A e \in Executions : starts[e] = 0
  BY DEF Init, ProcType, FactPhase, Reply3
<1>6. ProducerOK
  <2>1. alive \in BOOLEAN
    BY DEF Init
  <2> QED
    BY <1>5, <2>1 DEF ProducerOK
<1>7. NetworkOK
  BY DEF Init, NetworkOK
<1>8. ScanOK
  BY NoScanOK DEF Init, ScanOK
<1>9. DispOK(disp, Claimed, service)
  BY InitDispOK DEF Init
<1>10. ASSUME NEW e \in Executions PROVE EndOK(e) /\ PinOK(e) /\ StartOK(e)
  BY <1>2, <1>3, <1>5 DEF EndOK, PinOK, StartOK
<1> QED
  BY <1>4, <1>6, <1>7, <1>8, <1>9, <1>10 DEF DispatchInv, ExecutionsOK

LEMMA TaskKeeps ==
    ASSUME DispatchInv, NEW e \in Executions, NEW l \in Lanes, TaskStep(e, l) \/ callFails(e, l)
    PROVE  DispatchInv'
  BY ReadKeeps, ClaimKeeps, UnknownKeeps, PrepareKeeps, SendKeeps, ObserveKeeps, ReplayKeeps, RefusedKeeps,
     AcknowledgeKeeps, FinalizeKeeps, FailsKeeps DEF TaskStep

LEMMA NextKeeps ==
    ASSUME DispatchInv, [Next]_vars
    PROVE  DispatchInv'
<1>1. CASE \E e \in Executions : acceptExecution(e) \/ cancelRoute(e) \/ serviceFinishes(e)
  BY <1>1, AcceptKeeps, CancelKeeps, ServiceFinishKeeps
<1>2. CASE scanRead \/ scanQueue
  BY <1>2, ScanReadKeeps, ScanQueueKeeps
<1>3. CASE \E e \in Executions, l \in Lanes : TaskStep(e, l) \/ callFails(e, l)
  BY <1>3, TaskKeeps
<1>4. CASE \E q \in wire : serviceHandles(q)
  BY <1>4, ServiceKeeps
<1>5. CASE handle \/ leaderExits \/ groupStops \/ resend
  BY <1>5, HandleKeeps, LeaderKeeps, GroupKeeps, ResendKeeps
<1>6. CASE Frame
  BY <1>6, FactKeeps, AbsentKeeps, CanceledKeeps, OtherFrameKeeps, StoredAckKeeps DEF Frame
<1>7. CASE disconnect \/ reconnect \/ crash
  BY <1>7, DisconnectKeeps, ReconnectKeeps, CrashKeeps
<1>8. CASE restart \/ maintenance
  BY <1>8, SameKeeps DEF restart, maintenance, durable, network, producer
<1>9. CASE \E x \in Losses : loseAuthority(x)
  BY <1>9, AuthorityKeeps
<1>10. CASE providerStops \/ runtimeEnds
  BY <1>10, ProviderKeeps, RuntimeEndsKeeps
<1>11. CASE UNCHANGED vars
  BY <1>11, SameKeeps DEF vars
<1> QED
  BY <1>1, <1>2, <1>3, <1>4, <1>5, <1>6, <1>7, <1>8, <1>9, <1>10, <1>11 DEF Next

\* For any number of executions, lanes' tasks, frames, requests and faults: no task is past its claim, no frame and
\* no relayed request is under way, for an execution whose record was not claimed; and what a record or an answer
\* under way says of an end is true of the producer.
THEOREM DispatchInvariant == Spec => []DispatchInv
<1>1. Init => DispatchInv
  BY InitKeeps
<1>2. DispatchInv /\ [Next]_vars => DispatchInv'
  BY NextKeeps
<1> QED
  BY <1>1, <1>2, PTL DEF Spec

\* A finite process, and a service that answers lookups and deduplicates accepts, starts an execution at most once,
\* whatever the dispatcher sends again after a lost answer, a lost connection, a crash or a reported absence.
THEOREM StartsOnce == Spec => []StartedOnce
<1>1. DispatchInv => StartedOnce
  <2> SUFFICES ASSUME DispatchInv, Reconcilable, NEW e \in Executions
               PROVE  starts[e] <= 1
    BY DEF StartedOnce
  <2>1. StartOK(e)
    BY DEF DispatchInv, ExecutionsOK
  <2> QED
    BY <2>1 DEF StartOK, Reconcilable
<1> QED
  BY <1>1, DispatchInvariant, PTL

\* Once the record says canceled, the producer does not run the execution and never will: an unclaimed record was
\* never sent, and the answer that settled a claimed one is remembered by the producer that gave it.
THEOREM CanceledStaysOff == Spec => []CanceledNeverRuns
<1>1. DispatchInv => CanceledNeverRuns
  <2> SUFFICES ASSUME DispatchInv, Reconcilable, NEW e \in Executions, rec[e].phase = "canceled"
               PROVE  service[e] # "running" /\ (proc.of = e => proc.fact = "none")
    BY DEF CanceledNeverRuns
  <2>1. EndOK(e) /\ StartOK(e) /\ e # Null
    BY NullFresh DEF DispatchInv, ExecutionsOK
  <2>2. proc.of # Null => proc.of \in Claimed
    BY ProcTyped
  <2>3. IF Owner = "process" THEN service[e] = "absent" ELSE proc.of = Null
    BY DEF DispatchInv, ProducerOK
  <2>4. CASE rec[e].claimed
    BY <2>1, <2>3, <2>4 DEF EndOK, Reconcilable
  <2>5. CASE ~rec[e].claimed
    BY <2>1, <2>2, <2>5 DEF StartOK, Claimed
  <2> QED
    BY <2>4, <2>5
<1> QED
  BY <1>1, DispatchInvariant, PTL

\* A terminal record that is no refusal is the producer's own end: the process exited and its whole group stopped
\* writing, or the service said so of the request.
THEOREM TerminalIsTrue == Spec => []TerminalIsReal
<1>1. DispatchInv => TerminalIsReal
  <2> SUFFICES ASSUME DispatchInv, Reconcilable, NEW e \in Executions,
                      rec[e].phase = "terminal", rec[e].outcome # "refused"
               PROVE  IF Owner = "process" THEN proc.of = e /\ proc.fact = "exited" /\ proc.stopped
                      ELSE service[e] = "terminal"
    BY DEF TerminalIsReal
  <2>1. EndOK(e)
    BY DEF DispatchInv, ExecutionsOK
  <2> QED
    BY <2>1 DEF EndOK, Reconcilable
<1> QED
  BY <1>1, DispatchInvariant, PTL

\* The inputs of an execution are released only when the producer can no longer read them.
THEOREM InputsAreHeld == Spec => []InputsHeld
<1>1. DispatchInv => InputsHeld
  <2> SUFFICES ASSUME DispatchInv, Reconcilable, NEW e \in Executions,
                      pin[e] = "released", rec[e].outcome # "refused"
               PROVE  service[e] # "running" /\ proc.of # e
    BY DEF InputsHeld
  <2>1. EndOK(e) /\ PinOK(e) /\ StartOK(e) /\ e # Null
    BY NullFresh DEF DispatchInv, ExecutionsOK
  <2>2. proc.of # Null => proc.of \in Claimed
    BY ProcTyped
  <2>3. IF Owner = "process" THEN service[e] = "absent" ELSE proc.of = Null
    BY DEF DispatchInv, ProducerOK
  <2>4. CASE rec[e].claimed
    BY <2>1, <2>3, <2>4 DEF EndOK, PinOK, Reconcilable
  <2>5. CASE ~rec[e].claimed
    BY <2>1, <2>2, <2>5 DEF StartOK, Claimed
  <2> QED
    BY <2>4, <2>5
<1> QED
  BY <1>1, DispatchInvariant, PTL

--------------------------------------------------------------------------------
(* What settled stays.                                                     *)

\* A record that settled keeps its phase and its outcome.
Kept(r, x) == executionSettled(r) => x.phase = r.phase /\ x.outcome = r.outcome

AllKept == \A e \in Executions : Kept(rec[e], rec'[e])

LEMMA SameKept ==
    ASSUME UNCHANGED rec
    PROVE  AllKept
  BY DEF AllKept, Kept

LEMMA OneKept ==
    ASSUME DispatchInv, NEW e \in Executions, NEW x, Kept(rec[e], x), rec' = [rec EXCEPT ![e] = x]
    PROVE  AllKept
  BY RowsTyped DEF AllKept, Kept

\* An observation is refused by a record that settled.
LEMMA ObserveKept ==
    ASSUME NEW w, NEW r, NEW phase, NEW outcome, NEW n
    PROVE  Kept(r, observeExecution(w, r, phase, outcome, n).rec)
<1>1. CASE executionSettled(r)
  <2>1. observeExecution(w, r, phase, outcome, n).rec = r
    BY <1>1 DEF observeExecution
  <2> QED
    BY <2>1 DEF Kept
<1> QED
  BY <1>1 DEF Kept

LEMMA ClaimKept ==
    ASSUME DispatchInv, NEW e \in Executions, NEW w, NEW v
    PROVE  Kept(rec[e], claimExecution(w, rec[e], v).rec)
  BY RecordSound, ClaimPlain DEF Plain, Kept

LEMMA StampKept ==
    ASSUME DispatchInv, NEW e \in Executions
    PROVE  Kept(rec[e], acknowledgeExecution(rec[e])) /\ Kept(rec[e], finalizeExecution(rec[e]))
  BY RecordSound, StampPlain DEF Plain, Kept

LEMMA EndKept ==
    ASSUME DispatchInv, endWorkspaceRuntime
    PROVE  AllKept
  BY RuntimeEndsPlain DEF Plain, Kept, AllKept

LEMMA ApiKept ==
    ASSUME DispatchInv, NEW e \in Executions, acceptExecution(e) \/ cancelRoute(e) \/ serviceFinishes(e)
    PROVE  AllKept
<1>1. CASE acceptExecution(e)
  <2>1. rec' = [rec EXCEPT ![e] = acceptedRecord] /\ rec[e].phase = "none"
    BY <1>1 DEF acceptExecution
  <2> QED
    BY <2>1, OneKept DEF Kept, executionSettled
<1>2. CASE cancelRoute(e)
  <2>1. rec' = [rec EXCEPT ![e] = cancelExecution(rec[e])]
    BY <1>2 DEF cancelRoute
  <2>2. Kept(rec[e], cancelExecution(rec[e]))
    BY DEF Kept, cancelExecution
  <2> QED
    BY <2>1, <2>2, OneKept
<1>3. CASE serviceFinishes(e)
  BY <1>3, SameKept DEF serviceFinishes, durable
<1> QED
  BY <1>1, <1>2, <1>3

LEMMA TaskKept ==
    ASSUME DispatchInv, NEW e \in Executions, NEW l \in Lanes, TaskStep(e, l) \/ callFails(e, l)
    PROVE  AllKept
<1>1. CASE dispatchRead(e, l)
  BY <1>1, EndKept, SameKept DEF dispatchRead
<1>2. CASE dispatchClaim(e, l)
  <2>1. \/ rec' = [rec EXCEPT ![e] = rec[e]]
        \/ rec' = [rec EXCEPT ![e] = claimExecution(ws, rec[e], validClaim(e)).rec]
    BY <1>2 DEF dispatchClaim
  <2>2. Kept(rec[e], rec[e])
    BY DEF Kept
  <2> QED
    BY <2>1, <2>2, ClaimKept, OneKept
<1>3. CASE dispatchUnknown(e, l)
  BY <1>3, ObserveKept, OneKept DEF dispatchUnknown
<1>4. CASE acceptPrepare(e, l)
  <2>1. rec' = rec \/ rec' = [rec EXCEPT ![e] = claimExecution(ws, rec[e], validClaim(e)).rec]
    BY <1>4 DEF acceptPrepare
  <2> QED
    BY <2>1, ClaimKept, OneKept, SameKept
<1>5. CASE acceptSend(e, l) \/ dispatchReplay(e, l) \/ callFails(e, l)
  BY <1>5, SameKept DEF acceptSend, dispatchReplay, callFails
<1>6. CASE observe(e, l)
  <2>1. \/ rec' = rec
        \/ \E phase, outcome, n : rec' = [rec EXCEPT ![e] = observeExecution(ws, rec[e], phase, outcome, n).rec]
    BY <1>6 DEF observe
  <2> QED
    BY <2>1, ObserveKept, OneKept, SameKept
<1>7. CASE settleRefused(e, l)
  BY <1>7, ObserveKept, OneKept DEF settleRefused
<1>8. CASE acknowledge(e, l)
  BY <1>8, StampKept, OneKept, SameKept DEF acknowledge
<1>9. CASE finalizeServiceExecution(e, l)
  BY <1>9, StampKept, OneKept, SameKept DEF finalizeServiceExecution
<1> QED
  BY <1>1, <1>2, <1>3, <1>4, <1>5, <1>6, <1>7, <1>8, <1>9 DEF TaskStep

LEMMA FrameKept ==
    ASSUME DispatchInv, Frame
    PROVE  AllKept
<1> DEFINE f == Head(toServer)
<1>1. CASE absentFrame \/ otherCancelFrame
  BY <1>1, SameKept DEF absentFrame, otherCancelFrame, durable
<1>2. CASE ~(absentFrame \/ otherCancelFrame)
  <2>1. toServer # <<>>
    BY <1>2 DEF Frame, factFrame, canceledFrame, acknowledgeFrame, NextFrame
  <2>2. f.e \in Executions
    BY <2>1, HeadTrue
  <2>3. CASE factFrame
    <3>1. \/ rec' = rec
          \/ /\ mayRecord(ws, wl, rec[f.e], rowFact, f.fact, f.epoch)
             /\ rec' = [rec EXCEPT ![f.e] = observedProcessExecution(rec[f.e], f.fact)]
      BY <2>3 DEF factFrame
    <3>2. rec[f.e] \in ExecutionRecord
      BY <2>2, RowsTyped
    <3>3. mayRecord(ws, wl, rec[f.e], rowFact, f.fact, f.epoch)
             => Kept(rec[f.e], observedProcessExecution(rec[f.e], f.fact))
      BY <3>2 DEF mayRecord, acceptsProcessFact, observedProcessExecution, Kept, ExecutionRecord
    <3> QED
      BY <2>2, <3>1, <3>3, OneKept, SameKept
  <2>4. CASE canceledFrame
    <3>1. \/ rec' = rec
          \/ rec' = [rec EXCEPT ![f.e] = observeExecution(ws, rec[f.e], "canceled", Null, f.epoch).rec]
      BY <2>4 DEF canceledFrame
    <3> QED
      BY <2>2, <3>1, ObserveKept, OneKept, SameKept
  <2>5. CASE acknowledgeFrame
    <3>1. rec' = rec \/ rec' = [rec EXCEPT ![f.e] = acknowledgeExecution(rec[f.e])]
      BY <2>5 DEF acknowledgeFrame
    <3> QED
      BY <2>2, <3>1, StampKept, OneKept, SameKept
  <2> QED
    BY <1>2, <2>3, <2>4, <2>5 DEF Frame
<1> QED
  BY <1>1, <1>2

\* A settled record is never settled otherwise: a late fact, a repeated answer, a cancel after the end, the loss of
\* the runtime and a dispatch that started before the end all leave its phase and outcome alone.
THEOREM SettledIsFinal == Spec => SettledStays
<1>1. DispatchInv /\ [Next]_vars => AllKept
  <2> SUFFICES ASSUME DispatchInv, [Next]_vars
               PROVE  AllKept
    OBVIOUS
  <2>1. CASE \E e \in Executions : acceptExecution(e) \/ cancelRoute(e) \/ serviceFinishes(e)
    BY <2>1, ApiKept
  <2>2. CASE \E e \in Executions, l \in Lanes : TaskStep(e, l) \/ callFails(e, l)
    BY <2>2, TaskKept
  <2>3. CASE Frame
    BY <2>3, FrameKept
  <2>4. CASE runtimeEnds
    BY <2>4, EndKept DEF runtimeEnds
  <2>5. CASE \/ scanRead \/ scanQueue \/ handle \/ leaderExits \/ groupStops \/ resend
             \/ \E q \in wire : serviceHandles(q)
    BY <2>5, SameKept DEF scanRead, scanQueue, handle, leaderExits, groupStops, resend, serviceHandles, durable
  <2>6. CASE \/ disconnect \/ reconnect \/ crash \/ restart \/ maintenance \/ providerStops
             \/ \E x \in Losses : loseAuthority(x)
    BY <2>6, SameKept DEF disconnect, reconnect, crash, restart, maintenance, providerStops, loseAuthority, durable
  <2>7. CASE UNCHANGED vars
    BY <2>7, SameKept DEF vars
  <2> QED
    BY <2>1, <2>2, <2>3, <2>4, <2>5, <2>6, <2>7 DEF Next
<1>2. AllKept => [\A e \in Executions : executionSettled(rec[e]) =>
                     rec'[e].phase = rec[e].phase /\ rec'[e].outcome = rec[e].outcome]_vars
  BY DEF AllKept, Kept
<1> QED
  BY <1>1, <1>2, DispatchInvariant, PTL DEF Spec, SettledStays

================================================================================
