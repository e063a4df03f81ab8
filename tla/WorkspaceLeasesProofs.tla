------------------------- MODULE WorkspaceLeasesProofs -------------------------
(***************************************************************************)
(* The lease service's promises for any number of leases, calls and        *)
(* faults, as facts about a step that a composition can use.               *)
(*                                                                         *)
(* The word the argument turns on is Doomed: a setup lease, a lease on its *)
(* way out, one past its expiry, or one older than the lease in the        *)
(* supervisor's file.  While the workspace is not fenced, only doomed      *)
(* leases are revoked and only younger ones are installed, so no call that *)
(* is still under way can revoke what the supervisor holds.  Once it is    *)
(* fenced every row goes to revoking and from there only to a tombstone or *)
(* an expiry, and the workspace ends when they all are there.              *)
(***************************************************************************)
EXTENDS WorkspaceLeases, FiniteSetTheorems, WellFoundedInduction, TLAPS

Frames == {"install", "renew", "confirm"}
Revoking == {"revoke", "tombstone", "revoked"}
TaskPc == Revoking \cup {"none", "deliver", "mint", "issued", "delivered", "reply"}
LeaseState == {"requested", "issued", "delivered", "revoking", "revoked", "expired"}

LeaseRow == [state : LeaseState, purpose : {"setup", "runtime"}, request : Nat, issued : BOOLEAN,
             delivered : BOOLEAN]
TaskRow == [op : Frames \cup {"none", "revoke"}, lease : Nat, previous : Nat, pc : TaskPc, live : BOOLEAN]

\* Leases are numbered in the order of their creation.
Numbered(n) == n \in 0 .. MaxLeases /\ lease \in [1 .. n -> LeaseRow]

StoreOK ==
    /\ MaxLeases \in Nat
    /\ wsp \in {"provisioning", "connected", "ready", "terminating", "ended"}
    /\ \E n : Numbered(n)
    /\ fence \in BOOLEAN
    /\ tasks \in [Slots -> TaskRow]
    /\ minted \subseteq Leases /\ tomb \subseteq Leases /\ late \subseteq Leases /\ past \subseteq Leases
    /\ wsp \in {"terminating", "ended"} => fence

\* A lease the supervisor will never hold again.
Doomed(l) ==
    \/ lease[l].purpose = "setup"
    \/ lease[l].state \in {"revoking", "revoked", "expired"}
    \/ l \in past
    \/ l < file

\* A closed lease is dead at the issuer, and what is dead there the supervisor does not hold.
RowOK(l) ==
    /\ lease[l].request < l
    /\ wsp = "ended" => isClosed(l)
    /\ lease[l].state = "revoked" => l \in tomb
    /\ lease[l].state = "expired" => l \in past
    /\ ~fence /\ l \in tomb => Doomed(l)

FileOK ==
    /\ file \in Leases \cup {0, Exited}
    /\ ~fence /\ file \in Leases => lease[file].state = "delivered" /\ lease[file].purpose = "runtime" /\ file \notin past
    /\ \A x \in confirm : x.previous \in Leases /\ (~fence => x.previous < file)

\* A frame of the current connection that may install a lease.
Installs(t) == t.live /\ t.op \in {"install", "renew"}

\* A call t revokes only what is doomed, and installs only what is not.
TaskOK(t) ==
    /\ t.pc # "none" => t.lease \in Leases
    /\ t.op \in {"confirm", "revoke"} => t.pc \in Revoking
    /\ t.op = "none" <=> t.pc = "none"
    /\ t.pc = "revoked" => t.lease \in tomb
    /\ ~fence => /\ t.pc \in Revoking => Doomed(t.lease)
                 /\ t.pc = "delivered" => lease[t.lease].state # "requested"
                 /\ Installs(t) /\ file # Exited /\ lease[t.lease].purpose = "runtime" =>
                       /\ file <= t.lease
                       /\ t.pc = "reply" /\ t.lease \notin past => lease[t.lease].state = "delivered"

\* The frames of a connection are handled one after the other.
OneFrame ==
    \A s, u \in Slots : s # u /\ tasks[s].live /\ tasks[u].live =>
        tasks[s].op \notin Frames \/ tasks[u].op \notin Frames

LeaseInv ==
    StoreOK /\ FileOK /\ OneFrame /\ (\A l \in Leases : RowOK(l)) /\ (\A s \in Slots : TaskOK(tasks[s]))

--------------------------------------------------------------------------------
\* What a call does to the table of calls.
LEMMA Moves ==
    ASSUME tasks \in [Slots -> TaskRow], NEW s \in Slots, NEW p \in TaskPc, Next1(s, p)
    PROVE  /\ tasks' \in [Slots -> TaskRow]
           /\ tasks'[s].pc = p /\ tasks'[s].lease = tasks[s].lease /\ tasks'[s].op = tasks[s].op
           /\ tasks'[s].live = tasks[s].live
           /\ \A u \in Slots : u # s => tasks'[u] = tasks[u]
BY DEF Next1, TaskRow

\* A call ends: its slot is free again.
LEMMA Ends ==
    ASSUME tasks \in [Slots -> TaskRow], NEW s \in Slots, End(s)
    PROVE  /\ tasks' \in [Slots -> TaskRow]
           /\ tasks'[s] = NoTask
           /\ \A u \in Slots : u # s => tasks'[u] = tasks[u]
<1>1. NoTask \in TaskRow BY DEF NoTask, TaskRow, TaskPc
<1> QED BY <1>1 DEF End

\* A call begins in a slot.
LEMMA Begins ==
    ASSUME tasks \in [Slots -> TaskRow], NEW s \in Slots, NEW op \in Frames \cup {"revoke"},
           NEW l \in Nat, NEW p \in Nat, NEW pc \in TaskPc, Task(s, op, l, p, pc)
    PROVE  /\ tasks' \in [Slots -> TaskRow]
           /\ tasks'[s] = [op |-> op, lease |-> l, previous |-> p, pc |-> pc, live |-> TRUE]
           /\ \A u \in Slots : u # s => tasks'[u] = tasks[u]
<1>1. [op |-> op, lease |-> l, previous |-> p, pc |-> pc, live |-> TRUE] \in TaskRow BY DEF TaskRow
<1> QED BY <1>1 DEF Task

\* A registration begins in a slot, and no other call is of the connection any more.
LEMMA Registers ==
    ASSUME tasks \in [Slots -> TaskRow], NEW s \in Slots, NEW l \in Nat, Register(s, l)
    PROVE  /\ tasks' \in [Slots -> TaskRow]
           /\ tasks'[s] = [op |-> "install", lease |-> l, previous |-> 0, pc |-> "deliver", live |-> TRUE]
           /\ \A u \in Slots : u # s => /\ ~tasks'[u].live /\ tasks'[u].op = tasks[u].op
                                        /\ tasks'[u].lease = tasks[u].lease /\ tasks'[u].pc = tasks[u].pc
<1>1. [op |-> "install", lease |-> l, previous |-> 0, pc |-> "deliver", live |-> TRUE] \in TaskRow
    BY DEF TaskRow, Frames, TaskPc
<1>2. \A u \in Slots : [tasks[u] EXCEPT !.live = FALSE] \in TaskRow BY DEF TaskRow
<1> QED BY <1>1, <1>2 DEF Register, TaskRow

\* A free slot promises nothing.
LEMMA NoTaskOK == TaskOK(NoTask)' /\ NoTask.live = FALSE
BY DEF TaskOK, NoTask, Installs, Revoking

--------------------------------------------------------------------------------
\* What a step may do to the rows behind a call's back: a doomed lease stays doomed, a
\* delivered one stays delivered unless it is doomed.
Drift ==
    /\ Leases \subseteq Leases' /\ tomb \subseteq tomb' /\ past \subseteq past' /\ (fence => fence')
    /\ ~fence' => \A l \in Leases :
          /\ lease'[l].purpose = lease[l].purpose
          /\ Doomed(l) => Doomed(l)'
          /\ lease[l].state # "requested" => lease'[l].state # "requested"
          /\ lease[l].state = "delivered" => lease'[l].state = "delivered" \/ Doomed(l)

\* What a call promises survives any drift, as long as the supervisor's file does not move on under it.
LEMMA TaskStays ==
    ASSUME LeaseInv, Drift, NEW t \in TaskRow, TaskOK(t), NEW u \in TaskRow,
           u.op = t.op, u.pc = t.pc, u.lease = t.lease, Installs(u) => Installs(t),
           file' \in {file, Exited} \/ ~Installs(u)
    PROVE  TaskOK(u)'
<1> USE DEF TaskOK, Drift
<1>1. CASE u.pc = "none" BY <1>1 DEF Revoking, Installs
<1>2. CASE u.pc # "none"
    <2>1. u.lease \in Leases /\ u.lease \in Leases' BY <1>2
    <2>2. CASE fence' BY <2>1, <2>2
    <2>3. CASE ~fence'
        <3>1. ~fence BY <2>3
        <3>2. u.pc \in Revoking => Doomed(u.lease)' BY <2>1, <2>3, <3>1
        <3>3. u.pc = "delivered" => lease'[u.lease].state # "requested" BY <2>1, <2>3, <3>1
        <3>4. ASSUME Installs(u), file' # Exited', lease'[u.lease].purpose = "runtime"
              PROVE  /\ file' <= u.lease
                     /\ u.pc = "reply" /\ u.lease \notin past' => lease'[u.lease].state = "delivered"
            <4>1. file' = file /\ file # Exited BY <3>4 DEF Exited
            <4>2. lease[u.lease].purpose = "runtime" /\ file <= u.lease BY <2>1, <2>3, <3>1, <3>4, <4>1
            <4>3. ASSUME u.pc = "reply", u.lease \notin past' PROVE lease'[u.lease].state = "delivered"
                <5>1. u.lease \notin past /\ lease[u.lease].state = "delivered"
                    BY <2>1, <3>1, <3>4, <4>1, <4>2, <4>3
                <5>2. u.lease \in Nat /\ file \in Nat BY <2>1 DEF LeaseInv, StoreOK, FileOK, Numbered, Leases, Exited
                <5>3. ~Doomed(u.lease) BY <4>2, <5>1, <5>2 DEF Doomed
                <5> QED BY <2>1, <2>3, <5>1, <5>3
            <4> QED BY <4>1, <4>2, <4>3
        <3> QED BY <2>1, <2>3, <3>2, <3>3, <3>4
    <2> QED BY <2>2, <2>3
<1> QED BY <1>1, <1>2

\* One call goes on, and the others stay as they are.
LEMMA OneTaskMoves ==
    ASSUME LeaseInv, Drift, file' \in {file, Exited}, NEW s \in Slots, tasks' \in [Slots -> TaskRow],
           \A u \in Slots : u # s => tasks'[u] = tasks[u],
           TaskOK(tasks[s])',
           tasks'[s].live /\ tasks'[s].op \in Frames => (tasks[s].live /\ tasks[s].op \in Frames) \/ Idle
    PROVE  (\A u \in Slots : TaskOK(tasks[u]))' /\ OneFrame'
<1>1. ASSUME NEW u \in Slots PROVE TaskOK(tasks[u])'
    <2>1. CASE u = s BY <2>1
    <2>2. CASE u # s
        <3>1. PICK t \in TaskRow : t = tasks[u] BY DEF LeaseInv, StoreOK
        <3>2. TaskOK(t) BY <3>1 DEF LeaseInv
        <3>3. TaskOK(t)' BY <3>1, <3>2, TaskStays
        <3>4. tasks'[u] = t BY <2>2, <3>1
        <3> QED BY <3>3, <3>4
    <2> QED BY <2>1, <2>2
<1>2. OneFrame'
    BY DEF OneFrame, LeaseInv, Idle, Frames
<1> QED BY <1>1, <1>2

\* A step that leaves the rows, the clock and the supervisor's file alone.
Quiet ==
    /\ UNCHANGED <<wsp, lease, fence, past, file>> /\ confirm' \subseteq confirm
    /\ minted' \subseteq Leases /\ late' \subseteq Leases /\ tomb' \subseteq Leases /\ tomb \subseteq tomb'
    /\ \A l \in tomb' : l \in tomb \/ fence \/ Doomed(l)

\* A quiet step keeps the rows and the file in order.
LEMMA QuietRows ==
    ASSUME LeaseInv, Quiet, tasks' \in [Slots -> TaskRow]
    PROVE  StoreOK' /\ FileOK' /\ (\A l \in Leases : RowOK(l))' /\ Drift
<1> USE DEF Quiet, LeaseInv
<1>1. StoreOK' BY DEF StoreOK, Numbered, Leases
<1>2. FileOK' BY DEF FileOK, Leases, Exited
<1>3. \A l : Doomed(l)' <=> Doomed(l) BY DEF Doomed
<1>4. (\A l \in Leases : RowOK(l))'
    <2> HIDE DEF LeaseInv
    <2> SUFFICES ASSUME NEW l \in Leases PROVE RowOK(l)' BY DEF Leases
    <2>1. RowOK(l) BY DEF LeaseInv
    <2> QED BY <1>3, <2>1 DEF RowOK, isClosed
<1>5. Drift BY <1>3 DEF Drift, Leases
<1> QED BY <1>1, <1>2, <1>4, <1>5

\* A quiet step of one call.
LEMMA QuietStep ==
    ASSUME LeaseInv, Quiet, NEW s \in Slots, tasks' \in [Slots -> TaskRow],
           \A u \in Slots : u # s => tasks'[u] = tasks[u],
           TaskOK(tasks[s])',
           tasks'[s].live /\ tasks'[s].op \in Frames => (tasks[s].live /\ tasks[s].op \in Frames) \/ Idle
    PROVE  LeaseInv'
<1>1. StoreOK' /\ FileOK' /\ (\A l \in Leases : RowOK(l))' /\ Drift BY QuietRows
<1>2. file' = file BY DEF Quiet
<1> QED BY <1>1, <1>2, OneTaskMoves DEF LeaseInv

\* A quiet step that ends its call.
LEMMA QuietEnd ==
    ASSUME LeaseInv, Quiet, NEW s \in Slots, End(s)
    PROVE  LeaseInv'
<1>1. tasks' \in [Slots -> TaskRow] /\ tasks'[s] = NoTask /\ \A u \in Slots : u # s => tasks'[u] = tasks[u]
    BY Ends DEF LeaseInv, StoreOK
<1>2. TaskOK(tasks[s])' BY <1>1, NoTaskOK
<1> QED BY <1>1, <1>2, NoTaskOK, QuietStep

\* A quiet step that takes its call on.
LEMMA QuietMove ==
    ASSUME LeaseInv, Quiet, NEW s \in Slots, NEW p \in TaskPc \ {"none", "delivered", "reply"}, Next1(s, p),
           tasks[s].pc # "none", tasks[s].op \in {"confirm", "revoke"} => p \in Revoking,
           p = "revoked" => tasks[s].lease \in tomb',
           ~fence /\ p \in Revoking => Doomed(tasks[s].lease)
    PROVE  LeaseInv'
<1>1. tasks \in [Slots -> TaskRow] /\ TaskOK(tasks[s]) BY DEF LeaseInv, StoreOK
<1>2. /\ tasks' \in [Slots -> TaskRow] /\ \A u \in Slots : u # s => tasks'[u] = tasks[u]
      /\ tasks'[s].pc = p /\ tasks'[s].lease = tasks[s].lease /\ tasks'[s].op = tasks[s].op
      /\ tasks'[s].live = tasks[s].live
    BY <1>1, Moves
<1>3. \A l : Doomed(l)' <=> Doomed(l) BY DEF Doomed, Quiet
<1>4. TaskOK(tasks[s])'
    <2> HIDE DEF Doomed
    <2> QED BY <1>1, <1>2, <1>3 DEF TaskOK, Quiet, Leases, Installs, Exited
<1> QED BY <1>2, <1>4, QuietStep

\* The calls that only talk to the issuer, or look at a row.
LEMMA IssuerSteps ==
    ASSUME LeaseInv, NEW s \in Slots, deliver(s) \/ mint(s) \/ MintTimeout(s) \/ revoke(s)
    PROVE  LeaseInv'
<1> DEFINE l == tasks[s].lease
<1>0. tasks[s].pc # "none" => l \in Leases BY DEF LeaseInv, TaskOK
<1>1. tomb \subseteq Leases /\ minted \subseteq Leases /\ late \subseteq Leases BY DEF LeaseInv, StoreOK
<1>2. tasks[s].op \in {"confirm", "revoke"} => tasks[s].pc \in Revoking BY DEF LeaseInv, TaskOK
<1>3. ~fence /\ tasks[s].pc \in Revoking => Doomed(l) BY DEF LeaseInv, TaskOK
<1>p. /\ "mint" \in TaskPc \ {"none", "delivered", "reply"} /\ "mint" \notin Revoking
      /\ "issued" \in TaskPc \ {"none", "delivered", "reply"} /\ "issued" \notin Revoking
      /\ "revoked" \in TaskPc \ {"none", "delivered", "reply"}
      /\ "revoked" \in Revoking /\ "tombstone" \in Revoking /\ "deliver" \notin Revoking
    BY DEF TaskPc, Revoking
<1> USE DEF store, issuer, agent, At1
<1>4. CASE deliver(s)
    <2>1. tasks[s].pc = "deliver" /\ (End(s) \/ Next1(s, "mint")) BY <1>4 DEF deliver
    <2>2. Quiet BY <1>1, <1>4 DEF deliver, Quiet
    <2> QED BY <1>2, <1>p, <2>1, <2>2, QuietEnd, QuietMove
<1>5. CASE mint(s)
    <2>1. tasks[s].pc = "mint" /\ (End(s) \/ Next1(s, "issued")) BY <1>5 DEF mint
    <2>2. Quiet BY <1>0, <1>1, <1>5, <2>1 DEF mint, Mint, Quiet
    <2> QED BY <1>2, <1>p, <2>1, <2>2, QuietEnd, QuietMove
<1>6. CASE MintTimeout(s)
    <2>1. End(s) /\ Quiet BY <1>0, <1>1, <1>6 DEF MintTimeout, Quiet
    <2> QED BY <2>1, QuietEnd
<1>7. CASE revoke(s)
    <2>1. tasks[s].pc = "tombstone" /\ UNCHANGED <<store, minted, late, past, agent>> BY <1>7 DEF revoke
    <2>2. CASE tomb' = tomb \cup {l} /\ Next1(s, "revoked")
        <3>1. Quiet BY <1>0, <1>1, <1>3, <1>p, <2>1, <2>2 DEF Quiet
        <3> QED BY <1>3, <1>p, <2>1, <2>2, <3>1, QuietMove
    <2>3. CASE End(s) /\ UNCHANGED tomb
        <3>1. Quiet BY <1>1, <2>1, <2>3 DEF Quiet
        <3> QED BY <2>3, <3>1, QuietEnd
    <2> QED BY <1>7, <2>2, <2>3 DEF revoke
<1> QED BY <1>4, <1>5, <1>6, <1>7

\* A quiet step of no call.
LEMMA QuietStill ==
    ASSUME LeaseInv, Quiet, UNCHANGED tasks
    PROVE  LeaseInv'
<1>1. StoreOK' /\ FileOK' /\ (\A k \in Leases : RowOK(k))' /\ Drift
    BY QuietRows DEF LeaseInv, StoreOK
<1>2. OneFrame' BY DEF OneFrame, LeaseInv
<1>3. ASSUME NEW u \in Slots PROVE TaskOK(tasks[u])'
    <2>1. PICK t \in TaskRow : t = tasks[u] /\ TaskOK(t) BY DEF LeaseInv, StoreOK
    <2>2. TaskOK(t)' BY <1>1, <2>1, TaskStays DEF Quiet
    <2> QED BY <2>1, <2>2
<1> QED BY <1>1, <1>2, <1>3 DEF LeaseInv

\* A mint that the issuer handles late.
LEMMA LateSteps ==
    ASSUME LeaseInv, NEW l \in Leases, LateMint(l)
    PROVE  LeaseInv'
<1>1. /\ UNCHANGED tasks /\ UNCHANGED <<store, tomb, past, agent>>
      /\ minted' \subseteq minted \cup {l} /\ late' \subseteq late
    BY DEF LateMint, Mint
<1>2. Quiet BY <1>1 DEF Quiet, LeaseInv, StoreOK, store, agent
<1> QED BY <1>1, <1>2, QuietStill

\* The calls that begin with a lease that is there: a revocation, a confirmation, a replay.
LEMMA QuietBegin ==
    ASSUME LeaseInv, Quiet, UNCHANGED tomb, NEW s \in Slots, NEW op \in Frames \cup {"revoke"}, NEW l \in Leases, NEW q \in Nat,
           NEW p \in TaskPc \ {"none", "delivered", "reply", "revoked"}, Task(s, op, l, q, p),
           op \in Frames => Idle,
           op \in {"confirm", "revoke"} => p \in Revoking,
           ~fence /\ p \in Revoking => Doomed(l),
           ~fence /\ op \in {"install", "renew"} /\ file # Exited => file <= l
    PROVE  LeaseInv'
<1>1. tasks \in [Slots -> TaskRow] /\ l \in Nat BY DEF LeaseInv, StoreOK, Numbered, Leases
<1> DEFINE t == [op |-> op, lease |-> l, previous |-> q, pc |-> p, live |-> TRUE]
<1>2. /\ tasks' \in [Slots -> TaskRow] /\ \A u \in Slots : u # s => tasks'[u] = tasks[u]
      /\ tasks'[s] = t
    BY <1>1, Begins
<1>3. \A k : Doomed(k)' <=> Doomed(k) BY DEF Doomed, Quiet
<1>4. TaskOK(t)'
    <2> HIDE DEF Doomed
    <2> QED BY <1>1, <1>3 DEF TaskOK, Quiet, Leases, Installs, Exited, Frames
<1>5. tasks'[s].op = op BY <1>2
<1> HIDE DEF t
<1>6. TaskOK(tasks[s])' BY <1>2, <1>4
<1> QED BY <1>2, <1>5, <1>6, QuietStep

\* The revocations begin with a lease that is doomed.
LEMMA RevokeSteps ==
    ASSUME LeaseInv, NEW s \in Slots, RevokeOpen(s)
    PROVE  LeaseInv'
<1>1. PICK l \in Leases :
          /\ \/ lease[l].purpose = "setup"
             \/ lease[l].state = "revoking"
             \/ l \in past
          /\ Task(s, "revoke", l, 0, "revoke")
    BY DEF RevokeOpen, Pending
<1>2. Quiet /\ UNCHANGED tomb BY DEF RevokeOpen, Quiet, store, issuer, agent, LeaseInv, StoreOK
<1>3. Doomed(l) BY <1>1 DEF Doomed
<1>4. /\ "revoke" \in Frames \cup {"revoke"} /\ "revoke" \notin Frames /\ "revoke" \in Revoking
      /\ "revoke" \in TaskPc \ {"none", "delivered", "reply", "revoked"}
    BY DEF Frames, TaskPc, Revoking
<1> QED BY <1>1, <1>2, <1>3, <1>4, QuietBegin

\* A confirmation is about a lease the supervisor has replaced.
LEMMA ConfirmSteps ==
    ASSUME LeaseInv, NEW s \in Slots, completeRenewal(s)
    PROVE  LeaseInv'
<1>1. PICK x \in confirm :
        \/ confirm' = confirm \ {x} /\ UNCHANGED tasks
        \/ Task(s, "confirm", x.previous, 0, "revoke") /\ UNCHANGED confirm
    BY DEF completeRenewal
<1>2. Idle BY DEF completeRenewal
<1>3. Quiet /\ UNCHANGED tomb
    <2>1. UNCHANGED <<store, issuer, past, file>> BY DEF completeRenewal
    <2> QED BY <1>1, <2>1 DEF Quiet, store, issuer, LeaseInv, StoreOK
<1>4. x.previous \in Leases /\ (~fence => Doomed(x.previous)) BY DEF LeaseInv, FileOK, Doomed
<1>5. /\ "confirm" \in Frames \cup {"revoke"} /\ "revoke" \in Revoking
      /\ "revoke" \in TaskPc \ {"none", "delivered", "reply", "revoked"}
    BY DEF Frames, TaskPc, Revoking
<1>6. CASE UNCHANGED tasks BY <1>3, <1>6, QuietStill
<1>7. CASE Task(s, "confirm", x.previous, 0, "revoke") BY <1>2, <1>3, <1>4, <1>5, <1>7, QuietBegin
<1> QED BY <1>1, <1>6, <1>7

--------------------------------------------------------------------------------
\* One row moves forward.
RowMove(l, r) ==
    /\ UNCHANGED <<wsp, fence, past, file, issuer>> /\ confirm' \subseteq confirm
    /\ l \in Leases /\ r \in LeaseRow /\ lease' = [lease EXCEPT ![l] = r]
    /\ r.purpose = lease[l].purpose /\ r.request = lease[l].request
    /\ isClosed(l) => r.state = lease[l].state
    /\ r.state = "revoked" => l \in tomb
    /\ r.state = "expired" => l \in past
    /\ r.state = "requested" => lease[l].state = "requested"
    /\ lease[l].state = "revoking" => r.state \in {"revoking", "revoked", "expired"}
    /\ ~fence /\ lease[l].state = "delivered" => r.state = "delivered" \/ Doomed(l)

\* One row moves, and the others and the file stay in order.
LEMMA RowMoves ==
    ASSUME LeaseInv, tasks' \in [Slots -> TaskRow], NEW l, NEW r, RowMove(l, r)
    PROVE  StoreOK' /\ FileOK' /\ (\A k \in Leases : RowOK(k))' /\ Drift
<1> USE DEF RowMove, LeaseInv
<1>0. PICK n : Numbered(n) BY DEF StoreOK
<1>1. lease' \in [1 .. n -> LeaseRow] /\ Leases = 1 .. n /\ Leases' = 1 .. n
    BY <1>0 DEF Numbered, Leases
<1>2. lease'[l] = r /\ \A k \in Leases : k # l => lease'[k] = lease[k] BY <1>0 DEF Numbered, Leases
<1>3. StoreOK' BY <1>0, <1>1 DEF StoreOK, Numbered, issuer
<1>4. \A k \in Leases : Doomed(k) => Doomed(k)'
    <2> SUFFICES ASSUME NEW k \in Leases, Doomed(k) PROVE Doomed(k)' OBVIOUS
    <2>1. CASE k = l BY <1>2, <2>1 DEF Doomed, isClosed
    <2>2. CASE k # l BY <1>2, <2>2 DEF Doomed
    <2> QED BY <2>1, <2>2
<1>5. FileOK'
    <2>1. FileOK OBVIOUS
    <2>2. file \in Leases /\ ~fence => ~Doomed(file)
        <3>1. file \in Leases => file \in Nat BY <1>1
        <3> QED BY <2>1, <3>1 DEF FileOK, Doomed
    <2>3. ~fence /\ file \in Leases => lease'[file].state = "delivered" /\ lease'[file].purpose = "runtime"
        BY <1>2, <2>1, <2>2 DEF FileOK
    <2> QED BY <1>1, <2>1, <2>3 DEF FileOK, Exited
<1>6. (\A k \in Leases : RowOK(k))'
    <2> SUFFICES ASSUME NEW k \in Leases PROVE RowOK(k)' BY <1>1
    <2>1. RowOK(k) /\ (Doomed(k) => Doomed(k)') BY <1>4
    <2> HIDE DEF LeaseInv
    <2>2. CASE k = l BY <1>2, <2>1, <2>2 DEF RowOK, isClosed, issuer
    <2>3. CASE k # l BY <1>2, <2>1, <2>3 DEF RowOK, isClosed, issuer
    <2> QED BY <2>2, <2>3
<1>7. Drift
    <2> HIDE DEF LeaseInv
    <2>1. \A k \in Leases :
          /\ lease'[k].purpose = lease[k].purpose
          /\ lease[k].state # "requested" => lease'[k].state # "requested"
          /\ ~fence /\ lease[k].state = "delivered" => lease'[k].state = "delivered" \/ Doomed(k)
        BY <1>2
    <2> QED BY <1>1, <1>4, <2>1 DEF Drift, issuer
<1> QED BY <1>3, <1>5, <1>6, <1>7

\* One row moves in a step of one call.
LEMMA RowStep ==
    ASSUME LeaseInv, NEW l, NEW r, RowMove(l, r), NEW s \in Slots, tasks' \in [Slots -> TaskRow],
           \A u \in Slots : u # s => tasks'[u] = tasks[u],
           TaskOK(tasks[s])',
           tasks'[s].live /\ tasks'[s].op \in Frames => (tasks[s].live /\ tasks[s].op \in Frames) \/ Idle
    PROVE  LeaseInv'
<1>1. StoreOK' /\ FileOK' /\ (\A k \in Leases : RowOK(k))' /\ Drift BY RowMoves
<1>2. file' = file BY DEF RowMove
<1> QED BY <1>1, <1>2, OneTaskMoves DEF LeaseInv

\* One row moves, and the call ends.
LEMMA RowEnd ==
    ASSUME LeaseInv, NEW s \in Slots, End(s), NEW l, NEW r, RowMove(l, r)
    PROVE  LeaseInv'
<1>1. tasks' \in [Slots -> TaskRow] /\ tasks'[s] = NoTask /\ \A u \in Slots : u # s => tasks'[u] = tasks[u]
    BY Ends DEF LeaseInv, StoreOK
<1>2. TaskOK(tasks[s])' BY <1>1, NoTaskOK
<1> QED BY <1>1, <1>2, NoTaskOK, RowStep

\* One row moves, and the call about it goes on.
LEMMA RowGoes ==
    ASSUME LeaseInv, NEW s \in Slots, NEW l, l = tasks[s].lease, NEW r, RowMove(l, r),
           NEW p \in TaskPc \ {"none", "revoked"}, Next1(s, p), tasks[s].pc # "none",
           tasks[s].op \in {"confirm", "revoke"} => p \in Revoking,
           ~fence /\ p \in Revoking => r.state = "revoking" \/ Doomed(l),
           p = "delivered" => r.state # "requested",
           p = "reply" => r.state = "delivered"
    PROVE  LeaseInv'
<1>1. tasks \in [Slots -> TaskRow] /\ TaskOK(tasks[s]) BY DEF LeaseInv, StoreOK
<1>2. /\ tasks' \in [Slots -> TaskRow] /\ \A u \in Slots : u # s => tasks'[u] = tasks[u]
      /\ tasks'[s].pc = p /\ tasks'[s].lease = l /\ tasks'[s].op = tasks[s].op
      /\ tasks'[s].live = tasks[s].live
    BY <1>1, Moves
<1>3. Drift BY <1>2, RowMoves
<1>4. lease'[l] = r /\ l \in Leases /\ l \in Leases' BY DEF RowMove, LeaseInv, StoreOK, Numbered, Leases
<1>5. UNCHANGED <<fence, file, past, tomb>> /\ r.purpose = lease[l].purpose BY DEF RowMove, issuer
<1>6. ~fence /\ p \in Revoking => Doomed(l)' 
    <2>1. r.state = "revoking" => Doomed(l)' BY <1>4 DEF Doomed
    <2>2. ~fence /\ Doomed(l) => Doomed(l)' BY <1>3, <1>4, <1>5 DEF Drift
    <2> QED BY <2>1, <2>2
<1>7. TaskOK(tasks[s])'
    <2>1. Installs(tasks[s])' <=> Installs(tasks[s]) BY <1>2 DEF Installs
    <2>2. ~fence /\ Installs(tasks[s]) /\ file # Exited /\ r.purpose = "runtime" => file <= l
        BY <1>1, <1>5 DEF TaskOK
    <2>3. Exited' = Exited BY DEF Exited
    <2>4. /\ tasks'[s].op \in {"confirm", "revoke"} => p \in Revoking
          /\ tasks'[s].op = "none" <=> p = "none"
        BY <1>1, <1>2 DEF TaskOK
    <2>5. ~fence' => /\ p \in Revoking => Doomed(l)'
                     /\ p = "delivered" => lease'[l].state # "requested"
                     /\ Installs(tasks[s])' /\ file' # Exited' /\ lease'[l].purpose = "runtime" =>
                       /\ file' <= l
                       /\ p = "reply" /\ l \notin past' => lease'[l].state = "delivered"
        BY <1>4, <1>5, <1>6, <2>1, <2>2, <2>3
    <2> HIDE DEF Doomed, Installs
    <2> QED BY <1>2, <1>4, <2>4, <2>5 DEF TaskOK
<1> QED BY <1>2, <1>7, RowStep

\* What the service records of a lease it has talked to the issuer about.
LEMMA RecordSteps ==
    ASSUME LeaseInv, NEW s \in Slots,
           recordIssued(s) \/ recordDelivered(s) \/ requestRevocation(s) \/ recordRevoked(s)
    PROVE  LeaseInv'
<1>0. PICK l : l = tasks[s].lease OBVIOUS
<1>1. /\ TaskOK(tasks[s]) /\ tasks \in [Slots -> TaskRow]
      /\ (tasks[s].pc # "none" => l \in Leases /\ lease[l] \in LeaseRow /\ RowOK(l))
    BY <1>0 DEF LeaseInv, StoreOK, TaskOK, Numbered, Leases
<1>2. ~fence => wsp \in {"provisioning", "connected", "ready"} BY DEF LeaseInv, StoreOK
<1>3. ~fence => leaseWorkspaceActive("runtime") BY <1>2 DEF leaseWorkspaceActive
<1>p. /\ {"revoke", "delivered", "reply", "tombstone"} \subseteq TaskPc \ {"none", "revoked"}
      /\ "revoke" \in Revoking /\ "tombstone" \in Revoking /\ "issued" \notin Revoking
      /\ "delivered" \notin Revoking /\ "reply" \notin Revoking /\ "revoked" \in Revoking
    BY DEF TaskPc, Revoking
<1> USE DEF At1, agent
<1>4. CASE recordIssued(s)
    <2> DEFINE stopped == lease[l].state = "revoking" \/ fence \/ ~leaseWorkspaceActive(lease[l].purpose)
    <2>1. /\ tasks[s].pc = "issued" /\ UNCHANGED <<wsp, fence, past, file, confirm, issuer>>
          /\ Next1(s, IF ~isClosed(l) /\ stopped THEN "revoke" ELSE "delivered")
          /\ lease' = IF isClosed(l) THEN lease
                      ELSE [lease EXCEPT ![l].issued = TRUE,
                              ![l].state = IF stopped THEN "revoking" ELSE IF @ = "delivered" THEN @ ELSE "issued"]
        BY <1>0, <1>4 DEF recordIssued
    <2>2. stopped /\ ~fence /\ lease[l].state = "delivered" => Doomed(l)
        BY <1>1, <1>3, <2>1 DEF Doomed, LeaseRow
    <2>3. CASE isClosed(l)
        <3>1. RowMove(l, lease[l])
            BY <1>1, <2>1, <2>3 DEF RowMove, RowOK, LeaseInv, StoreOK, Numbered
        <3>2. Next1(s, "delivered") /\ lease[l].state # "requested" BY <2>1, <2>3 DEF isClosed
        <3> QED BY <1>0, <1>1, <1>p, <2>1, <3>1, <3>2, RowGoes DEF TaskOK
    <2>4. CASE ~isClosed(l) /\ stopped
        <3>1. PICK r : r = [lease[l] EXCEPT !.issued = TRUE, !.state = "revoking"] OBVIOUS
        <3>2. r \in LeaseRow /\ r.state = "revoking" /\ r.purpose = lease[l].purpose /\ r.request = lease[l].request
            BY <1>1, <2>1, <3>1 DEF LeaseRow, LeaseState
        <3>3. lease' = [lease EXCEPT ![l] = r] BY <1>1, <2>1, <2>4, <3>1 DEF LeaseRow, LeaseInv, StoreOK, Numbered
        <3>4. RowMove(l, r)
            BY <1>1, <2>1, <2>2, <2>4, <3>2, <3>3 DEF RowMove, isClosed
        <3>5. Next1(s, "revoke") BY <2>1, <2>4
        <3> QED BY <1>0, <1>p, <2>1, <3>2, <3>4, <3>5, RowGoes
    <2>5. CASE ~isClosed(l) /\ ~stopped
        <3>1. PICK r : r = [lease[l] EXCEPT !.issued = TRUE, !.state = IF @ = "delivered" THEN @ ELSE "issued"] OBVIOUS
        <3>2. /\ r \in LeaseRow /\ r.purpose = lease[l].purpose /\ r.request = lease[l].request
              /\ r.state \in {"issued", "delivered"} /\ (lease[l].state = "delivered" => r.state = "delivered")
            BY <1>1, <2>1, <3>1 DEF LeaseRow, LeaseState
        <3>3. lease' = [lease EXCEPT ![l] = r] BY <1>1, <2>1, <2>5, <3>1 DEF LeaseRow, LeaseInv, StoreOK, Numbered
        <3>4. RowMove(l, r)
            BY <1>1, <2>1, <2>5, <3>2, <3>3 DEF RowMove, isClosed
        <3>5. Next1(s, "delivered") BY <2>1, <2>5
        <3> QED BY <1>0, <1>1, <1>p, <2>1, <3>2, <3>4, <3>5, RowGoes DEF TaskOK
    <2> QED BY <2>3, <2>4, <2>5
<1>5. CASE recordDelivered(s)
    <2>1. tasks[s].pc = "delivered" /\ UNCHANGED <<wsp, fence, past, file, confirm, issuer>>
        BY <1>5 DEF recordDelivered
    <2>2. CASE /\ lease[l].state \in {"issued", "delivered"}
               /\ lease' = [lease EXCEPT ![l].state = "delivered", ![l].delivered = TRUE] /\ Next1(s, "reply")
        <3>1. PICK r : r = [lease[l] EXCEPT !.state = "delivered", !.delivered = TRUE] OBVIOUS
        <3>2. /\ r \in LeaseRow /\ r.purpose = lease[l].purpose /\ r.request = lease[l].request
              /\ r.state = "delivered"
            BY <1>1, <2>1, <3>1 DEF LeaseRow, LeaseState
        <3>3. lease' = [lease EXCEPT ![l] = r] BY <1>1, <2>1, <2>2, <3>1 DEF LeaseRow, LeaseInv, StoreOK, Numbered
        <3>4. RowMove(l, r) BY <1>1, <2>1, <2>2, <3>2, <3>3 DEF RowMove, isClosed
        <3> QED BY <1>0, <1>1, <1>p, <2>1, <2>2, <3>2, <3>4, RowGoes DEF TaskOK
    <2>3. CASE /\ \/ lease[l].state \notin {"issued", "delivered"} \/ l \in past \/ fence
                  \/ ~leaseWorkspaceActive(lease[l].purpose)
               /\ Next1(s, "revoke") /\ UNCHANGED lease
        <3>1. RowMove(l, lease[l]) BY <1>1, <2>1, <2>3 DEF RowMove, RowOK, LeaseInv, StoreOK, Numbered
        <3>2. ~fence => Doomed(l)
            <4>1. ~fence => lease[l].state # "requested" BY <1>0, <1>1, <2>1 DEF TaskOK
            <4>2. lease[l].purpose \in {"setup", "runtime"} /\ lease[l].state \in LeaseState BY <1>1, <2>1 DEF LeaseRow
            <4> QED BY <1>3, <2>3, <4>1, <4>2 DEF Doomed, LeaseState
        <3> QED BY <1>0, <1>p, <2>1, <2>3, <3>1, <3>2, RowGoes
    <2> QED BY <1>0, <1>5, <2>2, <2>3 DEF recordDelivered
<1>6. CASE requestRevocation(s)
    <2>1. tasks[s].pc = "revoke" /\ UNCHANGED <<wsp, fence, past, issuer>> BY <1>6 DEF requestRevocation
    <2>d. ~fence => Doomed(l) BY <1>0, <1>1, <1>p, <2>1 DEF TaskOK
    <2>2. Done1(s) => End(s) /\ UNCHANGED file /\ confirm' \subseteq confirm BY DEF Done1
    <2>3. CASE isClosed(l) /\ Done1(s) /\ UNCHANGED lease
        <3>1. RowMove(l, lease[l]) BY <1>1, <2>1, <2>2, <2>3 DEF RowMove, RowOK, LeaseInv, StoreOK, Numbered
        <3> QED BY <2>2, <2>3, <3>1, RowEnd
    <2>4. CASE /\ ~isClosed(l) /\ l \in past
               /\ lease' = [lease EXCEPT ![l].state = "expired"] /\ Done1(s)
        <3>1. PICK r : r = [lease[l] EXCEPT !.state = "expired"] OBVIOUS
        <3>2. r \in LeaseRow /\ r.purpose = lease[l].purpose /\ r.request = lease[l].request /\ r.state = "expired"
            BY <1>1, <2>1, <3>1 DEF LeaseRow, LeaseState
        <3>3. lease' = [lease EXCEPT ![l] = r] BY <1>1, <2>1, <2>4, <3>1 DEF LeaseRow, LeaseInv, StoreOK, Numbered
        <3>4. RowMove(l, r) BY <1>1, <2>1, <2>2, <2>4, <2>d, <3>2, <3>3 DEF RowMove
        <3> QED BY <2>2, <2>4, <3>4, RowEnd
    <2>5. CASE /\ ~isClosed(l) /\ UNCHANGED agent
               /\ lease' = [lease EXCEPT ![l].state = "revoking"] /\ Next1(s, "tombstone")
        <3>1. PICK r : r = [lease[l] EXCEPT !.state = "revoking"] OBVIOUS
        <3>2. r \in LeaseRow /\ r.purpose = lease[l].purpose /\ r.request = lease[l].request /\ r.state = "revoking"
            BY <1>1, <2>1, <3>1 DEF LeaseRow, LeaseState
        <3>3. lease' = [lease EXCEPT ![l] = r] BY <1>1, <2>1, <2>5, <3>1 DEF LeaseRow, LeaseInv, StoreOK, Numbered
        <3>4. RowMove(l, r) BY <1>1, <2>1, <2>5, <2>d, <3>2, <3>3 DEF RowMove
        <3> QED BY <1>0, <1>p, <2>1, <2>5, <3>2, <3>4, RowGoes
    <2> QED BY <1>0, <1>6, <2>3, <2>4, <2>5 DEF requestRevocation
<1>7. CASE recordRevoked(s)
    <2>1. tasks[s].pc = "revoked" /\ UNCHANGED <<wsp, fence, past, issuer>>
          /\ End(s) /\ UNCHANGED file /\ confirm' \subseteq confirm
          /\ lease' = [lease EXCEPT ![l].state = IF @ = "revoking" THEN "revoked" ELSE @]
        BY <1>0, <1>7 DEF recordRevoked, Done1
    <2>2. l \in tomb BY <1>0, <1>1, <2>1 DEF TaskOK
    <2>3. PICK r : r = [lease[l] EXCEPT !.state = IF @ = "revoking" THEN "revoked" ELSE @] OBVIOUS
    <2>4. /\ r \in LeaseRow /\ r.purpose = lease[l].purpose /\ r.request = lease[l].request
          /\ r.state = IF lease[l].state = "revoking" THEN "revoked" ELSE lease[l].state
        BY <1>1, <2>1, <2>3 DEF LeaseRow, LeaseState
    <2>5. lease' = [lease EXCEPT ![l] = r] BY <1>1, <2>1, <2>3 DEF LeaseRow, LeaseInv, StoreOK, Numbered
    <2>6. RowMove(l, r) BY <1>1, <2>1, <2>2, <2>4, <2>5 DEF RowMove, RowOK, isClosed
    <2> QED BY <2>1, <2>6, RowEnd
<1> QED BY <1>4, <1>5, <1>6, <1>7

--------------------------------------------------------------------------------
\* The supervisor installs the lease of a reply.
LEMMA InstallSteps ==
    ASSUME LeaseInv, NEW s \in Slots, Install1(s)
    PROVE  LeaseInv'
<1>1. /\ tasks[s].pc = "reply" /\ End(s) /\ UNCHANGED <<wsp, lease, fence, past, issuer>>
    BY DEF Install1, At1, store
<1>2. CASE UNCHANGED agent
    <2>1. Quiet BY <1>1, <1>2 DEF Quiet, agent, issuer, LeaseInv, StoreOK
    <2> QED BY <1>1, <2>1, QuietEnd
<1>3. CASE ~UNCHANGED agent
    <2>0. PICK l : l = tasks[s].lease OBVIOUS
    <2>1. /\ tasks[s].live /\ file # Exited /\ lease[l].purpose = "runtime" /\ l \notin past
          /\ file' = l
          /\ confirm' = IF file \notin {0, l} THEN confirm \cup {[previous |-> file, installed |-> l]} ELSE confirm
        BY <1>3, <2>0 DEF Install1
    <2>2. TaskOK(tasks[s]) /\ tasks[s] \in TaskRow /\ FileOK BY DEF LeaseInv, StoreOK
    <2>3. l \in Leases /\ Installs(tasks[s])
        BY <1>1, <2>0, <2>1, <2>2 DEF TaskOK, Installs, TaskRow, Frames, Revoking
    <2>4. ~fence => file <= l /\ lease[l].state = "delivered"
        BY <1>1, <2>0, <2>1, <2>2, <2>3 DEF TaskOK
    <2>5. /\ tasks' \in [Slots -> TaskRow] /\ tasks'[s] = NoTask /\ \A u \in Slots : u # s => tasks'[u] = tasks[u]
        BY <1>1, Ends DEF LeaseInv, StoreOK
    <2>6. file \in Leases \cup {0} /\ file \in Nat /\ Leases \subseteq Nat /\ l # Exited
        BY <2>1, <2>2, <2>3 DEF FileOK, LeaseInv, StoreOK, Numbered, Leases, Exited
    <2>7. StoreOK' BY <1>1, <2>5 DEF LeaseInv, StoreOK, Numbered, Leases, issuer
    <2>8. FileOK'
        <3>1. \A x \in confirm' : x.previous \in Leases /\ (~fence => x.previous < l)
            <4> SUFFICES ASSUME NEW x \in confirm' PROVE x.previous \in Leases /\ (~fence => x.previous < l)
                OBVIOUS
            <4>1. CASE x \in confirm
                <5>1. x.previous \in Leases /\ (~fence => x.previous < file) BY <2>2, <4>1 DEF FileOK
                <5>2. l \in Nat /\ x.previous \in Nat BY <2>3, <2>6, <5>1
                <5>3. ~fence => x.previous < l BY <2>4, <2>6, <5>1, <5>2
                <5> QED BY <5>1, <5>3
            <4>2. CASE x \notin confirm
                <5>1. x.previous = file /\ file # 0 /\ file # l BY <2>1, <4>2
                <5>2. file \in Leases BY <2>6, <5>1
                <5>3. ~fence => file < l
                    <6>1. l \in Nat BY <2>3, <2>6
                    <6> QED BY <2>4, <2>6, <5>1, <6>1
                <5> QED BY <5>1, <5>2, <5>3
            <4> QED BY <4>1, <4>2
        <3> QED BY <1>1, <2>1, <2>3, <2>4, <3>1 DEF FileOK, Leases
    <2>9. \A k \in Leases : ~fence /\ Doomed(k) => Doomed(k)' BY <1>1, <2>1, <2>3, <2>4, <2>6 DEF Doomed
    <2>10. Drift BY <1>1, <2>9 DEF Drift, Leases, issuer
    <2>11. (\A k \in Leases : RowOK(k))'
        <3> SUFFICES ASSUME NEW k \in Leases PROVE RowOK(k)' BY <1>1 DEF Leases
        <3>1. RowOK(k) BY DEF LeaseInv
        <3> QED BY <1>1, <2>9, <3>1 DEF RowOK, isClosed, issuer
    <2>12. OneFrame' BY <2>5 DEF OneFrame, LeaseInv, NoTask
    <2>13. ASSUME NEW u \in Slots PROVE TaskOK(tasks[u])'
        <3>1. CASE u = s BY <2>5, <3>1, NoTaskOK
        <3>2. CASE u # s
            <4>1. PICK t \in TaskRow : t = tasks[u] /\ TaskOK(t) BY DEF LeaseInv, StoreOK
            <4>2. ~Installs(t) BY <2>3, <3>2, <4>1 DEF LeaseInv, OneFrame, Installs, Frames
            <4>3. TaskOK(t)' BY <2>10, <4>1, <4>2, TaskStays
            <4> QED BY <2>5, <3>2, <4>1, <4>3
        <3> QED BY <3>1, <3>2
    <2> QED BY <2>7, <2>8, <2>11, <2>12, <2>13 DEF LeaseInv
<1> QED BY <1>2, <1>3

--------------------------------------------------------------------------------
\* Steps that move no call.
LEMMA StillTasks ==
    ASSUME LeaseInv, Drift, file' \in {file, Exited}, UNCHANGED tasks
    PROVE  OneFrame' /\ (\A u \in Slots : TaskOK(tasks[u]))'
<1>1. OneFrame' BY DEF OneFrame, LeaseInv
<1>2. ASSUME NEW u \in Slots PROVE TaskOK(tasks[u])'
    <2>1. PICK t \in TaskRow : t = tasks[u] /\ TaskOK(t) BY DEF LeaseInv, StoreOK
    <2>2. TaskOK(t)' BY <2>1, TaskStays
    <2> QED BY <2>1, <2>2
<1> QED BY <1>1, <1>2

\* The fence: every open lease is to be revoked.
LEMMA FenceRows ==
    ASSUME LeaseInv, fenceWorkspaceLeaseRows, UNCHANGED <<minted, tomb, past, file, confirm>>,
           late' \subseteq Leases, wsp' \in {wsp, "terminating", "ended"},
           wsp' = "ended" => wsp = "ended" \/ \A l \in Leases : isClosed(l), tasks' \in [Slots -> TaskRow]
    PROVE  StoreOK' /\ FileOK' /\ (\A k \in Leases : RowOK(k))' /\ Drift
<1>0. PICK n : Numbered(n) BY DEF LeaseInv, StoreOK
<1>1. Leases = 1 .. n /\ DOMAIN lease = 1 .. n BY <1>0 DEF Numbered, Leases
<1>2. \A l \in Leases : /\ lease[l] \in LeaseRow
                        /\ [lease[l] EXCEPT !.state = "revoking"] \in LeaseRow
                        /\ [lease[l] EXCEPT !.state = "revoking"].state = "revoking"
                        /\ [lease[l] EXCEPT !.state = "revoking"].request = lease[l].request
    BY <1>0, <1>1 DEF Numbered, LeaseRow, LeaseState
<1>3. fence' = TRUE /\ lease' \in [1 .. n -> LeaseRow]
    BY <1>1, <1>2 DEF fenceWorkspaceLeaseRows
<1>4. Leases' = Leases BY <1>1, <1>3 DEF Leases
<1>5. \A l \in Leases : /\ lease'[l].request = lease[l].request
                        /\ isClosed(l) => lease'[l] = lease[l]
                        /\ ~isClosed(l) => lease'[l].state = "revoking"
    BY <1>2 DEF fenceWorkspaceLeaseRows
<1>6. StoreOK' BY <1>0, <1>3, <1>4 DEF LeaseInv, StoreOK, Numbered
<1>7. FileOK' BY <1>3, <1>4 DEF LeaseInv, FileOK, Exited
<1>8. Drift BY <1>3, <1>4 DEF Drift
<1>9. (\A k \in Leases : RowOK(k))'
    <2> SUFFICES ASSUME NEW k \in Leases PROVE RowOK(k)' BY <1>4
    <2>1. RowOK(k) BY DEF LeaseInv
    <2>2. CASE isClosed(k) BY <1>3, <1>5, <2>1, <2>2 DEF RowOK, isClosed
    <2>3. CASE ~isClosed(k) BY <1>3, <1>5, <2>1, <2>3 DEF RowOK, isClosed
    <2> QED BY <2>2, <2>3
<1> QED BY <1>6, <1>7, <1>8, <1>9

\* The workspace moves on, stops or ends, the secret is retired, the server restarts.
LEMMA WorkspaceSteps ==
    ASSUME LeaseInv, Advance \/ Stop \/ finish \/ retireSecret \/ Restart1
    PROVE  LeaseInv'
<1>t. tasks \in [Slots -> TaskRow] /\ late \subseteq Leases BY DEF LeaseInv, StoreOK
<1> USE DEF issuer, agent
<1>1. CASE Advance
    <2>1. /\ UNCHANGED <<lease, fence, tasks, minted, tomb, late, past, file, confirm>>
          /\ wsp' \in {"connected", "ready"}
        BY <1>1 DEF Advance
    <2>2. StoreOK' BY <2>1 DEF LeaseInv, StoreOK, Numbered, Leases
    <2>3. FileOK' BY <2>1 DEF LeaseInv, FileOK, Leases, Exited
    <2>4. \A k : Doomed(k)' <=> Doomed(k) BY <2>1 DEF Doomed
    <2>5. (\A k \in Leases : RowOK(k))'
        <3> SUFFICES ASSUME NEW k \in Leases PROVE RowOK(k)' BY <2>1 DEF Leases
        <3>1. RowOK(k) BY DEF LeaseInv
        <3> QED BY <2>1, <2>4, <3>1 DEF RowOK, isClosed
    <2>6. Drift BY <2>1, <2>4 DEF Drift, Leases
    <2> QED BY <2>1, <2>2, <2>3, <2>5, <2>6, StillTasks DEF LeaseInv
<1>2. CASE Stop \/ finish \/ (retireSecret /\ Pending # {})
    <2>1. /\ fenceWorkspaceLeaseRows /\ UNCHANGED <<tasks, minted, tomb, late, past, file, confirm>>
          /\ wsp' \in {wsp, "terminating", "ended"}
          /\ wsp' = "ended" => wsp = "ended" \/ \A l \in Leases : isClosed(l)
        BY <1>2 DEF Stop, finish, retireSecret
    <2>2. StoreOK' /\ FileOK' /\ (\A k \in Leases : RowOK(k))' /\ Drift BY <1>t, <2>1, FenceRows
    <2> QED BY <2>1, <2>2, StillTasks DEF LeaseInv
<1>3. CASE retireSecret /\ Pending = {}
    <2>1. Quiet /\ UNCHANGED tasks BY <1>3 DEF retireSecret, Quiet, LeaseInv, StoreOK
    <2> QED BY <2>1, QuietStill
<1>4. CASE Restart1
    <2>1. /\ tasks' = [s \in Slots |-> NoTask] /\ UNCHANGED <<minted, tomb, past, file, confirm>>
          /\ late' = late \cup {tasks[s].lease : s \in {t \in Slots : At1(t, "mint")}}
        BY <1>4 DEF Restart1
    <2>2. tasks' \in [Slots -> TaskRow] BY <2>1 DEF NoTask, TaskRow, TaskPc
    <2>3. late' \subseteq Leases BY <1>t, <2>1 DEF LeaseInv, TaskOK, At1
    <2>4. OneFrame' BY <2>1 DEF OneFrame, NoTask
    <2>5. (\A u \in Slots : TaskOK(tasks[u]))'
        <3> SUFFICES ASSUME NEW u \in Slots PROVE TaskOK(tasks[u])' OBVIOUS
        <3> QED BY <2>1, NoTaskOK
    <2>6. CASE Pending # {} /\ wsp # "ended"
        <3>1. fenceWorkspaceLeaseRows /\ wsp' = "terminating" BY <1>4, <2>6 DEF Restart1
        <3>2. StoreOK' /\ FileOK' /\ (\A k \in Leases : RowOK(k))' BY <2>1, <2>2, <2>3, <3>1, FenceRows
        <3> QED BY <2>4, <2>5, <3>2 DEF LeaseInv
    <2>7. CASE ~(Pending # {} /\ wsp # "ended")
        <3>1. Quiet BY <1>4, <2>1, <2>3, <2>7 DEF Restart1, Quiet, LeaseInv, StoreOK
        <3>2. StoreOK' /\ FileOK' /\ (\A k \in Leases : RowOK(k))' BY <2>2, <3>1, QuietRows
        <3> QED BY <2>4, <2>5, <3>2 DEF LeaseInv
    <2> QED BY <2>6, <2>7
<1> QED BY <1>1, <1>2, <1>3, <1>4

\* A lease expires, and a supervisor that holds it is gone.
LEMMA ExpireSteps ==
    ASSUME LeaseInv, NEW l \in Leases, Expire(l)
    PROVE  LeaseInv'
<1>1. /\ past' = past \cup {l} /\ UNCHANGED <<wsp, lease, fence, tasks, minted, tomb, late>>
      /\ IF file = l THEN file' = Exited /\ confirm' = {} ELSE UNCHANGED <<file, confirm>>
    BY DEF Expire, store, issuer, agent
<1>2. StoreOK' BY <1>1 DEF LeaseInv, StoreOK, Numbered, Leases
<1>3. Leases \subseteq 1 .. MaxLeases /\ Exited = MaxLeases + 1 /\ MaxLeases \in Nat
    BY DEF LeaseInv, StoreOK, Numbered, Leases, Exited
<1>4. FileOK'
    <2>1. FileOK BY DEF LeaseInv
    <2> QED BY <1>1, <1>3, <2>1 DEF FileOK, Leases, Exited
<1>5. \A k \in Leases : Doomed(k) => Doomed(k)'
    <2> SUFFICES ASSUME NEW k \in Leases, Doomed(k) PROVE Doomed(k)' OBVIOUS
    <2>1. CASE file = l
        <3>1. k < file' BY <1>1, <1>3, <2>1
        <3> QED BY <3>1 DEF Doomed
    <2>2. CASE file # l BY <1>1, <2>2 DEF Doomed
    <2> QED BY <2>1, <2>2
<1>6. Drift BY <1>1, <1>5 DEF Drift, Leases
<1>7. (\A k \in Leases : RowOK(k))'
    <2> SUFFICES ASSUME NEW k \in Leases PROVE RowOK(k)' BY <1>1 DEF Leases
    <2>1. RowOK(k) BY DEF LeaseInv
    <2> QED BY <1>1, <1>5, <2>1 DEF RowOK, isClosed
<1> QED BY <1>1, <1>2, <1>4, <1>6, <1>7, StillTasks DEF LeaseInv

--------------------------------------------------------------------------------
\* Every set of numbers that is not empty has a least one.
LEMMA LeastNumber ==
    ASSUME NEW T, T \subseteq Nat, T # {}
    PROVE  \E m \in T : \A n \in T : m <= n
<1>1. \A m, n \in Nat : m < n => <<m, n>> \in OpToRel(<, Nat)
  BY DEF OpToRel
<1>2. ASSUME NEW R, IsWellFoundedOn(R, Nat), \A m, n \in Nat : m < n => <<m, n>> \in R
      PROVE  \E m \in T : \A n \in T : m <= n
  <2>1. PICK m \in T : \A n \in T : ~(<<n, m>> \in R)
    BY ONLY IsWellFoundedOn(R, Nat), T \subseteq Nat, T # {}, WFMin
  <2>2. ASSUME NEW n \in T PROVE m <= n
    <3>1. m \in Nat /\ n \in Nat
      OBVIOUS
    <3>2. ~(n < m)
      BY <1>2, <2>1, <3>1, Zenon
    <3> QED
      BY <3>1, <3>2
  <2> QED
    BY <2>2
<1> QED
  BY <1>1, <1>2, NatLessThanWellFounded

\* A set of lease numbers that is not empty has a greatest one.
LEMMA GreatestLease ==
    ASSUME NEW n \in Nat, NEW S, S \subseteq 1 .. n, S # {}
    PROVE  Max(S) \in S /\ \A y \in S : y <= Max(S)
<1> DEFINE T == {m \in Nat : \A y \in S : y <= m}
<1>1. n \in T OBVIOUS
<1>2. PICK m \in T : \A k \in T : m <= k BY <1>1, LeastNumber
<1>3. m \in S
    <2> SUFFICES ASSUME m \notin S PROVE FALSE OBVIOUS
    <2>1. PICK y \in S : y \in 1 .. n /\ y <= m OBVIOUS
    <2>2. m - 1 \in Nat BY <2>1
    <2>3. \A z \in S : z <= m - 1 BY <2>2
    <2>4. m - 1 \in T BY <2>2, <2>3
    <2> QED BY <1>2, <2>4
<1> QED BY <1>3 DEF Max

--------------------------------------------------------------------------------
\* A registration: its frame is the only one of the new connection.
LEMMA RegisterTasks ==
    ASSUME LeaseInv, Drift, UNCHANGED file, NEW s \in Slots, NEW l \in Nat, Register(s, l), l \in Leases',
           ~fence' /\ file # Exited => file <= l
    PROVE  OneFrame' /\ (\A u \in Slots : TaskOK(tasks[u]))'
<1> DEFINE t == [op |-> "install", lease |-> l, previous |-> 0, pc |-> "deliver", live |-> TRUE]
<1>1. /\ tasks' \in [Slots -> TaskRow] /\ tasks'[s] = t
      /\ \A u \in Slots : u # s => /\ ~tasks'[u].live /\ tasks'[u].op = tasks[u].op
                                    /\ tasks'[u].lease = tasks[u].lease /\ tasks'[u].pc = tasks[u].pc
    BY Registers DEF LeaseInv, StoreOK
<1>2. TaskOK(t)'
    <2> HIDE DEF Doomed
    <2> QED BY DEF TaskOK, Installs, Revoking, Exited
<1> HIDE DEF t
<1>3. ASSUME NEW u \in Slots PROVE TaskOK(tasks[u])'
    <2>1. CASE u = s BY <1>1, <1>2, <2>1
    <2>2. CASE u # s
        <3>1. PICK v \in TaskRow : v = tasks[u] /\ TaskOK(v) BY DEF LeaseInv, StoreOK
        <3>2. PICK w \in TaskRow : w = tasks'[u] BY <1>1
        <3>3. w.op = v.op /\ w.pc = v.pc /\ w.lease = v.lease /\ ~Installs(w)
            BY <1>1, <2>2, <3>1, <3>2 DEF Installs
        <3>4. TaskOK(w)' BY <3>1, <3>3, TaskStays
        <3> QED BY <3>2, <3>4
    <2> QED BY <2>1, <2>2
<1>4. OneFrame' BY <1>1 DEF OneFrame
<1> QED BY <1>3, <1>4

\* A new row, after what has expired was closed.
LEMMA NewRow ==
    ASSUME LeaseInv, NEW purpose \in {"setup", "runtime"}, NEW q \in Leases \cup {0},
           requestWorkspaceLease(purpose, q), UNCHANGED <<wsp, fence, issuer, past, file, confirm>>,
           tasks' \in [Slots -> TaskRow]
    PROVE  /\ Cardinality(Leases) + 1 \in Leases' /\ Cardinality(Leases) + 1 \in Nat
           /\ file # Exited => file <= Cardinality(Leases) + 1
           /\ StoreOK' /\ FileOK' /\ (\A k \in Leases : RowOK(k))' /\ Drift
<1>0. PICK n : Numbered(n) BY DEF LeaseInv, StoreOK
<1>1. /\ n \in Nat /\ n <= MaxLeases /\ MaxLeases \in Nat /\ lease \in [1 .. n -> LeaseRow]
      /\ Leases = 1 .. n /\ DOMAIN lease = 1 .. n
    BY <1>0 DEF Numbered, Leases, LeaseInv, StoreOK
<1>2. Cardinality(Leases) = n
    <2>1. Cardinality(1 .. n) = n BY <1>1, FS_Interval
    <2> QED BY <1>1, <2>1
<1> DEFINE new == n + 1
           row == [state |-> "requested", purpose |-> purpose, request |-> q, issued |-> FALSE, delivered |-> FALSE]
           swept(k) == IF lease[k].purpose = purpose /\ ~isClosed(k) /\ k \in past /\ lease[k].issued
                       THEN [lease[k] EXCEPT !.state = "expired"] ELSE lease[k]
<1>3. /\ ~fence /\ new <= MaxLeases /\ wsp \in {"provisioning", "connected", "ready"}
      /\ lease' = [k \in Leases \cup {new} |-> IF k = new THEN row ELSE Expired(purpose)[k]]
    BY <1>2 DEF requestWorkspaceLease, leaseWorkspaceActive
<1>4. \A k \in Leases : Expired(purpose)[k] = swept(k) BY DEF Expired
<1>5. \A k \in Leases : /\ swept(k) \in LeaseRow
                        /\ swept(k).purpose = lease[k].purpose /\ swept(k).request = lease[k].request
                        /\ swept(k) = lease[k] \/ (swept(k).state = "expired" /\ k \in past)
    <2> SUFFICES ASSUME NEW k \in Leases
                 PROVE  /\ swept(k) \in LeaseRow
                        /\ swept(k).purpose = lease[k].purpose /\ swept(k).request = lease[k].request
                        /\ swept(k) = lease[k] \/ (swept(k).state = "expired" /\ k \in past)
        OBVIOUS
    <2>1. lease[k] \in LeaseRow BY <1>1
    <2> QED BY <2>1 DEF LeaseRow, LeaseState
<1>6. row \in LeaseRow BY <1>1 DEF LeaseRow, LeaseState
<1>7. new \notin Leases /\ Leases \cup {new} = 1 .. new /\ \A k \in Leases : k < new BY <1>1
<1>8. /\ \A k \in Leases : lease'[k] = swept(k)
      /\ lease'[new] = row /\ Leases' = 1 .. new /\ lease' \in [1 .. new -> LeaseRow]
    <2> HIDE DEF swept, row
    <2>1. \A k \in Leases : lease'[k] = swept(k) BY <1>3, <1>4, <1>7
    <2>2. lease'[new] = row BY <1>3
    <2>3. Leases' = 1 .. new BY <1>3, <1>7 DEF Leases
    <2>4. \A k \in 1 .. new : lease'[k] \in LeaseRow BY <1>5, <1>6, <1>7, <2>1, <2>2
    <2>5. lease' = [k \in 1 .. new |-> lease'[k]] BY <1>3, <1>7
    <2> QED BY <2>1, <2>2, <2>3, <2>4, <2>5
<1>9. \A k \in Leases : /\ lease'[k].purpose = lease[k].purpose
                        /\ lease'[k].request = lease[k].request
                        /\ lease'[k] = lease[k] \/ (lease'[k].state = "expired" /\ k \in past)
    <2> HIDE DEF swept, row
    <2> QED BY <1>5, <1>8
<1>r. lease'[new].request = q /\ lease'[new].state = "requested" BY <1>8
<1> HIDE DEF swept, row
<1>10. StoreOK'
    <2>1. Numbered(new)' BY <1>1, <1>3, <1>8 DEF Numbered
    <2>2. Leases \subseteq Leases' BY <1>7, <1>8
    <2> QED BY <2>1, <2>2 DEF LeaseInv, StoreOK, issuer
<1>11. FileOK /\ file # new
    <2>1. FileOK BY DEF LeaseInv
    <2>2. new # 0 /\ new # Exited BY <1>1, <1>3 DEF Exited
    <2> QED BY <1>7, <2>1, <2>2 DEF FileOK
<1>12. FileOK'
    <2>1. file \in Leases' => file \in Leases BY <1>7, <1>8, <1>11
    <2>2. Leases \subseteq Leases' BY <1>7, <1>8
    <2>3. file \in Leases => lease'[file] = lease[file] BY <1>3, <1>9, <1>11 DEF FileOK
    <2> QED BY <1>3, <1>11, <2>1, <2>2, <2>3 DEF FileOK, Exited
<1>13. \A k \in Leases : Doomed(k) => Doomed(k)' BY <1>9 DEF Doomed
<1>14. Drift
    <2>1. \A k \in Leases : /\ lease[k].state # "requested" => lease'[k].state # "requested"
                            /\ lease[k].state = "delivered" => lease'[k].state = "delivered" \/ Doomed(k)
        BY <1>9 DEF Doomed
    <2>2. \A k \in Leases : lease'[k].purpose = lease[k].purpose BY <1>9
    <2>3. Leases \subseteq Leases' BY <1>7, <1>8
    <2>4. UNCHANGED <<tomb, past, fence>> BY DEF issuer
    <2> HIDE DEF Doomed
    <2> QED BY <1>13, <2>1, <2>2, <2>3, <2>4 DEF Drift
<1>15. (\A k \in Leases : RowOK(k))'
    <2> SUFFICES ASSUME NEW k \in Leases' PROVE RowOK(k)' OBVIOUS
    <2>1. CASE k \in Leases
        <3>1. RowOK(k) BY <2>1 DEF LeaseInv
        <3>2. /\ lease'[k].request = lease[k].request /\ (Doomed(k) => Doomed(k)')
              /\ lease'[k] = lease[k] \/ (lease'[k].state = "expired" /\ k \in past)
            BY <1>9, <1>13, <2>1
        <3>3. UNCHANGED <<tomb, past, fence, wsp>> /\ wsp # "ended" BY <1>3 DEF issuer
        <3> QED BY <3>1, <3>2, <3>3 DEF RowOK, isClosed
    <2>2. CASE k = new
        <3>1. new \notin tomb BY <1>7 DEF LeaseInv, StoreOK
        <3>2. q < new BY <1>1, <1>7
        <3> QED BY <1>3, <1>r, <2>2, <3>1, <3>2 DEF RowOK, isClosed, issuer
    <2> QED BY <1>7, <1>8, <2>1, <2>2
<1>16. file # Exited => file <= new BY <1>1, <1>11 DEF FileOK
<1> QED BY <1>1, <1>2, <1>8, <1>10, <1>12, <1>14, <1>15, <1>16

\* A new lease for a registration is younger than the one in the file.
LEMMA IssueSteps ==
    ASSUME LeaseInv, NEW s \in Slots, NEW purpose \in {"setup", "runtime"}, issue(s, purpose)
    PROVE  LeaseInv'
<1>0. PICK l : l = Cardinality(Leases) + 1 OBVIOUS
<1>1. /\ requestWorkspaceLease(purpose, 0) /\ UNCHANGED <<wsp, fence, issuer, past, file, confirm>>
      /\ Register(s, l)
    BY <1>0 DEF issue, FirstRequest, agent
<1>2. l \in Nat
    <2>1. PICK n : Numbered(n) BY DEF LeaseInv, StoreOK
    <2>2. n \in Nat /\ Leases = 1 .. n BY <2>1 DEF Numbered, Leases, LeaseInv, StoreOK
    <2>3. Cardinality(1 .. n) = n BY <2>2, FS_Interval
    <2> QED BY <1>0, <2>2, <2>3
<1>3. tasks' \in [Slots -> TaskRow] BY <1>1, <1>2, Registers DEF LeaseInv, StoreOK
<1>4. /\ l \in Leases' /\ (file # Exited => file <= l)
      /\ StoreOK' /\ FileOK' /\ (\A k \in Leases : RowOK(k))' /\ Drift
    BY <1>0, <1>1, <1>3, NewRow
<1>5. UNCHANGED file BY <1>1
<1>6. OneFrame' /\ (\A u \in Slots : TaskOK(tasks[u]))' BY <1>1, <1>2, <1>4, <1>5, RegisterTasks
<1> QED BY <1>4, <1>6 DEF LeaseInv

\* The lease in the file is open, so the last open one that is replayed is not older.
LEMMA ReplaySteps ==
    ASSUME LeaseInv, NEW s \in Slots, replay(s)
    PROVE  LeaseInv'
<1> DEFINE open == {k \in Leases : /\ lease[k].purpose = "runtime" /\ k \notin past
                                   /\ lease[k].state \in {"requested", "issued", "delivered"}}
<1>0. PICK l : l = Max(open) OBVIOUS
<1>1. open # {} /\ Register(s, l) /\ UNCHANGED <<store, issuer, past, agent>> BY <1>0 DEF replay
<1>2. PICK n : n \in Nat /\ Leases = 1 .. n BY DEF LeaseInv, StoreOK, Numbered, Leases
<1>3. l \in open /\ \A y \in open : y <= l BY <1>0, <1>1, <1>2, GreatestLease
<1>4. l \in Leases /\ l \in Nat BY <1>2, <1>3
<1>5. tasks' \in [Slots -> TaskRow] BY <1>1, <1>4, Registers DEF LeaseInv, StoreOK
<1>6. Quiet BY <1>1 DEF Quiet, store, issuer, agent, LeaseInv, StoreOK
<1>7. StoreOK' /\ FileOK' /\ (\A k \in Leases : RowOK(k))' /\ Drift BY <1>5, <1>6, QuietRows
<1>8. ~fence /\ file # Exited => file <= l
    <2>1. ~fence /\ file \in Leases => file \in open BY DEF LeaseInv, FileOK
    <2>2. file \in Leases \cup {0, Exited} BY DEF LeaseInv, FileOK
    <2> QED BY <1>3, <1>4, <2>1, <2>2
<1>9. UNCHANGED file /\ fence' = fence /\ l \in Leases' BY <1>4, <1>6 DEF Quiet, Leases
<1> QED BY <1>1, <1>4, <1>7, <1>8, <1>9, RegisterTasks DEF LeaseInv

\* A renewal gets the lease of its request, which is younger than the one in the file.
LEMMA RenewSteps ==
    ASSUME LeaseInv, NEW s \in Slots, renew(s)
    PROVE  LeaseInv'
<1>1. Idle /\ file \in Leases /\ UNCHANGED <<wsp, fence, retired, issuer, past, agent>> BY DEF renew
<1>2. PICK n : n \in Nat /\ Leases = 1 .. n BY DEF LeaseInv, StoreOK, Numbered, Leases
<1>3. file \in Nat BY <1>1, <1>2
<1>p. /\ "renew" \in Frames \cup {"revoke"} /\ "deliver" \notin Revoking
      /\ "deliver" \in TaskPc \ {"none", "delivered", "reply", "revoked"}
    BY DEF Frames, TaskPc, Revoking
<1>4. ASSUME NEW l \in Leases, lease[l].request = file, UNCHANGED lease, Task(s, "renew", l, file, "deliver")
      PROVE  LeaseInv'
    <2>1. Quiet /\ UNCHANGED tomb BY <1>1, <1>4 DEF Quiet, issuer, agent, LeaseInv, StoreOK
    <2>2. file < l BY <1>4 DEF LeaseInv, RowOK
    <2>3. file <= l BY <1>2, <1>3, <2>2
    <2> QED BY <1>1, <1>3, <1>4, <1>p, <2>1, <2>3, QuietBegin
<1>5. ASSUME requestWorkspaceLease("runtime", file), Task(s, "renew", Cardinality(Leases) + 1, file, "deliver")
      PROVE  LeaseInv'
    <2>0. PICK l : l = Cardinality(Leases) + 1 OBVIOUS
    <2>1. l \in Nat
        <3>1. Cardinality(1 .. n) = n BY <1>2, FS_Interval
        <3> QED BY <1>2, <2>0, <3>1
    <2>t. PICK t : t = [op |-> "renew", lease |-> l, previous |-> file, pc |-> "deliver", live |-> TRUE] OBVIOUS
    <2>2. /\ tasks' \in [Slots -> TaskRow] /\ tasks'[s] = t
          /\ \A u \in Slots : u # s => tasks'[u] = tasks[u]
        BY <1>3, <1>5, <1>p, <2>0, <2>1, <2>t, Begins DEF LeaseInv, StoreOK
    <2>3. UNCHANGED <<wsp, fence, issuer, past, file, confirm>> BY <1>1 DEF agent
    <2>4. /\ l \in Leases' /\ (file # Exited => file <= l)
          /\ StoreOK' /\ FileOK' /\ (\A k \in Leases : RowOK(k))' /\ Drift
        BY <1>1, <1>5, <2>0, <2>2, <2>3, NewRow
    <2>5. TaskOK(t)'
        <3> HIDE DEF Doomed
        <3>1. /\ t.op = "renew" /\ t.lease = l /\ t.pc = "deliver" /\ t.lease \in Leases'
              /\ UNCHANGED file /\ (file # Exited => file <= l)
            BY <2>3, <2>4, <2>t
        <3> QED BY <3>1 DEF TaskOK, Installs, Revoking, Exited
    <2>6. TaskOK(tasks[s])' BY <2>2, <2>5
    <2> QED BY <1>1, <2>2, <2>3, <2>4, <2>6, OneTaskMoves DEF LeaseInv
<1>6. ASSUME NEW l, l = CHOOSE k \in {k \in Leases : lease[k].request = file} : TRUE,
             {k \in Leases : lease[k].request = file} # {}
      PROVE  l \in Leases /\ lease[l].request = file
    BY <1>6
<1>7. CASE /\ {k \in Leases : lease[k].request = file} # {} /\ UNCHANGED lease
           /\ Task(s, "renew", CHOOSE k \in {k \in Leases : lease[k].request = file} : TRUE, file, "deliver")
    <2>1. PICK l : l = CHOOSE k \in {k \in Leases : lease[k].request = file} : TRUE OBVIOUS
    <2>2. l \in Leases /\ lease[l].request = file BY <1>6, <1>7, <2>1
    <2>3. Task(s, "renew", l, file, "deliver") BY <1>7, <2>1
    <2> QED BY <1>4, <1>7, <2>2, <2>3
<1> QED BY <1>5, <1>7 DEF renew

--------------------------------------------------------------------------------
\* At first there are no leases.
LEMMA LeaseInitial ==
    ASSUME MaxLeases \in Nat, LeaseInit
    PROVE  LeaseInv
<1> USE DEF LeaseInit
<1>1. Leases = {} BY DEF Leases
<1>2. Numbered(0)
    <2>1. 1 .. 0 = {} /\ 0 \in 0 .. MaxLeases OBVIOUS
    <2> QED BY <2>1 DEF Numbered
<1>3. tasks \in [Slots -> TaskRow] BY DEF NoTask, TaskRow, TaskPc
<1>4. StoreOK BY <1>2, <1>3 DEF StoreOK
<1>5. FileOK BY <1>1 DEF FileOK
<1>6. OneFrame BY DEF OneFrame, NoTask
<1>7. \A s \in Slots : TaskOK(tasks[s]) BY DEF TaskOK, NoTask, Installs, Revoking
<1> QED BY <1>1, <1>4, <1>5, <1>6, <1>7 DEF LeaseInv

\* Nothing happens to the leases.
LEMMA LeaseStutters ==
    ASSUME LeaseInv, UNCHANGED leaseVars
    PROVE  LeaseInv'
<1>1. UNCHANGED <<wsp, lease, fence, past, file, confirm, minted, late, tomb, tasks>> BY DEF leaseVars
<1>2. Quiet BY <1>1 DEF Quiet, LeaseInv, StoreOK
<1> QED BY <1>1, <1>2, QuietStill

\* Every step keeps the invariant.
LEMMA LeaseSteps ==
    ASSUME LeaseInv, LeaseNext
    PROVE  LeaseInv'
<1>1. CASE Advance \/ Stop \/ finish \/ retireSecret \/ Restart1 BY <1>1, WorkspaceSteps
<1>2. CASE \E l \in Leases : Expire(l) \/ LateMint(l) BY <1>2, ExpireSteps, LateSteps
<1>3. ASSUME NEW s \in Slots,
             \/ issue(s, "setup") \/ issue(s, "runtime") \/ replay(s) \/ renew(s)
             \/ deliver(s) \/ mint(s) \/ MintTimeout(s) \/ revoke(s)
             \/ recordIssued(s) \/ recordDelivered(s) \/ requestRevocation(s) \/ recordRevoked(s)
             \/ completeRenewal(s) \/ RevokeOpen(s) \/ Install1(s)
      PROVE  LeaseInv'
    <2>1. CASE issue(s, "setup") \/ issue(s, "runtime") BY <2>1, IssueSteps
    <2>2. CASE replay(s) BY <2>2, ReplaySteps
    <2>3. CASE renew(s) BY <2>3, RenewSteps
    <2>4. CASE deliver(s) \/ mint(s) \/ MintTimeout(s) \/ revoke(s) BY <2>4, IssuerSteps
    <2>5. CASE recordIssued(s) \/ recordDelivered(s) \/ requestRevocation(s) \/ recordRevoked(s)
        BY <2>5, RecordSteps
    <2>6. CASE completeRenewal(s) BY <2>6, ConfirmSteps
    <2>7. CASE RevokeOpen(s) BY <2>7, RevokeSteps
    <2>8. CASE Install1(s) BY <2>8, InstallSteps
    <2> QED BY <1>3, <2>1, <2>2, <2>3, <2>4, <2>5, <2>6, <2>7, <2>8
<1> QED BY <1>1, <1>2, <1>3 DEF LeaseNext

\* The invariant is what the two promises of the lease service rest on.
LEMMA LeasesHold ==
    ASSUME LeaseInv
    PROVE  EndedHoldsNoAuthority /\ InstalledIsUsable
<1>1. EndedHoldsNoAuthority
    <2> SUFFICES ASSUME wsp = "ended", NEW l \in minted PROVE l \in tomb \/ l \in past BY DEF EndedHoldsNoAuthority
    <2>1. l \in Leases BY DEF LeaseInv, StoreOK
    <2>2. RowOK(l) BY <2>1 DEF LeaseInv
    <2> QED BY <2>2 DEF RowOK, isClosed
<1>2. InstalledIsUsable
    <2> SUFFICES ASSUME file \in tomb, ~fence PROVE FALSE BY DEF InstalledIsUsable
    <2>1. file \in Leases BY DEF LeaseInv, StoreOK
    <2>2. RowOK(file) /\ FileOK BY <2>1 DEF LeaseInv
    <2>3. file \in Nat BY <2>1 DEF LeaseInv, StoreOK, Numbered, Leases
    <2>4. ~Doomed(file) BY <2>1, <2>2, <2>3 DEF FileOK, Doomed
    <2> QED BY <2>2, <2>4 DEF RowOK
<1> QED BY <1>1, <1>2
================================================================================
