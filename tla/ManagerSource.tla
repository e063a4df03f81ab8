------------------------------ MODULE ManagerSource ------------------------------
(***************************************************************************)
(* The physical source of a manager: which host may open its data folder.  *)
(* The folder and the purge directory live on one block volume that an     *)
(* operator moves between hosts; the object store holds the history of     *)
(* writer claims, one immutable object per generation, and per transfer an *)
(* immutable preparation and an immutable completion.  The volume itself   *)
(* carries the installation marker and the progress of the last transfer.  *)
(*                                                                         *)
(* A claim is [host, op]: the host it binds (0 for an installation older   *)
(* than bindings) and the operation that made it (0 for the first one).    *)
(* Its generation is its place in the history.                             *)
(***************************************************************************)
EXTENDS Naturals, Sequences, FiniteSets

CONSTANTS
    Hosts,         \* host identities, positive numbers
    MaxTransfers,  \* bound on the operations an operator prepares
    MaxOutages     \* bound on crashes, power-offs, power-ons and moves of the volume

VARIABLES
    volume,      \* the host the volume is attached to, 0 for none
    power,       \* hosts that are on
    proc,        \* the manager process of each host: its step, its operation and its claim
    claims,      \* the history of writer claims in the object store
    prepared,    \* operation -> [previous, claim] in the object store
    finished,    \* operation -> claim of the completions in the object store
    marker,      \* MANAGER.json on the volume: a claim with its generation
    progress,    \* source-transfer.json on the volume
    orders,      \* the migration files an operator wrote: operation -> [source, target, previous]
    outages

sourceVars == <<volume, power, proc, claims, prepared, finished, marker, progress, orders, outages>>

Nothing == [gen |-> 0, host |-> 0, op |-> 0]
Claim(g, h, o) == [gen |-> g, host |-> h, op |-> o]
NoProgress == [op |-> 0, claim |-> Nothing, state |-> "none", before |-> Nothing]
NoProc == [pc |-> "none", op |-> 0, claim |-> Nothing, previous |-> Nothing, lost |-> FALSE]
NoOps == [o \in {} |-> Nothing]

\* A new installation, or one that predates bindings: a claim without a host.
SourceInit ==
    /\ volume \in Hosts /\ power = Hosts
    /\ proc = [h \in Hosts |-> NoProc]
    /\ \/ claims = <<>> /\ marker = Nothing
       \/ claims = <<Claim(1, 0, 0)>> /\ marker = Claim(1, 0, 0)
    /\ prepared = NoOps /\ finished = NoOps
    /\ progress = NoProgress
    /\ orders = <<>> /\ outages = 0

-----------------------------------------------------------------------------
Current == IF claims = <<>> THEN Nothing ELSE claims[Len(claims)]
With(f, o, v) == [x \in DOMAIN f \cup {o} |-> IF x = o THEN v ELSE f[x]]

\* lockDataFolder, verifySource: this host has the volume; validate and recheckSourceTarget ask again.
Holds(h) == h \in power /\ volume = h /\ ~proc[h].lost
At(h, pc) == h \in power /\ proc[h].pc = pc
Step(h, pc) == proc' = [proc EXCEPT ![h].pc = pc]
Fail(h) == proc' = [proc EXCEPT ![h] = NoProc]
world == <<volume, power, orders, outages>>
remote == <<claims, prepared, finished>>
disk == <<marker, progress>>

\* Mutant of hostIsOff: the power-off action that was completed once is taken for a host that is off.
OrderIsEnough(o) == orders[o].source \in Hosts

\* digitalOceanManagerFence: the source host is off now.
hostIsOff(o) == orders[o].source \notin power

\* requireSourceCompletion: the progress is complete and it, the marker and the completion agree with the claim.
requireSourceCompletion(claim, p, m) ==
    /\ p.state = "complete" /\ p.op = claim.op /\ p.claim = claim
    /\ claim.op \in DOMAIN finished /\ finished[claim.op] = claim
    /\ m = claim

\* requireSourcePreparation: the record that leads to a claim names its predecessor in the history.
requireSourcePreparation(g) ==
    LET c == claims[g]
    IN  /\ c.op \in DOMAIN prepared
        /\ prepared[c.op].claim = c
        /\ g > 1 => prepared[c.op].previous = claims[g - 1]

\* verifyPreparation: every bound claim up to this generation was prepared and completed.
verifyPreparation(gen) ==
    \A g \in 1..gen : claims[g].host # 0 =>
        /\ claims[g].op \in DOMAIN finished /\ finished[claims[g].op] = claims[g]
        /\ requireSourcePreparation(g)

\* predecessorProgress: the completed transfer that the present one replaces.
predecessorProgress ==
    IF progress.state = "complete" THEN [progress EXCEPT !.before = Nothing]
    ELSE [op |-> progress.before.op, claim |-> progress.before, state |-> "complete", before |-> Nothing]

-----------------------------------------------------------------------------
(* Opening: the manager of a host that has the volume reads the claims and the progress. *)

\* A manager of the first generation, or none yet: initializeManagerSource.
initialize(h) ==
    /\ Current.gen <= 1 /\ Current.op = 0 /\ Current.host \in {0, h}
    /\ Current # Claim(1, 0, 0)
    /\ Current.gen = 0 => marker = Nothing
    /\ LET claim == Claim(1, h, 0)
       IN  /\ progress.state # "none" => progress.op = 0 /\ progress.claim = claim
           /\ proc' = [proc EXCEPT ![h] = [pc |-> IF progress.state = "complete" THEN "check" ELSE "pending",
                                           op |-> 0, claim |-> claim, previous |-> Nothing, lost |-> FALSE]]

\* migrateSource, up to its first write: the migration file names the claim it replaces and the host
\* that claim binds, that host is off, and a transfer under way is the same one.
migrate(h) ==
    /\ Current # Nothing
    /\ Current.host # h \/ (progress.state = "pending" /\ Current.op = progress.op /\ Current.op # 0)
    /\ \E o \in 1..Len(orders) :
          LET resuming == progress.state = "pending" /\ Current.op = o
              previous == IF resuming THEN prepared[o].previous ELSE Current
              claim == Claim(previous.gen + 1, h, o)
          IN  /\ orders[o].target = h /\ orders[o].source # h
              /\ previous.gen = orders[o].previous
              /\ previous.host \in {0, orders[o].source}
              /\ ~resuming /\ previous.host # 0 =>
                    /\ requireSourceCompletion(previous, predecessorProgress, marker)
                    /\ verifyPreparation(previous.gen)
              /\ progress.state = "pending" => progress.op = o /\ progress.claim = claim
              /\ marker \in {previous, claim}
              /\ hostIsOff(o)
              /\ proc' = [proc EXCEPT ![h] =
                    [pc |-> "pending", op |-> o, claim |-> claim, previous |-> previous, lost |-> FALSE]]

\* authorizeManagerSource: initialise, migrate, or go on with a claim that already binds this host.
authorizeManagerSource(h) ==
    /\ Holds(h) /\ At(h, "none")
    /\ \/ initialize(h)
       \/ migrate(h)
       \/ /\ Current.host = h /\ ~(Current.gen = 1 /\ Current.op = 0)
          /\ ~(progress.state = "pending" /\ Current.op = progress.op)
          /\ proc' = [proc EXCEPT ![h] = [NoProc EXCEPT !.pc = "check", !.op = Current.op, !.claim = Current]]
    /\ UNCHANGED world /\ UNCHANGED remote /\ UNCHANGED disk

\* The progress is pending before anything is published, and keeps the transfer it replaces.
persistSourceProgress(h) ==
    /\ At(h, "pending") /\ Holds(h)
    /\ progress' = [op |-> proc[h].op, claim |-> proc[h].claim, state |-> "pending",
                    before |-> IF progress.state = "complete" THEN progress.claim ELSE progress.before]
    /\ Step(h, "prepare")
    /\ UNCHANGED world /\ UNCHANGED remote /\ UNCHANGED marker

\* immutableSourceRecord: the first writer wins, and another value is an error.  The volume may be
\* taken away between the check and the write.
immutableSourceRecord(h) ==
    /\ At(h, "prepare")
    /\ LET o == proc[h].op
           value == [previous |-> proc[h].previous, claim |-> proc[h].claim]
           kept == IF o \in DOMAIN prepared THEN prepared[o] ELSE value
       IN  /\ prepared' = With(prepared, o, kept)
           /\ IF kept = value THEN Step(h, "publish") ELSE Fail(h)
    /\ UNCHANGED world /\ UNCHANGED disk /\ UNCHANGED <<claims, finished>>

\* publishManagerWriter: put if absent, then the newest claim must be this one.
publishManagerWriter(h) ==
    /\ At(h, "publish")
    /\ LET c == proc[h].claim
       IN  /\ claims' = IF c.gen = Len(claims) + 1 THEN Append(claims, c) ELSE claims
           /\ IF claims'[Len(claims')] = c THEN Step(h, IF c.op = 0 THEN "recheck" ELSE "fence")
              ELSE Fail(h)
    /\ UNCHANGED world /\ UNCHANGED disk /\ UNCHANGED <<prepared, finished>>

\* A claim alone never opens admission: the source host is looked at again after the publication.
requireFence(h) ==
    /\ At(h, "fence")
    /\ IF hostIsOff(proc[h].op) THEN Step(h, "recheck") ELSE Fail(h)
    /\ UNCHANGED world /\ UNCHANGED remote /\ UNCHANGED disk

recheckSourceTarget(h) ==
    /\ At(h, "recheck")
    /\ IF Holds(h) THEN Step(h, "complete") ELSE Fail(h)
    /\ UNCHANGED world /\ UNCHANGED remote /\ UNCHANGED disk

\* The completion in the store, then the marker, then the progress on the volume.
completeSource(h) ==
    /\ \/ /\ At(h, "complete")
          /\ LET o == proc[h].op
                 kept == IF o \in DOMAIN finished THEN finished[o] ELSE proc[h].claim
             IN  /\ finished' = With(finished, o, kept)
                 /\ IF kept = proc[h].claim THEN Step(h, "marker") ELSE Fail(h)
          /\ UNCHANGED <<claims, prepared, marker, progress>>
       \/ /\ At(h, "marker") /\ Holds(h)
          /\ marker' = proc[h].claim
          /\ Step(h, "progress")
          /\ UNCHANGED remote /\ UNCHANGED progress
       \/ /\ At(h, "progress") /\ Holds(h)
          /\ progress' = [op |-> proc[h].op, claim |-> proc[h].claim, state |-> "complete", before |-> Nothing]
          /\ Step(h, "check")
          /\ UNCHANGED remote /\ UNCHANGED marker
    /\ UNCHANGED world

\* The last checks of authorizeManagerSource and assertManagerInstallation, then admission opens.
openManager(h) ==
    /\ At(h, "check") /\ Holds(h)
    /\ LET c == proc[h].claim
       IN  /\ requireSourceCompletion(c, progress, marker)
           /\ verifyPreparation(c.gen)
           /\ marker = c
    /\ Step(h, "open")
    /\ UNCHANGED world /\ UNCHANGED remote /\ UNCHANGED disk

\* Any check that fails, or a lost volume, closes the process; it may be tried again.
giveUp(h) ==
    /\ proc[h].pc \notin {"none", "open"}
    /\ Fail(h)
    /\ UNCHANGED world /\ UNCHANGED remote /\ UNCHANGED disk

-----------------------------------------------------------------------------
(* The operator and the hosts. *)

Outage == outages < MaxOutages /\ outages' = outages + 1

\* A crash of the process or of the whole host.
CrashHost(h) ==
    /\ Outage /\ h \in power
    /\ power' \in {power, power \ {h}}
    /\ Fail(h)
    /\ UNCHANGED <<volume, orders>> /\ UNCHANGED remote /\ UNCHANGED disk

PowerOn(h) ==
    /\ Outage /\ h \notin power /\ power' = power \cup {h}
    /\ UNCHANGED <<volume, orders, proc>> /\ UNCHANGED remote /\ UNCHANGED disk

\* The provider moves the volume whatever runs on the host that loses it.  That process keeps its lock
\* on a folder it can no longer reach.
MoveVolume(h) ==
    /\ Outage /\ volume # h /\ volume' = h
    /\ proc' = [proc EXCEPT ![volume].lost = (proc[volume].pc # "none")]
    /\ UNCHANGED <<power, orders>> /\ UNCHANGED remote /\ UNCHANGED disk

\* A migration file: the source host's power-off action is complete when it is written.
OrderTransfer(h) ==
    /\ Len(orders) < MaxTransfers /\ claims # <<>>
    /\ \E s \in Hosts \ {h} :
          /\ s \notin power
          /\ orders' = Append(orders, [source |-> s, target |-> h, previous |-> Len(claims)])
    /\ UNCHANGED <<volume, power, outages, proc>> /\ UNCHANGED remote /\ UNCHANGED disk

SourceNext ==
    \E h \in Hosts :
        \/ authorizeManagerSource(h) \/ persistSourceProgress(h) \/ immutableSourceRecord(h)
        \/ publishManagerWriter(h) \/ requireFence(h) \/ recheckSourceTarget(h) \/ completeSource(h)
        \/ openManager(h) \/ giveUp(h)
        \/ CrashHost(h) \/ PowerOn(h) \/ MoveVolume(h) \/ OrderTransfer(h)

SourceSpec == SourceInit /\ [][SourceNext]_sourceVars

-----------------------------------------------------------------------------
(* An open manager has the newest claim whose transfer completed, so no two hosts are open, and    *)
(* every transfer that led to it was prepared from its predecessor and completed: no claim is      *)
(* skipped or forked, wherever the volume was moved and whatever host lost power on the way        *)
(* (source-transfer.ts 66-320, writer.ts 33-61).                                                   *)
OpenHasLineage ==
    \A h \in Hosts : proc[h].pc = "open" =>
        LET c == proc[h].claim
        IN  /\ c.host = h /\ claims[c.gen] = c
            /\ \A g \in c.gen + 1..Len(claims) : claims[g].op \notin DOMAIN finished
            /\ \A g \in 2..c.gen :
                  /\ prepared[claims[g].op] = [previous |-> claims[g - 1], claim |-> claims[g]]
                  /\ finished[claims[g].op] = claims[g]
================================================================================
