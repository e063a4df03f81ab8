----------------------------- MODULE CheckpointCapture -----------------------------
(***************************************************************************)
(* Capturing a workspace as a checkpoint archive: the supervisor quiesces  *)
(* the harness, scans the mount breadth first, sorts the entries on disk   *)
(* and streams each file in that order.  No lock is taken: every object    *)
(* carries its custody (its stat), and a process of the workspace that is  *)
(* still alive may change the tree between any two steps.                  *)
(***************************************************************************)
EXTENDS Naturals, Sequences, SequencesExt, FiniteSets

CONSTANTS
    Up,        \* the parent of each path, 0 for the mount itself
    Folder,    \* the paths that are directories
    First,     \* the paths that exist at the start
    MaxFiles,  \* the mount's limit on entries
    MaxWrites, \* bound on changes to the tree
    MaxSort    \* bound on the sequences the sorter is checked on

VARIABLES
    harness,  \* the quiescing: [pc, child]
    stamp,    \* custody of each object, 0 when absent; no two changes share a stamp
    clock,    \* the last stamp given
    scan,     \* the capture: [pc, dir, root, name, at]
    queue,    \* directories left to scan: [dir, custody]
    taken,    \* records in the order they were appended: [path, custody]
    index,    \* the sealed order
    emitted,  \* what the archive holds: the version of each path, 0 when absent
    snapshot  \* the tree when the index was sealed

captureVars == <<harness, stamp, clock, scan, queue, taken, index, emitted, snapshot>>

Path == DOMAIN Up
Node == Path \cup {0}
None == [p \in Path |-> 0]

CaptureInit ==
    /\ harness = [pc |-> "running", child |-> "alive"]
    /\ stamp = [p \in Node |-> IF p = 0 \/ p \in First THEN 1 ELSE 0] /\ clock = 1
    /\ scan = [pc |-> "wait", dir |-> 0, root |-> 0, name |-> 0, at |-> 0]
    /\ queue = <<>> /\ taken = <<>> /\ index = <<>> /\ emitted = None /\ snapshot = None

-----------------------------------------------------------------------------
(* The sorter: runs of doubling width over the offsets, then binary search *)

takeLeft(a, i, b, j) == i <= Len(a) /\ (j > Len(b) \/ a[i] < b[j])
merge(a, b) ==
    LET m[i \in 1..(Len(a) + 1), j \in 1..(Len(b) + 1)] ==
            IF i > Len(a) /\ j > Len(b) THEN <<>>
            ELSE IF takeLeft(a, i, b, j) THEN <<a[i]>> \o m[i + 1, j] ELSE <<b[j]>> \o m[i, j + 1]
    IN m[1, 1]
Least(x, y) == IF x < y THEN x ELSE y
\* Mutant of mergeOffsets: a last run that has no partner is dropped.
MergePairsOnly(s, width) ==
    FlattenSeq([k \in 1..(Len(s) \div (2 * width)) |->
        merge(SubSeq(s, (k - 1) * 2 * width + 1, (k - 1) * 2 * width + width),
              SubSeq(s, (k - 1) * 2 * width + width + 1, k * 2 * width))])
mergeOffsets(s, width) ==
    FlattenSeq([k \in 1..((Len(s) + 2 * width - 1) \div (2 * width)) |->
        merge(SubSeq(s, (k - 1) * 2 * width + 1, Least((k - 1) * 2 * width + width, Len(s))),
              SubSeq(s, (k - 1) * 2 * width + width + 1, Least(k * 2 * width, Len(s))))])
sort(s) == FoldLeft(LAMBDA order, width : IF width < Len(s) THEN mergeOffsets(order, width) ELSE order, s, <<1, 2, 4, 8>>)
\* find: the ordinal of a path, 0 when it is not in the index.
find(s, path) ==
    LET f[lower \in 0..Len(s), upper \in 0..Len(s)] ==
            IF lower >= upper THEN 0
            ELSE LET middle == lower + (upper - lower) \div 2 IN
                 CASE s[middle + 1] = path -> middle + 1
                   [] s[middle + 1] < path -> f[middle + 1, upper]
                   [] OTHER -> f[lower, middle]
    IN f[0, Len(s)]

-----------------------------------------------------------------------------
(* Quiescing *)

keepCapture == UNCHANGED <<stamp, clock, scan, queue, taken, index, emitted, snapshot>>
Quiet(pc) == harness' = [harness EXCEPT !.pc = pc]
closeSessions == harness.pc = "running" /\ Quiet("hook") /\ keepCapture
\* The image's hook may succeed, fail or not exist.
prepareHook == /\ harness.pc = "hook" /\ keepCapture
               /\ Quiet("term") \/ Quiet("failed")
terminate == harness.pc = "term" /\ Quiet("exit") /\ keepCapture
\* The child ends with 0, 143 or another code, or dies before it is told to.
childExits(how) == /\ harness.child = "alive" /\ keepCapture
                   /\ harness' = [harness EXCEPT !.child = how]
\* Mutant of quiesced: the signal was sent, which is enough.
SignalSent == harness.pc = "exit" /\ Quiet("quiesced") /\ keepCapture
\* Only a clean exit quiesces.
quiesced == /\ harness.pc = "exit" /\ harness.child # "alive" /\ keepCapture
            /\ Quiet(IF harness.child = "clean" THEN "quiesced" ELSE "failed")
\* The deadline kills the child and fails the preparation.
deadline == /\ harness.pc \in {"hook", "term", "exit"} /\ keepCapture
            /\ harness' = [harness EXCEPT !.pc = "failed", !.child = IF @ = "alive" THEN "killed" ELSE @]

-----------------------------------------------------------------------------
(* The scan *)

keepTree == UNCHANGED <<harness, stamp, clock>>
Refuse == /\ scan' = [scan EXCEPT !.pc = "refused"] /\ keepTree
          /\ UNCHANGED <<queue, taken, index, emitted, snapshot>>
\* lookupRecord: the custody an entry was captured with.
recorded(p) == taken[CHOOSE i \in DOMAIN taken : taken[i].path = p].custody
rootHeld == stamp[0] = scan.root

openRoot ==
    /\ scan.pc = "wait" /\ harness.pc = "quiesced" /\ keepTree
    /\ scan' = [scan EXCEPT !.pc = "take", !.root = stamp[0]]
    /\ queue' = <<[dir |-> 0, custody |-> stamp[0]]>> /\ UNCHANGED <<taken, index, emitted, snapshot>>

Listed == {taken[i].path : i \in DOMAIN taken}
\* take: the next directory is opened, and must be the one that was recorded.
takeDirectory ==
    /\ scan.pc = "take" /\ queue # <<>>
    /\ IF ~rootHeld \/ stamp[Head(queue).dir] # Head(queue).custody THEN Refuse
       ELSE /\ scan' = [scan EXCEPT !.pc = "read", !.dir = Head(queue).dir]
            /\ keepTree /\ UNCHANGED <<queue, taken, index, emitted, snapshot>>

dirHeld == rootHeld /\ stamp[scan.dir] = Head(queue).custody
\* read: the next name in the directory's own order, and its stat.
readName ==
    /\ scan.pc = "read"
    /\ LET left == {p \in Path : Up[p] = scan.dir /\ stamp[p] # 0} \ Listed IN
       IF ~dirHeld \/ (left # {} /\ Len(taken) = MaxFiles) THEN Refuse
       ELSE /\ keepTree /\ UNCHANGED <<taken, index, emitted, snapshot>>
            /\ \/ \E p \in left : /\ UNCHANGED queue
                                  /\ scan' = [scan EXCEPT !.pc = "digest", !.name = p, !.at = stamp[p]]
               \/ left = {} /\ scan' = [scan EXCEPT !.pc = "take"] /\ queue' = Tail(queue)

\* checkpointSourceEntry: the digest is taken while the custody of the lstat holds.
sourceEntry ==
    /\ scan.pc = "digest"
    /\ IF ~dirHeld \/ stamp[scan.name] # scan.at THEN Refuse
       ELSE /\ taken' = Append(taken, [path |-> scan.name, custody |-> scan.at])
            /\ queue' = IF scan.name \in Folder THEN Append(queue, [dir |-> scan.name, custody |-> scan.at]) ELSE queue
            /\ scan' = [scan EXCEPT !.pc = "read"] /\ keepTree /\ UNCHANGED <<index, emitted, snapshot>>

\* seal, then the graph: every entry's parent is a captured directory; last the roots.
sealIndex ==
    /\ scan.pc = "take" /\ queue = <<>>
    /\ LET order == sort([i \in DOMAIN taken |-> taken[i].path]) IN
       IF ~rootHeld \/ (\E i \in DOMAIN order : Up[order[i]] # 0 /\ find(order, Up[order[i]]) = 0) THEN Refuse
       ELSE /\ index' = order /\ scan' = [scan EXCEPT !.pc = "emit", !.at = 1]
            /\ snapshot' = [p \in Path |-> stamp[p]] /\ keepTree /\ UNCHANGED <<queue, taken, emitted>>

-----------------------------------------------------------------------------
(* The archive *)

\* checkpointSourceParent: the root and every ancestor have their recorded custody.
sourceParent(p) == rootHeld /\ (Up[p] # 0 => stamp[Up[p]] = recorded(Up[p]))
\* Mutant of validateEntry: a directory has no payload, so there is nothing to prove.
NoPayload(p) == TRUE
validateEntry(p) == sourceParent(p) /\ stamp[p] = recorded(p)
\* openPayload: the file opened under its parent is the captured one.
openPayload(p) == sourceParent(p) /\ stamp[p] = recorded(p)
emitEntry ==
    /\ scan.pc = "emit" /\ scan.at <= Len(index)
    /\ LET p == index[scan.at] IN
       IF ~(IF p \in Folder THEN validateEntry(p) ELSE openPayload(p)) THEN Refuse
       ELSE /\ scan' = IF p \in Folder THEN [scan EXCEPT !.at = @ + 1] ELSE [scan EXCEPT !.pc = "payload"]
            /\ emitted' = IF p \in Folder THEN [emitted EXCEPT ![p] = stamp[p]] ELSE emitted
            /\ keepTree /\ UNCHANGED <<queue, taken, index, snapshot>>
\* pull: a chunk read while the file was replaced or edited is never sent.
pull ==
    /\ scan.pc = "payload"
    /\ LET p == index[scan.at] IN
       IF ~openPayload(p) THEN Refuse
       ELSE /\ emitted' = [emitted EXCEPT ![p] = stamp[p]] /\ scan' = [scan EXCEPT !.pc = "emit", !.at = @ + 1]
            /\ keepTree /\ UNCHANGED <<queue, taken, index, snapshot>>
finishArchive ==
    /\ scan.pc = "emit" /\ scan.at > Len(index) /\ scan' = [scan EXCEPT !.pc = "done"]
    /\ keepTree /\ UNCHANGED <<queue, taken, index, emitted, snapshot>>
\* close by the caller or an abort
closeCapture == scan.pc \in {"take", "read", "digest", "emit", "payload"} /\ Refuse

-----------------------------------------------------------------------------
(* Processes of the workspace *)

keepScan == UNCHANGED <<harness, scan, queue, taken, index, emitted, snapshot>>
Touch(ps, gone) == /\ clock < MaxWrites + 1 /\ clock' = clock + 1
                   /\ stamp' = [p \in Node |-> IF p \in gone THEN 0 ELSE IF p \in ps THEN clock + 1 ELSE stamp[p]]
editFile(p) == p \notin Folder /\ stamp[p] # 0 /\ Touch({p}, {}) /\ keepScan
addFile(p) == p \notin Folder /\ stamp[p] = 0 /\ stamp[Up[p]] # 0 /\ Touch({p, Up[p]}, {}) /\ keepScan
deleteFile(p) == p \notin Folder /\ stamp[p] # 0 /\ Touch({Up[p]}, {p}) /\ keepScan

CaptureNext ==
    \/ closeSessions \/ prepareHook \/ terminate \/ quiesced \/ deadline
    \/ \E how \in {"clean", "failed"} : childExits(how)
    \/ openRoot \/ takeDirectory \/ readName \/ sourceEntry \/ sealIndex
    \/ emitEntry \/ pull \/ finishArchive \/ closeCapture
    \/ \E p \in Path : editFile(p) \/ addFile(p) \/ deleteFile(p)

-----------------------------------------------------------------------------
\* A finished archive is the tree as it stood at one moment, the end of the scan: every entry with the content it had
\* then, no entry missing and none that was already gone, whatever the workspace's processes did meanwhile.  And the
\* scan starts with the harness gone and ended cleanly.
ArchiveIsOneMoment ==
    /\ scan.pc = "done" => emitted = snapshot
    /\ scan.pc # "wait" => harness.child = "clean"

\* The sorted index holds each appended path once, in order, and the search finds exactly the paths it holds; for the
\* captured tree and for every sequence of distinct paths up to the bound.
Distinct(n) == {s \in UNION {[1..k -> 1..n] : k \in 0..n} : \A i, j \in DOMAIN s : i # j => s[i] # s[j]}
Indexes(s, order, n) ==
    /\ Len(order) = Len(s) /\ ToSet(order) = ToSet(s) /\ \A i \in 1..(Len(order) - 1) : order[i] < order[i + 1]
    /\ \A p \in 1..n : IF p \in ToSet(s) THEN find(order, p) \in DOMAIN order /\ order[find(order, p)] = p ELSE find(order, p) = 0
SortIsRight == \A s \in Distinct(MaxSort) : Indexes(s, sort(s), MaxSort)
IndexIsExact ==
    /\ scan.pc \in {"emit", "payload", "done"} => Indexes([i \in DOMAIN taken |-> taken[i].path], index, Len(Up))
    /\ scan.pc = "wait" /\ clock = 1 => SortIsRight
=============================================================================
