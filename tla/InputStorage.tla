------------------------------- MODULE InputStorage -------------------------------
(***************************************************************************)
(* Attachments: an upload claims a row and a reservation, writes a version *)
(* of the file, then publishes it.  A retention sweep, a failed upload and *)
(* a purge remove versions; a frozen manifest pins the files an execution  *)
(* was given.  Row transactions are atomic; driver calls, the controller's *)
(* memory and crashes interleave with them.  A version is its reservation. *)
(***************************************************************************)
EXTENDS Naturals, FiniteSets, Functions

--------------------------------------------------------------------------------
(* The table of storage reservations: what every upload, screenshot and    *)
(* backup is charged before it writes a byte.  Every transaction holds the *)
(* storage-capacity lock, so each operator below is one step.              *)

CONSTANTS
    Reservation, \* reservation ids
    Quota,       \* capacity of the instance, in units; one reservation is one unit
    DiskFree,    \* free units of the empty disk
    Headroom     \* freeDisk.headroomBytes

VARIABLE res     \* [st, mat]: state and materialized units of each reservation

Unreserved == [st |-> "none", mat |-> 0]
Charged1 == {r \in Reservation : res[r].st \in {"reserved", "committed", "releasing"}}
Set1(r, st, mat) == res' = [res EXCEPT ![r] = [st |-> st, mat |-> mat]]

\* storageUsage: the units that are charged, and the ones promised but not yet written.
storageUsage == Cardinality(Charged1)
outstanding == FoldFunction(+, 0, [r \in Charged1 |-> 1 - res[r].mat])

\* Mutant of checkStorageCapacity: a disk that has just enough room for one promise is given twice.
IgnoresPromises(written) == storageUsage < Quota /\ 1 + Headroom <= DiskFree - written
\* checkStorageCapacity: the quota, then what is free beside the headroom and the unwritten promises.
checkStorageCapacity(written) == storageUsage < Quota /\ 1 + Headroom + outstanding <= DiskFree - written

reserveStorage(r, written) == checkStorageCapacity(written) /\ Set1(r, "reserved", 0)
commit(r) == res[r].st = "reserved" /\ Set1(r, "committed", 1)
beginRelease(r) == res[r].st # "released" /\ Set1(r, "releasing", res[r].mat)
releaseRow(r) == res[r].st = "releasing" /\ Set1(r, "released", 0)

--------------------------------------------------------------------------------
(* Attachments.                                                            *)

CONSTANTS
    InputFile,  \* attachment ids of one workspace
    Manifest,   \* input manifests
    MaxInputFaults \* bound on crashes and on lost bytes

VARIABLES
    obj,     \* input_objects: [st, ver, pub, old] of each file
    late,    \* versions whose transfer deadline has passed
    bytes,   \* the driver's copy of each version: "none", "partial", "whole", "lost"
    up,      \* where the upload of each version stands
    active1, \* InputStorage.active
    pin,     \* manifests: [st, file, ver]
    clean,   \* cleanup jobs of the sweep and of the purge: [pc, todo, snap, f, ver]
    wsp,     \* the workspace: "live", "ended", "purging" or "purged"
    missed,  \* history: versions whose deadline passed before the controller noted their upload as active
    inputFaults

inputVars == <<res, obj, late, bytes, up, active1, pin, clean, wsp, missed, inputFaults>>
Cleaner == {"sweep", "purge"}

NoObj == [st |-> "none", ver |-> 0, pub |-> FALSE, old |-> FALSE]
Idle == [pc |-> "idle", todo |-> {}, snap |-> {}, ver |-> 0]

InputInit ==
    /\ res = [r \in Reservation |-> Unreserved] /\ obj = [f \in InputFile |-> NoObj]
    /\ late = {} /\ bytes = [r \in Reservation |-> "none"] /\ up = [r \in Reservation |-> "none"] /\ active1 = {}
    /\ pin = [m \in Manifest |-> [st |-> "none", f |-> CHOOSE f \in InputFile : TRUE, ver |-> 0]]
    /\ clean = [c \in Cleaner |-> Idle] /\ wsp = "live" /\ missed = {} /\ inputFaults = 0

writtenBytes == Cardinality({r \in Reservation : bytes[r] # "none"})
fileOf(r) == {f \in InputFile : obj[f].ver = r}
inputIsPinned(f) == \E m \in Manifest : pin[m].st = "frozen" /\ pin[m].f = f
Obj(f, o) == obj' = [obj EXCEPT ![f] = o]

-----------------------------------------------------------------------------
(* An upload *)

\* begin: an unpublished row that expired is replaced; any other row is a conflict or a retry.
begin(f) ==
    /\ wsp = "live"
    /\ obj[f].st = "none" \/ (obj[f].st = "expired" /\ ~obj[f].pub)
    /\ \E r \in Reservation :
         /\ r = Cardinality({x \in Reservation : res[x].st # "none"}) + 1
         /\ reserveStorage(r, writtenBytes)
         /\ Obj(f, [NoObj EXCEPT !.st = "uploading", !.ver = r]) /\ up' = [up EXCEPT ![r] = "claimed"]
    /\ UNCHANGED <<late, bytes, active1, pin, clean, wsp, missed, inputFaults>>

UploadSteps(r, pc) == up' = [up EXCEPT ![r] = pc]
\* The claim reaches the controller, which notes the upload before the driver creates the version.
ClaimNoted(r) ==
    /\ up[r] = "claimed" /\ UploadSteps(r, "create") /\ active1' = active1 \cup {r}
    /\ UNCHANGED <<res, obj, late, bytes, pin, clean, wsp, missed, inputFaults>>
Create(r) ==
    /\ up[r] = "create" /\ UploadSteps(r, "write") /\ bytes' = [bytes EXCEPT ![r] = "partial"]
    /\ UNCHANGED <<res, obj, late, active1, pin, clean, wsp, missed, inputFaults>>
\* The body arrived whole, with its digest, before the deadline; writer.publish.
WriterPublish(r) ==
    /\ up[r] = "write" /\ r \notin late /\ UploadSteps(r, "publish") /\ bytes' = [bytes EXCEPT ![r] = "whole"]
    /\ UNCHANGED <<res, obj, late, active1, pin, clean, wsp, missed, inputFaults>>
\* publish of the row; a purge, an end of the workspace or a late commit refuses it.
publish(r) ==
    /\ up[r] = "publish" /\ r \notin late /\ wsp = "live"
    /\ \E f \in fileOf(r) :
         /\ obj[f].st = "uploading" /\ commit(r)
         /\ Obj(f, [obj[f] EXCEPT !.st = "ready", !.pub = TRUE])
    /\ UploadSteps(r, "none") /\ active1' = active1 \ {r}
    /\ UNCHANGED <<late, bytes, pin, clean, wsp, missed, inputFaults>>
\* The body broke off, the deadline fired or a call failed: the writer closes, then cleanup.
UploadFails(r) ==
    /\ up[r] \in {"create", "write", "publish"} /\ UploadSteps(r, "release") /\ active1' = active1 \ {r}
    /\ UNCHANGED <<res, obj, late, bytes, pin, clean, wsp, missed, inputFaults>>

\* unavailable, by a verification that misses the bytes.
unavailable(f) ==
    /\ obj[f].st = "ready" /\ bytes[obj[f].ver] = "lost" /\ Obj(f, [obj[f] EXCEPT !.st = "unavailable"])
verify(f) ==
    /\ unavailable(f) /\ UNCHANGED <<res, late, bytes, up, active1, pin, clean, wsp, missed, inputFaults>>

-----------------------------------------------------------------------------
(* cleanup: beginRelease, remove, release *)

\* Mutant of mayRelease: the sweep forgets that an execution may still read the file.
ReleasesPinned(f, r, atDeadline) ==
    /\ obj[f].ver = r /\ obj[f].st \notin {"none", "expired"}
    /\ obj[f].st = "uploading" => r \in late \/ atDeadline
    /\ obj[f].st \in {"ready", "unavailable"} => obj[f].old \/ wsp = "purging"
\* The conditions of beginRelease for the version a job read.
mayRelease(f, r, atDeadline) ==
    /\ obj[f].ver = r /\ obj[f].st \notin {"none", "expired"} /\ ~inputIsPinned(f)
    /\ obj[f].st = "uploading" => r \in late \/ atDeadline
    /\ obj[f].st \in {"ready", "unavailable"} => obj[f].old \/ wsp = "purging"
Releases(f, r) == Obj(f, [obj[f] EXCEPT !.st = "releasing"]) /\ beginRelease(r)
Expires(f, r) == /\ obj[f].ver = r /\ obj[f].st = "releasing"
                 /\ Obj(f, [obj[f] EXCEPT !.st = "expired"]) /\ releaseRow(r)
owner(r) == CHOOSE f \in InputFile : obj[f].ver = r

\* The cleanup of a failed upload; it fences its own row at the deadline.
UploadCleans(r) ==
    /\ \/ /\ up[r] = "release" /\ UNCHANGED bytes
          /\ IF fileOf(r) # {} /\ mayRelease(owner(r), r, TRUE)
             THEN Releases(owner(r), r) /\ UploadSteps(r, "remove")
             ELSE UploadSteps(r, "none") /\ UNCHANGED <<res, obj>>
       \/ /\ up[r] = "remove" /\ bytes' = [bytes EXCEPT ![r] = "none"] /\ UploadSteps(r, "expire")
          /\ UNCHANGED <<res, obj>>
       \/ /\ up[r] = "expire" /\ UploadSteps(r, "none") /\ UNCHANGED bytes
          /\ IF fileOf(r) # {} /\ obj[owner(r)].st = "releasing" THEN Expires(owner(r), r)
             ELSE UNCHANGED <<res, obj>>
    /\ UNCHANGED <<late, active1, pin, clean, wsp, missed, inputFaults>>

Clean(c, k) == clean' = [clean EXCEPT ![c] = k]
\* reconcile and purge read the rows, then clean them one by one.
CleanStarts(c) ==
    /\ clean[c].pc = "idle" /\ (c = "purge" => wsp = "purging")
    /\ LET rows == {obj[f].ver : f \in {g \in InputFile : obj[g].st \notin {"none", "expired"}}} IN
       Clean(c, [pc |-> "rows", todo |-> rows, snap |-> rows, ver |-> 0])
    /\ UNCHANGED <<res, obj, late, bytes, up, active1, pin, wsp, missed, inputFaults>>
CleanRow(c, r) ==
    /\ clean[c].pc = "rows" /\ r \in clean[c].todo
    /\ LET left == clean[c].todo \ {r} IN
       IF fileOf(r) # {} /\ r \notin active1 /\ mayRelease(owner(r), r, FALSE)
       THEN Releases(owner(r), r) /\ Clean(c, [clean[c] EXCEPT !.pc = "remove", !.todo = left, !.ver = r])
       ELSE Clean(c, [clean[c] EXCEPT !.todo = left]) /\ UNCHANGED <<res, obj>>
    /\ UNCHANGED <<late, bytes, up, active1, pin, wsp, missed, inputFaults>>
\* Mutant of CleanRemoves: the charge is given back with the removal still to come.
FreesFirst(c) == clean[c].pc = "remove" /\ Clean(c, [clean[c] EXCEPT !.pc = "expire"]) /\ UNCHANGED bytes
CleanRemoves(c) ==
    /\ clean[c].pc = "remove" /\ Clean(c, [clean[c] EXCEPT !.pc = "expire"])
    /\ bytes' = [bytes EXCEPT ![clean[c].ver] = "none"]
\* A release that finds its row gone throws, which ends the job; the next one starts over.
CleanReleases(c) ==
    /\ clean[c].pc = "expire"
    /\ LET r == clean[c].ver IN
       IF fileOf(r) # {} /\ obj[owner(r)].st = "releasing"
       THEN Expires(owner(r), r) /\ Clean(c, [clean[c] EXCEPT !.pc = "rows", !.ver = 0])
       ELSE Clean(c, Idle) /\ UNCHANGED <<res, obj>>
    /\ UNCHANGED <<late, bytes, up, active1, pin, wsp, missed, inputFaults>>
CleanRemoved(c) == CleanRemoves(c) /\ UNCHANGED <<res, obj, late, up, active1, pin, wsp, missed, inputFaults>>
\* The sweep also removes versions no row names, read again before each removal.
Orphans(c) ==
    /\ c = "sweep" /\ clean[c].pc = "rows" /\ clean[c].todo = {}
    /\ Clean(c, [clean[c] EXCEPT !.pc = "orphans", !.todo = {r \in Reservation : bytes[r] # "none"} \ clean[c].snap])
    /\ UNCHANGED <<res, obj, late, bytes, up, active1, pin, wsp, missed, inputFaults>>
\* Mutant of isOrphan: the sweep trusts the rows it read when it started.
StaleOrphan(r) == TRUE
isOrphan(r) == \A f \in fileOf(r) : obj[f].st = "expired"
RemoveOrphan(c, r) ==
    /\ clean[c].pc = "orphans" /\ r \in clean[c].todo
    /\ Clean(c, [clean[c] EXCEPT !.todo = @ \ {r}])
    /\ bytes' = IF isOrphan(r) THEN [bytes EXCEPT ![r] = "none"] ELSE bytes
    /\ UNCHANGED <<res, obj, late, up, active1, pin, wsp, missed, inputFaults>>
\* The purge is done when every row has expired; it deletes the rows and ends the workspace's content.
CleanEnds(c) ==
    /\ clean[c].todo = {} /\ clean[c].pc = (IF c = "sweep" THEN "orphans" ELSE "rows") /\ Clean(c, Idle)
    /\ IF c = "purge" /\ \A f \in InputFile : obj[f].st \in {"none", "expired"}
       THEN obj' = [f \in InputFile |-> NoObj] /\ wsp' = "purged"
       ELSE UNCHANGED <<obj, wsp>>
    /\ UNCHANGED <<res, late, bytes, up, active1, pin, missed, inputFaults>>

-----------------------------------------------------------------------------
(* Manifests, the workspace and the world *)

freeze(m, f) ==
    /\ pin[m].st = "none" /\ wsp = "live" /\ obj[f].st = "ready" /\ (~obj[f].old \/ inputIsPinned(f))
    /\ pin' = [pin EXCEPT ![m] = [st |-> "frozen", f |-> f, ver |-> obj[f].ver]]
    /\ UNCHANGED <<res, obj, late, bytes, up, active1, clean, wsp, missed, inputFaults>>
\* finalizeInputManifest: the retention of its files starts over.
finalizeInputManifest(m) ==
    /\ pin[m].st = "frozen" /\ pin' = [pin EXCEPT ![m].st = "final"]
    /\ Obj(pin[m].f, [obj[pin[m].f] EXCEPT !.old = FALSE])
    /\ UNCHANGED <<res, late, bytes, up, active1, clean, wsp, missed, inputFaults>>

WorkspaceMoves ==
    /\ wsp' = CASE wsp = "live" -> "ended" [] wsp = "ended" -> "purging" [] OTHER -> "none"
    /\ wsp \in {"live", "ended"}
    /\ UNCHANGED <<res, obj, late, bytes, up, active1, pin, clean, missed, inputFaults>>
\* A retention or a transfer's deadline passes, which may be before the claim reached the controller.
TimePasses ==
    /\ \/ \E r \in Reservation : /\ res[r].st = "reserved" /\ r \notin late
                                 /\ late' = late \cup {r} /\ UNCHANGED obj
                                 /\ missed' = IF up[r] = "claimed" THEN missed \cup {r} ELSE missed
       \/ \E f \in InputFile : /\ obj[f].pub /\ ~obj[f].old /\ Obj(f, [obj[f] EXCEPT !.old = TRUE])
                               /\ UNCHANGED <<late, missed>>
    /\ UNCHANGED <<res, bytes, up, active1, pin, clean, wsp, inputFaults>>
InputCrash ==
    /\ inputFaults < MaxInputFaults /\ inputFaults' = inputFaults + 1
    /\ up' = [r \in Reservation |-> "none"] /\ active1' = {} /\ clean' = [c \in Cleaner |-> Idle]
    /\ UNCHANGED <<res, obj, late, bytes, pin, wsp, missed>>
BytesLost(r) ==
    /\ inputFaults < MaxInputFaults /\ inputFaults' = inputFaults + 1
    /\ bytes[r] = "whole" /\ bytes' = [bytes EXCEPT ![r] = "lost"]
    /\ UNCHANGED <<res, obj, late, up, active1, pin, clean, wsp, missed>>

InputNext ==
    \/ WorkspaceMoves \/ TimePasses \/ InputCrash
    \/ \E f \in InputFile : begin(f) \/ verify(f) \/ \E m \in Manifest : freeze(m, f)
    \/ \E m \in Manifest : finalizeInputManifest(m)
    \/ \E r \in Reservation : \/ ClaimNoted(r) \/ Create(r) \/ WriterPublish(r) \/ publish(r) \/ UploadFails(r)
                              \/ UploadCleans(r) \/ BytesLost(r)
    \/ \E c \in Cleaner : \/ CleanStarts(c) \/ CleanRemoved(c) \/ CleanReleases(c) \/ Orphans(c) \/ CleanEnds(c)
                          \/ \E r \in Reservation : CleanRow(c, r) \/ RemoveOrphan(c, r)

-----------------------------------------------------------------------------
\* Bytes an attachment holds on disk are charged until they are gone, what is charged fits the quota and the
\* disk beside its headroom, a file that can be read is charged, and a purged workspace has no bytes.  The one
\* exception is a transfer whose deadline passed before its controller had noted it: a sweep may give its charge
\* back and the upload still writes (checkStorageCapacity, upload, cleanup, purge).
BytesAreCharged ==
    LET Stray == missed \ Charged1
        Bytes == {r \in Reservation \ Stray : bytes[r] # "none"} IN
    /\ Bytes \subseteq Charged1
    /\ storageUsage <= Quota
    /\ Cardinality(Bytes \cup {r \in Charged1 : res[r].mat = 0}) + Headroom <= DiskFree
    /\ \A f \in InputFile : obj[f].st = "ready" => res[obj[f].ver].st = "committed"
    /\ wsp = "purged" => Bytes = {}

\* No sweep, purge or failed upload takes a file from an execution whose manifest is frozen, or from an upload
\* that is under way and was noted before its deadline: only an outside loss does (freeze, beginRelease, reconcile).
NothingIsSweptInUse ==
    /\ \A m \in Manifest : pin[m].st = "frozen" =>
           /\ obj[pin[m].f].ver = pin[m].ver /\ obj[pin[m].f].st \in {"ready", "unavailable"}
           /\ bytes[pin[m].ver] \in {"whole", "lost"}
    /\ \A r \in Reservation \ missed : up[r] \in {"write", "publish"} => bytes[r] # "none"
================================================================================
