--------------------------- MODULE CheckpointDestination ---------------------------
(***************************************************************************)
(* Restoring a checkpoint archive into a private directory.  The stream is *)
(* spooled and verified, the entries are made in a stage next to the       *)
(* roots, and publish() renames the top-level names into the root, or puts *)
(* every one back.  Every name is held by its custody (the stat of the     *)
(* object) in a ledger of slots; another process may disturb the tree once,*)
(* between any two steps.                                                  *)
(***************************************************************************)
EXTENDS Naturals, Sequences, SequencesExt, FiniteSets

CONSTANTS
    Tree,       \* the entries in index order: [kind, up], up = 0 at the top of the mount
    FileSize,   \* writes a file takes
    MaxArchive  \* reserved size of the archive, in chunks

VARIABLES
    feed,     \* what the source sends
    got,      \* chunks spooled
    job,      \* the download: [pc, at]
    slot,     \* the ledger: 0 absent, 1 open, 2 staged, 3 published
    size,     \* bytes written to a file
    place,    \* where an entry is: "none", "stage" or "root", "in" for one below a directory
    stageUp,  \* the stage directory exists
    dest,     \* [roots, published, closed] flags of the destination
    tidy,     \* its close: [pc, at]
    harm,     \* what the other process did: [kind, at, before]
    dirty     \* objects whose stat differs from the ledger

destinationVars == <<feed, got, job, slot, size, place, stageUp, dest, tidy, harm, dirty>>

Entry == DOMAIN Tree
IsDir(e) == Tree[e].kind = "directory"
Top(e) == IF Tree[e].up = 0 THEN e ELSE Tree[e].up
Tops == SelectSeq([i \in Entry |-> i], LAMBDA e : Tree[e].up = 0)
\* The archive's order; links are made once every file is complete.
Extraction == SelectSeq([i \in Entry |-> i], LAMBDA e : Tree[e].kind # "symlink")
              \o SelectSeq([i \in Entry |-> i], LAMBDA e : Tree[e].kind = "symlink")

DestinationInit ==
    /\ feed \in {"exact", "other", "foreign", "short", "long"}
    /\ got = 0 /\ job = [pc |-> "receive", at |-> 1]
    /\ slot = [e \in Entry |-> 0] /\ size = [e \in Entry |-> 0] /\ place = [e \in Entry |-> "none"]
    /\ stageUp = FALSE /\ dest = [roots |-> FALSE, published |-> FALSE, closed |-> FALSE]
    /\ tidy = [pc |-> "no", at |-> 0] /\ harm = [kind |-> "none", at |-> 0, before |-> FALSE] /\ dirty = {}

-----------------------------------------------------------------------------
(* Custody *)

Root == 98
Stage == 99
Home == IF dest.roots THEN "root" ELSE "stage"
Holder(e) == IF Tree[e].up # 0 THEN Tree[e].up ELSE IF dest.roots THEN Root ELSE Stage
Alien(dir) == harm.kind = "alien" /\ harm.at = dir
\* validateNative: the stage and the root are the ones the ledger knows.
validateNative == dirty \cap {Root, Stage} = {}
\* openParent: the ancestors exist, with their recorded custody.
openParent(e) == validateNative /\ (Tree[e].up # 0 => slot[Tree[e].up] # 0 /\ Tree[e].up \notin dirty)
\* inspectEntry: the named object is in its place and the one recorded.
inspectEntry(e) == place[e] # "none" /\ place[Top(e)] = Home /\ e \notin dirty
\* inspectDirectory: no name the ledger does not have.  The root is only listed when publishing.
inspectDirectory == harm.kind # "alien" \/ harm.at = Root
\* census: every recorded entry, and every entry when the tree must be complete.
census(complete) ==
    /\ validateNative /\ inspectDirectory
    /\ \A e \in Entry : IF slot[e] = 0 THEN ~complete ELSE (complete => slot[e] # 1) /\ inspectEntry(e)
\* verifyDestinationContent: the bytes are hashed again.
verifyContent == harm.kind # "edit"
sealGraph(content) == census(TRUE) /\ (content => verifyContent)

-----------------------------------------------------------------------------
(* The download *)

Working == <<feed, got, slot, size, place, stageUp, dest, tidy, harm, dirty>>
To(pc, at) == job' = [pc |-> pc, at |-> at]
Fail == To("failed", 0) /\ UNCHANGED Working
Sent == CASE feed = "short" -> 1 [] feed = "long" -> MaxArchive + 1 [] OTHER -> MaxArchive

\* pull: a chunk is spooled within the reservation; the header is authorized before anything else.
receive ==
    /\ job.pc = "receive"
    /\ \/ dest.closed /\ Fail
       \/ ~dest.closed /\ got < Sent /\ (got = MaxArchive \/ (feed = "foreign" /\ got = 1)) /\ Fail
       \/ /\ ~dest.closed /\ got < Sent /\ got < MaxArchive /\ ~(feed = "foreign" /\ got = 1)
          /\ got' = got + 1 /\ UNCHANGED <<feed, job, slot, size, place, stageUp, dest, tidy, harm, dirty>>
       \/ /\ ~dest.closed /\ got = Sent
          /\ IF feed = "short" THEN Fail ELSE To("verified", 0) /\ UNCHANGED Working

\* Mutant of verifySource: any well-formed archive is good enough.
AnyArchive == job.pc = "verified" /\ ~dest.closed /\ To("stage", 0) /\ UNCHANGED Working
\* The verified digest is compared with the recorded source before a destination exists.
verifySource ==
    /\ job.pc = "verified"
    /\ IF dest.closed \/ feed # "exact" THEN Fail ELSE To("stage", 0) /\ UNCHANGED Working

\* openDestinationParents wants an empty root; createStages adds the stage to it.
createStages ==
    /\ job.pc = "stage"
    /\ IF dest.closed \/ Alien(Root) THEN Fail
       ELSE /\ stageUp' = TRUE /\ To("entry", 1)
            /\ UNCHANGED <<feed, got, slot, size, place, dest, tidy, harm, dirty>>

\* One entry begins: the parent is opened, and the name must be new to the ledger.
openEntry ==
    /\ job.pc = "entry" /\ job.at <= Len(Extraction)
    /\ IF dest.closed \/ slot[Extraction[job.at]] # 0 \/ ~openParent(Extraction[job.at]) THEN Fail
       ELSE To("make", job.at) /\ UNCHANGED Working

\* createEntry, openDestinationFile: nothing asks whether the destination was closed meanwhile.
createEntry ==
    /\ job.pc = "make"
    /\ LET e == Extraction[job.at] IN
       IF ~stageUp \/ ~openParent(e) THEN Fail
       ELSE /\ place' = [place EXCEPT ![e] = IF Tree[e].up = 0 THEN "stage" ELSE "in"]
            /\ slot' = [slot EXCEPT ![e] = IF Tree[e].kind = "file" THEN 1 ELSE 2]
            /\ IF Tree[e].kind = "file" THEN To("write", job.at) ELSE To("entry", job.at + 1)
            /\ UNCHANGED <<feed, got, size, stageUp, dest, tidy, harm, dirty>>

\* writeBytes: the completed write is recorded before anything is checked again.
writeBytes ==
    /\ job.pc = "write" /\ size[Extraction[job.at]] < FileSize
    /\ LET e == Extraction[job.at] IN
       IF dest.closed \/ ~openParent(e) \/ ~inspectEntry(e) THEN Fail
       ELSE /\ size' = [size EXCEPT ![e] = @ + 1]
            /\ \/ UNCHANGED <<job, harm, dirty>>
               \/ /\ harm.kind = "none" /\ harm' = [kind |-> "io", at |-> e, before |-> TRUE]
                  /\ dirty' = dirty \cup {e} /\ To("failed", 0)
            /\ UNCHANGED <<feed, got, slot, place, stageUp, dest, tidy>>

\* finish: size and digest of what was sent, then mode and time.
finish ==
    /\ job.pc = "write" /\ size[Extraction[job.at]] = FileSize
    /\ LET e == Extraction[job.at] IN
       IF dest.closed \/ ~openParent(e) \/ ~inspectEntry(e) THEN Fail
       ELSE /\ slot' = [slot EXCEPT ![e] = 2] /\ To("entry", job.at + 1)
            /\ UNCHANGED <<feed, got, size, place, stageUp, dest, tidy, harm, dirty>>

\* census and preparedMounts: the whole graph once more before the mounts are handed out.
prepare ==
    /\ job.pc = "entry" /\ job.at > Len(Extraction)
    /\ IF dest.closed \/ ~sealGraph(FALSE) THEN Fail ELSE To("prepared", 0) /\ UNCHANGED Working

-----------------------------------------------------------------------------
(* Publication *)

publish ==
    /\ job.pc = "prepared" /\ ~dest.closed /\ To("publish", 0)
    /\ harm' = [harm EXCEPT !.before = harm.kind # "none"]
    /\ UNCHANGED <<feed, got, slot, size, place, stageUp, dest, tidy, dirty>>

Reject == To("prepared", 0) /\ UNCHANGED Working
\* admitRoots: the root holds the stage and nothing else.
admitRoots ==
    /\ job.pc = "publish"
    /\ IF dest.closed \/ ~sealGraph(FALSE) \/ Alien(Root) \/ \E e \in Entry : place[e] = "root" THEN Reject
       ELSE To("move", 1) /\ UNCHANGED Working

\* Undo reads the slots, so it starts from the last name.
Undo == dest' = [dest EXCEPT !.roots = FALSE] /\ To("rollback", Len(Tops))
             /\ UNCHANGED <<feed, got, slot, size, place, stageUp, tidy, harm, dirty>>

moveEntry ==
    /\ job.pc = "move" /\ job.at <= Len(Tops)
    /\ LET e == Tops[job.at] IN
       IF ~validateNative \/ ~inspectEntry(e) THEN Undo
       ELSE /\ place' = [place EXCEPT ![e] = "root"] /\ slot' = [slot EXCEPT ![e] = 3] /\ To("move", job.at + 1)
            /\ UNCHANGED <<feed, got, size, stageUp, dest, tidy, harm, dirty>>

usePublishedRoots ==
    /\ job.pc = "move" /\ job.at > Len(Tops)
    /\ dest' = [dest EXCEPT !.roots = TRUE] /\ To("complete", 0)
    /\ UNCHANGED <<feed, got, slot, size, place, stageUp, tidy, harm, dirty>>

\* complete(): the published graph is proved, content included; an abort is noticed here for the last time.
complete ==
    /\ job.pc = "complete"
    /\ IF dest.closed \/ ~sealGraph(TRUE) THEN Undo ELSE To("assert", 0) /\ UNCHANGED Working

\* Mutant of rollbackMoves: the error is thrown and the moved names stay.
RollbackNothing == job.pc = "rollback" /\ Reject
\* rollbackMoves: every moved name goes back, and a changed one stops it.
rollbackMoves ==
    /\ job.pc = "rollback"
    /\ IF job.at = 0 THEN Reject
       ELSE LET e == Tops[job.at] IN
            IF slot[e] # 3 THEN To("rollback", job.at - 1) /\ UNCHANGED Working
            ELSE IF ~validateNative \/ e \in dirty THEN Reject
            ELSE /\ place' = [place EXCEPT ![e] = "stage"] /\ slot' = [slot EXCEPT ![e] = 2]
                 /\ To("rollback", job.at - 1) /\ UNCHANGED <<feed, got, size, stageUp, dest, tidy, harm, dirty>>

\* assertPublishedRoots: only our names, with the custody of the rename.
assertPublishedRoots ==
    /\ job.pc = "assert"
    /\ IF ~validateNative \/ Alien(Root) \/ (\E i \in DOMAIN Tops : Tops[i] \in dirty) THEN Reject
       ELSE To("release", 0) /\ UNCHANGED Working

releaseStages ==
    /\ job.pc = "release"
    /\ IF ~validateNative \/ Alien(Stage) THEN Reject
       ELSE /\ stageUp' = FALSE /\ dest' = [dest EXCEPT !.published = TRUE] /\ To("published", 0)
            /\ UNCHANGED <<feed, got, slot, size, place, tidy, harm, dirty>>

-----------------------------------------------------------------------------
(* Close *)

Pending == job.pc \in {"make", "publish", "move", "complete", "rollback", "assert", "release"}

\* An abort at any time, the caller's close, or a failed download.
close ==
    /\ ~dest.closed /\ dest' = [dest EXCEPT !.closed = TRUE] /\ tidy' = [tidy EXCEPT !.pc = "drain"]
    /\ UNCHANGED <<feed, got, job, slot, size, place, stageUp, harm, dirty>>

keepJob == UNCHANGED <<feed, got, job, size, dest, harm, dirty>>
Tidy(pc, at) == tidy' = [pc |-> pc, at |-> at]
\* Mutant of drainDestinationClose: only the open file is waited for.
DrainFileOnly == /\ tidy.pc = "drain" /\ Tidy(IF dest.published \/ ~stageUp THEN "done" ELSE "census", 0)
                 /\ keepJob /\ UNCHANGED <<slot, place, stageUp>>
\* drainDestinationClose: the open file, the running work, and the file it may have opened.
drainDestinationClose ==
    /\ tidy.pc = "drain" /\ ~Pending /\ Tidy(IF dest.published \/ ~stageUp THEN "done" ELSE "census", 0)
    /\ keepJob /\ UNCHANGED <<slot, place, stageUp>>

\* remove, first half: nothing is removed unless all that exists is ours.
removeCensus ==
    /\ tidy.pc = "census" /\ (IF census(FALSE) THEN Tidy("unlink", Len(Tree)) ELSE Tidy("error", 0))
    /\ keepJob /\ UNCHANGED <<slot, place, stageUp>>

\* Mutant of mayUnlink: the name is enough.
UnlinkByName(e) == openParent(e) /\ ~Alien(e)
\* A name is unlinked with its custody just proved; a directory that is not empty is refused.
mayUnlink(e) == openParent(e) /\ inspectEntry(e) /\ ~Alien(e)
\* remove, second half: in reverse order, and a removed slot authorizes nothing later.
remove ==
    /\ tidy.pc = "unlink" /\ keepJob /\ UNCHANGED stageUp
    /\ \/ tidy.at = 0 /\ Tidy("stages", 0) /\ UNCHANGED <<slot, place>>
       \/ tidy.at > 0 /\ slot[tidy.at] = 0 /\ Tidy("unlink", tidy.at - 1) /\ UNCHANGED <<slot, place>>
       \/ /\ tidy.at > 0 /\ slot[tidy.at] # 0 /\ mayUnlink(tidy.at)
          /\ slot' = [slot EXCEPT ![tidy.at] = 0] /\ place' = [place EXCEPT ![tidy.at] = "none"]
          /\ Tidy("unlink", tidy.at - 1)
       \/ tidy.at > 0 /\ slot[tidy.at] # 0 /\ ~mayUnlink(tidy.at) /\ Tidy("error", 0) /\ UNCHANGED <<slot, place>>

removeStages ==
    /\ tidy.pc = "stages" /\ keepJob /\ UNCHANGED <<slot, place>>
    /\ IF ~validateNative \/ Alien(Stage) \/ \E e \in Entry : place[e] = "stage"
       THEN Tidy("error", 0) /\ UNCHANGED stageUp
       ELSE stageUp' = FALSE /\ Tidy("done", 0)

-----------------------------------------------------------------------------
(* Another process, once *)

\* Objects whose stat the running step reads again, trusting their identity: a change made just then is adopted.
Adopts(o) ==
    \/ job.pc = "make" /\ o = Holder(Extraction[job.at])
    \/ job.pc = "write" /\ o = Extraction[job.at]
    \/ job.pc \in {"move", "rollback"} /\ o \in {Root, Stage}
    \/ (job.pc \in {"publish", "move", "complete"} \/ tidy.pc = "census") /\ o \in Entry /\ IsDir(o)
    \/ tidy.pc = "unlink" /\ tidy.at # 0 /\ o = Holder(tidy.at)
Publishing == job.pc \in {"publish", "move", "complete", "rollback", "assert", "release"}
Held(e) == slot[e] # 0 /\ place[e] # "none"
intrude(kind, o) ==
    /\ harm.kind = "none" /\ ~dest.published /\ harm' = [kind |-> kind, at |-> o, before |-> ~Publishing]
    /\ UNCHANGED <<feed, got, job, slot, size, place, stageUp, dest, tidy>>
addName(dir) ==
    /\ IF dir = Stage THEN stageUp ELSE dir \in Entry => Held(dir) /\ IsDir(dir)
    /\ intrude("alien", dir)
    /\ \/ dirty' = dirty \cup (IF dir = Root /\ job.pc \in {"receive", "verified", "stage"} THEN {} ELSE {dir})
       \/ Adopts(dir) /\ UNCHANGED dirty
editFile(e) ==
    /\ Held(e) /\ Tree[e].kind = "file" /\ intrude("edit", e)
    /\ \/ dirty' = dirty \cup {e}
       \/ Adopts(e) /\ UNCHANGED dirty
replaceEntry(e) ==
    /\ Held(e) /\ intrude("replace", e)
    /\ LET holder == IF Tree[e].up # 0 THEN Tree[e].up ELSE IF place[e] = "root" THEN Root ELSE Stage IN
       \/ dirty' = dirty \cup {e, holder}
       \/ Adopts(holder) /\ dirty' = dirty \cup {e}

DestinationNext ==
    \/ receive \/ verifySource \/ createStages \/ openEntry \/ createEntry \/ writeBytes \/ finish \/ prepare
    \/ publish \/ admitRoots \/ moveEntry \/ usePublishedRoots \/ complete \/ rollbackMoves
    \/ assertPublishedRoots \/ releaseStages
    \/ close \/ drainDestinationClose \/ removeCensus \/ remove \/ removeStages
    \/ \E o \in Entry \cup {Root, Stage} : addName(o)
    \/ \E e \in Entry : editFile(e) \/ replaceEntry(e)

-----------------------------------------------------------------------------
\* publish() is all or nothing: a published mount is the whole tree of the recorded archive, free of anything another
\* process did before publish() began; and a publication that was refused or undone leaves no name in the root.
PublicationIsWhole ==
    /\ stageUp => feed = "exact" /\ got = MaxArchive
    /\ dest.published =>
          /\ feed = "exact" /\ ~stageUp /\ ~harm.before
          /\ \A e \in Entry : place[e] # "none" /\ place[Top(e)] = "root" /\ (Tree[e].kind = "file" => size[e] = FileSize)
    /\ (harm.kind = "none" /\ ~Publishing /\ ~dest.published) => \A e \in Entry : place[e] # "root"

\* close() of a destination that was not published removes all it made and only that: it succeeds whenever nobody else
\* touched the tree, a success means nothing is left, and an object put in the place of ours is never unlinked.
CloseIsExact ==
    /\ (tidy.pc = "done" /\ ~dest.published) => ~stageUp /\ \A e \in Entry : place[e] = "none"
    /\ harm.kind = "none" => tidy.pc # "error"
    /\ harm.kind = "replace" => place[harm.at] # "none"
=============================================================================
