---------------------------- MODULE DockerLaunch ----------------------------
(***************************************************************************)
(* The docker driver of one workspace: create lays down a projection       *)
(* directory, a companion, the private input files and a container, one    *)
(* command after another; each command may fail, the controller may crash  *)
(* between any two, and what is left is found again by label and removed.  *)
(* A finalizer that overlaps create is the subject of Lifecycle; here a    *)
(* clean-up starts when create has thrown, returned or died.               *)
(***************************************************************************)
EXTENDS Naturals, FiniteSets

CONSTANTS
    WithInputs,    \* the driver was given daemon-host input storage
    Restricted,    \* the template's network mode needs a companion
    MaxAttempts,   \* maxLaunchAttempts
    MaxOutages     \* bound on failing commands, host faults and crashes

VARIABLES
    stage,      \* where create is: "idle", "probe", "pull", "egress", "files", "run", "verify", "catch",
                \* "discard", "threw", "live", "ended"
    attempt,    \* attempts made; an attempt's projectionId is its number
    dirs,       \* projection directories on the daemon's host
    main,       \* the workspace container: [at: "none", "created", "up", "stopped"; the projection it mounts]
    companion,  \* the egress companion container is there
    files,      \* the workspace's private input files: "input", "egress"
    aliased,    \* the host exposes the projection a second time to the container
    ref,        \* providerRef of the row: "none" or [proj, companion known]
    cleaner,    \* the clean-up: "off", "stop", "remove", "purge"
    settled,    \* it reported success
    outages

dockerVars == <<stage, attempt, dirs, main, companion, files, aliased, ref, cleaner, settled, outages>>

NoRef == [proj |-> 0, companion |-> FALSE, there |-> FALSE]
NoMain == [at |-> "none", proj |-> 0]
Dir == IF WithInputs THEN {attempt} ELSE {}
Proj == IF WithInputs THEN attempt ELSE 0

DockerInit ==
    /\ stage = "idle" /\ attempt = 0 /\ dirs = {} /\ main = NoMain /\ companion = FALSE /\ files = {}
    /\ aliased \in BOOLEAN /\ ref = NoRef /\ cleaner = "off" /\ settled = TRUE /\ outages = 0

\* A docker command that fails although nothing is wrong with its arguments.
Outage == outages < MaxOutages /\ outages' = outages + 1
Works == UNCHANGED outages
Calm == UNCHANGED <<aliased, ref, cleaner, settled, attempt>>

-----------------------------------------------------------------------------
(* DockerDriver.create. *)

\* admission claimed the row; inputs.prepare makes the projection directory.
prepare ==
    /\ stage = "idle" /\ settled /\ attempt < MaxAttempts /\ attempt' = attempt + 1
    /\ dirs' = (IF WithInputs THEN dirs \cup {attempt + 1} ELSE dirs)
    /\ stage' = (IF WithInputs THEN "probe" ELSE "pull") /\ settled' = FALSE
    /\ UNCHANGED <<main, companion, files, aliased, ref, cleaner>> /\ Works
\* probeDaemonHost writes a marker in every root and reads it back from a container; the markers are
\* removed however it ends, and prepare takes the directory back when it throws.
probeDaemonHost ==
    /\ stage = "probe" /\ UNCHANGED <<main, companion, files>> /\ Calm
    /\ \/ stage' = "pull" /\ UNCHANGED dirs /\ Works
       \/ stage' = "threw" /\ dirs' = dirs \ {attempt} /\ Outage
pullPrivateImage ==
    /\ stage = "pull" /\ UNCHANGED <<dirs, main, companion, files>> /\ Calm
    /\ \/ stage' = (IF Restricted THEN "egress" ELSE "files") /\ Works
       \/ stage' = "discard" /\ Outage
\* createDockerEgress: its failures are outside createWorkspace's try, so its file stays for now.
createDockerEgress ==
    /\ stage = "egress" /\ files' = files \cup {"egress"} /\ UNCHANGED <<dirs, main>> /\ Calm
    /\ \/ ~companion /\ companion' = TRUE /\ stage' = "files" /\ Works
       \/ companion /\ stage' = "discard" /\ UNCHANGED companion /\ Works        \* the name is taken
       \/ ~companion /\ companion' \in BOOLEAN /\ stage' = "discard" /\ Outage   \* never healthy, rm -f's own failure ignored
writeInput ==
    /\ stage = "files" /\ UNCHANGED <<dirs, main, companion>> /\ Calm
    /\ \/ files' = files \cup {"input"} /\ stage' = "run" /\ Works
       \/ UNCHANGED files /\ stage' = "discard" /\ Outage
\* docker run --name: a container of that name makes it fail; a failed start leaves it created.
runContainer ==
    /\ stage = "run" /\ UNCHANGED <<dirs, companion, files>> /\ Calm
    /\ \/ /\ main.at = "none" /\ Dir \subseteq dirs /\ main' = [at |-> "up", proj |-> Proj]
          /\ stage' = (IF WithInputs THEN "verify" ELSE "live") /\ Works
       \/ /\ main.at = "none" /\ main' \in {main, [at |-> "created", proj |-> Proj]} /\ stage' = "catch" /\ Outage
       \/ main.at # "none" /\ stage' = "catch" /\ UNCHANGED main /\ Works
\* DockerInputs.inspect: labels, mounts, then a marker read through the live process root.
boundary == main.at = "up" /\ main.proj \in dirs /\ ~aliased
verifyCreatedProjection ==
    /\ stage = "verify" /\ UNCHANGED <<dirs, companion, files>> /\ Calm
    /\ \/ boundary /\ stage' = "live" /\ UNCHANGED main /\ Works
       \/ ~boundary /\ stage' = "catch" /\ main' = NoMain /\ Works
       \/ stage' = "catch" /\ main' \in {main, NoMain} /\ Outage
\* createWorkspace's catch: both files, and the companion as far as docker answers.
CatchRemoves ==
    /\ stage = "catch" /\ files' = {} /\ stage' = "discard" /\ UNCHANGED <<dirs, main>> /\ Calm
    /\ \/ companion' = FALSE /\ Works
       \/ companion /\ UNCHANGED companion /\ Outage
DiscardBlindly ==
    /\ stage = "discard" /\ stage' = "threw" /\ dirs' = dirs \ Dir /\ Works
    /\ UNCHANGED <<main, companion, files>> /\ Calm
\* DockerInputs.discard leaves a projection some container still mounts.
discard ==
    /\ stage = "discard" /\ stage' = "threw" /\ UNCHANGED <<main, companion, files>> /\ Calm
    /\ \/ main.at # "none" /\ main.proj = Proj /\ UNCHANGED dirs /\ Works
       \/ (main.at = "none" \/ main.proj # Proj) /\ dirs' = dirs \ Dir /\ Works
       \/ UNCHANGED dirs /\ WithInputs /\ Outage

\* admission saves the reference, whatever happened to the row meanwhile.
saveRef ==
    /\ stage = "live" /\ ref = NoRef /\ cleaner = "off" /\ ref' = [proj |-> main.proj, companion |-> companion, there |-> TRUE]
    /\ UNCHANGED <<stage, attempt, dirs, main, companion, files, aliased, cleaner, settled>> /\ Works
\* cleanupInput: the registration secret is spent.
cleanupInput ==
    /\ stage = "live" /\ ref # NoRef /\ "input" \in files /\ files' = files \ {"input"}
    /\ UNCHANGED <<stage, attempt, dirs, main, companion, aliased, ref, cleaner, settled>> /\ Works
exits ==
    /\ stage = "live" /\ main.at = "up" /\ main' = [main EXCEPT !.at = "stopped"]
    /\ UNCHANGED <<stage, attempt, dirs, companion, files, aliased, ref, cleaner, settled>> /\ Works
\* A crash anywhere in create.
Crash ==
    /\ stage \notin {"idle", "threw", "live", "ended"} /\ Outage /\ stage' = "threw"
    /\ UNCHANGED <<dirs, main, companion, files>> /\ Calm

-----------------------------------------------------------------------------
(* cleanupUncommittedProvider, and a finalizer of a live workspace. *)

Gone == /\ cleaner' = "off" /\ UNCHANGED settled
Hold == UNCHANGED <<stage, attempt, aliased>>
\* The saved reference, else what list finds under the workspace's label.
findProvider ==
    /\ cleaner = "off" /\ ~settled /\ stage \in {"threw", "live"} /\ Hold
    /\ UNCHANGED <<dirs, main, companion, files, settled>>
    /\ \/ ref # NoRef /\ cleaner' = "stop" /\ UNCHANGED ref /\ Works
       \/ /\ ref = NoRef /\ main.at # "none" /\ cleaner' = "stop" /\ Works
          /\ ref' = [proj |-> main.proj, companion |-> TRUE, there |-> TRUE]
       \/ ref = NoRef /\ main.at = "none" /\ cleaner' = "purge" /\ UNCHANGED ref /\ Works
\* stop: what docker answers is ignored.
stop ==
    /\ cleaner = "stop" /\ cleaner' = "remove" /\ Hold /\ UNCHANGED <<dirs, companion, files, ref, settled>>
    /\ \/ main' = (IF main.at = "up" THEN [main EXCEPT !.at = "stopped"] ELSE main) /\ Works
       \/ UNCHANGED main /\ Outage
\* DockerInputs.remove: only once docker says the container is gone.
RemovesProjection(left) ==
    IF WithInputs /\ ref.proj # 0
    THEN IF left THEN Gone /\ UNCHANGED <<dirs, files>>
         ELSE dirs' = dirs \ {ref.proj} /\ files' = {} /\ cleaner' = "purge" /\ UNCHANGED settled
    ELSE UNCHANGED dirs /\ files' = {} /\ cleaner' = "purge" /\ UNCHANGED settled
\* remove: rm -f of the container and of the companion, both failures ignored.
remove ==
    /\ cleaner = "remove" /\ Hold /\ UNCHANGED ref
    /\ \/ /\ main' = NoMain /\ companion' = (companion /\ ~ref.companion) /\ Works /\ RemovesProjection(FALSE)
       \/ /\ main.at # "none" /\ UNCHANGED <<main, companion>> /\ Outage /\ RemovesProjection(TRUE)
\* purgeInput: refuses while a container of the workspace is left.
purgeInput ==
    /\ cleaner = "purge" /\ Hold /\ UNCHANGED <<main, companion, ref>>
    /\ \/ /\ ~WithInputs \/ main.at = "none"
          /\ Works /\ dirs' = {} /\ files' = {} /\ cleaner' = "off" /\ settled' = TRUE
       \/ WithInputs /\ main.at # "none" /\ Works /\ UNCHANGED <<dirs, files>> /\ Gone
       \/ WithInputs /\ Outage /\ UNCHANGED <<dirs, files>> /\ Gone
\* A settled failed launch is queued again, a settled live workspace is over.
requeue ==
    /\ settled /\ cleaner = "off" /\ stage \in {"threw", "live"} /\ stage' = (IF stage = "threw" THEN "idle" ELSE "ended")
    /\ ref' = NoRef
    /\ UNCHANGED <<attempt, dirs, main, companion, files, aliased, cleaner, settled>> /\ Works
CrashCleaning ==
    /\ cleaner # "off" /\ Outage /\ cleaner' = "off"
    /\ UNCHANGED <<stage, attempt, dirs, main, companion, files, aliased, ref, settled>>

DockerNext ==
    \/ prepare \/ probeDaemonHost \/ pullPrivateImage \/ createDockerEgress \/ writeInput \/ runContainer
    \/ verifyCreatedProjection \/ CatchRemoves \/ discard \/ saveRef \/ cleanupInput \/ exits \/ Crash
    \/ findProvider \/ stop \/ remove \/ purgeInput \/ requeue \/ CrashCleaning

-----------------------------------------------------------------------------
(* With input storage, a launch that is reported clean has left no         *)
(* container, no input file and no projection, although remove ignores     *)
(* what docker answers, and its egress companion only after a failed       *)
(* command or a crash, since a companion without its container is not      *)
(* looked for (docker.ts:134); a projection is never taken from under a    *)
(* container that mounts it; and a workspace goes live only with a         *)
(* container that reads the projection of its own attempt.                 *)
LaunchIsCleaned ==
    WithInputs =>
        /\ settled => main = NoMain /\ files = {} /\ dirs = {} /\ (companion => outages > 0)
        /\ main.at # "none" => main.proj \in dirs
        /\ stage = "live" /\ main.at = "up" => main.proj = attempt /\ ~aliased
=============================================================================
