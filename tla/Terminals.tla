----------------------------- MODULE Terminals -----------------------------
(***************************************************************************)
(* Interactive terminals.  The controller keeps a session row and, in      *)
(* memory, a bridge from a client's socket to the supervisor, which runs   *)
(* the shell.  Clients come and go, the control channel drops and resumes, *)
(* the controller restarts, and the workspace ends.                        *)
(***************************************************************************)
EXTENDS Naturals, Sequences, SequencesExt, FiniteSets

CONSTANTS
    Session, Client,
    MaxSessions,      \* the template's limit
    ReplayLimit,      \* chunks the supervisor queues for a slow channel
    MaxShellEvents    \* bound on reattachments, input, output, disconnects and controller restarts

VARIABLES
    row,       \* workspace_terminal_sessions: "none", "open" or "closed"
    bridge,    \* [up, client, started]
    closing,   \* sessions whose row's closure is on its way to the database
    entering,  \* clients past the route's checks: [session, reattach], or none
    shell,     \* the supervisor's session: [up, out, exited]
    channel,   \* the control channel is registered
    down, up,  \* frames to the supervisor and back
    ended,     \* the workspace has ended
    events,
    hasty      \* sessions that a client came back to before their first client opened them (history)

terminalVars == <<row, bridge, closing, entering, shell, channel, down, up, ended, events, hasty>>

NoBridge == [up |-> FALSE, client |-> "none", started |-> FALSE]
NoShell == [up |-> FALSE, out |-> 0, exited |-> FALSE]
NotEntering == [session |-> "none", reattach |-> FALSE]
TerminalInit ==
    /\ row = [s \in Session |-> "none"] /\ bridge = [s \in Session |-> NoBridge] /\ closing = {}
    /\ entering = [c \in Client |-> NotEntering] /\ shell = [s \in Session |-> NoShell]
    /\ channel = TRUE /\ down = <<>> /\ up = <<>> /\ ended = FALSE /\ events = 0 /\ hasty = {}

OpenRows == {s \in Session : row[s] = "open"}
Shells == {s \in Session : shell[s].up}
Tell(m) == down' = IF channel THEN Append(down, m) ELSE down
Say(m) == up' = IF channel THEN Append(up, m) ELSE up
Event == events < MaxShellEvents /\ events' = events + 1

-----------------------------------------------------------------------------
(* Controller. *)

\* terminalCapability and terminalSession, before the upgrade.
mayConnect(c) == ~ended /\ channel /\ entering[c] = NotEntering /\ \A s \in Session : bridge[s].client # c
\* The client that made a session and has not opened it yet.
Maker(c, s) == entering[c] = [session |-> s, reattach |-> FALSE]
\* Mutant of openTerminalSession: bridges are counted, rows are not.
CountsBridges(c, s) ==
    /\ mayConnect(c) /\ row[s] = "none" /\ Cardinality({x \in Session : bridge[x].up}) < MaxSessions
    /\ row' = [row EXCEPT ![s] = "open"] /\ entering' = [entering EXCEPT ![c] = [session |-> s, reattach |-> FALSE]]
    /\ UNCHANGED <<bridge, closing, shell, channel, down, up, ended, hasty, events>>
openTerminalSession(c, s) ==
    /\ mayConnect(c) /\ row[s] = "none" /\ Cardinality(OpenRows) < MaxSessions
    /\ row' = [row EXCEPT ![s] = "open"] /\ entering' = [entering EXCEPT ![c] = [session |-> s, reattach |-> FALSE]]
    /\ UNCHANGED <<bridge, closing, shell, channel, down, up, ended, hasty, events>>
\* A row can be found, in the list of sessions or in the event of its opening, before its first client has opened it.
reattachSession(c, s) ==
    /\ mayConnect(c) /\ row[s] = "open" /\ Event
    /\ entering' = [entering EXCEPT ![c] = [session |-> s, reattach |-> TRUE]]
    /\ hasty' = IF \E d \in Client : Maker(d, s) THEN hasty \cup {s} ELSE hasty
    /\ UNCHANGED <<row, bridge, closing, shell, channel, down, up, ended>>
\* TerminalBridgeRegistry.open: a newer client replaces the one before it.
open(c) ==
    /\ entering[c] # NotEntering /\ entering' = [entering EXCEPT ![c] = NotEntering]
    /\ LET s == entering[c].session
           old == IF bridge[s].up THEN bridge[s] ELSE [NoBridge EXCEPT !.started = entering[c].reattach]
       IN  /\ bridge' = [bridge EXCEPT ![s] = [up |-> TRUE, client |-> c, started |-> old.started \/ channel]]
           /\ Tell([type |-> "open", session |-> s, reattach |-> entering[c].reattach])
    /\ UNCHANGED <<row, closing, shell, channel, up, ended, hasty, events>>
detachClient(c) ==
    \E s \in Session :
        /\ bridge[s].client = c /\ bridge' = [bridge EXCEPT ![s].client = "none"]
        /\ UNCHANGED <<row, closing, entering, shell, channel, down, up, ended, hasty, events>>
clientMessage(c) ==
    \E s \in Session :
        /\ bridge[s].client = c /\ channel /\ Event /\ Tell([type |-> "input", session |-> s, reattach |-> FALSE])
        /\ UNCHANGED <<row, bridge, closing, entering, shell, channel, up, ended, hasty>>
\* closed: the bridge goes at once, the row when its update reaches the database.
closed(s) == bridge' = [bridge EXCEPT ![s] = NoBridge] /\ closing' = IF bridge[s].up THEN closing \cup {s} ELSE closing
handleAgent ==
    /\ up # <<>> /\ channel /\ up' = Tail(up)
    /\ IF Head(up).type = "closed" THEN closed(Head(up).session) ELSE UNCHANGED <<bridge, closing>>
    /\ UNCHANGED <<row, entering, shell, channel, down, ended, hasty, events>>
closeTerminalSession(s) ==
    /\ s \in closing /\ closing' = closing \ {s} /\ row' = [row EXCEPT ![s] = "closed"]
    /\ UNCHANGED <<bridge, entering, shell, channel, down, up, ended, hasty, events>>

\* The channel drops: frames on it are lost, bridges stay.
disconnect ==
    /\ channel /\ Event /\ channel' = FALSE /\ down' = <<>> /\ up' = <<>>
    /\ UNCHANGED <<row, bridge, closing, entering, shell, ended, hasty>>
Reopen(s, again) == [type |-> "open", session |-> s, reattach |-> again]
\* Mutant of resume: only bridges with a client are opened again.
ResumeWatched ==
    /\ ~channel /\ ~ended /\ channel' = TRUE
    /\ down' = SetToSeq({Reopen(s, bridge[s].started) : s \in {x \in Session : bridge[x].up /\ bridge[x].client # "none"}})
    /\ bridge' = [s \in Session |-> IF bridge[s].up THEN [bridge[s] EXCEPT !.started = TRUE] ELSE bridge[s]]
    /\ UNCHANGED <<row, closing, entering, shell, up, ended, hasty, events>>
\* resume: every bridge is opened again; one whose first open was sent reattaches.
resume ==
    /\ ~channel /\ ~ended /\ channel' = TRUE
    /\ down' = SetToSeq({Reopen(s, bridge[s].started) : s \in {x \in Session : bridge[x].up}})
    /\ bridge' = [s \in Session |-> IF bridge[s].up THEN [bridge[s] EXCEPT !.started = TRUE] ELSE bridge[s]]
    /\ UNCHANGED <<row, closing, entering, shell, up, ended, hasty, events>>
\* closeWorkspace: every bridge is closed; the shells go with the workload.
closeWorkspace ==
    /\ ~ended /\ ended' = TRUE /\ channel' = FALSE /\ down' = <<>> /\ up' = <<>>
    /\ closing' = closing \cup {s \in Session : bridge[s].up} /\ bridge' = [s \in Session |-> NoBridge]
    /\ shell' = [s \in Session |-> NoShell] /\ UNCHANGED <<row, entering, events, hasty>>
restartController ==
    /\ Event /\ channel' = FALSE /\ down' = <<>> /\ up' = <<>> /\ closing' = {}
    /\ bridge' = [s \in Session |-> NoBridge] /\ entering' = [c \in Client |-> NotEntering]
    /\ UNCHANGED <<row, shell, ended, hasty>>

-----------------------------------------------------------------------------
(* Supervisor: TerminalManager. *)

refuse(s) == Say([type |-> "closed", session |-> s]) /\ UNCHANGED shell
\* open: an existing session only reattaches, a missing one only starts, within the limit; the command may not start.
openShell(s, reattach) ==
    \/ shell[s].up /\ reattach /\ Say([type |-> "opened", session |-> s]) /\ UNCHANGED shell
    \/ (shell[s].up # reattach \/ (~reattach /\ Cardinality(Shells) >= MaxSessions)) /\ refuse(s)
    \/ /\ ~shell[s].up /\ ~reattach /\ Cardinality(Shells) < MaxSessions
       /\ \/ shell' = [shell EXCEPT ![s] = [NoShell EXCEPT !.up = TRUE]] /\ Say([type |-> "opened", session |-> s])
          \/ refuse(s)
handleServer ==
    /\ down # <<>> /\ down' = Tail(down)
    /\ IF Head(down).type = "open" THEN openShell(Head(down).session, Head(down).reattach) ELSE UNCHANGED <<up, shell>>
    /\ UNCHANGED <<row, bridge, closing, entering, channel, ended, hasty, events>>
\* handleOutput: the oldest chunks are dropped when the queue passes its limit.
handleOutput(s) ==
    /\ shell[s].up /\ ~shell[s].exited /\ Event
    /\ shell' = [shell EXCEPT ![s].out = IF @ + 1 > ReplayLimit /\ @ + 1 > 1 THEN @ ELSE @ + 1]
    /\ UNCHANGED <<row, bridge, closing, entering, channel, down, up, ended, hasty>>
drainOutput(s) ==
    /\ shell[s].up /\ shell[s].out > 0 /\ shell' = [shell EXCEPT ![s].out = @ - 1]
    /\ Say([type |-> "output", session |-> s])
    /\ UNCHANGED <<row, bridge, closing, entering, channel, down, ended, hasty, events>>
\* closeSession or the command's own exit: SIGTERM, then SIGKILL, then the exit is observed.
finish(s) ==
    /\ shell[s].up /\ ~shell[s].exited /\ shell' = [shell EXCEPT ![s].exited = TRUE]
    /\ UNCHANGED <<row, bridge, closing, entering, channel, down, up, ended, hasty, events>>
\* Mutant of finalize: the exit is reported before the queued output.
FinalizeFirst(s) ==
    /\ shell[s].exited /\ shell' = [shell EXCEPT ![s].exited = FALSE] /\ Say([type |-> "closed", session |-> s])
    /\ UNCHANGED <<row, bridge, closing, entering, channel, down, ended, hasty, events>>
finalize(s) ==
    /\ shell[s].exited /\ shell[s].out = 0 /\ shell' = [shell EXCEPT ![s] = NoShell]
    /\ Say([type |-> "closed", session |-> s])
    /\ UNCHANGED <<row, bridge, closing, entering, channel, down, ended, hasty, events>>

TerminalNext ==
    \/ \E c \in Client : open(c) \/ detachClient(c) \/ clientMessage(c)
                         \/ \E s \in Session : openTerminalSession(c, s) \/ reattachSession(c, s)
    \/ \E s \in Session : closeTerminalSession(s) \/ handleOutput(s) \/ drainOutput(s) \/ finish(s) \/ finalize(s)
    \/ handleAgent \/ handleServer \/ disconnect \/ resume \/ closeWorkspace \/ restartController

-----------------------------------------------------------------------------
\* A client's bridge and its shell agree whatever was lost on the way: once the channel is quiet every bridge has a shell
\* that runs, no shell runs under a session the controller has closed (but for a session that a client came back to before
\* its first client opened it: the supervisor refuses that client, which closes the row under the shell that starts next),
\* and neither side exceeds the session limit.
BridgesHaveShells ==
    /\ (channel /\ down = <<>> /\ up = <<>>) => \A s \in Session : bridge[s].up => shell[s].up
    /\ \A s \in Session : (shell[s].up /\ ~ended /\ s \notin hasty) => row[s] = "open"
    /\ Cardinality(OpenRows) <= MaxSessions /\ Cardinality(Shells) <= MaxSessions

-----------------------------------------------------------------------------
(* The invariant that ServerProofs proves *)

ToShell == [type : {"open", "input"}, session : Session, reattach : BOOLEAN]
FromShell == [type : {"opened", "closed", "output"}, session : Session]
BridgeState == [up : BOOLEAN, client : Client \cup {"none"}, started : BOOLEAN]
ShellState == [up : BOOLEAN, out : Nat, exited : BOOLEAN]
TerminalShape ==
    /\ row \in [Session -> {"none", "open", "closed"}] /\ closing \subseteq Session
    /\ bridge \in [Session -> BridgeState]
    /\ entering \in [Client -> [session : Session, reattach : BOOLEAN] \cup {NotEntering}]
    /\ shell \in [Session -> ShellState]
    /\ channel \in BOOLEAN /\ down \in Seq(ToShell) /\ up \in Seq(FromShell)
    /\ (~channel => down = <<>> /\ up = <<>>) /\ hasty \subseteq Session

\* Frames under way, and who may still start the shell of a session: the client that made the session, its
\* bridge while the channel is down, or the frame that one of them sent.
Opens(s, again) == \E i \in DOMAIN down : down[i] = Reopen(s, again)
Closes(s) == \E i \in DOMAIN up : up[i] = [type |-> "closed", session |-> s]
Fresh(s) == (\E c \in Client : Maker(c, s)) \/ (bridge[s].up /\ ~bridge[s].started) \/ Opens(s, FALSE)

\* An open frame after another of its session reattaches.
FirstStarts ==
    \A i, j \in DOMAIN down :
        /\ i < j /\ down[i].type = "open" /\ down[j].type = "open" /\ down[i].session = down[j].session
        /\ down[j].session \notin hasty
        => down[j].reattach

\* What is known of a session that nobody came back to early: there is one start of its shell, before everything
\* else, and a shell that ended or was refused is on its way to being closed.
OrderlyFacts(s) ==
    /\ \A c \in Client : Maker(c, s) => /\ ~bridge[s].up /\ ~Opens(s, FALSE) /\ ~Opens(s, TRUE)
                                       /\ \A d \in Client : d # c => entering[d].session # s
    /\ bridge[s].up /\ ~bridge[s].started => ~channel
    /\ Fresh(s) => row[s] = "open" /\ ~shell[s].up /\ ~Closes(s) /\ s \notin closing
    /\ Closes(s) \/ s \in closing => ~shell[s].up
    /\ shell[s].up => row[s] = "open"
    /\ row[s] = "none" => /\ ~bridge[s].up /\ ~Opens(s, TRUE) /\ ~Closes(s) /\ s \notin closing
                          /\ \A c \in Client : entering[c].session # s

\* What is known of every session: a bridge on a live channel has a shell, or a frame that will decide.
SessionFacts(s) ==
    /\ s \notin hasty => OrderlyFacts(s)
    /\ shell[s].exited => shell[s].up
    /\ channel /\ bridge[s].up => shell[s].up \/ Opens(s, TRUE) \/ Opens(s, FALSE) \/ Closes(s)

Limits == Cardinality(OpenRows) <= MaxSessions /\ Cardinality(Shells) <= MaxSessions

TerminalInv == TerminalShape /\ FirstStarts /\ (\A s \in Session : SessionFacts(s)) /\ Limits
=============================================================================
