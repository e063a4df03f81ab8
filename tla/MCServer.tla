------------------------------- MODULE MCServer --------------------------------
(***************************************************************************)
(* The control server's subsystems on small instances: the control channel,*)
(* workspace leases, keys, the streams it relays, terminals, views and     *)
(* conversation history.                                                   *)
(*                                                                         *)
(* One of them acts in a behaviour, the one that part names, so that their *)
(* state spaces add up and do not multiply.  They take turns in the same   *)
(* slots: each is an instance of its module with its variables, in the     *)
(* order the module declares them, in the first slots.                     *)
(***************************************************************************)

EXTENDS Naturals, FiniteSets

CONSTANTS MaxSockets, MaxFrames, ChannelEvents, MaxLeases, MaxTasks, LeaseFaults, Key, Principal,
    Grants, Configured, Delegable, KeyTime, MaxEdits, MaxKeys, Lifetime, RenewBefore, KeyOverlap,
    RenewalTime, RenewalTroubles, Stream, Buffered, Control, MaxChunks, MaxResponse, MaxInflight,
    Session, Client, MaxSessions, ReplayLimit, MaxShellEvents, Display, ViewControl, HttpView,
    BrowserMode, MaxViewers, MaxViews, QueueBudget, MaxMsgs, MaxUsed, MaxGen, Ws, Turn, LegacyRows,
    Keep, HistoryTime, MaxMessages, MaxBytes, HistoryFrames, HistoryTroubles

\* A supervisor opens a socket at least once.
ASSUME ChannelBound == MaxSockets \in Nat \ {0}

ASSUME LeaseBound == MaxLeases \in Nat

ASSUME KeyBounds == Key \subseteq Nat /\ "none" \notin Principal /\ KeyTime \in Nat

\* A managed key is renewed early enough for the writes that may fail and for the consumer's next
\* reload, and the overlap covers that reload (docs/deployment.md:423).
ASSUME RenewalMargins ==
    /\ Lifetime \in Nat /\ RenewBefore \in Nat /\ KeyOverlap \in Nat /\ RenewalTroubles \in Nat
    /\ RenewBefore < Lifetime /\ RenewalTroubles + 2 <= RenewBefore /\ 2 <= KeyOverlap

\* Finitely many terminal sessions, none of them the mark of a client without one.
ASSUME SessionBounds == IsFiniteSet(Session) /\ MaxSessions \in Nat /\ "none" \notin Session

\* A view is a display or an HTTP preview; only displays are opened with control.
ASSUME ViewBounds == IsFiniteSet(Display) /\ ViewControl \subseteq Display /\ Display \cap HttpView = {}

VARIABLES part, slot1, slot2, slot3, slot4, slot5, slot6, slot7, slot8, slot9, slot10, slot11,
    slot12, slot13, slot14, slot15, slot16, slot17, slot18

Channel == INSTANCE ControlChannel WITH MaxEvents <- ChannelEvents, kind <- slot1, row <- slot2,
    hub <- slot3, conn <- slot4, up <- slot5, down <- slot6, sup <- slot7, ending <- slot8,
    events <- slot9

Leases == INSTANCE WorkspaceLeasesProofs WITH MaxFaults <- LeaseFaults, wsp <- slot1, lease <- slot2,
    fence <- slot3, retired <- slot4, tasks <- slot5, minted <- slot6, tomb <- slot7, late <- slot8,
    past <- slot9, file <- slot10, confirm <- slot11, lfaults <- slot12

Keys == INSTANCE KeyAuthority WITH MaxTime <- KeyTime, principal <- slot1, key <- slot2,
    request <- slot3, now <- slot4, edits <- slot5

Managed == INSTANCE ManagedKeys WITH MaxTime <- RenewalTime, MaxTroubles <- RenewalTroubles,
    Overlap <- KeyOverlap, keys <- slot1, enabled <- slot2, pepper <- slot3, target <- slot4,
    unwritten <- slot5, consumer <- slot6, ran <- slot7, disturbed <- slot8, now <- slot9,
    troubles <- slot10

Relay == INSTANCE RelayStreams WITH link <- slot1, srvLive <- slot2, supLive <- slot3,
    toSup <- slot4, toSrv <- slot5, size <- slot6, chan <- slot7, reply <- slot8, got <- slot9,
    act <- slot10

Terminal == INSTANCE Terminals WITH row <- slot1, bridge <- slot2, closing <- slot3,
    entering <- slot4, shell <- slot5, channel <- slot6, down <- slot7, up <- slot8, ended <- slot9,
    events <- slot10, hasty <- slot11

Views == INSTANCE ViewSockets WITH token <- slot1, redeem <- slot2, opened <- slot3,
    allowed <- slot4, view <- slot5, slots <- slot6, seat <- slot7, returned <- slot8,
    chan2 <- slot9, early <- slot10, sock <- slot11, flow <- slot12, queued <- slot13,
    sent <- slot14, shown <- slot15, chrome <- slot16, oldGens <- slot17, wire <- slot18

History == INSTANCE Conversations WITH MaxTime <- HistoryTime, MaxTroubles <- HistoryTroubles,
    MaxFrames <- HistoryFrames, doc <- slot1, charged <- slot2, gone <- slot3, request <- slot4,
    wsp <- slot5, queue <- slot6, turns <- slot7, saving <- slot8, prune <- slot9, legacy <- slot10,
    boot <- slot11, now <- slot12, sent <- slot13, troubles <- slot14, lost <- slot15

\* Slot n and those after it are unused: empty at first, and left alone.
EmptyFrom16 == slot16 = 0 /\ slot17 = 0 /\ slot18 = 0
EmptyFrom13 == slot13 = 0 /\ slot14 = 0 /\ slot15 = 0 /\ EmptyFrom16
EmptyFrom11 == slot11 = 0 /\ slot12 = 0 /\ EmptyFrom13
EmptyFrom10 == slot10 = 0 /\ EmptyFrom11
EmptyFrom6 == slot6 = 0 /\ slot7 = 0 /\ slot8 = 0 /\ slot9 = 0 /\ EmptyFrom10

SameFrom16 == UNCHANGED <<slot16, slot17, slot18>>
SameFrom13 == UNCHANGED <<slot13, slot14, slot15>> /\ SameFrom16
SameFrom11 == UNCHANGED <<slot11, slot12>> /\ SameFrom13
SameFrom10 == UNCHANGED <<slot10>> /\ SameFrom11
SameFrom6 == UNCHANGED <<slot6, slot7, slot8, slot9>> /\ SameFrom10

MCInit ==
    \/ part = "channel" /\ Channel!ChInit /\ EmptyFrom10
    \/ part = "leases" /\ Leases!LeaseInit /\ EmptyFrom13
    \/ part = "keys" /\ Keys!AuthorityInit /\ EmptyFrom6
    \/ part = "managed" /\ Managed!ManagedInit /\ EmptyFrom11
    \/ part = "relay" /\ Relay!RelayInit /\ EmptyFrom11
    \/ part = "terminals" /\ Terminal!TerminalInit /\ slot12 = 0 /\ EmptyFrom13
    \/ part = "views" /\ Views!ViewInit
    \/ part = "history" /\ History!ConversationInit /\ EmptyFrom16

MCNext ==
    /\ UNCHANGED part
    /\ \/ part = "channel" /\ Channel!ChNext /\ SameFrom10
       \/ part = "leases" /\ Leases!LeaseNext /\ SameFrom13
       \/ part = "keys" /\ Keys!AuthorityNext /\ SameFrom6
       \/ part = "managed" /\ Managed!ManagedNext /\ SameFrom11
       \/ part = "relay" /\ Relay!RelayNext /\ SameFrom11
       \/ part = "terminals" /\ Terminal!TerminalNext /\ UNCHANGED slot12 /\ SameFrom13
       \/ part = "views" /\ Views!ViewNext
       \/ part = "history" /\ History!ConversationNext /\ SameFrom16

\* The permission sets a request may ask for, and the principals of the configuration.
MCGrants == {{"admin"}, {"keys:write"}, {"run"}}
MCConfigured == [ops |-> {"keys:write", "principals:admin", "run"}]

\* Event rows from before conversations were recorded: the revisions of one event.
MCLegacy == [w1 |-> <<[turn |-> "t0", event |-> 1], [turn |-> "t0", event |-> 1]>>, w2 |-> <<>>]

\* Who waits for a connection is answered when it ends, and a workspace becomes ready only over
\* the connection that restored it (hub.ts, runtime-readiness.ts).
ChannelIsHonest == part = "channel" => Channel!WaitersEnd /\ Channel!ReadyIsEarned

\* A workspace that ended holds no authority any more, and a credential that is installed in a
\* workspace is usable there (lease-service.ts).
LeasesAreSafe == part = "leases" => Leases!EndedHoldsNoAuthority /\ Leases!InstalledIsUsable

\* The keys of a disabled principal are revoked, owner authority and delegation come from a
\* bootstrap or an owner key, and no key outlives its issuer (key-inventory.ts, key-revocation.ts);
\* the consumer of a managed key has one that works (managed-keys.ts).
KeysAreGranted ==
    /\ part = "keys" => Keys!AuthorityIsGranted
    /\ part = "managed" => Managed!ConsumerIsServed

\* What a reader got is a prefix of what was sent, and no acknowledgement is lost, in relayed
\* streams and in views (relay-stream-channel.ts, socket-bridge.ts).
StreamsAreLossless ==
    /\ part = "relay" => Relay!ReadsAreThePrefix /\ Relay!NoLostAck
    /\ part = "views" => Views!FlowsAreLossless

\* The seats that are counted are those of open views and of running shells; a shell may outlive
\* its row in a session that a client came back to before its first client had opened it
\* (displays/admission.ts, terminal-bridge.ts).
SeatsAreCounted ==
    /\ part = "views" => Views!SeatsMatchViews
    /\ part = "terminals" => Terminal!BridgesHaveShells

\* The messages of a conversation are charged once and refunded once, and a turn whose messages
\* were lost is shown as interrupted, but for one that began without a receipt (live-turns.ts,
\* retention.ts).
HistoryIsWhole == part = "history" => History!HistoryIsExact /\ History!NoSilentGap
================================================================================
