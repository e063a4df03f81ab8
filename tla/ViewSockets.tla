------------------------------- MODULE ViewSockets -------------------------------
(***************************************************************************)
(* Previews and displays of a workspace: a browser redeems a one-use token *)
(* for a session, takes an admission slot and opens a socket, which the    *)
(* controller carries over the supervisor's connection with one flow at    *)
(* each end.  Both ends run the same PreviewSocketFlow: one unacknowledged *)
(* message per direction, the rest queued against a shared budget.  A      *)
(* message is its number; frames of a connection keep their order and are  *)
(* lost when it drops, which both ends notice on their own.                *)
(***************************************************************************)
EXTENDS Integers, Sequences, FiniteSets, Functions

CONSTANTS
    Display,     \* views of the workspace's display, carried by sockets
    ViewControl, \* the displays opened with control
    HttpView,    \* preview requests answered over HTTP
    BrowserMode, \* the display is a browser: its viewers share one Chromium
    MaxViewers,  \* viewers of one display
    MaxViews,    \* slots of ViewAdmission
    QueueBudget, \* PREVIEW_QUEUE_BYTES, in messages
    MaxMsgs,     \* bound on the messages of each direction
    MaxUsed,     \* views with a usable token; displays start with their session
    MaxGen       \* bound on the Chromium connections

VARIABLES
    token,    \* "none", "minted", "session" or "gone"
    redeem,   \* exchanges that await authorize after consuming the token
    opened,   \* sessions the token gave
    allowed,  \* the key, the scope and the workspace still authorize
    view,     \* where each request stands
    slots,    \* ViewAdmission.active
    seat,     \* DisplayAdmission.active: [viewers, control]
    returned, \* the display releases that ran
    chan2,    \* the bridge's channel: "none", "held", "flow"
    early,    \* the frame that came before the channel was attached
    sock,     \* the supervisor's upstream socket: "none", "connecting", "open"
    flow,     \* PreviewSocketFlow of each end
    queued,   \* PreviewQueueBudget of each end
    sent, shown, \* messages offered at each end, and delivered at each end
    chrome,   \* [gen, st]: the Chromium connection of the browser viewers
    oldGens,  \* generations that will still report that they closed
    wire      \* [live, srv, sup, toSrv, toSup]

sessionVars == <<token, redeem, opened>>
seatVars == <<slots, seat, returned>>
viewVars == <<token, redeem, opened, allowed, view, slots, seat, returned, chan2, early, sock, flow, queued,
              sent, shown, chrome, oldGens, wire>>
View == Display \cup HttpView
Ends == {"srv", "sup"}
Peer(e) == IF e = "srv" THEN "sup" ELSE "srv"

NoFlow == [live |-> FALSE, queue |-> <<>>, pend |-> 0, seq |-> 0, expected |-> 0, receiving |-> FALSE]
NewFlow == [NoFlow EXCEPT !.live = TRUE]

ViewInit ==
    /\ \E used \in SUBSET View : /\ Cardinality(used) = MaxUsed
                                  /\ token = [v \in View |-> IF v \notin used THEN "gone" ELSE IF v \in HttpView
                                                             THEN "none" ELSE "session"]
    /\ redeem = [v \in View |-> 0] /\ opened = [v \in View |-> IF token[v] = "session" THEN 1 ELSE 0]
    /\ allowed = TRUE /\ view = [v \in View |-> "idle"]
    /\ slots = {} /\ seat = [viewers |-> 0, control |-> FALSE] /\ returned = {}
    /\ chan2 = [v \in Display |-> "none"] /\ early = [v \in Display |-> 0] /\ sock = [v \in Display |-> "none"]
    /\ flow = [e \in Ends |-> [v \in Display |-> NoFlow]] /\ queued = [e \in Ends |-> 0]
    /\ sent = [e \in Ends |-> [v \in Display |-> 0]] /\ shown = [e \in Ends |-> [v \in Display |-> <<>>]]
    /\ chrome = [gen |-> 0, st |-> "none"] /\ oldGens = {}
    /\ wire = [live |-> TRUE, srv |-> TRUE, sup |-> TRUE, toSrv |-> <<>>, toSup |-> <<>>]

-----------------------------------------------------------------------------
(* The connection *)

\* Frames w sent by end e; a connection that is gone carries nothing.
Carry(w, e, frames) ==
    IF ~w.live THEN w
    ELSE IF e = "srv" THEN [w EXCEPT !.toSup = @ \o frames] ELSE [w EXCEPT !.toSrv = @ \o frames]
Frame(op, v, n) == [op |-> op, v |-> v, n |-> n]

ViewLinkLost ==
    /\ wire.live /\ wire' = [wire EXCEPT !.live = FALSE, !.toSrv = <<>>, !.toSup = <<>>]
    /\ UNCHANGED <<token, redeem, opened, allowed, view, slots, seat, returned, chan2, early, sock, flow, queued,
                   sent, shown, chrome, oldGens>>

-----------------------------------------------------------------------------
(* Sessions *)

authorize == allowed

mint(v) ==
    /\ token[v] = "none" /\ authorize /\ token' = [token EXCEPT ![v] = "minted"]
    /\ UNCHANGED <<redeem, opened, allowed, view, slots, seat, returned, chan2, early, sock, flow, queued, sent,
                   shown, chrome, oldGens, wire>>

\* Mutant of exchange: the token is deleted once the authority was read.
ExchangeKeepsToken(v) == token[v] = "minted" /\ redeem[v] < 2 /\ UNCHANGED token
\* exchange: the token is consumed before the authority is awaited.
exchange(v) == token[v] = "minted" /\ redeem[v] < 2 /\ token' = [token EXCEPT ![v] = "gone"]
ExchangeStarts(v) ==
    /\ exchange(v) /\ redeem' = [redeem EXCEPT ![v] = @ + 1]
    /\ UNCHANGED <<opened, allowed, view, slots, seat, returned, chan2, early, sock, flow, queued, sent, shown,
                   chrome, oldGens, wire>>
ExchangeEnds(v) ==
    /\ redeem[v] > 0 /\ redeem' = [redeem EXCEPT ![v] = @ - 1]
    /\ opened' = [opened EXCEPT ![v] = IF authorize THEN @ + 1 ELSE @]
    /\ token' = [token EXCEPT ![v] = IF authorize THEN "session" ELSE "gone"]
    /\ UNCHANGED <<allowed, view, slots, seat, returned, chan2, early, sock, flow, queued, sent, shown, chrome,
                   oldGens, wire>>

Revoked ==
    /\ allowed /\ allowed' = FALSE
    /\ UNCHANGED <<token, redeem, opened, view, slots, seat, returned, chan2, early, sock, flow, queued, sent,
                   shown, chrome, oldGens, wire>>

-----------------------------------------------------------------------------
(* Admission *)

\* ViewAdmission.reserve and DisplayAdmission.reserve.
reserve(v) ==
    /\ Cardinality(slots) < MaxViews
    /\ slots' = slots \cup {v}
    /\ IF v \in HttpView THEN UNCHANGED seat
       ELSE /\ seat.viewers < MaxViewers /\ ~(v \in ViewControl /\ seat.control)
            /\ seat' = [viewers |-> seat.viewers + 1, control |-> seat.control \/ v \in ViewControl]

\* Mutant of release: a display gives its seat back every time its socket reports an end.
ReleaseAgain(v) ==
    /\ slots' = slots \ {v}
    /\ IF v \in HttpView THEN UNCHANGED <<seat, returned>>
       ELSE /\ returned' = returned \cup {v}
            /\ seat' = [viewers |-> seat.viewers - 1, control |-> seat.control /\ v \notin ViewControl]
\* The release of either admission; a display's runs once.
release(v) ==
    /\ slots' = slots \ {v}
    /\ IF v \in HttpView \/ v \in returned THEN UNCHANGED <<seat, returned>>
       ELSE /\ returned' = returned \cup {v}
            /\ seat' = [viewers |-> seat.viewers - 1, control |-> seat.control /\ v \notin ViewControl]

-----------------------------------------------------------------------------
(* PreviewSocketFlow: what a call makes of a flow, the frames it sends, and what it gives back to the budget *)

Result(f, out, freed) == [f |-> f, out |-> out, freed |-> freed]

flushFlow(f, v, freed) ==
    IF f.pend # 0 \/ ~f.live \/ f.queue = <<>> THEN Result(f, <<>>, freed)
    ELSE Result([f EXCEPT !.pend = Head(f.queue), !.queue = Tail(f.queue)],
                <<[op |-> "data", v |-> v, n |-> Head(f.queue), seq |-> f.seq]>>, freed)

closeFlow(f, v, notify) ==
    IF ~f.live THEN Result(f, <<>>, 0)
    ELSE Result(NoFlow, IF notify THEN <<Frame("close", v, 0)>> ELSE <<>>,
                Len(f.queue) + (IF f.pend = 0 THEN 0 ELSE 1))

\* output: the message is charged first; an oversized one or a full budget closes the flow.
outputFlow(f, v, n, e, oversized) ==
    LET g == [f EXCEPT !.queue = Append(@, n)] IN
    IF ~f.live THEN Result(f, <<>>, 0)
    ELSE LET r == IF oversized \/ queued[e] + 1 > QueueBudget THEN closeFlow(g, v, TRUE) ELSE flushFlow(g, v, 0)
         IN [r EXCEPT !.freed = @ - 1]

\* receive, up to the delivery to the local socket.
receiveFlow(f, m) ==
    IF ~f.live THEN Result(f, <<>>, 0)
    ELSE CASE m.op = "close" -> closeFlow(f, m.v, FALSE)
           [] m.op = "ack" ->
                IF f.pend = 0 \/ m.n # f.seq THEN closeFlow(f, m.v, TRUE)
                ELSE flushFlow([f EXCEPT !.pend = 0, !.seq = @ + 1], m.v, 1)
           [] m.op = "data" ->
                IF f.receiving \/ m.seq # f.expected THEN closeFlow(f, m.v, TRUE)
                ELSE Result([f EXCEPT !.receiving = TRUE], <<>>, 0)
           [] OTHER -> Result(f, <<>>, 0)
Delivers(f, m) == f.live /\ m.op = "data" /\ ~f.receiving /\ m.seq = f.expected

\* onClose of an end's flow: the server forgets the channel and runs done, the supervisor its socket.
Ended(e, v, r) == flow[e][v].live /\ ~r.f.live
disconnect(left) ==
    IF BrowserMode /\ left = {} /\ chrome.st # "none"
    THEN chrome' = [chrome EXCEPT !.st = "none"] /\ oldGens' = oldGens \cup {chrome.gen}
    ELSE UNCHANGED <<chrome, oldGens>>
Apply(e, v, r, w) ==
    /\ flow' = [flow EXCEPT ![e][v] = r.f] /\ queued' = [queued EXCEPT ![e] = @ - r.freed]
    /\ wire' = Carry(w, e, r.out)
    /\ IF e = "srv"
       THEN /\ UNCHANGED <<sock, chrome, oldGens>>
            /\ IF Ended(e, v, r) THEN release(v) /\ chan2' = [chan2 EXCEPT ![v] = "none"]
               ELSE UNCHANGED <<seatVars, chan2>>
       ELSE /\ UNCHANGED <<seatVars, chan2>>
            /\ IF Ended(e, v, r)
               THEN sock' = [sock EXCEPT ![v] = "none"] /\ disconnect({u \in Display \ {v} : sock[u] # "none"})
               ELSE UNCHANGED <<sock, chrome, oldGens>>

\* The browser or the workspace's service sends a message; a viewer without control may send none.
Offered(e) == FoldFunction(+, 0, sent[e])
Offer(e, v) ==
    /\ flow[e][v].live /\ (e = "srv" => view[v] = "open") /\ (e = "sup" => sock[v] = "open")
    /\ Offered(e) < MaxMsgs /\ sent' = [sent EXCEPT ![e][v] = @ + 1]
    /\ \E oversized \in BOOLEAN :
         Apply(e, v, outputFlow(flow[e][v], v, sent[e][v] + 1, e,
                                oversized \/ (e = "srv" /\ BrowserMode /\ v \notin ViewControl)), wire)
    /\ UNCHANGED <<sessionVars, allowed, view, early, shown>>

\* acknowledge: the local socket has drained, or did not in time.
acknowledge(e, v) ==
    /\ flow[e][v].receiving
    /\ \/ Apply(e, v, Result([flow[e][v] EXCEPT !.receiving = FALSE, !.expected = @ + 1],
                             <<Frame("ack", v, flow[e][v].expected)>>, 0), wire)
       \/ Apply(e, v, closeFlow(flow[e][v], v, TRUE), wire)
    /\ UNCHANGED <<sessionVars, allowed, view, early, sent, shown>>

\* The acknowledgement did not come within 30 seconds, or the supervisor's socket closed.
FlowEnds(e, v) ==
    /\ flow[e][v].live /\ (flow[e][v].pend # 0 \/ (e = "sup" /\ sock[v] = "open"))
    /\ Apply(e, v, closeFlow(flow[e][v], v, TRUE), wire)
    /\ UNCHANGED <<sessionVars, allowed, view, early, sent, shown>>

-----------------------------------------------------------------------------
(* The controller's end *)

\* The browser's request: lookup of the session, then a slot, then the open frame (prepare).
Request2(v) ==
    /\ view[v] = "idle" /\ token[v] = "session" /\ authorize /\ wire.srv
    /\ reserve(v)
    /\ IF v \in HttpView
       THEN view' = [view EXCEPT ![v] = "body"] /\ UNCHANGED <<chan2, wire>>
       ELSE /\ view' = [view EXCEPT ![v] = "prepare"] /\ chan2' = [chan2 EXCEPT ![v] = "held"]
            /\ wire' = Carry(wire, "srv", <<Frame("open", v, 0)>>)
    /\ UNCHANGED <<sessionVars, allowed, returned, early, sock, flow, queued, sent, shown, chrome, oldGens>>

\* PreviewSocketBridge.close of a channel without a flow rejects the request that prepares it.
closeHeld(v, notify, w) ==
    /\ chan2' = [chan2 EXCEPT ![v] = "none"]
    /\ wire' = IF notify THEN Carry(w, "srv", <<Frame("close", v, 0)>>) ELSE w
    /\ IF view[v] = "prepare"
       THEN view' = [view EXCEPT ![v] = "ended"] /\ release(v)
       ELSE UNCHANGED <<view, seatVars>>
    /\ UNCHANGED <<flow, queued, sock, chrome, oldGens>>
closeChannel(v, notify, w) ==
    \/ chan2[v] = "held" /\ closeHeld(v, notify, w)
    \/ chan2[v] = "flow" /\ Apply("srv", v, closeFlow(flow["srv"][v], v, notify), w) /\ UNCHANGED view
    \/ /\ chan2[v] = "none" /\ wire' = w
       /\ UNCHANGED <<flow, queued, sock, chrome, oldGens, chan2, view, seatVars>>

\* The 10 second limit of prepare, which also runs until the channel is attached.
PrepareExpires(v) ==
    /\ chan2[v] = "held" /\ closeChannel(v, TRUE, wire)
    /\ UNCHANGED <<sessionVars, allowed, early, sent, shown>>

\* previewWebSocket after prepare: a second authorize, then the upgrade.
Upgrade(v) ==
    /\ view[v] = "authorize"
    /\ IF authorize
       THEN view' = [view EXCEPT ![v] = "upgraded"]
            /\ UNCHANGED <<seatVars, chan2, flow, queued, sock, chrome, oldGens, wire>>
       ELSE /\ view' = [view EXCEPT ![v] = "ended"] /\ release(v)
            /\ chan2' = [chan2 EXCEPT ![v] = "none"]
            /\ wire' = IF chan2[v] = "held" THEN Carry(wire, "srv", <<Frame("close", v, 0)>>) ELSE wire
            /\ UNCHANGED <<flow, queued, sock, chrome, oldGens>>
    /\ UNCHANGED <<sessionVars, allowed, early, sent, shown>>

\* Mutant of attach: the frame that came first is forgotten.
AttachForgets(v) ==
    /\ chan2[v] = "held" /\ chan2' = [chan2 EXCEPT ![v] = "flow"]
    /\ flow' = [flow EXCEPT !["srv"][v] = NewFlow] /\ UNCHANGED <<shown, seatVars>>
\* attach: a channel that closed meanwhile ends the socket; the early frame is received at once.
attach(v) ==
    \/ /\ chan2[v] = "none" /\ release(v) /\ UNCHANGED <<flow, shown, chan2>>
    \/ /\ chan2[v] = "held" /\ chan2' = [chan2 EXCEPT ![v] = "flow"]
       /\ flow' = [flow EXCEPT !["srv"][v] = [NewFlow EXCEPT !.receiving = early[v] # 0]]
       /\ shown' = IF early[v] = 0 THEN shown ELSE [shown EXCEPT !["srv"][v] = Append(@, early[v])]
       /\ UNCHANGED seatVars
onOpen(v) ==
    /\ view[v] = "upgraded" /\ view' = [view EXCEPT ![v] = "open"]
    /\ attach(v) /\ early' = [early EXCEPT ![v] = 0]
    /\ UNCHANGED <<sessionVars, allowed, sock, queued, sent, chrome, oldGens, wire>>

\* The periodic authorize of an open view.
Recheck(v) ==
    /\ v \in Display /\ view[v] = "open" /\ ~authorize /\ chan2[v] # "none" /\ closeChannel(v, TRUE, wire)
    /\ UNCHANGED <<sessionVars, allowed, early, sent, shown>>

\* onClose and onError of the browser's socket, and input that is refused: close, then done.
onClose(v) ==
    /\ v \in Display /\ view[v] = "open" /\ view' = [view EXCEPT ![v] = "ended"]
    /\ LET r == closeFlow(flow["srv"][v], v, TRUE) IN
       /\ flow' = [flow EXCEPT !["srv"][v] = r.f] /\ queued' = [queued EXCEPT !["srv"] = @ - r.freed]
       /\ wire' = Carry(wire, "srv", r.out)
    /\ chan2' = [chan2 EXCEPT ![v] = "none"] /\ release(v)
    /\ UNCHANGED <<sessionVars, allowed, early, sock, sent, shown, chrome, oldGens>>

\* A frame of the supervisor reaches PreviewSocketBridge.receive.
BridgeReceives ==
    /\ wire.live /\ wire.toSrv # <<>>
    /\ LET m == Head(wire.toSrv)  v == m.v  w == [wire EXCEPT !.toSrv = Tail(@)] IN
       IF chan2[v] = "none" \/ ~wire.srv
       THEN wire' = w /\ UNCHANGED <<view, seatVars, chan2, early, flow, queued, sock, chrome, oldGens, shown>>
       ELSE IF m.op = "ready"
       THEN /\ wire' = w /\ view' = [view EXCEPT ![v] = IF @ = "prepare" THEN "authorize" ELSE @]
            /\ UNCHANGED <<seatVars, chan2, early, flow, queued, sock, chrome, oldGens, shown>>
       ELSE IF m.op = "close" \/ (chan2[v] = "held" /\ (m.op # "data" \/ early[v] # 0))
       THEN closeChannel(v, m.op # "close", w) /\ UNCHANGED <<early, shown>>
       ELSE IF chan2[v] = "held"
       THEN /\ wire' = w /\ early' = [early EXCEPT ![v] = m.n]
            /\ UNCHANGED <<view, seatVars, chan2, flow, queued, sock, chrome, oldGens, shown>>
       ELSE /\ Apply("srv", v, receiveFlow(flow["srv"][v], m), w)
            /\ shown' = IF Delivers(flow["srv"][v], m) THEN [shown EXCEPT !["srv"][v] = Append(@, m.n)] ELSE shown
            /\ UNCHANGED <<view, early>>
    /\ UNCHANGED <<sessionVars, allowed, sent>>

\* Hub.dropPending: the channels of the lost connection close without a notice, one view at a time.
BridgeDrops(v) ==
    /\ ~wire.live /\ chan2[v] # "none" /\ closeChannel(v, FALSE, [wire EXCEPT !.srv = FALSE])
    /\ UNCHANGED <<sessionVars, allowed, early, sent, shown>>

\* previewHttp: the body is read, the authority read again, the answer streamed.
HttpStep(v) ==
    /\ view[v] \in {"body", "relay", "stream"}
    /\ \/ /\ authorize /\ view' = [view EXCEPT ![v] = CASE @ = "body" -> "relay" [] @ = "relay" -> "stream"
                                                        [] OTHER -> "stream"]
          /\ UNCHANGED seatVars
       \/ view' = [view EXCEPT ![v] = "ended"] /\ release(v)
    /\ UNCHANGED <<sessionVars, allowed, chan2, early, sock, flow, queued, sent, shown, chrome, oldGens, wire>>

-----------------------------------------------------------------------------
(* The supervisor's end *)

\* SupervisorPreviewSockets.receive, DesktopSockets.receive and BrowserSockets.receive.
SocketsReceive ==
    /\ wire.live /\ wire.sup /\ wire.toSup # <<>>
    /\ LET m == Head(wire.toSup)  v == m.v  w == [wire EXCEPT !.toSup = Tail(@)] IN
       IF m.op # "open"
       THEN /\ Apply("sup", v, receiveFlow(flow["sup"][v], m), w)
            /\ shown' = IF Delivers(flow["sup"][v], m) THEN [shown EXCEPT !["sup"][v] = Append(@, m.n)] ELSE shown
       ELSE /\ UNCHANGED <<seatVars, chan2, queued, oldGens, shown>>
            /\ \/ /\ wire' = Carry(w, "sup", <<Frame("close", v, 0)>>) /\ UNCHANGED <<flow, sock, chrome>>
               \/ /\ wire' = w /\ flow' = [flow EXCEPT !["sup"][v] = NewFlow]
                  /\ sock' = [sock EXCEPT ![v] = "connecting"]
                  /\ IF BrowserMode /\ chrome.st = "none"
                     THEN chrome.gen < MaxGen /\ chrome' = [gen |-> chrome.gen + 1, st |-> "connecting"]
                     ELSE UNCHANGED chrome
    /\ UNCHANGED <<sessionVars, allowed, view, early, sent>>

\* The upstream socket opens, fails or runs out of time.
SocketConnects(v) ==
    /\ sock[v] = "connecting"
    /\ \/ /\ BrowserMode => chrome.st = "open"
          /\ sock' = [sock EXCEPT ![v] = "open"] /\ wire' = Carry(wire, "sup", <<Frame("ready", v, 0)>>)
          /\ UNCHANGED <<seatVars, chan2, flow, queued, chrome, oldGens>>
       \/ /\ BrowserMode => chrome.st = "failed"
          /\ Apply("sup", v, closeFlow(flow["sup"][v], v, TRUE), wire)
    /\ UNCHANGED <<sessionVars, allowed, view, early, sent, shown>>

\* connectChromium settles for the current generation.
connectChromium ==
    /\ BrowserMode /\ chrome.st = "connecting" /\ \E s \in {"open", "failed"} : chrome' = [chrome EXCEPT !.st = s]
    /\ UNCHANGED <<sessionVars, allowed, view, seatVars, chan2, early, sock, flow, queued, sent, shown, oldGens, wire>>

\* closeAll: every flow of the supervisor, and its Chromium.
CloseAll(w) ==
    LET held == {v \in Display : flow["sup"][v].live} IN
    /\ flow' = [flow EXCEPT !["sup"] = [v \in Display |-> NoFlow]]
    /\ sock' = [v \in Display |-> "none"] /\ disconnect({})
    /\ queued' = [queued EXCEPT !["sup"] = 0]
    /\ \E s \in [1..Cardinality(held) -> held] :
         /\ {s[i] : i \in DOMAIN s} = held
         /\ wire' = Carry(w, "sup", [i \in DOMAIN s |-> Frame("close", s[i], 0)])

SupervisorDrops ==
    /\ ~wire.live /\ wire.sup /\ CloseAll([wire EXCEPT !.sup = FALSE])
    /\ UNCHANGED <<sessionVars, allowed, view, seatVars, chan2, early, sent, shown>>

\* A Chromium connection reports that it closed; only the current generation's viewers go with it.
ChromiumCloses ==
    /\ BrowserMode
    /\ \/ /\ chrome.st \in {"open", "failed"} /\ CloseAll(wire)
       \/ /\ \E g \in oldGens : oldGens' = oldGens \ {g}
          /\ UNCHANGED <<flow, sock, chrome, queued, wire>>
    /\ UNCHANGED <<sessionVars, allowed, view, seatVars, chan2, early, sent, shown>>

ViewNext ==
    \/ ViewLinkLost \/ Revoked \/ BridgeReceives \/ SocketsReceive \/ connectChromium
    \/ SupervisorDrops \/ ChromiumCloses
    \/ \E v \in View : mint(v) \/ ExchangeStarts(v) \/ ExchangeEnds(v) \/ Request2(v)
    \/ \E v \in HttpView : HttpStep(v)
    \/ \E v \in Display :
         \/ PrepareExpires(v) \/ Upgrade(v) \/ onOpen(v) \/ Recheck(v) \/ onClose(v) \/ BridgeDrops(v)
         \/ SocketConnects(v) \/ \E e \in Ends : Offer(e, v) \/ acknowledge(e, v) \/ FlowEnds(e, v)

-----------------------------------------------------------------------------
\* Whatever order sockets, timers, revocations and lost connections end a view in, a slot and a display seat are
\* held by exactly the views that still run, one of them in control, and a token gives one session
\* (ViewAdmission, DisplayAdmission, previewWebSocket's done, PreviewSessions.exchange).
Running(v) == view[v] \in {"prepare", "authorize", "upgraded", "body", "relay", "stream"}
              \/ (view[v] = "open" /\ v \in Display /\ chan2[v] = "flow")
SeatsMatchViews ==
    /\ slots = {v \in View : Running(v)}
    /\ seat.viewers = Cardinality({v \in Display : Running(v)})
    /\ seat.control <=> (\E v \in ViewControl : Running(v))
    /\ Cardinality({v \in ViewControl : Running(v)}) <= 1
    /\ \A v \in View : opened[v] <= 1

\* Each end shows the other's messages in order without a gap, its budget is what its flows still hold, and no
\* message waits for an acknowledgement that nothing under way can bring (PreviewSocketFlow, attach).
Charged(e, v) == Len(flow[e][v].queue) + (IF flow[e][v].pend = 0 THEN 0 ELSE 1)
OnWire(s, ops, v) == \E i \in DOMAIN s : s[i].v = v /\ s[i].op \in ops
FlowsAreLossless ==
    \A e \in Ends :
        /\ queued[e] = FoldFunction(+, 0, [v \in Display |-> Charged(e, v)])
        /\ \A v \in Display :
             /\ \A i \in DOMAIN shown[e][v] : shown[e][v][i] = i
             /\ Len(shown[e][v]) <= sent[Peer(e)][v]
             /\ flow[e][v].live /\ flow[e][v].pend # 0 =>
                  \/ ~wire.live
                  \/ OnWire(IF e = "srv" THEN wire.toSup ELSE wire.toSrv, {"data"}, v)
                  \/ OnWire(IF e = "srv" THEN wire.toSrv ELSE wire.toSup, {"ack", "close"}, v)
                  \/ flow[Peer(e)][v].receiving
                  \/ (e = "sup" /\ early[v] # 0)

-----------------------------------------------------------------------------
(* The invariant that ServerProofs proves *)

FlowState == [live : BOOLEAN, queue : Seq(Nat), pend : Nat, seq : Nat, expected : Nat, receiving : BOOLEAN]
WireFrame == [op : {"open", "ready", "ack", "close"}, v : Display, n : Nat]
             \cup [op : {"data"}, v : Display, n : Nat, seq : Nat]
Wire == [live : BOOLEAN, srv : BOOLEAN, sup : BOOLEAN, toSrv : Seq(WireFrame), toSup : Seq(WireFrame)]
SocketStages == {"idle", "prepare", "authorize", "upgraded", "open", "ended"}
HttpStages == {"idle", "body", "relay", "stream", "ended"}
ViewShape ==
    /\ token \in [View -> {"none", "minted", "session", "gone"}] /\ redeem \in [View -> Nat] /\ opened \in [View -> Nat]
    /\ view \in [View -> SocketStages \cup HttpStages] /\ chan2 \in [Display -> {"none", "held", "flow"}]
    /\ flow \in [Ends -> [Display -> FlowState]] /\ sent \in [Ends -> [Display -> Nat]] /\ wire \in Wire

\* A token that can still be redeemed, an exchange under way and a session exclude each other.
OneSession == \A v \in View : opened[v] + redeem[v] + (IF token[v] \in {"none", "minted"} THEN 1 ELSE 0) <= 1

\* How the stage of a socket's request goes with its channel, its flow and its release.
StageOK(v) ==
    /\ view[v] \in SocketStages /\ (chan2[v] = "flow" <=> flow["srv"][v].live)
    /\ view[v] \in {"idle", "ended"} => chan2[v] = "none"
    /\ view[v] = "prepare" => chan2[v] = "held"
    /\ chan2[v] = "held" => view[v] \in {"prepare", "authorize", "upgraded"}
    /\ chan2[v] = "flow" => view[v] = "open"
    /\ v \in returned <=> view[v] = "ended" \/ (view[v] = "open" /\ chan2[v] = "none")
Stages == (\A v \in Display : StageOK(v)) /\ \A v \in HttpView : view[v] \in HttpStages

\* The seats are those of the views that hold a slot.
Seated ==
    /\ slots \subseteq View /\ seat.viewers = Cardinality(slots \cap Display)
    /\ seat.control <=> slots \cap ViewControl # {}
    /\ \A u, v \in slots \cap ViewControl : u = v
SlotsRun == slots = {v \in View : Running(v)}

ViewInv == ViewShape /\ OneSession /\ Stages /\ SlotsRun /\ Seated
================================================================================
