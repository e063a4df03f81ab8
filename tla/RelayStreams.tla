------------------------------ MODULE RelayStreams ------------------------------
(***************************************************************************)
(* Requests a controller relays to a service inside a workspace, over the  *)
(* supervisor's connection: buffered ones with one answer, and streams     *)
(* whose chunks are acknowledged one at a time.  Frames of a connection    *)
(* keep their order and are lost when it drops; both ends notice the loss  *)
(* on their own.  The body of a stream is 1..size[r]; a chunk is a number. *)
(***************************************************************************)
EXTENDS Naturals, Sequences, FiniteSets

CONSTANTS
    Stream,       \* streamed requests
    Buffered,     \* buffered requests
    Control,      \* buffered requests that cancel executions
    MaxChunks,    \* bound on the chunks of a body
    MaxResponse,  \* route.maxResponseBytes, in chunks
    MaxInflight   \* MAX_INFLIGHT_RELAY and MAX_CONTROL_RELAY

VARIABLES
    link,     \* the connection carries frames
    srvLive,  \* the hub still holds it
    supLive,  \* the supervisor still holds it
    toSup, toSrv,
    size,     \* chunks the service answers with
    chan,     \* the server's channel: [st, expected, pend, pull]
    reply,    \* what the caller of each request was answered: "none" until then
    got,      \* chunks the caller has read
    act       \* the supervisor's stream: [st, seq, ack, canceled, timedOut]

relayVars == <<link, srvLive, supLive, toSup, toSrv, size, chan, reply, got, act>>
netVars == <<link, srvLive, supLive>>
Request == Stream \cup Buffered

NoChan == [st |-> "none", expected |-> 1, pend |-> 0, pull |-> FALSE]
NoAct == [st |-> "none", seq |-> 0, ack |-> 0, canceled |-> FALSE, timedOut |-> FALSE]

RelayInit ==
    /\ link = TRUE /\ srvLive = TRUE /\ supLive = TRUE /\ toSup = <<>> /\ toSrv = <<>>
    /\ size \in [Stream -> 0..MaxChunks]
    /\ chan = [r \in Request |-> NoChan] /\ reply = [r \in Request |-> "none"]
    /\ got = [r \in Stream |-> <<>>] /\ act = [r \in Request |-> NoAct]

F(t, r, n) == [t |-> t, r |-> r, n |-> n]
toSupWith(f) == toSup' = IF link THEN Append(toSup, f) ELSE toSup
Held == {r \in Request : chan[r].st # "none"}

-----------------------------------------------------------------------------
(* The server's end *)

controlRelays == Cardinality(Held \cap Control)
ordinaryRelays == Cardinality(Held \ Control)

\* bufferedRelay and relayStream: an unregistered connection or a full budget answers at once.
bufferedRelay(r) == srvLive /\ (IF r \in Control THEN controlRelays ELSE ordinaryRelays) < MaxInflight

open(r) ==
    /\ chan[r].st = "none" /\ reply[r] = "none"
    /\ IF bufferedRelay(r)
       THEN /\ chan' = [chan EXCEPT ![r].st = "open"] /\ toSupWith(F("request", r, 0)) /\ UNCHANGED reply
       ELSE /\ reply' = [reply EXCEPT ![r] = IF srvLive THEN "busy" ELSE "unreachable"] /\ UNCHANGED <<chan, toSup>>
    /\ UNCHANGED <<netVars, toSrv, size, got, act>>

\* finish and resolve: the channel leaves the connection with an answer or an end of the body.
finish(r, answer) ==
    /\ chan' = [chan EXCEPT ![r] = NoChan]
    /\ reply' = [reply EXCEPT ![r] = answer]

\* Mutant of flush: the acknowledgement names the chunk that is expected next.
FlushNext(r, c) ==
    IF c.pull /\ c.pend # 0
    THEN /\ got' = [got EXCEPT ![r] = Append(@, c.pend)]
         /\ chan' = [chan EXCEPT ![r] = [c EXCEPT !.pend = 0, !.pull = FALSE]]
         /\ toSupWith(F("ack", r, c.expected))
    ELSE /\ chan' = [chan EXCEPT ![r] = c] /\ UNCHANGED <<got, toSup>>
\* flush: a chunk moves to a waiting reader and is acknowledged.
flush(r, c) ==
    IF c.pull /\ c.pend # 0
    THEN /\ got' = [got EXCEPT ![r] = Append(@, c.pend)]
         /\ chan' = [chan EXCEPT ![r] = [c EXCEPT !.pend = 0, !.pull = FALSE]]
         /\ toSupWith(F("ack", r, c.pend))
    ELSE /\ chan' = [chan EXCEPT ![r] = c] /\ UNCHANGED <<got, toSup>>

Pull(r) ==
    /\ chan[r].st = "started" /\ ~chan[r].pull
    /\ flush(r, [chan[r] EXCEPT !.pull = TRUE])
    /\ UNCHANGED <<netVars, toSrv, size, reply, act>>

\* Deadline of either kind, or the caller goes away: a stream tells the supervisor.
cancel(r, why) ==
    /\ srvLive /\ chan[r].st # "none"
    /\ finish(r, why)
    /\ IF r \in Stream THEN toSupWith(F("cancel", r, 0)) ELSE UNCHANGED toSup
    /\ UNCHANGED <<netVars, toSrv, size, got, act>>

start(r) ==
    IF chan[r].st = "open" THEN chan' = [chan EXCEPT ![r].st = "started"] ELSE UNCHANGED chan

\* push: out of place chunks are ignored, an oversized body fails and cancels.
push(r, n) ==
    IF chan[r].st # "started" \/ chan[r].pend # 0 \/ n # chan[r].expected
    THEN UNCHANGED <<chan, reply, got, toSup>>
    ELSE IF n > MaxResponse
    THEN finish(r, "failed") /\ toSupWith(F("cancel", r, 0)) /\ UNCHANGED got
    ELSE flush(r, [chan[r] EXCEPT !.expected = n + 1, !.pend = n]) /\ UNCHANGED reply

end(r, ok) ==
    IF chan[r].st = "none" THEN UNCHANGED <<chan, reply>>
    ELSE finish(r, IF ok /\ chan[r].st = "started" THEN "closed" ELSE "failed")

\* A frame of the supervisor reaches the hub, which ignores it once the connection was dropped.
Deliver ==
    /\ link /\ toSrv # <<>> /\ toSrv' = Tail(toSrv)
    /\ LET f == Head(toSrv) IN
       IF ~srvLive THEN UNCHANGED <<chan, reply, got, toSup>>
       ELSE CASE f.t = "start" -> start(f.r) /\ UNCHANGED <<reply, got, toSup>>
              [] f.t = "chunk" -> push(f.r, f.n)
              [] f.t = "end" -> end(f.r, f.n = 0) /\ UNCHANGED <<got, toSup>>
              [] f.t = "response" -> end(f.r, FALSE) /\ UNCHANGED <<got, toSup>>
    /\ UNCHANGED <<netVars, size, act>>

\* drop and dropPending: every waiter of the lost connection is answered, every body errors.
drop ==
    /\ srvLive /\ ~link /\ srvLive' = FALSE
    /\ reply' = [r \in Request |-> IF chan[r].st = "none" THEN reply[r]
                                   ELSE IF chan[r].st = "open" THEN "unreachable" ELSE "failed"]
    /\ chan' = [r \in Request |-> NoChan]
    /\ UNCHANGED <<link, supLive, toSup, toSrv, size, got, act>>

-----------------------------------------------------------------------------
(* The supervisor's end *)

send(f) == toSrv' = IF link THEN Append(toSrv, f) ELSE toSrv
Set(r, a) == act' = [act EXCEPT ![r] = a]
\* A send on a closed connection cancels the stream that wanted it.
Sends(r, f, a) == IF supLive THEN send(f) /\ Set(r, a) ELSE UNCHANGED toSrv /\ Set(r, NoAct)
supVars == <<netVars, toSup, size, chan, reply, got>>

\* The service answers or fails; a canceled stream says nothing more.
Fetched(r) ==
    /\ act[r].st = "fetch"
    /\ \/ act[r].canceled /\ Set(r, NoAct) /\ UNCHANGED toSrv
       \/ /\ ~act[r].canceled /\ r \in Stream /\ ~act[r].timedOut
          /\ Sends(r, F("start", r, 0), [act[r] EXCEPT !.st = "body"])
       \/ /\ ~act[r].canceled /\ Sends(r, F(IF r \in Stream THEN "end" ELSE "response", r, 1), NoAct)
    /\ UNCHANGED supVars

\* Mutant of sendChunk: the next chunk is read without waiting for the acknowledgement.
SendOn(r) == IF supLive THEN send(F("chunk", r, act[r].seq + 1)) /\ Set(r, [act[r] EXCEPT !.seq = @ + 1])
             ELSE Set(r, NoAct) /\ UNCHANGED toSrv
\* sendChunk: the chunk is sent and its acknowledgement awaited.
sendChunk(r) ==
    Sends(r, F("chunk", r, act[r].seq + 1),
          [act[r] EXCEPT !.st = "wait", !.seq = @ + 1, !.ack = act[r].seq + 1])

\* forwardBody: the next read, unless the stream was canceled or is out of time.
forwardBody(r) ==
    /\ act[r].st = "body"
    /\ IF act[r].canceled THEN Set(r, NoAct) /\ UNCHANGED toSrv
       ELSE IF act[r].timedOut \/ (act[r].seq + 1 > MaxResponse /\ act[r].seq < size[r])
       THEN Sends(r, F("end", r, 1), NoAct)
       ELSE IF act[r].seq = size[r] THEN Sends(r, F("end", r, 0), NoAct)
       ELSE sendChunk(r)
    /\ UNCHANGED supVars

\* expire: a waiting chunk is rejected, which ends the stream with an error.
expire(r) ==
    /\ act[r].st \in {"fetch", "body", "wait"} /\ ~act[r].timedOut /\ r \in Stream
    /\ IF act[r].st = "wait" THEN Sends(r, F("end", r, 1), NoAct)
       ELSE Set(r, [act[r] EXCEPT !.timedOut = TRUE]) /\ UNCHANGED toSrv
    /\ UNCHANGED supVars

handleAck(r, n) ==
    IF act[r].st = "wait" /\ act[r].ack = n THEN Set(r, [act[r] EXCEPT !.st = "body", !.ack = 0]) ELSE UNCHANGED act

\* handleCancel: a waiting chunk is rejected; a fetch or a read in flight finds the flag.
handleCancel(a) == IF a.st \in {"fetch", "body"} THEN [a EXCEPT !.canceled = TRUE] ELSE NoAct

\* SupervisorProxy.handle.
handle ==
    /\ link /\ supLive /\ toSup # <<>> /\ toSup' = Tail(toSup)
    /\ LET f == Head(toSup) IN
       CASE f.t = "request" -> Set(f.r, [NoAct EXCEPT !.st = "fetch"])
         [] f.t = "ack" -> handleAck(f.r, f.n)
         [] f.t = "cancel" -> Set(f.r, handleCancel(act[f.r]))
    /\ UNCHANGED <<netVars, toSrv, size, chan, reply, got>>

\* cancelAll, when the supervisor notices that its connection closed; buffered fetches go on unheard.
cancelAll ==
    /\ supLive /\ ~link /\ supLive' = FALSE
    /\ act' = [r \in Request |-> IF r \in Stream THEN handleCancel(act[r]) ELSE act[r]]
    /\ UNCHANGED <<link, srvLive, toSup, toSrv, size, chan, reply, got>>

Disconnect ==
    /\ link /\ link' = FALSE /\ toSup' = <<>> /\ toSrv' = <<>>
    /\ UNCHANGED <<srvLive, supLive, size, chan, reply, got, act>>

RelayNext ==
    \/ Deliver \/ drop \/ handle \/ cancelAll \/ Disconnect
    \/ \E r \in Request : open(r) \/ Fetched(r) \/ cancel(r, "deadline")
    \/ \E r \in Stream : Pull(r) \/ cancel(r, "abandoned") \/ forwardBody(r) \/ expire(r)

-----------------------------------------------------------------------------
\* What a caller reads is the body from its start without a gap, all of it when the body closes, and every
\* caller of a dropped connection has an answer (RelayStreamRegistry, ProxyStreamCoordinator, dropPending).
ReadsAreThePrefix ==
    /\ \A r \in Stream : got[r] = [n \in 1..Len(got[r]) |-> n] /\ (reply[r] = "closed" => Len(got[r]) = size[r])
    /\ ~srvLive => \A r \in Stream : Len(got[r]) > 0 => reply[r] # "none"

\* A stream never waits for an acknowledgement nobody will send: the chunk or the answer is still under way,
\* or a reader has yet to take it, or the loss of the connection has yet to be noticed (push, flush, handleAck).
NoLostAck ==
    \A r \in Stream : act[r].st = "wait" =>
        \/ ~link
        \/ \E i \in DOMAIN toSrv : toSrv[i].t = "chunk" /\ toSrv[i].r = r
        \/ \E i \in DOMAIN toSup : toSup[i].r = r /\ toSup[i].t \in {"ack", "cancel"}
        \/ srvLive /\ chan[r].pend = act[r].ack
================================================================================
