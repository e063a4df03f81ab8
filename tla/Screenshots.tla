----------------------------- MODULE Screenshots -----------------------------
(***************************************************************************)
(* Screenshots: a request is admitted and authorized, storage is reserved, *)
(* the supervisor captures and uploads under a one-time grant, and the     *)
(* image becomes a retained output.  The request may end at any point:     *)
(* the caller goes away, authority changes, the grant expires, the         *)
(* supervisor's connection changes, the controller closes or crashes, or   *)
(* the workspace is purged.                                                *)
(***************************************************************************)
EXTENDS Naturals, FiniteSets

CONSTANTS
    Shot,
    MaxAdmitted,   \* captures in progress (four in the code)
    MaxCharged,    \* screenshots the storage capacity admits
    MaxUpsets      \* bound on crashes and changes of authority

VARIABLES
    capture,   \* the request: "none", "admitted", "begun", "active", "ending", "over"
    aborted,   \* requests whose abort signal fired
    output,    \* binary_outputs: "none", "capturing", "ready", "deleted"
    charge,    \* its reservation: "none", "reserved", "committed", "released"
    upload,    \* the upload: "none", "checked", "body", "over"
    image,     \* what the supervisor sent: "none", "png", "other"
    agent,     \* the capture the supervisor runs, or "none"
    asked,     \* screenshot_capture frames on their way
    authority, \* the key, the workspace's state and epoch still permit it
    fence,     \* "none", "requested", "purged"
    closing,   \* the controller shuts down
    expired,   \* grants and retentions that have ended
    upsets

shotVars == <<capture, aborted, output, charge, upload, image, agent, asked, authority, fence, closing, expired, upsets>>

ShotInit ==
    /\ capture = [x \in Shot |-> "none"] /\ aborted = {} /\ output = [x \in Shot |-> "none"]
    /\ charge = [x \in Shot |-> "none"] /\ upload = [x \in Shot |-> "none"] /\ image = [x \in Shot |-> "none"]
    /\ agent = "none" /\ asked = {} /\ authority = TRUE /\ fence = "none" /\ closing = FALSE /\ expired = {} /\ upsets = 0

InProgress == {x \in Shot : capture[x] \notin {"none", "over"}}
Charged == {x \in Shot : charge[x] \in {"reserved", "committed"}}
\* check: in memory, the request is still wanted and its connection is the one it began on.
check(x) == x \notin aborted /\ ~closing /\ x \notin expired /\ authority
\* authorize: under the locks of the workspace and the key.
authorize(x) == authority /\ fence = "none" /\ x \notin expired
Rest == UNCHANGED <<authority, fence, closing, expired, upsets>>

-----------------------------------------------------------------------------
(* The request. *)

admit(x) ==
    /\ capture[x] = "none" /\ ~closing /\ Cardinality(InProgress) < MaxAdmitted
    /\ capture' = [capture EXCEPT ![x] = "admitted"]
    /\ UNCHANGED <<aborted, output, charge, upload, image, agent, asked>> /\ Rest
End(x) == capture' = [capture EXCEPT ![x] = "ending"]
\* binaryOutputs.begin: the reservation and the row in one transaction.
begin(x) ==
    /\ capture[x] = "admitted" /\ UNCHANGED <<aborted, upload, image, agent, asked>> /\ Rest
    /\ IF check(x) /\ authorize(x) /\ Cardinality(Charged) < MaxCharged
       THEN /\ capture' = [capture EXCEPT ![x] = "begun"] /\ output' = [output EXCEPT ![x] = "capturing"]
            /\ charge' = [charge EXCEPT ![x] = "reserved"]
       ELSE End(x) /\ UNCHANGED <<output, charge>>
\* The capture is registered and the supervisor is asked.
ask(x) ==
    /\ capture[x] = "begun" /\ UNCHANGED <<aborted, output, charge, upload, image, agent>> /\ Rest
    /\ IF check(x) THEN capture' = [capture EXCEPT ![x] = "active"] /\ asked' = asked \cup {x}
       ELSE End(x) /\ UNCHANGED asked
\* The caller goes away, the deadline passes, or the poll finds that authority changed.
cancel(x) ==
    /\ capture[x] \in {"admitted", "begun", "active"} /\ x \notin aborted /\ aborted' = aborted \cup {x}
    /\ UNCHANGED <<capture, output, charge, upload, image, agent, asked>> /\ Rest
\* The promise rejects on abort, or resolves once the upload has published.
settle(x) ==
    /\ capture[x] = "active" /\ (x \in aborted \/ upload[x] = "over") /\ End(x) /\ aborted' = aborted \cup {x}
    /\ UNCHANGED <<output, charge, upload, image, agent, asked>> /\ Rest
\* deleteBinaryOutputs: the content and its charge go together.
Delete(xs) ==
    /\ output' = [x \in Shot |-> IF x \in xs THEN "deleted" ELSE output[x]]
    /\ charge' = [x \in Shot |-> IF x \in xs THEN "released" ELSE charge[x]]
\* Mutant of discard: the capture's end leaves the row to retention.
KeepRow(x) ==
    /\ capture[x] = "ending" /\ capture' = [capture EXCEPT ![x] = "over"]
    /\ UNCHANGED <<output, charge, aborted, upload, image, agent, asked>> /\ Rest
\* finally: whatever is still capturing is discarded.
discard(x) ==
    /\ capture[x] = "ending" /\ capture' = [capture EXCEPT ![x] = "over"]
    /\ IF output[x] = "capturing" THEN Delete({x}) ELSE UNCHANGED <<output, charge>>
    /\ UNCHANGED <<aborted, upload, image, agent, asked>> /\ Rest

-----------------------------------------------------------------------------
(* The supervisor: one capture at a time. *)

startCapture(x) ==
    /\ x \in asked /\ asked' = asked \ {x} /\ agent' = IF agent = "none" THEN x ELSE agent
    /\ UNCHANGED <<capture, aborted, output, charge, upload, image>> /\ Rest
\* captureDesktop or captureBrowser: an image, or nothing when the display fails, is too large or is cut short.
readDisplay(x) ==
    /\ agent = x /\ image[x] = "none" /\ UNCHANGED <<capture, aborted, output, charge, upload, asked>> /\ Rest
    /\ \/ \E i \in {"png", "other"} : image' = [image EXCEPT ![x] = i] /\ UNCHANGED agent
       \/ agent' = "none" /\ UNCHANGED image
agentDone(x) ==
    /\ agent = x /\ (upload[x] = "over" \/ x \in expired) /\ agent' = "none"
    /\ UNCHANGED <<capture, aborted, output, charge, upload, image, asked>> /\ Rest

-----------------------------------------------------------------------------
(* The upload. *)

\* The grant is checked against memory and the row, and is used once.
checkGrant(x) ==
    /\ agent = x /\ image[x] # "none" /\ upload[x] = "none"
    /\ upload' = [upload EXCEPT ![x] = IF capture[x] = "active" /\ output[x] = "capturing" /\ check(x) THEN "checked" ELSE "over"]
    /\ UNCHANGED <<capture, aborted, output, charge, image, agent, asked>> /\ Rest
Fails(x) == upload' = [upload EXCEPT ![x] = "over"] /\ aborted' = aborted \cup {x} /\ UNCHANGED <<output, charge>>
\* screenshotBody and validatePng: complete, within 4 MiB, and the declared format.
screenshotBody(x) ==
    /\ upload[x] = "checked" /\ UNCHANGED <<capture, output, charge, image, agent, asked>> /\ Rest
    /\ IF check(x) /\ image[x] = "png" THEN upload' = [upload EXCEPT ![x] = "body"] /\ UNCHANGED aborted
       ELSE upload' = [upload EXCEPT ![x] = "over"] /\ aborted' = aborted \cup {x}
\* Mutant of publish: the row's state and the fence are not read again.
PublishLate(x) ==
    /\ upload[x] = "body" /\ UNCHANGED <<capture, image, agent, asked>> /\ Rest
    /\ output' = [output EXCEPT ![x] = "ready"] /\ charge' = [charge EXCEPT ![x] = "committed"]
    /\ upload' = [upload EXCEPT ![x] = "over"] /\ UNCHANGED aborted
\* binaryOutputs.publish: one transaction under the capacity lock; the full reservation stays charged.
publish(x) ==
    /\ upload[x] = "body" /\ UNCHANGED <<capture, image, agent, asked>> /\ Rest
    /\ IF output[x] = "capturing" /\ authorize(x) /\ check(x) /\ charge[x] = "reserved"
       THEN /\ output' = [output EXCEPT ![x] = "ready"] /\ charge' = [charge EXCEPT ![x] = "committed"]
            /\ upload' = [upload EXCEPT ![x] = "over"] /\ UNCHANGED aborted
       ELSE Fails(x)

-----------------------------------------------------------------------------
(* Retention, purge, shutdown and what happens around it. *)

prune ==
    /\ \E x \in expired : output[x] \in {"capturing", "ready"}
    /\ Delete({x \in expired : output[x] \in {"capturing", "ready"}})
    /\ UNCHANGED <<capture, aborted, upload, image, agent, asked>> /\ Rest
requestPurge ==
    /\ fence = "none" /\ fence' = "requested"
    /\ UNCHANGED <<capture, aborted, output, charge, upload, image, agent, asked, authority, closing, expired, upsets>>
purge ==
    /\ fence = "requested" /\ fence' = "purged" /\ Delete({x \in Shot : output[x] \in {"capturing", "ready"}})
    /\ UNCHANGED <<capture, aborted, upload, image, agent, asked, authority, closing, expired, upsets>>
close ==
    /\ ~closing /\ closing' = TRUE /\ aborted' = aborted \cup {x \in Shot : capture[x] = "active"}
    /\ UNCHANGED <<capture, output, charge, upload, image, agent, asked, authority, fence, expired, upsets>>
expire(x) ==
    /\ capture[x] # "none" /\ x \notin expired /\ expired' = expired \cup {x}
    /\ UNCHANGED <<capture, aborted, output, charge, upload, image, agent, asked, authority, fence, closing, upsets>>
Upset == upsets < MaxUpsets /\ upsets' = upsets + 1
loseAuthority ==
    /\ Upset /\ authority /\ authority' = FALSE
    /\ UNCHANGED <<capture, aborted, output, charge, upload, image, agent, asked, fence, closing, expired>>
crash ==
    /\ Upset /\ closing' = FALSE /\ aborted' = InProgress
    /\ capture' = [x \in Shot |-> IF x \in InProgress THEN "over" ELSE capture[x]]
    /\ upload' = [x \in Shot |-> IF upload[x] = "none" THEN "none" ELSE "over"]
    /\ asked' = {} /\ UNCHANGED <<output, charge, image, agent, authority, fence, expired>>

ShotNext ==
    \/ \E x \in Shot : \/ admit(x) \/ begin(x) \/ ask(x) \/ cancel(x) \/ settle(x) \/ discard(x)
                       \/ startCapture(x) \/ readDisplay(x) \/ agentDone(x)
                       \/ checkGrant(x) \/ screenshotBody(x) \/ publish(x) \/ expire(x)
    \/ prune \/ requestPurge \/ purge \/ close \/ loseAuthority \/ crash

-----------------------------------------------------------------------------
\* However a capture ends, its bytes and its charge end together: an image that is kept is charged and within capacity,
\* nothing is kept once the workspace is purged, and no grant stays open after its request has ended, except through a
\* crash, where it lasts until retention removes it.
ShotsAreAccounted ==
    /\ \A x \in Shot : charge[x] = CASE output[x] = "none" -> "none" [] output[x] = "capturing" -> "reserved"
                                     [] output[x] = "ready" -> "committed" [] OTHER -> "released"
    /\ Cardinality(Charged) <= MaxCharged
    /\ fence = "purged" => Charged = {}
    /\ \A x \in Shot : (capture[x] = "over" /\ output[x] = "capturing") => upsets > 0
=============================================================================
