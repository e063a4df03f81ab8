--------------------------- MODULE WorkspaceStates ---------------------------
(***************************************************************************)
(* The workspace state contract: the states of a workspace, the terminal   *)
(* ones, and the table of legal transitions.  Every component that moves a *)
(* workspace goes through CanTransition.                                   *)
(***************************************************************************)

WorkspaceState ==
    {"queued", "provisioning", "connected", "ready", "preserving",
     "terminating", "succeeded", "failed", "canceled", "expired", "preserved"}

TerminalState == {"succeeded", "failed", "canceled", "expired", "preserved"}

\* provisioning -> queued is the bounded infrastructure-launch retry.
Transitions ==
    [s \in WorkspaceState |->
        CASE s = "queued"       -> {"provisioning", "canceled", "expired"}
          [] s = "provisioning" -> {"connected", "queued", "terminating",
                                    "failed", "canceled", "expired"}
          [] s = "connected"    -> {"ready", "preserving", "terminating",
                                    "failed", "canceled", "expired"}
          [] s = "ready"        -> {"preserving", "terminating", "succeeded",
                                    "failed", "canceled", "expired"}
          [] s = "preserving"   -> {"terminating", "preserved", "failed"}
          [] s = "terminating"  -> {"succeeded", "failed", "canceled", "expired"}
          [] OTHER              -> {}]

CanTransition(from, to) == to \in Transitions[from]
==============================================================================
