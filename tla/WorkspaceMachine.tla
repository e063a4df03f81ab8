--------------------------- MODULE WorkspaceMachine ---------------------------
(***************************************************************************)
(* What every component promises about a workspace's state: it starts      *)
(* queued, moves only along the contract's transition table, and therefore *)
(* never leaves a terminal state.  The detailed lifecycle implements this  *)
(* specification.                                                          *)
(***************************************************************************)
EXTENDS WorkspaceStates

CONSTANT Workspace

VARIABLE state

Init == state = [w \in Workspace |-> "queued"]

Move(w, to) ==
    /\ CanTransition(state[w], to)
    /\ state' = [state EXCEPT ![w] = to]

Next == \E w \in Workspace, to \in WorkspaceState : Move(w, to)

Spec == Init /\ [][Next]_state
===============================================================================
