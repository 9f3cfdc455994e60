--------------------------- MODULE MCDebuggerBreak ---------------------------
(* A thread of the user interface and another one. *)
EXTENDS DebuggerBreak, TLC

CONSTANTS ui, other

MCUsers == {ui, other}

MCCalls == (ui :> {"tool", "state", "pause", "frame", "run"})
             @@ (other :> {"state", "lock", "reset"})

(* Nobody but a debugging tool. *)
MCToolCalls == (ui :> {"tool"}) @@ (other :> {})
=============================================================================
