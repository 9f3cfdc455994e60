------------------------ MODULE MCDebuggerRequests ------------------------
(* Two users; one of them replaces the debugger, the other one uses it. *)
EXTENDS DebuggerRequests, TLC

CONSTANTS u1, u2

MCUsers == {u1, u2}
MCCalls == u1 :> {"load", "stop", "tool"} @@ u2 :> {"tool", "state", "init"} @@ Emu :> {"power"}
MCNestedCalls == u1 :> {"load"} @@ u2 :> {"tool", "nested"} @@ Emu :> {}
MCWrapCalls == u1 :> {"init", "load"} @@ u2 :> {"state"} @@ Emu :> {}
MCStateCalls == u1 :> {"state"} @@ u2 :> {"tool", "state"} @@ Emu :> {}
=============================================================================
