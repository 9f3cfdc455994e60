-------------------------- MODULE MCRewindManager --------------------------
(* Blocks of two frames, a full state every second or third block. *)
EXTENDS RewindManager
=============================================================================
