--------------------------- MODULE MCEmulatorLoop ---------------------------
(* A frontend and one other thread against the emulation thread.           *)
EXTENDS EmulatorLoop
=============================================================================
