----------------------- MODULE MCGameClientConnection -----------------------
(* GameClientConnection with two ports; see the .cfg files.                *)
EXTENDS GameClientConnection
=============================================================================
