-------------------------- MODULE MCVideoDecoder --------------------------
(* Five frames and three calls. *)
EXTENDS VideoDecoder
=============================================================================
