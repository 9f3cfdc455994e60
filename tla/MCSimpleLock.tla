---------------------------- MODULE MCSimpleLock ----------------------------
(* Three threads that take the lock up to three times each.                *)
EXTENDS SimpleLock
=============================================================================
