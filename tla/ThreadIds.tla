------------------------------ MODULE ThreadIds ------------------------------
(* std::thread::id: the identities of the threads, and that of none.        *)
CONSTANTS
  Threads,    (* The threads that share an object.                         *)
  NoThread    (* The identity of no thread: who holds a free lock.         *)

ASSUME NoThreadAssumption == NoThread \notin Threads
=============================================================================
