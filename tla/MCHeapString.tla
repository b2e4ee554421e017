---------------------------- MODULE MCHeapString ----------------------------
(* Model-checking instance of HeapString: see MCHeapString.cfg. *)
EXTENDS HeapString
=============================================================================
