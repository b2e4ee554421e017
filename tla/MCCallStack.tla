---------------------------- MODULE MCCallStack ----------------------------
(* Model-checking instance of CallStack: see MCCallStack*.cfg. *)
EXTENDS CallStack
=============================================================================
