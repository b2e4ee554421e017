---------------------------- MODULE MCMapIterator ----------------------------
(***************************************************************************)
(* Model-checking instance of MapIterator over the table of MCCloseTable. *)
(***************************************************************************)
EXTENDS MapIterator, MCCloseTable

CONSTANTS i1, i2

MCIterators == {i1}

\* The iterator runs store the four well-behaved keys only: the raising
\* hashCode paths are checked by the CloseTable runs.
MCStoredKeys == {k1, k2, k3, k4}
MCOneValue == {v1}
MCStoredHash == [k \in MCStoredKeys |-> MCHash[k]]
=============================================================================
