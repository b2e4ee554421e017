---------------------------- MODULE MCCloseTable ----------------------------
(***************************************************************************)
(* Model-checking instance of CloseTable.  Four storable keys and one key *)
(* whose hashCode raises.  The hashes make k1, k2 and k4 share bucket 0   *)
(* at size 4, and only k1 and k2 share it at size 8, so chains of length  *)
(* three, their split on growth, and a singleton bucket all occur.        *)
(***************************************************************************)
EXTENDS CloseTable, TLC

CONSTANTS k1, k2, k3, k4, kf, v1, v2

MCKeys == {k1, k2, k3, k4, kf}
MCValues == {v1, v2}
MCFailingKeys == {kf}
MCHash == (k1 :> 0) @@ (k2 :> 8) @@ (k3 :> 1) @@ (k4 :> 4) @@ (kf :> 2)

\* Tombstones in a full array are what sends closeTableSet into the
\* unimplemented in-place rehash; runs that check the table's other
\* properties keep at most MaxTombstones of them (the run "close_overflow"
\* shows what happens with two).
CONSTANT MaxTombstones
TombstoneBound == entriesCount - count <= MaxTombstones

ValueSymmetry == Permutations(MCValues)
=============================================================================
