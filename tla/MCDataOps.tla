------------------------------- MODULE MCDataOps -------------------------------
(***************************************************************************)
(* Model-checking instance of DataOps: a function with no fixed parameter  *)
(* and a '...' pack of up to one extra argument, one local declared after  *)
(* the pack, and one global.  The chunk's constants are -1, 0, 1, nil and  *)
(* a class; arithmetic over -2..2 reaches both ends of a two-item array,   *)
(* both sides of the pack and a vararg index below slot 0.                 *)
(***************************************************************************)
EXTENDS DataOps

CONSTANT g1

MCGlobals == {g1}
MCNums == -2..2
MCLiterals == {Num(-1), Num(0), Num(1), Nil, Class}

(***************************************************************************)
(* For maps (MCDataMaps.cfg): one property name "x", constants 0, 1 and    *)
(* "x", so that a literal can repeat a key and a key can be a number or a  *)
(* string, and a first local that may hold the map {"x": 0}, so that a    *)
(* store can replace a present key within the bound.                      *)
(***************************************************************************)
MCNames == {"x"}
MCMapLiterals == {Num(0), Num(1), Str("x")}
MCInitMaps == {<<<<Str("x"), Num(0)>>>>}

(***************************************************************************)
(* The run follows every sequence of at most MaxOps opcodes from the      *)
(* frame's entry: opCount counts them, and the constraint stops there.    *)
(* Five opcodes build a two-item array and index it, or store into a     *)
(* one-item array.                                                        *)
(***************************************************************************)
CONSTANT MaxOps
VARIABLE opCount

MCInit == Init /\ opCount = 0
MCNext == Next /\ opCount' = opCount + 1
MCSpec == MCInit /\ [][MCNext]_<<vars, opCount>>

OpsBound == opCount <= MaxOps
=============================================================================
