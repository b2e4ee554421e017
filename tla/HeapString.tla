------------------------------ MODULE HeapString ------------------------------
(***************************************************************************)
(* The growable C string of src/slox/lib/object.c (HeapCString):         *)
(* initHeapString / initHeapStringSize and addStringFmt / addStringVFmt.  *)
(* The buffer is a function from 0..capacity-1 to characters, "NUL" or    *)
(* "?" (a byte nobody wrote); a formatted piece is the text vsnprintf     *)
(* produces, a run of one letter.  appended is a ghost: everything        *)
(* appended so far, the string's intended contents.                      *)
(***************************************************************************)
EXTENDS Integers, Sequences, FiniteSetsExt

CONSTANTS
  InitialCapacity,  \* initHeapString's 8, or a caller's initHeapStringSize
  Letters,          \* the characters a formatted piece is made of
  MaxPiece,         \* the longest piece one addStringFmt formats
  MaxLen            \* model bound on the string's total length

ASSUME InitialCapacity \in Nat \ {0} /\ MaxPiece \in Nat /\ MaxLen \in Nat

VARIABLES chars, length, capacity, appended

vars == <<chars, length, capacity, appended>>

Byte == Letters \cup {"NUL", "?"}

\* The texts one call can format.
Pieces == {[i \in 1..n |-> c] : n \in 0..MaxPiece, c \in Letters}

\* GROW_CAPACITY of slox/memory.h (not in src): 8 at first, then doubling.
GROW_CAPACITY(c) == IF c < 8 THEN 8 ELSE 2 * c

(***************************************************************************)
(* vsnprintf(buf + at, n, ...) producing text (C99 7.19.6.12): writes at  *)
(* most n - 1 characters of the text, then a NUL, nothing when n is 0,    *)
(* and returns the length of the whole text.                              *)
(***************************************************************************)
vsnprintf(buf, at, n, text) ==
  LET k == Min({Len(text), n - 1})
  IN  IF n = 0 THEN buf
      ELSE [i \in DOMAIN buf |-> IF i - at \in 0..k - 1 THEN text[i - at + 1]
                                 ELSE IF i = at + k THEN "NUL" ELSE buf[i]]

\* initHeapStringSize(): an empty string in a fresh buffer.
Init ==
  /\ capacity = InitialCapacity
  /\ chars = [i \in 0..InitialCapacity - 1 |-> IF i = 0 THEN "NUL" ELSE "?"]
  /\ length = 0
  /\ appended = <<>>

(***************************************************************************)
(* addStringVFmt(): format into the room left (capacity - length - 1);   *)
(* if the text needed no more, add its length.  Otherwise grow the buffer *)
(* to GROW_CAPACITY, or to length + required + 1 if that is more, format  *)
(* again into the new room and add the length.                            *)
(***************************************************************************)
addStringVFmt(text) ==
  LET available        == capacity - length - 1
      required         == Len(text)
      requiredCapacity == length + required + 1
      newCapacity      == Max({GROW_CAPACITY(capacity), requiredCapacity})
      grown == [i \in 0..newCapacity - 1 |-> IF i < capacity THEN chars[i] ELSE "?"]
  IN
  /\ length + required <= MaxLen
  /\ \/ /\ required <= available
        /\ chars' = vsnprintf(chars, length, available, text)
        /\ UNCHANGED capacity
     \/ /\ required > available
        /\ capacity' = newCapacity
        /\ chars' = vsnprintf(grown, length, newCapacity - length - 1, text)
  /\ length' = length + required
  /\ appended' = appended \o text

\* addStringFmt(format, ...): one piece of formatted text.
addStringFmt == \E text \in Pieces : addStringVFmt(text)

Next == addStringFmt

Spec == Init /\ [][Next]_vars

-----------------------------------------------------------------------------
HeapStringTypeOK ==
  /\ capacity \in Nat \ {0}
  /\ chars \in [0..capacity - 1 -> Byte]
  /\ length \in 0..capacity - 1
  /\ appended \in Seq(Letters)

\* The string as takeString(chars, length, capacity) takes it.
Contents == [i \in 1..length |-> chars[i - 1]]

(***************************************************************************)
(* The first length bytes of the buffer are everything appended, in order, *)
(* and a NUL follows them: what a caller of addStringFmt relies on when it *)
(* hands chars and length to takeString (numberToString, objectToString). *)
(***************************************************************************)
HoldsAppended == Contents = appended /\ chars[length] = "NUL"
=============================================================================
