\* initHeapString's capacity 8; pieces of up to 9 characters, so that a
\* piece fills the room exactly, overflows it, and needs more than doubling.
CONSTANTS
  InitialCapacity = 8
  Letters = {"a", "b"}
  MaxPiece = 9
  MaxLen = 18
SPECIFICATION Spec
INVARIANT HoldsAppended
