\* Exceptions on: does unwinding leave open upvalues at or above the stack top?
CONSTANTS
  FRAMES_MAX = 3
  MAX_CATCH_HANDLER_FRAMES = 2
  MaxStack = 5
  MaxArgs = 1
  Exceptions = TRUE
SPECIFICATION Spec
INVARIANT OpenUpvaluesBelowTop
