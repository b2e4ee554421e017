\* Calls, closures, returns, try blocks, throws and raised runtime errors.
CONSTANTS
  FRAMES_MAX = 3
  MAX_CATCH_HANDLER_FRAMES = 2
  MaxStack = 5
  MaxArgs = 1
  Exceptions = TRUE
SPECIFICATION Spec
INVARIANTS CTypeOK OpenUpvaluesOrdered FramesNested
