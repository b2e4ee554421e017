\* Without exceptions: can a native call take a frame past FRAMES_MAX?
CONSTANTS
  FRAMES_MAX = 3
  MAX_CATCH_HANDLER_FRAMES = 2
  MaxStack = 5
  MaxArgs = 1
  Exceptions = FALSE
SPECIFICATION Spec
INVARIANT FrameCountWithinBound
