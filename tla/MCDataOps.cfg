\* Locals, the varargs pack, globals, arithmetic, INSTANCEOF and the
\* aggregate opcodes in one frame.
CONSTANTS
  g1 = g1
  Globals <- MCGlobals
  Nums <- MCNums
  Literals <- MCLiterals
  FixedArgs = 0
  MaxVarArgs = 1
  NumLocals = 1
  MaxItems = 2
  MaxObjects = 1
  MaxPairs = 1
  NumUpvalues = 0
  Names <- MCNames
  InitMaps = {}
  MaxTemps = 3
  MaxUnpack = 2
  MaxOps = 5
SPECIFICATION MCSpec
CONSTRAINT OpsBound
INVARIANTS DTypeOK
PROPERTIES UnpackFollowsSpec ArrayBuildInOrder IndexedAccessInBounds
