\* Maps and upvalues: MAP_BUILD with repeated keys, MAP_GET/MAP_SET and
\* INDEX/INDEX_STORE on a map the frame's first local holds, and UNPACK into
\* a local and an upvalue.
CONSTANTS
  g1 = g1
  Globals = {}
  Nums <- MCNums
  Literals <- MCMapLiterals
  FixedArgs = 0
  MaxVarArgs = 0
  NumLocals = 1
  MaxItems = 2
  MaxObjects = 2
  MaxPairs = 2
  NumUpvalues = 1
  Names <- MCNames
  InitMaps <- MCInitMaps
  MaxTemps = 4
  MaxUnpack = 2
  MaxOps = 5
SPECIFICATION MCSpec
CONSTRAINT OpsBound
PROPERTIES MapBuildInOrder MapStoreFollowsSpec UnpackFollowsSpec
