CONSTANTS
  k1 = k1  k2 = k2  k3 = k3  k4 = k4  kf = kf
  v1 = v1  v2 = v2  i1 = i1  i2 = i2
  Keys <- MCStoredKeys
  Values <- MCOneValue
  FailingKeys = {}
  FlakyKeys = {}
  Hash <- MCStoredHash
  Iterators <- MCIterators
  InitialSize = 4
  MaxMods = 6
  MaxTombstones = 1
  GuardedNext = TRUE
  Undef = Undef
  Absent = Absent  Inserted = Inserted  Updated = Updated
  Deleted = Deleted  Error = Error  None = None
  ModifiedError = ModifiedError  UninitRead = UninitRead

INIT IInit
NEXT INext
CONSTRAINT TombstoneBound
INVARIANT ITypeOK
INVARIANT IterationInInsertionOrder
INVARIANT NoKeyYieldedTwice
