\* A key whose hashCode may raise, at most one tombstone (so the in-place
\* rehash is never reached): closeTableSet after an aborted rehash.
CONSTANTS
  k1 = k1  k2 = k2  k3 = k3  k4 = k4  kf = kf
  v1 = v1  v2 = v2
  Keys <- MCKeys
  Values <- MCValues
  FailingKeys <- MCFailingKeys
  FlakyKeys = {k3}
  Hash <- MCHash
  InitialSize = 4
  MaxMods = 8
  MaxTombstones = 1
  Undef = Undef
  Absent = Absent  Inserted = Inserted  Updated = Updated
  Deleted = Deleted  Error = Error  None = None

SPECIFICATION Spec
CONSTRAINT TombstoneBound
INVARIANT EntriesWithinTable
