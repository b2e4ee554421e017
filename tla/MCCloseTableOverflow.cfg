CONSTANTS
  k1 = k1  k2 = k2  k3 = k3  k4 = k4  kf = kf
  v1 = v1  v2 = v2
  Keys <- MCKeys
  Values <- MCValues
  FailingKeys <- MCFailingKeys
  FlakyKeys = {}
  Hash <- MCHash
  InitialSize = 4
  MaxMods = 8
  MaxTombstones = 8
  Undef = Undef
  Absent = Absent  Inserted = Inserted  Updated = Updated
  Deleted = Deleted  Error = Error  None = None

SPECIFICATION Spec
INVARIANT EntriesWithinTable
