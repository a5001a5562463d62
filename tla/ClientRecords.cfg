CONSTANTS
  Caller = {t1, t2}
  Client = {k1, k2}
  Fields = 2
  MaxInits = 3
SPECIFICATION FairSpec
INVARIANTS
  TypeOK
  ReadBackNotStale
  CachedIsTail
  CachedIsStored
PROPERTIES
  CacheForgets
