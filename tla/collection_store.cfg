CONSTANTS
  u = u
  a = a
  b = b
  Fields = {u, n}
  Values = {a}
  Absent = Absent
  NoRec = NoRec
  Key <- MCKey
  EqClass <- MCEqClass
  Unique = {u}
  Threads = {t1, t2}
  Free = Free
  MaxId = 2
  CacheSize = 1
  Kinds = {"create", "update", "delete", "compact"}
  NewRecs <- FewNewRecs
  Patches <- PlainPatches
  Probes <- MCProbes
  MaxPending = 1
  MaxRestarts = 2
  MayCrash = TRUE
  Torn = FALSE
  MaxErrors = 1
  MayLoseIndex = TRUE
SPECIFICATION LogFairSpec
INVARIANTS TypeOK IdsNeverReused
PROPERTIES StoreOutsideDoubt LockReleased RecoveryEnds
