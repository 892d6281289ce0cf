CONSTANTS
  u = u
  a = a
  b = b
  Fields = {u, n}
  Values = {a, b}
  Absent = Absent
  NoRec = NoRec
  Key <- MCKey
  EqClass <- MCEqClass
  Unique = {u}
  Threads = {t1, t2}
  Free = Free
  MaxId = 2
  CacheSize = 1
  Kinds = {"create", "update", "delete", "compact", "rebuild", "find", "get"}
  NewRecs <- MCNewRecs
  Patches <- FewPatches
  Probes <- MCProbes
  MaxPending = 1
  MaxRestarts = 2
  MayCrash = TRUE
  Torn = FALSE
  MaxErrors = 0
  MayLoseIndex = FALSE
SPECIFICATION LookupSpec
SYMMETRY Symmetry
INVARIANTS IndexExact ReplayLands FoundWasThere MissIsExcused
PROPERTIES ClientsAddNoClash OnlyLateFills
