CONSTANTS
  u = u
  a = a
  b = b
  Fields = {u}
  Values = {a, b}
  Absent = Absent
  NoRec = NoRec
  Key <- MCKey
  EqClass <- MCEqClass
  Unique = {}
  Threads = {t1, t2}
  Free = Free
  MaxId = 2
  CacheSize = 1
  Kinds = {"create", "update", "get"}
  NewRecs <- MCNewRecs
  Patches <- MCPatches
  Probes <- MCProbes
  MaxPending = 2
  MaxRestarts = 0
  MayCrash = FALSE
  Torn = FALSE
  MaxErrors = 0
  MayLoseIndex = FALSE
SPECIFICATION Spec
INVARIANTS CacheFresh
