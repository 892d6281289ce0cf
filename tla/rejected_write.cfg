CONSTANTS
  u = u
  a = a
  b = b
  Fields = {u}
  Values = {a, b}
  Absent = Absent
  NoRec = NoRec
  Key <- MCKey
  EqClass <- MCEqClass
  Unique = {u}
  Threads = {t1}
  Free = Free
  MaxId = 2
  CacheSize = 1
  Kinds = {"create", "update"}
  NewRecs <- MCNewRecs
  Patches <- MCPatches
  Probes <- MCProbes
  MaxPending = 2
  MaxRestarts = 1
  MayCrash = FALSE
  Torn = FALSE
  MaxErrors = 0
  MayLoseIndex = FALSE
SPECIFICATION Spec
INVARIANTS UniqueLive
