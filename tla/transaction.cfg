CONSTANTS
  u = u
  a = a
  b = b
  Fields = {u}
  Values = {a}
  Absent = Absent
  NoRec = NoRec
  Key <- MCKey
  EqClass <- MCEqClass
  Unique = {u}
  Threads = {t1, t2}
  Free = Free
  MaxId = 2
  CacheSize = 1
  Kinds = {"create", "update", "delete"}
  NewRecs <- MCNewRecs
  Patches <- MCPatches
  Probes <- MCProbes
  MaxPending = 1
  MaxRestarts = 1
  MayCrash = TRUE
  Torn = TRUE
  MaxErrors = 0
  MayLoseIndex = FALSE
  MaxOps = 2
  InBlock = TRUE
SPECIFICATION TxnSpec
SYMMETRY Symmetry
INVARIANTS CommitsInOrder BufferedIdsFresh
