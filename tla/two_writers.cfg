CONSTANTS
  i1 = i1
  i2 = i2
  f1 = f1
  f2 = f2
  v1 = v1
  v2 = v2
  Instances = {i1, i2}
  Creators = {i1, i2}
  Fields = {f1, f2}
  Values = {v1, v2}
  NoRec = NoRec
  Nobody = Nobody
  MaxId = 2
  MaxDeaths = 1
  QuietOpens = TRUE
SPECIFICATION Spec
SYMMETRY Symmetry
INVARIANT DrawnIsNew
