CONSTANTS
  age = age
  tag = tag
  role = role
  writer = writer
  batcher = batcher
  Fields = {age, tag, role}
  Absent = Absent
  None = None
  Threads = {writer, batcher}
  Batchers = {batcher}
  Gone = Gone
  MaxId = 2
  MaxItems = 2
  PageSize = 1
  SchemaOf <- MCSchema
  NewRecs <- MCNewRecs
  Patches <- MCPatches
  Predicates <- MCPredicates
SPECIFICATION Spec
INVARIANTS MissingLast
