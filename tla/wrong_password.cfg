CONSTANTS
  h1 = h1
  n1 = n1
  n2 = n2
  p1 = p1
  p2 = p2
  Handles = {h1}
  Names = {n1, n2}
  Passwords = {p1, p2}
  NoPassword = NoPassword
  Nothing = Nothing
  Sorts = {"good"}
  MaxId = 2
  MaxLives = 0
  MaxRestarts = 2
SPECIFICATION Spec
SYMMETRY Symmetry
INVARIANT OpenedReadsAll
