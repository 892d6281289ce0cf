CONSTANTS
  h1 = h1
  n1 = n1
  n2 = n2
  p1 = p1
  Handles = {h1}
  Names = {n1, n2}
  Passwords = {NoPassword, p1}
  NoPassword = NoPassword
  Nothing = Nothing
  Sorts = {"good", "invalid", "duplicate"}
  MaxId = 2
  MaxLives = 1
  MaxRestarts = 2
SPECIFICATION Spec
SYMMETRY Symmetry
INVARIANTS OpenedReadsAll LoggedLands RecordsRegistered DroppedStaysGone
