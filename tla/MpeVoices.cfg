SPECIFICATION Spec
CONSTANTS
  Lower = TRUE
  Members = 3
  ZoneNotes = {n1, n2, n3}
  n1 = n1
  n2 = n2
  n3 = n3
  Ports = 2
  Dimensions = {"bend", "cc74", "pressure"}
  MaxValue = 1
  SourceChannel = 1
  Expressive = {1, 2}
  PanicRoute = TRUE
  Announced = {2, 3}
SYMMETRY NoteSymmetry
INVARIANTS EveryReleaseIsHeard ExpressionFollows
PROPERTY OldestMakesRoom
