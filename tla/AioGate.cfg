CONSTANTS
  u1 = u1
  w1 = w1
  w2 = w2
  i1 = i1
  i2 = i2
  NoIdent = NoIdent
  Users = {u1}
  Workers = {w1, w2}
  Idents = {i1}
  Ears = {}
  Chunk = 4
  Header = 1
  Bulks <- SmallBulks
  MaxBytes = 5
  Binds = TRUE
  Stoppable = FALSE
SPECIFICATION Spec
INVARIANTS ClosedByLast ProgressKnown DataKept StoredIsSent CloseReachesOwn
SYMMETRY Symmetry
