CONSTANTS
  u1 = u1
  w1 = w1
  w2 = w2
  i1 = i1
  i2 = i2
  NoIdent = NoIdent
  Users = {u1}
  Workers = {w1}
  Idents = {i1, i2}
  Ears = {i2}
  Chunk = 4
  Header = 1
  Bulks <- OneBulk
  MaxBytes = 1
  Binds = TRUE
  Stoppable = TRUE
SPECIFICATION LiveSpec
INVARIANTS SocketsOwned
PROPERTIES DeadEnds OffEnds
CHECK_DEADLOCK FALSE
