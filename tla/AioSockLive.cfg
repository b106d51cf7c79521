CONSTANTS
  u1 = u1
  u2 = u2
  w1 = w1
  w2 = w2
  b1 = b1
  b2 = b2
  None = None
  Users = {u1}
  Workers = {w1, w2}
  Blocks = {b1}
  LastIdent = 1
  AcceptPool = 1
  MaxDone = 1
  Ears = {1}
  Finite = TRUE
  Stoppable = TRUE
SPECIFICATION LiveSpec
INVARIANTS OperationsTracked
PROPERTIES CompletedAnswered OffCompletes
CHECK_DEADLOCK FALSE
