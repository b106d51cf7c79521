CONSTANTS
  u1 = u1
  u2 = u2
  w1 = w1
  w2 = w2
  b1 = b1
  b2 = b2
  None = None
  Users = {u1}
  Workers = {w1, w2}
  Blocks = {b1, b2}
  LastIdent = 2
  AcceptPool = 1
  MaxDone = 2
  Ears = {1}
  Finite = FALSE
  Stoppable = FALSE
SPECIFICATION Spec
INVARIANTS CallbacksCounted IdentKept AcceptsCounted CompletionsFresh
PROPERTIES ImplementsPort
SYMMETRY Symmetry
