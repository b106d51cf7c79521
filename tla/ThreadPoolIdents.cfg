CONSTANTS
  t1 = t1
  t2 = t2
  c1 = c1
  c2 = c2
  b1 = b1
  b2 = b2
  None = None
  House = House
  Threads = {t1, t2}
  Capacity = 2
  Clients = {c1}
  LastIdent = 1
  Callers = {b1}
  MaxWork = 1
  Nested = TRUE
  Reborrow = FALSE
  Stoppable = TRUE
  Prompt = TRUE
  Alerts = {House, t1, t2}
SPECIFICATION Spec
INVARIANTS UseCounted OneThreadPerIdent
SYMMETRY Symmetry
