CONSTANTS
  t1 = t1
  t2 = t2
  c1 = c1
  c2 = c2
  b1 = b1
  b2 = b2
  None = None
  House = House
  Threads = {t1}
  Capacity = 1
  Clients = {c1}
  LastIdent = 0
  Callers = {b1}
  MaxWork = 1
  Nested = FALSE
  Reborrow = FALSE
  Stoppable = FALSE
  Prompt = TRUE
  Alerts = {}
SPECIFICATION Spec
PROPERTY NoCallAfterRevoke
