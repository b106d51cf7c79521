CONSTANTS
  u1 = u1
  u2 = u2
  e1 = e1
  e2 = e2
  s1 = s1
  s2 = s2
  a1 = a1
  a2 = a2
  m1 = m1
  m2 = m2
  None = None
  Users = {u1, u2}
  Events = {e1}
  Sync = {s1, s2}
  Async = {a1}
  Incoming = {m1, m2}
  Extra = 1
  MaxMade = 2
SPECIFICATION FairSpec
INVARIANTS NullReplyMeansOff AsyncOnce
PROPERTIES AsyncAnswered IncomingTaken
CHECK_DEADLOCK FALSE
