CONSTANTS
  na = na
  nb = nb
  l1 = l1
  l2 = l2
  None = None
  Nodes = {na, nb}
  Links = {l1, l2}
  Capacity = 2
  Posts = {1, 2}
  From <- ToAndFro
  To <- FroAndTo
  Configured <- BothWays
  Admins = {}
  Fragile = {}
  MaxPings = 1
SPECIFICATION Spec
INVARIANTS OneInFlight StillListens MapHoldsLive GreetingFirst
SYMMETRY Symmetry
CHECK_DEADLOCK FALSE
