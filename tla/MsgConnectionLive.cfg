CONSTANTS
  na = na
  nb = nb
  l1 = l1
  l2 = l2
  None = None
  Nodes = {na, nb}
  Links = {l1, l2}
  Capacity = 2
  Posts = {1, 2}
  From <- Twice
  To <- TwiceBack
  Configured <- OneWay
  Admins = {na}
  Fragile = {l1}
  MaxPings = 0
SPECIFICATION FairSpec
INVARIANTS DeliveredInOrder
PROPERTIES ShutdownEnds QueuedLeaves
CHECK_DEADLOCK FALSE
