SPECIFICATION Spec
CONSTANTS
  c1 = c1
  c2 = c2
  Clients = {c1, c2}
  NumWaitPlayers = 2
  MaxTicks = 4
  MaxOrders <- TwoOrdersOfOne
INVARIANTS
  NothingIgnored
  InLockstep
  OrdersComeFromPlayers
  OrdersKept
  OrderLatency
CHECK_DEADLOCK FALSE
