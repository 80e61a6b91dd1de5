SPECIFICATION Spec
CONSTANTS
  c1 = c1
  c2 = c2
  Clients = {c1, c2}
  NumWaitPlayers = 2
  MaxTicks = 2
  MaxOrders <- NoOrders
INVARIANTS
  NamesAreWritable
CHECK_DEADLOCK FALSE
