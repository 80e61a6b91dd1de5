SPECIFICATION FairSpec
CONSTANTS
  c1 = c1
  c2 = c2
  Clients = {c1, c2}
  NumWaitPlayers = 1
  MaxTicks = 2
  MaxOrders <- NoOrders
PROPERTIES
  GameStartsWithEnoughPlayers
CHECK_DEADLOCK FALSE
