SPECIFICATION FairSpec
CONSTANTS
  c1 = c1
  c2 = c2
  Clients = {c1, c2}
  NumWaitPlayers = 2
  MaxTicks = 4
  MaxOrders <- OneOrderOfOne
INVARIANTS
  TypeOK
  IndInv
PROPERTIES
  ImplementsTickLog
  EveryTickIsRun
  OrderIsCarriedOut
CHECK_DEADLOCK FALSE
