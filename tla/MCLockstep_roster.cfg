SPECIFICATION Spec
CONSTANTS
  c1 = c1
  c2 = c2
  c3 = c3
  Clients = {c1, c2, c3}
  NumWaitPlayers = 2
  MaxTicks = 3
  MaxOrders <- NoOrders
SYMMETRY Symmetry
INVARIANTS
  TickWindow
  QueueNeverOverrun
  NoneWaitsInVain
  StartedClientKnowsItsId
CHECK_DEADLOCK FALSE
