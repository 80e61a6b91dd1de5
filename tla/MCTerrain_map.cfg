SPECIFICATION FloodSpec
CONSTANTS
  SizeX = 3
  SizeY = 2
  Landscapes <- Slopes
  NoEntity = NoEntity
  BuildingSize <- Hut
  Level = 3
  RaiseSpeed = 2
  CraterSpeed = 2
  MaxRaises = 2
  MaxRockets = 1
  MaxBuildings = 1
  WaterLevel = 1
  Full = 8
  Flow = 4
  Spring = 8
INVARIANTS
  MapTypeOK
  NeverBelowZero
  NoneForgotten
  StandsLevel
  RaisingStopsClean
  NoneLeftBehind
  NoneFlooded
  NoDebt
PROPERTIES
  RisesByOrdersOnly
