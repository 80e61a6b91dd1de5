SPECIFICATION FairFloodSpec
CONSTANTS
  SizeX = 3
  SizeY = 1
  Landscapes <- Hills
  NoEntity = NoEntity
  BuildingSize <- Hut
  Level = 3
  RaiseSpeed = 1
  CraterSpeed = 2
  MaxRaises = 1
  MaxRockets = 2
  MaxBuildings = 0
  WaterLevel = 1
  Full = 8
  Flow = 4
  Spring = 4
PROPERTIES
  Settles
  SourcesFill
