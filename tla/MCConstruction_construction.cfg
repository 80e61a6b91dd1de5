SPECIFICATION FairSpec
CONSTANTS
  MaxObjects = 3
  Players = 1
  Main = Main
  Hut = Hut
  Types <- BuildingTypes
  BlockCount <- Counts
  MaxBlocks = 2
  BuildSpeed = 2
  MaxQueue = 2
  MaxFloods = 1
INVARIANTS
  TypeOK
  NoBlockTwice
  NoneBuildsItself
  NotForgotten
PROPERTIES
  NothingLost
  BuiltInTheEnd
