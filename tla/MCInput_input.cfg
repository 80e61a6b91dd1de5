SPECIFICATION InputSpec
CONSTANTS
  MaxObjects = 3
  Players = 2
  Main = Main
  Hut = Hut
  Types <- BuildingTypes
  BlockCount <- OneBlock
  MaxBlocks = 1
  BuildSpeed = 1
  MaxQueue = 1
  MaxFloods = 0
  Me = 1
  MaxSent = 2
INVARIANTS
  InputTypeOK
  SelectedStand
  TimeNotInherited
PROPERTIES
  SelectionKept
