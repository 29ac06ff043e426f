SPECIFICATION Spec
CONSTANTS
  Symbol <- AnyString
  MaxNumber = 255
  Names = {"{"}
  ItemNames = {"}"}
  Widths = {2}
  MaxVariables = 1
  MaxPins = 2
  MaxGates = 2
  Wirings <- SmallWirings
  TruthBytes = {105}
  Seeds = {1}
  MaxRegistered = 2
  Rooms = {90, 174, 1000}
  MaxEdits = 5
  MaxLateEdits = 2
INVARIANTS
  TypeOK
  ResultTellsFile
  Restored
PROPERTIES
  LoadsAppend
  LoadsReturn
