SPECIFICATION Spec
CONSTANTS
  Builders = {"buildModAdd"}
  Width = {2}
  OccupiedPins = {0}
  OccupiedGates = {0}
  MaxPins = 80
  MaxGates = 52
  Wirings = {}
  TruthBytes = {}
INVARIANT
  SumsReduced
CHECK_DEADLOCK FALSE
