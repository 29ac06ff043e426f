SPECIFICATION MCSpec
CONSTANTS
  MAX_VARIABLES_PER_MODEL = 1
  MAX_EQUATIONS_PER_MODEL = 2
  MAXIMUM_BIT_WIDTH = 2
  MaxNodes = 5
  Numbers = {0, 1}
  Operations = {"AND", "NE"}
  MaxPins = 6
  MaxGates = 3
  Wirings = {}
  TruthBytes = {}
INVARIANTS
  TypeOK
  TreesDisjoint
  
  FeedForward
  InversionIsExact
PROPERTY
  Conservative
