SPECIFICATION Spec
CONSTANTS
  Names = {"p", "q"}
  TotalPages = 5
  PinsPerPage = 2
  MAX_REGISTRY_ITEMS = 5
  MAX_VARIABLES_PER_MODEL = 1
  MaxCommands = 7
INVARIANTS
  TypeOK
  ListTellsTruth
PROPERTIES
  OnlyTheCurrent
CHECK_DEADLOCK FALSE
