SPECIFICATION MCSpec
CONSTANTS
  PAGE_BYTES = 4
  SLOT_BITS = 3
  Parent = {c1, c2}
  Class = {"pin", "circuit", "model"}
  TypeOf <- MCTypeOf
  SizeOf <- MCSizeOf
  Object = {o1, o2, o3}
  Content <- MCContent
  MAX_PAGES = 2
  MAX_CHAINS = 2
  WORD = 16
  MaxReleases = 3
SYMMETRY MCSymmetry
INVARIANTS TypeOK CountersAgree PagesOwned HandlesIntact LoopPacks
PROPERTIES ImplementsHeap NoLiveOverwrite
CHECK_DEADLOCK FALSE
