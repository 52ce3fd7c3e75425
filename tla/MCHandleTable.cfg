CONSTANTS
  OBJECTS = {o1, o2}
  Null = Null
  MAX_COUNT = 2
  GEN_LIMIT = 4
  SLOT_LIMIT = 3
SPECIFICATION HistSpec
INVARIANTS TypeOK FreeListOK StaleHandlesRejected
PROPERTY ImplementsHandleMap
