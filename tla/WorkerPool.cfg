SPECIFICATION Spec
CONSTANTS
  MaxItems = 4
  MaxConcurrency = 2
INVARIANTS
  TypeOK
  SlotOwnership
PROPERTIES
  QuietGather
  Returns
  KeepsPromise
