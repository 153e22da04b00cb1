SPECIFICATION Spec
CONSTANTS
  Target = 3
  Orders = 3
  OrderSize = 1
  Readings = {"low", "mid"}
  Overtaking = TRUE
  MaxDefects = 1
  SupplierFails = FALSE
INVARIANTS
  OnlyDefectsAreDeletedTwice
PROPERTIES
  MakesWhatIsOrdered
CHECK_DEADLOCK FALSE
