SPECIFICATION FairSpec
CONSTANTS
  Target = 4
  Orders = 2
  OrderSize = 2
  Readings = {"low", "mid"}
  Overtaking = FALSE
  MaxDefects = 1
  SupplierFails = TRUE
INVARIANTS
  TypeOK
  LinesOweTheirProducts
  OrdersConserved
  MaterialForEveryProduct
  ProductsAccountedFor
  DemandHasTimer
  StartedAreOnTheLine
  EndsWithNothingLeft
PROPERTIES
  EventuallyEnds
CHECK_DEADLOCK FALSE
