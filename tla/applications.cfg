SPECIFICATION ApplicationsSpec
CONSTANTS
  Orders = 10
  Amounts = {1, 9, 10, 15, 20, 100}
  Fragile = {"CONNECTING", "CONNECTED", "LOCALLY_CLOSED"}
  MaxFailures = 3
  Destination = {0, 1, 2}
  Self = 0
  count = 5
  HasStopTime = TRUE
  MaxPings = 0
  MaxLosses = 2
  MaxDuplicates = 2
INVARIANTS
  OrdersBounded
  ConnectsOnlyWhenClosed
  LossIsExact
PROPERTIES
  Stops
  KeepsContract
  EveryPingAnswered
CHECK_DEADLOCK FALSE
