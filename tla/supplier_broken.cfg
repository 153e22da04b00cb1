SPECIFICATION FairSpec
CONSTANTS
  Amounts = {1, 9, 10, 15, 20, 100}
  Fragile = {"CONNECTING", "CONNECTED", "LOCALLY_CLOSED"}
  MaxFailures = 3
PROPERTIES
  Reconnects
CHECK_DEADLOCK FALSE
