SPECIFICATION FairSpec
CONSTANTS
  Tag = {0, 1}
  MaxFailures = 0
PROPERTIES
  SessionsEnd
CHECK_DEADLOCK FALSE
