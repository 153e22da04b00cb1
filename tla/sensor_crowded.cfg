SPECIFICATION FairSpec
CONSTANTS
  Tag = {0, 1, 2, 3}
  MaxFailures = 2
INVARIANTS
  ReportedOnce
  ConnectsOnlyWhenClosed
PROPERTIES
  NoTagForgotten
  OneByOneReported
CHECK_DEADLOCK FALSE
