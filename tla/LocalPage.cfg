\* Two overlapping loads, three runs, walks of two pages, cached rows,
\* and a network that may never answer.
\* The bounded page stops once every load has ended.
CONSTANTS
  MaxRun = 3
  MaxLoads = 2
  MaxPages = 2
  Tenant = TRUE
SPECIFICATION FairSpec
INVARIANTS
  TypeOK
  OneRunShown
  NoRunsIsRead
PROPERTIES
  NeverGoesBack
  FailureKeepsDecisions
  PanelsSettle
CHECK_DEADLOCK FALSE
