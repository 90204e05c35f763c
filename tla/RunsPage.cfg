SPECIFICATION MCSpec
CONSTANTS
  Kinds <- MCKinds
  Unserved = Unserved
  TrueText = TrueText
  FalseText = FalseText
  MaxRuns = 3
  MaxClock = 5
  TicksPerDay = 2
  Limit = 2
  Days = 1
  TopSeries = 1
  Edges <- MCEdges
  Sample <- MCSample
  Found <- MCFound
  PageSize = 1
  MaxHistory = 2
  Links <- MCLinks
INVARIANTS
  RunsPageTypeOK
  WindowsAreWhole
  ReadingsAgree
  CountsAddUp
  PageIsOne
