SPECIFICATION MCSpec
CONSTANTS
  Probes = {decisions, summary}
  RunProbes = {decisions}
  TotalProbes = {summary}
  MaxRun = 2
  MaxRuns = 1
  MaxPosts = 2
  Nodes = {"build", "test"}
  Queries = {"all", "one", "none"}
  NoQuery = "all"
  Match <- MCMatch
  NoNode = "null"
  MaxOut = 2
  Events = {1, 2, 3, 4}
  Correlations = {"a", "b"}
  CorrelationOf <- MCCorrelationOf
  AnyId = "any"
  Narrow <- MCNarrow
  Caps = {1, 2, 3}
INVARIANTS
  TraceOfSelected
  PanelsSound
PROPERTIES
  DispatchLostOnlyToReads
  TraceSettles
  PanelStepsSound
