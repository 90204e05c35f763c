\* One delegation form and one submission.
SPECIFICATION FairSpec
CONSTANTS
    g = g
    d = d
    c1 = c1
    c2 = c2
    Panels <- OneTrigger
    Generators = {}
    Calls <- OneCall
    NoCall = NoCall
    EdgeConfigured = TRUE
    MaxBeats = 1
INVARIANTS
  NoFabricatedAcceptance
CHECK_DEADLOCK FALSE
