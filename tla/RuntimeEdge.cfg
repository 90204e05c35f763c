SPECIFICATION FairSpec
CONSTANTS
    g = g
    d = d
    c1 = c1
    c2 = c2
    Panels <- TwoPanels
    Generators <- OneGenerator
    Calls <- TwoCalls
    NoCall = NoCall
    EdgeConfigured = TRUE
    MaxBeats = 2
INVARIANTS
  AnswersAreTrue
PROPERTIES
  
  HeartbeatResumes
CHECK_DEADLOCK FALSE
