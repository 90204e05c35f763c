\* One tab and one request beside it, a general limiter that
\* refuses the second request of a window and an auth limiter with room for one.
SPECIFICATION LiveSpec
CONSTANTS
  Pages = {home}
  Slots = {r1}
  Doc = doc
  Ours = ours
  Foreign = foreign
  ExpectedKnown = TRUE
  GeneralMax = 1
  AuthMax = 1
  MaxFailures = 2
  None = None
INVARIANTS
  LoginSound
  LimiterSound
PROPERTIES
  GrantKept
  NavigationEnds
