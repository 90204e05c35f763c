\* One scoped widget and two backends of different installs.
CONSTANTS
  lab = lab  cloud = cloud  dev = dev  t1 = t1  t2 = t2
  Queries = {w1}
  Scoped = {w1}
  Live = {lab, cloud}
  Files = {fixtures}
  NoSource = NoSource
  ServerTenant <- TwoInstalls
  ConfiguredTenant = NoTenant
  NoTenant = NoTenant
  Polling = TRUE
  MaxFlips = 1
  MaxLeaves = 0
  MaxFaults = 0
SPECIFICATION FairSpec
PROPERTIES
  EventuallyOfChosenTenant
CHECK_DEADLOCK FALSE
