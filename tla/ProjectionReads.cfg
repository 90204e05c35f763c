\* One scoped and one unscoped widget; two backends of different installs and one
\* that declares no tenant.
CONSTANTS
  lab = lab  cloud = cloud  dev = dev  t1 = t1  t2 = t2
  Queries = {w1, w2}
  Scoped = {w1}
  Live = {lab, cloud, dev}
  Files = {fixtures}
  NoSource = NoSource
  ServerTenant <- OneSilent
  ConfiguredTenant = NoTenant
  NoTenant = NoTenant
  Polling = TRUE
  MaxFlips = 2
  MaxLeaves = 1
  MaxFaults = 2
SPECIFICATION FairSpec
INVARIANTS
  TypeOK
PROPERTIES
  ReplacedByCurrent
  EventuallyCurrent
CHECK_DEADLOCK FALSE
