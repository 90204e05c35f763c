\* Two reads of two tenants, or of none, compete for one connection, which is
\* handed from one to the other, reset or destroyed in between.
CONSTANTS
  Requests = {r1, r2}
  Conns = {c1}
  Tenants = {acme, bolt}
  NoTenant = NoTenant
  Blank = Blank
  NoConn = NoConn
  Tables = {log_entries, live_events}
  TenantTables = {log_entries}
SPECIFICATION FairSpec
INVARIANTS
  TenantsIsolated
  NoConnectionLeaked
PROPERTIES
  ImplementsTenantReads
  EveryReadEnds
CHECK_DEADLOCK FALSE
