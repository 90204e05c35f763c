----------------------------- MODULE TenantPool -----------------------------
(***************************************************************************)
(* PostgresProjectionReader: concurrent reads that share a small pool of   *)
(* Postgres connections, each read scoped to its caller's tenant through a *)
(* session variable (the GUC app.tenant_id) that outlives the read unless  *)
(* it is reset.  One request is one call of readProjection,                *)
(* queryLogEntries or queryTraces, from the identity boundary to the       *)
(* response; every await of that call is a step of its own.                *)
(***************************************************************************)
EXTENDS RequestAuth

CONSTANTS Requests,
          Conns,         \* the pool's connection slots (pg's max)
          NoConn,
          Tables,        \* the tables the reader selects from
          TenantTables   \* those the migration lists: policy and GRANT SELECT

ASSUME NoConnValue == NoConn \notin Conns

VARIABLES phase,   \* phase[r]: the await the request is suspended in
          tenant,  \* tenant[r]: its AsyncLocalStorage tenant, or NoTenant
          conn,    \* conn[r]: the connection it has checked out, or NoConn
          todo,    \* todo[r]: the tables it has still to select from
          rows,    \* rows[r]: the rows selected so far
          failed,  \* failed[r]: a select failed in a way the reader rethrows
          swallow, \* swallow[r]: called through readProjection, which catches
          answer,  \* answer[r]: the response
          pool,    \* pool[c]: "absent", "idle" or "leased"
          guc      \* guc[c]: app.tenant_id in the connection's session

reqVars == <<tenant, todo, rows, failed, swallow>>
poolVars == <<conn, pool, guc>>
vars == <<phase, tenant, conn, todo, rows, failed, swallow, answer, pool, guc>>

Busy == {"acquiring", "scoping", "reading", "resetting"}
Holding == {"scoping", "reading", "resetting"}

\* The caller-visible promise, over the same requests and answers.
Reads == INSTANCE TenantReads
           WITH status <- [r \in Requests |->
                             IF phase[r] \in Busy THEN "pending" ELSE phase[r]],
                scope <- tenant

Init ==
  /\ phase = [r \in Requests |-> "new"]
  /\ tenant = [r \in Requests |-> NoTenant]
  /\ conn = [r \in Requests |-> NoConn]
  /\ todo = [r \in Requests |-> {}]
  /\ rows = [r \in Requests |-> {}]
  /\ failed = [r \in Requests |-> FALSE]
  /\ swallow = [r \in Requests |-> FALSE]
  /\ answer = [r \in Requests |-> Reads!Unanswered]
  /\ pool = [c \in Conns |-> "absent"]
  /\ guc = [c \in Conns |-> NoTenant]

-----------------------------------------------------------------------------
(* The request's edges: identity on the way in, the response on the way out *)

\* Start a read in tenant t.  The topic decides which tables it selects from,
\* none for an unknown topic.
Begin(r, t) ==
  /\ phase' = [phase EXCEPT ![r] = "acquiring"]
  /\ tenant' = [tenant EXCEPT ![r] = t]
  /\ \E ts \in SUBSET Tables : todo' = [todo EXCEPT ![r] = ts]
  /\ \E s \in BOOLEAN : swallow' = [swallow EXCEPT ![r] = s]
  /\ UNCHANGED <<rows, failed, answer, poolVars>>

\* 401, 403 or 500: the handler never runs and no connection is touched.
TurnAway(r) ==
  /\ phase' = [phase EXCEPT ![r] = "done"]
  /\ answer' = [answer EXCEPT ![r] = [kind |-> "refused", rows |-> {}]]
  /\ UNCHANGED <<reqVars, poolVars>>

\* A request crosses authMiddleware: it runs in its tenant or is turned away.
Arrive(r) ==
  /\ phase[r] = "new"
  /\ \E session \in Sessions, bearer \in Bearers :
       LET decision == authMiddleware(session, bearer) IN
       IF decision.status = 200 THEN Begin(r, decision.tenant) ELSE TurnAway(r)

\* A read outside any tenant context: createTenantMiddleware in its disabled
\* mode.  The reader has a path of its own for it, although server/index.ts
\* mounts authMiddleware.
ArriveUnscoped(r) ==
  /\ phase[r] = "new"
  /\ Begin(r, NoTenant)

\* readProjection answers a failed read with no rows; the query endpoints
\* answer it with a 500.
Response(r, failure) ==
  IF failure /\ ~swallow[r]
  THEN [kind |-> "error", rows |-> {}]
  ELSE [kind |-> "rows", rows |-> IF failure THEN {} ELSE rows[r]]

Respond(r, failure) ==
  /\ phase' = [phase EXCEPT ![r] = "done"]
  /\ answer' = [answer EXCEPT ![r] = Response(r, failure)]
  /\ UNCHANGED reqVars

\* client.release() keeps the connection, client.release(err) destroys it.
ReturnToPool(r) ==
  /\ conn' = [conn EXCEPT ![r] = NoConn]
  /\ pool' = [pool EXCEPT ![conn[r]] = "idle"]

Destroy(r) ==
  /\ conn' = [conn EXCEPT ![r] = NoConn]
  /\ pool' = [pool EXCEPT ![conn[r]] = "absent"]
  /\ guc' = [guc EXCEPT ![conn[r]] = NoTenant]

-----------------------------------------------------------------------------
(* checkoutClient                                                          *)

\* Slip: a connection that comes out of the pool is taken to be scoped already.
ConnectReusesScope(r) ==
  /\ phase[r] = "acquiring"
  /\ \E c \in Conns :
       /\ pool[c] # "leased"
       /\ pool' = [pool EXCEPT ![c] = "leased"]
       /\ conn' = [conn EXCEPT ![r] = c]
       /\ phase' = [phase EXCEPT ![r] = IF tenant[r] = NoTenant \/ pool[c] = "idle"
                                        THEN "reading" ELSE "scoping"]
  /\ UNCHANGED <<reqVars, answer, guc>>

\* Slip: one client for everybody instead of one per read.
ConnectShares(r) ==
  /\ phase[r] = "acquiring"
  /\ \E c \in Conns :
       /\ pool' = [pool EXCEPT ![c] = "leased"]
       /\ conn' = [conn EXCEPT ![r] = c]
  /\ phase' = [phase EXCEPT ![r] = IF tenant[r] = NoTenant THEN "reading" ELSE "scoping"]
  /\ UNCHANGED <<reqVars, answer, guc>>

\* pool.connect(): an idle connection if there is one, else a fresh one.
Connect(r) ==
  /\ phase[r] = "acquiring"
  /\ \E c \in Conns :
       /\ \/ pool[c] = "idle"
          \/ pool[c] = "absent" /\ \A d \in Conns : pool[d] # "idle"
       /\ pool' = [pool EXCEPT ![c] = "leased"]
       /\ conn' = [conn EXCEPT ![r] = c]
  /\ phase' = [phase EXCEPT ![r] = IF tenant[r] = NoTenant THEN "reading" ELSE "scoping"]
  /\ UNCHANGED <<reqVars, answer, guc>>

\* pool.connect() rejects: no connection was leased and nothing is released.
ConnectFails(r) ==
  /\ phase[r] = "acquiring"
  /\ Respond(r, TRUE)
  /\ UNCHANGED poolVars

SetTenant(r) ==
  /\ phase[r] = "scoping"
  /\ guc' = [guc EXCEPT ![conn[r]] = tenant[r]]
  /\ phase' = [phase EXCEPT ![r] = "reading"]
  /\ UNCHANGED <<reqVars, answer, conn, pool>>

\* Slip: the failure is rethrown without client.release(err).
SetFailureForgetsConnection(r) ==
  /\ phase[r] = "scoping"
  /\ conn' = [conn EXCEPT ![r] = NoConn]
  /\ Respond(r, TRUE)
  /\ UNCHANGED <<pool, guc>>

SetTenantFails(r) ==
  /\ phase[r] = "scoping"
  /\ Destroy(r)
  /\ Respond(r, TRUE)

-----------------------------------------------------------------------------
(* The selects                                                             *)

Selecting(r, table) == phase[r] = "reading" /\ table \in todo[r]

\* A select sees what row-level security shows to the session it runs in.  The
\* role omnidash_app may select from the listed tables only.
Select(r, table) ==
  /\ Selecting(r, table)
  /\ table \in TenantTables
  /\ rows' = [rows EXCEPT ![r] = @ \cup Reads!Visible(guc[conn[r]], table)]
  /\ todo' = [todo EXCEPT ![r] = @ \ {table}]
  /\ UNCHANGED <<phase, tenant, failed, swallow, answer, poolVars>>

\* A missing table or column, or any failure of a select with a catch of its
\* own: tolerated, the read goes on without its rows.
SelectSkipped(r, table) ==
  /\ Selecting(r, table)
  /\ todo' = [todo EXCEPT ![r] = @ \ {table}]
  /\ UNCHANGED <<phase, tenant, rows, failed, swallow, answer, poolVars>>

\* Any other failure, permission denied on an unlisted table among them, is
\* rethrown: at once, or (live events) once the other
\* sources have settled.
SelectFails(r, table) ==
  /\ Selecting(r, table)
  /\ failed' = [failed EXCEPT ![r] = TRUE]
  /\ \E rest \in {{}, todo[r] \ {table}} : todo' = [todo EXCEPT ![r] = rest]
  /\ UNCHANGED <<phase, tenant, rows, swallow, answer, poolVars>>

-----------------------------------------------------------------------------
(* release, in the finally block of every read                             *)

\* Without a tenant there is nothing to reset: released and answered at once.
ReleaseUnscoped(r) ==
  /\ phase[r] = "reading" /\ todo[r] = {} /\ tenant[r] = NoTenant
  /\ ReturnToPool(r)
  /\ Respond(r, failed[r])
  /\ UNCHANGED guc

BeginReset(r) ==
  /\ phase[r] = "reading" /\ todo[r] = {} /\ tenant[r] # NoTenant
  /\ phase' = [phase EXCEPT ![r] = "resetting"]
  /\ UNCHANGED <<reqVars, answer, poolVars>>

\* Slip: release without the RESET.
ReleaseWithoutReset(r) ==
  /\ phase[r] = "resetting"
  /\ ReturnToPool(r)
  /\ Respond(r, failed[r])
  /\ UNCHANGED guc

ResetTenant(r) ==
  /\ phase[r] = "resetting"
  /\ guc' = [guc EXCEPT ![conn[r]] = NoTenant]
  /\ ReturnToPool(r)
  /\ Respond(r, failed[r])

\* Slip: a failed RESET is logged and the connection kept.
ResetFailureKeepsConnection(r) ==
  /\ phase[r] = "resetting"
  /\ ReturnToPool(r)
  /\ Respond(r, failed[r])
  /\ UNCHANGED guc

\* "Never return a tenant-tainted connection to the pool."
ResetFails(r) ==
  /\ phase[r] = "resetting"
  /\ Destroy(r)
  /\ Respond(r, failed[r])

-----------------------------------------------------------------------------
\* SIGTERM (process.exit without draining), or a connection error that no
\* listener of the pool handles: the sessions die with the process, which is
\* started again with an empty pool.
ProcessExit ==
  /\ \E r \in Requests : phase[r] \in Busy
  /\ phase' = [r \in Requests |-> IF phase[r] \in Busy THEN "done" ELSE phase[r]]
  /\ answer' = [r \in Requests |->
                  IF phase[r] \in Busy THEN [kind |-> "lost", rows |-> {}] ELSE answer[r]]
  /\ conn' = [r \in Requests |-> NoConn]
  /\ pool' = [c \in Conns |-> "absent"]
  /\ guc' = [c \in Conns |-> NoTenant]
  /\ UNCHANGED reqVars

Checkout(r) == Connect(r) \/ ConnectFails(r) \/ SetTenant(r) \/ SetTenantFails(r)

ReadTable(r) ==
  \E table \in Tables : Select(r, table) \/ SelectSkipped(r, table) \/ SelectFails(r, table)

Release(r) == ReleaseUnscoped(r) \/ BeginReset(r) \/ ResetTenant(r) \/ ResetFails(r)

Next ==
  \/ \E r \in Requests : Arrive(r) \/ ArriveUnscoped(r)
  \/ \E r \in Requests : Checkout(r)
  \/ \E r \in Requests : ReadTable(r)
  \/ \E r \in Requests : Release(r)
  \/ ProcessExit

Spec == Init /\ [][Next]_vars

\* Postgres answers every statement, one way or the other, and pg-pool serves
\* its waiters in turn: Connect is strongly fair because a connection is only
\* free from time to time.  Arrivals and exits are not fair.
Fairness ==
  \A r \in Requests :
    /\ SF_vars(Connect(r))
    /\ WF_vars(SetTenant(r) \/ SetTenantFails(r))
    /\ WF_vars(ReadTable(r))
    /\ WF_vars(Release(r))

FairSpec == Spec /\ Fairness

-----------------------------------------------------------------------------
(* Properties                                                              *)

TypeOK ==
  /\ phase \in [Requests -> Busy \cup {"new", "done"}]
  /\ tenant \in [Requests -> Tenants \cup {NoTenant}]
  /\ conn \in [Requests -> Conns \cup {NoConn}]
  /\ todo \in [Requests -> SUBSET Tables]
  /\ rows \in [Requests -> SUBSET Reads!Row]
  /\ failed \in [Requests -> BOOLEAN]
  /\ swallow \in [Requests -> BOOLEAN]
  /\ answer \in [Requests -> Reads!Answer]
  /\ pool \in [Conns -> {"absent", "idle", "leased"}]
  /\ guc \in [Conns -> Tenants \cup {NoTenant}]

\* No connection waiting in the pool carries a tenant ("Never return a
\* tenant-tainted connection to the pool"), whichever way its last read ended.
IdleConnectionsClean == \A c \in Conns : pool[c] # "leased" => guc[c] = NoTenant

\* While a request selects, the session it selects in is scoped to exactly its
\* own tenant, and to none for a request without one, although other requests
\* used and will use the same connection.
SelectsInOwnTenant ==
  \A r \in Requests : phase[r] = "reading" => guc[conn[r]] = tenant[r]

\* The pool never loses a connection: each leased one is held by exactly one
\* request that has still to release it, on every error path.
NoConnectionLeaked ==
  \A c \in Conns :
    pool[c] = "leased" =>
      \E r \in Requests : /\ phase[r] \in Holding /\ conn[r] = c
                          /\ \A s \in Requests \ {r} : conn[s] # c

\* Every row a caller is answered with is a row of the tenant its token named, of
\* a table the migration scopes; a caller without a tenant gets none.
AnswersOwnRows == \A r \in Requests : answer[r].rows \subseteq Reads!Allowed(tenant[r])

\* The bridge implements the promise of TenantReads.
ImplementsTenantReads == Reads!ReadSpec

\* Every read that started is answered, failed or lost with the process: no
\* interleaving of readers and failures starves one or strands its connection.
EveryReadEnds == \A r \in Requests : phase[r] = "acquiring" ~> phase[r] = "done"

\* What keeps tenants apart: no connection in the pool carries one, every select
\* is scoped to the caller's, and every row answered is the caller's.
TenantsIsolated == IdleConnectionsClean /\ SelectsInOwnTenant /\ AnswersOwnRows
=============================================================================
