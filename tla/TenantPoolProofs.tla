-------------------------- MODULE TenantPoolProofs --------------------------
(***************************************************************************)
(* TenantPool for any number of requests, connections, tenants and tables: *)
(* type correctness, the isolation of the pooled sessions, and the         *)
(* refinement of TenantReads.                                              *)
(***************************************************************************)
EXTENDS TenantPool, TLAPS

-----------------------------------------------------------------------------
(* The inductive invariant                                                 *)

\* A request has a connection exactly while it holds one, and that
\* connection is leased.
LeasesHeld ==
  \A r \in Requests :
    IF phase[r] \in Holding THEN conn[r] \in Conns /\ pool[conn[r]] = "leased"
                            ELSE conn[r] = NoConn

\* Two requests never hold the same connection.
LeasesExclusive ==
  \A r, s \in Requests :
    phase[r] \in Holding /\ phase[s] \in Holding /\ conn[r] = conn[s] => r = s

\* No lease without its holder.
LeasesOwned ==
  \A c \in Conns :
    pool[c] = "leased" => \E r \in Requests : phase[r] \in Holding /\ conn[r] = c

\* Only a request with a tenant waits for its scope or its reset.
ScopedPhases ==
  \A r \in Requests : phase[r] \in {"scoping", "resetting"} => tenant[r] # NoTenant

\* Whatever a request has read so far it may be answered with.
RowsOwned == \A r \in Requests : rows[r] \subseteq Reads!Allowed(tenant[r])

\* Until a request begins it has no tenant and no rows, and only a finished
\* request has an answer.
Untouched ==
  /\ \A r \in Requests : phase[r] \in {"new", "acquiring", "scoping"} => rows[r] = {}
  /\ \A r \in Requests : phase[r] # "done" => answer[r] = Reads!Unanswered

IInv ==
  /\ TypeOK
  /\ LeasesHeld
  /\ LeasesExclusive
  /\ LeasesOwned
  /\ IdleConnectionsClean
  /\ SelectsInOwnTenant
  /\ ScopedPhases
  /\ RowsOwned
  /\ Untouched
  /\ AnswersOwnRows

-----------------------------------------------------------------------------
(* Facts about the operators                                               *)

\* The identity boundary yields one of its four statuses and a tenant, or none.
LEMMA BoundaryDecides ==
  ASSUME NEW session \in Sessions, NEW bearer \in Bearers
  PROVE  authMiddleware(session, bearer) \in Decisions
  BY TenantValues
  DEF Sessions, Bearers, Claims, Decisions, authMiddleware, tenantFromSession,
      runWithTenantContext, Refuse

\* A session scoped to t sees rows t may be answered with, in a table it may select from.
LEMMA VisibleAllowed ==
  ASSUME NEW t \in Tenants \cup {NoTenant}, NEW table \in TenantTables
  PROVE  Reads!Visible(t, table) \subseteq Reads!Allowed(t)
  BY DEF Reads!Visible, Reads!Allowed

\* An arriving request begins in a tenant, or in none, or is turned away.
LEMMA ArriveCases ==
  ASSUME NEW r \in Requests, Arrive(r)
  PROVE  \/ \E t \in Tenants \cup {NoTenant} : Begin(r, t)
         \/ TurnAway(r)
<1>1. PICK session \in Sessions, bearer \in Bearers :
        IF authMiddleware(session, bearer).status = 200
        THEN Begin(r, authMiddleware(session, bearer).tenant)
        ELSE TurnAway(r)
  BY DEF Arrive
<1>2. authMiddleware(session, bearer).tenant \in Tenants \cup {NoTenant}
  BY BoundaryDecides DEF Decisions
<1>3. QED
  BY <1>1, <1>2

-----------------------------------------------------------------------------
(* Type correctness                                                        *)

LEMMA TypeInductive == TypeOK /\ [Next]_vars => TypeOK'
<1> SUFFICES ASSUME TypeOK, [Next]_vars PROVE TypeOK'
  OBVIOUS
<1> USE DEF TypeOK, Busy, Reads!Answer
<1>1. ASSUME NEW r \in Requests, Arrive(r) PROVE TypeOK'
  <2>1. ASSUME NEW t \in Tenants \cup {NoTenant}, Begin(r, t) PROVE TypeOK'
    BY <2>1 DEF Begin, poolVars
  <2>2. CASE TurnAway(r)
    BY <2>2 DEF TurnAway, reqVars, poolVars
  <2>3. QED
    BY <1>1, <2>1, <2>2, ArriveCases
<1>2. ASSUME NEW r \in Requests, ArriveUnscoped(r) PROVE TypeOK'
  BY <1>2 DEF ArriveUnscoped, Begin, reqVars, poolVars
<1>3. ASSUME NEW r \in Requests, Connect(r) PROVE TypeOK'
  BY <1>3 DEF Connect, reqVars, poolVars
<1>4. ASSUME NEW r \in Requests, ConnectFails(r) PROVE TypeOK'
  BY <1>4 DEF ConnectFails, Respond, Response, reqVars, poolVars
<1>5. ASSUME NEW r \in Requests, SetTenant(r) PROVE TypeOK'
  BY <1>5 DEF SetTenant, reqVars
<1>6. ASSUME NEW r \in Requests, SetTenantFails(r) PROVE TypeOK'
  BY <1>6 DEF SetTenantFails, Destroy, Respond, Response, reqVars
<1>7. ASSUME NEW r \in Requests, NEW table \in Tables, Select(r, table) PROVE TypeOK'
  BY <1>7 DEF Select, Selecting, Reads!Visible, poolVars
<1>8. ASSUME NEW r \in Requests, NEW table \in Tables, SelectSkipped(r, table)
      PROVE  TypeOK'
  BY <1>8 DEF SelectSkipped, Selecting, poolVars
<1>9. ASSUME NEW r \in Requests, NEW table \in Tables, SelectFails(r, table)
      PROVE  TypeOK'
  BY <1>9 DEF SelectFails, Selecting, poolVars
<1>10. ASSUME NEW r \in Requests, ReleaseUnscoped(r) PROVE TypeOK'
  BY <1>10 DEF ReleaseUnscoped, ReturnToPool, Respond, Response, reqVars
<1>11. ASSUME NEW r \in Requests, BeginReset(r) PROVE TypeOK'
  BY <1>11 DEF BeginReset, reqVars, poolVars
<1>12. ASSUME NEW r \in Requests, ResetTenant(r) PROVE TypeOK'
  BY <1>12 DEF ResetTenant, ReturnToPool, Respond, Response, reqVars
<1>13. ASSUME NEW r \in Requests, ResetFails(r) PROVE TypeOK'
  BY <1>13 DEF ResetFails, Destroy, Respond, Response, reqVars
<1>14. CASE ProcessExit
  BY <1>14 DEF ProcessExit, reqVars
<1>15. CASE UNCHANGED vars
  BY <1>15 DEF vars
<1>16. QED
  BY <1>1, <1>2, <1>3, <1>4, <1>5, <1>6, <1>7, <1>8, <1>9, <1>10, <1>11, <1>12,
     <1>13, <1>14, <1>15 DEF Next, Checkout, ReadTable, Release

\* The reader's state is always well typed.
THEOREM TypeCorrect == Spec => []TypeOK
<1>1. Init => TypeOK
  BY DEF Init, TypeOK, Busy, Reads!Unanswered, Reads!Answer
<1>2. QED
  BY <1>1, TypeInductive, PTL DEF Spec

-----------------------------------------------------------------------------
(* Isolation: the invariant holds initially and every step keeps it        *)

LEMMA InitInv == Init => IInv
<1> SUFFICES ASSUME Init PROVE IInv
  OBVIOUS
<1>1. TypeOK
  BY DEF Init, TypeOK, Busy, Reads!Unanswered, Reads!Answer
<1>2. LeasesHeld /\ LeasesExclusive /\ LeasesOwned /\ ScopedPhases
  BY DEF Init, LeasesHeld, LeasesExclusive, LeasesOwned, ScopedPhases, Holding
<1>3. IdleConnectionsClean /\ SelectsInOwnTenant
  BY DEF Init, IdleConnectionsClean, SelectsInOwnTenant
<1>4. RowsOwned /\ Untouched /\ AnswersOwnRows
  BY DEF Init, RowsOwned, Untouched, AnswersOwnRows, Reads!Unanswered
<1>5. QED
  BY <1>1, <1>2, <1>3, <1>4 DEF IInv

\* The steps that touch neither a connection nor a session variable.
LEMMA RequestStepsKeepInv ==
  ASSUME IInv, TypeOK', NEW r \in Requests,
         \/ Arrive(r) \/ ArriveUnscoped(r) \/ ConnectFails(r) \/ BeginReset(r)
         \/ \E table \in Tables :
              Select(r, table) \/ SelectSkipped(r, table) \/ SelectFails(r, table)
  PROVE  IInv'
<1> USE DEF IInv, TypeOK, Busy, Holding, LeasesHeld, LeasesExclusive, LeasesOwned,
            IdleConnectionsClean, SelectsInOwnTenant, ScopedPhases, RowsOwned,
            Untouched, AnswersOwnRows
<1>1. ASSUME phase[r] = "new", NEW t \in Tenants \cup {NoTenant}, Begin(r, t)
      PROVE  IInv'
  BY <1>1 DEF Begin, poolVars, Reads!Unanswered
<1>2. ASSUME phase[r] = "new", TurnAway(r) PROVE IInv'
  BY <1>2 DEF TurnAway, reqVars, poolVars
<1>3. CASE Arrive(r)
  BY <1>1, <1>2, <1>3, ArriveCases DEF Arrive
<1>4. CASE ArriveUnscoped(r)
  BY <1>1, <1>4 DEF ArriveUnscoped
<1>5. CASE ConnectFails(r)
  BY <1>5 DEF ConnectFails, Respond, Response, reqVars, poolVars
<1>6. CASE BeginReset(r)
  BY <1>6 DEF BeginReset, reqVars, poolVars
<1>7. ASSUME NEW table \in Tables, Select(r, table) PROVE IInv'
  \* The session is scoped to the request's own tenant, so are the rows.
  <2>1. Reads!Visible(guc[conn[r]], table) \subseteq Reads!Allowed(tenant[r])
    BY <1>7, VisibleAllowed DEF Select, Selecting
  <2>2. RowsOwned'
    BY <1>7, <2>1 DEF Select
  <2>3. QED
    BY <1>7, <2>2 DEF Select, Selecting, poolVars
<1>8. ASSUME NEW table \in Tables, SelectSkipped(r, table) PROVE IInv'
  BY <1>8 DEF SelectSkipped, Selecting, poolVars
<1>9. ASSUME NEW table \in Tables, SelectFails(r, table) PROVE IInv'
  BY <1>9 DEF SelectFails, Selecting, poolVars
<1>10. QED
  BY <1>3, <1>4, <1>5, <1>6, <1>7, <1>8, <1>9

\* The steps that lease, scope, reset, return or destroy a connection.
LEMMA PoolStepsKeepInv ==
  ASSUME IInv, TypeOK', NEW r \in Requests,
         \/ Connect(r) \/ SetTenant(r) \/ SetTenantFails(r)
         \/ ReleaseUnscoped(r) \/ ResetTenant(r) \/ ResetFails(r)
  PROVE  IInv'
<1> USE DEF IInv, TypeOK, Busy, Holding, LeasesHeld, LeasesExclusive, LeasesOwned,
            IdleConnectionsClean, SelectsInOwnTenant, ScopedPhases, RowsOwned,
            Untouched, AnswersOwnRows
\* The leased connection was idle or fresh, so no session variable is set: an
\* unscoped request may read at once.
<1>1. CASE Connect(r)
  BY <1>1 DEF Connect, reqVars
\* Nobody else holds the connection whose session variable changes.
<1>2. CASE SetTenant(r)
  BY <1>2 DEF SetTenant, reqVars
<1>3. CASE SetTenantFails(r)
  BY <1>3 DEF SetTenantFails, Destroy, Respond, Response, reqVars
\* Returned without a reset: the session variable was never set.
<1>4. CASE ReleaseUnscoped(r)
  BY <1>4 DEF ReleaseUnscoped, ReturnToPool, Respond, Response, reqVars
<1>5. CASE ResetTenant(r)
  BY <1>5 DEF ResetTenant, ReturnToPool, Respond, Response, reqVars
<1>6. CASE ResetFails(r)
  BY <1>6 DEF ResetFails, Destroy, Respond, Response, reqVars
<1>7. QED
  BY <1>1, <1>2, <1>3, <1>4, <1>5, <1>6

LEMMA ExitKeepsInv ==
  ASSUME IInv, TypeOK', ProcessExit
  PROVE  IInv'
  BY DEF IInv, TypeOK, ProcessExit, reqVars, Busy, Holding, LeasesHeld,
         LeasesExclusive, LeasesOwned, IdleConnectionsClean, SelectsInOwnTenant,
         ScopedPhases, RowsOwned, Untouched, AnswersOwnRows

LEMMA InvInductive == IInv /\ [Next]_vars => IInv'
<1> SUFFICES ASSUME IInv, [Next]_vars PROVE IInv'
  OBVIOUS
<1>1. TypeOK'
  BY TypeInductive DEF IInv
<1>2. CASE UNCHANGED vars
  BY <1>2 DEF vars, IInv, TypeOK, LeasesHeld, LeasesExclusive, LeasesOwned,
              IdleConnectionsClean, SelectsInOwnTenant, ScopedPhases, RowsOwned,
              Untouched, AnswersOwnRows
<1>3. CASE ProcessExit
  BY <1>1, <1>3, ExitKeepsInv
<1>4. ASSUME NEW r \in Requests,
             Arrive(r) \/ ArriveUnscoped(r) \/ Checkout(r) \/ ReadTable(r) \/ Release(r)
      PROVE  IInv'
  BY <1>1, <1>4, RequestStepsKeepInv, PoolStepsKeepInv DEF Checkout, ReadTable, Release
<1>5. QED
  BY <1>2, <1>3, <1>4 DEF Next

LEMMA Invariance == Spec => []IInv
  BY InitInv, InvInductive, PTL DEF Spec

\* No connection waiting in the pool carries a tenant, whichever way the read
\* that released it ended.
THEOREM PoolNeverTainted == Spec => []IdleConnectionsClean
<1>1. IInv => IdleConnectionsClean
  BY DEF IInv
<1>2. QED
  BY <1>1, Invariance, PTL

\* Every select runs in a session scoped to exactly the caller's tenant.
THEOREM ScopeIsOwnTenant == Spec => []SelectsInOwnTenant
<1>1. IInv => SelectsInOwnTenant
  BY DEF IInv
<1>2. QED
  BY <1>1, Invariance, PTL

\* The rows of an answer are rows of the caller's tenant, of tables the migration
\* scopes and grants.
THEOREM RowsAreOwn == Spec => []AnswersOwnRows
<1>1. IInv => AnswersOwnRows
  BY DEF IInv
<1>2. QED
  BY <1>1, Invariance, PTL

\* Each leased connection is held by exactly one request.
THEOREM NoLeak == Spec => []NoConnectionLeaked
<1>1. IInv => NoConnectionLeaked
  <2> SUFFICES ASSUME IInv, NEW c \in Conns, pool[c] = "leased"
               PROVE  \E r \in Requests :
                        /\ phase[r] \in Holding /\ conn[r] = c
                        /\ \A s \in Requests \ {r} : conn[s] # c
    BY DEF NoConnectionLeaked
  <2>1. PICK r \in Requests : phase[r] \in Holding /\ conn[r] = c
    BY DEF IInv, LeasesOwned
  <2>2. ASSUME NEW s \in Requests \ {r}, conn[s] = c PROVE FALSE
    <3>1. phase[s] \in Holding
      BY <2>2, NoConnValue DEF IInv, LeasesHeld
    <3>2. QED
      BY <2>1, <2>2, <3>1 DEF IInv, LeasesExclusive
  <2>3. QED
    BY <2>1, <2>2
<1>2. QED
  BY <1>1, Invariance, PTL

-----------------------------------------------------------------------------
(* Refinement: every step is a step of TenantReads or changes nothing it   *)
(* sees                                                                    *)

MappedStatus == [r \in Requests |-> IF phase[r] \in Busy THEN "pending" ELSE phase[r]]

\* A step that moves r between awaits and leaves the answers alone.
LEMMA InternalStepStutters ==
  ASSUME TypeOK, NEW r \in Requests, NEW p \in Busy, phase[r] \in Busy,
         phase' = [phase EXCEPT ![r] = p] \/ UNCHANGED phase,
         UNCHANGED <<tenant, answer>>
  PROVE  UNCHANGED Reads!readVars
<1>1. MappedStatus' = MappedStatus
  BY DEF MappedStatus, TypeOK
<1>2. QED
  BY <1>1 DEF MappedStatus, Reads!readVars

\* A response is a reply TenantReads allows: a read's rows are its tenant's.
LEMMA RespondReplies ==
  ASSUME IInv, NEW r \in Requests, NEW failure \in BOOLEAN,
         phase[r] \in Busy, Respond(r, failure)
  PROVE  Reads!Reply(r)
<1>1. MappedStatus[r] = "pending" /\ MappedStatus' = [MappedStatus EXCEPT ![r] = "done"]
  BY DEF MappedStatus, Respond, IInv, TypeOK, Busy
<1>2. rows[r] \in SUBSET Reads!Allowed(tenant[r])
  BY DEF IInv, RowsOwned
<1>3. \E shown \in SUBSET Reads!Allowed(tenant[r]) :
        \E a \in {[kind |-> "rows", rows |-> shown], [kind |-> "error", rows |-> {}]} :
          answer' = [answer EXCEPT ![r] = a]
  <2>1. CASE failure /\ ~swallow[r]
    BY <2>1, <1>2 DEF Respond, Response
  <2>2. CASE failure /\ swallow[r]
    <3>1. answer' = [answer EXCEPT ![r] = [kind |-> "rows", rows |-> {}]]
      BY <2>2 DEF Respond, Response
    <3>2. {} \in SUBSET Reads!Allowed(tenant[r])
      OBVIOUS
    <3>3. QED
      BY <3>1, <3>2
  <2>3. CASE ~failure
    <3>1. answer' = [answer EXCEPT ![r] = [kind |-> "rows", rows |-> rows[r]]]
      BY <2>3 DEF Respond, Response
    <3>2. QED
      BY <3>1, <1>2
  <2>4. QED
    BY <2>1, <2>2, <2>3
<1>4. UNCHANGED tenant
  BY DEF Respond, reqVars
<1>5. QED
  BY <1>1, <1>3, <1>4 DEF MappedStatus, Reads!Reply

\* An arrival is accepted in a tenant, or in none, or turned away.
LEMMA ArrivalMapped ==
  ASSUME TypeOK, NEW r \in Requests, phase[r] = "new",
         TurnAway(r) \/ \E t \in Tenants \cup {NoTenant} : Begin(r, t)
  PROVE  Reads!Accept(r) \/ Reads!TurnAway(r)
<1>1. MappedStatus[r] = "new"
  BY DEF MappedStatus, Busy
<1>2. CASE TurnAway(r)
  <2>1. MappedStatus' = [MappedStatus EXCEPT ![r] = "done"]
    BY <1>2 DEF MappedStatus, TurnAway, TypeOK, Busy
  <2>2. QED
    BY <1>1, <1>2, <2>1 DEF MappedStatus, TurnAway, Reads!TurnAway, reqVars
<1>3. ASSUME NEW t \in Tenants \cup {NoTenant}, Begin(r, t) PROVE Reads!Accept(r)
  <2>1. MappedStatus' = [MappedStatus EXCEPT ![r] = "pending"]
    BY <1>3 DEF MappedStatus, Begin, TypeOK, Busy
  <2>2. QED
    BY <1>1, <1>3, <2>1 DEF MappedStatus, Begin, Reads!Accept
<1>4. QED
  BY <1>2, <1>3

LEMMA ExitMapped ==
  ASSUME TypeOK, ProcessExit
  PROVE  Reads!Lose
<1>1. MappedStatus' = [r \in Requests |-> IF MappedStatus[r] = "pending" THEN "done"
                                                                   ELSE MappedStatus[r]]
  BY DEF MappedStatus, ProcessExit, TypeOK, Busy
<1>2. answer' = [r \in Requests |->
                   IF MappedStatus[r] = "pending" THEN [kind |-> "lost", rows |-> {}]
                                                  ELSE answer[r]]
  BY DEF MappedStatus, ProcessExit, TypeOK, Busy
<1>3. QED
  BY <1>1, <1>2 DEF MappedStatus, Reads!Lose, ProcessExit, reqVars

LEMMA StepMapped == IInv /\ [Next]_vars => [Reads!ReadNext]_(Reads!readVars)
<1> SUFFICES ASSUME IInv, [Next]_vars PROVE Reads!ReadNext \/ UNCHANGED Reads!readVars
  OBVIOUS
<1>1. CASE UNCHANGED vars
  BY <1>1 DEF vars, Reads!readVars
<1>2. CASE ProcessExit
  BY <1>2, ExitMapped DEF IInv, Reads!ReadNext
<1>3. ASSUME NEW r \in Requests, Arrive(r) \/ ArriveUnscoped(r)
      PROVE  Reads!ReadNext
  BY <1>3, ArriveCases, ArrivalMapped
  DEF Arrive, ArriveUnscoped, IInv, Reads!ReadNext
<1>4. ASSUME NEW r \in Requests, Checkout(r)
      PROVE  Reads!ReadNext \/ UNCHANGED Reads!readVars
  <2>1. phase[r] \in Busy
    BY <1>4 DEF Checkout, Connect, ConnectFails, SetTenant, SetTenantFails, Busy
  <2>2. CASE Connect(r) \/ SetTenant(r)
    BY <2>1, <2>2, InternalStepStutters DEF Connect, SetTenant, reqVars, Busy, IInv
  <2>3. CASE ConnectFails(r) \/ SetTenantFails(r)
    BY <2>1, <2>3, RespondReplies DEF ConnectFails, SetTenantFails, Reads!ReadNext
  <2>4. QED
    BY <1>4, <2>2, <2>3 DEF Checkout
<1>5. ASSUME NEW r \in Requests, ReadTable(r)
      PROVE  UNCHANGED Reads!readVars
  BY <1>5, InternalStepStutters
  DEF ReadTable, Select, SelectSkipped, SelectFails, Selecting, Busy, IInv
<1>6. ASSUME NEW r \in Requests, Release(r)
      PROVE  Reads!ReadNext \/ UNCHANGED Reads!readVars
  <2>1. phase[r] \in Busy /\ failed[r] \in BOOLEAN
    BY <1>6
    DEF Release, ReleaseUnscoped, BeginReset, ResetTenant, ResetFails, Busy, IInv, TypeOK
  <2>2. CASE BeginReset(r)
    BY <2>1, <2>2, InternalStepStutters DEF BeginReset, reqVars, Busy, IInv
  <2>3. CASE ReleaseUnscoped(r) \/ ResetTenant(r) \/ ResetFails(r)
    BY <2>1, <2>3, RespondReplies
    DEF ReleaseUnscoped, ResetTenant, ResetFails, Reads!ReadNext
  <2>4. QED
    BY <1>6, <2>2, <2>3 DEF Release
<1>7. QED
  BY <1>1, <1>2, <1>3, <1>4, <1>5, <1>6 DEF Next

\* The reader implements the promise of TenantReads.
THEOREM Refinement == Spec => ImplementsTenantReads
<1>1. Init => Reads!ReadInit
  BY DEF Init, Reads!ReadInit, Busy
<1>2. QED
  BY <1>1, Invariance, StepMapped, PTL DEF Spec, ImplementsTenantReads, Reads!ReadSpec

\* The three together, as the run checks them: no order of reads, failures and
\* releases mixes tenants, for any number of requests, connections and tenants.
THEOREM Isolation == Spec => []TenantsIsolated
BY PoolNeverTainted, ScopeIsOwnTenant, RowsAreOwn, PTL DEF TenantsIsolated
=============================================================================
