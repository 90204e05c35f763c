---------------------------- MODULE RequestAuth ----------------------------
(***************************************************************************)
(* The identity decision the Express bridge takes before any route runs:   *)
(* a browser session first, a bearer token second, and never a default     *)
(* tenant.  Tokens are abstracted to what the decision looks at: whether   *)
(* they verify, and their tenant_id claim.                                 *)
(***************************************************************************)

CONSTANTS Tenants,   \* tenant ids a token may carry
          NoTenant,  \* no tenant: a null context, or a claim that is absent
          Blank      \* a tenant_id claim that is only white space

ASSUME TenantValues == /\ NoTenant \notin Tenants
                       /\ Blank \notin Tenants
                       /\ NoTenant # Blank

Claims == Tenants \cup {NoTenant, Blank}

\* The session cookie's stored grant: absent, unreadable, past its exp (or
\* without one), or live.
Sessions == [grant: {"absent", "unreadable", "expired", "live"}, claim: Claims]

\* The Authorization header: absent, rejected by jwtVerify, or verified.
Bearers == [token: {"absent", "invalid", "verified"}, claim: Claims]

\* A session identifies a tenant only through a live grant with a claim.
tenantFromSession(session) ==
  IF session.grant = "live" THEN session.claim ELSE NoTenant

\* runWithTenantContext refuses a blank tenant by throwing, which Express
\* turns into a 500: the handler never runs.
runWithTenantContext(t) ==
  IF t = Blank THEN [status |-> 500, tenant |-> NoTenant]
               ELSE [status |-> 200, tenant |-> t]

Refuse(status) == [status |-> status, tenant |-> NoTenant]

\* The whole boundary; status 200 means the route runs in that tenant.
authMiddleware(session, bearer) ==
  CASE tenantFromSession(session) # NoTenant
         -> runWithTenantContext(tenantFromSession(session))
    [] /\ tenantFromSession(session) = NoTenant
       /\ bearer.token \in {"absent", "invalid"}
         -> Refuse(401)
    [] /\ tenantFromSession(session) = NoTenant
       /\ bearer.token = "verified"
       /\ bearer.claim = NoTenant
         -> Refuse(403)
    [] OTHER -> runWithTenantContext(bearer.claim)

Decisions == [status: {200, 401, 403, 500}, tenant: Tenants \cup {NoTenant}]
=============================================================================
