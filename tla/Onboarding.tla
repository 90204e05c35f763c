----------------------------- MODULE Onboarding -----------------------------
(***************************************************************************)
(* Self-service tenant provisioning: POST /api/onboarding/provision looks  *)
(* the caller's tenant up, inserts one if there is none, reads it back and *)
(* binds it to the caller's Keycloak account.  Several handlers run at     *)
(* once, for the same subject and for different ones; any await may fail,  *)
(* the process may exit between any two, and clients retry.                *)
(***************************************************************************)
EXTENDS Integers, FiniteSets

CONSTANTS Calls,      \* handler slots: calls being served at the same time
          Subjects,   \* OIDC subjects
          Ids,        \* tenant ids randomUUID may mint
          Bases,      \* slugs callers ask for, normalised
          NoBase,     \* no usable slug was asked for
          DigitsOf,   \* DigitsOf[id]: the hex digits suffixed slugs take from it
          Nobody,     \* null: no tenant, no subject
          Mode,       \* onboarding.keycloak_apply_mode: "plan" or "execute"
          Attempts,   \* SLUG_COLLISION_ATTEMPTS
          Retrying    \* subjects whose callers retry, for liveness

ASSUME OnboardingValues ==
  /\ NoBase \notin Bases
  /\ Ids \cap Bases = {}
  /\ Nobody \notin Ids \cup Subjects
  /\ Mode \in {"plan", "execute"}
  /\ Attempts \in Nat \ {0}
  /\ Retrying \subseteq Subjects

VARIABLES phase,    \* phase[c]: the await the handler is suspended in
          subject,  \* subject[c]: the verified sub of its caller
          base,     \* base[c]: the slug asked for
          id,       \* id[c]: the tenant id minted for this call
          attempt,  \* attempt[c]: the loop counter of insertTenant
          tenant,   \* tenant[c]: the tenant id the lookup returned
          tenants,  \* the tenants table
          account,  \* account[s]: the tenant_id attribute of the subject's Keycloak
                    \* user; the other attributes go back as they were read
          told      \* the successes answered so far: who was told which tenant

requestVars == <<subject, base, id>>
vars == <<phase, subject, base, id, attempt, tenant, tenants, account, told>>

\* A slug is the base, and from the second attempt on digits of the minted id.
Slug(b, i, n) ==
  [base |-> IF b = NoBase THEN i ELSE b, suffix |-> IF n = 0 THEN <<>> ELSE <<n, DigitsOf[i]>>]

RowsOf(s) == {row \in tenants : row.subject = s}
TenantsOf(s) == {row.id : row \in RowsOf(s)}
Owner(slug) == {row.subject : row \in {r \in tenants : r.slug = slug}}

\* The caller-visible promise, over the same accounts and answers.
Registry == INSTANCE TenantRegistry WITH homes <- [s \in Subjects |-> TenantsOf(s)]

Init ==
  /\ phase = [c \in Calls |-> "idle"]
  /\ subject = [c \in Calls |-> Nobody]
  /\ base = [c \in Calls |-> NoBase]
  /\ id = [c \in Calls |-> Nobody]
  /\ attempt = [c \in Calls |-> 0]
  /\ tenant = [c \in Calls |-> Nobody]
  /\ tenants = {}
  /\ account = [s \in Subjects |-> Nobody]
  /\ told = {}

Goto(c, p) == phase' = [phase EXCEPT ![c] = p]

-----------------------------------------------------------------------------
(* The handler                                                             *)

\* A verified caller asks for its tenant; the id is fresh like a UUID.
Submit(c, s) ==
  /\ phase[c] = "idle"
  /\ Goto(c, "looking")
  /\ subject' = [subject EXCEPT ![c] = s]
  /\ \E b \in Bases \cup {NoBase} : base' = [base EXCEPT ![c] = b]
  /\ \E i \in Ids : /\ \A row \in tenants : row.id # i
                    /\ \A d \in Calls : id[d] # i
                    /\ id' = [id EXCEPT ![c] = i]
  /\ UNCHANGED <<attempt, tenant, tenants, account, told>>

\* The handler is over: its locals are gone.
End(c) ==
  /\ Goto(c, "idle")
  /\ subject' = [subject EXCEPT ![c] = Nobody]
  /\ base' = [base EXCEPT ![c] = NoBase]
  /\ id' = [id EXCEPT ![c] = Nobody]
  /\ attempt' = [attempt EXCEPT ![c] = 0]
  /\ tenant' = [tenant EXCEPT ![c] = Nobody]

Succeed(c, t) ==
  /\ End(c)
  /\ told' = told \cup {[subject |-> subject[c], tenant |-> t]}

\* Slip: execute mode answers without waiting for the admin calls.
BindWithoutApply(c, t) == Succeed(c, t)

\* provision goes on with the tenant it found: plan mode answers at once,
\* execute mode starts the admin calls.
Bind(c, t) ==
  IF Mode = "plan"
  THEN Succeed(c, t)
  ELSE /\ tenant' = [tenant EXCEPT ![c] = t]
       /\ Goto(c, "token")
       /\ UNCHANGED <<requestVars, attempt, told>>

\* Slip: a tenant that exists is returned as it is, its binding assumed done.
LookupSkipsApply(c) ==
  /\ phase[c] = "looking"
  /\ \/ /\ RowsOf(subject[c]) = {}
        /\ Goto(c, "arbitrating")
        /\ UNCHANGED <<requestVars, attempt, tenant, told>>
     \/ \E row \in RowsOf(subject[c]) : Succeed(c, row.id)
  /\ UNCHANGED <<tenants, account>>

Lookup(c) ==
  /\ phase[c] = "looking"
  /\ \/ /\ RowsOf(subject[c]) = {}
        /\ Goto(c, "arbitrating")
        /\ UNCHANGED <<requestVars, attempt, tenant, told>>
     \/ \E row \in RowsOf(subject[c]) : Bind(c, row.id)
  /\ UNCHANGED <<tenants, account>>

\* INSERT ... ON CONFLICT (created_by_subject) DO NOTHING: Postgres first
\* looks the arbiter index up; a row of the same subject ends the statement.
Arbitrate(c) ==
  /\ phase[c] = "arbitrating"
  /\ Goto(c, IF RowsOf(subject[c]) = {} THEN "indexing" ELSE "rereading")
  /\ UNCHANGED <<requestVars, attempt, tenant, tenants, account, told>>

NextSlug(c) == Slug(base[c], id[c], attempt[c])

\* Slip: a plain INSERT, with no unique index on created_by_subject.
InsertDuplicates(c) ==
  /\ phase[c] = "indexing"
  /\ Owner(NextSlug(c)) = {}
  /\ tenants' = tenants \cup
       {[id |-> id[c], subject |-> subject[c], slug |-> NextSlug(c)]}
  /\ Goto(c, "rereading")
  /\ UNCHANGED <<requestVars, attempt, tenant, account, told>>

\* The other unique indexes raise 23505 (tenant_slug comes before the arbiter
\* index); a row of the same subject that appeared meanwhile is again DO NOTHING.
InsertRow(c) ==
  /\ phase[c] = "indexing"
  /\ Owner(NextSlug(c)) = {}
  /\ IF RowsOf(subject[c]) = {}
     THEN tenants' = tenants \cup
            {[id |-> id[c], subject |-> subject[c], slug |-> NextSlug(c)]}
     ELSE UNCHANGED tenants
  /\ Goto(c, "rereading")
  /\ UNCHANGED <<requestVars, attempt, tenant, account, told>>

\* Slip: ON CONFLICT without a target swallows the slug conflict too.
SlugTakenSwallowed(c) ==
  /\ phase[c] = "indexing"
  /\ Owner(NextSlug(c)) # {}
  /\ Goto(c, "rereading")
  /\ UNCHANGED <<requestVars, attempt, tenant, tenants, account, told>>

\* The slug is taken: retry with a suffix, and give up on the last attempt.
SlugTaken(c) ==
  /\ phase[c] = "indexing"
  /\ Owner(NextSlug(c)) # {}
  /\ IF attempt[c] < Attempts - 1
     THEN /\ attempt' = [attempt EXCEPT ![c] = @ + 1]
          /\ Goto(c, "arbitrating")
          /\ UNCHANGED <<requestVars, tenant>>
     ELSE End(c)
  /\ UNCHANGED <<tenants, account, told>>

\* Slip: the minted id is returned instead of the row that won.
TrustsOwnInsert(c) ==
  /\ phase[c] = "rereading"
  /\ Bind(c, id[c])
  /\ UNCHANGED <<tenants, account>>

\* The re-read; without a row the insert "did not converge".
Reread(c) ==
  /\ phase[c] = "rereading"
  /\ \/ RowsOf(subject[c]) = {} /\ End(c) /\ UNCHANGED told
     \/ \E row \in RowsOf(subject[c]) : Bind(c, row.id)
  /\ UNCHANGED <<tenants, account>>

-----------------------------------------------------------------------------
(* applyTenantAttributes, execute mode                                     *)

AdminToken(c) ==
  /\ phase[c] = "token"
  /\ Goto(c, "getting")
  /\ UNCHANGED <<requestVars, attempt, tenant, tenants, account, told>>

GetUser(c) ==
  /\ phase[c] = "getting"
  /\ Goto(c, "putting")
  /\ UNCHANGED <<requestVars, attempt, tenant, tenants, account, told>>

PutUser(c) ==
  /\ phase[c] = "putting"
  /\ account' = [account EXCEPT ![subject[c]] = tenant[c]]
  /\ Succeed(c, tenant[c])
  /\ UNCHANGED tenants

\* The update was applied but its answer never came.
PutUserUnanswered(c) ==
  /\ phase[c] = "putting"
  /\ account' = [account EXCEPT ![subject[c]] = tenant[c]]
  /\ End(c)
  /\ UNCHANGED <<tenants, told>>

-----------------------------------------------------------------------------
(* Failures and the environment                                            *)

\* Any awaited database or admin call rejects: the route answers 500.
Fails(c) ==
  /\ phase[c] # "idle"
  /\ End(c)
  /\ UNCHANGED <<tenants, account, told>>

\* The process exits with every handler; what the database and Keycloak have,
\* they keep.
ProcessExit ==
  /\ \E c \in Calls : phase[c] # "idle"
  /\ phase' = [c \in Calls |-> "idle"]
  /\ subject' = [c \in Calls |-> Nobody]
  /\ base' = [c \in Calls |-> NoBase]
  /\ id' = [c \in Calls |-> Nobody]
  /\ attempt' = [c \in Calls |-> 0]
  /\ tenant' = [c \in Calls |-> Nobody]
  /\ UNCHANGED <<tenants, account, told>>

Insert(c) == Arbitrate(c) \/ InsertRow(c) \/ SlugTaken(c)
Apply(c) == AdminToken(c) \/ GetUser(c) \/ PutUser(c)
Step(c) == Lookup(c) \/ Insert(c) \/ Reread(c) \/ Apply(c)

Next ==
  \/ \E c \in Calls, s \in Subjects : Submit(c, s)
  \/ \E c \in Calls : Step(c)
  \/ \E c \in Calls : PutUserUnanswered(c)
  \/ \E c \in Calls : Fails(c)
  \/ ProcessExit

Spec == Init /\ [][Next]_vars

\* A caller without a binding retries, and none of the database and admin calls
\* made for it fails every time.
For(s, Action(_)) == \E c \in Calls : subject[c] = s /\ Action(c)

Fairness ==
  \A s \in Retrying :
    /\ SF_vars(account[s] = Nobody /\ \E c \in Calls : Submit(c, s))
    /\ SF_vars(For(s, Lookup)) /\ SF_vars(For(s, Arbitrate))
    /\ SF_vars(For(s, InsertRow) \/ For(s, SlugTaken)) /\ SF_vars(For(s, Reread))
    /\ SF_vars(For(s, AdminToken)) /\ SF_vars(For(s, GetUser)) /\ SF_vars(For(s, PutUser))

FairSpec == Spec /\ Fairness

-----------------------------------------------------------------------------
(* Properties                                                              *)

Phases == {"idle", "looking", "arbitrating", "indexing", "rereading",
           "token", "getting", "putting"}

TypeOK ==
  /\ phase \in [Calls -> Phases]
  /\ subject \in [Calls -> Subjects \cup {Nobody}]
  /\ base \in [Calls -> Bases \cup {NoBase}]
  /\ id \in [Calls -> Ids \cup {Nobody}]
  /\ attempt \in [Calls -> 0..(Attempts - 1)]
  /\ tenant \in [Calls -> Ids \cup {Nobody}]
  /\ \A row \in tenants : row.id \in Ids /\ row.subject \in Subjects
  /\ account \in [Subjects -> Ids \cup {Nobody}]
  /\ told \subseteq [subject: Subjects, tenant: Ids]

\* "Concurrent or repeated calls for the same user always converge on the same
\* tenant row": every successful answer a subject ever gets names the one row
\* the table holds for it, whoever won the race to insert it.
Converges == \A success \in told : TenantsOf(success.subject) = {success.tenant}

\* A subject never has two tenants, and its account is never bound to a tenant
\* other than the one the table records for it, across failures and retries.
BindingsMatchRegistry ==
  \A s \in Subjects :
    /\ Cardinality(RowsOf(s)) <= 1
    /\ account[s] # Nobody => \E row \in RowsOf(s) : row.id = account[s]

\* The insert statement never ends without a row to read back, whoever won:
\* the "did not converge" error is unreachable.
RereadFinds == \A c \in Calls : phase[c] = "rereading" => RowsOf(subject[c]) # {}

\* In execute mode a caller that got a success is bound to the tenant it was
\* told, and stays so: no late update of a concurrent call or of a
\* retry undoes it.
SuccessMeansBound ==
  Mode = "execute" =>
    \A success \in told : account[success.subject] = success.tenant

\* Onboarding implements the promise of TenantRegistry: a subject's tenant, once
\* there, never changes and is nobody else's, and no success is answered but for
\* that tenant, in execute mode together with its binding.
ImplementsRegistry == Registry!RegistrySpec

\* Retries heal every partial failure (a row without its binding, an update
\* without its answer, an exit between the two): a subject ends up bound, unless others come
\* between, whose slugs may cost it attempts.
EveryoneBound ==
  \A s \in Retrying :
    [](\A c \in Calls : subject[c] \in {s, Nobody}) => <>[](account[s] # Nobody)

\* What provisioning keeps of the table, the accounts and the answers given.
RegistrySound == Converges /\ BindingsMatchRegistry /\ RereadFinds /\ SuccessMeansBound
=============================================================================
