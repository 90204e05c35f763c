---------------------------- MODULE TenantReads ----------------------------
(***************************************************************************)
(* What the read side of the bridge promises, with no pool, no connection  *)
(* and no session variable in sight: a request is accepted in one tenant   *)
(* (or in none), and whatever rows it is answered with are rows that       *)
(* tenant may see.  A request may also be refused, fail, or be lost with   *)
(* the process.                                                            *)
(***************************************************************************)

CONSTANTS Requests,
          Tenants,
          NoTenant,
          Tables,
          TenantTables   \* the tables the row-level-security migration lists

Row == [table: Tables, tenant: Tenants]

\* The rows of a listed table a session sees through the policy: those of its
\* tenant, and none when it names no tenant.
Visible(t, table) == {row \in Row : row.table = table /\ row.tenant = t}

\* Only the listed tables are granted to the reader's role.
Allowed(t) == {row \in Row : row.table \in TenantTables /\ row.tenant = t}

VARIABLES status, \* status[r]: "new", "pending" or "done"
          scope,  \* scope[r]: the tenant the request was accepted in
          answer  \* answer[r]: what the caller got

Unanswered == [kind |-> "none", rows |-> {}]

Answer == [kind: {"none", "rows", "refused", "error", "lost"}, rows: SUBSET Row]

readVars == <<status, scope, answer>>

ReadInit ==
  /\ status = [r \in Requests |-> "new"]
  /\ scope = [r \in Requests |-> NoTenant]
  /\ answer = [r \in Requests |-> Unanswered]

Accept(r) ==
  /\ status[r] = "new"
  /\ status' = [status EXCEPT ![r] = "pending"]
  /\ \E t \in Tenants \cup {NoTenant} : scope' = [scope EXCEPT ![r] = t]
  /\ UNCHANGED answer

TurnAway(r) ==
  /\ status[r] = "new"
  /\ status' = [status EXCEPT ![r] = "done"]
  /\ answer' = [answer EXCEPT ![r] = [kind |-> "refused", rows |-> {}]]
  /\ UNCHANGED scope

\* Rows of the caller's tenant, possibly fewer than there are, and an error
\* carries none.
Reply(r) ==
  /\ status[r] = "pending"
  /\ status' = [status EXCEPT ![r] = "done"]
  /\ \E rows \in SUBSET Allowed(scope[r]) :
       \E a \in {[kind |-> "rows", rows |-> rows], [kind |-> "error", rows |-> {}]} :
         answer' = [answer EXCEPT ![r] = a]
  /\ UNCHANGED scope

\* The process goes away and takes every accepted request with it.
Lose ==
  /\ status' = [r \in Requests |-> IF status[r] = "pending" THEN "done" ELSE status[r]]
  /\ answer' = [r \in Requests |->
                  IF status[r] = "pending" THEN [kind |-> "lost", rows |-> {}]
                                           ELSE answer[r]]
  /\ UNCHANGED scope

ReadNext == Lose \/ \E r \in Requests : Accept(r) \/ TurnAway(r) \/ Reply(r)

ReadSpec == ReadInit /\ [][ReadNext]_readVars
=============================================================================
