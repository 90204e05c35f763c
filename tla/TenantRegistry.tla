--------------------------- MODULE TenantRegistry ---------------------------
(***************************************************************************)
(* What onboarding promises, with no handler, no insert and no retry in    *)
(* sight: a subject is given one tenant, of its own and for good, and is   *)
(* told of it; in execute mode its account is bound to it first.           *)
(***************************************************************************)

CONSTANTS Subjects, Ids, Nobody, Mode

VARIABLES homes,    \* homes[s]: the tenants of s, none or one
          account,  \* account[s]: the tenant its account is bound to
          told      \* the successes answered

registryVars == <<homes, account, told>>

RegistryInit ==
  /\ homes = [s \in Subjects |-> {}]
  /\ account = [s \in Subjects |-> Nobody]
  /\ told = {}

\* A first tenant, which no other subject has.
Found(s) ==
  /\ homes[s] = {}
  /\ \E i \in Ids : /\ \A other \in Subjects : i \notin homes[other]
                    /\ homes' = [homes EXCEPT ![s] = {i}]
  /\ UNCHANGED <<account, told>>

TellOf(s, t) == told' = told \cup {[subject |-> s, tenant |-> t]}

Tell(s) ==
  /\ Mode = "plan"
  /\ \E t \in homes[s] : TellOf(s, t)
  /\ UNCHANGED <<homes, account>>

\* Binding the account; whoever waits for it is told, or its answer is lost.
Attach(s) ==
  /\ Mode = "execute"
  /\ \E t \in homes[s] : /\ account' = [account EXCEPT ![s] = t]
                         /\ TellOf(s, t) \/ UNCHANGED told
  /\ UNCHANGED homes

RegistryNext == \E s \in Subjects : Found(s) \/ Tell(s) \/ Attach(s)

RegistrySpec == RegistryInit /\ [][RegistryNext]_registryVars
=============================================================================
