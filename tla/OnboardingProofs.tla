-------------------------- MODULE OnboardingProofs --------------------------
(***************************************************************************)
(* Onboarding for any number of handlers, subjects and ids, in both apply  *)
(* modes: one tenant per subject, answers and bindings that agree with the *)
(* table, and the refinement of TenantRegistry.                            *)
(***************************************************************************)
EXTENDS Onboarding, FiniteSetTheorems, TLAPS

-----------------------------------------------------------------------------
(* The inductive invariant                                                 *)

\* A handler knows its caller and its minted id for as long as it runs.
LocalsSet ==
  \A c \in Calls :
    IF phase[c] = "idle" THEN subject[c] = Nobody /\ id[c] = Nobody
                         ELSE subject[c] \in Subjects /\ id[c] \in Ids

\* The unique index on created_by_subject.
OneRow == \A a, b \in tenants : a.subject = b.subject => a = b

\* Minted ids are nobody else's until they are inserted, and the tenants of two
\* subjects differ.
FreshIds ==
  /\ \A c, d \in Calls : id[c] \in Ids /\ id[c] = id[d] => c = d
  /\ \A c \in Calls, row \in tenants :
       phase[c] \in {"looking", "arbitrating", "indexing"} => row.id # id[c]
  /\ \A a, b \in tenants : a.id = b.id => a = b

\* Whoever goes on to the account, in execute mode only, holds the tenant the
\* table records.
TenantRecorded ==
  \A c \in Calls : phase[c] \in {"token", "getting", "putting"} =>
                     Mode = "execute" /\ tenant[c] \in TenantsOf(subject[c])

AccountRecorded == \A s \in Subjects : account[s] # Nobody => account[s] \in TenantsOf(s)

ToldRecorded ==
  \A success \in told :
    /\ success.tenant \in TenantsOf(success.subject)
    /\ Mode = "execute" => account[success.subject] # Nobody

IInv ==
  /\ TypeOK
  /\ LocalsSet
  /\ OneRow
  /\ FreshIds
  /\ TenantRecorded
  /\ AccountRecorded
  /\ ToldRecorded
  /\ RereadFinds

-----------------------------------------------------------------------------
(* Facts about the tables                                                  *)

\* The rows of a subject are all one row.
LEMMA RowsSingle ==
  ASSUME OneRow, NEW s, NEW row \in RowsOf(s)
  PROVE  RowsOf(s) = {row} /\ TenantsOf(s) = {row.id}
  BY DEF OneRow, RowsOf, TenantsOf

\* Without an insert the table, and what is read from it, stays.
LEMMA TableKept ==
  ASSUME UNCHANGED tenants
  PROVE  \A s : RowsOf(s)' = RowsOf(s) /\ TenantsOf(s)' = TenantsOf(s)
  BY DEF RowsOf, TenantsOf

\* What an insert does to the rows of each subject.
LEMMA InsertEffect ==
  ASSUME NEW c \in Calls, InsertRow(c), RowsOf(subject[c]) = {}
  PROVE  /\ tenants' = tenants \cup
              {[id |-> id[c], subject |-> subject[c], slug |-> NextSlug(c)]}
         /\ TenantsOf(subject[c])' = {id[c]}
         /\ \A s : s # subject[c] => TenantsOf(s)' = TenantsOf(s)
         /\ RowsOf(subject[c])' # {}
         /\ \A s : s # subject[c] => RowsOf(s)' = RowsOf(s)
<1> DEFINE row == [id |-> id[c], subject |-> subject[c], slug |-> NextSlug(c)]
<1>1. tenants' = tenants \cup {row}
  BY DEF InsertRow
<1>2. row.subject = subject[c] /\ row.id = id[c]
  OBVIOUS
<1> HIDE DEF row
<1>3. RowsOf(subject[c])' = {row}
  BY <1>1, <1>2 DEF RowsOf, InsertRow, requestVars
<1>4. \A s : s # subject[c] => RowsOf(s)' = RowsOf(s)
  BY <1>1, <1>2 DEF RowsOf
<1>5. QED
  BY <1>1, <1>2, <1>3, <1>4 DEF TenantsOf, row, InsertRow, requestVars

-----------------------------------------------------------------------------
(* Every step keeps the invariant                                          *)

LEMMA InitInv == Init => IInv
<1> SUFFICES ASSUME Init PROVE IInv
  OBVIOUS
<1>1. TypeOK
  BY OnboardingValues DEF Init, TypeOK, Phases
<1>2. LocalsSet /\ OneRow /\ FreshIds /\ TenantRecorded /\ AccountRecorded
      /\ ToldRecorded /\ RereadFinds
  BY OnboardingValues
  DEF Init, LocalsSet, OneRow, FreshIds, TenantRecorded, AccountRecorded, ToldRecorded,
      RereadFinds
<1>3. QED
  BY <1>1, <1>2 DEF IInv

\* The end of a handler, with whatever it wrote elsewhere.
LEMMA EndKeepsInv ==
  ASSUME IInv, NEW c \in Calls, End(c), UNCHANGED <<tenants, account, told>>
  PROVE  IInv'
<1>1. TypeOK'
  BY OnboardingValues DEF IInv, TypeOK, End, Goto, Phases
<1>2. LocalsSet'
  BY DEF IInv, TypeOK, LocalsSet, End, Goto
<1>3. OneRow' /\ AccountRecorded' /\ ToldRecorded'
  BY TableKept DEF IInv, OneRow, AccountRecorded, ToldRecorded
<1>4. FreshIds'
  BY OnboardingValues DEF IInv, TypeOK, FreshIds, End, Goto
<1>5. TenantRecorded' /\ RereadFinds'
  BY TableKept DEF IInv, TypeOK, TenantRecorded, RereadFinds, End, Goto
<1>6. QED
  BY <1>1, <1>2, <1>3, <1>4, <1>5 DEF IInv

\* A success, told for a tenant the table records and, in execute mode, bound.
LEMMA SucceedKeepsInv ==
  ASSUME IInv, NEW c \in Calls, phase[c] # "idle", NEW t \in TenantsOf(subject[c]),
         Succeed(c, t), UNCHANGED tenants,
         IF Mode = "execute" THEN account' = [account EXCEPT ![subject[c]] = t]
                             ELSE UNCHANGED account
  PROVE  IInv'
<1>0. t \in Ids /\ subject[c] \in Subjects
  BY DEF IInv, TypeOK, LocalsSet, TenantsOf, RowsOf
<1>1. TypeOK'
  BY <1>0, OnboardingValues DEF IInv, TypeOK, Succeed, End, Goto, Phases
<1>2. LocalsSet'
  BY DEF IInv, TypeOK, LocalsSet, Succeed, End, Goto
<1>3. OneRow' /\ AccountRecorded'
  BY <1>0, TableKept DEF IInv, TypeOK, OneRow, AccountRecorded
<1>4. ToldRecorded'
  BY <1>0, TableKept, OnboardingValues DEF IInv, TypeOK, ToldRecorded, Succeed
<1>5. FreshIds'
  BY OnboardingValues DEF IInv, TypeOK, FreshIds, Succeed, End, Goto
<1>6. TenantRecorded' /\ RereadFinds'
  BY TableKept DEF IInv, TypeOK, TenantRecorded, RereadFinds, Succeed, End, Goto
<1>7. QED
  BY <1>1, <1>2, <1>3, <1>4, <1>5, <1>6 DEF IInv

\* provision going on with the tenant it found in the table.
LEMMA BindKeepsInv ==
  ASSUME IInv, NEW c \in Calls, phase[c] # "idle", NEW row \in RowsOf(subject[c]),
         Bind(c, row.id), UNCHANGED <<tenants, account>>
  PROVE  IInv'
<1>0. row.id \in TenantsOf(subject[c]) /\ row.id \in Ids
  BY DEF TenantsOf, RowsOf, IInv, TypeOK
<1>1. CASE Mode = "plan"
  BY <1>0, <1>1, SucceedKeepsInv DEF Bind
<1>2. CASE Mode # "plan"
  <2> USE <1>2 DEF Bind
  <2>1. TypeOK'
    BY <1>0 DEF IInv, TypeOK, Goto, Phases, requestVars
  <2>2. LocalsSet'
    BY DEF IInv, TypeOK, LocalsSet, Goto, requestVars
  <2>3. OneRow' /\ AccountRecorded' /\ ToldRecorded'
    BY TableKept DEF IInv, OneRow, AccountRecorded, ToldRecorded
  <2>4. FreshIds'
    BY DEF IInv, TypeOK, FreshIds, Goto, requestVars
  <2>5. TenantRecorded' /\ RereadFinds'
    BY <1>0, TableKept, OnboardingValues
    DEF IInv, TypeOK, TenantRecorded, RereadFinds, Goto, requestVars
  <2>6. QED
    BY <2>1, <2>2, <2>3, <2>4, <2>5 DEF IInv
<1>3. QED
  BY <1>1, <1>2

LEMMA SubmitKeepsInv ==
  ASSUME IInv, NEW c \in Calls, NEW s \in Subjects, Submit(c, s)
  PROVE  IInv'
<1> USE DEF Submit
<1>1. TypeOK'
  BY DEF IInv, TypeOK, Goto, Phases
<1>2. LocalsSet'
  BY DEF IInv, TypeOK, LocalsSet, Goto
<1>3. OneRow' /\ AccountRecorded' /\ ToldRecorded'
  BY TableKept DEF IInv, OneRow, AccountRecorded, ToldRecorded
<1>4. FreshIds'
  BY DEF IInv, TypeOK, FreshIds, Goto
<1>5. TenantRecorded' /\ RereadFinds'
  BY TableKept DEF IInv, TypeOK, TenantRecorded, RereadFinds, Goto
<1>6. QED
  BY <1>1, <1>2, <1>3, <1>4, <1>5 DEF IInv

\* A step from one await to the next that writes nothing outside the handler.
LEMMA AdvanceKeepsInv ==
  ASSUME IInv, NEW c \in Calls, phase[c] # "idle", NEW p \in Phases,
         Goto(c, p),
         \/ UNCHANGED attempt
         \/ attempt[c] < Attempts - 1 /\ attempt' = [attempt EXCEPT ![c] = @ + 1],
         UNCHANGED <<requestVars, tenant, tenants, account, told>>,
         \/ p = "arbitrating" /\ phase[c] \in {"looking", "arbitrating", "indexing"}
         \/ p = "indexing" /\ phase[c] = "arbitrating"
         \/ p = "rereading" /\ RowsOf(subject[c]) # {}
         \/ p \in {"getting", "putting"} /\ phase[c] \in {"token", "getting"}
  PROVE  IInv'
<1>1. TypeOK'
  BY OnboardingValues DEF IInv, TypeOK, Goto, Phases, requestVars
<1>2. LocalsSet'
  BY DEF IInv, TypeOK, LocalsSet, Goto, requestVars
<1>3. OneRow' /\ AccountRecorded' /\ ToldRecorded'
  BY TableKept DEF IInv, OneRow, AccountRecorded, ToldRecorded
<1>4. FreshIds'
  BY DEF IInv, TypeOK, FreshIds, Goto, requestVars
<1>5. TenantRecorded' /\ RereadFinds'
  BY TableKept DEF IInv, TypeOK, TenantRecorded, RereadFinds, Goto, requestVars
<1>6. QED
  BY <1>1, <1>2, <1>3, <1>4, <1>5 DEF IInv

LEMMA InsertRowKeepsInv ==
  ASSUME IInv, NEW c \in Calls, InsertRow(c)
  PROVE  IInv'
<1> USE DEF InsertRow, Goto, requestVars
<1>0. subject[c] \in Subjects /\ id[c] \in Ids
  BY DEF IInv, LocalsSet
<1>1. CASE RowsOf(subject[c]) # {}
  BY <1>1, AdvanceKeepsInv DEF Phases
<1>2. CASE RowsOf(subject[c]) = {}
  <2> DEFINE row == [id |-> id[c], subject |-> subject[c], slug |-> NextSlug(c)]
  <2>1. tenants' = tenants \cup {row}
    BY <1>2, InsertEffect
  <2>2. row.subject = subject[c] /\ row.id = id[c]
    OBVIOUS
  <2>3. \A old \in tenants : old.subject # subject[c] /\ old.id # id[c]
    BY <1>2 DEF RowsOf, IInv, FreshIds
  <2> HIDE DEF row
  <2>4. TypeOK'
    BY <1>0, <2>1, <2>2 DEF IInv, TypeOK, Phases
  <2>5. LocalsSet'
    BY DEF IInv, TypeOK, LocalsSet
  <2>6. OneRow'
    BY <2>1, <2>2, <2>3 DEF IInv, OneRow
  <2>7. FreshIds'
    <3>1. \A d, e \in Calls : id'[d] \in Ids /\ id'[d] = id'[e] => d = e
      BY DEF IInv, FreshIds
    <3>2. ASSUME NEW d \in Calls, NEW r \in tenants',
                 phase'[d] \in {"looking", "arbitrating", "indexing"}
          PROVE  r.id # id'[d]
      <4>1. d # c /\ phase[d] = phase'[d]
        BY <3>2 DEF IInv, TypeOK
      <4>2. QED
        BY <3>2, <4>1, <1>0, <2>1, <2>2 DEF IInv, FreshIds
    <3>3. \A a, b \in tenants' : a.id = b.id => a = b
      BY <2>1, <2>2, <2>3 DEF IInv, FreshIds
    <3>4. QED
      BY <3>1, <3>2, <3>3 DEF FreshIds
  <2>8. \A s : TenantsOf(s) \subseteq TenantsOf(s)' /\ (RowsOf(s) # {} => RowsOf(s)' # {})
    BY <2>1 DEF TenantsOf, RowsOf
  <2>9. TenantRecorded' /\ AccountRecorded' /\ ToldRecorded'
    BY <2>8 DEF IInv, TypeOK, TenantRecorded, AccountRecorded, ToldRecorded
  <2>10. RereadFinds'
    BY <1>2, <2>8, InsertEffect DEF IInv, TypeOK, RereadFinds
  <2>11. QED
    BY <2>4, <2>5, <2>6, <2>7, <2>9, <2>10 DEF IInv
<1>3. QED
  BY <1>1, <1>2

\* The account is bound to the tenant of the table, whether or not the answer
\* of the update comes.
LEMMA PutKeepsInv ==
  ASSUME IInv, NEW c \in Calls, PutUser(c) \/ PutUserUnanswered(c)
  PROVE  IInv'
<1>0. /\ phase[c] = "putting" /\ tenant[c] \in TenantsOf(subject[c])
      /\ subject[c] \in Subjects /\ tenant[c] \in Ids /\ Mode = "execute"
  BY DEF PutUser, PutUserUnanswered, IInv, TenantRecorded, LocalsSet, TypeOK, TenantsOf, RowsOf
<1>1. CASE PutUser(c)
  BY <1>0, <1>1, SucceedKeepsInv DEF PutUser
<1>2. CASE PutUserUnanswered(c)
  <2> USE <1>2 DEF PutUserUnanswered, End, Goto
  <2>1. TypeOK'
    BY <1>0, OnboardingValues DEF IInv, TypeOK, Phases
  <2>2. LocalsSet'
    BY DEF IInv, TypeOK, LocalsSet
  <2>3. OneRow' /\ AccountRecorded'
    BY <1>0, TableKept DEF IInv, TypeOK, OneRow, AccountRecorded
  <2>4. ToldRecorded'
    BY <1>0, TableKept, OnboardingValues DEF IInv, TypeOK, ToldRecorded
  <2>5. FreshIds'
    BY OnboardingValues DEF IInv, TypeOK, FreshIds
  <2>6. TenantRecorded' /\ RereadFinds'
    BY TableKept DEF IInv, TypeOK, TenantRecorded, RereadFinds
  <2>7. QED
    BY <2>1, <2>2, <2>3, <2>4, <2>5, <2>6 DEF IInv
<1>3. QED
  BY <1>1, <1>2

LEMMA ExitKeepsInv ==
  ASSUME IInv, ProcessExit
  PROVE  IInv'
<1> USE DEF ProcessExit
<1>1. TypeOK' /\ LocalsSet'
  BY OnboardingValues DEF IInv, TypeOK, LocalsSet, Phases
<1>2. OneRow' /\ AccountRecorded' /\ ToldRecorded'
  BY TableKept DEF IInv, OneRow, AccountRecorded, ToldRecorded
<1>3. FreshIds' /\ TenantRecorded' /\ RereadFinds'
  BY OnboardingValues DEF IInv, FreshIds, TenantRecorded, RereadFinds
<1>4. QED
  BY <1>1, <1>2, <1>3 DEF IInv

LEMMA StepKeepsInv ==
  ASSUME IInv, NEW c \in Calls, Step(c)
  PROVE  IInv'
<1>1. CASE Lookup(c)
  <2>1. CASE RowsOf(subject[c]) = {} /\ Goto(c, "arbitrating")
             /\ UNCHANGED <<requestVars, attempt, tenant, told>>
    BY <1>1, <2>1, AdvanceKeepsInv DEF Lookup, Phases
  <2>2. ASSUME NEW row \in RowsOf(subject[c]), Bind(c, row.id) PROVE IInv'
    BY <1>1, <2>2, BindKeepsInv DEF Lookup
  <2>3. QED
    BY <1>1, <2>1, <2>2 DEF Lookup
<1>2. CASE Arbitrate(c)
  BY <1>2, AdvanceKeepsInv DEF Arbitrate, Phases
<1>3. CASE InsertRow(c)
  BY <1>3, InsertRowKeepsInv
<1>4. CASE SlugTaken(c)
  BY <1>4, AdvanceKeepsInv, EndKeepsInv DEF SlugTaken, Phases
<1>5. CASE Reread(c)
  \* The read-back finds the row, so the handler never ends without it.
  <2>1. PICK row \in RowsOf(subject[c]) : Bind(c, row.id)
    BY <1>5 DEF Reread, IInv, RereadFinds
  <2>2. QED
    BY <1>5, <2>1, BindKeepsInv DEF Reread
<1>6. CASE AdminToken(c) \/ GetUser(c)
  BY <1>6, AdvanceKeepsInv DEF AdminToken, GetUser, Phases
<1>7. CASE PutUser(c)
  BY <1>7, PutKeepsInv
<1>8. QED
  BY <1>1, <1>2, <1>3, <1>4, <1>5, <1>6, <1>7 DEF Step, Insert, Apply

LEMMA InvInductive == IInv /\ [Next]_vars => IInv'
<1> SUFFICES ASSUME IInv, [Next]_vars PROVE IInv'
  OBVIOUS
<1>1. ASSUME NEW c \in Calls, NEW s \in Subjects, Submit(c, s) PROVE IInv'
  BY <1>1, SubmitKeepsInv
<1>2. ASSUME NEW c \in Calls, Step(c) PROVE IInv'
  BY <1>2, StepKeepsInv
<1>3. ASSUME NEW c \in Calls, PutUserUnanswered(c) PROVE IInv'
  BY <1>3, PutKeepsInv
<1>4. ASSUME NEW c \in Calls, Fails(c) PROVE IInv'
  BY <1>4, EndKeepsInv DEF Fails
<1>5. CASE ProcessExit
  BY <1>5, ExitKeepsInv
<1>6. CASE UNCHANGED vars
  BY <1>6, TableKept
  DEF vars, IInv, TypeOK, LocalsSet, OneRow, FreshIds, TenantRecorded, AccountRecorded,
      ToldRecorded, RereadFinds, requestVars
<1>7. QED
  BY <1>1, <1>2, <1>3, <1>4, <1>5, <1>6 DEF Next

LEMMA Invariance == Spec => []IInv
  BY InitInv, InvInductive, PTL DEF Spec

-----------------------------------------------------------------------------
(* What follows from it                                                    *)

\* Onboarding's state is always well typed; the slug loop stays within its
\* attempts.
THEOREM TypeCorrect == Spec => []TypeOK
<1>1. IInv => TypeOK
  BY DEF IInv
<1>2. QED
  BY <1>1, Invariance, PTL

\* Concurrent or repeated calls of a subject converge on one tenant row.
THEOREM CallsConverge == Spec => []Converges
<1>1. IInv => Converges
  <2> SUFFICES ASSUME IInv, NEW success \in told
               PROVE  TenantsOf(success.subject) = {success.tenant}
    BY DEF Converges
  <2>1. PICK row \in RowsOf(success.subject) : row.id = success.tenant
    BY DEF IInv, ToldRecorded, TenantsOf
  <2>2. QED
    BY <2>1, RowsSingle DEF IInv
<1>2. QED
  BY <1>1, Invariance, PTL

\* A subject has one tenant at most, and its account is bound to no other.
THEOREM OneTenantEach == Spec => []BindingsMatchRegistry
<1>1. IInv => BindingsMatchRegistry
  <2> SUFFICES ASSUME IInv, NEW s \in Subjects
               PROVE  /\ Cardinality(RowsOf(s)) <= 1
                      /\ account[s] # Nobody => \E row \in RowsOf(s) : row.id = account[s]
    BY DEF BindingsMatchRegistry
  <2>1. CASE RowsOf(s) = {}
    BY <2>1, FS_EmptySet DEF IInv, AccountRecorded, TenantsOf
  <2>2. ASSUME NEW row \in RowsOf(s) PROVE Cardinality(RowsOf(s)) <= 1
    <3>1. RowsOf(s) = {row}
      BY RowsSingle DEF IInv
    <3>2. Cardinality({row}) = 1
      BY FS_Singleton
    <3>3. QED
      BY <3>1, <3>2
  <2>3. account[s] # Nobody => \E row \in RowsOf(s) : row.id = account[s]
    BY DEF IInv, AccountRecorded, TenantsOf
  <2>4. QED
    BY <2>1, <2>2, <2>3
<1>2. QED
  BY <1>1, Invariance, PTL

\* The re-read after an insert always finds a row.
THEOREM InsertConverges == Spec => []RereadFinds
<1>1. IInv => RereadFinds
  BY DEF IInv
<1>2. QED
  BY <1>1, Invariance, PTL

\* In execute mode whoever was told of a tenant is bound to it, for good.
THEOREM ToldIsBound == Spec => []SuccessMeansBound
<1>1. IInv => SuccessMeansBound
  <2> SUFFICES ASSUME IInv, Mode = "execute", NEW success \in told
               PROVE  account[success.subject] = success.tenant
    BY DEF SuccessMeansBound
  <2>1. success.tenant \in TenantsOf(success.subject)
        /\ account[success.subject] \in TenantsOf(success.subject)
    BY DEF IInv, TypeOK, ToldRecorded, AccountRecorded
  <2>2. PICK row \in RowsOf(success.subject) : row.id = success.tenant
    BY <2>1 DEF TenantsOf
  <2>3. QED
    BY <2>1, <2>2, RowsSingle DEF IInv
<1>2. QED
  BY <1>1, Invariance, PTL

-----------------------------------------------------------------------------
(* Refinement of TenantRegistry                                            *)

Homes == [s \in Subjects |-> TenantsOf(s)]

\* A step that leaves the table, the accounts and the answers alone.
LEMMA QuietStutters ==
  ASSUME UNCHANGED <<tenants, account, told>>
  PROVE  UNCHANGED Registry!registryVars
  BY TableKept DEF Registry!registryVars

\* The insert of a first row founds the subject's tenant.
LEMMA InsertMapped ==
  ASSUME IInv, NEW c \in Calls, InsertRow(c)
  PROVE  Registry!RegistryNext \/ UNCHANGED Registry!registryVars
<1>1. CASE RowsOf(subject[c]) # {}
  BY <1>1, QuietStutters DEF InsertRow
<1>2. CASE RowsOf(subject[c]) = {}
  <2>1. subject[c] \in Subjects /\ id[c] \in Ids
    BY DEF InsertRow, IInv, LocalsSet
  <2>2. Homes[subject[c]] = {} /\ \A other \in Subjects : id[c] \notin Homes[other]
    BY <1>2, <2>1 DEF Homes, TenantsOf, RowsOf, InsertRow, IInv, FreshIds
  <2>3. Homes' = [Homes EXCEPT ![subject[c]] = {id[c]}]
    <3>1. \A s \in Subjects : TenantsOf(s)' = IF s = subject[c] THEN {id[c]} ELSE TenantsOf(s)
      BY <1>2, InsertEffect DEF InsertRow, requestVars
    <3>2. QED
      BY <2>1, <3>1 DEF Homes
  <2>4. Registry!Found(subject[c])
    BY <2>1, <2>2, <2>3 DEF Homes, Registry!Found, InsertRow
  <2>5. QED
    BY <2>1, <2>4 DEF Registry!RegistryNext
<1>3. QED
  BY <1>1, <1>2

\* Going on with a tenant of the table: told at once in plan mode, quiet otherwise.
LEMMA BindMapped ==
  ASSUME IInv, NEW c \in Calls, phase[c] # "idle", NEW row \in RowsOf(subject[c]),
         Bind(c, row.id), UNCHANGED <<tenants, account>>
  PROVE  Registry!RegistryNext \/ UNCHANGED Registry!registryVars
<1>1. subject[c] \in Subjects /\ row.id \in Homes[subject[c]] /\ Homes' = Homes
  BY TableKept DEF Homes, TenantsOf, IInv, LocalsSet
<1>2. CASE Mode = "plan"
  <2>1. told' = told \cup {[subject |-> subject[c], tenant |-> row.id]}
    BY <1>2 DEF Bind, Succeed
  <2>2. Registry!Tell(subject[c])
    BY <1>1, <1>2, <2>1 DEF Homes, Registry!Tell, Registry!TellOf
  <2>3. QED
    BY <1>1, <2>2 DEF Registry!RegistryNext
<1>3. CASE Mode # "plan"
  BY <1>3, QuietStutters DEF Bind
<1>4. QED
  BY <1>2, <1>3

LEMMA PutMapped ==
  ASSUME IInv, NEW c \in Calls, PutUser(c) \/ PutUserUnanswered(c)
  PROVE  Registry!RegistryNext
<1>1. /\ Mode = "execute" /\ subject[c] \in Subjects
      /\ tenant[c] \in Homes[subject[c]] /\ Homes' = Homes
  BY TableKept
  DEF PutUser, PutUserUnanswered, IInv, TenantRecorded, LocalsSet, Homes
<1>2. /\ account' = [account EXCEPT ![subject[c]] = tenant[c]]
      /\ \/ told' = told \cup {[subject |-> subject[c], tenant |-> tenant[c]]}
         \/ told' = told
  BY DEF PutUser, PutUserUnanswered, Succeed
<1>3. Registry!Attach(subject[c])
  BY <1>1, <1>2 DEF Homes, Registry!Attach, Registry!TellOf
<1>4. QED
  BY <1>1, <1>3 DEF Registry!RegistryNext

LEMMA StepMapped == IInv /\ [Next]_vars => [Registry!RegistryNext]_(Registry!registryVars)
<1> SUFFICES ASSUME IInv, [Next]_vars
             PROVE  Registry!RegistryNext \/ UNCHANGED Registry!registryVars
  OBVIOUS
<1>1. ASSUME NEW c \in Calls, Lookup(c) \/ Reread(c)
      PROVE  Registry!RegistryNext \/ UNCHANGED Registry!registryVars
  <2>1. ASSUME NEW row \in RowsOf(subject[c]), Bind(c, row.id)
        PROVE  Registry!RegistryNext \/ UNCHANGED Registry!registryVars
    BY <1>1, <2>1, BindMapped DEF Lookup, Reread
  <2>2. QED
    BY <1>1, <2>1, QuietStutters DEF Lookup, Reread
<1>2. ASSUME NEW c \in Calls, InsertRow(c)
      PROVE  Registry!RegistryNext \/ UNCHANGED Registry!registryVars
  BY <1>2, InsertMapped
<1>3. ASSUME NEW c \in Calls, PutUser(c) \/ PutUserUnanswered(c)
      PROVE  Registry!RegistryNext
  BY <1>3, PutMapped
<1>4. ASSUME NEW c \in Calls,
             \/ Arbitrate(c) \/ SlugTaken(c) \/ AdminToken(c) \/ GetUser(c) \/ Fails(c)
             \/ \E s \in Subjects : Submit(c, s)
      PROVE  UNCHANGED Registry!registryVars
  BY <1>4, QuietStutters DEF Arbitrate, SlugTaken, AdminToken, GetUser, Fails, Submit
<1>5. CASE ProcessExit \/ UNCHANGED vars
  BY <1>5, QuietStutters DEF ProcessExit, vars
<1>6. QED
  BY <1>1, <1>2, <1>3, <1>4, <1>5 DEF Next, Step, Insert, Apply

\* Onboarding implements the promise of TenantRegistry.
THEOREM Refinement == Spec => ImplementsRegistry
<1>1. Init => Registry!RegistryInit
  BY DEF Init, Registry!RegistryInit, TenantsOf, RowsOf
<1>2. QED
  BY <1>1, Invariance, StepMapped, PTL DEF Spec, ImplementsRegistry, Registry!RegistrySpec

\* The four together, as the run checks them.
THEOREM RegistryIsSound == Spec => []RegistrySound
BY CallsConverge, OneTenantEach, InsertConverges, ToldIsBound, PTL DEF RegistrySound
=============================================================================
