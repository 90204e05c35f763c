-------------------------- MODULE ProjectionReads --------------------------
(***************************************************************************)
(* The browser's projection reads: every widget's query reads its topic    *)
(* through the snapshot source of the moment, which the DATA SOURCE        *)
(* control can switch at any time.  Reads of a live backend first ask for  *)
(* its catalogue, which is fetched once per page, to learn whether the     *)
(* exposure is tenant-scoped and as which tenant to read it.               *)
(*                                                                         *)
(* A widget leaves the page with its page, and its query stays behind in    *)
(* react-query's cache: its fetch runs on, and a switch of the source does  *)
(* not read it again until the widget is back.                             *)
(*                                                                         *)
(* What a query shows is abstracted to the source its rows came from.      *)
(***************************************************************************)
EXTENDS Integers

CONSTANTS Queries,
          Scoped,            \* the queries whose exposure is tenant-scoped
          Live,              \* the live backends
          Files,             \* the file-mode sources, which have no catalogue
          NoSource,
          ServerTenant,      \* ServerTenant[b]: the tenant b declares, or NoTenant
          ConfiguredTenant,  \* PROJECTION_TENANT_ID_DEFAULT, or NoTenant
          NoTenant,
          Polling,           \* whether auto-refresh is on
          MaxFlips,          \* bound on the switches of the source
          MaxLeaves,         \* bound on the widgets that leave the page
          MaxFaults          \* bound on the answers the network spoils

Sources == Live \cup Files

ASSUME ProjectionReadsValues ==
  /\ Scoped \subseteq Queries /\ NoSource \notin Sources
  /\ Polling \in BOOLEAN /\ MaxFlips \in Nat /\ MaxLeaves \in Nat /\ MaxFaults \in Nat

VARIABLES source,   \* the effective source
          memo,     \* exposureCache
          fetch,    \* fetch[q]: the query's fetch
          view,     \* view[q]: the rows and the error the query shows
          flips, leaves, faults

vars == <<source, memo, fetch, view, flips, leaves, faults>>

\* The tenant decision of a read, beside a tenant.
Unscoped == "unscoped"
Refused == "refused"

NoMemo == [state |-> "none", of |-> NoSource]
\* A fetch: left is that it is not to be repeated, its widget having left the
\* page; missed records that a switch of the source found it so.
Idle == [phase |-> "idle", from |-> NoSource, of |-> NoSource, tenant |-> Unscoped, tries |-> 0,
         left |-> FALSE, missed |-> FALSE]

\* A query: failed is an error beside its rows, stale that its next mount reads.
NothingYet == [mounted |-> FALSE, data |-> NoSource, failed |-> FALSE, stale |-> TRUE]

Init ==
  /\ source \in Sources
  /\ memo = NoMemo
  /\ fetch = [q \in Queries |-> Idle]
  /\ view = [q \in Queries |-> NothingYet]
  /\ flips = 0 /\ leaves = 0 /\ faults = 0

-----------------------------------------------------------------------------
(* One read                                                                *)

\* resolveTenantFor, with the catalogue of backend b, or NoSource when it could
\* not be read.
TenantFor(q, b) ==
  IF q \notin Scoped \/ b = NoSource THEN Unscoped
  ELSE IF ConfiguredTenant # NoTenant THEN ConfiguredTenant
  ELSE IF ServerTenant[b] # NoTenant THEN ServerTenant[b]
  ELSE Refused

\* The backend's own rule: a scoped exposure needs a tenant it serves, an
\* unscoped one refuses any.
Accepts(b, q, t) ==
  IF q \in Scoped THEN t # Unscoped /\ ServerTenant[b] \in {NoTenant, t}
  ELSE t = Unscoped

\* The query function starts against source s on its given try: fixtures are read
\* at once, a live backend once the catalogue has been asked.
Begin(q, s, tries) ==
  IF s \in Files THEN [Idle EXCEPT !.phase = "body", !.from = s, !.tries = tries]
  ELSE IF memo.state = "ready"
  THEN IF TenantFor(q, memo.of) = Refused
       THEN [Idle EXCEPT !.phase = "refused", !.from = s, !.tries = tries]
       ELSE [Idle EXCEPT !.phase = "headers", !.from = s, !.of = memo.of,
                         !.tenant = TenantFor(q, memo.of), !.tries = tries]
  ELSE [Idle EXCEPT !.phase = "catalogue", !.from = s, !.tries = tries]

\* The catalogue fetch the queries qs make necessary.
MemoFor(qs, s) ==
  IF qs # {} /\ s \in Live /\ memo.state = "none" THEN [state |-> "pending", of |-> s] ELSE memo

\* A query that is not being read starts; a read under way is joined, and may be
\* repeated again.
Read(q) ==
  IF fetch[q].phase = "idle"
  THEN /\ fetch' = [fetch EXCEPT ![q] = Begin(q, source, 0)]
       /\ memo' = MemoFor({q}, source)
  ELSE /\ fetch' = [fetch EXCEPT ![q].left = FALSE]
       /\ UNCHANGED memo

\* A widget comes onto the page.  It reads unless its rows are fresh: not
\* invalidated and younger than 30 s.
Mount(q) ==
  /\ ~view[q].mounted
  /\ view' = [view EXCEPT ![q].mounted = TRUE]
  /\ \/ Read(q)
     \/ ~view[q].stale /\ UNCHANGED <<fetch, memo>>
  /\ UNCHANGED <<source, flips, leaves, faults>>

\* Its page is left.  The query functions never use react-query's abort signal, so
\* a read under way goes on.
Unmount(q) ==
  /\ view[q].mounted
  /\ leaves < MaxLeaves
  /\ leaves' = leaves + 1
  /\ view' = [view EXCEPT ![q].mounted = FALSE]
  /\ fetch' = [fetch EXCEPT ![q].left = (fetch[q].phase # "idle")]
  /\ UNCHANGED <<source, memo, flips, faults>>

\* A query without a widget is forgotten after 5 minutes.
Collect(q) ==
  /\ ~view[q].mounted
  /\ fetch[q].phase = "idle"
  /\ view' = [view EXCEPT ![q] = NothingYet]
  /\ UNCHANGED <<source, memo, fetch, flips, leaves, faults>>

\* The refetch interval.
Poll(q) ==
  /\ Polling
  /\ view[q].mounted
  /\ Read(q)
  /\ UNCHANGED <<source, view, flips, leaves, faults>>

\* The fetch ends in an error, which is shown beside the rows there are.
GiveUp(q) ==
  /\ fetch' = [fetch EXCEPT ![q] = Idle]
  /\ view' = [view EXCEPT ![q].failed = (view[q].data # NoSource)]

\* A failed try is repeated once after a delay.
Fail(q) ==
  IF fetch[q].tries = 0 /\ ~fetch[q].left
  THEN /\ fetch' = [fetch EXCEPT ![q] = [Idle EXCEPT !.phase = "delay", !.tries = 1]]
       /\ UNCHANGED view
  ELSE GiveUp(q)

\* The second try runs the query function of the current render; the widget gone,
\* there is none.
Retry(q) ==
  /\ fetch[q].phase = "delay"
  /\ IF fetch[q].left
     THEN GiveUp(q) /\ UNCHANGED memo
     ELSE /\ fetch' = [fetch EXCEPT ![q] = Begin(q, source, fetch[q].tries)]
          /\ memo' = MemoFor({q}, source)
          /\ UNCHANGED view
  /\ UNCHANGED <<source, flips, leaves, faults>>

\* No tenant to read a scoped exposure as: an error, and no request.
TenantRefused(q) ==
  /\ fetch[q].phase = "refused"
  /\ Fail(q)
  /\ UNCHANGED <<source, memo, flips, leaves, faults>>

HeadersArrive(q) ==
  /\ fetch[q].phase = "headers"
  /\ IF Accepts(fetch[q].from, q, fetch[q].tenant)
     THEN fetch' = [fetch EXCEPT ![q].phase = "body"] /\ UNCHANGED view
     ELSE Fail(q)
  /\ UNCHANGED <<source, memo, flips, leaves, faults>>

\* fetchWithTimeout: 20 s without headers, or the network fails.
HeadersTimeout(q) ==
  /\ fetch[q].phase = "headers"
  /\ faults < MaxFaults
  /\ faults' = faults + 1
  /\ Fail(q)
  /\ UNCHANGED <<source, memo, flips, leaves>>

BodyArrives(q) ==
  /\ fetch[q].phase = "body"
  /\ fetch' = [fetch EXCEPT ![q] = Idle]
  /\ view' = [view EXCEPT ![q].data = fetch[q].from, ![q].failed = FALSE,
                        ![q].stale = FALSE]
  /\ UNCHANGED <<source, memo, flips, leaves, faults>>

BodyFails(q) ==
  /\ fetch[q].phase = "body"
  /\ faults < MaxFaults
  /\ faults' = faults + 1
  /\ Fail(q)
  /\ UNCHANGED <<source, memo, flips, leaves>>

-----------------------------------------------------------------------------
(* The catalogue                                                           *)

\* Every read that waits for it goes on in the same turn.
Waiting(q) == fetch[q].phase = "catalogue"

CatalogueArrives ==
  /\ memo.state = "pending"
  /\ memo' = [memo EXCEPT !.state = "ready"]
  /\ fetch' = [q \in Queries |->
                 IF ~Waiting(q) THEN fetch[q]
                 ELSE IF TenantFor(q, memo.of) = Refused
                 THEN [fetch[q] EXCEPT !.phase = "refused"]
                 ELSE [fetch[q] EXCEPT !.phase = "headers", !.of = memo.of,
                                       !.tenant = TenantFor(q, memo.of)]]
  /\ UNCHANGED <<source, view, flips, leaves, faults>>

\* Mutant: the failure is remembered as the catalogue.
CatalogueFailureKept ==
  /\ memo.state = "pending"
  /\ faults < MaxFaults
  /\ faults' = faults + 1
  /\ memo' = [state |-> "ready", of |-> NoSource]
  /\ fetch' = [q \in Queries |->
                 IF Waiting(q) THEN [fetch[q] EXCEPT !.phase = "headers"] ELSE fetch[q]]
  /\ UNCHANGED <<source, view, flips, leaves>>

\* Mutant: the reads that waited are not told.
CatalogueFailsSilently ==
  /\ memo.state = "pending"
  /\ faults < MaxFaults
  /\ faults' = faults + 1
  /\ memo' = NoMemo
  /\ UNCHANGED <<source, fetch, view, flips, leaves>>

\* A failure is not remembered; the reads that waited are sent unscoped.
CatalogueFails ==
  /\ memo.state = "pending"
  /\ faults < MaxFaults
  /\ faults' = faults + 1
  /\ memo' = NoMemo
  /\ fetch' = [q \in Queries |->
                 IF Waiting(q)
                 THEN [fetch[q] EXCEPT !.phase = "headers", !.tenant = TenantFor(q, NoSource)]
                 ELSE fetch[q]]
  /\ UNCHANGED <<source, view, flips, leaves>>

-----------------------------------------------------------------------------
(* Invalidation                                                            *)

\* react-query reads the queries on the page again: a fetch of a query that has
\* rows is cancelled and started anew, the first load of a query is joined.
Restarts(q) == view[q].mounted /\ (fetch[q].phase = "idle" \/ view[q].data # NoSource)

\* Mutant: the provider makes the source anew and leaves the queries alone.
InvalidateNothing(s) == UNCHANGED <<fetch, memo, view>>

\* invalidateQueries, with s the source of the current render.  A query whose widget
\* is off the page is marked stale, and a read of it under way goes on.
InvalidateAll(s) ==
  LET qs == {q \in Queries : Restarts(q)}
  IN  /\ fetch' = [q \in Queries |->
                     IF q \in qs THEN Begin(q, s, 0)
                     ELSE IF view[q].mounted THEN [fetch[q] EXCEPT !.left = FALSE]
                     ELSE IF fetch[q].phase = "idle" THEN fetch[q]
                     ELSE [fetch[q] EXCEPT !.missed = TRUE]]
      /\ memo' = MemoFor(qs, s)
      /\ view' = [q \in Queries |-> [view[q] EXCEPT !.stale = TRUE]]

\* The DATA SOURCE control: the provider makes a source anew and invalidates.
Flip(s) ==
  /\ flips < MaxFlips
  /\ flips' = flips + 1
  /\ s # source
  /\ source' = s
  /\ InvalidateAll(s)
  /\ UNCHANGED <<leaves, faults>>

\* The refresh button.
Refresh ==
  /\ flips < MaxFlips
  /\ flips' = flips + 1
  /\ InvalidateAll(source)
  /\ UNCHANGED <<source, leaves, faults>>

Next ==
  \/ \E q \in Queries :
       \/ Mount(q) \/ Unmount(q) \/ Collect(q) \/ Poll(q) \/ Retry(q) \/ TenantRefused(q)
       \/ HeadersArrive(q) \/ HeadersTimeout(q) \/ BodyArrives(q) \/ BodyFails(q)
  \/ CatalogueArrives \/ CatalogueFails
  \/ \E s \in Sources : Flip(s)
  \/ Refresh

Spec == Init /\ [][Next]_vars

\* The browser's own steps: intervals, retry delays, refusals.
Timers(q) == Poll(q) \/ Retry(q) \/ TenantRefused(q)

\* The network answers in the end.
FairSpec ==
  /\ Spec
  /\ \A q \in Queries : WF_vars(Timers(q)) /\ WF_vars(HeadersArrive(q)) /\ WF_vars(BodyArrives(q))
  /\ WF_vars(CatalogueArrives)

-----------------------------------------------------------------------------
(* Properties                                                              *)

Decisions == {Unscoped, NoTenant, ConfiguredTenant} \cup {ServerTenant[b] : b \in Live}

\* Every variable has its type, and a read that waits for the catalogue has a
\* catalogue to wait for.
TypeOK ==
  /\ source \in Sources
  /\ memo \in {NoMemo} \cup [state : {"pending", "ready"}, of : Live]
  /\ fetch \in [Queries -> [phase : {"idle", "catalogue", "refused", "headers", "body", "delay"},
                            from : Sources \cup {NoSource}, of : Live \cup {NoSource},
                            tenant : Decisions, tries : 0..1, left : BOOLEAN, missed : BOOLEAN]]
  /\ view \in [Queries -> [mounted : BOOLEAN, data : Sources \cup {NoSource}, failed : BOOLEAN,
                           stale : BOOLEAN]]
  /\ \A q \in Queries : Waiting(q) => memo.state = "pending"

\* Rows are only ever replaced by rows of the source chosen now (the provider's
\* invalidation, SnapshotSourceProvider.tsx:58): a read of the source left behind
\* lands on a query that has rows only if it was under way while the widget was off
\* the page at a switch.
ReplacedByCurrent ==
  [][\A q \in Queries :
       view[q].data # NoSource /\ view'[q].data \notin {view[q].data, NoSource}
         => view'[q].data = source \/ fetch[q].missed]_vars

\* What query q may show instead of the chosen source's rows: an error, because the
\* catalogue remembered names a tenant the chosen backend does not serve, or none.
TenantExcuse(q) ==
  /\ source \in Live /\ memo.state = "ready" /\ memo.of \in Live
  /\ TenantFor(q, memo.of) = Refused \/ ~Accepts(source, q, TenantFor(q, memo.of))
  /\ view[q].data = NoSource \/ view[q].failed

\* With auto-refresh, every query on the page ends up showing the chosen source after
\* the last switch and the last change of page, whatever was in flight and whichever
\* answers failed on the way (useProjectionQuery, queryClient).  The one excuse is a
\* scoped exposure and a tenant that does not fit.
EventuallyCurrent ==
  <>[](\A q \in Queries : view[q].mounted => view[q].data = source \/ TenantExcuse(q))

\* What projection-tenant.ts:111 says of the memo, that it is dropped on a flip: a
\* query ends up showing the chosen source if the catalogue of the chosen backend
\* names a tenant for it.
EventuallyOfChosenTenant ==
  <>[](\A q \in Queries :
         view[q].mounted /\ (source \in Live => TenantFor(q, source) # Refused)
           => view[q].data = source)
=============================================================================
