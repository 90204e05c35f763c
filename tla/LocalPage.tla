----------------------------- MODULE LocalPage -----------------------------
(***************************************************************************)
(* The Workflow page of the local dashboard: overlapping loads of one      *)
(* page, started by the refresh interval, the refresh button or a change   *)
(* of the run in the address.  A load reads the catalogue, then the        *)
(* decisions exposure (whose pages it walks) and the steps of one run.     *)
(* Reads have a 5 s deadline after which the same request may still answer *)
(* late, and loads that overlap share the requests in flight.              *)
(*                                                                         *)
(* Rows are abstracted to what tells them apart: a decisions answer is the *)
(* newest run in it, a trace answer is the run its steps belong to.  The   *)
(* two per-run exposures are treated alike, so one of them is modelled,    *)
(* and the ways a read fails are one.                                      *)
(***************************************************************************)
EXTENDS Integers, FiniteSetsExt

CONSTANTS MaxRun,      \* runs are numbered in the order they are written
          MaxLoads,    \* bound on the loads started
          MaxPages,    \* DECISIONS_WALK_MAX_PAGES
          Tenant       \* whether a tenant is configured, so rows may be cached

ASSUME LocalPageBounds == /\ MaxRun \in Nat /\ MaxLoads \in Nat \ {0}
                          /\ MaxPages \in Nat \ {0} /\ Tenant \in BOOLEAN

VARIABLES newest,  \* the newest run the runtime serves, 0 before the first
          asked,   \* the run the address names, or 0 for the newest
          last,    \* the load started last
          load,    \* load[l]: what the load waits for
          reads,   \* reads[k]: the request in flight under key k
          shown,   \* the page's snapshots of the two exposures
          cached,  \* the navigation cache's snapshots
          error    \* the page shows an error instead of its panels

vars == <<newest, asked, last, load, reads, shown, cached, error>>

Loads == 1..MaxLoads
Runs == 1..MaxRun

\* One request per exposure and per set of parameters.
Decisions == <<"decisions", 0>>
Page(n) == <<"page", n>>
Trace(r) == <<"trace", r>>
Keys == {Decisions} \cup {Page(n) : n \in 1..MaxPages} \cup {Trace(r) : r \in Runs}

\* A request: the load that sent it and the newest run at that moment.
NoRequest == [by |-> 0, seen |-> 0]
InFlight(k) == reads[k] # NoRequest

\* A snapshot: rows and the run they were asked for.
\* NoRows is a failure without last good rows; rows 0 is an empty answer.
NoRows == -1
Absent == [failed |-> FALSE, run |-> 0, rows |-> NoRows]
Good(run, rows) == [failed |-> FALSE, run |-> run, rows |-> rows]
Failed(run) == [failed |-> TRUE, run |-> run, rows |-> NoRows]
NothingShown == [dec |-> Absent, trace |-> Absent]

IdleLoad == [asked |-> 0, census |-> FALSE, awaits |-> {}, late |-> {}, found |-> Absent]

Init ==
  /\ newest \in 0..MaxRun
  /\ asked = 0
  /\ last = 1
  /\ load = [l \in Loads |-> IF l = 1 THEN [IdleLoad EXCEPT !.census = TRUE] ELSE IdleLoad]
  /\ reads = [k \in Keys |-> NoRequest]
  /\ shown = NothingShown
  /\ cached = [dec |-> Absent, trace |-> [r \in Runs |-> Absent]]
  /\ error = FALSE

-----------------------------------------------------------------------------
(* Publishing                                                              *)

\* Mutant: an overtaken load may still write.
EveryLoadCurrent(l) == l \in Loads

Current(l) == l = last

\* Mutant: a failure replaces what is on screen.
NoLastGood(prior, snapshot) == snapshot

\* A failed read keeps the rows of the same run that are on screen.
WithLastGood(prior, snapshot) ==
  IF snapshot.failed /\ prior.rows # NoRows /\ prior.run = snapshot.run
  THEN [prior EXCEPT !.failed = TRUE]
  ELSE snapshot

\* Mutant: the old run's steps stay beside the new run's decisions.
PublishBesideOldSteps(s, snapshot) == [s EXCEPT !.dec = WithLastGood(@, snapshot)]

\* A decisions answer that names another newest run takes the old run's steps away.
PublishDecisions(s, snapshot) ==
  LET kept == WithLastGood(s.dec, snapshot)
  IN  [dec |-> kept,
       trace |-> IF asked = 0 /\ ~snapshot.failed /\ s.trace.run # kept.rows
                 THEN Absent ELSE s.trace]

PublishTrace(s, snapshot) == [s EXCEPT !.trace = WithLastGood(@, snapshot)]

\* What is put on screen; a good snapshot goes to the navigation cache too.
Show(s) ==
  /\ shown' = s
  /\ cached' = IF ~Tenant THEN cached
               ELSE [dec |-> IF s.dec.failed \/ s.dec = Absent THEN cached.dec ELSE s.dec,
                     trace |-> [r \in Runs |->
                                  IF s.trace.run = r /\ ~s.trace.failed THEN s.trace
                                  ELSE cached.trace[r]]]

\* Mutant: a decisions read that failed counts as an empty store.
SaysNoRunsUnread ==
  IF error THEN "error"
  ELSE IF shown.trace = Absent THEN "loading"
  ELSE IF shown.trace.run # 0 THEN "run"
  ELSE IF shown.dec.rows \in {0, NoRows} THEN "no runs"
  ELSE "unnamed run"

\* WorkflowRun: what the page says in place of a run, or "run" when it shows one.
Says ==
  IF error THEN "error"
  ELSE IF shown.trace = Absent THEN "loading"
  ELSE IF shown.trace.run # 0 THEN "run"
  ELSE IF shown.dec.failed THEN "failed"
  ELSE IF shown.dec.rows \in {0, NoRows} THEN "no runs"
  ELSE "unnamed run"

-----------------------------------------------------------------------------
(* Requests                                                                *)

Waiting(k) == {l \in Loads : k \in load[l].awaits}
LateFor(k) == {l \in Loads : k \in load[l].late}

\* The request leaves the map when it ends; the loads stop waiting for it.
Ended(k) == [reads EXCEPT ![k] = NoRequest]
Released(k) ==
  [l \in Loads |-> [load[l] EXCEPT !.awaits = @ \ {k}, !.late = @ \ {k}]]

\* Join the request in flight under a key, or send it.  wants: pairs load, key.
SharedRead(rs, wants) ==
  [k \in Keys |->
     LET askers == {w[1] : w \in {x \in wants : x[2] = k}}
     IN  IF askers = {} \/ rs[k] # NoRequest THEN rs[k]
         ELSE [by |-> Min(askers), seen |-> newest]]

Await(ls, wants) ==
  [l \in Loads |-> [ls[l] EXCEPT !.awaits = @ \cup {w[2] : w \in {x \in wants : x[1] = l}}]]

\* The newest run of a decisions read: none when it failed.
NewestRunId(snapshot) == IF snapshot.failed THEN 0 ELSE snapshot.rows

\* Loads whose decisions read is over, snap[l] its result: publish it, then read
\* the steps of the newest run, or say that no run can be named.  ls and rs are
\* the loads and requests so far.
DecisionsOver(over, snap, ls, rs) ==
  LET starts == {l \in over : load[l].asked = 0}
      wants == {<<l, Trace(NewestRunId(snap[l]))>> :
                  l \in {x \in starts : NewestRunId(snap[x]) # 0}}
      writers == {l \in over : Current(l)}
      decided == [l \in writers |-> PublishDecisions(shown, snap[l])]
  IN  /\ load' = Await(ls, wants)
      /\ reads' = SharedRead(rs, wants)
      /\ IF writers = {} THEN UNCHANGED <<shown, cached>>
         ELSE \E l \in writers :
                Show(IF l \in starts /\ NewestRunId(snap[l]) = 0
                     THEN PublishTrace(decided[l], Good(0, 0))
                     ELSE decided[l])

-----------------------------------------------------------------------------
(* The page                                                                *)

\* load(): the interval or the refresh button.
Refresh ==
  /\ last < MaxLoads
  /\ last' = last + 1
  /\ load' = [load EXCEPT ![last + 1] = [IdleLoad EXCEPT !.asked = asked, !.census = TRUE]]
  /\ UNCHANGED <<newest, asked, reads, shown, cached, error>>

\* Another run in the address: the effect runs again, with the cached snapshots
\* that are still young, and starts a load of its own.
OpenRun(r) ==
  /\ last < MaxLoads
  /\ r # asked
  /\ asked' = r
  /\ last' = last + 1
  /\ load' = [load EXCEPT ![last + 1] = [IdleLoad EXCEPT !.asked = r, !.census = TRUE]]
  /\ shown' \in [dec : {Absent, cached.dec},
                 trace : {Absent} \cup (IF r = 0 THEN {} ELSE {cached.trace[r]})]
  /\ error' = FALSE
  /\ UNCHANGED <<newest, reads, cached>>

\* The catalogue arrives: a load that was overtaken ends here.
CensusAnswered(l) ==
  /\ load[l].census
  /\ LET done == [load EXCEPT ![l].census = FALSE]
         keys == {Decisions} \cup (IF load[l].asked = 0 THEN {} ELSE {Trace(load[l].asked)})
     IN  IF Current(l)
         THEN /\ load' = Await(done, {l} \X keys)
              /\ reads' = SharedRead(reads, {l} \X keys)
              /\ error' = FALSE
         ELSE load' = done /\ UNCHANGED <<reads, error>>
  /\ UNCHANGED <<newest, asked, last, shown, cached>>

\* Mutant: a failed catalogue leaves the panels that have no rows loading.
CatalogueFailsQuietly(l) ==
  /\ load[l].census
  /\ load' = [load EXCEPT ![l].census = FALSE]
  /\ error' = (error \/ (Current(l) /\ shown = NothingShown))
  /\ UNCHANGED <<newest, asked, last, reads, shown, cached>>

\* The catalogue fails, or has no answer in 5 s.
CensusFails(l) ==
  /\ load[l].census
  /\ load' = [load EXCEPT ![l].census = FALSE]
  /\ IF ~Current(l) THEN UNCHANGED <<shown, cached, error>>
     ELSE IF shown = NothingShown
     THEN error' = TRUE /\ UNCHANGED <<shown, cached>>
     ELSE /\ Show([dec |-> IF shown.dec = Absent THEN Failed(0) ELSE shown.dec,
                   trace |-> IF shown.trace = Absent THEN Failed(asked) ELSE shown.trace])
          /\ UNCHANGED error
  /\ UNCHANGED <<newest, asked, last, reads>>

-----------------------------------------------------------------------------
(* The decisions read: its first page and the walk                         *)

\* The first page answers with newest run v; deep: more pages exist.  Late, it is
\* published as it is; on time, a current load walks the other pages first.
DecisionsAnswered ==
  /\ InFlight(Decisions)
  /\ \E v \in reads[Decisions].seen..newest, deep \in BOOLEAN :
       LET got == Good(0, v)
           walkers == {l \in Waiting(Decisions) : deep /\ Current(l)}
           over == (Waiting(Decisions) \ walkers) \cup {l \in LateFor(Decisions) : Current(l)}
           first == {<<l, Page(1)>> : l \in walkers}
           ls == [l \in Loads |-> IF l \in walkers THEN [Released(Decisions)[l] EXCEPT !.found = got]
                                  ELSE Released(Decisions)[l]]
       IN  DecisionsOver(over, [l \in over |-> got], Await(ls, first),
                         SharedRead(Ended(Decisions), first))
  /\ UNCHANGED <<newest, asked, last, error>>

DecisionsFail ==
  /\ InFlight(Decisions)
  /\ LET over == Waiting(Decisions)
     IN  DecisionsOver(over, [l \in over |-> Failed(0)], Released(Decisions), Ended(Decisions))
  /\ UNCHANGED <<newest, asked, last, error>>

\* Five seconds without an answer: a typed timeout, and the request goes on.
DecisionsDeadline(l) ==
  /\ Decisions \in load[l].awaits
  /\ DecisionsOver({l}, [x \in {l} |-> Failed(0)],
                   [load EXCEPT ![l].awaits = @ \ {Decisions}, ![l].late = @ \cup {Decisions}], reads)
  /\ UNCHANGED <<newest, asked, last, error>>

\* Mutant: a walk without the page cap.
WalksUncapped(l, n, more) == more /\ Current(l)

\* The walk goes on while the load is current, the server names more pages and
\* the cap is not reached.
WalksOn(l, n, more) == more /\ n < MaxPages /\ Current(l)

\* Page n of the walk; the last one holds the newest runs.
PageAnswered(n) ==
  /\ InFlight(Page(n))
  /\ \E u \in reads[Page(n)].seen..newest, more \in BOOLEAN :
       LET on == {l \in Waiting(Page(n)) : WalksOn(l, n, more)}
           over == Waiting(Page(n)) \ on
           wants == {<<l, Page(n + 1)>> : l \in on}
           snap == [l \in over |-> IF more THEN load[l].found
                                   ELSE [load[l].found EXCEPT !.rows = Max({@, u})]]
           ls == [l \in Loads |-> IF l \in over THEN [Released(Page(n))[l] EXCEPT !.found = Absent]
                                  ELSE Released(Page(n))[l]]
       IN  DecisionsOver(over, snap, Await(ls, wants), SharedRead(Ended(Page(n)), wants))
  /\ UNCHANGED <<newest, asked, last, error>>

\* A page that fails or times out ends the walk with the runs read so far.
WalkStops(over, ls, rs) ==
  DecisionsOver(over, [l \in over |-> load[l].found],
                [l \in Loads |-> IF l \in over THEN [ls[l] EXCEPT !.found = Absent] ELSE ls[l]], rs)

PageFails(n) ==
  /\ InFlight(Page(n))
  /\ WalkStops(Waiting(Page(n)), Released(Page(n)), Ended(Page(n)))
  /\ UNCHANGED <<newest, asked, last, error>>

PageDeadline(l, n) ==
  /\ Page(n) \in load[l].awaits
  /\ WalkStops({l}, [load EXCEPT ![l].awaits = @ \ {Page(n)}], reads)
  /\ UNCHANGED <<newest, asked, last, error>>

-----------------------------------------------------------------------------
(* The steps of one run                                                    *)

TraceAnswered(r) ==
  /\ InFlight(Trace(r))
  /\ load' = Released(Trace(r))
  /\ reads' = Ended(Trace(r))
  /\ IF \E l \in Waiting(Trace(r)) \cup LateFor(Trace(r)) : Current(l)
     THEN Show(PublishTrace(shown, Good(r, r)))
     ELSE UNCHANGED <<shown, cached>>
  /\ UNCHANGED <<newest, asked, last, error>>

TraceFails(r) ==
  /\ InFlight(Trace(r))
  /\ load' = Released(Trace(r))
  /\ reads' = Ended(Trace(r))
  /\ IF \E l \in Waiting(Trace(r)) : Current(l)
     THEN Show(PublishTrace(shown, Failed(r)))
     ELSE UNCHANGED <<shown, cached>>
  /\ UNCHANGED <<newest, asked, last, error>>

TraceDeadline(l, r) ==
  /\ Trace(r) \in load[l].awaits
  /\ load' = [load EXCEPT ![l].awaits = @ \ {Trace(r)}, ![l].late = @ \cup {Trace(r)}]
  /\ IF Current(l) THEN Show(PublishTrace(shown, Failed(r))) ELSE UNCHANGED <<shown, cached>>
  /\ UNCHANGED <<newest, asked, last, reads, error>>

\* The runtime records another run.
NewRun ==
  /\ newest < MaxRun
  /\ newest' = newest + 1
  /\ UNCHANGED <<asked, last, load, reads, shown, cached, error>>

Deadlines(l) ==
  \/ CensusFails(l)
  \/ DecisionsDeadline(l)
  \/ \E n \in 1..MaxPages : PageDeadline(l, n)
  \/ \E r \in Runs : TraceDeadline(l, r)

Next ==
  \/ NewRun
  \/ Refresh
  \/ \E r \in 0..MaxRun : OpenRun(r)
  \/ \E l \in Loads : CensusAnswered(l) \/ Deadlines(l)
  \/ DecisionsAnswered \/ DecisionsFail
  \/ \E n \in 1..MaxPages : PageAnswered(n) \/ PageFails(n)
  \/ \E r \in Runs : TraceAnswered(r) \/ TraceFails(r)

Spec == Init /\ [][Next]_vars

\* The browser's timers fire; the network owes nothing.
FairSpec == Spec /\ WF_vars(\E l \in Loads : Deadlines(l))

-----------------------------------------------------------------------------
(* Properties                                                              *)

Snapshots(runs) == [failed : BOOLEAN, run : runs, rows : NoRows..MaxRun]

\* Every variable has its type; in particular no load walks past the cap.
TypeOK ==
  /\ newest \in 0..MaxRun /\ asked \in 0..MaxRun /\ last \in Loads
  /\ load \in [Loads -> [asked : 0..MaxRun, census : BOOLEAN, awaits : SUBSET Keys,
                         late : SUBSET Keys, found : Snapshots({0})]]
  /\ reads \in [Keys -> [by : 0..MaxLoads, seen : 0..MaxRun]]
  /\ shown \in [dec : Snapshots({0}), trace : Snapshots(0..MaxRun)]
  /\ cached \in [dec : Snapshots({0}), trace : [Runs -> Snapshots(0..MaxRun)]]
  /\ error \in BOOLEAN

\* The page shows one run: the run in its title, and the steps under it, are those
\* of the run the address names, or of the newest run of the decisions on screen,
\* whatever loads, late answers, failures and cached rows brought them.
OneRunShown ==
  Says = "run" =>
    /\ shown.trace.rows \in {NoRows, shown.trace.run}
    /\ shown.trace.run = (IF asked = 0 THEN shown.dec.rows ELSE asked)

\* "No runs yet" is said of a decisions answer that held none, never of a read
\* that failed, is still out, or was overtaken.
NoRunsIsRead == Says = "no runs" => shown.dec = Good(0, 0)

\* The decisions on screen never go back to an older newest run: an overtaken
\* load that ends late, its walk included, writes nothing.
NeverGoesBack ==
  [][(shown.dec.rows # NoRows /\ shown'.dec.rows # NoRows)
       => shown'.dec.rows >= shown.dec.rows]_vars

\* A failed read takes no rows off the screen: decisions that become failed keep
\* the rows they had.
FailureKeepsDecisions ==
  [][(shown'.dec.failed /\ ~shown.dec.failed) => shown'.dec.rows = shown.dec.rows]_vars

\* Once no more loads start, every panel ends with rows or a typed failure, or
\* the page with an error, even if the network never answers.
PanelsSettle == <>[](error \/ (shown.dec # Absent /\ shown.trace # Absent))
=============================================================================
