--------------------------- MODULE DelegationTrace ---------------------------
(***************************************************************************)
(* The delegation control plane: the runs that its polled projections      *)
(* list, the run that is selected, the form that dispatches a delegation,  *)
(* the evidence tabs, and the trace read for the selected run.  The        *)
(* provider of the selection outlives all failures; the form, the tabs and *)
(* the trace panel are mounted only while the projections have data and    *)
(* none has failed.  A step of the model is a React commit: the state that *)
(* an event sets, then the unmounts and effects it causes.                 *)
(***************************************************************************)
EXTENDS Naturals, FiniteSets

CONSTANTS Probes,      \* the projections that are polled
          RunProbes,   \* those whose rows are runs
          TotalProbes, \* those that count without naming runs
          MaxRun,      \* correlation ids are 1..MaxRun; a larger one is newer
          MaxRuns,     \* rows of the table that can be clicked
          MaxPosts     \* dispatches that may be out at once

ASSUME DelegationValues ==
  /\ RunProbes \subseteq Probes /\ TotalProbes \subseteq Probes
  /\ MaxRun \in Nat /\ MaxRuns \in Nat \ {0}
  /\ MaxPosts \in Nat

NoRun == 0                      \* null
Ids == 1..MaxRun
Tabs == {"overview", "correlation-trace"}

VARIABLES reading,    \* reading[p]: the state of one projection's query
          chosen,     \* selectedRunId
          pending,    \* pendingCorrelationId
          form,       \* the trigger form: open, its phase, the id it was given
          posts,      \* dispatches that are out
          tab,        \* activeTab, or "unmounted"
          trace,      \* the trace panel: the effect's id, its three states,
                      \* and whether the read of that id is out
          late        \* ids of cancelled trace reads that are still out

vars == <<reading, chosen, pending, form, posts, tab, trace, late>>

-----------------------------------------------------------------------------
(* The snapshot of the projections                                         *)

Reading == [status : {"pending", "success", "error"}, runs : SUBSET Ids, counts : BOOLEAN]
Unread == [status |-> "pending", runs |-> {}, counts |-> FALSE]

buildRuns(queries) == UNION {queries[p].runs : p \in Probes}
hasAnyData(queries) == buildRuns(queries) # {} \/ \E p \in Probes : queries[p].counts
primaryError(queries) == \E p \in Probes : queries[p].status = "error"

\* ComponentWrapper renders its children: not loading, no error, not empty.
Visible(queries) == hasAnyData(queries) /\ ~primaryError(queries)

Newer(runs, run) == {r \in runs : r > run}
Newest(runs) == CHOOSE r \in runs : Newer(runs, r) = {}

selectedRun(runs, choice) ==
  IF choice \in runs THEN choice ELSE IF runs = {} THEN NoRun ELSE Newest(runs)

\* The id the trace panel reads: the selected run, else the dispatched one.
correlationId(queries, choice, waiting) ==
  LET run == selectedRun(buildRuns(queries), choice)
  IN  IF run # NoRun THEN run ELSE waiting

-----------------------------------------------------------------------------
(* One commit: what an event set, then unmounts, mounts and effects        *)

Closed == [open |-> FALSE, phase |-> "idle", of |-> NoRun]
Panel(id, rows, loading, error, out) ==
  [id |-> id, rows |-> rows, loading |-> loading, error |-> error, out |-> out]
NoTrace == Panel(NoRun, NoRun, FALSE, FALSE, FALSE)

\* The tab after a commit in which the user asked for `asked`; the effect of
\* EvidenceTabs runs when they are mounted and when the dispatched id changes.
TabAfter(queries, waiting, asked) ==
  IF ~Visible(queries) THEN "unmounted"
  ELSE IF waiting # NoRun /\ (tab = "unmounted" \/ waiting # pending) THEN "correlation-trace"
  ELSE IF tab = "unmounted" THEN "overview" ELSE asked

\* The trace effect runs when its panel mounts and when its id changes.
TraceAfter(shown, id) ==
  IF shown /\ tab = "correlation-trace" /\ id = trace.id THEN trace
  ELSE IF ~shown THEN NoTrace
  ELSE IF id = NoRun THEN Panel(NoRun, NoRun, trace.loading, trace.error, FALSE)
  ELSE Panel(id, trace.rows, TRUE, FALSE, TRUE)

\* The cleanup of the effect cancels the read it started.
Cancelled(shown, id) ==
  IF trace.out /\ ~(shown /\ id = trace.id) THEN late \cup {trace.id} ELSE late

Commit(queries, choice, waiting, askedTab, askedForm) ==
  /\ reading' = queries /\ chosen' = choice /\ pending' = waiting
  /\ tab' = TabAfter(queries, waiting, askedTab)
  /\ form' = IF Visible(queries) THEN askedForm ELSE Closed
  /\ trace' = TraceAfter(tab' = "correlation-trace", correlationId(queries, choice, waiting))
  /\ late' = Cancelled(tab' = "correlation-trace", correlationId(queries, choice, waiting))

Mounted == tab # "unmounted"

Init == /\ reading = [p \in Probes |-> Unread]
        /\ chosen = NoRun /\ pending = NoRun
        /\ form = Closed /\ posts = 0
        /\ tab = "unmounted" /\ trace = NoTrace /\ late = {}

-----------------------------------------------------------------------------
(* The projections                                                         *)

\* Rows a read of p may give.
Rows(p) == {r \in Reading : /\ r.status = "success"
                            /\ p \notin RunProbes => r.runs = {}
                            /\ p \notin TotalProbes => ~r.counts}

PollStep(queries) ==
  Commit(queries, chosen, pending, tab, form) /\ UNCHANGED posts

Polled(p) == \E row \in Rows(p) : PollStep([reading EXCEPT ![p] = row])

\* A failed read keeps the rows of the last good one.
Refused(p) ==
  PollStep([reading EXCEPT ![p] = [status |-> "error", runs |-> reading[p].runs,
                                   counts |-> reading[p].counts]])

\* A query that never had data is pending again while it is read again.
Retried(p) ==
  /\ reading[p].status = "error" /\ reading[p].runs = {} /\ ~reading[p].counts
  /\ PollStep([reading EXCEPT ![p] = Unread])

-----------------------------------------------------------------------------
(* The user: the table and the tabs                                        *)

UserStep(choice, askedTab) ==
  /\ Mounted
  /\ Commit(reading, choice, pending, askedTab, form)
  /\ UNCHANGED posts

selectRun(run) ==
  /\ run \in buildRuns(reading)
  /\ Cardinality(Newer(buildRuns(reading), run)) < MaxRuns
  /\ UserStep(run, tab)

setActiveTab(t) == UserStep(chosen, t)

-----------------------------------------------------------------------------
(* The trigger form                                                        *)

FormStep(askedForm) ==
  /\ Mounted
  /\ Commit(reading, chosen, pending, tab, askedForm)

Open == /\ ~form.open
        /\ FormStep([open |-> TRUE, phase |-> form.phase, of |-> form.of])
        /\ UNCHANGED posts

\* Slip: a form that is submitting can be closed.
CloseAnytime == /\ form.open
                /\ FormStep(Closed)
                /\ UNCHANGED posts

Close == /\ form.open /\ form.phase # "submitting"
         /\ FormStep(Closed)
         /\ UNCHANGED posts

handleReset == /\ form.open /\ form.phase = "accepted"
               /\ FormStep([open |-> TRUE, phase |-> "idle", of |-> NoRun])
               /\ UNCHANGED posts

handleSubmit == /\ form.open /\ form.phase \in {"idle", "error"}
                /\ posts < MaxPosts /\ posts' = posts + 1
                /\ FormStep([open |-> TRUE, phase |-> "submitting", of |-> NoRun])

\* The answer of the dispatch the form waits for, or of one whose form is gone:
\* either way the provider learns the id.
Accepted(id, mine) ==
  /\ posts > 0 /\ posts' = posts - 1
  /\ IF mine THEN form.phase = "submitting"
             ELSE posts > 1 \/ form.phase # "submitting"
  /\ Commit(reading, chosen, id, tab,
            IF mine THEN [open |-> form.open, phase |-> "accepted", of |-> id] ELSE form)

Failed(mine) ==
  /\ posts > 0 /\ posts' = posts - 1
  /\ IF mine THEN form.phase = "submitting"
             ELSE posts > 1 \/ form.phase # "submitting"
  /\ Commit(reading, chosen, pending, tab,
            IF mine THEN [open |-> form.open, phase |-> "error", of |-> NoRun] ELSE form)

-----------------------------------------------------------------------------
(* The trace read of the panel                                             *)

TraceStep(t, cancelled) ==
  /\ trace' = t /\ late' = cancelled
  /\ UNCHANGED <<reading, chosen, pending, form, posts, tab>>

\* The rows of the id; an HTTP error status gives none.
TraceRead(rows) ==
  /\ trace.out /\ rows \in {trace.id, NoRun}
  /\ TraceStep(Panel(trace.id, rows, FALSE, trace.error, FALSE), late)

\* Slip: loading is only left on success.
TraceFailedStays ==
  trace.out /\ TraceStep(Panel(trace.id, trace.rows, trace.loading, TRUE, FALSE), late)

TraceFailed ==
  trace.out /\ TraceStep(Panel(trace.id, trace.rows, FALSE, TRUE, FALSE), late)

\* Slip: the cleanup does not cancel.
LateAnswerShown(id) ==
  /\ id \in late
  /\ TraceStep(IF trace.id = NoRun THEN trace
               ELSE Panel(trace.id, id, trace.loading, trace.error, trace.out), late \ {id})

\* The answer of a cancelled read is dropped.
LateAnswer(id) == /\ id \in late
                  /\ TraceStep(trace, late \ {id})

PollNext == \E p \in Probes : Polled(p) \/ Refused(p) \/ Retried(p)
UserNext == \/ \E run \in Ids : selectRun(run)
            \/ \E t \in Tabs : setActiveTab(t)
            \/ Open \/ Close \/ handleReset \/ handleSubmit
PostNext == \E mine \in BOOLEAN : Failed(mine) \/ \E id \in Ids : Accepted(id, mine)
TraceNext == \E rows \in Ids \cup {NoRun} : TraceRead(rows)
TraceEnds == TraceNext \/ TraceFailed
Next == PollNext \/ UserNext \/ PostNext \/ TraceEnds \/ \E id \in late : LateAnswer(id)

\* A trace read that is out ends: the browser gives a lost connection up.
Spec == Init /\ [][Next]_vars /\ WF_vars(TraceEnds)

-----------------------------------------------------------------------------
(* Properties                                                              *)

\* Every part of the state has its type, and a form or panel that is not
\* mounted has the state a new one starts with.
TypeOK ==
  /\ reading \in [Probes -> Reading]
  /\ chosen \in Ids \cup {NoRun} /\ pending \in Ids \cup {NoRun}
  /\ form \in [open : BOOLEAN, phase : {"idle", "submitting", "accepted", "error"},
               of : Ids \cup {NoRun}]
  /\ posts \in 0..MaxPosts
  /\ form.phase = "submitting" => posts > 0
  /\ tab \in Tabs \cup {"unmounted"}
  /\ trace \in [id : Ids \cup {NoRun}, rows : Ids \cup {NoRun}, loading : BOOLEAN,
               error : BOOLEAN, out : BOOLEAN]
  /\ late \subseteq Ids

\* Whatever polls, clicks and dispatches came in between, the panel reads the
\* trace of the run the page has selected, and what it shows once that read
\* succeeded are events of that run: DelegationCorrelationTracePanel.tsx 218-240.
\* (After a failed read the rows of the previous run stay below the message.)
TraceOfSelected ==
  tab = "correlation-trace" =>
    /\ trace.id = correlationId(reading, chosen, pending)
    /\ ~trace.loading /\ ~trace.error => trace.rows \in {trace.id, NoRun}

\* A poll that leaves the selected run does not start its trace again, which
\* would hide the rows behind "Loading" every five seconds: the effect depends
\* on the id (240), not on the snapshot that every poll replaces.
PollKeepsTrace ==
  [][/\ reading' # reading /\ tab = tab'
     /\ correlationId(reading', chosen', pending') = correlationId(reading, chosen, pending)
     => trace' = trace]_vars

\* Only the projections can take a form away while its dispatch is out: the
\* user cannot close it (DelegationTriggerPanel.tsx:112).
DispatchLostOnlyToReads ==
  [][form.phase = "submitting" /\ posts' = posts /\ form'.phase # "submitting"
     => ~Visible(reading')]_vars

\* A trace that is being read is read, or the page stops asking for it: the
\* loading state is left on success and on failure alike (235-237).
TraceSettles ==
  \A id \in Ids : (trace.id = id /\ trace.loading) ~> (trace.id # id \/ ~trace.loading)
=============================================================================
