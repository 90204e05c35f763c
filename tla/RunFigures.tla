----------------------------- MODULE RunFigures ------------------------------
(***************************************************************************)
(* The figures that the browser counts from the delegation decisions it    *)
(* read: the newest `Limit` rows by written_at, of a store in which runs    *)
(* arrive and are written again.  The charts place a run by written_at, the *)
(* usage analysis and the run list by created_at, and three readings of a   *)
(* run's result meet on one page: what they may say of each other is        *)
(* checked over every store of a small clock.                               *)
(***************************************************************************)
EXTENDS Integers, FiniteSets, Sequences, SequencesExt

CONSTANTS Kinds,        \* what a run records, see RunValues
          Unserved,     \* a field that was not served
          TrueText,     \* a verdict that was served as the text of true ...
          FalseText,    \* ... or of false
          MaxRuns,      \* bound: runs in the store
          MaxClock,     \* bound: writes and waits
          TicksPerDay,  \* ticks in a UTC day
          Limit,        \* rows that one read of the decisions returns
          Days,         \* length of the chosen window
          TopSeries,    \* series that the trend draws by name
          Edges         \* edges of the duration buckets

\* What may be served of a verdict.
Verdicts == BOOLEAN \cup {Unserved, TrueText, FalseText}

\* A latency of -1 was not recorded.  No served cause, model or task is called by
\* a word that a link writes for "no filter" or for "no model".  The edges of the
\* buckets begin with 0 and increase.
ASSUME RunValues ==
  /\ \A k \in Kinds :
       /\ k \in [gate : Verdicts, ok : Verdicts, typed : {k.typed}, lead : {k.lead},
                 model : {k.model}, task : {k.task}, latency : Nat \cup {-1}]
       /\ "all" \notin {k.typed, k.lead, k.model, k.task} /\ k.model # "unknown"
  /\ {Unserved, TrueText, FalseText} \cap BOOLEAN = {} /\ Unserved # "Not recorded"
  /\ Unserved \notin {TrueText, FalseText} /\ TrueText # FalseText
  /\ {MaxRuns, MaxClock} \subseteq Nat /\ {TicksPerDay, Limit, Days, TopSeries} \subseteq Nat \ {0}
  /\ Edges \in Seq(Nat) /\ Edges # <<>> /\ Edges[1] = 0
  /\ \A i, j \in DOMAIN Edges : i < j => Edges[i] < Edges[j]

VARIABLES clock,   \* the runtime's and the page's time
          store,   \* the runs, in the order they first arrived
          meter    \* the runs per day that the metering summary last counted

figureVars == <<clock, store, meter>>

Today == clock \div TicksPerDay
AllDays == 0..MaxClock \div TicksPerDay
Stored == ToSet(store)
FiguresInit == clock = 0 /\ store = <<>> /\ meter = [day \in AllDays |-> 0]

-----------------------------------------------------------------------------
(* The store                                                               *)

Tick == clock < MaxClock /\ clock' = clock + 1

Row(id, created, written, kind) ==
  [id |-> id, created |-> created, written |-> written, gate |-> kind.gate, ok |-> kind.ok,
   typed |-> kind.typed, lead |-> kind.lead, model |-> kind.model, task |-> kind.task,
   latency |-> kind.latency]

Arrive(kind) ==
  /\ Tick /\ Len(store) < MaxRuns
  /\ store' = Append(store, Row(Len(store) + 1, clock', clock', kind))
  /\ UNCHANGED meter

\* The row of a run is written again: its verdict arrives, or is replaced.
WriteAgain(i, kind) ==
  /\ Tick
  /\ store' = [store EXCEPT ![i] = Row(i, store[i].created, clock', kind)]
  /\ UNCHANGED meter

Wait == Tick /\ UNCHANGED <<store, meter>>

\* The metering summary is refreshed on its own, over every run.
Recount ==
  /\ meter' = [day \in AllDays |-> Cardinality({r \in Stored : r.created \div TicksPerDay = day})]
  /\ UNCHANGED <<clock, store>>

FiguresNext == \/ \E kind \in Kinds : Arrive(kind) \/ (\E i \in DOMAIN store : WriteAgain(i, kind))
               \/ Wait \/ Recount

\* The decisions read.
rows == {r \in Stored : Cardinality({s \in Stored : s.written > r.written}) < Limit}
complete == rows = Stored

-----------------------------------------------------------------------------
(* The run list's reading of a row                                         *)

utcDay(t) == t \div TicksPerDay
modelOrUnknown(m) == IF m \in {Unserved, "delegate-skill"} THEN "unknown" ELSE m
recorded(v) == IF v = Unserved THEN "Not recorded" ELSE v

typedFailureCauseOf(r) == r.typed
failureCauseOf(r) == IF typedFailureCauseOf(r) # Unserved THEN typedFailureCauseOf(r)
                     ELSE recorded(r.lead)

\* The list reads booleans, which a store may serve as 1 and 0; a text it does not.
servedBoolean(v) == IF v \in BOOLEAN THEN v ELSE Unserved

statusOf(r) == IF servedBoolean(r.ok) = FALSE \/ servedBoolean(r.gate) = FALSE THEN "failed"
               ELSE IF servedBoolean(r.gate) = Unserved THEN "Not recorded" ELSE "passed"
causeOf(r) == CASE statusOf(r) = "passed" -> "none"
                [] statusOf(r) = "Not recorded" -> "Not recorded"
                [] OTHER -> failureCauseOf(r)

DEFAULT_RUNS_VIEW == [status |-> "all", cause |-> "all", model |-> "all", task |-> "all", day |-> -1]

\* A filter that is set to a value keeps the rows with that value.
filtered(listed, view) ==
  {r \in listed : /\ view.status \in {"all", statusOf(r)}
                  /\ view.cause \in {"all", causeOf(r)}
                  /\ view.model \in {"all", modelOrUnknown(r.model)}
                  /\ view.task \in {"all", recorded(r.task)}
                  /\ view.day \in {-1, utcDay(r.created)}}

causeHref(cause) == [DEFAULT_RUNS_VIEW EXCEPT !.status = "failed", !.cause = cause]

\* "Recent runs" of the overview, before its first ten are taken.
RecentRuns(listed, result, cause) ==
  {r \in listed : /\ result \in {"all", statusOf(r)}
                  /\ cause # Unserved => statusOf(r) = "failed" /\ failureCauseOf(r) = cause}

-----------------------------------------------------------------------------
(* The charts: insights.ts and insight-aggregates.ts                       *)

\* The charts and the usage analysis read a text as well.
verdict(v) == IF v \in {TRUE, TrueText} THEN TRUE
              ELSE IF v \in {FALSE, FalseText} THEN FALSE ELSE Unserved

\* Slip: the verdict is the gate's alone.
runVerdictGate(r) == verdict(r.gate)

runVerdict(r) == IF verdict(r.ok) = FALSE THEN FALSE ELSE verdict(r.gate)

toInsightRuns(listed) ==
  {[id |-> r.id, at |-> r.written, day |-> utcDay(r.written), status |-> runVerdict(r),
    cause |-> IF runVerdict(r) = FALSE THEN failureCauseOf(r) ELSE Unserved,
    latency |-> r.latency, model |-> r.model, task |-> r.task] : r \in listed}

windowDays(last, days) == (last - days + 1)..last

\* The runs of the chosen window: all days, the last few or a range of dates.
selectedRuns(runs, window) == {run \in runs : run.day \in window}
windowRuns(runs, last, days) == selectedRuns(runs, windowDays(last, days))

Count(S, is(_)) == Cardinality({x \in S : is(x)})
\* The recorded durations of runs, in order: each as often as it was recorded.
latencyAt(known, i) ==
  CHOOSE value \in {run.latency : run \in known} :
    /\ Cardinality({run \in known : run.latency < value}) < i
    /\ i <= Cardinality({run \in known : run.latency <= value})
latencies(runs) ==
  LET known == {run \in runs : run.latency >= 0} IN [i \in 1..Cardinality(known) |-> latencyAt(known, i)]

\* Twice the median, so that the mean of two middle values stays whole.
medianTwice(values) ==
  LET middle == Len(values) \div 2
  IN  IF values = <<>> THEN -1 ELSE IF Len(values) % 2 = 1 THEN 2 * values[middle + 1]
      ELSE values[middle] + values[middle + 1]

summary(runs) ==
  LET passed == Count(runs, LAMBDA run : run.status = TRUE)
      failed == Count(runs, LAMBDA run : run.status = FALSE)
  IN  [runs |-> Cardinality(runs), passed |-> passed, failed |-> failed,
       unrecorded |-> Cardinality(runs) - passed - failed, medianTwice |-> medianTwice(latencies(runs))]

dailySeries(runs, last, days) ==
  [day \in windowDays(last, days) |-> summary({run \in runs : run.day = day})]

hourGrid(runs, last, days) ==
  [day \in windowDays(last, days) |-> [hour \in 0..TicksPerDay - 1 |->
     Count(runs, LAMBDA run : run.day = day /\ run.at % TicksPerDay = hour)]]

\* Slip: a duration on an edge belongs to the bucket below.
durationBucketsOpen(runs) ==
  [i \in 1..Len(Edges) |->
     Count(runs, LAMBDA run : run.latency > Edges[i] /\ (i < Len(Edges) => run.latency <= Edges[i + 1]))]

\* The last bucket is open: durationEdges ends with infinity.
durationBuckets(runs) ==
  [i \in 1..Len(Edges) |->
     Count(runs, LAMBDA run : run.latency >= Edges[i] /\ (i < Len(Edges) => run.latency < Edges[i + 1]))]

countBy(runs, field) ==
  [key \in {recorded(run[field]) : run \in runs} |->
     summary({run \in runs : recorded(run[field]) = key})]

causes(runs) ==
  [cause \in {run.cause : run \in {r \in runs : r.status = FALSE}} |->
     Count(runs, LAMBDA run : run.status = FALSE /\ run.cause = cause)]

\* Slip: a row of the first day covers the window.
previousCompleteByDay(runs, last, days) ==
  \E run \in runs : run.day <= last - 2 * days + 1

\* Whether the rows read reach back over the whole previous window.
previousComplete(runs, last, days) ==
  \E run \in runs : run.at <= (last - 2 * days + 1) * TicksPerDay

compareWindow(listed, last, days) ==
  LET runs == toInsightRuns(listed)
  IN  [current |-> windowRuns(runs, last, days), previous |-> windowRuns(runs, last - days, days),
       complete |-> previousComplete(runs, last, days)]

\* Slip: a row of the first day covers it.
coveredFrom(runs, from) == \E run \in runs : run.day <= from

covered(runs, from) == \E run \in runs : run.day < from

\* The overview's status strip for the days from..to: the runs of its median.
OverviewStatusStrip(listed, from, to) ==
  LET runs == toInsightRuns(listed)
  IN  IF complete \/ covered(runs, from) THEN {run \in runs : run.day \in from..to} ELSE {}

\* The days that the metering summary fills where the read stopped short.
Least(a, b) == IF a < b THEN a ELSE b

\* Slip: the read's counts are not capped by the summary's.
splitUncapped(runs, read) == [passed |-> read.passed, failed |-> read.failed]

split(runs, read) == [passed |-> Least(read.passed, runs),
                      failed |-> Least(read.failed, runs - Least(read.passed, runs))]
meteringFilledDays(listed) ==
  [day \in AllDays |->
     LET of == split(meter[day], summary({run \in toInsightRuns(listed) : run.day = day}))
     IN  [runs |-> meter[day], passed |-> of.passed, failed |-> of.failed,
          unrecorded |-> meter[day] - of.passed - of.failed]]

-----------------------------------------------------------------------------
(* The usage analysis: decision-analysis.ts and usage-analysis.tsx         *)

\* Slip: the rank is rounded down.
percentileFloor(values, p) == IF values = <<>> THEN -1
  ELSE values[Least(Len(values), (p * Len(values)) \div 100 + 1)]

percentile(values, p) ==
  LET rank == (p * Len(values) + 99) \div 100
  IN  IF values = <<>> THEN -1 ELSE values[Least(Len(values), IF rank < 1 THEN 1 ELSE rank)]

totalsOf(members) ==
  [runs |-> Cardinality(members), verdicts |-> Count(members, LAMBDA r : verdict(r.gate) # Unserved),
   passed |-> Count(members, LAMBDA r : verdict(r.gate) = TRUE), p95 |-> percentile(latencies(members), 95)]

nameOf(r, by) == recorded(IF by = "model" THEN r.model ELSE r.task)
named(listed, by, name) == {r \in listed : nameOf(r, by) = name}

matrixCell(listed, model, task) == totalsOf(named(listed, "model", model) \cap named(listed, "task", task))

\* The names drawn by themselves: the most frequent ones, ties either way.
topNames(listed, by) ==
  LET names == {nameOf(r, by) : r \in listed}
      size(name) == Cardinality(named(listed, by, name))
  IN  IF Cardinality(names) <= TopSeries THEN names
      ELSE CHOOSE top \in SUBSET names :
             /\ Cardinality(top) = TopSeries
             /\ \A a \in top, b \in names \ top : size(a) >= size(b)

\* One day of a series; a day before the sample's first is not covered.
trendDay(listed, members, day) ==
  IF \A r \in listed : utcDay(r.created) > day
  THEN [state |-> "not-covered", runs |-> 0, passed |-> 0, verdicts |-> 0]
  ELSE LET totals == totalsOf({r \in members : utcDay(r.created) = day})
       IN  [state |-> CASE totals.runs = 0 -> "no-runs" [] totals.verdicts = 0 -> "no-verdicts" [] OTHER -> "value",
            runs |-> totals.runs, passed |-> totals.passed, verdicts |-> totals.verdicts]

\* Slip: unrecorded names are left out of "Other".
OtherRecorded(listed, by) == {r \in listed : nameOf(r, by) \notin topNames(listed, by) \cup {"Not recorded"}}

OtherSeries(listed, by) == {r \in listed : nameOf(r, by) \notin topNames(listed, by)}
qualityTrend(listed, by, day) ==
  [name \in topNames(listed, by) |-> trendDay(listed, named(listed, by, name), day)]
otherTrend(listed, by, day) == trendDay(listed, OtherSeries(listed, by), day)

\* Slip: the task is left out of the address.
runsFilterModel(model, task) == [DEFAULT_RUNS_VIEW EXCEPT !.model = IF model = "Not recorded" THEN "unknown" ELSE model]

\* The address of the run list for a served value; none for an unrecorded task.
runsFilter(model, task) ==
  [DEFAULT_RUNS_VIEW EXCEPT !.model = IF model = "Not recorded" THEN "unknown" ELSE model, !.task = task]

-----------------------------------------------------------------------------
(* Properties                                                              *)

FiguresTypeOK ==
  /\ clock \in 0..MaxClock /\ meter \in [AllDays -> 0..MaxRuns] /\ Len(store) <= MaxRuns
  /\ \A i \in DOMAIN store : /\ store[i].id = i /\ store[i].created \in 1..store[i].written
                             /\ store[i].written <= clock
                             /\ \E kind \in Kinds : store[i] = Row(i, store[i].created, store[i].written, kind)

\* The sum of the counts in f.
Total(f) == Cardinality(UNION {{x} \X (1..f[x]) : x \in DOMAIN f})

\* A comparison with the previous window is made only where the rows that were
\* read hold every run of it, whatever was written again since:
\* insight-aggregates.ts:35, "cannot prove a previous window it no longer covers".
ComparisonIsWhole ==
  LET c == compareWindow(rows, Today, Days)
  IN  c.complete => /\ c.previous = windowRuns(toInsightRuns(Stored), Today - Days, Days)
                    /\ c.current = windowRuns(toInsightRuns(Stored), Today, Days)

\* The status strip's median is of the days it names, or of no run at all
\* (LocalDashboardPage.tsx 2235-2237).
MedianIsOfWindow ==
  \A from, to \in AllDays :
    OverviewStatusStrip(rows, from, to)
      \in {{}, {run \in toInsightRuns(Stored) : run.day \in from..to}}

\* "One cause for a failed run ... so all four agree" (insights.ts 67-71).  The
\* figure is of the window chosen and its links have none: of the runs written in
\* the window, every one that the links list under a cause is in the figure beside
\* it, and the figure has no other but a run whose verdict was served as a text,
\* which the list does not read.  Both links list the same runs.
CausesAgree ==
  \A from, to \in AllDays :
    LET counted == causes(selectedRuns(toInsightRuns(rows), from..to))
        written(S) == {r \in S : utcDay(r.written) \in from..to}
        failed == filtered(rows, [DEFAULT_RUNS_VIEW EXCEPT !.status = "failed"])
        asText(cause) == {r \in rows : {r.gate, r.ok} \cap {TrueText, FalseText} # {}
                                       /\ failureCauseOf(r) = cause}
    IN  /\ {causeOf(r) : r \in written(failed)} \subseteq DOMAIN counted
        /\ \A cause \in DOMAIN counted :
             LET links == filtered(rows, causeHref(cause))
             IN  /\ counted[cause] >= Cardinality(written(links))
                 /\ counted[cause] <= Cardinality(written(links \cup asText(cause)))
                 /\ links = RecentRuns(rows, "failed", cause)

\* A cell of the matrix and a day of a trend open a list of as many runs as they
\* count (usage-analysis.tsx 179, 238), where the model and the task are named.
LinksListTheirRuns ==
  \A r \in rows :
    LET model == nameOf(r, "model") task == nameOf(r, "task")
        onDay(view) == [view EXCEPT !.day = utcDay(r.created)]
    IN  /\ (task # "Not recorded" /\ model \notin {"Not recorded", "delegate-skill"}) =>
             matrixCell(rows, model, task).runs = Cardinality(filtered(rows, runsFilter(model, task)))
        /\ trendDay(rows, rows, utcDay(r.created)).runs
             = Cardinality(filtered(rows, onDay(DEFAULT_RUNS_VIEW)))

\* The series of a trend, the last one "Other", add up to all runs of every day
\* (decision-analysis.ts 167-192): none is counted twice or in no series.
SeriesAddUp ==
  \A by \in {"model", "task"}, day \in AllDays :
    LET trend == qualityTrend(rows, by, day)
        all == trendDay(rows, rows, day)
    IN  \A field \in {"runs", "passed", "verdicts"} :
          all[field] = Total([name \in DOMAIN trend |-> trend[name][field]]) + otherTrend(rows, by, day)[field]

\* The percentiles are recorded durations at their nearest rank, and the median
\* of the charts lies between the middle two (decision-analysis.ts 52-57).
PercentileIsNearestRank ==
  LET values == latencies(rows)
      upTo(v) == Cardinality({i \in DOMAIN values : values[i] <= v})
      below(v) == Cardinality({i \in DOMAIN values : values[i] < v})
  IN  values # <<>> =>
        /\ \A p \in {1, 50, 95, 100} : LET v == percentile(values, p) IN
             100 * upTo(v) >= p * Len(values) /\ 100 * below(v) < p * Len(values)
        /\ LET m == medianTwice(values) IN
             /\ 2 * Cardinality({i \in DOMAIN values : 2 * values[i] <= m}) >= Len(values)
             /\ 2 * Cardinality({i \in DOMAIN values : 2 * values[i] >= m}) >= Len(values)

\* Each chart of a window counts each of its runs once: days, hours, durations
\* and groups (insights.ts 197-245).
ChartsCountEveryRun ==
  LET runs == windowRuns(toInsightRuns(rows), Today, Days)
      daily == dailySeries(runs, Today, Days)
      hours == hourGrid(runs, Today, Days)
  IN  /\ Total([day \in DOMAIN daily |-> daily[day].runs]) = Cardinality(runs)
      /\ \A day \in DOMAIN daily : Total(hours[day]) = daily[day].runs
      /\ Total(durationBuckets(runs)) + Count(runs, LAMBDA run : run.latency < 0) = Cardinality(runs)
      /\ \A field \in {"model", "task"} :
           LET groups == countBy(runs, field)
           IN  Total([key \in DOMAIN groups |-> groups[key].runs]) = Cardinality(runs)

\* A filled day's parts add up to the served total and none is negative, also
\* when runs were written again on another day since the summary counted them.
FilledDaysAddUp ==
  LET days == meteringFilledDays(rows)
  IN  \A day \in AllDays : LET of == days[day] IN
        /\ of.passed >= 0 /\ of.failed >= 0 /\ of.unrecorded >= 0
        /\ of.passed + of.failed + of.unrecorded = of.runs

\* The three checks of the figures that a reader compares: windows that the rows
\* read hold whole, readings of one result that agree, and counts that add up.
WindowsAreWhole == ComparisonIsWhole /\ MedianIsOfWindow
ReadingsAgree == CausesAgree /\ LinksListTheirRuns
CountsAddUp == SeriesAddUp /\ PercentileIsNearestRank /\ ChartsCountEveryRun /\ FilledDaysAddUp
=============================================================================
