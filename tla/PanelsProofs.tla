---------------------------- MODULE PanelsProofs ----------------------------
(***************************************************************************)
(* The delegation control plane, the command palette and the trace        *)
(* explorer, for any values of their constants.  All steps of the control  *)
(* plane but those of the trace read are one Commit with different         *)
(* arguments: CommitKeeps is proved once, and each action only owes the    *)
(* types of what it commits.                                               *)
(***************************************************************************)
EXTENDS MCPanels, WellFoundedInduction, FiniteSetTheorems, TLAPS

Form == [open : BOOLEAN, phase : {"idle", "submitting", "accepted", "error"},
         of : Ids \cup {NoRun}]
Trace == [id : Ids \cup {NoRun}, rows : Ids \cup {NoRun}, loading : BOOLEAN,
          error : BOOLEAN, out : BOOLEAN]

\* What is mounted follows the projections; what is not has its first state.
Mounts == /\ tab = "unmounted" <=> ~Visible(reading)
          /\ tab = "unmounted" => form = Closed
          /\ tab # "correlation-trace" => trace = NoTrace
          /\ trace.out => trace.id # NoRun

IInv == TypeOK /\ Mounts /\ TraceOfSelected

-----------------------------------------------------------------------------
(* The selected run                                                        *)

\* A nonempty set of runs has a newest one, and Newest is it: buildRuns sorts
\* by time, and the first row is selected.
LEMMA NewestListed ==
  ASSUME NEW runs \in SUBSET Ids, runs # {}
  PROVE  Newest(runs) \in runs
<1> DEFINE Ages == {MaxRun - r : r \in runs}
<1>1. \A r \in runs : MaxRun - r \in Nat
  BY DelegationValues DEF Ids
<1>2. PICK age \in Ages : \A other \in Ages : age <= other
  <2>1. Ages # {} /\ Ages \in SUBSET Nat
    BY <1>1
  <2> HIDE DEF Ages
  <2>2. PICK age \in Ages : \A other \in Ages : <<other, age>> \notin OpToRel(<, Nat)
    BY <2>1, WFMin, NatLessThanWellFounded
  <2>3. \A other \in Ages : ~(other < age)
    BY <2>1, <2>2 DEF OpToRel
  <2> QED BY <2>1, <2>3
<1>3. PICK r \in runs : age = MaxRun - r
  BY <1>2
<1>4. \A s \in runs : ~(s > r)
  <2> TAKE s \in runs
  <2>1. MaxRun - r <= MaxRun - s
    BY <1>2, <1>3
  <2> QED BY <2>1, DelegationValues DEF Ids
<1>5. r \in runs /\ Newer(runs, r) = {}
  BY <1>4 DEF Newer
<1> QED BY <1>5 DEF Newest, Newer

\* The id the trace panel reads is an id or none.
LEMMA IdTyped ==
  ASSUME NEW queries \in [Probes -> Reading], NEW choice, NEW waiting \in Ids \cup {NoRun}
  PROVE  correlationId(queries, choice, waiting) \in Ids \cup {NoRun}
<1>1. buildRuns(queries) \in SUBSET Ids
  BY DEF buildRuns, Reading
<1> QED BY <1>1, NewestListed DEF correlationId, selectedRun

-----------------------------------------------------------------------------
(* One commit                                                              *)

\* A commit of typed arguments keeps every part but the count of dispatches.
LEMMA CommitKeeps ==
  ASSUME IInv,
         NEW queries \in [Probes -> Reading], NEW choice \in Ids \cup {NoRun},
         NEW waiting \in Ids \cup {NoRun}, NEW askedTab \in Tabs \cup {"unmounted"},
         tab # "unmounted" => askedTab # "unmounted",
         NEW askedForm \in Form, tab = "unmounted" => askedForm = Closed,
         Commit(queries, choice, waiting, askedTab, askedForm),
         posts' \in 0..MaxPosts, form'.phase = "submitting" => posts' > 0
  PROVE  IInv'
<1> DEFINE id == correlationId(queries, choice, waiting)
           shown == tab' = "correlation-trace"
<1>1. id \in Ids \cup {NoRun}
  BY IdTyped
<1>2. /\ reading' = queries /\ chosen' = choice /\ pending' = waiting
      /\ tab' = TabAfter(queries, waiting, askedTab)
      /\ form' = IF Visible(queries) THEN askedForm ELSE Closed
      /\ trace' = TraceAfter(shown, id) /\ late' = Cancelled(shown, id)
  BY DEF Commit
<1>3. tab' \in Tabs \cup {"unmounted"} /\ (tab' = "unmounted" <=> ~Visible(queries))
  BY <1>2 DEF TabAfter, Tabs, IInv, TypeOK
<1>4. Closed \in Form /\ NoTrace \in Trace
  BY DEF Closed, Form, NoTrace, Panel, Trace
<1>5. trace \in Trace /\ late \subseteq Ids
  BY DEF IInv, TypeOK, Trace
<1> HIDE DEF id, shown
<1>6. /\ trace' \in Trace
      /\ ~shown => trace' = NoTrace
      /\ shown => trace'.id = id /\ (~trace'.loading /\ ~trace'.error => trace'.rows \in {id, NoRun})
      /\ trace'.out => trace'.id # NoRun
  <2>1. CASE ~shown
    BY <2>1, <1>2, <1>4 DEF TraceAfter, NoTrace, Panel
  <2>2. CASE shown /\ tab = "correlation-trace" /\ id = trace.id
    BY <2>2, <1>2, <1>5 DEF TraceAfter, IInv, TraceOfSelected, Mounts
  <2>3. CASE shown /\ ~(tab = "correlation-trace" /\ id = trace.id) /\ id = NoRun
    BY <2>3, <1>2, <1>5 DEF TraceAfter, Panel, Trace
  <2>4. CASE shown /\ ~(tab = "correlation-trace" /\ id = trace.id) /\ id # NoRun
    BY <2>4, <1>1, <1>2, <1>5 DEF TraceAfter, Panel, Trace
  <2> QED BY <2>1, <2>2, <2>3, <2>4
<1>7. late' \subseteq Ids
  BY <1>2, <1>5 DEF Cancelled, IInv, Mounts, Trace
<1>8. TypeOK'
  BY <1>2, <1>3, <1>4, <1>6, <1>7 DEF TypeOK, Form, Trace
<1>9. Mounts'
  BY <1>2, <1>3, <1>6 DEF Mounts, shown, Visible, hasAnyData, primaryError, buildRuns
<1>10. TraceOfSelected'
  BY <1>2, <1>6 DEF TraceOfSelected, shown, id
<1> QED BY <1>8, <1>9, <1>10 DEF IInv

\* The form a poll or a click commits is the form there is.
LEMMA FormKept ==
  ASSUME IInv
  PROVE  /\ form \in Form /\ (tab = "unmounted" => form = Closed)
         /\ reading \in [Probes -> Reading] /\ chosen \in Ids \cup {NoRun}
         /\ pending \in Ids \cup {NoRun} /\ tab \in Tabs \cup {"unmounted"}
         /\ posts \in 0..MaxPosts /\ (form.phase = "submitting" => posts > 0)
BY DEF IInv, TypeOK, Mounts, Form

\* Whatever a projection answers, the commit of its answer keeps the invariant.
LEMMA PollKeeps ==
  ASSUME IInv, NEW queries \in [Probes -> Reading], PollStep(queries)
  PROVE  IInv'
<1>1. Commit(queries, chosen, pending, tab, form) /\ posts' = posts
  BY DEF PollStep
<1>2. form'.phase = "submitting" => posts' > 0
  BY <1>1, FormKept DEF Commit, Closed
<1> QED BY <1>1, <1>2, FormKept, CommitKeeps

\* Each disjunct of Next is a commit of typed arguments or a step of the trace.
LEMMA PollsKeep ==
  ASSUME IInv, PollNext
  PROVE  IInv'
<1>1. PICK p \in Probes : Polled(p) \/ Refused(p) \/ Retried(p)
  BY DEF PollNext
<1>2. \A row \in Reading : [reading EXCEPT ![p] = row] \in [Probes -> Reading]
  BY FormKept
<1>3. reading[p] \in Reading
  BY FormKept
<1>4. CASE Polled(p)
  <2>1. PICK row \in Rows(p) : PollStep([reading EXCEPT ![p] = row])
    BY <1>4 DEF Polled
  <2>2. row \in Reading
    BY DEF Rows
  <2> QED BY <2>1, <2>2, <1>2, PollKeeps
<1>5. CASE Refused(p)
  <2> DEFINE row == [status |-> "error", runs |-> reading[p].runs, counts |-> reading[p].counts]
  <2>1. row \in Reading
    BY <1>3 DEF Reading
  <2>2. PollStep([reading EXCEPT ![p] = row])
    BY <1>5 DEF Refused
  <2> QED BY <2>1, <2>2, <1>2, PollKeeps
<1>6. CASE Retried(p)
  <2>1. Unread \in Reading
    BY DEF Unread, Reading
  <2>2. PollStep([reading EXCEPT ![p] = Unread])
    BY <1>6 DEF Retried
  <2> QED BY <2>1, <2>2, <1>2, PollKeeps
<1> QED BY <1>1, <1>4, <1>5, <1>6

\* The user's clicks in the table, the tabs and the form.
LEMMA UserKeeps ==
  ASSUME IInv, UserNext
  PROVE  IInv'
<1> USE FormKept
<1>1. ASSUME NEW run \in Ids, selectRun(run)
      PROVE  IInv'
  <2>1. /\ tab # "unmounted" /\ posts' = posts
        /\ Commit(reading, run, pending, tab, form)
    BY <1>1 DEF selectRun, UserStep, Mounted
  <2>2. form'.phase = "submitting" => posts' > 0
    BY <2>1 DEF Commit, Closed
  <2> QED BY <2>1, <2>2, CommitKeeps
<1>2. ASSUME NEW t \in Tabs, setActiveTab(t)
      PROVE  IInv'
  <2>1. /\ tab # "unmounted" /\ posts' = posts
        /\ Commit(reading, chosen, pending, t, form)
    BY <1>2 DEF setActiveTab, UserStep, Mounted
  <2>2. form'.phase = "submitting" => posts' > 0
    BY <2>1 DEF Commit, Closed
  <2>3. t # "unmounted" /\ t \in Tabs \cup {"unmounted"}
    BY DEF Tabs
  <2> QED BY <2>1, <2>2, <2>3, CommitKeeps
<1>3. ASSUME NEW asked \in Form, FormStep(asked), posts' \in 0..MaxPosts,
             asked.phase = "submitting" => posts' > 0
      PROVE  IInv'
  <2>1. tab # "unmounted" /\ Commit(reading, chosen, pending, tab, asked)
    BY <1>3 DEF FormStep, Mounted
  <2>2. form'.phase = "submitting" => posts' > 0
    BY <2>1, <1>3 DEF Commit, Closed
  <2> QED BY <2>1, <2>2, <1>3, CommitKeeps
<1>4. CASE Open
  <2> DEFINE asked == [open |-> TRUE, phase |-> form.phase, of |-> form.of]
  <2>1. asked \in Form
    BY DEF Form
  <2>2. FormStep(asked) /\ posts' = posts
    BY <1>4 DEF Open
  <2> QED BY <2>1, <2>2, <1>3
<1>5. CASE Close
  <2>1. Closed \in Form /\ Closed.phase = "idle"
    BY DEF Form, Closed
  <2>2. FormStep(Closed) /\ posts' = posts
    BY <1>5 DEF Close
  <2> QED BY <2>1, <2>2, <1>3
<1>6. CASE handleReset
  <2> DEFINE asked == [open |-> TRUE, phase |-> "idle", of |-> NoRun]
  <2>1. asked \in Form
    BY DEF Form
  <2>2. FormStep(asked) /\ posts' = posts
    BY <1>6 DEF handleReset
  <2> QED BY <2>1, <2>2, <1>3
<1>7. CASE handleSubmit
  <2> DEFINE asked == [open |-> TRUE, phase |-> "submitting", of |-> NoRun]
  <2>1. asked \in Form
    BY DEF Form
  <2>2. FormStep(asked) /\ posts' = posts + 1 /\ posts < MaxPosts
    BY <1>7 DEF handleSubmit
  <2>3. posts' \in 0..MaxPosts /\ posts' > 0
    BY <2>2, DelegationValues
  <2> QED BY <2>1, <2>2, <2>3, <1>3
<1> QED BY <1>1, <1>2, <1>4, <1>5, <1>6, <1>7 DEF UserNext

\* The answers of dispatches, of the form there is and of forms that are gone.
LEMMA PostsKeep ==
  ASSUME IInv, PostNext
  PROVE  IInv'
<1> USE FormKept
<1>1. ASSUME NEW mine \in BOOLEAN, NEW id \in Ids, Accepted(id, mine)
      PROVE  IInv'
  <2> DEFINE asked == IF mine THEN [open |-> form.open, phase |-> "accepted", of |-> id] ELSE form
  <2>1. /\ posts > 0 /\ posts' = posts - 1
        /\ IF mine THEN form.phase = "submitting" ELSE posts > 1 \/ form.phase # "submitting"
        /\ Commit(reading, chosen, id, tab, asked)
    BY <1>1 DEF Accepted
  <2>2. posts' \in 0..MaxPosts
    BY <2>1, DelegationValues
  <2>3. asked \in Form /\ (asked.phase = "submitting" => posts' > 0)
    BY <2>1 DEF Form
  <2>4. tab = "unmounted" => asked = Closed
    <3>1. CASE mine
      BY <2>1, <3>1 DEF Closed
    <3>2. CASE ~mine
      BY <3>2
    <3> QED BY <3>1, <3>2
  <2>5. form'.phase = "submitting" => posts' > 0
    BY <2>1, <2>3 DEF Commit, Closed
  <2> HIDE DEF asked
  <2> QED BY <2>1, <2>2, <2>3, <2>4, <2>5, CommitKeeps
<1>2. ASSUME NEW mine \in BOOLEAN, Failed(mine)
      PROVE  IInv'
  <2> DEFINE asked == IF mine THEN [open |-> form.open, phase |-> "error", of |-> NoRun] ELSE form
  <2>1. /\ posts > 0 /\ posts' = posts - 1
        /\ IF mine THEN form.phase = "submitting" ELSE posts > 1 \/ form.phase # "submitting"
        /\ Commit(reading, chosen, pending, tab, asked)
    BY <1>2 DEF Failed
  <2>2. posts' \in 0..MaxPosts
    BY <2>1, DelegationValues
  <2>3. asked \in Form /\ (asked.phase = "submitting" => posts' > 0)
    BY <2>1 DEF Form
  <2>4. tab = "unmounted" => asked = Closed
    <3>1. CASE mine
      BY <2>1, <3>1 DEF Closed
    <3>2. CASE ~mine
      BY <3>2
    <3> QED BY <3>1, <3>2
  <2>5. form'.phase = "submitting" => posts' > 0
    BY <2>1, <2>3 DEF Commit, Closed
  <2> HIDE DEF asked
  <2> QED BY <2>1, <2>2, <2>3, <2>4, <2>5, CommitKeeps
<1> QED BY <1>1, <1>2 DEF PostNext

-----------------------------------------------------------------------------
(* The trace read                                                          *)

\* The end of a read, and the answer of a cancelled one.
LEMMA TraceStepKeeps ==
  ASSUME IInv, NEW t, NEW cancelled \in SUBSET Ids, TraceStep(t, cancelled),
         t \in Trace, t.id = trace.id, t.out => trace.out,
         tab # "correlation-trace" => t = trace,
         ~t.loading /\ ~t.error => t.rows \in {t.id, NoRun} \/ t = trace
  PROVE  IInv'
<1>1. /\ trace' = t /\ late' = cancelled /\ tab' = tab /\ form' = form /\ posts' = posts
      /\ reading' = reading /\ chosen' = chosen /\ pending' = pending
  BY DEF TraceStep
<1>2. TypeOK'
  BY <1>1 DEF IInv, TypeOK, Trace
<1>3. Mounts'
  BY <1>1 DEF IInv, Mounts, Visible, hasAnyData, primaryError, buildRuns
<1>4. TraceOfSelected'
  <2>1. correlationId(reading, chosen, pending)' = correlationId(reading, chosen, pending)
    BY <1>1 DEF correlationId, selectedRun, buildRuns
  <2> QED BY <1>1, <2>1 DEF IInv, TraceOfSelected
<1> QED BY <1>2, <1>3, <1>4 DEF IInv

LEMMA TraceKeeps ==
  ASSUME IInv, TraceEnds \/ \E id \in late : LateAnswer(id)
  PROVE  IInv'
<1>1. trace \in Trace /\ late \in SUBSET Ids
  BY DEF IInv, TypeOK, Trace
<1>2. trace.out => tab = "correlation-trace"
  BY DEF IInv, Mounts, NoTrace, Panel
<1>3. ASSUME NEW read \in Ids \cup {NoRun}, TraceRead(read)
      PROVE  IInv'
  <2> DEFINE t == Panel(trace.id, read, FALSE, trace.error, FALSE)
  <2>1. trace.out /\ read \in {trace.id, NoRun} /\ TraceStep(t, late)
    BY <1>3 DEF TraceRead
  <2>2. t \in Trace /\ t.id = trace.id /\ t.rows = read /\ t.out = FALSE
    BY <1>1 DEF Panel, Trace
  <2> HIDE DEF t
  <2> QED BY <1>1, <1>2, <2>1, <2>2, TraceStepKeeps
<1>4. CASE TraceFailed
  <2> DEFINE t == Panel(trace.id, trace.rows, FALSE, TRUE, FALSE)
  <2>1. trace.out /\ TraceStep(t, late)
    BY <1>4 DEF TraceFailed
  <2>2. t \in Trace /\ t.id = trace.id /\ t.error = TRUE /\ t.out = FALSE
    BY <1>1 DEF Panel, Trace
  <2> HIDE DEF t
  <2> QED BY <1>1, <1>2, <2>1, <2>2, TraceStepKeeps
<1>5. ASSUME NEW id \in late, LateAnswer(id)
      PROVE  IInv'
  <2>1. TraceStep(trace, late \ {id}) /\ late \ {id} \in SUBSET Ids
    BY <1>1, <1>5 DEF LateAnswer
  <2> QED BY <1>1, <2>1, TraceStepKeeps
<1> QED BY <1>3, <1>4, <1>5 DEF TraceEnds, TraceNext

-----------------------------------------------------------------------------
(* The theorems                                                            *)

\* Every step keeps the parts together.
THEOREM DelegationInductive == Spec => []IInv
<1>1. Init => IInv
  <2> SUFFICES ASSUME Init PROVE IInv
    OBVIOUS
  <2>1. TypeOK
    BY DelegationValues DEF Init, TypeOK, Unread, Reading, Closed, NoTrace, Panel, NoRun
  <2>2. ~Visible(reading)
    BY DEF Init, Visible, hasAnyData, buildRuns, Unread
  <2> QED BY <2>1, <2>2 DEF Init, IInv, Mounts, TraceOfSelected, NoTrace, Panel
<1>2. IInv /\ [Next]_vars => IInv'
  <2> SUFFICES ASSUME IInv, [Next]_vars PROVE IInv'
    OBVIOUS
  <2>1. CASE UNCHANGED vars
    BY <2>1 DEF vars, IInv, TypeOK, Mounts, TraceOfSelected, Visible, hasAnyData,
                primaryError, buildRuns, correlationId, selectedRun
  <2> QED BY <2>1, PollsKeep, UserKeeps, PostsKeep, TraceKeeps DEF Next
<1> QED BY <1>1, <1>2, PTL DEF Spec

\* The panel shows the trace of the selected run: after any order of polls,
\* clicks, dispatches and late answers.
THEOREM TraceIsOfSelected == Spec => [](TypeOK /\ TraceOfSelected)
<1>1. IInv => TypeOK /\ TraceOfSelected
  BY DEF IInv
<1> QED BY <1>1, DelegationInductive, PTL

\* Only a step that changes the selected run reads its trace again.
THEOREM PollsLeaveTrace == Spec => PollKeepsTrace
<1> DEFINE Step == /\ reading' # reading /\ tab = tab'
                   /\ correlationId(reading', chosen', pending')
                        = correlationId(reading, chosen, pending)
                   => trace' = trace
<1>1. IInv /\ IInv' /\ [Next]_vars => [Step]_vars
  <2> SUFFICES ASSUME IInv, IInv', Next, reading' # reading, tab = tab',
                      correlationId(reading', chosen', pending')
                        = correlationId(reading, chosen, pending)
               PROVE  trace' = trace
    OBVIOUS
  <2>1. \A t, cancelled : ~TraceStep(t, cancelled)
    BY DEF TraceStep
  <2>2. \E queries, choice, waiting, askedTab, asked :
          Commit(queries, choice, waiting, askedTab, asked)
    <3>1. CASE PollNext
      BY <3>1, Zenon DEF PollNext, Polled, Refused, Retried, PollStep
    <3>2. CASE UserNext
      BY <3>2, Zenon DEF UserNext, selectRun, setActiveTab, UserStep, Open, Close, handleReset,
                  handleSubmit, FormStep
    <3>3. CASE PostNext
      BY <3>3, Zenon DEF PostNext, Accepted, Failed
    <3>4. ~TraceEnds /\ ~(\E id \in late : LateAnswer(id))
      BY <2>1 DEF TraceEnds, TraceNext, TraceRead, TraceFailed, LateAnswer
    <3> QED BY <3>1, <3>2, <3>3, <3>4 DEF Next
  <2>3. trace' = TraceAfter(tab' = "correlation-trace", correlationId(reading', chosen', pending'))
    BY <2>2 DEF Commit
  <2>4. CASE tab = "correlation-trace"
    BY <2>3, <2>4 DEF TraceAfter, IInv, TraceOfSelected
  <2>5. CASE tab # "correlation-trace"
    BY <2>5 DEF IInv, Mounts
  <2> QED BY <2>4, <2>5
<1> QED BY <1>1, DelegationInductive, PTL DEF Spec, PollKeepsTrace

\* A form whose dispatch is out is lost to the projections only.
THEOREM DispatchesLostToReads == Spec => DispatchLostOnlyToReads
<1> DEFINE Step == form.phase = "submitting" /\ posts' = posts /\ form'.phase # "submitting"
                   => ~Visible(reading')
<1>1. IInv /\ [Next]_vars => [Step]_vars
  <2> SUFFICES ASSUME IInv, Next, form.phase = "submitting", posts' = posts,
                      form'.phase # "submitting", Visible(reading')
               PROVE  FALSE
    OBVIOUS
  <2>1. \A queries, choice, waiting, askedTab :
          ~Commit(queries, choice, waiting, askedTab, form)
    BY DEF Commit
  <2>2. posts \in Nat
    BY DelegationValues DEF IInv, TypeOK
  <2>3. CASE PollNext
    BY <2>1, <2>3, Zenon DEF PollNext, Polled, Refused, Retried, PollStep
  <2>4. CASE UserNext
    <3>1. ~\E run \in Ids : selectRun(run)
      BY <2>1 DEF selectRun, UserStep
    <3>2. ~\E t \in Tabs : setActiveTab(t)
      BY <2>1 DEF setActiveTab, UserStep
    <3>3. ~Open
      BY DEF Open, FormStep, Commit
    <3>4. ~Close /\ ~handleReset /\ ~handleSubmit
      BY DEF Close, handleReset, handleSubmit
    <3> QED BY <2>4, <3>1, <3>2, <3>3, <3>4 DEF UserNext
  <2>5. ~PostNext
    <3>1. PostNext => posts' = posts - 1
      BY Zenon DEF PostNext, Accepted, Failed
    <3> QED BY <2>2, <3>1
  <2>6. \A t, cancelled : ~TraceStep(t, cancelled)
    BY DEF TraceStep
  <2>7. ~TraceEnds /\ ~(\E id \in late : LateAnswer(id))
    BY <2>6 DEF TraceEnds, TraceNext, TraceRead, TraceFailed, LateAnswer
  <2> QED BY <2>3, <2>4, <2>5, <2>7 DEF Next
<1> QED BY <1>1, DelegationInductive, PTL DEF Spec, DispatchLostOnlyToReads

-----------------------------------------------------------------------------
(* The command palette                                                     *)

\* A highlight over list: on one of its rows, or over none of an empty list.
OnRow(list, index) ==
  \/ index + 1 \in DOMAIN list
  \/ list = <<>> /\ index \in {-1, 0}

\* In the payload stage the highlight waits for the way back to the list, and a
\* node is chosen, so that a dispatch is never out for none.
PaletteInv ==
  /\ palette \in [stage : {"closed", "search", "payload", "result"}, query : Queries, index : Int,
                  node : Nodes \cup {NoNode}, dispatch : {"idle", "sending", "success", "error"}]
  /\ palette.stage \in {"search", "payload"} => OnRow(filtered(palette), palette.index)
  /\ palette.stage = "payload" => palette.node \in Nodes
  /\ palette.stage = "closed" => palette.dispatch = "idle"
  /\ OneDispatchOut

LEMMA ListOf ==
  ASSUME NEW q \in Queries
  PROVE  /\ Len(Match[q]) \in Nat /\ DOMAIN Match[q] = 1..Len(Match[q])
         /\ Match[q] \in Seq(Nodes)
         /\ Match[q] = <<>> <=> Len(Match[q]) = 0
BY PaletteValues

\* The arrows and a new query keep the highlight on a row.
LEMMA HighlightMoves ==
  ASSUME NEW q \in Queries
  PROVE  /\ OnRow(Match[q], 0)
         /\ \A k \in Int : OnRow(Match[q], k) =>
              /\ OnRow(Match[q], Least(k + 1, Len(Match[q]) - 1))
              /\ OnRow(Match[q], Most(k - 1, 0))
              /\ Least(k + 1, Len(Match[q]) - 1) \in Int /\ Most(k - 1, 0) \in Int
<1> DEFINE n == Len(Match[q])
<1>1. n \in Nat /\ DOMAIN Match[q] = 1..n /\ (Match[q] = <<>> <=> n = 0)  BY ListOf
<1> HIDE DEF n
<1>2. \A k \in Int : OnRow(Match[q], k) <=> (k \in 0..n-1 \/ (n = 0 /\ k \in {-1, 0}))
  BY <1>1 DEF OnRow
<1>3. OnRow(Match[q], 0)  BY <1>1, <1>2
<1>4. ASSUME NEW k \in Int, OnRow(Match[q], k)
      PROVE  /\ Least(k + 1, n - 1) \in Int /\ Most(k - 1, 0) \in Int
             /\ OnRow(Match[q], Least(k + 1, n - 1)) /\ OnRow(Match[q], Most(k - 1, 0))
  <2>1. Least(k + 1, n - 1) \in Int /\ Most(k - 1, 0) \in Int  BY <1>1 DEF Least, Most
  <2>2. k \in 0..n-1 \/ (n = 0 /\ k \in {-1, 0})  BY <1>2, <1>4
  <2>3. Least(k + 1, n - 1) \in 0..n-1 \/ (n = 0 /\ Least(k + 1, n - 1) \in {-1, 0})
    BY <1>1, <2>2 DEF Least
  <2>4. Most(k - 1, 0) \in 0..n-1 \/ (n = 0 /\ Most(k - 1, 0) \in {-1, 0})
    BY <1>1, <2>2 DEF Most
  <2> QED BY <1>2, <2>1, <2>3, <2>4
<1> QED BY <1>3, <1>4 DEF n

LEMMA PaletteStarts == PaletteInit => PaletteInv
BY PaletteValues DEF PaletteInit, PaletteInv, Unmounted, OneDispatchOut

\* Every step of the palette, by its stage.
LEMMA PaletteKeeps ==
  ASSUME PaletteInv, [PaletteNext]_paletteVars
  PROVE  PaletteInv'
<1> DEFINE P == [stage : {"closed", "search", "payload", "result"}, query : Queries, index : Int,
                 node : Nodes \cup {NoNode}, dispatch : {"idle", "sending", "success", "error"}]
<1>1. palette \in P /\ NoQuery \in Queries /\ NoNode \notin Nodes
  BY PaletteValues DEF PaletteInv
<1>2. CASE toggleOpen
  <2>1. palette' = Opened /\ UNCHANGED current /\ palette.stage = "closed"  BY <1>2 DEF toggleOpen
  <2>2. current = NoNode  BY <2>1 DEF PaletteInv, OneDispatchOut
  <2>3. Opened \in P /\ Opened.query = NoQuery /\ Opened.index = 0 /\ Opened.dispatch = "idle"
        /\ Opened.stage = "search"
    BY <1>1 DEF Opened, Unmounted
  <2> QED BY <1>1, <2>1, <2>2, <2>3, HighlightMoves DEF PaletteInv, OneDispatchOut, filtered
<1>3. CASE onClose
  <2>1. palette' = Unmounted /\ current' = NoNode  BY <1>3 DEF onClose
  <2>2. Unmounted \in P /\ Unmounted.dispatch = "idle" /\ Unmounted.stage = "closed"
    BY <1>1 DEF Unmounted
  <2> QED BY <2>1, <2>2 DEF PaletteInv, OneDispatchOut
<1>4. ASSUME palette.stage = "search", palette' \in P, UNCHANGED current,
             palette'.stage = "search" \/ (palette'.stage = "payload" /\ palette'.node \in Nodes),
             palette'.dispatch = palette.dispatch, OnRow(filtered(palette'), palette'.index)
      PROVE  PaletteInv'
  BY <1>4 DEF PaletteInv, OneDispatchOut
<1>5. ASSUME NEW q \in Queries, setQuery(q)
      PROVE  PaletteInv'
  <2> DEFINE k == 0
  <2>1. palette.stage = "search" /\ UNCHANGED current /\ palette' = [palette EXCEPT !.query = q, !.index = k]
    BY <1>5 DEF setQuery, Search
  <2>4. k \in Int /\ k = 0  OBVIOUS
  <2> HIDE DEF k
  <2>2. palette' \in P  BY <1>1, <2>1, <2>4
  <2>3. /\ palette'.query = q /\ palette'.index = 0 /\ palette'.stage = "search"
        /\ palette'.dispatch = palette.dispatch
    BY <1>1, <2>1, <2>4
  <2> QED BY <1>4, <2>1, <2>2, <2>3, HighlightMoves DEF filtered
<1>6. CASE ArrowDown \/ ArrowUp
  <2> DEFINE down == Least(palette.index + 1, Len(filtered(palette)) - 1)
             up == Most(palette.index - 1, 0)
  <2>1. PICK k \in {down, up} : palette.stage = "search" /\ palette' = [palette EXCEPT !.index = k]
                                /\ UNCHANGED current
    BY <1>6 DEF ArrowDown, ArrowUp, Search
  <2>2. palette.query \in Queries /\ palette.index \in Int /\ OnRow(Match[palette.query], palette.index)
    BY <1>1, <2>1 DEF PaletteInv, filtered
  <2>3. k \in Int /\ OnRow(Match[palette.query], k)  BY <2>2, HighlightMoves DEF filtered
  <2> HIDE DEF down, up
  <2>4. /\ palette' \in P /\ palette'.query = palette.query /\ palette'.index = k
        /\ palette'.stage = "search" /\ palette'.dispatch = palette.dispatch
    BY <1>1, <2>1, <2>3
  <2> QED BY <1>4, <2>1, <2>3, <2>4 DEF filtered
<1>7. CASE Enter \/ Click
  <2>1. PICK k \in DOMAIN filtered(palette) : handleSelect(filtered(palette)[k])
    BY <1>7 DEF Enter, Click
  <2> DEFINE node == filtered(palette)[k]
  <2>2. palette.query \in Queries  BY <1>1
  <2>3. node \in Nodes  BY <2>1, <2>2, ListOf DEF filtered
  <2>4. /\ palette.stage = "search" /\ palette' = [palette EXCEPT !.stage = "payload", !.node = node]
        /\ UNCHANGED current
    BY <2>1 DEF handleSelect, Search
  <2> HIDE DEF node
  <2>5. /\ palette' \in P /\ palette'.query = palette.query /\ palette'.index = palette.index
        /\ palette'.stage = "payload" /\ palette'.node = node /\ palette'.dispatch = palette.dispatch
    BY <1>1, <2>3, <2>4
  <2>6. OnRow(filtered(palette'), palette'.index)  BY <2>4, <2>5 DEF PaletteInv, filtered
  <2> QED BY <1>4, <2>3, <2>4, <2>5, <2>6
<1>8. CASE Back
  <2>1. /\ palette.stage = "payload" /\ palette' = [palette EXCEPT !.stage = "search", !.node = NoNode]
        /\ UNCHANGED current
    BY <1>8 DEF Back
  <2>2. /\ palette' \in P /\ palette'.query = palette.query /\ palette'.index = palette.index
        /\ palette'.stage = "search" /\ palette'.dispatch = palette.dispatch
    BY <1>1, <2>1
  <2> QED BY <2>1, <2>2 DEF PaletteInv, OneDispatchOut, filtered
<1>9. CASE handleDispatch
  <2>1. /\ palette.stage = "payload" /\ palette' = [palette EXCEPT !.dispatch = "sending"]
        /\ current' = palette.node
    BY <1>9 DEF handleDispatch
  <2>2. /\ palette' \in P /\ palette'.query = palette.query /\ palette'.index = palette.index
        /\ palette'.stage = "payload" /\ palette'.dispatch = "sending" /\ palette'.node = palette.node
    BY <1>1, <2>1
  <2> QED BY <1>1, <2>1, <2>2 DEF PaletteInv, OneDispatchOut, filtered
<1>10. CASE PaletteAnswer
  <2>1. CASE OrphanAnswered
    BY <2>1 DEF OrphanAnswered, PaletteInv, OneDispatchOut
  <2>2. ASSUME NEW outcome \in {"success", "error"}, Answered(outcome)
        PROVE  PaletteInv'
    <3>1. palette' = [palette EXCEPT !.stage = "result", !.dispatch = outcome] /\ current' = NoNode
      BY <2>2 DEF Answered
    <3>2. palette' \in P /\ palette'.stage = "result" /\ palette'.dispatch = outcome  BY <1>1, <3>1
    <3> QED BY <3>1, <3>2 DEF PaletteInv, OneDispatchOut
  <2> QED BY <1>10, <2>1, <2>2 DEF PaletteAnswer
<1>11. CASE UNCHANGED paletteVars
  BY <1>11 DEF paletteVars, PaletteInv, OneDispatchOut
<1> QED BY <1>2, <1>3, <1>5, <1>6, <1>7, <1>8, <1>9, <1>10, <1>11 DEF PaletteNext

\* The result stage is entered by the answer of a dispatch that is out only.
LEMMA ResultEntered ==
  ASSUME PaletteInv, [PaletteNext]_paletteVars, palette.stage # "result", palette'.stage = "result"
  PROVE  answered' = current /\ current # NoNode /\ palette.dispatch = "sending"
<1> DEFINE P == [stage : {"closed", "search", "payload", "result"}, query : Queries, index : Int,
                 node : Nodes \cup {NoNode}, dispatch : {"idle", "sending", "success", "error"}]
<1>1. palette \in P  BY DEF PaletteInv
<1>2. PaletteAnswer
  <2>1. ~(UNCHANGED paletteVars)  BY DEF paletteVars
  <2>2. ~toggleOpen /\ ~onClose  BY DEF toggleOpen, onClose, Opened, Unmounted
  <2>3. \A q : ~setQuery(q)  BY <1>1 DEF setQuery, Search
  <2>4. ~ArrowDown /\ ~ArrowUp  BY <1>1 DEF ArrowDown, ArrowUp, Search
  <2>5. \A node : ~handleSelect(node)  BY <1>1 DEF handleSelect, Search
  <2>6. ~Enter /\ ~Click  BY <2>5 DEF Enter, Click
  <2>7. ~Back /\ ~handleDispatch  BY <1>1 DEF Back, handleDispatch
  <2> QED BY <2>1, <2>2, <2>3, <2>4, <2>6, <2>7 DEF PaletteNext
<1>3. ~OrphanAnswered  BY DEF OrphanAnswered
<1> QED BY <1>2, <1>3 DEF PaletteAnswer, Answered, PaletteInv, OneDispatchOut

-----------------------------------------------------------------------------
(* The trace explorer                                                      *)

ExplorerInv ==
  /\ place \in {"explorer", "elsewhere"} /\ traceFilter \in Correlations \cup {AnyId}
  /\ rows \subseteq Events
  /\ displayCap \in Caps /\ offset \in Nat
  /\ OffsetOnPage /\ HandedIsTaken

\* Positions that are a page apart begin a page when one of them does.
LEMMA PageStarts ==
  ASSUME NEW cap \in Nat \ {0}
  PROVE  /\ 0 % cap = 0
         /\ \A at \in Nat : at % cap = 0 => (at + cap) % cap = 0
         /\ \A at \in Nat : at % cap = 0 /\ at > cap => (at - cap) % cap = 0
<1>1. \A page \in Nat : (cap * page) % cap = 0
  OBVIOUS
<1>2. ASSUME NEW at \in Nat, at % cap = 0
      PROVE  (at + cap) % cap = 0 /\ (at > cap => (at - cap) % cap = 0)
  <2> DEFINE page == at \div cap
  <2>1. page \in Nat /\ at = cap * page  BY <1>2
  <2> HIDE DEF page
  <2>2. at + cap = cap * (page + 1)  BY <2>1
  <2>3. ASSUME at > cap PROVE at - cap = cap * (page - 1) /\ page - 1 \in Nat
    <3>1. page # 0  BY <2>1, <2>3
    <3> QED BY <2>1, <3>1
  <2> QED BY <1>1, <2>1, <2>2, <2>3
<1>3. 0 % cap = 0  OBVIOUS
<1> QED BY <1>2, <1>3

LEMMA CapsTyped == DefaultCap \in Caps /\ \A cap \in Caps : cap \in Nat \ {0}
BY ExplorerValues DEF DefaultCap

\* The events that match are counted.
LEMMA MatchingCounted ==
  ASSUME NEW listed \in SUBSET Events, NEW f
  PROVE  Cardinality(filterTraceEvents(listed, f)) \in Nat
<1>1. filterTraceEvents(listed, f) \subseteq Events  BY DEF filterTraceEvents
<1> QED BY <1>1, ExplorerValues, FS_Subset, FS_CardinalityType

\* A handed id: the position is kept, or the first one of a page.
LEMMA TakeOverIs ==
  ASSUME NEW mounted \in BOOLEAN, NEW handed, NEW f, NEW at, TakeOver(mounted, handed, f, at)
  PROVE  /\ (offset' = at /\ filters' = f) \/ offset' = 0
         /\ traceFilter' \in {handed, AnyId} /\ (mounted => traceFilter' = AnyId)
BY DEF TakeOver

\* Each step moves the explorer, reads, or explores; only a read changes the rows.
LEMMA ExplorerSteps ==
  ASSUME ExplorerNext, place \in {"explorer", "elsewhere"}
  PROVE  \/ \E there \in {"explorer", "elsewhere"}, handed \in Correlations \cup {AnyId, traceFilter} :
              GoTo(there, handed)
         \/ \E listed \in SUBSET Events : Read(listed)
         \/ onPausedChange
         \/ \E cap \in Caps \cup {displayCap} : \E f : Explore(f, cap, 0)
         \/ Previous \/ NextPage
<1>1. ASSUME NEW there \in {"explorer", "elsewhere"}, setActivePage(there)
      PROVE  GoTo(there, traceFilter)
  BY <1>1 DEF setActivePage
<1>2. ASSUME NEW id, NEW there, handleOpenTrace(id, there)
      PROVE  GoTo(there, id)
  BY <1>2 DEF handleOpenTrace
<1>3. ASSUME NEW id, setTraceFilter(id)
      PROVE  GoTo(place, id)
  BY <1>3 DEF setTraceFilter
<1>4. ASSUME NEW f, updateFilter(f)
      PROVE  Explore(f, displayCap, 0)
  BY <1>4 DEF updateFilter
<1>5. ASSUME NEW cap, setDisplayCap(cap)
      PROVE  Explore(filters, cap, 0)
  BY <1>5 DEF setDisplayCap
<1>6. CASE \E there \in {"explorer", "elsewhere"} :
             setActivePage(there) \/ \E id \in Correlations : handleOpenTrace(id, there)
  BY <1>1, <1>2, <1>6
<1>7. CASE \E id \in Correlations : setTraceFilter(id)
  BY <1>3, <1>7
<1>8. CASE \E id \in Correlations \cup {AnyId}, narrow \in Narrow :
             updateFilter([correlationId |-> id, narrow |-> narrow])
  BY <1>4, <1>8
<1>9. CASE \E cap \in Caps : setDisplayCap(cap)
  BY <1>5, <1>9
<1> QED BY <1>6, <1>7, <1>8, <1>9 DEF ExplorerNext

\* The next position begins a page, and is past the last match only where it was.
NotStranding == Stranded' /\ ~Stranded => rows' # rows

LEMMA ExplorerStarts == ExplorerInit => ExplorerInv
<1> SUFFICES ASSUME ExplorerInit PROVE ExplorerInv  OBVIOUS
<1>1. /\ place \in {"explorer", "elsewhere"} /\ traceFilter = AnyId /\ rows = {}
      /\ displayCap = DefaultCap /\ offset = 0
  BY DEF ExplorerInit
<1>2. DefaultCap \in Nat \ {0} /\ DefaultCap \in Caps  BY CapsTyped
<1> QED BY <1>1, <1>2, PageStarts DEF ExplorerInv, OffsetOnPage, HandedIsTaken

LEMMA FirstPage ==
  ASSUME offset' = 0, rows' \subseteq Events, displayCap' \in Caps
  PROVE  offset' \in Nat /\ OffsetOnPage' /\ ~Stranded'
<1>1. matching' \in Nat  BY MatchingCounted DEF matching
<1>2. displayCap' \in Nat \ {0}  BY CapsTyped
<1>3. 0 % displayCap' = 0  BY <1>2, PageStarts
<1> QED BY <1>1, <1>3 DEF OffsetOnPage, Stranded

\* Every step of the explorer.
LEMMA ExplorerKeeps ==
  ASSUME ExplorerInv, [ExplorerNext]_explorerVars
  PROVE  ExplorerInv' /\ NotStranding
<1>1. /\ place \in {"explorer", "elsewhere"} /\ traceFilter \in Correlations \cup {AnyId}
      /\ rows \subseteq Events /\ displayCap \in Caps /\ displayCap \in Nat \ {0} /\ offset \in Nat
      /\ offset % displayCap = 0 /\ (place = "explorer" => traceFilter = AnyId)
      /\ DefaultCap \in Caps
  BY CapsTyped DEF ExplorerInv, OffsetOnPage, HandedIsTaken
<1>2. ASSUME NEW there \in {"explorer", "elsewhere"},
             NEW handed \in Correlations \cup {AnyId, traceFilter}, GoTo(there, handed)
      PROVE  ExplorerInv' /\ NotStranding
  <2>1. PICK f, at :
          /\ place' = there /\ rows' = rows /\ TakeOver(there = "explorer", handed, f, at)
          /\ \/ f = filters /\ at = offset /\ displayCap' = displayCap
             \/ at = 0 /\ displayCap' = DefaultCap
    BY <1>2 DEF GoTo
  <2>2. /\ (offset' = at /\ filters' = f) \/ offset' = 0
        /\ traceFilter' \in {handed, AnyId} /\ (there = "explorer" => traceFilter' = AnyId)
    BY <2>1, TakeOverIs
  <2>3. CASE offset' = 0
    BY <1>1, <2>1, <2>2, <2>3, FirstPage DEF ExplorerInv, HandedIsTaken, NotStranding
  <2>4. CASE offset' # 0
    <3>1. UNCHANGED <<rows, filters, offset, displayCap>>  BY <2>1, <2>2, <2>4
    <3>2. Stranded' = Stranded  BY <3>1 DEF Stranded, matching
    <3> QED BY <1>1, <2>1, <2>2, <3>1, <3>2 DEF ExplorerInv, OffsetOnPage, HandedIsTaken, NotStranding
  <2> QED BY <2>3, <2>4
<1>3. ASSUME NEW listed \in SUBSET Events, Read(listed)
      PROVE  ExplorerInv' /\ NotStranding
  <2>1. rows' = listed /\ UNCHANGED <<place, traceFilter, filters, displayCap, offset>>
    BY <1>3 DEF Read
  <2>2. rows' = rows => Stranded' = Stranded  BY <2>1 DEF Stranded, matching
  <2> QED BY <1>1, <2>1, <2>2 DEF ExplorerInv, OffsetOnPage, HandedIsTaken, NotStranding
<1>4. CASE UNCHANGED <<place, traceFilter, rows, filters, displayCap, offset>>
  <2>1. Stranded' = Stranded  BY <1>4 DEF Stranded, matching
  <2> QED BY <1>1, <1>4, <2>1 DEF ExplorerInv, OffsetOnPage, HandedIsTaken, NotStranding
<1>5. ASSUME NEW cap \in Caps \cup {displayCap}, NEW f, Explore(f, cap, 0)
      PROVE  ExplorerInv' /\ NotStranding
  <2>1. offset' = 0 /\ displayCap' = cap /\ UNCHANGED <<place, traceFilter, rows>>
    BY <1>5 DEF Explore
  <2> QED BY <1>1, <2>1, FirstPage DEF ExplorerInv, HandedIsTaken, NotStranding
<1>6. CASE Previous \/ NextPage
  <2>1. UNCHANGED <<place, traceFilter, rows, filters, displayCap>>
    BY <1>6 DEF Previous, NextPage, Explore
  <2>2. matching' = matching  BY <2>1 DEF matching
  <2>3. matching \in Nat  BY <1>1, MatchingCounted DEF matching
  <2>4. offset' \in Nat /\ offset' % displayCap = 0 /\ (offset' >= matching => offset >= matching)
    <3>1. CASE NextPage
      <4>1. offset + displayCap < matching /\ offset' = offset + displayCap
        BY <3>1 DEF NextPage, Explore
      <4>2. (offset + displayCap) % displayCap = 0  BY <1>1, PageStarts
      <4>3. offset' \in Nat /\ ~(offset' >= matching)  BY <1>1, <2>3, <4>1
      <4> QED BY <4>1, <4>2, <4>3
    <3>2. CASE Previous /\ offset > displayCap
      <4>1. offset' = offset - displayCap  BY <3>2 DEF Previous, Explore
      <4>2. (offset - displayCap) % displayCap = 0  BY <1>1, <3>2, PageStarts
      <4>3. offset' \in Nat /\ offset' < offset  BY <1>1, <3>2, <4>1
      <4>4. offset' >= matching => offset >= matching  BY <1>1, <2>3, <4>3
      <4> QED BY <4>1, <4>2, <4>3, <4>4
    <3>3. CASE Previous /\ ~(offset > displayCap)
      <4>1. offset' = 0  BY <3>3 DEF Previous, Explore
      <4>2. 0 % displayCap = 0  BY <1>1, PageStarts
      <4> QED BY <1>1, <2>3, <4>1, <4>2
    <3> QED BY <1>6, <3>1, <3>2, <3>3
  <2>5. Stranded' => Stranded  BY <2>1, <2>2, <2>4 DEF Stranded
  <2> QED BY <1>1, <2>1, <2>4, <2>5 DEF ExplorerInv, OffsetOnPage, HandedIsTaken, NotStranding
<1>7. CASE UNCHANGED explorerVars  BY <1>4, <1>7 DEF explorerVars
<1>8. CASE onPausedChange  BY <1>4, <1>8 DEF onPausedChange
<1> QED BY <1>1, <1>2, <1>3, <1>5, <1>6, <1>7, <1>8, ExplorerSteps

-----------------------------------------------------------------------------
(* The palette and the explorer, alone and beside the control plane        *)

PaletteSpec == PaletteInit /\ [][PaletteNext]_paletteVars
ExplorerSpec == ExplorerInit /\ [][ExplorerNext]_explorerVars

\* Whatever is typed, stepped over, chosen, left and answered, the highlight is on
\* a row of the list, and one dispatch is out while the palette sends
\* (CommandPalette, handleDispatch).
THEOREM PaletteSound == PaletteSpec => [](HighlightInList /\ OneDispatchOut)
<1>1. PaletteInv => HighlightInList /\ OneDispatchOut
  BY DEF PaletteInv, OnRow, HighlightInList
<1> QED BY <1>1, PaletteStarts, PaletteKeeps, PTL DEF PaletteSpec

\* The result stage shows the answer of this palette's dispatch, never that of one
\* closed before (handleDispatch).
THEOREM ResultsAreOwn == PaletteSpec => ResultIsOwn
<1>1. PaletteInv /\ [PaletteNext]_paletteVars =>
        [palette.stage # "result" /\ palette'.stage = "result"
         => answered' = current /\ current # NoNode /\ palette.dispatch = "sending"]_paletteVars
  BY ResultEntered
<1> QED BY <1>1, PaletteStarts, PaletteKeeps, PTL DEF PaletteSpec, ResultIsOwn

\* The position begins a page of the present length, and an id that was handed over
\* is taken at once by an explorer that is mounted (TraceExplorerWidget).
THEOREM ExplorerSound == ExplorerSpec => [](OffsetOnPage /\ HandedIsTaken)
<1>1. ExplorerInv => OffsetOnPage /\ HandedIsTaken
  BY DEF ExplorerInv
<1> QED BY <1>1, ExplorerStarts, ExplorerKeeps, PTL DEF ExplorerSpec

\* No click and no handed id leaves the user past the last match: only a poll that
\* lists fewer events does (TraceExplorerWidget).
THEOREM ReadsStrand == ExplorerSpec => OnlyReadsStrand
<1>1. ExplorerInv /\ [ExplorerNext]_explorerVars => [Stranded' /\ ~Stranded => rows' # rows]_explorerVars
  BY ExplorerKeeps DEF NotStranding
<1> QED BY <1>1, ExplorerStarts, ExplorerKeeps, PTL DEF ExplorerSpec, OnlyReadsStrand

\* The panels that the run checks are the panels alone.
LEMMA PanelsApart == MCSpec => PaletteSpec /\ ExplorerSpec
<1>1. MCInit => PaletteInit /\ ExplorerInit
  BY DEF MCInit
<1>2. [MCNext]_panelVars => [PaletteNext]_paletteVars /\ [ExplorerNext]_explorerVars
  BY DEF MCNext, panelVars
<1> QED BY <1>1, <1>2, PTL DEF MCSpec, PaletteSpec, ExplorerSpec

\* What the run of the panels checks, for any nodes, searches, events and caps.
THEOREM PanelsAreSound == MCSpec => []PanelsSound
<1>1. HighlightInList /\ OneDispatchOut /\ OffsetOnPage /\ HandedIsTaken <=> PanelsSound
  BY DEF PanelsSound
<1> QED BY <1>1, PanelsApart, PaletteSound, ExplorerSound, PTL

\* No step of a panel shows another's answer, or strands the user.
THEOREM PanelStepsAreSound == MCSpec => PanelStepsSound
BY PanelsApart, ResultsAreOwn, ReadsStrand, PTL DEF PanelStepsSound
=============================================================================
