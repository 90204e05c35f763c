------------------------ MODULE ProjectionReadsProofs ------------------------
(***************************************************************************)
(* Proofs about ProjectionReads, for any number of queries, backends and   *)
(* switches: the types, and when a read of a source left behind can land   *)
(* on a query that already has rows.                                       *)
(***************************************************************************)
EXTENDS ProjectionReads, TLAPS

Phases == {"idle", "catalogue", "refused", "headers", "body", "delay"}
Memos == {NoMemo} \cup [state : {"pending", "ready"}, of : Live]
Fetches == [phase : Phases, from : Sources \cup {NoSource}, of : Live \cup {NoSource},
            tenant : Decisions, tries : 0..1, left : BOOLEAN, missed : BOOLEAN]
Views == [mounted : BOOLEAN, data : Sources \cup {NoSource}, failed : BOOLEAN, stale : BOOLEAN]

\* A query that has rows reads from the source of the moment, unless a switch found
\* its widget off the page: the switch restarts the others.
Timely(f) == f.phase \in {"idle", "delay"} \/ f.from = source \/ f.missed

NoStaleRead(q) == view[q].data # NoSource => Timely(fetch[q])

IInv == TypeOK /\ \A q \in Queries : NoStaleRead(q)

-----------------------------------------------------------------------------
(* One read                                                                *)

LEMMA UnscopedIsDecision == Unscoped \in Decisions
BY DEF Decisions

LEMMA IdleTyped == Idle \in Fetches /\ [Idle EXCEPT !.phase = "delay", !.tries = 1] \in Fetches
<1>1. Idle \in Fetches  BY UnscopedIsDecision DEF Idle, Fetches, Phases
<1>2. \A ph \in Phases, n \in 0..1 : [Idle EXCEPT !.phase = ph, !.tries = n] \in Fetches
  BY UnscopedIsDecision DEF Idle, Fetches
<1> QED BY <1>1, <1>2 DEF Phases

\* A tenant decision is the configured tenant, the declared one, none, or a refusal.
LEMMA TenantTyped ==
  ASSUME NEW q, NEW b \in Live \cup {NoSource}
  PROVE  TenantFor(q, b) \in Decisions \cup {Refused}
BY DEF TenantFor, Decisions

\* What the query function starts is a fetch of the source it was given.
LEMMA BeginTyped ==
  ASSUME memo \in Memos, NEW q, NEW s \in Sources, NEW n \in 0..1
  PROVE  /\ Begin(q, s, n) \in Fetches
         /\ Begin(q, s, n).from = s
         /\ Begin(q, s, n).phase = "catalogue" => s \in Live /\ memo.state # "ready"
<1> DEFINE at(ph) == [Idle EXCEPT !.phase = ph, !.from = s, !.tries = n]
           sent == [Idle EXCEPT !.phase = "headers", !.from = s, !.of = memo.of,
                                !.tenant = TenantFor(q, memo.of), !.tries = n]
<1>1. \A ph \in Phases : at(ph) \in Fetches /\ at(ph).from = s /\ at(ph).phase = ph
  BY UnscopedIsDecision DEF Idle, Fetches
<1>2. TenantFor(q, memo.of) # Refused => TenantFor(q, memo.of) \in Decisions
  BY TenantTyped DEF Memos, NoMemo
<1>3. TenantFor(q, memo.of) # Refused => sent \in Fetches /\ sent.from = s /\ sent.phase = "headers"
  <2>1. Idle \in Fetches  BY IdleTyped
  <2>2. memo.of \in Live \cup {NoSource}  BY DEF Memos, NoMemo
  <2> QED BY <1>2, <2>1, <2>2 DEF Fetches, Phases
<1>4. CASE s \in Files
  <2>1. Begin(q, s, n) = at("body")  BY <1>4 DEF Begin
  <2> QED BY <1>1, <2>1 DEF Phases
<1>5. CASE s \notin Files /\ memo.state = "ready" /\ TenantFor(q, memo.of) = Refused
  <2>1. Begin(q, s, n) = at("refused")  BY <1>5 DEF Begin
  <2> QED BY <1>1, <2>1 DEF Phases
<1>6. CASE s \notin Files /\ memo.state = "ready" /\ TenantFor(q, memo.of) # Refused
  <2>1. Begin(q, s, n) = sent  BY <1>6 DEF Begin
  <2> QED BY <1>3, <1>6, <2>1
<1>7. CASE s \notin Files /\ memo.state # "ready"
  <2>1. Begin(q, s, n) = at("catalogue")  BY <1>7 DEF Begin
  <2> QED BY <1>1, <1>7, <2>1 DEF Phases, Sources
<1> QED BY <1>4, <1>5, <1>6, <1>7

\* The catalogue a read waits for is on its way.
LEMMA MemoTyped ==
  ASSUME memo \in Memos, NEW qs, NEW s \in Sources
  PROVE  /\ MemoFor(qs, s) \in Memos
         /\ memo.state = "pending" => MemoFor(qs, s).state = "pending"
         /\ qs # {} /\ s \in Live /\ memo.state # "ready" => MemoFor(qs, s).state = "pending"
BY DEF MemoFor, Memos, NoMemo

-----------------------------------------------------------------------------
(* The steps                                                               *)

\* A step of one query that leaves the catalogue alone, and its new fetch and view.
LEMMA OneQuery ==
  ASSUME IInv, NEW q \in Queries, NEW f \in Fetches, NEW v \in Views,
         fetch' = [fetch EXCEPT ![q] = f], view' = [view EXCEPT ![q] = v],
         UNCHANGED source, memo' \in Memos,
         memo.state = "pending" => memo'.state = "pending",
         f.phase = "catalogue" => memo'.state = "pending",
         v.data # NoSource => Timely(f)
  PROVE  IInv'
<1>1. fetch' \in [Queries -> Fetches] /\ view' \in [Queries -> Views]
  BY DEF IInv, TypeOK, Fetches, Views, Phases
<1>2. fetch'[q] = f /\ view'[q] = v
  BY DEF IInv, TypeOK
<1>3. \A p \in Queries : p # q => fetch'[p] = fetch[p] /\ view'[p] = view[p]
  BY DEF IInv, TypeOK
<1>4. ASSUME NEW p \in Queries, Waiting(p)'
      PROVE  memo'.state = "pending"
  BY <1>2, <1>3, <1>4 DEF IInv, TypeOK, Waiting
<1>5. ASSUME NEW p \in Queries
      PROVE  NoStaleRead(p)'
  BY <1>2, <1>3 DEF IInv, NoStaleRead, Timely
<1>6. TypeOK'
  BY <1>1, <1>4 DEF IInv, TypeOK, Fetches, Views, Phases, Memos
<1> QED BY <1>5, <1>6 DEF IInv

\* The end of a fetch in an error; the rows stay.
LEMMA GiveUpKeeps ==
  ASSUME IInv, NEW q \in Queries, GiveUp(q), UNCHANGED <<source, memo>>
  PROVE  IInv'
<1> DEFINE v == [view[q] EXCEPT !.failed = (view[q].data # NoSource)]
<1>1. view[q] \in Views  BY DEF IInv, TypeOK, Views
<1>2. v \in Views  BY <1>1 DEF Views
<1>3. fetch' = [fetch EXCEPT ![q] = Idle] /\ view' = [view EXCEPT ![q] = v]
  BY DEF GiveUp
<1>4. Idle \in Fetches /\ Idle.phase = "idle" /\ Timely(Idle)  BY IdleTyped DEF Idle, Timely
<1>5. memo' \in Memos  BY DEF IInv, TypeOK, Memos
<1> HIDE DEF v
<1> QED BY <1>2, <1>3, <1>4, <1>5, OneQuery

\* A failed try is repeated or shown.
LEMMA FailKeeps ==
  ASSUME IInv, NEW q \in Queries, Fail(q), UNCHANGED <<source, memo>>
  PROVE  IInv'
<1>1. CASE fetch[q].tries = 0 /\ ~fetch[q].left
  <2> DEFINE f == [Idle EXCEPT !.phase = "delay", !.tries = 1]
  <2>1. f \in Fetches /\ f.phase = "delay" /\ Timely(f)  BY IdleTyped DEF Idle, Timely
  <2>2. view[q] \in Views /\ view = [p \in Queries |-> view[p]]
    BY DEF IInv, TypeOK, Views
  <2>3. fetch' = [fetch EXCEPT ![q] = f] /\ view' = [view EXCEPT ![q] = view[q]]
    BY <1>1, <2>2 DEF Fail
  <2>4. memo' \in Memos  BY DEF IInv, TypeOK, Memos
  <2> HIDE DEF f
  <2> QED BY <2>1, <2>2, <2>3, <2>4, OneQuery
<1>2. CASE ~(fetch[q].tries = 0 /\ ~fetch[q].left)
  BY <1>2, GiveUpKeeps DEF Fail
<1> QED BY <1>1, <1>2

\* A query function that starts now reads the source of the moment.
LEMMA StartKeeps ==
  ASSUME IInv, NEW q \in Queries, NEW n \in 0..1, NEW v \in Views,
         fetch' = [fetch EXCEPT ![q] = Begin(q, source, n)],
         memo' = MemoFor({q}, source),
         view' = [view EXCEPT ![q] = v], UNCHANGED source
  PROVE  IInv'
<1>1. source \in Sources /\ memo \in Memos  BY DEF IInv, TypeOK, Memos
<1>2. /\ Begin(q, source, n) \in Fetches /\ Begin(q, source, n).from = source
      /\ Begin(q, source, n).phase = "catalogue" => memo'.state = "pending"
  BY <1>1, BeginTyped, MemoTyped
<1>3. memo' \in Memos /\ (memo.state = "pending" => memo'.state = "pending")
  BY <1>1, MemoTyped
<1>4. Timely(Begin(q, source, n))  BY <1>2 DEF Timely
<1> QED BY <1>2, <1>3, <1>4, OneQuery

\* A fetch whose marks alone change, and a view that keeps its rows.
LEMMA MarksKeep ==
  ASSUME IInv, NEW q \in Queries, NEW l \in BOOLEAN, NEW v \in Views,
         fetch' = [fetch EXCEPT ![q].left = l], view' = [view EXCEPT ![q] = v],
         v.data = view[q].data, UNCHANGED <<source, memo>>
  PROVE  IInv'
<1> DEFINE f == [fetch[q] EXCEPT !.left = l]
<1>1. fetch[q] \in Fetches /\ NoStaleRead(q)
  BY DEF IInv, TypeOK, Fetches, Phases
<1>2. /\ f \in Fetches /\ f.phase = fetch[q].phase /\ f.from = fetch[q].from
      /\ f.missed = fetch[q].missed
  BY <1>1 DEF Fetches
<1>3. fetch' = [fetch EXCEPT ![q] = f]  OBVIOUS
<1>4. memo' \in Memos  BY DEF IInv, TypeOK, Memos
<1>5. f.phase = "catalogue" => memo'.state = "pending"
  BY <1>2 DEF IInv, TypeOK, Waiting
<1> HIDE DEF f
<1>6. v.data # NoSource => Timely(f)  BY <1>1, <1>2 DEF NoStaleRead, Timely
<1> QED BY <1>2, <1>3, <1>4, <1>5, <1>6, OneQuery

\* A read, started or joined.
LEMMA ReadKeeps ==
  ASSUME IInv, NEW q \in Queries, NEW v \in Views, Read(q),
         view' = [view EXCEPT ![q] = v], v.data = view[q].data, UNCHANGED source
  PROVE  IInv'
<1>1. CASE fetch[q].phase = "idle"
  <2>1. fetch' = [fetch EXCEPT ![q] = Begin(q, source, 0)] /\ memo' = MemoFor({q}, source)
    BY <1>1 DEF Read
  <2>2. 0 \in 0..1  OBVIOUS
  <2> QED BY <2>1, <2>2, StartKeeps
<1>2. CASE fetch[q].phase # "idle"
  <2>1. fetch' = [fetch EXCEPT ![q].left = FALSE] /\ UNCHANGED memo
    BY <1>2 DEF Read
  <2> QED BY <2>1, MarksKeep
<1> QED BY <1>1, <1>2

\* The queries qs start anew on s, the source from now on; the others have no rows,
\* or no read under way, or a read marked as missed.
LEMMA InvalidateKeeps ==
  ASSUME IInv, NEW s \in Sources, source' = s, InvalidateAll(s)
  PROVE  IInv'
<1> DEFINE qs == {q \in Queries : Restarts(q)}
           marked(q) == IF view[q].mounted THEN [fetch[q] EXCEPT !.left = FALSE]
                        ELSE IF fetch[q].phase = "idle" THEN fetch[q]
                        ELSE [fetch[q] EXCEPT !.missed = TRUE]
<1>1. memo \in Memos  BY DEF IInv, TypeOK, Memos
<1>2. fetch' = [q \in Queries |-> IF q \in qs THEN Begin(q, s, 0) ELSE marked(q)]
  BY DEF InvalidateAll
<1>3. memo' = MemoFor(qs, s)  BY DEF InvalidateAll
<1>4. ASSUME NEW q \in Queries
      PROVE  /\ marked(q) \in Fetches /\ marked(q).phase = fetch[q].phase
             /\ view[q].mounted \/ fetch[q].phase = "idle" \/ marked(q).missed
             /\ q \notin qs => ~view[q].mounted \/ view[q].data = NoSource
  <2>1. fetch[q] \in Fetches  BY DEF IInv, TypeOK, Fetches, Phases
  <2>2. /\ [fetch[q] EXCEPT !.left = FALSE] \in Fetches
        /\ [fetch[q] EXCEPT !.left = FALSE].phase = fetch[q].phase
    BY <2>1 DEF Fetches
  <2>3. /\ [fetch[q] EXCEPT !.missed = TRUE] \in Fetches
        /\ [fetch[q] EXCEPT !.missed = TRUE].phase = fetch[q].phase
        /\ [fetch[q] EXCEPT !.missed = TRUE].missed
    BY <2>1 DEF Fetches
  <2> QED BY <2>1, <2>2, <2>3 DEF Restarts
<1> HIDE DEF qs, marked
<1>5. memo' \in Memos /\ (memo.state = "pending" => memo'.state = "pending")
  BY <1>1, <1>3, MemoTyped
<1>6. \A q \in Queries :
        /\ q \in qs => fetch'[q] = Begin(q, s, 0)
        /\ q \notin qs => fetch'[q] = marked(q)
  BY <1>2
<1>7. \A q \in Queries : Begin(q, s, 0) \in Fetches /\ Begin(q, s, 0).from = s
  BY <1>1, BeginTyped
<1>8. fetch' \in [Queries -> Fetches]
  BY <1>2, <1>4, <1>7
<1>9. ASSUME NEW q \in Queries, Waiting(q)'
      PROVE  memo'.state = "pending"
  <2>1. CASE q \in qs
    BY <1>1, <1>3, <1>6, <1>9, <2>1, BeginTyped, MemoTyped DEF Waiting
  <2>2. CASE q \notin qs
    BY <1>4, <1>5, <1>6, <1>9, <2>2 DEF IInv, TypeOK, Waiting
  <2> QED BY <2>1, <2>2
<1>10. view' = [q \in Queries |-> [view[q] EXCEPT !.stale = TRUE]]
  BY DEF InvalidateAll
<1>11. ASSUME NEW q \in Queries
       PROVE  [view[q] EXCEPT !.stale = TRUE] \in Views /\ view'[q].data = view[q].data
  <2>1. view[q] \in Views  BY DEF IInv, TypeOK, Views
  <2> QED BY <1>10, <2>1 DEF Views
<1>12. view' \in [Queries -> Views]  BY <1>10, <1>11
<1>13. TypeOK'
  BY <1>5, <1>8, <1>9, <1>12 DEF IInv, TypeOK, Fetches, Views, Phases, Memos
<1>14. ASSUME NEW q \in Queries
       PROVE  NoStaleRead(q)'
  <2>1. CASE q \in qs  BY <1>6, <1>7, <2>1 DEF NoStaleRead, Timely
  <2>2. CASE q \notin qs
    BY <1>4, <1>6, <1>11, <2>2 DEF NoStaleRead, Timely
  <2> QED BY <2>1, <2>2
<1> QED BY <1>13, <1>14 DEF IInv

-----------------------------------------------------------------------------
(* The invariant                                                           *)

LEMMA InitIInv == Init => IInv
<1> SUFFICES ASSUME Init PROVE IInv
  OBVIOUS
<1>1. NothingYet \in Views /\ NothingYet.data = NoSource  BY DEF NothingYet, Views
<1>2. fetch \in [Queries -> Fetches] /\ view \in [Queries -> Views]
  BY <1>1, IdleTyped DEF Init
<1>3. \A q \in Queries : ~Waiting(q)  BY DEF Init, Waiting, Idle
<1>4. memo \in Memos  BY DEF Init, Memos
<1>5. TypeOK  BY <1>2, <1>3, <1>4 DEF Init, TypeOK, Fetches, Views, Phases, Memos
<1>6. \A q \in Queries : fetch[q].phase = "idle" /\ view[q].data = NoSource
  BY <1>1 DEF Init, Idle
<1> QED BY <1>5, <1>6 DEF IInv, NoStaleRead

\* The answer of the catalogue, or its failure, reaches the reads that wait for it.
LEMMA CatalogueKeeps ==
  ASSUME IInv, memo' \in Memos, UNCHANGED <<source, view>>, fetch' \in [Queries -> Fetches],
         \A q \in Queries :
           \/ fetch'[q] = fetch[q] /\ ~Waiting(q)
           \/ /\ Waiting(q) /\ fetch'[q].phase # "catalogue"
              /\ fetch'[q].from = fetch[q].from /\ fetch'[q].missed = fetch[q].missed
  PROVE  IInv'
<1>1. \A q \in Queries : ~Waiting(q)'  BY DEF Waiting
<1>2. TypeOK'  BY <1>1 DEF IInv, TypeOK, Fetches, Phases, Memos
<1>3. \A q \in Queries : NoStaleRead(q)'  BY DEF IInv, NoStaleRead, Timely, Waiting
<1> QED BY <1>2, <1>3 DEF IInv

LEMMA QueryStep ==
  ASSUME IInv, NEW q \in Queries,
         \/ Mount(q) \/ Unmount(q) \/ Collect(q) \/ Poll(q) \/ Retry(q) \/ TenantRefused(q)
         \/ HeadersArrive(q) \/ HeadersTimeout(q) \/ BodyArrives(q) \/ BodyFails(q)
  PROVE  IInv'
<1>1. fetch[q] \in Fetches /\ view[q] \in Views /\ NoStaleRead(q)
  BY DEF IInv, TypeOK, Fetches, Views, Phases
<1>2. fetch = [p \in Queries |-> fetch[p]] /\ view = [p \in Queries |-> view[p]]
  BY DEF IInv, TypeOK
<1>3. memo \in Memos /\ source \in Sources  BY DEF IInv, TypeOK, Memos
<1>4. CASE Mount(q)
  <2> DEFINE v == [view[q] EXCEPT !.mounted = TRUE]
  <2>1. view' = [view EXCEPT ![q] = v] /\ v \in Views /\ v.data = view[q].data /\ UNCHANGED source
    BY <1>1, <1>4 DEF Mount, Views
  <2>2. CASE Read(q)
    <3> HIDE DEF v
    <3> QED BY <2>1, <2>2, ReadKeeps
  <2>3. CASE UNCHANGED <<fetch, memo>>
    <3>1. fetch' = [fetch EXCEPT ![q].left = fetch[q].left] /\ fetch[q].left \in BOOLEAN
      BY <1>1, <1>2, <2>3 DEF Fetches
    <3> HIDE DEF v
    <3> QED BY <2>1, <2>3, <3>1, MarksKeep
  <2> QED BY <1>4, <2>2, <2>3 DEF Mount
<1>5. CASE Poll(q)
  <2>1. view' = [view EXCEPT ![q] = view[q]] /\ UNCHANGED source
    BY <1>2, <1>5 DEF Poll
  <2> QED BY <1>1, <1>5, <2>1, ReadKeeps DEF Poll
<1>6. CASE Retry(q)
  <2>1. CASE fetch[q].left
    BY <1>6, <2>1, GiveUpKeeps DEF Retry
  <2>2. CASE ~fetch[q].left
    <3>1. /\ fetch' = [fetch EXCEPT ![q] = Begin(q, source, fetch[q].tries)]
          /\ memo' = MemoFor({q}, source) /\ UNCHANGED <<source, view>>
      BY <1>6, <2>2 DEF Retry
    <3>2. fetch[q].tries \in 0..1  BY <1>1 DEF Fetches
    <3>3. view' = [view EXCEPT ![q] = view[q]]  BY <1>2, <3>1
    <3> QED BY <1>1, <3>1, <3>2, <3>3, StartKeeps
  <2> QED BY <2>1, <2>2
<1>12. CASE Unmount(q)
  <2> DEFINE v == [view[q] EXCEPT !.mounted = FALSE]
             l == (fetch[q].phase # "idle")
  <2>1. view' = [view EXCEPT ![q] = v] /\ v \in Views /\ v.data = view[q].data
    BY <1>1, <1>12 DEF Unmount, Views
  <2>2. fetch' = [fetch EXCEPT ![q].left = l] /\ l \in BOOLEAN /\ UNCHANGED <<source, memo>>
    BY <1>12 DEF Unmount
  <2> HIDE DEF v, l
  <2> QED BY <2>1, <2>2, MarksKeep
<1>13. CASE Collect(q)
  <2>1. NothingYet \in Views /\ NothingYet.data = NoSource  BY DEF NothingYet, Views
  <2>2. fetch' = [fetch EXCEPT ![q] = fetch[q]] /\ view' = [view EXCEPT ![q] = NothingYet]
    BY <1>2, <1>13 DEF Collect
  <2>3. fetch[q].phase = "idle" /\ UNCHANGED <<source, memo>>  BY <1>13 DEF Collect
  <2> QED BY <1>1, <1>3, <2>1, <2>2, <2>3, OneQuery
<1>7. CASE TenantRefused(q)
  BY <1>7, FailKeeps DEF TenantRefused
<1>8. CASE HeadersArrive(q)
  <2>1. CASE Accepts(fetch[q].from, q, fetch[q].tenant)
    <3> DEFINE f == [fetch[q] EXCEPT !.phase = "body"]
    <3>1. /\ f \in Fetches /\ f.phase = "body"
          /\ f.from = fetch[q].from /\ f.missed = fetch[q].missed
      BY <1>1 DEF Fetches, Phases
    <3>2. fetch' = [fetch EXCEPT ![q] = f] /\ view' = [view EXCEPT ![q] = view[q]]
      BY <1>2, <1>8, <2>1 DEF HeadersArrive
    <3>3. fetch[q].phase = "headers" /\ UNCHANGED <<source, memo>>
      BY <1>8 DEF HeadersArrive
    <3> HIDE DEF f
    <3>4. view[q].data # NoSource => Timely(f)
      BY <1>1, <3>1, <3>3 DEF NoStaleRead, Timely
    <3> QED BY <1>1, <1>3, <3>1, <3>2, <3>3, <3>4, OneQuery
  <2>2. CASE ~Accepts(fetch[q].from, q, fetch[q].tenant)
    BY <1>8, <2>2, FailKeeps DEF HeadersArrive
  <2> QED BY <2>1, <2>2
<1>9. CASE HeadersTimeout(q)
  BY <1>9, FailKeeps DEF HeadersTimeout
<1>10. CASE BodyArrives(q)
  <2> DEFINE v == [view[q] EXCEPT !.data = fetch[q].from, !.failed = FALSE, !.stale = FALSE]
  <2>1. fetch' = [fetch EXCEPT ![q] = Idle] /\ view' = [view EXCEPT ![q] = v]
    BY <1>10 DEF BodyArrives
  <2>2. v \in Views
    BY <1>1 DEF Views, Fetches
  <2>3. Idle \in Fetches /\ Idle.phase = "idle" /\ Timely(Idle)  BY IdleTyped DEF Idle, Timely
  <2>4. UNCHANGED <<source, memo>>  BY <1>10 DEF BodyArrives
  <2> HIDE DEF v
  <2> QED BY <1>3, <2>1, <2>2, <2>3, <2>4, OneQuery
<1>11. CASE BodyFails(q)
  BY <1>11, FailKeeps DEF BodyFails
<1> QED BY <1>4, <1>5, <1>6, <1>7, <1>8, <1>9, <1>10, <1>11, <1>12, <1>13

LEMMA CatalogueStep ==
  ASSUME IInv, CatalogueArrives \/ CatalogueFails
  PROVE  IInv'
<1>1. fetch \in [Queries -> Fetches] /\ memo \in Memos
  BY DEF IInv, TypeOK, Fetches, Phases, Memos
<1>2. ASSUME NEW q \in Queries, NEW b \in Live \cup {NoSource}, TenantFor(q, b) # Refused
      PROVE  [fetch[q] EXCEPT !.phase = "headers", !.of = b, !.tenant = TenantFor(q, b)] \in Fetches
  <2>1. TenantFor(q, b) \in Decisions  BY <1>2, TenantTyped
  <2>2. fetch[q] \in Fetches  BY <1>1
  <2> QED BY <2>1, <2>2 DEF Fetches, Phases
<1>3. ASSUME NEW q \in Queries
      PROVE  /\ [fetch[q] EXCEPT !.phase = "refused"] \in Fetches
             /\ [fetch[q] EXCEPT !.phase = "headers", !.tenant = TenantFor(q, NoSource)] \in Fetches
  <2>1. TenantFor(q, NoSource) \in Decisions  BY UnscopedIsDecision DEF TenantFor
  <2>2. fetch[q] \in Fetches  BY <1>1
  <2> QED BY <2>1, <2>2 DEF Fetches, Phases
<1>4. CASE CatalogueArrives
  <2>9. memo.state = "pending" /\ memo' = [memo EXCEPT !.state = "ready"]
    BY <1>4 DEF CatalogueArrives
  <2>1. memo \in [state : {"pending", "ready"}, of : Live]
    BY <1>1, <2>9 DEF Memos, NoMemo
  <2>7. memo' \in Memos /\ memo.of \in Live  BY <2>1, <2>9 DEF Memos
  <2>8. UNCHANGED <<source, view>>  BY <1>4 DEF CatalogueArrives
  <2>2. \A q \in Queries :
          /\ ~Waiting(q) => fetch'[q] = fetch[q]
          /\ Waiting(q) =>
               \/ fetch'[q] = [fetch[q] EXCEPT !.phase = "refused"]
               \/ /\ TenantFor(q, memo.of) # Refused
                  /\ fetch'[q] = [fetch[q] EXCEPT !.phase = "headers", !.of = memo.of,
                                                  !.tenant = TenantFor(q, memo.of)]
    BY <1>4 DEF CatalogueArrives
  <2>3. fetch' = [q \in Queries |-> fetch'[q]]  BY <1>4 DEF CatalogueArrives
  <2>4. ASSUME NEW q \in Queries
        PROVE  fetch'[q] \in Fetches
    <3>1. CASE ~Waiting(q)  BY <1>1, <2>2, <3>1
    <3>2. CASE fetch'[q] = [fetch[q] EXCEPT !.phase = "refused"]  BY <1>3, <3>2
    <3>3. CASE /\ TenantFor(q, memo.of) # Refused
               /\ fetch'[q] = [fetch[q] EXCEPT !.phase = "headers", !.of = memo.of,
                                               !.tenant = TenantFor(q, memo.of)]
      <4>1. memo.of \in Live \cup {NoSource}  BY <2>7
      <4>2. [fetch[q] EXCEPT !.phase = "headers", !.of = memo.of,
                             !.tenant = TenantFor(q, memo.of)] \in Fetches
        BY <1>2, <3>3, <4>1
      <4> QED BY <3>3, <4>2
    <3> QED BY <2>2, <3>1, <3>2, <3>3
  <2>5. ASSUME NEW q \in Queries, Waiting(q)
        PROVE  /\ fetch'[q].from = fetch[q].from /\ fetch'[q].missed = fetch[q].missed
               /\ fetch'[q].phase # "catalogue"
    <3>1. fetch[q] \in Fetches  BY <1>1
    <3>2. CASE fetch'[q] = [fetch[q] EXCEPT !.phase = "refused"]
      BY ONLY <3>1, <3>2 DEF Fetches
    <3>3. CASE fetch'[q] = [fetch[q] EXCEPT !.phase = "headers", !.of = memo.of,
                                            !.tenant = TenantFor(q, memo.of)]
      BY ONLY <3>1, <3>3 DEF Fetches
    <3> QED BY <2>2, <2>5, <3>2, <3>3
  <2>6. fetch' \in [Queries -> Fetches]  BY <2>3, <2>4
  <2> QED BY <2>2, <2>5, <2>6, <2>7, <2>8, CatalogueKeeps
<1>5. CASE CatalogueFails
  <2>1. memo' \in Memos /\ UNCHANGED <<source, view>>
    BY <1>5 DEF CatalogueFails, Memos
  <2>2. \A q \in Queries :
          /\ ~Waiting(q) => fetch'[q] = fetch[q]
          /\ Waiting(q) => fetch'[q] = [fetch[q] EXCEPT !.phase = "headers",
                                                        !.tenant = TenantFor(q, NoSource)]
    BY <1>5 DEF CatalogueFails
  <2>3. fetch' = [q \in Queries |-> fetch'[q]]  BY <1>5 DEF CatalogueFails
  <2>4. \A q \in Queries : fetch'[q] \in Fetches  BY <1>1, <1>3, <2>2
  <2>5. ASSUME NEW q \in Queries, Waiting(q)
        PROVE  /\ fetch'[q].from = fetch[q].from /\ fetch'[q].missed = fetch[q].missed
               /\ fetch'[q].phase # "catalogue"
    <3>1. fetch[q] \in Fetches  BY <1>1
    <3>2. fetch'[q] = [fetch[q] EXCEPT !.phase = "headers", !.tenant = TenantFor(q, NoSource)]
      BY <2>2, <2>5
    <3> QED BY ONLY <3>1, <3>2 DEF Fetches
  <2>6. fetch' \in [Queries -> Fetches]  BY <2>3, <2>4
  <2> QED BY <2>1, <2>2, <2>5, <2>6, CatalogueKeeps
<1> QED BY <1>4, <1>5

LEMMA NextIInv == IInv /\ [Next]_vars => IInv'
<1> SUFFICES ASSUME IInv, [Next]_vars PROVE IInv'
  OBVIOUS
<1>1. ASSUME NEW s \in Sources, Flip(s)
      PROVE  IInv'
  BY <1>1, InvalidateKeeps DEF Flip
<1>2. CASE Refresh
  <2>1. source \in Sources  BY DEF IInv, TypeOK
  <2> QED BY <1>2, <2>1, InvalidateKeeps DEF Refresh
<1>3. CASE UNCHANGED vars
  BY <1>3 DEF IInv, TypeOK, NoStaleRead, Timely, Waiting, vars
<1> QED BY <1>1, <1>2, <1>3, QueryStep, CatalogueStep DEF Next

THEOREM Inductive == Spec => []IInv
BY InitIInv, NextIInv, PTL DEF Spec

\* Every variable has its type, and a read that waits for the catalogue has one on
\* its way (useProjectionQuery, fetchExposureCatalogue): for any queries, backends,
\* switches and faults.
THEOREM TypeCorrect == Spec => []TypeOK
<1>1. IInv => TypeOK  BY DEF IInv
<1> QED BY <1>1, Inductive, PTL

\* Rows are only replaced by rows of the source chosen now, or by a missed read.
LEMMA ReplacedStep ==
  ASSUME IInv, [Next]_vars, NEW q \in Queries,
         view[q].data # NoSource, view'[q].data \notin {view[q].data, NoSource}
  PROVE  view'[q].data = source \/ fetch[q].missed
<1>1. view \in [Queries -> Views]  BY DEF IInv, TypeOK, Views
<1>2. ASSUME NEW p \in Queries,
             \/ Fail(p) \/ GiveUp(p) \/ UNCHANGED view \/ Collect(p)
             \/ \E b \in BOOLEAN : view' = [view EXCEPT ![p].mounted = b]
      PROVE  FALSE
  BY <1>1, <1>2 DEF Fail, GiveUp, Collect, NothingYet, Views
<1>3. ASSUME NEW p \in Queries, BodyArrives(p)
      PROVE  view'[q].data = source \/ fetch[q].missed
  <2>1. /\ view' = [view EXCEPT ![p].data = fetch[p].from, ![p].failed = FALSE, ![p].stale = FALSE]
        /\ fetch[p].phase = "body"
    BY <1>3 DEF BodyArrives
  <2>2. p = q  BY <1>1, <2>1
  <2>3. view'[q].data = fetch[q].from  BY <1>1, <2>1, <2>2 DEF Views
  <2> QED BY <2>1, <2>2, <2>3 DEF IInv, NoStaleRead, Timely
<1>4. ASSUME NEW s, InvalidateAll(s)
      PROVE  FALSE
  <2>1. view' = [p \in Queries |-> [view[p] EXCEPT !.stale = TRUE]]  BY <1>4 DEF InvalidateAll
  <2> QED BY <1>1, <2>1 DEF Views
<1>5. CASE \E p \in Queries : Mount(p) \/ Unmount(p) \/ Collect(p) \/ Poll(p) \/ Retry(p)
  BY <1>2, <1>5 DEF Mount, Unmount, Poll, Retry
<1>6. CASE \E p \in Queries : TenantRefused(p) \/ HeadersArrive(p) \/ HeadersTimeout(p) \/ BodyFails(p)
  BY <1>2, <1>6 DEF TenantRefused, HeadersArrive, HeadersTimeout, BodyFails
<1>7. CASE CatalogueArrives \/ CatalogueFails \/ UNCHANGED vars
  BY <1>7 DEF CatalogueArrives, CatalogueFails, vars
<1>8. CASE (\E s \in Sources : Flip(s)) \/ Refresh
  BY <1>4, <1>8 DEF Flip, Refresh
<1> QED BY <1>3, <1>5, <1>6, <1>7, <1>8 DEF Next

\* A read of the source left behind lands on a query that has rows only if it was under
\* way while its widget was off the page at a switch (SnapshotSourceProvider's
\* invalidation, and react-query's restart of the queries on the page).
THEOREM OnlyCurrentReplaces == Spec => ReplacedByCurrent
<1>1. IInv /\ [Next]_vars => [\A q \in Queries :
                                view[q].data # NoSource /\ view'[q].data \notin {view[q].data, NoSource}
                                  => view'[q].data = source \/ fetch[q].missed]_vars
  BY ReplacedStep
<1> QED BY <1>1, Inductive, PTL DEF Spec, ReplacedByCurrent
=============================================================================
