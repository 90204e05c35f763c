----------------------------- MODULE RunsTable -------------------------------
(***************************************************************************)
(* The run list of the Runs page: its filters, sort and page live in the    *)
(* address, which it rewrites until it names the page shown; a poll changes *)
(* the rows under the address, the browser's history goes back and forward  *)
(* through it, and a selected run follows the page.  The filters of cause,  *)
(* model, task, tier, backend and day work as that of status.               *)
(***************************************************************************)
EXTENDS Integers, FiniteSets, Sequences, SequencesExt

CONSTANTS Sample,      \* the runs that a read may list: [id, created, cost, status]
          Found,       \* Found[q]: the ids that the search text q finds
          PageSize,
          MaxHistory,  \* bound: entries of the browser's history
          Links        \* addresses that a link, a bookmark or the user opens

Statuses == {"passed", "failed", "Not recorded"}
SortKeys == {"created", "cost"}

\* A cost of -1 was not recorded; runs of the same time are read in the order of
\* their ids.  A link may hold any text in a parameter.
ASSUME TableValues ==
  /\ Sample \subseteq [id : Nat \ {0}, created : Nat, cost : Nat \cup {-1}, status : Statuses]
  /\ \A r, s \in Sample : r.id = s.id => r = s
  /\ "" \in DOMAIN Found /\ \A r \in Sample : r.id \in Found[""]
  /\ PageSize \in Nat \ {0} /\ MaxHistory \in Nat \ {0} /\ IsFiniteSet(Sample)
  /\ \A a \in Links : a \in [path : {a.path}, status : {a.status}, q : DOMAIN Found, sort : {a.sort},
                            dir : {a.dir}, page : Int, chart : {a.chart}]

VARIABLES listed,   \* the rows of the last read; the list is mounted where there are any
          history,  \* the entries of the browser
          at,       \* the present one
          selected  \* id of the selected run, or 0

tableVars == <<listed, history, at, selected>>

Elsewhere == [path |-> "/overview", status |-> "", q |-> "", sort |-> "", dir |-> "", page |-> 0, chart |-> ""]
RunsPage == [Elsewhere EXCEPT !.path = "/runs"]

\* Parameters as written: "" and 0 are absent, -1 is no page number.
readRunsSearch(a) ==
  [status |-> IF a.status \in Statuses THEN a.status ELSE "all",
   query |-> a.q,
   sort |-> IF a.sort \in SortKeys THEN a.sort ELSE "",
   dir |-> IF a.sort \notin SortKeys THEN "" ELSE IF a.dir = "asc" THEN "asc" ELSE "desc",
   page |-> IF a.page >= 1 THEN a.page ELSE 1]

writeRunsSearch(a, view) ==
  [a EXCEPT !.q = view.query, !.sort = view.sort, !.dir = view.dir,
            !.status = IF view.status = "all" THEN "" ELSE view.status,
            !.page = IF view.page = 1 THEN 0 ELSE view.page]

-----------------------------------------------------------------------------
(* What the list shows of rows under a view                                *)

matching(rows, view) ==
  {r \in rows : view.status \in {"all", r.status} /\ r.id \in Found[view.query]}

\* The order of the list: newest first, and runs of one time as they were read.
byRunTime(a, b) == a.created > b.created \/ (a.created = b.created /\ a.id < b.id)

\* An unrecorded value is last both ways, and ties keep the order of the list.
sortRuns(sort, dir, a, b) ==
  LET valueOf(r) == IF sort = "cost" THEN r.cost ELSE r.created
  IN  \/ valueOf(a) >= 0 /\ (valueOf(b) < 0 \/ IF dir = "asc" THEN valueOf(a) < valueOf(b) ELSE valueOf(a) > valueOf(b))
      \/ valueOf(a) = valueOf(b) /\ byRunTime(a, b)

\* The row with i - 1 rows before it has place i.
rowAt(rows, sort, dir, i) ==
  CHOOSE r \in rows : Cardinality({s \in rows : sortRuns(sort, dir, s, r)}) = i - 1
inOrder(rows, sort, dir) == [i \in 1..Cardinality(rows) |-> rowAt(rows, sort, dir, i)]
sorted(rows, view) == inOrder(matching(rows, view), view.sort, view.dir)

Lesser(a, b) == IF a < b THEN a ELSE b
pages(rows, view) ==
  LET n == (Cardinality(matching(rows, view)) + PageSize - 1) \div PageSize IN IF n = 0 THEN 1 ELSE n

\* Slip: a page past the last is taken as it is.
currentUnclamped(rows, view) == view.page

current(rows, view) == Lesser(view.page, pages(rows, view))

\* Slip: the last match falls off the last page.
pageRowsOverlap(rows, view) ==
  SubSeq(sorted(rows, view), (current(rows, view) - 1) * PageSize + 1,
         Lesser(current(rows, view) * PageSize, Cardinality(matching(rows, view)) - 1))

pageRows(rows, view) ==
  SubSeq(sorted(rows, view), (current(rows, view) - 1) * PageSize + 1,
         Lesser(current(rows, view) * PageSize, Cardinality(matching(rows, view))))
pageIds(rows, view) == {r.id : r \in ToSet(pageRows(rows, view))}

-----------------------------------------------------------------------------
(* A commit, with its effects                                              *)

Mounted(rows, a) == a.path = "/runs" /\ rows # {}

\* Slip: a selected run stays selected wherever it is listed.
CommitKeepsSelection(rows, entries, i, chosen) ==
  /\ listed' = rows /\ at' = i
  /\ LET a == entries[i] view == readRunsSearch(a)
     IN  IF ~Mounted(rows, a) THEN history' = entries /\ selected' = 0
         ELSE /\ history' = [entries EXCEPT ![i] = writeRunsSearch(a, [view EXCEPT !.page = current(rows, view)])]
              /\ selected' = IF \E r \in rows : r.id = chosen THEN chosen ELSE 0

\* The address is replaced by the one that names the page shown; a selected run
\* that is not on the page gives way to the page's first.
Commit(rows, entries, i, chosen) ==
  /\ listed' = rows /\ at' = i
  /\ LET a == entries[i] view == readRunsSearch(a)
         page == pageRows(rows, view)
     IN  IF ~Mounted(rows, a) THEN history' = entries /\ selected' = 0
         ELSE /\ history' = [entries EXCEPT ![i] = writeRunsSearch(a, [view EXCEPT !.page = current(rows, view)])]
              /\ selected' = IF chosen = 0 \/ chosen \in pageIds(rows, view) THEN chosen
                             ELSE IF page = <<>> THEN 0 ELSE page[1].id

address == history[at]
view == readRunsSearch(address)

\* Slip: a new entry keeps the ones ahead.
PushKeepsForward(a, chosen) == /\ at < MaxHistory
                               /\ Commit(listed, SubSeq(history, 1, at) \o <<a>> \o SubSeq(history, at + 1, Len(history)), at + 1, chosen)

Push(a, chosen) == /\ at < MaxHistory
                   /\ Commit(listed, Append(SubSeq(history, 1, at), a), at + 1, chosen)
Replace(a, chosen) == Commit(listed, [history EXCEPT ![at] = a], at, chosen)

TableInit == listed = {} /\ at = 1 /\ selected = 0 /\ history \in {<<a>> : a \in Links}

-----------------------------------------------------------------------------
(* The list                                                                *)

updateView(change) == Mounted(listed, address) /\ Push(writeRunsSearch(address, change), selected)

\* Every filter returns to the first page.
filter(status) == status # view.status /\ updateView([view EXCEPT !.status = status, !.page = 1])

\* Typing replaces the entry, so that Back does not undo letter by letter.
search(q) == /\ Mounted(listed, address) /\ q # view.query
             /\ Replace(writeRunsSearch(address, [view EXCEPT !.query = q, !.page = 1]), selected)

sortHeader(key) ==
  updateView([view EXCEPT !.sort = key, !.page = 1,
                          !.dir = IF view.sort = key /\ view.dir = "desc" THEN "asc" ELSE "desc"])

\* "Clear filters" keeps the sort.
clearFilters == /\ Mounted(listed, address) /\ (view.status # "all" \/ view.query # "")
                /\ Push(writeRunsSearch(address, [view EXCEPT !.status = "all", !.query = "", !.page = 1]), 0)

pager(page) == updateView([view EXCEPT !.page = page])
Previous == current(listed, view) > 1 /\ pager(current(listed, view) - 1)
NextPage == current(listed, view) < pages(listed, view) /\ pager(current(listed, view) + 1)

selectRun(id) == Mounted(listed, address) /\ Replace(address, id)

\* A chart tab keeps its choice in the same address.
selectTab(chart) == /\ Mounted(listed, address) /\ chart # address.chart
                    /\ Replace([address EXCEPT !.chart = chart], selected)

Poll(rows) == Commit(rows, history, at, selected)

-----------------------------------------------------------------------------
(* The browser                                                             *)

Open(a) == Push(a, IF a.path = address.path THEN selected ELSE 0)

Go(i) == /\ i \in DOMAIN history
         /\ Commit(listed, history, i, IF history[i].path = address.path THEN selected ELSE 0)
BrowserBack == Go(at - 1)
BrowserForward == Go(at + 1)

TableNext ==
  \/ \E rows \in SUBSET Sample : Poll(rows)
  \/ \E status \in Statuses \cup {"all"} : filter(status)
  \/ \E q \in DOMAIN Found : search(q)
  \/ \E key \in SortKeys : sortHeader(key)
  \/ clearFilters \/ Previous \/ NextPage
  \/ \E id \in pageIds(listed, view) \cup {0} : selectRun(id)
  \/ \E chart \in {"", "cost"} : selectTab(chart)
  \/ \E a \in Links \cup {Elsewhere} : Open(a)
  \/ BrowserBack \/ BrowserForward

-----------------------------------------------------------------------------
(* Properties                                                              *)

TableTypeOK ==
  /\ listed \subseteq Sample /\ selected \in {0} \cup {r.id : r \in Sample}
  /\ Len(history) \in 1..MaxHistory /\ at \in DOMAIN history
  /\ \A i \in DOMAIN history : DOMAIN history[i] = DOMAIN Elsewhere

\* The address under a mounted list names the page it shows, so that a reload or
\* a copied link shows it again: nothing malformed, and no page past the last,
\* however the rows shrank under it (LocalDashboardPage.tsx 1669-1679).
AddressNamesPage ==
  Mounted(listed, address) =>
    /\ writeRunsSearch(address, view) = address
    /\ view.page <= pages(listed, view)

\* A selected run is on the page: polls, filters, sorts, pages and history move
\* the page under it (1680-1684).
SelectionOnPage == selected # 0 => /\ Mounted(listed, address)
                                   /\ selected \in pageIds(listed, view)

\* Each matching run is on exactly one page (1669-1671).
PagesCoverMatches ==
  LET on(p) == pageIds(listed, [view EXCEPT !.page = p])
  IN  /\ UNION {on(p) : p \in 1..pages(listed, view)} = {r.id : r \in matching(listed, view)}
      /\ \A p, q \in 1..pages(listed, view) : p # q => on(p) \cap on(q) = {}

\* The address, the page shown and the selection are of one view of the list.
PageIsOne == AddressNamesPage /\ SelectionOnPage /\ PagesCoverMatches
=============================================================================
