---------------------------- MODULE TraceExplorer ----------------------------
(***************************************************************************)
(* The event trace of the browser: the polled live events, its filters,   *)
(* its pages, and the correlation id that a table hands it through the     *)
(* store (traceFilter) for the explorer to take over when it is mounted.   *)
(* Filters of type, topic, time and text are one member of Narrow.         *)
(***************************************************************************)
EXTENDS Naturals, FiniteSets

CONSTANTS Events,       \* events that a projection may list
          Correlations, \* correlation ids
          CorrelationOf,\* CorrelationOf[e]: the id of an event, or AnyId
          AnyId,        \* the empty filter text
          Narrow,       \* the other filters: the events they let pass
          Caps          \* the choices of "Display cap"

ASSUME ExplorerValues ==
  /\ AnyId \notin Correlations
  /\ CorrelationOf \in [Events -> Correlations \cup {AnyId}]
  /\ Narrow \subseteq SUBSET Events /\ Events \in Narrow
  /\ Caps \subseteq Nat \ {0} /\ Caps # {} /\ IsFiniteSet(Events)

VARIABLES place,       \* "explorer": a page that mounts it; "elsewhere": one that does not
          traceFilter, \* the id in the store
          rows,        \* the rows the last read gave
          filters,     \* the explorer's filters, page length and position
          displayCap,
          offset,
          paused       \* the user stopped the polling

explorerVars == <<place, traceFilter, rows, filters, displayCap, offset, paused>>

DefaultCap == CHOOSE cap \in Caps : TRUE
AllEvents == [correlationId |-> AnyId, narrow |-> Events]

filterTraceEvents(listed, f) ==
  {e \in listed \cap f.narrow : f.correlationId \in {AnyId, CorrelationOf[e]}}
matching == Cardinality(filterTraceEvents(rows, filters))

ExplorerInit == /\ place \in {"explorer", "elsewhere"} /\ traceFilter = AnyId
                /\ rows = {} /\ filters = AllEvents
                /\ displayCap = DefaultCap /\ offset = 0 /\ paused = FALSE

\* Slip: an id is taken over only by an explorer that mounts.
TakeOverOnMount(mounted, handed, f, at) ==
  IF mounted /\ place # "explorer" /\ handed # AnyId
  THEN /\ filters' = [f EXCEPT !.correlationId = handed]
       /\ offset' = 0 /\ traceFilter' = AnyId
  ELSE filters' = f /\ offset' = at /\ traceFilter' = handed

\* The effect on [traceFilter] of a mounted explorer, whose filters are f.
TakeOver(mounted, handed, f, at) ==
  IF mounted /\ handed # AnyId
  THEN /\ filters' = [f EXCEPT !.correlationId = handed]
       /\ offset' = 0 /\ traceFilter' = AnyId
  ELSE filters' = f /\ offset' = at /\ traceFilter' = handed

-----------------------------------------------------------------------------
(* Pages and tables                                                        *)

\* Another page: the explorer's own state starts anew where it is mounted.
GoTo(there, handed) ==
  /\ place' = there
  /\ IF there = place THEN /\ TakeOver(there = "explorer", handed, filters, offset)
                           /\ UNCHANGED <<displayCap, paused>>
     ELSE /\ TakeOver(there = "explorer", handed, AllEvents, 0)
          /\ displayCap' = DefaultCap /\ paused' = FALSE
  /\ UNCHANGED rows

setActivePage(there) == there # place /\ GoTo(there, traceFilter)

\* "Trace" in the run table opens the dashboard, with or without an explorer.
handleOpenTrace(id, there) == GoTo(there, id)

\* The chips of the errors and routing widgets and of the explorer's own rows.
setTraceFilter(id) == GoTo(place, id)

-----------------------------------------------------------------------------
(* The explorer                                                            *)

\* A read: while paused only the one that was out when the user paused, or one
\* after a remount.
Read(listed) == /\ place = "explorer" /\ rows' = listed
                /\ UNCHANGED <<place, traceFilter, filters, displayCap, offset, paused>>

onPausedChange == /\ place = "explorer" /\ paused' = ~paused
                  /\ UNCHANGED <<place, traceFilter, rows, filters, displayCap, offset>>

Explore(f, cap, at) ==
  /\ place = "explorer" /\ rows # {}
  /\ filters' = f /\ displayCap' = cap /\ offset' = at
  /\ UNCHANGED <<place, traceFilter, rows, paused>>

\* Slip: a new filter keeps the position.
updateFilterKeepsPage(f) == Explore(f, displayCap, offset)

\* Each change of a filter returns to the first page.
updateFilter(f) == Explore(f, displayCap, 0)

\* Slip: a new page length keeps the position.
setDisplayCapKeepsPage(cap) == Explore(filters, cap, offset)

setDisplayCap(cap) == Explore(filters, cap, 0)

Previous == /\ offset # 0
            /\ Explore(filters, displayCap,
                       IF offset > displayCap THEN offset - displayCap ELSE 0)

NextPage == /\ offset + displayCap < matching
            /\ Explore(filters, displayCap, offset + displayCap)

ExplorerNext ==
  \/ \E there \in {"explorer", "elsewhere"} :
       setActivePage(there) \/ \E id \in Correlations : handleOpenTrace(id, there)
  \/ \E id \in Correlations : setTraceFilter(id)
  \/ \E listed \in SUBSET Events : Read(listed)
  \/ onPausedChange
  \/ \E id \in Correlations \cup {AnyId}, narrow \in Narrow :
       updateFilter([correlationId |-> id, narrow |-> narrow])
  \/ \E cap \in Caps : setDisplayCap(cap)
  \/ Previous \/ NextPage

-----------------------------------------------------------------------------
(* Properties                                                              *)

Stranded == rows # {} /\ matching > 0 /\ offset >= matching

\* The position is the start of a page of the present length, through every
\* change of the length and of the filters: TraceExplorerWidget.tsx 263-266, 338.
OffsetOnPage == offset % displayCap = 0

\* An id handed to a page with an explorer is taken over at once, also by one
\* that was mounted already (235-240); it waits only where there is none.
HandedIsTaken == place = "explorer" => traceFilter = AnyId

\* Only a poll that lists fewer events can leave the user past the last match,
\* with "No matching events" over matches: no click and no handed id does.
OnlyReadsStrand == [][Stranded' /\ ~Stranded => rows' # rows]_explorerVars
=============================================================================
