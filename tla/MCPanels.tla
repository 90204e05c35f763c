------------------------------ MODULE MCPanels ------------------------------
EXTENDS DelegationTrace, CommandPalette, TraceExplorer
\* The three panels share no state: `panel` is the one a behaviour is about,
\* and the others keep their initial state in it.
VARIABLE panel

MCMatch == [q \in {"all", "one", "none"} |->
              CASE q = "all" -> <<"build", "test">> [] q = "one" -> <<"test">> [] OTHER -> <<>>]
MCCorrelationOf == [e \in 1..4 |-> IF e = 4 THEN "any" ELSE IF e = 3 THEN "b" ELSE "a"]
MCNarrow == {1..4, {1, 3}}

panelVars == <<vars, paletteVars, explorerVars, panel>>
MCInit == /\ panel \in {"delegation", "palette", "explorer"}
          /\ Init /\ PaletteInit /\ ExplorerInit
          /\ panel # "explorer" => place = "explorer"
MCNext ==
  /\ UNCHANGED panel
  /\ \/ panel = "delegation" /\ Next /\ UNCHANGED <<paletteVars, explorerVars>>
     \/ panel = "palette" /\ PaletteNext /\ UNCHANGED <<vars, explorerVars>>
     \/ panel = "explorer" /\ ExplorerNext /\ UNCHANGED <<vars, paletteVars>>
MCSpec == MCInit /\ [][MCNext]_panelVars
          /\ WF_vars(panel = "delegation" /\ TraceEnds /\ UNCHANGED <<paletteVars, explorerVars, panel>>)

\* The palette: a highlight on a row of its list (CommandPalette.tsx 87) and a button
\* that is free only when no dispatch is out (259).  The explorer: a position at the
\* start of a page, and no id left waiting beside it (TraceExplorerWidget.tsx 235-266).
PanelsSound == HighlightInList /\ OneDispatchOut /\ OffsetOnPage /\ HandedIsTaken

\* What a step may not do: show the answer of another palette's dispatch
\* (CommandPalette.tsx 115-121), or strand the user past the last match unless the
\* poll took the matches away (TraceExplorerWidget.tsx 251).
PanelStepsSound == ResultIsOwn /\ OnlyReadsStrand
=============================================================================
