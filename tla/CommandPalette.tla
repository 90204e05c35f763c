--------------------------- MODULE CommandPalette ---------------------------
(***************************************************************************)
(* The command palette: a search over the known nodes with a highlighted  *)
(* row, a payload stage that dispatches a command to the chosen node, and *)
(* a result stage.  Ctrl-K, Escape and the backdrop close the palette in   *)
(* every stage; a dispatch that is out is not cancelled by anything.       *)
(* The request carries no deadline; the answer is the server's.            *)
(***************************************************************************)
EXTENDS Integers, Sequences

CONSTANTS Nodes,
          Queries,      \* texts of the search field; NoQuery is the empty one
          NoQuery,
          Match,        \* Match[q]: KNOWN_NODES whose id contains q, in order
          NoNode,       \* null
          MaxOut        \* dispatches that may be out at once

ASSUME PaletteValues ==
  /\ NoQuery \in Queries /\ NoNode \notin Nodes
  /\ Match \in [Queries -> Seq(Nodes)]
  /\ MaxOut \in Nat

VARIABLES palette,    \* the mounted palette's state, or Unmounted
          answered,   \* the node whose answer the result stage shows
          current,    \* the node whose dispatch the mounted palette has out
          orphaned    \* dispatches of palettes that were closed since

paletteVars == <<palette, answered, current, orphaned>>

Unmounted == [stage |-> "closed", query |-> NoQuery, index |-> 0,
              node |-> NoNode, dispatch |-> "idle"]
Opened == [Unmounted EXCEPT !.stage = "search"]

filtered(p) == Match[p.query]
Least(a, b) == IF a < b THEN a ELSE b
Most(a, b) == IF a < b THEN b ELSE a

PaletteInit == palette = Unmounted /\ answered = NoNode /\ current = NoNode /\ orphaned = 0

-----------------------------------------------------------------------------
(* Opening and closing                                                     *)

toggleOpen == /\ palette.stage = "closed" /\ palette' = Opened
              /\ UNCHANGED <<answered, current, orphaned>>

\* Slip: the closed palette is only hidden and keeps its dispatch.
onCloseHides == /\ palette.stage # "closed" /\ palette' = Unmounted
                /\ answered' = NoNode /\ UNCHANGED <<current, orphaned>>

\* Closing unmounts the palette; its dispatch stays out.
onClose == /\ palette.stage # "closed" /\ palette' = Unmounted
           /\ answered' = NoNode /\ current' = NoNode
           /\ orphaned' = IF current = NoNode THEN orphaned ELSE orphaned + 1

-----------------------------------------------------------------------------
(* The search stage                                                        *)

Search(p) == /\ palette.stage = "search" /\ palette' = p
             /\ UNCHANGED <<answered, current, orphaned>>

\* Slip: the highlight stays where it was.
setQueryKeepsIndex(q) == /\ q # palette.query
                         /\ Search([palette EXCEPT !.query = q])

\* The effect on [query] puts the highlight on the first row.
setQuery(q) == /\ q # palette.query
               /\ Search([palette EXCEPT !.query = q, !.index = 0])

ArrowDown ==
  Search([palette EXCEPT !.index = Least(palette.index + 1, Len(filtered(palette)) - 1)])
ArrowUp == Search([palette EXCEPT !.index = Most(palette.index - 1, 0)])

handleSelect(node) ==
  Search([palette EXCEPT !.stage = "payload", !.node = node])

Enter == /\ palette.index + 1 \in DOMAIN filtered(palette)
         /\ handleSelect(filtered(palette)[palette.index + 1])

Click == \E k \in DOMAIN filtered(palette) : handleSelect(filtered(palette)[k])

-----------------------------------------------------------------------------
(* The payload stage                                                       *)

\* Slip: Back frees the button while a dispatch is out.
BackFreesButton == /\ palette.stage = "payload"
                   /\ palette' = [palette EXCEPT !.stage = "search", !.node = NoNode,
                                                 !.dispatch = "idle"]
                   /\ UNCHANGED <<answered, current, orphaned>>

\* Back leaves the dispatch state alone.
Back == /\ palette.stage = "payload"
        /\ palette' = [palette EXCEPT !.stage = "search", !.node = NoNode]
        /\ UNCHANGED <<answered, current, orphaned>>

\* The button is disabled while a dispatch is out; a payload that is not a JSON
\* object is refused before anything is sent, which changes nothing here.
handleDispatch == /\ palette.stage = "payload" /\ palette.dispatch # "sending"
                  /\ orphaned + 1 <= MaxOut
                  /\ palette' = [palette EXCEPT !.dispatch = "sending"]
                  /\ current' = palette.node
                  /\ UNCHANGED <<answered, orphaned>>

-----------------------------------------------------------------------------
(* The answers                                                             *)

\* The answer of the mounted palette's dispatch shows the result stage, from
\* whatever stage the user has gone to.
Answered(outcome) ==
  /\ current # NoNode
  /\ palette' = [palette EXCEPT !.stage = "result", !.dispatch = outcome]
  /\ answered' = current /\ current' = NoNode
  /\ UNCHANGED orphaned

\* The answer for a palette that is gone sets the state of nothing.
OrphanAnswered == /\ orphaned > 0 /\ orphaned' = orphaned - 1
                  /\ UNCHANGED <<palette, answered, current>>

PaletteAnswer == \/ \E outcome \in {"success", "error"} : Answered(outcome)
                 \/ OrphanAnswered
PaletteNext == \/ toggleOpen \/ onClose
               \/ \E q \in Queries : setQuery(q)
               \/ ArrowDown \/ ArrowUp \/ Enter \/ Click
               \/ Back \/ handleDispatch \/ PaletteAnswer

-----------------------------------------------------------------------------
(* Properties                                                              *)

\* The highlight is on a row of the list, whatever was typed, stepped over and
\* gone back to; only over an empty list it is on none: CommandPalette.tsx 87,
\* 125-131.
HighlightInList ==
  palette.stage = "search" =>
    \/ palette.index + 1 \in DOMAIN filtered(palette)
    \/ filtered(palette) = <<>> /\ palette.index \in {-1, 0}

\* A mounted palette has one dispatch out at most, and is sending exactly while
\* it is: going back and choosing another node does not free the button (259).
OneDispatchOut == palette.dispatch = "sending" <=> current # NoNode

\* The result stage is reached only with the answer of a dispatch this palette
\* sent, never with that of one closed before (115-121).
ResultIsOwn ==
  [][palette.stage # "result" /\ palette'.stage = "result"
     => answered' = current /\ current # NoNode /\ palette.dispatch = "sending"]_paletteVars
=============================================================================
