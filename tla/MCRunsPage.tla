----------------------------- MODULE MCRunsPage ------------------------------
EXTENDS RunFigures, RunsTable
\* The figures and the list are two parts of the Runs page: `part` is the one a
\* behaviour is about, and the other keeps its initial state in it.
VARIABLE part

Kind(gate, ok, typed, lead, model, task, latency) ==
  [gate |-> gate, ok |-> ok, typed |-> typed, lead |-> lead, model |-> model, task |-> task, latency |-> latency]
MCKinds == {Kind(TRUE, TRUE, Unserved, Unserved, "m", "code", 0),
            Kind(FALSE, Unserved, Unserved, "malformed", "n", "code", 5),
            Kind(TrueText, FalseText, Unserved, "malformed", "m", "code", 5),
            Kind(TRUE, FALSE, "timeout", "malformed", "delegate-skill", Unserved, 7),
            Kind(Unserved, FALSE, Unserved, Unserved, Unserved, "docs", -1),
            Kind(Unserved, Unserved, Unserved, Unserved, "m", "docs", 5)}
MCEdges == <<0, 5>>

Run(id, created, cost, status) == [id |-> id, created |-> created, cost |-> cost, status |-> status]
MCSample == {Run(1, 1, 3, "passed"), Run(2, 2, -1, "failed"), Run(3, 2, 2, "failed")}
MCFound == [q \in {"", "x"} |-> IF q = "" THEN 1..3 ELSE {1, 2}]
MCLinks == {RunsPage, [RunsPage EXCEPT !.status = "bogus", !.page = -1, !.dir = "asc"],
            [RunsPage EXCEPT !.status = "failed", !.page = 3, !.sort = "cost"]}

MCInit == /\ part \in {"figures", "list"} /\ FiguresInit /\ TableInit
          /\ part = "figures" => history = <<RunsPage>>
MCNext == /\ UNCHANGED part
          /\ \/ part = "figures" /\ FiguresNext /\ UNCHANGED tableVars
             \/ part = "list" /\ TableNext /\ UNCHANGED figureVars
MCSpec == MCInit /\ [][MCNext]_<<figureVars, tableVars, part>>
RunsPageTypeOK == FiguresTypeOK /\ TableTypeOK
=============================================================================
