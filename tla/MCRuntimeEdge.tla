---------------------------- MODULE MCRuntimeEdge ----------------------------
(* Two forms, one of each kind, with two submissions between them: an      *)
(* operator can resubmit while the earlier command is still under way, or  *)
(* both forms wait at once.                                                *)
EXTENDS RuntimeEdge, TLC

CONSTANTS g, d, c1, c2

TwoPanels == {g, d}
OneGenerator == {g}
TwoCalls == {c1, c2}

(* The delegation form alone, with one submission *)
OneTrigger == {d}
OneCall == {c1}

=============================================================================
