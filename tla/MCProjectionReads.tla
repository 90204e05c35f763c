------------------------- MODULE MCProjectionReads -------------------------
(***************************************************************************)
(* TLC instances of ProjectionReads.                                       *)
(***************************************************************************)
EXTENDS ProjectionReads, TLC

CONSTANTS lab, cloud, dev, t1, t2

\* Two backends serve an install each, a third does not say which.
OneSilent == (lab :> t1) @@ (cloud :> t2) @@ (dev :> NoTenant)

\* Two backends serve an install each.
TwoInstalls == (lab :> t1) @@ (cloud :> t2)
=============================================================================
