---------------------------- MODULE MCOnboarding ----------------------------
(***************************************************************************)
(* A TLC instance of Onboarding.                                           *)
(***************************************************************************)
EXTENDS Onboarding, TLC

CONSTANTS t1, t2, t3

\* The first two ids start with the same digits, so suffixed slugs collide too.
SharedDigits == (t1 :> "aa") @@ (t2 :> "aa") @@ (t3 :> "bb")
=============================================================================
