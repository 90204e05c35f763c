---------------------------- MODULE MCLocalPage ----------------------------
(***************************************************************************)
(* TLC instances of LocalPage.                                             *)
(***************************************************************************)
EXTENDS LocalPage
=============================================================================
