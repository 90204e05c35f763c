---------------------------- MODULE MCTenantPool ----------------------------
(***************************************************************************)
(* TLC instances of TenantPool.                                            *)
(***************************************************************************)
EXTENDS TenantPool
=============================================================================
