---------------------------- MODULE MCAuditChain ----------------------------
(***************************************************************************)
(* Small instances of AuditChain.                                          *)
(***************************************************************************)
EXTENDS AuditChain

CONSTANTS o1, o2

MCTwoOrgs == <<o1, o2>>
=============================================================================
