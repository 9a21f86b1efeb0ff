---------------------------- MODULE MCAuditChain ----------------------------
(***************************************************************************)
(* An instance of AuditChain for TLC.                                      *)
(***************************************************************************)
EXTENDS AuditChain, TLC

CONSTANTS a, c1, c2, c3

ConnectionsAlike == Permutations({c1, c2, c3})
=============================================================================
