----------------------------- MODULE MCConsole -----------------------------
(***************************************************************************)
(* An instance of Console for TLC: a user with two accounts, one of them   *)
(* by invitation; two handlers of the tab and one other window.            *)
(***************************************************************************)
EXTENDS Console, TLC

CONSTANTS own, team, scan, older, draft

Roles      == (own :> "owner") @@ (team :> "billing")
Registered == (own :> <<scan, draft>>) @@ (team :> <<older>>)
=============================================================================
