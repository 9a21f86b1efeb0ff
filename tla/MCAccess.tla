------------------------------ MODULE MCAccess ------------------------------
(***************************************************************************)
(* Instances of Access for TLC.                                            *)
(***************************************************************************)
EXTENDS Access, TLC

CONSTANTS a1, a2, u1, u2, s1, s2, s3, s4, i1, i2, b1, b2

MCHome == u1 :> a1 @@ u2 :> a2

Absent == [role |-> "admin", status |-> "none"]
Owner == [role |-> "owner", status |-> "active"]

\* Two users, each the owner of an account; u2 has a part in a1 too.
TwoOwners == a1 :> (u1 :> Owner @@ u2 :> Owner) @@ a2 :> (u1 :> Absent @@ u2 :> Owner)

Row(a, u, s, st) == [account |-> a, user |-> u, family |-> s, version |-> 0, status |-> st]

\* Both are logged in at a1; logins and rotations can add two rows.
TwoLoggedIn ==
  s1 :> Row(a1, u1, s1, "live") @@ s2 :> Row(a1, u2, s2, "live")
  @@ s3 :> Row(a1, u1, s3, "none") @@ s4 :> Row(a1, u1, s4, "none")

\* u2 has invited somebody to a2; one more invitation can be created.
OneInvited ==
  i1 :> [account |-> a2, role |-> "admin", by |-> NoUser, expired |-> FALSE, status |-> "pending"]
  @@ i2 :> [account |-> a2, role |-> "admin", by |-> NoUser, expired |-> FALSE, status |-> "none"]

\* A new role, a new status, or a removal that names a role as well.
AskedChanges ==
  {[role |-> r, status |-> Keep] : r \in Roles} \cup {[role |-> Keep, status |-> st] : st \in MembershipStatus}
  \cup {[role |-> "admin", status |-> "removed"]}

Alike == Permutations({b1, b2}) \cup Permutations({s3, s4})
=============================================================================
