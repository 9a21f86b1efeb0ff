----------------------------- MODULE MCJobQueue -----------------------------
(***************************************************************************)
(* Instances of JobQueue for TLC.                                          *)
(***************************************************************************)
EXTENDS JobQueue, TLC

CONSTANTS w1, w2

TwoJobs == [j \in 1..2 |-> 1]
TwoTargets == [j \in 1..2 |-> j]
OneTarget == [j \in 1..2 |-> 1]
SoleJob == [j \in {1} |-> 1]

FullGrant    == {"status", "updated_at", "failure_reason"}
ShippedGrant == {"status", "updated_at"}

WorkersAlike == Permutations({w1, w2})
=============================================================================
