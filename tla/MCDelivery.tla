----------------------------- MODULE MCDelivery -----------------------------
(***************************************************************************)
(* Instances of Delivery for TLC.                                          *)
(***************************************************************************)
EXTENDS Delivery, TLC

CONSTANTS w1, w2

\* A successful job, alone or with the event of a failed one.
OneDelivery == [e \in {1} |-> "delivery"]
DeliveryAndTerminal == [e \in 1..2 |-> IF e = 1 THEN "delivery" ELSE "terminal"]
EachKind == [e \in 1..3 |-> CASE e = 1 -> "delivery" [] e = 2 -> "terminal" [] e = 3 -> "queued"]

ConsumersAlike == Permutations({w1, w2})
=============================================================================
