----------------------------- MODULE MCDelivery -----------------------------
(* Instances of Delivery for TLC. *)
EXTENDS Delivery

\* The book holds 1 and 2 from the start, 1 too far away; 3 is made up by the
\* ground station.
ThreeOrders == 1..3
InTheBook == 1..2
TooFar == {1}
MadeUp == {3}

OneOrder == {1}
NoOrders == {}

Flying == {"accept", "select", "inject"}
ByHand == Flying \cup {"abort", "reject", "refresh"}
EveryButton == ByHand \cup {"reset", "set_auto"}
=============================================================================
