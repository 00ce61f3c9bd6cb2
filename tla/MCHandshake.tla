----------------------------- MODULE MCHandshake -----------------------------
(* Instances of Handshake for TLC: two orders, a streak of two readings.   *)
EXTENDS Handshake

TwoOrders == {1, 2}
=============================================================================
