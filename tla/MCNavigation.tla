---------------------------- MODULE MCNavigation ----------------------------
(* Instances of Navigation for TLC. *)
EXTENDS NavigationFlight

\* What delivery.return_mode "RTL", or "SMART_RTL", can command.
FourModes == {"GUIDED", "BRAKE", "LAND", "RTL"}
SmartModes == FourModes \cup {"SMART_RTL"}
\* A brake by the pilot, or by the FC's own fence.
BrakeOnly == {"BRAKE"}

\* The plan set_delivery_target expands an order to: legs, then the drop.
OneDrop == {<<"drop">>}
LegAndDrop == {<<"nav", "drop">>}
=============================================================================
