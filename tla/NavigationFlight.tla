--------------------------- MODULE NavigationFlight ---------------------------
(***************************************************************************)
(* Navigation implements Flight: what mission_status tells the delivery    *)
(* node, and what its services do, is what Flight says.                    *)
(***************************************************************************)
EXTENDS Navigation

\* The phase as the delivery node tells phases apart.
Reported(p) ==
    IF p \in {"TAKEOFF", "NAVIGATE", "AVOID", "HOLD", "MANUAL"} THEN "UNDERWAY" ELSE p

F == INSTANCE Flight WITH phase <- Reported(phase), loaded <- (mission # <<>>)

\* Every behaviour of the navigator is one Flight allows: phases follow one
\* another as the delivery node expects, a start is consumed only on the ground,
\* a mission ends disarmed, and only a resume or a start clears the override
\* (step, _svc_status, _svc_set_delivery_target, _svc_start, _svc_abort_delivery).
Flies == F!FlightSpec
=============================================================================
