------------------------------- MODULE Flight -------------------------------
(***************************************************************************)
(* What the delivery node relies on of the navigator: the part of          *)
(* mission_status it reads and the three services it calls, in terms of    *)
(* the phases it tells apart.  The navigator is checked to implement this  *)
(* (NavigationFlight!Flies); Delivery composes it with the delivery node.  *)
(***************************************************************************)

VARIABLES
    phase,           \* the navigator's phase, see Reported
    loaded,          \* a plan with at least one waypoint is loaded
    startRequested,  \* a start is waiting for the loop
    override,        \* the pilot has the aircraft
    armed

flight == <<phase, loaded, startRequested, override, armed>>

\* UNDERWAY: any of the phases between the ground and the hold or the return
\* that the delivery node shows as en route.
FlightPhases == {"IDLE", "ARMING", "UNDERWAY", "HOVER", "RTL", "LAND", "EMERGENCY",
                 "DISARMED", "COMPLETE"}
OnGround == {"IDLE", "COMPLETE", "DISARMED"}

FlightTypeOK ==
    /\ phase \in FlightPhases
    /\ {loaded, startRequested, override, armed} \subseteq BOOLEAN

FlightInit ==
    /\ phase = "IDLE"
    /\ loaded = FALSE /\ startRequested = FALSE /\ override = FALSE /\ armed = FALSE

\* The services the delivery node calls.
SetPlan == loaded' \in BOOLEAN /\ UNCHANGED <<phase, startRequested, override, armed>>
StartMission ==
    /\ ~override /\ loaded
    /\ startRequested' = TRUE
    /\ UNCHANGED <<phase, loaded, override, armed>>
AbortDelivery ==
    /\ loaded' = FALSE
    /\ phase' = IF armed THEN "RTL" ELSE "IDLE"
    /\ UNCHANGED <<startRequested, override, armed>>

\* A requested start is consumed on the ground, whoever has the aircraft, and
\* the mission arms; failsafes are looked at in the same tick.
Begin ==
    /\ startRequested /\ phase \in OnGround
    /\ startRequested' = FALSE /\ override' = FALSE
    /\ \/ loaded /\ phase' \in {"ARMING", "RTL", "LAND"}
       \/ loaded /\ phase' = IF armed THEN "UNDERWAY" ELSE "IDLE"
       \/ ~loaded /\ phase' = phase
       \/ ~loaded /\ armed /\ phase' \in {"LAND", "UNDERWAY"}
    /\ UNCHANGED <<loaded, armed>>

\* Any other tick of the loop.  The return may be flown as one more waypoint:
\* then a plan is loaded again.
Ticks ==
    /\ ~override /\ ~(startRequested /\ phase \in OnGround)
    /\ \/ UNCHANGED loaded
       \/ loaded' /\ phase \in {"UNDERWAY", "HOVER", "RTL"} /\ phase' = "UNDERWAY"
    /\ UNCHANGED <<startRequested, override, armed>>

\* It takes the mission on ...
Proceed ==
    /\ \/ phase = "ARMING" /\ phase' = (IF armed THEN "UNDERWAY" ELSE "IDLE")
       \/ phase = "UNDERWAY" /\ loaded /\ phase' = "HOVER"
       \/ phase \in {"UNDERWAY", "HOVER"} /\ phase' \in {"UNDERWAY", "RTL"}
       \/ phase = "RTL" /\ armed /\ phase' \in {"UNDERWAY", "LAND"}
       \/ phase = "RTL" /\ ~armed /\ phase' = "COMPLETE"
       \/ phase = "LAND" /\ ~armed /\ phase' = "DISARMED"
    /\ Ticks

\* ... or a failsafe takes it off: a landing, a brake, a return.
Fail ==
    /\ \/ armed /\ phase # "EMERGENCY" /\ phase' = "LAND"
       \/ armed /\ phase' = "UNDERWAY"
       \/ phase \in {"ARMING", "UNDERWAY", "HOVER"} /\ phase' \in {"RTL", "LAND"}
    /\ Ticks

TakeOver ==
    /\ ~override /\ override' = TRUE
    /\ phase' = "UNDERWAY"
    /\ UNCHANGED <<loaded, startRequested, armed>>
Resume ==
    /\ override /\ override' = FALSE
    /\ phase' \in {"UNDERWAY", "IDLE"}
    /\ UNCHANGED <<loaded, startRequested, armed>>

\* The operator's other buttons, at any time.
Press ==
    /\ phase' \in {"UNDERWAY", "RTL", "LAND", "EMERGENCY", "DISARMED"}
    /\ UNCHANGED <<loaded, startRequested, override, armed>>

\* The handshake's thread sends the aircraft home.
EarlyReturn ==
    /\ phase' \in {"RTL", "UNDERWAY"} /\ (UNCHANGED loaded \/ loaded')
    /\ UNCHANGED <<startRequested, override, armed>>

Arms == ~armed /\ armed' = TRUE /\ UNCHANGED <<phase, loaded, startRequested, override>>
Disarms == armed /\ armed' = FALSE /\ UNCHANGED <<phase, loaded, startRequested, override>>

FlightNext ==
    \/ SetPlan \/ StartMission \/ AbortDelivery \/ Begin \/ Proceed \/ Fail
    \/ TakeOver \/ Resume \/ Press \/ EarlyReturn \/ Arms \/ Disarms

FlightSpec == FlightInit /\ [][FlightNext]_flight
=============================================================================
