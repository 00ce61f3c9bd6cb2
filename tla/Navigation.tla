------------------------------ MODULE Navigation ------------------------------
(***************************************************************************)
(* The navigator of the drone stack: nodes/navigation_node.py.             *)
(*                                                                         *)
(* One control loop (step, 10 Hz, under the node's lock) owns the mission  *)
(* phase; callbacks of the bus write what the flight controller (FC), the  *)
(* transmitter and the handshake report; services are the operator's       *)
(* buttons.  All three run in threads of their own.  The lock makes each   *)
(* of them atomic, with one exception: _on_ble_delivery_result decides     *)
(* under the lock and enters the return after giving it back.  That body   *)
(* of _enter_rtl is taken here write by write, and ticks, services and     *)
(* reports fall between any two of its writes.  Of what can fall inside a  *)
(* call under the lock, its RTL that a tick overwrites is modelled (see    *)
(* Becomes); that its other writes fall there is not.                      *)
(*                                                                         *)
(* Time is abstracted: whether a timer has run out when the loop looks at  *)
(* it is a free choice.  So are position, obstacles and the estimate.      *)
(* As in every configuration of the repository, the hold is flown in       *)
(* GUIDED (delivery.hover_mode) and an early result sends the aircraft     *)
(* home (ble_early_rtl_enabled).                                           *)
(***************************************************************************)
EXTENDS Naturals, Sequences

CONSTANTS
    Modes,             \* the FC modes told apart
    PilotPicks,        \* modes the pilot, or the FC by itself, may switch to
    ReturnMode,        \* delivery.return_mode: "RTL" or "SMART_RTL"
    Router,            \* navigation.avoidance_rtl_router: "pi" or "fc"
    AboutFace,         \* navigation.avoidance_rtl_about_face
    TurnOntoHome,      \* navigation.avoidance_yaw_before_rtl
    ScanEnabled,       \* delivery.person_scan_enabled
    FailsafesEnabled,  \* safety.failsafes_enabled
    Plans,             \* the plans the operator or the delivery node may load
    MaxOrders,         \* bound: set_delivery_target and start_mission calls
    MaxInterventions   \* bound: other disturbances of the loop in a behaviour

ASSUME ConfigAssumption ==
    /\ {"GUIDED", "BRAKE", "LAND", "RTL", ReturnMode} \subseteq Modes
    /\ PilotPicks \subseteq Modes
    /\ "" \notin Modes /\ "UNKNOWN" \notin Modes
    /\ ReturnMode \in {"RTL", "SMART_RTL"}
    /\ Router \in {"pi", "fc"}
    /\ {AboutFace, TurnOntoHome, ScanEnabled, FailsafesEnabled} \subseteq BOOLEAN
    /\ MaxOrders \in Nat /\ MaxInterventions \in Nat

WaypointKinds == {"nav", "drop", "home"}
ASSUME PlansAssumption == Plans \subseteq Seq(WaypointKinds)

VARIABLES
    phase,           \* _phase
    mission,         \* _mission.waypoints, each reduced to its kind
    wp,              \* _current_wp
    holding,         \* _hover_until is set
    stage,           \* _scan_stage
    delivered,       \* _ble_delivered_at is set
    override,        \* _pilot_override
    startRequested,  \* _start_requested
    link,            \* what _send and _check_pilot_override remember of mode commands
    ret,             \* the bookkeeping of the return home
    armed,           \* _armed, as last reported
    hasFlown,        \* _has_flown
    home,            \* _home is set
    mode,            \* _mode, as last reported
    critical,        \* the last battery report is at or below critical
    tooHigh,         \* the last fused altitude is above the ceiling and its margin
    ble,             \* where the thread in _on_ble_delivery_result is, see BleStates
    episode,         \* history: what happened in the current hold
    orders,          \* calls of the delivery node left (bound)
    interventions    \* disturbances left (bound)

hold == <<holding, stage, delivered, episode>>
vars == <<phase, mission, wp, holding, stage, delivered, override, startRequested,
          link, ret, armed, hasFlown, home, mode, critical, tooHigh, ble, episode,
          orders, interventions>>

Phases == {"IDLE", "ARMING", "TAKEOFF", "NAVIGATE", "AVOID", "HOVER", "HOLD",
           "MANUAL", "RTL", "LAND", "EMERGENCY", "DISARMED", "COMPLETE"}
Grounded == {"IDLE", "COMPLETE", "DISARMED"}
\* Mutant: a landing is open to the last group of failsafes.
ExemptButLand == Grounded \cup {"EMERGENCY", "RTL"}
\* The phases the last group of failsafes leaves alone.
Exempt == Grounded \cup {"EMERGENCY", "LAND", "RTL"}
Stages == {"", "descend", "search", "locked"}

Link == [commanded : Modes \cup {""},   \* _commanded_mode
         left      : Modes \cup {"", "UNKNOWN"},   \* _mode_at_command, or "" once
                                        \* _commanded_mode_reached
         mismatch  : BOOLEAN,           \* _mode_mismatch_since is set
         inFlight  : Modes \cup {""}]   \* the mode request the FC has yet to answer

Return == [job       : BOOLEAN,   \* _rtl_job_finished
           about     : BOOLEAN,   \* _about_face_since is set
           turn      : BOOLEAN,   \* _rtl_turn_since is set
           requested : BOOLEAN,   \* _rtl_requested_at is set
           fellBack  : BOOLEAN,   \* _rtl_fell_back
           braking   : BOOLEAN,   \* _rtl_braking_since is set
           piFlown   : BOOLEAN,   \* _pi_return_flown
           piSince   : BOOLEAN,   \* _pi_return_since is set
           asked     : BOOLEAN]   \* history: the return mode has been sent to the
                                  \* FC since RTL was entered

\* The handshake's thread: about to write the job, the phase; to choose between
\* a turn and the return; to void the request; to send it; to append the leg home,
\* to enter it, to leave BRAKE for it.
BleStates == {"idle", "decided", "job", "marked", "turning", "cleared", "flown",
              "appended", "leg"}

TypeOK ==
    /\ phase \in Phases
    /\ mission \in Seq(WaypointKinds) /\ wp \in Nat
    /\ holding \in BOOLEAN /\ stage \in Stages /\ delivered \in BOOLEAN
    /\ override \in BOOLEAN /\ startRequested \in BOOLEAN
    /\ link \in Link /\ ret \in Return
    /\ armed \in BOOLEAN /\ hasFlown \in BOOLEAN /\ home \in BOOLEAN
    /\ mode \in Modes \cup {"UNKNOWN"}
    /\ critical \in BOOLEAN /\ tooHigh \in BOOLEAN
    /\ ble \in BleStates
    /\ episode \subseteq {"result", "lock", "replaced"}
    /\ orders \in 0..MaxOrders /\ interventions \in 0..MaxInterventions

Init ==
    /\ phase = "IDLE" /\ mission = <<>> /\ wp = 0
    /\ holding = FALSE /\ stage = "" /\ delivered = FALSE
    /\ override = FALSE /\ startRequested = FALSE
    /\ link = [commanded |-> "", left |-> "", mismatch |-> FALSE, inFlight |-> ""]
    /\ ret = [job |-> FALSE, about |-> FALSE, turn |-> FALSE, requested |-> FALSE,
              fellBack |-> FALSE, braking |-> FALSE, piFlown |-> FALSE, piSince |-> FALSE,
              asked |-> FALSE]
    /\ armed = FALSE /\ hasFlown = FALSE /\ home = FALSE /\ mode = "UNKNOWN"
    /\ critical = FALSE /\ tooHigh = FALSE
    /\ ble = "idle" /\ episode = {}
    /\ orders = MaxOrders /\ interventions = MaxInterventions

-----------------------------------------------------------------------------
(* A call works on a copy of what the commands and the return home write,  *)
(* a context, helper after helper, and leaves the last one (Becomes).      *)
(* nose: no valid estimate; home ahead (or the turning budget spent); or   *)
(* home behind the LiDAR window.                                           *)

Noses == {"unknown", "ahead", "behind"}
Context == [phase : Phases, mission : Seq(WaypointKinds), wp : Nat, link : Link,
            ret : Return, nose : Noses]

Call(nose) == [phase |-> phase, mission |-> mission, wp |-> wp, link |-> link,
               ret |-> ret, nose |-> nose]
Here == Call("unknown")

\* A call that leaves RTL, or acts outside it, forgets whether a return was sent.
Assigns(c) == /\ phase' = c.phase
              /\ mission' = c.mission
              /\ wp' = c.wp
              /\ link' = c.link
              /\ ret' = IF c.phase = "RTL" THEN c.ret ELSE [c.ret EXCEPT !.asked = FALSE]

\* A call under the lock that moves the phase may do so over the RTL the
\* handshake's thread writes without it.
Becomes(c) ==
    /\ Assigns(c)
    /\ ble' \in {ble} \cup (IF ble = "job" /\ c.phase # phase THEN {"marked"} ELSE {})

\* Mutant: the two modes swapped.
NoteSwapped(c, m) ==
    IF c.link.commanded = m THEN c
    ELSE [c EXCEPT !.link.commanded = mode, !.link.mismatch = FALSE, !.link.left = m]
\* A command that implies mode m is remembered; when m is new, so is the mode
\* the FC is to leave, and the takeover detector starts over.
Note(c, m) ==
    IF c.link.commanded = m THEN c
    ELSE [c EXCEPT !.link.commanded = m, !.link.mismatch = FALSE, !.link.left = mode]

\* goto and velocity imply GUIDED and are always published.
Motion(c) == Note(c, "GUIDED")

\* set_mode, brake, land, rtl: published unless the FC already reports the mode.
\* A repeat within mode_resend_interval_s is dropped; here it is one the FC refused.
Ask(c, m) ==
    LET n == Note(c, m) IN
    IF mode = m THEN n ELSE [n EXCEPT !.link.inFlight = m]

\* takeoff: the MAVLink interface sets GUIDED before it sends the command.
TakeOff(c) == [Motion(c) EXCEPT !.link.inFlight = "GUIDED"]

\* _ensure_guided: the one mode the navigator gets itself out of is BRAKE.
LeaveBrake(c) == IF mode = "BRAKE" THEN Ask(c, "GUIDED") ELSE c

\* goto through a geodetic target needs home.
Goto(c) == IF home THEN Motion(c) ELSE c

Active(c) == c.wp < Len(c.mission)

-----------------------------------------------------------------------------
(* Returning and landing.                                                  *)

EnterLand(c) == Ask([c EXCEPT !.phase = "LAND"], "LAND")

PiReturnWanted(c) ==
    Router = "pi" /\ c.ret.job /\ ~c.ret.piFlown /\ home /\ c.nose # "unknown"

PiTakes(c) == [c EXCEPT !.ret.piFlown = TRUE, !.ret.piSince = TRUE]
LegHome(c) == [c EXCEPT !.mission = Append(@, "home"), !.wp = Len(c.mission)]
Cleared(c) == [c EXCEPT !.ret.piSince = FALSE, !.ret.turn = FALSE, !.ret.about = FALSE,
                        !.ret.braking = FALSE]
Requested(c) == [c EXCEPT !.ret.requested = TRUE, !.ret.asked = TRUE,
                          !.ret.fellBack = (ReturnMode # "SMART_RTL")]

\* Mutant: the return of a finished job is noted, and left to its turn to send.
CommitUnsent(c) ==
    IF PiReturnWanted(c) THEN LeaveBrake([LegHome(PiTakes(c)) EXCEPT !.phase = "NAVIGATE"])
    ELSE IF ~c.ret.job THEN Ask(Requested(Cleared(c)), ReturnMode)
    ELSE [Cleared(c) EXCEPT !.ret.requested = TRUE]

\* _commit_rtl: fly the return as one more waypoint, or hand it to the FC.
CommitRtl(c) ==
    IF PiReturnWanted(c) THEN LeaveBrake([LegHome(PiTakes(c)) EXCEPT !.phase = "NAVIGATE"])
    ELSE Ask(Requested(Cleared(c)), ReturnMode)

\* _about_face_wanted and _rtl_turn_wanted set their timer and void the request.
AboutFaceWanted(c) == AboutFace /\ c.nose # "unknown"
TurnWanted(c) == TurnOntoHome /\ home /\ c.nose = "behind"
StartAboutFace(c) == [c EXCEPT !.ret.about = TRUE, !.ret.requested = FALSE]
StartTurn(c) == [c EXCEPT !.ret.turn = TRUE, !.ret.requested = FALSE]

\* The body of _enter_rtl after its first two assignments.
HandOver(c, turnFirst) ==
    LET turning == turnFirst /\ ~c.ret.piFlown IN
    IF turning /\ AboutFaceWanted(c) THEN StartAboutFace(c)
    ELSE IF turning /\ TurnWanted(c) THEN StartTurn(c)
    ELSE CommitRtl(c)

EnterRtl(c, turnFirst) ==
    HandOver([c EXCEPT !.ret.job = turnFirst, !.ret.asked = FALSE, !.phase = "RTL"],
             turnFirst)

-----------------------------------------------------------------------------
(* The takeover detector: _check_pilot_override.                           *)

\* The FC left the commanded mode for another one, after reaching it or from
\* somewhere else than where it was when commanded.
Departed ==
    /\ mode # "UNKNOWN" /\ link.commanded # "" /\ mode # link.commanded
    /\ mode # link.left

\* What a look that does not latch leaves behind.
Observed(c) ==
    IF mode # "UNKNOWN" /\ mode = c.link.commanded
    THEN [c EXCEPT !.link.left = "", !.link.mismatch = FALSE]
    ELSE IF Departed THEN [c EXCEPT !.link.mismatch = TRUE] ELSE c

\* Services and ticks leave these to the environment.
Outside == <<armed, hasFlown, home, mode, critical, tooHigh>>

\* A tick on which the pilot takes the aircraft: sticks or switches moved, or
\* the FC has been in a mode nobody here commanded for pilot_override_grace_s.
\* Once latched, a tick changes nothing (a stuttering step).
TakeOver ==
    /\ ~override
    /\ \/ interventions > 0 /\ interventions' = interventions - 1
       \/ Departed /\ link.mismatch /\ UNCHANGED interventions
    /\ override' = TRUE
    /\ phase' = "MANUAL"
    /\ holding' = FALSE /\ episode' = {}
    /\ UNCHANGED <<mission, wp, stage, delivered, startRequested, link, ret, ble, orders>>
    /\ UNCHANGED Outside

-----------------------------------------------------------------------------
(* The control loop: step, when the pilot does not have the aircraft.      *)

StartDue == startRequested /\ phase \in Grounded

\* _check_failsafe, in its order.  The battery is looked at twice; only the
\* second look can be switched off.
LandNow(p) ==
    /\ critical
    /\ \/ armed /\ p \notin {"LAND", "EMERGENCY"}
       \/ FailsafesEnabled /\ p \notin Exempt
BrakeNow(p) == ~LandNow(p) /\ armed /\ home /\ tooHigh
Quiet(p) == ~LandNow(p) /\ ~BrakeNow(p)

\* _apply_failsafe.  A low battery, a lost link or the geofence, which also send
\* the aircraft home, are free to be reported at any time.
Failsafe(c) ==
    \/ LandNow(c.phase) /\ Becomes(EnterLand(c))
    \/ BrakeNow(c.phase) /\ Becomes(Ask([c EXCEPT !.phase = "HOLD"], "BRAKE"))
    \/ /\ FailsafesEnabled /\ c.phase \notin Exempt /\ Quiet(c.phase)
       /\ Becomes(EnterRtl(c, FALSE))

\* _do_arming: send nothing yet, take off, give up, or try (again).
Arming(c) ==
    \/ Becomes(c)
    \/ home /\ armed /\ Becomes(TakeOff([c EXCEPT !.phase = "TAKEOFF"]))
    \/ home /\ ~armed /\ Becomes([c EXCEPT !.phase = "IDLE"])
    \/ home /\ ~armed /\ Becomes(Ask(c, "GUIDED"))

\* _maybe_auto_start, _begin_mission and the rest of that tick.
StartTick ==
    /\ StartDue
    /\ startRequested' = FALSE
    /\ override' = FALSE
    /\ LET cleared == [Here EXCEPT !.link.mismatch = FALSE]
             c == Observed(IF mission = <<>> THEN cleared
                           ELSE [cleared EXCEPT !.phase = "ARMING", !.wp = 0])
         IN  \/ Failsafe(c)
             \/ Quiet(c.phase) /\ c.phase = "ARMING" /\ Arming(c)
             \/ Quiet(c.phase) /\ c.phase # "ARMING" /\ Becomes(c)
    /\ IF mission = <<>> THEN UNCHANGED <<holding, stage, episode>>
       ELSE holding' = FALSE /\ stage' = "" /\ episode' = {}
    /\ UNCHANGED <<delivered, orders, interventions>> /\ UNCHANGED Outside

\* Mutant: the loop goes on under override.
TickingOn == ~StartDue
             /\ UNCHANGED <<override, startRequested, orders, interventions>>
             /\ UNCHANGED Outside

\* Every other tick: the context the handler of the phase starts from.
Seen(nose) == Observed(Call(nose))
Look == Seen("unknown")
Ticking == ~override /\ ~StartDue
           /\ UNCHANGED <<override, startRequested, orders, interventions>>
           /\ UNCHANGED Outside
Tick(p) == phase = p /\ Ticking /\ Quiet(p)

FailsafeTick ==
    /\ Ticking
    /\ Failsafe(Look)
    /\ UNCHANGED hold

\* Nothing to command: on the ground, in an emergency, settling after takeoff.
WatchTick ==
    /\ phase \in Grounded \cup {"EMERGENCY", "TAKEOFF"}
    /\ Tick(phase)
    /\ Becomes(Look)
    /\ UNCHANGED hold

ArmingTick ==
    /\ Tick("ARMING")
    /\ Arming(Look)
    /\ UNCHANGED hold

\* _do_takeoff once the altitude is reached and has settled.
TakeoffDone ==
    /\ Tick("TAKEOFF")
    /\ Becomes([Look EXCEPT !.phase = "NAVIGATE"])
    /\ UNCHANGED hold

\* _do_navigate: an obstacle inside the stop distance.
NavigateStop ==
    /\ Tick("NAVIGATE")
    /\ Becomes(Ask([Look EXCEPT !.phase = "AVOID"], "BRAKE"))
    /\ UNCHANGED hold

\* _do_navigate: no waypoint left.
NavigateDone ==
    /\ Tick("NAVIGATE") /\ wp >= Len(mission)
    /\ \E nose \in Noses : Becomes(EnterRtl(Seen(nose), TRUE))
    /\ UNCHANGED hold

\* Mutant: the hold of a drop is not looked at.
NavigatePassAny ==
    /\ Tick("NAVIGATE") /\ wp < Len(mission)
    /\ Becomes([Look EXCEPT !.wp = @ + 1])
    /\ UNCHANGED hold

\* _do_navigate at a waypoint without a hold.
NavigatePass ==
    /\ Tick("NAVIGATE") /\ wp < Len(mission)
    /\ mission[wp + 1] # "drop"
    /\ Becomes([Look EXCEPT !.wp = @ + 1])
    /\ UNCHANGED hold

\* Mutants: the last hold's result, or its stage, survives into this one.
EnterHoverStaleResult ==
    /\ Tick("NAVIGATE") /\ wp < Len(mission)
    /\ mission[wp + 1] = "drop"
    /\ Becomes(Goto([Look EXCEPT !.phase = "HOVER"]))
    /\ holding' = TRUE
    /\ stage' = IF ScanEnabled THEN "descend" ELSE stage
    /\ episode' = {}
    /\ UNCHANGED delivered
EnterHoverStaleStage ==
    /\ Tick("NAVIGATE") /\ wp < Len(mission)
    /\ mission[wp + 1] = "drop"
    /\ Becomes(Goto([Look EXCEPT !.phase = "HOVER"]))
    /\ holding' = TRUE
    /\ delivered' = FALSE
    /\ stage' = IF ScanEnabled /\ stage = "" THEN "descend" ELSE stage
    /\ episode' = {}

\* _enter_hover, or _enter_scan when a person must be found first.
EnterHover ==
    /\ Tick("NAVIGATE") /\ wp < Len(mission)
    /\ mission[wp + 1] = "drop"
    /\ Becomes(Goto([Look EXCEPT !.phase = "HOVER"]))
    /\ holding' = TRUE
    /\ delivered' = FALSE
    /\ stage' = IF ScanEnabled THEN "descend" ELSE stage
    /\ episode' = {}

\* _do_navigate on the way: leave BRAKE first; then nothing (the yaw gate), a
\* goto or a steering velocity.
NavigateFly ==
    /\ Tick("NAVIGATE") /\ wp < Len(mission)
    /\ LET c == Look IN
         \/ mode = "BRAKE" /\ Becomes(LeaveBrake(c))
         \/ mode # "BRAKE" /\ Becomes(c)
         \/ mode # "BRAKE" /\ Becomes(Motion(c))
    /\ UNCHANGED hold

\* _pi_return_overdue: the Pi has used up its budget for the return.
PiReturnOverdue ==
    /\ Tick("NAVIGATE") /\ wp < Len(mission) /\ mode # "BRAKE"
    /\ ret.piSince
    /\ Becomes(CommitRtl([Look
             EXCEPT !.ret.piSince = FALSE, !.ret.job = FALSE, !.ret.asked = FALSE,
                    !.phase = "RTL"]))
    /\ UNCHANGED hold

\* _do_avoid: brake, leave BRAKE or steer while blocked; then rejoin the track.
AvoidTick ==
    /\ Tick("AVOID")
    /\ LET c == Look IN
         \/ Becomes(Ask(c, "BRAKE"))
         \/ mode = "BRAKE" /\ Becomes(LeaveBrake(c))
         \/ mode # "BRAKE" /\ Becomes(Motion(c))
         \/ Becomes([c EXCEPT !.phase = "NAVIGATE"])
    /\ UNCHANGED hold

(* The delivery hold: _do_hover and, with a scan, _do_scan.                *)

Scanning == ScanEnabled /\ stage # ""

\* Backing off an obstacle, re-asserting a sagging hold, moving the hold.
Nudges(c) == {c, Motion(c), Ask(c, "BRAKE"), Motion(Ask(c, "GUIDED"))}

HoverWait ==
    /\ Tick("HOVER") /\ holding
    /\ \E c \in Nudges(Look) : Becomes(c)
    /\ UNCHANGED hold

\* The hold was cleared under the loop's feet: on to the next waypoint.
HoverSkip ==
    /\ Tick("HOVER") /\ ~holding
    /\ Becomes([Look EXCEPT !.phase = "NAVIGATE", !.wp = @ + 1])
    /\ UNCHANGED hold

\* The timer ran out, or the drop was confirmed; _scan_finish.
HoverDone ==
    /\ Tick("HOVER") /\ holding
    /\ \E nose \in Noses : \E seen \in Nudges(Seen(nose)) :
         LET c == [seen EXCEPT !.wp = @ + 1] IN
         Becomes(IF Active(c) THEN [c EXCEPT !.phase = "NAVIGATE"] ELSE EnterRtl(c, TRUE))
    /\ holding' = FALSE /\ episode' = {}
    /\ delivered' = FALSE
    /\ stage' = IF Scanning THEN "" ELSE stage

\* _scan_begin_search
ScanSearch ==
    /\ Tick("HOVER") /\ holding /\ Scanning
    /\ stage = "descend" /\ ~delivered
    /\ \E c \in Nudges(Look) : Becomes(Goto(c))
    /\ stage' = "search"
    /\ UNCHANGED <<holding, delivered, episode>>

\* _scan_begin_locked, on the camera's (and the phone's) word.
ScanLock ==
    /\ Tick("HOVER") /\ holding /\ Scanning
    /\ stage = "search" /\ ~delivered
    /\ \E c \in Nudges(Look) : Becomes(c)
    /\ stage' = "locked"
    /\ episode' = episode \cup {"lock"}
    /\ UNCHANGED <<holding, delivered>>

HoldTick ==
    /\ Tick("HOLD")
    /\ Becomes(Ask(Look, "BRAKE"))
    /\ UNCHANGED hold

\* _do_manual: an obstacle inside the stop distance brakes, nothing else.
ManualTick ==
    /\ Tick("MANUAL")
    /\ LET c == Look IN Becomes(c) \/ Becomes(Ask(c, "BRAKE"))
    /\ UNCHANGED hold

(* The return: _do_rtl.                                                    *)

ReturnDown ==
    /\ Tick("RTL") /\ ~armed
    /\ Becomes([Look EXCEPT !.phase = "COMPLETE",
                  !.ret.requested = FALSE, !.ret.turn = FALSE, !.ret.about = FALSE])
    /\ UNCHANGED hold

\* _rtl_brake_release
BrakeRelease(c) ==
    IF c.ret.braking THEN Ask([c EXCEPT !.ret.braking = FALSE], ReturnMode) ELSE c

\* Mutant: arriving home does not ask whether the FC was given the return.
ReturningUnasked(c, fresh) ==
    \/ Becomes(Ask([c EXCEPT !.ret.braking = TRUE], "BRAKE"))
    \/ Becomes(BrakeRelease(c))
    \/ ~fresh /\ Becomes(EnterLand(BrakeRelease(c)))

\* The last part of _do_rtl; fresh: the return was committed on this very tick,
\* so none of its timers has run out.
Returning(c, fresh) ==
    \/ /\ ReturnMode = "SMART_RTL" /\ mode # "SMART_RTL" /\ ~fresh
       /\ c.ret.requested /\ ~c.ret.fellBack
       /\ Becomes(Ask([c EXCEPT !.ret.fellBack = TRUE], "RTL"))
    \/ Becomes(Ask([c EXCEPT !.ret.braking = TRUE], "BRAKE"))
    \/ Becomes(BrakeRelease(c))
    \/ c.ret.requested /\ ~fresh /\ Becomes(EnterLand(BrakeRelease(c)))

\* The turn onto home goes on, or ends and the return is committed.
Turning(c, fresh) ==
    \/ ~c.ret.turn /\ Returning(c, fresh)
    \/ c.ret.turn /\ Becomes(c)
    \/ c.ret.turn /\ Returning(CommitRtl(c), TRUE)

RtlTick ==
    /\ Tick("RTL") /\ armed
    /\ \E nose \in Noses :
         LET c == Seen(nose)
             faced == [c EXCEPT !.ret.about = FALSE]
         IN  \/ ~ret.about /\ Turning(c, FALSE)
             \/ ret.about /\ Becomes(c)
             \/ ret.about /\ TurnWanted(faced) /\ Becomes(StartTurn(faced))
             \/ ret.about /\ ~TurnWanted(faced) /\ Turning(CommitRtl(faced), TRUE)
    /\ UNCHANGED hold

\* _do_land: LAND is re-asserted until the FC reports it.
LandTick ==
    /\ Tick("LAND")
    /\ LET c == Look IN
         \/ ~armed /\ Becomes([c EXCEPT !.phase = "DISARMED"])
         \/ armed /\ Becomes(c)
         \/ armed /\ mode # "LAND" /\ Becomes(Ask(c, "LAND"))
    /\ UNCHANGED hold

Loop ==
    \/ StartTick \/ FailsafeTick \/ WatchTick \/ ArmingTick \/ TakeoffDone
    \/ NavigateStop \/ NavigateDone \/ NavigatePass \/ EnterHover \/ NavigateFly
    \/ PiReturnOverdue \/ AvoidTick
    \/ HoverWait \/ HoverSkip \/ HoverDone \/ ScanSearch \/ ScanLock
    \/ HoldTick \/ ManualTick \/ ReturnDown \/ RtlTick \/ LandTick

-----------------------------------------------------------------------------
(* The handshake's result: _on_ble_delivery_result, in the thread of the   *)
(* bus's publisher.  What it read under the lock is all it acts on.        *)

BleResult ==
    /\ ble = "idle" /\ interventions > 0
    /\ interventions' = interventions - 1
    /\ delivered' = TRUE
    /\ LET inHold == phase = "HOVER" /\ holding IN
       /\ ble' = IF ~inHold /\ ~override /\ armed /\ hasFlown THEN "decided" ELSE "idle"
       /\ episode' = IF inHold THEN episode \cup {"result"} ELSE episode
    /\ UNCHANGED <<phase, mission, wp, holding, stage, override, startRequested, link, ret,
                   orders>>
    /\ UNCHANGED Outside

\* _enter_rtl without the lock: each step one write of it, with what the thread
\* reads for that write.  Writes no reader tells apart are one step.
Unlocked(from, to, c) ==
    /\ ble = from /\ ble' = to
    /\ Assigns(c)
    /\ UNCHANGED hold
    /\ UNCHANGED <<override, startRequested, orders, interventions>> /\ UNCHANGED Outside

\* Its first two assignments.
BleJob == Unlocked("decided", "job", [Here EXCEPT !.ret.job = TRUE])
BleMark == Unlocked("job", "marked", [Here EXCEPT !.phase = "RTL", !.ret.asked = FALSE])

\* A turn: its timer, and later the void.
TurnsFirst(c) == ~c.ret.piFlown /\ (AboutFaceWanted(c) \/ TurnWanted(c))
BleTurn == \E nose \in Noses :
    /\ Unlocked("marked", "turning",
                IF AboutFaceWanted(Call(nose)) THEN [Here EXCEPT !.ret.about = TRUE]
                ELSE [Here EXCEPT !.ret.turn = TRUE])
    /\ TurnsFirst(Call(nose))
BleVoid == Unlocked("turning", "idle", [Here EXCEPT !.ret.requested = FALSE])

\* No turn: the leg home is flown by the Pi.  It is appended and made the current
\* one in one step; a plan loaded between the two writes is not modelled ...
BleFly == \E nose \in Noses :
    /\ Unlocked("marked", "flown", PiTakes(Here))
    /\ ~TurnsFirst(Call(nose)) /\ PiReturnWanted(Call(nose))
BleAppend == Unlocked("flown", "appended", LegHome(Here))
BleLeg == Unlocked("appended", "leg", [Here EXCEPT !.phase = "NAVIGATE"])
BleLeave == Unlocked("leg", "idle", LeaveBrake(Here))

\* ... or the FC is given the return.
BleClear == \E nose \in Noses :
    /\ Unlocked("marked", "cleared", Cleared(Here))
    /\ ~TurnsFirst(Call(nose)) /\ ~PiReturnWanted(Call(nose))
BleCommit == Unlocked("cleared", "idle", Ask(Requested(Here), ReturnMode))

EarlyReturn ==
    \/ BleJob \/ BleMark \/ BleTurn \/ BleVoid
    \/ BleFly \/ BleAppend \/ BleLeg \/ BleLeave
    \/ BleClear \/ BleCommit

-----------------------------------------------------------------------------
(* The operator: the services, each under the lock.  Typed commands        *)
(* (nl_command) share them or have an action of their own.                 *)

Orders == orders > 0 /\ orders' = orders - 1
          /\ UNCHANGED interventions /\ UNCHANGED Outside
Operates == interventions > 0 /\ interventions' = interventions - 1
            /\ UNCHANGED orders /\ UNCHANGED Outside
\* A service that only works on a context.
Serves(c) == Operates /\ Becomes(c)
             /\ UNCHANGED hold /\ UNCHANGED <<override, startRequested>>

Enter(p) == [Here EXCEPT !.phase = p]

\* The button sets the phase and leaves the braking to the loop; the typed
\* command brakes at once.
Hold == Serves(Enter("HOLD"))
TypedHold == Serves(Ask([Here EXCEPT !.phase = "HOLD"], "BRAKE"))

\* _resume_locked: take control back, or leave HOLD.
Resume ==
    /\ Operates
    /\ \/ /\ override
          /\ override' = FALSE
          /\ LET c == [Here EXCEPT !.link.mismatch = FALSE]
               IN  Becomes(IF Active(c)
                           THEN [Ask(c, "GUIDED") EXCEPT !.phase = "NAVIGATE"]
                           ELSE [c EXCEPT !.phase = "IDLE"])
       \/ ~override /\ phase = "HOLD" /\ Becomes(Enter("NAVIGATE")) /\ UNCHANGED override
    /\ UNCHANGED hold /\ UNCHANGED startRequested

\* Typed "resume" with nothing to resume from restarts the current waypoint.
TypedResume == ~override /\ phase # "HOLD" /\ mission # <<>> /\ Serves(Enter("NAVIGATE"))

Rtl == Serves(EnterRtl(Here, FALSE))
Land == Serves(EnterLand(Here))
EmergencyStop == Serves(Ask(Ask([Here EXCEPT !.phase = "EMERGENCY"], "BRAKE"), "LAND"))
ClearEmergency == phase = "EMERGENCY" /\ Serves(Enter("HOLD"))
TypedDisarm == Serves(Enter("DISARMED"))
TypedYaw == armed /\ Serves(Enter("MANUAL"))
TypedMode(m) == Serves(Ask(Here, m))
TypedTakeoff == Serves(TakeOff(Ask([Here EXCEPT !.phase = "MANUAL"], "GUIDED")))

\* A typed move, and goto_gps outside the hold; goto_gps moves a plain hold.
MoveTo == LET c == [Here EXCEPT !.phase = "MANUAL"] IN
    home /\ Serves(Motion(IF armed THEN c ELSE Ask(c, "GUIDED")))
MoveHold == home /\ phase = "HOVER" /\ ~Scanning /\ Serves(Motion(Here))

\* Mutant: the override is not asked about.
StartAnyway ==
    /\ Orders
    /\ mission # <<>>
    /\ startRequested' = TRUE
    /\ UNCHANGED hold /\ UNCHANGED override
    /\ Becomes(Here)

\* start_mission, refused under override and without a plan.
Start ==
    /\ Orders
    /\ ~override /\ mission # <<>>
    /\ startRequested' = TRUE
    /\ UNCHANGED hold /\ UNCHANGED override
    /\ Becomes(Here)

AbortDelivery ==
    /\ Operates
    /\ LET c == [Here EXCEPT !.mission = <<>>, !.wp = 0] IN
         Becomes(IF armed THEN EnterRtl(c, FALSE) ELSE [c EXCEPT !.phase = "IDLE"])
    /\ holding' = FALSE /\ episode' = {}
    /\ UNCHANGED <<stage, delivered, override, startRequested>>

\* set_delivery_target replaces plan and position in it; load_mission the plan.
SetDeliveryTarget ==
    /\ Orders
    /\ home
    /\ \E m \in Plans :
         m # <<>> /\ Becomes([Here EXCEPT !.mission = m, !.wp = 0])
    /\ holding' = FALSE
    /\ episode' = IF phase = "HOVER" THEN {"replaced"} ELSE {}
    /\ UNCHANGED <<stage, delivered, override, startRequested>>
LoadMission == \E m \in Plans : Serves([Here EXCEPT !.mission = m])

Operator ==
    \/ Hold \/ TypedHold \/ Resume \/ TypedResume \/ Rtl \/ Land
    \/ EmergencyStop \/ ClearEmergency \/ TypedDisarm \/ TypedYaw
    \/ \E m \in Modes : TypedMode(m)
    \/ TypedTakeoff \/ MoveTo \/ MoveHold \/ Start \/ AbortDelivery
    \/ SetDeliveryTarget \/ LoadMission

-----------------------------------------------------------------------------
(* What the rest of the aircraft reports: _on_armed, _on_gps, _on_mode,    *)
(* the battery and the fused estimate.                                     *)

Untouched == UNCHANGED <<phase, mission, wp, holding, stage, delivered, override,
                         startRequested, ret, ble, episode, orders>>

\* The FC takes the last mode request, or refuses it.
FcAnswer ==
    /\ link.inFlight # ""
    /\ mode' \in {mode, link.inFlight}
    /\ link' = [link EXCEPT !.inFlight = ""]
    /\ UNCHANGED <<armed, hasFlown, home, critical, tooHigh, interventions>> /\ Untouched

\* The pilot's switch, the FC's own failsafes, or a late answer of the FC.
ModeChanges ==
    /\ interventions > 0 /\ interventions' = interventions - 1
    /\ \E m \in PilotPicks : m # mode /\ mode' = m
    /\ UNCHANGED <<link, armed, hasFlown, home, critical, tooHigh>> /\ Untouched

Arms ==
    /\ ~armed /\ armed' = TRUE
    /\ hasFlown' = TRUE
    /\ UNCHANGED <<link, home, mode, critical, tooHigh, interventions>> /\ Untouched

\* The FC disarms where LAND or RTL ends; anywhere else it is a disturbance.
Disarms ==
    /\ armed /\ armed' = FALSE
    /\ \/ mode \in {"LAND", "RTL", "SMART_RTL"} /\ UNCHANGED interventions
       \/ interventions > 0 /\ interventions' = interventions - 1
    /\ link' = [link EXCEPT !.commanded = "", !.left = "", !.mismatch = FALSE]
    /\ UNCHANGED <<hasFlown, home, mode, critical, tooHigh>> /\ Untouched

\* Home follows good fixes on the ground and is frozen by the first take-off.
GpsFix ==
    /\ ~armed /\ ~hasFlown
    /\ home' = TRUE
    /\ UNCHANGED <<link, armed, hasFlown, mode, critical, tooHigh, interventions>>
    /\ Untouched

Battery ==
    /\ interventions > 0 /\ interventions' = interventions - 1
    /\ critical' = ~critical
    /\ UNCHANGED <<link, armed, hasFlown, home, mode, tooHigh>> /\ Untouched

Altitude ==
    /\ interventions > 0 /\ interventions' = interventions - 1
    /\ tooHigh' = ~tooHigh
    /\ UNCHANGED <<link, armed, hasFlown, home, mode, critical>> /\ Untouched

Environment == FcAnswer \/ ModeChanges \/ Arms \/ Disarms \/ GpsFix \/ Battery \/ Altitude

Next == Loop \/ TakeOver \/ BleResult \/ EarlyReturn \/ Operator \/ Environment

Spec == Init /\ [][Next]_vars

-----------------------------------------------------------------------------
(* Safety.                                                                 *)

\* Somebody is in charge of every return: the FC has been sent the return mode
\* since RTL was entered, or the nose is being turned and the loop will send it,
\* or the handshake's thread is still to do one of the two.  No clearing of a
\* timer by one thread under another's feet loses the aircraft its way home
\* (_enter_rtl, _commit_rtl, _about_face_wanted, _rtl_turn_wanted, _do_rtl).
ReturnAsked ==
    phase = "RTL" =>
        ret.asked \/ ret.about \/ ret.turn \/ ble \in {"marked", "cleared", "flown", "appended"}

\* A handshake result only ever shortens the hold in which it was reported, not
\* a later one (_on_ble_delivery_result, _enter_hover, _enter_scan).
ResultBelongsToHold ==
    phase = "HOVER" /\ holding /\ delivered => "result" \in episode

\* _handshake_open, apart from its timer.
HandshakeOpen ==
    \/ ~ScanEnabled \/ ~armed
    \/ phase = "HOVER" /\ stage = "locked" /\ holding

\* In flight the handshake opens only in a hold in which a person was locked,
\* and never while the pilot has the aircraft.
HandshakeGate ==
    ScanEnabled /\ armed /\ HandshakeOpen => "lock" \in episode /\ ~override

\* No new request to the FC; an answer or a disarm report may clear one.
NoRequest == /\ link'.inFlight \in {link.inFlight, ""}
             /\ link'.commanded \in {link.commanded, ""}

\* While the pilot has the aircraft the loop changes no phase, plan or return
\* and asks the FC for nothing: only an operator's press or the handshake's
\* thread does (step, _check_pilot_override).
LoopStandsDown ==
    [][override /\ override' /\ ~Operator /\ ~EarlyReturn
         => NoRequest /\ UNCHANGED <<phase, mission, wp, ret>>]_vars

\* A landing ends on the ground.  In the air nothing but the operator, the
\* pilot, the altitude ceiling or the handshake's thread takes it back
\* (_do_land, _check_failsafe, _enter_rtl).
LandingHolds ==
    [][phase = "LAND" /\ phase' # "LAND"
         => ~armed \/ override' \/ tooHigh \/ Operator \/ EarlyReturn]_vars

\* The loop turns a return into a landing only once the FC has the return and
\* the nose is done turning, unless the battery is critical (_do_rtl).
NoLandingMidTurn ==
    [][phase = "RTL" /\ phase' = "LAND" /\ ~Operator
         => \/ critical
            \/ ret.requested /\ ~ret.about /\ ~ret.turn]_vars

\* A drop is counted past only out of its hold, running until that very tick; or
\* out of the hold that a new plan cut short, which then loses its first waypoint
\* (_do_navigate, _do_hover, _scan_finish, _svc_set_delivery_target).
DropTakesAHold ==
    [][mission' = mission /\ wp < Len(mission) /\ wp' = wp + 1 /\ mission[wp + 1] = "drop"
         => phase = "HOVER" /\ (holding \/ "replaced" \in episode)]_vars

-----------------------------------------------------------------------------
(* What comments, documents and tests claim and the code does not keep.    *)

\* "pilot override latched: commands nothing" (docs/31aug_status.md).  The
\* operator's own presses are not meant.
StandsDown == [][override /\ override' /\ ~Operator => NoRequest]_vars

\* "Control is handed back by the operator ..., never automatically, so a
\* deliberate takeover cannot be silently undone" (_check_pilot_override).
HandedBackByOperator == [][override /\ ~override' => Operator]_vars

\* "Nothing is more urgent than a dying battery, so it is evaluated first"
\* (_check_failsafe): a landing for a critical battery is not braked.
CriticalBatteryLands ==
    [][phase = "LAND" /\ critical /\ FailsafeTick => phase' = "LAND"]_vars

\* "nothing commanded yet - see _commit_rtl" (_about_face_wanted): a return without
\* a request has not been sent.
VoidMeansUnsent ==
    phase = "RTL" /\ ~ret.requested /\ ~ret.about /\ ~ret.turn /\ ble = "idle" => ~ret.asked
=============================================================================
