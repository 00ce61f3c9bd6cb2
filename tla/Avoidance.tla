------------------------------- MODULE Avoidance -------------------------------
(***************************************************************************)
(* How the navigator flies a leg past obstacles (nodes/navigation_node.py: *)
(* CollisionAvoider, _do_navigate, _do_avoid, _steer_step, _dodge_step,    *)
(* the yaw gate) against a flight controller whose mode it knows only from *)
(* a heartbeat.  Navigation keeps "an obstacle is close" as a free choice  *)
(* and has the phases this module leaves out; here the choice is made.     *)
(*                                                                         *)
(* Bearings are bins off the nose, right positive, on a ring; the LiDAR    *)
(* sees -Fov..Fov of them.  The loop and the aircraft take turns, so that  *)
(* the aircraft moves once per tick; the mode is reported at any time.     *)
(*                                                                         *)
(* Abstracted: speeds to their signs, one waypoint kind (no hold), the     *)
(* estimate (always valid), the parameters mirrored to the flight          *)
(* controller.  Time is counted in ticks.                                  *)
(***************************************************************************)
EXTENDS Integers, FiniteSets

CONSTANTS
    Half,           \* bearings are -Half..Half
    Fov,            \* lidar.fov_deg / 2
    FrontHalf,      \* avoidance_front_half_deg
    YawRelease,     \* avoidance_yaw_release_deg
    Stops,          \* avoidance_stop_m, and what the operator may set it to
    Outer,          \* avoidance_distance_m
    Release,        \* avoidance_release_m
    SideClear,      \* avoidance_dodge_clear_m
    Vfh, Dodges,    \* avoidance_vfh_enabled, avoidance_dodge_enabled
    MinValley,      \* avoidance_vfh_min_valley_deg
    VfhRange,       \* avoidance_vfh_range_m
    Safety,         \* bins an obstacle covers on either side, by its distance
    Floor,          \* avoidance_steer_authority_floor, in percent
    SteerRate,      \* avoidance_steer_rate_deg_s, per tick
    HeadingRate,    \* avoidance_vfh_max_heading_rate_deg_s, per tick
    DodgeTicks,     \* avoidance_dodge_timeout_s
    ResendTicks,    \* mode_resend_interval_s
    MaxOff,         \* avoidance_max_offtrack_m
    Waypoints,      \* how many there are
    Scenes,         \* what the LiDAR may report: sets of obstacles
    Goals,          \* bearings the next waypoint, or a gust, may put it at
    LegLength,      \* bound: how far a waypoint is from the last
    MaxLateral,     \* bound: how far the aircraft gets off the leg
    Changes         \* bound: changes of the scene, gusts and presses

Bearings == -Half..Half
Window == -Fov..Fov
Obstacles == [at : Window, dist : 1..VfhRange, pad : Nat]

ASSUME AvoidanceAssumption ==
    /\ {Half, Fov, FrontHalf, YawRelease, MinValley} \subseteq Nat
    /\ FrontHalf <= Fov /\ YawRelease <= Fov /\ Fov <= Half /\ MinValley > 0
    /\ Stops \subseteq Nat /\ Stops # {}
    /\ {Outer, Release, SideClear, SteerRate, HeadingRate} \subseteq Nat
    /\ {Vfh, Dodges} \subseteq BOOLEAN
    /\ VfhRange \in Nat /\ Safety \in [1..VfhRange -> Nat] /\ Floor \in 0..100
    /\ {DodgeTicks, ResendTicks, MaxOff, Waypoints, LegLength, MaxLateral, Changes} \subseteq Nat
    /\ \A s \in Scenes : s \subseteq Obstacles
    /\ {} \in Scenes /\ Goals \subseteq Bearings

VARIABLES
    phase, wp, lastGoto,   \* _phase; _current_wp; _last_goto_wp, 0 for none
    dodge,                 \* _dodge_dir, _dodge_started, _dodge_origin, _dodge_heading
    steer,                 \* _steer_heading, _steer_clear_since
    gate,                  \* _yaw_gate_since is set
    enabled, airborne,     \* _avoid_enabled, _avoid_airborne
    stop, outer,           \* CollisionAvoider.stop and .distance
    mode,                  \* _mode, as last reported
    sent,                  \* _last_mode_sent and its age
    shown,                 \* AvoidanceStatus as last published
    against,               \* how long the aircraft has advanced under a BRAKE shown
    fcMode, motion,        \* the mode of the flight controller, what it flies
    yawing,                \* it is turning to the bearing it was given
    scene,                 \* the obstacles
    goal, turned,          \* bearing of the waypoint; turned since the last steer
    lateral, left,         \* off the leg, right positive; what is left of it
    entered,               \* lateral, when the brake of this encounter was pulled, or 0
    lost,                  \* the last goto reached the aircraft in BRAKE
    turn, budget           \* whose turn it is; what is left of Changes

plan == <<wp, lastGoto>>
settings == <<enabled, stop, outer>>
place == <<goal, turned, lateral, left>>
panel == <<shown, against>>
near == left = 0
aircraft == <<fcMode, motion, yawing>>
vars == <<phase, plan, dodge, steer, gate, settings, airborne, mode, sent, panel, aircraft,
          scene, place, entered, lost, turn, budget>>

NoHeading == Half + 1
NoDodge == [dir |-> "none", age |-> 0, origin |-> 0, heading |-> NoHeading]
NoSteer == [heading |-> NoHeading, lingered |-> FALSE]
Hold == [to |-> FALSE, fwd |-> FALSE, side |-> 0]
ToWaypoint == [Hold EXCEPT !.to = TRUE]

TypeOK ==
    /\ phase \in {"NAVIGATE", "AVOID", "DONE"}
    /\ wp \in 1..Waypoints + 1 /\ lastGoto \in 0..Waypoints
    /\ dodge \in [dir : {"none", "left", "right"}, age : 0..DodgeTicks + 1,
                  origin : -MaxLateral..MaxLateral, heading : Bearings \cup {NoHeading}]
    /\ steer \in [heading : Bearings \cup {NoHeading}, lingered : BOOLEAN]
    /\ {gate, enabled, airborne, yawing, lost} \subseteq BOOLEAN /\ left \in 0..LegLength
    /\ stop \in Stops /\ outer \in Stops \cup {Outer}
    /\ {mode, fcMode} \subseteq {"GUIDED", "BRAKE"}
    /\ sent \in [mode : {"GUIDED", "BRAKE"}, age : 0..ResendTicks]
    /\ against \in 0..ResendTicks + 1
    /\ shown \in [status : {"OFF", "STANDBY", "CLEAR", "SLOW", "BRAKE"},
                  dodge : {"none", "left", "right", "trapped"}]
    /\ motion \in [to : BOOLEAN, fwd : BOOLEAN, side : -1..1]
    /\ scene \in Scenes /\ goal \in Bearings /\ turned \in Bearings
    /\ {lateral, entered} \subseteq -MaxLateral..MaxLateral
    /\ turn \in {"pi", "fc"} /\ budget \in 0..Changes

-----------------------------------------------------------------------------
(* The collision avoider.                                                  *)

Abs(n) == IF n < 0 THEN -n ELSE n
Sign(n) == IF n < 0 THEN -1 ELSE IF n > 0 THEN 1 ELSE 0
Bound(n, lo, hi) == IF n < lo THEN lo ELSE IF n > hi THEN hi ELSE n
Wrap(b) == ((b + Half) % (2 * Half + 1)) - Half

\* The brake distance for one obstacle: padded for what we do to close on it.
StopFor(o) == stop + o.pad
Ahead == {o \in scene : Abs(o.at) <= FrontHalf}
Close == {o \in Ahead : o.dist <= StopFor(o)}
Nearing == {o \in Ahead : o.dist <= outer}

\* evaluate, and _avoid_decision around it; the brake distance it leaves in
\* last_stop_m is that of the first obstacle with the worst decision.
Watching(up) == enabled /\ up
Decision(up) == IF ~Watching(up) THEN "clear" ELSE IF Close # {} THEN "stop"
                ELSE IF Nearing # {} THEN "slow" ELSE "clear"
Worst == IF Close # {} THEN Close ELSE Nearing
LastStops == IF Worst = {} THEN {stop} ELSE {StopFor(o) : o \in Worst}

\* sectors: the side cones, of which only comparisons with a distance are used.
Side(dir) == {o \in scene : /\ Abs(o.at) > FrontHalf
                            /\ IF dir = "right" THEN o.at > 0 ELSE o.at <= 0}
Open(dir, d) == \A o \in Side(dir) : o.dist > d
Roomier(a, b) == \E d \in {o.dist : o \in Side(b)} : Open(a, d)

\* dodge: the reactive choice of a side.
ReactiveSide == LET ok == {d \in {"left", "right"} : Open(d, SideClear)} IN
    IF ok = {} THEN "trapped"
    ELSE IF Cardinality(ok) = 1 THEN CHOOSE d \in ok : TRUE
    ELSE IF Roomier("left", "right") THEN "left" ELSE "right"

\* build_histogram, valleys: runs of bins no obstacle covers.
Blocked(s) == {b \in Window : \E o \in s : Abs(Wrap(b - o.at)) <= Safety[o.dist]}
Valleys(s) == LET free == Window \ Blocked(s) IN
    {v \in free \X free : /\ v[1] <= v[2] /\ v[1]..v[2] \subseteq free
                           /\ v[1] - 1 \notin free /\ v[2] + 1 \notin free}

\* choose_heading: the nearest a valley wide enough comes to the goal, pulled
\* towards the heading flown; the leftmost of equals.
Room == MinValley \div 2
Candidates(s, to) == {Bound(to, v[1] + Room, v[2] - Room) :
                          v \in {w \in Valleys(s) : w[2] - w[1] + 1 >= MinValley}}
Cost(h, to, flown) == 10 * Abs(Wrap(h - to))
                      + IF flown = NoHeading THEN 0 ELSE 8 * Abs(Wrap(h - flown))
Headings == [s \in Scenes, to \in Bearings, flown \in Bearings \cup {NoHeading} |->
    LET found == Candidates(s, to) IN
    IF found = {} THEN NoHeading
    ELSE CHOOSE h \in found : \A g \in found \ {h} :
            \/ Cost(h, to, flown) < Cost(g, to, flown)
            \/ Cost(h, to, flown) = Cost(g, to, flown) /\ h < g]
ChooseHeading(to, flown) == Headings[scene, to, flown]

\* steer_authority, in percent: from Floor at the outer edge of the band to
\* 100 at the brake distance, easing out.
Authority(d, last) ==
    LET span == outer - last
        outside == span - Bound(outer - d, 0, span)
    IN  IF span <= 0 THEN 100
        ELSE Floor + ((100 - Floor) * (100 - ((100 * outside * outside * outside)
                                             \div (span * span * span)))) \div 100

\* slew_steer, slew_heading.
Slew(want, from, rate) ==
    IF from = NoHeading THEN want
    ELSE Wrap(from + Bound(Wrap(want - from), -rate, rate))

\* A bearing less than a quarter turn off the nose: 4 bearings to the half circle.
Forwards(h) == 4 * Abs(h) < 2 * Half + 1
Towards(h, go) == [to |-> FALSE, fwd |-> go /\ Forwards(h), side |-> Sign(h)]

-----------------------------------------------------------------------------
(* What leaves the navigator by _send, and what the flight controller does.*)

\* A mode command is dropped when the mode is already the one reported, and when
\* the last one, dropped for that reason or sent, was the same and is young.  The
\* flight controller stops when it changes mode.
Paced(m) == sent.mode = m /\ sent.age < ResendTicks
Records(m) == sent' = [mode |-> m, age |-> 0]
AskRenews(m) ==
    \/ (mode = m \/ Paced(m)) /\ Records(m) /\ UNCHANGED <<fcMode, motion>>
    \/ mode # m /\ ~Paced(m) /\ Records(m)
       /\ fcMode' = m /\ motion' = IF fcMode = m THEN motion ELSE Hold
Ask(m) ==
    \/ mode = m /\ Records(m) /\ UNCHANGED <<fcMode, motion>>
    \/ mode # m /\ Paced(m) /\ UNCHANGED <<sent, fcMode, motion>>
    \/ mode # m /\ ~Paced(m) /\ Records(m)
       /\ fcMode' = m /\ motion' = IF fcMode = m THEN motion ELSE Hold
Brake == Ask("BRAKE")
Unbrake == Ask("GUIDED")

\* A setpoint changes no mode; in BRAKE it is discarded.
Setpoint(m) == UNCHANGED <<sent, fcMode>> /\ motion' = IF fcMode = "GUIDED" THEN m ELSE motion
NoCommand == UNCHANGED <<sent, fcMode, motion>>
Yaws == yawing' = (goal # 0)

-----------------------------------------------------------------------------
(* The sidestep.                                                           *)

Init ==
    /\ phase = "NAVIGATE" /\ wp = 1 /\ lastGoto = 0
    /\ dodge = NoDodge /\ steer = NoSteer /\ gate = FALSE
    /\ enabled = TRUE /\ airborne = FALSE /\ stop \in Stops
    /\ outer = IF stop > Outer THEN stop ELSE Outer
    /\ mode = "GUIDED" /\ fcMode = "GUIDED" /\ motion = Hold /\ yawing = FALSE
    /\ sent = [mode |-> "GUIDED", age |-> ResendTicks]
    /\ shown = [status |-> "CLEAR", dodge |-> "none"] /\ against = 0
    /\ scene \in Scenes /\ goal \in Goals /\ turned = 0
    /\ lateral = 0 /\ left = LegLength /\ entered = 0 /\ lost = FALSE
    /\ turn = "pi" /\ budget = Changes

SideOf(h) == IF h > 0 THEN "right" ELSE "left"

\* The side to sidestep to from a standstill, with its heading; _vfh_latch.
Latch == IF Vfh THEN LET h == ChooseHeading(goal, NoHeading) IN
                     [side |-> IF h = NoHeading THEN "trapped" ELSE SideOf(h), heading |-> h]
         ELSE [side |-> ReactiveSide, heading |-> NoHeading]

\* The dodge under way, or the one begun on this tick.
Latched == IF dodge.dir # "none" THEN dodge
           ELSE [dir |-> Latch.side, age |-> 0, origin |-> lateral,
                 heading |-> Latch.heading]

\* Its course solved anew, towards the heading flown and at a bounded rate.
Course(d) == LET want == ChooseHeading(goal, d.heading)
                 h == Slew(want, d.heading, HeadingRate) IN
    IF ~Vfh THEN d
    ELSE IF want = NoHeading THEN NoDodge
    ELSE [d EXCEPT !.heading = h, !.dir = SideOf(h)]

OffTrack(d) == Abs(lateral - d.origin)
GivesUpLate(d) == d.dir = "none" \/ d.age > DodgeTicks
GivesUp(d) == \/ d.dir = "none"
              \/ d.age > DodgeTicks
              \/ OffTrack(d) > MaxOff
              \/ ~Open(d.dir, stop)

\* Forward motion is earned: only as far as the front is beyond the brake distance.
Earned(last) == \A o \in Ahead : o.dist > last
Sidestep(d, last) == IF Vfh THEN Towards(d.heading, Earned(last))
                     ELSE [to |-> FALSE, fwd |-> Earned(last),
                           side |-> IF d.dir = "right" THEN 1 ELSE -1]

\* _dodge_step: holds without a side, gives up on a bad one, leaves the brake
\* it pulled itself, then sidesteps.
DodgeStep(last) ==
    LET d == Course(Latched) IN
    IF ~Dodges \/ (dodge.dir = "none" /\ Latch.side = "trapped")
    THEN Brake /\ UNCHANGED dodge
    ELSE IF GivesUp(d) THEN Brake /\ dodge' = NoDodge
    ELSE /\ dodge' = [d EXCEPT !.age = Bound(@ + 1, 0, DodgeTicks + 1)]
         /\ IF mode = "BRAKE" THEN Unbrake ELSE Setpoint(Sidestep(d, last))

-----------------------------------------------------------------------------
(* One tick of the leg: _do_navigate.                                      *)

NavigateStops ==
    /\ phase' = "AVOID" /\ dodge' = NoDodge /\ steer' = NoSteer /\ entered' = lateral
    /\ Brake /\ UNCHANGED <<plan, gate, yawing, place, lost>>

NavigateEnds ==
    /\ wp > Waypoints /\ phase' = "DONE" /\ NoCommand
    /\ UNCHANGED <<plan, dodge, steer, gate, yawing, place, entered, lost>>

NavigateReaches ==
    /\ wp <= Waypoints /\ near
    /\ wp' = wp + 1 /\ goal' \in Goals /\ lateral' = 0 /\ left' = LegLength
    /\ NoCommand
    /\ UNCHANGED <<phase, lastGoto, dodge, steer, gate, yawing, turned, entered, lost>>

Underway == wp <= Waypoints /\ ~near

NavigateUnbrakes ==
    /\ Underway /\ mode = "BRAKE" /\ Unbrake
    /\ UNCHANGED <<phase, plan, dodge, steer, gate, yawing, place, entered, lost>>

\* _yaw_gate_ok: a waypoint outside the window is turned onto before it is flown to.
Gated == IF gate THEN Abs(goal) > YawRelease ELSE Abs(goal) > Fov

NavigateTurns ==
    /\ Underway /\ mode # "BRAKE" /\ Gated
    /\ gate' = TRUE /\ Yaws /\ NoCommand
    /\ UNCHANGED <<phase, plan, dodge, steer, place, entered, lost>>

\* What every tick does that gets past the gate; _hold_nose_on_waypoint.
Flying == /\ Underway /\ mode # "BRAKE" /\ ~Gated
          /\ gate' = FALSE /\ Yaws
          /\ UNCHANGED <<phase, wp, dodge, goal, lateral, left, entered>>

\* _steer_step at distance d: bends the course towards a gap, or eases to a
\* stop towards the waypoint where there is none.
SteerStep(d, last, lingered) ==
    LET want == ChooseHeading(goal, steer.heading)
        lean == Authority(d, last) * Abs(Wrap(want - goal))
        target == Wrap(goal + Sign(Wrap(want - goal)) * ((lean + 50) \div 100))
        from == IF steer.heading = NoHeading THEN NoHeading ELSE Wrap(steer.heading - turned)
        h == Slew(target, from, SteerRate)
    IN  IF want = NoHeading
        THEN /\ Setpoint(IF d > last THEN Towards(goal, TRUE) ELSE Hold)
             /\ lastGoto' = 0 /\ UNCHANGED turned
             /\ steer' = [steer EXCEPT !.lingered = lingered]
        ELSE /\ Setpoint(Towards(h, TRUE))
             /\ steer' = [heading |-> h, lingered |-> lingered] /\ turned' = 0
             /\ UNCHANGED lastGoto

NavigateSteers(last) ==
    /\ Flying
    /\ \E o \in Ahead : /\ \A p \in Ahead : o.dist <= p.dist
                        /\ SteerStep(o.dist, last, FALSE)
    /\ UNCHANGED lost

\* Half a second of a clear path before the steering ends.
NavigateLingers ==
    /\ steer.heading # NoHeading /\ ~steer.lingered
    /\ Flying /\ SteerStep(outer, stop, TRUE) /\ UNCHANGED lost

\* The goto is sent once per waypoint, and again after steering.
GotoDue == lastGoto # wp \/ steer.heading # NoHeading

NavigateFlies ==
    /\ steer.heading = NoHeading \/ steer.lingered
    /\ Flying /\ steer' = NoSteer /\ UNCHANGED turned
    /\ IF GotoDue
       THEN Setpoint(ToWaypoint) /\ lastGoto' = wp /\ lost' = (fcMode = "BRAKE")
       ELSE NoCommand /\ UNCHANGED <<lastGoto, lost>>

Navigate(up, last) == /\ phase = "NAVIGATE"
    /\ \/ Decision(up) = "stop" /\ NavigateStops
       \/ Decision(up) # "stop" /\ (NavigateEnds \/ NavigateReaches
                                      \/ NavigateUnbrakes \/ NavigateTurns)
       \/ Decision(up) = "slow" /\ NavigateSteers(last)
       \/ Decision(up) = "clear" /\ (NavigateLingers \/ NavigateFlies)

\* _do_avoid: holds and sidesteps until the front has opened by Release more.
Held(up, last) == \/ Decision(up) = "stop"
                  \/ Decision(up) = "slow" /\ \E o \in Ahead : o.dist < last + Release

AvoidDodges(up, last) ==
    /\ phase = "AVOID" /\ Held(up, last) /\ DodgeStep(last)
    /\ UNCHANGED <<phase, plan, steer, gate, yawing, place, entered, lost>>

ReleaseKeepsGoto == UNCHANGED lastGoto
ReleaseDropsGoto == lastGoto' = 0

AvoidReleases(up, last) ==
    /\ phase = "AVOID" /\ ~Held(up, last)
    /\ phase' = "NAVIGATE" /\ dodge' = NoDodge /\ ReleaseDropsGoto /\ NoCommand
    /\ entered' = 0
    /\ UNCHANGED <<wp, steer, gate, yawing, place, lost>>

-----------------------------------------------------------------------------
(* The loop, the aircraft and the world.                                   *)

\* _publish_avoidance, at the end of the tick.
Status(up) == IF ~enabled THEN "OFF" ELSE IF ~up THEN "STANDBY"
              ELSE [clear |-> "CLEAR", slow |-> "SLOW", stop |-> "BRAKE"][Decision(up)]
PredictedDodge(d) == IF ~Vfh THEN ReactiveSide
                     ELSE LET h == ChooseHeading(goal, d.heading) IN
                          IF h = NoHeading THEN "trapped" ELSE SideOf(h)
Publishes(up) ==
    /\ against' = IF shown.status = Status(up) THEN against ELSE 0
    /\ shown' = [status |-> Status(up),
                 dodge |-> IF ~enabled \/ ~Dodges THEN "none"
                           ELSE IF dodge'.dir # "none" THEN dodge'.dir
                           ELSE IF Decision(up) = "stop" THEN PredictedDodge(dodge')
                           ELSE "none"]

\* _update_avoid_airborne: avoidance stands by until the aircraft is up.
Tick ==
    /\ turn = "pi" /\ phase # "DONE" /\ turn' = "fc"
    /\ airborne' \in {airborne, TRUE}
    /\ \E last \in LastStops : \/ Navigate(airborne', last)
                               \/ AvoidDodges(airborne', last)
                               \/ AvoidReleases(airborne', last)
    /\ Publishes(airborne')
    /\ UNCHANGED <<settings, mode, scene, budget>>

Advances == fcMode = "GUIDED" /\ (motion.to \/ motion.fwd)

\* What the aircraft does of it until the next tick.
Fly ==
    /\ turn = "fc" /\ turn' = "pi"
    /\ sent' = [sent EXCEPT !.age = Bound(@ + 1, 0, ResendTicks)]
    /\ against' = IF shown.status = "BRAKE" /\ Advances
                  THEN Bound(against + 1, 0, ResendTicks + 1) ELSE 0
    /\ LET turns == yawing /\ fcMode = "GUIDED" /\ goal # 0
           step == IF motion.to THEN -Sign(lateral) ELSE motion.side
           moves == fcMode = "GUIDED" /\ motion # Hold IN
       /\ goal' = IF turns THEN goal - Sign(goal) ELSE goal
       /\ turned' = IF steer.heading = NoHeading THEN 0
                     ELSE IF turns THEN Wrap(turned + Sign(goal)) ELSE turned
       /\ lateral' = IF moves THEN Bound(lateral + step, -MaxLateral, MaxLateral) ELSE lateral
       /\ left' \in IF near \/ ~moves THEN {left}
                    ELSE IF motion.to /\ lateral = 0 THEN {left - 1}
                    ELSE IF motion.fwd THEN {left, left - 1} ELSE {left}
    /\ UNCHANGED <<phase, plan, dodge, steer, gate, settings, airborne, mode, shown,
                   aircraft, scene, entered, lost, budget>>

Heartbeat ==
    /\ mode # fcMode /\ mode' = fcMode
    /\ UNCHANGED <<phase, plan, dodge, steer, gate, settings, airborne, sent, panel, aircraft,
                   scene, place, entered, lost, turn, budget>>

\* A velocity that is not repeated ends.
SetpointExpires ==
    /\ motion # Hold /\ ~motion.to /\ motion' = Hold
    /\ UNCHANGED <<phase, plan, dodge, steer, gate, settings, airborne, mode, sent, panel, fcMode,
                   yawing, scene, place, entered, lost, turn, budget>>

Changing == budget > 0 /\ budget' = budget - 1 /\ phase # "DONE"
            /\ UNCHANGED <<phase, plan, dodge, steer, gate, airborne, mode, sent, panel, aircraft,
                           entered, lost, turn>>

Scan == /\ Changing /\ \E s \in Scenes \ {scene} : scene' = s
        /\ UNCHANGED <<settings, place>>
Gust == /\ Changing /\ goal' \in Goals \ {goal}
        /\ UNCHANGED <<settings, scene, turned, lateral, left>>
Enable == /\ Changing /\ enabled' = ~enabled /\ UNCHANGED <<stop, outer, scene, place>>
SetStopDistance ==
    /\ Changing /\ \E d \in Stops \ {stop} : stop' = d /\ outer' = IF outer < d THEN d ELSE outer
    /\ UNCHANGED <<enabled, scene, place>>

Next == Tick \/ Fly \/ Heartbeat \/ SetpointExpires \/ Scan \/ Gust \/ Enable \/ SetStopDistance

Fairness == WF_vars(Tick \/ Fly) /\ WF_vars(Heartbeat)

Spec == Init /\ [][Next]_vars /\ Fairness

-----------------------------------------------------------------------------
(* Properties.                                                             *)

\* While the operator is shown BRAKE the aircraft does not advance, however late
\* its mode is reported and whatever it was told before, unless the pacing holds
\* the brake back for one recorded before it began to; as that one is less than
\* mode_resend_interval_s old, the aircraft advances no longer than that.
BrakeShownHolds ==
    shown.status = "BRAKE" /\ Advances => sent.mode = "BRAKE" /\ against <= sent.age

\* A dodge never carries the aircraft further off the place it began at than
\* the bound, and what it moves until the next tick.
DodgeStaysNear == dodge.dir # "none" => OffTrack(dodge) <= MaxOff + 1

\* Once the path stays clear the aircraft flies the rest of its waypoints,
\* unless the goto it was given reached it in BRAKE for good.
PathClear == Nearing = {} \/ ~enabled
MissionGoesOn == <>[]PathClear /\ []<>~lost => <>(phase = "DONE")

\* "past this it stops, waits for the path to clear, then re-issues the goto"
\* (config/real.yaml on avoidance_max_offtrack_m): one encounter keeps the
\* aircraft within the bound of the place where it braked.
EncounterStaysNear == phase = "AVOID" => Abs(lateral - entered) <= MaxOff + 1

\* "Path ahead is clear again - resume navigation. Clearing _last_goto_wp forces
\* _do_navigate to re-issue the goto" (navigation_node.py:2869).
ClearPathIsFlown == <>[]PathClear => <>(phase = "DONE")
=============================================================================
