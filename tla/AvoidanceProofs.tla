---------------------------- MODULE AvoidanceProofs ----------------------------
(***************************************************************************)
(* While the operator is shown BRAKE the aircraft advances no longer than  *)
(* the pacing holds a brake back, and a dodge stays near where it began:   *)
(* proved for every ring of bearings, every scene, any number of waypoints *)
(* and any bound.                                                          *)
(*                                                                         *)
(* BrakeShownHolds is not inductive.  A tick that finds BRAKE reported     *)
(* sends no brake, so it needs that an aircraft whose mode is reported as  *)
(* BRAKE has not been given a motion meanwhile (BrakeReported), and that   *)
(* the brake for which a tick held another back was young then             *)
(* (HeldYoung).                                                            *)
(* DodgeStaysNear allows the move of one tick: DodgeInv says whose turn    *)
(* it is, and so on which side of the bound the aircraft may be.           *)
(***************************************************************************)
EXTENDS Avoidance, TLAPS

\* What the comparisons of distances rest on.
Placed == scene \in Scenes /\ stop \in Stops

\* An aircraft whose mode is reported as BRAKE is in BRAKE, or has left it since
\* and stands: setpoints are only sent under another reported mode.
BrakeReported == mode = "BRAKE" => fcMode = "BRAKE" \/ motion = Hold

Ages == /\ sent = [mode |-> sent.mode, age |-> sent.age]
        /\ sent.age \in 0..ResendTicks /\ against \in Nat

\* After a tick the brake that holds another back is young.
HeldYoung ==
    turn = "fc" /\ shown.status = "BRAKE" /\ Advances => sent.age < ResendTicks

AvoidInv == Placed /\ BrakeReported /\ Ages /\ BrakeShownHolds /\ HeldYoung

-----------------------------------------------------------------------------
(* Commands.                                                               *)

LEMMA HoldIsStill == ~Hold.to /\ ~Hold.fwd
BY DEF Hold

\* Asking for a mode keeps what is known under the old report.
LEMMA AskKeeps ==
    ASSUME NEW m, BrakeReported, Ask(m)
    PROVE  mode = "BRAKE" => fcMode' = "BRAKE" \/ motion' = Hold
BY DEF BrakeReported, Ask

\* What may be left of a motion by a brake: nothing, unless the last is young.
Stopped == ~(fcMode' = "GUIDED" /\ (motion'.to \/ motion'.fwd))
HeldBack == /\ Paced("BRAKE") /\ mode # "BRAKE"
            /\ UNCHANGED <<sent, fcMode, motion>>

\* A brake stops the aircraft or finds it stopped, or is held back.
LEMMA BrakeHolds ==
    ASSUME BrakeReported, Brake
    PROVE  Stopped \/ HeldBack
<1>1. CASE mode = "BRAKE"
  BY <1>1, HoldIsStill DEF BrakeReported, Brake, Ask, Stopped
<1>2. CASE mode # "BRAKE"
  BY <1>2 DEF Brake, Ask, Stopped, HeldBack
<1> QED BY <1>1, <1>2

\* Leaving the brake gives no motion.
LEMMA UnbrakeHolds ==
    ASSUME BrakeReported, Unbrake, mode = "BRAKE"
    PROVE  Stopped
<1>1. \/ UNCHANGED <<fcMode, motion>>
      \/ fcMode' = "GUIDED" /\ motion' = IF fcMode = "GUIDED" THEN motion ELSE Hold
  BY DEF Unbrake, Ask
<1>2. motion' = Hold \/ fcMode' = "BRAKE"
  BY <1>1 DEF BrakeReported
<1> QED BY <1>2, HoldIsStill DEF Stopped

\* A setpoint cannot make an aircraft advance that it does not send forward.
LEMMA SetpointHolds ==
    ASSUME NEW m, Setpoint(m), ~m.to, ~m.fwd, fcMode = "GUIDED"
    PROVE  ~(motion'.to \/ motion'.fwd)
BY DEF Setpoint

-----------------------------------------------------------------------------
(* Distances.                                                              *)

LEMMA DistancesAreNumbers ==
    ASSUME Placed, NEW o \in Ahead
    PROVE  o.dist \in Int /\ StopFor(o) \in Int
<1>1. o \in Obstacles /\ stop \in Nat
  BY AvoidanceAssumption DEF Placed, Ahead
<1>2. o.dist \in 1..VfhRange /\ o.pad \in Nat
  BY <1>1 DEF Obstacles
<1>3. VfhRange \in Nat
  BY AvoidanceAssumption
<1> QED BY <1>1, <1>2, <1>3 DEF StopFor

\* With an obstacle inside its brake distance no forward motion is earned.
LEMMA NothingEarned ==
    ASSUME Placed, Close # {}, NEW last \in LastStops
    PROVE  ~Earned(last)
<1>1. PICK o \in Close : last = StopFor(o)
  BY DEF LastStops, Worst
<1>2. o \in Ahead /\ o.dist <= StopFor(o)
  BY <1>1 DEF Close
<1>3. o.dist \in Int /\ StopFor(o) \in Int
  BY <1>2, DistancesAreNumbers
<1>4. ~(o.dist > last)
  BY <1>1, <1>2, <1>3
<1> QED BY <1>2, <1>4 DEF Earned

LEMMA SidestepHolds ==
    ASSUME Placed, Close # {}, NEW last \in LastStops, NEW d
    PROVE  ~Sidestep(d, last).to /\ ~Sidestep(d, last).fwd
<1>1. ~Earned(last)
  BY NothingEarned
<1> QED BY <1>1 DEF Sidestep, Towards

-----------------------------------------------------------------------------
(* The tick.                                                               *)

LEMMA DodgeHolds ==
    ASSUME AvoidInv, Close # {}, NEW last \in LastStops, DodgeStep(last)
    PROVE  Stopped \/ HeldBack
<1> DEFINE d == Course(Latched)
<1>1. CASE Brake
  BY <1>1, BrakeHolds DEF AvoidInv
<1>2. CASE mode = "BRAKE" /\ Unbrake
  BY <1>2, UnbrakeHolds DEF AvoidInv
<1>3. CASE Setpoint(Sidestep(d, last))
  <2>1. ~Sidestep(d, last).to /\ ~Sidestep(d, last).fwd
    BY SidestepHolds DEF AvoidInv
  <2>2. fcMode' = fcMode
    BY <1>3 DEF Setpoint
  <2> QED BY <1>3, <2>1, <2>2, SetpointHolds DEF Stopped
<1> QED BY <1>1, <1>2, <1>3 DEF DodgeStep

LEMMA StopMeansClose ==
    ASSUME NEW up, Decision(up) = "stop"
    PROVE  Close # {}
BY DEF Decision

\* A tick that decides to stop leaves the aircraft not advancing, or its brake
\* is held back.
LEMMA StoppingTickHolds ==
    ASSUME AvoidInv, NEW up, NEW last \in LastStops, Decision(up) = "stop",
           Navigate(up, last) \/ AvoidDodges(up, last) \/ AvoidReleases(up, last)
    PROVE  Stopped \/ HeldBack
<1>1. CASE Navigate(up, last)
  BY <1>1, BrakeHolds DEF AvoidInv, Navigate, NavigateStops
<1>2. CASE AvoidDodges(up, last)
  BY <1>2, StopMeansClose, DodgeHolds DEF AvoidDodges
<1>3. CASE AvoidReleases(up, last)
  BY <1>3 DEF AvoidReleases, Held
<1> QED BY <1>1, <1>2, <1>3

\* No tick gives a motion to an aircraft whose mode is reported as BRAKE.
LEMMA TickKeepsReport ==
    ASSUME BrakeReported, NEW up, NEW last,
           Navigate(up, last) \/ AvoidDodges(up, last) \/ AvoidReleases(up, last)
    PROVE  mode = "BRAKE" => fcMode' = "BRAKE" \/ motion' = Hold
<1> SUFFICES ASSUME mode = "BRAKE"
             PROVE  fcMode' = "BRAKE" \/ motion' = Hold
  OBVIOUS
<1>1. CASE NoCommand
  BY <1>1 DEF NoCommand, BrakeReported
<1>2. CASE Brake \/ Unbrake
  BY <1>2, AskKeeps DEF Brake, Unbrake
<1>3. CASE Navigate(up, last)
  BY <1>1, <1>2, <1>3 DEF Navigate, NavigateStops, NavigateEnds, NavigateReaches,
     NavigateUnbrakes, NavigateTurns, NavigateSteers, NavigateLingers, NavigateFlies, Flying
<1>4. CASE AvoidDodges(up, last)
  BY <1>2, <1>4 DEF AvoidDodges, DodgeStep
<1>5. CASE AvoidReleases(up, last)
  BY <1>1, <1>5 DEF AvoidReleases
<1> QED BY <1>3, <1>4, <1>5

\* A tick leaves the record of the last mode alone, or writes it anew.
LEMMA TickKeepsAges ==
    ASSUME NEW up, NEW last, Ages,
           Navigate(up, last) \/ AvoidDodges(up, last) \/ AvoidReleases(up, last)
    PROVE  sent' = sent \/ sent' = [mode |-> sent'.mode, age |-> 0]
<1>1. CASE NoCommand
  BY <1>1 DEF NoCommand
<1>2. CASE Brake \/ Unbrake
  BY <1>2 DEF Brake, Unbrake, Ask, Records
<1>3. ASSUME NEW m, Setpoint(m) PROVE sent' = sent
  BY <1>3 DEF Setpoint
<1>4. CASE Navigate(up, last)
  BY <1>1, <1>2, <1>3, <1>4 DEF Navigate, NavigateStops, NavigateEnds, NavigateReaches,
     NavigateUnbrakes, NavigateTurns, NavigateSteers, NavigateLingers, NavigateFlies, SteerStep
<1>5. CASE AvoidDodges(up, last)
  BY <1>2, <1>3, <1>5 DEF AvoidDodges, DodgeStep
<1>6. CASE AvoidReleases(up, last)
  BY <1>1, <1>6 DEF AvoidReleases
<1> QED BY <1>4, <1>5, <1>6

LEMMA TickKeepsInv ==
    ASSUME AvoidInv, Tick
    PROVE  AvoidInv'
<1>1. PICK last \in LastStops : \/ Navigate(airborne', last)
                                \/ AvoidDodges(airborne', last)
                                \/ AvoidReleases(airborne', last)
  BY DEF Tick
<1>2. UNCHANGED <<settings, mode, scene, budget>>
  BY DEF Tick
<1>3. Placed'
  BY <1>2 DEF AvoidInv, Placed, settings
<1>4. BrakeReported'
  BY <1>1, <1>2, TickKeepsReport DEF AvoidInv, BrakeReported
<1>5. /\ shown'.status = Status(airborne')
      /\ against' = IF shown.status = Status(airborne') THEN against ELSE 0
  BY DEF Tick, Publishes
<1>6. Ages'
  <2>1. ResendTicks \in Nat /\ Ages
    BY AvoidanceAssumption DEF AvoidInv
  <2>2. sent' = sent \/ sent' = [mode |-> sent'.mode, age |-> 0]
    BY <1>1, <2>1, TickKeepsAges
  <2> QED BY <1>5, <2>1, <2>2 DEF Ages
<1>7. ASSUME shown'.status = "BRAKE", Advances' PROVE BrakeShownHolds' /\ HeldYoung'
  <2>1. Decision(airborne') = "stop"
    BY <1>5, <1>7 DEF Status, Decision
  <2>2. HeldBack
    BY <1>1, <1>7, <2>1, StoppingTickHolds DEF Stopped, Advances
  <2>3. UNCHANGED <<sent, fcMode, motion>> /\ Paced("BRAKE")
    BY <2>2 DEF HeldBack
  <2>4. sent.mode = "BRAKE"
    BY <2>3 DEF Paced
  <2>5. against' <= sent.age
    <3>1. CASE against' = 0
      BY <3>1 DEF AvoidInv, Ages
    <3>2. CASE against' = against /\ shown.status = "BRAKE"
      BY <1>7, <2>3, <3>2 DEF AvoidInv, BrakeShownHolds, Advances
    <3> QED BY <1>5, <1>7, <3>1, <3>2
  <2>6. sent.age < ResendTicks
    BY <2>3 DEF Paced
  <2> QED BY <2>3, <2>4, <2>5, <2>6 DEF BrakeShownHolds, HeldYoung
<1>8. BrakeShownHolds' /\ HeldYoung'
  BY <1>7 DEF BrakeShownHolds, HeldYoung
<1> QED BY <1>3, <1>4, <1>6, <1>8 DEF AvoidInv

-----------------------------------------------------------------------------
(* The other actions, and the theorem.                                     *)

\* The aircraft moves: both ages grow, and the record's stays ahead.
LEMMA FlyKeepsInv ==
    ASSUME AvoidInv, Fly
    PROVE  AvoidInv'
<1>1. /\ UNCHANGED <<mode, shown, scene, stop, fcMode, motion>>
      /\ sent' = [sent EXCEPT !.age = Bound(@ + 1, 0, ResendTicks)]
      /\ against' = IF shown.status = "BRAKE" /\ Advances
                    THEN Bound(against + 1, 0, ResendTicks + 1) ELSE 0
  BY DEF Fly, panel, settings, aircraft
<1>2. /\ ResendTicks \in Nat /\ sent.age \in 0..ResendTicks /\ against \in Nat
      /\ sent = [mode |-> sent.mode, age |-> sent.age]
  BY AvoidanceAssumption DEF AvoidInv, Ages
<1>3. /\ sent'.mode = sent.mode /\ sent'.age = Bound(sent.age + 1, 0, ResendTicks)
      /\ sent' = [mode |-> sent'.mode, age |-> sent'.age]
  BY <1>1, <1>2
<1>4. /\ Bound(sent.age + 1, 0, ResendTicks) \in 0..ResendTicks
      /\ Bound(against + 1, 0, ResendTicks + 1) \in Nat
      /\ against <= sent.age /\ sent.age < ResendTicks =>
            Bound(against + 1, 0, ResendTicks + 1) <= Bound(sent.age + 1, 0, ResendTicks)
  BY <1>2 DEF Bound
<1>5. Placed' /\ BrakeReported' /\ Ages'
  BY <1>1, <1>2, <1>3, <1>4 DEF AvoidInv, Placed, BrakeReported, Ages
<1>6. turn = "fc" /\ turn' = "pi"
  BY DEF Fly
<1>7. BrakeShownHolds'
  BY <1>1, <1>3, <1>4, <1>6 DEF AvoidInv, BrakeShownHolds, HeldYoung, Advances
<1> QED BY <1>5, <1>6, <1>7 DEF AvoidInv, HeldYoung

LEMMA OthersKeepInv ==
    ASSUME AvoidInv,
           \/ Fly \/ Heartbeat \/ SetpointExpires \/ Scan \/ Gust \/ Enable
           \/ SetStopDistance \/ UNCHANGED vars
    PROVE  AvoidInv'
<1> USE DEF AvoidInv, Placed, BrakeReported, Ages, BrakeShownHolds, HeldYoung, Advances, panel
<1>1. CASE Fly
  BY <1>1, FlyKeepsInv
<1>2. CASE Heartbeat
  BY <1>2 DEF Heartbeat, settings, aircraft
<1>3. CASE SetpointExpires
  BY <1>3, HoldIsStill DEF SetpointExpires, settings
<1>4. CASE Scan
  BY <1>4 DEF Scan, Changing, settings, aircraft
<1>5. CASE Gust
  BY <1>5 DEF Gust, Changing, settings, aircraft
<1>6. CASE Enable
  BY <1>6 DEF Enable, Changing, aircraft
<1>7. CASE SetStopDistance
  BY <1>7 DEF SetStopDistance, Changing, aircraft
<1>8. CASE UNCHANGED vars
  BY <1>8 DEF vars, settings, aircraft
<1> QED BY <1>1, <1>2, <1>3, <1>4, <1>5, <1>6, <1>7, <1>8

LEMMA InitEstablishes == Init => AvoidInv
BY AvoidanceAssumption
   DEF Init, AvoidInv, Placed, BrakeReported, Ages, BrakeShownHolds, HeldYoung, Advances, Hold

LEMMA NextPreserves == AvoidInv /\ [Next]_vars => AvoidInv'
BY TickKeepsInv, OthersKeepInv DEF Next

\* While the operator is shown BRAKE the aircraft does not advance, unless the
\* pacing holds the brake back, and then no longer than the resend interval.
THEOREM BrakeShown == Spec => []BrakeShownHolds
<1>1. Spec => []AvoidInv
  BY InitEstablishes, NextPreserves, PTL DEF Spec
<1>2. AvoidInv => BrakeShownHolds
  BY DEF AvoidInv
<1> QED BY <1>1, <1>2, PTL

-----------------------------------------------------------------------------
(* The bound on a dodge.  DodgeStaysNear counts the move of one tick;      *)
(* inductive is the bound before and after it (DodgeNear), with what the   *)
(* commands may make the aircraft do.                                      *)

IsDodge(d) == /\ d = [dir |-> d.dir, age |-> d.age, origin |-> d.origin, heading |-> d.heading]
              /\ d.origin \in Int

\* A dodge is under way only in AVOID, and only when dodging is configured.
DodgeInAvoid == phase # "AVOID" \/ ~Dodges => dodge.dir = "none"

DodgeNear == dodge.dir # "none" => OffTrack(dodge) <= MaxOff + IF turn = "fc" THEN 0 ELSE 1

Moving == lateral \in -MaxLateral..MaxLateral /\ motion.side \in -1..1

DodgeInv == IsDodge(dodge) /\ DodgeInAvoid /\ DodgeNear /\ Moving

LEMMA BoundsAreNumbers == MaxOff \in Nat /\ MaxLateral \in Nat
BY AvoidanceAssumption

LEMMA SignIsSide == \A n : Sign(n) \in -1..1
BY DEF Sign

\* What a tick writes into a dodge under way.
LEMMA DodgeTurned ==
    ASSUME NEW d, IsDodge(d), NEW h, NEW side
    PROVE  IsDodge([d EXCEPT !.heading = h, !.dir = side])
<1> DEFINE e == [d EXCEPT !.heading = h]
           f == [e EXCEPT !.dir = side]
<1>1. d = [dir |-> d.dir, age |-> d.age, origin |-> d.origin, heading |-> d.heading]
  BY DEF IsDodge
<1>2. e = [dir |-> d.dir, age |-> d.age, origin |-> d.origin, heading |-> h]
  BY <1>1
<1>3. f = [dir |-> side, age |-> d.age, origin |-> d.origin, heading |-> h]
  <2> HIDE DEF e
  <2> QED BY <1>2
<1>4. [d EXCEPT !.heading = h, !.dir = side] = f
  OBVIOUS
<1> QED BY <1>3, <1>4 DEF IsDodge

LEMMA DodgeAged ==
    ASSUME NEW d, IsDodge(d), NEW n
    PROVE  LET e == [d EXCEPT !.age = n]
           IN  IsDodge(e) /\ e.dir = d.dir /\ e.origin = d.origin
<1> DEFINE e == [d EXCEPT !.age = n]
<1>1. d = [dir |-> d.dir, age |-> d.age, origin |-> d.origin, heading |-> d.heading]
  BY DEF IsDodge
<1>2. e = [dir |-> d.dir, age |-> n, origin |-> d.origin, heading |-> d.heading]
  BY <1>1
<1> QED BY <1>2 DEF IsDodge

LEMMA NoDodgeIsDodge == IsDodge(NoDodge) /\ NoDodge.dir = "none"
BY DEF IsDodge, NoDodge

\* No command makes the aircraft move sideways faster than one bound per tick.
LEMMA SidesAreBounded ==
    /\ Hold.side \in -1..1 /\ ToWaypoint.side \in -1..1
    /\ \A h, go : Towards(h, go).side \in -1..1
    /\ \A d, last : Sidestep(d, last).side \in -1..1
<1>1. \A h, go : Towards(h, go).side \in -1..1
  BY SignIsSide DEF Towards
<1>2. Hold.side \in -1..1 /\ ToWaypoint.side \in -1..1
  BY DEF Hold, ToWaypoint
<1>3. ASSUME NEW d, NEW last PROVE Sidestep(d, last).side \in -1..1
  BY <1>1 DEF Sidestep
<1> QED BY <1>1, <1>2, <1>3

LEMMA AskMoves ==
    ASSUME Moving, NEW m, Ask(m)
    PROVE  motion'.side \in -1..1
BY SidesAreBounded DEF Moving, Ask

LEMMA SetpointMoves ==
    ASSUME Moving, NEW m, m.side \in -1..1, Setpoint(m)
    PROVE  motion'.side \in -1..1
BY DEF Moving, Setpoint

\* The dodge a tick latches and steers is a dodge, from the place it began at.
LEMMA CourseIsDodge ==
    ASSUME IsDodge(dodge), Moving
    PROVE  IsDodge(Course(Latched))
<1>1. lateral \in Int
  BY BoundsAreNumbers DEF Moving
<1>2. IsDodge(Latched)
  BY <1>1 DEF Latched, IsDodge
<1>3. ASSUME NEW d, IsDodge(d), NEW h, NEW side
      PROVE  IsDodge([d EXCEPT !.heading = h, !.dir = side])
  BY <1>3, DodgeTurned
<1> QED BY <1>2, <1>3, NoDodgeIsDodge DEF Course

\* A step of the dodge ends it, or has checked that it is still near.
LEMMA DodgeStepNear ==
    ASSUME DodgeInv, Dodges \/ dodge.dir = "none", NEW last, DodgeStep(last)
    PROVE  /\ IsDodge(dodge') /\ motion'.side \in -1..1
           /\ ~Dodges => dodge'.dir = "none"
           /\ dodge'.dir # "none" => OffTrack(dodge') <= MaxOff
<1> DEFINE d == Course(Latched)
           e == [d EXCEPT !.age = Bound(@ + 1, 0, DodgeTicks + 1)]
<1>1. IsDodge(d)
  BY CourseIsDodge DEF DodgeInv
<1>2. IsDodge(e) /\ e.dir = d.dir /\ e.origin = d.origin
  BY <1>1, DodgeAged
<1>3. CASE Brake /\ UNCHANGED dodge /\ (~Dodges \/ dodge.dir = "none")
  BY <1>3, AskMoves DEF DodgeInv, Brake
<1>4. CASE Brake /\ dodge' = NoDodge
  BY <1>4, AskMoves, NoDodgeIsDodge DEF DodgeInv, Brake
<1>5. CASE /\ Dodges /\ ~GivesUp(d) /\ dodge' = e
           /\ IF mode = "BRAKE" THEN Unbrake ELSE Setpoint(Sidestep(d, last))
  <2>1. motion'.side \in -1..1
    BY <1>5, AskMoves, SetpointMoves, SidesAreBounded DEF DodgeInv, Unbrake
  <2>2. OffTrack(d) \in Int /\ lateral \in Int /\ d.origin \in Int
    BY <1>1, BoundsAreNumbers DEF DodgeInv, Moving, IsDodge, OffTrack, Abs
  <2>3. OffTrack(d) <= MaxOff
    BY <1>5, <2>2, BoundsAreNumbers DEF GivesUp
  <2>4. OffTrack(e) = OffTrack(d)
    BY <1>2 DEF OffTrack
  <2>5. OffTrack(dodge') <= MaxOff
    BY <1>5, <2>3, <2>4
  <2> QED BY <1>2, <1>5, <2>1, <2>5
<1>6. \/ Brake /\ UNCHANGED dodge /\ (~Dodges \/ dodge.dir = "none")
      \/ Brake /\ dodge' = NoDodge
      \/ /\ Dodges /\ ~GivesUp(d) /\ dodge' = e
         /\ IF mode = "BRAKE" THEN Unbrake ELSE Setpoint(Sidestep(d, last))
  BY Zenon DEF DodgeStep
<1> QED BY <1>3, <1>4, <1>5, <1>6

LEMMA NavigateKeepsDodge ==
    ASSUME DodgeInv, NEW up, NEW last, Navigate(up, last), turn' = "fc"
    PROVE  DodgeInv'
<1> USE DEF DodgeInv
<1>1. phase = "NAVIGATE" /\ dodge.dir = "none"
  BY DEF Navigate, DodgeInAvoid
<1>2. CASE NavigateStops
  <2>1. dodge' = NoDodge /\ lateral' = lateral
    BY <1>2 DEF NavigateStops, place
  <2>2. motion'.side \in -1..1
    BY <1>2, AskMoves DEF NavigateStops, Brake
  <2> QED BY <2>1, <2>2, NoDodgeIsDodge DEF DodgeInAvoid, DodgeNear, Moving, IsDodge
<1>3. ASSUME dodge' = dodge, lateral' \in {lateral, 0}, motion'.side \in -1..1
      PROVE  DodgeInv'
  <2>1. 0 \in -MaxLateral..MaxLateral
    BY BoundsAreNumbers
  <2> QED BY <1>1, <1>3, <2>1 DEF DodgeInAvoid, DodgeNear, Moving, IsDodge
<1>4. CASE NoCommand /\ dodge' = dodge /\ lateral' \in {lateral, 0}
  BY <1>3, <1>4 DEF NoCommand, Moving
<1>5. CASE NavigateEnds \/ NavigateReaches \/ NavigateTurns
  BY <1>4, <1>5 DEF NavigateEnds, NavigateReaches, NavigateTurns, place
<1>6. CASE NavigateUnbrakes
  BY <1>3, <1>6, AskMoves DEF NavigateUnbrakes, Unbrake, place
<1>7. CASE NavigateSteers(last) \/ NavigateLingers
  <2>1. dodge' = dodge /\ lateral' = lateral
    BY <1>7 DEF NavigateSteers, NavigateLingers, Flying
  <2>2. ASSUME NEW d, NEW l, NEW lingered, SteerStep(d, l, lingered)
        PROVE  motion'.side \in -1..1
    BY <2>2, SetpointMoves, SidesAreBounded DEF SteerStep
  <2>3. motion'.side \in -1..1
    BY <1>7, <2>2 DEF NavigateSteers, NavigateLingers
  <2> QED BY <1>3, <2>1, <2>3
<1>8. CASE NavigateFlies
  <2>1. dodge' = dodge /\ lateral' = lateral
    BY <1>8 DEF NavigateFlies, Flying
  <2>2. motion'.side \in -1..1
    BY <1>8, SetpointMoves, SidesAreBounded DEF NavigateFlies, NoCommand, Moving
  <2> QED BY <1>3, <2>1, <2>2
<1> QED BY <1>2, <1>5, <1>6, <1>7, <1>8 DEF Navigate

LEMMA TickKeepsDodge ==
    ASSUME DodgeInv, Tick
    PROVE  DodgeInv'
<1>1. turn' = "fc"
  BY DEF Tick
<1>2. PICK last \in LastStops : \/ Navigate(airborne', last)
                                \/ AvoidDodges(airborne', last)
                                \/ AvoidReleases(airborne', last)
  BY DEF Tick
<1>3. CASE Navigate(airborne', last)
  BY <1>1, <1>3, NavigateKeepsDodge
<1>4. CASE AvoidDodges(airborne', last)
  <2>1. DodgeStep(last) /\ phase' = phase /\ phase = "AVOID" /\ lateral' = lateral
    BY <1>4 DEF AvoidDodges, place
  <2>2. Dodges \/ dodge.dir = "none"
    BY DEF DodgeInv, DodgeInAvoid
  <2>3. /\ IsDodge(dodge') /\ motion'.side \in -1..1
        /\ ~Dodges => dodge'.dir = "none"
        /\ dodge'.dir # "none" => OffTrack(dodge') <= MaxOff
    BY <2>1, <2>2, DodgeStepNear
  <2>4. DodgeNear'
    BY <1>1, <2>1, <2>3, BoundsAreNumbers DEF DodgeNear, OffTrack
  <2> QED BY <2>1, <2>3, <2>4 DEF DodgeInv, DodgeInAvoid, Moving, IsDodge
<1>5. CASE AvoidReleases(airborne', last)
  <2>1. dodge' = NoDodge /\ motion' = motion /\ lateral' = lateral
    BY <1>5 DEF AvoidReleases, NoCommand, place
  <2> QED BY <2>1, NoDodgeIsDodge DEF DodgeInv, DodgeInAvoid, DodgeNear, Moving, IsDodge
<1> QED BY <1>2, <1>3, <1>4, <1>5

\* The aircraft moves by one bound sideways, and the tick is over.
LEMMA FlyKeepsDodge ==
    ASSUME DodgeInv, Fly
    PROVE  DodgeInv'
<1>1. turn = "fc" /\ turn' = "pi" /\ UNCHANGED <<phase, dodge, motion>>
  BY DEF Fly, aircraft
<1>2. lateral \in Int /\ motion.side \in -1..1 /\ MaxLateral \in Nat /\ MaxOff \in Nat
  BY BoundsAreNumbers DEF DodgeInv, Moving
<1> DEFINE step == IF motion.to THEN -Sign(lateral) ELSE motion.side
<1>3. step \in -1..1
  BY <1>2, SignIsSide
<1>4. lateral' = lateral \/ lateral' = Bound(lateral + step, -MaxLateral, MaxLateral)
  BY DEF Fly
<1>5. lateral' \in -MaxLateral..MaxLateral /\ lateral' - lateral \in -1..1
  <2> HIDE DEF step
  <2> QED BY <1>2, <1>3, <1>4 DEF Bound, DodgeInv, Moving
<1>6. ASSUME dodge.dir # "none" PROVE Abs(lateral' - dodge.origin) <= MaxOff + 1
  BY <1>1, <1>2, <1>5, <1>6 DEF DodgeInv, DodgeNear, IsDodge, OffTrack, Abs
<1>7. DodgeNear'
  BY <1>1, <1>6 DEF DodgeNear, OffTrack
<1> QED BY <1>1, <1>5, <1>7 DEF DodgeInv, DodgeInAvoid, Moving, IsDodge

LEMMA OthersKeepDodge ==
    ASSUME DodgeInv,
           \/ Heartbeat \/ SetpointExpires \/ Scan \/ Gust \/ Enable
           \/ SetStopDistance \/ UNCHANGED vars
    PROVE  DodgeInv'
<1>1. UNCHANGED <<phase, dodge, turn, lateral>> /\ (motion' = motion \/ motion' = Hold)
  BY DEF Heartbeat, SetpointExpires, Scan, Gust, Enable, SetStopDistance, Changing, vars,
     aircraft, place
<1>2. motion'.side \in -1..1
  BY <1>1, SidesAreBounded DEF DodgeInv, Moving
<1> QED BY <1>1, <1>2 DEF DodgeInv, DodgeInAvoid, DodgeNear, OffTrack, Moving, IsDodge

LEMMA InitDodge == Init => DodgeInv
<1> SUFFICES ASSUME Init PROVE DodgeInv
  OBVIOUS
<1>1. dodge = NoDodge /\ lateral = 0 /\ motion = Hold
  BY DEF Init
<1> QED BY <1>1, NoDodgeIsDodge, SidesAreBounded, BoundsAreNumbers
        DEF DodgeInv, DodgeInAvoid, DodgeNear, Moving

LEMMA NextKeepsDodge == DodgeInv /\ [Next]_vars => DodgeInv'
BY TickKeepsDodge, FlyKeepsDodge, OthersKeepDodge DEF Next

LEMMA NearImplied == DodgeInv => DodgeStaysNear
<1> SUFFICES ASSUME DodgeInv, dodge.dir # "none" PROVE OffTrack(dodge) <= MaxOff + 1
  BY DEF DodgeStaysNear
<1>1. OffTrack(dodge) \in Int
  BY BoundsAreNumbers DEF DodgeInv, Moving, IsDodge, OffTrack, Abs
<1> QED BY <1>1, BoundsAreNumbers DEF DodgeInv, DodgeNear

\* A dodge never carries the aircraft further off the place it began at than the
\* bound, and what it moves until the next tick.
THEOREM DodgeNearItsOrigin == Spec => []DodgeStaysNear
<1>1. Spec => []DodgeInv
  BY InitDodge, NextKeepsDodge, PTL DEF Spec
<1> QED BY <1>1, NearImplied, PTL
=============================================================================
