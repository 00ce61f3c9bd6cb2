--------------------------- MODULE NavigationProofs ---------------------------
(***************************************************************************)
(* What Navigation keeps for every plan, mode set and configuration.       *)
(*                                                                         *)
(* The lemmas follow the way a call is built: what one helper does to a    *)
(* context, then what the helpers it calls another after another do.       *)
(* At the end, what one step does to phase, plan and place is read in the  *)
(* terms of Flight: every step is one of its steps, or none it can see.    *)
(***************************************************************************)
EXTENDS NavigationFlight, TLAPS

ModeOK == mode \in Modes \cup {"UNKNOWN"}

\* d is c after commands only: nothing but the link may differ.
Commanded(c, d) ==
    /\ d \in Context /\ d.phase = c.phase /\ d.ret = c.ret
    /\ d.mission = c.mission /\ d.wp = c.wp /\ d.nose = c.nose

\* ReturnAsked, of a context; the states of the handshake's thread in which it has
\* yet to start the turn, to send the return or to enter the leg home.
Owned(c) == c.phase = "RTL" => c.ret.asked \/ c.ret.about \/ c.ret.turn
Owning == {"marked", "cleared", "flown", "appended"}

-----------------------------------------------------------------------------
(* Commands.                                                               *)

\* The modes the navigator asks for by name exist (ConfigAssumption).
LEMMA NamedModes ==
    /\ {"GUIDED", "BRAKE", "LAND", "RTL", ReturnMode} \subseteq Modes
    /\ \A m \in Modes : m # ""
  BY ConfigAssumption

\* A context is a record of exactly these fields.
LEMMA ContextFields ==
    ASSUME NEW c \in Context
    PROVE  /\ c.phase \in Phases /\ c.mission \in Seq(WaypointKinds) /\ c.wp \in Nat
           /\ c.link \in Link /\ c.ret \in Return /\ c.nose \in Noses
  BY DEF Context

LEMMA CallIsContext ==
    ASSUME TypeOK, NEW nose \in Noses
    PROVE  /\ Call(nose) \in Context
           /\ Call(nose).phase = phase /\ Call(nose).ret = ret
           /\ Call(nose).mission = mission /\ Call(nose).wp = wp
  BY DEF TypeOK, Call, Context

LEMMA NoteCommands ==
    ASSUME ModeOK, NEW c \in Context, NEW m \in Modes
    PROVE  Commanded(c, Note(c, m))
  BY DEF ModeOK, Note, Commanded, Context, Link

LEMMA AskCommands ==
    ASSUME ModeOK, NEW c \in Context, NEW m \in Modes
    PROVE  Commanded(c, Ask(c, m))
  <1> DEFINE n == Note(c, m)
  <1>1. Commanded(c, n)
    BY NoteCommands
  <1>2. Commanded(c, [n EXCEPT !.link.inFlight = m])
    BY <1>1 DEF Commanded, Context, Link
  <1> QED
    BY <1>1, <1>2 DEF Ask

\* goto, velocity, takeoff and leaving BRAKE.
LEMMA MotionCommands ==
    ASSUME ModeOK, NEW c \in Context
    PROVE  /\ Commanded(c, Motion(c)) /\ Commanded(c, Goto(c))
           /\ Commanded(c, TakeOff(c)) /\ Commanded(c, LeaveBrake(c))
  <1>1. "GUIDED" \in Modes
    BY NamedModes
  <1>2. Commanded(c, Motion(c))
    BY <1>1, NoteCommands DEF Motion
  <1>3. Commanded(c, Goto(c))
    BY <1>2 DEF Goto, Commanded
  <1>4. Commanded(c, TakeOff(c))
    <2> DEFINE n == Motion(c)
    <2>1. Commanded(c, [n EXCEPT !.link.inFlight = "GUIDED"])
      BY <1>1, <1>2 DEF Commanded, Context, Link
    <2> QED
      BY <2>1 DEF TakeOff
  <1>5. Commanded(c, LeaveBrake(c))
    BY <1>1, AskCommands DEF LeaveBrake, Commanded
  <1> QED
    BY <1>2, <1>3, <1>4, <1>5

\* A look of the takeover detector changes the link only.
LEMMA ObservedCommands ==
    ASSUME NEW c \in Context
    PROVE  Commanded(c, Observed(c))
  <1>1. Commanded(c, [c EXCEPT !.link.left = "", !.link.mismatch = FALSE])
    BY DEF Commanded, Context, Link
  <1>2. Commanded(c, [c EXCEPT !.link.mismatch = TRUE])
    BY DEF Commanded, Context, Link
  <1>3. Commanded(c, c)
    BY DEF Commanded
  <1> QED
    BY <1>1, <1>2, <1>3 DEF Observed

\* What a tick starts from.
LEMMA LookIsContext ==
    ASSUME TypeOK, NEW nose \in Noses
    PROVE  /\ Seen(nose) \in Context /\ Seen(nose).phase = phase /\ Seen(nose).ret = ret
           /\ Look \in Context /\ Look.phase = phase /\ Look.ret = ret
  <1>1. \A n \in Noses : Seen(n) \in Context /\ Seen(n).phase = phase /\ Seen(n).ret = ret
    BY CallIsContext, ObservedCommands DEF Seen, Commanded
  <1> QED
    BY <1>1 DEF Look, Noses

\* The new return of a context.
LEMMA Returned ==
    ASSUME NEW c \in Context, NEW r \in Return
    PROVE  /\ [c EXCEPT !.ret = r] \in Context
           /\ [c EXCEPT !.ret = r].phase = c.phase
           /\ [c EXCEPT !.ret = r].ret = r
  BY DEF Context

-----------------------------------------------------------------------------
(* Returning and landing.                                                  *)

LEMMA EnterLandLands ==
    ASSUME ModeOK, NEW c \in Context
    PROVE  /\ EnterLand(c) \in Context
           /\ EnterLand(c).phase = "LAND" /\ EnterLand(c).ret = c.ret
  <1> DEFINE d == [c EXCEPT !.phase = "LAND"]
  <1>1. d \in Context /\ d.phase = "LAND" /\ d.ret = c.ret
    BY DEF Context, Phases
  <1>2. Commanded(d, Ask(d, "LAND"))
    BY <1>1, NamedModes, AskCommands
  <1> QED
    BY <1>1, <1>2 DEF EnterLand, Commanded

\* What each part of a commit leaves: the Pi's leg, or the cleared timers and the
\* request.
LEMMA PartsOfTheReturn ==
    ASSUME NEW c \in Context
    PROVE  /\ PiTakes(c) \in Context /\ PiTakes(c).phase = c.phase
           /\ PiTakes(c).mission = c.mission /\ PiTakes(c).wp = c.wp
           /\ PiTakes(c).link = c.link /\ PiTakes(c).ret.piFlown
           /\ LegHome(c) \in Context /\ LegHome(c).phase = c.phase /\ LegHome(c).ret = c.ret
           /\ LegHome(c).mission = Append(c.mission, "home")
           /\ LegHome(PiTakes(c)) \in Context /\ LegHome(PiTakes(c)).ret.piFlown
           /\ LegHome(PiTakes(c)).mission = Append(c.mission, "home")
           /\ Cleared(c) \in Context /\ Cleared(c).phase = c.phase
           /\ Cleared(c).mission = c.mission /\ Cleared(c).wp = c.wp
           /\ Requested(c) \in Context /\ Requested(c).phase = c.phase
           /\ Requested(c).mission = c.mission /\ Requested(c).wp = c.wp
           /\ Requested(c).ret.asked
           /\ Requested(Cleared(c)) \in Context /\ Requested(Cleared(c)).phase = c.phase
           /\ Requested(Cleared(c)).mission = c.mission /\ Requested(Cleared(c)).wp = c.wp
           /\ Requested(Cleared(c)).ret.asked
           /\ Requested(Cleared(c)).ret.piFlown = c.ret.piFlown
  <1>1. ASSUME NEW d \in Context
        PROVE  /\ PiTakes(d) \in Context /\ PiTakes(d).phase = d.phase
               /\ PiTakes(d).mission = d.mission /\ PiTakes(d).wp = d.wp
               /\ PiTakes(d).link = d.link /\ PiTakes(d).ret.piFlown
    BY DEF PiTakes, Context, Return
  <1>2. ASSUME NEW d \in Context
        PROVE  /\ LegHome(d) \in Context /\ LegHome(d).phase = d.phase
               /\ LegHome(d).ret = d.ret /\ LegHome(d).mission = Append(d.mission, "home")
    <2>1. d.mission \in Seq(WaypointKinds) /\ "home" \in WaypointKinds
      BY DEF Context, WaypointKinds
    <2>2. Append(d.mission, "home") \in Seq(WaypointKinds) /\ Len(d.mission) \in Nat
      BY <2>1
    <2> QED BY <2>2 DEF LegHome, Context
  <1>3. ASSUME NEW d \in Context
        PROVE  /\ Cleared(d) \in Context /\ Cleared(d).phase = d.phase
               /\ Cleared(d).mission = d.mission /\ Cleared(d).wp = d.wp
               /\ Cleared(d).ret.piFlown = d.ret.piFlown
    BY DEF Cleared, Context, Return
  <1>4. ASSUME NEW d \in Context
        PROVE  /\ Requested(d) \in Context /\ Requested(d).phase = d.phase
               /\ Requested(d).mission = d.mission /\ Requested(d).wp = d.wp
               /\ Requested(d).ret.asked /\ Requested(d).ret.piFlown = d.ret.piFlown
    BY DEF Requested, Context, Return
  <1>5. PiTakes(c) \in Context /\ PiTakes(c).mission = c.mission /\ PiTakes(c).ret.piFlown
    BY <1>1
  <1>6. Cleared(c) \in Context
    BY <1>3
  <1> QED
    BY <1>1, <1>2, <1>3, <1>4, <1>5, <1>6

LEMMA PhaseOfContext ==
    ASSUME NEW c \in Context, NEW q \in Phases
    PROVE  /\ [c EXCEPT !.phase = q] \in Context /\ [c EXCEPT !.phase = q].phase = q
           /\ [c EXCEPT !.phase = q].mission = c.mission
           /\ [c EXCEPT !.phase = q].wp = c.wp /\ [c EXCEPT !.phase = q].ret = c.ret
  BY DEF Context

\* The leg home as the return's own thread or _commit_rtl leaves it.
LEMMA LegHomeFlown ==
    ASSUME NEW c \in Context
    PROVE  LET d == [LegHome(PiTakes(c)) EXCEPT !.phase = "NAVIGATE"]
           IN  /\ d \in Context /\ d.phase = "NAVIGATE"
               /\ d.mission = Append(c.mission, "home") /\ d.ret.piFlown
  <1> DEFINE e == LegHome(PiTakes(c))
  <1>1. e \in Context /\ e.mission = Append(c.mission, "home") /\ e.ret.piFlown
    BY PartsOfTheReturn
  <1>2. "NAVIGATE" \in Phases
    BY DEF Phases
  <1> HIDE DEF e
  <1>3. LET d == [e EXCEPT !.phase = "NAVIGATE"]
        IN  /\ d \in Context /\ d.phase = "NAVIGATE"
            /\ d.mission = Append(c.mission, "home") /\ d.ret.piFlown
    BY <1>1, <1>2, PhaseOfContext
  <1> QED BY <1>3 DEF e

\* A committed return is flown by the Pi as a leg of the plan, or the FC has been
\* asked to fly it.
LEMMA CommitRtlHandsOver ==
    ASSUME ModeOK, NEW c \in Context
    PROVE  /\ CommitRtl(c) \in Context
           /\ Owned(CommitRtl(c))
           /\ CommitRtl(c).phase \in {c.phase, "NAVIGATE"}
  <1>1. CASE PiReturnWanted(c)
    <2> DEFINE d == [LegHome(PiTakes(c)) EXCEPT !.phase = "NAVIGATE"]
    <2>1. d \in Context /\ d.phase = "NAVIGATE"
      BY LegHomeFlown
    <2>2. Commanded(d, LeaveBrake(d))
      BY <2>1, MotionCommands
    <2> QED
      BY <1>1, <2>1, <2>2 DEF CommitRtl, Commanded, Owned
  <1>2. CASE ~PiReturnWanted(c)
    <2> DEFINE d == Requested(Cleared(c))
    <2>1. d \in Context /\ d.phase = c.phase /\ d.ret.asked
      BY PartsOfTheReturn
    <2>2. Commanded(d, Ask(d, ReturnMode))
      BY <2>1, NamedModes, AskCommands
    <2> QED
      BY <1>2, <2>1, <2>2 DEF CommitRtl, Commanded, Owned
  <1> QED
    BY <1>1, <1>2

LEMMA TurnsOwn ==
    ASSUME NEW c \in Context
    PROVE  /\ StartAboutFace(c) \in Context /\ StartTurn(c) \in Context
           /\ Owned(StartAboutFace(c)) /\ Owned(StartTurn(c))
           /\ StartAboutFace(c).phase = c.phase /\ StartTurn(c).phase = c.phase
  BY DEF Context, Return, StartAboutFace, StartTurn, Owned

LEMMA HandOverHandsOver ==
    ASSUME ModeOK, NEW c \in Context, NEW turnFirst \in BOOLEAN
    PROVE  /\ HandOver(c, turnFirst) \in Context
           /\ Owned(HandOver(c, turnFirst))
           /\ HandOver(c, turnFirst).phase \in {c.phase, "NAVIGATE"}
  BY CommitRtlHandsOver, TurnsOwn DEF HandOver

LEMMA EnterRtlHandsOver ==
    ASSUME ModeOK, NEW c \in Context, NEW turnFirst \in BOOLEAN
    PROVE  /\ EnterRtl(c, turnFirst) \in Context
           /\ Owned(EnterRtl(c, turnFirst))
           /\ EnterRtl(c, turnFirst).phase \in {"RTL", "NAVIGATE"}
  <1> DEFINE d == [c EXCEPT !.ret.job = turnFirst, !.ret.asked = FALSE, !.phase = "RTL"]
  <1>1. d \in Context /\ d.phase = "RTL"
    BY DEF Context, Return, Phases
  <1> QED
    BY <1>1, HandOverHandsOver DEF EnterRtl

-----------------------------------------------------------------------------
(* The inductive invariant, split along what a call's context carries.     *)

\* What a context carries, and what it does not.
CoreOK ==
    /\ phase \in Phases /\ mission \in Seq(WaypointKinds) /\ wp \in Nat
    /\ link \in Link /\ ret \in Return
    /\ ble \in BleStates /\ ReturnAsked
FlagsOK ==
    /\ holding \in BOOLEAN /\ delivered \in BOOLEAN
    /\ override \in BOOLEAN /\ startRequested \in BOOLEAN
    /\ armed \in BOOLEAN /\ hasFlown \in BOOLEAN /\ home \in BOOLEAN
    /\ critical \in BOOLEAN /\ tooHigh \in BOOLEAN
NamesOK ==
    /\ stage \in Stages /\ mode \in Modes \cup {"UNKNOWN"}
    /\ episode \subseteq {"result", "lock", "replaced"}
BoundsOK == orders \in 0..MaxOrders /\ interventions \in 0..MaxInterventions
RestOK == FlagsOK /\ NamesOK /\ BoundsOK
NavInv == CoreOK /\ RestOK

\* A context may become the state, the handshake's thread being at b.  The hold
\* is entered through EnterHover only.
Sound(c, b) ==
    /\ c \in Context /\ b \in BleStates
    /\ Owned(c) \/ b \in Owning
    /\ c.phase = "HOVER" => phase = "HOVER"

\* What every step but EnterHover does.
Kept == CoreOK' /\ (phase' = "HOVER" => phase = "HOVER")

LEMMA NavInvTypes == NavInv <=> TypeOK /\ ReturnAsked
  BY DEF NavInv, CoreOK, RestOK, FlagsOK, NamesOK, BoundsOK, TypeOK

\* What assigning a context leaves, whatever it forgets of the history.
LEMMA Assigned ==
    ASSUME NEW c \in Context, Assigns(c)
    PROVE  /\ phase' \in Phases /\ mission' \in Seq(WaypointKinds) /\ wp' \in Nat
           /\ link' \in Link /\ ret' \in Return
           /\ phase' = c.phase
           /\ Owned(c) /\ phase' = "RTL" => ret'.asked \/ ret'.about \/ ret'.turn
  <1>1. c.ret \in Return /\ [c.ret EXCEPT !.asked = FALSE] \in Return
    BY DEF Context, Return
  <1>2. ret' \in Return /\ (phase' = "RTL" => ret' = c.ret) /\ phase' = c.phase
    BY <1>1 DEF Assigns
  <1>3. /\ phase' \in Phases /\ mission' \in Seq(WaypointKinds) /\ wp' \in Nat
        /\ link' \in Link
    BY DEF Assigns, Context
  <1> QED
    BY <1>2, <1>3 DEF Owned

LEMMA SoundBecomes ==
    ASSUME NEW c, Sound(c, ble), Becomes(c)
    PROVE  Kept
  <1>1. ble' = ble \/ ble' = "marked"
    BY DEF Becomes
  <1>2. c \in Context /\ Assigns(c)
    BY DEF Sound, Becomes
  <1> QED
    BY <1>1, <1>2, Assigned DEF Kept, Sound, CoreOK, ReturnAsked, Owning, BleStates

\* The context a call starts from.
LEMMA SoundStart ==
    ASSUME NavInv, NEW nose \in Noses
    PROVE  /\ ModeOK
           /\ Sound(Call(nose), ble) /\ Sound(Here, ble)
           /\ Sound(Seen(nose), ble) /\ Sound(Look, ble)
           /\ Call(nose).phase = phase /\ Here.phase = phase
           /\ Seen(nose).phase = phase /\ Look.phase = phase
           /\ Seen(nose).ret = ret /\ Look.ret = ret
  <1>1. TypeOK /\ ReturnAsked
    BY NavInvTypes
  <1>2. ModeOK /\ ble \in BleStates
    BY <1>1 DEF TypeOK, ModeOK
  <1>3. \A n \in Noses : /\ Call(n) \in Context /\ Call(n).phase = phase /\ Call(n).ret = ret
                         /\ Seen(n) \in Context /\ Seen(n).phase = phase /\ Seen(n).ret = ret
    BY <1>1, CallIsContext, LookIsContext
  <1>4. \A n \in Noses : Sound(Call(n), ble) /\ Sound(Seen(n), ble)
    BY <1>1, <1>2, <1>3 DEF Sound, Owned, Owning, ReturnAsked
  <1> QED
    BY <1>2, <1>3, <1>4 DEF Here, Look, Noses

LEMMA SoundCommanded ==
    ASSUME NEW c, NEW b, Sound(c, b), NEW d, Commanded(c, d)
    PROVE  Sound(d, b) /\ d.phase = c.phase /\ d.ret = c.ret
  BY DEF Sound, Commanded, Owned

\* Every command leaves a sound context sound.
LEMMA SoundCommands ==
    ASSUME ModeOK, NEW c, NEW b, Sound(c, b), NEW m \in Modes
    PROVE  /\ Sound(Ask(c, m), b) /\ Ask(c, m).phase = c.phase /\ Ask(c, m).ret = c.ret
           /\ Sound(Motion(c), b) /\ Motion(c).phase = c.phase
           /\ Sound(Goto(c), b) /\ Goto(c).phase = c.phase
           /\ Sound(TakeOff(c), b) /\ TakeOff(c).phase = c.phase
           /\ Sound(LeaveBrake(c), b) /\ LeaveBrake(c).phase = c.phase
           /\ Sound(Observed(c), b) /\ Observed(c).phase = c.phase
  <1>1. c \in Context
    BY DEF Sound
  <1>2. /\ Commanded(c, Ask(c, m)) /\ Commanded(c, Motion(c)) /\ Commanded(c, Goto(c))
        /\ Commanded(c, TakeOff(c)) /\ Commanded(c, LeaveBrake(c))
        /\ Commanded(c, Observed(c))
    BY <1>1, AskCommands, MotionCommands, ObservedCommands
  <1> QED
    BY <1>2, SoundCommanded

\* So does a move to a phase other than RTL and HOVER ...
LEMMA SoundPhase ==
    ASSUME NEW c, NEW b, Sound(c, b), NEW p \in Phases \ {"RTL", "HOVER"}
    PROVE  /\ Sound([c EXCEPT !.phase = p], b) /\ [c EXCEPT !.phase = p].phase = p
           /\ [c EXCEPT !.phase = p].mission = c.mission /\ [c EXCEPT !.phase = p].wp = c.wp
  BY DEF Sound, Owned, Context

\* ... and a new waypoint, or a new plan.
LEMMA SoundWaypoint ==
    ASSUME NEW c, NEW b, Sound(c, b), NEW w \in Nat
    PROVE  Sound([c EXCEPT !.wp = w], b) /\ [c EXCEPT !.wp = w].phase = c.phase
  BY DEF Sound, Owned, Context

LEMMA SoundPlan ==
    ASSUME NEW c, NEW b, Sound(c, b), NEW m \in Seq(WaypointKinds)
    PROVE  Sound([c EXCEPT !.mission = m], b) /\ [c EXCEPT !.mission = m].phase = c.phase
  BY DEF Sound, Owned, Context

LEMMA SoundReturns ==
    ASSUME ModeOK, NEW c, NEW b, Sound(c, b), NEW turnFirst \in BOOLEAN
    PROVE  /\ Sound(EnterLand(c), b)
           /\ Sound(CommitRtl(c), b)
           /\ Sound(HandOver(c, turnFirst), b)
           /\ Sound(EnterRtl(c, turnFirst), b)
  <1>1. c \in Context
    BY DEF Sound
  <1>2. Sound(EnterLand(c), b)
    BY <1>1, EnterLandLands DEF Sound, Owned
  <1> QED
    BY <1>1, <1>2, CommitRtlHandsOver, HandOverHandsOver, EnterRtlHandsOver DEF Sound

\* Fields that ownership does not depend on.
LEMMA SoundFields ==
    ASSUME NEW c, NEW b, Sound(c, b)
    PROVE  /\ Sound([c EXCEPT !.link.mismatch = FALSE], b)
           /\ [c EXCEPT !.link.mismatch = FALSE].phase = c.phase
           /\ \A x \in BOOLEAN :
                 /\ Sound([c EXCEPT !.ret.braking = x], b)
                 /\ Sound([c EXCEPT !.ret.fellBack = x], b)
  <1>1. c \in Context /\ c.link \in Link /\ c.ret \in Return
    BY DEF Sound, Context
  <1>2. \A l \in Link : [l EXCEPT !.mismatch = FALSE] \in Link
    BY DEF Link
  <1>3. Sound([c EXCEPT !.link.mismatch = FALSE], b) /\ [c EXCEPT !.link.mismatch = FALSE].phase = c.phase
    BY <1>1, <1>2 DEF Sound, Context, Owned
  <1>4. ASSUME NEW r \in Return, \A f \in {"asked", "about", "turn"} : r[f] = c.ret[f]
        PROVE  Sound([c EXCEPT !.ret = r], b)
    <2> DEFINE d == [c EXCEPT !.ret = r]
    <2>1. d \in Context /\ d.phase = c.phase /\ d.ret = r
      BY <1>1 DEF Context
    <2>2. r.asked = c.ret.asked /\ r.about = c.ret.about /\ r.turn = c.ret.turn
      BY <1>4
    <2> HIDE DEF d
    <2>3. Sound(d, b)
      BY <2>1, <2>2 DEF Sound, Owned
    <2> QED BY <2>3 DEF d
  <1>5. ASSUME NEW x \in BOOLEAN
        PROVE  Sound([c EXCEPT !.ret.braking = x], b) /\ Sound([c EXCEPT !.ret.fellBack = x], b)
    <2>1. /\ [c.ret EXCEPT !.braking = x] \in Return /\ [c.ret EXCEPT !.fellBack = x] \in Return
          /\ \A f \in {"asked", "about", "turn"} : /\ [c.ret EXCEPT !.braking = x][f] = c.ret[f]
                                                       /\ [c.ret EXCEPT !.fellBack = x][f] = c.ret[f]
      BY <1>1 DEF Return
    <2>2. /\ [c EXCEPT !.ret.braking = x] = [c EXCEPT !.ret = [c.ret EXCEPT !.braking = x]]
          /\ [c EXCEPT !.ret.fellBack = x] = [c EXCEPT !.ret = [c.ret EXCEPT !.fellBack = x]]
      OBVIOUS
    <2> QED BY <2>1, <2>2, <1>4
  <1> QED BY <1>3, <1>5

-----------------------------------------------------------------------------
(* The steps of the control loop.                                          *)

LEMMA FailsafeKeeps ==
    ASSUME ModeOK, NEW c, Sound(c, ble), Failsafe(c)
    PROVE  Kept
  <1>1. CASE LandNow(c.phase) /\ Becomes(EnterLand(c))
    BY <1>1, SoundReturns, SoundBecomes
  <1>2. CASE Becomes(Ask([c EXCEPT !.phase = "HOLD"], "BRAKE"))
    <2>1. Sound([c EXCEPT !.phase = "HOLD"], ble)
      BY SoundPhase DEF Phases
    <2> QED
      BY <1>2, <2>1, NamedModes, SoundCommands, SoundBecomes
  <1>3. CASE Becomes(EnterRtl(c, FALSE))
    BY <1>3, SoundReturns, SoundBecomes
  <1> QED
    BY <1>1, <1>2, <1>3 DEF Failsafe

LEMMA ArmingKeeps ==
    ASSUME ModeOK, NEW c, Sound(c, ble), Arming(c)
    PROVE  Kept
  <1>1. \A p \in {"TAKEOFF", "IDLE"} : Sound([c EXCEPT !.phase = p], ble)
    BY SoundPhase DEF Phases
  <1>2. CASE Becomes(c)
    BY <1>2, SoundBecomes
  <1>3. CASE Becomes(TakeOff([c EXCEPT !.phase = "TAKEOFF"]))
    BY <1>1, <1>3, NamedModes, SoundCommands, SoundBecomes
  <1>4. CASE Becomes([c EXCEPT !.phase = "IDLE"])
    BY <1>1, <1>4, SoundBecomes
  <1>5. CASE Becomes(Ask(c, "GUIDED"))
    BY <1>5, NamedModes, SoundCommands, SoundBecomes
  <1> QED
    BY <1>2, <1>3, <1>4, <1>5 DEF Arming

LEMMA StartTickKeeps ==
    ASSUME NavInv, StartTick
    PROVE  Kept
  <1> DEFINE cleared == [Here EXCEPT !.link.mismatch = FALSE]
             begun == [cleared EXCEPT !.phase = "ARMING", !.wp = 0]
             c == Observed(IF mission = <<>> THEN cleared ELSE begun)
  <1>0. ModeOK /\ Sound(Here, ble) /\ "unknown" \in Noses
    BY SoundStart DEF StartTick, Noses
  <1>1. Sound(cleared, ble)
    BY <1>0, SoundFields
  <1>2. Sound([cleared EXCEPT !.phase = "ARMING"], ble)
    BY <1>1, SoundPhase DEF Phases
  <1>3. Sound(begun, ble)
    <2>1. begun = [[cleared EXCEPT !.phase = "ARMING"] EXCEPT !.wp = 0]
      OBVIOUS
    <2> QED
      BY <1>2, <2>1, SoundWaypoint
  <1>4. Sound(c, ble)
    BY <1>0, <1>1, <1>3, NamedModes, SoundCommands
  <1>5. Failsafe(c) \/ Arming(c) \/ Becomes(c)
    BY DEF StartTick
  <1> QED
    BY <1>0, <1>4, <1>5, FailsafeKeeps, ArmingKeeps, SoundBecomes

\* The loop after its look, and what it keeps of the handshake's thread.
LEMMA TickStart ==
    ASSUME NavInv, Ticking
    PROVE  /\ ModeOK
           /\ Sound(Look, ble) /\ Look.phase = phase /\ Look.ret = ret
           /\ \A nose \in Noses : /\ Sound(Seen(nose), ble)
                                  /\ Seen(nose).phase = phase /\ Seen(nose).ret = ret
  BY SoundStart DEF Ticking, Noses

LEMMA GroundKeeps ==
    ASSUME NavInv,
           FailsafeTick \/ WatchTick \/ ArmingTick \/ TakeoffDone \/ HoldTick \/ ManualTick
             \/ LandTick
    PROVE  Kept
  <1>0. Ticking
    BY DEF FailsafeTick, WatchTick, ArmingTick, TakeoffDone, HoldTick, ManualTick,
           LandTick, Tick
  <1>1. ModeOK /\ Sound(Look, ble)
    BY <1>0, TickStart
  <1>2. \A p \in {"NAVIGATE", "DISARMED"} : Sound([Look EXCEPT !.phase = p], ble)
    BY <1>1, SoundPhase DEF Phases
  <1>3. \A m \in {"BRAKE", "LAND"} : Sound(Ask(Look, m), ble)
    BY <1>1, NamedModes, SoundCommands
  <1>4. CASE FailsafeTick
    BY <1>1, <1>4, FailsafeKeeps DEF FailsafeTick
  <1>5. CASE WatchTick
    BY <1>1, <1>5, SoundBecomes DEF WatchTick
  <1>6. CASE ArmingTick
    BY <1>1, <1>6, ArmingKeeps DEF ArmingTick
  <1>7. CASE TakeoffDone
    BY <1>2, <1>7, SoundBecomes DEF TakeoffDone
  <1>8. CASE HoldTick
    BY <1>3, <1>8, SoundBecomes DEF HoldTick
  <1>9. CASE ManualTick
    BY <1>1, <1>3, <1>9, SoundBecomes DEF ManualTick
  <1>10. CASE LandTick
    BY <1>1, <1>2, <1>3, <1>10, SoundBecomes DEF LandTick
  <1> QED
    BY <1>4, <1>5, <1>6, <1>7, <1>8, <1>9, <1>10

LEMMA NavigateKeeps ==
    ASSUME NavInv,
           NavigateStop \/ NavigateDone \/ NavigatePass \/ NavigateFly
             \/ PiReturnOverdue \/ AvoidTick
    PROVE  Kept
  <1>0. Ticking
    BY DEF NavigateStop, NavigateDone, NavigatePass, NavigateFly, PiReturnOverdue, AvoidTick, Tick
  <1>1. ModeOK /\ Sound(Look, ble) /\ \A nose \in Noses : Sound(Seen(nose), ble)
    BY <1>0, TickStart
  <1>2. \A p \in {"AVOID", "NAVIGATE"} : Sound([Look EXCEPT !.phase = p], ble)
    BY <1>1, SoundPhase DEF Phases
  <1>3. /\ Sound(Ask(Look, "BRAKE"), ble) /\ Sound(Motion(Look), ble)
        /\ Sound(LeaveBrake(Look), ble)
    BY <1>1, NamedModes, SoundCommands
  <1>4. CASE NavigateStop
    <2>1. Sound(Ask([Look EXCEPT !.phase = "AVOID"], "BRAKE"), ble)
      BY <1>1, <1>2, NamedModes, SoundCommands
    <2> QED
      BY <1>4, <2>1, SoundBecomes DEF NavigateStop
  <1>5. CASE NavigateDone
    <2>1. \A nose \in Noses : Sound(EnterRtl(Seen(nose), TRUE), ble)
      BY <1>1, SoundReturns
    <2> QED
      BY <1>5, <2>1, SoundBecomes DEF NavigateDone
  <1>6. CASE NavigatePass
    <2>1. Look.wp + 1 \in Nat
      BY <1>1 DEF Sound, Context
    <2>2. Sound([Look EXCEPT !.wp = @ + 1], ble)
      BY <1>1, <2>1, SoundWaypoint
    <2> QED
      BY <1>6, <2>2, SoundBecomes DEF NavigatePass
  <1>8. CASE NavigateFly
    BY <1>1, <1>3, <1>8, SoundBecomes DEF NavigateFly
  <1>9. CASE PiReturnOverdue
    <2> DEFINE d == [Look EXCEPT !.ret.piSince = FALSE, !.ret.job = FALSE,
                                 !.ret.asked = FALSE, !.phase = "RTL"]
    <2>1. d \in Context /\ d.phase = "RTL"
      BY <1>1 DEF Sound, Context, Return, Phases
    <2>2. Sound(CommitRtl(d), ble)
      BY <1>1, <2>1, CommitRtlHandsOver DEF Sound
    <2> QED
      BY <1>9, <2>2, SoundBecomes DEF PiReturnOverdue
  <1>10. CASE AvoidTick
    BY <1>2, <1>3, <1>10, SoundBecomes DEF AvoidTick
  <1> QED
    BY <1>4, <1>5, <1>6, <1>8, <1>9, <1>10
LEMMA EnterHoverKeeps ==
    ASSUME NavInv, EnterHover
    PROVE  CoreOK'
  <1> DEFINE d == [Look EXCEPT !.phase = "HOVER"]
  <1>1. ModeOK /\ Sound(Look, ble) /\ ble \in BleStates
    BY TickStart DEF EnterHover, Tick, Sound
  <1>2. d \in Context /\ d.phase = "HOVER" /\ d.ret = Look.ret
    BY <1>1 DEF Sound, Context, Phases
  <1>3. Commanded(d, Goto(d))
    BY <1>1, <1>2, MotionCommands
  <1>4. Goto(d) \in Context /\ Goto(d).phase = "HOVER"
    BY <1>1, <1>2, <1>3 DEF Sound, Commanded
  <1>5. Becomes(Goto(d))
    BY DEF EnterHover
  <1>6. Assigns(Goto(d)) /\ ble' \in BleStates
    BY <1>1, <1>5 DEF Becomes, BleStates
  <1> QED
    BY <1>4, <1>6, Assigned DEF CoreOK, ReturnAsked

LEMMA SoundNudges ==
    ASSUME ModeOK, NEW c, NEW b, Sound(c, b), NEW d \in Nudges(c)
    PROVE  Sound(d, b) /\ d.phase = c.phase
  <1>1. {"GUIDED", "BRAKE"} \subseteq Modes
    BY NamedModes
  <1>2. /\ Sound(Motion(c), b) /\ Motion(c).phase = c.phase
        /\ Sound(Ask(c, "BRAKE"), b) /\ Ask(c, "BRAKE").phase = c.phase
        /\ Sound(Ask(c, "GUIDED"), b) /\ Ask(c, "GUIDED").phase = c.phase
    BY <1>1, SoundCommands
  <1>3. Sound(Motion(Ask(c, "GUIDED")), b) /\ Motion(Ask(c, "GUIDED")).phase = c.phase
    BY <1>1, <1>2, SoundCommands
  <1> QED
    BY <1>2, <1>3 DEF Nudges

LEMMA HoverKeeps ==
    ASSUME NavInv, HoverWait \/ HoverSkip \/ HoverDone \/ ScanSearch \/ ScanLock
    PROVE  Kept
  <1>0. Ticking
    BY DEF HoverWait, HoverSkip, HoverDone, ScanSearch, ScanLock, Tick
  <1>1. ModeOK /\ Sound(Look, ble) /\ \A nose \in Noses : Sound(Seen(nose), ble)
    BY <1>0, TickStart
  <1>2. \A d \in Nudges(Look) : Sound(d, ble)
    BY <1>1, SoundNudges
  <1>3. CASE HoverWait
    BY <1>2, <1>3, SoundBecomes DEF HoverWait
  <1>4. CASE HoverSkip
    <2>1. Look.wp + 1 \in Nat
      BY <1>1 DEF Sound, Context
    <2>2. Sound([Look EXCEPT !.phase = "NAVIGATE"], ble)
      BY <1>1, SoundPhase DEF Phases
    <2>3. Sound([[Look EXCEPT !.phase = "NAVIGATE"] EXCEPT !.wp = Look.wp + 1], ble)
      BY <2>1, <2>2, SoundWaypoint
    <2>4. [[Look EXCEPT !.phase = "NAVIGATE"] EXCEPT !.wp = Look.wp + 1]
            = [Look EXCEPT !.phase = "NAVIGATE", !.wp = @ + 1]
      OBVIOUS
    <2> QED
      BY <1>4, <2>3, <2>4, SoundBecomes DEF HoverSkip
  <1>5. CASE HoverDone
    <2> DEFINE next(d) == [d EXCEPT !.wp = @ + 1]
               done(d) == IF Active(next(d)) THEN [next(d) EXCEPT !.phase = "NAVIGATE"]
                          ELSE EnterRtl(next(d), TRUE)
    <2>0. PICK nose \in Noses : \E d \in Nudges(Seen(nose)) : Becomes(done(d))
      BY <1>5 DEF HoverDone
    <2>1. PICK seen \in Nudges(Seen(nose)) : Becomes(done(seen))
      BY <2>0
    <2> DEFINE c == next(seen)
    <2>2. Sound(seen, ble)
      BY <1>1, SoundNudges
    <2>3. seen.wp + 1 \in Nat
      BY <2>2 DEF Sound, Context
    <2>4. Sound(c, ble)
      BY <2>2, <2>3, SoundWaypoint
    <2>5. Sound([c EXCEPT !.phase = "NAVIGATE"], ble)
      BY <2>4, SoundPhase DEF Phases
    <2>6. Sound(EnterRtl(c, TRUE), ble)
      BY <1>1, <2>4, SoundReturns
    <2> QED
      BY <2>1, <2>5, <2>6, SoundBecomes
  <1>6. CASE ScanSearch
    <2>1. \A d \in Nudges(Look) : Sound(Goto(d), ble)
      BY <1>1, <1>2, NamedModes, SoundCommands
    <2> QED
      BY <1>6, <2>1, SoundBecomes DEF ScanSearch
  <1>7. CASE ScanLock
    BY <1>2, <1>7, SoundBecomes DEF ScanLock
  <1> QED
    BY <1>3, <1>4, <1>5, <1>6, <1>7

\* The last part of _do_rtl, whatever came before it on the same tick.
LEMMA ReturningKeeps ==
    ASSUME ModeOK, NEW c, Sound(c, ble), NEW fresh \in BOOLEAN, Returning(c, fresh)
    PROVE  Kept
  <1>0. {"RTL", "BRAKE", ReturnMode} \subseteq Modes
    BY NamedModes
  <1>1. /\ Sound([c EXCEPT !.ret.fellBack = TRUE], ble)
        /\ \A x \in BOOLEAN : Sound([c EXCEPT !.ret.braking = x], ble)
    BY SoundFields
  <1>2. /\ Sound(Ask([c EXCEPT !.ret.fellBack = TRUE], "RTL"), ble)
        /\ Sound(Ask([c EXCEPT !.ret.braking = TRUE], "BRAKE"), ble)
        /\ Sound(Ask([c EXCEPT !.ret.braking = FALSE], ReturnMode), ble)
    BY <1>0, <1>1, SoundCommands
  <1>3. Sound(BrakeRelease(c), ble)
    BY <1>2 DEF BrakeRelease
  <1>4. Sound(EnterLand(BrakeRelease(c)), ble)
    BY <1>3, SoundReturns
  <1> QED
    BY <1>2, <1>3, <1>4, SoundBecomes DEF Returning

LEMMA TurningKeeps ==
    ASSUME ModeOK, NEW c, Sound(c, ble), NEW fresh \in BOOLEAN, Turning(c, fresh)
    PROVE  Kept
  <1>1. Sound(CommitRtl(c), ble)
    BY SoundReturns
  <1>2. CASE Returning(c, fresh)
    BY <1>2, ReturningKeeps
  <1>3. CASE Becomes(c)
    BY <1>3, SoundBecomes
  <1>4. CASE Returning(CommitRtl(c), TRUE)
    BY <1>1, <1>4, ReturningKeeps
  <1> QED
    BY <1>2, <1>3, <1>4 DEF Turning

LEMMA ReturnKeeps ==
    ASSUME NavInv, ReturnDown \/ RtlTick
    PROVE  Kept
  <1>0. Ticking
    BY DEF ReturnDown, RtlTick, Tick
  <1>1. ModeOK /\ Sound(Look, ble) /\ \A nose \in Noses : Sound(Seen(nose), ble)
    BY <1>0, TickStart
  <1>2. CASE ReturnDown
    <2> DEFINE d == [Look EXCEPT !.phase = "COMPLETE", !.ret.requested = FALSE,
                                 !.ret.turn = FALSE, !.ret.about = FALSE]
    <2>1. Sound(d, ble)
      BY <1>1 DEF Sound, Owned, Context, Return, Phases
    <2> QED
      BY <1>2, <2>1, SoundBecomes DEF ReturnDown
  <1>3. CASE RtlTick
    <2> DEFINE faced(c) == [c EXCEPT !.ret.about = FALSE]
    <2>1. PICK nose \in Noses :
            LET c == Seen(nose) IN
               \/ Turning(c, FALSE)
               \/ Becomes(c)
               \/ Becomes(StartTurn(faced(c)))
               \/ Turning(CommitRtl(faced(c)), TRUE)
      BY <1>3 DEF RtlTick
    <2> DEFINE c == Seen(nose)
    <2>2. Sound(c, ble)
      BY <1>1
    \* Without the about-face nobody may own the return: what follows takes over.
    <2>3. faced(c) \in Context /\ (faced(c).phase = "HOVER" => phase = "HOVER")
      BY <2>2 DEF Sound, Context, Return
    <2>4. Sound(StartTurn(faced(c)), ble) /\ Sound(CommitRtl(faced(c)), ble)
      BY <1>1, <2>3, TurnsOwn, CommitRtlHandsOver DEF Sound
    <2> QED
      BY <1>1, <2>1, <2>2, <2>4, TurningKeeps, SoundBecomes
  <1> QED
    BY <1>2, <1>3

-----------------------------------------------------------------------------
(* The pilot, the handshake's thread, the operator, the reports.           *)

LEMMA TakeOverKeeps ==
    ASSUME NavInv, TakeOver
    PROVE  Kept
  BY DEF Kept, NavInv, CoreOK, ReturnAsked, TakeOver, Phases

\* A write of the handshake's thread, owed or not before and after it.
LEMMA UnlockedKeeps ==
    ASSUME NavInv, NEW from, NEW to, NEW c, Unlocked(from, to, c), c \in Context,
           to \in BleStates, c.phase = "HOVER" => phase = "HOVER",
           to \in Owning \/ Owned(c)
    PROVE  Kept
  <1>1. Assigns(c) /\ ble' = to
    BY DEF Unlocked
  <1> QED
    BY <1>1, Assigned DEF Kept, CoreOK, ReturnAsked, Owning

\* Whatever it writes, it leaves the hold, the flags and the reports alone.
LEMMA EarlyReturnAlone ==
    ASSUME EarlyReturn
    PROVE  /\ UNCHANGED hold
           /\ UNCHANGED <<override, startRequested, orders, interventions>>
           /\ UNCHANGED Outside
  BY DEF EarlyReturn, BleJob, BleMark, BleTurn, BleVoid, BleFly, BleAppend, BleLeg, BleLeave,
         BleClear, BleCommit, Unlocked

LEMMA BleKeeps ==
    ASSUME NavInv, BleResult \/ EarlyReturn
    PROVE  Kept
  <1>1. ModeOK /\ Here \in Context /\ Here.phase = phase /\ Here.ret = ret
    BY NavInvTypes, CallIsContext DEF Here, Noses, TypeOK, ModeOK
  <1>2. ret \in Return /\ (ble \notin Owning => Owned(Here))
    BY <1>1 DEF NavInv, CoreOK, ReturnAsked, Owned, Owning
  <1>3. CASE BleResult
    <2>1. ble' = ble \/ ble \notin Owning
      BY <1>3 DEF BleResult, Owning
    <2> QED
      BY <1>3, <2>1 DEF Kept, NavInv, CoreOK, ReturnAsked, BleResult, Owning, BleStates
  <1>4. CASE BleJob
    <2> DEFINE c == [Here EXCEPT !.ret.job = TRUE]
    <2>1. Unlocked("decided", "job", c)
      BY <1>4 DEF BleJob
    <2>2. ble = "decided"
      BY <2>1 DEF Unlocked
    <2>3. c \in Context /\ c.phase = phase /\ Owned(c)
      BY <1>1, <1>2, <2>2 DEF Context, Return, Owned, Owning
    <2> QED BY <2>1, <2>3, UnlockedKeeps DEF BleStates
  <1>5. CASE BleMark
    <2> DEFINE c == [Here EXCEPT !.phase = "RTL", !.ret.asked = FALSE]
    <2>1. c \in Context /\ c.phase = "RTL"
      BY <1>1 DEF Context, Return, Phases
    <2> QED BY <1>5, <2>1, UnlockedKeeps DEF BleStates, BleMark, Owning
  <1>6. CASE BleTurn
    <2> DEFINE about == [Here EXCEPT !.ret.about = TRUE]
               turn == [Here EXCEPT !.ret.turn = TRUE]
    <2>1. /\ about \in Context /\ about.phase = phase /\ Owned(about)
          /\ turn \in Context /\ turn.phase = phase /\ Owned(turn)
      BY <1>1, <1>2 DEF Context, Return, Owned
    <2>2. Unlocked("marked", "turning", about) \/ Unlocked("marked", "turning", turn)
      BY <1>6 DEF BleTurn
    <2> QED BY <2>1, <2>2, UnlockedKeeps DEF BleStates
  <1>7. CASE BleVoid
    <2> DEFINE c == [Here EXCEPT !.ret.requested = FALSE]
    <2>1. Unlocked("turning", "idle", c)
      BY <1>7 DEF BleVoid
    <2>2. ble = "turning"
      BY <2>1 DEF Unlocked
    <2>3. c \in Context /\ c.phase = phase /\ Owned(c)
      BY <1>1, <1>2, <2>2 DEF Context, Return, Owned, Owning
    <2> QED BY <2>1, <2>3, UnlockedKeeps DEF BleStates
  <1>8. CASE BleFly \/ BleAppend \/ BleClear
    <2>1. \/ Unlocked("marked", "flown", PiTakes(Here))
          \/ Unlocked("flown", "appended", LegHome(Here))
          \/ Unlocked("marked", "cleared", Cleared(Here))
      BY <1>8 DEF BleFly, BleAppend, BleClear
    <2> QED BY <1>1, <2>1, PartsOfTheReturn, UnlockedKeeps DEF BleStates, Owning
  <1>9. CASE BleLeg
    <2> DEFINE c == [Here EXCEPT !.phase = "NAVIGATE"]
    <2>1. c \in Context /\ c.phase = "NAVIGATE" /\ Owned(c)
      BY <1>1 DEF Context, Phases, Owned
    <2> QED BY <1>9, <2>1, UnlockedKeeps DEF BleStates, BleLeg
  <1>10. CASE BleLeave
    <2>1. Unlocked("leg", "idle", LeaveBrake(Here))
      BY <1>10 DEF BleLeave
    <2>2. ble = "leg"
      BY <2>1 DEF Unlocked
    <2>3. Commanded(Here, LeaveBrake(Here))
      BY <1>1, MotionCommands
    <2> QED BY <1>1, <1>2, <2>1, <2>2, <2>3, UnlockedKeeps DEF BleStates, Commanded, Owned, Owning
  <1>11. CASE BleCommit
    <2>1. Requested(Here) \in Context /\ Requested(Here).phase = phase /\ Requested(Here).ret.asked
      BY <1>1, PartsOfTheReturn
    <2>2. Commanded(Requested(Here), Ask(Requested(Here), ReturnMode))
      BY <1>1, <2>1, NamedModes, AskCommands
    <2> QED BY <1>11, <2>1, <2>2, UnlockedKeeps DEF BleStates, BleCommit, Commanded, Owned
  <1> QED
    BY <1>3, <1>4, <1>5, <1>6, <1>7, <1>8, <1>9, <1>10, <1>11 DEF EarlyReturn

\* The contexts the services build.
LEMMA SoundEntered ==
    ASSUME NavInv
    PROVE  /\ ModeOK /\ Sound(Here, ble)
           /\ \A p \in Phases \ {"RTL", "HOVER"} : Sound(Enter(p), ble)
  <1>1. ModeOK /\ Sound(Here, ble)
    BY SoundStart DEF Noses
  <1>2. \A p \in Phases \ {"RTL", "HOVER"} : Sound([Here EXCEPT !.phase = p], ble)
    BY <1>1, SoundPhase
  <1> QED
    BY <1>1, <1>2 DEF Enter

LEMMA ServesKeeps ==
    ASSUME NEW c, Sound(c, ble), Serves(c)
    PROVE  Kept
  BY SoundBecomes DEF Serves, Operates

LEMMA ButtonsKeep ==
    ASSUME NavInv,
           Hold \/ TypedHold \/ TypedResume \/ Rtl \/ Land \/ EmergencyStop \/ ClearEmergency
             \/ TypedDisarm \/ TypedYaw
    PROVE  Kept
  <1>1. ModeOK /\ Sound(Here, ble)
    BY SoundEntered
  <1>2. /\ Sound(Enter("HOLD"), ble) /\ Sound(Enter("NAVIGATE"), ble)
        /\ Sound(Enter("DISARMED"), ble) /\ Sound(Enter("MANUAL"), ble)
        /\ Sound(Enter("EMERGENCY"), ble)
    BY SoundEntered DEF Phases
  <1>3. {"BRAKE", "LAND"} \subseteq Modes
    BY NamedModes
  <1>4. Sound(Ask(Enter("HOLD"), "BRAKE"), ble)
    BY <1>1, <1>2, <1>3, SoundCommands
  <1>5. Sound(Ask(Enter("EMERGENCY"), "BRAKE"), ble)
    BY <1>1, <1>2, <1>3, SoundCommands
  <1>6. Sound(Ask(Ask(Enter("EMERGENCY"), "BRAKE"), "LAND"), ble)
    BY <1>1, <1>5, <1>3, SoundCommands
  <1>7. Sound(EnterRtl(Here, FALSE), ble) /\ Sound(EnterLand(Here), ble)
    BY <1>1, SoundReturns
  <1>8. CASE TypedHold \/ EmergencyStop
    BY <1>4, <1>6, <1>8, ServesKeeps DEF TypedHold, EmergencyStop, Enter
  <1>9. CASE Rtl \/ Land
    BY <1>7, <1>9, ServesKeeps DEF Rtl, Land
  <1>10. CASE Hold \/ TypedResume \/ ClearEmergency \/ TypedDisarm \/ TypedYaw
    BY <1>2, <1>10, ServesKeeps DEF Hold, TypedResume, ClearEmergency, TypedDisarm, TypedYaw
  <1> QED
    BY <1>8, <1>9, <1>10

LEMMA ResumeKeeps ==
    ASSUME NavInv, Resume
    PROVE  Kept
  <1> DEFINE c == [Here EXCEPT !.link.mismatch = FALSE]
             back == [Ask(c, "GUIDED") EXCEPT !.phase = "NAVIGATE"]
             idle == [c EXCEPT !.phase = "IDLE"]
  <1>1. ModeOK /\ Sound(Here, ble) /\ Sound(Enter("NAVIGATE"), ble)
    BY SoundEntered DEF Resume, Operates, Phases
  <1>2. Sound(c, ble)
    BY <1>1, SoundFields
  <1>3. Sound(Ask(c, "GUIDED"), ble)
    BY <1>1, <1>2, NamedModes, SoundCommands
  <1>4. Sound(back, ble) /\ Sound(idle, ble)
    BY <1>2, <1>3, SoundPhase DEF Phases
  <1>5. Becomes(back) \/ Becomes(idle) \/ Becomes(Enter("NAVIGATE"))
    BY DEF Resume
  <1> QED
    BY <1>1, <1>4, <1>5, SoundBecomes

LEMMA FlightKeeps ==
    ASSUME NavInv,
           (\E m \in Modes : TypedMode(m)) \/ TypedTakeoff \/ MoveTo \/ MoveHold
    PROVE  Kept
  <1> DEFINE manual == [Here EXCEPT !.phase = "MANUAL"]
  <1>1. ModeOK /\ Sound(Here, ble) /\ Sound(manual, ble)
    BY SoundEntered DEF Phases, Enter
  <1>2. "GUIDED" \in Modes
    BY NamedModes
  <1>3. Sound(Ask(manual, "GUIDED"), ble)
    BY <1>1, <1>2, SoundCommands
  <1>4. CASE \E m \in Modes : TypedMode(m)
    <2>1. \A m \in Modes : Sound(Ask(Here, m), ble)
      BY <1>1, SoundCommands
    <2> QED
      BY <1>4, <2>1, ServesKeeps DEF TypedMode
  <1>5. CASE TypedTakeoff
    <2>1. Sound(TakeOff(Ask(manual, "GUIDED")), ble)
      BY <1>1, <1>2, <1>3, SoundCommands
    <2> QED
      BY <1>5, <2>1, ServesKeeps DEF TypedTakeoff
  <1>6. CASE MoveTo
    <2>1. Sound(Motion(manual), ble) /\ Sound(Motion(Ask(manual, "GUIDED")), ble)
      BY <1>1, <1>2, <1>3, SoundCommands
    <2>2. Serves(Motion(manual)) \/ Serves(Motion(Ask(manual, "GUIDED")))
      BY <1>6 DEF MoveTo
    <2> QED
      BY <2>1, <2>2, ServesKeeps
  <1>7. CASE MoveHold
    <2>1. Sound(Motion(Here), ble)
      BY <1>1, <1>2, SoundCommands
    <2> QED
      BY <1>7, <2>1, ServesKeeps DEF MoveHold
  <1> QED
    BY <1>4, <1>5, <1>6, <1>7

LEMMA MissionKeeps ==
    ASSUME NavInv, Start \/ AbortDelivery \/ SetDeliveryTarget \/ LoadMission
    PROVE  Kept
  <1>1. ModeOK /\ Sound(Here, ble)
    BY SoundEntered
  <1>2. \A m \in Plans : m \in Seq(WaypointKinds)
    BY PlansAssumption
  <1>3. \A m \in Seq(WaypointKinds) : /\ Sound([Here EXCEPT !.mission = m], ble)
                                      /\ Sound([Here EXCEPT !.mission = m, !.wp = 0], ble)
    <2>1. \A m \in Seq(WaypointKinds) : Sound([Here EXCEPT !.mission = m], ble)
      BY <1>1, SoundPlan
    <2>2. \A m \in Seq(WaypointKinds) :
            [Here EXCEPT !.mission = m, !.wp = 0] = [[Here EXCEPT !.mission = m] EXCEPT !.wp = 0]
      OBVIOUS
    <2> QED
      BY <2>1, <2>2, SoundWaypoint
  <1>4. CASE Start
    BY <1>1, <1>4, SoundBecomes DEF Start
  <1>5. CASE AbortDelivery
    <2> DEFINE c == [Here EXCEPT !.mission = <<>>, !.wp = 0]
    <2>1. Sound(c, ble)
      <3>1. <<>> \in Seq(WaypointKinds)
        OBVIOUS
      <3> QED
        BY <3>1, <1>3
    <2>2. Sound(EnterRtl(c, FALSE), ble) /\ Sound([c EXCEPT !.phase = "IDLE"], ble)
      BY <1>1, <2>1, SoundReturns, SoundPhase DEF Phases
    <2> QED
      BY <1>5, <2>2, SoundBecomes DEF AbortDelivery
  <1>6. CASE SetDeliveryTarget
    BY <1>2, <1>3, <1>6, SoundBecomes DEF SetDeliveryTarget
  <1>7. CASE LoadMission
    BY <1>2, <1>3, <1>7, SoundBecomes DEF LoadMission, Serves
  <1> QED
    BY <1>4, <1>5, <1>6, <1>7

\* A report changes no phase and no return.
LEMMA EnvironmentKeeps ==
    ASSUME NavInv, Environment
    PROVE  Kept
  <1>1. link' \in Link
    BY DEF NavInv, CoreOK, Link, Environment, FcAnswer, ModeChanges, Arms, Disarms, GpsFix,
           Battery, Altitude
  <1>2. Untouched
    BY DEF Environment, FcAnswer, ModeChanges, Arms, Disarms, GpsFix, Battery, Altitude
  <1> QED
    BY <1>1, <1>2 DEF Kept, Untouched, NavInv, CoreOK, ReturnAsked

-----------------------------------------------------------------------------
(* What no context carries.                                                *)

\* A budget is left alone or spent by one.
LEMMA Spending ==
    ASSUME BoundsOK,
           orders' = orders \/ (orders > 0 /\ orders' = orders - 1),
           \/ interventions' = interventions
           \/ interventions > 0 /\ interventions' = interventions - 1
    PROVE  BoundsOK'
  <1>1. MaxOrders \in Nat /\ MaxInterventions \in Nat
    BY ConfigAssumption
  <1>2. orders \in 0..MaxOrders /\ interventions \in 0..MaxInterventions
    BY DEF BoundsOK
  <1>3. orders' \in 0..MaxOrders
    BY <1>1, <1>2
  <1>4. interventions' \in 0..MaxInterventions
    BY <1>1, <1>2
  <1> QED
    BY <1>3, <1>4 DEF BoundsOK

LEMMA LoopRest ==
    ASSUME NavInv, Loop \/ TakeOver
    PROVE  RestOK'
  <1>0. FlagsOK /\ NamesOK /\ BoundsOK
    BY DEF NavInv, RestOK
  <1>1. CASE StartTick
    <2>1. FlagsOK'
      BY <1>0, <1>1 DEF FlagsOK, StartTick, Outside
    <2>2. NamesOK'
      BY <1>0, <1>1 DEF NamesOK, StartTick, Outside, Stages
    <2>3. BoundsOK'
      BY <1>0, <1>1 DEF BoundsOK, StartTick
    <2> QED
      BY <2>1, <2>2, <2>3 DEF RestOK
  <1>2. CASE EnterHover \/ HoverDone \/ ScanSearch \/ ScanLock
    <2>1. FlagsOK'
      BY <1>0, <1>2 DEF FlagsOK, EnterHover, HoverDone, ScanSearch, ScanLock, Tick, Ticking,
                        Outside
    <2>2. NamesOK'
      BY <1>0, <1>2 DEF NamesOK, EnterHover, HoverDone, ScanSearch, ScanLock, Tick, Ticking,
                        Outside, Stages
    <2>3. BoundsOK'
      BY <1>0, <1>2 DEF BoundsOK, EnterHover, HoverDone, ScanSearch, ScanLock, Tick, Ticking
    <2> QED
      BY <2>1, <2>2, <2>3 DEF RestOK
  <1>3. CASE TakeOver
    <2>1. FlagsOK'
      BY <1>0, <1>3 DEF FlagsOK, TakeOver, Outside
    <2>2. NamesOK'
      BY <1>0, <1>3 DEF NamesOK, TakeOver, Outside
    <2>3. BoundsOK'
      BY <1>0, <1>3, Spending DEF TakeOver
    <2> QED
      BY <2>1, <2>2, <2>3 DEF RestOK
  <1>4. CASE Ticking /\ UNCHANGED hold
    BY <1>0, <1>4 DEF RestOK, FlagsOK, NamesOK, BoundsOK, Ticking, Outside, hold
  <1> QED
    BY <1>1, <1>2, <1>3, <1>4
       DEF Loop, FailsafeTick, WatchTick, ArmingTick, TakeoffDone, NavigateStop, NavigateDone,
           NavigatePass, NavigateFly, PiReturnOverdue, AvoidTick, HoverWait, HoverSkip,
           HoldTick, ManualTick, ReturnDown, RtlTick, LandTick, Tick

LEMMA OperatorRest ==
    ASSUME NavInv, Operator
    PROVE  RestOK'
  <1>0. FlagsOK /\ NamesOK /\ BoundsOK
    BY DEF NavInv, RestOK
  <1>1. CASE Resume \/ AbortDelivery
    <2>1. FlagsOK'
      BY <1>0, <1>1 DEF FlagsOK, Resume, AbortDelivery, Operates, Outside, hold
    <2>2. NamesOK'
      BY <1>0, <1>1 DEF NamesOK, Resume, AbortDelivery, Operates, Outside, hold
    <2>3. BoundsOK'
      BY <1>0, <1>1, Spending DEF Resume, AbortDelivery, Operates
    <2> QED
      BY <2>1, <2>2, <2>3 DEF RestOK
  <1>2. CASE Start \/ SetDeliveryTarget
    <2>1. FlagsOK'
      BY <1>0, <1>2 DEF FlagsOK, Start, SetDeliveryTarget, Orders, Outside, hold
    <2>2. NamesOK'
      BY <1>0, <1>2 DEF NamesOK, Start, SetDeliveryTarget, Orders, Outside, hold
    <2>3. BoundsOK'
      BY <1>0, <1>2, Spending DEF Start, SetDeliveryTarget, Orders
    <2> QED
      BY <2>1, <2>2, <2>3 DEF RestOK
  <1>3. CASE Operates /\ UNCHANGED hold /\ UNCHANGED <<override, startRequested>>
    <2>1. FlagsOK' /\ NamesOK'
      BY <1>0, <1>3 DEF FlagsOK, NamesOK, Operates, Outside, hold
    <2>2. BoundsOK'
      BY <1>0, <1>3, Spending DEF Operates
    <2> QED
      BY <2>1, <2>2 DEF RestOK
  <1> QED
    BY <1>1, <1>2, <1>3
       DEF Operator, Hold, TypedHold, TypedResume, Rtl, Land, EmergencyStop, ClearEmergency,
           TypedDisarm, TypedYaw, TypedMode, TypedTakeoff, MoveTo, MoveHold, LoadMission, Serves

LEMMA ReportsRest ==
    ASSUME NavInv, BleResult \/ EarlyReturn \/ Environment
    PROVE  RestOK'
  <1>0. FlagsOK /\ NamesOK /\ BoundsOK
    BY DEF NavInv, RestOK
  <1>1. CASE BleResult
    <2>1. FlagsOK'
      BY <1>0, <1>1 DEF FlagsOK, BleResult, Outside
    <2>2. NamesOK'
      BY <1>0, <1>1 DEF NamesOK, BleResult, Outside
    <2>3. BoundsOK'
      BY <1>0, <1>1, Spending DEF BleResult
    <2> QED
      BY <2>1, <2>2, <2>3 DEF RestOK
  <1>3. CASE EarlyReturn
    BY <1>0, <1>3, EarlyReturnAlone DEF RestOK, FlagsOK, NamesOK, BoundsOK, Outside, hold
  <1>2. CASE Environment
    <2>1. Untouched
      BY <1>2 DEF Environment, FcAnswer, ModeChanges, Arms, Disarms, GpsFix, Battery, Altitude
    <2>2. mode' \in Modes \cup {"UNKNOWN"}
      <3>1. mode \in Modes \cup {"UNKNOWN"} /\ link.inFlight \in Modes \cup {""}
        BY DEF NavInv, CoreOK, RestOK, NamesOK, Link
      <3>2. CASE FcAnswer
        BY <3>1, <3>2 DEF FcAnswer
      <3>3. CASE ModeChanges
        BY <3>3, ConfigAssumption DEF ModeChanges
      <3>4. CASE Arms \/ Disarms \/ GpsFix \/ Battery \/ Altitude
        BY <3>1, <3>4 DEF Arms, Disarms, GpsFix, Battery, Altitude
      <3> QED
        BY <1>2, <3>2, <3>3, <3>4 DEF Environment
    <2>3. NamesOK'
      BY <1>0, <2>1, <2>2 DEF NamesOK, Untouched
    <2>4. FlagsOK'
      BY <1>0, <1>2, <2>1
         DEF FlagsOK, Untouched, Environment, FcAnswer, ModeChanges, Arms, Disarms, GpsFix,
             Battery, Altitude
    <2>5. BoundsOK'
      BY <1>0, <1>2, <2>1, Spending
         DEF Untouched, Environment, FcAnswer, ModeChanges, Arms, Disarms, GpsFix, Battery,
             Altitude
    <2> QED
      BY <2>3, <2>4, <2>5 DEF RestOK
  <1> QED
    BY <1>1, <1>2, <1>3

-----------------------------------------------------------------------------
(* The theorems.                                                           *)

LEMMA NavInvInit == Init => NavInv
  <1> SUFFICES ASSUME Init PROVE NavInv
    OBVIOUS
  <1>1. CoreOK
    <2>1. link \in Link
      BY DEF Init, Link
    <2>2. ret \in Return
      BY DEF Init, Return
    <2>3. phase = "IDLE" /\ mission = <<>> /\ wp = 0 /\ ble = "idle"
      BY DEF Init
    <2>4. phase \in Phases /\ phase # "RTL" /\ mission \in Seq(WaypointKinds) /\ wp \in Nat
      BY <2>3 DEF Phases
    <2> QED
      BY <2>1, <2>2, <2>3, <2>4 DEF CoreOK, ReturnAsked, BleStates
  <1>2. FlagsOK /\ NamesOK
    BY DEF Init, FlagsOK, NamesOK, Stages
  <1>3. BoundsOK
    <2>1. MaxOrders \in Nat /\ MaxInterventions \in Nat
      BY ConfigAssumption
    <2>2. orders = MaxOrders /\ interventions = MaxInterventions
      BY DEF Init
    <2> QED
      BY <2>1, <2>2 DEF BoundsOK
  <1> QED
    BY <1>1, <1>2, <1>3 DEF NavInv, RestOK

LEMMA StepKeeps ==
    ASSUME NavInv, Next, ~EnterHover
    PROVE  Kept
  <1>1. CASE Loop
    BY <1>1, StartTickKeeps, GroundKeeps, NavigateKeeps, HoverKeeps, ReturnKeeps DEF Loop
  <1>2. CASE TakeOver \/ BleResult \/ EarlyReturn
    BY <1>2, TakeOverKeeps, BleKeeps
  <1>3. CASE Operator
    BY <1>3, ButtonsKeep, ResumeKeeps, FlightKeeps, MissionKeeps DEF Operator
  <1>4. CASE Environment
    BY <1>4, EnvironmentKeeps
  <1> QED
    BY <1>1, <1>2, <1>3, <1>4 DEF Next

LEMMA NavInvStep == NavInv /\ [Next]_vars => NavInv'
  <1> SUFFICES ASSUME NavInv, [Next]_vars
               PROVE  NavInv'
    OBVIOUS
  <1>1. CASE Next
    <2>1. CoreOK'
      BY <1>1, StepKeeps, EnterHoverKeeps DEF Kept
    <2>2. RestOK'
      BY <1>1, LoopRest, OperatorRest, ReportsRest DEF Next
    <2> QED
      BY <2>1, <2>2 DEF NavInv
  <1>2. CASE UNCHANGED vars
    BY <1>2 DEF vars, NavInv, CoreOK, RestOK, FlagsOK, NamesOK, BoundsOK, ReturnAsked
  <1> QED
    BY <1>1, <1>2

LEMMA Invariance == Spec => []NavInv
  BY NavInvInit, NavInvStep, PTL DEF Spec

\* Every call of the navigator, whatever it is interleaved with, leaves the
\* navigator's fields in the ranges its code assumes.
THEOREM Typing == Spec => []TypeOK
  <1>1. NavInv => TypeOK
    BY NavInvTypes
  <1> QED
    BY <1>1, Invariance, PTL

\* Under every plan, router, turn policy and pilot, whatever ticks, services and
\* reports fall between the writes of the handshake's thread, phase RTL is never
\* left with the return neither sent nor about to be (_enter_rtl, _commit_rtl, _do_rtl).
THEOREM ReturnsAreAsked == Spec => []ReturnAsked
  <1>1. NavInv => ReturnAsked
    BY NavInvTypes
  <1> QED
    BY <1>1, Invariance, PTL

-----------------------------------------------------------------------------
(* The hold of a delivery: what NavInv does not say.                       *)

HoldInv ==
    /\ ResultBelongsToHold
    /\ phase = "HOVER" => ~override
    /\ ScanEnabled /\ phase = "HOVER" /\ holding /\ stage = "locked" => "lock" \in episode

\* The ways a step may treat the hold.
Leaves == UNCHANGED hold \/ ~holding' \/ phase' # "HOVER"

\* A step that leaves the hold alone, or ends it, and latches nothing keeps it.
LEMMA LeavingKeeps ==
    ASSUME HoldInv, phase' = "HOVER" => phase = "HOVER",
           Leaves, phase' = "HOVER" => (override' => override)
    PROVE  HoldInv'
  BY DEF HoldInv, ResultBelongsToHold, Leaves, hold

LEMMA HoldInvInit == Init => HoldInv
  BY DEF Init, HoldInv, ResultBelongsToHold

LEMMA LoopHolds ==
    ASSUME HoldInv, Loop \/ TakeOver, phase' = "HOVER" => phase = "HOVER" \/ EnterHover
    PROVE  HoldInv'
  <1>1. CASE EnterHover
    BY <1>1 DEF EnterHover, Tick, Ticking, HoldInv, ResultBelongsToHold
  <1>2. CASE ~EnterHover /\ ScanSearch
    BY <1>2 DEF ScanSearch, Tick, Ticking, HoldInv, ResultBelongsToHold
  <1>3. CASE ~EnterHover /\ ScanLock
    BY <1>3 DEF ScanLock, Tick, Ticking, HoldInv, ResultBelongsToHold
  <1>4. CASE TakeOver
    <2>1. phase' = "MANUAL"
      BY <1>4 DEF TakeOver
    <2> QED
      BY <2>1, LeavingKeeps DEF Leaves
  <1>5. CASE ~EnterHover /\ StartTick
    <2>1. Leaves /\ ~override'
      BY <1>5 DEF StartTick, Leaves, hold
    <2> QED
      BY <1>5, <2>1, LeavingKeeps
  <1>6. CASE ~EnterHover /\ Ticking /\ (UNCHANGED hold \/ ~holding')
    BY <1>6, LeavingKeeps DEF Ticking, Leaves
  <1> QED
    BY <1>1, <1>2, <1>3, <1>4, <1>5, <1>6
       DEF Loop, FailsafeTick, WatchTick, ArmingTick, TakeoffDone, NavigateStop, NavigateDone,
           NavigatePass, NavigateFly, PiReturnOverdue, AvoidTick, HoverWait, HoverSkip,
           HoverDone, HoldTick, ManualTick, ReturnDown, RtlTick, LandTick, Tick

LEMMA OthersHold ==
    ASSUME HoldInv, BleResult \/ EarlyReturn \/ Operator \/ Environment,
           phase' = "HOVER" => phase = "HOVER"
    PROVE  HoldInv'
  <1>1. CASE BleResult
    BY <1>1 DEF BleResult, HoldInv, ResultBelongsToHold
  <1>2. CASE EarlyReturn \/ Environment
    <2>1. UNCHANGED hold /\ UNCHANGED override
      BY <1>2, EarlyReturnAlone DEF Environment, FcAnswer, ModeChanges, Arms, Disarms,
                  GpsFix, Battery, Altitude, Untouched, hold
    <2> QED
      BY <2>1, LeavingKeeps DEF Leaves
  <1>3. CASE Resume
    <2>1. UNCHANGED hold /\ (override' = FALSE \/ UNCHANGED override)
      BY <1>3 DEF Resume
    <2> QED
      BY <2>1, LeavingKeeps DEF Leaves
  <1>4. CASE AbortDelivery \/ SetDeliveryTarget
    <2>1. holding' = FALSE /\ UNCHANGED override
      BY <1>4 DEF AbortDelivery, SetDeliveryTarget
    <2> QED
      BY <2>1, LeavingKeeps DEF Leaves
  <1>5. CASE UNCHANGED hold /\ UNCHANGED override
    BY <1>5, LeavingKeeps DEF Leaves
  <1> QED
    BY <1>1, <1>2, <1>3, <1>4, <1>5
       DEF Operator, Hold, TypedHold, TypedResume, Rtl, Land, EmergencyStop, ClearEmergency,
           TypedDisarm, TypedYaw, TypedMode, TypedTakeoff, MoveTo, MoveHold, Start, LoadMission,
           Serves

LEMMA HoldInvariance == Spec => []HoldInv
  <1>1. NavInv /\ HoldInv /\ [Next]_vars => HoldInv'
    <2> SUFFICES ASSUME NavInv, HoldInv, [Next]_vars
                 PROVE  HoldInv'
      OBVIOUS
    <2>1. CASE UNCHANGED vars
      BY <2>1 DEF vars, HoldInv, ResultBelongsToHold
    <2>2. CASE Next
      <3>1. phase' = "HOVER" => phase = "HOVER" \/ EnterHover
        BY <2>2, StepKeeps DEF Kept
      <3>2. CASE Loop \/ TakeOver
        BY <3>1, <3>2, LoopHolds
      <3>3. CASE EnterHover
        BY <3>3, LoopHolds DEF Loop
      <3>4. CASE ~EnterHover /\ (BleResult \/ EarlyReturn \/ Operator \/ Environment)
        BY <3>1, <3>4, OthersHold
      <3> QED
        BY <2>2, <3>2, <3>3, <3>4 DEF Next
    <2> QED
      BY <2>1, <2>2
  <1> QED
    BY <1>1, HoldInvInit, Invariance, PTL DEF Spec

\* A handshake result cannot cut short any hold but the one it was reported in,
\* whatever takeovers, aborts and new plans lie between (_on_ble_delivery_result).
THEOREM ResultsBelong == Spec => []ResultBelongsToHold
  <1>1. HoldInv => ResultBelongsToHold
    BY DEF HoldInv
  <1> QED
    BY <1>1, HoldInvariance, PTL

\* In flight the handshake is open only in a hold in which a person was locked,
\* and never under the pilot's override (_handshake_open).
THEOREM HandshakeGated == Spec => []HandshakeGate
  <1>1. HoldInv => HandshakeGate
    BY DEF HoldInv, HandshakeGate, HandshakeOpen
  <1> QED
    BY <1>1, HoldInvariance, PTL
\* While the override stands, no tick of the loop and no report commands the FC or
\* changes phase, plan or return: every path of step looks at the override first.
THEOREM StandsDownUnderOverride == Spec => LoopStandsDown
  <1>1. ASSUME NavInv, [Next]_vars, override, override', ~Operator, ~EarlyReturn
        PROVE  NoRequest /\ UNCHANGED <<phase, mission, wp, ret>>
    <2>1. CASE UNCHANGED vars
      BY <2>1 DEF vars, NoRequest
    <2>2. CASE Loop \/ TakeOver
      <3>1. ~Ticking /\ ~StartTick /\ ~TakeOver
        BY <1>1 DEF Ticking, StartTick, TakeOver
      <3> QED
        BY <2>2, <3>1
           DEF Loop, FailsafeTick, WatchTick, ArmingTick, TakeoffDone, NavigateStop,
               NavigateDone, NavigatePass, EnterHover, NavigateFly, PiReturnOverdue, AvoidTick,
               HoverWait, HoverSkip, HoverDone, ScanSearch, ScanLock, HoldTick, ManualTick,
               ReturnDown, RtlTick, LandTick, Tick
    <2>3. CASE BleResult
      BY <2>3 DEF BleResult, NoRequest
    <2>4. CASE Environment
      <3>1. Untouched /\ (UNCHANGED link \/ FcAnswer \/ Disarms)
        BY <2>4 DEF Environment, FcAnswer, ModeChanges, Arms, Disarms, GpsFix, Battery, Altitude
      <3>2. link \in Link
        BY <1>1 DEF NavInv, CoreOK
      <3>3. NoRequest
        BY <3>1, <3>2 DEF NoRequest, FcAnswer, Disarms, Link
      <3> QED
        BY <3>1, <3>3 DEF Untouched
    <2> QED
      BY <1>1, <2>1, <2>2, <2>3, <2>4 DEF Next
  <1> QED
    BY <1>1, Invariance, PTL DEF Spec, LoopStandsDown
-----------------------------------------------------------------------------
(* Where a step takes the mission: phase, plan and place in the plan.      *)

\* A context at place w of plan m, or on the last leg home the Pi flies itself.
Placed(c, p, m, w) == c \in Context /\ c.phase = p /\ c.mission = m /\ c.wp = w
Homing(c, m) ==
    c \in Context /\ c.phase = "NAVIGATE" /\ c.mission = Append(m, "home") /\ c.ret.piFlown

LEMMA PlacedCommands ==
    ASSUME ModeOK, NEW c, NEW p, NEW m, NEW w, Placed(c, p, m, w), NEW k \in Modes
    PROVE  /\ Placed(Note(c, k), p, m, w) /\ Placed(Ask(c, k), p, m, w)
           /\ Placed(Motion(c), p, m, w) /\ Placed(Goto(c), p, m, w)
           /\ Placed(TakeOff(c), p, m, w) /\ Placed(LeaveBrake(c), p, m, w)
           /\ Placed(Observed(c), p, m, w)
<1>1. c \in Context
  BY DEF Placed
<1>2. /\ Commanded(c, Note(c, k)) /\ Commanded(c, Ask(c, k)) /\ Commanded(c, Motion(c))
      /\ Commanded(c, Goto(c)) /\ Commanded(c, TakeOff(c)) /\ Commanded(c, LeaveBrake(c))
      /\ Commanded(c, Observed(c))
  BY <1>1, NoteCommands, AskCommands, MotionCommands, ObservedCommands
<1> QED BY <1>2 DEF Placed, Commanded

LEMMA PlacedFields ==
    ASSUME NEW c, NEW p, NEW m, NEW w, Placed(c, p, m, w)
    PROVE  /\ \A q \in Phases : Placed([c EXCEPT !.phase = q], q, m, w)
           /\ \A v \in Nat : Placed([c EXCEPT !.wp = v], p, m, v)
           /\ \A n \in Seq(WaypointKinds) : Placed([c EXCEPT !.mission = n], p, n, w)
           /\ \A r \in Return : Placed([c EXCEPT !.ret = r], p, m, w)
           /\ Placed([c EXCEPT !.link.mismatch = FALSE], p, m, w)
  BY DEF Placed, Context, Link

LEMMA PlacedBecomes ==
    ASSUME NEW c, NEW p, NEW m, NEW w, Placed(c, p, m, w), Becomes(c)
    PROVE  phase' = p /\ mission' = m /\ wp' = w
  BY DEF Placed, Becomes, Assigns

\* What a tick and a service start from.
LEMMA PlacedStart ==
    ASSUME NavInv
    PROVE  /\ ModeOK
           /\ \A nose \in Noses : /\ Placed(Call(nose), phase, mission, wp)
                                  /\ Placed(Seen(nose), phase, mission, wp)
                                  /\ Seen(nose).ret = ret /\ Seen(nose).nose = nose
           /\ Placed(Here, phase, mission, wp)
           /\ Placed(Look, phase, mission, wp)
<1>1. TypeOK /\ ModeOK
  BY NavInvTypes DEF TypeOK, ModeOK
<1>2. \A n \in Noses : Placed(Call(n), phase, mission, wp) /\ Call(n).nose = n
  BY <1>1, CallIsContext DEF Placed, Call
<1>3. \A n \in Noses : Placed(Seen(n), phase, mission, wp)
  BY <1>1, <1>2, NamedModes, PlacedCommands DEF Seen
<1>4. \A n \in Noses : Seen(n).ret = ret /\ Seen(n).nose = n
  BY <1>1, <1>2, CallIsContext, ObservedCommands DEF Seen, Commanded
<1> QED BY <1>1, <1>2, <1>3, <1>4 DEF Here, Look, Noses

LEMMA PlacedLand ==
    ASSUME ModeOK, NEW c, NEW p, NEW m, NEW w, Placed(c, p, m, w)
    PROVE  Placed(EnterLand(c), "LAND", m, w)
<1>1. Placed([c EXCEPT !.phase = "LAND"], "LAND", m, w)
  BY PlacedFields DEF Phases
<1> QED BY <1>1, NamedModes, PlacedCommands DEF EnterLand

\* A committed return stays where it is, or becomes the leg the Pi flies.
LEMMA PlacedCommit ==
    ASSUME ModeOK, NEW c, NEW p, NEW m, NEW w, Placed(c, p, m, w)
    PROVE  /\ Placed(CommitRtl(c), p, m, w) \/ Homing(CommitRtl(c), m)
           /\ ~c.ret.job \/ c.ret.piFlown => Placed(CommitRtl(c), p, m, w)
<1>0. c \in Context /\ CommitRtl(c) \in Context
  BY CommitRtlHandsOver DEF Placed
<1>1. CASE PiReturnWanted(c)
  <2> DEFINE d == [LegHome(PiTakes(c)) EXCEPT !.phase = "NAVIGATE"]
  <2>1. /\ d \in Context /\ d.phase = "NAVIGATE" /\ d.mission = Append(c.mission, "home")
        /\ d.ret.piFlown
    BY <1>0, LegHomeFlown
  <2>2. Commanded(d, LeaveBrake(d))
    BY <2>1, MotionCommands
  <2>3. Homing(LeaveBrake(d), m)
    BY <2>1, <2>2 DEF Homing, Commanded, Placed
  <2> QED BY <1>1, <2>3 DEF CommitRtl, PiReturnWanted
<1>2. CASE ~PiReturnWanted(c)
  <2> DEFINE d == Requested(Cleared(c))
  <2>1. Placed(d, p, m, w)
    BY <1>0, PartsOfTheReturn DEF Placed
  <2>2. Placed(Ask(d, ReturnMode), p, m, w)
    BY <2>1, NamedModes, PlacedCommands
  <2> QED BY <1>2, <2>2 DEF CommitRtl
<1> QED BY <1>1, <1>2

\* A return the Pi has flown once is not flown by it again.
LEMMA CommitKeepsPi ==
    ASSUME ModeOK, NEW c \in Context, c.ret.piFlown
    PROVE  CommitRtl(c).ret.piFlown
<1> DEFINE d == Requested(Cleared(c))
<1>1. d \in Context /\ d.ret.piFlown
  BY PartsOfTheReturn
<1>2. Commanded(d, Ask(d, ReturnMode))
  BY <1>1, NamedModes, AskCommands
<1> QED BY <1>1, <1>2 DEF CommitRtl, PiReturnWanted, Commanded

LEMMA PlacedTurns ==
    ASSUME NEW c, NEW p, NEW m, NEW w, Placed(c, p, m, w)
    PROVE  Placed(StartAboutFace(c), p, m, w) /\ Placed(StartTurn(c), p, m, w)
  BY DEF Placed, Context, Return, StartAboutFace, StartTurn

LEMMA PlacedHandOver ==
    ASSUME ModeOK, NEW c, NEW p, NEW m, NEW w, Placed(c, p, m, w), NEW first \in BOOLEAN
    PROVE  /\ Placed(HandOver(c, first), p, m, w) \/ Homing(HandOver(c, first), m)
           /\ ~c.ret.job => Placed(HandOver(c, first), p, m, w)
  BY PlacedCommit, PlacedTurns DEF HandOver

\* A return that needs no turn is flown by the FC.
LEMMA PlacedReturn ==
    ASSUME ModeOK, NEW c, NEW p, NEW m, NEW w, Placed(c, p, m, w)
    PROVE  /\ Placed(EnterRtl(c, FALSE), "RTL", m, w)
           /\ Placed(EnterRtl(c, TRUE), "RTL", m, w) \/ Homing(EnterRtl(c, TRUE), m)
<1>1. ASSUME NEW first \in BOOLEAN
      PROVE  LET d == [c EXCEPT !.ret.job = first, !.ret.asked = FALSE, !.phase = "RTL"]
             IN  Placed(d, "RTL", m, w) /\ d.ret.job = first
  BY DEF Placed, Context, Return, Phases
<1> QED BY <1>1, PlacedHandOver DEF EnterRtl

-----------------------------------------------------------------------------
(* The diagram of the phases: what one tick of the loop may do to phase,   *)
(* plan and place, other than consuming a start.                           *)

Stays == UNCHANGED <<mission, wp>>
Goes(from, to) == phase \in from /\ phase' \in to /\ Stays
\* The Pi's own leg home.
GoesHome == phase' = "NAVIGATE" /\ mission' = Append(mission, "home")

\* What a failsafe does to a mission in phase p.
FailsafeMove(p) ==
    \/ /\ phase' = "LAND" /\ critical
       /\ \/ armed /\ p \notin {"LAND", "EMERGENCY"}
          \/ p \notin Exempt
    \/ phase' = "HOLD" /\ armed /\ tooHigh
    \/ phase' = "RTL" /\ p \notin Exempt

Diagram ==
    \/ UNCHANGED phase /\ Stays
    \/ FailsafeMove(phase) /\ Stays
    \/ Goes({"ARMING"}, {IF armed THEN "TAKEOFF" ELSE "IDLE"})
    \/ Goes({"TAKEOFF", "AVOID"}, {"NAVIGATE"})
    \/ Goes({"NAVIGATE"}, {"AVOID", "RTL"})
    \/ Goes({"NAVIGATE"}, {"HOVER"}) /\ mission # <<>>
    \/ /\ phase = "NAVIGATE" /\ mission[wp + 1] # "drop"
       /\ UNCHANGED <<phase, mission>>
    \/ phase = "HOVER" /\ phase' \in {"NAVIGATE", "RTL"} /\ UNCHANGED mission
    \/ GoesHome /\ phase \in {"NAVIGATE", "HOVER", "RTL"} /\ (phase = "RTL" => armed)
    \/ Goes({"RTL"}, {"LAND"}) /\ armed /\ ret.requested /\ ~ret.about /\ ~ret.turn
    \/ Goes({"RTL"}, {"COMPLETE"}) /\ ~armed
    \/ Goes({"LAND"}, {"DISARMED"}) /\ ~armed

LEMMA HomingBecomes ==
    ASSUME NEW c, Homing(c, mission), Becomes(c)
    PROVE  GoesHome
  BY DEF Homing, Becomes, Assigns, GoesHome

LEMMA FailsafeMoves ==
    ASSUME ModeOK, NEW c, NEW p, NEW m, NEW w, Placed(c, p, m, w), Failsafe(c)
    PROVE  mission' = m /\ wp' = w /\ FailsafeMove(p)
<1>0. c.phase = p
  BY DEF Placed
<1>1. CASE LandNow(c.phase) /\ Becomes(EnterLand(c))
  BY <1>0, <1>1, PlacedLand, PlacedBecomes DEF LandNow, FailsafeMove
<1>2. CASE BrakeNow(c.phase) /\ Becomes(Ask([c EXCEPT !.phase = "HOLD"], "BRAKE"))
  <2>1. Placed([c EXCEPT !.phase = "HOLD"], "HOLD", m, w)
    BY PlacedFields DEF Phases
  <2>2. Placed(Ask([c EXCEPT !.phase = "HOLD"], "BRAKE"), "HOLD", m, w)
    BY <2>1, NamedModes, PlacedCommands
  <2> QED BY <1>2, <2>2, PlacedBecomes DEF BrakeNow, FailsafeMove
<1>3. CASE c.phase \notin Exempt /\ Becomes(EnterRtl(c, FALSE))
  BY <1>0, <1>3, PlacedReturn, PlacedBecomes DEF FailsafeMove
<1> QED BY <1>1, <1>2, <1>3 DEF Failsafe, FailsafeMove

LEMMA ArmingMoves ==
    ASSUME ModeOK, NEW c, NEW p, NEW m, NEW w, Placed(c, p, m, w), Arming(c)
    PROVE  /\ mission' = m /\ wp' = w
           /\ phase' = p \/ phase' = IF armed THEN "TAKEOFF" ELSE "IDLE"
<1>1. \A q \in {"TAKEOFF", "IDLE"} : Placed([c EXCEPT !.phase = q], q, m, w)
  BY DEF Placed, Context, Phases
<1>2. CASE Becomes(c) \/ Becomes(Ask(c, "GUIDED"))
  BY <1>2, NamedModes, PlacedCommands, PlacedBecomes
<1>3. CASE armed /\ Becomes(TakeOff([c EXCEPT !.phase = "TAKEOFF"]))
  <2>1. Placed(TakeOff([c EXCEPT !.phase = "TAKEOFF"]), "TAKEOFF", m, w)
    BY <1>1, NamedModes, PlacedCommands
  <2> QED BY <1>3, <2>1, PlacedBecomes
<1>4. CASE ~armed /\ Becomes([c EXCEPT !.phase = "IDLE"])
  BY <1>1, <1>4, PlacedBecomes
<1> QED BY <1>2, <1>3, <1>4 DEF Arming

LEMMA GroundMoves ==
    ASSUME NavInv,
           FailsafeTick \/ WatchTick \/ ArmingTick \/ TakeoffDone \/ HoldTick \/ ManualTick
             \/ LandTick
    PROVE  Diagram
<1>1. ModeOK /\ Placed(Look, phase, mission, wp)
  BY PlacedStart
<1>2. \A q \in {"NAVIGATE", "DISARMED"} : Placed([Look EXCEPT !.phase = q], q, mission, wp)
  BY <1>1 DEF Placed, Context, Phases
<1>3. \A k \in {"BRAKE", "LAND"} : Placed(Ask(Look, k), phase, mission, wp)
  BY <1>1, NamedModes, PlacedCommands
<1>4. CASE FailsafeTick
  <2>1. Failsafe(Look)
    BY <1>4 DEF FailsafeTick
  <2> QED BY <1>1, <2>1, FailsafeMoves DEF Diagram, Stays
<1>5. CASE WatchTick
  BY <1>1, <1>5, PlacedBecomes DEF WatchTick, Diagram, Stays
<1>6. CASE ArmingTick
  <2>1. Arming(Look) /\ phase = "ARMING"
    BY <1>6 DEF ArmingTick, Tick
  <2> QED BY <1>1, <2>1, ArmingMoves DEF Diagram, Goes, Stays
<1>7. CASE TakeoffDone
  BY <1>2, <1>7, PlacedBecomes DEF TakeoffDone, Tick, Diagram, Goes, Stays
<1>8. CASE HoldTick
  BY <1>3, <1>8, PlacedBecomes DEF HoldTick, Diagram, Stays
<1>9. CASE ManualTick
  BY <1>1, <1>3, <1>9, PlacedBecomes DEF ManualTick, Diagram, Stays
<1>10. CASE LandTick
  BY <1>1, <1>2, <1>3, <1>10, PlacedBecomes DEF LandTick, Tick, Diagram, Goes, Stays
<1> QED BY <1>4, <1>5, <1>6, <1>7, <1>8, <1>9, <1>10

LEMMA NavigateMoves ==
    ASSUME NavInv,
           NavigateStop \/ NavigateDone \/ NavigatePass \/ EnterHover \/ NavigateFly
             \/ PiReturnOverdue \/ AvoidTick
    PROVE  Diagram
<1>1. /\ ModeOK /\ Placed(Look, phase, mission, wp)
      /\ \A nose \in Noses : Placed(Seen(nose), phase, mission, wp)
  BY PlacedStart
<1>2. \A q \in {"AVOID", "NAVIGATE", "HOVER"} : Placed([Look EXCEPT !.phase = q], q, mission, wp)
  BY <1>1 DEF Placed, Context, Phases
<1>3. /\ Placed(Ask(Look, "BRAKE"), phase, mission, wp) /\ Placed(Motion(Look), phase, mission, wp)
      /\ Placed(LeaveBrake(Look), phase, mission, wp)
  BY <1>1, NamedModes, PlacedCommands
<1>4. CASE NavigateStop
  <2>1. Placed(Ask([Look EXCEPT !.phase = "AVOID"], "BRAKE"), "AVOID", mission, wp)
    BY <1>1, <1>2, NamedModes, PlacedCommands
  <2> QED BY <1>4, <2>1, PlacedBecomes DEF NavigateStop, Tick, Diagram, Goes, Stays
<1>5. CASE NavigateDone
  <2>1. PICK nose \in Noses : Becomes(EnterRtl(Seen(nose), TRUE))
    BY <1>5 DEF NavigateDone
  <2>2. phase = "NAVIGATE"
    BY <1>5 DEF NavigateDone, Tick
  <2>3. \/ Placed(EnterRtl(Seen(nose), TRUE), "RTL", mission, wp)
        \/ Homing(EnterRtl(Seen(nose), TRUE), mission)
    BY <1>1, PlacedReturn
  <2> QED BY <2>1, <2>2, <2>3, PlacedBecomes, HomingBecomes DEF Diagram, Goes, Stays
<1>6. CASE NavigatePass
  <2>1. Look.wp = wp /\ wp + 1 \in Nat
    BY <1>1 DEF Placed, Context
  <2>2. Placed([Look EXCEPT !.wp = @ + 1], phase, mission, wp + 1)
    BY <1>1, <2>1, PlacedFields
  <2> QED BY <1>6, <2>2, PlacedBecomes DEF NavigatePass, Tick, Diagram
<1>7. CASE EnterHover
  <2>1. Placed(Goto([Look EXCEPT !.phase = "HOVER"]), "HOVER", mission, wp)
    BY <1>1, <1>2, NamedModes, PlacedCommands
  <2>2. mission # <<>>
    BY <1>7, <1>1 DEF EnterHover, Placed, Context
  <2> QED BY <1>7, <2>1, <2>2, PlacedBecomes DEF EnterHover, Tick, Diagram, Goes, Stays
<1>8. CASE NavigateFly
  BY <1>1, <1>3, <1>8, PlacedBecomes DEF NavigateFly, Diagram, Stays
<1>9. CASE PiReturnOverdue
  <2> DEFINE d == [Look EXCEPT !.ret.piSince = FALSE, !.ret.job = FALSE,
                               !.ret.asked = FALSE, !.phase = "RTL"]
  <2>1. Placed(d, "RTL", mission, wp) /\ ~d.ret.job
    BY <1>1 DEF Placed, Context, Return, Phases
  <2>2. Placed(CommitRtl(d), "RTL", mission, wp)
    BY <1>1, <2>1, PlacedCommit
  <2> QED BY <1>9, <2>2, PlacedBecomes DEF PiReturnOverdue, Tick, Diagram, Goes, Stays
<1>10. CASE AvoidTick
  BY <1>2, <1>3, <1>10, PlacedBecomes DEF AvoidTick, Tick, Diagram, Goes, Stays
<1> QED BY <1>4, <1>5, <1>6, <1>7, <1>8, <1>9, <1>10

LEMMA PlacedNudges ==
    ASSUME ModeOK, NEW c, NEW p, NEW m, NEW w, Placed(c, p, m, w), NEW d \in Nudges(c)
    PROVE  Placed(d, p, m, w)
<1>1. Placed(Motion(c), p, m, w) /\ Placed(Ask(c, "BRAKE"), p, m, w) /\ Placed(Ask(c, "GUIDED"), p, m, w)
  BY NamedModes, PlacedCommands
<1>2. Placed(Motion(Ask(c, "GUIDED")), p, m, w)
  BY <1>1, NamedModes, PlacedCommands
<1> QED BY <1>1, <1>2 DEF Nudges

\* The end of a hold leaves it, for the next leg or for home.
LEMMA HoverDoneMoves ==
    ASSUME NavInv, HoverDone
    PROVE  (phase' \in {"NAVIGATE", "RTL"} /\ UNCHANGED mission) \/ GoesHome
<1> DEFINE next(d) == [d EXCEPT !.wp = @ + 1]
           done(d) == IF Active(next(d)) THEN [next(d) EXCEPT !.phase = "NAVIGATE"]
                      ELSE EnterRtl(next(d), TRUE)
<1>0. ModeOK /\ wp + 1 \in Nat /\ \A nose \in Noses : Placed(Seen(nose), phase, mission, wp)
  BY PlacedStart DEF NavInv, CoreOK
<1>1. PICK nose \in Noses : \E d \in Nudges(Seen(nose)) : Becomes(done(d))
  BY DEF HoverDone
<1>2. PICK d \in Nudges(Seen(nose)) : Becomes(done(d))
  BY <1>1
<1>3. Placed(d, phase, mission, wp)
  BY <1>0, PlacedNudges
<1>4. Placed(next(d), phase, mission, wp + 1)
  BY <1>0, <1>3 DEF Placed, Context
<1>5. Placed([next(d) EXCEPT !.phase = "NAVIGATE"], "NAVIGATE", mission, wp + 1)
  BY <1>4, PlacedFields DEF Phases
<1>6. \/ Placed(EnterRtl(next(d), TRUE), "RTL", mission, wp + 1)
      \/ Homing(EnterRtl(next(d), TRUE), mission)
  BY <1>0, <1>4, PlacedReturn
<1> QED BY <1>2, <1>5, <1>6, PlacedBecomes, HomingBecomes

LEMMA HoverMoves ==
    ASSUME NavInv, HoverWait \/ HoverSkip \/ HoverDone \/ ScanSearch \/ ScanLock
    PROVE  Diagram
<1>0. phase = "HOVER"
  BY DEF HoverWait, HoverSkip, HoverDone, ScanSearch, ScanLock, Tick
<1>1. /\ ModeOK /\ Placed(Look, phase, mission, wp) /\ wp \in Nat /\ wp + 1 \in Nat
      /\ \A nose \in Noses : Placed(Seen(nose), phase, mission, wp)
  BY PlacedStart DEF NavInv, CoreOK
<1>2. \A d \in Nudges(Look) : Placed(d, phase, mission, wp)
  BY <1>1, PlacedNudges
<1>3. CASE HoverWait \/ ScanLock
  BY <1>1, <1>2, <1>3, PlacedBecomes DEF HoverWait, ScanLock, Diagram, Stays
<1>4. CASE ScanSearch
  <2>1. \A d \in Nudges(Look) : Placed(Goto(d), phase, mission, wp)
    BY <1>1, <1>2, NamedModes, PlacedCommands
  <2> QED BY <1>4, <2>1, PlacedBecomes DEF ScanSearch, Diagram, Stays
<1>5. CASE HoverSkip
  <2>1. Placed([Look EXCEPT !.phase = "NAVIGATE"], "NAVIGATE", mission, wp)
    BY <1>1, PlacedFields DEF Phases
  <2>2. Placed([Look EXCEPT !.phase = "NAVIGATE", !.wp = @ + 1], "NAVIGATE", mission, wp + 1)
    BY <1>1, <2>1 DEF Placed, Context
  <2> QED BY <1>0, <1>5, <2>2, PlacedBecomes DEF HoverSkip, Diagram
<1>6. CASE HoverDone
  BY <1>0, <1>6, HoverDoneMoves DEF Diagram, GoesHome
<1> QED BY <1>3, <1>4, <1>5, <1>6

\* The last part of _do_rtl: a landing needs the FC to have had the return before
\* this tick.
LEMMA ReturningMoves ==
    ASSUME ModeOK, NEW c, NEW p, NEW m, NEW w, Placed(c, p, m, w), NEW fresh \in BOOLEAN,
           Returning(c, fresh)
    PROVE  /\ mission' = m /\ wp' = w
           /\ \/ phase' = p
              \/ phase' = "LAND" /\ c.ret.requested /\ ~fresh
<1>0. c.ret \in Return /\ \A x \in BOOLEAN : /\ [c.ret EXCEPT !.braking = x] \in Return
                                              /\ [c.ret EXCEPT !.fellBack = x] \in Return
  BY DEF Placed, Context, Return
<1>1. /\ Placed([c EXCEPT !.ret.fellBack = TRUE], p, m, w)
      /\ \A x \in BOOLEAN : Placed([c EXCEPT !.ret.braking = x], p, m, w)
  BY <1>0, PlacedFields
<1>2. /\ Placed(Ask([c EXCEPT !.ret.fellBack = TRUE], "RTL"), p, m, w)
      /\ Placed(Ask([c EXCEPT !.ret.braking = TRUE], "BRAKE"), p, m, w)
      /\ Placed(Ask([c EXCEPT !.ret.braking = FALSE], ReturnMode), p, m, w)
  BY <1>1, NamedModes, PlacedCommands
<1>3. Placed(BrakeRelease(c), p, m, w)
  BY <1>2 DEF BrakeRelease
<1>4. Placed(EnterLand(BrakeRelease(c)), "LAND", m, w)
  BY <1>3, PlacedLand
<1> QED BY <1>2, <1>3, <1>4, PlacedBecomes DEF Returning

LEMMA ReturnMoves ==
    ASSUME NavInv, ReturnDown \/ RtlTick
    PROVE  Diagram
<1>0. phase = "RTL"
  BY DEF ReturnDown, RtlTick, Tick
<1>1. /\ ModeOK /\ Placed(Look, phase, mission, wp)
      /\ \A nose \in Noses : Placed(Seen(nose), phase, mission, wp) /\ Seen(nose).ret = ret
  BY PlacedStart
<1>2. CASE ReturnDown
  <2> DEFINE d == [Look EXCEPT !.phase = "COMPLETE", !.ret.requested = FALSE,
                               !.ret.turn = FALSE, !.ret.about = FALSE]
  <2>1. Placed(d, "COMPLETE", mission, wp)
    BY <1>1 DEF Placed, Context, Return, Phases
  <2> QED BY <1>0, <1>2, <2>1, PlacedBecomes DEF ReturnDown, Diagram, Goes, Stays
<1>3. CASE RtlTick
  <2>1. armed
    BY <1>3 DEF RtlTick
  <2>2. PICK nose \in Noses :
          LET c == Seen(nose)
              faced == [c EXCEPT !.ret.about = FALSE]
          IN  \/ ~ret.about /\ Turning(c, FALSE)
              \/ Becomes(c)
              \/ Becomes(StartTurn(faced))
              \/ Turning(CommitRtl(faced), TRUE)
    BY <1>3 DEF RtlTick
  <2> DEFINE c == Seen(nose)
             faced == [c EXCEPT !.ret.about = FALSE]
  <2>3. Placed(c, "RTL", mission, wp) /\ c.ret = ret
    BY <1>0, <1>1
  <2>4. Placed(faced, "RTL", mission, wp)
    BY <2>3 DEF Placed, Context, Return
  <2>5. ASSUME NEW d, Placed(d, "RTL", mission, wp)
        PROVE  Placed(CommitRtl(d), "RTL", mission, wp) \/ Homing(CommitRtl(d), mission)
    BY <1>1, <2>5, PlacedCommit
  \* A return committed on this tick, and what may follow it on the same one.
  <2>6. ASSUME NEW d, Placed(d, "RTL", mission, wp) \/ Homing(d, mission),
               Becomes(d) \/ Returning(d, TRUE)
        PROVE  Diagram
    <3>1. CASE Placed(d, "RTL", mission, wp)
      BY <1>0, <1>1, <2>6, <3>1, PlacedBecomes, ReturningMoves DEF Diagram, Stays
    <3>2. CASE Homing(d, mission)
      <4>1. Placed(d, "NAVIGATE", Append(mission, "home"), d.wp)
        BY <3>2 DEF Homing, Placed
      <4>2. phase' = "NAVIGATE" /\ mission' = Append(mission, "home")
        BY <1>1, <2>6, <4>1, PlacedBecomes, ReturningMoves
      <4> QED BY <1>0, <2>1, <4>2 DEF Diagram, GoesHome
    <3> QED BY <2>6, <3>1, <3>2
  <2>7. ASSUME NEW d, Homing(d, mission)
        PROVE  Homing(CommitRtl(d), mission)
    <3>1. Placed(d, "NAVIGATE", Append(mission, "home"), d.wp) /\ d.ret.piFlown
      BY <2>7 DEF Homing, Placed
    <3>2. Placed(CommitRtl(d), "NAVIGATE", Append(mission, "home"), d.wp)
      BY <1>1, <3>1, PlacedCommit
    <3>3. CommitRtl(d).ret.piFlown
      BY <3>1, <1>1, CommitKeepsPi DEF Placed
    <3> QED BY <3>2, <3>3 DEF Homing, Placed
  <2>8. CASE ~ret.about /\ Turning(c, FALSE)
    <3>1. CASE ~c.ret.turn /\ Returning(c, FALSE)
      BY <1>0, <1>1, <2>1, <2>3, <2>8, <3>1, ReturningMoves DEF Diagram, Goes, Stays
    <3>2. CASE Becomes(c)
      BY <2>3, <2>6, <3>2
    <3>3. CASE Returning(CommitRtl(c), TRUE)
      BY <2>3, <2>5, <2>6, <3>3
    <3> QED BY <2>8, <3>1, <3>2, <3>3 DEF Turning
  <2>9. CASE Becomes(c) \/ Becomes(StartTurn(faced))
    BY <2>3, <2>4, <2>6, <2>9, PlacedTurns
  <2>10. CASE Turning(CommitRtl(faced), TRUE)
    <3> DEFINE d == CommitRtl(faced)
    <3>1. Placed(d, "RTL", mission, wp) \/ Homing(d, mission)
      BY <2>4, <2>5
    <3>2. Placed(CommitRtl(d), "RTL", mission, wp) \/ Homing(CommitRtl(d), mission)
      BY <3>1, <2>5, <2>7
    <3>3. Becomes(d) \/ Returning(d, TRUE) \/ Returning(CommitRtl(d), TRUE)
      BY <2>10 DEF Turning
    <3> HIDE DEF d
    <3> QED BY <3>1, <3>2, <3>3, <2>6
  <2> QED BY <2>2, <2>8, <2>9, <2>10
<1> QED BY <1>2, <1>3
-----------------------------------------------------------------------------
(* The same for the other steps: a start, the services, the threads.       *)

\* Every tick but the one that consumes a start follows the diagram.
LEMMA LoopMoves ==
    ASSUME NavInv, Loop, ~StartTick
    PROVE  Ticking /\ Diagram
<1>1. Ticking
  BY DEF Loop, FailsafeTick, WatchTick, ArmingTick, TakeoffDone, NavigateStop, NavigateDone,
         NavigatePass, EnterHover, NavigateFly, PiReturnOverdue, AvoidTick, HoverWait,
         HoverSkip, HoverDone, ScanSearch, ScanLock, HoldTick, ManualTick, ReturnDown,
         RtlTick, LandTick, Tick
<1> QED BY <1>1, GroundMoves, NavigateMoves, HoverMoves, ReturnMoves DEF Loop

\* The phase a start leaves, before that tick's failsafes.
StartPhase == IF mission = <<>> THEN phase ELSE "ARMING"
StartMoves ==
    /\ StartDue /\ ~startRequested' /\ ~override'
    /\ UNCHANGED <<mission, armed>>
    /\ wp' = IF mission = <<>> THEN wp ELSE 0
    /\ \/ FailsafeMove(StartPhase)
       \/ phase' = StartPhase
       \/ mission # <<>> /\ phase' = IF armed THEN "TAKEOFF" ELSE "IDLE"

LEMMA StartTickMoves ==
    ASSUME NavInv, StartTick
    PROVE  StartMoves
<1> DEFINE cleared == [Here EXCEPT !.link.mismatch = FALSE]
           started == IF mission = <<>> THEN cleared
                      ELSE [cleared EXCEPT !.phase = "ARMING", !.wp = 0]
           w == IF mission = <<>> THEN wp ELSE 0
           c == Observed(started)
<1>1. ModeOK /\ Placed(Here, phase, mission, wp)
  BY PlacedStart
<1>2. Placed(cleared, phase, mission, wp)
  BY <1>1, PlacedFields
<1>3. Placed([cleared EXCEPT !.phase = "ARMING", !.wp = 0], "ARMING", mission, 0)
  BY <1>2 DEF Placed, Context, Phases
<1>4. Placed(started, StartPhase, mission, w)
  BY <1>2, <1>3 DEF StartPhase
<1>5. Placed(c, StartPhase, mission, w)
  BY <1>1, <1>4, NamedModes, PlacedCommands
<1>6. \/ Failsafe(c)
      \/ c.phase = "ARMING" /\ Arming(c)
      \/ c.phase # "ARMING" /\ Becomes(c)
  BY DEF StartTick
<1>7. c.phase = StartPhase /\ (StartPhase = "ARMING" => mission # <<>>)
  BY <1>5 DEF Placed, StartPhase, StartTick, StartDue, Grounded
<1>8. /\ mission' = mission /\ wp' = w
      /\ \/ FailsafeMove(StartPhase)
         \/ phase' = StartPhase
         \/ mission # <<>> /\ phase' = IF armed THEN "TAKEOFF" ELSE "IDLE"
  <2> HIDE DEF c, w
  <2>1. CASE Failsafe(c)
    BY <1>1, <1>5, <2>1, FailsafeMoves
  <2>2. CASE c.phase = "ARMING" /\ Arming(c)
    BY <1>1, <1>5, <1>7, <2>2, ArmingMoves
  <2>3. CASE c.phase # "ARMING" /\ Becomes(c)
    BY <1>5, <2>3, PlacedBecomes
  <2> QED BY <1>6, <2>1, <2>2, <2>3
<1> QED BY <1>8 DEF StartMoves, StartTick, Outside

\* The services: a press, a resume, and those the delivery node calls.
Pressed ==
    /\ phase' \in {phase, "HOLD", "NAVIGATE", "MANUAL", "RTL", "LAND", "EMERGENCY", "DISARMED"}
    /\ Stays /\ UNCHANGED <<override, startRequested, armed>>
Resumed ==
    /\ override /\ ~override' /\ phase' \in {"NAVIGATE", "IDLE"}
    /\ Stays /\ UNCHANGED <<startRequested, armed>>
Started ==
    /\ ~override /\ mission # <<>> /\ startRequested'
    /\ Stays /\ UNCHANGED <<phase, override, armed>>
Aborted ==
    /\ phase' = (IF armed THEN "RTL" ELSE "IDLE")
    /\ mission' = <<>> /\ wp' = 0 /\ UNCHANGED <<override, startRequested, armed>>
Replanned ==
    /\ wp' \in {0, wp} /\ UNCHANGED <<phase, override, startRequested, armed>>

LEMMA ServesMoves ==
    ASSUME NavInv, NEW c, NEW p \in {phase, "HOLD", "NAVIGATE", "MANUAL", "RTL", "LAND",
                                     "EMERGENCY", "DISARMED"},
           Placed(c, p, mission, wp), Serves(c)
    PROVE  Pressed
  BY PlacedBecomes DEF Serves, Operates, Outside, Pressed, Stays

LEMMA AbortMoves ==
    ASSUME NavInv, AbortDelivery
    PROVE  Aborted
<1> DEFINE c == [Here EXCEPT !.mission = <<>>, !.wp = 0]
<1>1. ModeOK /\ Placed(Here, phase, mission, wp) /\ <<>> \in Seq(WaypointKinds)
  BY PlacedStart
<1>2. Placed(c, phase, <<>>, 0)
  <2>1. Placed([Here EXCEPT !.mission = <<>>], phase, <<>>, wp)
    BY <1>1, PlacedFields
  <2> QED BY <2>1 DEF Placed, Context
<1>3. /\ Becomes(IF armed THEN EnterRtl(c, FALSE) ELSE [c EXCEPT !.phase = "IDLE"])
      /\ UNCHANGED <<override, startRequested, armed>>
  BY DEF AbortDelivery, Operates, Outside
<1> HIDE DEF c
<1>4. Placed([c EXCEPT !.phase = "IDLE"], "IDLE", <<>>, 0)
  BY <1>2, PlacedFields DEF Phases
<1>5. Placed(EnterRtl(c, FALSE), "RTL", <<>>, 0)
  BY <1>1, <1>2, PlacedReturn
<1> QED BY <1>3, <1>4, <1>5, PlacedBecomes DEF Aborted

LEMMA OperatorMoves ==
    ASSUME NavInv, Operator
    PROVE  Pressed \/ Resumed \/ Started \/ Aborted \/ Replanned
<1> DEFINE Free == {"HOLD", "NAVIGATE", "MANUAL", "RTL", "LAND", "EMERGENCY", "DISARMED"}
<1>1. ModeOK /\ Placed(Here, phase, mission, wp)
  BY PlacedStart
<1>2. \A p \in Free : Placed(Enter(p), p, mission, wp)
  BY <1>1 DEF Placed, Context, Phases, Enter
<1>3. \A c, p : Placed(c, p, mission, wp) =>
        /\ \A k \in Modes : Placed(Ask(c, k), p, mission, wp)
        /\ Placed(TakeOff(c), p, mission, wp) /\ Placed(Motion(c), p, mission, wp)
  BY <1>1, NamedModes, PlacedCommands
<1>4. CASE Hold \/ TypedResume \/ ClearEmergency \/ TypedDisarm \/ TypedYaw
  BY <1>2, <1>4, ServesMoves DEF Hold, TypedResume, ClearEmergency, TypedDisarm, TypedYaw
<1>5. CASE TypedHold
  <2>1. Placed(Ask([Here EXCEPT !.phase = "HOLD"], "BRAKE"), "HOLD", mission, wp)
    BY <1>2, <1>3, NamedModes DEF Enter
  <2> QED BY <1>5, <2>1, ServesMoves DEF TypedHold
<1>6. CASE Rtl \/ Land
  <2>1. /\ Placed(EnterRtl(Here, FALSE), "RTL", mission, wp)
        /\ Placed(EnterLand(Here), "LAND", mission, wp)
    BY <1>1, PlacedReturn, PlacedLand
  <2> QED BY <1>6, <2>1, ServesMoves DEF Rtl, Land
<1>7. CASE EmergencyStop
  <2>1. Placed(Ask(Ask([Here EXCEPT !.phase = "EMERGENCY"], "BRAKE"), "LAND"),
               "EMERGENCY", mission, wp)
    BY <1>2, <1>3, NamedModes DEF Enter
  <2> QED BY <1>7, <2>1, ServesMoves DEF EmergencyStop
<1>8. CASE MoveHold \/ \E m \in Modes : TypedMode(m)
  <2>1. Placed(Motion(Here), phase, mission, wp)
        /\ \A m \in Modes : Placed(Ask(Here, m), phase, mission, wp)
    BY <1>1, <1>3
  <2> QED BY <1>8, <2>1, ServesMoves DEF MoveHold, TypedMode
<1>9. CASE TypedTakeoff \/ MoveTo
  <2> DEFINE c == [Here EXCEPT !.phase = "MANUAL"]
  <2>1. Placed(c, "MANUAL", mission, wp)
    BY <1>2 DEF Enter
  <2> HIDE DEF c
  <2>2. Placed(Ask(c, "GUIDED"), "MANUAL", mission, wp)
    BY <2>1, <1>3, NamedModes
  <2>3. /\ Placed(TakeOff(Ask(c, "GUIDED")), "MANUAL", mission, wp)
        /\ Placed(Motion(IF armed THEN c ELSE Ask(c, "GUIDED")), "MANUAL", mission, wp)
    BY <2>1, <2>2, <1>3
  <2> QED BY <1>9, <2>3, ServesMoves DEF TypedTakeoff, MoveTo, c
<1>10. CASE Resume
  <2>1. CASE ~override /\ phase = "HOLD" /\ Becomes(Enter("NAVIGATE")) /\ UNCHANGED override
    BY <1>2, <1>10, <2>1, PlacedBecomes DEF Resume, Operates, Outside, Pressed, Stays
  <2>2. CASE override /\ ~override'
    <3> DEFINE c == [Here EXCEPT !.link.mismatch = FALSE]
    <3>1. Placed(c, phase, mission, wp)
      BY <1>1, PlacedFields
    <3>2. /\ Becomes(IF Active(c) THEN [Ask(c, "GUIDED") EXCEPT !.phase = "NAVIGATE"]
                     ELSE [c EXCEPT !.phase = "IDLE"])
          /\ UNCHANGED <<startRequested, armed>>
      BY <1>10, <2>2 DEF Resume, Operates, Outside
    <3> HIDE DEF c
    <3>3. Placed(Ask(c, "GUIDED"), phase, mission, wp)
      BY <3>1, <1>3, NamedModes
    <3>4. /\ Placed([Ask(c, "GUIDED") EXCEPT !.phase = "NAVIGATE"], "NAVIGATE", mission, wp)
          /\ Placed([c EXCEPT !.phase = "IDLE"], "IDLE", mission, wp)
      BY <3>1, <3>3 DEF Placed, Context, Phases
    <3> QED BY <2>2, <3>2, <3>4, PlacedBecomes DEF Resumed, Stays
  <2> QED BY <1>10, <2>1, <2>2 DEF Resume
<1>11. CASE Start
  BY <1>1, <1>11, PlacedBecomes DEF Start, Orders, Outside, Started, Stays
<1>12. CASE AbortDelivery
  BY <1>12, AbortMoves
<1>13. CASE SetDeliveryTarget \/ LoadMission
  <2>1. \A m \in Plans : /\ Placed([Here EXCEPT !.mission = m, !.wp = 0], phase, m, 0)
                         /\ Placed([Here EXCEPT !.mission = m], phase, m, wp)
    BY <1>1, PlansAssumption DEF Placed, Context
  <2>2. CASE SetDeliveryTarget
    BY <2>1, <2>2, PlacedBecomes DEF SetDeliveryTarget, Orders, Outside, Replanned
  <2>3. CASE LoadMission
    BY <2>1, <2>3, PlacedBecomes DEF LoadMission, Serves, Operates, Outside, Replanned
  <2> QED BY <1>13, <2>2, <2>3
<1> QED BY <1>4, <1>5, <1>6, <1>7, <1>8, <1>9, <1>10, <1>11, <1>12, <1>13 DEF Operator

\* The handshake's thread and what is reported from outside.
LEMMA EarlyReturnMoves ==
    ASSUME NavInv, EarlyReturn
    PROVE  \/ phase' \in {phase, "RTL", "NAVIGATE"} /\ Stays
           \/ UNCHANGED phase /\ mission' = Append(mission, "home")
<1>1. ModeOK /\ Placed(Here, phase, mission, wp) /\ Here \in Context
  BY PlacedStart DEF Placed
<1>2. CASE BleJob \/ BleTurn \/ BleVoid
  <2>1. /\ Placed([Here EXCEPT !.ret.job = TRUE], phase, mission, wp)
        /\ Placed([Here EXCEPT !.ret.about = TRUE], phase, mission, wp)
        /\ Placed([Here EXCEPT !.ret.turn = TRUE], phase, mission, wp)
        /\ Placed([Here EXCEPT !.ret.requested = FALSE], phase, mission, wp)
    BY <1>1 DEF Placed, Context, Return
  <2>2. \E c : Assigns(c) /\ Placed(c, phase, mission, wp)
    BY <1>2, <2>1 DEF BleJob, BleTurn, BleVoid, Unlocked
  <2> QED BY <2>2 DEF Assigns, Placed, Stays
<1>3. CASE BleMark
  <2>1. Placed([Here EXCEPT !.phase = "RTL", !.ret.asked = FALSE], "RTL", mission, wp)
    BY <1>1 DEF Placed, Context, Return, Phases
  <2> QED BY <1>3, <2>1 DEF BleMark, Unlocked, Assigns, Placed, Stays
<1>4. CASE BleLeg
  <2>1. Placed([Here EXCEPT !.phase = "NAVIGATE"], "NAVIGATE", mission, wp)
    BY <1>1 DEF Placed, Context, Phases
  <2> QED BY <1>4, <2>1 DEF BleLeg, Unlocked, Assigns, Placed, Stays
<1>5. CASE BleFly \/ BleClear
  <2>1. /\ Placed(PiTakes(Here), phase, mission, wp)
        /\ Placed(Cleared(Here), phase, mission, wp)
    BY <1>1, PartsOfTheReturn DEF Placed
  <2>2. Assigns(PiTakes(Here)) \/ Assigns(Cleared(Here))
    BY <1>5 DEF BleFly, BleClear, Unlocked
  <2> QED BY <2>1, <2>2 DEF Assigns, Placed, Stays
<1>6. CASE BleAppend
  BY <1>1, <1>6, PartsOfTheReturn DEF BleAppend, Unlocked, Assigns, Placed
<1>7. CASE BleLeave
  <2>1. Placed(LeaveBrake(Here), phase, mission, wp)
    BY <1>1, NamedModes, PlacedCommands
  <2> QED BY <1>7, <2>1 DEF BleLeave, Unlocked, Assigns, Placed, Stays
<1>8. CASE BleCommit
  <2>1. Placed(Requested(Here), phase, mission, wp)
    BY <1>1, PartsOfTheReturn DEF Placed
  <2>2. Placed(Ask(Requested(Here), ReturnMode), phase, mission, wp)
    BY <1>1, <2>1, NamedModes, PlacedCommands
  <2> QED BY <1>8, <2>2 DEF BleCommit, Unlocked, Assigns, Placed, Stays
<1> QED BY <1>2, <1>3, <1>4, <1>5, <1>6, <1>7, <1>8 DEF EarlyReturn

LEMMA ReportsMove ==
    ASSUME TakeOver \/ BleResult \/ Environment
    PROVE  /\ phase' \in {phase, "MANUAL"} /\ Stays
           /\ phase' = "MANUAL" => phase = "MANUAL" \/ TakeOver
  BY DEF TakeOver, BleResult, Environment, FcAnswer, ModeChanges, Arms, Disarms,
         GpsFix, Battery, Altitude, Untouched, Stays

-----------------------------------------------------------------------------
(* What the diagram says of landings and drops.                            *)

\* A landing ends on the ground: in the air only the operator, the pilot, the
\* ceiling or the handshake's thread takes LAND back, whatever the loop's tick.
THEOREM LandingsHold == Spec => LandingHolds
<1>1. ASSUME NavInv, [Next]_vars, phase = "LAND", phase' # "LAND",
             armed, ~override', ~tooHigh, ~Operator, ~EarlyReturn
      PROVE  FALSE
  <2>1. CASE Loop /\ ~StartTick
    BY <1>1, <2>1, LoopMoves DEF Diagram, FailsafeMove, Exempt, Grounded, Goes
  <2>2. CASE StartTick
    BY <1>1, <2>2 DEF StartTick, StartDue, Grounded
  <2>3. CASE TakeOver \/ BleResult \/ Environment
    BY <1>1, <2>3 DEF TakeOver, BleResult, Environment, FcAnswer, ModeChanges, Arms, Disarms,
                      GpsFix, Battery, Altitude, Untouched
  <2>4. ~UNCHANGED vars
    BY <1>1 DEF vars
  <2> QED BY <1>1, <2>1, <2>2, <2>3, <2>4 DEF Next
<1> QED BY <1>1, Invariance, PTL DEF Spec, LandingHolds

\* The loop makes a landing of a return only once the FC has the return and the
\* nose is done turning, whatever the router, the turns and the timers (_do_rtl).
THEOREM LandsAfterTheTurn == Spec => NoLandingMidTurn
<1>1. ASSUME NavInv, [Next]_vars, phase = "RTL", phase' = "LAND", ~Operator, ~critical
      PROVE  ret.requested /\ ~ret.about /\ ~ret.turn
  <2>1. CASE Loop /\ ~StartTick
    BY <1>1, <2>1, LoopMoves DEF Diagram, FailsafeMove, Goes, GoesHome
  <2>2. CASE StartTick
    BY <1>1, <2>2 DEF StartTick, StartDue, Grounded
  <2>3. CASE TakeOver \/ BleResult \/ Environment
    BY <1>1, <2>3, ReportsMove
  <2>4. CASE EarlyReturn
    BY <1>1, <2>4, EarlyReturnMoves
  <2>5. ~UNCHANGED vars
    BY <1>1 DEF vars
  <2> QED BY <1>1, <2>1, <2>2, <2>3, <2>4, <2>5 DEF Next
<1> QED BY <1>1, Invariance, PTL DEF Spec, NoLandingMidTurn

\* Phase HOVER without a running hold is a hold a new plan cut short.
HoverHeld == phase = "HOVER" => holding \/ "replaced" \in episode

LEMMA HoverHeldStep ==
    ASSUME NavInv, HoverHeld, [Next]_vars
    PROVE  HoverHeld'
<1> SUFFICES ASSUME phase' = "HOVER"
             PROVE  holding' \/ "replaced" \in episode'
  BY DEF HoverHeld
<1>1. CASE UNCHANGED hold /\ phase = "HOVER"
  BY <1>1 DEF HoverHeld, hold
<1>2. CASE EnterHover
  BY <1>2 DEF EnterHover
<1>3. CASE ~EnterHover /\ Next
  <2>1. phase = "HOVER"
    BY <1>3, StepKeeps DEF Kept
  <2>2. CASE StartTick
    BY <2>1, <2>2 DEF StartTick, StartDue, Grounded
  <2>3. CASE HoverDone
    BY <2>3, HoverDoneMoves DEF GoesHome
  <2>4. CASE ScanSearch \/ ScanLock \/ BleResult
    BY <2>1, <2>4 DEF ScanSearch, ScanLock, BleResult, HoverHeld
  <2>5. CASE Loop /\ ~StartTick /\ ~EnterHover /\ ~HoverDone /\ ~ScanSearch /\ ~ScanLock
    BY <1>1, <2>1, <2>5
       DEF Loop, FailsafeTick, WatchTick, ArmingTick, TakeoffDone, NavigateStop, NavigateDone,
           NavigatePass, NavigateFly, PiReturnOverdue, AvoidTick, HoverWait, HoverSkip,
           HoldTick, ManualTick, ReturnDown, RtlTick, LandTick
  <2>6. CASE TakeOver
    BY <2>6 DEF TakeOver
  <2>7. CASE EarlyReturn
    BY <1>1, <2>1, <2>7, EarlyReturnAlone
  <2>8. CASE AbortDelivery
    BY <2>8, AbortMoves DEF Aborted
  <2>9. CASE SetDeliveryTarget
    BY <2>1, <2>9 DEF SetDeliveryTarget
  <2>10. CASE Operator /\ ~AbortDelivery /\ ~SetDeliveryTarget
    <3>1. UNCHANGED hold
      BY <2>10
         DEF Operator, Hold, TypedHold, Resume, TypedResume, Rtl, Land, EmergencyStop,
             ClearEmergency, TypedDisarm, TypedYaw, TypedMode, TypedTakeoff, MoveTo, MoveHold,
             Start, LoadMission, Serves
    <3> QED BY <1>1, <2>1, <3>1
  <2>11. CASE Environment
    <3>1. UNCHANGED hold
      BY <2>11 DEF Environment, FcAnswer, ModeChanges, Arms, Disarms, GpsFix, Battery,
                   Altitude, Untouched, hold
    <3> QED BY <1>1, <2>1, <3>1
  <2> QED
    BY <1>3, <2>2, <2>3, <2>4, <2>5, <2>6, <2>7, <2>8, <2>9, <2>10, <2>11 DEF Next
<1>4. CASE UNCHANGED vars
  BY <1>4 DEF vars, HoverHeld
<1> QED BY <1>2, <1>3, <1>4

\* Wherever the loop, the services and the handshake's thread interleave, a drop is
\* counted past out of a hold that is still running, or out of one a new plan cut
\* short, for plans of any length (_do_navigate, _do_hover, _svc_set_delivery_target).
THEOREM DropsTakeAHold == Spec => DropTakesAHold
<1>1. ASSUME NavInv, HoverHeld, [Next]_vars,
             mission' = mission, wp < Len(mission), wp' = wp + 1, mission[wp + 1] = "drop"
      PROVE  phase = "HOVER" /\ (holding \/ "replaced" \in episode)
  <2> SUFFICES ASSUME phase # "HOVER"
               PROVE  FALSE
    BY <1>1 DEF HoverHeld
  <2>0. wp \in Nat /\ mission \in Seq(WaypointKinds) /\ "home" \in WaypointKinds
    BY <1>1 DEF NavInv, CoreOK, WaypointKinds
  <2>1. ~Stays /\ wp' # 0 /\ wp' # wp
    BY <1>1, <2>0 DEF Stays
  <2>2. mission' # Append(mission, "home")
    <3>1. Len(Append(mission, "home")) = Len(mission) + 1 /\ Len(mission) \in Nat
      BY <2>0
    <3> QED BY <1>1, <3>1
  <2>3. CASE Loop /\ ~StartTick
    BY <1>1, <2>1, <2>2, <2>3, LoopMoves DEF Diagram, Goes, GoesHome
  <2>4. CASE StartTick
    BY <1>1, <2>1, <2>4, StartTickMoves DEF StartMoves
  <2>5. CASE Operator
    BY <1>1, <2>1, <2>5, OperatorMoves DEF Pressed, Resumed, Started, Aborted, Replanned
  <2>6. CASE TakeOver \/ BleResult \/ Environment
    BY <2>1, <2>6, ReportsMove
  <2>7. CASE EarlyReturn
    BY <1>1, <2>1, <2>2, <2>7, EarlyReturnMoves
  <2>8. ~UNCHANGED vars
    BY <2>1 DEF vars, Stays
  <2> QED BY <1>1, <2>3, <2>4, <2>5, <2>6, <2>7, <2>8 DEF Next
<1>2. Init => HoverHeld
  BY DEF Init, HoverHeld
<1>3. NavInv /\ HoverHeld /\ [Next]_vars => HoverHeld'
  BY HoverHeldStep
<1> QED BY <1>1, <1>2, <1>3, Invariance, PTL DEF Spec, DropTakesAHold
-----------------------------------------------------------------------------
(* Navigation implements Flight.                                           *)

LEMMA LoadedAgain == ASSUME mission \in Seq(WaypointKinds), GoesHome
                     PROVE  mission' # <<>>
<1>1. Append(mission, "home") # <<>>
  BY DEF WaypointKinds
<1> QED BY <1>1 DEF GoesHome

LEMMA InitImplements == Init => F!FlightInit
  BY DEF Init, F!FlightInit, Reported

\* A tick of the loop proceeds, fails or changes nothing Flight sees.
LEMMA LoopImplements ==
    ASSUME NavInv, Loop, ~StartTick
    PROVE  F!Proceed \/ F!Fail \/ UNCHANGED F!flight
<1>0. /\ phase \in Phases /\ phase' \in Phases /\ mission \in Seq(WaypointKinds)
      /\ Ticking /\ Diagram
  <2>1. NavInv'
    BY NavInvStep DEF Next
  <2> QED BY <2>1, LoopMoves DEF NavInv, CoreOK
<1>1. /\ ~override /\ ~(startRequested /\ phase \in Grounded)
      /\ UNCHANGED <<startRequested, override, armed>>
  BY <1>0 DEF Ticking, StartDue, Outside
<1>2. Reported(phase) \in F!OnGround <=> phase \in Grounded
  BY <1>0 DEF Reported, F!OnGround, Grounded
<1>3. ASSUME Stays
      PROVE  F!Ticks
  BY <1>1, <1>2, <1>3 DEF F!Ticks, Stays
<1>4. ASSUME Reported(phase)' = Reported(phase), UNCHANGED mission
      PROVE  UNCHANGED F!flight
  BY <1>1, <1>4 DEF F!flight
<1>5. CASE UNCHANGED phase /\ Stays
  BY <1>4, <1>5 DEF Stays, Reported
<1>6. CASE FailsafeMove(phase) /\ Stays
  BY <1>0, <1>3, <1>6 DEF FailsafeMove, Exempt, Grounded, F!Fail, Reported, Phases
<1>7. CASE Goes({"ARMING"}, {IF armed THEN "TAKEOFF" ELSE "IDLE"})
  BY <1>3, <1>7 DEF Goes, F!Proceed, Reported
<1>8. CASE Goes({"TAKEOFF", "AVOID"}, {"NAVIGATE"})
  BY <1>4, <1>8 DEF Goes, Stays, Reported
<1>9. CASE Goes({"NAVIGATE"}, {"AVOID", "RTL"})
  BY <1>3, <1>9 DEF Goes, F!Proceed, Reported
<1>10. CASE Goes({"NAVIGATE"}, {"HOVER"}) /\ mission # <<>>
  BY <1>3, <1>10 DEF Goes, F!Proceed, Reported
<1>11. CASE phase = "NAVIGATE" /\ UNCHANGED <<phase, mission>>
  BY <1>4, <1>11 DEF Reported
<1>12. CASE phase = "HOVER" /\ phase' \in {"NAVIGATE", "RTL"} /\ UNCHANGED mission
  BY <1>1, <1>2, <1>12 DEF F!Proceed, F!Ticks, Reported
<1>13. CASE GoesHome /\ phase \in {"NAVIGATE", "HOVER", "RTL"} /\ (phase = "RTL" => armed)
  <2>1. mission' # <<>> /\ phase' = "NAVIGATE"
    BY <1>0, <1>13, LoadedAgain DEF GoesHome
  <2> QED BY <1>1, <1>2, <1>13, <2>1 DEF F!Proceed, F!Ticks, Reported
<1>14. CASE Goes({"RTL"}, {"LAND"}) /\ armed
  BY <1>3, <1>14 DEF Goes, F!Proceed, Reported
<1>15. CASE Goes({"RTL"}, {"COMPLETE"}) /\ ~armed
  BY <1>3, <1>15 DEF Goes, F!Proceed, Reported
<1>16. CASE Goes({"LAND"}, {"DISARMED"}) /\ ~armed
  BY <1>3, <1>16 DEF Goes, F!Proceed, Reported
<1> QED
  BY <1>0, <1>5, <1>6, <1>7, <1>8, <1>9, <1>10, <1>11, <1>12, <1>13, <1>14, <1>15, <1>16
     DEF Diagram

\* A start is consumed on the ground.
LEMMA StartImplements ==
    ASSUME NavInv, StartTick
    PROVE  F!Begin
<1>1. phase \in Phases /\ StartMoves /\ startRequested' \in BOOLEAN /\ override' \in BOOLEAN
  BY StartTickMoves DEF NavInv, CoreOK, StartTick
<1>2. /\ startRequested /\ phase \in Grounded /\ Reported(phase) \in F!OnGround
      /\ startRequested' = FALSE /\ override' = FALSE
      /\ UNCHANGED <<mission # <<>>, armed>>
  BY <1>1 DEF StartMoves, StartDue, Grounded, F!OnGround, Reported
<1>3. CASE mission # <<>>
  <2>1. \/ FailsafeMove("ARMING")
        \/ phase' \in {"ARMING", IF armed THEN "TAKEOFF" ELSE "IDLE"}
    BY <1>1, <1>3 DEF StartMoves, StartPhase
  <2>2. \/ Reported(phase)' \in {"ARMING", "RTL", "LAND"}
        \/ Reported(phase)' = IF armed THEN "UNDERWAY" ELSE "IDLE"
    BY <2>1 DEF FailsafeMove, Reported
  <2> QED BY <1>2, <1>3, <2>2 DEF F!Begin
<1>4. CASE mission = <<>>
  <2>1. FailsafeMove(phase) \/ phase' = phase
    BY <1>1, <1>4 DEF StartMoves, StartPhase
  <2>2. \/ UNCHANGED Reported(phase)
        \/ armed /\ Reported(phase)' \in {"LAND", "UNDERWAY"}
    BY <1>2, <2>1 DEF FailsafeMove, Exempt, Reported
  <2> QED BY <1>2, <1>4, <2>2 DEF F!Begin
<1> QED BY <1>3, <1>4

\* The services.
LEMMA OperatorImplements ==
    ASSUME NavInv, Operator
    PROVE  F!FlightNext \/ UNCHANGED F!flight
<1>1. CASE Pressed
  <2>1. CASE UNCHANGED phase
    BY <1>1, <2>1 DEF Pressed, Stays, F!flight, Reported
  <2>2. CASE phase' # phase
    BY <1>1, <2>2 DEF Pressed, Stays, F!Press, F!FlightNext, Reported
  <2> QED BY <2>1, <2>2
<1>2. CASE Resumed
  BY <1>2 DEF NavInv, Resumed, Stays, F!Resume, F!FlightNext, Reported
<1>3. CASE Started
  BY <1>3 DEF Started, Stays, F!StartMission, F!FlightNext, Reported
<1>4. CASE Aborted
  BY <1>4 DEF Aborted, F!AbortDelivery, F!FlightNext, Reported
<1>5. CASE Replanned
  BY <1>5 DEF Replanned, F!SetPlan, F!FlightNext, Reported
<1> QED BY <1>1, <1>2, <1>3, <1>4, <1>5, OperatorMoves

\* The pilot, the handshake's thread and the reports from outside.
LEMMA OthersImplement ==
    ASSUME NavInv, TakeOver \/ BleResult \/ EarlyReturn \/ Environment
    PROVE  F!FlightNext \/ UNCHANGED F!flight
<1>1. CASE TakeOver
  BY <1>1 DEF TakeOver, Outside, F!TakeOver, F!FlightNext, Reported
<1>2. CASE BleResult
  BY <1>2 DEF BleResult, Outside, F!flight, Reported
<1>3. CASE EarlyReturn
  <2>0. UNCHANGED <<override, startRequested, armed>>
    BY <1>3, EarlyReturnAlone DEF Outside
  <2>1. CASE UNCHANGED phase /\ Stays
    BY <2>0, <2>1 DEF Stays, F!flight, Reported
  <2>2. CASE phase' \in {"RTL", "NAVIGATE"} /\ Stays
    BY <2>0, <2>2 DEF Stays, F!EarlyReturn, F!FlightNext, Reported
  <2>3. CASE UNCHANGED phase /\ mission' = Append(mission, "home")
    BY <2>0, <2>3 DEF F!SetPlan, F!FlightNext, Reported
  <2> QED BY <1>3, <2>1, <2>2, <2>3, EarlyReturnMoves
<1>5. CASE Arms
  BY <1>5 DEF Arms, Untouched, F!Arms, F!FlightNext, Reported
<1>6. CASE Disarms
  BY <1>6 DEF Disarms, Untouched, F!Disarms, F!FlightNext, Reported
<1>7. CASE FcAnswer \/ ModeChanges \/ GpsFix \/ Battery \/ Altitude
  BY <1>7 DEF FcAnswer, ModeChanges, GpsFix, Battery, Altitude, Untouched, F!flight, Reported
<1> QED BY <1>1, <1>2, <1>3, <1>5, <1>6, <1>7 DEF Environment

LEMMA StepImplements == NavInv /\ [Next]_vars => [F!FlightNext]_(F!flight)
<1> SUFFICES ASSUME NavInv, [Next]_vars
             PROVE  F!FlightNext \/ UNCHANGED F!flight
  OBVIOUS
<1>1. CASE UNCHANGED vars
  BY <1>1 DEF vars, F!flight, Reported
<1>2. CASE StartTick
  BY <1>2, StartImplements DEF F!FlightNext
<1>3. CASE Loop /\ ~StartTick
  BY <1>3, LoopImplements DEF F!FlightNext
<1> QED BY <1>1, <1>2, <1>3, OperatorImplements, OthersImplement DEF Next

\* Every behaviour of the navigator is one Flight allows, whatever the plans, the
\* router, the turns and the pilot: what Delivery composes with is what the
\* navigator does (step, the services, _on_ble_delivery_result).
THEOREM ImplementsFlight == Spec => Flies
<1>1. Init => F!FlightInit
  BY InitImplements
<1>2. NavInv /\ [Next]_vars => [F!FlightNext]_(F!flight)
  BY StepImplements
<1> QED BY <1>1, <1>2, Invariance, PTL DEF Spec, Flies, F!FlightSpec
=============================================================================
