----------------------------- MODULE Assurance -----------------------------
(***************************************************************************)
(* The delivery assurance layer, drone_stack/novelty: the mission state    *)
(* machine (mission_fsm.py) driven by its node (delivery_node.py), with    *)
(* the choice of a landing zone (landing_zone.py), the two-channel         *)
(* authentication of the recipient (recipient_auth.py) and the watch on    *)
(* people moving below (motion_monitor.py).                                *)
(*                                                                         *)
(* One step of the node reads the latest detections, BLE event and terrain *)
(* it was sent, whatever their age, asks the handler of the state for an   *)
(* event, and runs the entry actions until the state rests.  The messages  *)
(* come in the publishers' threads, also in the middle of a step: where a  *)
(* handler reads one twice, it may read two different ones.                *)
(*                                                                         *)
(* Abstracted: the ground is a line of cells with the aircraft over cell   *)
(* 0, a terrain gives each cell its suitability; a track's speed is that   *)
(* between its last two frames; a timer is off, on, or over its limit;     *)
(* slope is level as in the code; three altitudes: at the hover height,    *)
(* under the ceiling of the motion watch, above it.  Of stamps, only what  *)
(* lies between two counts, as far as it matters.                          *)
(***************************************************************************)
EXTENDS Integers, Sequences, SequencesExt

CONSTANTS
    Reach,          \* the cells are -Reach..Reach
    Terrains,       \* suitability of each cell, 0 where it is unsafe
    MinArea,        \* min_safe_radius_m, as an area
    BandMin, BandMax,   \* r_min_m, r_max_m
    MinScore, TopK,
    Tol, RssiTol,   \* max_position_disagreement_m, and of the range alone
    Alpha, Beta,    \* alpha_ble_position, beta_rssi_consistency
    Margin,         \* disambiguation_margin
    SyncWindow,     \* sync_window_ms
    Association, MaxSpeed, IntrusionRadius,
    MaxRetries,     \* max_hover_retries
    MaxRadius,      \* expansions until max_search_radius_m
    Views,          \* what a camera frame may show: sequences of cells
    Signals,        \* what a BLE event may say
    MaxGap,         \* stamps further apart than this are as good as this far
    MaxTracks       \* bound

Cells == -Reach..Reach
Gaps == 0..MaxGap
Tracks == 1..MaxTracks
NoZone == [at |-> 0, score |-> -1, area |-> 0]
Running == {"SEARCHING_PERSON", "PERSON_FOUND", "SEARCHING_ZONE", "ZONE_FOUND", "DESCENDING",
            "AUTHENTICATING", "HOVER_AND_RETRY", "RELEASING", "ASCENDING"}
Terminal == {"RTL", "ABORT_RTL"}
Channels == {"ble", "vision", "disagree"}
\* A BLE event: the handshake, the phone's position and its range, if it has them.
Events == [ok : BOOLEAN, gps : Seq(Cells), rssi : Seq(Nat)]

ASSUME AssuranceAssumption ==
    /\ {Reach, MinArea, TopK, MaxRadius, Tol, RssiTol, MaxGap, MaxTracks} \subseteq Nat \ {0}
    /\ {BandMin, BandMax, MinScore, Alpha, Beta, Margin, SyncWindow, Association, MaxSpeed,
        IntrusionRadius, MaxRetries} \subseteq Nat
    /\ Terrains \subseteq [Cells -> 0..2]
    /\ Views \subseteq Seq(Cells)
    /\ Signals \subseteq Events

ASSUME GapAssumption == MaxGap > SyncWindow /\ (MaxSpeed > 0 => MaxGap * MaxSpeed >= 2 * Reach)

VARIABLES
    fsm,         \* MissionFSM.state, at rest
    waited,      \* the time in it is over its limit
    recipient,   \* ctx.recipient_track_id, 0 for none
    radius,      \* ctx.search_radius_m, in expansions
    candidates,  \* ctx.zone_candidates
    chosen,      \* _chosen_zone
    lastGround,  \* _recipient_last_ground, in a sequence
    retries,     \* _hover_retries
    since,       \* the authenticator's three windows
    tracks,      \* MotionMonitor._history: of each track where it was last, how long
                 \* before the view, and whether its last two frames say it moves fast
    ids,         \* track_id of each detection of the view, as of the last step
    view,        \* _raw_detections: what the newest frame shows
    ble,         \* _ble_event
    skew,        \* by how much it is newer than the view, negative when older
    terrain,     \* _terrain
    alt,         \* alt_rel_m: 0 at the hover height, 1 below the ceiling, 2 above
    command,     \* the last flight command sent
    released     \* times the servo was sent to release

decision == <<fsm, recipient, radius, candidates, chosen, retries, since>>
perception == <<tracks, ids, lastGround>>
sent == <<command, released>>
signal == <<ble, skew>>
vars == <<decision, waited, perception, sent, view, signal, terrain, alt>>

Zone == [at : Cells, score : Int, area : Nat]
Track == [at : Cells, gap : Gaps, fast : BOOLEAN]

\* The state rests, the windows and the tracks are well formed.
TypeOK ==
    /\ fsm \in Running \cup Terminal /\ waited \in BOOLEAN
    /\ recipient \in 0..MaxTracks /\ radius \in 0..MaxRadius
    /\ candidates \subseteq Zone /\ Cardinality(candidates) <= TopK /\ chosen \in Zone
    /\ lastGround \in Seq(Cells) /\ Len(lastGround) <= 1
    /\ retries \in 0..MaxRetries /\ since \in [Channels -> {"off", "on", "over"}]
    /\ DOMAIN tracks \subseteq Tracks /\ \A t \in DOMAIN tracks : tracks[t] \in Track
    /\ ids \in Seq(Tracks) /\ view \in Seq(Cells)
    /\ ble \in Events /\ skew \in -MaxGap..MaxGap
    /\ terrain \in Terrains /\ alt \in 0..2
    /\ command \in {"none", "goto", "climb", "rtl"} /\ released \in 0..1

Abs(n) == IF n < 0 THEN -n ELSE n

-----------------------------------------------------------------------------
(* landing_zone.py                                                         *)

\* A maximal run of safe cells, by its ends.
SafeComponents == {p \in Cells \X Cells :
    /\ p[1] <= p[2] /\ \A c \in p[1]..p[2] : terrain[c] > 0
    /\ (p[1] - 1 \in Cells => terrain[p[1] - 1] = 0)
    /\ (p[2] + 1 \in Cells => terrain[p[2] + 1] = 0)}

\* How far a distance is out of the band around the person.
BandViolation(d) == Max({0, BandMin - d, d - BandMax})

ScoreCell(c, area, person) == terrain[c] + area - BandViolation(Abs(c - person))

\* The cell that stands for a component: the most suitable, then the least out
\* of the band, then the first.
StandsFor(c, part, person) ==
    LET violation(d) == BandViolation(Abs(d - person))
    IN  /\ c \in part[1]..part[2]
        /\ \A d \in part[1]..part[2] :
              \/ terrain[c] > terrain[d]
              \/ terrain[c] = terrain[d] /\ violation(c) < violation(d)
              \/ terrain[c] = terrain[d] /\ violation(c) = violation(d) /\ c <= d

\* The zone of a component by its cell, and the order of the candidates.
ZoneOf(c, part, person) ==
    LET area == part[2] - part[1] + 1
    IN  [at |-> c, area |-> area, score |-> ScoreCell(c, area, person)]
Better(y, z) == y.score > z.score \/ (y.score = z.score /\ y.at < z.at)

\* The best of the components large enough, by their cells.
ScoreCandidates(person) ==
    LET standing == {s \in Cells \X SafeComponents : StandsFor(s[1], s[2], person)}
        zones == {z \in {ZoneOf(s[1], s[2], person) : s \in standing} :
                     z.area >= MinArea /\ z.score >= MinScore}
    IN  {z \in zones : Cardinality({y \in zones : Better(y, z)}) < TopK}

-----------------------------------------------------------------------------
(* motion_monitor.py                                                       *)

\* The track a detection continues: the nearest of those left within the
\* association distance, or the first number not used.
TrackOf(x, taken) ==
    LET near == {t \in DOMAIN tracks \ taken : Abs(tracks[t].at - x) <= Association}
        best == {t \in near : \A u \in near : Abs(tracks[t].at - x) <= Abs(tracks[u].at - x)}
    IN  IF near # {} THEN Min(best) ELSE Cardinality(DOMAIN tracks \cup taken) + 1

\* Each detection of the view in turn takes its track from those the earlier left.
Associated(tids) == \A i \in DOMAIN view :
    tids[i] = TrackOf(view[i], {tids[j] : j \in 1..(i - 1)})

\* The track's detection in the view.
Seen(tids, t) == view[CHOOSE i \in DOMAIN tids : tids[i] = t]

\* Every detection is appended to its track, the same frame again at every step
\* until another one comes.  A track moves fast when its last two frames lie too
\* far apart for their stamps.
Appended(t, x) ==
    [at |-> x, gap |-> 0,
     fast |-> /\ t \in DOMAIN tracks /\ tracks[t].gap > 0
              /\ Abs(x - tracks[t].at) > MaxSpeed * tracks[t].gap]
UpdateTracks(tids) ==
    [t \in DOMAIN tracks \cup ToSet(tids) |->
        IF t \in ToSet(tids) THEN Appended(t, Seen(tids, t)) ELSE tracks[t]]

\* The recipient moves under the ceiling, or another person is at the zone.
VelocityAbort(hist, t) == alt < 2 /\ t \in DOMAIN hist /\ hist[t].fast
ZoneIntrusion(tids, t) == \E i \in DOMAIN tids :
    tids[i] # t /\ Abs(view[i] - chosen.at) <= IntrusionRadius

-----------------------------------------------------------------------------
(* recipient_auth.py                                                       *)

\* How far a place is from what the BLE event says: from the phone's position,
\* or by range, and with which tolerance.  The position decides when there is one.
OffPosition(x, e) == Abs(x - e.gps[1])
OffRange(x, e) == Abs(Abs(x) - e.rssi[1])
Disagreement(x, e) == IF e.gps # <<>> THEN OffPosition(x, e) ELSE OffRange(x, e)
Allowed(e) == IF e.gps # <<>> THEN Tol ELSE RssiTol
HasPlace(e) == e.gps # <<>> \/ e.rssi # <<>>

\* The likelihood of a detection sums what both say, each relative to its
\* tolerance; here times both tolerances.
Likelihood(x, e) ==
    (IF e.gps = <<>> THEN 0 ELSE Alpha * RssiTol * Max({0, Tol - OffPosition(x, e)}))
    + (IF e.rssi = <<>> THEN 0 ELSE Beta * Tol * Max({0, RssiTol - OffRange(x, e)}))

\* The detection that beats the others by the margin, 0 when none does.
StandsOut(i, e) == \A j \in DOMAIN view \ {i} :
    Likelihood(view[i], e) >= Likelihood(view[j], e) + Margin * Tol * RssiTol
DisambiguateRecipients(e) ==
    LET ahead == {i \in DOMAIN view : StandsOut(i, e)}
    IN  IF ahead = {} THEN 0 ELSE Min(ahead)

\* A window starts with the first time its condition holds, and ends with it.
Window(w, holds) == IF ~holds THEN "off" ELSE IF w = "off" THEN "on" ELSE w
InSync(s) == Abs(s) <= SyncWindow

\* Mutant: two channels that are each fine are the same event.
EvaluateUnsynced(i, e, s) ==
    LET visionOk == i # 0
        w == [since EXCEPT !.ble = Window(@, e.ok), !.vision = Window(@, visionOk)]
    IN  IF ~e.ok /\ ~visionOk THEN <<"none", [w EXCEPT !.disagree = "off"]>>
        ELSE IF ~visionOk THEN <<IF w.ble = "over" THEN "auth_failed" ELSE "none", [w EXCEPT !.disagree = "off"]>>
        ELSE IF ~e.ok THEN <<IF w.vision = "over" THEN "auth_failed" ELSE "none", [w EXCEPT !.disagree = "off"]>>
        ELSE IF ~HasPlace(e) THEN <<"none", [w EXCEPT !.disagree = "off"]>>
        ELSE IF Disagreement(view[i], e) <= Allowed(e) THEN <<"auth_succeeded", [w EXCEPT !.disagree = "off"]>>
        ELSE <<IF since.disagree = "over" THEN "auth_failed" ELSE "none",
               [w EXCEPT !.disagree = Window(@, TRUE)]>>

\* The event of one evaluation of the two channels, a detection and a BLE event
\* with its skew, and the windows after it.
Evaluate(i, e, s) ==
    LET visionOk == i # 0
        w == [since EXCEPT !.ble = Window(@, e.ok), !.vision = Window(@, visionOk)]
        settled == [w EXCEPT !.disagree = "off"]
        late(c) == IF w[c] = "over" THEN "auth_failed" ELSE "none"
    IN  IF e.ok /\ visionOk /\ InSync(s) /\ HasPlace(e)
        THEN IF Disagreement(view[i], e) <= Allowed(e) THEN <<"auth_succeeded", settled>>
             ELSE <<late("disagree"), [w EXCEPT !.disagree = Window(@, TRUE)]>>
        ELSE <<IF e.ok /\ ~visionOk THEN late("ble")
               ELSE IF visionOk /\ ~e.ok THEN late("vision") ELSE "none", settled>>

-----------------------------------------------------------------------------
(* mission_fsm.py                                                          *)

\* TRANSITIONS: the rows that need no guard.
Transitions == {
    <<"SEARCHING_PERSON", "person_detected", "PERSON_FOUND">>,
    <<"SEARCHING_PERSON", "timeout", "EXPANDING_SEARCH_RADIUS">>,
    <<"PERSON_FOUND", "person_confirmed", "SEARCHING_ZONE">>,
    <<"PERSON_FOUND", "timeout", "SEARCHING_PERSON">>,
    <<"SEARCHING_ZONE", "zone_found", "ZONE_FOUND">>,
    <<"SEARCHING_ZONE", "timeout", "EXPANDING_SEARCH_RADIUS">>,
    <<"ZONE_FOUND", "zone_confirmed", "DESCENDING">>,
    <<"ZONE_FOUND", "timeout", "SEARCHING_ZONE">>,
    <<"DESCENDING", "altitude_reached", "AUTHENTICATING">>,
    <<"DESCENDING", "motion_abort", "ABORT_DESCENT">>,
    <<"DESCENDING", "timeout", "ABORT_RTL">>,
    <<"AUTHENTICATING", "auth_succeeded", "RELEASING">>,
    <<"AUTHENTICATING", "ambiguous", "HOVER_AND_RETRY">>,
    <<"AUTHENTICATING", "auth_failed", "ABORT_RTL">>,
    <<"AUTHENTICATING", "timeout", "ABORT_RTL">>,
    <<"HOVER_AND_RETRY", "retry", "AUTHENTICATING">>,
    <<"HOVER_AND_RETRY", "retry_exhausted", "ABORT_RTL">>,
    <<"HOVER_AND_RETRY", "timeout", "ABORT_RTL">>,
    <<"RELEASING", "release_complete", "ASCENDING">>,
    <<"RELEASING", "timeout", "ABORT_RTL">>,
    <<"ASCENDING", "ascend_complete", "RTL">>,
    <<"ASCENDING", "timeout", "RTL">>}

Row(state, event) == {t[3] : t \in {u \in Transitions : u[1] = state /\ u[2] = event}}

\* The two transient states resolve at once: a replan needs a candidate other
\* than the chosen one, a wider radius must stay below the largest.
Remaining == candidates \ {chosen}
Rest(state) ==
    CASE state = "ABORT_DESCENT" -> IF Remaining # {} THEN "SEARCHING_ZONE" ELSE "ABORT_RTL"
      [] state = "EXPANDING_SEARCH_RADIUS" ->
            IF radius + 1 >= MaxRadius THEN "ABORT_RTL"
            ELSE IF recipient # 0 THEN "SEARCHING_ZONE" ELSE "SEARCHING_PERSON"
      [] OTHER -> state

\* Mutant: the state a transient one resolves to is not entered.
CommandOfFirst(state) ==
    IF state = "DESCENDING" THEN "goto" ELSE IF state = "ASCENDING" THEN "climb"
    ELSE IF state = "RTL" THEN "rtl" ELSE command

\* The flight command of the state entered.
CommandOf(state) ==
    CASE state = "DESCENDING" -> "goto" [] state = "ASCENDING" -> "climb"
      [] state \in Terminal -> "rtl" [] OTHER -> command

\* Mutant: a search from the start is a search of the first radius.
WidenedAnew(first) ==
    IF Rest(first) = "SEARCHING_PERSON" THEN 0
    ELSE IF first = "EXPANDING_SEARCH_RADIUS" THEN radius + 1 ELSE radius

\* The search radius, kept through every later state.
Widened(first) == IF first = "EXPANDING_SEARCH_RADIUS" THEN radius + 1 ELSE radius

NoWindows == [c \in Channels |-> "off"]

\* The entry actions, from the row's target to the state that rests, with the
\* candidates, the zone, the retries and the windows as the handler left them.
Enter(first, zones, zone, tries, windows) ==
    LET state == Rest(first) IN
    /\ fsm' = state /\ waited' = FALSE
    /\ radius' = Widened(first)
    /\ candidates' = IF first = "ABORT_DESCENT" /\ Remaining # {} THEN Remaining ELSE zones
    /\ chosen' = IF state = "SEARCHING_PERSON" THEN NoZone ELSE zone
    /\ retries' = IF state = "SEARCHING_PERSON" THEN 0 ELSE tries
    /\ since' = IF state \in {"SEARCHING_PERSON", "AUTHENTICATING"} THEN NoWindows ELSE windows
    /\ command' = CommandOf(state)
    /\ released' = IF state = "RELEASING" THEN released + 1 ELSE released

\* advance: the event's row; without one nothing moves.
Advance(event, zones, zone, tries, windows) ==
    \E first \in Row(fsm, event) : Enter(first, zones, zone, tries, windows)
Raise(event) == Advance(event, candidates, chosen, retries, since) /\ UNCHANGED recipient

\* No event this step: the time in the state may be over.
CheckTimeout(windows) ==
    IF waited THEN Advance("timeout", candidates, chosen, retries, windows) /\ UNCHANGED recipient
    ELSE since' = windows /\ UNCHANGED <<fsm, waited, recipient, radius, candidates, chosen, retries, sent>>

-----------------------------------------------------------------------------
(* delivery_node.py                                                        *)

\* What every step does first: project, follow, remember where the recipient is.
Perceive ==
    /\ ids' \in [DOMAIN view -> Tracks] /\ Associated(ids')
    /\ tracks' = UpdateTracks(ids')
    /\ lastGround' = IF recipient # 0 /\ recipient \in ToSet(ids') THEN <<Seen(ids', recipient)>> ELSE lastGround
    /\ UNCHANGED <<view, terrain, alt>>

In(state) == fsm = state /\ Perceive /\ UNCHANGED signal
Someone == view # <<>>

\* A BLE event carries the time it was made, and is newer than the last.
Near(gap) == Max({-MaxGap, Min({MaxGap, gap})})
BleArrives == \E e \in Signals, later \in 0..2 * MaxGap : ble' = e /\ skew' = Near(skew + later)

StepSearchingPerson ==
    /\ In("SEARCHING_PERSON")
    /\ IF Someone THEN Raise("person_detected") ELSE CheckTimeout(since)

StepPersonFound ==
    /\ In("PERSON_FOUND")
    /\ IF Someone /\ DisambiguateRecipients(ble) # 0
       THEN /\ recipient' = ids'[DisambiguateRecipients(ble)]
            /\ Advance("person_confirmed", candidates, chosen, retries, since)
       ELSE CheckTimeout(since)

StepSearchingZone ==
    /\ In("SEARCHING_ZONE")
    /\ LET found == IF lastGround' = <<>> THEN {} ELSE ScoreCandidates(lastGround'[1])
       IN  IF found # {}
           THEN Advance("zone_found", found, chosen, retries, since) /\ UNCHANGED recipient
           ELSE CheckTimeout(since)

StepZoneFound ==
    /\ In("ZONE_FOUND")
    /\ \E best \in candidates :
          /\ \A z \in candidates : ~Better(z, best)
          /\ Advance("zone_confirmed", candidates, best, retries, since)
    /\ UNCHANGED recipient

StepDescending ==
    /\ In("DESCENDING")
    /\ IF VelocityAbort(tracks', recipient) \/ ZoneIntrusion(ids', recipient) THEN Raise("motion_abort")
       ELSE IF alt = 0 THEN Raise("altitude_reached") ELSE CheckTimeout(since)

\* The event is read to tell the people apart, and again to weigh the channels:
\* another may have come between.
StepAuthenticating ==
    /\ fsm = "AUTHENTICATING" /\ Perceive /\ (UNCHANGED signal \/ BleArrives)
    /\ LET i == IF Someone THEN DisambiguateRecipients(ble) ELSE 0
           verdict == Evaluate(i, ble', skew')
       IN  IF Someone /\ i = 0 THEN Raise("ambiguous")
           ELSE IF verdict[1] = "none" THEN CheckTimeout(verdict[2])
           ELSE Advance(verdict[1], candidates, chosen, retries, verdict[2]) /\ UNCHANGED recipient

\* Mutant: the retries are counted from zero to the limit.
StepHoverAndRetryOnceMore ==
    /\ In("HOVER_AND_RETRY")
    /\ IF ~Someone \/ DisambiguateRecipients(ble) = 0 THEN CheckTimeout(since)
       ELSE IF retries <= MaxRetries
       THEN Advance("retry", candidates, chosen, retries + 1, since) /\ UNCHANGED recipient
       ELSE Raise("retry_exhausted")

StepHoverAndRetry ==
    /\ In("HOVER_AND_RETRY")
    /\ IF ~Someone \/ DisambiguateRecipients(ble) = 0 THEN CheckTimeout(since)
       ELSE IF retries < MaxRetries
       THEN Advance("retry", candidates, chosen, retries + 1, since) /\ UNCHANGED recipient
       ELSE Raise("retry_exhausted")

\* The servo's second is over long before the state's eight.
StepReleasing ==
    /\ In("RELEASING")
    /\ IF waited THEN Raise("release_complete") ELSE CheckTimeout(since)

StepAscending ==
    /\ In("ASCENDING")
    /\ IF alt = 2 THEN Raise("ascend_complete") ELSE CheckTimeout(since)

StepTerminal ==
    /\ fsm \in Terminal /\ Perceive
    /\ UNCHANGED <<decision, waited, sent, signal>>

Step ==
    \/ StepSearchingPerson \/ StepPersonFound \/ StepSearchingZone \/ StepZoneFound
    \/ StepDescending \/ StepAuthenticating \/ StepHoverAndRetry \/ StepReleasing
    \/ StepAscending \/ StepTerminal

\* Time: the state's, a window's, and the flight controller flying what it was told.
StateWaits == /\ fsm \in Running /\ ~waited /\ waited' = TRUE
              /\ UNCHANGED <<decision, perception, sent, view, signal, terrain, alt>>
WindowEnds == \E c \in Channels :
    /\ since[c] = "on" /\ since' = [since EXCEPT ![c] = "over"]
    /\ UNCHANGED <<fsm, recipient, radius, candidates, chosen, retries, waited, perception, sent,
                   view, signal, terrain, alt>>
Fly == /\ alt' = (IF command = "goto" THEN Max({0, alt - 1})
                  ELSE IF command = "climb" THEN Min({2, alt + 1}) ELSE alt)
       /\ UNCHANGED <<decision, waited, perception, sent, view, signal, terrain>>

\* The inputs.  A camera frame carries the time it was made, later than the last.
CameraFrame ==
    /\ view' \in Views
    /\ \E later \in 1..2 * MaxGap :
          /\ skew' = Near(skew - later)
          /\ tracks' = [t \in DOMAIN tracks |->
                          [tracks[t] EXCEPT !.gap = Min({MaxGap, @ + later})]]
    /\ UNCHANGED <<decision, waited, ids, lastGround, sent, ble, terrain, alt>>
BleEvent == /\ BleArrives
            /\ UNCHANGED <<decision, waited, perception, sent, view, terrain, alt>>
TerrainMap == /\ terrain' \in Terrains
              /\ UNCHANGED <<decision, waited, perception, sent, view, signal, alt>>

Init ==
    /\ fsm = "SEARCHING_PERSON" /\ waited = FALSE /\ recipient = 0 /\ radius = 0
    /\ candidates = {} /\ chosen = NoZone /\ lastGround = <<>> /\ retries = 0
    /\ since = NoWindows /\ tracks = <<>> /\ ids = <<>>
    /\ view = <<>> /\ ble = [ok |-> FALSE, gps |-> <<>>, rssi |-> <<>>] /\ skew = 0
    /\ terrain \in Terrains /\ alt = 2 /\ command = "none" /\ released = 0

Next == Step \/ StateWaits \/ WindowEnds \/ Fly \/ CameraFrame \/ BleEvent \/ TerrainMap

\* The node steps at its rate, time passes, and the flight controller flies what
\* it is told; the camera and the phone may say nothing any more.
Fairness == WF_vars(Step) /\ WF_vars(StateWaits) /\ WF_vars(WindowEnds) /\ WF_vars(Fly)

Spec == Init /\ [][Next]_vars /\ Fairness

-----------------------------------------------------------------------------
\* The parcel is released once, when the descent to a zone scored and large enough
\* has come to the hover height, and only when a person in view and an authenticated
\* phone were seen together at places that agree.  Nobody else was as likely by the
\* BLE event read before it, which may be an older one than the one that agrees.
Witnessed ==
    /\ released = 0 /\ alt = 0 /\ command = "goto" /\ chosen.area >= MinArea
    /\ ble'.ok /\ HasPlace(ble') /\ InSync(skew')
    /\ \E i \in DOMAIN view : /\ Disagreement(view[i], ble') <= Allowed(ble')
                              /\ StandsOut(i, ble)
ReleaseIsWitnessed == [][released' # released => Witnessed]_vars

\* An attempt that is over has sent the aircraft home, and nothing after it:
\* whichever chain of transient states ended it.
EndsByGoingHome == fsm \in Terminal <=> command = "rtl"

\* When the view settles on nobody, or on the recipient alone, who was not last
\* seen moving fast, the attempt ends.  One who walks under a descending aircraft,
\* or is lost from view walking, may keep it going for ever: the zones are scored
\* anew after each abort.
Calm == /\ view = <<>> \/ (Len(view) = 1 /\ Len(ids) = 1 /\ recipient \in {0, ids[1]})
        /\ recipient \in DOMAIN tracks => ~tracks[recipient].fast
CalmAttemptsEnd == <>[]Calm => <>(fsm \in Terminal)

\* Every attempt ends (docs/novelty/mission_fsm.md: every path eventually resolves).
MissionResolves == <>(fsm \in Terminal)

=============================================================================
