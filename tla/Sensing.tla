------------------------------ MODULE Sensing ------------------------------
(***************************************************************************)
(* From the LiDAR's revolutions to what steers the aircraft: the driver    *)
(* and its reader thread (interfaces/lidar_interface.py), the LiDAR node   *)
(* with its persistence gate (nodes/lidar_node.py), the obstacle node with *)
(* its tracker (nodes/obstacle_node.py, obstacle_tracker.py) and the       *)
(* proximity node that feeds the flight controller (proximity_node.py).    *)
(*                                                                         *)
(* Each node is a thread polling at its own rate; what passes between them *)
(* is the newest revolution only.  A scan gives each bin of a small ring   *)
(* the range class of its nearest return, Far when it is blank.            *)
(*                                                                         *)
(* Abstracted: velocities.  The tracker's closest-first association is any *)
(* maximal pairing within the gate, and a coasted obstacle keeps the place *)
(* it was last seen at.  Time is counted in revolutions.                   *)
(***************************************************************************)
EXTENDS Integers, Sequences, SequencesExt

CONSTANTS
    NBins, Blind,            \* the ring, and its bins behind the aircraft
    MaxRange,                \* range classes 1..MaxRange
    AngularTol, RangeTol,    \* filter_angular_tol_bins, filter_range_tol_m
    Depth, MinSupport,       \* filter_depth, filter_min_support
    MinPoints, Fills,        \* min_points; the points a thin object fills, by range
    SparseHits, MaxMisses,   \* sparse_min_hits, max_misses
    Coast, MaxDt,            \* coast_s and max_dt_s, in revolutions
    SectorBins, NeedPoints,  \* bins per sector, proximity.min_points
    SectorDepth,             \* proximity.filter_depth
    Things,                  \* what may stand in view: records of bins and a range
    Specks, Quiet,           \* stray returns, and the revolutions read between two of them
    Window,                  \* revolutions after which a standing thing must be reported
    Memory,                  \* revolutions in which what steers must have stood
    MaxEvents                \* bound: changes of the world, lost returns, strays, outages, pauses, late consumers

Bins == 0..NBins - 1
Ranges == 1..MaxRange
Far == MaxRange + 1          \* math.inf, DISTANCE_UNKNOWN
Long == MaxDt + 1
Places == Bins \X Ranges
Sectors == {b \div SectorBins : b \in Bins}
Nothing == [bins |-> {}, range |-> 1]

ASSUME SensingAssumption ==
    /\ {NBins, MaxRange, Depth, MinSupport, MinPoints, SparseHits, SectorBins, NeedPoints,
        SectorDepth, Window, Memory} \subseteq Nat \ {0}
    /\ {AngularTol, RangeTol, MaxMisses, Coast, MaxDt, Quiet} \subseteq Nat
    /\ MaxEvents \in Nat
    /\ Blind \subseteq Bins /\ Blind # {}
    /\ Fills \in [Ranges -> 1..MinPoints]
    /\ Things \subseteq [bins : (SUBSET Bins) \ {{}}, range : Ranges]
    /\ Specks \subseteq Places

VARIABLES
    port,        \* the sensor answers on its serial port
    reader,      \* the reader thread runs
    connected,   \* RealLidar._connected
    newest,      \* the newest revolution in _scans not read yet, in a sequence
    connecting,  \* LidarNode is in _ensure_connected
    mode,        \* _scan_state
    history,     \* ScanFilter._history, oldest first
    scan,        \* /scan: the revolution published last
    fresh,       \* the consumers that have not processed it
    elapsed,     \* revolutions since the obstacle node's last, Long beyond max_dt_s
    tracks,      \* ObstacleTracker._tracks with _confirmed_last of each
    obstacles,   \* /obstacles: what was published last
    frames,      \* SectorFilter._frames
    fc,          \* OBSTACLE_DISTANCE as sent last
    thing,       \* the world: what stands in view
    quiet,       \* revolutions read since the last with a speck
    lately,      \* history: for the newest revolutions read without a break, whether the thing returned
    recent,      \* history: where the thing stood in the newest revolutions read
    budget       \* what is left of MaxEvents

driver == <<reader, connected, newest>>
lidar == <<connecting, mode, history, scan>>
tracker == <<elapsed, tracks, obstacles>>
proximity == <<frames, fc>>
world == <<port, thing, quiet>>
past == <<lately, recent>>
vars == <<driver, lidar, fresh, tracker, proximity, world, past, budget>>

Scans == [Bins -> 1..Far]
Track == [at : Places, hits : 1..SparseHits, misses : 0..MaxMisses,
          known : BOOLEAN, seen : Places, age : 0..Coast]

\* The windows are bounded, the tracks and what is published well formed.
TypeOK ==
    /\ {port, reader, connected, connecting} \subseteq BOOLEAN
    /\ Len(newest) <= 1 /\ Len(history) <= Depth /\ Len(frames) <= SectorDepth
    /\ mode \in {"SCANNING", "PAUSED", "STOPPED"}
    /\ \A i \in DOMAIN history : history[i] \in Scans
    /\ scan \in Scans /\ fresh \subseteq {"obstacles", "proximity"}
    /\ elapsed \in 0..Long /\ quiet \in 0..Quiet
    /\ \A i \in DOMAIN tracks : tracks[i] \in Track
    /\ obstacles \subseteq [at : Places, coasted : BOOLEAN]
    /\ fc \in [Sectors -> 1..Far]
    /\ budget \in 0..MaxEvents

-----------------------------------------------------------------------------
(* The ring.                                                               *)

Ring(b) == b % NBins
Away(b, c) == Min({Ring(b - c), Ring(c - b)})
Around(b) == {c \in Bins : Away(b, c) <= AngularTol}
Differ(r, q) == IF r < q THEN q - r ELSE r - q
Near(p, q) == Away(p[1], q[1]) <= AngularTol /\ Differ(p[2], q[2]) <= RangeTol
Latest(s, n) == IF Len(s) > n THEN SubSeq(s, Len(s) - n + 1, Len(s)) ELSE s
Nearest(scn, bs) == Min({scn[b] : b \in bs})

\* A blank bin: build_empty_ranges.
Blank == [b \in Bins |-> Far]
\* FovMask: the bins behind the aircraft never enter a scan.
Keeps(b) == b \notin Blind

\* Where the thing stands, and the scan of a revolution with these returns:
\* the nearest return of each bin.
Stands(t) == {<<b, t.range>> : b \in t.bins}
LaserScan(returns) == [b \in Bins |->
    IF Keeps(b) THEN Min({p[2] : p \in {q \in returns : q[1] = b}} \cup {Far}) ELSE Far]

-----------------------------------------------------------------------------
(* The persistence gate (ScanFilter).                                      *)

Corroborations(b, r) == Cardinality({i \in DOMAIN history :
    \E c \in Around(b) : history[i][c] # Far /\ Differ(history[i][c], r) <= RangeTol})

\* The newest revolution holds something a step farther at this bearing.
FastApproach(b, r) ==
    LET prev == Nearest(history[Len(history)], Around(b))
    IN  prev # Far /\ prev - r \in 1..RangeTol

\* Mutant: one revolution is enough.
SupportedByOne(b, r) == Corroborations(b, r) >= 1 \/ FastApproach(b, r)

Supported(b, r) == Corroborations(b, r) >= MinSupport \/ FastApproach(b, r)

\* The first revolutions pass as they are.
Filtered(scn) ==
    IF Len(history) < Depth THEN scn
    ELSE [b \in Bins |-> IF scn[b] # Far /\ Supported(b, scn[b]) THEN scn[b] ELSE Far]

-----------------------------------------------------------------------------
(* The obstacle node: clusters, tracks, coasting.                          *)

Arc(b, n) == {Ring(b + k) : k \in 0..n - 1}
Joined(scn, b, c) == scn[b] # Far /\ scn[c] # Far /\ Differ(scn[b], scn[c]) <= RangeTol

\* The maximal runs of neighbouring returns, each as its first bin and length; a
\* run may cross the seam of the ring.
Clusters(scn) == {c \in Bins \X (1..NBins) :
    /\ scn[c[1]] # Far
    /\ \A k \in 1..c[2] - 1 : Joined(scn, Ring(c[1] + k - 1), Ring(c[1] + k))
    /\ ~Joined(scn, Ring(c[1] - 1), c[1])
    /\ ~Joined(scn, Ring(c[1] + c[2] - 1), Ring(c[1] + c[2]))}

\* An obstacle stands at the first nearest point of its cluster.
Describe(scn, c) ==
    LET r == Nearest(scn, Arc(c[1], c[2]))
        k == Min({j \in 0..c[2] - 1 : scn[Ring(c[1] + j)] = r})
    IN  [at |-> <<Ring(c[1] + k), r>>, points |-> c[2]]

RequiredPoints(r) == Fills[r]

\* The clusters large enough for their range.
Detect(scn) == {o \in {Describe(scn, c) : c \in Clusters(scn)} : o.points >= RequiredPoints(o.at[2])}

NewTrack(o) == [at |-> o.at, hits |-> 1, misses |-> 0, known |-> FALSE, seen |-> o.at, age |-> 0]

\* The pairings of obstacles with tracks: within the gate, one to one, and
\* leaving no pair within the gate that could still be joined.
Associate(obs) == {m \in [obs -> 0..Len(tracks)] :
    /\ \A o \in obs : m[o] # 0 => Near(o.at, tracks[m[o]].at)
    /\ \A o, p \in obs : m[o] = m[p] /\ m[o] # 0 => o = p
    /\ \A o \in obs, i \in DOMAIN tracks :
          m[o] = 0 /\ Near(o.at, tracks[i].at) => \E p \in obs : m[p] = i}

Unpaired(m) == {o \in DOMAIN m : m[o] = 0}
\* The obstacle paired with track i, in a set.
PairOf(m, i) == {o \in DOMAIN m : m[o] = i}

\* A match adds a hit and ends the misses; a miss adds one.
Advance(m, i) == LET t == tracks[i] IN
    IF PairOf(m, i) # {}
    THEN [t EXCEPT !.at = (CHOOSE o \in PairOf(m, i) : TRUE).at,
                   !.hits = Min({@ + 1, SparseHits}), !.misses = 0]
    ELSE [t EXCEPT !.misses = @ + 1]

\* Dense clusters are published at once, sparse ones when their track has the hits.
Confirmed(o, hits) == o.points >= MinPoints \/ hits >= SparseHits

\* Mutant: a missing obstacle is forgotten.
RememberHits(t, obs) ==
    IF obs # {} THEN [t EXCEPT !.known = TRUE, !.age = 0, !.seen = (CHOOSE o \in obs : TRUE).at]
    ELSE [t EXCEPT !.known = FALSE, !.age = 0]

\* _confirmed_last: a confirmed obstacle is remembered, a missing one grows old.
Remember(t, obs) ==
    IF obs # {} THEN [t EXCEPT !.known = TRUE, !.age = 0, !.seen = (CHOOSE o \in obs : TRUE).at]
    ELSE IF t.known /\ t.age + elapsed <= Coast THEN [t EXCEPT !.age = @ + elapsed]
    ELSE [t EXCEPT !.known = FALSE, !.age = 0]

\* Retire: a track that missed too often goes.
Retire(ts) == LET stays == {i \in DOMAIN ts : ts[i].misses <= MaxMisses}
                  order == SetToSeq(stays)
              IN  IF stays = DOMAIN ts THEN ts ELSE [k \in DOMAIN order |-> ts[order[k]]]

\* The gap is too long to follow anything across: every obstacle starts a track.
Reseed(obs) == {<<SetToSeq({Remember(NewTrack(o), {p \in {o} : Confirmed(p, 0)}) : o \in obs}),
                  {o \in obs : Confirmed(o, 0)}>>}

\* The outcomes of a revolution: the tracks, and the obstacles confirmed.
Follow(obs) == {
    LET hits(o) == IF m[o] = 0 THEN 0 ELSE Advance(m, m[o]).hits
        confirmed == {o \in obs : Confirmed(o, hits(o))}
        kept == [i \in DOMAIN tracks |-> Remember(Advance(m, i), PairOf(m, i) \cap confirmed)]
        new == {Remember(NewTrack(o), {o} \cap confirmed) : o \in Unpaired(m)}
    IN  <<Retire(kept) \o SetToSeq(new), confirmed>> : m \in Associate(obs)}

\* What is published: the confirmed ones, and the remembered ones among the missing.
WithCoasted(ts, confirmed) ==
    {[at |-> o.at, coasted |-> FALSE] : o \in confirmed}
    \cup {[at |-> ts[i].seen, coasted |-> TRUE] : i \in {j \in DOMAIN ts : ts[j].known /\ ts[j].age > 0}}

-----------------------------------------------------------------------------
(* The proximity node: scan_to_sectors and SectorFilter.                   *)

\* The n-th smallest of a family of readings, Far when there are not as many.
Smallest(n, reading, keys) ==
    Min({r \in Ranges : Cardinality({k \in keys : reading[k] <= r}) >= n} \cup {Far})

ScanToSectors(scn) == [s \in Sectors |->
    Smallest(NeedPoints, scn, {b \in Bins : b \div SectorBins = s})]

Median(fs) == [s \in Sectors |->
    Smallest(Len(fs) \div 2 + 1, [i \in DOMAIN fs |-> fs[i][s]], DOMAIN fs)]

\* The median over the frames; a sector two frames agree has closed in goes out
\* at once, at the farther of the two.
SectorUpdate(fs) ==
    IF Len(fs) < SectorDepth \/ SectorDepth = 1 THEN fs[Len(fs)]
    ELSE [s \in Sectors |->
            LET pair == {fs[Len(fs)][s], fs[Len(fs) - 1][s]}
            IN  IF Far \notin pair THEN Min({Max(pair), Median(fs)[s]}) ELSE Median(fs)[s]]

-----------------------------------------------------------------------------
Init ==
    /\ port = TRUE /\ reader = FALSE /\ connected = FALSE /\ newest = <<>>
    /\ connecting = TRUE /\ mode = "SCANNING" /\ history = <<>> /\ scan = Blank
    /\ fresh = {} /\ elapsed = Long /\ tracks = <<>> /\ obstacles = {}
    /\ frames = <<>> /\ fc = [s \in Sectors |-> Far]
    /\ thing = Nothing /\ quiet = Quiet /\ lately = <<>> /\ recent = <<>>
    /\ budget = MaxEvents

Spends(events) == events <= budget /\ budget' = budget - events
Count(condition) == IF condition THEN 1 ELSE 0

\* A thing nearer by a range: it fills the points a thin object fills there.
Closer(t) == LET r == t.range - 1 IN
    [range |-> r, bins |-> IF Cardinality(t.bins) >= Fills[r] THEN t.bins
                           ELSE t.bins \cup {Ring(b + 1) : b \in t.bins}]

\* The world between two revolutions: a thing comes into view, leaves, comes
\* nearer, or passes to the side as the aircraft turns.
Moves(t) ==
    IF t = Nothing THEN Things
    ELSE {Nothing, [t EXCEPT !.bins = {Ring(b + 1) : b \in @}]}
         \cup (IF t.range > 1 THEN {Closer(t)} ELSE {})

\* The sensor's cable drops out and is back.
Plugs(p, spent) == /\ port = ~p /\ port' = p /\ spent
                   /\ UNCHANGED <<thing, quiet, driver, lidar, fresh, tracker, proximity, past>>
Unplug == Plugs(FALSE, Spends(1))
Replug == Plugs(TRUE, UNCHANGED budget)

\* The reader thread commits a revolution; one not read yet is dropped.  A
\* consumer that is behind is one of the bounded lapses.
Revolve ==
    /\ port /\ reader
    /\ \E t \in {thing} \cup Moves(thing), lost \in BOOLEAN, specks \in {{}} \cup {{p} : p \in Specks} :
        /\ thing' = t
        /\ lost => t # Nothing
        /\ specks # {} => quiet = Quiet
        /\ LET behind == fresh # {} \/ (mode = "SCANNING" /\ newest # <<>>)
           IN  Spends(Count(t # thing) + Count(lost) + Count(specks # {}) + Count(behind))
        /\ newest' = <<[ranges |-> LaserScan(specks \cup (IF lost THEN {} ELSE Stands(t))),
                        stood |-> Stands(t), lost |-> lost, stray |-> specks # {},
                        broken |-> newest # <<>>]>>
    /\ elapsed' = Min({elapsed + 1, Long})
    /\ UNCHANGED <<port, quiet, reader, connected, lidar, fresh, tracks, obstacles, proximity, past>>

\* Mutant: the thread ends without a word.
GiveUpQuietly ==
    /\ ~port /\ reader
    /\ reader' = FALSE /\ UNCHANGED connected
    /\ UNCHANGED <<newest, lidar, fresh, tracker, proximity, world, past, budget>>

\* Too many failed reads in a row: the thread ends and says so.
GiveUp ==
    /\ ~port /\ reader
    /\ reader' = FALSE /\ connected' = FALSE
    /\ UNCHANGED <<newest, lidar, fresh, tracker, proximity, world, past, budget>>

\* step: the link is down, and the node stays with connecting until it is up.
EnsureConnected ==
    /\ ~connecting /\ mode = "SCANNING" /\ ~connected
    /\ connecting' = TRUE
    /\ UNCHANGED <<mode, history, scan, driver, fresh, tracker, proximity, world, past, budget>>

\* connect: the old reader is joined, its scans are dropped, a new one starts
\* after the five seconds the motor needs, more than any node lets a scan wait.
Connect ==
    /\ connecting /\ port /\ fresh = {}
    /\ connecting' = FALSE /\ reader' = TRUE /\ connected' = TRUE /\ newest' = <<>>
    /\ elapsed' = Long
    /\ UNCHANGED <<mode, history, scan, fresh, tracks, obstacles, proximity, world, past, budget>>

\* The operator's services.
Sets(ms, m) == /\ mode \in ms /\ mode' = m
               /\ UNCHANGED <<connecting, history, scan, driver, fresh, tracker, proximity, world, past>>
Pause == Spends(1) /\ Sets({"SCANNING"}, "PAUSED")
Stop == Spends(1) /\ Sets({"SCANNING", "PAUSED"}, "STOPPED")
Resume == UNCHANGED budget /\ Sets({"PAUSED"}, "SCANNING")
Start == UNCHANGED budget /\ Sets({"PAUSED", "STOPPED"}, "SCANNING")

\* step: the newest revolution is filtered, remembered as it was, and published.
ReadScan ==
    /\ ~connecting /\ mode = "SCANNING" /\ connected /\ newest # <<>>
    /\ LET got == newest[1] IN
        /\ scan' = Filtered(got.ranges)
        /\ history' = Latest(Append(history, got.ranges), Depth)
        /\ quiet' = IF got.stray THEN 0 ELSE Min({quiet + 1, Quiet})
        /\ recent' = Latest(Append(recent, got.stood), Memory)
        /\ lately' = IF got.broken \/ fresh # {} \/ got.stood = {} \/ elapsed # 1 THEN <<>>
                     ELSE Latest(Append(lately, ~got.lost), Window)
    /\ newest' = <<>> /\ fresh' = {"obstacles", "proximity"}
    /\ UNCHANGED <<reader, connected, connecting, mode, tracker, proximity, port, thing, budget>>

\* A revolution not processed yet is followed, or everything starts anew.
Obstacles ==
    /\ "obstacles" \in fresh /\ fresh' = fresh \ {"obstacles"} /\ elapsed' = 0
    /\ \E out \in IF elapsed > MaxDt THEN Reseed(Detect(scan)) ELSE Follow(Detect(scan)) :
        /\ tracks' = out[1]
        /\ obstacles' = WithCoasted(out[1], out[2])
    /\ UNCHANGED <<driver, lidar, proximity, world, past, budget>>

Proximity ==
    /\ "proximity" \in fresh /\ fresh' = fresh \ {"proximity"}
    /\ frames' = Latest(Append(frames, ScanToSectors(scan)), SectorDepth)
    /\ fc' = SectorUpdate(frames')
    /\ UNCHANGED <<driver, lidar, tracker, world, past, budget>>

\* What the threads do by themselves.
Work == GiveUp \/ EnsureConnected \/ Connect \/ ReadScan \/ Proximity \/ Obstacles

Next ==
    \/ Unplug \/ Replug \/ Revolve
    \/ Pause \/ Stop \/ Resume \/ Start
    \/ Work

\* The threads keep stepping, and a port that answers keeps answering; the
\* operator, the world and the cable are free.
Fairness == WF_vars(Revolve) /\ WF_vars(Work)

Spec == Init /\ [][Next]_vars /\ Fairness

-----------------------------------------------------------------------------
\* Strays that stand alone never steer: whatever is published, coasted or not, belongs
\* to something that stood there in one of the newest revolutions read, and a distance
\* the flight controller is given to something that stood in that sector, no farther.
\* Until the gate has its revolutions a stray may draw the distance out, never in.
Remembered == UNION {recent[i] : i \in DOMAIN recent}
InSector(p, s) == \E b \in Around(p[1]) : b \div SectorBins = s
OnlyObjectsSteer ==
    fresh = {} =>
    /\ \A o \in obstacles : \E p \in Remembered : Near(o.at, p)
    /\ \A s \in Sectors : fc[s] # Far =>
          \E p \in Remembered : /\ InSector(p, s) /\ p[2] <= fc[s] + RangeTol
                                /\ Len(recent) = Memory => fc[s] <= p[2] + RangeTol

\* A thing in view for a window of unbroken revolutions is published once the
\* newest of them is processed, even when one of them did not return it.
SteadyObjectReported ==
    (Len(lately) = Window /\ Cardinality({i \in 1..Window : ~lately[i]}) <= 1 /\ "obstacles" \notin fresh)
        => \E o \in obstacles, p \in recent[Len(recent)] : Near(o.at, p)

\* When the cable holds and the operator lets the sensor scan, the picture ends
\* up agreeing with the world: a thing in view is in it, and without one it is
\* empty, after any outage, pause, stray or missed revolution.
InView == {p \in Stands(thing) : Keeps(p[1])}
Agrees == IF InView = {} THEN obstacles = {}
          ELSE \E o \in obstacles, p \in InView : Near(o.at, p)
PictureSettles == <>[](port /\ mode = "SCANNING") => <>[]Agrees

=============================================================================
