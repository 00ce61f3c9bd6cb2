---------------------------- MODULE AssuranceProofs ----------------------------
(***************************************************************************)
(* The assurance layer, for every terrain, view, signal, threshold and     *)
(* limit: an attempt that is over has sent the aircraft home, and one that *)
(* is not has not; the state keeps its types, the candidates among them;   *)
(* and the parcel is released on a witnessed delivery only.                *)
(*                                                                         *)
(* The first is inductive as it stands: the table has no row out of a      *)
(* terminal state, so every entry is made from a running state.  The other *)
(* two need to know where the descent stands (Course): what was chosen is  *)
(* large enough, the aircraft is at the hover height while the recipient   *)
(* is being authenticated, the servo has not run, and the radius is still  *)
(* below the largest.  Three lemmas about the algorithms carry the rest:   *)
(* of the zones scored no more are kept than the limit, each large enough; *)
(* the detection taken for the recipient stands out by the margin; *)
(* a verdict that succeeds is of two channels in time that agree.          *)
(***************************************************************************)
EXTENDS Assurance, FiniteSetTheorems, FunctionTheorems, WellFoundedInduction, TLAPS

-----------------------------------------------------------------------------
(* Going home.                                                             *)

\* A step of a handler that leaves what the invariant is about alone.
Stays == UNCHANGED <<fsm, command>>

\* Where an attempt is not over, its entries keep the invariant.
LEMMA EnterKeeps ==
    ASSUME EndsByGoingHome, fsm \notin Terminal,
           NEW first, NEW zones, NEW zone, NEW tries, NEW windows,
           Enter(first, zones, zone, tries, windows)
    PROVE  EndsByGoingHome'
<1> DEFINE state == Rest(first)
<1>1. fsm' = state /\ command' = CommandOf(state)
  BY DEF Enter
<1>2. command # "rtl"
  BY DEF EndsByGoingHome
<1>3. CommandOf(state) = "rtl" <=> state \in Terminal
  <2> HIDE DEF state
  <2>1. CASE state = "DESCENDING"
    BY <2>1 DEF CommandOf, Terminal
  <2>2. CASE state = "ASCENDING"
    BY <2>2 DEF CommandOf, Terminal
  <2>3. CASE state \in Terminal
    BY <2>3 DEF CommandOf, Terminal
  <2>4. CASE state # "DESCENDING" /\ state # "ASCENDING" /\ state \notin Terminal
    BY <1>2, <2>4 DEF CommandOf
  <2> QED BY <2>1, <2>2, <2>3, <2>4
<1> QED BY <1>1, <1>3 DEF EndsByGoingHome

LEMMA AdvanceKeeps ==
    ASSUME EndsByGoingHome, fsm \notin Terminal,
           NEW event, NEW zones, NEW zone, NEW tries, NEW windows,
           Advance(event, zones, zone, tries, windows)
    PROVE  EndsByGoingHome'
BY EnterKeeps DEF Advance

LEMMA RaiseKeeps ==
    ASSUME EndsByGoingHome, fsm \notin Terminal, NEW event, Raise(event)
    PROVE  EndsByGoingHome'
BY AdvanceKeeps DEF Raise

LEMMA TimeoutKeeps ==
    ASSUME EndsByGoingHome, fsm \notin Terminal, NEW windows, CheckTimeout(windows)
    PROVE  EndsByGoingHome'
<1>1. CASE waited
  BY <1>1, AdvanceKeeps DEF CheckTimeout
<1>2. CASE ~waited
  BY <1>2 DEF CheckTimeout, sent, EndsByGoingHome
<1> QED BY <1>1, <1>2

-----------------------------------------------------------------------------
(* The handlers.  Each is in one running state, and advances, or looks at  *)
(* the time.                                                               *)

LEMMA StepKeeps ==
    ASSUME EndsByGoingHome, Step
    PROVE  EndsByGoingHome'
<1> USE DEF In, Terminal
<1>1. CASE StepSearchingPerson
  BY <1>1, RaiseKeeps, TimeoutKeeps DEF StepSearchingPerson
<1>2. CASE StepPersonFound
  BY <1>2, AdvanceKeeps, TimeoutKeeps DEF StepPersonFound
<1>3. CASE StepSearchingZone
  BY <1>3, AdvanceKeeps, TimeoutKeeps DEF StepSearchingZone
<1>4. CASE StepZoneFound
  BY <1>4, AdvanceKeeps DEF StepZoneFound
<1>5. CASE StepDescending
  BY <1>5, RaiseKeeps, TimeoutKeeps DEF StepDescending
<1>6. CASE StepAuthenticating
  BY <1>6, RaiseKeeps, AdvanceKeeps, TimeoutKeeps DEF StepAuthenticating
<1>7. CASE StepHoverAndRetry
  BY <1>7, RaiseKeeps, AdvanceKeeps, TimeoutKeeps DEF StepHoverAndRetry
<1>8. CASE StepReleasing
  BY <1>8, RaiseKeeps, TimeoutKeeps DEF StepReleasing
<1>9. CASE StepAscending
  BY <1>9, RaiseKeeps, TimeoutKeeps DEF StepAscending
<1>10. CASE StepTerminal
  BY <1>10 DEF StepTerminal, decision, sent, EndsByGoingHome
<1> QED BY <1>1, <1>2, <1>3, <1>4, <1>5, <1>6, <1>7, <1>8, <1>9, <1>10 DEF Step

LEMMA OthersStay ==
    ASSUME StateWaits \/ WindowEnds \/ Fly \/ CameraFrame \/ BleEvent \/ TerrainMap \/ UNCHANGED vars
    PROVE  Stays
BY DEF StateWaits, WindowEnds, Fly, CameraFrame, BleEvent, TerrainMap, vars, decision, sent, Stays

\* An attempt is over exactly when the last flight command is to go home: whichever
\* chain of transient states ended it (_on_state_entered).
THEOREM AttemptsEndAtHome == Spec => []EndsByGoingHome
<1>1. Init => EndsByGoingHome
  BY DEF Init, EndsByGoingHome, Terminal
<1>2. ASSUME EndsByGoingHome, [Next]_vars PROVE EndsByGoingHome'
  <2>1. CASE Step
    BY <1>2, <2>1, StepKeeps
  <2>2. CASE Stays
    BY <1>2, <2>2 DEF Stays, EndsByGoingHome
  <2> QED BY <1>2, <2>1, <2>2, OthersStay DEF Next
<1> QED BY <1>1, <1>2, PTL DEF Spec

-----------------------------------------------------------------------------
(* Numbers.                                                                *)

\* A set of natural numbers that holds one has a least.
LEMMA LeastNumber ==
    ASSUME NEW T \in SUBSET Nat, T # {}
    PROVE  \E x \in T : \A y \in T : x <= y
<1> DEFINE R == {ss \in Nat \X Nat : ss[1] < ss[2]}
<1>1. IsWellFoundedOn(R, Nat)
  BY NatLessThanWellFounded DEF OpToRel
<1>2. PICK x \in T : \A y \in T : <<y, x>> \notin R
  <2> HIDE DEF R
  <2> QED BY <1>1, WFMin
<1>3. ASSUME NEW y \in T PROVE x <= y
  <2>1. <<y, x>> \notin R
    <3> HIDE DEF R
    <3> QED BY <1>2
  <2>2. ~(<<y, x>>[1] < <<y, x>>[2])
    BY <2>1
  <2> QED BY <2>2
<1> QED BY <1>3

LEMMA LeastIn ==
    ASSUME NEW T \in SUBSET Nat, T # {}
    PROVE  Min(T) \in T
BY LeastNumber DEF Min

\* So has a bounded one a greatest.
LEMMA GreatestNumber ==
    ASSUME NEW T \in SUBSET Nat, T # {}, NEW n \in Nat, \A x \in T : x < n
    PROVE  \E x \in T : \A y \in T : y <= x
<1> DEFINE U == {m \in Nat : n - m \in T}
<1>1. U \in SUBSET Nat /\ U # {}
  <2>1. PICK x \in T : x < n
    OBVIOUS
  <2>2. n - x \in Nat /\ n - (n - x) = x
    BY <2>1
  <2>3. n - x \in U
    BY <2>2
  <2> QED BY <2>3
<1>2. PICK m \in U : \A k \in U : m <= k
  <2> HIDE DEF U
  <2> QED BY <1>1, LeastNumber
<1>3. m \in Nat /\ n - m \in T
  BY <1>2
<1>4. ASSUME NEW y \in T PROVE y <= n - m
  <2>1. n - y \in Nat /\ n - (n - y) = y
    OBVIOUS
  <2>2. n - y \in U
    BY <2>1
  <2>3. m <= n - y
    BY <1>2, <2>2
  <2> QED BY <1>3, <2>1, <2>3
<1> QED BY <1>3, <1>4

\* The settings are numbers.
LEMMA Settings ==
    /\ {Reach, MinArea, TopK, MaxRadius, Tol, RssiTol, MaxGap, MaxTracks} \subseteq Nat \ {0}
    /\ {BandMin, BandMax, MinScore, Alpha, Beta, Margin, SyncWindow, Association, MaxSpeed,
        IntrusionRadius, MaxRetries} \subseteq Nat
  BY AssuranceAssumption

LEMMA BandViolationNumber ==
    ASSUME NEW d \in Int
    PROVE  BandViolation(d) \in Int
<1> DEFINE a == BandMin - d
           b == d - BandMax
<1>1. a \in Int /\ b \in Int
  <2>1. BandMin \in Nat /\ BandMax \in Nat
    BY Settings
  <2> QED BY <2>1
<1> HIDE DEF a, b
<1>2. \E x \in {0, a, b} : \A y \in {0, a, b} : x >= y
  BY <1>1
<1>3. Max({0, a, b}) \in {0, a, b}
  BY <1>2 DEF Max
<1> QED BY <1>1, <1>3 DEF a, b, BandViolation

\* Stamps lie no further apart than matters.
LEMMA NearBounds ==
    ASSUME NEW n \in Int
    PROVE  Near(n) \in -MaxGap..MaxGap
<1>1. MaxGap \in Nat
  BY AssuranceAssumption
<1> DEFINE m == Min({MaxGap, n})
<1>2. \E x \in {MaxGap, n} : \A y \in {MaxGap, n} : x <= y
  BY <1>1
<1>3. m \in {MaxGap, n} /\ m <= MaxGap
  BY <1>1, <1>2 DEF Min
<1> HIDE DEF m
<1> DEFINE g == -MaxGap
<1>4. g \in Int
  BY <1>1
<1>5. \E x \in {g, m} : \A y \in {g, m} : x >= y
  BY <1>1, <1>3, <1>4
<1>6. Max({g, m}) \in {g, m} /\ Max({g, m}) >= g
  BY <1>1, <1>3, <1>4, <1>5 DEF Max
<1> QED BY <1>1, <1>3, <1>6 DEF Near, m

LEMMA DistanceNumber ==
    ASSUME NEW n \in Int
    PROVE  Abs(n) \in Int
BY DEF Abs

-----------------------------------------------------------------------------
(* The choice of a zone.  A component is known by any of its cells, so a   *)
(* zone is known by the cell that stands for it, and the order of the      *)
(* candidates is total: no more of them than the limit have fewer than the *)
(* limit ahead of them.                                                    *)

Standing(person) == {s \in Cells \X SafeComponents : StandsFor(s[1], s[2], person)}
Zones(person) == {z \in {ZoneOf(s[1], s[2], person) : s \in Standing(person)} :
                     z.area >= MinArea /\ z.score >= MinScore}
Rank(zones, z) == Cardinality({y \in zones : Better(y, z)})

\* What was large enough when it was scored.
Sound(z) == z.area >= MinArea

Ground == terrain \in [Cells -> 0..2]

LEMMA CellsFinite == IsFiniteSet(Cells) /\ Cells \subseteq Int
<1>1. Reach \in Int /\ -Reach \in Int
  BY AssuranceAssumption
<1>2. IsFiniteSet(-Reach..Reach)
  BY <1>1, FS_Interval
<1> QED BY <1>1, <1>2 DEF Cells

LEMMA SameComponent ==
    ASSUME NEW p \in SafeComponents, NEW q \in SafeComponents,
           NEW c \in p[1]..p[2], c \in q[1]..q[2]
    PROVE  p[1] = q[1] /\ p[2] = q[2]
<1>1. /\ p[1] \in Cells /\ p[2] \in Cells /\ q[1] \in Cells /\ q[2] \in Cells
      /\ p[1] - 1 \in Cells => terrain[p[1] - 1] = 0
      /\ p[2] + 1 \in Cells => terrain[p[2] + 1] = 0
      /\ q[1] - 1 \in Cells => terrain[q[1] - 1] = 0
      /\ q[2] + 1 \in Cells => terrain[q[2] + 1] = 0
      /\ \A d \in p[1]..p[2] : terrain[d] > 0
      /\ \A d \in q[1]..q[2] : terrain[d] > 0
  BY DEF SafeComponents
<1>2. /\ p[1] \in -Reach..Reach /\ p[2] \in -Reach..Reach
      /\ q[1] \in -Reach..Reach /\ q[2] \in -Reach..Reach /\ Reach \in Nat
  BY <1>1, AssuranceAssumption DEF Cells
<1>3. ~(p[1] < q[1])
  <2> SUFFICES ASSUME p[1] < q[1] PROVE FALSE
    OBVIOUS
  <2>1. q[1] - 1 \in p[1]..p[2] /\ q[1] - 1 \in Cells
    BY <1>2 DEF Cells
  <2> QED BY <1>1, <2>1
<1>4. ~(q[1] < p[1])
  <2> SUFFICES ASSUME q[1] < p[1] PROVE FALSE
    OBVIOUS
  <2>1. p[1] - 1 \in q[1]..q[2] /\ p[1] - 1 \in Cells
    BY <1>2 DEF Cells
  <2> QED BY <1>1, <2>1
<1>5. ~(p[2] < q[2])
  <2> SUFFICES ASSUME p[2] < q[2] PROVE FALSE
    OBVIOUS
  <2>1. p[2] + 1 \in q[1]..q[2] /\ p[2] + 1 \in Cells
    BY <1>2 DEF Cells
  <2> QED BY <1>1, <2>1
<1>6. ~(q[2] < p[2])
  <2> SUFFICES ASSUME q[2] < p[2] PROVE FALSE
    OBVIOUS
  <2>1. q[2] + 1 \in p[1]..p[2] /\ q[2] + 1 \in Cells
    BY <1>2 DEF Cells
  <2> QED BY <1>1, <2>1
<1> QED BY <1>2, <1>3, <1>4, <1>5, <1>6

\* What a standing pair gives.
LEMMA StandingZone ==
    ASSUME Ground, NEW person \in Cells, NEW s \in Standing(person)
    PROVE  LET z == ZoneOf(s[1], s[2], person)
           IN  /\ z \in Zone /\ z.at = s[1] /\ terrain[z.at] > 0
               /\ s[1] \in s[2][1]..s[2][2] /\ s[2] \in SafeComponents
<1>1. s[1] \in Cells /\ s[2] \in SafeComponents /\ StandsFor(s[1], s[2], person)
  BY DEF Standing
<1>2. s[1] \in s[2][1]..s[2][2]
  BY <1>1 DEF StandsFor
<1>3. /\ s[2][1] \in Cells /\ s[2][2] \in Cells /\ s[2][1] <= s[2][2]
      /\ \A c \in s[2][1]..s[2][2] : terrain[c] > 0
  <2> DEFINE p == s[2]
  <2>1. p \in SafeComponents
    BY <1>1
  <2>2. p[1] \in Cells /\ p[2] \in Cells /\ p[1] <= p[2] /\ \A c \in p[1]..p[2] : terrain[c] > 0
    <3> HIDE DEF p
    <3> QED BY <2>1 DEF SafeComponents
  <2> QED BY <2>2
<1> DEFINE area == s[2][2] - s[2][1] + 1
           n == Abs(s[1] - person)
<1>4. area \in Nat
  <2>1. s[2][1] \in Int /\ s[2][2] \in Int /\ s[2][1] <= s[2][2]
    BY <1>3, CellsFinite
  <2> QED BY <2>1
<1>5. BandViolation(n) \in Int
  <2>1. s[1] - person \in Int
    <3>1. s[1] \in Int /\ person \in Int
      BY <1>1, CellsFinite
    <3> QED BY <3>1
  <2>2. n \in Int
    BY <2>1 DEF Abs
  <2> HIDE DEF n
  <2> QED BY <2>2, BandViolationNumber
<1>6. terrain[s[1]] \in Int
  BY <1>1 DEF Ground
<1>7. ScoreCell(s[1], area, person) \in Int
  BY <1>4, <1>5, <1>6 DEF ScoreCell
<1>8. ZoneOf(s[1], s[2], person) = [at |-> s[1], area |-> area, score |-> ScoreCell(s[1], area, person)]
  BY DEF ZoneOf
<1> HIDE DEF area
<1> QED BY <1>1, <1>2, <1>3, <1>4, <1>7, <1>8 DEF Zone

LEMMA ZonesApart ==
    ASSUME Ground, NEW person \in Cells,
           NEW y \in Zones(person), NEW z \in Zones(person), y.at = z.at
    PROVE  y = z
<1>1. PICK s \in Standing(person) : y = ZoneOf(s[1], s[2], person)
  BY DEF Zones
<1>2. PICK t \in Standing(person) : z = ZoneOf(t[1], t[2], person)
  BY DEF Zones
<1>3. /\ y.at = s[1] /\ s[1] \in s[2][1]..s[2][2] /\ s[2] \in SafeComponents
      /\ z.at = t[1] /\ t[1] \in t[2][1]..t[2][2] /\ t[2] \in SafeComponents
  BY <1>1, <1>2, StandingZone
<1>4. s[1] = t[1]
  BY <1>3
<1>5. s[2][1] = t[2][1] /\ s[2][2] = t[2][2]
  BY <1>3, <1>4, SameComponent
<1> QED BY <1>1, <1>2, <1>4, <1>5 DEF ZoneOf

LEMMA ZonesSound ==
    ASSUME Ground, NEW person \in Cells
    PROVE  /\ Zones(person) \subseteq Zone /\ IsFiniteSet(Zones(person))
           /\ \A z \in Zones(person) : Sound(z)
<1>1. ASSUME NEW z \in Zones(person) PROVE z \in Zone /\ Sound(z)
  <2>1. PICK s \in Standing(person) : z = ZoneOf(s[1], s[2], person)
    BY DEF Zones
  <2>2. z \in Zone /\ terrain[z.at] > 0
    BY <2>1, StandingZone
  <2>3. z.area >= MinArea
    BY DEF Zones
  <2> QED BY <2>2, <2>3 DEF Sound
<1> DEFINE f == [z \in Zones(person) |-> z.at]
<1>2. f \in Injection(Zones(person), Cells)
  <2>1. f \in [Zones(person) -> Cells]
    BY <1>1 DEF Zone
  <2>2. \A y, z \in Zones(person) : f[y] = f[z] => y = z
    BY ZonesApart
  <2> QED BY <2>1, <2>2, Fun_IsInj
<1>3. IsFiniteSet(Zones(person))
  <2> HIDE DEF f
  <2> QED BY <1>2, CellsFinite, FS_Injection
<1> QED BY <1>1, <1>3

LEMMA BetterOrder ==
    ASSUME NEW x \in Zone, NEW y \in Zone, NEW z \in Zone
    PROVE  /\ ~Better(z, z)
           /\ Better(x, y) /\ Better(y, z) => Better(x, z)
           /\ y.at # z.at => Better(y, z) \/ Better(z, y)
<1>1. /\ x.score \in Int /\ y.score \in Int /\ z.score \in Int
      /\ x.at \in Int /\ y.at \in Int /\ z.at \in Int
  BY CellsFinite DEF Zone
<1> QED BY <1>1 DEF Better

\* The one behind has a higher rank.
LEMMA RankOrder ==
    ASSUME NEW Z \in SUBSET Zone, IsFiniteSet(Z), NEW y \in Z, NEW z \in Z, Better(z, y)
    PROVE  /\ Rank(Z, z) \in Nat /\ Rank(Z, y) \in Nat
           /\ Rank(Z, z) < Rank(Z, y)
<1> DEFINE A == {x \in Z : Better(x, z)}
           B == {x \in Z : Better(x, y)}
<1>1. A \cup {z} \subseteq B /\ z \notin A
  BY BetterOrder
<1>2. A \in SUBSET Z /\ B \in SUBSET Z
  OBVIOUS
<1> HIDE DEF A, B
<1>3. IsFiniteSet(A) /\ IsFiniteSet(B) /\ Cardinality(A) \in Nat /\ Cardinality(B) \in Nat
  BY <1>2, FS_Subset, FS_CardinalityType
<1>4. Cardinality(A \cup {z}) = Cardinality(A) + 1
  BY <1>1, <1>3, FS_AddElement
<1>5. Cardinality(A \cup {z}) <= Cardinality(B)
  BY <1>1, <1>3, FS_Subset
<1>6. Cardinality(A) < Cardinality(B)
  BY <1>3, <1>4, <1>5
<1> QED BY <1>3, <1>6 DEF A, B, Rank

LEMMA ScoredZones ==
    ASSUME Ground, NEW person \in Cells
    PROVE  LET C == ScoreCandidates(person)
           IN  /\ C \subseteq Zone /\ IsFiniteSet(C) /\ Cardinality(C) <= TopK
               /\ \A z \in C : Sound(z)
<1> DEFINE Z == Zones(person)
           C == {z \in Z : Rank(Z, z) < TopK}
<1>1. ScoreCandidates(person) = C
  BY DEF ScoreCandidates, Zones, Standing, Rank
<1>2. Z \in SUBSET Zone /\ IsFiniteSet(Z) /\ \A z \in Z : Sound(z)
  BY ZonesSound
<1>3. \A y, z \in Z : y # z => Better(y, z) \/ Better(z, y)
  BY <1>2, ZonesApart, BetterOrder
<1> HIDE DEF Z
<1>4. IsFiniteSet(C) /\ Cardinality(C) \in Nat
  BY <1>2, FS_Subset, FS_CardinalityType
<1>5. TopK \in Nat \ {0}
  BY AssuranceAssumption
<1>6. \A z \in Z : Rank(Z, z) \in Nat
  <2> TAKE z \in Z
  <2>1. {y \in Z : Better(y, z)} \in SUBSET Z
    OBVIOUS
  <2>2. Cardinality({y \in Z : Better(y, z)}) \in Nat
    BY <1>2, <2>1, FS_Subset, FS_CardinalityType
  <2> QED BY <2>2 DEF Rank
<1>7. CASE C = {}
  BY <1>1, <1>5, <1>7, FS_EmptySet
<1>8. CASE C # {}
  <2> DEFINE T == {Rank(Z, z) : z \in C}
  <2>1. T \in SUBSET Nat /\ T # {} /\ \A n \in T : n < TopK
    BY <1>6, <1>8
  <2>2. PICK n \in T : \A m \in T : m <= n
    <3> HIDE DEF T
    <3> QED BY <1>5, <2>1, GreatestNumber
  <2>3. PICK z \in C : n = Rank(Z, z)
    BY <2>2
  <2>4. \A y \in C : Rank(Z, y) <= Rank(Z, z)
    BY <2>2, <2>3
  <2> DEFINE A == {y \in Z : Better(y, z)}
  <2>5. C \ {z} \subseteq A
    <3> SUFFICES ASSUME NEW y \in C, y # z, ~Better(y, z) PROVE FALSE
      OBVIOUS
    <3>1. Better(z, y)
      BY <1>3, <2>3
    <3>2. Rank(Z, z) < Rank(Z, y) /\ Rank(Z, z) \in Nat /\ Rank(Z, y) \in Nat
      BY <1>2, <3>1, RankOrder
    <3> QED BY <2>4, <3>2
  <2>6. IsFiniteSet(A) /\ Cardinality(A) \in Nat
    <3>1. A \in SUBSET Z
      OBVIOUS
    <3> HIDE DEF A
    <3> QED BY <1>2, <3>1, FS_Subset, FS_CardinalityType
  <2>7. Cardinality(A) < TopK
    BY <2>3 DEF Rank
  <2> HIDE DEF A, C
  <2>8. Cardinality(C \ {z}) <= Cardinality(A)
    BY <2>5, <2>6, FS_Subset
  <2>9. Cardinality(C \ {z}) = Cardinality(C) - 1
    BY <1>4, <2>3, FS_RemoveElement
  <2>10. Cardinality(C) <= TopK
    BY <1>4, <1>5, <2>6, <2>7, <2>8, <2>9
  <2> USE DEF C
  <2> QED BY <1>1, <1>2, <1>4, <2>10
<1> QED BY <1>7, <1>8

-----------------------------------------------------------------------------
(* The state.  TypeOK in its three parts, and where a descent stands.      *)

Windows == [Channels -> {"off", "on", "over"}]

Decided ==
    /\ fsm \in Running \cup Terminal /\ waited \in BOOLEAN
    /\ recipient \in 0..MaxTracks /\ radius \in 0..MaxRadius
    /\ candidates \subseteq Zone /\ Cardinality(candidates) <= TopK /\ chosen \in Zone
    /\ retries \in 0..MaxRetries /\ since \in Windows
    /\ command \in {"none", "goto", "climb", "rtl"} /\ released \in 0..1

Perceived ==
    /\ lastGround \in Seq(Cells) /\ Len(lastGround) <= 1
    /\ DOMAIN tracks \subseteq Tracks /\ \A t \in DOMAIN tracks : tracks[t] \in Track
    /\ ids \in Seq(Tracks)

Given ==
    /\ view \in Seq(Cells)
    /\ ble \in Events /\ skew \in -MaxGap..MaxGap
    /\ terrain \in Terrains /\ alt \in 0..2

Descent == {"DESCENDING", "AUTHENTICATING", "HOVER_AND_RETRY"}

Course ==
    /\ fsm \in Running => radius < MaxRadius
    /\ fsm \in Running \ {"RELEASING", "ASCENDING"} => released = 0
    /\ IsFiniteSet(candidates) /\ \A z \in candidates : Sound(z)
    /\ fsm \in Descent => command = "goto" /\ Sound(chosen)
    /\ fsm \in Descent \ {"DESCENDING"} => alt = 0

Inv == Decided /\ Perceived /\ Given /\ Course

LEMMA TypeParts == TypeOK <=> Decided /\ Perceived /\ Given
BY DEF TypeOK, Decided, Perceived, Given, Windows

LEMMA TerrainGround ==
    ASSUME Given
    PROVE  Ground
BY AssuranceAssumption DEF Given, Ground

-----------------------------------------------------------------------------
(* What every step perceives.                                              *)

LEMMA PerceiveTypes ==
    ASSUME Perceived, Given, Perceive
    PROVE  /\ Perceived'
           /\ ids' \in [DOMAIN view -> Tracks]
           /\ lastGround' # <<>> => lastGround'[1] \in Cells
<1>1. view \in Seq(Cells)
  BY DEF Given
<1>2. DOMAIN view = 1..Len(view) /\ Len(view) \in Nat
  BY <1>1
<1>3. ids' \in [DOMAIN view -> Tracks]
  BY DEF Perceive
<1>4. ids' \in Seq(Tracks)
  BY <1>2, <1>3
<1>5. DOMAIN ids' = DOMAIN view
  BY <1>3
<1>6. ASSUME NEW t \in ToSet(ids')
      PROVE  t \in Tracks /\ Seen(ids', t) \in Cells
  <2>1. \E i \in DOMAIN ids' : ids'[i] = t
    BY <1>6 DEF ToSet
  <2>2. (CHOOSE i \in DOMAIN ids' : ids'[i] = t) \in DOMAIN view
    BY <2>1, <1>5
  <2>3. \A i \in DOMAIN view : view[i] \in Cells
    BY <1>1
  <2>4. Seen(ids', t) \in Cells
    BY <2>2, <2>3 DEF Seen
  <2> QED BY <2>1, <2>4, <1>3
<1>7. tracks' = UpdateTracks(ids')
  BY DEF Perceive
<1>8. DOMAIN tracks' = DOMAIN tracks \cup ToSet(ids')
  BY <1>7 DEF UpdateTracks
<1>9. ASSUME NEW t \in DOMAIN tracks'
      PROVE  tracks'[t] \in Track
  <2>1. CASE t \notin ToSet(ids')
    <3>1. t \in DOMAIN tracks /\ tracks'[t] = tracks[t]
      BY <1>7, <1>8, <2>1 DEF UpdateTracks
    <3> QED BY <3>1 DEF Perceived
  <2>2. CASE t \in ToSet(ids')
    <3>1. tracks'[t] = Appended(t, Seen(ids', t))
      BY <1>7, <1>8, <2>2 DEF UpdateTracks
    <3>2. 0 \in Gaps
      BY AssuranceAssumption DEF Gaps
    <3> QED BY <3>1, <3>2, <1>6, <2>2 DEF Appended, Track
  <2> QED BY <2>1, <2>2
<1>10. lastGround' \in Seq(Cells) /\ Len(lastGround') <= 1
  <2>1. CASE recipient # 0 /\ recipient \in ToSet(ids')
    <3>1. lastGround' = <<Seen(ids', recipient)>>
      BY <2>1 DEF Perceive
    <3> QED BY <3>1, <1>6, <2>1
  <2>2. CASE ~(recipient # 0 /\ recipient \in ToSet(ids'))
    BY <2>2 DEF Perceive, Perceived
  <2> QED BY <2>1, <2>2
<1>11. lastGround' # <<>> => lastGround'[1] \in Cells
  BY <1>10
<1>12. Perceived'
  BY <1>4, <1>6, <1>8, <1>9, <1>10 DEF Perceived
<1> QED BY <1>3, <1>11, <1>12

\* An event may come, also between two reads.
LEMMA BleArrivesTypes ==
    ASSUME Given, UNCHANGED signal \/ BleArrives
    PROVE  ble' \in Events /\ skew' \in -MaxGap..MaxGap
<1>1. CASE UNCHANGED signal
  BY <1>1 DEF signal, Given
<1>2. CASE BleArrives
  <2>1. PICK e \in Signals, later \in 0..2 * MaxGap : ble' = e /\ skew' = Near(skew + later)
    BY <1>2 DEF BleArrives
  <2>2. ble' \in Events
    BY <2>1, AssuranceAssumption
  <2>3. skew + later \in Int
    BY AssuranceAssumption DEF Given
  <2> QED BY <2>1, <2>2, <2>3, NearBounds
<1> QED BY <1>1, <1>2

\* The detection taken for the recipient is one of the view, and nobody in it is as
\* likely by the event at hand.
LEMMA DisambiguatedStandsOut ==
    ASSUME Given, NEW e, NEW i, i = DisambiguateRecipients(e), i # 0
    PROVE  i \in DOMAIN view /\ StandsOut(i, e)
<1> DEFINE ahead == {k \in DOMAIN view : StandsOut(k, e)}
<1>1. ahead # {} /\ i = Min(ahead)
  BY DEF DisambiguateRecipients
<1>2. ahead \in SUBSET Nat
  BY DEF Given
<1>3. i \in ahead
  <2> HIDE DEF ahead
  <2> QED BY <1>1, <1>2, LeastIn
<1> QED BY <1>3

-----------------------------------------------------------------------------
(* The table and the entries.                                              *)

Transient == {"ABORT_DESCENT", "EXPANDING_SEARCH_RADIUS"}

\* What a row says of the state it leads to.
LEMMA RowLeads ==
    ASSUME NEW event, NEW first \in Row(fsm, event)
    PROVE  /\ fsm \in Running /\ first \in Running \cup Terminal \cup Transient
           /\ event = "zone_confirmed" <=> first = "DESCENDING"
           /\ first = "AUTHENTICATING" =>
                 (fsm = "DESCENDING" /\ event = "altitude_reached") \/ fsm = "HOVER_AND_RETRY"
           /\ first = "HOVER_AND_RETRY" => fsm = "AUTHENTICATING"
           /\ first = "RELEASING" => fsm = "AUTHENTICATING" /\ event = "auth_succeeded"
           /\ fsm = "RELEASING" => first \in {"ASCENDING", "ABORT_RTL"}
           /\ fsm = "ASCENDING" => first = "RTL"
<1>1. <<fsm, event, first>> \in Transitions
  <2>1. PICK t \in Transitions : t[1] = fsm /\ t[2] = event /\ first = t[3]
    BY DEF Row
  <2>2. t = <<t[1], t[2], t[3]>>
    BY DEF Transitions
  <2> QED BY <2>1, <2>2
<1>2. fsm \in Running /\ first \in Running \cup Terminal \cup Transient
  BY <1>1, SMTT(30) DEF Transitions, Running, Terminal, Transient
<1>3. event = "zone_confirmed" <=> first = "DESCENDING"
  BY <1>1, SMTT(30) DEF Transitions
<1>4. first = "AUTHENTICATING" =>
        (fsm = "DESCENDING" /\ event = "altitude_reached") \/ fsm = "HOVER_AND_RETRY"
  BY <1>1, SMTT(30) DEF Transitions
<1>5. first = "HOVER_AND_RETRY" => fsm = "AUTHENTICATING"
  BY <1>1, SMTT(30) DEF Transitions
<1>6. first = "RELEASING" => fsm = "AUTHENTICATING" /\ event = "auth_succeeded"
  BY <1>1, SMTT(30) DEF Transitions
<1>7. fsm = "RELEASING" => first \in {"ASCENDING", "ABORT_RTL"}
  BY <1>1, SMTT(30) DEF Transitions
<1>8. fsm = "ASCENDING" => first = "RTL"
  BY <1>1, SMTT(30) DEF Transitions
<1> QED BY <1>2, <1>3, <1>4, <1>5, <1>6, <1>7, <1>8

\* Where a transient state comes to rest, and that another one is itself at rest.
LEMMA RestLeads ==
    ASSUME NEW first \in Running \cup Terminal \cup Transient
    PROVE  /\ Rest(first) \in Running \cup Terminal
           /\ first \notin Transient => Rest(first) = first
           /\ first \in Transient => Rest(first) \in {"SEARCHING_PERSON", "SEARCHING_ZONE", "ABORT_RTL"}
           /\ first = "EXPANDING_SEARCH_RADIUS" /\ Rest(first) # "ABORT_RTL" => ~(radius + 1 >= MaxRadius)
<1>1. CASE first = "ABORT_DESCENT"
  <2>1. Rest(first) = IF Remaining # {} THEN "SEARCHING_ZONE" ELSE "ABORT_RTL"
    BY <1>1 DEF Rest
  <2> QED BY <1>1, <2>1 DEF Running, Terminal, Transient
<1>2. CASE first = "EXPANDING_SEARCH_RADIUS"
  <2>1. Rest(first) = IF radius + 1 >= MaxRadius THEN "ABORT_RTL"
                      ELSE IF recipient # 0 THEN "SEARCHING_ZONE" ELSE "SEARCHING_PERSON"
    BY <1>2 DEF Rest
  <2> QED BY <1>2, <2>1 DEF Running, Terminal, Transient
<1>3. CASE first \notin Transient
  <2>1. Rest(first) = first
    BY <1>3 DEF Rest, Transient
  <2> QED BY <1>3, <2>1 DEF Transient
<1> QED BY <1>1, <1>2, <1>3 DEF Transient

\* The handler advances with what it found: candidates and a zone that may be landed
\* on, a count within its limit, windows.
LEMMA AdvanceSafe ==
    ASSUME Decided, Course,
           NEW event, NEW zones, NEW zone, NEW tries, NEW windows,
           Advance(event, zones, zone, tries, windows),
           zones \subseteq Zone, IsFiniteSet(zones), Cardinality(zones) <= TopK,
           \A z \in zones : Sound(z),
           zone \in Zone, event = "zone_confirmed" => Sound(zone), event # "zone_confirmed" => zone = chosen,
           event = "altitude_reached" => alt = 0,
           tries \in 0..MaxRetries, windows \in Windows,
           recipient' \in 0..MaxTracks, alt' = alt
    PROVE  /\ Decided' /\ Course'
           /\ released' # released => fsm = "AUTHENTICATING" /\ event = "auth_succeeded"
<1>1. PICK first \in Row(fsm, event) : Enter(first, zones, zone, tries, windows)
  BY DEF Advance
<1> DEFINE state == Rest(first)
<1>2. fsm' = state /\ state \in Running \cup Terminal
  BY <1>1, RowLeads, RestLeads DEF Enter
<1>3. /\ fsm \in Running
      /\ event = "zone_confirmed" <=> state = "DESCENDING"
      /\ state = "AUTHENTICATING" =>
            (fsm = "DESCENDING" /\ event = "altitude_reached") \/ fsm = "HOVER_AND_RETRY"
      /\ state = "HOVER_AND_RETRY" => fsm = "AUTHENTICATING"
      /\ state = "RELEASING" => fsm = "AUTHENTICATING" /\ event = "auth_succeeded"
      /\ state \in Running \ {"RELEASING", "ASCENDING"} => fsm \notin {"RELEASING", "ASCENDING"}
  <2>1. first \notin Transient => state = first
    BY RowLeads, RestLeads
  <2>2. first \in Transient => state \in {"SEARCHING_PERSON", "SEARCHING_ZONE", "ABORT_RTL"}
    BY RowLeads, RestLeads
  <2> HIDE DEF state
  <2>3. CASE first \in Transient
    BY <2>2, <2>3, RowLeads DEF Running, Transient
  <2>4. CASE first \notin Transient
    BY <2>1, <2>4, RowLeads DEF Running
  <2> QED BY <2>3, <2>4
<1>4. radius' \in 0..MaxRadius /\ (state \in Running => radius' < MaxRadius)
  <2>1. radius \in Nat /\ radius < MaxRadius /\ MaxRadius \in Nat
    BY <1>3, AssuranceAssumption DEF Decided, Course
  <2>2. radius' = IF first = "EXPANDING_SEARCH_RADIUS" THEN radius + 1 ELSE radius
    BY <1>1 DEF Enter, Widened
  <2>3. first = "EXPANDING_SEARCH_RADIUS" /\ state \in Running => ~(radius + 1 >= MaxRadius)
    BY RowLeads, RestLeads DEF Running
  <2> HIDE DEF state
  <2> QED BY <2>1, <2>2, <2>3
<1>5. /\ candidates' \subseteq Zone /\ Cardinality(candidates') <= TopK
      /\ IsFiniteSet(candidates') /\ \A z \in candidates' : Sound(z)
  <2>1. CASE candidates' = zones
    BY <2>1
  <2>2. CASE candidates' = Remaining
    <3>1. Remaining \in SUBSET candidates
      BY DEF Remaining
    <3>2. IsFiniteSet(candidates) /\ candidates \subseteq Zone /\ Cardinality(candidates) <= TopK
          /\ \A z \in candidates : Sound(z)
      BY DEF Decided, Course
    <3>3. /\ IsFiniteSet(Remaining) /\ Cardinality(Remaining) <= Cardinality(candidates)
          /\ Cardinality(Remaining) \in Nat /\ Cardinality(candidates) \in Nat
      BY <3>1, <3>2, FS_Subset, FS_CardinalityType
    <3>4. TopK \in Nat
      BY AssuranceAssumption
    <3>5. Cardinality(Remaining) <= TopK
      BY <3>2, <3>3, <3>4
    <3> QED BY <2>2, <3>1, <3>2, <3>3, <3>5
  <2> QED BY <1>1, <2>1, <2>2 DEF Enter
<1>6. chosen' = IF state = "SEARCHING_PERSON" THEN NoZone ELSE zone
  BY <1>1 DEF Enter
<1>7. chosen' \in Zone
  <2>1. 0 \in Cells
    <3>1. Reach \in Nat
      BY Settings
    <3> QED BY <3>1 DEF Cells
  <2>2. NoZone \in Zone
    BY <2>1 DEF NoZone, Zone
  <2> QED BY <1>6, <2>2
<1>8. /\ retries' \in 0..MaxRetries /\ since' \in Windows
      /\ command' \in {"none", "goto", "climb", "rtl"}
  <2>1. retries' \in 0..MaxRetries
    BY <1>1, AssuranceAssumption DEF Enter
  <2>2. since' \in Windows
    BY <1>1 DEF Enter, Windows, NoWindows
  <2>3. command' = CommandOf(state)
    BY <1>1 DEF Enter
  <2>4. command' \in {"none", "goto", "climb", "rtl"}
    <3> HIDE DEF state
    <3>1. command \in {"none", "goto", "climb", "rtl"}
      BY DEF Decided
    <3>2. CommandOf(state) \in {"none", "goto", "climb", "rtl"}
      <4>1. CASE state = "DESCENDING"
        BY <4>1 DEF CommandOf
      <4>2. CASE state = "ASCENDING"
        BY <4>2 DEF CommandOf
      <4>3. CASE state \in Terminal
        BY <4>3 DEF CommandOf, Terminal
      <4>4. CASE state # "DESCENDING" /\ state # "ASCENDING" /\ state \notin Terminal
        BY <3>1, <4>4 DEF CommandOf
      <4> QED BY <4>1, <4>2, <4>3, <4>4
    <3> QED BY <2>3, <3>2
  <2> QED BY <2>1, <2>2, <2>4
<1>9. released' = IF state = "RELEASING" THEN released + 1 ELSE released
  BY <1>1 DEF Enter
<1>10. released' \in 0..1 /\ (state \in Running \ {"RELEASING", "ASCENDING"} => released' = 0)
  <2>1. released \in 0..1 /\ (fsm \in Running \ {"RELEASING", "ASCENDING"} => released = 0)
    BY DEF Decided, Course
  <2>2. state = "RELEASING" => released = 0
    BY <1>3, <2>1 DEF Running
  <2> HIDE DEF state
  <2> QED BY <1>3, <1>9, <2>1, <2>2
<1>11. state \in Descent => command' = "goto" /\ Sound(chosen')
  <2>1. command' = CommandOf(state)
    BY <1>1 DEF Enter
  <2>2. state \in Descent => chosen' = zone
    BY <1>6 DEF Descent
  <2> HIDE DEF state
  <2>3. CASE state = "DESCENDING"
    <3>1. Sound(zone) /\ chosen' = zone
      BY <1>3, <2>2, <2>3 DEF Descent
    <3>2. CommandOf(state) = "goto"
      BY <2>3 DEF CommandOf, Terminal
    <3> QED BY <2>1, <3>1, <3>2
  <2>4. CASE state \in Descent \ {"DESCENDING"}
    <3>1. fsm \in Descent /\ event # "zone_confirmed"
      BY <1>3, <2>4 DEF Descent
    <3>2. command = "goto" /\ Sound(chosen) /\ zone = chosen
      BY <3>1 DEF Course
    <3>3. CommandOf(state) = command
      BY <2>4 DEF CommandOf, Descent, Terminal
    <3> QED BY <2>1, <2>2, <2>4, <3>2, <3>3
  <2> QED BY <2>3, <2>4
<1>12. state \in Descent \ {"DESCENDING"} => alt = 0
  <2> HIDE DEF state
  <2>1. state \in Descent \ {"DESCENDING"} =>
          (event = "altitude_reached" \/ fsm \in {"AUTHENTICATING", "HOVER_AND_RETRY"})
    BY <1>3 DEF Descent
  <2> QED BY <2>1 DEF Course, Descent
<1>13. waited' \in BOOLEAN
  BY <1>1 DEF Enter
<1>14. Decided'
  BY <1>2, <1>4, <1>5, <1>7, <1>8, <1>10, <1>13 DEF Decided, Windows
<1>15. Course'
  BY <1>2, <1>4, <1>5, <1>10, <1>11, <1>12 DEF Course, Sound
<1>16. released' # released => fsm = "AUTHENTICATING" /\ event = "auth_succeeded"
  BY <1>3, <1>9
<1> QED BY <1>14, <1>15, <1>16

LEMMA RaiseSafe ==
    ASSUME Decided, Course, NEW event, Raise(event),
           event # "zone_confirmed", event = "altitude_reached" => alt = 0, alt' = alt
    PROVE  /\ Decided' /\ Course'
           /\ released' # released => fsm = "AUTHENTICATING" /\ event = "auth_succeeded"
BY AdvanceSafe DEF Raise, Decided, Course

LEMMA TimeoutSafe ==
    ASSUME Decided, Course, NEW windows \in Windows, CheckTimeout(windows), alt' = alt
    PROVE  Decided' /\ Course' /\ released' = released
<1>1. CASE waited
  BY <1>1, AdvanceSafe DEF CheckTimeout, Decided, Course
<1>2. CASE ~waited
  BY <1>2 DEF CheckTimeout, sent, Decided, Course, Sound
<1> QED BY <1>1, <1>2

-----------------------------------------------------------------------------
(* The authentication.                                                     *)

\* What the verdict is, and that a good one is of two channels that agree.
LEMMA VerdictTypes ==
    ASSUME Decided, NEW i, NEW e, NEW s
    PROVE  /\ Evaluate(i, e, s)[2] \in Windows
           /\ Evaluate(i, e, s)[1] \in {"none", "auth_failed", "auth_succeeded"}
           /\ Evaluate(i, e, s)[1] = "auth_succeeded" =>
                 /\ i # 0 /\ e.ok /\ HasPlace(e) /\ InSync(s)
                 /\ Disagreement(view[i], e) <= Allowed(e)
<1> DEFINE visionOk == i # 0
           w == [since EXCEPT !.ble = Window(@, e.ok), !.vision = Window(@, visionOk)]
           settled == [w EXCEPT !.disagree = "off"]
           late(c) == IF w[c] = "over" THEN "auth_failed" ELSE "none"
<1>1. since \in Windows
  BY DEF Decided
<1>2. ASSUME NEW v \in {"off", "on", "over"}, NEW holds
      PROVE  Window(v, holds) \in {"off", "on", "over"}
  BY DEF Window
<1>3. w \in Windows
  <2>1. \A c \in Channels : since[c] \in {"off", "on", "over"}
    BY <1>1 DEF Windows
  <2> QED BY <1>1, <1>2, <2>1 DEF Windows, Channels
<1>4. settled \in Windows
  <2> HIDE DEF w
  <2> QED BY <1>3 DEF Windows
<1>5. [w EXCEPT !.disagree = Window(@, TRUE)] \in Windows
  <2> HIDE DEF w
  <2> QED BY <1>3, <1>2 DEF Windows, Channels
<1>6. \A c : late(c) \in {"none", "auth_failed"}
  OBVIOUS
<1>7. CASE e.ok /\ visionOk /\ InSync(s) /\ HasPlace(e)
  <2>1. CASE Disagreement(view[i], e) <= Allowed(e)
    <3>1. Evaluate(i, e, s) = <<"auth_succeeded", settled>>
      BY <1>7, <2>1 DEF Evaluate
    <3> HIDE DEF settled, w
    <3> QED BY <1>4, <1>7, <2>1, <3>1
  <2>2. CASE ~(Disagreement(view[i], e) <= Allowed(e))
    <3>1. Evaluate(i, e, s) = <<late("disagree"), [w EXCEPT !.disagree = Window(@, TRUE)]>>
      BY <1>7, <2>2 DEF Evaluate
    <3>2. Evaluate(i, e, s)[1] \in {"none", "auth_failed"} /\ Evaluate(i, e, s)[2] \in Windows
      <4> HIDE DEF w
      <4> QED BY <1>5, <3>1
    <3> QED BY <3>2
  <2> QED BY <2>1, <2>2
<1>8. CASE ~(e.ok /\ visionOk /\ InSync(s) /\ HasPlace(e))
  <2>1. Evaluate(i, e, s)[2] = settled /\ Evaluate(i, e, s)[1] \in {late("ble"), late("vision"), "none"}
    BY <1>8 DEF Evaluate
  <2>2. Evaluate(i, e, s)[1] \in {"none", "auth_failed"}
    <3> HIDE DEF settled
    <3> QED BY <2>1
  <2> HIDE DEF settled
  <2> QED BY <1>4, <2>1, <2>2
<1> QED BY <1>7, <1>8

LEMMA AuthenticatedIsWitnessed ==
    ASSUME Given, Course, fsm = "AUTHENTICATING",
           NEW i, i = IF Someone THEN DisambiguateRecipients(ble) ELSE 0,
           Decided, Evaluate(i, ble', skew')[1] = "auth_succeeded"
    PROVE  Witnessed
<1>1. /\ i # 0 /\ ble'.ok /\ HasPlace(ble') /\ InSync(skew')
      /\ Disagreement(view[i], ble') <= Allowed(ble')
  BY VerdictTypes
<1>2. i \in DOMAIN view /\ StandsOut(i, ble)
  BY <1>1, DisambiguatedStandsOut
<1>3. released = 0 /\ alt = 0 /\ command = "goto" /\ chosen.area >= MinArea
  BY DEF Course, Descent, Running, Sound
<1> QED BY <1>1, <1>2, <1>3 DEF Witnessed

-----------------------------------------------------------------------------
(* The handlers.                                                           *)

LEMMA StepSafe ==
    ASSUME Inv, Step
    PROVE  Inv' /\ (released' # released => Witnessed)
<1>1. Decided /\ Perceived /\ Given /\ Course
  BY DEF Inv
<1>2. Perceive
  BY DEF Step, StepSearchingPerson, StepPersonFound, StepSearchingZone, StepZoneFound, StepDescending,
         StepAuthenticating, StepHoverAndRetry, StepReleasing, StepAscending, StepTerminal, In
<1>3. /\ Perceived' /\ ids' \in [DOMAIN view -> Tracks]
      /\ lastGround' # <<>> => lastGround'[1] \in Cells
  BY <1>1, <1>2, PerceiveTypes
<1>4. alt' = alt /\ Given'
  <2>1. UNCHANGED signal \/ BleArrives
    BY DEF Step, StepSearchingPerson, StepPersonFound, StepSearchingZone, StepZoneFound, StepDescending,
           StepAuthenticating, StepHoverAndRetry, StepReleasing, StepAscending, StepTerminal, In
  <2>2. ble' \in Events /\ skew' \in -MaxGap..MaxGap
    BY <1>1, <2>1, BleArrivesTypes
  <2> QED BY <1>1, <1>2, <2>2 DEF Perceive, Given
<1>5. /\ since \in Windows /\ chosen \in Zone /\ retries \in 0..MaxRetries /\ recipient \in 0..MaxTracks
      /\ candidates \subseteq Zone /\ Cardinality(candidates) <= TopK
      /\ IsFiniteSet(candidates) /\ \A z \in candidates : Sound(z)
  BY <1>1 DEF Decided, Course
<1> SUFFICES Decided' /\ Course' /\ (released' # released => Witnessed)
  BY <1>3, <1>4 DEF Inv
<1>6. CASE StepSearchingPerson
  <2>1. CASE Someone
    BY <1>1, <1>4, <1>6, <2>1, RaiseSafe DEF StepSearchingPerson, In
  <2>2. CASE ~Someone
    BY <1>1, <1>4, <1>5, <1>6, <2>2, TimeoutSafe DEF StepSearchingPerson
  <2> QED BY <2>1, <2>2
<1>7. CASE StepPersonFound
  <2>1. CASE Someone /\ DisambiguateRecipients(ble) # 0
    <3>1. recipient' = ids'[DisambiguateRecipients(ble)]
          /\ Advance("person_confirmed", candidates, chosen, retries, since) /\ fsm = "PERSON_FOUND"
      BY <1>7, <2>1 DEF StepPersonFound, In
    <3>2. DisambiguateRecipients(ble) \in DOMAIN view
      BY <1>1, <2>1, DisambiguatedStandsOut
    <3>3. recipient' \in 0..MaxTracks
      <4>1. recipient' \in Tracks
        BY <1>3, <3>1, <3>2
      <4>2. MaxTracks \in Nat
        BY AssuranceAssumption
      <4> QED BY <4>1, <4>2 DEF Tracks
    <3> QED BY <1>1, <1>4, <1>5, <3>1, <3>3, AdvanceSafe
  <2>2. CASE ~(Someone /\ DisambiguateRecipients(ble) # 0)
    BY <1>1, <1>4, <1>5, <1>7, <2>2, TimeoutSafe DEF StepPersonFound
  <2> QED BY <2>1, <2>2
<1>8. CASE StepSearchingZone
  <2> DEFINE found == IF lastGround' = <<>> THEN {} ELSE ScoreCandidates(lastGround'[1])
  <2>1. CASE found # {}
    <3>1. Advance("zone_found", found, chosen, retries, since) /\ recipient' = recipient
          /\ fsm = "SEARCHING_ZONE"
      BY <1>8, <2>1 DEF StepSearchingZone, In
    <3>2. found \subseteq Zone /\ IsFiniteSet(found) /\ Cardinality(found) <= TopK /\ \A z \in found : Sound(z)
      BY <1>1, <1>3, <2>1, TerrainGround, ScoredZones
    <3> HIDE DEF found
    <3> QED BY <1>1, <1>4, <1>5, <3>1, <3>2, AdvanceSafe
  <2>2. CASE found = {}
    BY <1>1, <1>4, <1>5, <1>8, <2>2, TimeoutSafe DEF StepSearchingZone
  <2> QED BY <2>1, <2>2
<1>9. CASE StepZoneFound
  <2>1. PICK best \in candidates : Advance("zone_confirmed", candidates, best, retries, since)
    BY <1>9 DEF StepZoneFound
  <2>2. recipient' = recipient /\ best \in Zone /\ Sound(best)
    BY <1>5, <1>9 DEF StepZoneFound
  <2>3. fsm = "ZONE_FOUND"
    BY <1>9 DEF StepZoneFound, In
  <2> QED BY <1>1, <1>4, <1>5, <2>1, <2>2, <2>3, AdvanceSafe
<1>10. CASE StepDescending
  <2>1. CASE Raise("motion_abort")
    BY <1>1, <1>4, <1>10, <2>1, RaiseSafe DEF StepDescending, In
  <2>2. CASE alt = 0 /\ Raise("altitude_reached")
    BY <1>1, <1>4, <1>10, <2>2, RaiseSafe DEF StepDescending, In
  <2>3. CASE CheckTimeout(since)
    BY <1>1, <1>4, <1>5, <2>3, TimeoutSafe
  <2> QED BY <1>10, <2>1, <2>2, <2>3 DEF StepDescending
<1>11. CASE StepAuthenticating
  <2> DEFINE i == IF Someone THEN DisambiguateRecipients(ble) ELSE 0
             verdict == Evaluate(i, ble', skew')
  <2>1. fsm = "AUTHENTICATING"
    BY <1>11 DEF StepAuthenticating
  <2>2. /\ verdict[2] \in Windows
        /\ verdict[1] \in {"none", "auth_failed", "auth_succeeded"}
        /\ verdict[1] = "auth_succeeded" => Witnessed
    <3> HIDE DEF i
    <3>1. verdict[2] \in Windows /\ verdict[1] \in {"none", "auth_failed", "auth_succeeded"}
      BY <1>1, VerdictTypes
    <3>2. verdict[1] = "auth_succeeded" => Witnessed
      BY <1>1, <2>1, AuthenticatedIsWitnessed DEF i
    <3> QED BY <3>1, <3>2
  <2>3. \/ Raise("ambiguous")
        \/ CheckTimeout(verdict[2])
        \/ Advance(verdict[1], candidates, chosen, retries, verdict[2]) /\ recipient' = recipient
    BY <1>11 DEF StepAuthenticating
  <2> HIDE DEF verdict, i
  <2>4. CASE Raise("ambiguous")
    BY <1>1, <1>4, <2>4, RaiseSafe
  <2>5. CASE CheckTimeout(verdict[2])
    BY <1>1, <1>4, <2>2, <2>5, TimeoutSafe
  <2>6. CASE Advance(verdict[1], candidates, chosen, retries, verdict[2]) /\ recipient' = recipient
    BY <1>1, <1>4, <1>5, <2>2, <2>6, AdvanceSafe
  <2> QED BY <2>3, <2>4, <2>5, <2>6
<1>12. CASE StepHoverAndRetry
  <2>1. CASE CheckTimeout(since)
    BY <1>1, <1>4, <1>5, <2>1, TimeoutSafe
  <2>2. CASE /\ retries < MaxRetries /\ recipient' = recipient
             /\ Advance("retry", candidates, chosen, retries + 1, since)
    <3>1. retries + 1 \in 0..MaxRetries
      <4>1. MaxRetries \in Nat /\ retries \in 0..MaxRetries /\ retries < MaxRetries
        BY <1>5, <2>2, AssuranceAssumption
      <4> QED BY <4>1
    <3> QED BY <1>1, <1>4, <1>5, <2>2, <3>1, AdvanceSafe
  <2>3. CASE Raise("retry_exhausted")
    BY <1>1, <1>4, <2>3, RaiseSafe
  <2> QED BY <1>12, <2>1, <2>2, <2>3 DEF StepHoverAndRetry
<1>13. CASE StepReleasing
  <2>1. CASE Raise("release_complete")
    BY <1>1, <1>4, <2>1, RaiseSafe
  <2>2. CASE CheckTimeout(since)
    BY <1>1, <1>4, <1>5, <2>2, TimeoutSafe
  <2> QED BY <1>13, <2>1, <2>2 DEF StepReleasing
<1>14. CASE StepAscending
  <2>1. CASE Raise("ascend_complete")
    BY <1>1, <1>4, <2>1, RaiseSafe
  <2>2. CASE CheckTimeout(since)
    BY <1>1, <1>4, <1>5, <2>2, TimeoutSafe
  <2> QED BY <1>14, <2>1, <2>2 DEF StepAscending
<1>15. CASE StepTerminal
  BY <1>1, <1>4, <1>15 DEF StepTerminal, decision, sent, Decided, Course, Sound
<1> QED BY <1>6, <1>7, <1>8, <1>9, <1>10, <1>11, <1>12, <1>13, <1>14, <1>15 DEF Step

LEMMA OthersSafe ==
    ASSUME Inv, StateWaits \/ WindowEnds \/ Fly \/ CameraFrame \/ BleEvent \/ TerrainMap \/ UNCHANGED vars
    PROVE  Inv' /\ released' = released
<1>1. Decided /\ Perceived /\ Given /\ Course
  BY DEF Inv
<1>2. CASE StateWaits
  BY <1>1, <1>2 DEF StateWaits, decision, perception, sent, signal, Inv, Decided, Perceived, Given, Course, Sound
<1>3. CASE WindowEnds
  <2>1. PICK c \in Channels : since' = [since EXCEPT ![c] = "over"]
    BY <1>3 DEF WindowEnds
  <2>2. since' \in Windows
    BY <1>1, <2>1 DEF Decided, Windows
  <2> QED BY <1>1, <1>3, <2>2 DEF WindowEnds, perception, sent, signal, Inv, Decided, Perceived, Given, Course, Sound
<1>4. CASE Fly
  <2>1. alt \in 0..2 /\ (fsm \in Descent \ {"DESCENDING"} => alt = 0 /\ command = "goto")
    BY <1>1 DEF Given, Course, Descent
  <2>2. alt' \in 0..2 /\ (fsm \in Descent \ {"DESCENDING"} => alt' = 0)
    <3>1. Max({0, alt - 1}) = IF alt = 0 THEN 0 ELSE alt - 1
      <4>1. \A m \in {0, alt - 1} : (\A n \in {0, alt - 1} : m >= n) => m = IF alt = 0 THEN 0 ELSE alt - 1
        BY <2>1
      <4>2. \E m \in {0, alt - 1} : \A n \in {0, alt - 1} : m >= n
        BY <2>1
      <4> QED BY <4>1, <4>2 DEF Max
    <3>2. Min({2, alt + 1}) \in {2, alt + 1} /\ Min({2, alt + 1}) <= 2
      <4>1. \E m \in {2, alt + 1} : \A n \in {2, alt + 1} : m <= n
        BY <2>1
      <4> QED BY <4>1 DEF Min
    <3> QED BY <1>4, <2>1, <3>1, <3>2 DEF Fly
  <2> QED BY <1>1, <1>4, <2>2 DEF Fly, decision, perception, sent, signal, Inv, Decided, Perceived, Given, Course, Sound
<1>5. CASE CameraFrame
  <2>1. PICK later \in 1..2 * MaxGap :
           /\ skew' = Near(skew - later)
           /\ tracks' = [t \in DOMAIN tracks |-> [tracks[t] EXCEPT !.gap = Min({MaxGap, @ + later})]]
    BY <1>5 DEF CameraFrame
  <2>2. view' \in Seq(Cells)
    BY <1>5, AssuranceAssumption DEF CameraFrame
  <2>3. MaxGap \in Nat /\ later \in Nat /\ skew - later \in Int
    BY <1>1, AssuranceAssumption DEF Given
  <2>4. skew' \in -MaxGap..MaxGap
    BY <2>1, <2>3, NearBounds
  <2>5. DOMAIN tracks' = DOMAIN tracks
    BY <2>1
  <2>6. ASSUME NEW t \in DOMAIN tracks PROVE tracks'[t] \in Track
    <3> DEFINE g == tracks[t].gap + later
    <3>1. tracks[t] \in Track
      BY <1>1 DEF Perceived
    <3>2. g \in Nat
      BY <2>3, <3>1 DEF Track, Gaps
    <3> HIDE DEF g
    <3>3. \E m \in {MaxGap, g} : \A n \in {MaxGap, g} : m <= n
      BY <2>3, <3>2
    <3>4. Min({MaxGap, g}) \in {MaxGap, g} /\ Min({MaxGap, g}) <= MaxGap
      BY <2>3, <3>2, <3>3 DEF Min
    <3>5. Min({MaxGap, g}) \in Gaps
      BY <2>3, <3>2, <3>4 DEF Gaps
    <3>6. tracks'[t] = [tracks[t] EXCEPT !.gap = Min({MaxGap, g})]
      BY <2>1 DEF g
    <3> QED BY <3>1, <3>5, <3>6 DEF Track
  <2>7. Given'
    BY <1>1, <1>5, <2>2, <2>4 DEF CameraFrame, Given
  <2>8. Perceived'
    BY <1>1, <1>5, <2>5, <2>6 DEF CameraFrame, Perceived
  <2>9. Decided' /\ Course' /\ released' = released
    BY <1>1, <1>5 DEF CameraFrame, decision, sent, Decided, Course, Sound
  <2> QED BY <2>7, <2>8, <2>9 DEF Inv
<1>6. CASE BleEvent
  <2>1. ble' \in Events /\ skew' \in -MaxGap..MaxGap
    BY <1>1, <1>6, BleArrivesTypes DEF BleEvent
  <2> QED BY <1>1, <1>6, <2>1 DEF BleEvent, decision, perception, sent, Inv, Decided, Perceived, Given, Course, Sound
<1>8. CASE TerrainMap
  BY <1>1, <1>8 DEF TerrainMap, decision, perception, sent, signal, Inv, Decided, Perceived, Given, Course, Sound
<1>7. CASE UNCHANGED vars
  BY <1>1, <1>7 DEF vars, decision, perception, sent, signal, Inv, Decided, Perceived, Given, Course, Sound
<1> QED BY <1>2, <1>3, <1>4, <1>5, <1>6, <1>7, <1>8

LEMMA InitSafe == Init => Inv
<1> SUFFICES ASSUME Init PROVE Inv
  OBVIOUS
<1>1. 0 \in Cells /\ MaxGap \in Nat /\ MaxRetries \in Nat /\ MaxTracks \in Nat /\ TopK \in Nat
      /\ MaxRadius \in Nat \ {0}
  BY AssuranceAssumption DEF Cells
<1>2. NoZone \in Zone
  BY <1>1 DEF NoZone, Zone
<1>3. IsFiniteSet(candidates) /\ Cardinality(candidates) = 0 /\ candidates = {}
  BY FS_EmptySet DEF Init
<1>4. Decided
  <2>1. since \in Windows
    BY DEF Init, Windows, NoWindows
  <2>2. fsm \in Running \cup Terminal /\ waited \in BOOLEAN
    BY DEF Init, Running
  <2>3. 0 \in 0..MaxTracks /\ 0 \in 0..MaxRadius /\ 0 \in 0..MaxRetries /\ 0 <= TopK
    BY <1>1
  <2> QED BY <1>2, <1>3, <2>1, <2>2, <2>3 DEF Init, Decided
<1>5. Perceived
  BY DEF Init, Perceived
<1>6. Given
  BY <1>1 DEF Init, Given, Events
<1>7. Course
  BY <1>1, <1>3 DEF Init, Course, Descent, Running
<1> QED BY <1>4, <1>5, <1>6, <1>7 DEF Inv

LEMMA NextSafe ==
    ASSUME Inv, [Next]_vars
    PROVE  Inv' /\ (released' # released => Witnessed)
BY StepSafe, OthersSafe DEF Next

LEMMA InvHolds == Spec => []Inv
<1>1. Inv /\ [Next]_vars => Inv'
  BY NextSafe
<1> QED BY InitSafe, <1>1, PTL DEF Spec

\* The state keeps its types: the attempt rests in a state of the table, the retries
\* and the radius stay within their limits, no more candidates are kept than the
\* limit, every track is where its newest frame was (delivery_node.py, mission_fsm.py).
THEOREM TypesHold == Spec => []TypeOK
<1>1. Inv => TypeOK
  BY TypeParts DEF Inv
<1> QED BY InvHolds, <1>1, PTL

\* The parcel is released once, when the descent has come to the hover height, and
\* only when a person and an authenticated phone agree by the newest BLE event, a
\* person who stands out by it or the one before (_step_authenticating).
THEOREM ReleasesAreWitnessed == Spec => ReleaseIsWitnessed
<1>1. Inv /\ [Next]_vars => [released' # released => Witnessed]_vars
  BY NextSafe
<1> QED BY InvHolds, <1>1, PTL DEF Spec, ReleaseIsWitnessed
=============================================================================
