--------------------------- MODULE SensingProofs ---------------------------
(***************************************************************************)
(* Strays never steer, for any ring, ranges, windows, things and specks,   *)
(* and any number of disturbances.                                         *)
(*                                                                         *)
(* A revolution differs from what stood in at most one bin, and strays are *)
(* farther apart than the gate is deep (Gated): so a return that passes    *)
(* the gate stood in one of the newest revolutions (Published).  Until the *)
(* gate is full the points a cluster and a sector need keep a lone stray   *)
(* out, and so does a track, which has a sighting before it (Followed).    *)
(* What outlives its revolution, a track that coasts or a frame of the     *)
(* sector filter, is followed by how many revolutions may have been read   *)
(* since (Held, Framed).                                                   *)
(***************************************************************************)
EXTENDS Sensing, FiniteSetTheorems, WellFoundedInduction, TLAPS

\* How the sensing is tuned: a stray is one return of one revolution, and nothing rests
\* on one; strays are rarer than the gate is deep; the memory of what stood reaches back
\* over the gate and what is kept behind it, late consumers included.
Tuned ==
    /\ Depth >= 2 /\ MinSupport >= 2 /\ MinPoints >= 2 /\ NeedPoints >= 2
    /\ AngularTol >= 1 /\ Quiet >= 1 /\ Quiet + 1 >= Depth
    /\ Memory >= Depth + Coast + 1 /\ Memory >= Depth + SectorDepth + MaxEvents

-----------------------------------------------------------------------------
(* Numbers and the ring.                                                   *)

LEMMA ConstantsAreNat ==
    /\ NBins \in Nat \ {0} /\ MaxRange \in Nat \ {0} /\ Depth \in Nat \ {0}
    /\ SparseHits \in Nat \ {0} /\ NeedPoints \in Nat \ {0} /\ SectorDepth \in Nat \ {0}
    /\ Memory \in Nat \ {0} /\ MinSupport \in Nat \ {0} /\ MinPoints \in Nat \ {0}
    /\ AngularTol \in Nat /\ RangeTol \in Nat /\ MaxMisses \in Nat /\ Coast \in Nat /\ MaxDt \in Nat
    /\ Quiet \in Nat /\ MaxEvents \in Nat /\ Far \in Nat /\ Long \in Nat
    /\ Bins \subseteq Nat /\ 0 \in Bins /\ Ranges \subseteq Nat /\ Far \notin Ranges
    /\ 1..Far = Ranges \cup {Far} /\ Far = MaxRange + 1 /\ Long = MaxDt + 1
    /\ Specks \subseteq Places
<1>1. /\ NBins \in Nat \ {0} /\ MaxRange \in Nat \ {0} /\ Depth \in Nat \ {0}
      /\ SparseHits \in Nat \ {0} /\ NeedPoints \in Nat \ {0} /\ SectorDepth \in Nat \ {0}
      /\ Memory \in Nat \ {0} /\ MinSupport \in Nat \ {0} /\ MinPoints \in Nat \ {0}
  BY SensingAssumption
<1>2. /\ AngularTol \in Nat /\ RangeTol \in Nat /\ MaxMisses \in Nat /\ Coast \in Nat /\ MaxDt \in Nat
      /\ Quiet \in Nat /\ MaxEvents \in Nat
  BY SensingAssumption
<1>3. Far \in Nat /\ Long \in Nat /\ Far = MaxRange + 1 /\ Long = MaxDt + 1
  BY <1>1, <1>2 DEF Far, Long
<1>4. /\ Bins \subseteq Nat /\ 0 \in Bins /\ Ranges \subseteq Nat /\ Far \notin Ranges
      /\ 1..Far = Ranges \cup {Far}
  BY <1>1 DEF Bins, Ranges, Far
<1> QED BY <1>1, <1>2, <1>3, <1>4, SensingAssumption

LEMMA LeastOf ==
    ASSUME NEW T \in SUBSET Nat, T # {}
    PROVE  Min(T) \in T /\ \A y \in T : Min(T) <= y
<1> DEFINE R == {ss \in Nat \X Nat : ss[1] < ss[2]}
<1>1. PICK x \in T : \A y \in T : <<y, x>> \notin R
  <2>1. IsWellFoundedOn(R, Nat)
    BY NatLessThanWellFounded DEF OpToRel
  <2> HIDE DEF R
  <2> QED BY <2>1, WFMin
<1>2. \A y \in T : x <= y
  <2> SUFFICES ASSUME NEW y \in T PROVE x <= y
    OBVIOUS
  <2>1. ~(<<y, x>>[1] < <<y, x>>[2])
    BY <1>1
  <2> QED BY <2>1
<1> QED BY <1>2 DEF Min

LEMMA GreaterOf ==
    ASSUME NEW x \in Nat, NEW y \in Nat
    PROVE  Max({x, y}) \in {x, y}
BY DEF Max

LEMMA Division ==
    ASSUME NEW x \in Int, NEW m \in Nat \ {0}
    PROVE  /\ x \div m \in Int /\ x % m \in 0..m - 1
           /\ x = (x \div m) * m + (x % m)
<1>1. x % m \in 0..m - 1
  OBVIOUS
<1>2. x = (x \div m) * m + (x % m) /\ x \div m \in Int
  OBVIOUS
<1> QED BY <1>1, <1>2

LEMMA OneMore ==
    ASSUME NEW p \in Int, NEW m \in Nat
    PROVE  (p + 1) * m = p * m + m
OBVIOUS

\* A number is a multiple of the ring and a remainder in one way.
LEMMA Remainder ==
    ASSUME NEW x \in Int, NEW q \in Int, NEW r \in Bins, x = q * NBins + r
    PROVE  Ring(x) = r
<1> DEFINE p == x \div NBins
           s == x % NBins
<1>1. NBins \in Nat \ {0}
  BY ConstantsAreNat
<1>2. p \in Int /\ s \in 0..NBins - 1 /\ x = p * NBins + s
  BY <1>1, Division
<1> HIDE DEF p, s
<1>3. (q - p) * NBins = s - r
  BY <1>1, <1>2 DEF Bins
<1>4. ASSUME q - p <= -1 PROVE FALSE
  <2>1. (q - p) * NBins <= -1 * NBins
    BY <1>1, <1>2, <1>4
  <2> QED BY <1>1, <1>2, <1>3, <2>1 DEF Bins
<1>5. ASSUME q - p >= 1 PROVE FALSE
  <2>1. (q - p) * NBins >= 1 * NBins
    BY <1>1, <1>2, <1>5
  <2> QED BY <1>1, <1>2, <1>3, <2>1 DEF Bins
<1>6. q = p
  BY <1>2, <1>4, <1>5
<1>7. s = r
  BY <1>1, <1>2, <1>6 DEF Bins
<1> QED BY <1>7 DEF s, Ring

LEMMA OnRing ==
    /\ \A x \in Int : Ring(x) \in Bins
    /\ \A b \in Bins : Ring(b) = b
<1>1. NBins \in Nat \ {0} /\ Bins \subseteq Nat
  BY ConstantsAreNat
<1>2. ASSUME NEW x \in Int PROVE Ring(x) \in Bins
  BY <1>1 DEF Ring, Bins
<1>3. ASSUME NEW b \in Bins PROVE Ring(b) = b
  BY <1>1, Remainder, b = 0 * NBins + b
<1> QED BY <1>2, <1>3

\* The next bin.
LEMMA RingNext ==
    ASSUME NEW x \in Int
    PROVE  Ring(x + 1) = IF Ring(x) = NBins - 1 THEN 0 ELSE Ring(x) + 1
<1> DEFINE p == x \div NBins
           s == x % NBins
<1>1. NBins \in Nat \ {0} /\ 0 \in Bins
  BY ConstantsAreNat
<1>2. p \in Int /\ s \in 0..NBins - 1 /\ x = p * NBins + s /\ s = Ring(x)
  BY <1>1, Division DEF Ring
<1> HIDE DEF p, s
<1>3. CASE s = NBins - 1
  <2>1. PICK q \in Int, z \in Bins : q = p + 1 /\ z = 0
    BY <1>1, <1>2
  <2>2. q * NBins = p * NBins + NBins /\ p * NBins \in Int
    BY <1>1, <1>2, <2>1, OneMore
  <2> DEFINE v == p * NBins
             w == q * NBins
  <2>3. x + 1 = w + z
    <3>1. v \in Int /\ w = v + NBins /\ x = v + s
      BY <1>2, <2>2
    <3> HIDE DEF v, w
    <3> QED BY <1>1, <1>3, <2>1, <3>1
  <2>4. x + 1 \in Int
    OBVIOUS
  <2>5. Ring(x + 1) = z
    BY <2>1, <2>3, <2>4, Remainder
  <2> QED BY <1>2, <1>3, <2>1, <2>5
<1>4. CASE s # NBins - 1
  <2>1. s + 1 \in Bins /\ x + 1 = p * NBins + (s + 1)
    BY <1>1, <1>2, <1>4 DEF Bins
  <2>2. x + 1 \in Int
    OBVIOUS
  <2>3. Ring(x + 1) = s + 1
    BY <1>2, <2>1, <2>2, Remainder
  <2> QED BY <1>2, <1>4, <2>3
<1> QED BY <1>3, <1>4

LEMMA AwayIs ==
    ASSUME NEW b \in Bins, NEW c \in Bins
    PROVE  Away(b, c) \in Nat /\ Away(b, c) = Away(c, b) /\ Away(b, b) = 0
<1>1. Ring(b - c) \in Nat /\ Ring(c - b) \in Nat /\ Ring(b - b) = 0
  <2>1. b \in Nat /\ c \in Nat /\ Bins \subseteq Nat /\ 0 \in Bins
    BY ConstantsAreNat
  <2>2. b - c \in Int /\ c - b \in Int /\ b - b = 0
    BY <2>1
  <2> QED BY <2>1, <2>2, OnRing
<1>2. {Ring(b - c), Ring(c - b)} = {Ring(c - b), Ring(b - c)} /\ {Ring(b - b), Ring(b - b)} = {0}
  BY <1>1
<1>3. Min({Ring(b - c), Ring(c - b)}) \in {Ring(b - c), Ring(c - b)}
  BY <1>1, LeastOf
<1>4. Min({0}) = 0
  BY LeastOf
<1> QED BY <1>1, <1>2, <1>3, <1>4 DEF Away

LEMMA NeighboursNear ==
    ASSUME NEW x \in Int
    PROVE  /\ Away(Ring(x), Ring(x + 1)) <= 1 /\ Away(Ring(x + 1), Ring(x)) <= 1
           /\ NBins > 1 => Ring(x) # Ring(x + 1)
<1> DEFINE b == Ring(x)
           c == Ring(x + 1)
<1>1. b \in Bins /\ c \in Bins /\ NBins \in Nat \ {0} /\ c = IF b = NBins - 1 THEN 0 ELSE b + 1
  BY OnRing, RingNext, ConstantsAreNat
<1> HIDE DEF b, c
<1>2. NBins > 1 => b # c
  BY <1>1 DEF Bins
<1>3. Away(b, c) = Away(c, b) /\ Away(b, c) \in Nat
  BY <1>1, AwayIs
<1>4. Ring(c - b) <= 1
  <2>1. CASE NBins = 1
    <3>1. c - b = 0
      BY <1>1, <2>1 DEF Bins
    <3> QED BY <3>1, OnRing, ConstantsAreNat
  <2>2. CASE NBins # 1 /\ b = NBins - 1
    <3>1. c - b = (-1) * NBins + 1 /\ 1 \in Bins
      BY <1>1, <2>2 DEF Bins
    <3>2. c - b \in Int
      BY <1>1 DEF Bins
    <3> QED BY <3>1, <3>2, Remainder
  <2>3. CASE NBins # 1 /\ b # NBins - 1
    <3>1. c - b = 1 /\ 1 \in Bins
      BY <1>1, <2>3 DEF Bins
    <3> QED BY <3>1, OnRing
  <2> QED BY <2>1, <2>2, <2>3
<1>5. Away(b, c) <= 1
  <2>1. {Ring(b - c), Ring(c - b)} \subseteq Nat
    <3>1. b - c \in Int /\ c - b \in Int
      BY <1>1, ConstantsAreNat
    <3>2. Bins \subseteq Nat
      BY ConstantsAreNat
    <3> QED BY <3>1, <3>2, OnRing
  <2>2. Away(b, c) <= Ring(c - b) /\ Ring(c - b) \in Nat
    BY <2>1, LeastOf DEF Away
  <2> QED BY <1>3, <1>4, <2>2
<1> QED BY <1>2, <1>3, <1>5 DEF b, c
-----------------------------------------------------------------------------
(* Sequences and finite sets.                                              *)

LEMMA ListedAs ==
    ASSUME NEW S, NEW n \in Nat, NEW f \in [1..n -> S]
    PROVE  f \in Seq(S) /\ Len(f) = n /\ DOMAIN f = 1..n
OBVIOUS

LEMMA ElementOf ==
    ASSUME NEW S, NEW q \in Seq(S), NEW i \in DOMAIN q
    PROVE  q[i] \in S
OBVIOUS

LEMMA SeqIn ==
    ASSUME NEW S, NEW T, NEW q \in Seq(S), \A i \in DOMAIN q : q[i] \in T
    PROVE  q \in Seq(T)
<1>1. Len(q) \in Nat /\ DOMAIN q = 1..Len(q) /\ q \in [1..Len(q) -> S]
  OBVIOUS
<1>2. q \in [1..Len(q) -> T]
  BY <1>1
<1> QED BY <1>1, <1>2, ListedAs

\* A window of n that takes one more element.
Slides(q, e, n, r) ==
    /\ Len(r) = IF Len(q) < n THEN Len(q) + 1 ELSE n
    /\ r[Len(r)] = e
    /\ \A i \in 1..Len(r) - 1 : /\ i + Len(q) + 1 - Len(r) \in 1..Len(q)
                                /\ r[i] = q[i + Len(q) + 1 - Len(r)]

LEMMA WindowOf ==
    ASSUME NEW S, NEW q \in Seq(S), NEW e \in S, NEW n \in Nat \ {0}, Len(q) <= n,
           NEW r, r = Latest(Append(q, e), n)
    PROVE  r \in Seq(S) /\ Slides(q, e, n, r)
<1> DEFINE a == Append(q, e)
<1>1. /\ a \in Seq(S) /\ Len(a) = Len(q) + 1 /\ Len(q) \in Nat /\ a[Len(q) + 1] = e
      /\ \A i \in 1..Len(q) : a[i] = q[i]
  OBVIOUS
<1> HIDE DEF a
<1>2. CASE Len(q) < n
  <2>1. r = a
    BY <1>1, <1>2 DEF Latest, a
  <2> QED BY <1>1, <1>2, <2>1 DEF Slides
<1>3. CASE Len(q) >= n
  <2>1. Len(q) = n /\ Len(a) > n /\ Len(a) - n + 1 = 2
    BY <1>1, <1>3
  <2>2. r = SubSeq(a, Len(a) - n + 1, Len(a))
    BY <2>1 DEF Latest, a
  <2>3. r \in Seq(S) /\ Len(r) = n /\ \A i \in 1..n : r[i] = a[i + 1]
    BY <1>1, <2>1, <2>2
  <2> QED BY <1>1, <2>1, <2>3 DEF Slides
<1> QED BY <1>1, <1>2, <1>3

\* A finite set is listed.
LEMMA ListOf ==
    ASSUME NEW S, IsFiniteSet(S)
    PROVE  SetToSeq(S) \in Seq(S)
<1> DEFINE n == Cardinality(S)
<1>1. n \in Nat /\ ExistsBijection(1..n, S)
  BY FS_CardinalityType
<1>2. \E f \in [1..n -> S] : IsInjective(f)
  BY <1>1 DEF ExistsBijection, Bijection, Injection, IsInjective
<1>3. SetToSeq(S) \in [1..n -> S]
  BY <1>2 DEF SetToSeq
<1> DEFINE l == SetToSeq(S)
<1>4. l \in [1..n -> S] /\ n \in Nat
  BY <1>1, <1>3
<1> HIDE DEF n, l
<1>5. l \in Seq(S)
  BY <1>4, ListedAs
<1> QED BY <1>5 DEF l

LEMMA ListIn ==
    ASSUME NEW S, IsFiniteSet(S), NEW T, S \subseteq T
    PROVE  SetToSeq(S) \in Seq(T)
<1> DEFINE l == SetToSeq(S)
<1>1. l \in Seq(S)
  BY ListOf
<1> HIDE DEF l
<1>2. \A i \in DOMAIN l : l[i] \in T
  BY <1>1, ElementOf
<1>3. l \in Seq(T)
  BY <1>1, <1>2, SeqIn
<1> QED BY <1>3 DEF l

\* Two elements are more than one.
LEMMA AnotherOf ==
    ASSUME NEW S, IsFiniteSet(S), Cardinality(S) >= 2, NEW x
    PROVE  \E y \in S : y # x
<1>1. SUFFICES ASSUME S \subseteq {x} PROVE FALSE
  OBVIOUS
<1>2. IsFiniteSet({x}) /\ Cardinality({x}) = 1
  BY FS_Singleton
<1>3. Cardinality(S) <= 1 /\ Cardinality(S) \in Nat
  BY <1>1, <1>2, FS_Subset, FS_CardinalityType
<1> QED BY <1>3

LEMMA FiniteRing ==
    /\ \A B \in SUBSET Bins : IsFiniteSet(B)
    /\ IsFiniteSet(Bins \X (1..NBins))
<1>1. IsFiniteSet(Bins) /\ IsFiniteSet(1..NBins)
  <2>1. NBins \in Nat
    BY ConstantsAreNat
  <2>2. NBins - 1 \in Int /\ NBins \in Int /\ 0 \in Int /\ 1 \in Int
    BY <2>1
  <2> QED BY <2>2, FS_Interval DEF Bins
<1> QED BY <1>1, FS_Subset, FS_Product

-----------------------------------------------------------------------------
(* Scans.                                                                  *)

Shapes == [bins : SUBSET Bins, range : Ranges]

\* A scan shows what stood, in all bins or in all but one.
Clean(scn, stood) == \A b \in Bins : scn[b] # Far => <<b, scn[b]>> \in stood
Shows(scn, stood) == \E x \in Bins : \A b \in Bins \ {x} : scn[b] # Far => <<b, scn[b]>> \in stood

LEMMA ReadingIs ==
    ASSUME NEW scn \in Scans, NEW b \in Bins
    PROVE  /\ scn[b] \in Nat /\ scn[b] \in 1..Far
           /\ scn[b] # Far => scn[b] \in Ranges /\ <<b, scn[b]>> \in Places
<1>1. scn[b] \in 1..Far /\ 1..Far = Ranges \cup {Far} /\ Far \in Nat
  BY ConstantsAreNat DEF Scans
<1> QED BY <1>1 DEF Places

LEMMA NearestIs ==
    ASSUME NEW scn \in Scans, NEW bs \in SUBSET Bins, bs # {}
    PROVE  /\ Nearest(scn, bs) \in 1..Far
           /\ \E b \in bs : scn[b] = Nearest(scn, bs)
<1> DEFINE T == {scn[b] : b \in bs}
<1>1. T \in SUBSET Nat /\ T # {}
  BY ReadingIs
<1>2. Min(T) \in T
  BY <1>1, LeastOf
<1>3. Nearest(scn, bs) = Min(T)
  BY DEF Nearest
<1> QED BY <1>2, <1>3, ReadingIs

LEMMA LaserScanIs ==
    ASSUME NEW returns \in SUBSET Places
    PROVE  /\ LaserScan(returns) \in Scans
           /\ Clean(LaserScan(returns), returns)
<1>1. ASSUME NEW b \in Bins
      PROVE  /\ LaserScan(returns)[b] \in 1..Far
             /\ LaserScan(returns)[b] # Far => <<b, LaserScan(returns)[b]>> \in returns
  <2> DEFINE T == {p[2] : p \in {q \in returns : q[1] = b}} \cup {Far}
  <2>1. Far \in Nat /\ Far \in 1..Far /\ Ranges \subseteq 1..Far /\ 1..Far \subseteq Nat
    BY ConstantsAreNat
  <2>2. T \subseteq 1..Far /\ T # {}
    BY <2>1 DEF Places
  <2>3. Min(T) \in T
    BY <2>1, <2>2, LeastOf
  <2>4. LaserScan(returns)[b] = IF Keeps(b) THEN Min(T) ELSE Far
    BY DEF LaserScan
  <2>5. ASSUME NEW r \in T, r # Far PROVE <<b, r>> \in returns
    <3>1. PICK p \in returns : p[1] = b /\ p[2] = r
      BY <2>5
    <3>2. p = <<p[1], p[2]>>
      BY DEF Places
    <3> QED BY <3>1, <3>2
  <2> HIDE DEF T
  <2> QED BY <2>1, <2>2, <2>3, <2>4, <2>5
<1>2. LaserScan(returns) = [b \in Bins |-> LaserScan(returns)[b]]
  BY DEF LaserScan
<1> QED BY <1>1, <1>2 DEF Scans, Clean

LEMMA BlankIs == Blank \in Scans
BY ConstantsAreNat DEF Blank, Scans

LEMMA FilteredIs ==
    ASSUME NEW scn \in Scans
    PROVE  /\ Filtered(scn) \in Scans
           /\ Len(history) < Depth => Filtered(scn) = scn
           /\ ~(Len(history) < Depth) => \A b \in Bins : Filtered(scn)[b] # Far =>
                 Filtered(scn)[b] = scn[b] /\ Supported(b, scn[b])
<1>1. Far \in 1..Far
  BY ConstantsAreNat
<1>2. CASE Len(history) < Depth
  BY <1>2 DEF Filtered
<1>3. CASE ~(Len(history) < Depth)
  <2>1. Filtered(scn) = [b \in Bins |-> IF scn[b] # Far /\ Supported(b, scn[b]) THEN scn[b] ELSE Far]
    BY <1>3 DEF Filtered
  <2> QED BY <1>1, <1>3, <2>1, ReadingIs DEF Scans
<1> QED BY <1>2, <1>3

LEMMA StandsIs ==
    ASSUME NEW t \in Shapes
    PROVE  Stands(t) \in SUBSET Places
BY DEF Shapes, Stands, Places

LEMMA NothingIs == Nothing \in Shapes
<1>1. 1 \in Ranges
  BY ConstantsAreNat DEF Ranges
<1> QED BY <1>1 DEF Nothing, Shapes

\* What stands in view stays well formed.
LEMMA MovesIs ==
    ASSUME NEW t \in Shapes, NEW u \in Moves(t)
    PROVE  u \in Shapes
<1>1. Nothing \in Shapes /\ Things \subseteq Shapes
  <2>1. Things \subseteq Shapes
    BY SensingAssumption DEF Shapes
  <2> QED BY <2>1, NothingIs
<1>2. \A b \in Bins : Ring(b + 1) \in Bins
  BY OnRing, ConstantsAreNat
<1>3. t.bins \in SUBSET Bins /\ t.range \in Ranges
  BY DEF Shapes
<1>4. {Ring(b + 1) : b \in t.bins} \in SUBSET Bins
  BY <1>2, <1>3
<1>5. [t EXCEPT !.bins = {Ring(b + 1) : b \in @}] \in Shapes
  BY <1>4 DEF Shapes
<1>6. ASSUME t.range > 1 PROVE Closer(t) \in Shapes
  <2>1. t.range - 1 \in Ranges
    BY <1>3, <1>6, ConstantsAreNat DEF Ranges
  <2>2. t.bins \cup {Ring(b + 1) : b \in t.bins} \in SUBSET Bins
    BY <1>3, <1>4
  <2> QED BY <1>3, <2>1, <2>2 DEF Closer, Shapes
<1> QED BY <1>1, <1>5, <1>6 DEF Moves

-----------------------------------------------------------------------------
(* What a scan is read as.                                                 *)

LEMMA DifferIs ==
    ASSUME NEW r \in Nat, NEW q \in Nat
    PROVE  /\ Differ(r, q) \in Nat /\ Differ(r, q) = Differ(q, r) /\ Differ(r, r) = 0
           /\ \A e \in Nat : Differ(r, q) <= e <=> r <= q + e /\ q <= r + e
BY DEF Differ

LEMMA NearItself ==
    ASSUME NEW b \in Bins, NEW r \in Ranges
    PROVE  Near(<<b, r>>, <<b, r>>)
<1>1. r \in Nat /\ AngularTol \in Nat /\ RangeTol \in Nat
  BY ConstantsAreNat
<1>2. Away(b, b) = 0 /\ Differ(r, r) = 0
  BY <1>1, AwayIs, DifferIs
<1> QED BY <1>1, <1>2 DEF Near

Observation == [at : Places, points : 1..NBins]

\* An obstacle stands at a return of the scan, and one of two points has a neighbour.
SeenIn(o, scn) ==
    /\ o \in Observation
    /\ \E b \in Bins :
        /\ o.at = <<b, scn[b]>> /\ scn[b] # Far
        /\ o.points >= 2 => \E c \in Bins :
              c # b /\ scn[c] # Far /\ Away(b, c) <= 1 /\ Differ(scn[b], scn[c]) <= RangeTol

LEMMA ArcIs ==
    ASSUME NEW b \in Bins, NEW n \in 1..NBins
    PROVE  Arc(b, n) \in SUBSET Bins /\ Ring(b + 0) \in Arc(b, n)
<1>1. NBins \in Nat /\ b \in Nat
  BY ConstantsAreNat
<1>2. \A k \in 0..n - 1 : Ring(b + k) \in Bins
  BY <1>1, OnRing
<1>3. 0 \in 0..n - 1
  BY <1>1
<1> QED BY <1>2, <1>3 DEF Arc

LEMMA JoinedIs ==
    ASSUME NEW scn \in Scans, NEW b \in Bins, NEW c \in Bins, Joined(scn, b, c)
    PROVE  /\ scn[b] # Far /\ scn[c] # Far
           /\ Differ(scn[b], scn[c]) <= RangeTol /\ Differ(scn[c], scn[b]) <= RangeTol
BY ReadingIs, DifferIs DEF Joined

LEMMA DescribeIs ==
    ASSUME NEW scn \in Scans, NEW c \in Clusters(scn)
    PROVE  SeenIn(Describe(scn, c), scn)
<1> DEFINE f == c[1]
           n == c[2]
           r == Nearest(scn, Arc(f, n))
           J == {j \in 0..n - 1 : scn[Ring(f + j)] = r}
           k == Min(J)
           o == Describe(scn, c)
<1>1. /\ f \in Bins /\ n \in 1..NBins /\ scn[f] # Far
      /\ \A i \in 1..n - 1 : Joined(scn, Ring(f + i - 1), Ring(f + i))
  BY DEF Clusters
<1>2. NBins \in Nat \ {0} /\ f \in Nat /\ n \in Nat /\ \A i \in Int : Ring(f + i) \in Bins
  <2> HIDE DEF f, n
  <2>1. NBins \in Nat \ {0} /\ f \in Nat
    BY <1>1, ConstantsAreNat
  <2>2. \A i \in Int : f + i \in Int
    BY <2>1
  <2>3. \A i \in Int : Ring(f + i) \in Bins
    BY <2>2, OnRing
  <2> QED BY <1>1, <2>1, <2>3
<1>3. o = [at |-> <<Ring(f + k), r>>, points |-> n]
  BY DEF Describe
<1> HIDE DEF f, n, o
<1>4. \A i \in 0..n - 1 : scn[Ring(f + i)] # Far
  <2> TAKE i \in 0..n - 1
  <2>1. CASE i = 0
    BY <1>1, <1>2, <2>1, OnRing, f + 0 = f
  <2>2. CASE i # 0
    <3>1. i \in 1..n - 1 /\ Ring(f + i - 1) \in Bins /\ Ring(f + i) \in Bins
      <4>1. i \in 1..n - 1 /\ i - 1 \in Int /\ f + i - 1 = f + (i - 1)
        BY <1>2, <2>2
      <4> QED BY <1>2, <4>1
    <3> QED BY <1>1, <3>1, JoinedIs
  <2> QED BY <2>1, <2>2
<1>5. \E b \in Arc(f, n) : scn[b] = r
  BY <1>1, ArcIs, NearestIs
<1>6. J # {}
  BY <1>5 DEF Arc
<1>7. J \in SUBSET Nat
  BY <1>2
<1>8. k \in J
  BY <1>6, <1>7, LeastOf
<1>9. k \in 0..n - 1 /\ scn[Ring(f + k)] = r
  BY <1>8
<1> HIDE DEF k, J, r
<1>10. r # Far /\ Ring(f + k) \in Bins /\ <<Ring(f + k), r>> \in Places
  BY <1>2, <1>4, <1>9, ReadingIs
<1>11. o \in Observation
  BY <1>1, <1>3, <1>10 DEF Observation
<1>12. ASSUME n >= 2
       PROVE  \E d \in Bins : /\ d # Ring(f + k) /\ scn[d] # Far /\ Away(Ring(f + k), d) <= 1
                              /\ Differ(scn[Ring(f + k)], scn[d]) <= RangeTol
  <2>1. NBins > 1
    BY <1>1, <1>2, <1>12
  <2>2. CASE k = 0
    <3>1. Joined(scn, Ring(f + 1 - 1), Ring(f + 1))
      BY <1>1, <1>2, <1>12
    <3>2. f + 1 - 1 = f + k /\ f + 1 = (f + k) + 1 /\ f + k \in Int
      BY <1>2, <2>2
    <3>3. Joined(scn, Ring(f + k), Ring((f + k) + 1)) /\ Ring((f + k) + 1) \in Bins
      BY <1>2, <3>1, <3>2
    <3>4. Away(Ring(f + k), Ring((f + k) + 1)) <= 1 /\ Ring(f + k) # Ring((f + k) + 1)
      BY <2>1, <3>2, NeighboursNear
    <3> QED BY <1>10, <3>3, <3>4, JoinedIs
  <2>3. CASE k # 0
    <3>1. k \in 1..n - 1 /\ k \in Int
      BY <1>2, <1>9, <2>3
    <3>2. PICK x \in Int : x = f + k - 1
      BY <1>2, <3>1
    <3>3. f + k = x + 1 /\ f + (k - 1) = x
      BY <1>2, <3>1, <3>2
    <3>4. Joined(scn, Ring(x), Ring(f + k)) /\ Ring(x) \in Bins
      BY <1>1, <1>2, <3>1, <3>2, <3>3
    <3>5. Away(Ring(f + k), Ring(x)) <= 1 /\ Ring(f + k) # Ring(x)
      BY <2>1, <3>2, <3>3, NeighboursNear
    <3> QED BY <1>10, <3>4, <3>5, JoinedIs
  <2> QED BY <2>2, <2>3
<1>13. o.at = <<Ring(f + k), scn[Ring(f + k)]>> /\ o.points = n
  BY <1>3, <1>9
<1> HIDE DEF o
<1>14. SeenIn(o, scn)
  BY <1>9, <1>10, <1>11, <1>12, <1>13 DEF SeenIn
<1> QED BY <1>14 DEF o

LEMMA DetectIs ==
    ASSUME NEW scn \in Scans
    PROVE  /\ \A o \in Detect(scn) : SeenIn(o, scn)
           /\ IsFiniteSet(Detect(scn))
<1>1. \A o \in Detect(scn) : SeenIn(o, scn)
  BY DescribeIs DEF Detect
<1> DEFINE C == Clusters(scn)
           D == {Describe(scn, c) : c \in C}
           g == [c \in C |-> Describe(scn, c)]
<1>2. C \in SUBSET (Bins \X (1..NBins))
  BY DEF Clusters
<1>3. IsFiniteSet(C)
  BY <1>2, FiniteRing, FS_Subset
<1>4. g \in [C -> D] /\ \A d \in D : \E c \in C : g[c] = d
  OBVIOUS
<1>5. g \in Surjection(C, D)
  BY <1>4 DEF Surjection
<1>6. IsFiniteSet(D)
  BY <1>3, <1>5, FS_Surjection
<1>7. Detect(scn) \in SUBSET D
  BY DEF Detect
<1> QED BY <1>1, <1>6, <1>7, FS_Subset

\* The n-th smallest of the readings is one of them, and n are no larger.
LEMMA SmallestIs ==
    ASSUME NEW keys, NEW f \in [keys -> 1..Far], IsFiniteSet(keys), NEW n \in Nat \ {0},
           Smallest(n, f, keys) # Far
    PROVE  /\ Smallest(n, f, keys) \in Ranges
           /\ \E k \in keys : f[k] = Smallest(n, f, keys)
           /\ IsFiniteSet({k \in keys : f[k] <= Smallest(n, f, keys)})
           /\ Cardinality({k \in keys : f[k] <= Smallest(n, f, keys)}) >= n
<1> DEFINE Below(r) == {k \in keys : f[k] <= r}
           T == {r \in Ranges : Cardinality(Below(r)) >= n} \cup {Far}
           v == Smallest(n, f, keys)
<1>1. Far \in Nat /\ Ranges \subseteq Nat /\ Far = MaxRange + 1 /\ MaxRange \in Nat
  BY ConstantsAreNat
<1>2. v = Min(T)
  BY DEF Smallest
<1>3. T \in SUBSET Nat /\ T # {}
  BY <1>1
<1>4. v \in T /\ \A y \in T : v <= y
  BY <1>2, <1>3, LeastOf
<1>5. \A r \in Nat : IsFiniteSet(Below(r))
  BY FS_Subset
<1> HIDE DEF v, T
<1>6. v \in Ranges /\ Cardinality(Below(v)) >= n
  BY <1>4 DEF T, v
<1>7. v \in Nat /\ v >= 1
  BY <1>6, ConstantsAreNat DEF Ranges
<1>8. ASSUME \A k \in keys : f[k] # v PROVE FALSE
  <2>1. \A k \in keys : f[k] \in Nat /\ f[k] >= 1
    BY <1>1
  <2>2. Below(v) = Below(v - 1)
    BY <1>7, <1>8, <2>1
  <2>3. CASE v = 1
    <3>1. Below(v) = {}
      BY <1>8, <2>1, <2>3
    <3> QED BY <1>6, <3>1, FS_EmptySet
  <2>4. CASE v # 1
    <3>1. v - 1 \in Ranges
      BY <1>1, <1>6, <1>7, <2>4 DEF Ranges
    <3>2. v - 1 \in T
      BY <1>6, <2>2, <3>1 DEF T
    <3> QED BY <1>4, <1>7, <3>2
  <2> QED BY <2>3, <2>4
<1>9. IsFiniteSet(Below(v))
  BY <1>5, <1>7
<1> QED BY <1>6, <1>8, <1>9 DEF v

LEMMA SmallestType ==
    ASSUME NEW keys, NEW f, NEW n
    PROVE  Smallest(n, f, keys) \in 1..Far
<1> DEFINE T == {r \in Ranges : Cardinality({k \in keys : f[k] <= r}) >= n} \cup {Far}
<1>1. T \subseteq 1..Far /\ 1..Far \subseteq Nat /\ T # {}
  BY ConstantsAreNat
<1>2. Min(T) \in T
  BY <1>1, LeastOf
<1> QED BY <1>1, <1>2 DEF Smallest

\* A sector's distance is a return in it, and with two points in it another is no farther.
LEMMA SectorsOf ==
    ASSUME NEW scn \in Scans
    PROVE  /\ ScanToSectors(scn) \in [Sectors -> 1..Far]
           /\ \A s \in Sectors : ScanToSectors(scn)[s] # Far =>
                /\ ScanToSectors(scn)[s] \in Ranges
                /\ \E b \in Bins : b \div SectorBins = s /\ scn[b] = ScanToSectors(scn)[s]
                /\ NeedPoints >= 2 => \A x : \E b \in Bins :
                      b # x /\ b \div SectorBins = s /\ scn[b] <= ScanToSectors(scn)[s]
<1> DEFINE B(s) == {b \in Bins : b \div SectorBins = s}
           S(s) == Smallest(NeedPoints, scn, B(s))
<1>1. ScanToSectors(scn) = [s \in Sectors |-> S(s)]
  BY DEF ScanToSectors
<1>2. \A s \in Sectors : S(s) \in 1..Far
  BY SmallestType
<1>3. ASSUME NEW s \in Sectors, S(s) # Far
      PROVE  /\ S(s) \in Ranges
             /\ \E b \in Bins : b \div SectorBins = s /\ scn[b] = S(s)
             /\ NeedPoints >= 2 => \A x : \E b \in Bins : b # x /\ b \div SectorBins = s /\ scn[b] <= S(s)
  <2> DEFINE f == [b \in B(s) |-> scn[b]]
             K == {b \in B(s) : scn[b] <= S(s)}
  <2>1. S(s) = Smallest(NeedPoints, f, B(s))
    BY DEF Smallest
  <2>2. f \in [B(s) -> 1..Far] /\ IsFiniteSet(B(s)) /\ NeedPoints \in Nat \ {0}
    BY FiniteRing, ReadingIs, ConstantsAreNat
  <2>3. {b \in B(s) : f[b] <= S(s)} = K
    OBVIOUS
  <2> DEFINE v == S(s)
  <2>4. /\ v \in Ranges /\ \E b \in B(s) : f[b] = v
        /\ IsFiniteSet({b \in B(s) : f[b] <= v}) /\ Cardinality({b \in B(s) : f[b] <= v}) >= NeedPoints
    <3> HIDE DEF f
    <3> QED BY <1>3, <2>1, <2>2, SmallestIs
  <2>5. IsFiniteSet(K) /\ Cardinality(K) >= NeedPoints
    BY <2>3, <2>4
  <2>6. ASSUME NeedPoints >= 2, NEW x PROVE \E b \in K : b # x
    <3>1. Cardinality(K) >= 2
      BY <2>2, <2>5, <2>6, FS_CardinalityType
    <3> HIDE DEF K
    <3> QED BY <2>5, <3>1, AnotherOf
  <2> QED BY <2>4, <2>6
<1> QED BY <1>1, <1>2, <1>3

\* What is sent for a sector is what one of the frames has for it.
LEMMA UpdateIs ==
    ASSUME NEW fs \in Seq([Sectors -> 1..Far]), fs # <<>>
    PROVE  /\ SectorUpdate(fs) \in [Sectors -> 1..Far]
           /\ \A s \in Sectors : SectorUpdate(fs)[s] # Far =>
                 \E i \in DOMAIN fs : fs[i][s] = SectorUpdate(fs)[s]
<1>1. Len(fs) \in Nat \ {0} /\ DOMAIN fs = 1..Len(fs) /\ Far \in Nat /\ 1..Far \subseteq Nat
  <2>1. Len(fs) \in Nat /\ DOMAIN fs = 1..Len(fs)
    OBVIOUS
  <2>2. Len(fs) # 0
    OBVIOUS
  <2>3. Far \in Nat
    BY ConstantsAreNat
  <2> QED BY <2>1, <2>2, <2>3
<1>2. \A i \in DOMAIN fs : fs[i] \in [Sectors -> 1..Far]
  BY ElementOf
<1>3. ASSUME NEW s \in Sectors
      PROVE  /\ Median(fs)[s] \in 1..Far
             /\ Median(fs)[s] # Far => \E i \in DOMAIN fs : fs[i][s] = Median(fs)[s]
  <2> DEFINE g == [i \in DOMAIN fs |-> fs[i][s]]
             n == Len(fs) \div 2 + 1
             v == Smallest(n, g, DOMAIN fs)
  <2>1. v \in 1..Far
    BY SmallestType
  <2>2. Median(fs)[s] = v
    BY DEF Median
  <2>3. g \in [DOMAIN fs -> 1..Far]
    BY <1>2
  <2>4. n \in Nat \ {0}
    BY <1>1
  <2>5. IsFiniteSet(DOMAIN fs)
    <3>1. Len(fs) \in Int /\ 1 \in Int
      BY <1>1
    <3> QED BY <1>1, <3>1, FS_Interval
  <2> HIDE DEF g, n
  <2>6. v # Far => \E i \in DOMAIN fs : g[i] = v
    BY <2>3, <2>4, <2>5, SmallestIs
  <2> HIDE DEF v
  <2> QED BY <2>1, <2>2, <2>6 DEF g
<1>4. CASE Len(fs) < SectorDepth \/ SectorDepth = 1
  <2>1. SectorUpdate(fs) = fs[Len(fs)] /\ Len(fs) \in DOMAIN fs
    BY <1>1, <1>4 DEF SectorUpdate
  <2> QED BY <1>2, <2>1
<1>5. CASE ~(Len(fs) < SectorDepth \/ SectorDepth = 1)
  <2>1. Len(fs) - 1 \in DOMAIN fs /\ Len(fs) \in DOMAIN fs
    <3>1. SectorDepth \in Nat \ {0}
      BY ConstantsAreNat
    <3> QED BY <1>1, <1>5, <3>1
  <2> DEFINE x(s) == fs[Len(fs)][s]
             y(s) == fs[Len(fs) - 1][s]
             m(s) == Median(fs)[s]
             u(s) == IF Far \notin {x(s), y(s)} THEN Min({Max({x(s), y(s)}), m(s)}) ELSE m(s)
  <2>2. SectorUpdate(fs) = [s \in Sectors |-> u(s)]
    BY <1>5 DEF SectorUpdate
  <2>3. ASSUME NEW s \in Sectors
        PROVE  u(s) \in {x(s), y(s), m(s)}
    <3>1. x(s) \in Nat /\ y(s) \in Nat /\ m(s) \in Nat
      BY <1>1, <1>2, <1>3, <2>1
    <3>2. Max({x(s), y(s)}) \in {x(s), y(s)}
      BY <3>1, GreaterOf
    <3>3. Max({x(s), y(s)}) \in Nat
      BY <3>1, <3>2
    <3>4. Min({Max({x(s), y(s)}), m(s)}) \in {Max({x(s), y(s)}), m(s)}
      BY <3>1, <3>3, LeastOf
    <3> QED BY <3>2, <3>4
  <2>4. ASSUME NEW s \in Sectors
        PROVE  u(s) \in 1..Far /\ (u(s) # Far => \E i \in DOMAIN fs : fs[i][s] = u(s))
    <3>1. x(s) \in 1..Far /\ y(s) \in 1..Far
      BY <1>2, <2>1
    <3> HIDE DEF u
    <3> QED BY <1>3, <2>1, <2>3, <2>4, <3>1
  <2> HIDE DEF u
  <2> QED BY <2>2, <2>4
<1> QED BY <1>4, <1>5

-----------------------------------------------------------------------------
(* The tracks.                                                             *)

\* A track before it is retired for its misses.
Tracked == [at : Places, hits : 1..SparseHits, misses : Nat,
            known : BOOLEAN, seen : Places, age : 0..Coast]

\* A track of one step: it stands where an obstacle or a track stood, and what it
\* is known for is a confirmed obstacle, or a known track that has grown older.
Moved(t, obs) == (\E o \in obs : t.at = o.at) \/ (\E j \in DOMAIN tracks : t.at = tracks[j].at)
Knows(t, confirmed) == t.known =>
    \/ t.age = 0 /\ \E o \in confirmed : t.seen = o.at
    \/ \E j \in DOMAIN tracks :
          /\ elapsed <= MaxDt /\ tracks[j].known /\ tracks[j].age + elapsed <= Coast
          /\ t.age = tracks[j].age + elapsed /\ t.seen = tracks[j].seen
Heirs(obs, confirmed) == {t \in Track : Moved(t, obs) /\ Knows(t, confirmed)}

\* An obstacle is confirmed for its points or for a track near it.
Backed(o) == o.points >= MinPoints \/ \E i \in DOMAIN tracks : Near(o.at, tracks[i].at)

LEMMA TrackIsTracked == \A t \in Track : t \in Tracked
BY DEF Track, Tracked

LEMMA NewTrackIs ==
    ASSUME NEW o \in Observation
    PROVE  NewTrack(o) \in Tracked /\ NewTrack(o).misses = 0 /\ NewTrack(o).at = o.at
           /\ NewTrack(o).known = FALSE
<1>1. SparseHits \in Nat \ {0} /\ Coast \in Nat
  BY ConstantsAreNat
<1>2. 1 \in 1..SparseHits /\ 0 \in 0..Coast /\ o.at \in Places
  BY <1>1 DEF Observation
<1> QED BY <1>2 DEF NewTrack, Tracked

\* What is remembered of a track.
LEMMA RememberIs ==
    ASSUME NEW t \in Tracked, NEW obs \in SUBSET Observation, elapsed \in Nat,
           NEW r, r = Remember(t, obs)
    PROVE  /\ r \in Tracked /\ r.at = t.at /\ r.misses = t.misses
           /\ r.known => \/ r.age = 0 /\ \E o \in obs : r.seen = o.at
                         \/ t.known /\ t.age + elapsed <= Coast /\ r.age = t.age + elapsed /\ r.seen = t.seen
<1>1. Coast \in Nat /\ 0 \in 0..Coast /\ t.age \in 0..Coast
  BY ConstantsAreNat DEF Tracked
<1>2. CASE obs # {}
  <2> DEFINE o == CHOOSE o \in obs : TRUE
  <2>1. o \in obs
    BY <1>2
  <2> HIDE DEF o
  <2>2. r = [t EXCEPT !.known = TRUE, !.age = 0, !.seen = o.at]
    BY <1>2 DEF Remember, o
  <2>3. o.at \in Places
    BY <2>1 DEF Observation
  <2> QED BY <1>1, <2>1, <2>2, <2>3 DEF Tracked
<1>3. CASE obs = {} /\ t.known /\ t.age + elapsed <= Coast
  <2>1. r = [t EXCEPT !.age = @ + elapsed]
    BY <1>3 DEF Remember
  <2>2. t.age + elapsed \in 0..Coast
    BY <1>1, <1>3
  <2> QED BY <1>3, <2>1, <2>2 DEF Tracked
<1>4. CASE obs = {} /\ ~(t.known /\ t.age + elapsed <= Coast)
  <2>1. r = [t EXCEPT !.known = FALSE, !.age = 0]
    BY <1>4 DEF Remember
  <2> QED BY <1>1, <2>1 DEF Tracked
<1> QED BY <1>2, <1>3, <1>4

LEMMA AdvanceIs ==
    ASSUME tracks \in Seq(Track), NEW obs \in SUBSET Observation, NEW m \in Associate(obs),
           NEW i \in DOMAIN tracks, NEW r, r = Advance(m, i)
    PROVE  /\ r \in Tracked /\ Moved(r, obs)
           /\ r.known = tracks[i].known /\ r.age = tracks[i].age /\ r.seen = tracks[i].seen
<1> DEFINE t == tracks[i]
<1>1. t \in Track /\ t \in Tracked
  BY ElementOf, TrackIsTracked
<1>2. SparseHits \in Nat \ {0}
  BY ConstantsAreNat
<1>3. DOMAIN m = obs
  BY DEF Associate
<1> HIDE DEF t
<1>4. CASE PairOf(m, i) # {}
  <2> DEFINE o == CHOOSE o \in PairOf(m, i) : TRUE
             h == Min({t.hits + 1, SparseHits})
  <2>1. o \in PairOf(m, i)
    BY <1>4
  <2> HIDE DEF o
  <2>2. r = [t EXCEPT !.at = o.at, !.hits = h, !.misses = 0]
    BY <1>4 DEF Advance, o, t
  <2>3. o \in obs /\ o.at \in Places
    BY <1>3, <2>1 DEF PairOf, Observation
  <2>4. h \in 1..SparseHits
    <3>1. t.hits \in 1..SparseHits
      BY <1>1 DEF Tracked
    <3>2. t.hits + 1 \in Nat /\ t.hits + 1 >= 1
      BY <1>2, <3>1
    <3>3. {t.hits + 1, SparseHits} \in SUBSET Nat
      BY <1>2, <3>2
    <3>4. h \in {t.hits + 1, SparseHits} /\ h <= SparseHits
      BY <3>3, LeastOf
    <3> QED BY <1>2, <3>2, <3>4
  <2> HIDE DEF h
  <2>5. r \in Tracked
    <3>1. 0 \in Nat
      OBVIOUS
    <3> QED BY <1>1, <2>2, <2>3, <2>4, <3>1 DEF Tracked
  <2>6. r.at = o.at /\ r.known = t.known /\ r.age = t.age /\ r.seen = t.seen
    BY <1>1, <2>2 DEF Tracked
  <2> QED BY <2>3, <2>5, <2>6 DEF Moved, t
<1>5. CASE PairOf(m, i) = {}
  <2>1. r = [t EXCEPT !.misses = @ + 1]
    BY <1>5 DEF Advance, t
  <2>2. r \in Tracked /\ r.at = t.at /\ r.known = t.known /\ r.age = t.age /\ r.seen = t.seen
    BY <1>1, <2>1 DEF Tracked
  <2> QED BY <2>2 DEF Moved, t
<1> QED BY <1>4, <1>5

\* The tracks that stay are among those before.
LEMMA RetireIs ==
    ASSUME NEW ts \in Seq(Tracked)
    PROVE  /\ Retire(ts) \in Seq(Track)
           /\ \A k \in DOMAIN Retire(ts) : \E i \in DOMAIN ts : Retire(ts)[k] = ts[i]
<1> DEFINE stays == {i \in DOMAIN ts : ts[i].misses <= MaxMisses}
           order == SetToSeq(stays)
<1>1. Len(ts) \in Nat /\ DOMAIN ts = 1..Len(ts) /\ \A i \in DOMAIN ts : ts[i] \in Tracked
  BY ElementOf
<1>2. \A i \in stays : i \in DOMAIN ts /\ ts[i] \in Track
  BY <1>1, ConstantsAreNat DEF Tracked, Track
<1>3. IsFiniteSet(stays)
  <2>1. IsFiniteSet(1..Len(ts))
    <3>1. Len(ts) \in Int /\ 1 \in Int
      BY <1>1
    <3> QED BY <3>1, FS_Interval
  <2> QED BY <1>1, <2>1, FS_Subset
<1>4. order \in Seq(stays)
  BY <1>3, ListOf
<1>5. Retire(ts) = IF stays = DOMAIN ts THEN ts ELSE [k \in DOMAIN order |-> ts[order[k]]]
  BY DEF Retire
<1> HIDE DEF stays, order
<1>6. CASE stays = DOMAIN ts
  <2>1. Retire(ts) = ts /\ ts \in [1..Len(ts) -> Track]
    BY <1>1, <1>2, <1>5, <1>6
  <2>2. ts \in Seq(Track)
    BY <1>1, <2>1, ListedAs
  <2> QED BY <2>1, <2>2
<1>7. CASE stays # DOMAIN ts
  <2> DEFINE f == [k \in DOMAIN order |-> ts[order[k]]]
  <2>1. Len(order) \in Nat /\ DOMAIN order = 1..Len(order) /\ \A k \in DOMAIN order : order[k] \in stays
    BY <1>4, ElementOf
  <2>2. f \in [1..Len(order) -> Track] /\ DOMAIN f = DOMAIN order
    BY <1>2, <2>1
  <2>3. \A k \in DOMAIN f : \E i \in DOMAIN ts : f[k] = ts[i]
    BY <1>2, <2>1
  <2>4. Retire(ts) = f
    BY <1>5, <1>7
  <2> HIDE DEF f
  <2>5. f \in Seq(Track)
    BY <2>1, <2>2, ListedAs
  <2> QED BY <2>3, <2>4, <2>5
<1> QED BY <1>6, <1>7

\* A set made of one element for each of a finite set is listed.
LEMMA ImageFinite ==
    ASSUME NEW S, IsFiniteSet(S), NEW g, DOMAIN g = S
    PROVE  IsFiniteSet({g[x] : x \in S})
<1> DEFINE T == {g[x] : x \in S}
           h == [x \in S |-> g[x]]
<1>1. h \in Surjection(S, T)
  BY DEF Surjection
<1> HIDE DEF T, h
<1>2. IsFiniteSet(T)
  BY <1>1, FS_Surjection
<1> QED BY <1>2 DEF T

\* What an obstacle without a track starts.
LEMMA StartedIs ==
    ASSUME elapsed \in Nat, NEW obs \in SUBSET Observation, NEW confirmed \in SUBSET obs,
           NEW o \in obs, NEW its \in SUBSET {o}, its \subseteq confirmed,
           NEW r, r = Remember(NewTrack(o), its)
    PROVE  r \in Heirs(obs, confirmed)
<1> DEFINE t == NewTrack(o)
<1>1. t \in Tracked /\ t.misses = 0 /\ t.at = o.at /\ t.known = FALSE
  BY NewTrackIs
<1>2. its \in SUBSET Observation
  OBVIOUS
<1> HIDE DEF t
<1>3. /\ r \in Tracked /\ r.at = t.at /\ r.misses = t.misses
      /\ r.known => \/ r.age = 0 /\ \E p \in its : r.seen = p.at
                    \/ t.known /\ t.age + elapsed <= Coast /\ r.age = t.age + elapsed /\ r.seen = t.seen
  BY <1>1, <1>2, RememberIs DEF t
<1>4. r \in Track
  BY <1>1, <1>3, ConstantsAreNat DEF Tracked, Track
<1>5. r.known => r.age = 0 /\ \E p \in confirmed : r.seen = p.at
  BY <1>1, <1>3
<1>6. Knows(r, confirmed)
  BY <1>5 DEF Knows
<1>7. Moved(r, obs)
  BY <1>1, <1>3 DEF Moved
<1> QED BY <1>4, <1>6, <1>7 DEF Heirs

LEMMA ReseedIs ==
    ASSUME elapsed \in Nat, NEW obs \in SUBSET Observation, IsFiniteSet(obs),
           NEW out \in Reseed(obs)
    PROVE  /\ out[1] \in Seq(Heirs(obs, out[2])) /\ out[2] \in SUBSET obs
           /\ \A o \in out[2] : Backed(o)
<1> DEFINE confirmed == {o \in obs : Confirmed(o, 0)}
           g == [o \in obs |-> Remember(NewTrack(o), {p \in {o} : Confirmed(p, 0)})]
           G == {g[o] : o \in obs}
<1>1. out = <<SetToSeq(G), confirmed>>
  BY DEF Reseed
<1>2. \A o \in obs : g[o] \in Heirs(obs, confirmed)
  <2> TAKE o \in obs
  <2> DEFINE its == {p \in {o} : Confirmed(p, 0)}
             r == Remember(NewTrack(o), its)
  <2>1. its \in SUBSET {o} /\ its \subseteq confirmed /\ confirmed \in SUBSET obs
    OBVIOUS
  <2>2. g[o] = r
    OBVIOUS
  <2> HIDE DEF its, confirmed, g
  <2>3. r \in Heirs(obs, confirmed)
    BY <2>1, StartedIs
  <2> QED BY <2>2, <2>3
<1>3. IsFiniteSet(G)
  <2>1. DOMAIN g = obs
    OBVIOUS
  <2> HIDE DEF g
  <2> QED BY <2>1, ImageFinite
<1>4. SetToSeq(G) \in Seq(Heirs(obs, confirmed))
  <2> HIDE DEF g, confirmed
  <2>1. G \subseteq Heirs(obs, confirmed)
    BY <1>2
  <2> HIDE DEF G
  <2> QED BY <1>3, <2>1, ListIn
<1>5. \A o \in confirmed : Backed(o)
  <2>1. SparseHits \in Nat \ {0}
    BY ConstantsAreNat
  <2> QED BY <2>1 DEF Confirmed, Backed
<1> HIDE DEF G
<1> QED BY <1>1, <1>4, <1>5

\* What follows a track, matched or not.
LEMMA FollowedIs ==
    ASSUME tracks \in Seq(Track), elapsed \in Nat, elapsed <= MaxDt,
           NEW obs \in SUBSET Observation, NEW m \in Associate(obs), NEW confirmed \in SUBSET obs,
           NEW i \in DOMAIN tracks, NEW r, r = Remember(Advance(m, i), PairOf(m, i) \cap confirmed)
    PROVE  r \in Tracked /\ Moved(r, obs) /\ Knows(r, confirmed)
<1> DEFINE a == Advance(m, i)
           its == PairOf(m, i) \cap confirmed
<1>1. /\ a \in Tracked /\ Moved(a, obs)
      /\ a.known = tracks[i].known /\ a.age = tracks[i].age /\ a.seen = tracks[i].seen
  BY AdvanceIs
<1>2. its \in SUBSET Observation /\ its \subseteq confirmed
  OBVIOUS
<1>3. r = Remember(a, its)
  OBVIOUS
<1> HIDE DEF a, its
<1>4. /\ r \in Tracked /\ r.at = a.at
      /\ r.known => \/ r.age = 0 /\ \E o \in its : r.seen = o.at
                    \/ a.known /\ a.age + elapsed <= Coast /\ r.age = a.age + elapsed /\ r.seen = a.seen
  BY <1>1, <1>2, <1>3, RememberIs
<1>5. Moved(r, obs)
  BY <1>1, <1>4 DEF Moved
<1>6. Knows(r, confirmed)
  BY <1>1, <1>2, <1>4 DEF Knows
<1> QED BY <1>4, <1>5, <1>6

LEMMA FollowIs ==
    ASSUME tracks \in Seq(Track), elapsed \in Nat, elapsed <= MaxDt,
           NEW obs \in SUBSET Observation, IsFiniteSet(obs), NEW out \in Follow(obs)
    PROVE  /\ out[1] \in Seq(Heirs(obs, out[2])) /\ out[2] \in SUBSET obs
           /\ \A o \in out[2] : Backed(o)
<1> DEFINE hits(m, o) == IF m[o] = 0 THEN 0 ELSE Advance(m, m[o]).hits
           confirmedBy(m) == {o \in obs : Confirmed(o, hits(m, o))}
           keptBy(m) == [i \in DOMAIN tracks |->
                            Remember(Advance(m, i), PairOf(m, i) \cap confirmedBy(m))]
           newBy(m) == {Remember(NewTrack(o), {o} \cap confirmedBy(m)) : o \in Unpaired(m)}
<1>1. PICK m \in Associate(obs) :
         out = <<Retire(keptBy(m)) \o SetToSeq(newBy(m)), confirmedBy(m)>>
  BY DEF Follow
<1> DEFINE confirmed == confirmedBy(m)
           kept == keptBy(m)
           new == newBy(m)
           H == Heirs(obs, confirmed)
<1>2. DOMAIN m = obs /\ m \in [obs -> 0..Len(tracks)] /\ confirmed \in SUBSET obs
  BY DEF Associate
<1>3. Len(tracks) \in Nat /\ DOMAIN tracks = 1..Len(tracks)
  OBVIOUS
<1>4. kept \in Seq(Tracked) /\ \A i \in DOMAIN kept : Moved(kept[i], obs) /\ Knows(kept[i], confirmed)
  <2>1. DOMAIN kept = DOMAIN tracks
    OBVIOUS
  <2>2. ASSUME NEW i \in DOMAIN tracks
        PROVE  kept[i] \in Tracked /\ Moved(kept[i], obs) /\ Knows(kept[i], confirmed)
    <3>1. kept[i] = Remember(Advance(m, i), PairOf(m, i) \cap confirmed)
      OBVIOUS
    <3> HIDE DEF kept, confirmed
    <3> QED BY <1>2, <3>1, FollowedIs
  <2>3. kept = [i \in DOMAIN tracks |-> kept[i]]
    OBVIOUS
  <2> HIDE DEF kept, confirmed
  <2>4. kept \in [1..Len(tracks) -> Tracked]
    BY <1>3, <2>2, <2>3
  <2>5. kept \in Seq(Tracked)
    BY <1>3, <2>4, ListedAs
  <2> QED BY <2>1, <2>2, <2>5
<1>5. Retire(kept) \in Seq(H)
  <2> HIDE DEF kept, confirmed
  <2>1. /\ Retire(kept) \in Seq(Track)
        /\ \A k \in DOMAIN Retire(kept) : \E i \in DOMAIN kept : Retire(kept)[k] = kept[i]
    BY <1>4, RetireIs
  <2> DEFINE q == Retire(kept)
  <2>2. q \in Seq(Track) /\ \A k \in DOMAIN q : Moved(q[k], obs) /\ Knows(q[k], confirmed)
    BY <1>4, <2>1
  <2> HIDE DEF q
  <2>3. \A k \in DOMAIN q : q[k] \in H
    BY <2>2, ElementOf DEF Heirs
  <2>4. q \in Seq(H)
    BY <2>2, <2>3, SeqIn
  <2> QED BY <2>4 DEF q
<1>6. SetToSeq(new) \in Seq(H)
  <2> DEFINE free == Unpaired(m)
             g == [o \in free |-> Remember(NewTrack(o), {o} \cap confirmed)]
  <2>1. free \in SUBSET obs
    BY <1>2 DEF Unpaired
  <2>2. IsFiniteSet(free)
    BY <2>1, FS_Subset
  <2>3. new = {g[o] : o \in free} /\ DOMAIN g = free
    OBVIOUS
  <2>4. ASSUME NEW o \in free PROVE g[o] \in H
    <3> DEFINE its == {o} \cap confirmed
               r == Remember(NewTrack(o), its)
    <3>1. its \in SUBSET {o} /\ its \subseteq confirmed /\ g[o] = r /\ o \in obs
      BY <2>1
    <3> HIDE DEF its, confirmed, g, free
    <3>2. r \in H
      BY <1>2, <3>1, StartedIs
    <3> QED BY <3>1, <3>2
  <2> HIDE DEF g, free, new, H
  <2>5. IsFiniteSet(new)
    BY <2>2, <2>3, ImageFinite
  <2>6. new \subseteq H
    BY <2>3, <2>4
  <2> QED BY <2>5, <2>6, ListIn
<1>7. ASSUME NEW o \in confirmed PROVE Backed(o)
  <2>1. o \in obs /\ Confirmed(o, hits(m, o))
    OBVIOUS
  <2>2. CASE m[o] = 0
    <3>1. hits(m, o) = 0 /\ SparseHits \in Nat \ {0}
      BY <2>2, ConstantsAreNat
    <3> QED BY <2>1, <3>1 DEF Confirmed, Backed
  <2>3. CASE m[o] # 0
    <3>1. m[o] \in DOMAIN tracks
      BY <1>2, <1>3, <2>1, <2>3
    <3>2. Near(o.at, tracks[m[o]].at)
      BY <2>1, <2>3 DEF Associate
    <3> QED BY <3>1, <3>2 DEF Backed
  <2> QED BY <2>2, <2>3
<1> HIDE DEF confirmed, kept, new
<1>8. out = <<Retire(kept) \o SetToSeq(new), confirmed>>
  BY <1>1 DEF confirmed, kept, new
<1>9. Retire(kept) \o SetToSeq(new) \in Seq(H)
  <2> HIDE DEF H
  <2> QED BY <1>5, <1>6
<1> QED BY <1>2, <1>7, <1>8, <1>9

-----------------------------------------------------------------------------
(* Types.                                                                  *)

Revolutions == [ranges : Scans, stood : SUBSET Places, lost : BOOLEAN, stray : BOOLEAN, broken : BOOLEAN]

\* TypeOK with what it leaves open about the sequences and the world.
Types ==
    /\ TypeOK
    /\ newest \in Seq(Revolutions) /\ history \in Seq(Scans) /\ tracks \in Seq(Track)
    /\ frames \in Seq([Sectors -> 1..Far])
    /\ recent \in Seq(SUBSET Places) /\ Len(recent) <= Memory
    /\ thing \in Shapes

\* What a step of the obstacle node leaves behind.
LEMMA ObstaclesIs ==
    ASSUME Types, Obstacles
    PROVE  \E confirmed \in SUBSET Detect(scan) :
              /\ \A o \in confirmed : Backed(o)
              /\ tracks' \in Seq(Heirs(Detect(scan), confirmed))
              /\ obstacles' = WithCoasted(tracks', confirmed)
<1> DEFINE obs == Detect(scan)
<1>1. PICK out \in IF elapsed > MaxDt THEN Reseed(obs) ELSE Follow(obs) :
         tracks' = out[1] /\ obstacles' = WithCoasted(out[1], out[2])
  BY DEF Obstacles
<1>2. IsFiniteSet(obs) /\ \A o \in obs : SeenIn(o, scan)
  BY DetectIs DEF Types, TypeOK
<1>3. obs \in SUBSET Observation
  BY <1>2 DEF SeenIn
<1>4. tracks \in Seq(Track) /\ elapsed \in Nat /\ MaxDt \in Nat
  BY ConstantsAreNat DEF Types, TypeOK
<1> HIDE DEF obs
<1>5. CASE elapsed > MaxDt
  <2>1. out \in Reseed(obs)
    BY <1>1, <1>5
  <2> QED BY <1>1, <1>2, <1>3, <1>4, <2>1, ReseedIs DEF obs
<1>6. CASE ~(elapsed > MaxDt)
  <2>1. out \in Follow(obs) /\ elapsed <= MaxDt
    BY <1>1, <1>4, <1>6
  <2> QED BY <1>1, <1>2, <1>3, <1>4, <2>1, FollowIs DEF obs
<1> QED BY <1>5, <1>6

LEMMA TypesInit == Init => Types
<1> SUFFICES ASSUME Init PROVE Types
  OBVIOUS
<1>1. Depth \in Nat /\ SectorDepth \in Nat /\ Memory \in Nat /\ Quiet \in Nat /\ MaxEvents \in Nat
      /\ Long \in Nat /\ Far \in 1..Far
  BY ConstantsAreNat
<1>2. newest = <<>> /\ history = <<>> /\ tracks = <<>> /\ frames = <<>> /\ recent = <<>>
  BY DEF Init
<1>3. thing \in Shapes
  BY NothingIs DEF Init
<1>4. TypeOK
  <2>1. {port, reader, connected, connecting} \subseteq BOOLEAN
    BY DEF Init
  <2>2. Len(newest) <= 1 /\ Len(history) <= Depth /\ Len(frames) <= SectorDepth
    BY <1>1, <1>2
  <2>3. (\A i \in DOMAIN history : history[i] \in Scans) /\ (\A i \in DOMAIN tracks : tracks[i] \in Track)
    BY <1>2
  <2>4. fc \in [Sectors -> 1..Far] /\ scan \in Scans
    BY <1>1, BlankIs DEF Init
  <2>5. elapsed \in 0..Long /\ quiet \in 0..Quiet /\ budget \in 0..MaxEvents
    BY <1>1 DEF Init
  <2>6. mode \in {"SCANNING", "PAUSED", "STOPPED"} /\ fresh = {} /\ obstacles = {}
    BY DEF Init
  <2> QED BY <2>1, <2>2, <2>3, <2>4, <2>5, <2>6 DEF TypeOK
<1> QED BY <1>1, <1>2, <1>3, <1>4 DEF Types

LEMMA RevolveTypes ==
    ASSUME Types, Revolve
    PROVE  /\ newest' \in Seq(Revolutions) /\ Len(newest') = 1 /\ thing' \in Shapes
           /\ elapsed' \in 0..Long /\ budget' \in 0..MaxEvents /\ budget' <= budget
           /\ (fresh # {} \/ (mode = "SCANNING" /\ newest # <<>>)) => budget' <= budget - 1
           /\ elapsed' <= MaxDt => elapsed' = elapsed + 1
           /\ newest'[1].stood = Stands(thing') /\ UNCHANGED quiet
           /\ \E returns \in SUBSET Places :
                /\ newest'[1].ranges = LaserScan(returns)
                /\ \/ returns \subseteq Stands(thing')
                   \/ /\ newest'[1].stray /\ quiet = Quiet
                      /\ \E p \in Places : returns \subseteq Stands(thing') \cup {p}
<1>1. PICK t \in {thing} \cup Moves(thing), lost \in BOOLEAN, specks \in {{}} \cup {{p} : p \in Specks} :
        /\ thing' = t
        /\ specks # {} => quiet = Quiet
        /\ LET behind == fresh # {} \/ (mode = "SCANNING" /\ newest # <<>>)
           IN  Spends(Count(t # thing) + Count(lost) + Count(specks # {}) + Count(behind))
        /\ newest' = <<[ranges |-> LaserScan(specks \cup (IF lost THEN {} ELSE Stands(t))),
                        stood |-> Stands(t), lost |-> lost, stray |-> specks # {},
                        broken |-> newest # <<>>]>>
  BY DEF Revolve
<1> DEFINE returns == specks \cup (IF lost THEN {} ELSE Stands(t))
           r == [ranges |-> LaserScan(returns), stood |-> Stands(t), lost |-> lost,
                 stray |-> specks # {}, broken |-> newest # <<>>]
           behind == fresh # {} \/ (mode = "SCANNING" /\ newest # <<>>)
           spent == Count(t # thing) + Count(lost) + Count(specks # {}) + Count(behind)
<1>2. t \in Shapes
  BY <1>1, MovesIs DEF Types
<1>3. Stands(t) \in SUBSET Places /\ specks \in SUBSET Places
  BY <1>1, <1>2, StandsIs, ConstantsAreNat
<1>4. returns \in SUBSET Places
  BY <1>3
<1>5. newest' = <<r>> /\ Spends(spent)
  BY <1>1
<1>6. r \in Revolutions
  BY <1>3, <1>4, LaserScanIs DEF Revolutions
<1>7. \/ returns \subseteq Stands(t)
      \/ r.stray /\ quiet = Quiet /\ \E p \in Places : returns \subseteq Stands(t) \cup {p}
  <2>1. CASE specks = {}
    BY <2>1
  <2>2. CASE specks # {}
    <3>1. PICK p \in Specks : specks = {p}
      BY <2>2
    <3> QED BY <1>1, <2>2, <3>1, ConstantsAreNat
  <2> QED BY <2>1, <2>2
<1>8. spent \in Nat /\ (behind => spent >= 1)
  BY DEF Count
<1>9. r.ranges = LaserScan(returns) /\ r.stood = Stands(t)
  OBVIOUS
<1>10. elapsed' = Min({elapsed + 1, Long}) /\ UNCHANGED quiet
  BY DEF Revolve
<1>11. elapsed \in 0..Long /\ Long \in Nat /\ MaxDt \in Nat /\ Long = MaxDt + 1 /\ budget \in 0..MaxEvents
       /\ MaxEvents \in Nat
  BY ConstantsAreNat DEF Types, TypeOK
<1>12. elapsed' \in {elapsed + 1, Long} /\ elapsed' <= Long
  <2>1. {elapsed + 1, Long} \in SUBSET Nat
    BY <1>11
  <2> QED BY <1>10, <2>1, LeastOf
<1> HIDE DEF r, returns, behind, spent
<1>13. elapsed' \in 0..Long /\ (elapsed' <= MaxDt => elapsed' = elapsed + 1)
  BY <1>11, <1>12
<1>14. budget' \in 0..MaxEvents /\ budget' <= budget /\ (behind => budget' <= budget - 1)
  BY <1>5, <1>8, <1>11 DEF Spends
<1>15. newest' \in Seq(Revolutions) /\ Len(newest') = 1 /\ newest'[1] = r
  BY <1>5, <1>6
<1>16. thing' = t
  BY <1>1
<1>17. \E rs \in SUBSET Places :
          /\ newest'[1].ranges = LaserScan(rs)
          /\ \/ rs \subseteq Stands(thing')
             \/ /\ newest'[1].stray /\ quiet = Quiet
                /\ \E p \in Places : rs \subseteq Stands(thing') \cup {p}
  BY <1>4, <1>7, <1>9, <1>15, <1>16
<1> QED BY <1>2, <1>9, <1>10, <1>13, <1>14, <1>15, <1>16, <1>17 DEF behind

LEMMA ReadScanTypes ==
    ASSUME Types, ReadScan
    PROVE  /\ newest[1] \in Revolutions
           /\ scan' = Filtered(newest[1].ranges) /\ scan' \in Scans
           /\ history' \in Seq(Scans) /\ Slides(history, newest[1].ranges, Depth, history')
           /\ recent' \in Seq(SUBSET Places) /\ Slides(recent, newest[1].stood, Memory, recent')
           /\ quiet' \in 0..Quiet
<1> DEFINE got == newest[1]
<1>1. newest \in Seq(Revolutions) /\ newest # <<>>
  BY DEF Types, ReadScan
<1>2. got \in Revolutions
  BY <1>1
<1>3. got.ranges \in Scans /\ got.stood \in SUBSET Places
  BY <1>2 DEF Revolutions
<1>4. /\ scan' = Filtered(got.ranges)
      /\ history' = Latest(Append(history, got.ranges), Depth)
      /\ recent' = Latest(Append(recent, got.stood), Memory)
      /\ quiet' = IF got.stray THEN 0 ELSE Min({quiet + 1, Quiet})
  BY DEF ReadScan
<1> HIDE DEF got
<1>5. Depth \in Nat \ {0} /\ Memory \in Nat \ {0} /\ Quiet \in Nat
  BY ConstantsAreNat
<1>6. history \in Seq(Scans) /\ Len(history) <= Depth /\ recent \in Seq(SUBSET Places) /\ Len(recent) <= Memory
  BY DEF Types, TypeOK
<1>7. history' \in Seq(Scans) /\ Slides(history, got.ranges, Depth, history')
  BY <1>3, <1>4, <1>5, <1>6, WindowOf
<1>8. recent' \in Seq(SUBSET Places) /\ Slides(recent, got.stood, Memory, recent')
  BY <1>3, <1>4, <1>5, <1>6, WindowOf
<1>9. quiet' \in 0..Quiet
  <2>1. quiet \in 0..Quiet
    BY DEF Types, TypeOK
  <2>2. {quiet + 1, Quiet} \in SUBSET Nat
    BY <1>5, <2>1
  <2>3. Min({quiet + 1, Quiet}) \in {quiet + 1, Quiet} /\ Min({quiet + 1, Quiet}) <= Quiet
    BY <2>2, LeastOf
  <2>4. Min({quiet + 1, Quiet}) \in 0..Quiet
    BY <1>5, <2>2, <2>3
  <2> QED BY <1>4, <1>5, <2>4
<1>10. scan' \in Scans
  BY <1>3, <1>4, FilteredIs
<1> QED BY <1>2, <1>4, <1>7, <1>8, <1>9, <1>10 DEF got

LEMMA ProximityTypes ==
    ASSUME Types, Proximity
    PROVE  /\ frames' \in Seq([Sectors -> 1..Far]) /\ frames' # <<>>
           /\ Slides(frames, ScanToSectors(scan), SectorDepth, frames')
           /\ fc' = SectorUpdate(frames') /\ fc' \in [Sectors -> 1..Far]
<1> DEFINE f == ScanToSectors(scan)
<1>1. f \in [Sectors -> 1..Far]
  BY SectorsOf DEF Types, TypeOK
<1>2. SectorDepth \in Nat \ {0} /\ frames \in Seq([Sectors -> 1..Far]) /\ Len(frames) <= SectorDepth
  BY ConstantsAreNat DEF Types, TypeOK
<1>3. frames' = Latest(Append(frames, f), SectorDepth) /\ fc' = SectorUpdate(frames')
  BY DEF Proximity
<1> HIDE DEF f
<1>4. frames' \in Seq([Sectors -> 1..Far]) /\ Slides(frames, f, SectorDepth, frames')
  BY <1>1, <1>2, <1>3, WindowOf
<1>5. frames' # <<>>
  <2>1. Len(frames') >= 1
    BY <1>2, <1>4 DEF Slides
  <2> QED BY <2>1
<1>6. fc' \in [Sectors -> 1..Far]
  BY <1>3, <1>4, <1>5, UpdateIs
<1> QED BY <1>3, <1>4, <1>5, <1>6 DEF f

LEMMA TypesStep ==
    ASSUME Types, [Next]_vars
    PROVE  Types'
<1> USE DEF driver, lidar, tracker, proximity, world, past
<1>1. CASE Unplug \/ Replug
  <2>1. budget' \in 0..MaxEvents
    BY <1>1, ConstantsAreNat DEF Unplug, Replug, Plugs, Spends, Types, TypeOK
  <2> QED BY <1>1, <2>1 DEF Unplug, Replug, Plugs, Types, TypeOK
<1>2. CASE Revolve
  <2>1. /\ newest' \in Seq(Revolutions) /\ Len(newest') = 1 /\ thing' \in Shapes
        /\ elapsed' \in 0..Long /\ budget' \in 0..MaxEvents /\ UNCHANGED quiet
    BY <1>2, RevolveTypes
  <2> QED BY <1>2, <2>1 DEF Revolve, Types, TypeOK
<1>3. CASE Pause \/ Stop \/ Resume \/ Start
  <2>1. budget' \in 0..MaxEvents
    BY <1>3, ConstantsAreNat DEF Pause, Stop, Resume, Start, Spends, Types, TypeOK
  <2>2. mode' \in {"SCANNING", "PAUSED", "STOPPED"}
    BY <1>3 DEF Pause, Stop, Resume, Start, Sets
  <2> QED BY <1>3, <2>1, <2>2 DEF Pause, Stop, Resume, Start, Sets, Types, TypeOK
<1>4. CASE GiveUp \/ EnsureConnected
  BY <1>4 DEF GiveUp, EnsureConnected, Types, TypeOK
<1>5. CASE Connect
  <2>1. newest' = <<>> /\ Len(newest') = 0 /\ newest' \in Seq(Revolutions) /\ elapsed' \in 0..Long
    BY <1>5, ConstantsAreNat DEF Connect
  <2>2. {port', reader', connected', connecting'} \subseteq BOOLEAN
    BY <1>5 DEF Connect, Types, TypeOK
  <2> QED BY <1>5, <2>1, <2>2 DEF Connect, Types, TypeOK
<1>6. CASE ReadScan
  <2>1. /\ scan' \in Scans /\ history' \in Seq(Scans) /\ Len(history') <= Depth
        /\ recent' \in Seq(SUBSET Places) /\ Len(recent') <= Memory /\ quiet' \in 0..Quiet
    <3>1. Len(history) \in Nat /\ Len(recent) \in Nat /\ Depth \in Nat \ {0} /\ Memory \in Nat \ {0}
      BY ConstantsAreNat DEF Types
    <3> QED BY <1>6, <3>1, ReadScanTypes DEF Slides
  <2>2. \A i \in DOMAIN history' : history'[i] \in Scans
    BY <2>1
  <2>3. newest' = <<>> /\ Len(newest') = 0 /\ newest' \in Seq(Revolutions)
    BY <1>6 DEF ReadScan
  <2>4. fresh' \subseteq {"obstacles", "proximity"}
    BY <1>6 DEF ReadScan
  <2> QED BY <1>6, <2>1, <2>2, <2>3, <2>4 DEF ReadScan, Types, TypeOK
<1>7. CASE Obstacles
  <2>1. PICK confirmed \in SUBSET Detect(scan) :
           /\ tracks' \in Seq(Heirs(Detect(scan), confirmed))
           /\ obstacles' = WithCoasted(tracks', confirmed)
    BY <1>7, ObstaclesIs
  <2>2. \A i \in DOMAIN tracks' : tracks'[i] \in Track
    BY <2>1, ElementOf DEF Heirs
  <2>3. tracks' \in Seq(Track)
    BY <2>1, <2>2, SeqIn
  <2>4. \A o \in confirmed : o.at \in Places
    BY <2>1, DetectIs DEF SeenIn, Observation, Types, TypeOK
  <2>5. \A i \in DOMAIN tracks' : tracks'[i].seen \in Places
    BY <2>2 DEF Track
  <2>6. obstacles' \subseteq [at : Places, coasted : BOOLEAN]
    <3>1. \A x \in obstacles' : \/ \E o \in confirmed : x = [at |-> o.at, coasted |-> FALSE]
                                \/ \E i \in DOMAIN tracks' : x = [at |-> tracks'[i].seen, coasted |-> TRUE]
      BY <2>1 DEF WithCoasted
    <3>2. ASSUME NEW x \in obstacles' PROVE x \in [at : Places, coasted : BOOLEAN]
      <4>1. CASE \E o \in confirmed : x = [at |-> o.at, coasted |-> FALSE]
        BY <2>4, <4>1
      <4>2. CASE \E i \in DOMAIN tracks' : x = [at |-> tracks'[i].seen, coasted |-> TRUE]
        BY <2>5, <4>2
      <4> QED BY <3>1, <4>1, <4>2
    <3> QED BY <3>2
  <2>7. elapsed' \in 0..Long /\ fresh' \subseteq {"obstacles", "proximity"}
    BY <1>7, ConstantsAreNat DEF Obstacles, Types, TypeOK
  <2> QED BY <1>7, <2>2, <2>3, <2>6, <2>7 DEF Obstacles, Types, TypeOK
<1>8. CASE Proximity
  <2>1. frames' \in Seq([Sectors -> 1..Far]) /\ Len(frames') <= SectorDepth /\ fc' \in [Sectors -> 1..Far]
    <3>1. Len(frames) \in Nat /\ SectorDepth \in Nat \ {0}
      BY ConstantsAreNat DEF Types
    <3> QED BY <1>8, <3>1, ProximityTypes DEF Slides
  <2>2. fresh' \subseteq {"obstacles", "proximity"}
    BY <1>8 DEF Proximity, Types, TypeOK
  <2> QED BY <1>8, <2>1, <2>2 DEF Proximity, Types, TypeOK
<1>9. CASE UNCHANGED vars
  BY <1>9 DEF vars, Types, TypeOK
<1> QED BY <1>1, <1>2, <1>3, <1>4, <1>5, <1>6, <1>7, <1>8, <1>9 DEF Next, Work

\* Whatever the cable, the operator and the world do, the windows stay bounded, and the
\* tracks and what is published well formed.
THEOREM TypesHold == Spec => []TypeOK
<1>1. Types => TypeOK
  BY DEF Types
<1>2. Types /\ [Next]_vars => Types'
  BY TypesStep
<1> QED BY TypesInit, <1>1, <1>2, PTL DEF Spec

-----------------------------------------------------------------------------
(* What stood in the newest revolutions.                                   *)

Stood(r, k) == {p \in Places : \E j \in DOMAIN r : j > Len(r) - k /\ p \in r[j]}

\* A distance for a sector that something in it accounts for, no farther once the
\* memory goes further back than it.
Drawn(r, v, s, k) == \E p \in Stood(r, k) :
    InSector(p, s) /\ p[2] <= v + RangeTol /\ (Len(r) > k => v <= p[2] + RangeTol)

LEMMA StoodGrows ==
    ASSUME NEW r \in Seq(SUBSET Places), NEW j \in Int, NEW k \in Int, j <= k
    PROVE  Stood(r, j) \subseteq Stood(r, k)
<1>1. Len(r) \in Nat /\ DOMAIN r \subseteq Nat
  OBVIOUS
<1> QED BY <1>1 DEF Stood

LEMMA DrawnGrows ==
    ASSUME NEW r \in Seq(SUBSET Places), NEW j \in Int, NEW k \in Int, j <= k, NEW v, NEW s,
           Drawn(r, v, s, j)
    PROVE  Drawn(r, v, s, k)
<1>1. Len(r) \in Nat /\ (Len(r) > k => Len(r) > j)
  OBVIOUS
<1> QED BY <1>1, StoodGrows DEF Drawn

LEMMA StoodSlides ==
    ASSUME NEW r \in Seq(SUBSET Places), NEW e \in SUBSET Places, NEW n \in Nat \ {0}, Len(r) <= n,
           NEW q \in Seq(SUBSET Places), Slides(r, e, n, q)
    PROVE  /\ \A k \in Nat : k + 1 <= n => Stood(r, k) \subseteq Stood(q, k + 1)
           /\ \A k \in Nat : k >= 1 => e \subseteq Stood(q, k)
<1>1. /\ Len(r) \in Nat /\ DOMAIN r = 1..Len(r) /\ Len(q) \in Nat /\ DOMAIN q = 1..Len(q)
      /\ Len(q) = (IF Len(r) < n THEN Len(r) + 1 ELSE n) /\ q[Len(q)] = e
      /\ \A i \in 1..Len(q) - 1 : q[i] = r[i + Len(r) + 1 - Len(q)]
  <2>1. Len(r) \in Nat /\ DOMAIN r = 1..Len(r) /\ Len(q) \in Nat /\ DOMAIN q = 1..Len(q)
    OBVIOUS
  <2>2. Len(q) = (IF Len(r) < n THEN Len(r) + 1 ELSE n) /\ q[Len(q)] = e
    BY DEF Slides
  <2>3. \A i \in 1..Len(q) - 1 : q[i] = r[i + Len(r) + 1 - Len(q)]
    BY DEF Slides
  <2> QED BY <2>1, <2>2, <2>3
<1>2. ASSUME NEW k \in Nat, k + 1 <= n, NEW p \in Stood(r, k) PROVE p \in Stood(q, k + 1)
  <2>1. PICK j \in 1..Len(r) : j > Len(r) - k /\ p \in r[j]
    BY <1>1 DEF Stood
  <2> DEFINE i == j - Len(r) - 1 + Len(q)
  <2>2. i \in 1..Len(q) - 1 /\ i > Len(q) - (k + 1) /\ i + Len(r) + 1 - Len(q) = j
    <3>1. Len(r) \in Nat /\ Len(q) \in Nat /\ Len(q) = (IF Len(r) < n THEN Len(r) + 1 ELSE n)
      BY <1>1
    <3>2. CASE Len(r) < n
      <4>1. Len(q) = Len(r) + 1 /\ i = j
        BY <3>1, <3>2
      <4> QED BY <2>1, <3>1, <4>1
    <3>3. CASE Len(r) = n
      <4>1. Len(q) = n /\ i = j - 1
        BY <3>1, <3>3
      <4>2. j > 1 /\ j <= n
        BY <1>2, <2>1, <3>3
      <4> QED BY <2>1, <3>1, <3>3, <4>1, <4>2
    <3> QED BY <3>1, <3>2, <3>3
  <2> HIDE DEF i
  <2>3. q[i] = r[j]
    <3>1. q[i] = r[i + Len(r) + 1 - Len(q)]
      BY <1>1, <2>2
    <3> QED BY <2>2, <3>1
  <2>4. i \in DOMAIN q
    <3>1. Len(q) \in Nat /\ DOMAIN q = 1..Len(q)
      BY <1>1
    <3> QED BY <2>2, <3>1
  <2> QED BY <2>1, <2>2, <2>3, <2>4 DEF Stood
<1>3. ASSUME NEW k \in Nat, k >= 1, NEW p \in e PROVE p \in Stood(q, k)
  <2>1. Len(q) \in DOMAIN q /\ Len(q) > Len(q) - k
    BY <1>1, <1>3
  <2> QED BY <1>1, <1>3, <2>1 DEF Stood
<1> QED BY <1>2, <1>3

LEMMA DrawnSlides ==
    ASSUME NEW r \in Seq(SUBSET Places), NEW e \in SUBSET Places, NEW n \in Nat \ {0}, Len(r) <= n,
           NEW q \in Seq(SUBSET Places), Slides(r, e, n, q),
           NEW k \in Nat, k + 1 <= n, NEW v, NEW s, Drawn(r, v, s, k)
    PROVE  Drawn(q, v, s, k + 1)
<1>1. Stood(r, k) \subseteq Stood(q, k + 1)
  BY StoodSlides
<1>2. Len(r) \in Nat /\ Len(q) = IF Len(r) < n THEN Len(r) + 1 ELSE n
  BY DEF Slides
<1>3. Len(q) > k + 1 => Len(r) > k
  BY <1>2
<1> QED BY <1>1, <1>3 DEF Drawn

LEMMA StoodIsRemembered ==
    ASSUME Types
    PROVE  /\ \A k : Stood(recent, k) \subseteq Remembered
           /\ \A k \in Int : Len(recent) <= k => Remembered \subseteq Stood(recent, k)
<1>1. /\ Len(recent) \in Nat /\ DOMAIN recent = 1..Len(recent)
      /\ \A i \in DOMAIN recent : recent[i] \in SUBSET Places
  BY ElementOf DEF Types
<1>2. \A p : p \in Remembered <=> \E i \in DOMAIN recent : p \in recent[i]
  BY DEF Remembered
<1>3. ASSUME NEW k \in Int, Len(recent) <= k, NEW p \in Remembered PROVE p \in Stood(recent, k)
  <2>1. PICK i \in DOMAIN recent : p \in recent[i]
    BY <1>2
  <2>2. i > Len(recent) - k /\ p \in Places
    BY <1>1, <1>3, <2>1
  <2> QED BY <2>1, <2>2 DEF Stood
<1> QED BY <1>2, <1>3 DEF Stood

-----------------------------------------------------------------------------
(* The inductive invariant.                                                *)

\* Each revolution of the gate with what stood in it; the strayed ones.
Under(r, h, i) == r[i + Len(r) - Len(h)]
Strayed == {i \in DOMAIN history : ~Clean(history[i], Under(recent, history, i))}

Gated ==
    /\ Len(history) = IF Len(recent) < Depth THEN Len(recent) ELSE Depth
    /\ \A i \in DOMAIN history : Shows(history[i], Under(recent, history, i))
    /\ \A i, j \in Strayed : i = j
    /\ \A i \in Strayed : quiet + i <= Len(history)
    /\ newest # <<>> =>
         /\ Shows(newest[1].ranges, newest[1].stood)
         /\ Clean(newest[1].ranges, newest[1].stood) \/ (newest[1].stray /\ quiet = Quiet)

\* A scan is the revolution read last until the gate is full, and holds only what stood
\* in the gate's revolutions from then on.
Published ==
    /\ history = <<>> => fresh = {}
    /\ Len(recent) <= Depth /\ history # <<>> => scan = history[Len(history)]
    /\ Len(recent) > Depth => \A b \in Bins : scan[b] # Far =>
          \E p \in Stood(recent, Depth) : Near(<<b, scan[b]>>, p)

\* Until then no track stands where only a stray was, as long as none was followed.
Followed ==
    Len(recent) <= Depth /\ Strayed \subseteq (IF "obstacles" \in fresh THEN {Len(history)} ELSE {}) =>
        \A i \in DOMAIN tracks : tracks[i].at \in Remembered

\* What a track may still coast for stood no longer ago than its age.
Held == elapsed <= MaxDt =>
    \A i \in DOMAIN tracks : tracks[i].known /\ tracks[i].age + elapsed <= Coast =>
        \E p \in Stood(recent, Depth + tracks[i].age + elapsed + 1 - Len(newest)) : Near(tracks[i].seen, p)

Steered == "obstacles" \notin fresh => \A o \in obstacles : \E p \in Remembered : Near(o.at, p)

\* A frame is as old as those after it, and a revolution more for every event that may
\* have let one pass.
Lag == (MaxEvents - budget) + (IF "proximity" \in fresh /\ newest = <<>> THEN 1 ELSE 0)
Framed == \A i \in DOMAIN frames, s \in Sectors : frames[i][s] # Far =>
    Drawn(recent, frames[i][s], s, Depth + Len(frames) - i + Lag)

Distances == "proximity" \notin fresh => \A s \in Sectors : fc[s] # Far =>
    \E p \in Remembered : /\ InSector(p, s) /\ p[2] <= fc[s] + RangeTol
                          /\ Len(recent) = Memory => fc[s] <= p[2] + RangeTol

Inv == Types /\ Gated /\ Published /\ Followed /\ Held /\ Steered /\ Framed /\ Distances

LEMMA InvImplies == Inv => OnlyObjectsSteer
BY DEF Inv, Steered, Distances, OnlyObjectsSteer

-----------------------------------------------------------------------------
(* The gate.                                                               *)

LEMMA GateLengths ==
    ASSUME Types, Gated
    PROVE  /\ Len(history) \in Nat /\ DOMAIN history = 1..Len(history) /\ Len(history) <= Depth
           /\ Len(recent) \in Nat /\ DOMAIN recent = 1..Len(recent) /\ Len(recent) <= Memory
           /\ Len(history) = (IF Len(recent) < Depth THEN Len(recent) ELSE Depth)
           /\ Depth \in Nat \ {0} /\ Memory \in Nat \ {0} /\ Quiet \in Nat /\ quiet \in 0..Quiet
<1>1. history \in Seq(Scans) /\ recent \in Seq(SUBSET Places) /\ Len(recent) <= Memory /\ quiet \in 0..Quiet
      /\ Len(history) <= Depth
  BY DEF Types, TypeOK
<1>2. Len(history) = IF Len(recent) < Depth THEN Len(recent) ELSE Depth
  BY DEF Gated
<1> QED BY <1>1, <1>2, ConstantsAreNat

\* The revolutions of the gate keep what stood in them as a new one enters.
LEMMA GateSlides ==
    ASSUME Types, Gated, ReadScan, Memory >= Depth
    PROVE  /\ DOMAIN history' = 1..Len(history') /\ Len(history') \in Nat \ {0}
           /\ Len(history') = (IF Len(history) < Depth THEN Len(history) + 1 ELSE Depth)
           /\ Len(recent') = (IF Len(recent) < Memory THEN Len(recent) + 1 ELSE Memory)
           /\ Len(history') = (IF Len(recent') < Depth THEN Len(recent') ELSE Depth)
           /\ history'[Len(history')] = newest[1].ranges /\ Under(recent', history', Len(history')) = newest[1].stood
           /\ \A i \in 1..Len(history') - 1 :
                /\ i + Len(history) + 1 - Len(history') \in DOMAIN history
                /\ history'[i] = history[i + Len(history) + 1 - Len(history')]
                /\ Under(recent', history', i) = Under(recent, history, i + Len(history) + 1 - Len(history'))
<1> DEFINE h == Len(history)
           r == Len(recent)
           hh == Len(history')
           rr == Len(recent')
<1>1. /\ h \in Nat /\ DOMAIN history = 1..h /\ h <= Depth /\ r \in Nat /\ r <= Memory
      /\ h = (IF r < Depth THEN r ELSE Depth) /\ Depth \in Nat \ {0} /\ Memory \in Nat \ {0}
  BY GateLengths
<1>2. /\ history' \in Seq(Scans) /\ Slides(history, newest[1].ranges, Depth, history')
      /\ recent' \in Seq(SUBSET Places) /\ Slides(recent, newest[1].stood, Memory, recent')
  BY ReadScanTypes
<1>3. /\ hh = (IF h < Depth THEN h + 1 ELSE Depth) /\ history'[hh] = newest[1].ranges
      /\ \A i \in 1..hh - 1 : i + h + 1 - hh \in 1..h /\ history'[i] = history[i + h + 1 - hh]
  BY <1>2 DEF Slides
<1>4. /\ rr = (IF r < Memory THEN r + 1 ELSE Memory) /\ recent'[rr] = newest[1].stood
      /\ \A i \in 1..rr - 1 : recent'[i] = recent[i + r + 1 - rr]
  BY <1>2 DEF Slides
<1>5. DOMAIN history' = 1..hh
  BY <1>2
<1>6. \A i : Under(recent, history, i) = recent[i + r - h] /\ Under(recent', history', i) = recent'[i + rr - hh]
  BY DEF Under
<1> HIDE DEF h, r, hh, rr
<1>7. hh \in Nat \ {0} /\ rr \in Nat \ {0} /\ hh <= rr /\ hh = (IF rr < Depth THEN rr ELSE Depth)
  BY <1>1, <1>3, <1>4
<1>8. Under(recent', history', hh) = newest[1].stood
  <2>1. hh + rr - hh = rr
    BY <1>7
  <2> QED BY <1>4, <1>6, <2>1
<1>9. ASSUME NEW i \in 1..hh - 1 PROVE Under(recent', history', i) = Under(recent, history, i + h + 1 - hh)
  <2>1. i + rr - hh \in 1..rr - 1
    BY <1>7
  <2>2. recent'[i + rr - hh] = recent[(i + rr - hh) + r + 1 - rr]
    BY <1>4, <2>1
  <2>3. (i + rr - hh) + r + 1 - rr = (i + h + 1 - hh) + r - h
    BY <1>1, <1>7
  <2> QED BY <1>6, <2>2, <2>3
<1>10. \A i \in 1..hh - 1 : /\ i + h + 1 - hh \in DOMAIN history
                           /\ history'[i] = history[i + h + 1 - hh]
                           /\ Under(recent', history', i) = Under(recent, history, i + h + 1 - hh)
  BY <1>1, <1>3, <1>9
<1> QED BY <1>3, <1>4, <1>5, <1>7, <1>8, <1>10 DEF h, r, hh, rr

\* A scan of what stood and one stray shows all but one bin of it.
LEMMA RevolutionShows ==
    ASSUME Types, Revolve
    PROVE  /\ Shows(newest'[1].ranges, newest'[1].stood)
           /\ Clean(newest'[1].ranges, newest'[1].stood) \/ (newest'[1].stray /\ quiet = Quiet)
<1>1. PICK returns \in SUBSET Places :
         /\ newest'[1].stood = Stands(thing') /\ newest'[1].ranges = LaserScan(returns)
         /\ \/ returns \subseteq Stands(thing')
            \/ /\ newest'[1].stray /\ quiet = Quiet
               /\ \E p \in Places : returns \subseteq Stands(thing') \cup {p}
  BY RevolveTypes
<1> DEFINE scn == newest'[1].ranges
           stood == newest'[1].stood
<1>2. Clean(scn, returns)
  BY <1>1, LaserScanIs
<1>3. 0 \in Bins
  BY ConstantsAreNat
<1>4. returns \subseteq stood \/ (newest'[1].stray /\ quiet = Quiet /\ \E p \in Places : returns \subseteq stood \cup {p})
  BY <1>1
<1> HIDE DEF scn, stood
<1>5. CASE returns \subseteq stood
  BY <1>2, <1>3, <1>5 DEF Clean, Shows, scn, stood
<1>6. CASE newest'[1].stray /\ quiet = Quiet /\ \E p \in Places : returns \subseteq stood \cup {p}
  <2>1. PICK p \in Places : returns \subseteq stood \cup {p}
    BY <1>6
  <2>2. p[1] \in Bins
    BY DEF Places
  <2>3. \A b \in Bins \ {p[1]} : scn[b] # Far => <<b, scn[b]>> \in stood
    <3> TAKE b \in Bins \ {p[1]}
    <3>1. <<b, scn[b]>> # p
      <4>1. <<b, scn[b]>>[1] = b
        OBVIOUS
      <4> QED BY <4>1
    <3> QED BY <1>2, <2>1, <3>1 DEF Clean
  <2> QED BY <1>6, <2>2, <2>3 DEF Shows, scn, stood
<1> QED BY <1>4, <1>5, <1>6

LEMMA GatedStep ==
    ASSUME Types, Gated, Tuned, [Next]_vars
    PROVE  Gated'
<1>1. CASE ReadScan
  <2> DEFINE h == Len(history)
             hh == Len(history')
             got == newest[1]
  <2>1. newest # <<>> /\ newest' = <<>> /\ quiet' = (IF got.stray THEN 0 ELSE Min({quiet + 1, Quiet}))
    BY <1>1 DEF ReadScan
  <2>2. Memory >= Depth /\ Quiet + 1 >= Depth
    BY ConstantsAreNat DEF Tuned
  <2>3. /\ h \in Nat /\ h <= Depth /\ Depth \in Nat \ {0} /\ Quiet \in Nat /\ quiet \in 0..Quiet
        /\ DOMAIN history = 1..h
    BY GateLengths
  <2>4. /\ DOMAIN history' = 1..hh /\ hh \in Nat \ {0} /\ hh = (IF h < Depth THEN h + 1 ELSE Depth)
        /\ hh = (IF Len(recent') < Depth THEN Len(recent') ELSE Depth)
        /\ history'[hh] = got.ranges /\ Under(recent', history', hh) = got.stood
        /\ \A i \in 1..hh - 1 : /\ i + h + 1 - hh \in DOMAIN history
                                /\ history'[i] = history[i + h + 1 - hh]
                                /\ Under(recent', history', i) = Under(recent, history, i + h + 1 - hh)
    BY <1>1, <2>2, GateSlides
  <2>5. /\ \A i \in DOMAIN history : Shows(history[i], Under(recent, history, i))
        /\ \A i, j \in Strayed : i = j
        /\ \A i \in Strayed : quiet + i <= h
        /\ Shows(got.ranges, got.stood)
        /\ Clean(got.ranges, got.stood) \/ (got.stray /\ quiet = Quiet)
    BY <2>1 DEF Gated
  <2>6. Strayed' = {i \in 1..hh : ~Clean(history'[i], Under(recent', history', i))}
    BY <2>4 DEF Strayed
  <2>7. /\ \A i \in 1..hh - 1 : i \in Strayed' => i + h + 1 - hh \in Strayed
        /\ hh \in Strayed' => ~Clean(got.ranges, got.stood)
        /\ Strayed' \subseteq 1..hh
    <3>1. \A i \in 1..hh - 1 : i \in Strayed' => i + h + 1 - hh \in Strayed
      <4> SUFFICES ASSUME NEW i \in 1..hh - 1, i \in Strayed' PROVE i + h + 1 - hh \in Strayed
        OBVIOUS
      <4> DEFINE j == i + h + 1 - hh
      <4>1. j \in DOMAIN history /\ history'[i] = history[j] /\ Under(recent', history', i) = Under(recent, history, j)
        BY <2>4
      <4> HIDE DEF j
      <4>2. ~Clean(history'[i], Under(recent', history', i))
        BY <2>6
      <4>3. j \in Strayed
        BY <4>1, <4>2 DEF Strayed
      <4> QED BY <4>3 DEF j
    <3>2. hh \in Strayed' => ~Clean(got.ranges, got.stood)
      BY <2>4, <2>6
    <3> QED BY <2>6, <3>1, <3>2
  <2>8. quiet' <= quiet + 1 /\ quiet' \in Nat /\ (got.stray => quiet' = 0)
    <3>1. {quiet + 1, Quiet} \in SUBSET Nat
      BY <2>3
    <3>2. Min({quiet + 1, Quiet}) \in {quiet + 1, Quiet} /\ Min({quiet + 1, Quiet}) <= quiet + 1
      BY <3>1, LeastOf
    <3>3. Min({quiet + 1, Quiet}) \in Nat
      BY <3>1, <3>2
    <3> QED BY <2>1, <2>3, <3>2, <3>3
  <2>9. \A i \in DOMAIN history' : Shows(history'[i], Under(recent', history', i))
    <3> TAKE i \in DOMAIN history'
    <3>1. CASE i = hh
      BY <2>4, <2>5, <3>1
    <3>2. CASE i # hh
      <4>1. i \in 1..hh - 1
        BY <2>4, <3>2
      <4> QED BY <2>4, <2>5, <4>1
    <3> QED BY <3>1, <3>2
  <2> HIDE DEF h, hh, got
  <2>10. ASSUME ~Clean(got.ranges, got.stood), NEW i \in 1..hh - 1, i \in Strayed' PROVE FALSE
    <3>1. quiet = Quiet /\ quiet + (i + h + 1 - hh) <= h
      BY <2>5, <2>7, <2>10
    <3>2. Quiet + i + 1 <= hh /\ hh <= Depth
      BY <2>3, <2>4, <3>1
    <3> QED BY <2>2, <2>3, <2>4, <3>2
  <2>11. \A i, j \in Strayed' : i = j
    <3> SUFFICES ASSUME NEW i \in Strayed', NEW j \in Strayed' PROVE i = j
      OBVIOUS
    <3>1. i \in 1..hh /\ j \in 1..hh
      BY <2>7
    <3>2. CASE Clean(got.ranges, got.stood)
      <4>1. i \in 1..hh - 1 /\ j \in 1..hh - 1
        BY <2>4, <2>7, <3>1, <3>2
      <4>2. i + h + 1 - hh = j + h + 1 - hh
        BY <2>5, <2>7, <4>1
      <4> QED BY <2>3, <2>4, <4>1, <4>2
    <3>3. CASE ~Clean(got.ranges, got.stood)
      <4>1. i \notin 1..hh - 1 /\ j \notin 1..hh - 1
        BY <2>10, <3>3
      <4> QED BY <2>4, <3>1, <4>1
    <3> QED BY <3>2, <3>3
  <2>12. \A i \in Strayed' : quiet' + i <= hh
    <3> SUFFICES ASSUME NEW i \in Strayed' PROVE quiet' + i <= hh
      OBVIOUS
    <3>1. i \in 1..hh
      BY <2>7
    <3>2. CASE i = hh
      <4>1. got.stray
        BY <2>5, <2>7, <3>2
      <4> QED BY <2>4, <2>8, <3>2, <4>1
    <3>3. CASE i # hh
      <4>1. i \in 1..hh - 1
        BY <2>4, <3>1, <3>3
      <4>2. quiet + (i + h + 1 - hh) <= h
        BY <2>5, <2>7, <4>1
      <4>3. hh \in Nat /\ h \in Nat /\ i \in Nat /\ quiet \in Nat
        BY <2>3, <2>4, <4>1
      <4>4. quiet + 1 + i <= hh
        BY <4>2, <4>3
      <4>5. quiet' \in Nat /\ quiet' <= quiet + 1
        BY <2>8
      <4>6. \A w, x, y, z \in Nat : w <= x + 1 /\ x + 1 + y <= z => w + y <= z
        OBVIOUS
      <4> QED BY <4>3, <4>4, <4>5, <4>6
    <3> QED BY <3>2, <3>3
  <2>13. hh = IF Len(recent') < Depth THEN Len(recent') ELSE Depth
    BY <2>4
  <2> QED BY <2>1, <2>9, <2>11, <2>12, <2>13 DEF Gated, hh
<1>2. CASE Revolve
  <2>1. UNCHANGED <<history, recent, quiet>>
    BY <1>2 DEF Revolve, lidar, past
  <2>2. /\ Shows(newest'[1].ranges, newest'[1].stood)
        /\ Clean(newest'[1].ranges, newest'[1].stood) \/ (newest'[1].stray /\ quiet = Quiet)
    BY <1>2, RevolutionShows
  <2> QED BY <2>1, <2>2 DEF Gated, Strayed, Under
<1>3. CASE UNCHANGED <<history, recent, quiet>> /\ (newest' = <<>> \/ UNCHANGED newest)
  BY <1>3 DEF Gated, Strayed, Under
<1>4. ReadScan \/ Revolve \/ (UNCHANGED <<history, recent, quiet>> /\ (newest' = <<>> \/ UNCHANGED newest))
  BY DEF Next, Work, Unplug, Replug, Plugs, Pause, Stop, Resume, Start, Sets, GiveUp, EnsureConnected,
         Connect, Obstacles, Proximity, vars, driver, lidar, tracker, proximity, world, past
<1> QED BY <1>1, <1>2, <1>3, <1>4

-----------------------------------------------------------------------------
(* What passes the gate stood.                                             *)

\* A revolution of the gate that is not strayed, with what is near a return of it.
LEMMA CleanIsNear ==
    ASSUME NEW scn \in Scans, NEW stood, Clean(scn, stood), NEW b \in Bins, NEW c \in Bins,
           NEW r \in Ranges, Away(b, c) <= AngularTol, scn[c] # Far, Differ(scn[c], r) <= RangeTol
    PROVE  \E p \in stood : Near(<<b, r>>, p)
<1> DEFINE p == <<c, scn[c]>>
<1>1. p \in stood
  BY DEF Clean
<1>2. scn[c] \in Nat /\ r \in Nat
  BY ReadingIs, ConstantsAreNat
<1>3. Differ(r, scn[c]) <= RangeTol
  BY <1>2, DifferIs
<1>4. p[1] = c /\ p[2] = scn[c] /\ <<b, r>>[1] = b /\ <<b, r>>[2] = r
  OBVIOUS
<1> HIDE DEF p
<1>5. Near(<<b, r>>, p)
  BY <1>3, <1>4 DEF Near
<1> QED BY <1>1, <1>5

LEMMA SupportedStood ==
    ASSUME Types, Gated, Tuned, ReadScan, Len(history) >= Depth,
           NEW b \in Bins, NEW r \in Ranges, newest[1].ranges[b] = r, Supported(b, r)
    PROVE  \E p \in Stood(recent', Depth) : Near(<<b, r>>, p)
<1> DEFINE got == newest[1]
           h == Len(history)
<1>1. /\ h \in Nat /\ DOMAIN history = 1..h /\ h = Depth /\ Depth \in Nat \ {0} /\ Len(recent) \in Nat
      /\ DOMAIN recent = 1..Len(recent) /\ Len(recent) >= Depth /\ Len(recent) <= Memory
      /\ Quiet \in Nat /\ quiet \in 0..Quiet
  <2>1. /\ h \in Nat /\ DOMAIN history = 1..h /\ Len(recent) \in Nat /\ DOMAIN recent = 1..Len(recent)
        /\ Len(recent) <= Memory /\ Depth \in Nat \ {0} /\ Quiet \in Nat /\ quiet \in 0..Quiet
    BY GateLengths
  <2>2. h <= Depth /\ h >= Depth /\ h = (IF Len(recent) < Depth THEN Len(recent) ELSE Depth)
    BY GateLengths
  <2>3. \A x, y, z \in Nat : x <= z /\ x >= z /\ x = (IF y < z THEN y ELSE z) => x = z /\ y >= z
    OBVIOUS
  <2>4. h = Depth /\ Len(recent) >= Depth
    <3> HIDE DEF h
    <3> QED BY <2>1, <2>2, <2>3
  <2> QED BY <2>1, <2>2, <2>4
<1>2. /\ got \in Revolutions /\ recent' \in Seq(SUBSET Places) /\ Slides(recent, got.stood, Memory, recent')
      /\ newest # <<>>
  BY ReadScanTypes DEF ReadScan
<1>3. /\ Depth >= 2 /\ Quiet >= 1 /\ Quiet + 1 >= Depth /\ MinSupport >= 2 /\ Depth + 1 <= Memory
      /\ MinSupport \in Nat /\ RangeTol \in Nat /\ Memory \in Nat \ {0}
  BY ConstantsAreNat DEF Tuned
<1>4. got.ranges \in Scans /\ got.stood \in SUBSET Places
  BY <1>2 DEF Revolutions
<1>5. recent \in Seq(SUBSET Places)
  BY DEF Types
<1>6. got.stood \subseteq Stood(recent', Depth) /\ Stood(recent, Depth - 1) \subseteq Stood(recent', Depth)
  <2>1. Depth - 1 \in Nat /\ Depth \in Nat /\ Depth >= 1 /\ (Depth - 1) + 1 <= Memory /\ (Depth - 1) + 1 = Depth
    BY <1>1, <1>3
  <2>2. /\ \A k \in Nat : k + 1 <= Memory => Stood(recent, k) \subseteq Stood(recent', k + 1)
        /\ \A k \in Nat : k >= 1 => got.stood \subseteq Stood(recent', k)
    <3>1. Len(recent) <= Memory
      BY <1>1
    <3> HIDE DEF got
    <3> QED BY <1>2, <1>3, <1>4, <1>5, <3>1, StoodSlides
  <2> QED BY <2>1, <2>2
<1>7. CASE Clean(got.ranges, got.stood)
  <2>1. <<b, r>> \in got.stood
    <3>1. got.ranges[b] = r /\ r # Far
      BY ConstantsAreNat
    <3> QED BY <1>7, <3>1 DEF Clean
  <2>2. Near(<<b, r>>, <<b, r>>)
    BY NearItself
  <2> QED BY <1>6, <2>1, <2>2
<1>8. CASE ~Clean(got.ranges, got.stood)
  <2>1. quiet = Quiet
    BY <1>2, <1>8 DEF Gated
  <2>2. ASSUME NEW i \in DOMAIN history, i # 1 \/ i = h
        PROVE  /\ Clean(history[i], Under(recent, history, i)) /\ history[i] \in Scans
               /\ i >= 2 => Under(recent, history, i) \subseteq Stood(recent', Depth)
    <3>1. i \notin Strayed
      <4>1. i \in Strayed => quiet + i <= h
        BY DEF Gated
      <4> QED BY <1>1, <1>3, <2>1, <2>2, <4>1
    <3>2. history[i] \in Scans
      BY ElementOf DEF Types
    <3>3. ASSUME i >= 2 PROVE Under(recent, history, i) \subseteq Stood(recent', Depth)
      <4> DEFINE j == i + Len(recent) - h
      <4>1. j \in DOMAIN recent /\ j > Len(recent) - (Depth - 1) /\ recent[j] \in SUBSET Places
        <5>1. j \in 1..Len(recent) /\ j > Len(recent) - (Depth - 1)
          BY <1>1, <2>2, <3>3
        <5> QED BY <1>1, <1>5, <5>1, ElementOf
      <4>2. Under(recent, history, i) = recent[j]
        BY DEF Under
      <4> HIDE DEF j
      <4>3. recent[j] \subseteq Stood(recent, Depth - 1)
        BY <4>1 DEF Stood
      <4> QED BY <1>6, <4>2, <4>3
    <3> QED BY <3>1, <3>2, <3>3 DEF Strayed
  <2>3. CASE Corroborations(b, r) >= MinSupport
    <3> DEFINE S == {i \in DOMAIN history :
                        \E c \in Around(b) : history[i][c] # Far /\ Differ(history[i][c], r) <= RangeTol}
    <3>1. IsFiniteSet(S)
      <4>1. h \in Int /\ 1 \in Int
        BY <1>1
      <4>2. IsFiniteSet(1..h)
        BY <4>1, FS_Interval
      <4> QED BY <1>1, <4>2, FS_Subset
    <3>2. Cardinality(S) >= 2
      <4>1. Cardinality(S) \in Nat
        BY <3>1, FS_CardinalityType
      <4>2. Corroborations(b, r) = Cardinality(S)
        BY DEF Corroborations
      <4> HIDE DEF S
      <4> QED BY <1>3, <2>3, <4>1, <4>2
    <3>3. PICK i \in S : i # 1
      <4> HIDE DEF S
      <4> QED BY <3>1, <3>2, AnotherOf
    <3>4. PICK c \in Around(b) : history[i][c] # Far /\ Differ(history[i][c], r) <= RangeTol
      OBVIOUS
    <3>5. i \in DOMAIN history /\ i >= 2 /\ c \in Bins /\ Away(b, c) <= AngularTol
      BY <1>1, <3>3 DEF Around
    <3>6. /\ Clean(history[i], Under(recent, history, i)) /\ history[i] \in Scans
          /\ Under(recent, history, i) \subseteq Stood(recent', Depth)
      BY <2>2, <3>3, <3>5
    <3> HIDE DEF S
    <3>7. \E p \in Under(recent, history, i) : Near(<<b, r>>, p)
      BY <3>4, <3>5, <3>6, CleanIsNear
    <3> QED BY <3>6, <3>7
  <2>4. CASE FastApproach(b, r)
    <3> DEFINE prev == Nearest(history[h], Around(b))
    <3>1. prev # Far /\ prev - r \in 1..RangeTol
      BY <2>4 DEF FastApproach
    <3>2. h \in DOMAIN history /\ h >= 2
      BY <1>1, <1>3
    <3>3. /\ Clean(history[h], Under(recent, history, h)) /\ history[h] \in Scans
          /\ Under(recent, history, h) \subseteq Stood(recent', Depth)
      BY <2>2, <3>2
    <3>4. Around(b) \in SUBSET Bins /\ b \in Around(b)
      BY AwayIs, ConstantsAreNat DEF Around
    <3>5. PICK c \in Around(b) : history[h][c] = prev
      BY <3>3, <3>4, NearestIs
    <3>6. c \in Bins /\ Away(b, c) <= AngularTol
      BY DEF Around
    <3>7. Differ(history[h][c], r) <= RangeTol
      <4>1. prev \in Nat /\ r \in Nat
        BY <3>3, <3>5, <3>6, ReadingIs, ConstantsAreNat
      <4> HIDE DEF prev
      <4>2. prev <= r + RangeTol /\ r <= prev + RangeTol
        BY <1>3, <3>1, <4>1
      <4> QED BY <1>3, <3>5, <4>1, <4>2, DifferIs
    <3>8. \E p \in Under(recent, history, h) : Near(<<b, r>>, p)
      BY <3>1, <3>3, <3>5, <3>6, <3>7, CleanIsNear
    <3> QED BY <3>3, <3>8
  <2> QED BY <2>3, <2>4 DEF Supported
<1> QED BY <1>7, <1>8

LEMMA PublishedStep ==
    ASSUME Types, Gated, Published, Tuned, [Next]_vars
    PROVE  Published'
<1>1. CASE ReadScan
  <2> DEFINE got == newest[1]
             h == Len(history)
             hh == Len(history')
  <2>1. /\ h \in Nat /\ DOMAIN history = 1..h /\ h <= Depth /\ Len(recent) \in Nat /\ Len(recent) <= Memory
        /\ h = (IF Len(recent) < Depth THEN Len(recent) ELSE Depth) /\ Depth \in Nat \ {0}
        /\ Memory \in Nat \ {0}
    BY GateLengths
  <2>2. Memory >= Depth + 1
    BY ConstantsAreNat DEF Tuned
  <2>3. /\ hh \in Nat \ {0} /\ history'[hh] = got.ranges
        /\ Len(recent') = IF Len(recent) < Memory THEN Len(recent) + 1 ELSE Memory
    <3>1. Memory >= Depth
      BY <2>1, <2>2
    <3> QED BY <1>1, <3>1, GateSlides
  <2>4. scan' = Filtered(got.ranges) /\ got.ranges \in Scans
    BY <1>1, ReadScanTypes DEF Revolutions
  <2>5. history' # <<>>
    BY <2>3
  <2>6. Len(recent') <= Depth => scan' = history'[hh]
    <3>1. Len(recent') <= Depth => h < Depth
      BY <2>1, <2>2, <2>3
    <3> QED BY <2>3, <2>4, <3>1, FilteredIs
  <2>7. ASSUME Len(recent') > Depth, NEW b \in Bins, scan'[b] # Far
        PROVE  \E p \in Stood(recent', Depth) : Near(<<b, scan'[b]>>, p)
    <3>1. h >= Depth /\ ~(h < Depth)
      BY <2>1, <2>3, <2>7
    <3>2. scan'[b] = got.ranges[b] /\ Supported(b, got.ranges[b])
      BY <2>4, <2>7, <3>1, FilteredIs
    <3>3. got.ranges[b] \in Ranges
      BY <2>4, <2>7, <3>2, ReadingIs
    <3> QED BY <1>1, <3>1, <3>2, <3>3, SupportedStood
  <2> QED BY <2>5, <2>6, <2>7 DEF Published
<1>2. CASE UNCHANGED <<history, recent, scan>> /\ (fresh = {} => fresh' = {})
  BY <1>2 DEF Published
<1>3. ReadScan \/ (UNCHANGED <<history, recent, scan>> /\ (fresh = {} => fresh' = {}))
  BY DEF Next, Work, Unplug, Replug, Plugs, Pause, Stop, Resume, Start, Sets, GiveUp, EnsureConnected,
         Connect, Obstacles, Proximity, Revolve, vars, driver, lidar, tracker, proximity, world, past
<1> QED BY <1>1, <1>2, <1>3

-----------------------------------------------------------------------------
(* What is followed, held and published.                                   *)

\* Until the gate is full the scan is the revolution read last.
LEMMA ScanShows ==
    ASSUME Types, Gated, Published, fresh # {}, Len(recent) <= Depth
    PROVE  /\ Len(history) \in DOMAIN history /\ Len(history) = Len(recent) /\ Len(recent) \in DOMAIN recent
           /\ scan = history[Len(history)] /\ Shows(scan, recent[Len(recent)])
           /\ Len(history) \notin Strayed => Clean(scan, recent[Len(recent)])
           /\ recent[Len(recent)] \subseteq Stood(recent, Depth)
<1> DEFINE h == Len(history)
           r == Len(recent)
<1>1. history # <<>>
  BY DEF Published
<1>2. /\ h \in Nat /\ DOMAIN history = 1..h /\ r \in Nat /\ DOMAIN recent = 1..r /\ Depth \in Nat \ {0}
  BY GateLengths
<1>3. h # 0
  BY <1>1 DEF Types
<1>4. h = (IF r < Depth THEN r ELSE Depth)
  BY GateLengths
<1>5. \A x, y, z \in Nat : x = (IF y < z THEN y ELSE z) /\ y <= z => x = y
  OBVIOUS
<1>6. h = r
  <2> HIDE DEF h, r
  <2>1. r <= Depth
    BY DEF r
  <2> QED BY <1>2, <1>4, <1>5, <2>1
<1>7. h \in DOMAIN history /\ r \in DOMAIN recent
  BY <1>2, <1>3, <1>6
<1>8. scan = history[h]
  BY <1>1 DEF Published
<1>9. Under(recent, history, h) = recent[r]
  <2>1. h + r - h = r
    BY <1>2
  <2> QED BY <2>1 DEF Under
<1>10. Shows(history[h], Under(recent, history, h))
  BY <1>7 DEF Gated
<1>11. h \notin Strayed => Clean(history[h], Under(recent, history, h))
  BY <1>7 DEF Strayed
<1>12. recent[r] \subseteq Stood(recent, Depth)
  <2>1. r > r - Depth
    BY <1>2
  <2>2. recent[r] \in SUBSET Places
    BY <1>7, ElementOf DEF Types
  <2> QED BY <1>7, <2>1, <2>2 DEF Stood
<1> QED BY <1>6, <1>7, <1>8, <1>9, <1>10, <1>11, <1>12

\* A confirmed obstacle stood in the revolutions of the gate.
LEMMA ConfirmedStood ==
    ASSUME Types, Gated, Published, Followed, Tuned, "obstacles" \in fresh,
           NEW o \in Detect(scan), Backed(o)
    PROVE  \E p \in Stood(recent, Depth) : Near(o.at, p)
<1>1. scan \in Scans /\ Len(recent) \in Nat /\ Depth \in Nat /\ MinPoints \in Nat /\ AngularTol \in Nat
  BY GateLengths, ConstantsAreNat DEF Types, TypeOK
<1>2. SeenIn(o, scan)
  BY <1>1, DetectIs
<1>3. PICK b \in Bins :
        /\ o.at = <<b, scan[b]>> /\ scan[b] # Far
        /\ o.points >= 2 => \E c \in Bins :
              c # b /\ scan[c] # Far /\ Away(b, c) <= 1 /\ Differ(scan[b], scan[c]) <= RangeTol
  BY <1>2 DEF SeenIn
<1>4. scan[b] \in Ranges /\ o.points \in Nat
  <2>1. scan[b] \in Ranges
    BY <1>1, <1>3, ReadingIs
  <2>2. o.points \in 1..NBins /\ NBins \in Nat
    BY <1>2, ConstantsAreNat DEF SeenIn, Observation
  <2> QED BY <2>1, <2>2
<1>5. CASE Len(recent) > Depth
  BY <1>3, <1>5 DEF Published
<1>6. CASE Len(recent) <= Depth
  <2> DEFINE stood == recent[Len(recent)]
             h == Len(history)
  <2>1. /\ h \in DOMAIN history /\ scan = history[h] /\ Shows(scan, stood)
        /\ h \notin Strayed => Clean(scan, stood)
        /\ stood \subseteq Stood(recent, Depth)
    BY <1>6, ScanShows
  <2>2. Near(o.at, o.at)
    BY <1>3, <1>4, NearItself
  <2> HIDE DEF stood, h
  <2>3. CASE o.at \in stood
    BY <2>1, <2>2, <2>3
  <2>4. CASE o.at \notin stood
    <3>1. \A c \in Bins : c # b /\ scan[c] # Far => <<c, scan[c]>> \in stood
      <4>1. PICK x \in Bins : \A c \in Bins \ {x} : scan[c] # Far => <<c, scan[c]>> \in stood
        BY <2>1 DEF Shows
      <4>2. x = b
        BY <1>3, <2>4, <4>1
      <4> QED BY <4>1, <4>2
    <3>2. h \in Strayed
      BY <1>3, <2>1, <2>4 DEF Clean
    <3>3. Strayed \subseteq {h}
      BY <3>2 DEF Gated
    <3>4. CASE o.points >= MinPoints
      <4>1. o.points >= 2
        BY <1>1, <1>4, <3>4 DEF Tuned
      <4>2. PICK c \in Bins : c # b /\ scan[c] # Far /\ Away(b, c) <= 1 /\ Differ(scan[b], scan[c]) <= RangeTol
        BY <1>3, <4>1
      <4> DEFINE p == <<c, scan[c]>>
      <4>3. p \in stood
        BY <3>1, <4>2
      <4>4. Away(b, c) <= AngularTol
        <5>1. Away(b, c) \in Nat
          BY AwayIs
        <5> QED BY <1>1, <4>2, <5>1 DEF Tuned
      <4>5. p[1] = c /\ p[2] = scan[c] /\ o.at[1] = b /\ o.at[2] = scan[b]
        BY <1>3
      <4> HIDE DEF p
      <4>6. Near(o.at, p)
        BY <4>2, <4>4, <4>5 DEF Near
      <4> QED BY <2>1, <4>3, <4>6
    <3>5. CASE \E i \in DOMAIN tracks : Near(o.at, tracks[i].at)
      <4>1. PICK i \in DOMAIN tracks : Near(o.at, tracks[i].at)
        BY <3>5
      <4>2. tracks[i].at \in Remembered
        BY <1>6, <3>3 DEF Followed, h
      <4>3. Remembered \subseteq Stood(recent, Depth)
        BY <1>1, <1>6, StoodIsRemembered
      <4> QED BY <4>1, <4>2, <4>3
    <3> QED BY <3>4, <3>5 DEF Backed
  <2> QED BY <2>3, <2>4
<1> QED BY <1>1, <1>5, <1>6

LEMMA FollowedStep ==
    ASSUME Types, Gated, Published, Followed, Tuned, [Next]_vars
    PROVE  Followed'
<1>1. CASE ReadScan
  <2> SUFFICES ASSUME Len(recent') <= Depth,
                      Strayed' \subseteq (IF "obstacles" \in fresh' THEN {Len(history')} ELSE {}),
                      NEW i \in DOMAIN tracks'
               PROVE  tracks'[i].at \in Remembered'
    BY DEF Followed
  <2> DEFINE h == Len(history)
             hh == Len(history')
  <2>1. fresh' = {"obstacles", "proximity"} /\ UNCHANGED tracks
    BY <1>1 DEF ReadScan, tracker
  <2>2. /\ h \in Nat /\ DOMAIN history = 1..h /\ h <= Depth /\ Len(recent) \in Nat /\ Len(recent) <= Memory
        /\ h = (IF Len(recent) < Depth THEN Len(recent) ELSE Depth) /\ Depth \in Nat \ {0}
        /\ Memory \in Nat \ {0}
    BY GateLengths
  <2>3. Memory >= Depth + 1 /\ Memory >= Depth
    BY ConstantsAreNat DEF Tuned
  <2>4. /\ hh = (IF h < Depth THEN h + 1 ELSE Depth) /\ DOMAIN history' = 1..hh
        /\ Len(recent') = (IF Len(recent) < Memory THEN Len(recent) + 1 ELSE Memory)
        /\ \A j \in 1..hh - 1 : /\ history'[j] = history[j + h + 1 - hh]
                                /\ Under(recent', history', j) = Under(recent, history, j + h + 1 - hh)
    BY <1>1, <2>3, GateSlides
  <2>5. Len(recent) < Depth /\ Len(recent') = Len(recent) + 1 /\ hh = h + 1
    <3> HIDE DEF h, hh
    <3>1. \A r, rr, d, m \in Nat : m >= d + 1 /\ rr = (IF r < m THEN r + 1 ELSE m) /\ rr <= d => r < d /\ rr = r + 1
      OBVIOUS
    <3>2. Len(recent') \in Nat
      BY <2>2, <2>4
    <3>3. Len(recent) < Depth /\ Len(recent') = Len(recent) + 1
      BY <2>2, <2>3, <2>4, <3>1, <3>2
    <3>4. h < Depth
      BY <2>2, <3>3
    <3> QED BY <2>4, <3>3, <3>4
  <2>6. Strayed = {}
    <3> SUFFICES ASSUME NEW j \in Strayed PROVE FALSE
      OBVIOUS
    <3>1. j \in 1..h /\ ~Clean(history[j], Under(recent, history, j))
      BY <2>2 DEF Strayed
    <3>2. j \in 1..hh - 1 /\ j + h + 1 - hh = j /\ j \in DOMAIN history' /\ j # hh
      <4>1. hh - 1 = h /\ j \in Nat
        BY <2>2, <2>5, <3>1
      <4> HIDE DEF h, hh
      <4> QED BY <2>2, <2>4, <2>5, <3>1, <4>1
    <3>3. history'[j] = history[j] /\ Under(recent', history', j) = Under(recent, history, j)
      BY <2>4, <3>2
    <3>4. j \in Strayed'
      BY <3>1, <3>2, <3>3 DEF Strayed
    <3> QED BY <2>1, <3>2, <3>4
  <2>7. tracks[i].at \in Remembered
    <3>1. Len(recent) <= Depth
      BY <2>2, <2>5
    <3>2. i \in DOMAIN tracks
      BY <2>1
    <3> QED BY <2>6, <3>1, <3>2 DEF Followed
  <2>8. Remembered \subseteq Remembered'
    <3>1. Slides(recent, newest[1].stood, Memory, recent') /\ recent' \in Seq(SUBSET Places)
      BY <1>1, ReadScanTypes
    <3>2. \A k \in 1..Len(recent') - 1 : recent'[k] = recent[k + Len(recent) + 1 - Len(recent')]
      BY <3>1 DEF Slides
    <3>3. ASSUME NEW k \in DOMAIN recent PROVE k \in DOMAIN recent' /\ recent'[k] = recent[k]
      <4>1. k \in 1..Len(recent) /\ DOMAIN recent' = 1..Len(recent')
        <5>1. recent \in Seq(SUBSET Places)
          BY DEF Types
        <5> QED BY <3>1, <5>1
      <4>2. k \in 1..Len(recent') - 1 /\ k + Len(recent) + 1 - Len(recent') = k
        BY <2>2, <2>5, <4>1
      <4>3. recent'[k] = recent[k]
        BY <3>2, <4>2
      <4>4. k \in 1..Len(recent')
        BY <2>2, <2>5, <4>1
      <4> QED BY <4>1, <4>3, <4>4
    <3> QED BY <3>3 DEF Remembered
  <2> QED BY <2>1, <2>7, <2>8
<1>2. CASE Obstacles
  <2> SUFFICES ASSUME Len(recent') <= Depth,
                      Strayed' \subseteq (IF "obstacles" \in fresh' THEN {Len(history')} ELSE {}),
                      NEW i \in DOMAIN tracks'
               PROVE  tracks'[i].at \in Remembered'
    BY DEF Followed
  <2>1. /\ "obstacles" \in fresh /\ "obstacles" \notin fresh' /\ UNCHANGED <<history, recent>>
    BY <1>2 DEF Obstacles, lidar, past
  <2>2. Strayed = {} /\ Len(recent) <= Depth /\ Remembered' = Remembered
    BY <2>1 DEF Strayed, Remembered
  <2>3. PICK confirmed \in SUBSET Detect(scan) : tracks' \in Seq(Heirs(Detect(scan), confirmed))
    BY <1>2, ObstaclesIs
  <2>4. Moved(tracks'[i], Detect(scan))
    BY <2>3, ElementOf DEF Heirs
  <2>5. CASE \E o \in Detect(scan) : tracks'[i].at = o.at
    <3>1. PICK o \in Detect(scan) : tracks'[i].at = o.at
      BY <2>5
    <3>2. PICK b \in Bins : o.at = <<b, scan[b]>> /\ scan[b] # Far
      BY DetectIs DEF SeenIn, Types, TypeOK
    <3>3. Clean(scan, recent[Len(recent)]) /\ Len(recent) \in DOMAIN recent
      BY <2>1, <2>2, ScanShows
    <3> QED BY <2>2, <3>1, <3>2, <3>3 DEF Clean, Remembered
  <2>6. CASE \E j \in DOMAIN tracks : tracks'[i].at = tracks[j].at
    BY <2>1, <2>2, <2>6 DEF Followed
  <2> QED BY <2>4, <2>5, <2>6 DEF Moved
<1>3. CASE UNCHANGED <<history, recent, tracks>> /\ ("obstacles" \in fresh' <=> "obstacles" \in fresh)
  BY <1>3 DEF Followed, Strayed, Remembered
<1>4. \/ ReadScan \/ Obstacles
      \/ UNCHANGED <<history, recent, tracks>> /\ ("obstacles" \in fresh' <=> "obstacles" \in fresh)
  BY DEF Next, Work, Unplug, Replug, Plugs, Pause, Stop, Resume, Start, Sets, GiveUp, EnsureConnected,
         Connect, Proximity, Revolve, vars, driver, lidar, tracker, proximity, world, past
<1> QED BY <1>1, <1>2, <1>3, <1>4

LEMMA HeldStep ==
    ASSUME Types, Gated, Published, Followed, Held, Tuned, [Next]_vars
    PROVE  Held'
<1>1. /\ elapsed \in 0..Long /\ MaxDt \in Nat /\ Long = MaxDt + 1 /\ Coast \in Nat /\ Depth \in Nat
      /\ Len(newest) \in 0..1 /\ recent \in Seq(SUBSET Places) /\ Memory \in Nat \ {0} /\ Len(recent) <= Memory
  <2>1. Len(newest) \in 0..1
    <3>1. newest \in Seq(Revolutions) /\ Len(newest) <= 1
      BY DEF Types, TypeOK
    <3>2. Len(newest) \in Nat /\ Len(newest) <= 1
      BY <3>1
    <3>3. \A n \in Nat : n <= 1 => n \in 0..1
      OBVIOUS
    <3> QED BY <3>2, <3>3
  <2> QED BY <2>1, ConstantsAreNat DEF Types, TypeOK
<1>2. \A i \in DOMAIN tracks : tracks[i].age \in Nat
  <2>1. \A i \in DOMAIN tracks : tracks[i].age \in 0..Coast
    BY DEF Types, TypeOK, Track
  <2> QED BY <1>1, <2>1
<1>3. Memory >= Depth + Coast + 1
  BY DEF Tuned
<1>4. CASE Revolve
  <2>1. UNCHANGED <<tracks, recent>>
    BY <1>4 DEF Revolve, past
  <2>2. Len(newest') = 1 /\ elapsed' \in 0..Long /\ (elapsed' <= MaxDt => elapsed' = elapsed + 1)
    BY <1>4, RevolveTypes
  <2> SUFFICES ASSUME elapsed' <= MaxDt, NEW i \in DOMAIN tracks, tracks[i].known,
                      tracks[i].age + elapsed' <= Coast
               PROVE  \E p \in Stood(recent, Depth + tracks[i].age + elapsed' + 1 - Len(newest')) :
                         Near(tracks[i].seen, p)
    BY <2>1 DEF Held
  <2> DEFINE a == tracks[i].age
             j == Depth + a + elapsed + 1 - Len(newest)
             k == Depth + a + elapsed' + 1 - Len(newest')
  <2>3. elapsed \in Nat /\ a \in Nat /\ elapsed' = elapsed + 1
    BY <1>1, <1>2, <2>2
  <2>4. elapsed <= MaxDt /\ a + elapsed <= Coast /\ j \in Int /\ k \in Int /\ j <= k
    BY <1>1, <2>2, <2>3
  <2>5. \E p \in Stood(recent, j) : Near(tracks[i].seen, p)
    BY <2>4 DEF Held
  <2> HIDE DEF j, k
  <2>6. Stood(recent, j) \subseteq Stood(recent, k)
    BY <1>1, <2>4, StoodGrows
  <2>7. \E p \in Stood(recent, k) : Near(tracks[i].seen, p)
    BY <2>5, <2>6
  <2> QED BY <2>7 DEF k
<1>5. CASE ReadScan
  <2>1. UNCHANGED <<tracks, elapsed>> /\ newest' = <<>> /\ Len(newest') = 0
    BY <1>5 DEF ReadScan, tracker
  <2>2. Len(newest) = 1
    <3>1. newest # <<>> /\ newest \in Seq(Revolutions)
      BY <1>5 DEF ReadScan, Types
    <3>2. Len(newest) # 0
      BY <3>1
    <3> QED BY <1>1, <3>2
  <2> SUFFICES ASSUME elapsed <= MaxDt, NEW i \in DOMAIN tracks, tracks[i].known,
                      tracks[i].age + elapsed <= Coast
               PROVE  \E p \in Stood(recent', Depth + tracks[i].age + elapsed + 1 - Len(newest')) :
                         Near(tracks[i].seen, p)
    BY <2>1 DEF Held
  <2> DEFINE a == tracks[i].age
             j == Depth + a + elapsed + 1 - Len(newest)
             k == Depth + a + elapsed + 1 - Len(newest')
  <2>3. elapsed \in Nat /\ a \in Nat
    BY <1>1, <1>2
  <2>4. j \in Nat /\ k = j + 1 /\ j + 1 <= Memory
    BY <1>1, <1>3, <2>1, <2>2, <2>3
  <2>5. \E p \in Stood(recent, j) : Near(tracks[i].seen, p)
    BY DEF Held
  <2> HIDE DEF j, k
  <2>6. Stood(recent, j) \subseteq Stood(recent', j + 1)
    <3> DEFINE e == newest[1].stood
    <3>1. e \in SUBSET Places /\ recent' \in Seq(SUBSET Places) /\ Slides(recent, e, Memory, recent')
      BY <1>5, ReadScanTypes DEF Revolutions
    <3> HIDE DEF e
    <3> QED BY <1>1, <2>4, <3>1, StoodSlides
  <2>7. \E p \in Stood(recent', k) : Near(tracks[i].seen, p)
    BY <2>4, <2>5, <2>6
  <2> QED BY <2>7 DEF k
<1>6. CASE Connect
  BY <1>1, <1>6 DEF Connect, Held
<1>7. CASE Obstacles
  <2>1. elapsed' = 0 /\ UNCHANGED <<recent, newest>> /\ "obstacles" \in fresh
    BY <1>7 DEF Obstacles, past, driver
  <2>2. PICK confirmed \in SUBSET Detect(scan) :
           /\ \A o \in confirmed : Backed(o)
           /\ tracks' \in Seq(Heirs(Detect(scan), confirmed))
    BY <1>7, ObstaclesIs
  <2> SUFFICES ASSUME NEW i \in DOMAIN tracks', tracks'[i].known, tracks'[i].age + 0 <= Coast
               PROVE  \E p \in Stood(recent, Depth + tracks'[i].age + 0 + 1 - Len(newest)) :
                         Near(tracks'[i].seen, p)
    BY <2>1 DEF Held
  <2> DEFINE t == tracks'[i]
             k == Depth + t.age + 0 + 1 - Len(newest)
  <2>3. t \in Track /\ Knows(t, confirmed)
    BY <2>2, ElementOf DEF Heirs
  <2>4. CASE t.age = 0 /\ \E o \in confirmed : t.seen = o.at
    <3>1. PICK o \in confirmed : t.seen = o.at
      BY <2>4
    <3>2. \E p \in Stood(recent, Depth) : Near(o.at, p)
      BY <2>1, <2>2, ConfirmedStood
    <3>3. Depth \in Int /\ k \in Int /\ Depth <= k
      <4>1. \A d \in Nat, n \in 0..1 : d + 0 + 0 + 1 - n \in Int /\ d <= d + 0 + 0 + 1 - n
        OBVIOUS
      <4>2. k = Depth + 0 + 0 + 1 - Len(newest)
        BY <2>4
      <4>3. Depth \in Nat /\ Len(newest) \in 0..1
        BY <1>1
      <4>4. Depth \in Int
        BY <4>3
      <4> HIDE DEF k
      <4> QED BY <4>1, <4>2, <4>3, <4>4
    <3> HIDE DEF k, t
    <3>4. Stood(recent, Depth) \subseteq Stood(recent, k)
      BY <1>1, <3>3, StoodGrows
    <3>5. \E p \in Stood(recent, k) : Near(t.seen, p)
      BY <3>1, <3>2, <3>4
    <3> QED BY <3>5 DEF k, t
  <2>5. CASE \E j \in DOMAIN tracks :
               /\ elapsed <= MaxDt /\ tracks[j].known /\ tracks[j].age + elapsed <= Coast
               /\ t.age = tracks[j].age + elapsed /\ t.seen = tracks[j].seen
    <3>1. PICK j \in DOMAIN tracks :
               /\ elapsed <= MaxDt /\ tracks[j].known /\ tracks[j].age + elapsed <= Coast
               /\ t.age = tracks[j].age + elapsed /\ t.seen = tracks[j].seen
      BY <2>5
    <3>2. \E p \in Stood(recent, Depth + tracks[j].age + elapsed + 1 - Len(newest)) : Near(tracks[j].seen, p)
      BY <3>1 DEF Held
    <3>3. k = Depth + tracks[j].age + elapsed + 1 - Len(newest)
      <4>1. tracks[j].age \in Nat /\ elapsed \in Nat
        BY <1>1, <1>2
      <4> QED BY <1>1, <3>1, <4>1
    <3> HIDE DEF k, t
    <3>4. \E p \in Stood(recent, k) : Near(t.seen, p)
      BY <3>1, <3>2, <3>3
    <3> QED BY <3>4 DEF k, t
  <2>6. t.known
    OBVIOUS
  <2> HIDE DEF t
  <2> QED BY <2>3, <2>4, <2>5, <2>6 DEF Knows
<1>8. CASE UNCHANGED <<elapsed, tracks, recent, newest>>
  BY <1>8 DEF Held
<1>9. ReadScan \/ Revolve \/ Connect \/ Obstacles \/ UNCHANGED <<elapsed, tracks, recent, newest>>
  BY DEF Next, Work, Unplug, Replug, Plugs, Pause, Stop, Resume, Start, Sets, GiveUp, EnsureConnected,
         Proximity, vars, driver, lidar, tracker, proximity, world, past
<1> QED BY <1>4, <1>5, <1>6, <1>7, <1>8, <1>9

LEMMA SteeredStep ==
    ASSUME Types, Gated, Published, Followed, Held, Steered, Tuned, [Next]_vars
    PROVE  Steered'
<1>1. CASE ReadScan
  BY <1>1 DEF ReadScan, Steered
<1>2. CASE Obstacles
  <2>1. "obstacles" \in fresh /\ UNCHANGED recent
    BY <1>2 DEF Obstacles, past
  <2>2. PICK confirmed \in SUBSET Detect(scan) :
           /\ \A o \in confirmed : Backed(o)
           /\ tracks' \in Seq(Heirs(Detect(scan), confirmed))
           /\ obstacles' = WithCoasted(tracks', confirmed)
    BY <1>2, ObstaclesIs
  <2>3. \A k : Stood(recent, k) \subseteq Remembered
    BY StoodIsRemembered
  <2>4. ASSUME NEW o \in confirmed PROVE \E p \in Remembered : Near(o.at, p)
    BY <2>1, <2>2, <2>3, ConfirmedStood
  <2>5. ASSUME NEW i \in DOMAIN tracks', tracks'[i].known, tracks'[i].age > 0
        PROVE  \E p \in Remembered : Near(tracks'[i].seen, p)
    <3> DEFINE t == tracks'[i]
    <3>1. t \in Track /\ Knows(t, confirmed)
      BY <2>2, ElementOf DEF Heirs
    <3>2. t.age # 0 /\ t.known
      BY <2>5
    <3> HIDE DEF t
    <3>3. PICK j \in DOMAIN tracks :
               /\ elapsed <= MaxDt /\ tracks[j].known /\ tracks[j].age + elapsed <= Coast
               /\ t.seen = tracks[j].seen
      BY <3>1, <3>2 DEF Knows
    <3>4. \E p \in Remembered : Near(tracks[j].seen, p)
      BY <2>3, <3>3 DEF Held
    <3> QED BY <3>3, <3>4 DEF t
  <2>6. \A x \in obstacles' : \/ \E o \in confirmed : x.at = o.at
                              \/ \E i \in DOMAIN tracks' : tracks'[i].known /\ tracks'[i].age > 0 /\ x.at = tracks'[i].seen
    BY <2>2 DEF WithCoasted
  <2>7. Remembered' = Remembered
    BY <2>1 DEF Remembered
  <2>8. \A x \in obstacles' : \E p \in Remembered : Near(x.at, p)
    BY <2>4, <2>5, <2>6
  <2> QED BY <2>7, <2>8 DEF Steered
<1>3. CASE UNCHANGED <<obstacles, recent>> /\ ("obstacles" \in fresh' <=> "obstacles" \in fresh)
  BY <1>3 DEF Steered, Remembered
<1>4. \/ ReadScan \/ Obstacles
      \/ UNCHANGED <<obstacles, recent>> /\ ("obstacles" \in fresh' <=> "obstacles" \in fresh)
  BY DEF Next, Work, Unplug, Replug, Plugs, Pause, Stop, Resume, Start, Sets, GiveUp, EnsureConnected,
         Connect, Proximity, Revolve, vars, driver, lidar, tracker, proximity, world, past
<1> QED BY <1>1, <1>2, <1>3, <1>4

\* A sector's reading stands on two points of it, and a stray is only one.
LEMMA SectorStood ==
    ASSUME Types, Gated, Published, Tuned, "proximity" \in fresh,
           NEW s \in Sectors, ScanToSectors(scan)[s] # Far, NEW k \in Int, k >= Depth
    PROVE  Drawn(recent, ScanToSectors(scan)[s], s, k)
<1> DEFINE v == ScanToSectors(scan)[s]
<1>1. /\ scan \in Scans /\ Len(recent) \in Nat /\ Depth \in Int /\ recent \in Seq(SUBSET Places)
      /\ RangeTol \in Nat /\ AngularTol \in Nat /\ Ranges \subseteq Nat
  BY GateLengths, ConstantsAreNat DEF Types, TypeOK
<1>2. /\ v \in Ranges
      /\ \E b \in Bins : b \div SectorBins = s /\ scan[b] = v
      /\ NeedPoints >= 2 => \A x : \E b \in Bins : b # x /\ b \div SectorBins = s /\ scan[b] <= v
  BY <1>1, SectorsOf
<1> HIDE DEF v
<1>3. \A p \in Stood(recent, Depth) : p \in Places /\ p[1] \in Bins /\ p[2] \in Ranges
  BY DEF Stood, Places
<1>4. CASE Len(recent) > Depth
  <2>1. PICK b \in Bins : b \div SectorBins = s /\ scan[b] = v
    BY <1>2
  <2>2. v # Far
    BY DEF v
  <2>3. PICK p \in Stood(recent, Depth) : Near(<<b, v>>, p)
    BY <1>4, <2>1, <2>2 DEF Published
  <2>4. Away(b, p[1]) <= AngularTol /\ Differ(v, p[2]) <= RangeTol
    BY <2>3 DEF Near
  <2>5. Away(p[1], b) <= AngularTol
    BY <1>3, <2>4, AwayIs
  <2>6. InSector(p, s)
    BY <2>1, <2>5 DEF InSector, Around
  <2>7. v <= p[2] + RangeTol /\ p[2] <= v + RangeTol
    <3>1. v \in Nat /\ p[2] \in Nat
      BY <1>1, <1>2, <1>3
    <3> QED BY <1>1, <2>4, <3>1, DifferIs
  <2>8. Drawn(recent, v, s, Depth)
    BY <2>3, <2>6, <2>7 DEF Drawn
  <2> QED BY <1>1, <2>8, DrawnGrows DEF v
<1>5. CASE Len(recent) <= Depth
  <2> DEFINE stood == recent[Len(recent)]
  <2>1. Shows(scan, stood) /\ stood \subseteq Stood(recent, Depth)
    BY <1>5, ScanShows
  <2>2. PICK x \in Bins : \A c \in Bins \ {x} : scan[c] # Far => <<c, scan[c]>> \in stood
    BY <2>1 DEF Shows
  <2> HIDE DEF stood
  <2>3. PICK c \in Bins : c # x /\ c \div SectorBins = s /\ scan[c] <= v
    BY <1>2 DEF Tuned
  <2>4. scan[c] # Far /\ scan[c] \in Nat /\ v \in Nat
    <3>1. scan[c] \in Nat /\ v \in Nat /\ v \in Ranges
      BY <1>1, <1>2, ReadingIs
    <3>2. MaxRange \in Nat
      BY ConstantsAreNat
    <3> QED BY <2>3, <3>1, <3>2 DEF Ranges, Far
  <2> DEFINE p == <<c, scan[c]>>
  <2>5. p \in Stood(recent, k)
    BY <1>1, <2>1, <2>2, <2>3, <2>4, StoodGrows
  <2>6. p[1] = c /\ p[2] = scan[c]
    OBVIOUS
  <2> HIDE DEF p
  <2>7. InSector(p, s)
    <3>1. Away(c, c) <= AngularTol
      BY <1>1, AwayIs
    <3> QED BY <2>3, <2>6, <3>1 DEF InSector, Around
  <2>8. p[2] <= v + RangeTol
    BY <1>1, <2>3, <2>4, <2>6
  <2>9. ~(Len(recent) > k)
    BY <1>1, <1>5
  <2> QED BY <2>5, <2>7, <2>8, <2>9 DEF Drawn, v
<1> QED BY <1>1, <1>4, <1>5

\* One event of the budget for each revolution a frame may miss.
LEMMA LagIs ==
    Types => /\ Lag \in Nat /\ MaxEvents \in Nat /\ budget \in 0..MaxEvents
             /\ Lag = MaxEvents - budget \/ Lag = MaxEvents - budget + 1
             /\ "proximity" \notin fresh \/ newest # <<>> => Lag = MaxEvents - budget
             /\ "proximity" \in fresh /\ newest = <<>> => Lag = MaxEvents - budget + 1
<1> SUFFICES ASSUME Types
             PROVE  /\ Lag \in Nat /\ MaxEvents \in Nat /\ budget \in 0..MaxEvents
                    /\ Lag = MaxEvents - budget \/ Lag = MaxEvents - budget + 1
                    /\ "proximity" \notin fresh \/ newest # <<>> => Lag = MaxEvents - budget
                    /\ "proximity" \in fresh /\ newest = <<>> => Lag = MaxEvents - budget + 1
  OBVIOUS
<1>1. MaxEvents \in Nat /\ budget \in 0..MaxEvents
  BY ConstantsAreNat DEF Types, TypeOK
<1>2. MaxEvents - budget \in Nat /\ MaxEvents - budget + 0 = MaxEvents - budget
  BY <1>1
<1>3. CASE "proximity" \in fresh /\ newest = <<>>
  <2>1. Lag = MaxEvents - budget + 1
    BY <1>3 DEF Lag
  <2>2. Lag \in Nat
    BY <1>2, <2>1
  <2> QED BY <1>1, <1>3, <2>1, <2>2
<1>4. CASE ~("proximity" \in fresh /\ newest = <<>>)
  <2>1. Lag = MaxEvents - budget
    BY <1>2, <1>4 DEF Lag
  <2>2. Lag \in Nat
    BY <1>2, <2>1
  <2> QED BY <1>1, <1>4, <2>1, <2>2
<1> QED BY <1>3, <1>4

LEMMA LagIsNext ==
    (Types => /\ Lag \in Nat /\ MaxEvents \in Nat /\ budget \in 0..MaxEvents
              /\ Lag = MaxEvents - budget \/ Lag = MaxEvents - budget + 1
              /\ "proximity" \notin fresh \/ newest # <<>> => Lag = MaxEvents - budget
              /\ "proximity" \in fresh /\ newest = <<>> => Lag = MaxEvents - budget + 1)'
BY LagIs, PTL

\* What a frame says stands as long as the lag does not shrink.
LEMMA FramesKeep ==
    ASSUME Types, Framed, UNCHANGED <<frames, recent>>, Lag \in Nat, Lag' \in Nat, Lag <= Lag'
    PROVE  Framed'
<1> SUFFICES ASSUME NEW i \in DOMAIN frames, NEW s \in Sectors, frames[i][s] # Far
             PROVE  Drawn(recent, frames[i][s], s, Depth + Len(frames) - i + Lag')
  BY DEF Framed
<1> DEFINE j == Depth + Len(frames) - i + Lag
           k == Depth + Len(frames) - i + Lag'
<1>1. recent \in Seq(SUBSET Places) /\ Len(frames) \in Nat /\ i \in Nat /\ Depth \in Nat
  BY ConstantsAreNat DEF Types
<1>2. j \in Int /\ k \in Int /\ j <= k
  BY <1>1
<1>3. Drawn(recent, frames[i][s], s, j)
  BY DEF Framed
<1> HIDE DEF j, k
<1>4. Drawn(recent, frames[i][s], s, k)
  BY <1>1, <1>2, <1>3, DrawnGrows
<1> QED BY <1>4 DEF k

\* An older frame is an index lower once a new one is in.
LEMMA FramesSlide ==
    ASSUME Types, Framed, Types', Proximity, Lag \in Nat, Lag' \in Nat, Lag <= Lag' + 1,
           NEW i \in DOMAIN frames', i # Len(frames'), NEW s \in Sectors, frames'[i][s] # Far
    PROVE  Drawn(recent, frames'[i][s], s, Depth + Len(frames') - i + Lag')
<1> DEFINE l == Len(frames)
           ll == Len(frames')
           n == i + l + 1 - ll
           j == Depth + l - n + Lag
           k == Depth + ll - i + Lag'
<1>1. /\ recent \in Seq(SUBSET Places) /\ l \in Nat /\ DOMAIN frames = 1..l /\ Depth \in Nat
      /\ ll \in Nat /\ DOMAIN frames' = 1..ll
  <2>1. frames \in Seq([Sectors -> 1..Far]) /\ recent \in Seq(SUBSET Places)
    BY DEF Types
  <2>2. frames' \in Seq([Sectors -> 1..Far])
    BY ProximityTypes
  <2> QED BY <2>1, <2>2, ConstantsAreNat
<1>2. \A m \in 1..ll - 1 : m + l + 1 - ll \in 1..l /\ frames'[m] = frames[m + l + 1 - ll]
  BY ProximityTypes DEF Slides
<1> HIDE DEF l, ll
<1>3. i \in 1..ll - 1
  <2>1. i # ll
    BY DEF ll
  <2> QED BY <1>1, <2>1
<1>4. n \in DOMAIN frames /\ n \in 1..l /\ frames'[i] = frames[n]
  BY <1>1, <1>2, <1>3
<1>5. Drawn(recent, frames'[i][s], s, j)
  <2>1. \A m \in DOMAIN frames : frames[m][s] # Far => Drawn(recent, frames[m][s], s, Depth + l - m + Lag)
    BY DEF Framed, l
  <2> QED BY <1>4, <2>1
<1>6. j \in Int /\ k \in Int /\ j <= k
  <2>1. \A d, x, y, m, a, b \in Nat : a <= b + 1 =>
          /\ d + x - (m + x + 1 - y) + a \in Int /\ d + y - m + b \in Int
          /\ d + x - (m + x + 1 - y) + a <= d + y - m + b
    OBVIOUS
  <2>2. i \in Nat
    BY <1>3
  <2> QED BY <1>1, <2>1, <2>2
<1> HIDE DEF j, k, n
<1>7. Drawn(recent, frames'[i][s], s, k)
  BY <1>1, <1>5, <1>6, DrawnGrows
<1> QED BY <1>7 DEF k, ll

LEMMA FramedStep ==
    ASSUME Types, Gated, Published, Framed, Tuned, [Next]_vars
    PROVE  Framed'
<1>1. Types'
  BY TypesStep
<1>2. /\ Lag \in Nat /\ MaxEvents \in Nat /\ budget \in 0..MaxEvents
      /\ Lag = MaxEvents - budget \/ Lag = MaxEvents - budget + 1
      /\ "proximity" \notin fresh \/ newest # <<>> => Lag = MaxEvents - budget
      /\ "proximity" \in fresh /\ newest = <<>> => Lag = MaxEvents - budget + 1
  BY LagIs
<1>3. /\ Lag' \in Nat /\ MaxEvents \in Nat /\ budget' \in 0..MaxEvents
      /\ Lag' = MaxEvents - budget' \/ Lag' = MaxEvents - budget' + 1
      /\ "proximity" \notin fresh' \/ newest' # <<>> => Lag' = MaxEvents - budget'
      /\ "proximity" \in fresh' /\ newest' = <<>> => Lag' = MaxEvents - budget' + 1
  BY <1>1, LagIsNext
<1>4. /\ \A m \in Nat : \A b, c \in 0..m : c <= b - 1 => m - b + 1 <= m - c /\ m - b <= m - c + 1
      /\ \A m \in Nat : \A b, c \in 0..m : c <= b => m - b <= m - c /\ m - b + 1 <= m - c + 1 /\ m - b <= m - c + 1
      /\ \A m \in Nat : \A b, c \in 0..m : c <= b - 1 => m - b <= m - c /\ m - b + 1 <= m - c + 1
  OBVIOUS
<1>5. CASE Revolve
  <2>1. UNCHANGED <<frames, recent, fresh>>
    BY <1>5 DEF Revolve, proximity, past
  <2>2. budget' <= budget /\ (fresh # {} => budget' <= budget - 1)
    <3>1. budget' <= budget /\ ((fresh # {} \/ (mode = "SCANNING" /\ newest # <<>>)) => budget' <= budget - 1)
      BY <1>5, RevolveTypes
    <3> QED BY <3>1
  <2>3. Lag <= Lag'
    <3>1. CASE fresh # {}
      <4>1. budget' <= budget - 1
        BY <2>2, <3>1
      <4>2. MaxEvents - budget + 1 <= MaxEvents - budget' /\ MaxEvents - budget <= MaxEvents - budget'
            /\ MaxEvents - budget + 1 <= MaxEvents - budget' + 1 /\ MaxEvents - budget <= MaxEvents - budget' + 1
        BY <1>2, <1>3, <1>4, <4>1
      <4>3. Lag \in {MaxEvents - budget, MaxEvents - budget + 1} /\ Lag' \in {MaxEvents - budget', MaxEvents - budget' + 1}
        BY <1>2, <1>3
      <4> QED BY <4>2, <4>3
    <3>2. CASE fresh = {}
      <4>1. Lag = MaxEvents - budget
        BY <1>2, <3>2
      <4>2. MaxEvents - budget <= MaxEvents - budget' /\ MaxEvents - budget <= MaxEvents - budget' + 1
        BY <1>2, <1>3, <1>4, <2>2
      <4>3. Lag' \in {MaxEvents - budget', MaxEvents - budget' + 1}
        BY <1>3
      <4> QED BY <4>1, <4>2, <4>3
    <3> QED BY <3>1, <3>2
  <2> QED BY <1>2, <1>3, <2>1, <2>3, FramesKeep
<1>6. CASE Connect
  <2>1. UNCHANGED <<frames, recent, fresh, budget>> /\ fresh = {}
    BY <1>6 DEF Connect, proximity, past
  <2>2. Lag = MaxEvents - budget /\ Lag' = MaxEvents - budget
    BY <1>2, <1>3, <2>1
  <2>3. Lag <= Lag'
    BY <1>2, <2>2
  <2> QED BY <1>2, <1>3, <2>1, <2>3, FramesKeep
<1>7. CASE ReadScan
  <2>1. UNCHANGED <<frames, budget>> /\ newest # <<>> /\ newest' = <<>> /\ "proximity" \in fresh'
    BY <1>7 DEF ReadScan, proximity
  <2>2. Lag = MaxEvents - budget /\ Lag' = MaxEvents - budget + 1 /\ Lag <= MaxEvents
    <3>1. Lag = MaxEvents - budget /\ Lag' = MaxEvents - budget + 1
      BY <1>2, <1>3, <2>1
    <3> QED BY <1>2, <3>1
  <2> SUFFICES ASSUME NEW i \in DOMAIN frames, NEW s \in Sectors, frames[i][s] # Far
               PROVE  Drawn(recent', frames[i][s], s, Depth + Len(frames) - i + Lag')
    BY <2>1 DEF Framed
  <2> DEFINE j == Depth + Len(frames) - i + Lag
             k == Depth + Len(frames) - i + Lag'
             e == newest[1].stood
  <2>3. Len(frames) \in Nat /\ i \in 1..Len(frames) /\ Len(frames) <= SectorDepth
    BY DEF Types, TypeOK
  <2>4. Depth \in Nat /\ Memory \in Nat \ {0} /\ SectorDepth \in Nat /\ Memory >= Depth + SectorDepth + MaxEvents
    BY ConstantsAreNat DEF Tuned
  <2>5. j \in Nat /\ k = j + 1 /\ j + 1 <= Memory
    BY <1>2, <2>2, <2>3, <2>4
  <2>6. Drawn(recent, frames[i][s], s, j)
    BY DEF Framed
  <2>7. /\ e \in SUBSET Places /\ recent \in Seq(SUBSET Places) /\ Len(recent) <= Memory
        /\ recent' \in Seq(SUBSET Places) /\ Slides(recent, e, Memory, recent')
    BY <1>7, ReadScanTypes DEF Types, Revolutions
  <2> HIDE DEF j, k, e
  <2>8. Drawn(recent', frames[i][s], s, j + 1)
    BY <2>4, <2>5, <2>6, <2>7, DrawnSlides
  <2> QED BY <2>5, <2>8 DEF k
<1>8. CASE Proximity
  <2>1. UNCHANGED <<recent, budget, scan>> /\ "proximity" \in fresh /\ "proximity" \notin fresh'
    BY <1>8 DEF Proximity, past, lidar
  <2>2. Lag <= Lag' + 1
    <3>1. Lag' = MaxEvents - budget
      BY <1>3, <2>1
    <3> QED BY <1>2, <1>3, <3>1
  <2> SUFFICES ASSUME NEW i \in DOMAIN frames', NEW s \in Sectors, frames'[i][s] # Far
               PROVE  Drawn(recent, frames'[i][s], s, Depth + Len(frames') - i + Lag')
    BY <2>1 DEF Framed
  <2>3. CASE i # Len(frames')
    BY <1>1, <1>2, <1>3, <1>8, <2>2, <2>3, FramesSlide
  <2>4. CASE i = Len(frames')
    <3> DEFINE k == Depth + Len(frames') - i + Lag'
    <3>1. frames'[i] = ScanToSectors(scan)
      BY <1>8, <2>4, ProximityTypes DEF Slides
    <3>2. k \in Int /\ k >= Depth
      <4>1. i \in Nat /\ Depth \in Nat
        <5>1. frames' \in Seq([Sectors -> 1..Far])
          BY <1>8, ProximityTypes
        <5> QED BY <5>1, ConstantsAreNat
      <4>2. k = Depth + i - i + Lag'
        BY <2>4
      <4>3. \A d, n, x \in Nat : d + n - n + x \in Int /\ d + n - n + x >= d
        OBVIOUS
      <4> HIDE DEF k
      <4> QED BY <1>3, <4>1, <4>2, <4>3
    <3> HIDE DEF k
    <3>3. Drawn(recent, ScanToSectors(scan)[s], s, k)
      BY <2>1, <3>1, <3>2, SectorStood
    <3> QED BY <3>1, <3>3 DEF k
  <2> QED BY <2>3, <2>4
<1>9. CASE UNCHANGED <<frames, recent, newest>> /\ ("proximity" \in fresh' <=> "proximity" \in fresh)
           /\ (budget' = budget \/ budget' = budget - 1)
  <2>1. budget' <= budget
    BY <1>2, <1>9
  <2>2. Lag <= Lag'
    <3>1. CASE "proximity" \in fresh /\ newest = <<>>
      <4>1. Lag = MaxEvents - budget + 1 /\ Lag' = MaxEvents - budget' + 1
        BY <1>2, <1>3, <1>9, <3>1
      <4>2. MaxEvents - budget + 1 <= MaxEvents - budget' + 1
        BY <1>2, <1>3, <1>4, <2>1
      <4> QED BY <4>1, <4>2
    <3>2. CASE ~("proximity" \in fresh /\ newest = <<>>)
      <4>1. Lag = MaxEvents - budget /\ Lag' = MaxEvents - budget'
        BY <1>2, <1>3, <1>9, <3>2
      <4>2. MaxEvents - budget <= MaxEvents - budget'
        BY <1>2, <1>3, <1>4, <2>1
      <4> QED BY <4>1, <4>2
    <3> QED BY <3>1, <3>2
  <2> QED BY <1>2, <1>3, <1>9, <2>2, FramesKeep
<1>10. \/ Revolve \/ Connect \/ ReadScan \/ Proximity
       \/ /\ UNCHANGED <<frames, recent, newest>> /\ ("proximity" \in fresh' <=> "proximity" \in fresh)
          /\ budget' = budget \/ budget' = budget - 1
  BY DEF Next, Work, Unplug, Replug, Plugs, Pause, Stop, Resume, Start, Sets, Spends, GiveUp, EnsureConnected,
         Obstacles, vars, driver, lidar, tracker, proximity, world, past
<1> QED BY <1>5, <1>6, <1>7, <1>8, <1>9, <1>10

LEMMA DistancesStep ==
    ASSUME Types, Types', Distances, Framed', Tuned, [Next]_vars
    PROVE  Distances'
<1>1. CASE Proximity
  <2>1. UNCHANGED recent /\ "proximity" \notin fresh'
    BY <1>1 DEF Proximity, past
  <2>2. /\ frames' \in Seq([Sectors -> 1..Far]) /\ frames' # <<>> /\ fc' = SectorUpdate(frames')
        /\ DOMAIN frames' = 1..Len(frames') /\ Len(frames') \in Nat
    <3>1. frames' \in Seq([Sectors -> 1..Far]) /\ frames' # <<>> /\ fc' = SectorUpdate(frames')
      BY <1>1, ProximityTypes
    <3> QED BY <3>1
  <2>3. Len(frames') <= SectorDepth
    BY DEF Types, TypeOK
  <2>4. Lag' \in Nat /\ Lag' <= MaxEvents
    <3>1. Lag' \in Nat /\ MaxEvents \in Nat /\ budget' \in 0..MaxEvents /\ Lag' = MaxEvents - budget'
      BY <2>1, LagIsNext
    <3>2. \A m \in Nat : \A b \in 0..m : m - b <= m
      OBVIOUS
    <3> QED BY <3>1, <3>2
  <2> SUFFICES ASSUME NEW s \in Sectors, fc'[s] # Far
               PROVE  \E p \in Remembered : /\ InSector(p, s) /\ p[2] <= fc'[s] + RangeTol
                                            /\ Len(recent) = Memory => fc'[s] <= p[2] + RangeTol
    BY <2>1 DEF Distances, Remembered
  <2>5. PICK i \in DOMAIN frames' : frames'[i][s] = fc'[s]
    BY <2>2, UpdateIs
  <2> DEFINE k == Depth + Len(frames') - i + Lag'
  <2>6. Drawn(recent, fc'[s], s, k)
    <3>1. Drawn(recent', frames'[i][s], s, k)
      BY <2>5 DEF Framed
    <3> QED BY <2>1, <2>5, <3>1
  <2>7. Memory \in Nat /\ k \in Int /\ k < Memory
    <3>1. Depth \in Nat /\ Memory \in Nat /\ SectorDepth \in Nat /\ MaxEvents \in Nat
          /\ Memory >= Depth + SectorDepth + MaxEvents
      BY ConstantsAreNat DEF Tuned
    <3>2. \A d, m, x, y, e, n, g \in Nat : m >= d + x + e /\ n <= x /\ y >= 1 /\ y <= n /\ g <= e =>
            d + n - y + g \in Int /\ d + n - y + g < m
      OBVIOUS
    <3>3. i \in Nat /\ i >= 1 /\ i <= Len(frames')
      BY <2>2
    <3> QED BY <2>2, <2>3, <2>4, <3>1, <3>2, <3>3
  <2> HIDE DEF k
  <2>8. PICK p \in Stood(recent, k) :
           InSector(p, s) /\ p[2] <= fc'[s] + RangeTol /\ (Len(recent) > k => fc'[s] <= p[2] + RangeTol)
    BY <2>6 DEF Drawn
  <2>9. p \in Remembered
    BY <2>8, StoodIsRemembered
  <2>10. Len(recent) = Memory => Len(recent) > k
    BY <2>7
  <2> QED BY <2>8, <2>9, <2>10
<1>2. CASE ReadScan
  BY <1>2 DEF ReadScan, Distances
<1>3. CASE UNCHANGED <<fc, recent>> /\ ("proximity" \in fresh' <=> "proximity" \in fresh)
  BY <1>3 DEF Distances, Remembered
<1>4. \/ Proximity \/ ReadScan
      \/ UNCHANGED <<fc, recent>> /\ ("proximity" \in fresh' <=> "proximity" \in fresh)
  BY DEF Next, Work, Unplug, Replug, Plugs, Pause, Stop, Resume, Start, Sets, GiveUp, EnsureConnected,
         Connect, Obstacles, Revolve, vars, driver, lidar, tracker, proximity, world, past
<1> QED BY <1>1, <1>2, <1>3, <1>4

-----------------------------------------------------------------------------
(* Together.                                                               *)

LEMMA InvInit == Tuned /\ Init => Inv
<1> SUFFICES ASSUME Tuned, Init PROVE Inv
  OBVIOUS
<1>1. /\ history = <<>> /\ recent = <<>> /\ tracks = <<>> /\ frames = <<>> /\ newest = <<>>
      /\ obstacles = {} /\ fresh = {} /\ fc = [s \in Sectors |-> Far]
  BY DEF Init
<1>2. Types
  BY TypesInit
<1>3. Gated
  <2>1. Len(recent) = 0 /\ Len(history) = 0 /\ 0 < Depth /\ DOMAIN history = {}
    BY <1>1, ConstantsAreNat
  <2>2. Strayed = {}
    BY <2>1 DEF Strayed
  <2> QED BY <1>1, <2>1, <2>2 DEF Gated
<1>4. Published
  <2>1. ~(Len(recent) > Depth)
    BY <1>1, ConstantsAreNat
  <2> QED BY <1>1, <2>1 DEF Published
<1>5. Followed /\ Held /\ Framed
  <2>1. DOMAIN tracks = {} /\ DOMAIN frames = {}
    BY <1>1
  <2> QED BY <2>1 DEF Followed, Held, Framed
<1>6. Steered /\ Distances
  BY <1>1 DEF Steered, Distances
<1> QED BY <1>2, <1>3, <1>4, <1>5, <1>6 DEF Inv

LEMMA InvStep == Tuned /\ Inv /\ [Next]_vars => Inv'
<1> SUFFICES ASSUME Tuned, Inv, [Next]_vars PROVE Inv'
  OBVIOUS
<1>1. Types /\ Gated /\ Published /\ Followed /\ Held /\ Steered /\ Framed /\ Distances
  BY DEF Inv
<1>2. Types'
  BY <1>1, TypesStep
<1>3. Gated' /\ Published' /\ Followed'
  BY <1>1, GatedStep, PublishedStep, FollowedStep
<1>4. Held' /\ Steered'
  BY <1>1, HeldStep, SteeredStep
<1>5. Framed'
  BY <1>1, FramedStep
<1>6. Distances'
  BY <1>1, <1>2, <1>5, DistancesStep
<1> QED BY <1>2, <1>3, <1>4, <1>5, <1>6 DEF Inv

\* However the LiDAR, its cable, the operator, the world and the threads take their
\* turns: with strays rarer than the gate is deep, no stray is published as an obstacle,
\* tracked or coasted into one, and none draws in a distance sent to the flight controller.
THEOREM StraysNeverSteer == Tuned => (Spec => []OnlyObjectsSteer)
<1> SUFFICES ASSUME Tuned PROVE Spec => []OnlyObjectsSteer
  OBVIOUS
<1>1. Init => Inv
  BY InvInit
<1>2. Inv /\ [Next]_vars => Inv'
  BY InvStep
<1> QED BY <1>1, <1>2, InvImplies, PTL DEF Spec

=============================================================================
