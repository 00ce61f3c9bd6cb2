--------------------------- MODULE RecorderProofs ---------------------------
(***************************************************************************)
(* What the recorder keeps, for any number of recordings, crashes, failing *)
(* encoders and disk writes.                                               *)
(*                                                                         *)
(* Book is what holds of the recordings by number.  A number is given out  *)
(* once (Numbered, Bounded), a recording is in the hands of one thread at  *)
(* a time (Handed: the writer, a call of stop or of set_armed, its         *)
(* encoder), and what is owed is on the disk and no encoder has it.        *)
(*                                                                         *)
(* Footage is what holds of their frames as long as stop has the writer    *)
(* joined before another recording starts: the number that stop works on   *)
(* is the newest, every job has its frames, an encoder that retires a job  *)
(* leaves a clip at least as new, nothing newer than the newest recording  *)
(* kept is the floor below which clips and jobs are thrown away, and a     *)
(* clip as new as that recording was written by its own render alone: it   *)
(* was promoted since, for what is being recorded is newer than the clip.  *)
(***************************************************************************)
EXTENDS Recorder, FiniteSetTheorems, WellFoundedInduction, TLAPS

Numbers == {0} \cup Seqs
Doing == {d \in [at : {"idle", "starting", "stopping", "finalising", "writing", "returning", "rendering"},
                 seq : Numbers, why : {"none", "armed", "manual", "disarmed", "ended"}] :
             d.at = "starting" => d.why \in {"armed", "manual"}}
Encoders == [at : Points, quick : BOOLEAN]

\* TypeOK in parts.
ScalarsTyped ==
    /\ state \in {"idle", "ready", "pending", "recording", "encoding", "error"}
    /\ reason \in {"none", "armed", "manual"}
    /\ {whole, armSeen, recArmed, preempt, wasArmed, ended, armed} \subseteq BOOLEAN
    /\ worth \subseteq Seqs /\ tmp \subseteq Seqs
NumbersTyped == {queue, seq, floor, pending, proc, clip, seqFile, finished} \subseteq Numbers
ThreadTyped == thread \in [Threads -> Doing]
EncTyped == enc \in [Seqs -> Encoders]
DiskTyped == src \in [Seqs -> -1..1] /\ job \in [Seqs -> {"none", "owed", "quick"}]
CountsTyped == starts \in 0..MaxStarts /\ crashes \in 0..MaxCrashes /\ faults \in 0..MaxFaults

\* Encoders that have begun: a thread is busy from its first statement.
Begun(e) == e.at \notin {"idle", "born"}
BusyCounts == busy = Cardinality({n \in Seqs : enc[n].at \notin {"idle", "born"}})

Typed == /\ ScalarsTyped /\ NumbersTyped /\ ThreadTyped /\ EncTyped /\ DiskTyped /\ CountsTyped
         /\ BusyCounts

\* Whatever is about to take a number has been counted as a start, or as the
\* crash after which an armed aircraft is seen arming once more.
Starting(t) == IF thread[t].at = "starting" THEN 1 ELSE 0
Edge == IF armed /\ ~wasArmed THEN 1 ELSE 0
Numbered ==
    \A x \in {seq, clip, seqFile} : x + Starting("hub") + Starting("op") + Edge <= starts + crashes

\* Nothing is known of numbers that were not given out.
Known(n) == enc[n].at # "idle" \/ job[n] # "none" \/ src[n] # -1
Bounded == /\ floor <= seq /\ pending <= seq /\ \A t \in Threads : thread[t].seq <= seq
           /\ \A n \in Seqs : Known(n) => n <= seq

\* A recording is in one pair of hands.
Works(t) == thread[t].at \in {"finalising", "writing", "rendering"}
Handed ==
    /\ state = "recording" => queue # 0
    /\ queue # 0 => queue = seq /\ enc[queue].at = "idle" /\ job[queue] = "none"
    /\ \A t \in Threads : Works(t) =>
          /\ thread[t].seq \in Seqs \ {queue, pending}
          /\ enc[thread[t].seq].at = "idle"
          /\ thread[t].at # "rendering" => job[thread[t].seq] = "none"
    /\ \A t, u \in Threads : Works(t) /\ Works(u) /\ thread[t].seq = thread[u].seq => t = u
    /\ pending # 0 => job[pending] # "none" /\ enc[pending].at \in {"idle", "leave"}

Book == Typed /\ Numbered /\ Bounded /\ Handed

LEMMA TypedIsTypeOK == Typed => TypeOK
BY DEF Typed, ScalarsTyped, NumbersTyped, ThreadTyped, EncTyped, DiskTyped, CountsTyped, BusyCounts,
       TypeOK, Numbers, Doing, Encoders

-----------------------------------------------------------------------------
(* Numbers.                                                                *)

LEMMA BoundsAreNat == MaxStarts \in Nat /\ MaxCrashes \in Nat /\ MaxFaults \in Nat
BY RecorderAssumption

LEMMA SeqsAreNat ==
    /\ Numbers \subseteq Nat /\ Seqs \subseteq Nat /\ 0 \notin Seqs /\ 0 \in Numbers
    /\ \A n \in Nat : n # 0 /\ n <= MaxStarts + MaxCrashes => n \in Seqs
<1>1. MaxStarts + MaxCrashes \in Nat
  BY BoundsAreNat
<1> QED BY <1>1 DEF Numbers, Seqs

\* The greatest of a set of numbers, when one of them is known to be it.
LEMMA MaxIs ==
    ASSUME NEW S \in SUBSET Int, NEW m \in S, \A x \in S : x <= m
    PROVE  Max(S) = m
<1>1. m \in S /\ \A x \in S : m >= x
  OBVIOUS
<1>2. \A y \in S : (\A x \in S : y >= x) => y = m
  OBVIOUS
<1> QED BY <1>1, <1>2 DEF Max

LEMMA MaxOfPair ==
    ASSUME NEW a \in Int, NEW b \in Int
    PROVE  Max({a, b}) = IF a >= b THEN a ELSE b
<1>1. CASE a >= b
  BY <1>1, MaxIs
<1>2. CASE ~(a >= b)
  BY <1>2, MaxIs
<1> QED BY <1>1, <1>2

\* A set of numbers of recordings that holds one has a greatest.
LEMMA GreatestSeq ==
    ASSUME NEW T \in SUBSET Seqs, T # {}
    PROVE  Max(T) \in T /\ \A n \in T : n <= Max(T)
<1> DEFINE R == {ss \in Nat \X Nat : ss[1] < ss[2]}
           top == MaxStarts + MaxCrashes
           U == {top - n : n \in T}
<1>1. IsWellFoundedOn(R, Nat)
  BY NatLessThanWellFounded DEF OpToRel
<1>2. top \in Nat /\ \A n \in T : n \in Nat /\ n <= top
  BY BoundsAreNat DEF Seqs
<1>3. U \in SUBSET Nat /\ U # {}
  BY <1>2
<1>4. PICK x \in U : \A y \in U : <<y, x>> \notin R
  <2> HIDE DEF R, U
  <2> QED BY <1>1, <1>3, WFMin
<1>5. PICK m \in T : x = top - m
  OBVIOUS
<1>6. ASSUME NEW n \in T PROVE n <= m
  <2>1. top - n \in U
    OBVIOUS
  <2>2. <<top - n, x>> \notin R
    <3> HIDE DEF R, U
    <3> QED BY <1>4, <2>1
  <2>3. ~(top - n < x)
    BY <1>2, <1>3, <2>1, <2>2
  <2> QED BY <1>2, <1>5, <2>3
<1>7. Max(T) = m
  BY <1>2, <1>6, MaxIs
<1> QED BY <1>6, <1>7

-----------------------------------------------------------------------------
(* The count of busy encoders.                                             *)

LEMMA BegunAreFinite == IsFiniteSet({n \in Seqs : enc[n].at \notin {"idle", "born"}})
<1>1. IsFiniteSet(Seqs)
  BY BoundsAreNat, FS_Interval DEF Seqs
<1> QED BY <1>1, FS_Subset

\* Nobody is busy exactly when no encoder has begun.
LEMMA NobodyBusy ==
    ASSUME BusyCounts, busy = 0, NEW n \in Seqs
    PROVE  enc[n].at \in {"idle", "born"}
<1>1. {m \in Seqs : enc[m].at \notin {"idle", "born"}} = {}
  BY BegunAreFinite, FS_EmptySet DEF BusyCounts
<1> QED BY <1>1

LEMMA BusyStays ==
    ASSUME BusyCounts, busy' = busy, \A m \in Seqs : Begun(enc'[m]) <=> Begun(enc[m])
    PROVE  BusyCounts'
<1>1. {m \in Seqs : enc'[m].at \notin {"idle", "born"}} = {m \in Seqs : enc[m].at \notin {"idle", "born"}}
  BY DEF Begun
<1> QED BY <1>1 DEF BusyCounts

LEMMA BusyRises ==
    ASSUME BusyCounts, EncTyped, NEW n \in Seqs, NEW e, ~Begun(enc[n]), Begun(e),
           enc' = [enc EXCEPT ![n] = e], busy' = busy + 1
    PROVE  BusyCounts'
<1> DEFINE S == {m \in Seqs : enc[m].at \notin {"idle", "born"}}
<1>1. {m \in Seqs : enc'[m].at \notin {"idle", "born"}} = S \cup {n}
  BY DEF EncTyped, Begun
<1>2. n \notin S
  BY DEF Begun
<1>3. IsFiniteSet(S)
  BY BegunAreFinite
<1> HIDE DEF S
<1>4. Cardinality(S \cup {n}) = Cardinality(S) + 1
  BY <1>2, <1>3, FS_AddElement
<1>5. busy = Cardinality(S)
  BY DEF BusyCounts, S
<1> QED BY <1>1, <1>4, <1>5 DEF BusyCounts

LEMMA BusyFalls ==
    ASSUME BusyCounts, EncTyped, NEW n \in Seqs, NEW e, Begun(enc[n]), ~Begun(e),
           enc' = [enc EXCEPT ![n] = e], busy' = busy - 1
    PROVE  BusyCounts'
<1> DEFINE S == {m \in Seqs : enc[m].at \notin {"idle", "born"}}
<1>1. {m \in Seqs : enc'[m].at \notin {"idle", "born"}} = S \ {n}
  BY DEF EncTyped, Begun
<1>2. n \in S
  BY DEF Begun
<1>3. IsFiniteSet(S)
  BY BegunAreFinite
<1> HIDE DEF S
<1>4. Cardinality(S \ {n}) = Cardinality(S) - 1
  BY <1>2, <1>3, FS_RemoveElement
<1>5. busy = Cardinality(S)
  BY DEF BusyCounts, S
<1> QED BY <1>1, <1>4, <1>5 DEF BusyCounts

-----------------------------------------------------------------------------
(* An encoder.  It moves on by itself: what it touches of the book is its  *)
(* own entry, which no thread has in hand.                                 *)

LEMMA EncoderFrame ==
    ASSUME Book, NEW n \in Seqs, NEW e \in Encoders, enc[n].at # "idle",
           enc' = [enc EXCEPT ![n] = e],
           UNCHANGED <<thread, seq, queue, seqFile, floor, wasArmed, armed, starts, crashes>>,
           clip' \in {clip, n}, state' = "recording" => state = "recording",
           \A m \in Seqs \ {n} : job'[m] = job[m] /\ src'[m] = src[m],
           pending' = pending \/ (pending' = n /\ job'[n] # "none" /\ e.at = "leave"),
           pending = n => e.at \in {"idle", "leave"} /\ job'[n] = job[n]
    PROVE  Numbered' /\ Bounded' /\ Handed'
<1> USE DEF Book
<1>1. n <= seq /\ n \in Nat
  BY SeqsAreNat DEF Bounded, Known
<1>2. \A m \in Seqs \ {n} : enc'[m] = enc[m]
  BY DEF Typed, EncTyped
<1>3. enc'[n] = e
  BY DEF Typed, EncTyped
<1>4. {seq, clip, seqFile, pending, queue, floor} \subseteq Numbers
  BY DEF Typed, NumbersTyped
<1>5. Numbered'
  <2>1. starts \in Int /\ crashes \in Int
    BY BoundsAreNat DEF Typed, CountsTyped
  <2>2. Starting("hub") \in Int /\ Starting("op") \in Int /\ Edge \in Int
    BY DEF Starting, Edge
  <2>3. Starting("hub")' = Starting("hub") /\ Starting("op")' = Starting("op") /\ Edge' = Edge
    BY DEF Starting, Edge
  <2>4. \A x \in {seq, clip, seqFile, n} : x + Starting("hub") + Starting("op") + Edge <= starts + crashes
    <3>1. seq \in Numbers
      BY <1>4
    <3>2. seq \in Int
      BY <3>1, SeqsAreNat
    <3> QED BY <1>1, <2>1, <2>2, <3>2 DEF Numbered
  <2>5. {seq', clip', seqFile'} \subseteq {seq, clip, seqFile, n}
    OBVIOUS
  <2> QED BY <2>3, <2>4, <2>5 DEF Numbered
<1>6. Bounded'
  <2>1. floor' <= seq' /\ pending' <= seq' /\ \A t \in Threads : thread'[t].seq <= seq'
    BY <1>1 DEF Bounded
  <2>2. ASSUME NEW m \in Seqs, Known(m)' PROVE m <= seq'
    <3>1. CASE m = n
      BY <1>1, <3>1
    <3>2. CASE m # n
      BY <1>2, <2>2, <3>2 DEF Bounded, Known
    <3> QED BY <3>1, <3>2
  <2> QED BY <2>1, <2>2 DEF Bounded
<1>7. queue # n /\ \A t \in Threads : Works(t) => thread[t].seq # n
  BY SeqsAreNat DEF Handed
<1>8. Handed'
  <2>1. state' = "recording" => queue' # 0
    BY DEF Handed
  <2>2. queue' # 0 => queue' = seq' /\ enc'[queue'].at = "idle" /\ job'[queue'] = "none"
    <3>1. queue # 0 => queue \in Seqs \ {n}
      BY <1>4, <1>7 DEF Numbers
    <3> QED BY <1>2, <3>1 DEF Handed
  <2>3. ASSUME NEW t \in Threads, Works(t)'
        PROVE  /\ thread'[t].seq \in Seqs \ {queue', pending'}
               /\ enc'[thread'[t].seq].at = "idle"
               /\ thread'[t].at # "rendering" => job'[thread'[t].seq] = "none"
    <3>1. Works(t) /\ thread'[t] = thread[t]
      BY <2>3 DEF Works
    <3>2. thread[t].seq \in Seqs \ {n}
      BY <1>7, <3>1 DEF Handed
    <3> QED BY <1>2, <3>1, <3>2 DEF Handed
  <2>4. \A t, u \in Threads : Works(t)' /\ Works(u)' /\ thread'[t].seq = thread'[u].seq => t = u
    BY DEF Handed, Works
  <2>5. pending' # 0 => job'[pending'] # "none" /\ enc'[pending'].at \in {"idle", "leave"}
    <3>1. CASE pending' = pending /\ pending # n
      <4>1. pending # 0 => pending \in Seqs \ {n}
        BY <1>4, <3>1 DEF Numbers
      <4> QED BY <1>2, <3>1, <4>1 DEF Handed
    <3>2. CASE pending' = pending /\ pending = n
      <4>1. n # 0
        BY SeqsAreNat
      <4> QED BY <1>3, <3>2, <4>1 DEF Handed
    <3>3. CASE pending' = n /\ job'[n] # "none" /\ e.at = "leave"
      BY <1>3, <3>3
    <3> QED BY <3>1, <3>2, <3>3
  <2> QED BY <2>1, <2>2, <2>3, <2>4, <2>5 DEF Handed
<1> QED BY <1>5, <1>6, <1>8

\* What is owed is with no encoder that has not left it.
LEMMA OwedIsFree ==
    ASSUME Book, NEW n \in Seqs, pending = n
    PROVE  enc[n].at \in {"idle", "leave"}
BY SeqsAreNat DEF Book, Handed

LEMMA MovesTo ==
    ASSUME Book, NEW n \in Seqs, NEW point \in Points, Move(n, point)
    PROVE  \E e \in Encoders : enc' = [enc EXCEPT ![n] = e] /\ e.at = point /\ e.quick = enc[n].quick
<1>1. enc[n] \in Encoders
  BY DEF Book, Typed, EncTyped
<1>2. [enc[n] EXCEPT !.at = point] \in Encoders
  BY <1>1 DEF Encoders
<1>3. enc' = [enc EXCEPT ![n] = [enc[n] EXCEPT !.at = point]]
  BY DEF Move
<1>4. [enc[n] EXCEPT !.at = point].at = point /\ [enc[n] EXCEPT !.at = point].quick = enc[n].quick
  BY <1>1 DEF Encoders
<1> QED BY <1>2, <1>3, <1>4

\* A step between two points of the work, that leaves jobs and frames alone.
LEMMA EncoderMoves ==
    ASSUME Book, NEW n \in Seqs, NEW point \in Points, Move(n, point),
           enc[n].at \notin {"idle", "born", "leave"}, point \notin {"idle", "born"},
           UNCHANGED <<thread, seq, queue, seqFile, floor, wasArmed, armed, starts, crashes,
                       job, src, pending, reason, worth, armSeen, recArmed, busy, preempt, ended>>,
           clip' \in {clip, n}, proc' \in {0, proc, n}, faults' \in 0..MaxFaults, tmp' \subseteq Seqs,
           whole' \in BOOLEAN, finished' \in {finished, 0}, state' \in {state, "ready"}
    PROVE  Book'
<1> USE DEF Book
<1>1. PICK e \in Encoders : enc' = [enc EXCEPT ![n] = e] /\ e.at = point
  BY MovesTo
<1>2. pending # n
  BY OwedIsFree
<1>3. Numbered' /\ Bounded' /\ Handed'
  BY <1>1, <1>2, EncoderFrame
<1>4. BusyCounts'
  <2>1. \A m \in Seqs : Begun(enc'[m]) <=> Begun(enc[m])
    BY <1>1 DEF Begun, Typed, EncTyped
  <2> QED BY <2>1, BusyStays DEF Typed
<1>5. NumbersTyped'
  <2>1. n \in Numbers /\ 0 \in Numbers
    BY DEF Numbers
  <2> QED BY <2>1 DEF Typed, NumbersTyped
<1>6. ScalarsTyped'
  BY DEF Typed, ScalarsTyped
<1>7. EncTyped'
  BY <1>1 DEF Typed, EncTyped
<1>8. ThreadTyped' /\ DiskTyped' /\ CountsTyped'
  BY DEF Typed, ThreadTyped, DiskTyped, CountsTyped
<1> QED BY <1>3, <1>4, <1>5, <1>6, <1>7, <1>8 DEF Typed

LEMMA EncodeBeginsKeeps ==
    ASSUME Book, NEW n \in Seqs, EncodeBegins(n)
    PROVE  Book'
<1> USE DEF Book
<1>1. PICK stage \in {"plain", "quick", "hd"} : ProcessStarts(n, stage)
  BY DEF EncodeBegins
<1>2. PICK e \in Encoders : enc' = [enc EXCEPT ![n] = e] /\ e.at = stage
  <2>1. stage \in Points
    BY DEF Points
  <2> QED BY <1>1, <2>1, MovesTo DEF ProcessStarts
<1>3. enc[n].at = "born"
  BY DEF EncodeBegins, At
<1>4. pending # n
  BY <1>3, OwedIsFree
<1>5. UNCHANGED <<thread, seq, queue, seqFile, floor, wasArmed, armed, starts, crashes, job, src,
                  pending, reason, worth, armSeen, recArmed, preempt, ended, finished, clip, whole, state, faults>>
  BY DEF EncodeBegins, now, owed, arm, hub, disk, bounds
<1>6. Numbered' /\ Bounded' /\ Handed'
  BY <1>2, <1>3, <1>4, <1>5, EncoderFrame
<1>7. BusyCounts'
  <2>1. ~Begun(enc[n]) /\ Begun(e)
    BY <1>2, <1>3 DEF Begun
  <2>2. busy' = busy + 1
    BY DEF EncodeBegins
  <2> QED BY <1>2, <2>1, <2>2, BusyRises DEF Typed
<1>8. NumbersTyped'
  <2>1. n \in Numbers
    BY DEF Numbers
  <2>2. proc' \in {proc, n}
    BY <1>1 DEF ProcessStarts
  <2> QED BY <1>5, <2>1, <2>2 DEF Typed, NumbersTyped
<1>9. ScalarsTyped'
  <2>1. tmp' \subseteq Seqs
    BY <1>1 DEF ProcessStarts, Writing
  <2> QED BY <1>5, <2>1 DEF Typed, ScalarsTyped
<1>10. EncTyped' /\ ThreadTyped' /\ DiskTyped' /\ CountsTyped'
  BY <1>2, <1>5 DEF Typed, EncTyped, ThreadTyped, DiskTyped, CountsTyped
<1> QED BY <1>6, <1>7, <1>8, <1>9, <1>10 DEF Typed

LEMMA NextStageKeeps ==
    ASSUME Book, NEW n \in Seqs, NextStage(n)
    PROVE  Book'
<1>1. PICK stage \in {"hd", "plain"} : ProcessStarts(n, stage)
  BY DEF NextStage
<1>2. stage \in Points
  BY DEF Points
<1>3. Move(n, stage) /\ proc' \in {proc, n} /\ tmp' \subseteq Seqs
  BY <1>1 DEF ProcessStarts, Writing
<1>4. enc[n].at \notin {"idle", "born", "leave"}
  BY DEF NextStage
<1>5. UNCHANGED <<thread, seq, queue, seqFile, floor, wasArmed, armed, starts, crashes, job, src,
                  pending, reason, worth, armSeen, recArmed, busy, preempt, ended, finished, clip, whole,
                  state, faults>>
  BY DEF NextStage, now, owed, arm, hub, disk, bounds
<1>6. faults' \in 0..MaxFaults /\ whole' \in BOOLEAN
  BY <1>5 DEF Book, Typed, CountsTyped, ScalarsTyped
<1> QED BY <1>2, <1>3, <1>4, <1>5, <1>6, EncoderMoves

LEMMA StageKeeps ==
    ASSUME Book, NEW n \in Seqs, QuickReturns(n) \/ RenderReturns(n) \/ StreamReturns(n)
    PROVE  Book'
<1>1. ASSUME NEW running \in {"quick", "hd", "plain"}, NEW dead \in {"quickDead", "hdDead", "none"},
             NEW ok \in {"quickReady", "ready"}, NEW failure \in {"toHd", "settle", "toPlain", "broken"},
             StageReturns(n, running, dead, ok, failure)
      PROVE  Book'
  <2>1. enc[n].at \notin {"idle", "born", "leave"}
    BY <1>1 DEF StageReturns
  <2>2. PICK point \in {"deferred", ok, failure} : Move(n, point)
    BY <1>1 DEF StageReturns
  <2>3. point \in Points /\ point \notin {"idle", "born"}
    BY DEF Points
  <2>4. faults' \in 0..MaxFaults
    <3>1. faults \in 0..MaxFaults /\ MaxFaults \in Nat
      BY BoundsAreNat DEF Book, Typed, CountsTyped
    <3>2. faults' = faults \/ (faults < MaxFaults /\ faults' = faults + 1)
      BY <1>1 DEF StageReturns, Fails
    <3> QED BY <3>1, <3>2
  <2>5. tmp' \subseteq Seqs /\ proc' \in {0, proc, n} /\ whole' \in BOOLEAN
    <3>1. tmp \subseteq Seqs /\ whole \in BOOLEAN
      BY DEF Book, Typed, ScalarsTyped
    <3> QED BY <1>1, <3>1 DEF StageReturns
  <2>6. UNCHANGED <<thread, seq, queue, seqFile, floor, wasArmed, armed, starts, crashes, job, src,
                    pending, reason, worth, armSeen, recArmed, busy, preempt, ended, finished, clip, state>>
    BY <1>1 DEF StageReturns, now, owed, arm, hub, disk
  <2> QED BY <2>1, <2>2, <2>3, <2>4, <2>5, <2>6, EncoderMoves
<1>2. CASE QuickReturns(n)
  BY <1>1, <1>2 DEF QuickReturns
<1>3. CASE RenderReturns(n)
  BY <1>1, <1>3 DEF RenderReturns
<1>4. CASE StreamReturns(n)
  BY <1>1, <1>4 DEF StreamReturns
<1> QED BY <1>2, <1>3, <1>4

LEMMA PromoteKeeps ==
    ASSUME Book, NEW n \in Seqs, PromoteQuick(n) \/ Promote(n)
    PROVE  Book'
<1>1. enc[n].at \notin {"idle", "born", "leave"}
  BY DEF PromoteQuick, Promote, At
<1>2. PICK failure \in {"toHd", "broken"}, newer \in {"mark", "settle"} : Promoting(n, failure, "settle", newer)
  BY DEF PromoteQuick, Promote
<1>3. PICK point \in {"toHd", "settle", "mark", "broken"} : Move(n, point)
  BY <1>2 DEF Promoting
<1>4. point \in Points
  BY DEF Points
<1>5. UNCHANGED <<thread, seq, queue, seqFile, floor, wasArmed, armed, starts, crashes, job, src,
                  pending, reason, worth, armSeen, recArmed, busy, preempt, ended, proc, faults>>
  BY <1>2 DEF Promoting, owed, arm, hub, disk, bounds
<1>6. /\ clip' \in {clip, n} /\ tmp' \in {tmp, {}} /\ whole' \in {whole, tmp = {n}}
      /\ finished' \in {finished, 0} /\ state' \in {state, "ready"}
  BY <1>2 DEF Promoting, Promoted, GivenUp
<1>7. tmp' \subseteq Seqs /\ whole' \in BOOLEAN
  BY <1>6 DEF Book, Typed, ScalarsTyped
<1>8. faults' \in 0..MaxFaults
  BY <1>5 DEF Book, Typed, CountsTyped
<1> QED BY <1>1, <1>3, <1>4, <1>5, <1>6, <1>7, <1>8, EncoderMoves

\* A step of an encoder that leaves nothing but its own entry, its job and its
\* frames behind it.
LEMMA EncoderCloses ==
    ASSUME Book, NEW n \in Seqs, NEW e \in Encoders, enc' = [enc EXCEPT ![n] = e],
           enc[n].at \notin {"idle", "born"}, enc[n].at = "leave" => e.at = "idle",
           DiskTyped', BusyCounts', \A m \in Seqs \ {n} : job'[m] = job[m] /\ src'[m] = src[m],
           pending' = pending \/ (pending' = n /\ job'[n] # "none" /\ e.at = "leave"),
           enc[n].at = "leave" => job' = job,
           UNCHANGED <<thread, seq, queue, seqFile, floor, wasArmed, armed, starts, crashes, faults,
                       reason, worth, armSeen, recArmed, preempt, ended, clip, whole, proc>>,
           finished' \in {finished, 0}, tmp' \in {tmp, {}}, state' \in {state, "ready", "error"}
    PROVE  Book'
<1> USE DEF Book
<1>1. pending = n => enc[n].at = "leave"
  BY OwedIsFree
<1>2. Numbered' /\ Bounded' /\ Handed'
  BY <1>1, EncoderFrame
<1>3. NumbersTyped'
  <2>1. n \in Numbers /\ 0 \in Numbers
    BY DEF Numbers
  <2> QED BY <2>1 DEF Typed, NumbersTyped
<1>4. ScalarsTyped'
  BY DEF Typed, ScalarsTyped
<1>5. EncTyped' /\ ThreadTyped' /\ CountsTyped'
  BY DEF Typed, EncTyped, ThreadTyped, CountsTyped
<1> QED BY <1>2, <1>3, <1>4, <1>5 DEF Typed

\* A job is only written, and frames only removed, for the encoder's own number.
LEMMA MarkKeeps ==
    ASSUME Book, NEW n \in Seqs, MarkQuickDone(n)
    PROVE  Book'
<1> USE DEF Book
<1> DEFINE e == [at |-> "toHd", quick |-> TRUE]
<1>1. e \in Encoders /\ enc' = [enc EXCEPT ![n] = e] /\ enc[n].at = "mark"
  BY DEF MarkQuickDone, At, Encoders, Points
<1>2. UNCHANGED <<thread, seq, queue, seqFile, floor, wasArmed, armed, starts, crashes, faults, src, pending,
                  busy, reason, worth, armSeen, recArmed, preempt, ended, clip, whole, proc, finished, tmp,
                  state>>
  BY DEF MarkQuickDone, now, owed, arm, hub, kept, bounds
<1>3. DiskTyped' /\ \A m \in Seqs \ {n} : job'[m] = job[m]
  BY <1>2 DEF MarkQuickDone, Typed, DiskTyped
<1>4. BusyCounts'
  <2>1. \A m \in Seqs : Begun(enc'[m]) <=> Begun(enc[m])
    BY <1>1 DEF Begun, Typed, EncTyped
  <2> QED BY <1>2, <2>1, BusyStays DEF Typed
<1> HIDE DEF e
<1> QED BY <1>1, <1>2, <1>3, <1>4, EncoderCloses

LEMMA RetireKeeps ==
    ASSUME Book, NEW n \in Seqs, RetireJob(n)
    PROVE  Book'
<1> USE DEF Book
<1>1. enc[n].at = "settle" /\ job' = [job EXCEPT ![n] = "none"]
  BY DEF RetireJob, At
<1>2. PICK e \in Encoders : enc' = [enc EXCEPT ![n] = e] /\ e.at = "drop"
  BY MovesTo DEF RetireJob, Points
<1>3. UNCHANGED <<thread, seq, queue, seqFile, floor, wasArmed, armed, starts, crashes, faults, src, pending,
                  busy, reason, worth, armSeen, recArmed, preempt, ended, clip, whole, proc, finished, tmp,
                  state>>
  BY DEF RetireJob, now, owed, arm, hub, kept, bounds
<1>4. DiskTyped' /\ \A m \in Seqs \ {n} : job'[m] = job[m]
  BY <1>1, <1>3 DEF Typed, DiskTyped
<1>5. BusyCounts'
  <2>1. \A m \in Seqs : Begun(enc'[m]) <=> Begun(enc[m])
    BY <1>1, <1>2 DEF Begun, Typed, EncTyped
  <2> QED BY <1>3, <2>1, BusyStays DEF Typed
<1> QED BY <1>1, <1>2, <1>3, <1>4, <1>5, EncoderCloses

LEMMA LeaveKeeps ==
    ASSUME Book, NEW n \in Seqs, DropSource(n) \/ Leaves(n)
    PROVE  Book'
<1> USE DEF Book
<1>1. Leave(n) /\ enc[n].at \in {"drop", "leave"}
  BY DEF DropSource, Leaves, At
<1>2. NoEncoder \in Encoders /\ NoEncoder.at = "idle" /\ enc' = [enc EXCEPT ![n] = NoEncoder]
  BY <1>1 DEF Leave, NoEncoder, Encoders, Points
<1>3. UNCHANGED <<thread, seq, queue, floor, wasArmed, armed, starts, crashes, faults, pending,
                  reason, worth, armSeen, recArmed, preempt, ended, clip, whole, proc, finished, tmp>>
  BY <1>1 DEF Leave, owed, arm, hub, kept, bounds
<1>4. UNCHANGED <<job, seqFile>> /\ (src' = src \/ src' = [src EXCEPT ![n] = -1])
  BY DEF DropSource, Leaves, disk
<1>5. DiskTyped' /\ \A m \in Seqs \ {n} : job'[m] = job[m] /\ src'[m] = src[m]
  BY <1>4 DEF Typed, DiskTyped
<1>6. BusyCounts'
  <2>1. Begun(enc[n]) /\ ~Begun(NoEncoder)
    BY <1>1, <1>2 DEF Begun
  <2>2. busy' = busy - 1
    BY <1>1 DEF Leave
  <2> QED BY <1>2, <2>1, <2>2, BusyFalls DEF Typed
<1>7. state' \in {state, "ready"}
  BY <1>1 DEF Leave
<1> QED BY <1>1, <1>2, <1>3, <1>4, <1>5, <1>6, <1>7, EncoderCloses

LEMMA DeferKeeps ==
    ASSUME Book, NEW n \in Seqs, Defer(n)
    PROVE  Book'
<1> USE DEF Book
<1>1. enc[n].at = "deferred"
  BY DEF Defer, At
<1>2. PICK e \in Encoders : enc' = [enc EXCEPT ![n] = e] /\ e.at = "leave"
  BY MovesTo DEF Defer, Points
<1>3. UNCHANGED <<thread, seq, queue, seqFile, floor, wasArmed, armed, starts, crashes, faults,
                  busy, reason, worth, armSeen, recArmed, preempt, ended, clip, whole, proc, finished, state>>
      /\ tmp' = {}
  BY DEF Defer, now, arm, hub, bounds
<1>4. \/ UNCHANGED <<pending, job, src>>
      \/ Discard({n}) /\ pending' = pending
      \/ pending' = n /\ job'[n] # "none" /\ UNCHANGED <<job, src>>
  BY DEF Defer
<1>5. DiskTyped' /\ \A m \in Seqs \ {n} : job'[m] = job[m] /\ src'[m] = src[m]
  BY <1>4 DEF Typed, DiskTyped, Discard
<1>6. BusyCounts'
  <2>1. \A m \in Seqs : Begun(enc'[m]) <=> Begun(enc[m])
    BY <1>1, <1>2 DEF Begun, Typed, EncTyped
  <2> QED BY <1>3, <2>1, BusyStays DEF Typed
<1> QED BY <1>1, <1>2, <1>3, <1>4, <1>5, <1>6, EncoderCloses

LEMMA SalvageKeeps ==
    ASSUME Book, NEW n \in Seqs, Salvage(n)
    PROVE  Book'
<1> USE DEF Book
<1>1. enc[n].at = "broken"
  BY DEF Salvage, At
<1>2. PICK e \in Encoders : enc' = [enc EXCEPT ![n] = e] /\ e.at = "leave"
  BY MovesTo DEF Salvage, Points
<1>3. UNCHANGED <<thread, seq, queue, seqFile, floor, wasArmed, armed, starts, crashes, faults, pending,
                  busy, reason, worth, armSeen, recArmed, preempt, ended, clip, whole, proc>>
      /\ tmp' = {}
  BY DEF Salvage, owed, arm, hub, bounds
<1>4. finished' \in {finished, 0} /\ state' \in {state, "ready", "error"}
  BY DEF Salvage, GivenUp
<1>5. DiskTyped' /\ \A m \in Seqs \ {n} : job'[m] = job[m] /\ src'[m] = src[m]
  BY DEF Salvage, Typed, DiskTyped, Discard
<1>6. BusyCounts'
  <2>1. \A m \in Seqs : Begun(enc'[m]) <=> Begun(enc[m])
    BY <1>1, <1>2 DEF Begun, Typed, EncTyped
  <2> QED BY <1>3, <2>1, BusyStays DEF Typed
<1> QED BY <1>1, <1>2, <1>3, <1>4, <1>5, <1>6, EncoderCloses

LEMMA EncoderKeeps ==
    ASSUME Book, NEW n \in Seqs, Encoder(n)
    PROVE  Book'
BY EncodeBeginsKeeps, NextStageKeeps, StageKeeps, PromoteKeeps, MarkKeeps, RetireKeeps, LeaveKeeps,
   DeferKeeps, SalvageKeeps DEF Encoder

-----------------------------------------------------------------------------
(* The threads.  A step of one that hands nothing over keeps the book; so  *)
(* does one that takes up what is owed.                                    *)

LEMMA ThreadFrame ==
    ASSUME Book, ThreadTyped', UNCHANGED <<seq, queue, floor>>,
           state' = "recording" => state = "recording",
           \A m \in Seqs : /\ enc'[m].at = "idle" <=> enc[m].at = "idle"
                           /\ enc'[m].at = "leave" <=> enc[m].at = "leave",
           pending' \in {pending, 0},
           \A m \in Seqs : \/ job'[m] = job[m] /\ (src'[m] = -1 \/ src'[m] = src[m] \/ m = queue)
                           \/ job'[m] = "none" /\ src'[m] = -1 /\ pending' = 0,
           \A t \in Threads :
              \/ thread'[t] = thread[t]
              \/ thread'[t].at \notin {"finalising", "writing", "rendering"}
                 /\ thread'[t].seq \in {0, thread[t].seq}
              \/ t = "hub" /\ thread'[t].at = "rendering" /\ thread'[t].seq = pending /\ pending # 0
                 /\ pending' = 0 /\ enc[pending].at = "idle"
    PROVE  Bounded' /\ Handed'
<1> USE DEF Book
<1>1. /\ seq \in Nat /\ pending \in Nat /\ floor \in Nat /\ queue \in Numbers /\ pending \in Numbers
      /\ \A t \in Threads : thread[t].seq \in Numbers
  <2>1. {seq, pending, floor, queue} \subseteq Numbers
    BY DEF Typed, NumbersTyped
  <2>2. \A t \in Threads : thread[t].seq \in Numbers
    BY DEF Typed, ThreadTyped, Doing
  <2> QED BY <2>1, <2>2, SeqsAreNat
<1>2. queue # 0 => queue \in Seqs
  BY <1>1 DEF Numbers
<1>3. pending # 0 => pending \in Seqs
  BY <1>1 DEF Numbers
<1>4. pending # 0 => pending # queue
  BY DEF Handed
<1>5. Bounded'
  <2>1. pending' <= seq
    BY <1>1 DEF Bounded
  <2>2. ASSUME NEW t \in Threads PROVE thread'[t].seq <= seq
    <3>1. thread'[t].seq \in {0, pending, thread[t].seq}
      OBVIOUS
    <3> QED BY <1>1, <3>1 DEF Bounded
  <2>3. ASSUME NEW m \in Seqs, Known(m)' PROVE m <= seq
    <3>1. CASE m = queue
      <4>1. queue = seq
        BY <3>1, SeqsAreNat DEF Handed
      <4> QED BY <1>1, <3>1, <4>1
    <3>2. CASE m # queue
      BY <2>3, <3>2 DEF Known, Bounded
    <3> QED BY <3>1, <3>2
  <2> QED BY <2>1, <2>2, <2>3 DEF Bounded
<1>6. ASSUME queue # 0 PROVE queue = seq /\ enc'[queue].at = "idle" /\ job'[queue] = "none"
  BY <1>2, <1>6 DEF Handed
<1>7. ASSUME NEW t \in Threads, Works(t)'
      PROVE  /\ thread'[t].seq \in Seqs \ {queue, pending'}
             /\ enc'[thread'[t].seq].at = "idle"
             /\ thread'[t].at # "rendering" => job'[thread'[t].seq] = "none"
  <2>1. CASE thread'[t] = thread[t]
    <3>1. Works(t)
      BY <1>7, <2>1 DEF Works
    <3>2. thread[t].seq \in Seqs \ {queue, pending} /\ enc[thread[t].seq].at = "idle"
      BY <3>1 DEF Handed
    <3>3. thread[t].at # "rendering" => job[thread[t].seq] = "none"
      BY <3>1 DEF Handed
    <3>4. 0 \notin Seqs
      BY SeqsAreNat
    <3> QED BY <2>1, <3>2, <3>3, <3>4
  <2>2. CASE thread'[t].at = "rendering" /\ thread'[t].seq = pending /\ pending # 0 /\ pending' = 0
             /\ enc[pending].at = "idle"
    BY <1>3, <1>4, <2>2, SeqsAreNat
  <2> QED BY <1>7, <2>1, <2>2 DEF Works
<1>8. ASSUME NEW t \in Threads, NEW u \in Threads, Works(t)', Works(u)', thread'[t].seq = thread'[u].seq
      PROVE  t = u
  <2>1. \A v \in Threads : Works(v)' => \/ Works(v) /\ thread'[v].seq = thread[v].seq
                                        \/ v = "hub" /\ thread'[v].seq = pending
    BY DEF Works
  <2>2. \A v \in Threads : Works(v) => thread[v].seq # pending
    BY DEF Handed
  <2>3. CASE Works(t) /\ thread'[t].seq = thread[t].seq /\ Works(u) /\ thread'[u].seq = thread[u].seq
    BY <1>8, <2>3 DEF Handed
  <2> QED BY <1>8, <2>1, <2>2, <2>3
<1>9. ASSUME pending' # 0 PROVE job'[pending'] # "none" /\ enc'[pending'].at \in {"idle", "leave"}
  <2>1. pending' = pending /\ pending \in Seqs
    BY <1>3, <1>9
  <2>2. job'[pending] = job[pending]
    BY <1>9, <2>1
  <2> QED BY <1>9, <2>1, <2>2 DEF Handed
<1>10. Handed'
  BY <1>6, <1>7, <1>8, <1>9 DEF Handed
<1> QED BY <1>5, <1>10

LEMMA NumberedFrame ==
    ASSUME Book, UNCHANGED <<seq, clip, seqFile>>, CountsTyped',
           Starting("hub")' + Starting("op")' + Edge' - Starting("hub") - Starting("op") - Edge
              <= starts' + crashes' - starts - crashes
    PROVE  Numbered'
<1>1. starts \in Int /\ crashes \in Int /\ starts' \in Int /\ crashes' \in Int
  BY BoundsAreNat DEF Book, Typed, CountsTyped
<1>2. /\ Starting("hub") \in Int /\ Starting("op") \in Int /\ Edge \in Int
      /\ Starting("hub")' \in Int /\ Starting("op")' \in Int /\ Edge' \in Int
  BY DEF Starting, Edge
<1>3. \A x \in {seq, clip, seqFile} : x \in Int
  <2>1. {seq, clip, seqFile} \subseteq Numbers
    BY DEF Book, Typed, NumbersTyped
  <2>2. Numbers \subseteq Int
    BY SeqsAreNat
  <2> QED BY <2>1, <2>2
<1>4. \A x \in {seq, clip, seqFile} : x + Starting("hub") + Starting("op") + Edge <= starts + crashes
  BY DEF Book, Numbered
<1>5. \A x \in {seq, clip, seqFile} : x + Starting("hub")' + Starting("op")' + Edge' <= starts' + crashes'
  BY <1>1, <1>2, <1>3, <1>4
<1> QED BY <1>5 DEF Numbered

LEMMA IdleIsDoing == Idle \in Doing /\ Idle.at = "idle" /\ Idle.seq = 0
BY SeqsAreNat DEF Idle, Doing

\* set_armed gives up what is owed, takes it, or leaves it.
LEMMA ArmingDoes ==
    ASSUME Book, NEW level, SetArmed(level)
    PROVE  \/ /\ UNCHANGED <<pending, job, src>> /\ thread' = [thread EXCEPT !["hub"] = Idle]
           \/ /\ pending # 0 /\ pending < Max({floor, clip}) /\ pending' = 0 /\ Discard({pending})
              /\ thread' = [thread EXCEPT !["hub"] = Idle]
           \/ /\ pending # 0 /\ enc[pending].at = "idle" /\ pending' = 0 /\ UNCHANGED <<job, src>>
              /\ \E d \in Doing : d.at = "rendering" /\ d.seq = pending
                                 /\ thread' = [thread EXCEPT !["hub"] = d]
<1>1. CASE pending # 0 /\ MayRenderNow
  <2>1. pending \in Seqs
    BY <1>1 DEF Book, Typed, NumbersTyped, Numbers
  <2>2. enc[pending].at \in {"idle", "born"}
    BY <1>1, <2>1, NobodyBusy DEF MayRenderNow, Book, Typed
  <2>3. enc[pending].at = "idle"
    BY <1>1, <2>2 DEF Book, Handed
  <2> DEFINE d == [Idle EXCEPT !.at = "rendering", !.seq = pending]
  <2>4. d \in Doing /\ d.at = "rendering" /\ d.seq = pending
    BY <2>1, IdleIsDoing DEF Doing, Numbers
  <2>5. CASE pending < Max({floor, clip})
    BY <1>1, <2>5 DEF SetArmed
  <2>6. CASE ~(pending < Max({floor, clip}))
    BY <1>1, <2>3, <2>4, <2>6 DEF SetArmed
  <2> QED BY <2>5, <2>6
<1>2. CASE ~(pending # 0 /\ MayRenderNow)
  BY <1>2 DEF SetArmed
<1> QED BY <1>1, <1>2

LEMMA ArmingKeeps ==
    ASSUME Book, NEW level \in BOOLEAN, SetArmed(level), UNCHANGED <<seq, queue, floor, enc, state>>
    PROVE  /\ Bounded' /\ Handed' /\ ThreadTyped' /\ DiskTyped' /\ {armSeen, recArmed}' \subseteq BOOLEAN
           /\ pending' \in {0, pending} /\ thread'["op"] = thread["op"] /\ Starting("hub")' = 0
<1> USE DEF Book
<1>1. thread \in [Threads -> Doing] /\ pending \in Numbers
  BY DEF Typed, ThreadTyped, NumbersTyped
<1>2. PICK d \in Doing :
        /\ thread' = [thread EXCEPT !["hub"] = d]
        /\ \/ d = Idle
           \/ /\ d.at = "rendering" /\ d.seq = pending
              /\ pending # 0 /\ enc[pending].at = "idle" /\ pending' = 0
  BY ArmingDoes, IdleIsDoing
<1>3. thread'["hub"] = d /\ thread'["op"] = thread["op"] /\ ThreadTyped'
  BY <1>1, <1>2 DEF Threads, ThreadTyped
<1>4. pending' \in {0, pending}
  BY ArmingDoes
<1>5. \A m \in Seqs : \/ job'[m] = job[m] /\ src'[m] = src[m]
                      \/ job'[m] = "none" /\ src'[m] = -1 /\ pending' = 0
  BY ArmingDoes DEF Discard
<1>6. DiskTyped'
  BY ArmingDoes DEF Discard, Typed, DiskTyped
<1>7. Bounded' /\ Handed'
  <2>1. \A t \in Threads :
          \/ thread'[t] = thread[t]
          \/ thread'[t].at \notin {"finalising", "writing", "rendering"}
             /\ thread'[t].seq \in {0, thread[t].seq}
          \/ t = "hub" /\ thread'[t].at = "rendering" /\ thread'[t].seq = pending /\ pending # 0
             /\ pending' = 0 /\ enc[pending].at = "idle"
    BY <1>2, <1>3, IdleIsDoing DEF Threads
  <2> QED BY <1>3, <1>4, <1>5, <2>1, ThreadFrame
<1>8. {armSeen, recArmed}' \subseteq BOOLEAN
  BY DEF SetArmed
<1>9. Starting("hub")' = 0
  BY <1>2, <1>3, IdleIsDoing DEF Starting
<1> QED BY <1>3, <1>4, <1>6, <1>7, <1>8, <1>9

LEMMA ReturnsKeeps ==
    ASSUME Book, NEW t \in Threads, Returns(t)
    PROVE  Book'
<1> USE DEF Book
<1>1. UNCHANGED <<state, reason, seq, queue, worth, floor, busy, preempt, proc, enc, wasArmed, tmp, clip, whole,
                  seqFile, armed, starts, crashes, faults, finished>>
  BY DEF Returns, now, render, kept, bounds
<1>2. /\ Bounded' /\ Handed' /\ ThreadTyped' /\ DiskTyped' /\ {armSeen, recArmed}' \subseteq BOOLEAN
      /\ pending' \in {0, pending} /\ Starting("hub")' <= Starting("hub")
      /\ Starting("op")' <= Starting("op")
  <2>1. CASE thread[t].why = "disarmed"
    <3>1. SetArmed(FALSE)
      BY <2>1 DEF Returns
    <3>2. /\ Bounded' /\ Handed' /\ ThreadTyped' /\ DiskTyped' /\ {armSeen, recArmed}' \subseteq BOOLEAN
          /\ pending' \in {0, pending} /\ thread'["op"] = thread["op"] /\ Starting("hub")' = 0
      BY <1>1, <3>1, ArmingKeeps
    <3>3. Starting("op")' = Starting("op")
      BY <3>2 DEF Starting
    <3>4. Starting("hub") \in {0, 1} /\ Starting("op") \in {0, 1}
      BY DEF Starting
    <3> QED BY <3>2, <3>3, <3>4
  <2>2. CASE thread[t].why # "disarmed"
    <3>1. thread' = [thread EXCEPT ![t] = Idle] /\ UNCHANGED <<armSeen, recArmed, pending, job, src>>
      BY <2>2 DEF Returns, arm
    <3>2. ThreadTyped' /\ \A u \in Threads : thread'[u] = thread[u] \/ thread'[u] = Idle
      BY <3>1, IdleIsDoing DEF Typed, ThreadTyped
    <3>3. Bounded' /\ Handed'
      BY <1>1, <3>1, <3>2, IdleIsDoing, ThreadFrame
    <3>4. Starting("hub")' <= Starting("hub") /\ Starting("op")' <= Starting("op")
      BY <3>2, IdleIsDoing DEF Starting, Threads
    <3> QED BY <3>1, <3>2, <3>3, <3>4 DEF Typed, DiskTyped, ScalarsTyped
  <2> QED BY <2>1, <2>2
<1>3. ended' \in BOOLEAN
  BY DEF Returns, Typed, ScalarsTyped
<1>4. CountsTyped' /\ EncTyped' /\ BusyCounts'
  BY <1>1 DEF Typed, CountsTyped, EncTyped, BusyCounts
<1>5. ScalarsTyped' /\ NumbersTyped'
  BY <1>1, <1>2, <1>3 DEF Typed, ScalarsTyped, NumbersTyped, Numbers
<1>6. Numbered'
  <2>1. Edge' = Edge
    BY <1>1 DEF Edge
  <2>2. /\ Starting("hub") \in Int /\ Starting("op") \in Int /\ Edge \in Int
        /\ Starting("hub")' \in Int /\ Starting("op")' \in Int
    BY DEF Starting, Edge
  <2>3. starts \in Int /\ crashes \in Int
    BY BoundsAreNat DEF Typed, CountsTyped
  <2> QED BY <1>1, <1>2, <1>4, <2>1, <2>2, <2>3, NumberedFrame
<1> QED BY <1>2, <1>4, <1>5, <1>6 DEF Typed

-----------------------------------------------------------------------------
(* The callers.                                                            *)

\* The first half of start: the thread is about to take a number, and a process
\* that may be killed is.
LEMMA StartingDoes ==
    ASSUME Book, NEW t \in Threads, NEW why \in {"armed", "manual"}, StartChecks(t, why)
    PROVE  /\ ThreadTyped' /\ EncTyped' /\ preempt' \in BOOLEAN
           /\ \A u \in Threads \ {t} : thread'[u] = thread[u]
           /\ thread'[t] = thread[t] \/ (thread'[t].at = "starting" /\ thread'[t].seq = 0)
           /\ \A m \in Seqs : /\ enc'[m].at = "idle" <=> enc[m].at = "idle"
                              /\ enc'[m].at = "leave" <=> enc[m].at = "leave"
                              /\ Begun(enc'[m]) <=> Begun(enc[m])
<1> USE DEF Book
<1>1. thread \in [Threads -> Doing] /\ enc \in [Seqs -> Encoders]
  BY DEF Typed, ThreadTyped, EncTyped
<1>2. preempt' \in BOOLEAN
  BY DEF StartChecks, Typed, ScalarsTyped
<1>3. /\ ThreadTyped' /\ \A u \in Threads \ {t} : thread'[u] = thread[u]
      /\ thread'[t] = thread[t] \/ (thread'[t].at = "starting" /\ thread'[t].seq = 0)
  <2> DEFINE d == [Idle EXCEPT !.at = "starting", !.why = why]
  <2>1. d \in Doing /\ d.at = "starting" /\ d.seq = 0
    BY IdleIsDoing DEF Doing
  <2>2. thread' = thread \/ thread' = [thread EXCEPT ![t] = d]
    BY DEF StartChecks
  <2> HIDE DEF d
  <2> QED BY <1>1, <2>1, <2>2 DEF ThreadTyped
<1> DEFINE Dead(e) == [e EXCEPT !.at = IF @ = "hd" THEN "hdDead" ELSE "quickDead"]
<1>4. \A e \in Encoders : Dead(e) \in Encoders /\ Dead(e).at \in {"hdDead", "quickDead"}
  BY DEF Encoders, Points
<1>5. \/ enc' = enc
      \/ enc' = [n \in Seqs |-> IF n = proc /\ enc[n].at \in Running THEN Dead(enc[n]) ELSE enc[n]]
  BY DEF StartChecks
<1> HIDE DEF Dead
<1>6. /\ EncTyped'
      /\ \A m \in Seqs : \/ enc'[m] = enc[m]
                         \/ (enc[m].at \in Running /\ enc'[m].at \in {"hdDead", "quickDead"})
  BY <1>1, <1>4, <1>5 DEF EncTyped
<1> QED BY <1>2, <1>3, <1>6 DEF Running, Begun

\* A start request and its thread are counted together.
LEMMA StartingKeeps ==
    ASSUME Book, NEW t \in Threads, NEW why \in {"armed", "manual"}, StartChecks(t, why),
           thread[t].at = "idle", UNCHANGED <<seq, queue, floor, state, job, src, pending, busy>>
    PROVE  /\ Bounded' /\ Handed' /\ ThreadTyped' /\ EncTyped' /\ BusyCounts' /\ preempt' \in BOOLEAN
           /\ Starting("hub")' + Starting("op")' <= Starting("hub") + Starting("op") + 1
<1>1. /\ ThreadTyped' /\ EncTyped' /\ preempt' \in BOOLEAN
      /\ \A u \in Threads \ {t} : thread'[u] = thread[u]
      /\ thread'[t] = thread[t] \/ (thread'[t].at = "starting" /\ thread'[t].seq = 0)
      /\ \A m \in Seqs : /\ enc'[m].at = "idle" <=> enc[m].at = "idle"
                         /\ enc'[m].at = "leave" <=> enc[m].at = "leave"
                         /\ Begun(enc'[m]) <=> Begun(enc[m])
  BY StartingDoes
<1>2. Bounded' /\ Handed'
  BY <1>1, ThreadFrame
<1>3. BusyCounts'
  BY <1>1, BusyStays DEF Book, Typed
<1>4. Starting("hub")' + Starting("op")' <= Starting("hub") + Starting("op") + 1
  BY <1>1 DEF Starting, Threads
<1> QED BY <1>1, <1>2, <1>3, <1>4

LEMMA OnArmedKeeps ==
    ASSUME Book, OnArmed
    PROVE  Book'
<1> USE DEF Book
<1>1. UNCHANGED <<state, reason, seq, queue, worth, floor, busy, proc, tmp, clip, whole, seqFile, armed, starts,
                  crashes, faults, finished>>
  BY DEF OnArmed, now, kept, bounds
<1>2. thread["hub"].at = "idle" /\ armed # wasArmed /\ wasArmed' = armed /\ "hub" \in Threads
  BY DEF OnArmed, Free, Threads
<1>3. /\ Starting("hub") = 0 /\ Edge' = 0 /\ Starting("op") \in Int /\ Edge \in Int
      /\ Starting("hub")' \in Int /\ Starting("op")' \in Int /\ starts \in Int /\ crashes \in Int
  <2>1. starts \in Int /\ crashes \in Int
    BY BoundsAreNat DEF Typed, CountsTyped
  <2> QED BY <1>1, <1>2, <2>1 DEF Starting, Edge
<1>4. /\ Bounded' /\ Handed' /\ ThreadTyped' /\ EncTyped' /\ BusyCounts' /\ DiskTyped'
      /\ {preempt, armSeen, recArmed, ended}' \subseteq BOOLEAN /\ pending' \in {0, pending}
      /\ Starting("hub")' + Starting("op")' <= Starting("op") + Edge
  <2>1. CASE armed
    <3>1. /\ ended' = FALSE /\ armSeen' = TRUE /\ recArmed' = TRUE /\ StartChecks("hub", "armed")
          /\ UNCHANGED <<pending, job, src>>
      BY <2>1 DEF OnArmed
    <3>2. /\ Bounded' /\ Handed' /\ ThreadTyped' /\ EncTyped' /\ BusyCounts' /\ preempt' \in BOOLEAN
          /\ Starting("hub")' + Starting("op")' <= Starting("hub") + Starting("op") + 1
      BY <1>1, <1>2, <3>1, StartingKeeps
    <3>3. Edge = 1
      BY <1>2, <2>1 DEF Edge
    <3>4. DiskTyped' /\ pending' \in {0, pending}
      BY <3>1 DEF Typed, DiskTyped
    <3>5. {preempt, armSeen, recArmed, ended}' \subseteq BOOLEAN
      BY <3>1, <3>2
    <3>6. Starting("hub")' + Starting("op")' <= Starting("op") + Edge
      BY <1>3, <3>2, <3>3
    <3> QED BY <3>2, <3>4, <3>5, <3>6
  <2>2. CASE ~armed
    <3>1. UNCHANGED <<preempt, enc, ended>>
      BY <2>2 DEF OnArmed
    <3>2. EncTyped' /\ BusyCounts' /\ {preempt, ended}' \subseteq BOOLEAN
      BY <1>1, <3>1 DEF Typed, EncTyped, BusyCounts, ScalarsTyped
    <3>3. Edge \in {0, 1} /\ Starting("op") \in {0, 1}
      BY DEF Edge, Starting
    <3>4. CASE ended /\ state # "recording"
      <4>1. SetArmed(FALSE)
        BY <2>2, <3>4 DEF OnArmed
      <4>2. /\ Bounded' /\ Handed' /\ ThreadTyped' /\ DiskTyped' /\ {armSeen, recArmed}' \subseteq BOOLEAN
            /\ pending' \in {0, pending} /\ thread'["op"] = thread["op"] /\ Starting("hub")' = 0
        BY <1>1, <3>1, <4>1, ArmingKeeps
      <4>3. Starting("op")' = Starting("op")
        BY <4>2 DEF Starting
      <4> QED BY <3>2, <3>3, <4>2, <4>3
    <3>5. CASE ~(ended /\ state # "recording")
      <4> DEFINE d == [Idle EXCEPT !.at = "stopping", !.why = "disarmed"]
      <4>1. thread' = [thread EXCEPT !["hub"] = d] /\ UNCHANGED <<armSeen, recArmed, pending, job, src>>
        BY <2>2, <3>5 DEF OnArmed, arm
      <4>2. d \in Doing /\ d.at = "stopping" /\ d.seq = 0
        BY IdleIsDoing DEF Doing
      <4> HIDE DEF d
      <4>3. ThreadTyped' /\ thread'["hub"] = d /\ thread'["op"] = thread["op"]
        BY <4>1, <4>2 DEF Typed, ThreadTyped, Threads
      <4>4. Bounded' /\ Handed'
        BY <1>1, <3>1, <4>1, <4>2, <4>3, ThreadFrame DEF Threads
      <4>5. Starting("hub")' = 0 /\ Starting("op")' = Starting("op")
        BY <4>2, <4>3 DEF Starting
      <4>6. DiskTyped' /\ {armSeen, recArmed}' \subseteq BOOLEAN
        BY <4>1 DEF Typed, DiskTyped, ScalarsTyped
      <4> QED BY <3>2, <3>3, <4>1, <4>3, <4>4, <4>5, <4>6
    <3> QED BY <3>4, <3>5
  <2> QED BY <2>1, <2>2
<1>5. CountsTyped'
  BY <1>1 DEF Typed, CountsTyped
<1>6. ScalarsTyped' /\ NumbersTyped'
  BY <1>1, <1>2, <1>4 DEF Typed, ScalarsTyped, NumbersTyped, Numbers
<1>7. Numbered'
  BY <1>1, <1>3, <1>4, <1>5, NumberedFrame
<1> QED BY <1>4, <1>5, <1>6, <1>7 DEF Typed

LEMMA RepeatsKeeps ==
    ASSUME Book, Repeats
    PROVE  Book'
<1> USE DEF Book
<1>1. UNCHANGED <<state, reason, seq, queue, worth, floor, busy, preempt, proc, enc, wasArmed, ended, tmp,
                  clip, whole, seqFile, armed, starts, crashes, faults, finished>>
  BY DEF Repeats, now, render, hub, kept, bounds
<1>2. SetArmed(armed) /\ armed \in BOOLEAN /\ Starting("hub") = 0
  BY DEF Repeats, Typed, ScalarsTyped, Free, Starting
<1>3. /\ Bounded' /\ Handed' /\ ThreadTyped' /\ DiskTyped' /\ {armSeen, recArmed}' \subseteq BOOLEAN
      /\ pending' \in {0, pending} /\ thread'["op"] = thread["op"] /\ Starting("hub")' = 0
  BY <1>1, <1>2, ArmingKeeps
<1>4. CountsTyped' /\ EncTyped' /\ BusyCounts'
  BY <1>1 DEF Typed, CountsTyped, EncTyped, BusyCounts
<1>5. ScalarsTyped' /\ NumbersTyped'
  BY <1>1, <1>3 DEF Typed, ScalarsTyped, NumbersTyped, Numbers
<1>6. Numbered'
  <2>1. Edge' = Edge /\ Starting("op")' = Starting("op") /\ Edge \in Int /\ Starting("op") \in Int
    BY <1>1, <1>3 DEF Edge, Starting
  <2>2. starts \in Int /\ crashes \in Int
    BY BoundsAreNat DEF Typed, CountsTyped
  <2> QED BY <1>1, <1>2, <1>3, <1>4, <2>1, <2>2, NumberedFrame
<1> QED BY <1>3, <1>4, <1>5, <1>6 DEF Typed

\* A thread that begins, or gives up, a call of stop.
LEMMA CallsKeep ==
    ASSUME Book, FlightEnds \/ RecordStop \/ \E t \in Threads : StopRefused(t)
    PROVE  Book'
<1> USE DEF Book
<1>1. UNCHANGED <<state, reason, seq, queue, worth, floor, pending, armSeen, recArmed, busy, preempt, proc,
                  enc, wasArmed, ended, tmp, clip, whole, src, job, seqFile, armed, starts, crashes, faults,
                  finished>>
  BY DEF FlightEnds, RecordStop, StopRefused, now, owed, arm, render, hub, kept, disk, bounds
<1>2. \E t \in Threads, d \in Doing :
        /\ thread' = [thread EXCEPT ![t] = d]
        /\ d.at \in {"stopping", "returning"} /\ d.seq \in {0, thread[t].seq}
  <2>1. CASE FlightEnds
    <3> DEFINE d == [Idle EXCEPT !.at = "stopping", !.why = "ended"]
    <3>1. d \in Doing /\ d.at = "stopping" /\ d.seq = 0
      BY IdleIsDoing DEF Doing
    <3>2. thread' = [thread EXCEPT !["hub"] = d]
      BY <2>1 DEF FlightEnds
    <3> HIDE DEF d
    <3> QED BY <3>1, <3>2 DEF Threads
  <2>2. CASE RecordStop
    <3> DEFINE d == [Idle EXCEPT !.at = "stopping", !.why = "manual"]
    <3>1. d \in Doing /\ d.at = "stopping" /\ d.seq = 0
      BY IdleIsDoing DEF Doing
    <3>2. thread' = [thread EXCEPT !["op"] = d]
      BY <2>2 DEF RecordStop
    <3> HIDE DEF d
    <3> QED BY <3>1, <3>2 DEF Threads
  <2>3. ASSUME NEW t \in Threads, StopRefused(t)
        PROVE  \E d \in Doing : /\ thread' = [thread EXCEPT ![t] = d]
                                /\ d.at \in {"stopping", "returning"} /\ d.seq \in {0, thread[t].seq}
    <3>1. thread[t] \in Doing
      BY DEF Typed, ThreadTyped
    <3>2. [thread[t] EXCEPT !.at = "returning"] \in Doing
      BY <3>1 DEF Doing
    <3>3. thread' = [thread EXCEPT ![t] = [thread[t] EXCEPT !.at = "returning"]]
      BY <2>3 DEF StopRefused, Go
    <3>4. /\ [thread[t] EXCEPT !.at = "returning"].at = "returning"
          /\ [thread[t] EXCEPT !.at = "returning"].seq = thread[t].seq
      BY <3>1 DEF Doing
    <3> QED BY <3>2, <3>3, <3>4
  <2> QED BY <2>1, <2>2, <2>3
<1>3. PICK t \in Threads, d \in Doing :
        /\ thread' = [thread EXCEPT ![t] = d]
        /\ d.at \in {"stopping", "returning"} /\ d.seq \in {0, thread[t].seq}
  BY <1>2
<1>4. ThreadTyped' /\ thread'[t] = d /\ \A u \in Threads \ {t} : thread'[u] = thread[u]
  BY <1>3 DEF Typed, ThreadTyped
<1>5. Bounded' /\ Handed'
  BY <1>1, <1>3, <1>4, ThreadFrame
<1>6. CountsTyped' /\ EncTyped' /\ BusyCounts' /\ DiskTyped' /\ ScalarsTyped' /\ NumbersTyped'
  BY <1>1 DEF Typed, CountsTyped, EncTyped, BusyCounts, DiskTyped, ScalarsTyped, NumbersTyped
<1>7. Numbered'
  <2>1. Starting("hub")' <= Starting("hub") /\ Starting("op")' <= Starting("op") /\ Edge' = Edge
    BY <1>1, <1>3, <1>4 DEF Starting, Threads, Edge
  <2>2. /\ Starting("hub") \in Int /\ Starting("op") \in Int /\ Edge \in Int
        /\ Starting("hub")' \in Int /\ Starting("op")' \in Int
    BY DEF Starting, Edge
  <2>3. starts \in Int /\ crashes \in Int
    BY BoundsAreNat DEF Typed, CountsTyped
  <2> QED BY <1>1, <1>6, <2>1, <2>2, <2>3, NumberedFrame
<1> QED BY <1>4, <1>5, <1>6, <1>7 DEF Typed

LEMMA RecordStartKeeps ==
    ASSUME Book, RecordStart
    PROVE  Book'
<1> USE DEF Book
<1>1. UNCHANGED <<state, reason, seq, queue, worth, floor, pending, armSeen, recArmed, busy, proc, wasArmed,
                  ended, tmp, clip, whole, src, job, seqFile, armed, crashes, faults, finished>>
  BY DEF RecordStart, now, owed, arm, hub, kept, disk
<1>2. /\ thread["op"].at = "idle" /\ starts < MaxStarts /\ starts' = starts + 1
      /\ StartChecks("op", "manual") /\ "op" \in Threads
  BY DEF RecordStart, Free, Threads
<1>3. /\ Bounded' /\ Handed' /\ ThreadTyped' /\ EncTyped' /\ BusyCounts' /\ preempt' \in BOOLEAN
      /\ Starting("hub")' + Starting("op")' <= Starting("hub") + Starting("op") + 1
  BY <1>1, <1>2, StartingKeeps
<1>4. starts \in Int /\ crashes \in Int
  BY BoundsAreNat DEF Typed, CountsTyped
<1>5. CountsTyped'
  BY <1>1, <1>2, BoundsAreNat DEF Typed, CountsTyped
<1>6. DiskTyped' /\ ScalarsTyped' /\ NumbersTyped'
  BY <1>1, <1>3 DEF Typed, DiskTyped, ScalarsTyped, NumbersTyped
<1>7. Numbered'
  <2>1. Edge' = Edge
    BY <1>1 DEF Edge
  <2>2. /\ Starting("hub") \in Int /\ Starting("op") \in Int /\ Edge \in Int
        /\ Starting("hub")' \in Int /\ Starting("op")' \in Int
    BY DEF Starting, Edge
  <2> QED BY <1>1, <1>2, <1>3, <1>4, <1>5, <2>1, <2>2, NumberedFrame
<1> QED BY <1>3, <1>5, <1>6, <1>7 DEF Typed

\* The aircraft and the frames: nothing of the book but the count of arms.
LEMMA WorldKeeps ==
    ASSUME Book, Arms \/ Disarms \/ OfferFrames \/ Earns \/ WriterFails
    PROVE  Book'
<1> USE DEF Book
<1>1. UNCHANGED <<reason, seq, queue, floor, pending, armSeen, recArmed, busy, preempt, proc, thread, enc,
                  wasArmed, ended, tmp, clip, whole, job, seqFile, crashes, finished>>
  BY DEF Arms, Disarms, OfferFrames, Earns, WriterFails, now, owed, arm, render, hub, kept, disk, bounds
<1>2. /\ armed' \in BOOLEAN /\ state' \in {state, "error"} /\ worth' \subseteq Seqs
  <2>1. queue \in Numbers /\ seq \in Numbers
    BY DEF Typed, NumbersTyped
  <2>2. state = "recording" => seq \in Seqs
    BY <2>1 DEF Handed, Numbers
  <2> QED BY <2>2 DEF Arms, Disarms, OfferFrames, Earns, WriterFails, now, bounds, Typed, ScalarsTyped
<1>3. DiskTyped' /\ \A m \in Seqs : src'[m] = src[m] \/ m = queue
  BY <1>1 DEF Arms, Disarms, OfferFrames, Earns, WriterFails, disk, Typed, DiskTyped
<1>4. starts' \in {starts, starts + 1} /\ CountsTyped'
  BY <1>1, BoundsAreNat DEF Arms, Disarms, OfferFrames, Earns, WriterFails, bounds, Typed, CountsTyped
<1>5. ThreadTyped' /\ EncTyped' /\ BusyCounts' /\ NumbersTyped' /\ ScalarsTyped'
  BY <1>1, <1>2 DEF Typed, ThreadTyped, EncTyped, BusyCounts, NumbersTyped, ScalarsTyped
<1>6. Bounded' /\ Handed'
  BY <1>1, <1>2, <1>3, <1>5, ThreadFrame
<1>7. Numbered'
  <2>1. (starts' = starts /\ Edge' <= Edge) \/ (starts' = starts + 1 /\ Edge' <= Edge + 1)
    BY <1>1, BoundsAreNat
       DEF Arms, Disarms, OfferFrames, Earns, WriterFails, bounds, Edge, Typed, CountsTyped, ScalarsTyped
  <2>2. Starting("hub")' = Starting("hub") /\ Starting("op")' = Starting("op")
    BY <1>1 DEF Starting
  <2>3. /\ Starting("hub") \in Int /\ Starting("op") \in Int /\ Edge \in Int
        /\ Starting("hub")' \in Int /\ Starting("op")' \in Int /\ Edge' \in Int
    BY DEF Starting, Edge
  <2>4. starts \in Int /\ crashes \in Int /\ starts' \in Int
    BY <1>4, BoundsAreNat DEF Typed, CountsTyped
  <2>5. crashes' = crashes
    BY <1>1
  <2>6. Starting("hub")' + Starting("op")' + Edge' - Starting("hub") - Starting("op") - Edge
           <= starts' + crashes' - starts - crashes
    BY <2>1, <2>2, <2>3, <2>4, <2>5
  <2> QED BY <1>1, <1>4, <2>6, NumberedFrame
<1> QED BY <1>3, <1>4, <1>5, <1>6, <1>7 DEF Typed


-----------------------------------------------------------------------------
(* A recording.                                                            *)

\* The next number is new to the recorder.
LEMMA NextSeqIsNew ==
    ASSUME Book
    PROVE  /\ \E m \in {seq, clip, seqFile} : NextSeq = m + 1
           /\ \A x \in {seq, clip, seqFile} : x \in Nat /\ x < NextSeq
           /\ NextSeq \in Nat
<1> USE DEF Book
<1> DEFINE S == {seq, clip, seqFile} \cup {n \in Seqs : job[n] # "none"}
<1>1. \A x \in {seq, clip, seqFile} : x \in Nat
  <2>1. {seq, clip, seqFile} \subseteq Numbers
    BY DEF Typed, NumbersTyped
  <2> QED BY <2>1, SeqsAreNat
<1>2. PICK m \in {seq, clip, seqFile} : \A x \in {seq, clip, seqFile} : x <= m
  <2>1. CASE seq >= clip /\ seq >= seqFile
    BY <1>1, <2>1
  <2>2. CASE clip >= seq /\ clip >= seqFile
    BY <1>1, <2>2
  <2>3. CASE seqFile >= seq /\ seqFile >= clip
    BY <1>1, <2>3
  <2> QED BY <1>1, <2>1, <2>2, <2>3
<1>3. \A n \in Seqs : job[n] # "none" => n <= seq
  BY DEF Bounded, Known
<1>4. S \in SUBSET Int
  <2>1. \A x \in {seq, clip, seqFile} : x \in Int
    BY <1>1
  <2>2. \A x \in Seqs : x \in Int
    BY SeqsAreNat
  <2> QED BY <2>1, <2>2
<1>5. \A x \in S : x <= m
  <2>1. ASSUME NEW n \in Seqs, job[n] # "none" PROVE n <= m
    BY <1>1, <1>2, <1>3, <2>1, SeqsAreNat
  <2> QED BY <1>2, <2>1
<1>6. m \in S
  OBVIOUS
<1>7. Max(S) = m
  <2> HIDE DEF S
  <2> QED BY <1>4, <1>5, <1>6, MaxIs
<1>8. NextSeq = m + 1
  <2>1. NextSeq = 1 + Max(S)
    BY Zenon DEF NextSeq
  <2>2. m \in Nat
    BY <1>1
  <2> HIDE DEF S
  <2> QED BY <1>7, <2>1, <2>2
<1> QED BY <1>1, <1>2, <1>8

LEMMA StartBeginsKeeps ==
    ASSUME Book, NEW t \in Threads, StartBegins(t)
    PROVE  Book'
<1> USE DEF Book
<1>1. thread[t].at = "starting" /\ thread' = [thread EXCEPT ![t] = Idle]
  BY DEF StartBegins
<1>2. /\ queue' = NextSeq /\ seq' = NextSeq /\ seqFile' = NextSeq /\ state' = "recording"
      /\ src' = [src EXCEPT ![NextSeq] = 0] /\ worth' = worth \ {NextSeq} /\ reason' = thread[t].why
  BY DEF StartBegins
<1>3. UNCHANGED <<floor, pending, armSeen, recArmed, busy, preempt, proc, enc, wasArmed, ended, tmp, clip, whole,
                  job, armed, starts, crashes, faults, finished>>
  BY DEF StartBegins, owed, arm, render, hub, kept, bounds
<1>4. PICK m \in {seq, clip, seqFile} : NextSeq = m + 1
  BY NextSeqIsNew
<1>5. NextSeq \in Nat /\ \A x \in {seq, clip, seqFile} : x \in Nat /\ x < NextSeq
  BY NextSeqIsNew
<1>6. starts \in Nat /\ crashes \in Nat /\ starts + crashes <= MaxStarts + MaxCrashes
  BY BoundsAreNat DEF Typed, CountsTyped
<1>7. /\ Starting("hub") \in {0, 1} /\ Starting("op") \in {0, 1} /\ Edge \in {0, 1} /\ Starting(t) = 1
      /\ Starting("hub")' \in {0, 1} /\ Starting("op")' \in {0, 1} /\ Edge' = Edge
  BY <1>1, <1>3 DEF Starting, Edge
<1>8. Starting("hub")' + Starting("op")' + 1 = Starting("hub") + Starting("op")
  <2>1. thread \in [Threads -> Doing]
    BY DEF Typed, ThreadTyped
  <2> QED BY <1>1, <2>1, IdleIsDoing DEF Starting, Threads
<1>9. NextSeq \in Seqs
  <2>1. m + Starting("hub") + Starting("op") + Edge <= starts + crashes
    BY DEF Numbered
  <2>2. Starting("hub") + Starting("op") >= 1
    BY <1>7 DEF Threads
  <2>3. m + 1 <= starts + crashes
    BY <1>5, <1>6, <1>7, <2>1, <2>2
  <2>4. NextSeq <= MaxStarts + MaxCrashes /\ NextSeq # 0
    BY <1>4, <1>5, <1>6, <2>3, BoundsAreNat
  <2> QED BY <1>5, <2>4, SeqsAreNat
<1>10. Numbered'
  <2>1. \A x \in {seq, clip, seqFile} : x + Starting("hub") + Starting("op") + Edge <= starts + crashes
    BY DEF Numbered
  <2>2. NextSeq + Starting("hub")' + Starting("op")' + Edge' <= starts' + crashes'
    <3>1. m + Starting("hub") + Starting("op") + Edge <= starts + crashes
      BY <2>1
    <3>2. m \in Nat
      BY <1>5
    <3> QED BY <1>3, <1>4, <1>6, <1>7, <1>8, <3>1, <3>2
  <2>3. clip' + Starting("hub")' + Starting("op")' + Edge' <= starts' + crashes'
    <3>1. clip + Starting("hub") + Starting("op") + Edge <= starts + crashes /\ clip \in Nat
      BY <1>5, <2>1
    <3> QED BY <1>3, <1>6, <1>7, <1>8, <3>1
  <2> QED BY <1>2, <2>2, <2>3 DEF Numbered
<1>11. ASSUME NEW n \in Seqs, Known(n) \/ Known(n)' PROVE n <= seq \/ (Known(n)' /\ n = NextSeq)
  <2>1. Known(n)' => Known(n) \/ n = NextSeq
    BY <1>2, <1>3 DEF Known, Typed, DiskTyped
  <2> QED BY <1>11, <2>1 DEF Bounded
<1>12. ~Known(NextSeq)
  BY <1>5, <1>9 DEF Bounded
<1>13. thread'[t] = Idle /\ ThreadTyped' /\ \A u \in Threads \ {t} : thread'[u] = thread[u]
  BY <1>1, IdleIsDoing DEF Typed, ThreadTyped
<1>14. \A u \in Threads : thread[u].seq \in Nat
  BY SeqsAreNat DEF Typed, ThreadTyped, Doing
<1>15. floor \in Nat /\ pending \in Nat /\ (pending # 0 => pending \in Seqs)
  <2>1. floor \in Numbers /\ pending \in Numbers
    BY DEF Typed, NumbersTyped
  <2> QED BY <2>1, SeqsAreNat DEF Numbers
<1>16. Bounded'
  <2>1. floor' <= seq' /\ pending' <= seq'
    BY <1>2, <1>3, <1>5, <1>15 DEF Bounded
  <2>2. ASSUME NEW u \in Threads PROVE thread'[u].seq <= seq'
    BY <1>2, <1>5, <1>13, <1>14, IdleIsDoing DEF Bounded
  <2>3. ASSUME NEW n \in Seqs, Known(n)' PROVE n <= seq'
    BY <1>2, <1>5, <1>11, <2>3, SeqsAreNat
  <2> QED BY <2>1, <2>2, <2>3 DEF Bounded
<1>17. Handed'
  <2>1. queue' # 0 /\ queue' = seq' /\ enc'[queue'].at = "idle" /\ job'[queue'] = "none"
    BY <1>2, <1>3, <1>9, <1>12, SeqsAreNat DEF Known
  <2>2. ASSUME NEW u \in Threads, Works(u)' PROVE u # t /\ Works(u) /\ thread'[u] = thread[u]
    BY <1>13, <2>2, IdleIsDoing DEF Works
  <2>3. ASSUME NEW u \in Threads, Works(u)'
        PROVE  /\ thread'[u].seq \in Seqs \ {queue', pending'}
               /\ enc'[thread'[u].seq].at = "idle"
               /\ thread'[u].at # "rendering" => job'[thread'[u].seq] = "none"
    <3>1. thread[u].seq # NextSeq
      BY <1>5, <1>14 DEF Bounded
    <3> QED BY <1>2, <1>3, <2>2, <2>3, <3>1 DEF Handed
  <2>4. \A u, v \in Threads : Works(u)' /\ Works(v)' /\ thread'[u].seq = thread'[v].seq => u = v
    BY <2>2 DEF Handed
  <2>5. pending' # 0 => job'[pending'] # "none" /\ enc'[pending'].at \in {"idle", "leave"}
    BY <1>3 DEF Handed
  <2> QED BY <2>1, <2>3, <2>4, <2>5 DEF Handed
<1>18. ScalarsTyped'
  <2>1. reason' \in {"none", "armed", "manual"}
    <3>1. thread[t] \in Doing
      BY DEF Typed, ThreadTyped
    <3> QED BY <1>1, <1>2, <3>1 DEF Doing
  <2> QED BY <1>2, <1>3, <2>1 DEF Typed, ScalarsTyped
<1>19. NumbersTyped'
  BY <1>2, <1>3, <1>9 DEF Typed, NumbersTyped, Numbers
<1>20. EncTyped' /\ BusyCounts' /\ CountsTyped'
  BY <1>3 DEF Typed, EncTyped, BusyCounts, CountsTyped
<1>21. DiskTyped'
  <2>1. src \in [Seqs -> -1..1] /\ 0 \in -1..1
    BY DEF Typed, DiskTyped
  <2>2. src' \in [Seqs -> -1..1]
    BY <1>2, <2>1
  <2> QED BY <1>3, <2>2 DEF Typed, DiskTyped
<1> QED BY <1>10, <1>13, <1>16, <1>17, <1>18, <1>19, <1>20, <1>21 DEF Typed

-----------------------------------------------------------------------------
(* The end of a recording.                                                 *)

\* Stop takes the recording that runs from the writer.
LEMMA StopTakesKeeps ==
    ASSUME Book, NEW t \in Threads, StopTakes(t)
    PROVE  Book'
<1> USE DEF Book
<1>1. /\ state = "recording" /\ queue' = 0 /\ state' = "encoding" /\ reason' = "none"
      /\ thread' = [thread EXCEPT ![t].at = "finalising", ![t].seq = seq]
  BY DEF StopTakes
<1>2. UNCHANGED <<worth, seq, floor, pending, armSeen, recArmed, busy, preempt, proc, enc, wasArmed, ended,
                  tmp, clip, whole, src, job, seqFile, armed, starts, crashes, faults, finished>>
  BY DEF StopTakes, owed, arm, render, hub, kept, disk, bounds
<1>3. seq \in Seqs /\ queue = seq /\ enc[seq].at = "idle" /\ job[seq] = "none" /\ pending # seq /\ seq # 0
  <2>1. seq \in Numbers
    BY DEF Typed, NumbersTyped
  <2>2. queue # 0 /\ queue = seq
    BY <1>1 DEF Handed
  <2>3. seq \in Seqs
    BY <2>1, <2>2 DEF Numbers
  <2> QED BY <2>2, <2>3 DEF Handed
<1>4. /\ ThreadTyped' /\ thread'[t].at = "finalising" /\ thread'[t].seq = seq
      /\ \A u \in Threads \ {t} : thread'[u] = thread[u]
  BY <1>1, <1>3 DEF Typed, ThreadTyped, Doing, Numbers
<1>5. ScalarsTyped' /\ NumbersTyped' /\ EncTyped' /\ DiskTyped' /\ CountsTyped' /\ BusyCounts'
  BY <1>1, <1>2 DEF Typed, ScalarsTyped, NumbersTyped, EncTyped, DiskTyped, CountsTyped, BusyCounts, Numbers
<1>6. Bounded'
  <2>1. seq <= seq
    BY <1>3, SeqsAreNat
  <2> QED BY <1>2, <1>4, <2>1 DEF Bounded, Known
<1>7. Handed'
  <2>1. \A u \in Threads \ {t} : Works(u) => thread[u].seq # seq
    BY <1>3 DEF Handed
  <2>2. \A u \in Threads \ {t} : Works(u)' => Works(u) /\ thread'[u].seq = thread[u].seq
    BY <1>4 DEF Works
  <2>3. ASSUME NEW u \in Threads, Works(u)'
        PROVE  /\ thread'[u].seq \in Seqs \ {queue', pending'}
               /\ enc'[thread'[u].seq].at = "idle"
               /\ thread'[u].at # "rendering" => job'[thread'[u].seq] = "none"
    <3>1. 0 \notin Seqs
      BY SeqsAreNat
    <3>2. CASE u = t
      BY <1>1, <1>2, <1>3, <1>4, <3>2
    <3>3. CASE u # t
      <4>1. Works(u) /\ thread'[u] = thread[u]
        BY <1>4, <2>2, <2>3, <3>3
      <4>2. /\ thread[u].seq \in Seqs \ {queue, pending} /\ enc[thread[u].seq].at = "idle"
            /\ thread[u].at # "rendering" => job[thread[u].seq] = "none"
        BY <4>1 DEF Handed
      <4> QED BY <1>1, <1>2, <3>1, <4>1, <4>2
    <3> QED BY <3>2, <3>3
  <2>4. \A u, v \in Threads : Works(u)' /\ Works(v)' /\ thread'[u].seq = thread'[v].seq => u = v
    BY <1>4, <2>1, <2>2 DEF Handed
  <2>5. pending' # 0 => job'[pending'] # "none" /\ enc'[pending'].at \in {"idle", "leave"}
    BY <1>2 DEF Handed
  <2> QED BY <1>1, <2>3, <2>4, <2>5 DEF Handed
<1>8. Numbered'
  <2>1. Starting("hub")' <= Starting("hub") /\ Starting("op")' <= Starting("op") /\ Edge' = Edge
    BY <1>2, <1>4 DEF Starting, Threads, Edge
  <2>2. /\ Starting("hub") \in Int /\ Starting("op") \in Int /\ Edge \in Int
        /\ Starting("hub")' \in Int /\ Starting("op")' \in Int
    BY DEF Starting, Edge
  <2>3. starts \in Int /\ crashes \in Int
    BY BoundsAreNat DEF Typed, CountsTyped
  <2> QED BY <1>2, <1>5, <2>1, <2>2, <2>3, NumberedFrame
<1> QED BY <1>4, <1>5, <1>6, <1>7, <1>8 DEF Typed

LEMMA StopDiscardsKeeps ==
    ASSUME Book, NEW t \in Threads, StopDiscards(t)
    PROVE  Book'
<1> USE DEF Book
<1>1. /\ thread' = [thread EXCEPT ![t].at = "returning"] /\ src' = [src EXCEPT ![thread[t].seq] = -1]
      /\ state' \in {"ready", "idle"}
  BY DEF StopDiscards, Go
<1>2. UNCHANGED <<reason, queue, worth, seq, floor, pending, armSeen, recArmed, busy, preempt, proc, enc,
                  wasArmed, ended, tmp, clip, whole, job, seqFile, armed, starts, crashes, faults, finished>>
  BY DEF StopDiscards, owed, arm, render, hub, kept, bounds
<1>3. /\ ThreadTyped' /\ thread'[t].at = "returning" /\ thread'[t].seq = thread[t].seq
      /\ \A u \in Threads \ {t} : thread'[u] = thread[u]
  BY <1>1 DEF Typed, ThreadTyped, Doing
<1>4. DiskTyped' /\ \A m \in Seqs : job'[m] = job[m] /\ src'[m] \in {-1, src[m]}
  <2>1. src \in [Seqs -> -1..1] /\ -1 \in -1..1
    BY DEF Typed, DiskTyped
  <2>2. src' \in [Seqs -> -1..1] /\ \A m \in Seqs : src'[m] \in {-1, src[m]}
    BY <1>1, <2>1
  <2> QED BY <1>2, <2>2 DEF Typed, DiskTyped
<1>5. Bounded' /\ Handed'
  BY <1>1, <1>2, <1>3, <1>4, ThreadFrame
<1>6. ScalarsTyped' /\ NumbersTyped' /\ EncTyped' /\ CountsTyped' /\ BusyCounts'
  BY <1>1, <1>2 DEF Typed, ScalarsTyped, NumbersTyped, EncTyped, CountsTyped, BusyCounts
<1>7. Numbered'
  <2>1. Starting("hub")' <= Starting("hub") /\ Starting("op")' <= Starting("op") /\ Edge' = Edge
    BY <1>2, <1>3 DEF Starting, Threads, Edge
  <2>2. /\ Starting("hub") \in Int /\ Starting("op") \in Int /\ Edge \in Int
        /\ Starting("hub")' \in Int /\ Starting("op")' \in Int
    BY DEF Starting, Edge
  <2>3. starts \in Int /\ crashes \in Int
    BY BoundsAreNat DEF Typed, CountsTyped
  <2> QED BY <1>2, <1>6, <2>1, <2>2, <2>3, NumberedFrame
<1> QED BY <1>3, <1>4, <1>5, <1>6, <1>7 DEF Typed

\* A recording that is kept supersedes what was owed.
LEMMA StopKeepsKeeps ==
    ASSUME Book, NEW t \in Threads, StopKeeps(t)
    PROVE  Book'
<1> USE DEF Book
<1> DEFINE n == thread[t].seq
<1>1. /\ thread[t].at = "finalising" /\ thread' = [thread EXCEPT ![t].at = "writing"]
      /\ floor' = Max({floor, n}) /\ pending' = 0 /\ Discard({pending} \ {0}) /\ finished' \in {n, finished}
  BY DEF StopKeeps, Go
<1>2. UNCHANGED <<state, reason, queue, worth, seq, armSeen, recArmed, busy, preempt, proc, enc,
                  wasArmed, ended, tmp, clip, whole, seqFile, armed, starts, crashes, faults>>
  BY DEF StopKeeps, now, arm, render, hub, kept, bounds
<1>3. /\ ThreadTyped' /\ thread'[t].at = "writing" /\ thread'[t].seq = n
      /\ \A u \in Threads \ {t} : thread'[u] = thread[u]
  BY <1>1 DEF Typed, ThreadTyped, Doing
<1>4. DiskTyped' /\ \A m \in Seqs : \/ job'[m] = job[m] /\ src'[m] = src[m]
                                    \/ m = pending /\ job'[m] = "none" /\ src'[m] = -1
  BY <1>1 DEF Discard, Typed, DiskTyped
<1>5. n \in Seqs /\ n <= seq
  <2>1. Works(t)
    BY <1>1 DEF Works
  <2> QED BY <2>1 DEF Handed, Bounded
<1>6. floor \in Numbers /\ floor <= seq /\ seq \in Nat
  <2>1. floor \in Numbers /\ seq \in Numbers
    BY DEF Typed, NumbersTyped
  <2> QED BY <2>1, SeqsAreNat DEF Bounded
<1> HIDE DEF n
<1>7. floor' \in Numbers /\ floor' <= seq
  <2>1. floor' \in {floor, n}
    BY <1>1, <1>5, <1>6, SeqsAreNat, MaxOfPair
  <2> QED BY <1>5, <1>6, <2>1 DEF Numbers
<1>8. ScalarsTyped' /\ NumbersTyped' /\ EncTyped' /\ CountsTyped' /\ BusyCounts'
  BY <1>1, <1>2, <1>5, <1>7
     DEF Typed, ScalarsTyped, NumbersTyped, EncTyped, CountsTyped, BusyCounts, Numbers
<1>9. Bounded'
  <2>1. \A u \in Threads : thread'[u].seq <= seq'
    BY <1>2, <1>3, <1>5 DEF Bounded
  <2>2. ASSUME NEW m \in Seqs, Known(m)' PROVE m <= seq'
    BY <1>2, <1>4, <2>2 DEF Known, Bounded
  <2>3. pending' <= seq'
    BY <1>1, <1>2, <1>6
  <2> QED BY <1>2, <1>7, <2>1, <2>2, <2>3 DEF Bounded
<1>10. Handed'
  <2>1. \A u \in Threads : Works(u)' => Works(u) /\ thread'[u].seq = thread[u].seq
    BY <1>1, <1>3 DEF Works, n
  <2>2. ASSUME NEW u \in Threads, Works(u)'
        PROVE  /\ thread'[u].seq \in Seqs \ {queue', pending'}
               /\ enc'[thread'[u].seq].at = "idle"
               /\ thread'[u].at # "rendering" => job'[thread'[u].seq] = "none"
    <3>1. thread[u].seq \in Seqs \ {queue, pending} /\ enc[thread[u].seq].at = "idle"
      BY <2>1, <2>2 DEF Handed
    <3>2. thread'[u].at # "rendering" => thread[u].at # "rendering"
      BY <1>1, <1>3
    <3>3. thread[u].at # "rendering" => job[thread[u].seq] = "none"
      BY <2>1, <2>2 DEF Handed
    <3> QED BY <1>1, <1>2, <1>4, <2>1, <2>2, <3>1, <3>2, <3>3, SeqsAreNat
  <2>3. \A u, v \in Threads : Works(u)' /\ Works(v)' /\ thread'[u].seq = thread'[v].seq => u = v
    BY <2>1 DEF Handed
  <2>4. queue' # 0 => queue' = seq' /\ enc'[queue'].at = "idle" /\ job'[queue'] = "none"
    <3>1. queue # 0 => queue \in Seqs
      BY DEF Typed, NumbersTyped, Numbers
    <3> QED BY <1>2, <1>4, <3>1 DEF Handed
  <2>5. state' = "recording" => queue' # 0
    BY <1>2 DEF Handed
  <2> QED BY <1>1, <2>2, <2>3, <2>4, <2>5 DEF Handed
<1>11. Numbered'
  <2>1. Starting("hub")' <= Starting("hub") /\ Starting("op")' <= Starting("op") /\ Edge' = Edge
    BY <1>2, <1>3 DEF Starting, Threads, Edge
  <2>2. /\ Starting("hub") \in Int /\ Starting("op") \in Int /\ Edge \in Int
        /\ Starting("hub")' \in Int /\ Starting("op")' \in Int
    BY DEF Starting, Edge
  <2>3. starts \in Int /\ crashes \in Int
    BY BoundsAreNat DEF Typed, CountsTyped
  <2> QED BY <1>2, <1>8, <2>1, <2>2, <2>3, NumberedFrame
<1> QED BY <1>3, <1>4, <1>8, <1>9, <1>10, <1>11 DEF Typed

\* A thread starts the encoder of the recording it has in hand.
LEMMA HandsOver ==
    ASSUME Book, NEW t \in Threads, NEW e \in Encoders, NEW d \in Doing,
           Works(t), thread[t].at # "finalising",
           thread' = [thread EXCEPT ![t] = d], d.at \in {"idle", "returning"}, d.seq \in {0, thread[t].seq},
           enc' = [enc EXCEPT ![thread[t].seq] = e], e.at = "born",
           DiskTyped', \A m \in Seqs \ {thread[t].seq} : job'[m] = job[m], src' = src,
           UNCHANGED <<queue, worth, seq, floor, pending, armSeen, recArmed, busy, proc, wasArmed, ended,
                       tmp, clip, whole, seqFile, armed, starts, crashes, finished>>,
           preempt' = FALSE, faults' \in 0..MaxFaults, reason' \in {reason, "armed"},
           state' \in {state, "ready", "encoding"}
    PROVE  Book'
<1> USE DEF Book
<1> DEFINE n == thread[t].seq
<1>1. n \in Seqs \ {queue, pending} /\ enc[n].at = "idle" /\ n <= seq
  BY DEF Handed, Bounded
<1>2. /\ ThreadTyped' /\ thread'[t] = d /\ \A u \in Threads \ {t} : thread'[u] = thread[u]
      /\ thread[t] \in Doing
  BY DEF Typed, ThreadTyped
<1>3. EncTyped' /\ enc'[n] = e /\ \A m \in Seqs \ {n} : enc'[m] = enc[m]
  BY <1>1 DEF Typed, EncTyped
<1>4. \A u \in Threads : Works(u)' => u # t /\ Works(u) /\ thread'[u] = thread[u] /\ thread[u].seq # n
  BY <1>2 DEF Works, Handed
<1> HIDE DEF n
<1>5. BusyCounts'
  <2>1. \A m \in Seqs : Begun(enc'[m]) <=> Begun(enc[m])
    BY <1>1, <1>3 DEF Begun
  <2> QED BY <2>1, BusyStays DEF Typed
<1>6. Bounded'
  <2>1. \A u \in Threads : thread'[u].seq <= seq'
    <3>1. 0 <= seq
      <4>1. seq \in Numbers
        BY DEF Typed, NumbersTyped
      <4> QED BY <4>1, SeqsAreNat
    <3> QED BY <1>1, <1>2, <3>1 DEF Bounded, n
  <2>2. ASSUME NEW m \in Seqs, Known(m)' PROVE m <= seq'
    BY <1>1, <1>3, <2>2 DEF Known, Bounded, n
  <2> QED BY <2>1, <2>2 DEF Bounded
<1>7. Handed'
  <2>1. ASSUME NEW u \in Threads, Works(u)'
        PROVE  /\ thread'[u].seq \in Seqs \ {queue', pending'}
               /\ enc'[thread'[u].seq].at = "idle"
               /\ thread'[u].at # "rendering" => job'[thread'[u].seq] = "none"
    <3>1. /\ thread[u].seq \in Seqs \ {queue, pending, n} /\ enc[thread[u].seq].at = "idle"
          /\ thread[u].at # "rendering" => job[thread[u].seq] = "none"
      BY <1>4, <2>1 DEF Handed
    <3> QED BY <1>3, <1>4, <2>1, <3>1 DEF n
  <2>2. \A u, v \in Threads : Works(u)' /\ Works(v)' /\ thread'[u].seq = thread'[v].seq => u = v
    BY <1>4 DEF Handed
  <2>3. queue' # 0 => queue' = seq' /\ enc'[queue'].at = "idle" /\ job'[queue'] = "none"
    <3>1. queue # 0 => queue \in Seqs \ {n}
      BY <1>1 DEF Typed, NumbersTyped, Numbers
    <3> QED BY <1>3, <3>1 DEF Handed, n
  <2>4. pending' # 0 => job'[pending'] # "none" /\ enc'[pending'].at \in {"idle", "leave"}
    <3>1. pending # 0 => pending \in Seqs \ {n}
      BY <1>1 DEF Typed, NumbersTyped, Numbers
    <3> QED BY <1>3, <3>1 DEF Handed, n
  <2>5. state' = "recording" => queue' # 0
    BY DEF Handed
  <2> QED BY <2>1, <2>2, <2>3, <2>4, <2>5 DEF Handed
<1>8. ScalarsTyped' /\ NumbersTyped' /\ CountsTyped'
  BY DEF Typed, ScalarsTyped, NumbersTyped, CountsTyped
<1>9. Numbered'
  <2>1. Starting("hub")' <= Starting("hub") /\ Starting("op")' <= Starting("op") /\ Edge' = Edge
    BY <1>2 DEF Starting, Threads, Edge
  <2>2. /\ Starting("hub") \in Int /\ Starting("op") \in Int /\ Edge \in Int
        /\ Starting("hub")' \in Int /\ Starting("op")' \in Int
    BY DEF Starting, Edge
  <2>3. starts \in Int /\ crashes \in Int
    BY BoundsAreNat DEF Typed, CountsTyped
  <2> QED BY <1>8, <2>1, <2>2, <2>3, NumberedFrame
<1> QED BY <1>2, <1>3, <1>5, <1>6, <1>7, <1>8, <1>9 DEF Typed

LEMMA HandingOverKeeps ==
    ASSUME Book, MaybeRenderPending \/ \E t \in Threads : StopWrites(t)
    PROVE  Book'
<1> USE DEF Book
<1>1. ASSUME MaybeRenderPending PROVE Book'
  <2> DEFINE n == thread["hub"].seq
             e == [at |-> "born", quick |-> job[n] = "quick"]
  <2>1. "hub" \in Threads /\ thread["hub"].at = "rendering" /\ Works("hub")
    BY <1>1 DEF MaybeRenderPending, Works, Threads
  <2>2. e \in Encoders /\ e.at = "born" /\ enc' = [enc EXCEPT ![n] = e]
    BY <1>1 DEF MaybeRenderPending, Encoders, Points
  <2>3. Idle \in Doing /\ Idle.at = "idle" /\ Idle.seq = 0 /\ thread' = [thread EXCEPT !["hub"] = Idle]
    BY <1>1, IdleIsDoing DEF MaybeRenderPending
  <2>4. UNCHANGED <<queue, worth, seq, floor, pending, armSeen, recArmed, busy, proc, wasArmed, ended,
                    tmp, clip, whole, seqFile, armed, starts, crashes, finished, job, src, faults>>
    BY <1>1 DEF MaybeRenderPending, owed, arm, hub, kept, disk, bounds
  <2>5. preempt' = FALSE /\ reason' = "armed" /\ state' \in {"ready", "encoding"}
    BY <1>1 DEF MaybeRenderPending
  <2>6. DiskTyped' /\ faults' \in 0..MaxFaults
    BY <2>4 DEF Typed, DiskTyped, CountsTyped
  <2> HIDE DEF e
  <2> QED BY <2>1, <2>2, <2>3, <2>4, <2>5, <2>6, HandsOver
<1>2. ASSUME NEW t \in Threads, StopWrites(t) PROVE Book'
  <2> DEFINE n == thread[t].seq
             e == [at |-> "born", quick |-> FALSE]
             d == [thread[t] EXCEPT !.at = "returning"]
  <2>1. thread[t].at = "writing" /\ Works(t)
    BY <1>2 DEF StopWrites, Works
  <2>2. e \in Encoders /\ e.at = "born" /\ enc' = [enc EXCEPT ![n] = e]
    BY <1>2 DEF StopWrites, Encoders, Points
  <2>3. d \in Doing /\ d.at = "returning" /\ d.seq = n
    BY DEF Typed, ThreadTyped, Doing
  <2>4. thread' = [thread EXCEPT ![t] = d]
    BY <1>2 DEF StopWrites, Go
  <2>5. UNCHANGED <<state, reason, queue, worth, seq, floor, pending, armSeen, recArmed, busy, proc, wasArmed,
                    ended, tmp, clip, whole, seqFile, armed, starts, crashes, finished, src>>
    BY <1>2 DEF StopWrites, now, owed, arm, hub, kept
  <2>6. preempt' = FALSE
    BY <1>2 DEF StopWrites
  <2>7. DiskTyped' /\ \A m \in Seqs \ {n} : job'[m] = job[m]
    <3>1. job' = job \/ job' = [job EXCEPT ![n] = "owed"]
      BY <1>2 DEF StopWrites
    <3> QED BY <2>5, <3>1 DEF Typed, DiskTyped
  <2>8. faults' \in 0..MaxFaults
    <3>1. faults \in 0..MaxFaults /\ MaxFaults \in Nat
      BY BoundsAreNat DEF Typed, CountsTyped
    <3>2. faults' = faults \/ (faults < MaxFaults /\ faults' = faults + 1)
      BY <1>2 DEF StopWrites
    <3> QED BY <3>1, <3>2
  <2> HIDE DEF e, d
  <2> QED BY <2>1, <2>2, <2>3, <2>4, <2>5, <2>6, <2>7, <2>8, HandsOver
<1> QED BY <1>1, <1>2

-----------------------------------------------------------------------------
(* A crash.                                                                *)

LEMMA MinOfPair ==
    ASSUME NEW a \in Int, NEW b \in Int
    PROVE  Min({a, b}) \in {a, b} /\ Min({a, b}) <= a /\ Min({a, b}) <= b
<1> DEFINE m == IF a <= b THEN a ELSE b
<1>1. m \in {a, b} /\ \A x \in {a, b} : m <= x
  OBVIOUS
<1>2. \A y \in {a, b} : (\A x \in {a, b} : y <= x) => y = m
  BY <1>1
<1>3. Min({a, b}) = m
  <2> HIDE DEF m
  <2> QED BY <1>1, <1>2 DEF Min
<1> QED BY <1>1, <1>3

\* What the next process starts from: at most one recording, that is in no hands,
\* and the newest number it can see.
LEMMA CrashDoes ==
    ASSUME Book, Crash
    PROVE  \E left \in [Seqs -> -1..1], newest \in Numbers, adopted \in Numbers :
             /\ \A n \in Seqs \ {queue} : left[n] = src[n]
             /\ \A n \in Seqs : left[n] <= src[n]
             /\ newest <= seq
             /\ newest # 0 => job[newest] # "none" \/ left[newest] = 1
             /\ \A n \in Seqs : job[n] # "none" \/ left[n] = 1 => n <= newest
             /\ adopted = (IF newest = 0 \/ newest < clip \/ left[newest] < 0 THEN 0 ELSE newest)
             /\ job' = [n \in Seqs |-> IF n # adopted THEN "none"
                                       ELSE IF job[n] = "none" THEN "owed" ELSE job[n]]
             /\ src' = [n \in Seqs |-> IF n # adopted THEN -1 ELSE left[n]]
             /\ seqFile' \in {0, seqFile} /\ pending' = adopted /\ seq' = newest
             /\ state' \in {"idle", "ready", "pending"}
<1> USE DEF Book
<1>1. PICK flushed \in 0..1, counter \in {0, seqFile} :
        LET left == [n \in Seqs |-> IF n = queue THEN Min({src[n], flushed}) ELSE src[n]]
            jobs == {n \in Seqs : job[n] # "none"} \cup Recovered(left)
            newest == IF jobs = {} THEN 0 ELSE Max(jobs)
            adopted == IF newest = 0 \/ newest < clip \/ left[newest] < 0 THEN 0 ELSE newest
        IN  /\ job' = [n \in Seqs |-> IF n # adopted THEN "none" ELSE IF job[n] = "none" THEN "owed" ELSE job[n]]
            /\ src' = [n \in Seqs |-> IF n # adopted THEN -1 ELSE left[n]]
            /\ seqFile' = counter /\ pending' = adopted /\ seq' = newest
            /\ state' = IF adopted # 0 /\ job'[adopted] # "quick" THEN "pending"
                        ELSE IF clip # 0 THEN "ready" ELSE "idle"
  BY Zenon DEF Crash
<1> DEFINE left == [n \in Seqs |-> IF n = queue THEN Min({src[n], flushed}) ELSE src[n]]
           jobs == {n \in Seqs : job[n] # "none"} \cup Recovered(left)
           newest == IF jobs = {} THEN 0 ELSE Max(jobs)
           adopted == IF newest = 0 \/ newest < clip \/ left[newest] < 0 THEN 0 ELSE newest
<1>2. src \in [Seqs -> -1..1]
  BY DEF Typed, DiskTyped
<1>3. \A n \in Seqs : Min({src[n], flushed}) \in {src[n], flushed} /\ Min({src[n], flushed}) <= src[n]
  <2>1. flushed \in Int /\ \A n \in Seqs : src[n] \in Int
    BY <1>2
  <2> QED BY <2>1, MinOfPair
<1>4. left \in [Seqs -> -1..1] /\ (\A n \in Seqs \ {queue} : left[n] = src[n])
      /\ \A n \in Seqs : left[n] <= src[n]
  BY <1>2, <1>3
<1>5. jobs \subseteq Seqs
  BY DEF Recovered
<1>6. newest \in Numbers /\ (newest # 0 => newest \in jobs) /\ \A n \in jobs : n <= newest
  <2> HIDE DEF jobs
  <2>1. CASE jobs = {}
    BY <2>1 DEF Numbers
  <2>2. CASE jobs # {}
    <3>1. Max(jobs) \in jobs /\ \A n \in jobs : n <= Max(jobs)
      BY <1>5, <2>2, GreatestSeq
    <3> QED BY <1>5, <2>2, <3>1 DEF Numbers
  <2> QED BY <2>1, <2>2
<1>7. \A n \in Seqs : n \in jobs <=> (job[n] # "none" \/ left[n] = 1)
  BY DEF Recovered
<1>8. /\ job' = [n \in Seqs |-> IF n # adopted THEN "none" ELSE IF job[n] = "none" THEN "owed" ELSE job[n]]
      /\ src' = [n \in Seqs |-> IF n # adopted THEN -1 ELSE left[n]]
      /\ seqFile' \in {0, seqFile} /\ pending' = adopted /\ seq' = newest
  BY <1>1, Zenon
<1>9. state' \in {"idle", "ready", "pending"}
  BY <1>1, Zenon
<1> HIDE DEF left, jobs, newest
<1>10. adopted \in Numbers
  BY <1>6 DEF Numbers
<1>11. newest <= seq
  <2>1. seq \in Nat
    BY SeqsAreNat DEF Typed, NumbersTyped
  <2>2. \A n \in jobs : n <= seq
    <3>1. ASSUME NEW n \in Seqs, left[n] = 1 PROVE src[n] # -1
      BY <1>2, <1>4, <3>1
    <3> QED BY <1>5, <1>7, <3>1 DEF Bounded, Known
  <2> QED BY <1>6, <2>1, <2>2
<1>12. newest # 0 => job[newest] # "none" \/ left[newest] = 1
  BY <1>5, <1>6, <1>7
<1>13. \A n \in Seqs : job[n] # "none" \/ left[n] = 1 => n <= newest
  BY <1>6, <1>7
<1>14. adopted = (IF newest = 0 \/ newest < clip \/ left[newest] < 0 THEN 0 ELSE newest)
  OBVIOUS
<1> HIDE DEF adopted
<1> QED BY <1>4, <1>6, <1>8, <1>9, <1>10, <1>11, <1>12, <1>13, <1>14

LEMMA CrashKeeps ==
    ASSUME Book, Crash
    PROVE  Book'
<1> USE DEF Book
<1>1. PICK left \in [Seqs -> -1..1], newest \in Numbers, adopted \in Numbers :
             /\ newest <= seq /\ adopted \in {0, newest}
             /\ job' = [n \in Seqs |-> IF n # adopted THEN "none"
                                       ELSE IF job[n] = "none" THEN "owed" ELSE job[n]]
             /\ src' = [n \in Seqs |-> IF n # adopted THEN -1 ELSE left[n]]
             /\ seqFile' \in {0, seqFile} /\ pending' = adopted /\ seq' = newest
             /\ state' \in {"idle", "ready", "pending"}
  BY CrashDoes
<1>2. /\ tmp' = {} /\ reason' = "none" /\ queue' = 0 /\ floor' = 0 /\ armSeen' = FALSE
      /\ recArmed' = FALSE /\ busy' = 0 /\ preempt' = FALSE /\ proc' = 0 /\ wasArmed' = FALSE
      /\ ended' = FALSE /\ crashes < MaxCrashes /\ crashes' = crashes + 1
      /\ enc' = [n \in Seqs |-> NoEncoder] /\ thread' = [t \in Threads |-> Idle]
      /\ UNCHANGED <<clip, whole, worth, armed, starts, faults, finished>>
  BY DEF Crash
<1>3. \A x \in {seq, clip, seqFile, newest, adopted} : x \in Nat
  <2>1. {seq, clip, seqFile, newest, adopted} \subseteq Numbers
    BY DEF Typed, NumbersTyped
  <2> QED BY <2>1, SeqsAreNat
<1>4. ThreadTyped' /\ \A t \in Threads : thread'[t].at = "idle" /\ thread'[t].seq = 0
  BY <1>2, IdleIsDoing DEF ThreadTyped
<1>5. EncTyped' /\ \A n \in Seqs : enc'[n].at = "idle"
  BY <1>2 DEF NoEncoder, EncTyped, Encoders, Points
<1>6. BusyCounts'
  <2>1. {n \in Seqs : enc'[n].at \notin {"idle", "born"}} = {}
    BY <1>5
  <2>2. Cardinality({}) = 0
    BY FS_EmptySet
  <2> QED BY <1>2, <2>1, <2>2 DEF BusyCounts
<1>7. DiskTyped'
  <2>1. job \in [Seqs -> {"none", "owed", "quick"}] /\ -1 \in -1..1
    BY DEF Typed, DiskTyped
  <2> QED BY <1>1, <2>1 DEF DiskTyped
<1>8. CountsTyped'
  BY <1>2, BoundsAreNat DEF Typed, CountsTyped
<1>9. ScalarsTyped' /\ NumbersTyped'
  BY <1>1, <1>2 DEF Typed, ScalarsTyped, NumbersTyped, Numbers
<1>10. Numbered'
  <2>1. Starting("hub")' = 0 /\ Starting("op")' = 0 /\ Edge' \in {0, 1}
    BY <1>4 DEF Starting, Edge, Threads
  <2>2. starts \in Nat /\ crashes \in Nat
    BY BoundsAreNat DEF Typed, CountsTyped
  <2>3. ASSUME NEW x \in {seq, clip, seqFile} PROVE x <= starts + crashes
    <3>1. x + Starting("hub") + Starting("op") + Edge <= starts + crashes
      BY DEF Numbered
    <3>2. Starting("hub") \in {0, 1} /\ Starting("op") \in {0, 1} /\ Edge \in {0, 1}
      BY DEF Starting, Edge
    <3> QED BY <1>3, <2>2, <3>1, <3>2
  <2>4. ASSUME NEW x \in {seq', clip', seqFile'} PROVE x \in Nat /\ x <= starts + crashes
    <3>1. 0 <= starts + crashes
      BY <2>2
    <3>2. newest <= starts + crashes
      <4>1. seq <= starts + crashes
        BY <2>3
      <4> QED BY <1>1, <1>3, <2>2, <4>1
    <3> QED BY <1>1, <1>2, <1>3, <2>3, <3>1, <3>2
  <2> QED BY <1>2, <2>1, <2>2, <2>4 DEF Numbered
<1>11. Bounded'
  <2>1. floor' <= seq' /\ pending' <= seq' /\ \A t \in Threads : thread'[t].seq <= seq'
    BY <1>1, <1>2, <1>3, <1>4
  <2>2. ASSUME NEW n \in Seqs, Known(n)' PROVE n <= seq'
    <3>1. n = adopted
      BY <1>1, <1>5, <2>2 DEF Known
    <3> QED BY <1>1, <1>3, <3>1, SeqsAreNat
  <2> QED BY <2>1, <2>2 DEF Bounded
<1>12. Handed'
  <2>1. pending' # 0 => job'[pending'] # "none" /\ enc'[pending'].at = "idle"
    BY <1>1, <1>5 DEF Numbers
  <2>2. \A t \in Threads : ~Works(t)'
    BY <1>4 DEF Works
  <2>3. queue' = 0 /\ state' # "recording"
    BY <1>1, <1>2
  <2> QED BY <2>1, <2>2, <2>3 DEF Handed
<1> QED BY <1>4, <1>5, <1>6, <1>7, <1>8, <1>9, <1>10, <1>11, <1>12 DEF Typed

-----------------------------------------------------------------------------
(* The book is kept.                                                       *)

LEMMA InitBooks == Init => Book
<1> SUFFICES ASSUME Init PROVE Book
  OBVIOUS
<1>1. /\ state = "idle" /\ reason = "none" /\ queue = 0 /\ worth = {} /\ seq = 0 /\ floor = 0 /\ pending = 0
      /\ armSeen = FALSE /\ recArmed = FALSE /\ busy = 0 /\ preempt = FALSE /\ proc = 0 /\ tmp = {}
      /\ wasArmed = FALSE /\ ended = FALSE /\ clip = 0 /\ seqFile = 0 /\ armed = FALSE /\ starts = 0
      /\ crashes = 0 /\ faults = 0 /\ finished = 0 /\ whole = FALSE
  BY Zenon DEF Init
<1>2. /\ thread = [t \in Threads |-> Idle] /\ enc = [n \in Seqs |-> NoEncoder]
      /\ src = [n \in Seqs |-> -1] /\ job = [n \in Seqs |-> "none"]
  BY Zenon DEF Init
<1>3. ScalarsTyped /\ NumbersTyped
  BY <1>1 DEF ScalarsTyped, NumbersTyped, Numbers
<1>4. ThreadTyped /\ \A t \in Threads : thread[t].at = "idle" /\ thread[t].seq = 0
  BY <1>2, IdleIsDoing DEF ThreadTyped
<1>5. EncTyped /\ \A n \in Seqs : enc[n].at = "idle"
  BY <1>2 DEF NoEncoder, EncTyped, Encoders, Points
<1>6. DiskTyped
  BY <1>2 DEF DiskTyped
<1>7. CountsTyped
  BY <1>1, BoundsAreNat DEF CountsTyped
<1>8. BusyCounts
  <2>1. {n \in Seqs : enc[n].at \notin {"idle", "born"}} = {}
    BY <1>5
  <2>2. Cardinality({}) = 0
    BY FS_EmptySet
  <2> QED BY <1>1, <2>1, <2>2 DEF BusyCounts
<1>9. Numbered
  BY <1>1, <1>4 DEF Numbered, Starting, Edge, Threads
<1>10. Bounded
  BY <1>1, <1>2, <1>4, <1>5 DEF Bounded, Known
<1>11. Handed
  BY <1>1, <1>4 DEF Handed, Works
<1> QED BY <1>3, <1>4, <1>5, <1>6, <1>7, <1>8, <1>9, <1>10, <1>11 DEF Book, Typed

LEMMA StutterKeeps ==
    ASSUME Book, UNCHANGED vars
    PROVE  Book'
<1>1. UNCHANGED <<state, reason, seq, queue, worth, floor, pending, armSeen, recArmed, busy, preempt, proc,
                  thread, enc, wasArmed, ended, tmp, clip, whole, src, job, seqFile, armed, starts, crashes, faults,
                  finished>>
  BY DEF vars, now, owed, arm, render, hub, kept, disk, bounds
<1>2. Typed'
  BY <1>1 DEF Book, Typed, ScalarsTyped, NumbersTyped, ThreadTyped, EncTyped, DiskTyped, CountsTyped, BusyCounts
<1>3. Numbered' /\ Bounded' /\ Handed'
  BY <1>1 DEF Book, Numbered, Starting, Edge, Bounded, Known, Handed, Works
<1> QED BY <1>2, <1>3 DEF Book

LEMMA NextKeepsBook == Book /\ [Next]_vars => Book'
<1> SUFFICES ASSUME Book, [Next]_vars PROVE Book'
  OBVIOUS
<1>1. CASE UNCHANGED vars
  BY <1>1, StutterKeeps
<1>2. CASE OnArmed \/ Repeats \/ MaybeRenderPending
  BY <1>2, OnArmedKeeps, RepeatsKeeps, HandingOverKeeps
<1>3. ASSUME NEW t \in Threads, StartBegins(t) \/ Stop(t) PROVE Book'
  BY <1>3, StartBeginsKeeps, StopTakesKeeps, CallsKeep, StopKeepsKeeps, StopDiscardsKeeps, HandingOverKeeps,
     ReturnsKeeps DEF Stop
<1>4. ASSUME NEW n \in Seqs, Encoder(n) PROVE Book'
  BY <1>4, EncoderKeeps
<1>5. CASE Arms \/ Disarms \/ OfferFrames \/ Earns \/ WriterFails
  BY <1>5, WorldKeeps
<1>6. CASE FlightEnds \/ RecordStart \/ RecordStop \/ Crash
  BY <1>6, CallsKeep, RecordStartKeeps, CrashKeeps
<1> QED BY <1>1, <1>2, <1>3, <1>4, <1>5, <1>6 DEF Next, Work

\* Every variable of the recorder keeps to its values, whatever the threads, the
\* encoders and the disk do: among them the count of busy encoders, on which it
\* depends whether anything is rendered, and the numbers, that never run out of the bound.
THEOREM TypesHold == Spec => []TypeOK
<1>1. Book => TypeOK
  BY TypedIsTypeOK DEF Book
<1> QED BY <1>1, InitBooks, NextKeepsBook, PTL DEF Spec

-----------------------------------------------------------------------------
(* The frames.                                                             *)

\* Stop works on the newest recording, and none runs beside it.
Joined == \A t \in Threads : thread[t].at = "finalising" => thread[t].seq = seq /\ queue = 0

\* A job, or a thread that is about to write one, has its frames.
Framed ==
    /\ \A n \in Seqs : /\ job[n] # "none" => src[n] = 1
                       /\ job[n] = "quick" => n <= clip
    /\ \A t \in Threads : thread[t].at = "writing" => src[thread[t].seq] = 1

\* An encoder that has a clip, or is about to give its frames up for one.
Clipped(n) ==
    /\ enc[n].quick \/ enc[n].at = "mark" => n <= clip
    /\ enc[n].at \in {"settle", "drop"} => n <= clip \/ n < floor
    /\ enc[n].at = "drop" => job[n] = "none"

FloorKept == finished # 0 => floor <= finished

\* The recording in progress, and the one stop works on, are newer than the clip.
Ahead == /\ queue # 0 => clip < queue
         /\ \A t \in Threads : thread[t].at = "finalising" => clip < thread[t].seq
\* A clip that stands for what was kept was written by its own render alone.
Watchable == finished # 0 /\ clip >= finished => whole

\* Frames that a boot will find: complete, and not of a recording in progress.
Closed(n) == src[n] = 1 /\ n # queue /\ \A t \in Threads : thread[t].at = "finalising" => thread[t].seq # n
Survives == finished # 0 => clip >= finished \/ \E n \in Seqs : n >= finished /\ Closed(n)

Footage == /\ Joined /\ Framed /\ (\A n \in Seqs : Clipped(n)) /\ FloorKept
           /\ Ahead /\ Watchable /\ Survives

\* What a step may do to a recording: leave its frames, or drop them for a reason.
Spared(m) ==
    \/ job'[m] \in {job[m], "none"} /\ (src'[m] = src[m] \/ m = queue)
    \/ job'[m] = "quick" /\ job[m] # "none" /\ m <= clip' /\ src'[m] = src[m]
    \/ job'[m] = "owed" /\ src[m] = 1 /\ src'[m] = 1
Superseded(m) ==
    \/ m <= clip' \/ m < floor \/ m < finished \/ finished' = 0
    \/ m < pending /\ job'[pending] = job[pending]
Dropped(m) ==
    /\ job'[m] = "none"
    /\ \/ \E t \in Threads : thread[t].at = "finalising" /\ thread[t].seq = m
       \/ (enc[m].at # "idle" \/ m = pending) /\ Superseded(m)
Steady(m) ==
    /\ enc'[m].quick = enc[m].quick /\ job'[m] \in {job[m], "none"}
    /\ enc'[m].at = enc[m].at \/ enc'[m].at \notin {"mark", "settle", "drop"}

LEMMA NumbersAreNat ==
    ASSUME Book
    PROVE  /\ {queue, seq, floor, pending, clip, finished} \subseteq Nat
           /\ queue # 0 => queue \in Seqs
           /\ pending # 0 => pending \in Seqs
<1>1. {queue, seq, floor, pending, clip, finished} \subseteq Numbers
  BY DEF Book, Typed, NumbersTyped
<1> QED BY <1>1, SeqsAreNat DEF Numbers

\* A step that begins no recording and keeps none.
LEMMA FootageFrame ==
    ASSUME Book, Book', Footage,
           UNCHANGED <<seq, queue, floor>>, clip' >= clip, finished' \in {finished, 0},
           UNCHANGED <<clip, whole>> \/ (Ahead' /\ Watchable'),
           \A t \in Threads : thread'[t].at \in {"finalising", "writing"} => thread'[t] = thread[t],
           \A m \in Seqs : Steady(m) \/ Clipped(m)',
           \A m \in Seqs : Spared(m) \/ Dropped(m)
    PROVE  Footage'
<1> USE DEF Footage
<1>1. /\ {queue, floor, pending, clip, finished, clip', finished'} \subseteq Nat
      /\ queue # 0 => queue \in Seqs
      /\ pending # 0 => pending \in Seqs
  <2>1. {clip', finished'} \subseteq Nat
    <3>1. {clip', finished'} \subseteq Numbers
      BY DEF Book, Typed, NumbersTyped
    <3> QED BY <3>1, SeqsAreNat
  <2> QED BY <2>1, NumbersAreNat
<1>2. Joined'
  BY DEF Joined
<1>3. ASSUME NEW m \in Seqs PROVE /\ job'[m] # "none" => src'[m] = 1
                                  /\ job'[m] = "quick" => m <= clip'
  <2>1. m = queue => job[m] = "none"
    BY SeqsAreNat DEF Book, Handed
  <2>2. /\ job[m] # "none" => src[m] = 1
        /\ job[m] = "quick" => m <= clip
    BY DEF Framed
  <2>3. m \in Nat /\ (m <= clip => m <= clip')
    BY <1>1, SeqsAreNat
  <2>4. CASE Dropped(m)
    BY <2>4 DEF Dropped
  <2>5. CASE Spared(m)
    BY <2>1, <2>2, <2>3, <2>5 DEF Spared
  <2> QED BY <2>4, <2>5
<1>4. ASSUME NEW t \in Threads, thread'[t].at = "writing" PROVE src'[thread'[t].seq] = 1
  <2>1. /\ thread[t].at = "writing" /\ thread'[t].seq = thread[t].seq /\ Works(t)
    BY <1>4 DEF Works
  <2>2. /\ thread[t].seq \in Seqs \ {queue, pending} /\ enc[thread[t].seq].at = "idle"
        /\ src[thread[t].seq] = 1
    BY <2>1 DEF Book, Handed, Framed
  <2>3. ASSUME NEW u \in Threads, thread[u].at = "finalising" PROVE thread[u].seq # thread[t].seq
    <3>1. Works(u) /\ u # t
      BY <2>1, <2>3 DEF Works
    <3> QED BY <2>1, <3>1 DEF Book, Handed
  <2>4. ~Dropped(thread[t].seq)
    BY <2>2, <2>3 DEF Dropped
  <2> QED BY <2>1, <2>2, <2>4 DEF Spared
<1>5. ASSUME NEW m \in Seqs PROVE Clipped(m)'
  <2>1. m \in Nat /\ (m <= clip => m <= clip')
    BY <1>1, SeqsAreNat
  <2>2. CASE Steady(m)
    BY <2>1, <2>2 DEF Steady, Clipped
  <2> QED BY <2>2
<1>6. FloorKept'
  BY DEF FloorKept
<1>7. Survives'
  <2> SUFFICES ASSUME finished' # 0, ~(clip' >= finished')
               PROVE  \E n \in Seqs : n >= finished' /\ Closed(n)'
    BY DEF Survives
  <2>1. finished' = finished /\ ~(clip >= finished)
    BY <1>1
  <2>2. PICK w \in Seqs : w >= finished /\ Closed(w)
    BY <2>1 DEF Survives
  <2>3. w \in Nat
    BY SeqsAreNat
  <2>4. \A m \in Seqs : Closed(m) /\ src'[m] = 1 => Closed(m)'
    BY DEF Closed
  <2>5. CASE src'[w] = 1
    BY <2>1, <2>2, <2>4, <2>5
  <2>6. CASE src'[w] # 1
    <3>1. Dropped(w)
      BY <2>2, <2>6 DEF Spared, Closed
    <3>2. Superseded(w)
      BY <2>2, <3>1 DEF Dropped, Closed
    <3>3. ~(w <= clip') /\ ~(w < floor) /\ ~(w < finished) /\ finished' # 0
      BY <1>1, <2>1, <2>2, <2>3 DEF FloorKept
    <3>4. w < pending /\ job'[pending] = job[pending]
      BY <3>2, <3>3 DEF Superseded
    <3>5. pending \in Seqs /\ pending # 0
      BY <1>1, <2>3, <3>4
    <3>6. job[pending] # "none"
      BY <3>5 DEF Book, Handed
    <3>7. src[pending] = 1 /\ src'[pending] = 1
      BY <1>3, <3>4, <3>5, <3>6 DEF Framed
    <3>8. pending # queue /\ \A t \in Threads : thread[t].at = "finalising" => thread[t].seq # pending
      BY <3>5, <3>6 DEF Book, Handed, Works
    <3>9. pending >= finished'
      BY <1>1, <2>1, <2>2, <2>3, <3>4
    <3> QED BY <2>4, <3>5, <3>7, <3>8, <3>9 DEF Closed
  <2> QED BY <2>5, <2>6
<1>8. Ahead' /\ Watchable'
  <2>1. CASE UNCHANGED <<clip, whole>>
    BY <2>1 DEF Ahead, Watchable
  <2> QED BY <2>1
<1> QED BY <1>2, <1>3, <1>4, <1>5, <1>6, <1>7, <1>8 DEF Framed

-----------------------------------------------------------------------------
(* The frames, step by step.                                               *)

\* An encoder that leaves the jobs and the frames alone.
LEMMA MovingKeepsFrames ==
    ASSUME Book, Book', Footage, NEW n \in Seqs, NEW point \in Points, Move(n, point),
           UNCHANGED <<thread, seq, queue, floor, job, src>>, clip' \in {clip, n}, clip' >= clip,
           finished' \in {finished, 0}, UNCHANGED <<clip, whole>> \/ (Ahead' /\ Watchable'),
           point = "mark" => n <= clip', point = "settle" => n <= clip' \/ n < floor, point # "drop"
    PROVE  Footage'
<1>1. PICK e \in Encoders : enc' = [enc EXCEPT ![n] = e] /\ e.at = point /\ e.quick = enc[n].quick
  BY MovesTo
<1>2. enc'[n] = e /\ \A m \in Seqs \ {n} : enc'[m] = enc[m]
  BY <1>1 DEF Book, Typed, EncTyped
<1>3. e.quick => n <= clip'
  <2>1. enc[n].quick => n <= clip
    BY DEF Footage, Clipped
  <2>2. n \in Nat /\ clip \in Nat
    BY NumbersAreNat, SeqsAreNat
  <2> QED BY <1>1, <2>1, <2>2
<1>4. Clipped(n)'
  BY <1>1, <1>2, <1>3 DEF Clipped
<1>5. \A m \in Seqs : (Steady(m) \/ Clipped(m)') /\ Spared(m)
  BY <1>2, <1>4 DEF Steady, Spared
<1> QED BY <1>5, FootageFrame

LEMMA WorkingKeepsFrames ==
    ASSUME Book, Book', Footage, NEW n \in Seqs,
           EncodeBegins(n) \/ NextStage(n) \/ QuickReturns(n) \/ RenderReturns(n) \/ StreamReturns(n)
    PROVE  Footage'
<1>1. UNCHANGED <<thread, seq, queue, floor, job, src, finished, clip, whole>>
  BY DEF EncodeBegins, NextStage, QuickReturns, RenderReturns, StreamReturns, StageReturns, now, owed, disk
<1>2. clip \in Nat
  BY NumbersAreNat
<1>3. CASE EncodeBegins(n) \/ NextStage(n)
  <2>1. PICK point \in {"plain", "quick", "hd"} : Move(n, point)
    BY <1>3 DEF EncodeBegins, NextStage, ProcessStarts
  <2> QED BY <1>1, <1>2, <2>1, MovingKeepsFrames DEF Points
<1>4. CASE QuickReturns(n)
  <2>1. PICK point \in {"deferred", "quickReady", "toHd"} : Move(n, point)
    BY <1>4 DEF QuickReturns, StageReturns
  <2> QED BY <1>1, <1>2, <2>1, MovingKeepsFrames DEF Points
<1>5. CASE RenderReturns(n)
  <2>1. PICK point \in {"deferred", "ready", "settle", "toPlain"} :
          Move(n, point) /\ (point = "settle" => enc[n].quick)
    BY <1>5 DEF RenderReturns, StageReturns
  <2>2. enc[n].quick => n <= clip
    BY DEF Footage, Clipped
  <2> QED BY <1>1, <1>2, <2>1, <2>2, MovingKeepsFrames DEF Points
<1>6. CASE StreamReturns(n)
  <2>1. PICK point \in {"deferred", "ready", "broken"} : Move(n, point)
    BY <1>6 DEF StreamReturns, StageReturns
  <2> QED BY <1>1, <1>2, <2>1, MovingKeepsFrames DEF Points
<1> QED BY <1>3, <1>4, <1>5, <1>6

\* The clip is never replaced by an older one.
LEMMA PromotingKeepsFrames ==
    ASSUME Book, Book', Footage, NEW n \in Seqs, PromoteQuick(n) \/ Promote(n)
    PROVE  Footage'
<1>1. PICK failure \in {"toHd", "broken"}, newer \in {"mark", "settle"} : Promoting(n, failure, "settle", newer)
  BY DEF PromoteQuick, Promote
<1>2. UNCHANGED <<thread, seq, queue, floor, job, src>> /\ finished' \in {finished, 0}
  BY <1>1 DEF Promoting, Promoted, GivenUp, owed, disk
<1>3. {n, clip, floor, seq, queue, finished} \subseteq Nat
  BY NumbersAreNat, SeqsAreNat
<1>4. Newest = IF clip >= floor THEN clip ELSE floor
  BY <1>3, MaxOfPair DEF Newest
<1>5. \/ UNCHANGED <<clip, whole>> /\ Move(n, failure)
      \/ UNCHANGED <<clip, whole>> /\ n < Newest /\ Move(n, "settle")
      \/ /\ clip' = n /\ ~(n < Newest) /\ Move(n, newer)
         /\ whole' \/ finished' = 0 \/ ~(n >= finished')
  BY <1>1 DEF Promoting, Promoted, GivenUp
<1>6. {"toHd", "broken", "settle", "mark"} \subseteq Points
  BY DEF Points
<1>7. CASE UNCHANGED <<clip, whole>> /\ Move(n, failure)
  BY <1>2, <1>3, <1>6, <1>7, MovingKeepsFrames
<1>8. CASE UNCHANGED <<clip, whole>> /\ n < Newest /\ Move(n, "settle")
  <2>1. n <= clip' \/ n < floor
    BY <1>3, <1>4, <1>8
  <2> QED BY <1>2, <1>3, <1>6, <1>8, <2>1, MovingKeepsFrames
<1>9. CASE /\ clip' = n /\ ~(n < Newest) /\ Move(n, newer)
           /\ whole' \/ finished' = 0 \/ ~(n >= finished')
  <2>1. clip' >= clip /\ n <= clip'
    BY <1>3, <1>4, <1>9
  <2>2. Ahead'
    <3>1. enc[n].at # "idle" /\ n <= seq
      BY DEF PromoteQuick, Promote, At, Book, Bounded, Known
    <3>2. queue # 0 => queue = seq /\ queue # n
      BY <3>1 DEF Book, Handed
    <3>3. ASSUME NEW t \in Threads, thread[t].at = "finalising" PROVE n < thread[t].seq
      <4>1. thread[t].seq = seq
        BY <3>3 DEF Footage, Joined
      <4>2. thread[t].seq # n
        BY <3>1, <3>3 DEF Book, Handed, Works
      <4> QED BY <1>3, <3>1, <4>1, <4>2
    <3> QED BY <1>2, <1>3, <1>9, <3>1, <3>2, <3>3 DEF Ahead
  <2>3. Watchable'
    BY <1>9 DEF Watchable
  <2> QED BY <1>2, <1>6, <1>9, <2>1, <2>2, <2>3, MovingKeepsFrames
<1> QED BY <1>5, <1>7, <1>8, <1>9

\* What an encoder drops is superseded, or given up.
LEMMA ClosingKeepsFrames ==
    ASSUME Book, Book', Footage, NEW n \in Seqs,
           MarkQuickDone(n) \/ RetireJob(n) \/ DropSource(n) \/ Leaves(n) \/ Defer(n) \/ Salvage(n)
    PROVE  Footage'
<1>1. UNCHANGED <<thread, seq, queue, floor, clip, whole>> /\ finished' \in {finished, 0}
  BY DEF MarkQuickDone, RetireJob, DropSource, Leaves, Leave, Defer, Salvage, GivenUp, now, owed, kept
<1>2. /\ enc \in [Seqs -> Encoders] /\ src \in [Seqs -> -1..1] /\ job \in [Seqs -> {"none", "owed", "quick"}]
      /\ {clip, finished} \subseteq Nat /\ n \in Nat
  BY NumbersAreNat, SeqsAreNat DEF Book, Typed, EncTyped, DiskTyped
<1>3. Clipped(n)
  BY DEF Footage
<1>4. /\ \A m \in Seqs \ {n} : enc'[m] = enc[m] /\ job'[m] = job[m] /\ src'[m] = src[m]
      /\ Clipped(n)' /\ (Spared(n) \/ Dropped(n))
  <2>1. CASE MarkQuickDone(n)
    <3>1. n <= clip
      BY <1>3, <2>1 DEF MarkQuickDone, At, Clipped
    <3>2. enc' = [enc EXCEPT ![n] = [at |-> "toHd", quick |-> TRUE]] /\ src' = src
      BY <2>1 DEF MarkQuickDone
    <3>3. job' = job \/ (job[n] # "none" /\ job' = [job EXCEPT ![n] = "quick"])
      BY <2>1 DEF MarkQuickDone
    <3> QED BY <1>1, <1>2, <3>1, <3>2, <3>3 DEF Clipped, Spared
  <2>2. CASE RetireJob(n)
    <3>1. enc[n].at = "settle" /\ enc' = [enc EXCEPT ![n].at = "drop"]
          /\ job' = [job EXCEPT ![n] = "none"] /\ src' = src
      BY <2>2 DEF RetireJob, At, Move
    <3>2. enc'[n].at = "drop" /\ enc'[n].quick = enc[n].quick /\ job'[n] = "none"
      BY <1>2, <3>1 DEF Encoders
    <3> QED BY <1>1, <1>2, <1>3, <3>1, <3>2 DEF Clipped, Spared
  <2>3. CASE DropSource(n)
    <3>1. enc[n].at = "drop" /\ enc' = [enc EXCEPT ![n] = NoEncoder]
          /\ job' = job /\ src' = [src EXCEPT ![n] = -1]
      BY <2>3 DEF DropSource, At, Leave
    <3>2. enc'[n].at = "idle" /\ ~enc'[n].quick
      BY <1>2, <3>1 DEF NoEncoder
    <3>3. job'[n] = "none" /\ Superseded(n)
      BY <1>1, <1>3, <3>1 DEF Clipped, Superseded
    <3> QED BY <1>2, <3>1, <3>2, <3>3 DEF Clipped, Dropped
  <2>4. CASE Leaves(n)
    <3>1. enc' = [enc EXCEPT ![n] = NoEncoder] /\ job' = job /\ src' = src
      BY <2>4 DEF Leaves, Leave, disk
    <3>2. enc'[n].at = "idle" /\ ~enc'[n].quick
      BY <1>2, <3>1 DEF NoEncoder
    <3> QED BY <1>2, <3>1, <3>2 DEF Clipped, Spared
  <2>5. CASE Defer(n)
    <3>1. enc[n].at = "deferred" /\ enc' = [enc EXCEPT ![n].at = "leave"]
      BY <2>5 DEF Defer, At, Move
    <3>2. enc'[n].at = "leave" /\ enc'[n].quick = enc[n].quick
      BY <1>2, <3>1 DEF Encoders
    <3>3. Clipped(n)'
      BY <1>1, <1>3, <3>2 DEF Clipped
    <3>4. CASE UNCHANGED <<job, src>>
      BY <1>2, <3>1, <3>3, <3>4 DEF Spared
    <3>5. CASE Discard({n}) /\ (n < floor \/ pending > n)
      <4>1. job'[n] = "none" /\ \A m \in Seqs \ {n} : job'[m] = job[m] /\ src'[m] = src[m]
        BY <3>5 DEF Discard
      <4>2. n < pending => pending \in Seqs \ {n}
        BY <1>2, NumbersAreNat
      <4>3. Superseded(n)
        BY <1>2, <3>5, <4>1, <4>2, NumbersAreNat DEF Superseded
      <4> QED BY <1>2, <3>1, <3>3, <4>1, <4>3 DEF Dropped
    <3> QED BY <2>5, <3>4, <3>5 DEF Defer
  <2>6. CASE Salvage(n)
    <3>1. enc[n].at = "broken" /\ enc' = [enc EXCEPT ![n].at = "leave"]
      BY <2>6 DEF Salvage, At, Move
    <3>2. enc'[n].at = "leave" /\ enc'[n].quick = enc[n].quick
      BY <1>2, <3>1 DEF Encoders
    <3>3. Clipped(n)'
      BY <1>1, <1>3, <3>2 DEF Clipped
    <3>4. job'[n] = "none" /\ \A m \in Seqs \ {n} : job'[m] = job[m] /\ src'[m] = src[m]
      BY <2>6 DEF Salvage, Discard
    <3>5. finished' = 0 \/ n < finished
      <4>1. n >= finished \/ n < finished
        BY <1>2
      <4> QED BY <2>6, <4>1 DEF Salvage, GivenUp
    <3> QED BY <1>2, <3>1, <3>3, <3>4, <3>5 DEF Dropped, Superseded
  <2> QED BY <2>1, <2>2, <2>3, <2>4, <2>5, <2>6
<1>5. \A m \in Seqs : (Steady(m) \/ Clipped(m)') /\ (Spared(m) \/ Dropped(m))
  BY <1>4 DEF Steady, Spared
<1>6. clip' >= clip
  BY <1>1, <1>2
<1> QED BY <1>1, <1>5, <1>6, FootageFrame

\* Set_armed gives up nothing that is not superseded.
LEMMA ArmingSpares ==
    ASSUME Book, NEW level, SetArmed(level), clip' = clip
    PROVE  /\ \A m \in Seqs : job'[m] \in {job[m], "none"} /\ (Spared(m) \/ Dropped(m))
           /\ \A t \in Threads : thread'[t].at \in {"finalising", "writing"} => thread'[t] = thread[t]
<1>1. /\ clip \in Nat /\ floor \in Nat /\ (pending # 0 => pending \in Seqs) /\ pending \in Nat
  BY NumbersAreNat
<1>2. thread \in [Threads -> Doing]
  BY DEF Book, Typed, ThreadTyped
<1>3. CASE UNCHANGED <<pending, job, src>> /\ thread' = [thread EXCEPT !["hub"] = Idle]
  BY <1>2, <1>3, IdleIsDoing DEF Spared
<1>4. CASE /\ pending # 0 /\ pending < Max({floor, clip}) /\ pending' = 0 /\ Discard({pending})
           /\ thread' = [thread EXCEPT !["hub"] = Idle]
  <2>1. Superseded(pending)
    <3>1. pending < clip \/ pending < floor
      BY <1>1, <1>4, MaxOfPair
    <3> QED BY <1>1, <3>1 DEF Superseded
  <2>2. job'[pending] = "none" /\ \A m \in Seqs \ {pending} : job'[m] = job[m] /\ src'[m] = src[m]
    BY <1>1, <1>4 DEF Discard
  <2> QED BY <1>2, <1>4, <2>1, <2>2, IdleIsDoing DEF Spared, Dropped
<1>5. CASE /\ UNCHANGED <<job, src>>
           /\ \E d \in Doing : d.at = "rendering" /\ thread' = [thread EXCEPT !["hub"] = d]
  <2>1. PICK d \in Doing : d.at = "rendering" /\ thread' = [thread EXCEPT !["hub"] = d]
    BY <1>5
  <2> QED BY <1>2, <1>5, <2>1 DEF Spared
<1> QED BY <1>3, <1>4, <1>5, ArmingDoes

\* The first half of start touches no frames.
LEMMA StartingSpares ==
    ASSUME Book, Book', Footage, NEW t \in Threads, NEW why \in {"armed", "manual"}, StartChecks(t, why),
           UNCHANGED <<seq, queue, floor, clip, whole, finished, job, src>>, clip' >= clip
    PROVE  Footage'
<1>1. thread \in [Threads -> Doing] /\ enc \in [Seqs -> Encoders]
  BY DEF Book, Typed, ThreadTyped, EncTyped
<1>2. \A u \in Threads : thread'[u].at \in {"finalising", "writing"} => thread'[u] = thread[u]
  BY StartingDoes
<1> DEFINE Dead(e) == [e EXCEPT !.at = IF @ = "hd" THEN "hdDead" ELSE "quickDead"]
<1>3. \A e \in Encoders : Dead(e).quick = e.quick /\ Dead(e).at \in {"hdDead", "quickDead"}
  BY DEF Encoders
<1>4. \/ enc' = enc
      \/ enc' = [n \in Seqs |-> IF n = proc /\ enc[n].at \in Running THEN Dead(enc[n]) ELSE enc[n]]
  BY DEF StartChecks
<1> HIDE DEF Dead
<1>5. \A m \in Seqs : /\ enc'[m].quick = enc[m].quick
                      /\ enc'[m].at = enc[m].at \/ enc'[m].at \in {"hdDead", "quickDead"}
  BY <1>1, <1>3, <1>4
<1>6. \A m \in Seqs : Steady(m) /\ Spared(m)
  BY <1>5 DEF Steady, Spared
<1> QED BY <1>2, <1>6, FootageFrame

\* The hub's own calls.
LEMMA HubKeepsFrames ==
    ASSUME Book, Book', Footage, OnArmed \/ Repeats \/ \E t \in Threads : Returns(t)
    PROVE  Footage'
<1>1. UNCHANGED <<seq, queue, floor, clip, whole, finished>>
  BY DEF OnArmed, Repeats, Returns, now, kept
<1>2. clip' >= clip
  BY <1>1, NumbersAreNat
<1>3. thread \in [Threads -> Doing] /\ enc \in [Seqs -> Encoders]
  BY DEF Book, Typed, ThreadTyped, EncTyped
<1>4. ASSUME NEW level, SetArmed(level), enc' = enc PROVE Footage'
  <2>1. \A m \in Seqs : job'[m] \in {job[m], "none"} /\ (Spared(m) \/ Dropped(m))
    BY <1>1, <1>4, ArmingSpares
  <2>2. \A t \in Threads : thread'[t].at \in {"finalising", "writing"} => thread'[t] = thread[t]
    BY <1>1, <1>4, ArmingSpares
  <2>3. \A m \in Seqs : Steady(m)
    BY <1>4, <2>1 DEF Steady
  <2> QED BY <1>1, <1>2, <2>1, <2>2, <2>3, FootageFrame
<1>5. ASSUME UNCHANGED <<job, src, enc>>,
             \E t \in Threads, d \in Doing : d.at \in {"idle", "starting", "stopping"}
                                             /\ thread' = [thread EXCEPT ![t] = d]
      PROVE  Footage'
  <2>1. PICK t \in Threads, d \in Doing : d.at \in {"idle", "starting", "stopping"}
                                          /\ thread' = [thread EXCEPT ![t] = d]
    BY <1>5
  <2>2. \A u \in Threads : thread'[u].at \in {"finalising", "writing"} => thread'[u] = thread[u]
    BY <1>3, <2>1
  <2>3. \A m \in Seqs : Steady(m) /\ Spared(m)
    BY <1>5 DEF Steady, Spared
  <2> QED BY <1>1, <1>2, <2>2, <2>3, FootageFrame
<1>6. CASE Repeats
  BY <1>4, <1>6 DEF Repeats, render
<1>7. ASSUME NEW t \in Threads, Returns(t) PROVE Footage'
  <2>1. enc' = enc
    BY <1>7 DEF Returns, render
  <2>2. SetArmed(FALSE) \/ (thread' = [thread EXCEPT ![t] = Idle] /\ UNCHANGED <<job, src>>)
    BY <1>7 DEF Returns
  <2> QED BY <1>4, <1>5, <2>1, <2>2, IdleIsDoing
<1>8. CASE OnArmed
  <2>1. CASE armed
    <3>1. StartChecks("hub", "armed") /\ UNCHANGED <<job, src>> /\ "hub" \in Threads
          /\ thread["hub"].at = "idle"
      BY <1>8, <2>1 DEF OnArmed, Free, Threads
    <3> QED BY <1>1, <1>2, <3>1, StartingSpares
  <2>2. CASE ~armed
    <3>1. enc' = enc
      BY <1>8, <2>2 DEF OnArmed
    <3> DEFINE d == [Idle EXCEPT !.at = "stopping", !.why = "disarmed"]
    <3>2. d \in Doing /\ d.at = "stopping" /\ "hub" \in Threads
      BY IdleIsDoing DEF Doing, Threads
    <3>3. SetArmed(FALSE) \/ (thread' = [thread EXCEPT !["hub"] = d] /\ UNCHANGED <<job, src>>)
      BY <1>8, <2>2 DEF OnArmed
    <3> HIDE DEF d
    <3> QED BY <1>4, <1>5, <3>1, <3>2, <3>3
  <2> QED BY <2>1, <2>2
<1> QED BY <1>6, <1>7, <1>8

LEMMA CallsKeepFrames ==
    ASSUME Book, Book', Footage,
           FlightEnds \/ RecordStart \/ RecordStop \/ \E t \in Threads : StopRefused(t)
    PROVE  Footage'
<1>1. UNCHANGED <<seq, queue, floor, clip, whole, finished, job, src>>
  BY DEF FlightEnds, RecordStart, RecordStop, StopRefused, now, owed, kept, disk
<1>2. clip' >= clip
  BY <1>1, NumbersAreNat
<1>3. thread \in [Threads -> Doing]
  BY DEF Book, Typed, ThreadTyped
<1>4. CASE RecordStart
  <2>1. StartChecks("op", "manual") /\ "op" \in Threads
    BY <1>4 DEF RecordStart, Threads
  <2> QED BY <1>1, <1>2, <2>1, StartingSpares
<1>5. CASE FlightEnds \/ RecordStop \/ \E t \in Threads : StopRefused(t)
  <2>1. enc' = enc
    BY <1>5 DEF FlightEnds, RecordStop, StopRefused, render
  <2>2. \A u \in Threads : thread'[u].at \in {"finalising", "writing"} => thread'[u] = thread[u]
    <3>1. CASE FlightEnds
      BY <1>3, <3>1, IdleIsDoing DEF FlightEnds, Doing
    <3>2. CASE RecordStop
      BY <1>3, <3>2, IdleIsDoing DEF RecordStop, Doing
    <3>3. ASSUME NEW t \in Threads, StopRefused(t)
          PROVE  \A u \in Threads : thread'[u].at \in {"finalising", "writing"} => thread'[u] = thread[u]
      BY <1>3, <3>3 DEF StopRefused, Go, Doing
    <3> QED BY <1>5, <3>1, <3>2, <3>3
  <2>3. \A m \in Seqs : Steady(m) /\ Spared(m)
    BY <1>1, <2>1 DEF Steady, Spared
  <2> QED BY <1>1, <1>2, <2>2, <2>3, FootageFrame
<1> QED BY <1>4, <1>5

LEMMA WorldKeepsFrames ==
    ASSUME Book, Book', Footage, Arms \/ Disarms \/ OfferFrames \/ Earns \/ WriterFails
    PROVE  Footage'
<1>1. UNCHANGED <<seq, queue, floor, clip, whole, finished, job, thread, enc>>
  BY DEF Arms, Disarms, OfferFrames, Earns, WriterFails, now, owed, kept, disk, render
<1>2. clip' >= clip
  BY <1>1, NumbersAreNat
<1>3. src' = src \/ src' = [src EXCEPT ![queue] = 1]
  BY DEF Arms, Disarms, OfferFrames, Earns, WriterFails, disk
<1>4. \A m \in Seqs : Steady(m) /\ Spared(m)
  BY <1>1, <1>3 DEF Steady, Spared, Book, Typed, DiskTyped
<1> QED BY <1>1, <1>2, <1>4, FootageFrame

\* The job is written, and the encoder started, for frames that are there.
LEMMA HandingOverKeepsFrames ==
    ASSUME Book, Book', Footage, MaybeRenderPending \/ \E t \in Threads : StopWrites(t)
    PROVE  Footage'
<1>1. UNCHANGED <<seq, queue, floor, clip, whole, finished, src>>
  BY DEF MaybeRenderPending, StopWrites, now, owed, kept, disk
<1>2. clip' >= clip
  BY <1>1, NumbersAreNat
<1>3. /\ thread \in [Threads -> Doing] /\ enc \in [Seqs -> Encoders]
      /\ job \in [Seqs -> {"none", "owed", "quick"}]
  BY DEF Book, Typed, ThreadTyped, EncTyped, DiskTyped
<1>4. CASE MaybeRenderPending
  <2>1. PICK n \in Seqs : n = thread["hub"].seq
    <3>1. Works("hub") /\ "hub" \in Threads
      BY <1>4 DEF MaybeRenderPending, Works, Threads
    <3> QED BY <3>1 DEF Book, Handed
  <2> DEFINE e == [at |-> "born", quick |-> job[n] = "quick"]
  <2>2. job' = job /\ enc' = [enc EXCEPT ![n] = e] /\ thread' = [thread EXCEPT !["hub"] = Idle]
    BY <1>4, <2>1 DEF MaybeRenderPending, disk
  <2>3. e.at = "born" /\ (e.quick => n <= clip)
    BY DEF Footage, Framed
  <2>4. enc'[n] = e /\ \A m \in Seqs \ {n} : enc'[m] = enc[m]
    BY <1>3, <2>2
  <2>5. Clipped(n)'
    <3>1. enc'[n].at = "born" /\ (enc'[n].quick => n <= clip')
      BY <1>1, <2>3, <2>4
    <3> QED BY <3>1 DEF Clipped
  <2>6. \A m \in Seqs : (Steady(m) \/ Clipped(m)') /\ Spared(m)
    BY <1>1, <2>2, <2>4, <2>5 DEF Steady, Spared
  <2>7. \A u \in Threads : thread'[u].at \in {"finalising", "writing"} => thread'[u] = thread[u]
    BY <1>3, <2>2, IdleIsDoing
  <2> QED BY <1>1, <1>2, <2>6, <2>7, FootageFrame
<1>5. ASSUME NEW t \in Threads, StopWrites(t) PROVE Footage'
  <2>1. PICK n \in Seqs : n = thread[t].seq /\ src[n] = 1 /\ job[n] = "none"
    <3>1. Works(t) /\ thread[t].at = "writing"
      BY <1>5 DEF StopWrites, Works
    <3> QED BY <3>1 DEF Book, Handed, Footage, Framed
  <2> DEFINE e == [at |-> "born", quick |-> FALSE]
  <2>2. enc' = [enc EXCEPT ![n] = e] /\ thread' = [thread EXCEPT ![t].at = "returning"]
        /\ (job' = job \/ job' = [job EXCEPT ![n] = "owed"])
    BY <1>5, <2>1 DEF StopWrites, Go
  <2>3. enc'[n] = e /\ \A m \in Seqs \ {n} : enc'[m] = enc[m] /\ job'[m] = job[m]
    BY <1>3, <2>2
  <2>4. Clipped(n)'
    BY <2>3 DEF Clipped
  <2>5. \A m \in Seqs : (Steady(m) \/ Clipped(m)') /\ Spared(m)
    <3>1. Spared(n)
      BY <1>1, <1>3, <2>1, <2>2 DEF Spared
    <3> QED BY <1>1, <2>3, <2>4, <3>1 DEF Steady, Spared
  <2>6. \A u \in Threads : thread'[u].at \in {"finalising", "writing"} => thread'[u] = thread[u]
    BY <1>3, <2>2 DEF Doing
  <2> QED BY <1>1, <1>2, <2>5, <2>6, FootageFrame
<1> QED BY <1>4, <1>5

\* What stop does not keep is the recording that it took.
LEMMA StopDiscardsKeepsFrames ==
    ASSUME Book, Book', Footage, NEW t \in Threads, StopDiscards(t)
    PROVE  Footage'
<1>1. UNCHANGED <<seq, queue, floor, clip, whole, finished, job, enc>>
  BY DEF StopDiscards, owed, kept, render
<1>2. clip' >= clip
  BY <1>1, NumbersAreNat
<1>3. thread[t].at = "finalising" /\ src' = [src EXCEPT ![thread[t].seq] = -1]
      /\ thread' = [thread EXCEPT ![t].at = "returning"]
  BY DEF StopDiscards, Go
<1>4. thread[t].seq \in Seqs /\ job[thread[t].seq] = "none"
  BY <1>3 DEF Book, Handed, Works
<1>5. \A m \in Seqs \ {thread[t].seq} : src'[m] = src[m]
  BY <1>3 DEF Book, Typed, DiskTyped
<1>6. \A m \in Seqs : Steady(m) /\ (Spared(m) \/ Dropped(m))
  BY <1>1, <1>3, <1>4, <1>5 DEF Steady, Spared, Dropped
<1>7. \A u \in Threads : thread'[u].at \in {"finalising", "writing"} => thread'[u] = thread[u]
  BY <1>3 DEF Book, Typed, ThreadTyped, Doing
<1> QED BY <1>1, <1>2, <1>6, <1>7, FootageFrame

\* A new recording has a number of its own, and waits for stop to be done with the last.
LEMMA StartBeginsKeepsFrames ==
    ASSUME ~SlowWriter, Book, Book', Footage, NEW t \in Threads, StartBegins(t)
    PROVE  Footage'
<1> USE DEF Footage
<1>1. /\ thread' = [thread EXCEPT ![t] = Idle] /\ queue' = NextSeq
      /\ src' = [src EXCEPT ![NextSeq] = 0] /\ \A u \in Threads : thread[u].at # "finalising"
  BY DEF StartBegins
<1>2. UNCHANGED <<floor, enc, clip, whole, job, finished>>
  BY DEF StartBegins, owed, render, kept
<1>3. \A u \in Threads : thread'[u] \in {Idle, thread[u]}
  BY <1>1 DEF Book, Typed, ThreadTyped
<1>4. \A m \in Seqs : Known(m) => m # NextSeq /\ src'[m] = src[m]
  <2>1. \A m \in Seqs : Known(m) => m # NextSeq
    BY NextSeqIsNew, SeqsAreNat DEF Book, Bounded
  <2> QED BY <1>1, <2>1 DEF Book, Typed, DiskTyped
<1>5. Joined' /\ \A u \in Threads : thread'[u].at # "finalising"
  BY <1>1, <1>3, IdleIsDoing DEF Joined
<1>6. Framed'
  <2>1. \A n \in Seqs : job'[n] # "none" => src'[n] = 1
    BY <1>2, <1>4 DEF Framed, Known
  <2>2. ASSUME NEW u \in Threads, thread'[u].at = "writing" PROVE src'[thread'[u].seq] = 1
    <3>1. thread'[u] = thread[u] /\ src[thread[u].seq] = 1 /\ Works(u)
      BY <1>3, <2>2, IdleIsDoing DEF Framed, Works
    <3>2. thread[u].seq \in Seqs /\ Known(thread[u].seq)
      BY <3>1 DEF Book, Handed, Known
    <3> QED BY <1>4, <3>1, <3>2
  <2> QED BY <1>2, <2>1, <2>2 DEF Framed
<1>7. \A n \in Seqs : Clipped(n)'
  BY <1>2 DEF Clipped
<1>8. FloorKept'
  BY <1>2 DEF FloorKept
<1>9. Survives'
  <2>1. \A n \in Seqs : Closed(n) => Closed(n)'
    BY <1>1, <1>4, <1>5 DEF Closed, Known
  <2> QED BY <1>2, <2>1 DEF Survives
<1>10. Ahead' /\ Watchable'
  <2>1. clip < NextSeq
    BY NextSeqIsNew DEF Book
  <2> QED BY <1>1, <1>2, <1>5, <2>1 DEF Ahead, Watchable
<1> QED BY <1>5, <1>6, <1>7, <1>8, <1>9, <1>10

LEMMA StopTakesKeepsFrames ==
    ASSUME Book, Book', Footage, NEW t \in Threads, StopTakes(t)
    PROVE  Footage'
<1> USE DEF Footage
<1>1. /\ state = "recording" /\ queue' = 0
      /\ thread' = [thread EXCEPT ![t].at = "finalising", ![t].seq = seq]
  BY DEF StopTakes
<1>2. UNCHANGED <<seq, floor, enc, clip, whole, job, src, finished>>
  BY DEF StopTakes, owed, render, kept, disk
<1>3. queue = seq /\ seq # 0
  BY <1>1 DEF Book, Handed
<1>4. /\ \A u \in Threads : u = t \/ thread'[u] = thread[u]
      /\ thread'[t].at = "finalising" /\ thread'[t].seq = seq
  BY <1>1 DEF Book, Typed, ThreadTyped, Doing
<1>5. Joined'
  BY <1>1, <1>2, <1>4 DEF Joined
<1>6. Framed'
  BY <1>2, <1>4 DEF Framed
<1>7. \A n \in Seqs : Clipped(n)'
  BY <1>2 DEF Clipped
<1>8. FloorKept'
  BY <1>2 DEF FloorKept
<1>9. Survives'
  <2>1. \A n \in Seqs : Closed(n) => Closed(n)'
    BY <1>1, <1>2, <1>3, <1>4, SeqsAreNat DEF Closed
  <2> QED BY <1>2, <2>1 DEF Survives
<1>10. Ahead' /\ Watchable'
  BY <1>1, <1>2, <1>3, <1>4 DEF Ahead, Watchable
<1> QED BY <1>5, <1>6, <1>7, <1>8, <1>9, <1>10

\* The recording kept is the newest there is, and its frames are counted by its own number.
LEMMA StopKeepsKeepsFrames ==
    ASSUME Book, Book', Footage, NEW t \in Threads, StopKeeps(t)
    PROVE  Footage'
<1> USE DEF Footage
<1>1. /\ thread[t].at = "finalising" /\ thread' = [thread EXCEPT ![t].at = "writing"]
      /\ floor' = Max({floor, thread[t].seq}) /\ Discard({pending} \ {0}) /\ src[seq] = 1
      /\ finished' = IF src[thread[t].seq] = 1 THEN thread[t].seq ELSE finished
  BY DEF StopKeeps, ShouldKeep, Go
<1>2. UNCHANGED <<seq, queue, enc, clip, whole>>
  BY DEF StopKeeps, now, render, kept
<1>3. Works(t) /\ thread[t].seq = seq /\ queue = 0 /\ finished' = seq
  BY <1>1 DEF Works, Joined
<1>4. seq \in Seqs /\ seq # pending /\ seq \in Nat /\ floor <= seq /\ floor \in Nat
  BY <1>3, NumbersAreNat DEF Book, Handed, Bounded
<1>5. floor' = seq /\ floor <= floor'
  BY <1>1, <1>3, <1>4, MaxOfPair
<1>6. /\ thread'[t].at = "writing" /\ thread'[t].seq = seq
      /\ \A u \in Threads \ {t} : thread'[u] = thread[u]
  BY <1>1, <1>3 DEF Book, Typed, ThreadTyped, Doing
<1>7. \A m \in Seqs : \/ job'[m] = job[m] /\ src'[m] = src[m]
                      \/ m = pending /\ job'[m] = "none" /\ src'[m] = -1
  BY <1>1 DEF Discard
<1>8. \A u \in Threads \ {t} : Works(u) => thread[u].seq # seq
  BY <1>3 DEF Book, Handed
<1>9. Joined'
  BY <1>2, <1>6 DEF Joined
<1>10. Framed'
  <2>1. \A n \in Seqs : /\ job'[n] # "none" => src'[n] = 1
                        /\ job'[n] = "quick" => n <= clip'
    BY <1>2, <1>7 DEF Framed
  <2>2. ASSUME NEW u \in Threads, thread'[u].at = "writing" PROVE src'[thread'[u].seq] = 1
    <3>1. CASE u = t
      BY <1>1, <1>4, <1>6, <1>7, <3>1
    <3>2. CASE u # t
      <4>1. thread'[u] = thread[u] /\ src[thread[u].seq] = 1 /\ Works(u)
        BY <1>6, <2>2, <3>2 DEF Framed, Works
      <4>2. thread[u].seq \in Seqs \ {pending}
        BY <4>1 DEF Book, Handed
      <4> QED BY <1>7, <4>1, <4>2
    <3> QED BY <3>1, <3>2
  <2> QED BY <2>1, <2>2 DEF Framed
<1>11. ASSUME NEW n \in Seqs PROVE Clipped(n)'
  <2>1. Clipped(n) /\ (n < floor => n < floor')
    BY <1>4, <1>5, SeqsAreNat
  <2>2. job'[n] = "none" \/ job'[n] = job[n]
    BY <1>7
  <2> QED BY <1>2, <2>1, <2>2 DEF Clipped
<1>12. FloorKept'
  BY <1>3, <1>4, <1>5 DEF FloorKept
<1>13. Survives'
  <2>1. src'[seq] = 1
    BY <1>1, <1>4, <1>7
  <2>2. seq # queue'
    BY <1>2, <1>3, <1>4, SeqsAreNat
  <2>3. \A u \in Threads : thread'[u].at = "finalising" => thread'[u].seq # seq
    BY <1>6, <1>8 DEF Works
  <2>4. Closed(seq)'
    <3>1. seq' = seq
      BY <1>2
    <3> QED BY <2>1, <2>2, <2>3, <3>1 DEF Closed
  <2>5. seq >= finished'
    BY <1>3, <1>4
  <2> QED BY <1>2, <1>4, <2>4, <2>5 DEF Survives
<1>14. Ahead'
  BY <1>2, <1>3, <1>6 DEF Ahead
<1>15. Watchable'
  <2>1. clip < seq
    BY <1>1, <1>3 DEF Ahead
  <2> QED BY <1>2, <1>3, <1>4, <2>1, NumbersAreNat DEF Watchable
<1> QED BY <1>9, <1>10, <1>11, <1>12, <1>13, <1>14, <1>15

\* The next process adopts the newest recording that is owed or was cut off: it is
\* as new as the frames that were to survive, or the clip is.
LEMMA CrashKeepsFrames ==
    ASSUME Book, Book', Footage, Crash
    PROVE  Footage'
<1> USE DEF Footage
<1>1. PICK left \in [Seqs -> -1..1], newest \in Numbers, adopted \in Numbers :
             /\ \A n \in Seqs \ {queue} : left[n] = src[n]
             /\ newest # 0 => job[newest] # "none" \/ left[newest] = 1
             /\ \A n \in Seqs : job[n] # "none" \/ left[n] = 1 => n <= newest
             /\ adopted = (IF newest = 0 \/ newest < clip \/ left[newest] < 0 THEN 0 ELSE newest)
             /\ job' = [n \in Seqs |-> IF n # adopted THEN "none"
                                       ELSE IF job[n] = "none" THEN "owed" ELSE job[n]]
             /\ src' = [n \in Seqs |-> IF n # adopted THEN -1 ELSE left[n]]
  BY CrashDoes
<1>2. /\ queue' = 0 /\ floor' = 0 /\ enc' = [n \in Seqs |-> NoEncoder]
      /\ thread' = [t \in Threads |-> Idle] /\ UNCHANGED <<clip, whole, finished>>
  BY DEF Crash
<1>3. newest # 0 => newest \in Seqs /\ left[newest] = 1
  <2>1. newest # 0 => newest \in Seqs
    BY DEF Numbers
  <2>2. newest # 0 /\ job[newest] # "none" => newest # queue /\ src[newest] = 1
    BY <2>1 DEF Book, Handed, Framed
  <2> QED BY <1>1, <2>1, <2>2
<1>4. adopted # 0 => adopted = newest /\ adopted \in Seqs /\ left[adopted] = 1
  BY <1>1, <1>3
<1>5. \A t \in Threads : thread'[t].at = "idle"
  BY <1>2, IdleIsDoing
<1>6. Joined'
  BY <1>5 DEF Joined
<1>7. Framed'
  <2>1. ASSUME NEW n \in Seqs, job'[n] # "none"
        PROVE  src'[n] = 1 /\ (job'[n] = "quick" => n <= clip')
    <3>1. n = adopted /\ n # 0
      BY <1>1, <2>1, SeqsAreNat
    <3>2. src'[n] = 1
      BY <1>1, <1>4, <3>1
    <3>3. job'[n] = "quick" => job[n] = "quick"
      BY <1>1, <3>1
    <3> QED BY <1>2, <3>2, <3>3 DEF Framed
  <2>2. \A t \in Threads : thread'[t].at # "writing"
    BY <1>5
  <2> QED BY <2>1, <2>2 DEF Framed
<1>8. \A n \in Seqs : Clipped(n)'
  BY <1>2 DEF Clipped, NoEncoder
<1>9. FloorKept'
  BY <1>2, NumbersAreNat DEF FloorKept
<1>10. Survives'
  <2> SUFFICES ASSUME finished' # 0, ~(clip' >= finished')
               PROVE  \E n \in Seqs : n >= finished' /\ Closed(n)'
    BY DEF Survives
  <2>1. PICK w \in Seqs : w >= finished /\ Closed(w)
    BY <1>2 DEF Survives
  <2>2. /\ w \in Nat /\ clip \in Nat /\ finished \in Nat /\ newest \in Nat /\ finished # 0
        /\ clip < finished
    BY <1>2, NumbersAreNat, SeqsAreNat
  <2>3. left[w] = 1 /\ w <= newest
    BY <1>1, <2>1 DEF Closed
  <2>4. newest # 0 /\ ~(newest < clip) /\ newest >= finished
    BY <2>1, <2>2, <2>3
  <2>5. adopted = newest /\ newest \in Seqs /\ left[newest] = 1
    <3>1. newest \in Seqs /\ left[newest] = 1
      BY <1>3, <2>4
    <3> QED BY <1>1, <2>4, <3>1
  <2>6. src'[newest] = 1 /\ newest # queue'
    BY <1>1, <1>2, <2>4, <2>5
  <2>7. Closed(newest)'
    <3>1. \A t \in Threads : thread'[t].at = "finalising" => thread'[t].seq # newest
      BY <1>5
    <3> QED BY <2>6, <3>1 DEF Closed
  <2> QED BY <1>2, <2>4, <2>5, <2>7
<1>11. Ahead' /\ Watchable'
  BY <1>2, <1>5 DEF Ahead, Watchable
<1> QED BY <1>6, <1>7, <1>8, <1>9, <1>10, <1>11

-----------------------------------------------------------------------------
(* The frames survive.                                                     *)

LEMMA InitHasFootage == Init => Footage
<1> SUFFICES ASSUME Init PROVE Footage
  OBVIOUS
<1>1. /\ finished = 0 /\ queue = 0 /\ thread = [t \in Threads |-> Idle] /\ enc = [n \in Seqs |-> NoEncoder]
      /\ job = [n \in Seqs |-> "none"]
  BY Zenon DEF Init
<1>2. \A t \in Threads : thread[t].at = "idle"
  BY <1>1, IdleIsDoing
<1>3. Joined /\ Framed
  BY <1>1, <1>2 DEF Joined, Framed
<1>4. \A n \in Seqs : Clipped(n)
  BY <1>1 DEF Clipped, NoEncoder
<1> QED BY <1>1, <1>2, <1>3, <1>4 DEF Footage, FloorKept, Ahead, Watchable, Survives

LEMMA NextKeepsFootage ==
    ASSUME ~SlowWriter, Book, Book', Footage, [Next]_vars
    PROVE  Footage'
<1>1. CASE UNCHANGED vars
  <2>1. UNCHANGED <<seq, queue, floor, clip, whole, finished, job, src, thread, enc>>
    BY <1>1 DEF vars, now, owed, render, kept, disk
  <2>2. clip' >= clip
    BY <2>1, NumbersAreNat
  <2>3. \A m \in Seqs : Steady(m) /\ Spared(m)
    BY <2>1 DEF Steady, Spared
  <2> QED BY <2>1, <2>2, <2>3, FootageFrame
<1>2. CASE OnArmed \/ Repeats \/ MaybeRenderPending
  BY <1>2, HubKeepsFrames, HandingOverKeepsFrames
<1>3. ASSUME NEW t \in Threads, StartBegins(t) \/ Stop(t) PROVE Footage'
  BY <1>3, StartBeginsKeepsFrames, StopTakesKeepsFrames, CallsKeepFrames, StopKeepsKeepsFrames,
     StopDiscardsKeepsFrames, HandingOverKeepsFrames, HubKeepsFrames DEF Stop
<1>4. ASSUME NEW n \in Seqs, Encoder(n) PROVE Footage'
  BY <1>4, WorkingKeepsFrames, PromotingKeepsFrames, ClosingKeepsFrames DEF Encoder
<1>5. CASE Arms \/ Disarms \/ OfferFrames \/ Earns \/ WriterFails
  BY <1>5, WorldKeepsFrames
<1>6. CASE FlightEnds \/ RecordStart \/ RecordStop \/ Crash
  BY <1>6, CallsKeepFrames, CrashKeepsFrames
<1> QED BY <1>1, <1>2, <1>3, <1>4, <1>5, <1>6 DEF Next, Work

\* A recording with frames that stop has kept can still be watched or rendered, or a
\* newer one can, in a clip that its own render alone wrote, unless an encoder gave one
\* of them up, or promoted for it a file that another encoder had written: through
\* preempted and failing renders, renders that remove each other's file, disks that lose
\* the job and the counter, and a crash at any point. It holds where stop has the writer
\* joined before another recording starts, and recordings have names of their own.
THEOREM TheNewestIsKept == ~SlowWriter => (Spec => []NewestSurvives)
<1>1. Init => Book /\ Footage
  BY InitBooks, InitHasFootage
<1>2. ASSUME ~SlowWriter PROVE Book /\ Footage /\ [Next]_vars => Book' /\ Footage'
  BY <1>2, NextKeepsBook, NextKeepsFootage
<1>3. Footage => NewestSurvives
  BY DEF Footage, Survives, Watchable, Closed, NewestSurvives
<1>4. CASE SlowWriter
  BY <1>4
<1>5. CASE ~SlowWriter
  <2>1. Book /\ Footage /\ [Next]_vars => Book' /\ Footage'
    BY <1>2, <1>5
  <2>2. Spec => []NewestSurvives
    BY <1>1, <1>3, <2>1, PTL DEF Spec
  <2> QED BY <2>2
<1> QED BY <1>4, <1>5
=============================================================================
