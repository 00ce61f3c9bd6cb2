---------------------------- MODULE HandshakeProofs ----------------------------
(***************************************************************************)
(* What the peripheral's sessions, answers and drops rest on, for any      *)
(* orders, any streak of readings, and any number of drops, kills and      *)
(* failed calls.                                                           *)
(*                                                                         *)
(* A session is written by four handlers and ended by whatever serves an   *)
(* order.  What they keep together is HandshakeInv: the readings counted   *)
(* are the consistent ones since the nonce (Counted), and a position is    *)
(* verified only on a full streak that ends near the drone (VerifiedNear). *)
(* The types of the rest follow from the order of the steps, once the      *)
(* drops of an order are bounded by the threads they started.              *)
(***************************************************************************)
EXTENDS Handshake, TLAPS

Counted == readings \in 0..Required /\ trail = [count |-> readings, near |-> trail.near]

VerifiedNear == verified => trail.near = TRUE

HandshakeInv == Counted /\ VerifiedNear /\ SessionBelongsToOrder /\ AnswerIsEarned

\* What the invariant and the drops are about.
watched == <<order, nonceOf, authentic, readings, fix, verified, delivered, answer, trail, dropped>>

-----------------------------------------------------------------------------
(* Sessions.                                                               *)

LEMMA RequiredIsNat == Required \in Nat /\ Required # 0
BY HandshakeAssumption

LEMMA MinOfPair ==
    ASSUME NEW a \in Int, NEW b \in Int
    PROVE  Min({a, b}) = IF a <= b THEN a ELSE b
<1> DEFINE m == IF a <= b THEN a ELSE b
<1>1. m \in {a, b} /\ \A y \in {a, b} : m <= y
  OBVIOUS
<1>2. \A x \in {a, b} : (\A y \in {a, b} : x <= y) => x = m
  OBVIOUS
<1> QED BY <1>1, <1>2 DEF Min

LEMMA NothingChanges ==
    ASSUME HandshakeInv, UNCHANGED watched
    PROVE  HandshakeInv' /\ dropped' = dropped
BY DEF watched, HandshakeInv, Counted, VerifiedNear, SessionBelongsToOrder, AnswerIsEarned

\* A fresh challenge earns nothing.
LEMMA FreshKeeps ==
    ASSUME FreshSession
    PROVE  HandshakeInv'
<1>1. 0 \in 0..Required
  BY RequiredIsNat
<1> QED BY <1>1 DEF FreshSession, NoTrail, HandshakeInv, Counted, VerifiedNear,
                    SessionBelongsToOrder, AnswerIsEarned

LEMMA ServeKeeps ==
    ASSUME NEW o, NEW withFile, Serve(o, withFile)
    PROVE  HandshakeInv'
BY FreshKeeps DEF Serve

-----------------------------------------------------------------------------
(* The process.                                                            *)

LEMMA ProcessKeeps ==
    ASSUME Boot \/ Kill
    PROVE  HandshakeInv' /\ dropped' = dropped
<1>1. (\E o, f : Serve(o, f)) /\ dropped' = dropped
  BY DEF Boot, Kill
<1> QED BY <1>1, ServeKeeps

-----------------------------------------------------------------------------
(* The characteristics.                                                    *)

LEMMA NonceKeeps ==
    ASSUME NEW phone, ReadNonce(phone)
    PROVE  HandshakeInv' /\ dropped' = dropped
BY FreshKeeps DEF ReadNonce

LEMMA AuthKeeps ==
    ASSUME HandshakeInv, NEW phone, WriteAuth(phone)
    PROVE  HandshakeInv' /\ dropped' = dropped
BY DEF WriteAuth, Signed, served, history, HandshakeInv, Counted, VerifiedNear,
       SessionBelongsToOrder, AnswerIsEarned

LEMMA GpsKeeps ==
    ASSUME HandshakeInv, NEW phone, NEW kept \in 0..readings, NEW place,
           WriteGps(phone, kept, place)
    PROVE  HandshakeInv' /\ dropped' = dropped
<1> USE DEF HandshakeInv
<1>1. UNCHANGED <<order, nonceOf, authentic, delivered, dropped>>
  BY DEF WriteGps, served
<1>2. CASE ~Signed(phone)
  BY <1>1, <1>2 DEF WriteGps, Counted, VerifiedNear, SessionBelongsToOrder, AnswerIsEarned
<1>3. CASE Signed(phone)
  <2>1. readings \in 0..Required /\ kept \in Int /\ kept <= readings /\ Required \in Int
    BY RequiredIsNat DEF Counted
  <2>2. readings' = IF kept + 1 <= Required THEN kept + 1 ELSE Required
    BY <1>3, <2>1, MinOfPair DEF WriteGps
  <2>3. trail.count = readings
    BY DEF Counted
  <2>4. Min({kept, trail.count}) = kept
    BY <2>1, <2>3, MinOfPair
  <2>5. trail' = [count |-> readings', near |-> place = "near"]
    BY <1>3, <2>4 DEF WriteGps
  <2>6. verified' = (readings' >= Required /\ place = "near") /\ fix' = TRUE
    BY <1>3 DEF WriteGps
  <2>7. answer' = IF verified' THEN "OK" ELSE "REFUSED"
    BY <1>3 DEF WriteGps
  <2>8. readings' \in 0..Required
    BY <2>1, <2>2
  <2>9. Counted' /\ VerifiedNear'
    BY <2>5, <2>6, <2>8 DEF Counted, VerifiedNear
  <2>10. SessionBelongsToOrder'
    <3>1. ASSUME verified' PROVE readings' = Required
      <4>1. readings' >= Required
        BY <2>6, <3>1, Zenon
      <4> QED BY <2>1, <2>8, <4>1
    <3>2. authentic' => nonceOf' = order'
      BY <1>1 DEF SessionBelongsToOrder
    <3> QED BY <2>6, <3>1, <3>2 DEF SessionBelongsToOrder
  <2>11. AnswerIsEarned'
    BY <2>7 DEF AnswerIsEarned
  <2> QED BY <1>1, <2>9, <2>10, <2>11
<1> QED BY <1>2, <1>3

LEMMA RefusalKeeps ==
    ASSUME HandshakeInv, NEW phone, RefuseDrop(phone) \/ DeferDrop(phone)
    PROVE  HandshakeInv' /\ dropped' = dropped
BY DEF RefuseDrop, DeferDrop, served, history, HandshakeInv, Counted, VerifiedNear,
       SessionBelongsToOrder, AnswerIsEarned

LEMMA DropKeeps ==
    ASSUME HandshakeInv, NEW phone, AcceptDrop(phone)
    PROVE  /\ HandshakeInv'
           /\ nonceOf = order /\ authentic /\ trail = [count |-> Required, near |-> TRUE]
<1>1. nonceOf = order /\ authentic /\ verified
  BY DEF AcceptDrop, Passes, HandshakeInv, SessionBelongsToOrder
<1>2. trail = [count |-> Required, near |-> TRUE]
  BY <1>1 DEF HandshakeInv, Counted, VerifiedNear, SessionBelongsToOrder
<1>3. HandshakeInv'
  BY DEF AcceptDrop, served, HandshakeInv, Counted, VerifiedNear, SessionBelongsToOrder,
         AnswerIsEarned
<1> QED BY <1>1, <1>2, <1>3

-----------------------------------------------------------------------------
(* The finalizers, the order watch and the world.                          *)

LEMMA FinalizersLeaveIt ==
    ASSUME Finalizers
    PROVE  UNCHANGED watched
BY DEF Finalizers, Snapshot, MoveServo, WriteReceipt, ExpireToken, watched, served, session, history

LEMMA WorldLeavesIt ==
    ASSUME World \/ RetryExpires
    PROVE  UNCHANGED watched
BY DEF World, GcsWindow, PushReceipt, Dispatch, GcsTakes, RetryExpires, watched, served, session,
       history

\* Of the watch's steps, only the last touches a session: it ends it.
LEMMA WatchKeeps ==
    ASSUME HandshakeInv, Watch
    PROVE  HandshakeInv' /\ dropped' = dropped
<1>1. CASE WatchWakes \/ WatchAsks \/ WatchChecks \/ WatchPulls
  <2>1. UNCHANGED watched
    BY <1>1 DEF WatchWakes, WatchAsks, WatchChecks, WatchPulls, watched, served, session, history
  <2> QED BY <2>1, NothingChanges
<1>2. CASE WatchAdopts
  <2>1. dropped' = dropped
    BY <1>2 DEF WatchAdopts
  <2>2. (\E o, f : Serve(o, f)) \/ UNCHANGED <<served, session, trail>>
    BY <1>2 DEF WatchAdopts
  <2>3. CASE UNCHANGED <<served, session, trail>>
    BY <2>1, <2>3, NothingChanges DEF served, session, watched
  <2> QED BY <2>1, <2>2, <2>3, ServeKeeps
<1> QED BY <1>1, <1>2 DEF Watch

-----------------------------------------------------------------------------
(* Every step, and the theorems.                                           *)

StepIsSafe ==
    /\ HandshakeInv'
    /\ dropped' # dropped => /\ nonceOf = order /\ authentic
                             /\ trail = [count |-> Required, near |-> TRUE]

LEMMA NextIsSafe ==
    ASSUME HandshakeInv, [Next]_vars
    PROVE  StepIsSafe
<1> USE DEF StepIsSafe
<1>1. CASE Boot \/ Kill
  BY <1>1, ProcessKeeps
<1>2. CASE Phone
  BY <1>2, NonceKeeps, AuthKeeps, GpsKeeps, RefusalKeeps, DropKeeps DEF Phone
<1>3. CASE Finalizers
  BY <1>3, FinalizersLeaveIt, NothingChanges
<1>4. CASE Watch
  BY <1>4, WatchKeeps
<1>5. CASE World \/ RetryExpires
  BY <1>5, WorldLeavesIt, NothingChanges
<1>6. CASE UNCHANGED vars
  BY <1>6, NothingChanges DEF vars, served, session, history, watched
<1> QED BY <1>1, <1>2, <1>3, <1>4, <1>5, <1>6 DEF Next

LEMMA InitIsSafe == Init => HandshakeInv
<1> SUFFICES ASSUME Init PROVE HandshakeInv
  OBVIOUS
<1>1. Counted
  <2>1. readings = 0 /\ trail = [count |-> 0, near |-> FALSE]
    BY DEF Init, NoTrail
  <2> QED BY <2>1, RequiredIsNat DEF Counted
<1>2. ~authentic /\ ~verified /\ answer = "PENDING"
  BY DEF Init
<1> QED BY <1>1, <1>2 DEF HandshakeInv, VerifiedNear, SessionBelongsToOrder, AnswerIsEarned

LEMMA Sessions == Spec => []HandshakeInv
BY InitIsSafe, NextIsSafe, PTL DEF Spec, StepIsSafe

\* A session is the phone's of the order being served, across nonce reads by
\* another phone, order swaps and restarts (auth, gps, swap_order).
THEOREM SessionIsTheOrders == Spec => []SessionBelongsToOrder
<1>1. HandshakeInv => SessionBelongsToOrder
  BY DEF HandshakeInv
<1> QED BY <1>1, Sessions, PTL

\* The phone is told OK only for a position that is verified or a parcel that is
\* dropped (last_result).
THEOREM AnswersAreEarned == Spec => []AnswerIsEarned
<1>1. HandshakeInv => AnswerIsEarned
  BY DEF HandshakeInv
<1> QED BY <1>1, Sessions, PTL

\* Every DROP accepted came from the phone of the order served, after a full
\* streak of readings since its nonce, the last one near (the drop handler).
THEOREM DropsNeedPresence == Spec => DropNeedsPresence
<1>1. HandshakeInv /\ [Next]_vars =>
        [dropped' # dropped => /\ nonceOf = order /\ authentic
                               /\ trail = [count |-> Required, near |-> TRUE]]_vars
  BY NextIsSafe DEF StepIsSafe
<1> QED BY <1>1, Sessions, PTL DEF Spec, DropNeedsPresence
-----------------------------------------------------------------------------
(* Types.  The DROPs counted are bounded by the threads they started,      *)
(* which a kill finishes and never removes.                                *)

CountedByThreads == \A o \in Ids : dropped[o] <= Len(finalizers)

\* TypeOK in the parts the steps disturb separately, and what they need.
SessionTyped == /\ {up, hasFile, authentic, fix, verified, delivered} \subseteq BOOLEAN
                /\ {order, nonceOf} \subseteq Ids /\ answer \in Answers
                /\ trail.near \in BOOLEAN
ThreadsTyped == finalizers \in Seq(Finalizer) /\ Len(finalizers) <= MaxDrops
LoopTyped == /\ watch \in [at : {"sleep", "ask", "check", "pull", "load"}, oid : Ids]
             /\ spent \cup failed \subseteq Ids
DiskTyped == file \in Ids /\ used \cup receipts \subseteq Ids
WorldTyped == /\ book \in [Orders -> {"", "DISPATCHED", "DELIVERED"}]
              /\ gcs \in [order : Ids, open : BOOLEAN]
BudgetTyped ==
    budget \in [repeats : 0..MaxRepeats, crashes : 0..MaxCrashes, mishaps : 0..MaxMishaps]
DropsTyped == dropped \in [Ids -> Nat] /\ CountedByThreads

HandshakeTypes == /\ HandshakeInv /\ SessionTyped /\ ThreadsTyped /\ LoopTyped /\ DiskTyped
                  /\ WorldTyped /\ BudgetTyped /\ DropsTyped

LEMMA BoundsAreNat == {MaxDrops, MaxRepeats, MaxCrashes, MaxMishaps} \subseteq Nat
BY HandshakeAssumption

LEMMA IdsAreNat == Ids \subseteq Nat /\ Bench \in Ids /\ Orders \subseteq Ids
BY HandshakeAssumption DEF Ids, Bench

LEMMA TypesSuffice ==
    ASSUME HandshakeTypes
    PROVE  TypeOK
<1> USE DEF HandshakeTypes
<1>1. trail \in [count : 0..Required, near : BOOLEAN] /\ readings \in 0..Required
  BY DEF HandshakeInv, Counted, SessionTyped
<1>2. dropped \in [Ids -> 0..MaxDrops]
  <2>1. MaxDrops \in Nat
    BY BoundsAreNat
  <2>2. Len(finalizers) \in Nat /\ Len(finalizers) <= MaxDrops
    BY DEF ThreadsTyped
  <2>3. \A o \in Ids : dropped[o] \in Nat /\ dropped[o] <= Len(finalizers)
    BY DEF DropsTyped, CountedByThreads
  <2>4. \A o \in Ids : dropped[o] \in 0..MaxDrops
    BY <2>1, <2>2, <2>3
  <2> QED BY <2>4 DEF DropsTyped
<1>3. {order, nonceOf, file} \subseteq Ids
  BY DEF SessionTyped, DiskTyped
<1>4. spent \cup failed \cup used \cup receipts \subseteq Ids
  BY DEF LoopTyped, DiskTyped
<1> QED BY <1>1, <1>2, <1>3, <1>4
        DEF TypeOK, SessionTyped, ThreadsTyped, LoopTyped, WorldTyped, BudgetTyped

\* Serving an order that is one gives a session that is one.
LEMMA ServeTypes ==
    ASSUME NEW o \in Ids, NEW withFile \in BOOLEAN, Serve(o, withFile), up' \in BOOLEAN
    PROVE  SessionTyped'
BY IdsAreNat DEF Serve, FreshSession, NoTrail, SessionTyped, Answers

LEMMA SpendsBudget ==
    ASSUME BudgetTyped, NEW what \in {"repeats", "crashes", "mishaps"},
           Succeeds \/ Spends(what)
    PROVE  BudgetTyped'
<1>1. MaxRepeats \in Nat /\ MaxCrashes \in Nat /\ MaxMishaps \in Nat
  BY BoundsAreNat
<1> QED BY <1>1 DEF BudgetTyped, Succeeds, Spends

LEMMA NewFinalizerIsOne == NewFinalizer \in Finalizer /\ Finished \in Finalizer
BY IdsAreNat DEF NewFinalizer, Finished, Finalizer

LEMMA BootTypes ==
    ASSUME HandshakeTypes, Boot
    PROVE  HandshakeTypes'
<1> USE DEF HandshakeTypes
<1>1. HandshakeInv'
  BY ProcessKeeps
<1>2. \E o \in Ids, f \in BOOLEAN : Serve(o, f) /\ file' \in Ids
  BY IdsAreNat DEF Boot, Newest, DiskTyped
<1>3. up' = TRUE
  BY DEF Boot
<1>4. SessionTyped'
  BY <1>2, <1>3, ServeTypes
<1>5. BudgetTyped'
  BY SpendsBudget DEF Boot, Fails
<1>6. ThreadsTyped' /\ WorldTyped' /\ DropsTyped'
  BY DEF Boot, world, ThreadsTyped, WorldTyped, DropsTyped, CountedByThreads
<1>7. LoopTyped' /\ DiskTyped'
  BY <1>2, IdsAreNat DEF Boot, Asleep, LoopTyped, DiskTyped
<1> QED BY <1>1, <1>4, <1>5, <1>6, <1>7

LEMMA KillTypes ==
    ASSUME HandshakeTypes, Kill
    PROVE  HandshakeTypes'
<1> USE DEF HandshakeTypes
<1>1. HandshakeInv'
  BY ProcessKeeps
<1>2. SessionTyped'
  BY ServeTypes, IdsAreNat DEF Kill
<1>3. BudgetTyped'
  BY SpendsBudget DEF Kill
<1>4. finalizers' \in Seq(Finalizer) /\ Len(finalizers') = Len(finalizers)
  BY NewFinalizerIsOne DEF Kill, ThreadsTyped
<1>5. ThreadsTyped' /\ DropsTyped'
  BY <1>4 DEF Kill, ThreadsTyped, DropsTyped, CountedByThreads
<1>6. LoopTyped' /\ DiskTyped' /\ WorldTyped'
  BY IdsAreNat DEF Kill, disk, world, Asleep, LoopTyped, DiskTyped, WorldTyped
<1> QED BY <1>1, <1>2, <1>3, <1>5, <1>6

\* The handlers that leave the threads and the drops alone.
LEMMA HandlerTypes ==
    ASSUME HandshakeTypes, NEW p \in Orders, HandshakeInv',
           \/ ReadNonce(p) \/ WriteAuth(p) \/ RefuseDrop(p) \/ DeferDrop(p)
           \/ \E kept \in 0..readings, place \in {"near", "far", "unknown"} :
                    WriteGps(p, kept, place)
    PROVE  HandshakeTypes'
<1> USE DEF HandshakeTypes
<1>1. SessionTyped'
  <2>1. CASE ReadNonce(p)
    BY <2>1, IdsAreNat DEF ReadNonce, FreshSession, NoTrail, served, SessionTyped, Answers
  <2>2. CASE WriteAuth(p) \/ RefuseDrop(p) \/ DeferDrop(p)
    BY <2>2 DEF WriteAuth, RefuseDrop, DeferDrop, served, history, Signed, SessionTyped, Answers
  <2>3. ASSUME NEW kept \in 0..readings, NEW place, WriteGps(p, kept, place)
        PROVE  SessionTyped'
    <3>1. UNCHANGED <<up, order, hasFile, nonceOf, authentic, delivered>>
      BY <2>3 DEF WriteGps, served
    <3>2. CASE ~Signed(p)
      BY <2>3, <3>1, <3>2 DEF WriteGps, SessionTyped, Answers
    <3>3. CASE Signed(p)
      <4> DEFINE m == Min({Min({kept, trail.count}) + 1, Required})
      <4>1. /\ fix' = TRUE /\ verified' = (readings' >= Required /\ place = "near")
            /\ answer' = IF verified' THEN "OK" ELSE "REFUSED"
            /\ trail' = [count |-> m, near |-> place = "near"]
        BY <2>3, <3>3 DEF WriteGps
      <4>2. verified' \in BOOLEAN
        BY <4>1
      <4> HIDE DEF m
      <4>3. trail'.near = (place = "near")
        BY <4>1
      <4>4. trail'.near \in BOOLEAN
        BY <4>3
      <4>5. answer' \in Answers
        BY <4>1 DEF Answers
      <4> QED BY <3>1, <4>1, <4>2, <4>4, <4>5 DEF SessionTyped
    <3> QED BY <3>2, <3>3
  <2> QED BY <2>1, <2>2, <2>3
<1>2. UNCHANGED <<finalizers, watch, spent, failed, file, used, receipts, book, gcs, dropped, budget>>
  BY DEF ReadNonce, WriteAuth, RefuseDrop, DeferDrop, WriteGps, loop, disk, world, history
<1>3. ThreadsTyped' /\ LoopTyped' /\ DiskTyped' /\ WorldTyped' /\ BudgetTyped' /\ DropsTyped'
  BY <1>2 DEF ThreadsTyped, LoopTyped, DiskTyped, WorldTyped, BudgetTyped, DropsTyped,
              CountedByThreads
<1> QED BY <1>1, <1>3

LEMMA AcceptTypes ==
    ASSUME HandshakeTypes, NEW p \in Orders, AcceptDrop(p)
    PROVE  HandshakeTypes'
<1> USE DEF HandshakeTypes
<1>1. HandshakeInv'
  BY DropKeeps
<1>2. SessionTyped'
  BY DEF AcceptDrop, served, SessionTyped, Answers
<1>3. BudgetTyped'
  BY SpendsBudget DEF AcceptDrop
<1>4. /\ Len(finalizers) < MaxDrops
      /\ finalizers' = Append(finalizers, NewFinalizer)
      /\ dropped' = [dropped EXCEPT ![order] = dropped[order] + 1]
  BY DEF AcceptDrop
<1>5. finalizers' \in Seq(Finalizer) /\ Len(finalizers') = Len(finalizers) + 1
  BY <1>4, NewFinalizerIsOne DEF ThreadsTyped
<1>6. ThreadsTyped'
  <2>1. MaxDrops \in Nat
    BY BoundsAreNat
  <2>2. Len(finalizers) \in Nat
    BY DEF ThreadsTyped
  <2> QED BY <1>4, <1>5, <2>1, <2>2 DEF ThreadsTyped
<1>7. DropsTyped'
  <2>1. order \in Ids /\ dropped \in [Ids -> Nat] /\ Len(finalizers) \in Nat
    BY DEF SessionTyped, DropsTyped, ThreadsTyped
  <2>2. \A o \in Ids : dropped[o] <= Len(finalizers)
    BY DEF DropsTyped, CountedByThreads
  <2>3. dropped' \in [Ids -> Nat] /\ \A o \in Ids : dropped'[o] <= Len(finalizers) + 1
    BY <1>4, <2>1, <2>2
  <2> QED BY <1>5, <2>3 DEF DropsTyped, CountedByThreads
<1>8. LoopTyped' /\ DiskTyped' /\ WorldTyped'
  BY DEF AcceptDrop, loop, disk, world, LoopTyped, DiskTyped, WorldTyped
<1> QED BY <1>1, <1>2, <1>3, <1>6, <1>7, <1>8

\* A step of a finalizer keeps their number, and what each carries.
LEMMA FinalizerTypes ==
    ASSUME HandshakeTypes, HandshakeInv', NEW i \in DOMAIN finalizers,
           Snapshot(i) \/ MoveServo(i) \/ WriteReceipt(i) \/ ExpireToken(i)
    PROVE  HandshakeTypes'
<1> USE DEF HandshakeTypes
<1>1. /\ UNCHANGED <<up, order, hasFile, nonceOf, authentic, fix, verified, delivered, answer, trail>>
      /\ UNCHANGED <<watch, spent, failed, book, gcs, dropped, budget>>
  BY DEF Snapshot, MoveServo, WriteReceipt, ExpireToken, served, session, loop, world, history
<1>2. SessionTyped' /\ LoopTyped' /\ WorldTyped' /\ BudgetTyped'
  BY <1>1 DEF SessionTyped, LoopTyped, WorldTyped, BudgetTyped
<1>3. finalizers[i] \in Finalizer
  BY DEF ThreadsTyped
<1>4. \E f \in Finalizer : finalizers' = [finalizers EXCEPT ![i] = f]
  <2>1. CASE Snapshot(i)
    BY <2>1 DEF Snapshot, Finalizer, SessionTyped
  <2>2. ASSUME NEW step \in {"open", "close", "receipt", "expire", "done"}, Goes(i, step)
        PROVE  \E f \in Finalizer : finalizers' = [finalizers EXCEPT ![i] = f]
    <3> DEFINE f == IF step = "done" THEN Finished ELSE [finalizers[i] EXCEPT !.at = step]
    <3>1. f \in Finalizer
      BY <1>3, NewFinalizerIsOne DEF Finalizer
    <3>2. finalizers' = [finalizers EXCEPT ![i] = f]
      BY <2>2 DEF Goes
    <3> QED BY <3>1, <3>2
  <2>3. CASE MoveServo(i)
    BY <2>2, <2>3 DEF MoveServo
  <2>4. CASE WriteReceipt(i)
    BY <2>2, <2>4 DEF WriteReceipt
  <2>5. CASE ExpireToken(i)
    BY <2>2, <2>5 DEF ExpireToken
  <2> QED BY <2>1, <2>3, <2>4, <2>5
<1>5. finalizers' \in Seq(Finalizer) /\ Len(finalizers') = Len(finalizers)
  BY <1>4 DEF ThreadsTyped
<1>6. ThreadsTyped' /\ DropsTyped'
  BY <1>1, <1>5 DEF ThreadsTyped, DropsTyped, CountedByThreads
<1>7. DiskTyped'
  <2>1. CASE Snapshot(i) \/ MoveServo(i)
    BY <2>1 DEF Snapshot, MoveServo, disk, DiskTyped
  <2>2. CASE WriteReceipt(i)
    BY <1>3, <2>2 DEF WriteReceipt, DiskTyped, Finalizer
  <2>3. CASE ExpireToken(i)
    BY <2>3, IdsAreNat DEF ExpireToken, DiskTyped
  <2> QED BY <2>1, <2>2, <2>3
<1> QED BY <1>2, <1>6, <1>7

LEMMA WatchTypes ==
    ASSUME HandshakeTypes, HandshakeInv', Watch
    PROVE  HandshakeTypes'
<1> USE DEF HandshakeTypes
<1>1. UNCHANGED <<up, finalizers, used, receipts, book, gcs, dropped>>
  BY DEF Watch, WatchWakes, WatchAsks, WatchChecks, WatchPulls, WatchAdopts, disk, world, history
<1>2. ThreadsTyped' /\ WorldTyped' /\ DropsTyped'
  BY <1>1 DEF ThreadsTyped, WorldTyped, DropsTyped, CountedByThreads
<1>3. BudgetTyped'
  BY SpendsBudget DEF Watch, WatchWakes, WatchAsks, WatchChecks, WatchPulls, WatchAdopts,
                      BudgetTyped, Fails, Succeeds
<1>4. LoopTyped' /\ DiskTyped'
  <2> USE <1>1, IdsAreNat DEF Sleeps, Asleep, LoopTyped, DiskTyped
  <2>1. CASE WatchWakes
    BY <2>1 DEF WatchWakes, disk, SessionTyped
  <2>2. CASE WatchAsks
    <3>1. gcs.order \in Ids
      BY DEF WorldTyped
    <3>2. /\ watch' = [at |-> "check", oid |-> gcs.order] \/ watch' = [at |-> "sleep", oid |-> Bench]
          /\ UNCHANGED <<spent, failed, file, used, receipts>>
      BY <2>2 DEF WatchAsks, disk
    <3> QED BY <3>1, <3>2
  <2>3. CASE WatchChecks
    BY <2>3 DEF WatchChecks, disk
  <2>4. CASE WatchPulls
    BY <2>4 DEF WatchPulls
  <2>5. CASE WatchAdopts
    BY <2>5 DEF WatchAdopts, disk
  <2> QED BY <2>1, <2>2, <2>3, <2>4, <2>5 DEF Watch
<1>5. SessionTyped'
  <2>1. CASE WatchWakes \/ WatchAsks \/ WatchChecks \/ WatchPulls
    BY <2>1 DEF WatchWakes, WatchAsks, WatchChecks, WatchPulls, served, session, history, SessionTyped
  <2>2. CASE WatchAdopts
    <3>1. Serve(file, TRUE) \/ UNCHANGED <<served, session, trail>>
      BY <2>2 DEF WatchAdopts
    <3>2. CASE Serve(file, TRUE)
      BY <1>1, <3>2, ServeTypes DEF DiskTyped, SessionTyped
    <3>3. CASE UNCHANGED <<served, session, trail>>
      BY <1>1, <3>3 DEF served, session, SessionTyped
    <3> QED BY <3>1, <3>2, <3>3
  <2> QED BY <2>1, <2>2 DEF Watch
<1> QED BY <1>2, <1>3, <1>4, <1>5

LEMMA WorldTypes ==
    ASSUME HandshakeTypes, HandshakeInv', World \/ RetryExpires
    PROVE  HandshakeTypes'
<1> USE DEF HandshakeTypes
<1>1. /\ UNCHANGED <<up, order, hasFile, nonceOf, authentic, fix, verified, delivered, answer, trail>>
      /\ UNCHANGED <<finalizers, watch, spent, file, used, dropped, budget>>
  BY DEF World, GcsWindow, PushReceipt, Dispatch, GcsTakes, RetryExpires, served, session, loop,
         disk, history
<1>2. SessionTyped' /\ ThreadsTyped' /\ BudgetTyped' /\ DropsTyped'
  BY <1>1 DEF SessionTyped, ThreadsTyped, BudgetTyped, DropsTyped, CountedByThreads
<1>3. failed' \subseteq failed /\ receipts' \subseteq receipts
  BY DEF World, GcsWindow, PushReceipt, Dispatch, GcsTakes, RetryExpires, loop, disk
<1>4. LoopTyped' /\ DiskTyped'
  BY <1>1, <1>3 DEF LoopTyped, DiskTyped
<1>5. WorldTyped'
  <2>1. CASE GcsWindow
    BY <2>1 DEF GcsWindow, WorldTyped
  <2>2. CASE \E o \in Ids : PushReceipt(o)
    BY <2>2 DEF PushReceipt, WorldTyped
  <2>3. CASE \E o \in Orders : Dispatch(o)
    BY <2>3 DEF Dispatch, WorldTyped
  <2>4. CASE \E o \in Orders : GcsTakes(o)
    <3>1. PICK o \in Orders : gcs' = [order |-> o, open |-> FALSE]
      BY <2>4 DEF GcsTakes
    <3>2. book' = book
      BY <2>4 DEF GcsTakes
    <3>3. gcs' \in [order : Ids, open : BOOLEAN]
      BY <3>1, IdsAreNat
    <3> QED BY <3>2, <3>3 DEF WorldTyped
  <2>5. CASE RetryExpires
    BY <2>5 DEF RetryExpires, world, WorldTyped
  <2> QED BY <2>1, <2>2, <2>3, <2>4, <2>5 DEF World
<1> QED BY <1>2, <1>4, <1>5

LEMMA InitTypes == Init => HandshakeTypes
<1> SUFFICES ASSUME Init PROVE HandshakeTypes
  OBVIOUS
<1> USE IdsAreNat DEF HandshakeTypes
<1>1. HandshakeInv
  BY InitIsSafe
<1>2. SessionTyped
  <2>1. /\ up = FALSE /\ hasFile = FALSE /\ authentic = FALSE
        /\ fix = FALSE /\ verified = FALSE /\ delivered = FALSE
    BY Zenon DEF Init
  <2>2. order = Bench /\ nonceOf = Bench /\ answer = "PENDING"
    BY Zenon DEF Init
  <2>3. trail.near = FALSE
    BY DEF Init, NoTrail
  <2> QED BY <2>1, <2>2, <2>3 DEF SessionTyped, Answers
<1>3. finalizers \in Seq(Finalizer) /\ Len(finalizers) = 0
  <2>1. finalizers = <<>>
    BY Zenon DEF Init
  <2> QED BY <2>1
<1>4. ThreadsTyped
  <2>1. MaxDrops \in Nat
    BY BoundsAreNat
  <2> QED BY <1>3, <2>1 DEF ThreadsTyped
<1>5. LoopTyped /\ DiskTyped /\ WorldTyped
  BY DEF Init, Asleep, LoopTyped, DiskTyped, WorldTyped
<1>6. BudgetTyped
  <2>1. MaxRepeats \in Nat /\ MaxCrashes \in Nat /\ MaxMishaps \in Nat
    BY BoundsAreNat
  <2>2. budget = [repeats |-> MaxRepeats, crashes |-> MaxCrashes, mishaps |-> MaxMishaps]
    BY DEF Init
  <2> QED BY <2>1, <2>2 DEF BudgetTyped
<1>7. DropsTyped
  <2>1. dropped = [o \in Ids |-> 0]
    BY DEF Init
  <2> QED BY <1>3, <2>1 DEF DropsTyped, CountedByThreads
<1> QED BY <1>1, <1>2, <1>4, <1>5, <1>6, <1>7

LEMMA NextTypes ==
    ASSUME HandshakeTypes, [Next]_vars
    PROVE  HandshakeTypes'
<1>1. HandshakeInv'
  BY NextIsSafe DEF HandshakeTypes, StepIsSafe
<1>2. CASE Boot \/ Kill
  BY <1>2, BootTypes, KillTypes
<1>3. CASE Phone
  BY <1>1, <1>3, HandlerTypes, AcceptTypes DEF Phone
<1>4. CASE Finalizers
  BY <1>1, <1>4, FinalizerTypes DEF Finalizers
<1>5. CASE Watch
  BY <1>1, <1>5, WatchTypes
<1>6. CASE World \/ RetryExpires
  BY <1>1, <1>6, WorldTypes
<1>7. CASE UNCHANGED vars
  BY <1>1, <1>7
     DEF HandshakeTypes, vars, served, session, loop, disk, world, history, SessionTyped, ThreadsTyped, LoopTyped,
         DiskTyped, WorldTyped, BudgetTyped, DropsTyped, CountedByThreads
<1> QED BY <1>2, <1>3, <1>4, <1>5, <1>6, <1>7 DEF Next

\* The peripheral's state keeps its types: the window of readings never outgrows
\* what it is trimmed to (gps handler), no thread outlives its kinds of step, and
\* no order is served that is not one, through any number of kills and failures.
THEOREM TypesHold == Spec => []TypeOK
<1> QED BY TypesSuffice, InitTypes, NextTypes, PTL DEF Spec
=============================================================================
