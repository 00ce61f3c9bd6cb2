----------------------------- MODULE DeliveryProofs -----------------------------
(***************************************************************************)
(* Two deliveries do not mix, for any orders, book, buttons and number of  *)
(* presses and mishaps.  The types, that there is one delivery at a time   *)
(* and that none is closed twice hold in every configuration (Employed,    *)
(* Single).  That the plan, the evidence and the handshake are the active  *)
(* order's holds when orders are accepted in one way, by hand (HandOnly)   *)
(* or by polls (AutoOnly), and the operator does not reset: with a reset   *)
(* CreditsItsOwn is refuted, and both ways at once are two threads that    *)
(* accept two orders.                                                      *)
(*                                                                         *)
(* The invariants are about who works on what.  By hand (DelInv): while    *)
(* the loop follows an order it is the active one (Followed), and while an *)
(* order is active the ground station's thread is not in the middle of     *)
(* another's acceptance (Alone); so nothing the loop looked at or set can  *)
(* become another order's between two of its steps.  By polls (AutoInv):   *)
(* whoever accepts has the lock until the order is active (Exclusive).     *)
(***************************************************************************)
EXTENDS Delivery, WellFoundedInduction, TLAPS

HandOnly == AutoAccept = FALSE /\ "reset" \notin Buttons /\ "set_auto" \notin Buttons

Looking == {"idle", "fetched", "track"}
Following == {"ask", "weigh", "mark", "close"}
Accepting == {"accept", "plan", "start", "take", "reject", "select", "inject"}
Aside == {"idle", "fetched", "abort", "aborted"}

Placed ==
    /\ at = [t \in Threads |-> at[t]] /\ order = [t \in Threads |-> order[t]]
    /\ at["node"] \in Looking \cup Following
    /\ at["gcs"] \in Accepting \cup Aside
    /\ auto = FALSE

\* The lock is kept between two steps only to close an order.
Locked == lock = IF at["node"] = "close" THEN "node" ELSE "free"

Followed == at["node"] \in Following => active # None /\ order["node"] = active

Alone == active # None => at["gcs"] \in Aside /\ pending = None /\ outcome = "PENDING"

Loaded == at["gcs"] \in {"start", "take"} => plan \in {order["gcs"], None}

Shown == at["node"] = "close" => shown.order = order["node"]

Evident == /\ armed \in BOOLEAN /\ (armed => flew)
           /\ at["node"] = "weigh" => seen.armed \in BOOLEAN /\ (seen.armed => flew)

Booked == book \in [Orders -> Entry]

Apart == Placed /\ Locked /\ Followed /\ Alone
Truthful == Loaded /\ Shown /\ Evident /\ Booked
            /\ FliesTheActiveOrder /\ EvidenceOfThisFlight /\ DeliveredOnHandshake

DelInv == Apart /\ Truthful

-----------------------------------------------------------------------------
(* What the steps are made of.                                             *)

LEMMA TwoThreads == /\ "node" \in Threads /\ "gcs" \in Threads
                    /\ \A t \in Threads : t = "node" \/ t = "gcs"
BY DEF Threads

\* A thread that moves leaves the other where it is.
LEMMA NodeMoves ==
    ASSUME Placed, NEW step, NEW o, At("node", step, o)
    PROVE  /\ at' = [t \in Threads |-> at'[t]] /\ order' = [t \in Threads |-> order'[t]]
           /\ at'["node"] = step /\ at'["gcs"] = at["gcs"]
           /\ order'["node"] = o /\ order'["gcs"] = order["gcs"]
BY TwoThreads DEF Placed, At

LEMMA GcsMoves ==
    ASSUME Placed, NEW step, NEW o, At("gcs", step, o)
    PROVE  /\ at' = [t \in Threads |-> at'[t]] /\ order' = [t \in Threads |-> order'[t]]
           /\ at'["gcs"] = step /\ at'["node"] = at["node"]
           /\ order'["gcs"] = o /\ order'["node"] = order["node"]
BY TwoThreads DEF Placed, At

\* A write changes one entry of the book.
LEMMA WriteWrites ==
    ASSUME Booked, NEW o, NEW entry \in Entry, Write(o, entry)
    PROVE  /\ Booked'
           /\ \A x \in Orders : book'[x] = book[x] \/ (x = o /\ book'[x] = entry)
BY DEF Booked, Write

\* What is shown changes; the book learns of no delivery.
LEMMA SetPhaseShows ==
    ASSUME Booked, NEW p, NEW o, SetPhase(p, o)
    PROVE  /\ Booked'
           /\ shown'.order = IF o = None THEN shown.order ELSE o
           /\ \A x \in Orders : book'[x].status = "DELIVERED" => book[x].status = "DELIVERED"
<1>1. shown'.order = IF o = None THEN shown.order ELSE o
  BY DEF SetPhase
<1>2. CASE UNCHANGED book
  BY <1>1, <1>2 DEF Booked
<1>3. CASE ~UNCHANGED book
  <2>1. \/ Write(o, [book[o] EXCEPT !.delivered = TRUE])
        \/ Write(o, [book[o] EXCEPT !.status = "CANCELED"])
    BY <1>3 DEF SetPhase
  <2>2. o \in Orders
    BY <1>3, <2>1 DEF Booked, Write
  <2>3. book[o] \in Entry
    BY <2>2 DEF Booked
  <2>4. CASE Write(o, [book[o] EXCEPT !.delivered = TRUE])
    <3>1. [book[o] EXCEPT !.delivered = TRUE] \in Entry
          /\ [book[o] EXCEPT !.delivered = TRUE].status = book[o].status
      BY <2>3 DEF Entry
    <3> QED BY <1>1, <2>4, <3>1, WriteWrites
  <2>5. CASE Write(o, [book[o] EXCEPT !.status = "CANCELED"])
    <3>1. [book[o] EXCEPT !.status = "CANCELED"] \in Entry
          /\ [book[o] EXCEPT !.status = "CANCELED"].status # "DELIVERED"
      BY <2>3 DEF Entry
    <3> QED BY <1>1, <2>5, <3>1, WriteWrites
  <2> QED BY <2>1, <2>4, <2>5
<1> QED BY <1>2, <1>3

\* Where a poll, an acceptance or a look at no order ends.
LEMMA ReturnsMoves ==
    ASSUME Placed, NEW t \in Threads, Returns(t)
    PROVE  /\ at' = [u \in Threads |-> at'[u]] /\ order' = [u \in Threads |-> order'[u]]
           /\ t = "node" => at'["node"] = "track" /\ at'["gcs"] = at["gcs"] /\ order'["gcs"] = order["gcs"]
           /\ t = "gcs" => at'["gcs"] = "idle" /\ at'["node"] = at["node"] /\ order'["node"] = order["node"]
<1>1. CASE t = "node"
  BY <1>1, NodeMoves DEF Returns
<1>2. CASE t = "gcs"
  BY <1>2, GcsMoves DEF Returns
<1> QED BY <1>1, <1>2, TwoThreads

\* What the invariant is about but for the threads, the book and what is shown.
rest == <<active, pending, outcome, plan, armed, flew, everArmed, seen, bleOk, auto>>

\* A handshake stays on record.
LEMMA BookKeeps ==
    ASSUME DeliveredOnHandshake, bleOk \subseteq bleOk',
           \A x \in Orders : book'[x].status = "DELIVERED" => book[x].status = "DELIVERED"
    PROVE  DeliveredOnHandshake'
BY DEF DeliveredOnHandshake

-----------------------------------------------------------------------------
(* The polls.                                                              *)

LEMMA FetchKeeps ==
    ASSUME DelInv, FetchTick \/ Refresh
    PROVE  DelInv'
<1> USE DEF DelInv, Apart, Truthful
<1>1. UNCHANGED <<rest, book, shown, lock>>
  BY DEF FetchTick, Refresh, Fetch, rest, navigator, queue, record, evidence, display, senses
<1>2. /\ at' = [u \in Threads |-> at'[u]] /\ order' = [u \in Threads |-> order'[u]]
      /\ \/ at["node"] = "idle" /\ at'["node"] = "fetched" /\ at'["gcs"] = at["gcs"] /\ order'["gcs"] = order["gcs"]
         \/ at["gcs"] = "idle" /\ at'["gcs"] = "fetched" /\ at'["node"] = at["node"] /\ order'["node"] = order["node"]
  BY NodeMoves, GcsMoves DEF FetchTick, Refresh, Fetch
<1>3. Apart'
  BY <1>1, <1>2 DEF Placed, Locked, Followed, Alone, rest, Looking, Following, Accepting, Aside
<1>4. Truthful'
  BY <1>1, <1>2, BookKeeps DEF Placed, Loaded, Shown, Evident, Booked, rest, FliesTheActiveOrder, EvidenceOfThisFlight
<1> QED BY <1>3, <1>4

Poll(t) == PollNothing(t) \/ PollWithdraw(t) \/ PollHold(t) \/ PollReject(t) \/ PollOffer(t)

LEMMA PollKeeps ==
    ASSUME DelInv, NEW t \in Threads, Poll(t)
    PROVE  DelInv'
<1> USE DEF DelInv, Apart, Truthful
<1>1. /\ at[t] = "fetched" /\ lock = "free" /\ UNCHANGED lock /\ Returns(t)
      /\ UNCHANGED <<active, outcome, plan, armed, flew, everArmed, seen, bleOk, auto>>
  BY DEF Poll, PollNothing, PollWithdraw, PollHold, PollReject, PollOffer, Polled, Placed,
         navigator, evidence, senses
<1>2. active # None => UNCHANGED pending
  BY DEF Poll, PollNothing, PollWithdraw, PollHold, PollReject, PollOffer, ToOffer, Withdrawn
<1>3. /\ Booked' /\ \A x \in Orders : book'[x].status = "DELIVERED" => book[x].status = "DELIVERED"
  BY SetPhaseShows DEF Poll, PollNothing, PollWithdraw, PollHold, PollReject, PollOffer, Rejects, display, Booked
<1>4. /\ at' = [u \in Threads |-> at'[u]] /\ order' = [u \in Threads |-> order'[u]]
      /\ at["node"] # "close" /\ at'["node"] # "close"
      /\ \/ at'["node"] = "track" /\ at'["gcs"] = at["gcs"] /\ order'["gcs"] = order["gcs"]
         \/ at'["gcs"] = "idle" /\ at'["node"] = at["node"] /\ order'["node"] = order["node"]
  BY <1>1, ReturnsMoves, TwoThreads DEF Locked
<1>5. Apart'
  BY <1>1, <1>2, <1>4 DEF Placed, Locked, Followed, Alone, Looking, Following, Accepting, Aside
<1>6. Truthful'
  BY <1>1, <1>3, <1>4, BookKeeps DEF Placed, Loaded, Shown, Evident, FliesTheActiveOrder, EvidenceOfThisFlight
<1> QED BY <1>5, <1>6

-----------------------------------------------------------------------------
(* An acceptance, which only the ground station's thread makes.            *)

Accept(t) == Validate(t) \/ Reject(t) \/ PlanRoute(t) \/ Launch(t) \/ LaunchRefused(t) \/ Take(t)

\* While one accepts, no order is active, and the loop follows none.
LEMMA AcceptsAlone ==
    ASSUME DelInv, NEW t \in Threads, Accept(t)
    PROVE  /\ t = "gcs" /\ at["gcs"] \in Accepting
           /\ active = None /\ at["node"] \in Looking /\ lock = "free"
<1> USE DEF DelInv, Apart
<1>1. at[t] \in {"accept", "plan", "start", "take", "reject"}
  BY DEF Accept, Validate, Reject, PlanRoute, Launch, LaunchRefused, Take
<1>2. t = "gcs"
  BY <1>1, TwoThreads DEF Placed, Looking, Following
<1> QED BY <1>1, <1>2 DEF Placed, Locked, Followed, Alone, Looking, Following, Accepting, Aside

LEMMA AcceptKeeps ==
    ASSUME DelInv, NEW t \in Threads, Accept(t)
    PROVE  DelInv'
<1> USE DEF DelInv, Apart, Truthful
<1>1. /\ t = "gcs" /\ at["gcs"] \in Accepting
      /\ active = None /\ at["node"] \in Looking /\ lock = "free"
  BY AcceptsAlone
<1>2. lock' = "free" /\ UNCHANGED <<bleOk, auto, seen>>
  BY <1>1 DEF Accept, Validate, Reject, PlanRoute, Launch, LaunchRefused, Take, Releases, senses
<1>3. /\ at' = [u \in Threads |-> at'[u]] /\ order' = [u \in Threads |-> order'[u]]
      /\ at'["node"] = at["node"] /\ at'["gcs"] \in Accepting \cup {"idle"}
  BY <1>1, GcsMoves, ReturnsMoves DEF Accept, Validate, Reject, PlanRoute, Launch, LaunchRefused, Take, Accepting
<1>4. Booked' /\ DeliveredOnHandshake'
  <2>1. Booked' /\ \A x \in Orders : book'[x].status = "DELIVERED" => book[x].status = "DELIVERED"
    BY SetPhaseShows DEF Accept, Validate, Reject, PlanRoute, Launch, LaunchRefused, Take, Rejects, display, Booked
  <2> QED BY <1>2, <2>1, BookKeeps
<1>5. CASE Take(t)
  <2>1. at["gcs"] = "take" /\ at'["gcs"] = "idle" /\ active' = order["gcs"]
        /\ pending' = None /\ outcome' = "PENDING" /\ ~everArmed' /\ UNCHANGED <<flew, armed, plan>>
    BY <1>1, <1>5, ReturnsMoves DEF Take, Forget, navigator
  <2>2. Apart'
    BY <1>1, <1>2, <1>3, <2>1 DEF Placed, Locked, Followed, Alone, Looking, Following, Accepting, Aside
  <2>3. Truthful'
    BY <1>1, <1>2, <1>3, <1>4, <2>1 DEF Loaded, Shown, Evident, Looking, FliesTheActiveOrder, EvidenceOfThisFlight
  <2> QED BY <2>2, <2>3
<1>6. CASE ~Take(t)
  <2>1. active' = None
    BY <1>1, <1>6 DEF Accept, Validate, Reject, PlanRoute, Launch, LaunchRefused, record
  <2>2. armed' \in BOOLEAN /\ (armed' => flew')
    <3>1. CASE PlanRoute(t)
      BY <3>1 DEF PlanRoute, F!SetPlan, record, evidence, Evident
    <3>2. CASE Launch(t)
      BY <3>2 DEF Launch, F!StartMission, Evident
    <3>3. CASE Validate(t) \/ Reject(t) \/ LaunchRefused(t)
      BY <3>3 DEF Validate, Reject, LaunchRefused, navigator, record, evidence, Evident
    <3> QED BY <1>6, <3>1, <3>2, <3>3 DEF Accept
  <2>3. Loaded'
    <3>1. CASE PlanRoute(t)
      BY <1>1, <3>1, GcsMoves DEF PlanRoute, Loaded
    <3>2. CASE Launch(t)
      BY <1>1, <3>2, GcsMoves DEF Launch, Loaded
    <3>3. CASE Validate(t) \/ Reject(t) \/ LaunchRefused(t)
      <4>1. at'["gcs"] \in {"idle", "plan", "reject"}
        BY <1>1, <3>3, GcsMoves, ReturnsMoves DEF Validate, Reject, LaunchRefused
      <4> QED BY <4>1 DEF Loaded
    <3> QED BY <1>6, <3>1, <3>2, <3>3 DEF Accept
  <2>4. Apart'
    BY <1>1, <1>2, <1>3, <2>1 DEF Placed, Locked, Followed, Alone, Looking, Following, Accepting, Aside
  <2>5. Truthful'
    BY <1>1, <1>3, <1>4, <2>1, <2>2, <2>3 DEF Shown, Evident, Looking, FliesTheActiveOrder, EvidenceOfThisFlight
  <2> QED BY <2>4, <2>5
<1> QED BY <1>5, <1>6

-----------------------------------------------------------------------------
(* The loop follows the active order.                                      *)

LEMMA FollowKeeps ==
    ASSUME DelInv, Track \/ Ask \/ Weigh
    PROVE  DelInv'
<1> USE DEF DelInv, Apart, Truthful
<1>1. UNCHANGED <<active, pending, outcome, plan, armed, flew, bleOk, auto, book, shown, lock>>
  BY DEF Track, Ask, Weigh, navigator, queue, record, evidence, display, senses
<1>2. /\ at' = [u \in Threads |-> at'[u]] /\ order' = [u \in Threads |-> order'[u]]
      /\ at'["gcs"] = at["gcs"] /\ order'["gcs"] = order["gcs"]
      /\ at["node"] # "close" /\ at'["node"] \in {"idle", "ask", "weigh", "mark"}
      /\ at'["node"] \in Following => order'["node"] = active /\ active # None
  <2>1. CASE Track
    BY <2>1, NodeMoves DEF Track, Following
  <2>2. CASE Ask
    BY <2>2, NodeMoves DEF Ask, Followed, Following
  <2>3. CASE Weigh
    BY <2>3, NodeMoves DEF Weigh, Followed, Following
  <2> QED BY <2>1, <2>2, <2>3
<1>3. Apart'
  BY <1>1, <1>2 DEF Placed, Locked, Followed, Alone, Looking, Following
<1>4. Evident' /\ EvidenceOfThisFlight'
  <2>1. CASE Track
    BY <1>1, <2>1, NodeMoves DEF Track, record, evidence, Evident, EvidenceOfThisFlight
  <2>2. CASE Ask
    BY <1>1, <2>2 DEF Ask, record, evidence, Evident, EvidenceOfThisFlight
  <2>3. CASE Weigh
    BY <1>1, <2>3, NodeMoves DEF Weigh, Evident, EvidenceOfThisFlight
  <2> QED BY <2>1, <2>2, <2>3
<1>5. Truthful'
  BY <1>1, <1>2, <1>4, BookKeeps DEF Loaded, Shown, Booked, FliesTheActiveOrder
<1> QED BY <1>3, <1>5

LEMMA MarkKeeps ==
    ASSUME DelInv, Mark
    PROVE  DelInv'
<1> USE DEF DelInv, Apart, Truthful
<1>1. UNCHANGED <<active, pending, outcome, plan, armed, flew, everArmed, bleOk, auto>>
  BY DEF Mark, navigator, queue, record, evidence, senses
<1>2. /\ at["node"] = "mark" /\ order["node"] = active /\ active # None
  BY DEF Mark, Followed, Following
<1>3. /\ at' = [u \in Threads |-> at'[u]] /\ order' = [u \in Threads |-> order'[u]]
      /\ at'["gcs"] = at["gcs"] /\ order'["gcs"] = order["gcs"]
      /\ \/ at'["node"] = "idle" /\ lock' = "free"
         \/ at'["node"] = "close" /\ lock' = "node" /\ order'["node"] = order["node"]
  BY <1>2, NodeMoves DEF Mark
<1>4. Booked' /\ shown'.order = order["node"]
      /\ \A x \in Orders : book'[x].status = "DELIVERED" => book[x].status = "DELIVERED"
  BY <1>2, SetPhaseShows DEF Mark
<1>5. Apart'
  BY <1>1, <1>2, <1>3 DEF Placed, Locked, Followed, Alone, Looking, Following
<1>6. Truthful'
  BY <1>1, <1>3, <1>4, BookKeeps DEF Loaded, Shown, Evident, FliesTheActiveOrder, EvidenceOfThisFlight
<1> QED BY <1>5, <1>6

\* What is closed as delivered is what is shown, which is what was followed.
LEMMA CloseKeeps ==
    ASSUME DelInv, Close
    PROVE  DelInv' /\ (Verdict = "DELIVERED" => order["node"] \in bleOk)
<1> USE DEF DelInv, Apart, Truthful
<1>1. UNCHANGED <<plan, armed, flew, bleOk, auto>> /\ active' = None /\ lock' = "free"
  BY DEF Close, navigator, senses
<1>2. /\ at' = [u \in Threads |-> at'[u]] /\ order' = [u \in Threads |-> order'[u]]
      /\ at'["gcs"] = at["gcs"] /\ order'["gcs"] = order["gcs"]
      /\ at["node"] = "close" /\ at'["node"] = "idle"
  BY NodeMoves DEF Close
<1>3. Verdict = "DELIVERED" => order["node"] \in bleOk
  BY <1>2 DEF Verdict, Shown
<1>4. Booked' /\ DeliveredOnHandshake'
  <2> DEFINE entry == [status |-> IF Verdict = "DELIVERED" THEN "DELIVERED" ELSE "CANCELED",
                       delivered |-> Verdict = "DELIVERED"]
  <2>1. entry \in Entry /\ (entry.status = "DELIVERED" => Verdict = "DELIVERED")
    BY DEF Entry
  <2>2. Write(order["node"], entry)
    BY DEF Close
  <2> HIDE DEF entry
  <2>3. Booked' /\ \A x \in Orders : book'[x] = book[x] \/ (x = order["node"] /\ book'[x] = entry)
    BY <2>1, <2>2, WriteWrites
  <2> QED BY <1>1, <1>3, <2>1, <2>3 DEF DeliveredOnHandshake
<1>5. Apart'
  BY <1>1, <1>2 DEF Placed, Locked, Followed, Alone, Looking, Following
<1>6. Truthful'
  BY <1>1, <1>2, <1>4 DEF Loaded, Shown, Evident, FliesTheActiveOrder, EvidenceOfThisFlight
<1> QED BY <1>3, <1>5, <1>6

-----------------------------------------------------------------------------
(* The services.                                                           *)

\* A button begins something of its own, on what it found under the lock.
LEMMA PressKeeps ==
    ASSUME DelInv, AcceptPressed \/ RejectPressed \/ AbortPressed \/ InjectPressed \/ SelectPressed
    PROVE  DelInv'
<1> USE DEF DelInv, Apart, Truthful
<1>1. /\ at["gcs"] = "idle" /\ lock = "free" /\ UNCHANGED lock
      /\ UNCHANGED <<active, outcome, plan, armed, flew, everArmed, seen, bleOk, auto, book, shown>>
  BY DEF AcceptPressed, RejectPressed, AbortPressed, InjectPressed, SelectPressed, Reads, Pressed,
         navigator, record, evidence, display, senses
<1>2. active # None => UNCHANGED pending /\ (at'["gcs"] = "abort" \/ UNCHANGED at)
  BY GcsMoves DEF AcceptPressed, RejectPressed, AbortPressed, InjectPressed, SelectPressed, Alone
<1>3. /\ at' = [u \in Threads |-> at'[u]] /\ order' = [u \in Threads |-> order'[u]]
      /\ at'["node"] = at["node"] /\ order'["node"] = order["node"]
      /\ at'["gcs"] \in {"idle", "accept", "reject", "abort", "inject", "select"}
  BY <1>1, GcsMoves DEF AcceptPressed, RejectPressed, AbortPressed, InjectPressed, SelectPressed, Placed
<1>4. Apart'
  BY <1>1, <1>2, <1>3 DEF Placed, Locked, Followed, Alone, Looking, Following, Accepting, Aside
<1>5. Truthful'
  BY <1>1, <1>3, BookKeeps DEF Loaded, Shown, Evident, Booked, FliesTheActiveOrder, EvidenceOfThisFlight
<1> QED BY <1>4, <1>5

LEMMA OfferKeeps ==
    ASSUME DelInv, Offer
    PROVE  DelInv'
<1> USE DEF DelInv, Apart, Truthful
<1>1. UNCHANGED <<rest, lock>>
  BY DEF Offer, rest, navigator, queue, record, evidence, senses
<1>2. active = None /\ at["node"] \in Looking
  BY DEF Offer, Alone, Aside, Followed, Placed
<1>3. /\ at' = [u \in Threads |-> at'[u]] /\ order' = [u \in Threads |-> order'[u]]
      /\ at'["node"] = at["node"] /\ at'["gcs"] \in {"idle", "reject", "accept"}
  BY GcsMoves DEF Offer
<1>4. Booked' /\ \A x \in Orders : book'[x].status = "DELIVERED" => book[x].status = "DELIVERED"
  BY SetPhaseShows DEF Offer, display, Booked
<1>5. Apart'
  BY <1>1, <1>2, <1>3 DEF rest, Placed, Locked, Followed, Alone, Looking, Following, Accepting, Aside
<1>6. Truthful'
  BY <1>1, <1>2, <1>3, <1>4, BookKeeps
     DEF rest, Loaded, Shown, Evident, Looking, FliesTheActiveOrder, EvidenceOfThisFlight
<1> QED BY <1>5, <1>6

LEMMA AbortKeeps ==
    ASSUME DelInv, AbortFlight \/ AbortMark
    PROVE  DelInv'
<1> USE DEF DelInv, Apart, Truthful
<1>1. /\ UNCHANGED <<active, pending, outcome, armed, flew, everArmed, seen, bleOk, auto, lock>>
      /\ plan' \in {plan, None}
  BY DEF AbortFlight, AbortMark, F!AbortDelivery, navigator, queue, record, evidence, senses
<1>2. /\ at' = [u \in Threads |-> at'[u]] /\ order' = [u \in Threads |-> order'[u]]
      /\ at'["node"] = at["node"] /\ order'["node"] = order["node"] /\ at'["gcs"] \in {"idle", "aborted"}
  BY GcsMoves DEF AbortFlight, AbortMark
<1>3. /\ Booked' /\ (at["node"] = "close" => UNCHANGED shown)
      /\ \A x \in Orders : book'[x].status = "DELIVERED" => book[x].status = "DELIVERED"
  <2>1. CASE AbortFlight
    BY <2>1 DEF AbortFlight, display, Booked
  <2>2. CASE AbortMark
    BY <2>2, SetPhaseShows DEF AbortMark, Locked
  <2> QED BY <2>1, <2>2
<1>4. Apart'
  BY <1>1, <1>2 DEF Placed, Locked, Followed, Alone, Accepting, Aside
<1>5. Truthful'
  BY <1>1, <1>2, <1>3, BookKeeps DEF Loaded, Shown, Evident, FliesTheActiveOrder, EvidenceOfThisFlight
<1> QED BY <1>4, <1>5

LEMMA OperatorKeeps ==
    ASSUME HandOnly, DelInv, Operator
    PROVE  DelInv'
<1>1. ~SetAuto /\ ~ResetPressed
  BY DEF HandOnly, SetAuto, Reads, ResetPressed, Pressed
<1>2. ~Reset
  BY DEF Reset, DelInv, Apart, Placed, Accepting, Aside
<1> QED BY <1>1, <1>2, FetchKeeps, PressKeeps, OfferKeeps, AbortKeeps DEF Operator

-----------------------------------------------------------------------------
(* The navigator, the aircraft and the phones.                             *)

LEMMA AircraftIsArmedOrNot ==
    ASSUME armed \in BOOLEAN, NavigatorTick \/ Aircraft
    PROVE  armed' \in BOOLEAN
<1>1. CASE NavigatorTick
  BY <1>1 DEF NavigatorTick, F!Begin, F!Proceed, F!Fail, F!Ticks, F!TakeOver
<1>2. CASE Aircraft
  BY <1>2 DEF Aircraft, F!Resume, F!Press, F!EarlyReturn, F!Arms, F!Disarms
<1> QED BY <1>1, <1>2

LEMMA EnvironmentKeeps ==
    ASSUME DelInv, Environment
    PROVE  DelInv'
<1> USE DEF DelInv, Apart, Truthful
<1>1. /\ UNCHANGED <<active, pending, outcome, plan, everArmed, seen, auto, shown, lock, at, order>>
      /\ flew' = (flew \/ armed') /\ bleOk \subseteq bleOk'
  BY DEF Environment, Dispatch, NavigatorTick, Published, Aircraft, Handshake, Elsewhere,
         queue, threads, senses, navigator
<1>2. armed' \in BOOLEAN
  BY AircraftIsArmedOrNot DEF Environment, Dispatch, Published, Handshake, navigator, Evident
<1>3. Booked' /\ \A x \in Orders : book'[x].status = "DELIVERED" => book[x].status = "DELIVERED"
  <2>1. CASE UNCHANGED book
    BY <2>1 DEF Booked
  <2>2. CASE Dispatch
    <3>1. PICK o \in Orders : book' = [book EXCEPT ![o] = [book[o] EXCEPT !.status = "DISPATCHED"]]
      BY <2>2 DEF Dispatch
    <3>2. [book[o] EXCEPT !.status = "DISPATCHED"] \in Entry
          /\ [book[o] EXCEPT !.status = "DISPATCHED"].status = "DISPATCHED"
      BY DEF Booked, Entry
    <3> QED BY <3>1, <3>2 DEF Booked
  <2> QED BY <2>1, <2>2 DEF Environment, NavigatorTick, Published, Aircraft, Handshake
<1>4. Apart'
  BY <1>1 DEF Placed, Locked, Followed, Alone
<1>5. Truthful'
  BY <1>1, <1>2, <1>3, BookKeeps DEF Loaded, Shown, Evident, FliesTheActiveOrder, EvidenceOfThisFlight
<1> QED BY <1>4, <1>5

-----------------------------------------------------------------------------
(* The invariant, by hand.                                                 *)

LEMMA InitIsSound == HandOnly /\ Init => DelInv
<1> SUFFICES ASSUME HandOnly, Init PROVE DelInv
  OBVIOUS
<1>1. Booked /\ DeliveredOnHandshake
  BY DEF Init, Booked, Entry, DeliveredOnHandshake
<1>2. at = [t \in Threads |-> "idle"] /\ order = [t \in Threads |-> None] /\ auto = FALSE
  BY DEF Init, HandOnly
<1>3. active = None /\ lock = "free" /\ ~armed /\ armed \in BOOLEAN
  BY DEF Init, F!FlightInit
<1> QED BY <1>1, <1>2, <1>3, TwoThreads
        DEF DelInv, Apart, Truthful, Placed, Locked, Followed, Alone, Loaded, Shown, Evident,
            FliesTheActiveOrder, EvidenceOfThisFlight, Looking, Following, Accepting, Aside

LEMMA WorkIsPollOrAccept == \A t \in Threads : Work(t) => Poll(t) \/ Accept(t)
BY DEF Work, Poll, Accept

LEMMA NextIsSound == HandOnly /\ DelInv /\ [Next]_vars => DelInv'
<1> SUFFICES ASSUME HandOnly, DelInv, [Next]_vars PROVE DelInv'
  OBVIOUS
<1>1. CASE Loop
  BY <1>1, FetchKeeps, FollowKeeps, MarkKeeps, CloseKeeps DEF Loop
<1>2. CASE \E t \in Threads : Work(t)
  BY <1>2, WorkIsPollOrAccept, PollKeeps, AcceptKeeps
<1>3. CASE Operator \/ Environment
  BY <1>3, OperatorKeeps, EnvironmentKeeps
<1>4. CASE UNCHANGED vars
  BY <1>4 DEF vars, navigator, queue, record, evidence, display, threads, bounds, senses, DelInv,
     Apart, Truthful, Placed, Locked, Followed, Alone, Loaded, Shown, Evident, Booked,
     FliesTheActiveOrder, EvidenceOfThisFlight, DeliveredOnHandshake
<1> QED BY <1>1, <1>2, <1>3, <1>4 DEF Next

LEMMA Inductive ==
    ASSUME HandOnly
    PROVE  Spec => []DelInv
<1>1. Init => DelInv
  BY InitIsSound
<1>2. DelInv /\ [Next]_vars => DelInv'
  BY NextIsSound
<1> QED BY <1>1, <1>2, PTL DEF Spec

-----------------------------------------------------------------------------
(* The types, in every configuration: with automatic acceptance and with   *)
(* resets too.  A thread in the middle of something works on an order.     *)

Resting == {"idle", "fetched", "track", "reset"}
Employed == \A t \in Threads : at[t] \notin Resting => order[t] \in Orders

Ids == Orders \cup {None}
FlightTyped == phase \in F!FlightPhases /\ {startRequested, override, armed} \subseteq BOOLEAN /\ plan \in Ids
QueueTyped == /\ pending \in Ids /\ selected \in Ids /\ inbox \cup preexisting \subseteq Orders
              /\ {manual, polled, deferred} \subseteq BOOLEAN
RecordTyped == /\ active \in Ids /\ handled \subseteq Orders /\ outcome \in Outcomes
               /\ {everArmed, stopped, flew} \subseteq BOOLEAN
DisplayTyped == /\ shown \in [phase : DeliveryPhases, order : Ids]
                /\ book \in [Orders -> Entry] /\ mishaps \in 0..MaxMishaps
PlaceTyped == at \in [Threads -> Steps] /\ order \in [Threads -> Ids] /\ Employed
RestTyped == /\ batch \in [Threads -> SUBSET Orders] /\ seen \in Look
             /\ {mirror, home, publishing, auto} \subseteq BOOLEAN /\ bleOk \subseteq Orders
             /\ lock \in Threads \cup {"free"} /\ presses \in 0..MaxPresses

Typed == FlightTyped /\ QueueTyped /\ RecordTyped /\ DisplayTyped /\ PlaceTyped /\ RestTyped

LEMMA TypedIsTypeOK == Typed => TypeOK
BY DEF Typed, FlightTyped, QueueTyped, RecordTyped, DisplayTyped, PlaceTyped, RestTyped, TypeOK,
       F!FlightTypeOK, Ids

\* Orders are numbered by their creation: of some there is a first.
LEMMA FirstOrder ==
    ASSUME NEW T \in SUBSET Orders, T # {}
    PROVE  Min(T) \in T
<1> DEFINE R == {ss \in Nat \X Nat : ss[1] < ss[2]}
<1>1. T \in SUBSET Nat
  BY OrdersAssumption
<1>2. IsWellFoundedOn(R, Nat)
  BY NatLessThanWellFounded DEF OpToRel
<1>3. PICK x \in T : \A y \in T : <<y, x>> \notin R
  <2> HIDE DEF R
  <2> QED BY <1>1, <1>2, WFMin
<1>4. ASSUME NEW y \in T PROVE x <= y
  <2>1. x \in Nat /\ y \in Nat
    BY <1>1
  <2>2. <<y, x>> \notin R
    <3> HIDE DEF R
    <3> QED BY <1>3
  <2>3. ~(<<y, x>>[1] < <<y, x>>[2])
    BY <2>1, <2>2
  <2> QED BY <2>1, <2>3
<1> QED BY <1>4 DEF Min

LEMMA AtTyped ==
    ASSUME PlaceTyped, NEW t \in Threads, NEW step \in Steps, NEW o \in Ids,
           step \in Resting \/ o \in Orders, At(t, step, o)
    PROVE  PlaceTyped'
<1>1. /\ at \in [Threads -> Steps] /\ order \in [Threads -> Ids]
      /\ at' = [at EXCEPT ![t] = step] /\ order' = [order EXCEPT ![t] = o]
      /\ \A u \in Threads : at[u] \notin Resting => order[u] \in Orders
  BY DEF PlaceTyped, Employed, At
<1>2. at' \in [Threads -> Steps] /\ order' \in [Threads -> Ids]
  BY <1>1
<1>3. ASSUME NEW u \in Threads, at'[u] \notin Resting PROVE order'[u] \in Orders
  <2>1. CASE u = t
    BY <1>1, <1>3, <2>1
  <2>2. CASE u # t
    BY <1>1, <1>3, <2>2
  <2> QED BY <2>1, <2>2
<1> QED BY <1>2, <1>3 DEF PlaceTyped, Employed

LEMMA ReturnsTyped ==
    ASSUME PlaceTyped, NEW t \in Threads, Returns(t)
    PROVE  PlaceTyped'
<1> DEFINE step == IF t = "node" THEN "track" ELSE "idle"
<1>1. step \in Steps /\ step \in Resting /\ None \in Ids
  BY DEF Steps, Resting, Ids
<1>2. At(t, step, None)
  BY DEF Returns
<1> HIDE DEF step
<1> QED BY <1>1, <1>2, AtTyped

LEMMA WriteTyped ==
    ASSUME DisplayTyped, NEW o, NEW entry, o \in Orders => entry \in Entry, Write(o, entry)
    PROVE  book' \in [Orders -> Entry] /\ mishaps' \in 0..MaxMishaps
<1>1. book \in [Orders -> Entry] /\ mishaps \in 0..MaxMishaps /\ MaxMishaps \in Nat
  BY OrdersAssumption DEF DisplayTyped
<1>2. CASE book' = [book EXCEPT ![o] = entry] /\ UNCHANGED mishaps
  BY <1>1, <1>2
<1>3. CASE mishaps > 0 /\ mishaps' = mishaps - 1 /\ UNCHANGED book
  BY <1>1, <1>3
<1> QED BY <1>2, <1>3 DEF Write

LEMMA SetPhaseTyped ==
    ASSUME DisplayTyped, NEW p \in DeliveryPhases, NEW o \in Ids, SetPhase(p, o)
    PROVE  DisplayTyped'
<1>1. shown' \in [phase : DeliveryPhases, order : Ids]
  BY DEF SetPhase, DisplayTyped
<1>2. CASE UNCHANGED <<book, mishaps>>
  BY <1>1, <1>2 DEF DisplayTyped
<1>3. CASE ~UNCHANGED <<book, mishaps>>
  <2> DEFINE entry == IF p = "LANDED" THEN [book[o] EXCEPT !.delivered = TRUE]
                      ELSE [book[o] EXCEPT !.status = "CANCELED"]
  <2>1. Write(o, entry)
    BY <1>3 DEF SetPhase
  <2>2. o \in Orders => entry \in Entry
    BY DEF DisplayTyped, Entry
  <2> HIDE DEF entry
  <2> QED BY <1>1, <2>1, <2>2, WriteTyped DEF DisplayTyped
<1> QED BY <1>2, <1>3

-----------------------------------------------------------------------------
(* The polls and the acceptances keep the types.                           *)

LEMMA FetchTyped ==
    ASSUME Typed, NEW t \in Threads, Fetch(t), presses' \in 0..MaxPresses
    PROVE  Typed'
<1> USE DEF Typed
<1>1. At(t, "fetched", None) /\ UNCHANGED <<navigator, queue, record, display, senses, auto, lock, seen>>
  BY DEF Fetch
<1>2. PlaceTyped'
  BY <1>1, AtTyped DEF Steps, Resting, Ids
<1>3. Dispatched \in SUBSET Orders
  BY DEF Dispatched
<1>4. batch' \in [Threads -> SUBSET Orders] /\ mishaps' \in 0..MaxMishaps
  <2>1. CASE batch' = [batch EXCEPT ![t] = Dispatched] /\ UNCHANGED mishaps
    BY <1>3, <2>1 DEF RestTyped, DisplayTyped
  <2>2. CASE mishaps > 0 /\ mishaps' = mishaps - 1 /\ UNCHANGED batch
    BY <2>2, OrdersAssumption DEF RestTyped, DisplayTyped
  <2> QED BY <2>1, <2>2 DEF Fetch
<1> QED BY <1>1, <1>2, <1>4
    DEF navigator, queue, record, evidence, display, senses, FlightTyped, QueueTyped, RecordTyped,
        DisplayTyped, RestTyped

LEMMA CandidateTyped ==
    ASSUME Typed, NEW t \in Threads
    PROVE  Candidate(t) \in Ids
<1>1. batch[t] \subseteq Orders
  BY DEF Typed, RestTyped
<1> DEFINE left == batch[t] \ handled
<1>2. left # {} => Min(left) \in left
  <2>1. left \in SUBSET Orders
    BY <1>1
  <2> HIDE DEF left
  <2> QED BY <2>1, FirstOrder
<1>3. selected \in Ids
  BY DEF Typed, QueueTyped
<1> QED BY <1>1, <1>2, <1>3 DEF Candidate, Ids

LEMMA RejectsTyped ==
    ASSUME Typed, NEW o \in Orders, Rejects(o)
    PROVE  /\ handled' \subseteq Orders /\ DisplayTyped'
           /\ pending' \in Ids /\ manual' \in BOOLEAN /\ deferred' \in BOOLEAN
<1>1. DisplayTyped'
  BY SetPhaseTyped DEF Rejects, Typed, DeliveryPhases, Ids
<1> QED BY <1>1 DEF Rejects, Forget, Ids, Typed, RecordTyped

LEMMA PollTyped ==
    ASSUME Typed, NEW t \in Threads, Poll(t)
    PROVE  Typed'
<1> DEFINE c == Candidate(t)
<1>1. c \in Ids
  BY CandidateTyped
<1>2. /\ FlightTyped' /\ inbox' \cup preexisting' \subseteq Orders /\ polled' \in BOOLEAN
      /\ selected' \in Ids /\ batch' \in [Threads -> SUBSET Orders] /\ active' \in Ids
      /\ outcome' \in Outcomes /\ {everArmed, stopped, flew}' \subseteq BOOLEAN /\ seen' \in Look
      /\ {mirror, home, publishing, auto}' \subseteq BOOLEAN /\ bleOk' \subseteq Orders
      /\ presses' \in 0..MaxPresses
  <2>1. Polled(t)
    BY DEF Poll, PollNothing, PollWithdraw, PollHold, PollReject, PollOffer
  <2>2. batch[t] \subseteq Orders
    BY DEF Typed, RestTyped
  <2> QED BY <2>1, <2>2 DEF Polled, navigator, senses, evidence, Typed, FlightTyped, QueueTyped,
                             RecordTyped, RestTyped
<1> SUFFICES /\ pending' \in Ids /\ manual' \in BOOLEAN /\ deferred' \in BOOLEAN
             /\ handled' \subseteq Orders /\ DisplayTyped' /\ PlaceTyped' /\ lock' \in Threads \cup {"free"}
  BY <1>2 DEF Typed, QueueTyped, RecordTyped, RestTyped
<1>3. DisplayTyped /\ PlaceTyped /\ lock \in Threads \cup {"free"} /\ handled \subseteq Orders
      /\ pending \in Ids /\ manual \in BOOLEAN /\ deferred \in BOOLEAN /\ None \in Ids
  BY DEF Typed, RestTyped, RecordTyped, QueueTyped, Ids
<1>4. {"IDLE", "PENDING"} \subseteq DeliveryPhases
  BY DEF DeliveryPhases
<1> HIDE DEF c
<1>5. CASE PollNothing(t)
  BY <1>3, <1>5, ReturnsTyped DEF PollNothing, display, DisplayTyped
<1>6. CASE PollWithdraw(t)
  BY <1>3, <1>4, <1>6, ReturnsTyped, SetPhaseTyped DEF PollWithdraw, Forget
<1>7. CASE PollHold(t)
  <2>1. SetPhase("PENDING", c) /\ pending' = c /\ manual' = FALSE /\ deferred' = TRUE
    BY <1>7 DEF PollHold, c
  <2> QED BY <1>1, <1>3, <1>4, <1>7, <2>1, ReturnsTyped, SetPhaseTyped DEF PollHold
<1>8. CASE PollReject(t)
  <2>1. c \in Orders
    BY <1>8, OrdersAssumption DEF PollReject, c
  <2>2. Rejects(c)
    BY <1>8 DEF PollReject, c
  <2> QED BY <1>3, <1>8, <2>1, <2>2, RejectsTyped, ReturnsTyped DEF PollReject
<1>9. CASE PollOffer(t)
  <2>1. SetPhase("PENDING", c) /\ pending' = c /\ manual' = FALSE /\ deferred' = FALSE
    BY <1>9 DEF PollOffer, c
  <2>2. c \in Orders
    BY <1>1, <1>9 DEF PollOffer, ToOffer, Ids, c
  <2>3. PlaceTyped' /\ lock' \in Threads \cup {"free"}
    <3>1. CASE lock' = t /\ At(t, "accept", c)
      BY <1>1, <1>3, <2>2, <3>1, AtTyped DEF Steps
    <3>2. CASE Returns(t) /\ UNCHANGED lock
      BY <1>3, <3>2, ReturnsTyped
    <3> QED BY <1>9, <3>1, <3>2 DEF PollOffer, c
  <2> QED BY <1>1, <1>3, <1>4, <1>9, <2>1, <2>3, SetPhaseTyped DEF PollOffer
<1> QED BY <1>5, <1>6, <1>7, <1>8, <1>9 DEF Poll

LEMMA AcceptTyped ==
    ASSUME Typed, NEW t \in Threads, Accept(t)
    PROVE  Typed'
<1>1. order[t] \in Orders /\ order[t] \in Ids
  <2>1. at[t] \in {"accept", "plan", "start", "take", "reject"}
    BY DEF Accept, Validate, Reject, PlanRoute, Launch, LaunchRefused, Take
  <2> QED BY <2>1 DEF Typed, PlaceTyped, Employed, Resting, Ids
<1>2. PlaceTyped'
  <2>1. PlaceTyped /\ None \in Ids
    BY DEF Typed, Ids
  <2>2. CASE Returns(t)
    BY <2>1, <2>2, ReturnsTyped
  <2>3. CASE \E step \in {"plan", "reject", "start", "take"} : At(t, step, order[t])
    BY <1>1, <2>1, <2>3, AtTyped DEF Steps
  <2> QED BY <2>2, <2>3 DEF Accept, Validate, Reject, PlanRoute, Launch, LaunchRefused, Take
<1>3. lock' \in Threads \cup {"free"}
  BY DEF Accept, Validate, Reject, PlanRoute, Launch, LaunchRefused, Take, Releases, Typed, RestTyped
<1>4. /\ batch' \in [Threads -> SUBSET Orders] /\ seen' \in Look
      /\ {mirror, home, publishing, auto}' \subseteq BOOLEAN /\ bleOk' \subseteq Orders
      /\ presses' \in 0..MaxPresses /\ selected' \in Ids
      /\ inbox' \cup preexisting' \subseteq Orders /\ polled' \in BOOLEAN
  BY DEF Accept, Validate, Reject, PlanRoute, Launch, LaunchRefused, Take, queue, senses, bounds,
         Typed, RestTyped, QueueTyped
<1>5. RestTyped'
  BY <1>3, <1>4 DEF RestTyped
<1>6. FlightTyped'
  <2>1. FlightTyped
    BY DEF Typed
  <2>2. CASE PlanRoute(t)
    BY <1>1, <2>1, <2>2 DEF PlanRoute, F!SetPlan, FlightTyped
  <2>3. CASE Launch(t)
    BY <2>1, <2>3 DEF Launch, F!StartMission, FlightTyped
  <2>4. CASE UNCHANGED navigator
    BY <2>1, <2>4 DEF navigator, FlightTyped
  <2> QED BY <2>2, <2>3, <2>4 DEF Accept, Validate, Reject, LaunchRefused, Take
<1>7. /\ DisplayTyped' /\ handled' \subseteq Orders
      /\ pending' \in Ids /\ manual' \in BOOLEAN /\ deferred' \in BOOLEAN
  <2>1. /\ DisplayTyped /\ handled \subseteq Orders
        /\ pending \in Ids /\ manual \in BOOLEAN /\ deferred \in BOOLEAN /\ None \in Ids
    BY DEF Typed, RecordTyped, QueueTyped, Ids
  <2>2. CASE Reject(t)
    BY <1>1, <2>2, RejectsTyped DEF Reject
  <2>3. CASE LaunchRefused(t)
    BY <1>1, <2>1, <2>3, SetPhaseTyped DEF LaunchRefused, queue, record, DeliveryPhases
  <2>4. CASE Take(t)
    BY <1>1, <2>1, <2>4, SetPhaseTyped DEF Take, Forget, DeliveryPhases
  <2>5. CASE Validate(t) \/ PlanRoute(t) \/ Launch(t)
    BY <2>1, <2>5 DEF Validate, PlanRoute, Launch, queue, record, display, bounds, DisplayTyped
  <2> QED BY <2>2, <2>3, <2>4, <2>5 DEF Accept
<1>8. active' \in Ids /\ outcome' \in Outcomes /\ {everArmed, stopped, flew}' \subseteq BOOLEAN
  <2>1. RecordTyped /\ armed \in BOOLEAN
    BY DEF Typed, FlightTyped
  <2>2. CASE Take(t)
    BY <1>1, <2>1, <2>2 DEF Take, RecordTyped, Outcomes
  <2>3. CASE Launch(t)
    BY <2>1, <2>3 DEF Launch, RecordTyped
  <2>4. CASE UNCHANGED <<active, evidence>>
    BY <2>1, <2>4 DEF RecordTyped, evidence
  <2> QED BY <2>2, <2>3, <2>4 DEF Accept, Validate, Reject, PlanRoute, LaunchRefused, record
<1> QED BY <1>2, <1>4, <1>5, <1>6, <1>7, <1>8 DEF Typed, QueueTyped, RecordTyped

-----------------------------------------------------------------------------
(* So do the loop's look at the active order and its closing of it.        *)

LEMMA LookTyped ==
    ASSUME Typed, Track \/ Ask \/ Weigh
    PROVE  Typed'
<1>1. /\ UNCHANGED <<navigator, queue, display, senses, auto, lock, batch, bounds>>
      /\ UNCHANGED <<active, handled, outcome, flew>>
  BY DEF Track, Ask, Weigh, record, evidence
<1>2. "node" \in Threads /\ None \in Ids /\ PlaceTyped /\ active \in Ids /\ order["node"] \in Ids
  BY TwoThreads DEF Typed, RecordTyped, PlaceTyped, Ids
<1>3. CASE Track
  <2>1. PlaceTyped'
    <3>1. CASE active = None
      BY <1>2, <1>3, <3>1, AtTyped DEF Track, Steps, Resting
    <3>2. CASE active # None
      <4>1. active \in Orders
        BY <1>2, <3>2 DEF Ids
      <4> QED BY <1>2, <1>3, <3>2, <4>1, AtTyped DEF Track, Steps
    <3> QED BY <3>1, <3>2
  <2> QED BY <1>1, <1>3, <2>1
      DEF Track, navigator, queue, record, evidence, display, senses, bounds, Typed, FlightTyped,
          QueueTyped, RecordTyped, DisplayTyped, RestTyped
<1>4. ASSUME Ask \/ Weigh PROVE order["node"] \in Orders
  BY <1>2, <1>4 DEF Ask, Weigh, PlaceTyped, Employed, Resting
<1>5. CASE Ask
  <2>1. PlaceTyped'
    BY <1>2, <1>4, <1>5, AtTyped DEF Ask, Steps
  <2>2. seen' \in Look
    BY <1>5 DEF Ask, Typed, FlightTyped, Look, DeliveryPhases
  <2> QED BY <1>1, <1>5, <2>1, <2>2
      DEF Ask, navigator, queue, record, evidence, display, senses, bounds, Typed, FlightTyped,
          QueueTyped, RecordTyped, DisplayTyped, RestTyped
<1>6. CASE Weigh
  <2>1. PlaceTyped'
    BY <1>2, <1>4, <1>6, AtTyped DEF Weigh, Steps
  <2>2. seen \in Look /\ {everArmed, stopped} \subseteq BOOLEAN
    BY DEF Typed, RestTyped, RecordTyped
  <2>3. NextPhase \in DeliveryPhases
    BY DEF NextPhase, DeliveryPhases
  <2>4. seen' \in Look
    BY <1>6, <2>2, <2>3 DEF Weigh, Look
  <2>5. {everArmed, stopped}' \subseteq BOOLEAN
    BY <1>6, <2>2 DEF Weigh, Look
  <2> QED BY <1>1, <2>1, <2>4, <2>5
      DEF navigator, queue, display, senses, bounds, Typed, FlightTyped,
          QueueTyped, RecordTyped, DisplayTyped, RestTyped
<1> QED BY <1>3, <1>5, <1>6

LEMMA UnseenTyped == Unseen \in Look
BY DEF Unseen, Look, DeliveryPhases, F!FlightPhases

LEMMA MarkTyped ==
    ASSUME Typed, Mark
    PROVE  Typed'
<1>1. "node" \in Threads /\ None \in Ids /\ PlaceTyped /\ DisplayTyped /\ seen \in Look
      /\ lock \in Threads \cup {"free"}
  BY TwoThreads DEF Typed, RestTyped, Ids
<1>2. order["node"] \in Orders /\ order["node"] \in Ids
  BY <1>1 DEF Mark, PlaceTyped, Employed, Resting
<1>3. DisplayTyped'
  <2>1. SetPhase(seen.next, order["node"])
    BY DEF Mark
  <2>2. seen.next \in DeliveryPhases
    BY <1>1 DEF Look
  <2> QED BY <1>1, <1>2, <2>1, <2>2, SetPhaseTyped
<1>4. PlaceTyped' /\ seen' \in Look /\ lock' \in Threads \cup {"free"}
  <2>1. CASE Over
    BY <1>1, <1>2, <2>1, AtTyped DEF Mark, Steps
  <2>2. CASE ~Over
    BY <1>1, <2>2, AtTyped, UnseenTyped DEF Mark, Steps, Resting
  <2> QED BY <2>1, <2>2
<1> QED BY <1>3, <1>4
    DEF Mark, navigator, queue, record, evidence, senses, Typed, FlightTyped,
        QueueTyped, RecordTyped, RestTyped

LEMMA CloseTyped ==
    ASSUME Typed, Close
    PROVE  Typed'
<1>1. "node" \in Threads /\ None \in Ids /\ PlaceTyped /\ DisplayTyped
  BY TwoThreads DEF Typed, Ids
<1>2. order["node"] \in Orders
  BY <1>1 DEF Close, PlaceTyped, Employed, Resting
<1> DEFINE entry == [status |-> IF Verdict = "DELIVERED" THEN "DELIVERED" ELSE "CANCELED",
                     delivered |-> Verdict = "DELIVERED"]
<1>3. DisplayTyped'
  <2>1. Write(order["node"], entry)
    BY DEF Close
  <2>2. entry \in Entry
    BY DEF Entry
  <2>3. shown' = shown
    BY DEF Close
  <2> HIDE DEF entry
  <2> QED BY <1>1, <2>1, <2>2, <2>3, WriteTyped DEF DisplayTyped
<1>4. PlaceTyped'
  BY <1>1, AtTyped DEF Close, Steps, Resting
<1>5. handled' \subseteq Orders /\ active' \in Ids /\ pending' \in Ids /\ manual' \in BOOLEAN
  BY <1>1, <1>2 DEF Close, Forget, Typed, RecordTyped
<1>6. outcome' \in Outcomes
  BY DEF Close, Verdict, Outcomes
<1>7. seen' \in Look /\ lock' \in Threads \cup {"free"}
  BY UnseenTyped DEF Close
<1> QED BY <1>3, <1>4, <1>5, <1>6, <1>7
    DEF Close, navigator, senses, Typed, FlightTyped, QueueTyped, RecordTyped, RestTyped

-----------------------------------------------------------------------------
(* The operator's buttons and the world keep the types.                    *)

\* A button was pressed.
LEMMA PressedTyped ==
    ASSUME Typed, NEW button, Pressed(button)
    PROVE  presses' \in 0..MaxPresses /\ "gcs" \in Threads /\ None \in Ids
BY OrdersAssumption, TwoThreads DEF Pressed, Typed, RestTyped, Ids

LEMMA ButtonTyped ==
    ASSUME Typed, AcceptPressed \/ RejectPressed \/ AbortPressed \/ SetAuto \/ InjectPressed \/ ResetPressed
    PROVE  Typed'
<1>1. /\ UNCHANGED <<navigator, selected, deferred, inbox, preexisting, polled, evidence,
                     display, senses, lock, batch, seen, mishaps, active>>
      /\ \E button : Pressed(button)
  BY DEF AcceptPressed, RejectPressed, AbortPressed, SetAuto, InjectPressed, ResetPressed, Reads,
         queue, record
<1>2. presses' \in 0..MaxPresses /\ "gcs" \in Threads /\ None \in Ids /\ PlaceTyped
  BY <1>1, PressedTyped DEF Typed
<1>3. pending \in Ids /\ active \in Ids /\ auto \in BOOLEAN /\ manual \in BOOLEAN /\ handled \subseteq Orders
  BY DEF Typed, QueueTyped, RecordTyped, RestTyped
<1>4. /\ PlaceTyped' /\ pending' \in Ids /\ manual' \in BOOLEAN /\ handled' \subseteq Orders
      /\ auto' \in BOOLEAN
  <2>1. CASE AcceptPressed
    <3>1. pending \in Orders
      BY <1>3, <2>1 DEF AcceptPressed, Ids
    <3> QED BY <1>2, <1>3, <2>1, <3>1, AtTyped DEF AcceptPressed, Steps
  <2>2. CASE RejectPressed
    <3>1. pending \in Orders
      BY <1>3, <2>2 DEF RejectPressed, Ids
    <3> QED BY <1>2, <1>3, <2>2, <3>1, AtTyped DEF RejectPressed, Steps
  <2>3. CASE AbortPressed
    <3>1. active \in Orders
      BY <1>3, <2>3 DEF AbortPressed, Ids
    <3> QED BY <1>2, <1>3, <2>3, <3>1, AtTyped DEF AbortPressed, Steps
  <2>4. CASE SetAuto
    BY <1>2, <1>3, <2>4 DEF SetAuto, PlaceTyped, Employed
  <2>5. CASE InjectPressed
    <3>1. PICK o \in Manual : /\ pending' = o /\ manual' = TRUE
                              /\ handled' = handled \ {o} /\ At("gcs", "inject", o)
      BY <2>5 DEF InjectPressed
    <3>2. o \in Orders /\ o \in Ids
      BY OrdersAssumption DEF Ids
    <3> QED BY <1>2, <1>3, <2>5, <3>1, <3>2, AtTyped DEF InjectPressed, Steps
  <2>6. CASE ResetPressed
    BY <1>2, <1>3, <2>6, AtTyped DEF ResetPressed, Steps, Resting, queue, record
  <2> QED BY <2>1, <2>2, <2>3, <2>4, <2>5, <2>6
<1> QED BY <1>1, <1>2, <1>4
    DEF navigator, evidence, display, senses, Typed, FlightTyped, QueueTyped, RecordTyped,
        DisplayTyped, RestTyped

LEMMA SelectTyped ==
    ASSUME Typed, SelectPressed
    PROVE  Typed'
<1>1. presses' \in 0..MaxPresses /\ "gcs" \in Threads /\ None \in Ids /\ PlaceTyped
  BY PressedTyped DEF SelectPressed, Typed
<1>2. inbox \subseteq Orders
  BY DEF Typed, QueueTyped
<1>3. PlaceTyped' /\ selected' \in Ids /\ pending' \in Ids /\ manual' \in BOOLEAN
  <2>1. CASE selected' = None /\ UNCHANGED <<pending, manual, at, order>>
    BY <1>1, <2>1 DEF PlaceTyped, Employed, Typed, QueueTyped
  <2>2. CASE \E o \in inbox :
               /\ selected' = o /\ pending' = o /\ manual' = FALSE
               /\ At("gcs", "select", o)
    BY <1>1, <1>2, <2>2, AtTyped DEF Steps, Ids
  <2> QED BY <2>1, <2>2 DEF SelectPressed
<1> QED BY <1>1, <1>3
    DEF SelectPressed, navigator, record, evidence, display, senses, Typed, FlightTyped, QueueTyped,
        RecordTyped, DisplayTyped, RestTyped

LEMMA ServiceTyped ==
    ASSUME Typed, Offer \/ AbortFlight \/ AbortMark \/ Reset
    PROVE  Typed'
<1>1. /\ "gcs" \in Threads /\ None \in Ids /\ PlaceTyped /\ DisplayTyped
      /\ handled \subseteq Orders /\ FlightTyped /\ RestTyped
  BY TwoThreads DEF Typed, RecordTyped, Ids
<1>2. ASSUME Offer \/ AbortFlight \/ AbortMark PROVE order["gcs"] \in Orders /\ order["gcs"] \in Ids
  BY <1>1, <1>2 DEF Offer, AbortFlight, AbortMark, PlaceTyped, Employed, Resting, Ids
<1>3. RestTyped'
  BY <1>1 DEF Offer, AbortFlight, AbortMark, Reset, RestTyped, senses, bounds
<1>4. CASE Offer
  <2>1. PlaceTyped' /\ DisplayTyped'
    <3>1. CASE At("gcs", "idle", None) /\ UNCHANGED <<display, mishaps>>
      BY <1>1, <3>1, AtTyped DEF Steps, Resting, display, DisplayTyped
    <3>2. CASE At("gcs", "reject", order["gcs"]) /\ UNCHANGED <<display, mishaps>>
      BY <1>1, <1>2, <1>4, <3>2, AtTyped DEF Steps, display, DisplayTyped
    <3>3. CASE /\ SetPhase("PENDING", order["gcs"])
               /\ At("gcs", "idle", None) \/ At("gcs", "accept", order["gcs"])
      <4>1. DisplayTyped'
        BY <1>1, <1>2, <1>4, <3>3, SetPhaseTyped DEF DeliveryPhases
      <4>2. CASE At("gcs", "idle", None)
        BY <1>1, <4>1, <4>2, AtTyped DEF Steps, Resting
      <4>3. CASE At("gcs", "accept", order["gcs"])
        BY <1>1, <1>2, <1>4, <4>1, <4>3, AtTyped DEF Steps
      <4> QED BY <3>3, <4>2, <4>3
    <3> QED BY <1>4, <3>1, <3>2, <3>3 DEF Offer
  <2> QED BY <1>3, <1>4, <2>1
      DEF Offer, navigator, queue, record, evidence, Typed, FlightTyped, QueueTyped, RecordTyped
<1>5. CASE AbortFlight
  <2>1. FlightTyped'
    BY <1>1, <1>5 DEF AbortFlight, F!AbortDelivery, FlightTyped, F!FlightPhases
  <2>2. PlaceTyped'
    BY <1>1, <1>2, <1>5, AtTyped DEF AbortFlight, Steps
  <2> QED BY <1>3, <1>5, <2>1, <2>2
      DEF AbortFlight, queue, record, evidence, display, bounds, Typed, QueueTyped, RecordTyped,
          DisplayTyped
<1>6. CASE AbortMark
  <2>1. DisplayTyped'
    BY <1>1, <1>2, <1>6, SetPhaseTyped DEF AbortMark, DeliveryPhases
  <2>2. PlaceTyped'
    BY <1>1, <1>6, AtTyped DEF AbortMark, Steps, Resting
  <2>3. handled' \subseteq Orders /\ stopped' \in BOOLEAN
    BY <1>1, <1>2, <1>6 DEF AbortMark
  <2> QED BY <1>3, <1>6, <2>1, <2>2, <2>3
      DEF AbortMark, navigator, queue, Typed, FlightTyped, QueueTyped, RecordTyped
<1>7. CASE Reset
  <2>1. PlaceTyped'
    BY <1>1, <1>7, AtTyped DEF Reset, Steps, Resting
  <2>2. active' \in Ids /\ pending' \in Ids /\ manual' \in BOOLEAN /\ DisplayTyped'
    <3>1. CASE UNCHANGED <<active, pending, manual, display, mishaps>>
      BY <1>1, <3>1 DEF Typed, QueueTyped, RecordTyped, display, DisplayTyped
    <3>2. CASE active' = None /\ Forget /\ SetPhase("IDLE", None)
      BY <1>1, <3>2, SetPhaseTyped DEF Forget, DeliveryPhases
    <3> QED BY <1>7, <3>1, <3>2 DEF Reset
  <2> QED BY <1>3, <1>7, <2>1, <2>2
      DEF Reset, navigator, evidence, Typed, FlightTyped, QueueTyped, RecordTyped
<1> QED BY <1>4, <1>5, <1>6, <1>7

LEMMA EnvironmentTyped ==
    ASSUME Typed, Environment
    PROVE  Typed'
<1>1. /\ FlightTyped /\ DisplayTyped /\ RestTyped /\ PlaceTyped
      /\ flew \in BOOLEAN /\ mishaps \in 0..MaxMishaps /\ MaxMishaps \in Nat
  BY OrdersAssumption DEF Typed, RecordTyped, DisplayTyped
<1>2. Elsewhere
  BY DEF Environment, Dispatch, NavigatorTick, Published, Aircraft, Handshake
<1>3. mishaps' \in 0..MaxMishaps
  <2>1. UNCHANGED mishaps \/ Mishap
    BY DEF Environment, Dispatch, NavigatorTick, Published, Aircraft, Handshake
  <2> QED BY <1>1, <2>1 DEF Mishap
<1>4. book' \in [Orders -> Entry]
  <2>1. CASE Dispatch
    <3>1. PICK o \in Orders : book' = [book EXCEPT ![o].status = "DISPATCHED"]
      BY <2>1 DEF Dispatch
    <3> QED BY <1>1, <3>1 DEF DisplayTyped, Entry
  <2>2. CASE UNCHANGED book
    BY <1>1, <2>2 DEF DisplayTyped
  <2> QED BY <2>1, <2>2 DEF Environment, NavigatorTick, Published, Aircraft, Handshake
<1>5. FlightTyped'
  <2>1. CASE UNCHANGED navigator
    BY <1>1, <2>1 DEF navigator, FlightTyped
  <2>2. CASE NavigatorTick
    <3>1. UNCHANGED plan
      BY <2>2 DEF NavigatorTick
    <3>2. CASE F!Begin
      BY <1>1, <3>1, <3>2 DEF F!Begin, FlightTyped, F!FlightPhases
    <3>3. CASE F!Proceed
      BY <1>1, <3>1, <3>3 DEF F!Proceed, F!Ticks, FlightTyped, F!FlightPhases
    <3>4. CASE F!Fail
      BY <1>1, <3>1, <3>4 DEF F!Fail, F!Ticks, FlightTyped, F!FlightPhases
    <3>5. CASE F!TakeOver
      BY <1>1, <3>1, <3>5 DEF F!TakeOver, FlightTyped, F!FlightPhases
    <3>6. CASE UNCHANGED <<phase, startRequested, override, armed>>
      BY <1>1, <3>1, <3>6 DEF FlightTyped
    <3> QED BY <2>2, <3>2, <3>3, <3>4, <3>5, <3>6 DEF NavigatorTick
  <2>3. CASE Aircraft
    BY <1>1, <2>3 DEF Aircraft, F!Resume, F!Press, F!EarlyReturn, F!Arms, F!Disarms, FlightTyped,
                      F!FlightPhases
  <2> QED BY <2>1, <2>2, <2>3 DEF Environment, Dispatch, Published, Handshake
<1>6. {mirror, home, publishing}' \subseteq BOOLEAN /\ bleOk' \subseteq Orders
  BY <1>1, <1>5 DEF Environment, Dispatch, NavigatorTick, Published, Aircraft, Handshake, senses,
                    RestTyped, FlightTyped
<1>7. flew' \in BOOLEAN
  BY <1>1, <1>2, <1>5 DEF Elsewhere, FlightTyped
<1>8. PlaceTyped'
  BY <1>1, <1>2 DEF Elsewhere, threads, PlaceTyped, Employed
<1>9. RestTyped'
  BY <1>1, <1>2, <1>6 DEF Elsewhere, threads, RestTyped
<1>10. DisplayTyped'
  BY <1>1, <1>2, <1>3, <1>4 DEF Elsewhere, DisplayTyped
<1>11. QueueTyped' /\ RecordTyped'
  BY <1>2, <1>7 DEF Elsewhere, queue, Typed, QueueTyped, RecordTyped
<1> QED BY <1>5, <1>8, <1>9, <1>10, <1>11 DEF Typed

LEMMA InitTyped == Init => Typed
<1> SUFFICES ASSUME Init PROVE Typed
  OBVIOUS
<1>0. presses \in 0..MaxPresses /\ mishaps \in 0..MaxMishaps
  <2>1. presses = MaxPresses /\ mishaps = MaxMishaps
    BY DEF Init
  <2>2. MaxPresses \in Nat /\ MaxMishaps \in Nat
    BY OrdersAssumption
  <2> QED BY <2>1, <2>2
<1>1. None \in Ids /\ {} \subseteq Orders
  BY DEF Ids
<1>2. FlightTyped
  BY <1>1 DEF Init, F!FlightInit, FlightTyped, F!FlightPhases
<1>3. QueueTyped /\ RecordTyped
  BY <1>1 DEF Init, QueueTyped, RecordTyped, Outcomes
<1>4. DisplayTyped
  <2>1. shown \in [phase : DeliveryPhases, order : Ids]
    BY <1>1 DEF Init, DeliveryPhases
  <2>2. book \in [Orders -> Entry]
    BY DEF Init, Entry
  <2> QED BY <1>0, <2>1, <2>2 DEF DisplayTyped
<1>5. PlaceTyped
  BY <1>1 DEF Init, PlaceTyped, Employed, Steps, Resting
<1>6. RestTyped
  <2>1. batch \in [Threads -> SUBSET Orders] /\ seen \in Look
    BY <1>1, UnseenTyped DEF Init
  <2>2. {mirror, home, publishing, auto} \subseteq BOOLEAN /\ bleOk \subseteq Orders
    BY OrdersAssumption DEF Init
  <2>3. lock \in Threads \cup {"free"}
    BY DEF Init
  <2> QED BY <1>0, <2>1, <2>2, <2>3 DEF RestTyped
<1> QED BY <1>2, <1>3, <1>4, <1>5, <1>6 DEF Typed

LEMMA NextTyped ==
    ASSUME Typed, [Next]_vars
    PROVE  Typed'
<1>1. CASE Loop
  <2>1. CASE FetchTick
    BY <2>1, FetchTyped, TwoThreads DEF FetchTick, Typed, RestTyped
  <2> QED BY <1>1, <2>1, LookTyped, MarkTyped, CloseTyped DEF Loop
<1>2. CASE \E t \in Threads : Work(t)
  BY <1>2, WorkIsPollOrAccept, PollTyped, AcceptTyped
<1>3. CASE Operator
  <2>1. CASE Refresh
    BY <2>1, FetchTyped, PressedTyped DEF Refresh
  <2> QED BY <1>3, <2>1, ButtonTyped, SelectTyped, ServiceTyped DEF Operator
<1>4. CASE Environment
  BY <1>4, EnvironmentTyped
<1>5. CASE UNCHANGED vars
  BY <1>5 DEF vars, navigator, queue, record, evidence, display, threads, bounds, senses, Typed,
     FlightTyped, QueueTyped, RecordTyped, DisplayTyped, PlaceTyped, Employed, RestTyped
<1> QED BY <1>1, <1>2, <1>3, <1>4, <1>5 DEF Next

\* The state keeps its types, whatever the operator presses, a reset and automatic
\* acceptance among it: no thread goes on with an order it does not have, and no entry
\* of the book but an order's is written (_accept, _finish_delivery, _svc_abort).
THEOREM TypesHold == Spec => []TypeOK
<1>1. Typed /\ [Next]_vars => Typed'
  BY NextTyped
<1>2. Spec => []Typed
  BY InitTyped, <1>1, PTL DEF Spec
<1> QED BY <1>2, TypedIsTypeOK, PTL

-----------------------------------------------------------------------------
(* One delivery at a time, in every configuration.  Only an order of which *)
(* nothing is known becomes the active one, whoever else was: so nothing   *)
(* is on offer while an order is active, and the loop closes none that has *)
(* its verdict.                                                            *)

Pristine == active # None => pending = None /\ outcome = "PENDING"
Unclosed == at["node"] \in Following => outcome = "PENDING"
Single == Pristine /\ Unclosed

LEMMA WorkStaysSingle ==
    ASSUME Typed, Single, NEW t \in Threads, Work(t)
    PROVE  Single'
<1>1. at \in [Threads -> Steps]
  BY DEF Typed, PlaceTyped
<1>2. /\ \A step, o : At(t, step, o) => at'[t] = step /\ (t # "node" => at'["node"] = at["node"])
      /\ Returns(t) => at'["node"] = IF t = "node" THEN "track" ELSE at["node"]
  BY <1>1, TwoThreads DEF At, Returns, Steps
<1>3. ASSUME Poll(t) PROVE Single'
  <2>1. at'["node"] \in Following => at["node"] \in Following
    BY <1>2, <1>3, TwoThreads DEF Poll, PollNothing, PollWithdraw, PollHold, PollReject, PollOffer, Following, Steps
  <2>2. UNCHANGED <<active, outcome>>
    BY <1>3 DEF Poll, PollNothing, PollWithdraw, PollHold, PollReject, PollOffer, Polled, evidence
  <2>3. active # None => pending' \in {pending, None}
    BY <1>3 DEF Poll, PollNothing, PollWithdraw, PollHold, PollReject, PollOffer, ToOffer, Withdrawn, Forget, Rejects
  <2> QED BY <2>1, <2>2, <2>3 DEF Single, Pristine, Unclosed
<1>4. ASSUME Accept(t) PROVE Single'
  <2>1. at'["node"] \in Following => at["node"] \in Following
    BY <1>2, <1>4, TwoThreads DEF Accept, Validate, Reject, PlanRoute, Launch, LaunchRefused, Take, Following, Steps
  <2>2. CASE Take(t)
    BY <2>2 DEF Take, Forget, Single, Pristine, Unclosed
  <2>3. CASE ~Take(t)
    <3>1. UNCHANGED <<active, outcome>> /\ pending' \in {pending, None}
      BY <1>4, <2>3 DEF Accept, Validate, Reject, Rejects, Forget, PlanRoute, Launch, LaunchRefused,
         record, evidence, queue
    <3> QED BY <2>1, <3>1 DEF Single, Pristine, Unclosed
  <2> QED BY <2>2, <2>3
<1> QED BY <1>3, <1>4, WorkIsPollOrAccept

LEMMA LoopStaysSingle ==
    ASSUME Typed, Single, Loop
    PROVE  Single'
<1>1. at \in [Threads -> Steps]
  BY DEF Typed, PlaceTyped
<1>2. \A step, o : At("node", step, o) => at'["node"] = step
  BY <1>1, TwoThreads DEF At
<1>3. CASE FetchTick
  BY <1>2, <1>3 DEF FetchTick, Fetch, queue, record, evidence, Single, Pristine, Unclosed, Following, Steps
<1>4. CASE Track
  BY <1>2, <1>4 DEF Track, queue, record, evidence, Single, Pristine, Unclosed, Following, Steps
<1>5. CASE Ask
  BY <1>5 DEF Ask, queue, record, evidence, Single, Pristine, Unclosed, Following
<1>6. CASE Weigh
  BY <1>6 DEF Weigh, queue, Single, Pristine, Unclosed, Following
<1>7. CASE Mark
  BY <1>7 DEF Mark, queue, record, evidence, Single, Pristine, Unclosed, Following
<1>8. CASE Close
  BY <1>2, <1>8 DEF Close, Single, Pristine, Unclosed, Following, Steps
<1> QED BY <1>3, <1>4, <1>5, <1>6, <1>7, <1>8 DEF Loop

LEMMA OperatorStaysSingle ==
    ASSUME Typed, Single, Operator
    PROVE  Single'
<1>1. at \in [Threads -> Steps]
  BY DEF Typed, PlaceTyped
<1>2. at'["node"] = at["node"]
  <2>1. \A step, o : At("gcs", step, o) => at'["node"] = at["node"]
    BY <1>1, TwoThreads DEF At
  <2> QED BY <2>1 DEF Operator, Refresh, Fetch, AcceptPressed, RejectPressed, AbortPressed, SetAuto, InjectPressed,
         SelectPressed, Offer, AbortFlight, AbortMark, ResetPressed, Reset
<1>3. outcome' = outcome /\ active' \in {active, None}
  BY DEF Operator, Refresh, Fetch, AcceptPressed, RejectPressed, AbortPressed, SetAuto, InjectPressed,
     SelectPressed, Offer, AbortFlight, AbortMark, ResetPressed, Reset, Reads, record, evidence
<1>4. active # None => pending' \in {pending, None}
  BY DEF Operator, Refresh, Fetch, AcceptPressed, RejectPressed, AbortPressed, SetAuto, InjectPressed,
     SelectPressed, Offer, AbortFlight, AbortMark, ResetPressed, Reset, Reads, Forget, queue
<1> QED BY <1>2, <1>3, <1>4 DEF Single, Pristine, Unclosed

LEMMA NextStaysSingle ==
    ASSUME Typed, Single, [Next]_vars
    PROVE  Single'
<1>1. CASE Environment
  BY <1>1 DEF Environment, Dispatch, NavigatorTick, Published, Aircraft, Handshake, Elsewhere, queue, threads,
     Single, Pristine, Unclosed
<1>2. CASE UNCHANGED vars
  BY <1>2 DEF vars, queue, record, evidence, threads, Single, Pristine, Unclosed
<1> QED BY <1>1, <1>2, WorkStaysSingle, LoopStaysSingle, OperatorStaysSingle DEF Next

LEMMA AlwaysSingle == Spec => [](Typed /\ Single)
<1>1. Init => Typed /\ Single
  BY InitTyped DEF Init, Single, Pristine, Unclosed
<1>2. Typed /\ Single /\ [Next]_vars => (Typed /\ Single)'
  BY NextTyped, NextStaysSingle
<1> QED BY <1>1, <1>2, PTL DEF Spec

\* While an order is active none is on offer, whatever polls and buttons come in
\* between, with automatic acceptance and resets too (_poll_orders, _svc_select,
\* _svc_inject, _accept).
THEOREM OneDelivery == Spec => []OneAtATime
<1>1. Single => OneAtATime
  BY DEF Single, Pristine, OneAtATime
<1> QED BY <1>1, AlwaysSingle, PTL

\* No delivery is closed twice: a verdict is replaced only by the next order's
\* fresh start, whoever accepts it (_finish_delivery, _accept).
THEOREM VerdictsStand == Spec => VerdictStands
<1>1. Typed /\ Single /\ [Next]_vars => [outcome # "PENDING" /\ outcome' # outcome => outcome' = "PENDING"]_vars
  <2> SUFFICES ASSUME Single, [Next]_vars, outcome # "PENDING", outcome' # outcome
               PROVE  outcome' = "PENDING"
    OBVIOUS
  <2>1. ~Close
    BY DEF Close, Single, Unclosed, Following
  <2>2. CASE Loop
    BY <2>1, <2>2 DEF Loop, FetchTick, Fetch, Track, Ask, Weigh, Mark, record, evidence
  <2>3. ASSUME NEW t \in Threads, Poll(t) PROVE outcome' = "PENDING"
    BY <2>3 DEF Poll, PollNothing, PollWithdraw, PollHold, PollReject, PollOffer, Polled, evidence
  <2>4. ASSUME NEW t \in Threads, Accept(t) PROVE outcome' = "PENDING"
    BY <2>4 DEF Accept, Validate, Reject, PlanRoute, Launch, LaunchRefused, Take, record, evidence
  <2>5. CASE Operator
    BY <2>5 DEF Operator, Refresh, Fetch, AcceptPressed, RejectPressed, AbortPressed, SetAuto, InjectPressed,
       SelectPressed, Offer, AbortFlight, AbortMark, ResetPressed, Reset, Reads, record, evidence
  <2>6. CASE Environment
    BY <2>6 DEF Environment, Dispatch, NavigatorTick, Published, Aircraft, Handshake, Elsewhere
  <2>7. CASE UNCHANGED vars
    BY <2>7 DEF vars, record, evidence
  <2> QED BY <2>2, <2>3, <2>4, <2>5, <2>6, <2>7, WorkIsPollOrAccept DEF Next
<1> QED BY <1>1, AlwaysSingle, PTL DEF Spec, VerdictStands

-----------------------------------------------------------------------------
(* Orders accepted by the polls alone, of the loop and of refresh: whoever *)
(* accepts has the lock from the offer until the order is the active one.  *)

AutoOnly == Buttons \cap {"accept", "select", "inject", "reset"} = {}

Serving == {"accept", "plan", "start", "take"}

Exclusive == /\ \A t \in Threads : at[t] \in Serving => lock = t /\ active = None
             /\ at["node"] = "close" => lock = "node"
             /\ at["gcs"] \notin {"select", "inject", "reset"}

Ready == \A t \in Threads : at[t] \in {"start", "take"} => plan \in {order[t], None}

Flown == (armed => flew) /\ (at["node"] = "weigh" => (seen.armed => flew))

Credited == Shown /\ DeliveredOnHandshake

AutoInv == /\ Exclusive /\ Followed /\ Ready /\ Flown /\ Credited
           /\ FliesTheActiveOrder /\ EvidenceOfThisFlight

\* A thread that moves leaves the other where it is.
LEMMA Moves ==
    ASSUME Typed, NEW t \in Threads
    PROVE  /\ \A step, o : At(t, step, o) => at'[t] = step /\ order'[t] = o
           /\ \A step, o : At(t, step, o) => \A u \in Threads \ {t} : at'[u] = at[u] /\ order'[u] = order[u]
BY DEF Typed, PlaceTyped, At

\* A thread that goes back to its loop, or to its caller, serves and follows no order.
LEMMA ReturnsRests ==
    ASSUME Typed, NEW t \in Threads, Returns(t)
    PROVE  /\ at'[t] \in {"track", "idle"}
           /\ \A u \in Threads : u # t => at'[u] = at[u] /\ order'[u] = order[u]
BY Moves DEF Returns

LEMMA TypedIsBooked == Typed => Booked
BY DEF Typed, DisplayTyped, Booked

\* A step that leaves the loop's order, its look and the navigator alone, and begins
\* no service, only has to keep the lock and what was shown.
LEMMA StayKeeps ==
    ASSUME AutoInv,
           UNCHANGED <<active, plan, armed, flew, everArmed, seen, bleOk>>,
           \A t \in Threads : at'[t] \in Serving => at[t] \in Serving /\ order'[t] = order[t] /\ lock' = lock
                                                    /\ (at'[t] \in {"start", "take"} => at[t] = at'[t]),
           at'["node"] \in Following => at'["node"] = at["node"] /\ order'["node"] = order["node"],
           at["node"] = "close" => UNCHANGED <<shown, lock>>,
           at'["gcs"] \notin {"select", "inject", "reset"},
           \A x \in Orders : book'[x].status = "DELIVERED" => book[x].status = "DELIVERED"
    PROVE  AutoInv'
<1> USE DEF AutoInv
<1>1. Exclusive'
  BY DEF Exclusive, Serving, Following
<1>2. Followed' /\ Ready'
  BY DEF Followed, Ready, Serving
<1>3. Flown' /\ Credited'
  BY BookKeeps DEF Flown, Credited, Shown, Following
<1> QED BY <1>1, <1>2, <1>3 DEF FliesTheActiveOrder, EvidenceOfThisFlight

LEMMA FetchKeepsAuto ==
    ASSUME Typed, AutoInv, NEW t \in Threads, Fetch(t)
    PROVE  AutoInv'
<1>1. UNCHANGED <<active, plan, armed, flew, everArmed, seen, bleOk, lock, shown, book>>
  BY DEF Fetch, navigator, record, evidence, display, senses
<1>2. at'[t] = "fetched" /\ \A u \in Threads \ {t} : at'[u] = at[u] /\ order'[u] = order[u]
  BY Moves DEF Fetch
<1> QED BY <1>1, <1>2, StayKeeps, TwoThreads DEF Serving, Following, AutoInv, Exclusive

\* A poll that accepts nothing.
LEMMA PollRests ==
    ASSUME Typed, AutoInv, NEW t \in Threads, Poll(t), Returns(t)
    PROVE  AutoInv'
<1>1. lock = "free" /\ UNCHANGED <<active, plan, armed, flew, everArmed, seen, bleOk>>
  BY DEF Poll, PollNothing, PollWithdraw, PollHold, PollReject, PollOffer, Polled, navigator, evidence, senses
<1>2. \A u \in Threads : at[u] \notin Serving
  BY <1>1, TwoThreads DEF AutoInv, Exclusive, Threads
<1>3. \A x \in Orders : book'[x].status = "DELIVERED" => book[x].status = "DELIVERED"
  BY SetPhaseShows, TypedIsBooked DEF Poll, PollNothing, PollWithdraw, PollHold, PollReject, PollOffer, Rejects, display
<1>4. at["node"] # "close"
  BY <1>1 DEF AutoInv, Exclusive
<1> QED BY <1>1, <1>2, <1>3, <1>4, StayKeeps, ReturnsRests, TwoThreads DEF Serving, Following, AutoInv, Exclusive

\* A poll that accepts what it offers keeps the lock, which was free.
LEMMA PollAccepts ==
    ASSUME Typed, AutoInv, NEW t \in Threads, PollOffer(t), ~Returns(t)
    PROVE  AutoInv'
<1>1. /\ lock = "free" /\ lock' = t /\ active = None
      /\ UNCHANGED <<active, plan, armed, flew, everArmed, seen, bleOk>>
  BY DEF PollOffer, Polled, ToOffer, navigator, evidence, senses
<1>2. \A u \in Threads : at[u] \notin Serving
  BY <1>1 DEF AutoInv, Exclusive, Threads
<1>3. at'[t] = "accept" /\ \A u \in Threads \ {t} : at'[u] = at[u] /\ order'[u] = order[u]
  BY Moves DEF PollOffer
<1>4. at["node"] \notin Following
  BY <1>1 DEF AutoInv, Followed
<1>5. DeliveredOnHandshake'
  BY <1>1, SetPhaseShows, TypedIsBooked, BookKeeps DEF PollOffer, AutoInv, Credited
<1>6. Exclusive'
  BY <1>1, <1>2, <1>3, <1>4, TwoThreads DEF AutoInv, Exclusive, Serving, Following
<1>7. Followed' /\ Ready' /\ Flown' /\ Shown'
  BY <1>1, <1>2, <1>3, <1>4, TwoThreads DEF AutoInv, Followed, Ready, Flown, Shown, Serving, Following
<1> QED BY <1>1, <1>5, <1>6, <1>7 DEF AutoInv, Credited, FliesTheActiveOrder, EvidenceOfThisFlight

\* While one serves, nobody else does, and the loop follows no order.
LEMMA ServesAlone ==
    ASSUME AutoInv, NEW t \in Threads, at[t] \in Serving
    PROVE  /\ lock = t /\ active = None /\ at["node"] \notin Following
           /\ \A u \in Threads : u # t => at[u] \notin Serving
BY TwoThreads DEF AutoInv, Exclusive, Followed

LEMMA ServeKeeps ==
    ASSUME Typed, AutoInv, NEW t \in Threads, Validate(t) \/ PlanRoute(t) \/ Launch(t)
    PROVE  AutoInv'
<1>1. at[t] \in Serving /\ at[t] # "take" /\ UNCHANGED <<active, everArmed, seen, bleOk, book, shown>>
  BY DEF Validate, PlanRoute, Launch, Serving, record, evidence, display, senses
<1>2. /\ lock = t /\ active = None /\ at["node"] \notin Following
      /\ \A u \in Threads : u # t => at[u] \notin Serving
  BY <1>1, ServesAlone
<1>3. /\ \A u \in Threads : u # t => at'[u] = at[u] /\ order'[u] = order[u]
      /\ at'[t] \in Serving => lock' = lock
      /\ at'[t] \in Serving \cup {"reject", "track", "idle"}
      /\ at'[t] \in {"start", "take"} => plan' \in {order'[t], None}
  <2>1. CASE Validate(t)
    BY <2>1, Moves, ReturnsRests DEF Validate, Serving
  <2>2. CASE PlanRoute(t)
    BY <2>2, Moves DEF PlanRoute, Serving
  <2>3. CASE Launch(t)
    BY <2>3, Moves DEF Launch, Serving, AutoInv, Ready
  <2> QED BY <2>1, <2>2, <2>3
<1>4. at'["node"] \notin Following
  BY <1>2, <1>3, TwoThreads DEF Following, Serving
<1>5. armed' => flew'
  <2>1. CASE Validate(t)
    BY <2>1 DEF Validate, navigator, record, evidence, AutoInv, Flown
  <2>2. CASE PlanRoute(t)
    BY <2>2 DEF PlanRoute, F!SetPlan, record, evidence, AutoInv, Flown
  <2>3. CASE Launch(t)
    BY <2>3 DEF Launch, F!StartMission
  <2> QED BY <2>1, <2>2, <2>3
<1>6. Exclusive'
  BY <1>1, <1>2, <1>3, <1>4, TwoThreads DEF AutoInv, Exclusive, Serving, Following
<1>7. Ready'
  BY <1>2, <1>3 DEF Ready, Serving
<1>8. Followed' /\ Flown' /\ Credited'
  BY <1>1, <1>4, <1>5, BookKeeps DEF AutoInv, Followed, Flown, Credited, Shown, Following
<1> QED BY <1>1, <1>2, <1>6, <1>7, <1>8 DEF AutoInv, FliesTheActiveOrder, EvidenceOfThisFlight

LEMMA TakeKeeps ==
    ASSUME Typed, AutoInv, NEW t \in Threads, Take(t)
    PROVE  AutoInv'
<1>1. at[t] = "take" /\ active' = order[t] /\ ~everArmed' /\ UNCHANGED <<plan, armed, flew, seen, bleOk>>
  BY DEF Take, navigator, senses
<1>2. /\ at["node"] \notin Following /\ plan \in {order[t], None}
      /\ \A u \in Threads : u # t => at[u] \notin Serving
  BY <1>1, ServesAlone DEF Serving, AutoInv, Ready
<1>3. at'[t] \in {"track", "idle"} /\ \A u \in Threads : u # t => at'[u] = at[u] /\ order'[u] = order[u]
  BY ReturnsRests DEF Take
<1>4. (\A u \in Threads : at'[u] \notin Serving) /\ at'["node"] \notin Following
  BY <1>2, <1>3, TwoThreads DEF Serving, Following
<1>5. at'["gcs"] \notin {"select", "inject", "reset"}
  BY <1>3, TwoThreads DEF AutoInv, Exclusive
<1>6. DeliveredOnHandshake'
  BY <1>1, SetPhaseShows, TypedIsBooked, BookKeeps DEF Take, AutoInv, Credited
<1>7. Exclusive' /\ Followed' /\ Ready' /\ Credited'
  BY <1>4, <1>5, <1>6 DEF Exclusive, Followed, Ready, Credited, Shown, Serving, Following
<1> QED BY <1>1, <1>2, <1>4, <1>7
        DEF AutoInv, Flown, FliesTheActiveOrder, EvidenceOfThisFlight, Following

\* Turned down, by the poll with the lock or by the operator without it, or not
\* started.
LEMMA TurnDownKeeps ==
    ASSUME Typed, AutoInv, NEW t \in Threads, Reject(t) \/ LaunchRefused(t)
    PROVE  AutoInv'
<1>1. /\ UNCHANGED <<active, plan, armed, flew, everArmed, seen, bleOk>>
      /\ at[t] \in {"reject", "start"} /\ Returns(t) /\ Releases(t)
      /\ at[t] = "reject" => Free(t)
  BY DEF Reject, LaunchRefused, navigator, record, evidence, senses
<1>2. \A x \in Orders : book'[x].status = "DELIVERED" => book[x].status = "DELIVERED"
  BY SetPhaseShows, TypedIsBooked DEF Reject, LaunchRefused, Rejects
<1>3. lock \in {"free", t}
  BY <1>1, ServesAlone DEF Free, Serving
<1>4. \A u \in Threads : u # t => at[u] \notin Serving
  BY <1>3, TwoThreads DEF AutoInv, Exclusive, Threads
<1>5. at["node"] # "close"
  BY <1>1, <1>3, TwoThreads DEF AutoInv, Exclusive
<1> QED BY <1>1, <1>2, <1>4, <1>5, StayKeeps, ReturnsRests, TwoThreads DEF Serving, Following, AutoInv, Exclusive

LEMMA WorkKeepsAuto ==
    ASSUME Typed, AutoInv, NEW t \in Threads, Work(t)
    PROVE  AutoInv'
<1>1. Poll(t) => Returns(t) \/ PollOffer(t)
  BY DEF Poll, PollNothing, PollWithdraw, PollHold, PollReject
<1>2. CASE Poll(t)
  BY <1>1, <1>2, PollRests, PollAccepts
<1>3. CASE Accept(t)
  BY <1>3, ServeKeeps, TakeKeeps, TurnDownKeeps DEF Accept
<1> QED BY <1>2, <1>3, WorkIsPollOrAccept

LEMMA FollowKeepsAuto ==
    ASSUME Typed, AutoInv, Track \/ Ask \/ Weigh
    PROVE  AutoInv'
<1>1. UNCHANGED <<active, plan, armed, flew, bleOk, book, shown, lock>>
  BY DEF Track, Ask, Weigh, navigator, record, evidence, display, senses
<1>2. /\ at'["gcs"] = at["gcs"] /\ order'["gcs"] = order["gcs"]
      /\ at["node"] # "close" /\ at'["node"] \in {"idle", "ask", "weigh", "mark"}
      /\ at'["node"] \in Following => order'["node"] = active /\ active # None
  <2>1. CASE Track
    BY <2>1, Moves, TwoThreads DEF Track, Following
  <2>2. CASE Ask
    BY <2>2, Moves, TwoThreads DEF Ask, AutoInv, Followed, Following
  <2>3. CASE Weigh
    BY <2>3, Moves, TwoThreads DEF Weigh, AutoInv, Followed, Following
  <2> QED BY <2>1, <2>2, <2>3
<1>3. Flown' /\ EvidenceOfThisFlight'
  <2>1. CASE Track
    BY <1>1, <2>1, Moves, TwoThreads DEF Track, record, evidence, AutoInv, Flown, EvidenceOfThisFlight
  <2>2. CASE Ask
    BY <1>1, <2>2 DEF Ask, record, evidence, AutoInv, Flown, EvidenceOfThisFlight
  <2>3. CASE Weigh
    <3>1. everArmed \in BOOLEAN /\ seen.armed \in BOOLEAN
      BY DEF Typed, RecordTyped, RestTyped, Look
    <3>2. at["node"] = "weigh" /\ at'["node"] = "mark" /\ everArmed' = (everArmed \/ seen.armed)
      BY <2>3, Moves, TwoThreads DEF Weigh
    <3> QED BY <1>1, <3>1, <3>2 DEF AutoInv, Flown, EvidenceOfThisFlight
  <2> QED BY <2>1, <2>2, <2>3
<1>4. Exclusive' /\ Followed' /\ Ready'
  BY <1>1, <1>2, TwoThreads DEF AutoInv, Exclusive, Followed, Ready, Serving, Following
<1>5. Credited' /\ FliesTheActiveOrder'
  BY <1>1, <1>2, BookKeeps DEF AutoInv, Credited, Shown, FliesTheActiveOrder
<1> QED BY <1>3, <1>4, <1>5 DEF AutoInv

LEMMA MarkKeepsAuto ==
    ASSUME Typed, AutoInv, Mark
    PROVE  AutoInv'
<1>1. lock = "free" /\ UNCHANGED <<active, plan, armed, flew, everArmed, bleOk>>
  BY DEF Mark, navigator, record, evidence, senses
<1>2. /\ order["node"] = active /\ active # None
      /\ \A u \in Threads : at[u] \notin Serving
  BY <1>1 DEF Mark, AutoInv, Exclusive, Followed, Following, Threads
<1>3. /\ at'["gcs"] = at["gcs"] /\ order'["gcs"] = order["gcs"]
      /\ \/ at'["node"] = "idle"
         \/ at'["node"] = "close" /\ lock' = "node" /\ order'["node"] = order["node"]
  BY Moves, TwoThreads DEF Mark
<1>4. /\ shown'.order = order["node"]
      /\ \A x \in Orders : book'[x].status = "DELIVERED" => book[x].status = "DELIVERED"
  BY <1>2, SetPhaseShows, TypedIsBooked DEF Mark
<1>5. Exclusive' /\ Followed' /\ Ready'
  BY <1>1, <1>2, <1>3, TwoThreads DEF AutoInv, Exclusive, Followed, Ready, Serving, Following
<1>6. Flown' /\ Credited'
  BY <1>1, <1>3, <1>4, BookKeeps DEF AutoInv, Flown, Credited, Shown
<1> QED BY <1>1, <1>5, <1>6 DEF AutoInv, FliesTheActiveOrder, EvidenceOfThisFlight

LEMMA CloseKeepsAuto ==
    ASSUME Typed, AutoInv, Close
    PROVE  AutoInv'
<1>1. UNCHANGED <<plan, armed, flew, bleOk>> /\ active' = None /\ lock = "node"
  BY DEF Close, navigator, senses, AutoInv, Exclusive
<1>2. /\ at'["gcs"] = at["gcs"] /\ order'["gcs"] = order["gcs"]
      /\ at["node"] = "close" /\ at'["node"] = "idle"
  BY Moves, TwoThreads DEF Close
<1>3. Verdict = "DELIVERED" => order["node"] \in bleOk
  BY <1>2 DEF Verdict, AutoInv, Credited, Shown
<1>4. DeliveredOnHandshake'
  <2> DEFINE entry == [status |-> IF Verdict = "DELIVERED" THEN "DELIVERED" ELSE "CANCELED",
                       delivered |-> Verdict = "DELIVERED"]
  <2>1. entry \in Entry /\ (entry.status = "DELIVERED" => Verdict = "DELIVERED")
    BY DEF Entry
  <2>2. Write(order["node"], entry)
    BY DEF Close
  <2> HIDE DEF entry
  <2>3. \A x \in Orders : book'[x] = book[x] \/ (x = order["node"] /\ book'[x] = entry)
    BY <2>1, <2>2, WriteWrites, TypedIsBooked
  <2> QED BY <1>1, <1>3, <2>1, <2>3 DEF AutoInv, Credited, DeliveredOnHandshake
<1>5. \A u \in Threads : at'[u] \notin Serving
  BY <1>1, <1>2, TwoThreads DEF AutoInv, Exclusive, Serving, Threads
<1>6. Exclusive' /\ Followed' /\ Ready'
  BY <1>2, <1>5, TwoThreads DEF AutoInv, Exclusive, Followed, Ready, Serving, Following
<1>7. Flown' /\ Credited'
  BY <1>1, <1>2, <1>4 DEF AutoInv, Flown, Credited, Shown
<1> QED BY <1>1, <1>6, <1>7 DEF AutoInv, FliesTheActiveOrder, EvidenceOfThisFlight

\* The buttons that are left do not touch the plan but to take it away.
LEMMA OperatorKeepsAuto ==
    ASSUME AutoOnly, Typed, AutoInv, Operator
    PROVE  AutoInv'
<1>1. CASE Refresh
  BY <1>1, FetchKeepsAuto, TwoThreads DEF Refresh
<1>2. /\ ~AcceptPressed /\ ~InjectPressed /\ ~SelectPressed /\ ~ResetPressed
      /\ ~Offer /\ ~Reset
  BY DEF AutoOnly, AcceptPressed, InjectPressed, SelectPressed, ResetPressed, Reads, Pressed,
         Offer, Reset, AutoInv, Exclusive
<1>3. CASE RejectPressed \/ AbortPressed \/ SetAuto
  <2>1. UNCHANGED <<active, plan, armed, flew, everArmed, seen, bleOk, lock, shown, book>>
    BY <1>3 DEF RejectPressed, AbortPressed, SetAuto, Reads, navigator, evidence, display, senses
  <2>2. /\ at["gcs"] = "idle" /\ at'["gcs"] \in {"idle", "reject", "abort"}
        /\ at'["node"] = at["node"] /\ order'["node"] = order["node"]
    BY <1>3, Moves, TwoThreads DEF RejectPressed, AbortPressed, SetAuto, Reads, Pressed
  <2> QED BY <2>1, <2>2, StayKeeps, TwoThreads DEF Serving
<1>4. CASE AbortMark
  <2>1. lock = "free" /\ UNCHANGED <<active, plan, armed, flew, everArmed, seen, bleOk, lock>>
    BY <1>4 DEF AbortMark, navigator, senses
  <2>2. at'["gcs"] = "idle" /\ at'["node"] = at["node"] /\ order'["node"] = order["node"]
    BY <1>4, Moves, TwoThreads DEF AbortMark
  <2>3. \A x \in Orders : book'[x].status = "DELIVERED" => book[x].status = "DELIVERED"
    BY <1>4, SetPhaseShows, TypedIsBooked DEF AbortMark
  <2>4. at["node"] # "close"
    BY <2>1 DEF AutoInv, Exclusive
  <2> QED BY <2>1, <2>2, <2>3, <2>4, StayKeeps, TwoThreads DEF Serving
<1>5. CASE AbortFlight
  <2>1. plan' = None /\ UNCHANGED <<active, armed, flew, everArmed, seen, bleOk, lock, shown, book>>
    BY <1>5 DEF AbortFlight, F!AbortDelivery, record, evidence, display, senses
  <2>2. at'["gcs"] = "aborted" /\ at'["node"] = at["node"] /\ order'["node"] = order["node"]
    BY <1>5, Moves, TwoThreads DEF AbortFlight
  <2>3. Exclusive' /\ Followed' /\ Ready'
    BY <2>1, <2>2, TwoThreads DEF AutoInv, Exclusive, Followed, Ready, Serving
  <2>4. Flown' /\ Credited'
    BY <2>1, <2>2, BookKeeps DEF AutoInv, Flown, Credited, Shown
  <2> QED BY <2>1, <2>3, <2>4 DEF AutoInv, FliesTheActiveOrder, EvidenceOfThisFlight
<1> QED BY <1>1, <1>2, <1>3, <1>4, <1>5 DEF Operator

LEMMA EnvironmentKeepsAuto ==
    ASSUME Typed, AutoInv, Environment
    PROVE  AutoInv'
<1>1. /\ UNCHANGED <<active, plan, everArmed, seen, shown, lock, at, order>>
      /\ flew' = (flew \/ armed')
      /\ bleOk \subseteq bleOk'
  BY DEF Environment, Dispatch, NavigatorTick, Published, Aircraft, Handshake, Elsewhere,
         record, evidence, threads, senses, navigator
<1>2. \A x \in Orders : book'[x].status = "DELIVERED" => book[x].status = "DELIVERED"
  <2>1. CASE UNCHANGED book
    BY <2>1
  <2>2. CASE Dispatch
    <3>1. PICK o \in Orders : book' = [book EXCEPT ![o] = [book[o] EXCEPT !.status = "DISPATCHED"]]
      BY <2>2 DEF Dispatch
    <3>2. [book[o] EXCEPT !.status = "DISPATCHED"].status = "DISPATCHED"
      BY TypedIsBooked DEF Booked, Entry
    <3> QED BY <3>1, <3>2, TypedIsBooked DEF Booked
  <2> QED BY <2>1, <2>2 DEF Environment, NavigatorTick, Published, Aircraft, Handshake
<1>3. Exclusive' /\ Followed' /\ Ready'
  BY <1>1 DEF AutoInv, Exclusive, Followed, Ready
<1>4. Flown' /\ Credited'
  BY <1>1, <1>2, BookKeeps DEF AutoInv, Flown, Credited, Shown
<1> QED BY <1>1, <1>3, <1>4 DEF AutoInv, FliesTheActiveOrder, EvidenceOfThisFlight

LEMMA AutoInductive ==
    ASSUME AutoOnly
    PROVE  Spec => [](Typed /\ AutoInv)
<1>1. Init => Typed /\ AutoInv
  <2> SUFFICES ASSUME Init PROVE AutoInv
    BY InitTyped
  <2>1. at = [t \in Threads |-> "idle"] /\ active = None /\ armed = FALSE
    BY DEF Init, F!FlightInit
  <2>2. DeliveredOnHandshake
    BY DEF Init, DeliveredOnHandshake
  <2> QED BY <2>1, <2>2, TwoThreads DEF AutoInv, Exclusive, Followed, Ready, Flown, Credited, Shown,
         Serving, Following, FliesTheActiveOrder, EvidenceOfThisFlight
<1>2. Typed /\ AutoInv /\ [Next]_vars => (Typed /\ AutoInv)'
  <2> SUFFICES ASSUME Typed, AutoInv, [Next]_vars PROVE AutoInv'
    BY NextTyped
  <2>1. CASE Loop
    BY <2>1, FetchKeepsAuto, FollowKeepsAuto, MarkKeepsAuto, CloseKeepsAuto, TwoThreads DEF Loop, FetchTick
  <2>2. CASE \E t \in Threads : Work(t)
    BY <2>2, WorkKeepsAuto
  <2>3. CASE Operator
    BY <2>3, OperatorKeepsAuto
  <2>4. CASE Environment
    BY <2>4, EnvironmentKeepsAuto
  <2>5. CASE UNCHANGED vars
    BY <2>5 DEF vars, navigator, record, evidence, display, threads, senses, AutoInv, Exclusive, Followed, Ready,
       Flown, Credited, Shown, FliesTheActiveOrder, EvidenceOfThisFlight, DeliveredOnHandshake
  <2> QED BY <2>1, <2>2, <2>3, <2>4, <2>5 DEF Next
<1> QED BY <1>1, <1>2, PTL DEF Spec

-----------------------------------------------------------------------------
(* Orders accepted in one way, by hand or by the polls.                    *)

OneWay == HandOnly \/ AutoOnly

\* The navigator flies no plan but the active order's, though the plan is loaded
\* and the start requested before the order is taken (_accept).
THEOREM PlanIsTheOrders ==
    ASSUME OneWay
    PROVE  Spec => []FliesTheActiveOrder
<1>1. CASE HandOnly
  <2>1. DelInv => FliesTheActiveOrder
    BY DEF DelInv, Truthful
  <2> QED BY <1>1, <2>1, Inductive, PTL
<1>2. CASE AutoOnly
  <2>1. AutoInv => FliesTheActiveOrder
    BY DEF AutoInv
  <2> QED BY <1>2, <2>1, AutoInductive, PTL
<1> QED BY <1>1, <1>2 DEF OneWay

\* An old look at the navigator is not weighed for another order's flight
\* (_track_active, _reset_outcome_evidence).
THEOREM EvidenceIsTheFlights ==
    ASSUME OneWay
    PROVE  Spec => []EvidenceOfThisFlight
<1>1. CASE HandOnly
  <2>1. DelInv => EvidenceOfThisFlight
    BY DEF DelInv, Truthful
  <2> QED BY <1>1, <2>1, Inductive, PTL
<1>2. CASE AutoOnly
  <2>1. AutoInv => EvidenceOfThisFlight
    BY DEF AutoInv
  <2> QED BY <1>2, <2>1, AutoInductive, PTL
<1> QED BY <1>1, <1>2 DEF OneWay

\* The book says DELIVERED only of an order whose own handshake is on record
\* (_classify_outcome, _write_outcome_back).
THEOREM DeliveriesAreCredited ==
    ASSUME OneWay
    PROVE  Spec => []DeliveredOnHandshake
<1>1. CASE HandOnly
  <2>1. DelInv => DeliveredOnHandshake
    BY DEF DelInv, Truthful
  <2> QED BY <1>1, <2>1, Inductive, PTL
<1>2. CASE AutoOnly
  <2>1. AutoInv => DeliveredOnHandshake
    BY DEF AutoInv, Credited
  <2> QED BY <1>2, <2>1, AutoInductive, PTL
<1> QED BY <1>1, <1>2 DEF OneWay

\* Without a reset the order that is closed is the one whose handshake is looked
\* up, as the comment in _reset_outcome_evidence has it.
THEOREM ClosedOnItsOwn ==
    ASSUME OneWay
    PROVE  Spec => []CreditsItsOwn
<1>1. CASE HandOnly
  <2>1. DelInv => CreditsItsOwn
    BY DEF DelInv, Truthful, Shown, CreditsItsOwn, Verdict
  <2> QED BY <1>1, <2>1, Inductive, PTL
<1>2. CASE AutoOnly
  <2>1. AutoInv => CreditsItsOwn
    BY DEF AutoInv, Credited, Shown, CreditsItsOwn, Verdict
  <2> QED BY <1>2, <2>1, AutoInductive, PTL
<1> QED BY <1>1, <1>2 DEF OneWay
=============================================================================
