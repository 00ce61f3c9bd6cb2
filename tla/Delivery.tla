------------------------------- MODULE Delivery -------------------------------
(***************************************************************************)
(* The delivery node, nodes/firebase_delivery_node.py, between the order   *)
(* book (Firestore), the operator and the navigator (Flight).              *)
(*                                                                         *)
(* Two threads run its code: the node's own loop (step: poll, then follow  *)
(* the active order) and the ground station's, which calls its services    *)
(* one at a time.  Each is a program counter, at[t]; a section under the   *)
(* node's lock is one step, unless it calls the navigator, whose services  *)
(* wait for the navigator's own lock.  The navigator holds that lock while *)
(* it publishes MISSION_STATE (publishing), and the node's callback waits  *)
(* for the node's lock.                                                    *)
(*                                                                         *)
(* Abstracted: positions (whether an order is out of range is a constant), *)
(* wording, the order listing and history, and the verdict on the return.  *)
(***************************************************************************)
EXTENDS Integers, FiniteSetsExt

CONSTANTS
    Orders,        \* order ids, numbered by creation time
    OldOrders,     \* those in the book when the node starts
    Manual,        \* ids the ground station makes up for injected orders
    OutOfRange,    \* orders beyond max_delivery_radius_m
    AutoAccept,    \* delivery.auto_accept
    Buttons,       \* services the operator uses
    MaxPresses,    \* bound: calls of services
    MaxMishaps     \* bound: takeovers, other buttons, stray results, failures

None == 0

ASSUME OrdersAssumption ==
    /\ Orders \subseteq Nat \ {None}
    /\ OldOrders \subseteq Orders \ Manual /\ Manual \subseteq Orders
    /\ OutOfRange \subseteq Orders
    /\ AutoAccept \in BOOLEAN
    /\ MaxPresses \in Nat /\ MaxMishaps \in Nat

VARIABLES
    phase, startRequested, override, armed,  \* of the navigator, see Flight
    plan,         \* the order whose plan the navigator has, or None
    publishing,   \* the navigator is publishing MISSION_STATE under its lock
    book,         \* the order book: status and droneDelivered of each order
    pending,      \* _pending
    manual,       \* _pending.source = "manual"
    active,       \* _active
    handled,      \* _handled
    preexisting,  \* _preexisting
    polled,       \* _first_poll_done
    selected,     \* _selected
    deferred,     \* _deferred
    inbox,        \* _inbox
    everArmed,    \* _ever_armed
    stopped,      \* _abort_reason is set
    bleOk,        \* _ble_ok
    outcome,      \* _state.outcome
    shown,        \* _state.phase and _state.order_id
    mirror,       \* _nav_pilot_override
    home,         \* _home is set
    auto,         \* _auto_accept
    lock,         \* who holds _lock between two steps
    at,           \* where each thread is
    order,        \* the order each thread works on (a local variable)
    batch,        \* the orders each thread has polled (a local variable)
    seen,         \* the loop's look at the navigator (local variables)
    flew,         \* history: armed at some time since the last start of a mission
    presses,      \* calls of services left (bound)
    mishaps       \* mishaps left (bound)

navigator == <<phase, startRequested, override, armed, plan>>
queue == <<pending, manual, selected, deferred, inbox, preexisting, polled>>
evidence == <<everArmed, stopped, outcome, flew>>
record == <<active, handled, evidence>>
display == <<shown, book>>
threads == <<at, order, batch, seen>>
bounds == <<presses, mishaps>>
senses == <<mirror, home, publishing, bleOk>>
vars == <<navigator, queue, record, display, threads, bounds, senses, auto, lock>>

F == INSTANCE Flight WITH loaded <- (plan # None)

Threads == {"node", "gcs"}
Steps == {"idle", "fetched", "accept", "plan", "start", "take", "reject",
          "select", "inject", "abort", "aborted", "reset",
          "track", "ask", "weigh", "mark", "close"}
DeliveryPhases == {"IDLE", "PENDING", "ACCEPTED", "ENROUTE", "HOVERING", "RETURNING",
                   "LANDED", "ABORTED", "REJECTED"}
Outcomes == {"PENDING", "DELIVERED", "NEVER_FLEW", "ABORTED", "FAILED"}
Entry == [status : {"", "DISPATCHED", "CANCELED", "DELIVERED"}, delivered : BOOLEAN]
Look == [phase : F!FlightPhases, armed : BOOLEAN, override : BOOLEAN,
         next : DeliveryPhases]

TypeOK ==
    /\ F!FlightTypeOK /\ plan \in Orders \cup {None}
    /\ book \in [Orders -> Entry]
    /\ {pending, active, selected} \subseteq Orders \cup {None}
    /\ inbox \cup handled \cup preexisting \cup bleOk \subseteq Orders
    /\ {manual, polled, deferred, everArmed, stopped, flew, mirror, home, auto, publishing}
         \subseteq BOOLEAN
    /\ outcome \in Outcomes
    /\ shown \in [phase : DeliveryPhases, order : Orders \cup {None}]
    /\ lock \in Threads \cup {"free"}
    /\ at \in [Threads -> Steps]
    /\ order \in [Threads -> Orders \cup {None}]
    /\ batch \in [Threads -> SUBSET Orders]
    /\ seen \in Look
    /\ presses \in 0..MaxPresses /\ mishaps \in 0..MaxMishaps

Unseen == [phase |-> "IDLE", armed |-> FALSE, override |-> FALSE, next |-> "IDLE"]

Init ==
    /\ plan = None /\ F!FlightInit /\ publishing = FALSE
    /\ book = [o \in Orders |-> [status |-> IF o \in OldOrders THEN "DISPATCHED" ELSE "",
                                 delivered |-> FALSE]]
    /\ pending = None /\ manual = FALSE /\ active = None /\ selected = None
    /\ handled = {} /\ preexisting = {} /\ inbox = {} /\ bleOk = {}
    /\ polled = FALSE /\ deferred = FALSE /\ everArmed = FALSE /\ stopped = FALSE
    /\ flew = FALSE
    /\ outcome = "PENDING" /\ shown = [phase |-> "IDLE", order |-> None]
    /\ mirror = FALSE /\ home = FALSE /\ auto = AutoAccept
    /\ lock = "free"
    /\ at = [t \in Threads |-> "idle"]
    /\ order = [t \in Threads |-> None]
    /\ batch = [t \in Threads |-> {}]
    /\ seen = Unseen
    /\ presses = MaxPresses /\ mishaps = MaxMishaps

-----------------------------------------------------------------------------
(* What the steps are made of.                                             *)

Free(t) == lock \in {"free", t}
Releases(t) == lock' = IF lock = t THEN "free" ELSE lock
At(t, step, o) == /\ at' = [at EXCEPT ![t] = step]
                  /\ order' = [order EXCEPT ![t] = o]
\* The loop follows the active order after every poll; a service returns.
Returns(t) == At(t, IF t = "node" THEN "track" ELSE "idle", None)

\* update_order: a write to the book may fail, and nobody is told.
Write(o, entry) ==
    \/ book' = [book EXCEPT ![o] = entry] /\ UNCHANGED mishaps
    \/ mishaps > 0 /\ mishaps' = mishaps - 1 /\ UNCHANGED book

\* _set_phase: only a change of phase is written back (_write_phase_back).
SetPhase(p, o) ==
    /\ shown' = [phase |-> p, order |-> IF o = None THEN shown.order ELSE o]
    /\ IF shown.phase = p \/ o = None \/ p \notin {"REJECTED", "ABORTED", "LANDED"}
       THEN UNCHANGED <<book, mishaps>>
       ELSE Write(o, IF p = "LANDED" THEN [book[o] EXCEPT !.delivered = TRUE]
                     ELSE [book[o] EXCEPT !.status = "CANCELED"])

Forget == pending' = None /\ manual' = FALSE

\* _validate: an order is held while the pilot has the aircraft or home is
\* unknown, and turned down when it is out of range.
Held == mirror \/ ~home
Flyable(o) == ~Held /\ o \notin OutOfRange

\* _reject
Rejects(o) ==
    /\ handled' = handled \cup {o}
    /\ Forget /\ deferred' = FALSE
    /\ SetPhase("REJECTED", o)

-----------------------------------------------------------------------------
(* _poll_orders, in the loop or in the refresh service.                    *)

Dispatched == {o \in Orders : book[o].status = "DISPATCHED"}

\* Outside the lock; a failed poll looks like an empty book.
Fetch(t) ==
    /\ at[t] = "idle" /\ At(t, "fetched", None)
    /\ \/ batch' = [batch EXCEPT ![t] = Dispatched] /\ UNCHANGED mishaps
       \/ mishaps > 0 /\ mishaps' = mishaps - 1 /\ UNCHANGED batch
    /\ UNCHANGED <<navigator, queue, record, display, senses, auto, lock, seen>>

FetchTick == Fetch("node") /\ UNCHANGED presses

\* The operator's choice, or the oldest order not flown or refused.
Candidate(t) ==
    LET left == batch[t] \ handled IN
    IF selected \in batch[t] THEN selected ELSE IF left = {} THEN None ELSE Min(left)

Polled(t) ==
    /\ at[t] = "fetched" /\ lock = "free"
    /\ inbox' = batch[t] /\ batch' = [batch EXCEPT ![t] = {}]
    /\ polled' = TRUE
    /\ preexisting' = IF polled THEN preexisting ELSE batch[t]
    /\ UNCHANGED <<navigator, senses, auto, selected, active, evidence, seen, presses>>

\* Mutant: a delivery in progress is not asked about.
OfferAlways(t) ==
    Candidate(t) # None /\ (deferred \/ pending # Candidate(t))
\* There is an order to offer which is not already on offer.
ToOffer(t) ==
    active = None /\ Candidate(t) # None /\ (deferred \/ pending # Candidate(t))
Withdrawn(t) ==
    active = None /\ Candidate(t) = None /\ pending # None /\ ~manual

PollNothing(t) ==
    /\ Polled(t) /\ ~ToOffer(t) /\ ~Withdrawn(t)
    /\ Returns(t)
    /\ UNCHANGED <<pending, manual, deferred, handled, display, lock, mishaps>>

PollWithdraw(t) ==
    /\ Polled(t) /\ Withdrawn(t)
    /\ Forget /\ deferred' = FALSE
    /\ SetPhase("IDLE", None)
    /\ Returns(t)
    /\ UNCHANGED <<handled, lock>>

PollHold(t) ==
    /\ Polled(t) /\ ToOffer(t) /\ Held
    /\ pending' = Candidate(t) /\ manual' = FALSE /\ deferred' = TRUE
    /\ SetPhase("PENDING", Candidate(t))
    /\ Returns(t)
    /\ UNCHANGED <<handled, lock>>

PollReject(t) ==
    /\ Polled(t) /\ ToOffer(t) /\ ~Held /\ Candidate(t) \in OutOfRange
    /\ Rejects(Candidate(t))
    /\ Returns(t)
    /\ UNCHANGED lock

\* Offer it; with auto_accept on, accept it without giving the lock back.
PollOffer(t) ==
    /\ Polled(t) /\ ToOffer(t) /\ Flyable(Candidate(t))
    /\ pending' = Candidate(t) /\ manual' = FALSE /\ deferred' = FALSE
    /\ SetPhase("PENDING", Candidate(t))
    /\ IF auto /\ Candidate(t) \notin preexisting'
       THEN lock' = t /\ At(t, "accept", Candidate(t))
       ELSE Returns(t) /\ UNCHANGED lock
    /\ UNCHANGED handled

-----------------------------------------------------------------------------
(* _accept, in whichever thread, with or without the lock.                 *)

Validate(t) ==
    /\ at[t] = "accept"
    /\ IF Flyable(order[t]) THEN At(t, "plan", order[t]) /\ UNCHANGED lock
       ELSE IF Held THEN Returns(t) /\ Releases(t)
       ELSE At(t, "reject", order[t]) /\ UNCHANGED lock
    /\ UNCHANGED <<navigator, queue, record, display, senses, auto, batch, seen, bounds>>

Reject(t) ==
    /\ at[t] = "reject" /\ Free(t)
    /\ Rejects(order[t])
    /\ Returns(t) /\ Releases(t)
    /\ UNCHANGED <<navigator, senses, auto, batch, seen, presses, active, evidence,
                   selected, inbox, preexisting, polled>>

\* Mutant: a plan that is loaded is left alone.
PlanRouteOnce(t) ==
    /\ at[t] = "plan" /\ ~publishing
    /\ plan' = (IF plan = None THEN order[t] ELSE plan) /\ F!SetPlan
    /\ At(t, "start", order[t])
    /\ UNCHANGED <<queue, record, display, senses, auto, lock, batch, seen, bounds>>

\* The navigator's services wait for its lock.
PlanRoute(t) ==
    /\ at[t] = "plan" /\ ~publishing
    /\ plan' = order[t] /\ F!SetPlan
    /\ At(t, "start", order[t])
    /\ UNCHANGED <<queue, record, display, senses, auto, lock, batch, seen, bounds>>

Launch(t) ==
    /\ at[t] = "start" /\ ~publishing
    /\ UNCHANGED plan /\ F!StartMission
    /\ flew' = armed
    /\ At(t, "take", order[t])
    /\ UNCHANGED <<queue, active, handled, everArmed, stopped, outcome, display, senses, auto,
                   lock, batch, seen, bounds>>

LaunchRefused(t) ==
    /\ at[t] = "start" /\ ~publishing
    /\ override \/ plan = None
    /\ SetPhase("ACCEPTED", order[t])
    /\ Returns(t) /\ Releases(t)
    /\ UNCHANGED <<navigator, queue, record, senses, auto, batch, seen, presses>>

\* Mutant: the evidence and the verdict of the last flight are kept.
TakeKeeping(t) ==
    /\ at[t] = "take" /\ Free(t)
    /\ active' = order[t] /\ Forget
    /\ UNCHANGED evidence
    /\ SetPhase("ACCEPTED", order[t])
    /\ Returns(t) /\ Releases(t)
    /\ UNCHANGED <<navigator, selected, deferred, inbox, preexisting, polled, handled,
                   senses, auto, batch, seen, presses>>

\* The order becomes the active one, with nothing known about its flight yet.
Take(t) ==
    /\ at[t] = "take" /\ Free(t)
    /\ active' = order[t] /\ Forget
    /\ everArmed' = FALSE /\ stopped' = FALSE /\ outcome' = "PENDING" /\ UNCHANGED flew
    /\ SetPhase("ACCEPTED", order[t])
    /\ Returns(t) /\ Releases(t)
    /\ UNCHANGED <<navigator, selected, deferred, inbox, preexisting, polled, handled,
                   senses, auto, batch, seen, presses>>

Work(t) ==
    \/ PollNothing(t) \/ PollWithdraw(t) \/ PollHold(t) \/ PollReject(t) \/ PollOffer(t)
    \/ Validate(t) \/ Reject(t) \/ PlanRoute(t) \/ Launch(t) \/ LaunchRefused(t) \/ Take(t)

-----------------------------------------------------------------------------
(* _track_active: read the active order, ask the navigator, weigh what it  *)
(* says, and under the lock show it and close the order when it is over.   *)

Track ==
    /\ at["node"] \in {"idle", "track"} /\ lock = "free"
    /\ at["node"] = "track" \/ active # None
    /\ IF active = None THEN At("node", "idle", None) ELSE At("node", "ask", active)
    /\ UNCHANGED <<navigator, queue, record, display, senses, auto, lock, batch, seen, bounds>>

Ask ==
    /\ at["node"] = "ask" /\ ~publishing
    /\ seen' = [phase |-> phase, armed |-> armed, override |-> override, next |-> "IDLE"]
    /\ At("node", "weigh", order["node"])
    /\ UNCHANGED <<navigator, queue, record, display, senses, auto, lock, batch, bounds>>

Ended == seen.phase \in {"DISARMED", "COMPLETE"}

\* The delivery phase, once the evidence is updated.  A stop is sticky.
NextPhase ==
    IF stopped' THEN "ABORTED"
    ELSE IF seen.phase = "ARMING" THEN "ACCEPTED"
    ELSE IF seen.phase = "IDLE" /\ ~everArmed' THEN "ABORTED"
    ELSE IF seen.phase = "HOVER" THEN "HOVERING"
    ELSE IF seen.phase \in {"RTL", "LAND", "EMERGENCY"} THEN "RETURNING"
    ELSE IF Ended THEN IF everArmed' THEN "LANDED" ELSE "ABORTED"
    ELSE "ENROUTE"

Weigh ==
    /\ at["node"] = "weigh"
    /\ everArmed' = (everArmed \/ seen.armed)
    /\ stopped' = (stopped \/ seen.override)
    /\ seen' = [seen EXCEPT !.next = NextPhase]
    /\ At("node", "mark", order["node"])
    /\ UNCHANGED <<navigator, queue, active, handled, outcome, flew, display, senses, auto,
                   lock, batch, bounds>>

\* Mutant: finish on the delivery phase looking final.
OverWhenLanded == seen.next = "LANDED" \/ (~everArmed /\ seen.next = "ABORTED")
\* Over: the mission has ended, or never began.
Over == Ended \/ (~everArmed /\ seen.next \in {"ABORTED", "LANDED"})

Mark ==
    /\ at["node"] = "mark" /\ lock = "free"
    /\ SetPhase(seen.next, order["node"])
    /\ IF Over THEN lock' = "node" /\ At("node", "close", order["node"]) /\ UNCHANGED seen
       ELSE At("node", "idle", None) /\ seen' = Unseen /\ UNCHANGED lock
    /\ UNCHANGED <<navigator, queue, record, senses, auto, batch, presses>>

\* Mutant: any handshake will do.
VerdictOfAny ==
    IF bleOk # {} THEN "DELIVERED"
    ELSE IF ~everArmed THEN "NEVER_FLEW"
    ELSE IF stopped THEN "ABORTED" ELSE "FAILED"
\* _classify_outcome, the parcel's half.
Verdict ==
    IF shown.order \in bleOk THEN "DELIVERED"
    ELSE IF ~everArmed THEN "NEVER_FLEW"
    ELSE IF stopped THEN "ABORTED" ELSE "FAILED"

\* _finish_delivery, still under the lock: one that flew is not offered again.
Close ==
    /\ at["node"] = "close"
    /\ outcome' = Verdict
    /\ handled' = IF seen.next = "LANDED" \/ everArmed THEN handled \cup {order["node"]}
                  ELSE handled
    /\ Write(order["node"],
             [status |-> IF Verdict = "DELIVERED" THEN "DELIVERED" ELSE "CANCELED",
              delivered |-> Verdict = "DELIVERED"])
    /\ active' = None /\ Forget
    /\ lock' = "free" /\ At("node", "idle", None) /\ seen' = Unseen
    /\ UNCHANGED <<navigator, selected, deferred, inbox, preexisting, polled, everArmed,
                   stopped, flew, shown, senses, auto, batch, presses>>

Loop == FetchTick \/ Track \/ Ask \/ Weigh \/ Mark \/ Close

-----------------------------------------------------------------------------
(* The services, in the ground station's thread.                           *)

Pressed(button) ==
    /\ button \in Buttons /\ at["gcs"] = "idle"
    /\ presses > 0 /\ presses' = presses - 1
\* A button whose first section only reads or changes what is named here.
Reads(button) ==
    /\ Pressed(button) /\ lock = "free"
    /\ UNCHANGED <<navigator, selected, deferred, inbox, preexisting, polled, evidence,
                   display, senses, lock, batch, seen, mishaps>>

Refresh == Pressed("refresh") /\ Fetch("gcs")

AcceptPressed ==
    /\ Reads("accept") /\ pending # None /\ active = None
    /\ At("gcs", "accept", pending)
    /\ UNCHANGED <<pending, manual, active, handled, auto>>

RejectPressed ==
    /\ Reads("reject") /\ pending # None
    /\ At("gcs", "reject", pending)
    /\ UNCHANGED <<pending, manual, active, handled, auto>>

\* Mutant: whether a delivery is in progress is not asked about.
AbortPressedBlind ==
    /\ Reads("abort")
    /\ At("gcs", "abort", active)
    /\ UNCHANGED <<pending, manual, active, handled, auto>>

AbortPressed ==
    /\ Reads("abort") /\ active # None
    /\ At("gcs", "abort", active)
    /\ UNCHANGED <<pending, manual, active, handled, auto>>

SetAuto ==
    /\ Reads("set_auto")
    /\ auto' = ~auto
    /\ UNCHANGED <<at, order, pending, manual, active, handled>>

InjectPressed ==
    /\ Reads("inject") /\ active = None
    /\ \E o \in Manual :
         /\ pending' = o /\ manual' = TRUE
         /\ handled' = handled \ {o}
         /\ At("gcs", "inject", o)
    /\ UNCHANGED <<active, auto>>

\* Mutant: whether a delivery is in progress is not asked about.
SelectPressedBlind ==
    /\ Pressed("select") /\ lock = "free"
    /\ \/ selected' = None /\ UNCHANGED <<pending, manual, at, order>>
       \/ \E o \in inbox :
            /\ selected' = o /\ pending' = o /\ manual' = FALSE
            /\ At("gcs", "select", o)
    /\ UNCHANGED <<navigator, deferred, inbox, preexisting, polled, record, display, senses,
                   auto, lock, batch, seen, mishaps>>

\* An order of the inbox is chosen, or the choice is cleared.
SelectPressed ==
    /\ Pressed("select") /\ lock = "free" /\ active = None
    /\ \/ selected' = None /\ UNCHANGED <<pending, manual, at, order>>
       \/ \E o \in inbox :
            /\ selected' = o /\ pending' = o /\ manual' = FALSE
            /\ At("gcs", "select", o)
    /\ UNCHANGED <<navigator, deferred, inbox, preexisting, polled, record, display, senses,
                   auto, lock, batch, seen, mishaps>>

\* The rest of select and inject runs without the lock.  A request to inject
\* says itself whether to accept at once.
Offer ==
    /\ at["gcs"] \in {"select", "inject"}
    /\ LET o == order["gcs"] IN
         \/ Held /\ At("gcs", "idle", None) /\ UNCHANGED <<display, mishaps>>
         \/ ~Held /\ o \in OutOfRange /\ At("gcs", "reject", o)
            /\ UNCHANGED <<display, mishaps>>
         \/ /\ Flyable(o) /\ SetPhase("PENDING", o)
            /\ \/ At("gcs", "idle", None)
               \/ at["gcs"] = "inject" /\ At("gcs", "accept", o)
    /\ UNCHANGED <<navigator, queue, record, senses, auto, lock, batch, seen, presses>>

AbortFlight ==
    /\ at["gcs"] = "abort" /\ ~publishing
    /\ plan' = None /\ F!AbortDelivery
    /\ At("gcs", "aborted", order["gcs"])
    /\ UNCHANGED <<queue, record, display, senses, auto, lock, batch, seen, bounds>>

AbortMark ==
    /\ at["gcs"] = "aborted" /\ lock = "free"
    /\ handled' = handled \cup {order["gcs"]}
    /\ stopped' = TRUE
    /\ SetPhase("ABORTED", order["gcs"])
    /\ At("gcs", "idle", None)
    /\ UNCHANGED <<navigator, queue, active, everArmed, outcome, flew, senses, auto, lock,
                   batch, seen, presses>>

\* Refused while the aircraft is armed; the rest is under the lock.
ResetPressed ==
    /\ Pressed("reset") /\ ~publishing /\ ~armed
    /\ At("gcs", "reset", None)
    /\ UNCHANGED <<navigator, queue, record, display, senses, auto, lock, batch, seen, mishaps>>

Reset ==
    /\ at["gcs"] = "reset" /\ lock = "free"
    /\ IF active = None /\ pending = None
       THEN UNCHANGED <<active, pending, manual, display, mishaps>>
       ELSE active' = None /\ Forget /\ SetPhase("IDLE", None)
    /\ At("gcs", "idle", None)
    /\ UNCHANGED <<navigator, selected, deferred, inbox, preexisting, polled, handled,
                   evidence, senses, auto, lock, batch, seen, presses>>

Operator ==
    \/ Refresh \/ AcceptPressed \/ RejectPressed \/ AbortPressed \/ SetAuto
    \/ InjectPressed \/ SelectPressed \/ Offer \/ AbortFlight \/ AbortMark
    \/ ResetPressed \/ Reset

-----------------------------------------------------------------------------
(* The customers, the navigator and the aircraft.                          *)

Mishap == mishaps > 0 /\ mishaps' = mishaps - 1
Elsewhere == /\ flew' = (flew \/ armed')
             /\ UNCHANGED <<queue, active, handled, everArmed, stopped, outcome, shown,
                            threads, auto, lock, presses>>

Dispatch ==
    /\ \E o \in Orders \ Manual :
         book[o].status = "" /\ book' = [book EXCEPT ![o].status = "DISPATCHED"]
    /\ UNCHANGED <<navigator, senses, mishaps>> /\ Elsewhere

\* A tick of the navigator ends with MISSION_STATE: the override is mirrored at
\* once, home under the node's lock, for which the navigator may have to wait.
NavigatorTick ==
    /\ ~publishing
    /\ UNCHANGED plan
    /\ \/ /\ F!Begin \/ F!Proceed \/ UNCHANGED <<phase, startRequested, override, armed>>
          /\ UNCHANGED mishaps
       \/ (F!Fail \/ F!TakeOver) /\ Mishap
    /\ mirror' = override'
    /\ \/ ~home /\ UNCHANGED <<home, publishing>>
       \/ lock = "free" /\ home' = TRUE /\ UNCHANGED publishing
       \/ lock # "free" /\ publishing' = TRUE /\ UNCHANGED home
    /\ UNCHANGED <<bleOk, book>> /\ Elsewhere

Published ==
    /\ publishing /\ lock = "free"
    /\ publishing' = FALSE /\ home' = TRUE
    /\ UNCHANGED <<navigator, mirror, bleOk, book, mishaps>> /\ Elsewhere

\* What else moves the aircraft.
Aircraft ==
    /\ UNCHANGED plan
    /\ \/ ~publishing /\ F!Resume /\ UNCHANGED mishaps
       \/ ~publishing /\ F!Press /\ Mishap
       \/ F!EarlyReturn /\ Mishap
       \/ F!Arms /\ (IF phase = "ARMING" THEN UNCHANGED mishaps ELSE Mishap)
       \/ F!Disarms /\ (IF phase \in {"RTL", "LAND", "EMERGENCY"} THEN UNCHANGED mishaps
                        ELSE Mishap)
    /\ UNCHANGED <<senses, book>> /\ Elsewhere

\* _on_ble_result: in the hold at the drop, or astray (early, late, again).
Handshake ==
    /\ lock = "free"
    /\ \E o \in Orders :
         /\ bleOk' = bleOk \cup {o}
         /\ IF phase = "HOVER" /\ plan = o THEN UNCHANGED mishaps ELSE Mishap
    /\ UNCHANGED <<navigator, mirror, home, publishing, book>> /\ Elsewhere

Environment == Dispatch \/ NavigatorTick \/ Published \/ Aircraft \/ Handshake

Next == Loop \/ (\E t \in Threads : Work(t)) \/ Operator \/ Environment

Spec == Init /\ [][Next]_vars

-----------------------------------------------------------------------------
(* Fairness: the loops run, and a service that was called returns.         *)

FairSpec ==
    /\ Spec
    /\ WF_vars(Loop \/ Work("node"))
    /\ WF_vars(Work("gcs") \/ Offer \/ AbortFlight \/ AbortMark \/ Reset)
    /\ WF_vars(Published)

-----------------------------------------------------------------------------
(* Correctness.                                                            *)

\* There is one delivery at a time: while one is active none is on offer, in
\* whatever order polls and buttons come (_poll_orders, _svc_select, _accept).
OneAtATime == active # None => pending = None

\* The plan the navigator has is the active order's, or none after an abort:
\* no drop is flown for one order and booked for another (_accept).
FliesTheActiveOrder == active # None => plan \in {active, None}

\* The book says DELIVERED only of an order whose own handshake succeeded, not
\* because an aircraft came home (_classify_outcome, _write_outcome_back).
DeliveredOnHandshake == \A o \in Orders : book[o].status = "DELIVERED" => o \in bleOk

\* The handshake looked up when an order is closed is its own, "so it cannot credit
\* the wrong delivery": what is shown, by which it is looked up, is the active order
\* until it is closed, whatever the operator presses meanwhile except reset
\* (_reset_outcome_evidence, _classify_outcome).
CreditsItsOwn ==
    at["node"] = "close" /\ Verdict = "DELIVERED" => order["node"] \in bleOk

\* That the aircraft flew is known from this flight, never from the one before,
\* however late the look at the navigator is weighed (_track_active).
EvidenceOfThisFlight == active # None /\ everArmed => flew

\* A verdict stands until the next order is accepted: no delivery is closed
\* twice (_finish_delivery, _svc_abort).
VerdictStands ==
    [][outcome # "PENDING" /\ outcome' # outcome => outcome' = "PENDING"]_vars

\* When the mission has ended, the order is closed, unless the aircraft sets out
\* again: an abort, a takeover or a failed write does not keep it open
\* (_track_active finishes on the mission ending).
EndedIsClosed ==
    active # None /\ phase \in {"DISARMED", "COMPLETE"}
      ~> active = None \/ phase \notin {"DISARMED", "COMPLETE"}

-----------------------------------------------------------------------------
(* What comments claim and the code does not keep.                         *)

\* "Asking it directly with services.call() deadlocks" (_validate): so nobody
\* waits for the navigator under the lock the navigator waits for.
NoLockCycle ==
    \A t \in Threads : ~(lock = t /\ at[t] \in {"plan", "start"} /\ publishing)

\* "Orders that predate the node are never auto-accepted."
PredatingOrdersWait ==
    \A t \in Threads :
      lock = t /\ at[t] \in {"accept", "plan", "start", "take"} => order[t] \notin OldOrders

\* "Never got off the ground: arming was refused or given up on": an order closed
\* for that reason is not about to be flown.
ClosedIsNotLaunched ==
    outcome = "NEVER_FLEW" /\ plan = shown.order /\ at["gcs"] = "idle" => ~startRequested
=============================================================================
