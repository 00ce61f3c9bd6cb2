------------------------------- MODULE Handshake -------------------------------
(***************************************************************************)
(* The BLE peripheral the recipient's phone hands shakes with,             *)
(* ble_handshake/drone_ble_peripheral.py, and the order file it shares     *)
(* with firebase_sync.py.                                                  *)
(*                                                                         *)
(* Three kinds of thread run.  The asyncio loop runs the characteristic    *)
(* handlers and the order watch, one at a time; the watch asks the ground  *)
(* station and pulls an order in worker threads, so the handlers run       *)
(* between its steps (watch.at).  Each accepted DROP starts a finalizer    *)
(* thread that opens the servo, writes a receipt and retires the order     *)
(* file by its PATH, seconds later.  The process may be killed and is      *)
(* started again by its boot wrapper.                                      *)
(*                                                                         *)
(* Abstracted: a signature is valid exactly when the phone that made it    *)
(* read the current nonce and holds the current order's token; a GPS write *)
(* is near, far or without a position of the drone to compare, and a jump  *)
(* or the 12 s window restarts the streak; all refusals are one answer.    *)
(***************************************************************************)
EXTENDS Integers, Sequences, FiniteSetsExt

CONSTANTS
    Orders,         \* order ids, numbered by creation time
    Required,       \* TEMPORAL_READINGS_REQUIRED
    MaxDrops,       \* bound: DROPs accepted
    MaxRepeats,     \* bound: DROPs written again after their answer was lost
    MaxCrashes,     \* bound: times the process is killed
    MaxMishaps      \* bound: calls of the ground station or Firestore that fail

Bench == 0          \* the --dev order, and "no order" elsewhere

ASSUME HandshakeAssumption ==
    /\ Orders \subseteq Nat \ {Bench}
    /\ Required \in Nat \ {0}
    /\ {MaxDrops, MaxRepeats, MaxCrashes, MaxMishaps} \subseteq Nat

VARIABLES
    up,          \* the process runs
    order,       \* service.order
    hasFile,     \* service.order_file is not None
    nonceOf,     \* the phone that read current_nonce (by the order whose token it holds)
    authentic,   \* is_authenticated
    readings,    \* the length of gps_readings
    fix,         \* received_gps is set
    verified,    \* gps_verified
    delivered,   \* _delivered
    answer,      \* last_result
    finalizers,  \* threads of _release_and_finalize, in the order of their DROPs
    watch,       \* _order_watch: where it is, and the order it works on
    spent,       \* its spent
    failed,      \* its failed_at entries younger than ORDER_PULL_RETRY_S
    file,        \* the order in active_order.json, or Bench when there is none
    used,        \* orders in active_order.used_*.json
    receipts,    \* orders with a receipt pending
    book,        \* status of each order in Firestore
    gcs,         \* the ground station: its order, and whether the window is open
    trail,       \* history: consistent readings since the nonce, and the last was near
    dropped,     \* history: DROPs accepted, per order
    budget       \* what is left of each bound

session == <<nonceOf, authentic, readings, fix, verified, delivered, answer>>
served == <<order, hasFile>>
disk == <<file, used, receipts>>
loop == <<watch, spent, failed>>
world == <<book, gcs>>
history == <<trail, dropped>>
vars == <<up, served, session, finalizers, loop, disk, world, history, budget>>

Ids == Orders \cup {Bench}
Answers == {"PENDING", "OK", "REFUSED", "NOT_READY"}
Finalizer == [at : {"start", "open", "close", "receipt", "expire", "done"},
              order : Ids, file : BOOLEAN, fix : BOOLEAN]

TypeOK ==
    /\ {up, hasFile, authentic, fix, verified, delivered} \subseteq BOOLEAN
    /\ {order, nonceOf, file} \subseteq Ids
    /\ readings \in 0..Required
    /\ answer \in Answers
    /\ finalizers \in Seq(Finalizer) /\ Len(finalizers) <= MaxDrops
    /\ watch \in [at : {"sleep", "ask", "check", "pull", "load"}, oid : Ids]
    /\ spent \cup failed \cup used \cup receipts \subseteq Ids
    /\ book \in [Orders -> {"", "DISPATCHED", "DELIVERED"}]
    /\ gcs \in [order : Ids, open : BOOLEAN]
    /\ trail \in [count : 0..Required, near : BOOLEAN]
    /\ dropped \in [Ids -> 0..MaxDrops]
    /\ budget \in [repeats : 0..MaxRepeats, crashes : 0..MaxCrashes, mishaps : 0..MaxMishaps]

-----------------------------------------------------------------------------
(* What the steps are made of.                                             *)

NewFinalizer == [at |-> "start", order |-> Bench, file |-> FALSE, fix |-> FALSE]
Finished == [NewFinalizer EXCEPT !.at = "done"]
Asleep == [at |-> "sleep", oid |-> Bench]
NoTrail == [count |-> 0, near |-> FALSE]
Spends(what) == budget[what] > 0 /\ budget' = [budget EXCEPT ![what] = @ - 1]
\* A call of the ground station or of Firestore succeeds, or is one of the mishaps.
Succeeds == UNCHANGED budget
Fails == Spends("mishaps")

\* Mutants: a fresh challenge that keeps the last answer, or the readings.
FreshSessionKeepsAnswer ==
    /\ authentic' = FALSE /\ verified' = FALSE /\ readings' = 0
    /\ trail' = NoTrail /\ UNCHANGED answer

FreshSessionKeepsReadings ==
    /\ authentic' = FALSE /\ verified' = FALSE /\ UNCHANGED readings
    /\ answer' = "PENDING" /\ trail' = NoTrail

\* What a fresh challenge resets; only an order that is new also forgets the delivery.
FreshSession == /\ authentic' = FALSE /\ verified' = FALSE /\ readings' = 0
                /\ answer' = "PENDING" /\ trail' = NoTrail

\* Mutant: the new order takes over the session of the old one.
ServeInSession(o, withFile) ==
    /\ order' = o /\ hasFile' = withFile
    /\ delivered' = FALSE /\ UNCHANGED <<nonceOf, authentic, readings, fix, verified, answer, trail>>

Serve(o, withFile) ==
    /\ order' = o /\ hasFile' = withFile
    /\ FreshSession /\ nonceOf' = Bench /\ fix' = FALSE /\ delivered' = FALSE

Signed(phone) == phone = nonceOf /\ phone = order

\* pull_order without an id takes the newest DISPATCHED order.
Newest == LET waiting == {o \in Orders : book[o] = "DISPATCHED"}
          IN  {o \in waiting : \A p \in waiting : p <= o}

Init ==
    /\ up = FALSE /\ order = Bench /\ hasFile = FALSE
    /\ nonceOf = Bench /\ authentic = FALSE /\ readings = 0 /\ fix = FALSE
    /\ verified = FALSE /\ delivered = FALSE /\ answer = "PENDING"
    /\ finalizers = <<>> /\ watch = Asleep /\ spent = {} /\ failed = {}
    /\ file = Bench /\ used = {} /\ receipts = {}
    /\ book = [o \in Orders |-> ""]
    /\ gcs = [order |-> Bench, open |-> FALSE]
    /\ trail = NoTrail /\ dropped = [o \in Ids |-> 0]
    /\ budget = [repeats |-> MaxRepeats, crashes |-> MaxCrashes, mishaps |-> MaxMishaps]

-----------------------------------------------------------------------------
(* The process: the boot wrapper pulls the newest order, main() loads the  *)
(* order file unless it is stale, and falls back to the bench order.       *)

Boot ==
    /\ ~up /\ up' = TRUE
    /\ \/ Succeeds /\ \E o \in Newest : file' = o /\ Serve(o, TRUE)
       \/ /\ Fails \/ (Succeeds /\ Newest = {})
          /\ UNCHANGED file
          /\ \/ Serve(file, file # Bench)
             \/ Serve(Bench, FALSE)               \* older than max_order_age_s
    /\ watch' = Asleep /\ failed' = {} /\ spent' = used
    /\ UNCHANGED <<finalizers, used, receipts, world, dropped>>

\* What was in memory is gone; the files stay.
Kill ==
    /\ up /\ up' = FALSE /\ Spends("crashes")
    /\ Serve(Bench, FALSE)
    /\ finalizers' = [i \in DOMAIN finalizers |-> Finished]
    /\ watch' = Asleep /\ spent' = {} /\ failed' = {}
    /\ UNCHANGED <<disk, world, dropped>>

-----------------------------------------------------------------------------
(* The characteristics.  A phone is named by the order whose token it has. *)

ReadNonce(phone) ==
    /\ up /\ FreshSession /\ nonceOf' = phone
    /\ UNCHANGED <<up, served, fix, delivered, finalizers, loop, disk, world, dropped, budget>>

WriteAuth(phone) ==
    /\ up /\ authentic' = (~delivered /\ Signed(phone))
    /\ UNCHANGED <<up, served, nonceOf, readings, fix, verified, delivered, answer,
                   finalizers, loop, disk, world, history, budget>>

\* Mutant: the window is never trimmed.
WriteGpsUntrimmed(phone, kept, place) ==
    /\ up /\ authentic /\ Signed(phone)
    /\ readings' = readings + 1 /\ fix' = TRUE
    /\ verified' = (readings' >= Required /\ place = "near")
    /\ answer' = IF verified' THEN "OK" ELSE "REFUSED"
    /\ UNCHANGED <<up, served, nonceOf, authentic, delivered, finalizers, loop, disk, world,
                   history, budget>>

\* kept: readings still in the window and consistent with this one.
WriteGps(phone, kept, place) ==
    /\ up /\ authentic
    /\ IF ~Signed(phone)
       THEN verified' = FALSE /\ answer' = "REFUSED" /\ UNCHANGED <<readings, fix, trail>>
       ELSE /\ readings' = Min({kept + 1, Required}) /\ fix' = TRUE
            /\ verified' = (readings' >= Required /\ place = "near")
            /\ answer' = IF verified' THEN "OK" ELSE "REFUSED"
            /\ trail' = [count |-> Min({Min({kept, trail.count}) + 1, Required}),
                         near |-> place = "near"]
    /\ UNCHANGED <<up, served, nonceOf, authentic, delivered, finalizers, loop, disk, world,
                   dropped, budget>>

\* The checks of a DROP before the ground station is asked.
Passes(phone) == authentic /\ verified /\ Signed(phone)

RefuseDrop(phone) ==
    /\ up /\ ~Passes(phone) /\ answer' = "REFUSED"
    /\ UNCHANGED <<up, served, nonceOf, authentic, readings, fix, verified, delivered,
                   finalizers, loop, disk, world, history, budget>>

DeferDrop(phone) ==
    /\ up /\ Passes(phone) /\ answer' = "NOT_READY"
    /\ UNCHANGED <<up, served, nonceOf, authentic, readings, fix, verified, delivered,
                   finalizers, loop, disk, world, history, budget>>

\* Nothing here looks at delivered: an answer that is lost brings the DROP again.
AcceptDrop(phone) ==
    /\ up /\ Passes(phone) /\ gcs.open
    /\ Len(finalizers) < MaxDrops
    /\ IF delivered THEN Spends("repeats") ELSE Succeeds
    /\ delivered' = TRUE /\ answer' = "OK"
    /\ finalizers' = Append(finalizers, NewFinalizer)
    /\ dropped' = [dropped EXCEPT ![order] = @ + 1]
    /\ UNCHANGED <<up, served, nonceOf, authentic, readings, fix, verified, loop, disk, world,
                   trail>>

-----------------------------------------------------------------------------
(* A finalizer.  It reads the order when it gets to run, and the order     *)
(* file only by name, when the servo is closed.                            *)

Goes(i, step) == finalizers' = [finalizers EXCEPT ![i] =
                    IF step = "done" THEN Finished ELSE [@ EXCEPT !.at = step]]
Finalizing(i, step) == up /\ finalizers[i].at = step

Snapshot(i) ==
    /\ Finalizing(i, "start")
    /\ finalizers' = [finalizers EXCEPT ![i] =
            [at |-> "open", order |-> order, file |-> hasFile, fix |-> fix]]
    /\ UNCHANGED <<up, served, session, loop, disk, world, history, budget>>

\* Whether the ground station takes the servo commands changes nothing here.
MoveServo(i) ==
    /\ \/ Finalizing(i, "open") /\ Goes(i, "close")
       \/ Finalizing(i, "close") /\ Goes(i, "receipt")
    /\ UNCHANGED <<up, served, session, loop, disk, world, history, budget>>

\* Without a position the receipt cannot be formatted and the thread dies.
WriteReceipt(i) ==
    /\ Finalizing(i, "receipt")
    /\ IF finalizers[i].fix
       THEN /\ receipts' = receipts \cup {finalizers[i].order}
            /\ Goes(i, IF finalizers[i].file THEN "expire" ELSE "done")
       ELSE UNCHANGED receipts /\ Goes(i, "done")
    /\ UNCHANGED <<up, served, session, loop, file, used, world, history, budget>>

ExpireToken(i) ==
    /\ Finalizing(i, "expire") /\ Goes(i, "done")
    /\ file' = Bench /\ used' = used \cup ({file} \ {Bench})
    /\ UNCHANGED <<up, served, session, loop, receipts, world, history, budget>>

-----------------------------------------------------------------------------
(* The order watch.                                                        *)

Watching(step) == up /\ watch.at = step
Sleeps == watch' = Asleep

WatchWakes ==
    /\ Watching("sleep") /\ watch' = [watch EXCEPT !.at = "ask"]
    /\ spent' = spent \cup (IF delivered THEN {order} ELSE {})
    /\ UNCHANGED <<up, served, session, finalizers, failed, disk, world, history, budget>>

WatchAsks ==
    /\ Watching("ask")
    /\ \/ Succeeds /\ gcs.order # Bench /\ watch' = [at |-> "check", oid |-> gcs.order]
       \/ Succeeds /\ gcs.order = Bench /\ Sleeps
       \/ Fails /\ Sleeps
    /\ UNCHANGED <<up, served, session, finalizers, spent, failed, disk, world, history>>

WatchChecks ==
    /\ Watching("check")
    /\ IF watch.oid = order \/ watch.oid \in spent \cup failed
       THEN Sleeps
       ELSE watch' = [watch EXCEPT !.at = "pull"]
    /\ UNCHANGED <<up, served, session, finalizers, spent, failed, disk, world, history, budget>>

\* firebase_sync.pull_order(oid) writes the file that every order shares.
WatchPulls ==
    /\ Watching("pull")
    /\ \/ Succeeds /\ file' = watch.oid /\ watch' = [watch EXCEPT !.at = "load"]
          /\ UNCHANGED failed
       \/ Fails /\ Sleeps /\ failed' = failed \cup {watch.oid} /\ UNCHANGED file
    /\ UNCHANGED <<up, served, session, finalizers, spent, used, receipts, world, history>>

WatchAdopts ==
    /\ Watching("load") /\ Sleeps
    /\ IF file = watch.oid
       THEN Serve(file, TRUE) /\ UNCHANGED failed
       ELSE failed' = failed \cup {watch.oid} /\ UNCHANGED <<served, session, trail>>
    /\ UNCHANGED <<up, finalizers, spent, disk, world, dropped, budget>>

\* Mutant: an order whose pull failed once is not tried again.
RetryNever ==
    /\ up /\ failed = Orders /\ failed' = {}
    /\ UNCHANGED <<up, served, session, finalizers, watch, spent, disk, world, history, budget>>

RetryExpires ==
    /\ up /\ failed # {} /\ failed' = {}
    /\ UNCHANGED <<up, served, session, finalizers, watch, spent, disk, world, history, budget>>

-----------------------------------------------------------------------------
(* The world: customers, the ground station, the operator after landing.   *)

Dispatch(o) ==
    /\ book[o] = "" /\ book' = [book EXCEPT ![o] = "DISPATCHED"]
    /\ UNCHANGED <<up, served, session, finalizers, loop, disk, gcs, history, budget>>

\* The delivery node takes orders one after the other.
GcsTakes(o) ==
    /\ book[o] = "DISPATCHED" /\ gcs.order < o
    /\ gcs' = [order |-> o, open |-> FALSE]
    /\ UNCHANGED <<up, served, session, finalizers, loop, disk, book, history, budget>>

GcsWindow ==
    /\ gcs.order # Bench /\ gcs' = [gcs EXCEPT !.open = ~@]
    /\ UNCHANGED <<up, served, session, finalizers, loop, disk, book, history, budget>>

\* push_receipts: one that fails stays pending.
PushReceipt(o) ==
    /\ o \in receipts /\ receipts' = receipts \ {o}
    /\ book' = IF o \in Orders THEN [book EXCEPT ![o] = "DELIVERED"] ELSE book
    /\ UNCHANGED <<up, served, session, finalizers, loop, file, used, gcs, history, budget>>

-----------------------------------------------------------------------------
Phone == \E p \in Orders :
            \/ ReadNonce(p) \/ WriteAuth(p) \/ RefuseDrop(p) \/ DeferDrop(p) \/ AcceptDrop(p)
            \/ \E kept \in 0..readings, place \in {"near", "far", "unknown"} :
                    WriteGps(p, kept, place)
Finalizers == \E i \in DOMAIN finalizers :
                Snapshot(i) \/ MoveServo(i) \/ WriteReceipt(i) \/ ExpireToken(i)
Watch == WatchWakes \/ WatchAsks \/ WatchChecks \/ WatchPulls \/ WatchAdopts
World == \/ GcsWindow
         \/ \E o \in Ids : PushReceipt(o)
         \/ \E o \in Orders : Dispatch(o) \/ GcsTakes(o)

Next == Boot \/ Kill \/ Phone \/ Finalizers \/ Watch \/ RetryExpires \/ World

\* The watch is a task of the running process; systemd starts it again.
Spec == /\ Init /\ [][Next]_vars
        /\ WF_vars(Boot) /\ WF_vars(Watch) /\ WF_vars(RetryExpires)

-----------------------------------------------------------------------------
(* What must hold.                                                         *)

\* A session is authenticated by the phone of the order being served, and a
\* position is trusted only after enough consistent readings: across nonce
\* reads by another phone, order swaps and restarts.
SessionBelongsToOrder ==
    /\ authentic => nonceOf = order
    /\ verified => readings = Required /\ fix

\* Every DROP accepted came from the phone of the order served, whose last
\* Required readings since it read its nonce were consistent and whose last
\* one was near the drone.
DropNeedsPresence ==
    [][dropped' # dropped => /\ nonceOf = order /\ authentic
                             /\ trail = [count |-> Required, near |-> TRUE]]_vars

\* OK is what the phone believes (the Pi "is the only source of truth"): it is
\* answered for a position that is verified or a parcel that is dropped.
AnswerIsEarned == answer = "OK" => verified \/ delivered

\* The peripheral comes to serve the order the ground station flies, through
\* failed pulls, a file retired under its feet and restarts, unless that
\* order's token is on record as spent.
FollowsTheFlight ==
    \A o \in Orders : gcs.order = o ~> order = o \/ gcs.order # o \/ o \in spent

\* "The receipt + token expiry must stay with the order that was actually
\* delivered" (drone_ble_peripheral.py:686).
ExpiresTheDelivered == [][\A o \in used' \ used : dropped[o] > 0]_vars

\* "Single-use token: this order's token can never be replayed"
\* (drone_ble_peripheral.py:711).
TokenIsSpentOnce == \A o \in Orders : dropped[o] <= 1

=============================================================================
