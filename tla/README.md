# Drone stack: verification

TLA+ models of the delivery drone's companion-computer software
(`src/drone_stack/`), TLC configurations that check them on small instances, and
TLAPS proofs of the properties that matter most.

    tlc -workers 2 -config NavPi.cfg MCNavigation      # model-check one run
    tlapm NavigationProofs.tla                          # check the proofs

`PROJECT.json` lists the runs, which source lines every definition stands for,
a mutant per property, the hazards and the findings.

## 1. The system

A Raspberry Pi beside a flight controller (FC) flies a parcel to a customer's
phone. Python nodes run in one process, joined by a publish/subscribe bus and
a registry of synchronous services; every node has a loop of its own (a thread)
and receives messages in the publisher's thread.

| Component | State it keeps | Operations | Talks to |
|---|---|---|---|
| **Navigator** `nodes/navigation_node.py` | mission phase (13 of them), plan and waypoint index, the delivery hold and its scan stage, pilot override, pending start, what it last commanded the FC, timers of the return home | 10 Hz loop `step`; callbacks (armed, mode, GPS, battery, handshake result, ...); services (hold, resume, rtl, land, start_mission, abort_delivery, set_delivery_target, typed commands, ...) | FC through `MAVROS_COMMAND`; publishes `MISSION_STATE` under its lock; called by delivery node and ground station |
| **Delivery node** `nodes/firebase_delivery_node.py` | offered order, active order, handled orders, evidence that the flight happened, delivery phase, handshake results by order | 2 Hz loop: poll, accept, track, publish; services accept, reject, select, abort, reset, inject, auto-accept | calls the navigator's services; reads its status and `MISSION_STATE`; writes the order database |
| **Order database** `interfaces/firebase_interface.py` | status of each order | poll, write back phase and outcome, with failures | cloud (external) |
| **BLE handshake** `ble_handshake/` | order being served, nonce, session (authenticated, readings, verified, last answer), finalizer threads, the order watch's place; on disk the order file, used tokens, receipts | GATT reads and writes, token check, geofence, drop, receipt and expiry; order watch in worker threads; boot | the customer's phone; the ground station's servo and window; the order database |
| **Bus, services, supervisor** `bus/`, `srv/`, `utils/node.py`, `launch/bringup.py` | subscribers, latched messages; one thread per node with its stop event, the entries of the supervisor | publish, subscribe, call; run, backoff, restart by a watchdog, stop | everything |
| **MAVLink** `interfaces/mavlink_interface.py`, `nodes/mavlink_node.py` | link state and age of the heartbeat, queue of commands | connect, receive, flush, report; upload of a mission | FC |
| **Sensing** `interfaces/lidar_interface.py`, `nodes/{lidar,obstacle,proximity}_node.py`, `obstacle_tracker.py` | the revolution last read, the gate's history, tracks with hits, misses and age, frames of the sector filter | reader thread, connect and its retry, pause and stop, filter, cluster, follow, coast, median | navigator; FC (OBSTACLE_DISTANCE) |
| **Avoidance** (in `navigation_node.py`) | braking, dodge and steering in progress, yaw gate, distances | brake, sidestep, steer round, gate the yaw, release | FC, which reports its mode late |
| **Flight recorder** `gcs/recorder.py`, `gcs/hub.py`, `gcs/flight_state.py` | recording in progress, owed render, running encoders; on disk frames, jobs, the one clip, a counter | start, stop, render in stages, promote, preempt, salvage, recover at boot | FC's arm state, the operator |
| **Delivery assurance** `novelty/` | state of the mission, recipient, zones, authentication windows, tracks of people | one step per state, timeouts, entry actions | FC; camera and BLE events |
| **Rest of the ground station** `gcs/` | operator sessions, websocket flow windows | HTTP and websocket handlers in one asyncio thread | every service |
| **Person lock** `gcs/person_lock.py`, `gcs/hailo_infer.py`, `src/person_detect/` | the person in view, hysteresis of the lock | image processing | navigator's scan |
| Simulator, scripts, configuration, command parser, `parcel_delivery/` prototype | | | not part of the flying core |

What is hard about it:

- **Three kinds of threads write one phase.** The navigator's loop, its services
  and its callbacks all assign `_phase` and command the FC. They share a lock,
  except that the handshake's callback decides under it and acts after giving
  it back.
- **Two authorities.** The pilot's transmitter must win over the program at any
  instant: in a turn, a hold, a landing, with requests in flight. Whether the
  pilot took over is itself inferred from modes reported late.
- **State that outlives its episode.** Results of a handshake, scan stages,
  timers of a return and start requests are attributes of a long-lived object;
  a mission may end in a dozen ways (abort, takeover, failsafe, disarm, new plan)
  and each has to clear the right ones.
- **Failsafes that fight.** They are evaluated in order every tick and change
  the phase which the next evaluation depends on.
- **Commands are requests.** The FC may refuse, answer late or change mode by
  itself; what was asked and what is reported differ for a while.
- **Order life cycle over a faulty database**, between a polling loop, operators
  and a navigator that runs at its own pace, with two locks taken in both orders.

- **Files outlive threads and processes.** The peripheral and the recorder hand work to
  threads that act seconds or minutes later on files named by path, while the next
  order or the next flight goes on; a kill may come between any two steps.
- **Late views.** The aircraft's mode, the link's state, the newest revolution, the last
  detection are all read after the fact, and each is acted on as if it were now.

What makes each modelled component correct is in section 3. For the others: *person
lock*: the person reported is the person approached; *rest of the ground station*: a
slow browser delays only itself.

## 2. Plan

In order of importance; 1 to 9 are done.

1. **`Navigation`** - the navigator, all its threads. **`NavigationProofs`** - type
   correctness and its safety invariants, for every configuration.
2. **`Flight`** - what the delivery node relies on of the navigator, and
   **`NavigationFlight`** - `Navigation` implements it, by a refinement mapping.
3. **`Delivery`** - the order life cycle of the delivery node against `Flight` and
   an order book that fails.
4. **`Handshake`** - the peripheral's session, drop, finalizers and order watch, against
   swapped orders, failed calls and kills.
5. **`Stack`** - the life of nodes, the supervisor, the bus's dispatch and the
   MAVLink command queue, over a radio that fails.
6. **`Sensing`** - from a revolution of the LiDAR to what steers the aircraft, and
   **`SensingProofs`**.
7. **`Assurance`** - the state machine of the delivery assurance layer with its inputs.
8. **`Recorder`** - recordings, encoders and the disk, over crashes, and **`RecorderProofs`**.
9. **`Avoidance`** - a leg past obstacles, and **`AvoidanceProofs`**.
10. `ReturnHome` - the return alone, with its timers: liveness (a return ends in a
    landing, a landing ends disarmed) under an FC that eventually accepts.
11. The person scan with the lock's hysteresis; the websocket's flow control.

Proof to follow: `SteadyObjectReported` for one thing that keeps clear of the blind bins.

How the modules compose:

    Navigation <-- NavigationFlight --INSTANCE--> Flight
                     ^         ^                    ^
        NavigationProofs   MCNavigation          INSTANCE
                                                    |
                                MCDelivery --> Delivery

    DeliveryProofs --> Delivery                      RecorderProofs --> Recorder <-- MCRecorder
    AvoidanceProofs --> Avoidance <-- MCAvoidance    HandshakeProofs --> Handshake <-- MCHandshake
    AssuranceProofs --> Assurance <-- MCAssurance    StackProofs --> Stack <-- MCStack
    SensingProofs --> Sensing <-- MCSensing

`Delivery` composes with the navigator through `Flight`, which `Navigation` is checked and
proved to implement. The other modules meet in what they take as free choices: the obstacles of
`Avoidance` are what `Sensing` publishes, its phases NAVIGATE and AVOID those of
`Navigation`; `Navigation` takes "an obstacle is close" as a choice; the ground
station's order in `Handshake` is what `Delivery` takes; commands and LINK in `Stack` are
what every other module sends and reads directly.

## 3. The modules

### Navigation

Models `nodes/navigation_node.py`: one action per service, callback and branch of the
loop. How its variables correspond to the code is said beside each declaration.

| In the code | In the module |
|---|---|
| `step` under the lock | the actions of `Loop`; a tick on which the pilot takes over is `TakeOver`, one that consumes a start `StartTick`, one on which a failsafe fires `FailsafeTick`; the others dispatch on the phase (`Tick(p)`) |
| `_check_failsafe` in its order | `LandNow`, `BrakeNow`, `Failsafe`; a tick's handler runs only when it is `Quiet` |
| `_check_pilot_override` | `Departed`, `Observed`, `TakeOver` |
| `_send` and the modes it remembers | `Note`, `Ask`, `Motion`, `TakeOff`; the FC answers later (`FcAnswer`) |
| `_enter_rtl`, `_commit_rtl`, `_do_rtl` and the two turns | `EnterRtl`, `HandOver`, `CommitRtl`, `RtlTick`, `Turning`, `Returning` |
| `_enter_hover`, `_do_hover`, `_do_scan` | `EnterHover`, `HoverWait`, `HoverSkip`, `HoverDone`, `ScanSearch`, `ScanLock` |
| `_on_ble_delivery_result` | `BleResult` (under the lock), then `EarlyReturn`: the body of `_enter_rtl` without the lock, write by write: `BleJob`, `BleMark`; `BleTurn`, `BleVoid` for a turn; `BleFly`, `BleAppend`, `BleLeg`, `BleLeave` for the Pi's leg; `BleClear`, `BleCommit` for the FC's return |
| services, typed commands | the actions of `Operator` |
| what FC and sensors report | the actions of `Environment` |

A handler calls helpers that call helpers, each assigning a few attributes. The
model keeps that shape: a *context* record holds the attributes the helpers
write, a helper maps a context to a context, and an action ends with
`Becomes(context)`.

The handshake's thread takes no lock once it has decided, so ticks, services and reports fall
between any two of its writes. Of what may fall *inside* a call that holds the lock, one write is
modelled, the phase RTL that such a call then overwrites (`Becomes`); the thread's other writes
happen before or after it. A commit in the loop that spans the thread's timer and its wiping of the
request, after which a request and a turn stand together, is therefore not a behaviour of the
model, and no property claims that the two exclude each other. Nor is a plan loaded between
the thread's append of the leg home and its index of it (lines 3788-3789).

Abstracted: time (whether a timer has run out is a free choice whenever the loop
looks at it), positions and obstacles (free choices), waypoints (their kind:
`nav`, `drop`, `home`). A repeat of a mode command within
`mode_resend_interval_s`, which the code drops, is a request the FC refused. The
history variable `episode` records whether the current hold has seen a result, a lock or
a new plan, and `ret.asked` whether the FC has been sent the return since phase RTL was
entered; no action reads them.

Constants are the configuration (`ReturnMode`, `Router`, `AboutFace`, `TurnOntoHome`,
`ScanEnabled`, `FailsafesEnabled`), the modes told apart, the plans that may be loaded
and two bounds: `MaxOrders` limits calls of `set_delivery_target` and
`start_mission`, `MaxInterventions` limits every disturbance: takeovers, operator's
buttons, spontaneous mode changes, handshake results, battery and altitude
alarms. The loop, the FC's answers and arming are not bounded.

| Property | Says |
|---|---|
| `ReturnAsked` | in phase RTL the FC has been sent the return since the phase was entered, or a turn is under way after which the loop sends it, or the handshake's thread is still to do one of the two: however the thread's writes and the loop's clear each other's timers, the aircraft is never left hovering by a return nobody commanded |
| `ResultBelongsToHold` | a hold ends on the result of its own handshake, never on an earlier one's |
| `HandshakeGate` | with the scan on, the handshake opens only on a lock made during this hold |
| `LoopStandsDown` | under the override no tick of the loop commands the FC or moves the phase |
| `LandingHolds` | a landing is left only by its end, the operator, the pilot, a start, the altitude hardlock or the handshake's thread |
| `NoLandingMidTurn` | no tick goes from turning onto home to landing unless a failsafe does |
| `DropTakesAHold` | a drop is counted past only by a hold that runs until that very tick; the one exception is the hold a new plan cut short, after which the next tick counts the new plan's first waypoint past, drop or not |

### Flight and NavigationFlight

`Flight` is the navigator as the delivery node sees it: the phase `mission_status`
reports (the five phases of a flight that the delivery node does not tell apart are
one, `UNDERWAY`), whether a plan is loaded, a start is waiting, the pilot has the
aircraft, it is armed. Its actions are the three services the delivery node
calls (`SetPlan`, `StartMission`, `AbortDelivery`), the loop (`Begin` consumes a
start, `Proceed` takes the mission on, `Fail` takes it off), the pilot, the other
buttons, the handshake's thread, arming and disarming.

`NavigationFlight` maps the navigator's state to it (`Reported`, and a plan is
loaded when it is not empty) and states `Flies == F!FlightSpec`: every step of the
navigator is a step of `Flight` or leaves its variables alone. The run `NavPi`
checks it on one configuration and `NavigationProofs` proves it for all, so what
`Delivery` assumes of the navigator is what the navigator's model does. In particular a start is consumed only on the ground, only a resume or
a start takes the override away, a mission ends in DISARMED only after a landing
and on a disarmed aircraft, and `start_mission` leaves a request, not a phase:
`mission_status` still says IDLE when it returns, on which `ClosedIsNotLaunched` of section 5 rests.

### Delivery

Models `nodes/firebase_delivery_node.py` with its two threads: the node's loop and the
ground station's, which calls the services. Each has a program counter `at[t]` and
the local variables that outlive a step (`order`, `batch`, `seen`). What the code does
under its lock without calling out is one step; the loop holds the lock across
steps where it calls the navigator (`lock`), and closing an order is two steps
under one lock so that what runs without the lock can come between them.

| In the code | In the module |
|---|---|
| `step`: poll, then follow the active order | `FetchTick`, then `Polled` in its outcomes (`PollNothing`, `PollWithdraw`, `PollHold`, `PollReject`, `PollOffer`), then `Track`, `Ask`, `Weigh`, `Mark`, `Close`; a tick without a poll starts at `Track` |
| `_accept`, in either thread | `Validate`, `Reject`, `PlanRoute`, `Launch` or `LaunchRefused`, `Take` |
| `_track_active` | `Track` (read the active order), `Ask` (`mission_status`), `Weigh` (evidence and `NextPhase`, unlocked), `Mark` and `Close` (under the lock) |
| `_classify_outcome`, `_finish_delivery`, the write-backs | `Verdict`, `Close`, `SetPhase`, `Write` |
| services | `AcceptPressed`, `RejectPressed`, `SelectPressed`, `InjectPressed`, `Offer`, `AbortPressed`, `AbortFlight`, `AbortMark`, `ResetPressed`, `Reset`, `SetAuto`, `Refresh` |
| `_on_mission_state` | the end of `NavigatorTick`; when the node's lock is taken the navigator stays in `publishing`, its services unavailable, until `Published` |
| `_on_ble_result` | `Handshake` |
| the order database | `book`; `Fetch` may see nothing, `Write` may do nothing |
| the navigator and the aircraft | `NavigatorTick`, `Aircraft`, by the actions of `Flight` |

Abstracted: positions (which orders are out of range is a constant), wording, the
listing and the history, the verdict on the return (home or not), the FC's answer
to an upload. `flew` is a history variable: the aircraft was armed at some time since
the last start of a mission; no action reads it.

Constants: the orders, by creation time; those in the book at the start; those
the ground station makes up; those out of range; `AutoAccept`; the buttons used; and two
bounds, `MaxPresses` on calls of services and `MaxMishaps` on everything that goes wrong
(a failed poll or write, a takeover, a failsafe, other buttons, a stray handshake,
arming or disarming out of turn).

| Property | Says |
|---|---|
| `FliesTheActiveOrder` | the plan the navigator has is the active order's, or none after an abort |
| `DeliveredOnHandshake` | the book says DELIVERED only of an order whose own handshake succeeded |
| `CreditsItsOwn` | the handshake looked up when an order is closed is its own, though it is looked up by the order shown, which other threads set |
| `EvidenceOfThisFlight` | that the aircraft flew is known from this flight, however late the look at the navigator is weighed |
| `OneAtATime` | no order is on offer while one is being delivered |
| `VerdictStands` | a verdict is replaced only when the next order is accepted |
| `EndedIsClosed` | once the mission has ended the delivery is closed, unless the aircraft sets out again |

The first four are checked with acceptance by hand and without the services reset and
auto-accept, and proved for orders accepted in one way, all by hand or all by polls. They
need that: when an operator accepts while the polls do, two threads may be
inside `_accept` at once, for two orders: the plan is then one's and the booking the
other's (the hazard listed at line 683). A reset takes the active order away between two
steps of the loop that follows it: see section 5.

### Handshake

Models `ble_handshake/drone_ble_peripheral.py` and what `firebase_sync.py` does to the order file.

| In the code | In the module |
|---|---|
| `nonce`, `auth`, `gps`, `drop` characteristics | `ReadNonce`, `WriteAuth`, `WriteGps`, and `RefuseDrop`, `DeferDrop`, `AcceptDrop` |
| `_release_and_finalize`, one thread per accepted DROP | `Snapshot` (it reads the order when it runs), `MoveServo`, `WriteReceipt`, `ExpireToken` (it retires the order file by its path) |
| `_order_watch` and its worker threads | `WatchWakes`, `WatchAsks`, `WatchChecks`, `WatchPulls`, `WatchAdopts`; `RetryExpires` |
| `swap_order`, a new nonce | `Serve`, `FreshSession` |
| `main` after its boot wrapper, a kill | `Boot`, `Kill` |
| `pull_order`, `push_receipts` | `Newest`, `WatchPulls`, `PushReceipt` |
| customers, delivery node, navigator's window | `Dispatch`, `GcsTakes`, `GcsWindow` |

Abstracted: a signature is valid when its phone read the current nonce and holds the
order's token; a reading is near, far or cannot be compared. History variables: `trail`
(consistent readings since the nonce) and `dropped`. Bounds: `MaxDrops`, `MaxRepeats`
(a DROP written again), `MaxCrashes`, `MaxMishaps` (a call that fails).

| Property | Says |
|---|---|
| `SessionBelongsToOrder` | an authenticated session is that of the phone of the order served, a verified one has its readings |
| `AnswerIsEarned` | OK is answered only for a verified position or a dropped parcel |
| `DropNeedsPresence` | every accepted DROP is that phone's, after consistent readings since its nonce, the last one near |
| `FollowsTheFlight` | the peripheral comes to serve the order being flown, unless its token is on record as spent |

### Stack

Models `utils/node.py`, `bus/message_bus.py`, `nodes/mavlink_node.py` and
`interfaces/mavlink_interface.py`. Of the nodes it has the MAVLink node and one that
listens to it; each may be built several times, and instance `i` of node `n` has a thread,
a stop event, a queue and a view.

| In the code | In the module |
|---|---|
| `NodeBase.run` and what may happen in it | `Crash`, `Resume`, `Die`, `End` |
| `MavlinkNode`: connect loop, one step | `Connect`; `StepLinkLost`, `StepReceives`, `Flush`, `Flushed` |
| `RealMavlink` | `LinkUp`, `OpenLink`, `CloseLink`, `Receive`, `Send`, `Listens` (an upload throws the heartbeats away) |
| `publish` of LINK, by the MAVLink node: under the lock, then the callbacks | `PublishLink`, `Dispatch` |
| `publish` of a command, by whichever thread: under the lock, then the callbacks | `Command`, `Tell` |
| the supervisor's watchdog, its factory, `stop` | `DogWakes`, `DogPasses`, `DogBuilds`, `DogReplaces`; `Stop`, `StopAsks` |
| the radio | `RadioFails`, `RadioReturns`, `HeartbeatAges` |

Bounds: `MaxDeaths` (a thread killed by what `except Exception` lets through),
`MaxCrashes`, `MaxCommands`, `MaxLosses`. `Uploads` are the commands that write a mission.

Commands have many publishers (the hub's request threads, the navigator, the proximity
node), and each runs the callbacks after it has let go of the bus's lock. Here every
command is published by a thread of its own, so two of them reach the queue in either order,
and a publisher may hold one back for ever. A thread that publishes several has each told to
the end before it issues the next; `before` remembers, of each command, those that were told
when it was issued.

| Property | Says |
|---|---|
| `OneLiveInstance` | no node ever has two threads alive |
| `CommandsInOrder` | no command reaches the FC twice, nor after one that was issued when it had been published to the end; two published at once may overtake each other |
| `AskedNodesEnd` | every node that `stop` asked stops, wherever it was |
| `DeadNodesReturn` | a node whose thread died is running again, unless the stack stops |
| `LinkLossReaches` | a link lost for good ends up lost in the navigator's view |

### Sensing

Models the LiDAR's driver, its node with the persistence gate, the obstacle node with
its tracker and the proximity node.

| In the code | In the module |
|---|---|
| `RealLidar._read_loop`, its giving up, `connect` | `Revolve`, `GiveUp`, `EnsureConnected`, `Connect` |
| `LidarNode.step`, `ScanFilter`, services | `ReadScan`, `Filtered`, `Supported`; `Pause`, `Stop`, `Resume`, `Start` |
| `ObstacleNode.step`: cluster, describe, gate on points | `Obstacles`, `Clusters`, `Describe`, `Detect` |
| `ObstacleTracker.update`, `_with_coasted` | `Associate`, `Advance`, `Retire`, `Reseed`, `Follow`, `Remember`, `WithCoasted` |
| `scan_to_sectors`, `SectorFilter` | `ScanToSectors`, `Median`, `SectorUpdate`, `Proximity` |

Abstracted: a small ring of bins and a few range classes; velocities; the
closest-first association is any maximal pairing within the gate; time is counted in
revolutions. History variables: `lately` and `recent`, what stood in the newest `Memory`
revolutions read. `MaxEvents` bounds everything that disturbs:
the world's changes, a missed return, a stray, an outage, a pause, a consumer that is late.
Strays are rare: `quiet` counts the revolutions read since the last one, and another comes
no sooner than after `Quiet` of them. A revolution differs from what stood by one stray or
by returns it missed, which is what the gate's vote is made for.

| Property | Says |
|---|---|
| `OnlyObjectsSteer` | every obstacle published, coasted ones included, and every distance sent to the FC belongs to something that stood there in one of the newest revolutions, the distance no farther than it: strays never steer |
| `SteadyObjectReported` | what stands in view for a window of revolutions is published, one missed return notwithstanding |
| `PictureSettles` | when the cable holds and the operator lets it scan, the picture ends up agreeing with the world |

### Assurance

Models `novelty/`: the state machine and its table, the node that drives it, landing
zones, recipient authentication, the watch on people moving.

| In the code | In the module |
|---|---|
| `TRANSITIONS`, `advance`, `check_timeout` | `Transitions`, `Row`, `Advance`, `CheckTimeout`, `StateWaits` |
| entry actions, run until the state rests | `Enter`, `Rest`, `CommandOf`, `Widened` |
| `DeliveryNode.step`, one handler per state | `Perceive` and `StepSearchingPerson` ... `StepTerminal` |
| `score_candidates` | `SafeComponents`, `StandsFor` (which cell stands for a component), `Better`, `ScoreCandidates` (a set: the order is by `Better`) |
| `MotionMonitor` | `TrackOf`, `Associated`, `UpdateTracks`, `VelocityAbort`, `ZoneIntrusion` |
| `disambiguate_recipients`, `DualFactorAuthenticator.evaluate` | `Likelihood` (position and range add up), `StandsOut`, `DisambiguateRecipients`; `Evaluate`, `Window`, `WindowEnds` |
| camera, BLE receiver, segmentation, FC | `CameraFrame`, `BleEvent`, `TerrainMap`, `Fly` |

Abstracted: the ground is a line of cells, three altitudes, a timer is off, on or over its
limit. Of stamps the model keeps what lies between two: how much newer the BLE event is than
the view (`skew`) and the view than a track (`gap`), up to `MaxGap`, beyond which nothing is in
time and nobody fast; so frames, events and maps come without end. `MaxTracks` bounds
the people followed.

The messages are stored by the publishers' threads, also while a step runs.
`_step_authenticating` reads the BLE event twice, to tell the people in view apart and to weigh
the two channels, and another may have come between: `StepAuthenticating` takes the second from
`BleArrives`. The other handlers read each message once. Own position and yaw are
taken to be the same in both reads; only the altitude of the descent is looked at, as in the code,
not whether the aircraft is above the zone.

| Property | Says |
|---|---|
| `ReleaseIsWitnessed` | the parcel is released once, when the descent to a scored zone has come to the hover height, with a person in view and an authenticated phone at places that agree; nobody else was as likely by the event read to tell people apart |
| `EndsByGoingHome` | an attempt is over exactly when the last flight command is to go home |
| `CalmAttemptsEnd` | when the view settles on nobody or on the recipient alone, who was not last seen moving fast, the attempt ends |

### Recorder

Models `gcs/recorder.py` with its callers in `gcs/hub.py`. Two threads call it ("hub",
"op"), one encoder runs per job; a step ends where a thread gives up the recorder's lock.

| In the code | In the module |
|---|---|
| `start`, in its two holds of the lock | `StartChecks`, `StartBegins` |
| `stop` | `StopTakes`, `StopRefused`, `StopKeeps`, `StopDiscards`, `StopWrites`, `Returns` |
| `_encode_and_promote` and its stages | `EncodeBegins`, `NextStage`, `QuickReturns`, `RenderReturns`, `StreamReturns`, `PromoteQuick`, `MarkQuickDone`, `Promote`, `RetireJob`, `DropSource`, `Defer`, `Salvage`, `Leaves` |
| `set_armed`, `_maybe_render_pending` | `SetArmed`, `MaybeRenderPending` |
| `_on_armed`, `_flight_end_tick`, the operator's buttons | `OnArmed`, `Repeats`, `FlightEnds`, `RecordStart`, `RecordStop` |
| `_load_clip`, `_sweep_orphans`, `_recover` in the next process | `Crash` |

The encoders share one temporary file, `latest.tmp.mp4`, as in the code. `tmp` is the set of
recordings whose processes wrote what is there: a process that starts truncates what a
finished one left and writes over one that still runs; an encoder removes the file when it is
preempted, fails or finds a newer clip, whoever wrote it; and one that has ended promotes what
it finds there. `whole` says whether the clip was written by its own recording's render
alone. Without the file, the promotion fails where its size is asked for.

Abstracted: a recording has the two frames it needs or not; posters, progress and trimming.
The code names a recording's files by the second of the wall clock and orders recordings by a
number. The module has the number for both: it assumes that no recording begins in a second
that, as the clock shows it, names files still there. (A recording that is kept lasted longer
than a second or flew; a clock that steps back by exactly as much as lies between two
recordings is left out.)

History variable: `finished`, the newest recording with frames that `stop` decided to keep,
until an encoder gives it or a newer one up (its frames are then put aside for a person to
encode), or promotes for it a file that another had written as well or instead. Bounds:
`MaxStarts`, `MaxCrashes`, `MaxFaults`. `SlowWriter` lets another recording start while
`stop` still joins the writer of the last; the run and the theorem have it FALSE, and
section 5 shows what happens when it is TRUE.

| Property | Says |
|---|---|
| `NewestSurvives` | a recording that was kept, or a newer one, can at any moment still be watched, or rendered after a crash; a clip counts when its own render alone wrote it. Excepted is what an encoder gave up or promoted a shared file for |
| `OwedIsSettled` | when the aircraft stays disarmed whatever is owed comes to its end |

### Avoidance

Models how the navigator flies a leg past obstacles: `CollisionAvoider`, `_do_navigate`,
`_do_avoid`, `_steer_step`, `_dodge_step`, the yaw gate, against an FC whose mode
is known from heartbeats only. It refines a choice of `Navigation` ("an obstacle is
close") into the code that makes it; it does not repeat the other phases.

| In the code | In the module |
|---|---|
| `evaluate`, `_avoid_decision`, `sectors`, `dodge` | `Close`, `Nearing`, `Decision`, `LastStops`, `Side`, `ReactiveSide` |
| `build_histogram`, `valleys`, `choose_heading` | `Blocked`, `Valleys`, `Candidates`, `Cost`, `ChooseHeading` |
| `steer_authority`, `slew_*`, `_steer_step` | `Authority`, `Slew`, `SteerStep` |
| `_dodge_step` | `Latched`, `Course`, `GivesUp`, `Earned`, `DodgeStep` |
| `_do_navigate`, one branch each | `NavigateStops`, `NavigateEnds`, `NavigateReaches`, `NavigateUnbrakes`, `NavigateTurns`, `NavigateSteers`, `NavigateLingers`, `NavigateFlies` |
| `_do_avoid` | `AvoidDodges`, `AvoidReleases` |
| `_send`, `_set_mode`, `_ensure_guided` | `Ask`, `Setpoint`; a mode command is dropped when the mode is already reported, and when the last one recorded, sent or so dropped, was the same and is younger than `ResendTicks`; a setpoint is discarded in BRAKE |
| the operator's settings, world, FC | `Enable`, `SetStopDistance`; `Scan`, `Gust`; `Fly`, `Heartbeat`, `SetpointExpires` |

Abstracted: bearings are bins on a ring, speeds their signs, time is counted in ticks.
`entered`, `lost` and `against` (how long the aircraft has advanced although BRAKE is shown) are
history variables. Bounds: `LegLength`, `MaxLateral`, `Changes` (of the scene, of the bearing,
presses).

| Property | Says |
|---|---|
| `BrakeShownHolds` | while the operator is shown BRAKE the aircraft does not advance, however late its mode is reported, unless the pacing holds the brake back for an earlier one that is not `mode_resend_interval_s` old: BRAKE dropped on a late report, GUIDED reported, the path clear, the goto flown, and an obstacle again; so never longer than that interval |
| `DodgeStaysNear` | a dodge ends before the aircraft is farther off its origin than the bound and one tick's move |
| `MissionGoesOn` | once the path stays clear the rest of the leg is flown, unless the goto was sent into BRAKE |

`TypeOK` of `Sensing`, `Stack`, `Recorder` and `Avoidance` documents the values of the variables
and is checked by no run kept here: what it would catch, the properties above do. Those of
`Recorder`, which says among other things that recordings are numbered within the bounds, and of
`Sensing` are proved.

### The MC modules

The instances: modes and plans, orders and buttons, and the worlds of the runs below. `NavPi`: person scan on, a turn onto home, the return
flown by the Pi as one more waypoint, RTL. `NavFc`: the FC flies SMART_RTL, both turns
before the return, every failsafe. `DelHand`: three orders (one too far, one in reach,
one injected), acceptance by hand, every service but reset and auto-accept. `DelAuto`: one order, automatic acceptance, every
button.

### The proof modules

`AvoidanceProofs`, `HandshakeProofs`, `StackProofs`, `AssuranceProofs`, `DeliveryProofs`,
`RecorderProofs` and `SensingProofs` each extend the module they are about and hold nothing
but its inductive invariants, lemmas and theorems. `NavigationProofs` extends
`NavigationFlight`: its lemmas about one step of the navigator serve both the invariants and
the refinement.

See section 6.

## 4. The runs

| Run | Result | Bounds | Shows |
|---|---|---|---|
| `NavPi` | holds, 1.79 M states | a waypoint and a drop, 3 orders, 1 disturbance; scan on, a turn onto home, the Pi flies the return, RTL | every return is commanded or about to be, the hold's gate and result are its own, the loop stands down, the navigator implements `Flight` |
| `NavFc` | holds, 2.21 M states | plan of one drop, 2 orders, 2 disturbances; FC-flown SMART_RTL, both turns, every failsafe | every return is commanded or about to be; landings, turns and drops |
| `DelHand` | holds, 2.39 M states | 3 orders, 2 presses of any button but reset and auto-accept, 1 mishap | two deliveries do not mix |
| `DelAuto` | holds, 0.54 M states | 1 order, 1 press, 1 mishap, fair | one delivery at a time, closed once, and closed in the end |
| `Handshake` | holds, 268 k states | 2 orders, streak of 2, 1 drop, 1 kill, 1 failed call, fair | sessions, answers and drops belong to the right phone; the peripheral follows the flight |
| `Stack` | holds, 656 k states | 1 death, 1 crash, 2 commands (one an upload), 1 link loss, fair | one live instance, commands in the order told, stops and restarts end, a lost link is known |
| `Sensing` | holds, 305 k states | 6 bins, 3 ranges, 3 disturbances, a memory of 9 revolutions, fair | strays never steer, what stands is reported, the picture settles |
| `Assurance` | holds, 333 k states | 5 cells, 2 changing terrains, 3 views, 3 signals, stamps equal or apart, 2 tracks, fair | releases are witnessed, attempts end at home |
| `Recorder` | holds, 1.30 M states | 2 recordings, 1 crash, 1 failing encoder, fair | the newest flight survives, the owed is settled |
| `Avoidance` | holds, 622 k states | 5 bearings, 4 scenes, 1 waypoint, leg of 2, 2 changes, pacing of 4 ticks, fair | braking holds, dodges are bounded, the mission goes on |
| `DelLocks` | `NoLockCycle` violated | no press, no mishap | finding 1 |
| `AvoidWanders` | `EncounterStaysNear` violated | as `Avoidance` | finding 2 |

Bounds of the navigator. `MaxOrders` counts calls of `set_delivery_target` and
`start_mission`: two let one plan be flown, three let it be flown again (or
replaced), so that what one flight leaves behind meets the next. One or two
disturbances suffice for a takeover between any two steps of the handshake's thread,
for a failsafe inside a turn and for an abort followed by a button. Between
disturbances the loop runs freely, so every interleaving of it with the FC's
late, refused and unanswered requests is explored. The proofs remove the bounds
for the properties they cover.

Bounds of the delivery node. Two presses are two deliveries accepted (or offered by
injection and accepted), the fewest for one's evidence, plan or verdict to be taken for
the other's; the third order is one the node turns down. One mishap is one failure at any
point, also between the steps of a service. With automatic acceptance one order is
flown over and over as long as the book offers it, without any press.

Bounds of the others. *Handshake*: two orders are the fewest for one to be swapped under
the other's session; nonces, signatures, readings and the watch are unbounded, so one
drop, one kill and one failed call fall between any of their steps. *Stack*: a death
needs a second instance, which may crash in turn; two commands are the fewest that can
overtake, and both may be in the middle of their publication; a link may come back and fail no more. *Sensing*: three disturbances are a
thing's arrival, and two of: a stray or a missed return, a cable or a pause, its leaving;
the windows (gate 3, hits 3, misses 3, coast 3 revolutions) are passed many times
over; a memory of 9 is the gate, the frames of a sector and a revolution for each
disturbance. *Assurance*: any number of frames, events, maps, steps and timeouts, in any order, made at
the same time or not; a person who walks on between frames or stands, another one beside;
two zones with bad ground between them, or no ground at all.
*Recorder*: with two recordings an encoder of one meets the start, the stop, the promotion,
the shared temporary file and the crash of the other. *Avoidance*: an obstacle far ahead, one closing
in, and a wall that is a dead end up close, any of them there at the start and changed twice at any
moment; the heartbeat may be any number of ticks late, and the pacing is long enough (4
ticks) for a brake to be held back for one recorded in the encounter before.

Deadlock is not checked: when the disturbances or presses are spent and the aircraft is
on the ground the models may stop, as the program may idle; and `DelLocks` shows a
real deadlock as a violation of a property of its own.

Fairness, and why the code justifies it.

- *Navigation*: safety only, none assumed.
- *Delivery* (`FairSpec`): the node's loop goes on (`Loop` and `Work("node")`: a thread that
  sleeps between ticks and is restarted if it dies), a service that was called goes on
  (its thread is in the middle of a call), and a navigator that is publishing
  goes on when the lock it waits for is free. Nothing is assumed of the aircraft, the
  pilot, the operator, the customers or the order book. `EndedIsClosed` holds in spite of
  the deadlock of finding 1 only because that one needs a navigator that publishes while
  the loop plans or starts, when no delivery is active yet.
- *Handshake*: `Boot` (systemd starts the process again), the order watch (a task of the
  running process) and the expiry of its failures (a clock). Nothing of phones, customers
  or finalizers.
- *Stack*: every thread is scheduled, the dispatch of LINK returns, the watchdog's loop runs, `stop`
  finishes its loop, the heartbeat gets old (a clock). The radio is free, and
  the publishers of commands.
- *Sensing*: revolutions come while the port answers, threads keep stepping. The operator,
  the cable and the world are free.
- *Assurance*: the node steps, timers run out, the FC flies what it was told. Camera,
  segmentation and phone may fall silent, or never.
- *Recorder*: that one thread moves while one can; an encoder's process ends because it has
  a deadline; heartbeats, and with them `set_armed`, go on.
- *Avoidance*: loop and aircraft alternate, the heartbeat comes.

## 5. Findings

Each is a disagreement between what the repository says and what the code does, with a
counterexample TLC finds.

1. *The two locks are taken in both orders* (`DelLocks`, `firebase_delivery_node.py` line
   400). With automatic acceptance the poll calls `_accept` under the node's
   lock, and that calls the navigator's services; the navigator, publishing under
   its own lock, waits for the node's. Two comments in the file explain why this
   must not happen.
2. *A dodge that gave up is begun again* (`AvoidWanders`, `navigation_node.py` line 3088).
   `config/real.yaml` says of the bound on leaving the track that past it the aircraft "stops,
   waits for the path to clear". Giving up clears the dodge's origin; the next tick of the
   same encounter latches a new one where the aircraft stands.

Others are stated as properties beside the ones that hold, each with the sentence it
quotes, and kept out of the runs: put the property into a cfg of its module, and TLC
shows the counterexample. (`NewestSurvives` is a property that holds where the run and the
theorem state it; the row says where it does not.)

| Property | Module, cfg | What happens |
|---|---|---|
| `StandsDown` | Navigation, `NavPi.cfg` | the handshake's callback reads the override under the lock and enters the return after giving it back: a takeover between the two is followed by phase RTL and a mode request |
| `HandedBackByOperator` | Navigation, `NavPi.cfg` with 2 disturbances | a start accepted before a takeover is consumed after an abort to the ground, and clears the override |
| `VoidMeansUnsent` | Navigation, `NavFc.cfg` | "nothing commanded yet" (line 4045): a tick between the thread's start of the about-face (4026) and its target (4042) ends the turn and sends the return; the thread then wipes the request. The return flies, but the SMART_RTL fallback and the landing at home, which ask for a request, do not happen |
| `CriticalBatteryLands` | Navigation, `NavFc.cfg` | the battery's check skips phase LAND, so the tick after it commanded the landing the altitude hardlock brakes |
| `CreditsItsOwn` | Delivery, `DelHand.cfg` with buttons select, inject, reset and 3 presses | a reset after the loop has read the active order lets another be selected and shown before the first is closed, which is then credited with the other's handshake |
| `EvidenceOfThisFlight` | Delivery, as above | the same reset: a look taken at one flight is weighed when the next order has been taken |
| `PredatingOrdersWait` | Delivery, `DelAuto.cfg` with order 1 also in `OldOrders` | the first poll, on which the snapshot of old orders rests, returns an empty list when it fails; the second sees old orders as new |
| `ClosedIsNotLaunched` | Delivery, `DelHand.cfg` | `start_mission` leaves a request; a look at the navigator before it is consumed takes it for a refused arming and cancels an order that is then flown |
| `ExpiresTheDelivered` | Handshake, `Handshake.cfg` | the finalizer retires the order file by its path: after a swap, the next order's |
| `TokenIsSpentOnce` | Handshake, `Handshake.cfg` with 2 drops | killed between the drop and the expiry, the peripheral serves the order again; or the drop is repeated |
| `MissionResolves` | Assurance, `Assurance.cfg` | PERSON_FOUND times out into SEARCHING_PERSON, which finds the same ambiguous view again, without a count; or a recipient who walks, or was lost from view walking, aborts every descent, and the zones, scored anew, are never used up (lines 318-320, 410-417): hence the premise of `CalmAttemptsEnd` |
| `RetiredForItsClip` | Recorder, `Recorder.cfg` | the encoders of two recordings run at once when one was started before the other's preemption was noticed, or the plain encode, which nothing preempts, is under way: the first to end promotes the file both wrote as its clip, removes its job and its frames, and the other's process or its next stage fails without the file. Both may be lost: hence the exception in `NewestSurvives`, which is violated without it |
| `BenchNeverReplaces` | Recorder, `Recorder.cfg` | what a crash cut off is recovered and rendered whether or not it flew or was long enough |
| `NewestSurvives` | Recorder, `Recorder.cfg` with `SlowWriter = TRUE`, 3 starts, no crash, no failing encoder | `stop` joins the writer outside the lock, for up to 10 s, and then reads the recorder's count of frames, by now that of the recording started meanwhile (`recorder.py` lines 716-717): an empty recording is kept on the newer one's count, throws the owed one before it away, and the newer one is then discarded |
| `ClearPathIsFlown` | Avoidance, `Avoidance.cfg` | a goto sent while GUIDED is still reported but the FC has stopped in BRAKE is discarded, and not sent again: hence the premise of `MissionGoesOn` |

## 6. What is proved

`NavigationProofs`, for every value of the constants allowed by `ConfigAssumption` and
`PlansAssumption`: any set of modes, any set of plans of any length, any bounds, any
configuration of router, turns, scan and failsafes.

| Theorem | Statement |
|---|---|
| `Typing` | `Spec => []TypeOK` |
| `ReturnsAreAsked` | `Spec => []ReturnAsked` |
| `ResultsBelong` | `Spec => []ResultBelongsToHold` |
| `HandshakeGated` | `Spec => []HandshakeGate` |
| `StandsDownUnderOverride` | `Spec => LoopStandsDown` |
| `LandingsHold` | `Spec => LandingHolds` |
| `LandsAfterTheTurn` | `Spec => NoLandingMidTurn` |
| `DropsTakeAHold` | `Spec => DropTakesAHold` |
| `ImplementsFlight` | `Spec => Flies`: `Navigation` implements `Flight` |

Argument. `NavInv` is the inductive invariant: `CoreOK`, which is about what a context
carries (types of phase, plan, index, link and return, with `ReturnAsked`), and `RestOK`
(flags, names and bounds): with the types `ReturnAsked` is inductive, because it names the steps
of the handshake's thread from which a return is still sent. Each helper on contexts has a lemma saying
what it keeps (`Commanded` for mode requests, `Owned` for the entrances of the return,
`PartsOfTheReturn` for the pieces `_commit_rtl` and the thread share, `Sound` and `Kept` for all
of them together), so the proof that an action preserves the invariant is a chain of
lemma citations along the chain of calls in the code; `UnlockedKeeps` says it of one write of
the thread.

`HoldInv` adds what the hold needs: `ResultBelongsToHold`; that a hold is never in
progress under the override; and that a scan in stage `locked` has a lock in its
`episode`. It needs `NavInv` (the types) and one lemma, that only `EnterHover` enters
phase HOVER. `StandsDownUnderOverride` follows from the guards: every action of
the loop but `StartTick` requires `~override`; `StartTick`, an operator's start, ends
the override, and the property is about steps that begin and end under it.

The last four are about what one step does to phase, plan and place. `LoopMoves` says it of a
tick of the loop, as a diagram of the phases with the condition on each edge (`Diagram`), and
`StartTickMoves`, `OperatorMoves`, `EarlyReturnMoves` and `ReportsMove` of the others. Each
rests on a lemma per phase (`NavigateMoves`, `HoverMoves`, `ReturnMoves`, ...), and those on
what the helpers do to the same three fields (`PlacedCommands` to `PlacedReturn`). The
properties are then read off the edges: into LAND without a failsafe there is one, from a
return that was requested with no turn pending; out of LAND one, on a disarmed aircraft; past
a drop two, out of a hold that is running (`HoverDone`, a scan that ends) or was taken away
(`HoverSkip`). That the second happens only after a new plan is `HoverHeld`, an invariant of its
own: in phase HOVER the hold runs or was replaced. So is the refinement: every edge is a step of `Flight` or joins two
phases `Flight` does not tell apart. The edges' conditions need `NavInv`, so the step simulation
is proved under it.

`AvoidanceProofs`, for every value of the constants allowed by `AvoidanceAssumption`: any ring
of bearings, any scenes, distances, rates and timeouts, any number of waypoints and
changes.

| Theorem | Statement |
|---|---|
| `BrakeShown` | `Spec => []BrakeShownHolds` |
| `DodgeNearItsOrigin` | `Spec => []DodgeStaysNear` |

`BrakeShownHolds` is not inductive: a tick that finds BRAKE already reported sends no
brake, so it needs `BrakeReported` (an aircraft reported in BRAKE is in BRAKE or has been
given no motion since), `HeldYoung` (the brake for which a tick held another back was young
then, so that the next is due in time), and that distances and ages are numbers (`Placed`, `Ages`),
which together are `AvoidInv`. The core of the argument is `NothingEarned`: the brake distance a
sidestep compares with is that of an obstacle inside it, so it never goes forward.
`DodgeStaysNear` counts the move of one tick; inductive is `DodgeInv`, the bound before and
after it according to whose turn it is, with the fact that a dodge is under way only
in AVOID, where nothing else moves the origin of what is measured, and that no command
makes the aircraft drift faster than one bound per tick.

`DeliveryProofs`, for every set of orders, book, buttons, presses and mishaps allowed by
`OrdersAssumption`; some theorems under `OneWay`, that orders are accepted in one way:

- `HandOnly`: by hand, and the services reset and auto-accept are not used; or
- `AutoOnly`: by polls, and the services accept, select, inject and reset are not used
  (refresh, reject, abort and auto-accept may be).

| Theorem | Statement | Under |
|---|---|---|
| `TypesHold` | `Spec => []TypeOK` | |
| `OneDelivery` | `Spec => []OneAtATime` | |
| `VerdictsStand` | `Spec => VerdictStands` | |
| `PlanIsTheOrders` | `Spec => []FliesTheActiveOrder` | `OneWay` |
| `EvidenceIsTheFlights` | `Spec => []EvidenceOfThisFlight` | `OneWay` |
| `DeliveriesAreCredited` | `Spec => []DeliveredOnHandshake` | `OneWay` |
| `ClosedOnItsOwn` | `Spec => []CreditsItsOwn` | `OneWay` |

None of the properties is inductive: each is about what one thread does with an order it
read some steps ago.

The first three hold in every configuration, resets and both ways of accepting at once
included. For the types the strengthening is `Employed`, that a thread in the middle of
something holds an order: a step that plans, flies or closes writes that order's entry. For the
other two it is `Single`: an active order has no verdict (`Pristine`), nor has the one the
loop follows (`Unclosed`). Only `Take` makes an order active, and it forgets what is on offer and
the last verdict in the same section; so even when two threads accept at once, and
the loop goes on with an order that is not the active one any more, it closes no order twice.

The other four are about who works on what.

- By hand (`DelInv`): while the loop follows an order it is the active one (`Followed`), and
  while an order is active the ground station's thread is not in the middle of another's
  acceptance (`Alone`), because every service that offers or accepts asks for it under the
  lock and only the loop ends it. On that rests what is true of the order (`Truthful`): the plan
  it is about to start is its own (`Loaded`), what is shown while it is closed is it
  (`Shown`), and the loop's look and the evidence are of a flight since its start (`Evident`).
- By polls (`AutoInv`): whoever accepts, the loop or refresh, has the lock from the offer
  until the order is the active one, and none is active meanwhile (`Exclusive`); so the plan
  loaded is still its own when the start is asked for (`Ready`), and while the loop follows an
  order nobody starts a mission, which would forget that the aircraft flew (`Flown`).

A reset breaks `Followed`, both ways at once `Alone` and `Exclusive`: `FliesTheActiveOrder` and
`EvidenceOfThisFlight` are then refuted, with automatic
acceptance, two orders, the button accept and one mishap, `CreditsItsOwn` with two mishaps.

`HandshakeProofs`, for every value of the constants: any orders, streak, drops, kills and
failed calls.

| Theorem | Statement |
|---|---|
| `SessionIsTheOrders` | `Spec => []SessionBelongsToOrder` |
| `AnswersAreEarned` | `Spec => []AnswerIsEarned` |
| `DropsNeedPresence` | `Spec => DropNeedsPresence` |
| `TypesHold` | `Spec => []TypeOK` |

`HandshakeInv` is `SessionBelongsToOrder` and `AnswerIsEarned` with two facts about
readings: the code's list of accepted readings is as long as the history's streak
(`Counted`), and a verified session has a full streak whose last reading was near
(`VerifiedNear`). The swap of an order under a session, the repeated nonce and the boot all
pass through `FreshSession`, which empties what the four parts speak of. `TypesHold` bounds the
drops counted and the finalizers started; it needs `CountedByThreads`, that no order has more
drops than there are finalizers, because a kill ends finalizers and forgets no drop.

`StackProofs`, for every number of instances, deaths, crashes, commands and losses.

| Theorem | Statement |
|---|---|
| `OneThreadPerNode` | `Spec => []OneLiveInstance` |
| `CommandsKeepOrder` | `Spec => []CommandsInOrder` |

`StackInv` adds what the supervisor's list says of threads: every instance has one state
(`Threaded`), a live thread is the one the list holds (`ListedLives`), and none is
alive while the watchdog is between building an instance and putting it in the list
(`VacantWhileReplacing`). The last is what a watchdog that stopped looking at `is_alive`
would break.

`CommandsKeepOrder` needs all of it. A command may be late for another only if it was told
before the other was issued (`Late`), so what is appended to a queue, a command still being
told, is late for nothing there: everything queued or received is told (`AllTold`). `OrderInv`
says so not only of what the FC received but of every instance's queue, and of what was
received against the queue of the instance that serves (`Ordered`): two live instances would
interleave their queues. A rebuilt instance starts with an empty queue and no subscription
(`Unborn`), and only one is ever between being built and being listed (`OneBuilt`), so nothing
its predecessor sent is queued for it again.

`AssuranceProofs`, for every ground, view, signal and number of tracks.

| Theorem | Statement |
|---|---|
| `AttemptsEndAtHome` | `Spec => []EndsByGoingHome` |
| `ReleasesAreWitnessed` | `Spec => ReleaseIsWitnessed` |
| `TypesHold` | `Spec => []TypeOK` |

The first is inductive as it stands. No row of the table leaves a terminal state, so every entry is
made from a running state, whose last command was not to go home; and of a chain of entries
the action of the state that rests, and no other, decides what is sent.

`ReleasesAreWitnessed` is about the step that releases, but what it demands was decided up to
five states earlier: the zone was scored in SEARCHING_ZONE, the height reached in DESCENDING.
`Course` carries it: in the descent the last command is the goto to a zone large enough, from
AUTHENTICATING on the aircraft is at the hover height, and before RELEASING nothing was
released. It rests on three lemmas about the algorithms, for every ground and view: what
`ScoreCandidates` returns are zones large enough, no more than the limit (`ScoredZones`: components are disjoint, so each has
one cell that stands for it), a recipient that `DisambiguateRecipients` names stands out from
everyone else in view by the event given (`DisambiguatedStandsOut`), and an authentication that
succeeds has both channels' places in agreement (`AuthenticatedIsWitnessed`), by an event that
need not be the same. `TypesHold` follows from the same
invariant.

`RecorderProofs`, for any number of recordings, crashes, failing encoders and disk writes, with
or without the quick clip.

| Theorem | Statement |
|---|---|
| `TypesHold` | `Spec => []TypeOK` |
| `TheNewestIsKept` | `~SlowWriter => (Spec => []NewestSurvives)` |

`Book` is what makes `TypeOK` inductive. Numbers are handed out within the bound because whatever is
about to take one has been counted: a call of `start`, or the crash after which an armed
aircraft is seen arming once more (`Numbered`). A recording is in one pair of hands at a time
(`Handed`): the writer's, one call's that finalises, writes its job or begins its render, or
its encoder's; and no encoder works on what is owed. That the count of busy encoders is the
number of encoders that have begun, which `TypeOK` states, needs this.

`NewestSurvives` is not inductive either. `Footage` adds why each of the places that delete
may: `stop` works on the newest number while it finalises (`Joined`: with it, the count of
frames it reads is its own), every job has its frames and a quick clip is in place
(`Framed`), an encoder that retires a job leaves a clip at least as new unless the job is below the
floor (`Clipped`), and the floor is never above the newest recording kept (`FloorKept`). A clip at least as new as
what was kept was written by its own render alone (`Watchable`): promoting any other one ends
the claim, and when `stop` keeps a recording it is newer than the clip (`Ahead`).
`Survives` strengthens the property itself: the frames that survive are not those of a recording in
progress or being finalised, which an empty hand may still discard. The hypothesis
`~SlowWriter` is that a writer ends before the next recording begins, as it does unless the
disk stalls; without it `Joined` fails and so does the property (section 5).

`SensingProofs`, for any ring, ranges, windows, things, specks, lengths of memory and number of
disturbances allowed by `SensingAssumption`.

| Theorem | Statement |
|---|---|
| `TypesHold` | `Spec => []TypeOK` |
| `StraysNeverSteer` | `Tuned => (Spec => []OnlyObjectsSteer)` |

`Tuned` is how the sensing is set up. What the configuration decides: the gate keeps two
revolutions or more and asks two of them to agree (`filter_depth` 3 and `filter_min_support` 2;
`tests/test_scan_filter.py` line 256 holds every configuration to the latter), a cluster that is
published at once and a sector that reports have two points or more (`min_points` 3 and 2), and
the gate's bearing tolerance reaches a neighbouring bin (3). What it assumes of the world is
what the gate was built against: that strays are rarer than the gate is deep. And `Memory`, which
only says what "the newest revolutions" are, has to reach back over the gate and what is kept
behind it: a coasting track (`Depth + Coast + 1`) and a frame of the sector filter
(`Depth + SectorDepth` and one revolution for every event that may have let one pass).
The run `Sensing` is an instance of it.

`OnlyObjectsSteer` speaks of what is published, and every stage before it keeps windows of its own,
so `Inv` follows a return down the chain. `Gated`: a revolution differs from what stood in at
most one bin, at most one of the gate's revolutions has strayed, and it is at least `quiet`
revolutions old. `Published`: so what passes the full gate is near something that stood in it.
A stray that asks for support finds at most one more among the gate's revolutions, and that the
oldest: of two that support it one is clean, and so is the newest, on which a fast approach
rests (`SupportedStood`). Until the gate is full a scan is published as it came, and a
stray with it. Then a dense cluster has a second point that stood (`ConfirmedStood`), a sector has
one at most as far (`SectorStood`), and a sparse cluster needs a track, of which `Followed` says
that it is at a place where something stood, as long as no stray has been followed. `Held` counts back from
what a track may still coast for, `Framed` from every frame of the sector filter, how many
revolutions may have been read since; that the count stays within `Memory` is where the coast, the
depth of the frames and the budget of late consumers enter. In those first revolutions a stray may draw a
sector's distance out (a nearer point and the stray are its two points, and the farther is
reported), never in; hence the condition `Len(recent) = Memory` on the far bound, without which TLC
finds just that.

`SteadyObjectReported` has no such proof. It is a statement about the tuning: for which things and
windows a missed return is bridged depends on the points the thing fills at each range, on where
the blind bins lie and on `Window` against hits, misses and coast. TLC checks it on the
tuning of the run; for all values of the constants it is false.

Only model-checked: `SteadyObjectReported`; all liveness (`EndedIsClosed`, `FollowsTheFlight`,
`AskedNodesEnd`, `DeadNodesReturn`, `LinkLossReaches`, `PictureSettles`, `CalmAttemptsEnd`,
`OwedIsSettled`, `MissionGoesOn`); and the findings. The type invariants of `Stack` and `Avoidance` are in
no run; what the proofs need of them is part of their invariants.
Liveness and `ENABLED` are beyond the prover, as is induction over recursive definitions; no
module declares a recursive operator.

## 7. What is not modelled

- *Navigator*: altitude clamping and the camera's tilt, the orbit and the pauses inside the
  person scan, the `loiter` hover mode no configuration selects, `goto_gps` during a scan,
  the simulator's automatic start, parameters pushed to the FC, telemetry; in `Avoidance`
  speeds other than their signs.
- *Delivery node*: the verdict on the aircraft's return, the listing and history of orders,
  the answer to the mission upload, `require_gps_fix = false`, an injected order that
  reuses a customer's order id, a restart of the process.
- *Handshake*: the RSSI sampler and its probe, follow-me, the bench order's command line.
- *Stack*: counters and health reports, parsing of telemetry, stream rates, the payload
  switch, encoding of commands, the acknowledgements of an upload.
- *Sensing*: velocities, the point cloud, `fusion_node.py` (a numeric blend of positions),
  the serial protocol.
- *Assurance*: the evidence log, geodetic conversion, the radio model behind a range.
- *Recorder*: the frame queue, posters, progress, the timing of frames, the trim after the flight.

Outside them: the components marked `not_modelled` in `PROJECT.json`, with the reason;
those with core logic are in the plan, those that are numeric filtering, image
processing, input/output or a simulator stay out because their state is continuous or
their result enters the models as a free choice.
