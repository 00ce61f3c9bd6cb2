--------------------------------- MODULE Stack ---------------------------------
(***************************************************************************)
(* The runtime every node of the stack lives on, with the two nodes that   *)
(* matter most on it: utils/node.py (the life of a node, the supervisor's  *)
(* watchdog, stop), bus/message_bus.py (latched publication, dispatched    *)
(* outside the lock) and the MAVLink node with its interface               *)
(* (nodes/mavlink_node.py, interfaces/mavlink_interface.py): the command   *)
(* queue and the link's loss and return.                                   *)
(*                                                                         *)
(* A node may be built several times: instance i of node n.  The interface *)
(* is built once and outlives them (launch/bringup.py).  The navigator     *)
(* stands for every node that listens to LINK.  Commands come from several *)
(* threads: the hub's, one per request, the navigator's, the proximity     *)
(* node's.  Each is published here by a thread of its own; one that        *)
(* publishes several issues the next when the last is told.                *)
(*                                                                         *)
(* Abstracted: telemetry other than the heartbeat, what a command says,    *)
(* the payload switch, timers (a timeout may come at any time it could).   *)
(***************************************************************************)
EXTENDS Integers, Sequences

CONSTANTS
    MaxDeaths,      \* bound: threads killed by what "except Exception" lets through
    MaxCrashes,     \* bound: exceptions in on_start or step
    MaxCommands,    \* bound: commands published
    Uploads,        \* those that write a mission to the flight controller
    MaxLosses       \* bound: times the radio link goes down

ASSUME StackAssumption ==
    /\ {MaxDeaths, MaxCrashes, MaxCommands, MaxLosses} \subseteq Nat
    /\ Uploads \subseteq 1..MaxCommands

VARIABLES
    thread,      \* what the thread of each instance is doing
    asked,       \* its _stop_event
    entry,       \* Supervisor._entries: the instance of each node
    dog,         \* the watchdog thread
    stopper,     \* the thread in Supervisor.stop
    subscribed,  \* the bus: instances whose callback is registered
    latched,     \* the bus: the latched LINK message
    publishing,  \* the dispatch of LINK its thread is in the middle of
    telling,     \* the commands in the middle of theirs, with their subscribers
    view,        \* LINK as each instance of the navigator last got it
    queue,       \* _cmd_queue of each instance of the MAVLink node
    connected,   \* RealMavlink._connected
    heard,       \* the last heartbeat is younger than heartbeat_timeout_s
    radio,       \* the link to the flight controller works
    received,    \* the commands the flight controller has got
    issued,      \* the commands whose publication has begun, numbered so
    before,      \* of each command: those that were told when it was issued
    budget       \* what is left of each bound

lives == <<thread, asked, entry>>
bus == <<subscribed, latched, publishing, view, queue>>
link == <<connected, heard>>
commands == <<received, issued, before, telling>>
vars == <<lives, dog, stopper, bus, link, radio, commands, budget>>

Nodes == {"mavlink", "navigator"}
Order == <<"mavlink", "navigator">>          \* the order of _entries
Instances == 1..(MaxDeaths + 1)
Commands == 1..MaxCommands
Links == {"none", "up", "down"}

Idle == [msg |-> "none", to |-> {}]

TypeOK ==
    /\ thread \in [Nodes -> [Instances ->
            {"none", "built", "connect", "step", "flush", "backoff", "died", "ended"}]]
    /\ asked \in [Nodes -> [Instances -> BOOLEAN]]
    /\ entry \in [Nodes -> Instances]
    /\ dog \in [at : {"wait", "check", "replace", "ended"}, on : 1..3,
                latch : Links]
    /\ stopper \in 0..3
    /\ subscribed \in [Nodes -> SUBSET Instances]
    /\ latched \in Links
    /\ publishing \in [msg : Links, to : SUBSET Instances]
    /\ telling \subseteq [msg : Commands, to : SUBSET Instances]
    /\ view \in [Instances -> Links]
    /\ \A i \in Instances : queue[i] \in Seq(Commands)
    /\ {connected, heard, radio} \subseteq BOOLEAN
    /\ received \in Seq(Commands)
    /\ issued \in 0..MaxCommands
    /\ before \in [Commands -> SUBSET Commands]
    /\ budget \in [deaths : 0..MaxDeaths, crashes : 0..MaxCrashes, losses : 0..MaxLosses]

-----------------------------------------------------------------------------
(* What the steps are made of.                                             *)

Spends(what) == budget[what] > 0 /\ budget' = [budget EXCEPT ![what] = @ - 1]
Alive(n, i) == thread[n][i] \in {"connect", "step", "flush", "backoff"}
Goes(n, i, state) == thread' = [thread EXCEPT ![n][i] = state]
Looping(n, i, state) == thread[n][i] = state /\ (n = "mavlink" => publishing = Idle)
\* The next instance to be built.
Unbuilt(n, i) == thread[n][i] = "none" /\ \A j \in 1..(i - 1) : thread[n][j] # "none"

\* MessageBus.publish, the part under the lock: latch unless the topic is an
\* event, and take the subscribers there are now.
PublishLink(msg) == /\ publishing = Idle /\ latched' = msg
                    /\ publishing' = [msg |-> msg, to |-> subscribed["navigator"]]
Told == 1..issued \ {p.msg : p \in telling}

Init ==
    /\ thread = [n \in Nodes |-> [i \in Instances |->
                    IF i > 1 THEN "none" ELSE IF n = "mavlink" THEN "connect" ELSE "step"]]
    /\ asked = [n \in Nodes |-> [i \in Instances |-> FALSE]]
    /\ entry = [n \in Nodes |-> 1]
    /\ dog = [at |-> "wait", on |-> 1, latch |-> "none"]
    /\ stopper = 0
    /\ subscribed = [n \in Nodes |-> {1}]
    /\ latched = "none" /\ publishing = Idle /\ telling = {}
    /\ view = [i \in Instances |-> "none"] /\ queue = [i \in Instances |-> <<>>]
    /\ connected = FALSE /\ heard = FALSE /\ radio = TRUE
    /\ received = <<>> /\ issued = 0
    /\ before = [c \in Commands |-> {}]
    /\ budget = [deaths |-> MaxDeaths, crashes |-> MaxCrashes, losses |-> MaxLosses]

-----------------------------------------------------------------------------
(* The bus: the callbacks run outside the lock.                            *)

Dispatch ==
    /\ publishing # Idle /\ publishing' = Idle
    /\ view' = [i \in Instances |-> IF i \in publishing.to THEN publishing.msg ELSE view[i]]
    /\ UNCHANGED <<lives, dog, stopper, subscribed, latched, queue, link, radio, commands,
                   budget>>

Command ==
    /\ issued < MaxCommands /\ issued' = issued + 1
    /\ telling' = telling \cup {[msg |-> issued', to |-> subscribed["mavlink"]]}
    /\ before' = [before EXCEPT ![issued'] = Told]
    /\ UNCHANGED <<lives, dog, stopper, bus, link, radio, received, budget>>

\* What an instance that has died or ended has queued, nobody reads.
Reads(i) == thread["mavlink"][i] \notin {"died", "ended"}
Drops(n, i) == queue' = [queue EXCEPT ![i] = IF n = "mavlink" THEN <<>> ELSE @]

Tell(p) ==
    /\ telling' = telling \ {p}
    /\ queue' = [i \in Instances |-> IF i \in p.to /\ Reads(i) THEN Append(queue[i], p.msg)
                                     ELSE queue[i]]
    /\ UNCHANGED <<lives, dog, stopper, subscribed, latched, publishing, view, link, radio,
                   received, issued, before, budget>>

-----------------------------------------------------------------------------
(* The interface.                                                          *)

\* The property "connected": the flag is cleared by whoever asks for it when
\* the heartbeat is old.
LinkUp == connected /\ heard

\* connect waits for a heartbeat; a connection that fails is closed.
OpenLink == radio /\ connected' = TRUE /\ heard' = TRUE
CloseLink == connected' = FALSE /\ UNCHANGED heard

\* receive drains and parses what there is; a read that fails clears the flag.
Receive == \/ UNCHANGED link
           \/ ~radio /\ connected' = FALSE /\ UNCHANGED heard

\* What is sent into a dead link is lost; a flag already cleared rejects it.
Send(command) ==
    \/ received' = IF connected /\ radio THEN Append(received, command) ELSE received
    \/ command \in Uploads /\ UNCHANGED received     \* refused, or timed out

\* An upload waits for its answers and throws the heartbeats away meanwhile.
Listens(command) == heard' \in {heard} \cup (IF command \in Uploads THEN {FALSE} ELSE {})

-----------------------------------------------------------------------------
(* The MAVLink node: connect until there is a link, then receive, flush    *)
(* the queue and report, over and over.                                    *)

Mutes == UNCHANGED <<latched, publishing>>

\* Mutant: the failed attempts are logged and not published.
ConnectSilently(i) ==
    /\ Looping("mavlink", i, "connect") /\ ~asked["mavlink"][i]
    /\ \/ LinkUp /\ Goes("mavlink", i, "step") /\ UNCHANGED link /\ Mutes
       \/ ~LinkUp /\ OpenLink /\ PublishLink("up") /\ Goes("mavlink", i, "step")
       \/ ~LinkUp /\ ~radio /\ CloseLink /\ Mutes /\ UNCHANGED thread
    /\ UNCHANGED <<asked, entry, dog, stopper, subscribed, view, queue, radio, commands,
                   budget>>

\* _ensure_connected, called by on_start and by step.
Connect(i) ==
    /\ Looping("mavlink", i, "connect") /\ ~asked["mavlink"][i]
    /\ \/ LinkUp /\ Goes("mavlink", i, "step") /\ UNCHANGED link /\ Mutes
       \/ ~LinkUp /\ OpenLink /\ PublishLink("up") /\ Goes("mavlink", i, "step")
       \/ ~LinkUp /\ ~radio /\ CloseLink /\ PublishLink("down") /\ UNCHANGED thread
    /\ UNCHANGED <<asked, entry, dog, stopper, subscribed, view, queue, radio, commands,
                   budget>>

StepLinkLost(i) ==
    /\ Looping("mavlink", i, "step") /\ ~asked["mavlink"][i]
    /\ ~LinkUp /\ CloseLink
    /\ PublishLink("down") /\ Goes("mavlink", i, "connect")
    /\ UNCHANGED <<asked, entry, dog, stopper, subscribed, view, queue, radio, commands,
                   budget>>

StepReceives(i) ==
    /\ Looping("mavlink", i, "step") /\ ~asked["mavlink"][i]
    /\ LinkUp /\ Receive /\ Goes("mavlink", i, "flush")
    /\ UNCHANGED <<asked, entry, dog, stopper, bus, radio, commands, budget>>

Flush(i) ==
    /\ Looping("mavlink", i, "flush") /\ queue[i] # <<>>
    /\ queue' = [queue EXCEPT ![i] = Tail(@)]
    /\ Send(Head(queue[i])) /\ Listens(Head(queue[i]))
    /\ UNCHANGED <<lives, dog, stopper, subscribed, latched, publishing, view, connected, radio,
                   issued, before, telling, budget>>

Flushed(i) ==
    /\ Looping("mavlink", i, "flush") /\ queue[i] = <<>>
    /\ PublishLink(IF LinkUp THEN "up" ELSE "down")
    /\ connected' = LinkUp /\ Goes("mavlink", i, "step")
    /\ UNCHANGED <<asked, entry, dog, stopper, subscribed, view, queue, heard, radio,
                   commands, budget>>

-----------------------------------------------------------------------------
(* NodeBase.run around them.                                               *)

\* An exception: on_stop closes the interface, then a backoff and on_start again.
Crash(n, i) ==
    /\ Looping(n, i, "connect") \/ Looping(n, i, "step") \/ Looping(n, i, "flush")
    /\ Spends("crashes") /\ Goes(n, i, "backoff")
    /\ connected' = (n # "mavlink" /\ connected)
    /\ UNCHANGED <<asked, entry, dog, stopper, bus, heard, radio, commands>>

Resume(n, i) ==
    /\ thread[n][i] = "backoff" /\ ~asked[n][i]
    /\ Goes(n, i, IF n = "mavlink" THEN "connect" ELSE "step")
    /\ UNCHANGED <<asked, entry, dog, stopper, bus, link, radio, commands, budget>>

\* The thread is gone, its subscriptions and the interface are as they were.
Die(n, i) ==
    /\ Looping(n, i, "step") \/ Looping(n, i, "flush")
    /\ Spends("deaths") /\ Goes(n, i, "died") /\ Drops(n, i)
    /\ UNCHANGED <<asked, entry, dog, stopper, subscribed, latched, publishing, view, link, radio,
                   commands>>

\* Mutant: the connect loop does not look at the stop event.
EndBetweenSteps(n, i) ==
    /\ asked[n][i]
    /\ Looping(n, i, "step") \/ thread[n][i] = "backoff"
    /\ Goes(n, i, "ended") /\ Drops(n, i)
    /\ connected' = (n # "mavlink" /\ connected)
    /\ subscribed' = [subscribed EXCEPT ![n] = @ \ {i}]
    /\ UNCHANGED <<asked, entry, dog, stopper, latched, publishing, view, heard, radio, commands,
                   budget>>

\* A stop is seen between two steps, in the connect loop and in the backoff.
End(n, i) ==
    /\ asked[n][i]
    /\ Looping(n, i, "connect") \/ Looping(n, i, "step") \/ thread[n][i] = "backoff"
    /\ Goes(n, i, "ended") /\ Drops(n, i)
    /\ connected' = (n # "mavlink" /\ connected)
    /\ subscribed' = [subscribed EXCEPT ![n] = @ \ {i}]
    /\ UNCHANGED <<asked, entry, dog, stopper, latched, publishing, view, heard, radio, commands,
                   budget>>

-----------------------------------------------------------------------------
(* The supervisor.                                                         *)

DogWakes ==
    /\ dog.at = "wait"
    /\ dog' = [dog EXCEPT !.at = IF stopper = 0 THEN "check" ELSE "ended", !.on = 1]
    /\ UNCHANGED <<lives, stopper, bus, link, radio, commands, budget>>

\* The node whose turn it is, and the turn of the next one.
Watched == Order[dog.on]
\* Mutant: one round instead of a loop.
NextTurnOnce == [dog EXCEPT !.at = IF dog.on = Len(Order) THEN "ended" ELSE "check",
                            !.on = IF dog.on = Len(Order) THEN 1 ELSE @ + 1]
NextTurn == [dog EXCEPT !.at = IF dog.on = Len(Order) THEN "wait" ELSE "check",
                        !.on = IF dog.on = Len(Order) THEN 1 ELSE @ + 1]
\* Mutant: a node that is not running its loop is taken for dead.
DeadIfNotRunning(n) == thread[n][entry[n]] \notin {"step", "flush"} /\ ~asked[n][entry[n]]
Dead(n) == ~Alive(n, entry[n]) /\ ~asked[n][entry[n]]

DogPasses ==
    /\ dog.at = "check" /\ ~Dead(Watched) /\ dog' = NextTurn
    /\ UNCHANGED <<lives, stopper, bus, link, radio, commands, budget>>

\* Mutant: commands are latched, too.
DogBuildsReplaying ==
    /\ dog.at = "check" /\ Dead(Watched)
    /\ \E i \in Instances :
        /\ Unbuilt(Watched, i) /\ Goes(Watched, i, "built")
        /\ subscribed' = [subscribed EXCEPT ![Watched] = @ \cup {i}]
        /\ queue' = IF issued > 0 THEN [queue EXCEPT ![i] = <<issued>>] ELSE queue
    /\ dog' = [dog EXCEPT !.at = "replace",
                          !.latch = IF Watched = "navigator" THEN latched ELSE "none"]
    /\ UNCHANGED <<asked, entry, stopper, latched, publishing, view, link, radio, commands,
                   budget>>

\* The factory subscribes; commands are not replayed, LINK will be.
DogBuilds ==
    /\ dog.at = "check" /\ Dead(Watched)
    /\ \E i \in Instances :
        /\ Unbuilt(Watched, i) /\ Goes(Watched, i, "built")
        /\ subscribed' = [subscribed EXCEPT ![Watched] = @ \cup {i}]
    /\ dog' = [dog EXCEPT !.at = "replace",
                          !.latch = IF Watched = "navigator" THEN latched ELSE "none"]
    /\ UNCHANGED <<asked, entry, stopper, latched, publishing, view, queue, link, radio,
                   commands, budget>>

\* subscribe delivers what it read under the lock after releasing it; then the
\* new thread is started and takes the place of the old one.
DogReplaces ==
    /\ dog.at = "replace" /\ dog' = [NextTurn EXCEPT !.latch = "none"]
    /\ \E i \in Instances :
        /\ thread[Watched][i] = "built"
        /\ view' = IF dog.latch = "none" THEN view ELSE [view EXCEPT ![i] = dog.latch]
        /\ Goes(Watched, i, IF Watched = "mavlink" THEN "connect" ELSE "step")
        /\ entry' = [entry EXCEPT ![Watched] = i]
    /\ UNCHANGED <<asked, stopper, subscribed, latched, publishing, queue, link, radio,
                   commands, budget>>

\* stop sets the supervisor's event, then asks each entry in turn.
Stop ==
    /\ stopper = 0 /\ stopper' = 1
    /\ UNCHANGED <<lives, dog, bus, link, radio, commands, budget>>

StopAsks ==
    /\ stopper \in DOMAIN Order /\ stopper' = stopper + 1
    /\ LET n == Order[stopper] IN asked' = [asked EXCEPT ![n][entry[n]] = TRUE]
    /\ UNCHANGED <<thread, entry, dog, bus, link, radio, commands, budget>>

-----------------------------------------------------------------------------
(* The radio.  A heartbeat gets old when the link is down or nobody reads. *)

RadioFails == radio /\ Spends("losses") /\ radio' = FALSE
              /\ UNCHANGED <<lives, dog, stopper, bus, link, commands>>
RadioReturns == ~radio /\ radio' = TRUE
                /\ UNCHANGED <<lives, dog, stopper, bus, link, commands, budget>>
HeartbeatAges ==
    /\ heard /\ (~radio \/ \A i \in Instances : thread["mavlink"][i] \notin {"step", "flush"})
    /\ heard' = FALSE
    /\ UNCHANGED <<lives, dog, stopper, bus, connected, radio, commands, budget>>

-----------------------------------------------------------------------------
Mavlink(i) == Connect(i) \/ StepLinkLost(i) \/ StepReceives(i) \/ Flush(i) \/ Flushed(i)
Watchdog == DogWakes \/ DogPasses \/ DogBuilds \/ DogReplaces
Runs(n, i) == Resume(n, i) \/ End(n, i) \/ (n = "mavlink" /\ Mavlink(i))
Fails(n, i) == Crash(n, i) \/ Die(n, i)

Next ==
    \/ \E n \in Nodes, i \in Instances : Runs(n, i) \/ Fails(n, i)
    \/ Command \/ Dispatch \/ \E p \in telling : Tell(p)
    \/ Watchdog \/ Stop \/ StopAsks
    \/ RadioFails \/ RadioReturns \/ HeartbeatAges

\* Every thread of the process is scheduled; time passes.
Spec ==
    /\ Init /\ [][Next]_vars
    /\ \A n \in Nodes : WF_vars(\E i \in Instances : Runs(n, i))
    /\ WF_vars(Dispatch)
    /\ WF_vars(Watchdog) /\ WF_vars(StopAsks) /\ WF_vars(HeartbeatAges)

-----------------------------------------------------------------------------
(* What must hold.                                                         *)

\* The supervisor never has two threads of one node alive: a node in its
\* backoff, or one that is slow, is not taken for a dead one.
OneLiveInstance ==
    \A n \in Nodes : \A i, j \in Instances : Alive(n, i) /\ Alive(n, j) => i = j

\* Through link losses, crashes and rebuilt nodes, the flight controller gets
\* none of the commands twice ("an 'arm' or 'takeoff' spinning the props back up
\* with nobody asking"), and none after one that was issued when it had been
\* published to the end, whichever threads issued them.  Two that are published
\* at the same time may overtake each other.
Late(c) == before[c] \cup {c}
CommandsInOrder == \A i, j \in DOMAIN received : i < j => received[j] \notin Late(received[i])

\* Every node that stop asked has stopped in the end, also out of the connect
\* loop of a dead link and out of a backoff.
AskedNodesEnd ==
    stopper > Len(Order) ~> \A n \in Nodes, i \in Instances :
                                asked[n][i] => thread[n][i] \in {"ended", "died"}

\* A node whose thread died is running again, unless the stack is stopping.
DeadNodesReturn ==
    (\E n \in Nodes : thread[n][entry[n]] = "died")
        ~> (\A n \in Nodes : Alive(n, entry[n])) \/ stopper > 0

\* A link that is lost for good ends up lost in the view of the navigator in
\* charge, whichever of the two nodes crashed or was rebuilt meanwhile.
LinkLossReaches ==
    <>[](~radio /\ stopper = 0) => <>[](view[entry["navigator"]] = "down")
=============================================================================
