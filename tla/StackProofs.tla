------------------------------- MODULE StackProofs -------------------------------
(***************************************************************************)
(* The supervisor never has two threads of one node alive, and no command  *)
(* reaches the FC twice, or after one issued when it had been published to *)
(* the end, for any number of deaths, crashes, commands and link losses.   *)
(*                                                                         *)
(* OneLiveInstance is not inductive: what may live is the instance the     *)
(* supervisor has on its list (ListedLives), and between building another  *)
(* and putting it there nobody does (VacantWhileReplacing).                *)
(* CommandsInOrder needs that of the queues as well: what waits in the one *)
(* queue that is alive is late for nothing received, and both hold only    *)
(* what has been told (Ordered).                                           *)
(***************************************************************************)
EXTENDS Stack, TLAPS

States == {"none", "built", "connect", "step", "flush", "backoff", "died", "ended"}

Threaded == /\ thread \in [Nodes -> [Instances -> States]]
            /\ entry \in [Nodes -> Instances]
            /\ dog = [at |-> dog.at, on |-> dog.on, latch |-> dog.latch] /\ dog.on \in 1..2

ListedLives == \A n \in Nodes : \A i \in Instances : Alive(n, i) => i = entry[n]

VacantWhileReplacing == dog.at = "replace" => \A i \in Instances : ~Alive(Watched, i)

StackInv == Threaded /\ ListedLives /\ VacantWhileReplacing

-----------------------------------------------------------------------------
(* Where a thread goes.                                                    *)

LEMMA OrderNames == Len(Order) = 2 /\ Order[1] = "mavlink" /\ Order[2] = "navigator"
BY DEF Order

LEMMA WatchedIsNode == Threaded => Watched \in Nodes
BY OrderNames DEF Threaded, Watched, Nodes

\* One instance of one node is moved, the others are where they were.
Moved(n, i, state) ==
    /\ thread' \in [Nodes -> [Instances -> States]]
    /\ \A m \in Nodes, j \in Instances :
          thread'[m][j] = IF m = n /\ j = i THEN state ELSE thread[m][j]

LEMMA GoesAlone ==
    ASSUME Threaded, NEW n \in Nodes, NEW i, NEW state \in States, Goes(n, i, state)
    PROVE  Moved(n, i, state)
BY DEF Goes, Threaded, Moved

LEMMA NobodyMoves ==
    ASSUME StackInv, UNCHANGED <<thread, entry, dog>>
    PROVE  StackInv'
BY DEF StackInv, Threaded, ListedLives, VacantWhileReplacing, Alive, Watched

\* A thread that lives goes anywhere: nobody else is alive.
LEMMA LivingMoves ==
    ASSUME StackInv, NEW n \in Nodes, NEW i \in Instances, NEW state,
           Alive(n, i), Moved(n, i, state), UNCHANGED <<entry, dog>>
    PROVE  StackInv'
<1>1. \A m \in Nodes, j \in Instances : Alive(m, j)' => Alive(m, j)
  BY DEF Alive, Moved
<1>2. Watched' = Watched /\ Watched \in Nodes
  BY WatchedIsNode DEF StackInv, Watched
<1> QED BY <1>1, <1>2 DEF StackInv, Threaded, ListedLives, VacantWhileReplacing, Moved

-----------------------------------------------------------------------------
(* The nodes.                                                              *)

LEMMA MavlinkKeeps ==
    ASSUME StackInv, NEW i \in Instances, Mavlink(i)
    PROVE  StackInv'
<1>1. "mavlink" \in Nodes /\ Threaded
  BY DEF Nodes, StackInv
<1>2. CASE UNCHANGED thread
  <2>1. UNCHANGED <<entry, dog>>
    BY DEF Mavlink, Connect, StepLinkLost, StepReceives, Flush, Flushed, lives
  <2> QED BY <1>2, <2>1, NobodyMoves
<1>3. CASE ~UNCHANGED thread
  <2>1. UNCHANGED <<entry, dog>> /\ Alive("mavlink", i)
    BY <1>3 DEF Mavlink, Connect, StepLinkLost, StepReceives, Flush, Flushed, lives, Looping, Alive
  <2>2. PICK state \in States : Goes("mavlink", i, state)
    BY <1>3 DEF Mavlink, Connect, StepLinkLost, StepReceives, Flush, Flushed, lives, States
  <2>3. Moved("mavlink", i, state)
    BY <1>1, <2>2, GoesAlone
  <2> QED BY <1>1, <2>1, <2>3, LivingMoves
<1> QED BY <1>2, <1>3

LEMMA RunsKeep ==
    ASSUME StackInv, NEW n \in Nodes, NEW i \in Instances, Runs(n, i) \/ Fails(n, i)
    PROVE  StackInv'
<1>1. CASE n = "mavlink" /\ Mavlink(i)
  BY <1>1, MavlinkKeeps
<1>2. CASE Resume(n, i) \/ End(n, i) \/ Crash(n, i) \/ Die(n, i)
  <2>1. UNCHANGED <<entry, dog>> /\ Alive(n, i)
    BY <1>2 DEF Resume, End, Crash, Die, Looping, Alive
  <2>2. PICK state \in States : Goes(n, i, state)
    BY <1>2 DEF Resume, End, Crash, Die, States
  <2>3. Moved(n, i, state)
    BY <2>2, GoesAlone DEF StackInv
  <2> QED BY <2>1, <2>3, LivingMoves
<1> QED BY <1>1, <1>2 DEF Runs, Fails

-----------------------------------------------------------------------------
(* The watchdog.                                                           *)

LEMMA NextTurnIsTurn ==
    ASSUME Threaded
    PROVE  /\ NextTurn = [at |-> NextTurn.at, on |-> NextTurn.on, latch |-> dog.latch]
           /\ NextTurn.on \in 1..2 /\ NextTurn.at # "replace"
<1> DEFINE at == IF dog.on = Len(Order) THEN "wait" ELSE "check"
           on == IF dog.on = Len(Order) THEN 1 ELSE dog.on + 1
<1>1. NextTurn = [at |-> at, on |-> on, latch |-> dog.latch]
  <2>1. NextTurn = [dog EXCEPT !.at = at, !.on = on]
    BY DEF NextTurn
  <2>2. dog = [at |-> dog.at, on |-> dog.on, latch |-> dog.latch]
    BY DEF Threaded
  <2> HIDE DEF at, on
  <2> QED BY <2>1, <2>2
<1>2. on \in 1..2 /\ at # "replace"
  BY OrderNames DEF Threaded
<1> QED BY <1>1, <1>2

LEMMA PassesKeep ==
    ASSUME StackInv, DogWakes \/ DogPasses
    PROVE  StackInv'
<1>1. UNCHANGED <<thread, entry>>
  BY DEF DogWakes, DogPasses, lives
<1>2. dog' = [at |-> dog'.at, on |-> dog'.on, latch |-> dog'.latch] /\ dog'.on \in 1..2 /\ dog'.at # "replace"
  <2>1. CASE DogWakes
    <3>1. dog' = [at |-> IF stopper = 0 THEN "check" ELSE "ended", on |-> 1, latch |-> dog.latch]
      BY <2>1 DEF DogWakes, StackInv, Threaded
    <3> QED BY <3>1
  <2>2. CASE DogPasses
    BY <2>2, NextTurnIsTurn DEF DogPasses, StackInv
  <2> QED BY <2>1, <2>2
<1> QED BY <1>1, <1>2 DEF StackInv, Threaded, ListedLives, VacantWhileReplacing, Alive

\* Another instance is built only when the listed one, which alone may live, does not.
LEMMA BuildsKeep ==
    ASSUME StackInv, DogBuilds
    PROVE  StackInv'
<1> DEFINE n == Watched
<1>1. n \in Nodes
  BY WatchedIsNode DEF StackInv
<1>2. PICK i \in Instances : Goes(n, i, "built")
  BY DEF DogBuilds
<1>3. Dead(n) /\ entry' = entry
  BY DEF DogBuilds
<1>4. dog' = [at |-> "replace", on |-> dog.on, latch |-> dog'.latch]
  BY DEF DogBuilds, StackInv, Threaded
<1>5. Watched' = n
  BY <1>4 DEF Watched
<1>6. \A j \in Instances : ~Alive(n, j)
  BY <1>1, <1>3 DEF Dead, StackInv, ListedLives
<1> HIDE DEF n
<1>7. Moved(n, i, "built")
  BY <1>1, <1>2, GoesAlone DEF StackInv, States
<1>8. \A m \in Nodes, j \in Instances : Alive(m, j)' => Alive(m, j)
  BY <1>7 DEF Alive, Moved
<1>9. Threaded'
  BY <1>3, <1>4, <1>7 DEF StackInv, Threaded, Moved
<1>10. VacantWhileReplacing'
  BY <1>1, <1>5, <1>6, <1>8 DEF VacantWhileReplacing
<1> QED BY <1>3, <1>8, <1>9, <1>10 DEF StackInv, ListedLives

\* The new thread is started and listed at once.
LEMMA ReplacesKeep ==
    ASSUME StackInv, DogReplaces
    PROVE  StackInv'
<1> DEFINE n == Watched
<1>1. n \in Nodes
  BY WatchedIsNode DEF StackInv
<1>2. PICK i \in Instances : /\ Goes(n, i, IF n = "mavlink" THEN "connect" ELSE "step")
                             /\ entry' = [entry EXCEPT ![n] = i]
  BY DEF DogReplaces
<1>3. \A j \in Instances : ~Alive(n, j)
  BY DEF DogReplaces, StackInv, VacantWhileReplacing
<1>4. dog' = [NextTurn EXCEPT !.latch = "none"]
  BY DEF DogReplaces
<1>5. dog' = [at |-> dog'.at, on |-> dog'.on, latch |-> dog'.latch] /\ dog'.on \in 1..2 /\ dog'.at # "replace"
  BY <1>4, NextTurnIsTurn DEF StackInv
<1> HIDE DEF n
<1>6. Moved(n, i, IF n = "mavlink" THEN "connect" ELSE "step")
  BY <1>1, <1>2, GoesAlone DEF StackInv, States
<1>7. entry' \in [Nodes -> Instances] /\ entry'[n] = i /\ \A m \in Nodes : m # n => entry'[m] = entry[m]
  BY <1>1, <1>2 DEF StackInv, Threaded
<1>8. ListedLives'
  BY <1>3, <1>6, <1>7 DEF StackInv, ListedLives, Alive, Moved
<1> QED BY <1>5, <1>6, <1>7, <1>8 DEF StackInv, Threaded, VacantWhileReplacing, Moved

-----------------------------------------------------------------------------
(* The rest, and the theorem.                                              *)

LEMMA OthersKeep ==
    ASSUME StackInv,
           \/ Command \/ Dispatch \/ (\E p \in telling : Tell(p)) \/ Stop \/ StopAsks
           \/ RadioFails \/ RadioReturns \/ HeartbeatAges \/ UNCHANGED vars
    PROVE  StackInv'
<1>1. UNCHANGED <<thread, entry, dog>>
  BY DEF Command, Dispatch, Tell, Stop, StopAsks, RadioFails, RadioReturns, HeartbeatAges, vars, lives
<1> QED BY <1>1, NobodyMoves

LEMMA InitIsSound == Init => StackInv
<1> SUFFICES ASSUME Init PROVE StackInv
  OBVIOUS
<1>1. 1 \in Instances /\ \A i \in Instances : i \in Int /\ (i > 1 \/ i = 1)
  BY StackAssumption DEF Instances
<1>2. entry = [n \in Nodes |-> 1] /\ dog = [at |-> "wait", on |-> 1, latch |-> "none"]
  BY DEF Init
<1>3. thread = [n \in Nodes |-> [i \in Instances |->
                  IF i > 1 THEN "none" ELSE IF n = "mavlink" THEN "connect" ELSE "step"]]
  BY DEF Init
<1>4. \A n \in Nodes, i \in Instances : i # 1 => thread[n][i] = "none"
  BY <1>1, <1>3
<1>5. thread \in [Nodes -> [Instances -> States]]
  BY <1>3 DEF States
<1>6. Threaded
  BY <1>1, <1>2, <1>5 DEF Threaded
<1> QED BY <1>2, <1>4, <1>6 DEF StackInv, ListedLives, VacantWhileReplacing, Alive

LEMMA NextIsSound == StackInv /\ [Next]_vars => StackInv'
BY RunsKeep, PassesKeep, BuildsKeep, ReplacesKeep, OthersKeep DEF Next, Watchdog

\* The supervisor never has two threads of one node alive: a node that is slow, in
\* its backoff or connecting is not taken for a dead one (Supervisor._watchdog).
THEOREM OneThreadPerNode == Spec => []OneLiveInstance
<1>1. Spec => []StackInv
  BY InitIsSound, NextIsSound, PTL DEF Spec
<1>2. StackInv => OneLiveInstance
  BY DEF StackInv, ListedLives, OneLiveInstance
<1> QED BY <1>1, <1>2, PTL
-----------------------------------------------------------------------------
(* The order of the commands.  CommandsInOrder is not inductive either:    *)
(* nothing in the queue of the instance that will send next may be late    *)
(* for what has been received, and all that is queued or received has been *)
(* told, so that what is still being told can be late for none of it; an   *)
(* instance yet to be built has nothing.                                   *)

Orderly(s) == \A a, b \in DOMAIN s : a < b => s[b] \notin Late(s[a])
Precedes(s, t) == \A a \in DOMAIN s, b \in DOMAIN t : t[b] \notin Late(s[a])
AllTold(s) == \A a \in DOMAIN s : s[a] \in Told

\* Whoever sends the commands now or is next to do so.
Serving(i) == Alive("mavlink", i) \/ thread["mavlink"][i] = "built"

Queued ==
    /\ issued \in 0..MaxCommands /\ received \in Seq(Nat)
    /\ queue \in [Instances -> Seq(Nat)]
    /\ subscribed = [n \in Nodes |-> subscribed[n]]
    /\ \A p \in telling : p.msg \in 1..issued /\ \A q \in telling : p.msg = q.msg => p = q
    /\ before = [c \in Commands |-> before[c]] /\ \A c \in Commands : before[c] \subseteq Told

Ordered ==
    /\ Orderly(received) /\ AllTold(received)
    /\ \A i \in Instances : /\ Orderly(queue[i]) /\ AllTold(queue[i])
                            /\ Serving(i) => Precedes(received, queue[i])

Unborn ==
    \A i \in Instances : thread["mavlink"][i] = "none" =>
        /\ queue[i] = <<>> /\ i \notin subscribed["mavlink"]
        /\ \A p \in telling : i \notin p.to

\* The instance being built is the only one, and the watchdog is at it.
OneBuilt ==
    \A i \in Instances : thread["mavlink"][i] = "built" =>
        /\ dog.at = "replace" /\ Watched = "mavlink"
        /\ \A j \in Instances : thread["mavlink"][j] = "built" => i = j

OrderInv == StackInv /\ Queued /\ Ordered /\ Unborn /\ OneBuilt

LEMMA BoundIsNumber == MaxCommands \in Nat
BY StackAssumption

\* Sequences.
LEMMA NothingQueued ==
    Orderly(<<>>) /\ AllTold(<<>>) /\ <<>> \in Seq(Nat)
    /\ \A s : Precedes(s, <<>>) /\ Precedes(<<>>, s)
BY DEF Orderly, AllTold, Precedes

LEMMA Appending ==
    ASSUME NEW s \in Seq(Nat), NEW n \in Nat
    PROVE  /\ Append(s, n) \in Seq(Nat)
           /\ \A a \in DOMAIN Append(s, n) : \/ a \in DOMAIN s /\ Append(s, n)[a] = s[a]
                                             \/ Append(s, n)[a] = n
           /\ Orderly(s) /\ (\A a \in DOMAIN s : n \notin Late(s[a])) => Orderly(Append(s, n))
<1>1. /\ Append(s, n) \in Seq(Nat) /\ Len(s) \in Nat
      /\ DOMAIN s = 1..Len(s) /\ DOMAIN Append(s, n) = 1..(Len(s) + 1)
      /\ \A a \in 1..Len(s) : Append(s, n)[a] = s[a]
      /\ Append(s, n)[Len(s) + 1] = n
  OBVIOUS
<1>2. ASSUME Orderly(s), \A a \in DOMAIN s : n \notin Late(s[a])
      PROVE  Orderly(Append(s, n))
  <2> SUFFICES ASSUME NEW a \in DOMAIN Append(s, n), NEW b \in DOMAIN Append(s, n), a < b
               PROVE  Append(s, n)[b] \notin Late(Append(s, n)[a])
    BY DEF Orderly
  <2>1. a \in DOMAIN s /\ Append(s, n)[a] = s[a]
    BY <1>1
  <2>2. CASE b \in DOMAIN s
    BY <1>1, <1>2, <2>1, <2>2 DEF Orderly
  <2>3. CASE b \notin DOMAIN s
    BY <1>1, <1>2, <2>1, <2>3
  <2> QED BY <2>2, <2>3
<1>3. \A a \in DOMAIN Append(s, n) : \/ a \in DOMAIN s /\ Append(s, n)[a] = s[a]
                                     \/ Append(s, n)[a] = n
  BY <1>1
<1> QED BY <1>1, <1>2, <1>3

LEMMA Taking ==
    ASSUME NEW s \in Seq(Nat), s # <<>>, Orderly(s)
    PROVE  /\ Tail(s) \in Seq(Nat) /\ Head(s) \in Nat /\ Head(s) = s[1] /\ 1 \in DOMAIN s
           /\ Orderly(Tail(s))
           /\ \A b \in DOMAIN Tail(s) :
                 Tail(s)[b] \notin Late(Head(s)) /\ b + 1 \in DOMAIN s /\ Tail(s)[b] = s[b + 1]
<1>1. /\ Len(s) \in Nat /\ Len(s) # 0 /\ DOMAIN s = 1..Len(s)
      /\ Tail(s) \in Seq(Nat) /\ DOMAIN Tail(s) = 1..(Len(s) - 1)
      /\ \A b \in 1..(Len(s) - 1) : Tail(s)[b] = s[b + 1]
      /\ Head(s) = s[1] /\ \A a \in 1..Len(s) : s[a] \in Nat
  OBVIOUS
<1>2. \A b \in 1..(Len(s) - 1) : b + 1 \in 1..Len(s) /\ 1 \in 1..Len(s) /\ 1 < b + 1
  BY <1>1
<1>3. \A a, b \in 1..Len(s) : a < b => s[b] \notin Late(s[a])
  BY <1>1 DEF Orderly
<1>4. \A b \in 1..(Len(s) - 1) : Tail(s)[b] \notin Late(Head(s))
  BY <1>1, <1>2, <1>3
<1>5. \A a, b \in 1..(Len(s) - 1) : a < b => Tail(s)[b] \notin Late(Tail(s)[a])
  BY <1>1, <1>2, <1>3
<1>6. Orderly(Tail(s))
  BY <1>1, <1>5 DEF Orderly
<1>7. Head(s) \in Nat /\ 1 \in DOMAIN s
  BY <1>1
<1> QED BY <1>1, <1>2, <1>4, <1>6, <1>7

\* What has been told is not late for what came before it was told.
LEMMA TellingIsLateForNone ==
    ASSUME Queued, NEW p \in telling, NEW c \in Told
    PROVE  p.msg \notin Late(c)
<1>1. c \in Commands /\ p.msg \notin Told
  BY BoundIsNumber DEF Told, Queued, Commands
<1> QED BY <1>1 DEF Queued, Late

\* A step that moves threads of the nodes, and neither commands nor sends; a
\* queue may be lost.
LEMMA ThreadsMove ==
    ASSUME OrderInv, StackInv', OneBuilt', UNCHANGED <<received, issued, before, telling>>,
           queue' \in [Instances -> Seq(Nat)],
           \A i \in Instances : queue'[i] = queue[i] \/ queue'[i] = <<>>,
           subscribed' = [n \in Nodes |-> subscribed'[n]],
           subscribed'["mavlink"] \subseteq subscribed["mavlink"],
           \A i \in Instances : /\ Serving(i)' => Serving(i)
                                /\ thread'["mavlink"][i] = "none" => thread["mavlink"][i] = "none"
    PROVE  OrderInv'
<1>1. Told' = Told /\ (\A c : Late(c)' = Late(c))
  BY DEF Told, Late
<1>2. Queued'
  BY <1>1 DEF OrderInv, Queued
<1>3. Orderly(received)' /\ AllTold(received)'
  BY <1>1 DEF OrderInv, Ordered, Orderly, AllTold
<1>4. ASSUME NEW i \in Instances
      PROVE  /\ Orderly(queue[i])' /\ AllTold(queue[i])'
             /\ Serving(i)' => Precedes(received, queue[i])'
  <2>1. /\ Orderly(queue[i]) /\ AllTold(queue[i]) /\ (Serving(i) => Precedes(received, queue[i]))
    BY DEF OrderInv, Ordered
  <2>2. CASE queue'[i] = queue[i]
    BY <1>1, <2>1, <2>2 DEF Orderly, AllTold, Precedes
  <2>3. CASE queue'[i] = <<>>
    <3>1. DOMAIN <<>> = {}
      OBVIOUS
    <3> QED BY <2>3, <3>1 DEF Orderly, AllTold, Precedes
  <2> QED BY <2>2, <2>3
<1>5. Ordered'
  BY <1>3, <1>4 DEF Ordered
<1>6. Unborn'
  BY DEF OrderInv, Unborn
<1> QED BY <1>2, <1>5, <1>6 DEF OrderInv

LEMMA NothingMoves ==
    ASSUME OrderInv, StackInv',
           UNCHANGED <<thread, queue, received, issued, before, telling, subscribed>>,
           UNCHANGED dog \/ (dog.at # "replace" /\ dog'.at # "replace")
    PROVE  OrderInv'
<1>1. \A i \in Instances : Serving(i)' = Serving(i)
  BY DEF Serving, Alive
<1>2. OneBuilt'
  BY DEF OrderInv, OneBuilt, Watched
<1> QED BY <1>1, <1>2, ThreadsMove DEF OrderInv, Queued

\* While an instance lives none is being built, and no other lives.
LEMMA LivingServesAlone ==
    ASSUME OrderInv, NEW i \in Instances, Alive("mavlink", i)
    PROVE  \A j \in Instances : Serving(j) => j = i
<1>1. \A j \in Instances : thread["mavlink"][j] # "built"
  BY DEF OrderInv, OneBuilt, StackInv, VacantWhileReplacing
<1>2. \A j \in Instances : Alive("mavlink", j) => j = i
  BY DEF OrderInv, StackInv, ListedLives, Nodes
<1> QED BY <1>1, <1>2 DEF Serving

\* What the life of a node does: it stays alive, or stops serving.
LEMMA LifeKeepsOrder ==
    ASSUME OrderInv, StackInv', NEW n \in Nodes, NEW i \in Instances, Alive(n, i),
           NEW state \in States \ {"none", "built"}, Moved(n, i, state),
           UNCHANGED <<dog, received, issued, before, telling>>,
           UNCHANGED queue \/ Drops(n, i),
           UNCHANGED subscribed \/ subscribed' = [subscribed EXCEPT ![n] = @ \ {i}]
    PROVE  OrderInv'
<1>1. \A j \in Instances : /\ Serving(j)' => Serving(j)
                           /\ thread'["mavlink"][j] = "none" => thread["mavlink"][j] = "none"
                           /\ thread'["mavlink"][j] = "built" => thread["mavlink"][j] = "built"
  BY DEF Moved, Serving, Alive, Nodes
<1>2. OneBuilt'
  BY <1>1 DEF OrderInv, OneBuilt, Watched
<1>3. /\ queue' \in [Instances -> Seq(Nat)]
      /\ \A j \in Instances : queue'[j] = queue[j] \/ queue'[j] = <<>>
  <2>1. queue \in [Instances -> Seq(Nat)] /\ <<>> \in Seq(Nat)
    BY DEF OrderInv, Queued
  <2>2. CASE UNCHANGED queue
    BY <2>1, <2>2
  <2>3. CASE queue' = [queue EXCEPT ![i] = <<>>]
    BY <2>1, <2>3
  <2>4. CASE queue' = [queue EXCEPT ![i] = queue[i]]
    BY <2>1, <2>4
  <2> QED BY <2>2, <2>3, <2>4 DEF Drops
<1>4. /\ subscribed' = [m \in Nodes |-> subscribed'[m]]
      /\ subscribed'["mavlink"] \subseteq subscribed["mavlink"]
  <2>1. subscribed = [m \in Nodes |-> subscribed[m]] /\ "mavlink" \in Nodes
    BY DEF OrderInv, Queued, Nodes
  <2> QED BY <2>1
<1> QED BY <1>1, <1>2, <1>3, <1>4, ThreadsMove

LEMMA RunsKeepOrder ==
    ASSUME OrderInv, StackInv', NEW n \in Nodes, NEW i \in Instances,
           Runs(n, i) \/ Fails(n, i), n = "mavlink" => ~Flush(i)
    PROVE  OrderInv'
<1> USE DEF Runs, Fails, Mavlink, Resume, End, Crash, Die, Connect, StepLinkLost, StepReceives,
        Flushed, bus, commands
<1>1. Alive(n, i)
  BY DEF Looping, Alive
<1>2. UNCHANGED <<dog, received, issued, before, telling>>
  OBVIOUS
<1>3. UNCHANGED subscribed \/ subscribed' = [subscribed EXCEPT ![n] = @ \ {i}]
  OBVIOUS
<1>4. UNCHANGED queue \/ Drops(n, i)
  OBVIOUS
<1>5. UNCHANGED thread \/ \E state \in States \ {"none", "built"} : Goes(n, i, state)
  BY DEF States
<1>6. PICK state \in States \ {"none", "built"} : Moved(n, i, state)
  <2>1. CASE UNCHANGED thread
    <3>1. thread[n][i] \in States \ {"none", "built"}
      BY <1>1 DEF Alive, States
    <3>2. Moved(n, i, thread[n][i])
      BY <2>1 DEF Moved, OrderInv, StackInv, Threaded
    <3> QED BY <3>1, <3>2
  <2>2. CASE \E state \in States \ {"none", "built"} : Goes(n, i, state)
    BY <2>2, GoesAlone DEF OrderInv, StackInv
  <2> QED BY <1>5, <2>1, <2>2
<1> QED BY <1>1, <1>2, <1>3, <1>4, <1>6, LifeKeepsOrder

\* The instance that lives sends the head of its queue.
LEMMA FlushKeepsOrder ==
    ASSUME OrderInv, StackInv', NEW i \in Instances, Flush(i)
    PROVE  OrderInv'
<1>1. /\ Alive("mavlink", i) /\ queue[i] # <<>> /\ queue' = [queue EXCEPT ![i] = Tail(@)]
      /\ received' \in {received, Append(received, Head(queue[i]))}
      /\ UNCHANGED <<thread, entry, dog, subscribed, issued, before, telling>>
  BY DEF Flush, Looping, Alive, Send, lives
<1>2. /\ queue[i] \in Seq(Nat) /\ Orderly(queue[i]) /\ AllTold(queue[i]) /\ received \in Seq(Nat)
      /\ Orderly(received) /\ AllTold(received) /\ Precedes(received, queue[i])
      /\ queue \in [Instances -> Seq(Nat)]
  BY <1>1 DEF OrderInv, Queued, Ordered, Serving
<1>3. Told' = Told /\ (\A c : Late(c)' = Late(c))
  BY <1>1 DEF Told, Late
<1> DEFINE h == Head(queue[i])
           t == Tail(queue[i])
<1>4. /\ t \in Seq(Nat) /\ h \in Nat /\ h = queue[i][1] /\ 1 \in DOMAIN queue[i] /\ Orderly(t)
      /\ \A b \in DOMAIN t : t[b] \notin Late(h) /\ b + 1 \in DOMAIN queue[i] /\ t[b] = queue[i][b + 1]
  BY <1>1, <1>2, Taking
<1>5. /\ queue'[i] = t /\ \A j \in Instances : j # i => queue'[j] = queue[j]
      /\ queue' \in [Instances -> Seq(Nat)]
  BY <1>1, <1>2, <1>4
<1>6. /\ AllTold(t) /\ h \in Told /\ Precedes(received, t)
      /\ \A a \in DOMAIN received : h \notin Late(received[a])
  BY <1>2, <1>4 DEF AllTold, Precedes
<1> HIDE DEF h, t
<1>7. /\ Append(received, h) \in Seq(Nat) /\ Orderly(Append(received, h))
      /\ \A a \in DOMAIN Append(received, h) :
            \/ a \in DOMAIN received /\ Append(received, h)[a] = received[a]
            \/ Append(received, h)[a] = h
  BY <1>2, <1>4, <1>6, Appending
<1>8. /\ received' \in Seq(Nat) /\ Orderly(received') /\ AllTold(received') /\ Precedes(received', t)
  <2>1. CASE received' = received
    BY <1>2, <1>6, <2>1
  <2>2. CASE received' = Append(received, h)
    <3>1. AllTold(received')
      BY <1>2, <1>6, <1>7, <2>2 DEF AllTold
    <3>2. Precedes(received', t)
      BY <1>4, <1>6, <1>7, <2>2 DEF Precedes
    <3> QED BY <1>7, <2>2, <3>1, <3>2
  <2> QED BY <1>1, <2>1, <2>2 DEF h
<1>9. \A j \in Instances : Serving(j)' = Serving(j) /\ (Serving(j) => j = i)
  BY <1>1, LivingServesAlone DEF Serving, Alive
<1>10. Queued'
  BY <1>1, <1>3, <1>5, <1>8 DEF OrderInv, Queued
<1>11. Orderly(received)' /\ AllTold(received)'
  BY <1>3, <1>8 DEF Orderly, AllTold
<1>12. ASSUME NEW j \in Instances
       PROVE  /\ Orderly(queue[j])' /\ AllTold(queue[j])'
              /\ Serving(j)' => Precedes(received, queue[j])'
  <2>1. CASE j = i
    BY <1>3, <1>4, <1>5, <1>6, <1>8, <2>1 DEF Orderly, AllTold, Precedes
  <2>2. CASE j # i
    <3>1. Orderly(queue[j]) /\ AllTold(queue[j])
      BY DEF OrderInv, Ordered
    <3> QED BY <1>3, <1>5, <1>9, <2>2, <3>1 DEF Orderly, AllTold
  <2> QED BY <2>1, <2>2
<1>13. Ordered'
  BY <1>11, <1>12 DEF Ordered
<1>14. Unborn'
  BY <1>1, <1>5 DEF OrderInv, Unborn, Alive
<1>15. OneBuilt'
  BY <1>1 DEF OrderInv, OneBuilt, Watched
<1> QED BY <1>10, <1>13, <1>14, <1>15 DEF OrderInv

\* A command is given to the queues there were when it was published.
LEMMA TellKeepsOrder ==
    ASSUME OrderInv, StackInv', NEW p \in telling, Tell(p)
    PROVE  OrderInv'
<1>1. /\ telling' = telling \ {p}
      /\ \A i \in Instances : queue'[i] = IF i \in p.to /\ Reads(i) THEN Append(queue[i], p.msg)
                                          ELSE queue[i]
      /\ queue' = [i \in Instances |-> queue'[i]]
      /\ UNCHANGED <<thread, dog, subscribed, received, issued, before>>
  BY DEF Tell, lives
<1>2. /\ p.msg \in 1..issued /\ issued \in 0..MaxCommands /\ p.msg \in Nat /\ issued \in Nat
      /\ \A q \in telling : p.msg = q.msg => p = q
  BY BoundIsNumber DEF OrderInv, Queued
<1>3. Told' = Told \cup {p.msg} /\ (\A c : Late(c)' = Late(c))
  BY <1>1, <1>2 DEF Told, Late
<1>4. \A c \in Told : p.msg \notin Late(c)
  BY TellingIsLateForNone DEF OrderInv
<1>5. \A i \in Instances : Serving(i)' = Serving(i)
  BY <1>1 DEF Serving, Alive
<1>6. /\ received \in Seq(Nat) /\ Orderly(received) /\ AllTold(received)
      /\ \A i \in Instances : /\ queue[i] \in Seq(Nat) /\ Orderly(queue[i]) /\ AllTold(queue[i])
                              /\ Serving(i) => Precedes(received, queue[i])
  BY DEF OrderInv, Queued, Ordered
<1>7. ASSUME NEW i \in Instances
      PROVE  /\ queue'[i] \in Seq(Nat) /\ Orderly(queue'[i])
             /\ \A a \in DOMAIN queue'[i] : \/ a \in DOMAIN queue[i] /\ queue'[i][a] = queue[i][a]
                                            \/ queue'[i][a] = p.msg
  <2>1. CASE queue'[i] = queue[i]
    BY <1>6, <2>1
  <2>2. CASE queue'[i] = Append(queue[i], p.msg)
    <3>1. \A a \in DOMAIN queue[i] : p.msg \notin Late(queue[i][a])
      BY <1>4, <1>6 DEF AllTold
    <3> QED BY <1>2, <1>6, <2>2, <3>1, Appending
  <2> QED BY <1>1, <2>1, <2>2
<1>8. Queued'
  <2>1. queue' \in [Instances -> Seq(Nat)]
    BY <1>1, <1>7
  <2> QED BY <1>1, <1>3, <2>1 DEF OrderInv, Queued
<1>9. Orderly(received)' /\ AllTold(received)'
  BY <1>1, <1>3, <1>6 DEF Orderly, AllTold
<1>10. ASSUME NEW i \in Instances
       PROVE  /\ Orderly(queue[i])' /\ AllTold(queue[i])'
              /\ Serving(i)' => Precedes(received, queue[i])'
  <2>1. Orderly(queue[i])' /\ AllTold(queue[i])'
    BY <1>3, <1>6, <1>7 DEF Orderly, AllTold
  <2>2. ASSUME Serving(i) PROVE Precedes(received, queue[i])'
    <3>1. Precedes(received, queue[i]) /\ \A a \in DOMAIN received : p.msg \notin Late(received[a])
      BY <1>4, <1>6, <2>2 DEF AllTold
    <3> QED BY <1>1, <1>3, <1>7, <3>1 DEF Precedes
  <2> QED BY <1>5, <2>1, <2>2
<1>11. Ordered'
  BY <1>9, <1>10 DEF Ordered
<1>12. Unborn'
  BY <1>1 DEF OrderInv, Unborn
<1>13. OneBuilt'
  BY <1>1 DEF OrderInv, OneBuilt, Watched
<1> QED BY <1>8, <1>11, <1>12, <1>13 DEF OrderInv

\* A new command has nobody before it but what has been told.
LEMMA CommandKeepsOrder ==
    ASSUME OrderInv, StackInv', Command
    PROVE  OrderInv'
<1> DEFINE p == [msg |-> issued + 1, to |-> subscribed["mavlink"]]
<1>1. /\ issued < MaxCommands /\ issued' = issued + 1 /\ telling' = telling \cup {p}
      /\ before' = [before EXCEPT ![issued + 1] = Told]
      /\ UNCHANGED <<thread, dog, subscribed, queue, received>>
  BY DEF Command, bus, lives
<1>2. /\ issued \in Nat /\ MaxCommands \in Nat /\ issued' \in 0..MaxCommands
      /\ 1..issued' = 1..issued \cup {issued + 1} /\ issued + 1 \notin 1..issued
  BY <1>1, BoundIsNumber DEF OrderInv, Queued
<1>3. Told' = Told /\ Told \subseteq 1..issued
  <2>1. p.msg = issued + 1
    OBVIOUS
  <2> HIDE DEF p
  <2>2. {q.msg : q \in telling \cup {p}} = {q.msg : q \in telling} \cup {p.msg}
    OBVIOUS
  <2>3. {q.msg : q \in telling'} = {q.msg : q \in telling} \cup {issued + 1}
    BY <1>1, <2>1, <2>2
  <2> QED BY <1>2, <2>3 DEF Told
<1>4. \A c \in Told : Late(c)' = Late(c)
  <2>1. \A c \in Told : c \in Commands /\ c # issued + 1
    BY <1>1, <1>2, <1>3 DEF Commands
  <2> QED BY <1>1, <2>1 DEF OrderInv, Queued, Late
<1>5. \A i \in Instances : Serving(i)' = Serving(i)
  BY <1>1 DEF Serving, Alive
<1>6. Queued'
  <2>1. \A q \in telling' : q.msg \in 1..issued' /\ \A r \in telling' : q.msg = r.msg => q = r
    BY <1>1, <1>2 DEF OrderInv, Queued
  <2>2. before' = [c \in Commands |-> before'[c]] /\ \A c \in Commands : before'[c] \subseteq Told
    BY <1>1 DEF OrderInv, Queued
  <2> QED BY <1>1, <1>2, <1>3, <2>1, <2>2 DEF OrderInv, Queued
<1>7. Ordered'
  BY <1>1, <1>3, <1>4, <1>5 DEF OrderInv, Ordered, Orderly, AllTold, Precedes
<1>8. Unborn'
  BY <1>1 DEF OrderInv, Unborn
<1>9. OneBuilt'
  BY <1>1 DEF OrderInv, OneBuilt, Watched
<1> QED BY <1>6, <1>7, <1>8, <1>9 DEF OrderInv

-----------------------------------------------------------------------------
(* The watchdog and the commands.                                          *)

\* A new instance starts with nothing, and nobody sends before it does.
LEMMA BuildsKeepOrder ==
    ASSUME OrderInv, StackInv', DogBuilds
    PROVE  OrderInv'
<1> DEFINE n == Watched
<1>1. n \in Nodes /\ {"mavlink", "navigator"} = Nodes
  BY WatchedIsNode DEF OrderInv, StackInv, Nodes
<1>2. PICK i \in Instances : /\ thread[n][i] = "none" /\ Goes(n, i, "built")
                             /\ subscribed' = [subscribed EXCEPT ![n] = @ \cup {i}]
  BY DEF DogBuilds, Unbuilt
<1>3. /\ dog.at = "check" /\ dog'.at = "replace" /\ dog'.on = dog.on /\ Watched' = n
      /\ UNCHANGED <<queue, received, issued, before, telling>>
  BY DEF DogBuilds, OrderInv, StackInv, Threaded, Watched, commands
<1> HIDE DEF n
<1>4. Moved(n, i, "built")
  BY <1>1, <1>2, GoesAlone DEF OrderInv, StackInv, States
<1>5. \A j \in Instances : thread["mavlink"][j] # "built"
  BY <1>3 DEF OrderInv, OneBuilt
<1>6. subscribed = [m \in Nodes |-> subscribed[m]]
  BY DEF OrderInv, Queued
<1>7. /\ subscribed' = [m \in Nodes |-> subscribed'[m]]
      /\ \A j \in Instances : j \in subscribed'["mavlink"] => j \in subscribed["mavlink"] \/ (n = "mavlink" /\ j = i)
  BY <1>1, <1>2, <1>6
<1>8. Told' = Told /\ (\A c : Late(c)' = Late(c))
  BY <1>3 DEF Told, Late
<1>9. Queued'
  BY <1>3, <1>7, <1>8 DEF OrderInv, Queued
<1>10. \A j \in Instances : Serving(j)' => Serving(j) \/ queue[j] = <<>>
  <2> SUFFICES ASSUME NEW j \in Instances, Serving(j)', ~Serving(j)
               PROVE  queue[j] = <<>>
    OBVIOUS
  <2>1. n = "mavlink" /\ j = i
    BY <1>1, <1>4 DEF Serving, Alive, Moved
  <2> QED BY <1>2, <2>1 DEF OrderInv, Unborn
<1>11. Ordered'
  <2>1. \A j \in Instances : Serving(j)' => Precedes(received, queue[j])
    BY <1>10, NothingQueued DEF OrderInv, Ordered
  <2> QED BY <1>3, <1>8, <2>1 DEF OrderInv, Ordered, Orderly, AllTold, Precedes
<1>12. Unborn'
  BY <1>1, <1>3, <1>4, <1>7 DEF OrderInv, Unborn, Moved
<1>13. OneBuilt'
  BY <1>1, <1>3, <1>4, <1>5 DEF OneBuilt, Moved
<1> QED BY <1>9, <1>11, <1>12, <1>13 DEF OrderInv

LEMMA ReplacesKeepOrder ==
    ASSUME OrderInv, StackInv', DogReplaces
    PROVE  OrderInv'
<1> DEFINE n == Watched
           state == IF n = "mavlink" THEN "connect" ELSE "step"
<1>1. n \in Nodes /\ {"mavlink", "navigator"} = Nodes
  BY WatchedIsNode DEF OrderInv, StackInv, Nodes
<1>2. PICK i \in Instances : thread[n][i] = "built" /\ Goes(n, i, state)
  BY DEF DogReplaces
<1>3. UNCHANGED <<queue, received, issued, before, telling, subscribed>>
  BY DEF DogReplaces, commands
<1>4. \A j \in Instances : thread["mavlink"][j] = "built" => n = "mavlink" /\ j = i
  BY <1>2 DEF OrderInv, OneBuilt
<1> HIDE DEF n
<1>5. Moved(n, i, state)
  BY <1>1, <1>2, GoesAlone DEF OrderInv, StackInv, States
<1>6. \A j \in Instances : /\ Serving(j)' => Serving(j)
                           /\ thread'["mavlink"][j] # "built"
                           /\ thread'["mavlink"][j] = "none" => thread["mavlink"][j] = "none"
  BY <1>1, <1>2, <1>4, <1>5 DEF Moved, Serving, Alive
<1>7. OneBuilt'
  BY <1>6 DEF OneBuilt
<1> QED BY <1>3, <1>6, <1>7, ThreadsMove DEF OrderInv, Queued

LEMMA OrderInit == Init => OrderInv
<1> SUFFICES ASSUME Init PROVE OrderInv
  OBVIOUS
<1>1. 1 \in Instances /\ \A i \in Instances : i \in Int /\ (i > 1 \/ i = 1)
  BY StackAssumption DEF Instances
<1>2. \A i \in Instances : thread["mavlink"][i] = IF i > 1 THEN "none" ELSE "connect"
  BY DEF Init, Nodes
<1>3. /\ received = <<>> /\ issued = 0 /\ queue = [i \in Instances |-> <<>>]
      /\ subscribed = [n \in Nodes |-> {1}] /\ telling = {} /\ before = [c \in Commands |-> {}]
  BY DEF Init
<1>4. Queued
  BY <1>3, BoundIsNumber DEF Queued
<1>5. Ordered
  BY <1>3, NothingQueued DEF Ordered
<1>6. Unborn
  BY <1>1, <1>2, <1>3 DEF Unborn, Nodes
<1>7. OneBuilt
  BY <1>2 DEF OneBuilt
<1> QED BY <1>4, <1>5, <1>6, <1>7, InitIsSound DEF OrderInv

LEMMA OrderStep == OrderInv /\ [Next]_vars => OrderInv'
<1> SUFFICES ASSUME OrderInv, [Next]_vars
             PROVE  OrderInv'
  OBVIOUS
<1>0. StackInv'
  BY NextIsSound DEF OrderInv
<1>1. CASE \E n \in Nodes, i \in Instances : Runs(n, i) \/ Fails(n, i)
  <2>1. PICK n \in Nodes, i \in Instances : Runs(n, i) \/ Fails(n, i)
    BY <1>1
  <2>2. CASE n = "mavlink" /\ Flush(i)
    BY <1>0, <2>2, FlushKeepsOrder
  <2>3. CASE ~(n = "mavlink" /\ Flush(i))
    BY <1>0, <2>1, <2>3, RunsKeepOrder
  <2> QED BY <2>2, <2>3
<1>2. CASE \E p \in telling : Tell(p)
  BY <1>0, <1>2, TellKeepsOrder
<1>3. CASE Command \/ DogBuilds \/ DogReplaces
  BY <1>0, <1>3, CommandKeepsOrder, BuildsKeepOrder, ReplacesKeepOrder
<1>4. CASE DogWakes \/ DogPasses
  <2>1. UNCHANGED <<thread, queue, received, issued, before, telling, subscribed>>
    BY <1>4 DEF DogWakes, DogPasses, lives, bus, commands
  <2>2. dog.at # "replace" /\ dog'.at # "replace"
    BY <1>4, NextTurnIsTurn DEF DogWakes, DogPasses, OrderInv, StackInv, Threaded
  <2> QED BY <1>0, <2>1, <2>2, NothingMoves
<1>5. CASE \/ Dispatch \/ Stop \/ StopAsks \/ RadioFails \/ RadioReturns \/ HeartbeatAges
           \/ UNCHANGED vars
  <2>1. UNCHANGED <<thread, queue, received, issued, before, telling, subscribed, dog>>
    BY <1>5 DEF Dispatch, Stop, StopAsks, RadioFails, RadioReturns, HeartbeatAges, vars, lives, bus,
       commands
  <2> QED BY <1>0, <2>1, NothingMoves
<1> QED BY <1>1, <1>2, <1>3, <1>4, <1>5 DEF Next, Watchdog

\* However many nodes die, crash and are rebuilt, however often the link goes and
\* however many threads publish at once, the FC gets no command twice, and none
\* after one that was issued when it had been published to the end (_on_cmd, the
\* flush in step, the bus's dispatch outside its lock).
THEOREM CommandsKeepOrder == Spec => []CommandsInOrder
<1>1. Spec => []OrderInv
  BY OrderInit, OrderStep, PTL DEF Spec
<1>2. OrderInv => CommandsInOrder
  BY DEF OrderInv, Ordered, Orderly, CommandsInOrder
<1> QED BY <1>1, <1>2, PTL
=============================================================================
