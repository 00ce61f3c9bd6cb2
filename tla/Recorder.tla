------------------------------ MODULE Recorder ------------------------------
(***************************************************************************)
(* The flight recorder of the ground station, gcs/recorder.py, and the     *)
(* ground station's calls of it (gcs/hub.py, gcs/flight_state.py).         *)
(*                                                                         *)
(* A recording starts when the aircraft arms, or by the operator's button, *)
(* and is numbered. When it ends, and is worth keeping, a job is written   *)
(* to the disk and a thread renders it: a quick clip first, then the       *)
(* stabilised one, each promoted to the one clip that is kept. Arming      *)
(* preempts a render; what is owed is rendered after the next disarm. The  *)
(* process may die at any point: the disk is what the next one starts      *)
(* from.                                                                   *)
(*                                                                         *)
(* Threads: "hub", on which the flight controller's messages arrive, "op", *)
(* which serves the operator, and one encoder for each job being rendered. *)
(* A thread gives up the recorder's lock where its steps here end.         *)
(*                                                                         *)
(* All encoders write one temporary file. What is in it is the set of the  *)
(* recordings whose processes wrote it: one that starts truncates the file *)
(* that a finished one left, and writes over one that still runs.          *)
(*                                                                         *)
(* Abstracted: a recording has the two frames it needs, or not; it is      *)
(* worth keeping when it flew or was long enough; the frame queue, posters *)
(* and progress are left out; the camera gives full frames with an index.  *)
(* A recording's files are named by the second of the wall clock in which  *)
(* it began. Here its number names them: it is assumed that no recording   *)
(* begins in a second, as the clock shows it, that names files still there. *)
(***************************************************************************)
EXTENDS Integers, FiniteSets, FiniteSetsExt

CONSTANTS
    Quick,          \* quick_clip
    SlowWriter,     \* another recording may start while stop joins the writer of the last
    MaxStarts,      \* bounds: times the aircraft arms or the operator records,
    MaxCrashes,     \* the process dies,
    MaxFaults       \* an encoder or a disk write fails

ASSUME RecorderAssumption ==
    {Quick, SlowWriter} \subseteq BOOLEAN /\ {MaxStarts, MaxCrashes, MaxFaults} \subseteq Nat

Seqs == 1..(MaxStarts + MaxCrashes)
Threads == {"hub", "op"}
Running == {"quick", "hd"}          \* an encoder's process that can be killed

VARIABLES
    \* FlightRecorder
    state, reason,      \* _state; _reason, of the recording in progress
    seq, queue,         \* _seq, the number of the last recording; the one offered frames go to
    worth,              \* recordings that flew (_airborne) or were long enough
    floor, pending,     \* _floor; the number of the job in _pending, 0 for none
    armSeen, recArmed,  \* _arm_seen, _armed
    busy, preempt,      \* _busy, _preempt
    proc,               \* whose process is in _render_proc
    \* the threads
    thread,             \* where "hub" and "op" are, in which recording
    enc,                \* where each job's encoder is, and its quick_done
    \* GcsHub
    wasArmed, ended,    \* _was_armed, flight_end._ended
    \* the recordings directory
    src,                \* flight-<n>: 1 with enough frames, 0 without, -1 for no file
    job,                \* flight-<n>.job.json: "none", "owed", "quick"
    tmp,                \* whose processes wrote latest.tmp.mp4; empty without the file
    clip, whole,        \* the number in latest.json, and in _clip; latest.mp4 is that recording's alone
    seqFile,            \* the counter file
    \* the environment and the bounds
    armed, starts, crashes, faults,
    \* history
    finished            \* the newest recording with frames that stop kept, when no encoder
                        \* gave up it or a newer one, or promoted for it what others wrote

now == <<state, reason, seq, queue, worth>>
owed == <<floor, pending>>
arm == <<armSeen, recArmed>>
render == <<busy, preempt, proc, enc>>
hub == <<wasArmed, ended>>
kept == <<tmp, clip, whole>>
disk == <<src, job, seqFile>>
bounds == <<armed, starts, crashes, faults>>
vars == <<now, owed, arm, render, thread, hub, kept, disk, bounds, finished>>

Idle == [at |-> "idle", seq |-> 0, why |-> "none"]
NoEncoder == [at |-> "idle", quick |-> FALSE]
Points == {"idle", "born", "quick", "quickDead", "quickReady", "mark", "toHd", "hd", "hdDead", "toPlain",
           "plain", "ready", "settle", "drop", "deferred", "broken", "leave"}

\* Every variable has the values its code can give it.
TypeOK ==
    /\ state \in {"idle", "ready", "pending", "recording", "encoding", "error"}
    /\ reason \in {"none", "armed", "manual"}
    /\ {queue, seq, floor, pending, proc, clip, seqFile, finished} \subseteq {0} \cup Seqs
    /\ {whole, armSeen, recArmed, preempt, wasArmed, ended, armed} \subseteq BOOLEAN
    /\ tmp \subseteq Seqs
    /\ busy = Cardinality({n \in Seqs : enc[n].at \notin {"idle", "born"}})
    /\ thread \in [Threads -> [at : {"idle", "starting", "stopping", "finalising", "writing", "returning", "rendering"},
                              seq : {0} \cup Seqs,
                              why : {"none", "armed", "manual", "disarmed", "ended"}]]
    /\ enc \in [Seqs -> [at : Points, quick : BOOLEAN]]
    /\ src \in [Seqs -> -1..1] /\ job \in [Seqs -> {"none", "owed", "quick"}]
    /\ worth \subseteq Seqs
    /\ starts \in 0..MaxStarts /\ crashes \in 0..MaxCrashes /\ faults \in 0..MaxFaults

Go(t, point) == thread' = [thread EXCEPT ![t].at = point]
At(n, point) == enc[n].at = point
Move(n, point) == enc' = [enc EXCEPT ![n].at = point]

-----------------------------------------------------------------------------
(* A recording                                                             *)

NextSeq == 1 + Max({seq, clip, seqFile} \cup {n \in Seqs : job[n] # "none"})

\* start, in its first hold of the lock: a render that runs is preempted. Its
\* process is killed if there is one at this moment.
StartChecks(t, why) ==
    /\ IF state = "recording" THEN UNCHANGED <<thread, preempt, enc>>
       ELSE /\ thread' = [thread EXCEPT ![t] = [Idle EXCEPT !.at = "starting", !.why = why]]
            /\ IF busy > 0 \/ state = "encoding"
               THEN /\ preempt' = TRUE
                    /\ enc' = [n \in Seqs |-> IF n = proc /\ enc[n].at \in Running
                                  THEN [enc[n] EXCEPT !.at = IF @ = "hd" THEN "hdDead" ELSE "quickDead"]
                                  ELSE enc[n]]
               ELSE UNCHANGED <<preempt, enc>>

\* start, in its second hold: a new number, a new file and a new writer. The file
\* is opened for writing, and is empty whatever it was.
StartBegins(t) ==
    /\ thread[t].at = "starting" /\ (SlowWriter \/ \A u \in Threads : thread[u].at # "finalising")
    /\ thread' = [thread EXCEPT ![t] = Idle]
    /\ queue' = NextSeq /\ seq' = NextSeq /\ seqFile' = NextSeq
    /\ worth' = worth \ {NextSeq} /\ state' = "recording" /\ reason' = thread[t].why
    /\ src' = [src EXCEPT ![NextSeq] = 0]
    /\ UNCHANGED <<owed, arm, render, hub, kept, job, bounds, finished>>

\* offer_frame and the writer: the frames that make it a recording reach the file.
OfferFrames ==
    /\ queue # 0 /\ src[queue] = 0 /\ state # "error"
    /\ src' = [src EXCEPT ![queue] = 1]
    /\ UNCHANGED <<state, reason, queue, worth, seq, owed, arm, render, thread, hub, kept, job, seqFile,
                   bounds, finished>>

\* note_altitude, or min_seconds passing: the recording is worth keeping.
Earns ==
    /\ state = "recording" /\ seq \notin worth /\ worth' = worth \cup {seq}
    /\ UNCHANGED <<state, reason, queue, seq, owed, arm, render, thread, hub, kept, disk, bounds, finished>>

\* The writer cannot write: the recording stays open, and is not stopped.
WriterFails ==
    /\ state = "recording" /\ faults < MaxFaults /\ faults' = faults + 1
    /\ state' = "error"
    /\ UNCHANGED <<reason, queue, worth, seq, owed, arm, render, thread, hub, kept, disk, armed, starts,
                   crashes, finished>>

-----------------------------------------------------------------------------
(* What set_armed, the job file and the end of a call do                   *)

\* _discard_job, on a set of jobs: with everything they own.
Discard(js) == /\ job' = [n \in Seqs |-> IF n \in js THEN "none" ELSE job[n]]
               /\ src' = [n \in Seqs |-> IF n \in js THEN -1 ELSE src[n]]

MayRenderNow == armSeen' /\ ~recArmed' /\ busy = 0 /\ state \notin {"recording", "encoding"}

\* set_armed. Disarmed, what is owed is taken, unless something newer is kept.
SetArmed(level) ==
    /\ armSeen' = TRUE /\ recArmed' = level
    /\ IF pending # 0 /\ MayRenderNow
       THEN /\ pending' = 0
            /\ IF pending < Max({floor, clip})
               THEN Discard({pending}) /\ thread' = [thread EXCEPT !.hub = Idle]
               ELSE /\ thread' = [thread EXCEPT !.hub = [Idle EXCEPT !.at = "rendering", !.seq = pending]]
                    /\ UNCHANGED <<job, src>>
       ELSE thread' = [thread EXCEPT !.hub = Idle] /\ UNCHANGED <<pending, job, src>>

\* The second half of _maybe_render_pending, after the lock was given back.
MaybeRenderPending ==
    LET n == thread["hub"].seq IN
    /\ thread["hub"].at = "rendering" /\ thread' = [thread EXCEPT !.hub = Idle]
    /\ state' = IF job[n] = "quick" /\ clip # 0 THEN "ready" ELSE "encoding"
    /\ reason' = "armed" /\ preempt' = FALSE
    /\ enc' = [enc EXCEPT ![n] = [at |-> "born", quick |-> job[n] = "quick"]]
    /\ UNCHANGED <<queue, worth, seq, owed, arm, busy, proc, hub, kept, disk, bounds, finished>>

\* A call of stop is over: its caller goes on.
Returns(t) ==
    /\ thread[t].at = "returning"
    /\ IF thread[t].why = "disarmed" THEN SetArmed(FALSE)
       ELSE thread' = [thread EXCEPT ![t] = Idle] /\ UNCHANGED <<arm, pending, job, src>>
    /\ ended' = (ended \/ thread[t].why = "ended")
    /\ UNCHANGED <<now, floor, render, wasArmed, kept, seqFile, bounds, finished>>

-----------------------------------------------------------------------------
(* stop                                                                    *)

\* The recording is taken under the lock: from here another may start.
StopTakes(t) ==
    /\ thread[t].at = "stopping" /\ state = "recording"
    /\ queue' = 0 /\ state' = "encoding" /\ reason' = "none"
    /\ thread' = [thread EXCEPT ![t].at = "finalising", ![t].seq = seq]
    /\ UNCHANGED <<worth, seq, owed, arm, render, hub, kept, disk, bounds, finished>>

StopRefused(t) ==
    /\ thread[t].at = "stopping" /\ state # "recording" /\ Go(t, "returning")
    /\ UNCHANGED <<now, owed, arm, render, hub, kept, disk, bounds, finished>>

\* _should_keep: the count of frames is the recorder's, whatever it records by now.
ShouldKeep(n) == src[n] >= 0 /\ src[seq] = 1 /\ n \in worth

\* Kept: nothing older is owed any more.
StopKeeps(t) ==
    LET n == thread[t].seq IN
    /\ thread[t].at = "finalising" /\ ShouldKeep(n)
    /\ floor' = Max({floor, n}) /\ pending' = 0 /\ Discard({pending} \ {0})
    /\ finished' = (IF src[n] = 1 THEN n ELSE finished) /\ Go(t, "writing")
    /\ UNCHANGED <<now, arm, render, hub, kept, seqFile, bounds>>

\* Not kept: the files go, the clip stays.
StopDiscards(t) ==
    LET n == thread[t].seq IN
    /\ thread[t].at = "finalising" /\ ~ShouldKeep(n) /\ Go(t, "returning")
    /\ src' = [src EXCEPT ![n] = -1] /\ state' = IF clip # 0 THEN "ready" ELSE "idle"
    /\ UNCHANGED <<reason, queue, worth, seq, owed, arm, render, hub, kept, job, seqFile, bounds, finished>>

\* The job is on the disk before the encoder starts; without it, it starts all the same.
StopWrites(t) ==
    LET n == thread[t].seq IN
    /\ thread[t].at = "writing" /\ Go(t, "returning")
    /\ \/ job' = [job EXCEPT ![n] = "owed"] /\ UNCHANGED faults
       \/ faults < MaxFaults /\ faults' = faults + 1 /\ UNCHANGED job
    /\ preempt' = FALSE /\ enc' = [enc EXCEPT ![n] = [at |-> "born", quick |-> FALSE]]
    /\ UNCHANGED <<now, owed, arm, busy, proc, hub, kept, src, seqFile, armed, starts, crashes, finished>>

-----------------------------------------------------------------------------
(* An encoder                                                              *)

\* Encoders whose process has the temporary file open.
Writing == {n \in Seqs : enc[n].at \in Running \cup {"plain"}}

\* A process starts, and truncates the one temporary file: who still writes there
\* goes on. The plain one is not registered to be killed.
ProcessStarts(n, stage) ==
    /\ Move(n, stage) /\ tmp' = {n} \cup (tmp \cap Writing)
    /\ proc' = IF stage = "plain" THEN proc ELSE n

\* The thread is busy from its first statement, not from its creation.
EncodeBegins(n) ==
    /\ At(n, "born") /\ busy' = busy + 1
    /\ ProcessStarts(n, IF src[n] < 0 THEN "plain" ELSE IF Quick /\ ~enc[n].quick THEN "quick" ELSE "hd")
    /\ UNCHANGED <<now, owed, arm, preempt, thread, hub, clip, whole, disk, bounds, finished>>

\* The next stage starts, whatever happened since the last one ended.
NextStage(n) ==
    /\ enc[n].at \in {"toHd", "toPlain"} /\ ProcessStarts(n, IF At(n, "toHd") THEN "hd" ELSE "plain")
    /\ UNCHANGED <<now, owed, arm, busy, preempt, thread, hub, clip, whole, disk, bounds, finished>>

\* A process that was not killed, and had the file to itself, may still fail.
Fails(excused) == \/ excused /\ UNCHANGED faults
                  \/ ~excused /\ faults < MaxFaults /\ faults' = faults + 1

\* A stage returns: preempted, with a clip to promote when there is the file,
\* whoever's, or failed: a quick or HD one then removes the file. Whether a dead
\* process was a preempted one is asked only now.
StageReturns(n, running, dead, ok, failure) ==
    /\ enc[n].at \in {running, dead}
    /\ LET deferred == preempt /\ running # "plain" IN
       \/ deferred /\ Move(n, "deferred") /\ UNCHANGED <<tmp, faults>>
       \/ ~deferred /\ At(n, running) /\ tmp # {} /\ Move(n, ok) /\ UNCHANGED <<tmp, faults>>
       \/ ~deferred /\ Move(n, failure) /\ Fails(At(n, dead) \/ tmp # {n})
          /\ tmp' = IF running = "plain" THEN tmp ELSE {}
    /\ proc' = IF running = "plain" THEN proc ELSE 0
    /\ UNCHANGED <<now, owed, arm, busy, preempt, thread, hub, clip, whole, disk, armed, starts, crashes, finished>>

\* A failed quick clip is made good by the HD render, a failed HD render by the
\* quick clip, or without one by a plain encode, which nothing preempts.
QuickReturns(n) == StageReturns(n, "quick", "quickDead", "quickReady", "toHd")
RenderReturns(n) == StageReturns(n, "hd", "hdDead", "ready", IF enc[n].quick THEN "settle" ELSE "toPlain")
StreamReturns(n) == StageReturns(n, "plain", "none", "ready", "broken")

Newest == Max({clip, floor})

\* History: what was kept of n, or of anything older, is given up.
GivenUp(n) == finished' = IF n >= finished THEN 0 ELSE finished

\* _promote: the temporary file becomes the clip, whoever wrote it; an older
\* recording's, or what is there instead, only goes away.
Promoted(n) ==
    /\ tmp' = {}
    /\ IF n < Newest THEN UNCHANGED <<clip, whole, state, finished>>
       ELSE /\ clip' = n /\ whole' = (tmp = {n})
            /\ state' = IF state = "recording" THEN state ELSE "ready"
            /\ IF tmp = {n} THEN UNCHANGED finished ELSE GivenUp(n)

\* The file is gone, when its size is asked for or, for what would be the clip, when
\* it is to be moved: that is one more failure. Else the promotion goes ahead.
Promoting(n, failure, older, newer) ==
    /\ \/ tmp = {} /\ Move(n, failure) /\ UNCHANGED <<tmp, clip, whole, state, finished>>
       \/ (tmp # {} \/ n < Newest) /\ Promoted(n)
          /\ Move(n, IF n < Newest THEN older ELSE newer)
    /\ UNCHANGED <<reason, queue, worth, seq, owed, arm, busy, preempt, proc, thread, hub, disk, bounds>>

\* Without its file a quick clip has failed, and the HD render is next; without the
\* file of the HD or plain one the encode has failed for good.
PromoteQuick(n) == At(n, "quickReady") /\ Promoting(n, "toHd", "settle", "mark")
Promote(n) == At(n, "ready") /\ Promoting(n, "broken", "settle", "settle")

\* The job remembers that its quick clip is there.
MarkQuickDone(n) ==
    /\ At(n, "mark") /\ enc' = [enc EXCEPT ![n] = [at |-> "toHd", quick |-> TRUE]]
    /\ job' = IF job[n] = "none" THEN job ELSE [job EXCEPT ![n] = "quick"]
    /\ UNCHANGED <<now, owed, arm, busy, preempt, proc, thread, hub, kept, src, seqFile, bounds, finished>>

\* The end of every encoder.
Leave(n) ==
    /\ enc' = [enc EXCEPT ![n] = NoEncoder] /\ busy' = busy - 1
    /\ state' = IF state = "encoding" /\ clip # 0 THEN "ready" ELSE state
    /\ UNCHANGED <<reason, queue, worth, seq, owed, arm, preempt, proc, thread, hub, kept, bounds, finished>>
Leaves(n) == At(n, "leave") /\ Leave(n) /\ UNCHANGED disk

\* settle: the job is retired first, then the frames it was for.
RetireJob(n) ==
    /\ At(n, "settle") /\ Move(n, "drop") /\ job' = [job EXCEPT ![n] = "none"]
    /\ UNCHANGED <<now, owed, arm, busy, preempt, proc, thread, hub, kept, src, seqFile, bounds, finished>>
DropSource(n) ==
    /\ At(n, "drop") /\ Leave(n) /\ src' = [src EXCEPT ![n] = -1]
    /\ UNCHANGED <<job, seqFile>>

\* Preempted: the file is removed, whoever's, and the job is owed again, unless a
\* newer recording makes it worthless.
Defer(n) ==
    /\ At(n, "deferred") /\ Move(n, "leave") /\ tmp' = {}
    /\ IF job[n] = "none" THEN UNCHANGED <<pending, job, src>>
       ELSE IF n < floor \/ pending > n THEN Discard({n}) /\ UNCHANGED pending
       ELSE pending' = n /\ UNCHANGED <<job, src>>
    /\ UNCHANGED <<now, floor, arm, busy, preempt, proc, thread, hub, clip, whole, seqFile, bounds, finished>>

\* Failed for good: the frames are put aside for a person to encode.
Salvage(n) ==
    /\ At(n, "broken") /\ Move(n, "leave") /\ tmp' = {}
    /\ Discard({n}) /\ GivenUp(n)
    /\ state' = IF state # "encoding" THEN state ELSE IF clip # 0 THEN "ready" ELSE "error"
    /\ UNCHANGED <<reason, queue, worth, seq, owed, arm, busy, preempt, proc, thread, hub, clip, whole, seqFile,
                   bounds>>

Encoder(n) ==
    \/ EncodeBegins(n) \/ NextStage(n) \/ QuickReturns(n) \/ RenderReturns(n)
    \/ StreamReturns(n) \/ PromoteQuick(n) \/ MarkQuickDone(n) \/ Promote(n) \/ RetireJob(n)
    \/ DropSource(n) \/ Defer(n) \/ Salvage(n) \/ Leaves(n)

-----------------------------------------------------------------------------
(* The callers                                                             *)

Free(t) == thread[t].at = "idle"

\* _on_armed on an edge. A disarm after the flight's end was seen has nothing to stop.
OnArmed ==
    /\ Free("hub") /\ armed # wasArmed /\ wasArmed' = armed
    /\ IF armed
       THEN /\ ended' = FALSE /\ armSeen' = TRUE /\ recArmed' = TRUE /\ StartChecks("hub", "armed")
            /\ UNCHANGED <<pending, job, src>>
       ELSE /\ UNCHANGED <<preempt, enc, ended>>
            /\ IF ended /\ state # "recording" THEN SetArmed(FALSE)
               ELSE /\ thread' = [thread EXCEPT !.hub = [Idle EXCEPT !.at = "stopping", !.why = "disarmed"]]
                    /\ UNCHANGED <<arm, pending, job, src>>
    /\ UNCHANGED <<now, floor, busy, proc, kept, seqFile, bounds, finished>>

\* Mutant: only the edges of the arm state are passed on.
RepeatsEdges ==
    /\ Free("hub") /\ armed /\ wasArmed /\ SetArmed(TRUE)
    /\ UNCHANGED <<now, floor, render, hub, kept, seqFile, bounds, finished>>

\* _on_armed between edges: the level is passed on with every heartbeat.
Repeats ==
    /\ Free("hub") /\ armed = wasArmed /\ SetArmed(armed)
    /\ UNCHANGED <<now, floor, render, hub, kept, seqFile, bounds, finished>>

\* _flight_end_tick: the flight is over, as the detector sees it, before the disarm.
FlightEnds ==
    /\ Free("hub") /\ armed /\ wasArmed /\ ~ended /\ state = "recording" /\ reason = "armed"
    /\ thread' = [thread EXCEPT !.hub = [Idle EXCEPT !.at = "stopping", !.why = "ended"]]
    /\ UNCHANGED <<now, owed, arm, render, hub, kept, disk, bounds, finished>>

\* The operator's buttons.
RecordStart ==
    /\ Free("op") /\ starts < MaxStarts /\ starts' = starts + 1 /\ StartChecks("op", "manual")
    /\ UNCHANGED <<now, owed, arm, busy, proc, hub, kept, disk, armed, crashes, faults, finished>>
RecordStop ==
    /\ Free("op") /\ state = "recording" /\ reason # "armed"
    /\ thread' = [thread EXCEPT !.op = [Idle EXCEPT !.at = "stopping", !.why = "manual"]]
    /\ UNCHANGED <<now, owed, arm, render, hub, kept, disk, bounds, finished>>

Arms == /\ ~armed /\ starts < MaxStarts /\ starts' = starts + 1 /\ armed' = TRUE
        /\ UNCHANGED <<now, owed, arm, render, thread, hub, kept, disk, crashes, faults, finished>>
Disarms == /\ armed /\ armed' = FALSE
           /\ UNCHANGED <<now, owed, arm, render, thread, hub, kept, disk, starts, crashes, faults, finished>>

-----------------------------------------------------------------------------
(* Crash and restart                                                       *)

\* Mutant: frames without a job are garbage.
RecoveredNone(left) == {}

\* _recover: frames without a job are a recording that was cut off.
Recovered(left) == {n \in Seqs : left[n] = 1}

\* A power loss or a kill, and the next process. Frames not flushed yet and the
\* counter may be lost. Recordings without a job are recovered when they have two complete
\* frames, and of all jobs the newest is adopted, unless the clip is newer.
Crash ==
    /\ crashes < MaxCrashes /\ crashes' = crashes + 1
    /\ \E flushed \in 0..1, counter \in {0, seqFile} :
        LET left == [n \in Seqs |-> IF n = queue THEN Min({src[n], flushed}) ELSE src[n]]
            jobs == {n \in Seqs : job[n] # "none"} \cup Recovered(left)
            newest == IF jobs = {} THEN 0 ELSE Max(jobs)
            adopted == IF newest = 0 \/ newest < clip \/ left[newest] < 0 THEN 0 ELSE newest
        IN  /\ job' = [n \in Seqs |-> IF n # adopted THEN "none" ELSE IF job[n] = "none" THEN "owed" ELSE job[n]]
            /\ src' = [n \in Seqs |-> IF n # adopted THEN -1 ELSE left[n]]
            /\ seqFile' = counter /\ pending' = adopted /\ seq' = newest
            /\ state' = IF adopted # 0 /\ job'[adopted] # "quick" THEN "pending"
                        ELSE IF clip # 0 THEN "ready" ELSE "idle"
    /\ tmp' = {} /\ reason' = "none" /\ queue' = 0 /\ floor' = 0
    /\ armSeen' = FALSE /\ recArmed' = FALSE /\ busy' = 0 /\ preempt' = FALSE /\ proc' = 0
    /\ enc' = [n \in Seqs |-> NoEncoder] /\ thread' = [t \in Threads |-> Idle]
    /\ wasArmed' = FALSE /\ ended' = FALSE
    /\ UNCHANGED <<clip, whole, worth, armed, starts, faults, finished>>

Init ==
    /\ state = "idle" /\ reason = "none" /\ queue = 0 /\ worth = {}
    /\ seq = 0 /\ floor = 0 /\ pending = 0 /\ armSeen = FALSE /\ recArmed = FALSE
    /\ busy = 0 /\ preempt = FALSE /\ proc = 0 /\ thread = [t \in Threads |-> Idle]
    /\ enc = [n \in Seqs |-> NoEncoder] /\ wasArmed = FALSE /\ ended = FALSE
    /\ src = [n \in Seqs |-> -1] /\ job = [n \in Seqs |-> "none"] /\ tmp = {} /\ clip = 0 /\ whole = FALSE
    /\ seqFile = 0 /\ armed = FALSE /\ starts = 0 /\ crashes = 0 /\ faults = 0 /\ finished = 0

Stop(t) == StopTakes(t) \/ StopRefused(t) \/ StopKeeps(t) \/ StopDiscards(t) \/ StopWrites(t) \/ Returns(t)

\* What the threads do of themselves.
Work ==
    \/ OnArmed \/ Repeats \/ MaybeRenderPending
    \/ \E t \in Threads : StartBegins(t) \/ Stop(t)
    \/ \E n \in Seqs : Encoder(n)

Next ==
    \/ Work \/ OfferFrames \/ Earns \/ WriterFails \/ FlightEnds \/ RecordStart \/ RecordStop \/ Arms \/ Disarms
    \/ Crash

\* No thread stops half way, heartbeats go on, and processes end: they have a
\* deadline. That one of them moves while one can is all that is needed.
Fairness == WF_vars(Work)

Spec == Init /\ [][Next]_vars /\ Fairness

-----------------------------------------------------------------------------
\* A recording with frames that stop has kept can still be watched or rendered, or
\* a newer one can: on the disk as a crash at this moment leaves it there is a clip
\* that its own render alone wrote, or frames that a boot will find. Excepted are
\* recordings that an encoder gave up, and those for which it promoted a file that
\* another encoder had written as well, or instead.
NewestSurvives ==
    finished # 0 => (whole /\ clip >= finished) \/ \E n \in Seqs : n >= finished /\ src[n] = 1

\* When the aircraft stays disarmed and nobody records, whatever is owed comes to
\* its end: rendered, superseded or put aside, also when it was left by another process.
Quiet == ~armed /\ state # "recording" /\ \A t \in Threads : thread[t].at # "starting"
OwedIsSettled == <>[]Quiet => <>[](\A n \in Seqs : job[n] = "none" /\ At(n, "idle"))

\* recorder.py:1227: a job is only retired once an mp4 of this flight is in place.
RetiredForItsClip == \A n \in Seqs : At(n, "drop") /\ clip = n => whole

\* recorder.py:41-42: a short recording that never got airborne does not replace the clip.
BenchNeverReplaces == [][clip # 0 /\ clip' # clip => clip' \in worth]_vars
=============================================================================
