----------------------------- MODULE TurnTimeline -----------------------------
(***************************************************************************)
(* pipecat_runtime/observers.py: RuntimeMetricsObserver sees every frame   *)
(* of a session once per hop through the pipeline, cuts them into turns,   *)
(* and records a turn when the next one begins.  on_push_frame reads the   *)
(* time first and may then wait for the tracker; meanwhile messages of the *)
(* client mark the turn under way (worker_factory.py, on_client_message).  *)
(*                                                                         *)
(* Pipecat gives an observer a queue and a task of its own, which calls    *)
(* on_push_frame for one frame after the other.  Of the frames that only   *)
(* mark an event, and of the four segments of a turn, one stands for all;  *)
(* MetricsFrames, whose values are recorded as they come, are left out.    *)
(***************************************************************************)
EXTENDS LatencyTracker, Integers, SequencesExt, FiniteSets

CONSTANTS
    SeenLimit,   (* frames remembered before the older half is dropped     *)
    MaxClock,    (* bound: ticks of the clock                              *)
    MaxJobs,     (* bound: client messages that wait for the tracker       *)
    MaxLost      (* bound: no write fails when so many lines are lost      *)

ASSUME SeenAssumption == SeenLimit \in Nat \ {0, 1}
ASSUME ClockAssumption == MaxClock \in Nat /\ MaxJobs \in Nat /\ MaxLost \in Nat

VARIABLES
    clock,       (* time.monotonic()                                       *)
    hops,        (* the observer's queue: frames, once per hop             *)
    observer,    (* its fields                                             *)
    job,         (* what its task still has to record, and then to do      *)
    clientJobs   (* what the tasks of client messages have to record       *)

timelineVars == <<trackerVars, clock, hops, observer, job, clientJobs>>
-----------------------------------------------------------------------------
None == -1
Events == {"vad_speech_start", "vad_speech_end", "stt_final", "server_audio_sent",
           "interruption_detected", "client_audible_start", "client_audio_stopped"}
NoMarks == [e \in Events |-> None]

(* TurnTimeline.mark: the first occurrence wins.                           *)
Mark(turn, event, at) == IF turn[event] = None THEN [turn EXCEPT ![event] = at] ELSE turn

Marked(event) == [observer EXCEPT !.turn = Mark(@, event, clock)]

NewObserver ==
    [seen |-> <<>>, turn |-> NoMarks, bargeStartedAt |-> None, userStoppedAt |-> None,
     botSpeaking |-> FALSE]

Idle == [records |-> <<>>, then |-> "nothing", now |-> None]

(* The task has ended: the exception of record() went through              *)
(* on_push_frame, and the queue is not read any more.                      *)
Failed == [records |-> <<>>, then |-> "failed", now |-> None]

ObserverInit ==
    /\ TrackerInit
    /\ clock = 0
    /\ hops = <<>>
    /\ observer = NewObserver
    /\ job = Idle
    /\ clientJobs = <<>>
-----------------------------------------------------------------------------
RemembersAll(seen, id) == Append(seen, id)

ForgetsAll(seen, id) ==
    IF Len(seen) = SeenLimit THEN <<>> ELSE Append(seen, id)

(* What is kept of the ids of frames already seen, oldest first.           *)
Remembers(seen, id) ==
    IF Len(seen) = SeenLimit
    THEN SubSeq(Append(seen, id), SeenLimit \div 2 + 1, SeenLimit + 1)
    ELSE Append(seen, id)

(* on_push_frame, up to its first await: an observer and what its task has *)
(* to wait for.                                                            *)
Handled(o) == observer' = o /\ UNCHANGED job

HandledThen(o, records, then) ==
    /\ observer' = o
    /\ job' = [records |-> records, then |-> then, now |-> clock]

(* What _flush_turn records of a turn: nothing of one without a beginning; *)
(* and of one whose audio was sent before the user had stopped neither the *)
(* negative segment nor the timeline, whose value record() rejects.        *)
TurnRecords(turn) ==
    LET end == turn["vad_speech_end"]
        sent == turn["server_audio_sent"]
        whole == None \notin {end, sent} IN
    IF turn["vad_speech_start"] = None \/ (whole /\ sent < end) THEN <<>>
    ELSE IF whole THEN <<"turn_timeline", "segment">> ELSE <<"turn_timeline">>

FlushesTurn(o) ==
    LET fresh == [o EXCEPT !.turn = NoMarks]
        records == TurnRecords(o.turn) IN
    \/ /\ records = <<>>
       /\ Handled([fresh EXCEPT !.turn = Mark(@, "vad_speech_start", clock)])
    \/ /\ records # <<>>
       /\ HandledThen(fresh, records, "beginsTurn")

UserStartedFrame(o) ==
    LET heard == [o EXCEPT !.userStoppedAt = None] IN
    \/ /\ o.botSpeaking
       /\ Handled([heard EXCEPT !.bargeStartedAt = clock,
                                !.turn = Mark(@, "interruption_detected", clock)])
    \/ /\ ~ o.botSpeaking
       /\ FlushesTurn(heard)

UserStoppedFrame(o) ==
    Handled([o EXCEPT !.userStoppedAt = clock, !.turn = Mark(@, "vad_speech_end", clock)])

TranscriptionFrame(o) ==
    LET marked == [o EXCEPT !.turn = Mark(@, "stt_final", clock)] IN
    \/ /\ o.userStoppedAt = None
       /\ Handled(marked)
    \/ /\ o.userStoppedAt # None
       /\ HandledThen(marked, <<"turn_end_to_stt_final">>, "forgetsStop")

BotStartedFrame(o) ==
    Handled([o EXCEPT !.botSpeaking = TRUE, !.turn = Mark(@, "server_audio_sent", clock)])

BotStoppedFrame(o) ==
    LET silent == [o EXCEPT !.botSpeaking = FALSE] IN
    \/ /\ o.bargeStartedAt = None
       /\ Handled(silent)
    \/ /\ o.bargeStartedAt # None
       /\ HandledThen(silent, <<"barge_in_audible_stop">>, "forgetsBargeIn")

OnPushFrame ==
    /\ job = Idle
    /\ hops # <<>>
    /\ hops' = Tail(hops)
    /\ LET frame == Head(hops)
           o == [observer EXCEPT !.seen = Remembers(@, frame.id)] IN
       \/ /\ frame.id \in ToSet(observer.seen)
          /\ UNCHANGED <<observer, job>>
       \/ /\ frame.id \notin ToSet(observer.seen)
          /\ \/ frame.type = "userStarted" /\ UserStartedFrame(o)
             \/ frame.type = "userStopped" /\ UserStoppedFrame(o)
             \/ frame.type = "transcription" /\ TranscriptionFrame(o)
             \/ frame.type = "botStarted" /\ BotStartedFrame(o)
             \/ frame.type = "botStopped" /\ BotStoppedFrame(o)
    /\ UNCHANGED <<trackerVars, clock, clientJobs>>

(* The task records what it has to, one after the other.                   *)
ObserverRecords ==
    /\ job.records # <<>>
    /\ holder # "observer"
    /\ Appends("observer", Head(job.records))
    /\ UNCHANGED <<clock, hops, observer, job, clientJobs>>

(* After the last one on_push_frame goes on.                               *)
ContinuedLate ==
    CASE job.then = "beginsTurn" -> Marked("vad_speech_start")
      [] job.then = "forgetsStop" -> [observer EXCEPT !.userStoppedAt = None]
      [] job.then = "forgetsBargeIn" -> [observer EXCEPT !.bargeStartedAt = None]
      [] OTHER -> observer

Continued ==
    CASE job.then = "beginsTurn" ->
            [observer EXCEPT !.turn = Mark(@, "vad_speech_start", job.now)]
      [] job.then = "forgetsStop" -> [observer EXCEPT !.userStoppedAt = None]
      [] job.then = "forgetsBargeIn" -> [observer EXCEPT !.bargeStartedAt = None]
      [] OTHER -> observer

ObserverContinues ==
    /\ Returns("observer")
    /\ \/ /\ Len(job.records) > 1
          /\ job' = [job EXCEPT !.records = Tail(@)]
          /\ UNCHANGED observer
       \/ /\ Len(job.records) = 1
          /\ job' = Idle
          /\ observer' = Continued
    /\ UNCHANGED <<clock, hops, clientJobs>>

ObserverFails ==
    /\ Raises("observer")
    /\ job' = Failed
    /\ UNCHANGED <<clock, hops, observer, clientJobs>>
-----------------------------------------------------------------------------
(* mark_client_event at once, and the record in the task of the message.   *)
OnClientMessage(message) ==
    /\ \/ /\ message.type = "client.playback.started"
          /\ observer' = Marked("client_audible_start")
          /\ clientJobs' = IF message.measured THEN Append(clientJobs, "client_audible_start")
                                               ELSE clientJobs
       \/ /\ message.type = "client.barge_in.stopped"
          /\ observer' = Marked("client_audio_stopped")
          /\ clientJobs' = Append(clientJobs, "client_barge_in_audible_stop")
    /\ UNCHANGED <<trackerVars, clock, hops, job>>

ClientRecords ==
    /\ clientJobs # <<>>
    /\ holder # "client"
    /\ Appends("client", Head(clientJobs))
    /\ UNCHANGED <<clock, hops, observer, job, clientJobs>>

(* The task of a message is done, also with an exception.                  *)
ClientReturns ==
    /\ clientJobs # <<>>
    /\ Returns("client") \/ Raises("client")
    /\ clientJobs' = Tail(clientJobs)
    /\ UNCHANGED <<clock, hops, observer, job>>

(* The executor, and _append_line of one of the threads under way.         *)
ThreadBegins ==
    /\ \E line \in queued : LineBegun(line)
    /\ UNCHANGED <<clock, hops, observer, job, clientJobs>>

Writes ==
    /\ \E line \in writing :
          \/ LineWritten(line)
          \/ Cardinality(lost) < MaxLost /\ LineFails(line)
    /\ UNCHANGED <<clock, hops, observer, job, clientJobs>>

(* The worker ends and its tasks are cancelled: the turn under way is not  *)
(* recorded.  The next worker has an observer of its own.                  *)
WorkerEnds ==
    /\ Cancelled({"observer", "client"})
    /\ hops' = <<>>
    /\ observer' = NewObserver
    /\ job' = Idle
    /\ clientJobs' = <<>>
    /\ UNCHANGED clock

ClockTicks ==
    /\ clock < MaxClock
    /\ clock' = clock + 1
    /\ UNCHANGED <<trackerVars, hops, observer, job, clientJobs>>

Recording ==
    \/ OnPushFrame \/ ObserverRecords \/ ObserverContinues \/ ObserverFails
    \/ ClientRecords \/ ClientReturns \/ ThreadBegins \/ Writes

ObserverTypeOK ==
    /\ TrackerTypeOK
    /\ clock \in 0 .. MaxClock
    /\ observer.turn \in [Events -> None .. MaxClock]
    /\ Len(observer.seen) <= SeenLimit
    /\ holder \in {Nobody, "observer", "client"}

(* No event of a turn comes before its beginning, although the beginning   *)
(* is marked after the wait for the tracker, in which the client's events  *)
(* mark the same turn: on_push_frame read the time before.                 *)
OffsetsNotNegative ==
    LET start == observer.turn["vad_speech_start"] IN
    start # None => \A e \in Events : observer.turn[e] # None => observer.turn[e] >= start

(* The lock is held by a task that waits for the record that was appended  *)
(* last, the one it has to make: a session that is cancelled while its     *)
(* line is written, or waits to be, and one whose write fails, leave the   *)
(* lock to the sessions after them, and none of these goes on with it.     *)
LockHasItsTask ==
    /\ holder = "observer" => job.records # <<>> /\ Last(memory) = Head(job.records)
    /\ holder = "client" => clientJobs # <<>> /\ Last(memory) = Head(clientJobs)
=============================================================================
