------------------------- MODULE TurnMeasurementProofs -------------------------
(***************************************************************************)
(* Theorems about the measures of TurnMeasurement for every number of      *)
(* sessions, every length of the data channel and every limit of the       *)
(* observer: what LatencyTracker writes, and when a turn begins.           *)
(***************************************************************************)
EXTENDS TurnMeasurement, SequenceTheorems, TLAPS

(* The tracker: the tasks that append, and the lines that threads write.   *)
Metrics == {"turn_timeline", "segment", "turn_end_to_stt_final", "barge_in_audible_stop",
            "client_audible_start", "client_barge_in_audible_stop"}

TrackerTypes ==
    /\ memory \in Seq(Metrics)
    /\ file \in Seq(Nat)
    /\ holder \in {Nobody, "observer", "client"}
    /\ queued \cup writing \cup lost \subseteq 1 .. Len(memory)
    /\ inOrder \in BOOLEAN

TrackerInv == TrackerTypes /\ FileFollowsMemory

(* The observer.                                                           *)
Times == None .. MaxClock
Frames == [id : Nat,
           type : {"none", "userStarted", "userStopped", "transcription", "botStarted",
                   "botStopped"}]
Observers == [seen : Seq(Nat), turn : [Events -> Times], bargeStartedAt : Times,
              userStoppedAt : Times, botSpeaking : BOOLEAN]
Jobs == [records : Seq(Metrics),
         then : {"nothing", "failed", "beginsTurn", "forgetsStop", "forgetsBargeIn"},
         now : Times]

ObserverTypes ==
    /\ clock \in 0 .. MaxClock
    /\ hops \in Seq(Frames) /\ pushed \in Nat /\ last \in Frames
    /\ observer \in Observers
    /\ Len(observer.seen) <= SeenLimit
    /\ job \in Jobs
    /\ clientJobs \in Seq(Metrics)
    /\ holder = "observer" => job.records # <<>>
    /\ holder = "client" => clientJobs # <<>>

(* Nothing is marked in the future; a turn that is about to begin has no   *)
(* mark older than its beginning, which on_push_frame has read already.    *)
TurnInTime ==
    /\ \A e \in Events : observer.turn[e] <= clock
    /\ OffsetsNotNegative
    /\ job.then = "beginsTurn" =>
          /\ job.now \in 0 .. clock
          /\ observer.turn["vad_speech_start"] = None
          /\ \A e \in Events : observer.turn[e] # None => observer.turn[e] >= job.now

(* The page.                                                               *)
Down == [type : {"ready", "userStarted", "userStopped", "botStarted", "botStopped"}]
            \cup [type : {"transcript"}, text : {Blank, 1}, final : BOOLEAN]
            \cup [type : {"output"}, text : {Blank, 1}]
Up == [type : {"client.barge_in.stopped"}]
          \cup [type : {"client.playback.started"}, measured : BOOLEAN]
Pages == [botSpeaking : BOOLEAN, bargeInStarted : BOOLEAN, userStopped : BOOLEAN,
          partialUserMessage : {Blank, 1}]

PageTypes ==
    /\ page \in Pages
    /\ conn \in {"off", "connecting", "up", "lost"}
    /\ heard \in BOOLEAN
    /\ down \in Seq(Down) /\ Len(down) <= ChannelSize
    /\ up \in Seq(Up) /\ Len(up) <= ChannelSize

HostInv == TrackerInv /\ ObserverTypes /\ TurnInTime

MInv == HostInv /\ PageTypes

-----------------------------------------------------------------------------
(* The tracker.                                                            *)

(* A task that finds the lock free appends a record, whose line waits for  *)
(* a thread.                                                               *)
LEMMA AppendsTracker ==
    ASSUME TrackerInv, NEW task \in {"observer", "client"}, NEW metric \in Metrics,
           Appends(task, metric)
    PROVE  TrackerInv' /\ holder' = task
<1> DEFINE n == Len(memory)
<1>1. /\ memory \in Seq(Metrics) /\ DOMAIN memory = 1 .. n /\ n \in Nat
      /\ file \in Seq(Nat) /\ inOrder \in BOOLEAN
      /\ queued \cup writing \cup lost \subseteq 1 .. n
    BY DEF TrackerInv, TrackerTypes
<1>2. /\ holder = Nobody /\ holder' = task
      /\ memory' = Append(memory, metric) /\ queued' = queued \cup {n + 1}
      /\ UNCHANGED <<file, writing, lost, inOrder>>
    BY DEF Appends
<1>3. /\ memory' \in Seq(Metrics) /\ Len(memory') = n + 1 /\ DOMAIN memory' = 1 .. n + 1
    BY <1>1, <1>2
<1>4. /\ 1 .. n = {file[i] : i \in DOMAIN file} \cup queued \cup writing \cup lost
      /\ \A i, j \in DOMAIN file : file[i] = file[j] => i = j
      /\ \A i \in DOMAIN file : file[i] \notin queued \cup writing \cup lost
      /\ queued \cap writing = {} /\ lost \cap (queued \cup writing) = {}
      /\ queued = {}
      /\ inOrder => \A i, j \in DOMAIN file : i < j => file[i] < file[j]
      /\ inOrder => writing = {}
    BY <1>1, <1>2 DEF TrackerInv, FileFollowsMemory
<1> HIDE DEF n
<1>5. TrackerTypes'
    BY <1>1, <1>2, <1>3 DEF TrackerTypes
<1>6. n + 1 \notin 1 .. n /\ 1 .. n + 1 = (1 .. n) \cup {n + 1}
    BY <1>1
<1>7. DOMAIN memory' = {file[i] : i \in DOMAIN file} \cup queued' \cup writing \cup lost
    BY <1>2, <1>3, <1>4, <1>6
<1>8. \A i \in DOMAIN file : file[i] \notin queued' \cup writing \cup lost
    BY <1>2, <1>4, <1>6
<1>9. queued' \cap writing = {} /\ lost \cap (queued' \cup writing) = {}
    BY <1>1, <1>2, <1>4, <1>6
<1>10. \A line \in queued' : line = Len(memory') /\ holder' # Nobody
    BY <1>2, <1>3, <1>4 DEF Nobody
<1>11. FileFollowsMemory'
    BY <1>2, <1>4, <1>7, <1>8, <1>9, <1>10 DEF FileFollowsMemory
<1> QED BY <1>2, <1>5, <1>11 DEF TrackerInv

(* A thread takes the line that waits, with the lock still held for it.    *)
LEMMA BegunTracker ==
    ASSUME TrackerInv, NEW line \in queued, LineBegun(line)
    PROVE  TrackerInv'
<1>1. /\ queued' = queued \ {line} /\ writing' = writing \cup {line}
      /\ UNCHANGED <<memory, file, holder, lost, inOrder>>
    BY DEF LineBegun
<1>2. /\ line = Len(memory) /\ holder # Nobody /\ line \notin writing /\ line \notin lost
      /\ \A i \in DOMAIN file : file[i] # line
    BY DEF TrackerInv, FileFollowsMemory
<1>3. TrackerTypes'
    BY <1>1 DEF TrackerInv, TrackerTypes
<1>4. queued' \cup writing' = queued \cup writing /\ queued' \cap writing' = {}
    BY <1>1, <1>2 DEF TrackerInv, FileFollowsMemory
<1>5. FileFollowsMemory'
    <2>1. DOMAIN memory' = {file'[i] : i \in DOMAIN file'} \cup queued' \cup writing' \cup lost'
        BY <1>1, <1>4 DEF TrackerInv, FileFollowsMemory
    <2>2. \A i \in DOMAIN file' : file'[i] \notin queued' \cup writing' \cup lost'
        BY <1>1, <1>4 DEF TrackerInv, FileFollowsMemory
    <2>3. lost' \cap (queued' \cup writing') = {}
        BY <1>1, <1>4 DEF TrackerInv, FileFollowsMemory
    <2>4. \A l \in queued' : l = Len(memory') /\ holder' # Nobody
        BY <1>1 DEF TrackerInv, FileFollowsMemory
    <2>5. inOrder' => \A l \in writing' : l = Len(memory') /\ holder' # Nobody
        BY <1>1, <1>2 DEF TrackerInv, FileFollowsMemory
    <2> QED BY <1>1, <1>4, <2>1, <2>2, <2>3, <2>4, <2>5 DEF TrackerInv, FileFollowsMemory
<1> QED BY <1>3, <1>5 DEF TrackerInv

(* A thread writes its line.                                               *)
LEMMA WrittenTracker ==
    ASSUME TrackerInv, NEW line \in writing, LineWritten(line)
    PROVE  TrackerInv'
<1> DEFINE n == Len(memory)
           f == Len(file)
<1>1. /\ memory \in Seq(Metrics) /\ DOMAIN memory = 1 .. n /\ n \in Nat
      /\ file \in Seq(Nat) /\ DOMAIN file = 1 .. f /\ f \in Nat
      /\ queued \cup writing \cup lost \subseteq 1 .. n /\ inOrder \in BOOLEAN
      /\ holder \in {Nobody, "observer", "client"}
    BY DEF TrackerInv, TrackerTypes
<1>2. /\ file' = Append(file, line) /\ writing' = writing \ {line}
      /\ UNCHANGED <<memory, holder, queued, lost, inOrder>>
    BY DEF LineWritten
<1>3. /\ file' \in Seq(Nat) /\ DOMAIN file' = 1 .. f + 1 /\ file'[f + 1] = line
      /\ \A i \in 1 .. f : file'[i] = file[i]
    BY <1>1, <1>2
<1>4. /\ 1 .. n = {file[i] : i \in 1 .. f} \cup queued \cup writing \cup lost
      /\ \A i, j \in 1 .. f : file[i] = file[j] => i = j
      /\ \A i \in 1 .. f : file[i] \notin queued \cup writing \cup lost
      /\ queued \cap writing = {} /\ lost \cap (queued \cup writing) = {}
      /\ inOrder => \A i, j \in 1 .. f : i < j => file[i] < file[j]
      /\ inOrder => line = n
    BY <1>1 DEF TrackerInv, FileFollowsMemory
<1> HIDE DEF n, f
<1>5. 1 .. f + 1 = (1 .. f) \cup {f + 1} /\ f + 1 \notin 1 .. f
    BY <1>1
<1>6. TrackerTypes'
    BY <1>1, <1>2, <1>3 DEF TrackerTypes, n
<1>7. {file'[i] : i \in DOMAIN file'} = {file[i] : i \in 1 .. f} \cup {line}
    BY <1>3, <1>5
<1>8. DOMAIN memory' = {file'[i] : i \in DOMAIN file'} \cup queued' \cup writing' \cup lost'
    <2>1. DOMAIN memory' = {file[i] : i \in 1 .. f} \cup (queued \cup writing \cup lost)
        BY <1>1, <1>2, <1>4
    <2>2. {line} \cup (queued' \cup writing' \cup lost') = queued \cup writing \cup lost
        BY <1>2
    <2> QED BY <1>7, <2>1, <2>2
<1>9. \A i, j \in DOMAIN file' : file'[i] = file'[j] => i = j
    BY <1>3, <1>4, <1>5
<1>10. \A i \in DOMAIN file' : file'[i] \notin queued' \cup writing' \cup lost'
    BY <1>2, <1>3, <1>4, <1>5
<1>11. ASSUME inOrder, NEW i \in DOMAIN file', NEW j \in DOMAIN file', i < j
       PROVE  file'[i] < file'[j]
    <2>1. i \in 1 .. f /\ file'[i] = file[i]
        BY <1>1, <1>3, <1>11
    <2>2. CASE j \in 1 .. f
        BY <1>3, <1>4, <1>11, <2>1, <2>2
    <2>3. CASE j = f + 1
        <3>1. file[i] \in 1 .. n /\ file[i] # n
            BY <1>4, <1>11, <2>1
        <3> QED BY <1>1, <1>3, <1>4, <1>11, <2>1, <2>3, <3>1
    <2> QED BY <1>3, <1>5, <2>2, <2>3
<1>12. queued' \cap writing' = {} /\ lost' \cap (queued' \cup writing') = {}
    BY <1>2, <1>4
<1>13. FileFollowsMemory'
    <2>1. inOrder' => \A l \in writing' : l = Len(memory') /\ holder' # Nobody
        BY <1>2 DEF TrackerInv, FileFollowsMemory
    <2>2. \A l \in queued' : l = Len(memory') /\ holder' # Nobody
        BY <1>2 DEF TrackerInv, FileFollowsMemory
    <2> QED BY <1>2, <1>8, <1>9, <1>10, <1>11, <1>12, <2>1, <2>2 DEF FileFollowsMemory
<1> QED BY <1>6, <1>13 DEF TrackerInv

(* A line that was on its way is lost.                                     *)
LEMMA LostTracker ==
    ASSUME TrackerInv, NEW gone, gone \subseteq queued \cup writing,
           queued' = queued \ gone, writing' = writing \ gone, lost' = lost \cup gone,
           UNCHANGED <<memory, file>>,
           inOrder' \in BOOLEAN, inOrder' => inOrder,
           holder' \in {Nobody, "observer", "client"},
           \A line \in queued' : holder' # Nobody,
           inOrder' => \A line \in writing' : holder' # Nobody
    PROVE  TrackerInv'
<1>1. TrackerTypes'
    BY DEF TrackerInv, TrackerTypes
<1>2. queued' \cup writing' \cup lost' = queued \cup writing \cup lost
    OBVIOUS
<1>3. DOMAIN memory' = {file'[i] : i \in DOMAIN file'} \cup queued' \cup writing' \cup lost'
    <2>1. DOMAIN memory = {file[i] : i \in DOMAIN file} \cup (queued \cup writing \cup lost)
        BY DEF TrackerInv, FileFollowsMemory
    <2> QED BY <1>2, <2>1
<1>4. \A i \in DOMAIN file' : file'[i] \notin queued' \cup writing' \cup lost'
    BY <1>2 DEF TrackerInv, FileFollowsMemory
<1>5. queued' \cap writing' = {} /\ lost' \cap (queued' \cup writing') = {}
    BY DEF TrackerInv, FileFollowsMemory
<1>6. \A line \in queued' : line = Len(memory') /\ holder' # Nobody
    BY DEF TrackerInv, FileFollowsMemory
<1>7. inOrder' => /\ \A i, j \in DOMAIN file' : i < j => file'[i] < file'[j]
                  /\ \A line \in writing' : line = Len(memory') /\ holder' # Nobody
    BY DEF TrackerInv, FileFollowsMemory
<1>8. \A i, j \in DOMAIN file' : file'[i] = file'[j] => i = j
    BY DEF TrackerInv, FileFollowsMemory
<1>9. FileFollowsMemory'
    BY <1>3, <1>4, <1>5, <1>6, <1>7, <1>8 DEF FileFollowsMemory
<1> QED BY <1>1, <1>9 DEF TrackerInv

(* A write fails: the line is lost, and the lock still held.               *)
LEMMA FailsTracker ==
    ASSUME TrackerInv, NEW line \in writing, LineFails(line)
    PROVE  TrackerInv'
<1>1. /\ writing' = writing \ {line} /\ lost' = lost \cup {line}
      /\ UNCHANGED <<memory, file, holder, queued, inOrder>>
    BY DEF LineFails
<1>2. line \notin queued
    BY DEF TrackerInv, FileFollowsMemory
<1>3. /\ inOrder' \in BOOLEAN /\ holder' \in {Nobody, "observer", "client"}
      /\ \A l \in queued' : holder' # Nobody
      /\ inOrder' => \A l \in writing' : holder' # Nobody
    BY <1>1 DEF TrackerInv, TrackerTypes, FileFollowsMemory
<1>4. queued' = queued \ {line}
    BY <1>1, <1>2
<1> QED BY <1>1, <1>3, <1>4, LostTracker

(* A task is done with its record, in one way or the other.                *)
LEMMA LetsGoTracker ==
    ASSUME TrackerInv, NEW task, LetsGo(task)
    PROVE  TrackerInv' /\ holder' = Nobody
<1>1. /\ Len(memory) \notin queued \cup writing /\ holder' = Nobody
      /\ UNCHANGED <<memory, file, queued, writing, lost, inOrder>>
    BY DEF LetsGo
<1>2. queued = {} /\ (inOrder => writing = {})
    BY <1>1 DEF TrackerInv, FileFollowsMemory
<1>3. inOrder' \in BOOLEAN
    BY <1>1 DEF TrackerInv, TrackerTypes
<1> QED BY <1>1, <1>2, <1>3, LostTracker

(* The tasks of a worker are cancelled.                                    *)
LEMMA CancelledTracker ==
    ASSUME TrackerInv, Cancelled({"observer", "client"})
    PROVE  TrackerInv' /\ holder' = Nobody
<1> DEFINE n == Len(memory)
           gone == IF holder \in {"observer", "client"} THEN queued \cap {n} ELSE {}
<1>1. /\ holder' = IF holder \in {"observer", "client"} THEN Nobody ELSE holder
      /\ inOrder' = (inOrder /\ ~ (holder \in {"observer", "client"} /\ n \in writing))
      /\ queued' = queued \ gone /\ lost' = lost \cup gone
      /\ UNCHANGED <<memory, file, writing>>
    BY DEF Cancelled
<1>2. /\ holder \in {Nobody, "observer", "client"}
      /\ \A line \in queued : line = n /\ holder # Nobody
      /\ queued \cap writing = {}
      /\ inOrder => \A line \in writing : line = n /\ holder # Nobody
    BY DEF TrackerInv, TrackerTypes, FileFollowsMemory
<1> HIDE DEF n
<1>3. holder' = Nobody
    BY <1>1, <1>2
<1>4. gone = queued
    BY <1>2
<1>5. /\ inOrder' \in BOOLEAN /\ (inOrder' => inOrder)
      /\ (inOrder' => ~ (holder \in {"observer", "client"} /\ n \in writing))
    BY <1>1
<1>6. inOrder' => writing = {}
    BY <1>2, <1>5
<1> HIDE DEF gone
<1>7. queued' = {} /\ writing' = writing \ gone
    BY <1>1, <1>2, <1>4
<1> QED BY <1>1, <1>3, <1>4, <1>5, <1>6, <1>7, LostTracker

(* Who leaves the tracker alone keeps its invariant.                       *)
LEMMA SameTracker ==
    ASSUME TrackerInv, UNCHANGED trackerVars
    PROVE  TrackerInv'
BY DEF TrackerInv, trackerVars, TrackerTypes, FileFollowsMemory

-----------------------------------------------------------------------------
(* The observer.                                                           *)

(* Good marks are in the past, and none is older than the beginning.       *)
Good(turn) ==
    /\ turn \in [Events -> Times]
    /\ \A e \in Events : turn[e] <= clock
    /\ turn["vad_speech_start"] # None =>
           \A e \in Events : turn[e] # None => turn[e] >= turn["vad_speech_start"]

Fine(o) == o \in Observers /\ Len(o.seen) <= SeenLimit /\ Good(o.turn)

(* Times are numbers, or none.                                             *)
LEMMA ClockTypes ==
    ASSUME ObserverTypes
    PROVE  /\ clock \in Times /\ clock \in 0 .. clock /\ clock \in Nat /\ None \in Times
           /\ \A t \in Times : t \in Int /\ (t # None => t >= 0) /\ t >= None
           /\ MaxClock \in Nat
BY ClockAssumption DEF ObserverTypes, Times, None

(* A mark is set once.                                                     *)
LEMMA MarkEffect ==
    ASSUME NEW turn \in [Events -> Times], NEW event \in Events, NEW at \in Times
    PROVE  /\ Mark(turn, event, at) \in [Events -> Times]
           /\ \A e \in Events : Mark(turn, event, at)[e] =
                  IF e = event /\ turn[e] = None THEN at ELSE turn[e]
BY DEF Mark

(* An event other than the beginning is marked.                            *)
LEMMA MarkGood ==
    ASSUME ObserverTypes, NEW turn, Good(turn), NEW event \in Events,
           event # "vad_speech_start"
    PROVE  Good(Mark(turn, event, clock))
<1>1. /\ turn \in [Events -> Times]
      /\ \A e \in Events : turn[e] <= clock
      /\ turn["vad_speech_start"] # None =>
             \A e \in Events : turn[e] # None => turn[e] >= turn["vad_speech_start"]
    BY DEF Good
<1> DEFINE res == Mark(turn, event, clock)
<1>2. /\ res \in [Events -> Times]
      /\ \A e \in Events : res[e] = IF e = event /\ turn[e] = None THEN clock ELSE turn[e]
    BY <1>1, ClockTypes, MarkEffect
<1> HIDE DEF res
<1>3. "vad_speech_start" \in Events
    BY DEF Events
<1>4. res["vad_speech_start"] = turn["vad_speech_start"]
    BY <1>2, <1>3
<1>5. \A e \in Events : res[e] <= clock
    BY <1>1, <1>2, ClockTypes
<1>6. ASSUME turn["vad_speech_start"] # None, NEW e \in Events, res[e] # None
      PROVE  res[e] >= turn["vad_speech_start"]
    <2>1. turn["vad_speech_start"] <= clock /\ turn["vad_speech_start"] \in Int /\ clock \in Int
        BY <1>1, <1>3, ClockTypes
    <2>2. CASE e = event /\ turn[e] = None
        BY <1>2, <2>1, <2>2
    <2>3. CASE ~ (e = event /\ turn[e] = None)
        BY <1>1, <1>2, <1>6, <2>3
    <2> QED BY <2>2, <2>3
<1>7. Good(res)
    BY <1>2, <1>4, <1>5, <1>6 DEF Good
<1> QED BY <1>7 DEF res

(* A turn begins, with nothing marked before.                              *)
LEMMA FreshGood ==
    ASSUME ObserverTypes
    PROVE  Good(NoMarks) /\ Good(Mark(NoMarks, "vad_speech_start", clock))
<1>1. NoMarks \in [Events -> Times] /\ \A e \in Events : NoMarks[e] = None
    BY ClockTypes DEF NoMarks
<1>2. "vad_speech_start" \in Events
    BY DEF Events
<1>3. Good(NoMarks)
    BY <1>1, <1>2, ClockTypes DEF Good, None
<1> DEFINE res == Mark(NoMarks, "vad_speech_start", clock)
<1>4. /\ res \in [Events -> Times]
      /\ \A e \in Events : res[e] = IF e = "vad_speech_start" /\ NoMarks[e] = None
                                    THEN clock ELSE NoMarks[e]
    BY <1>1, <1>2, ClockTypes, MarkEffect
<1> HIDE DEF res
<1>5. \A e \in Events : res[e] = IF e = "vad_speech_start" THEN clock ELSE None
    BY <1>1, <1>4
<1>6. Good(res)
    BY <1>2, <1>4, <1>5, ClockTypes DEF Good, None
<1> QED BY <1>3, <1>6 DEF res

(* The observer remembers at most SeenLimit frames.                        *)
LEMMA RemembersEffect ==
    ASSUME NEW seen \in Seq(Nat), Len(seen) <= SeenLimit, NEW id \in Nat
    PROVE  Remembers(seen, id) \in Seq(Nat) /\ Len(Remembers(seen, id)) <= SeenLimit
<1>1. SeenLimit \in Nat /\ SeenLimit >= 2 /\ Len(seen) \in Nat
    BY SeenAssumption
<1> DEFINE all == Append(seen, id)
           h == SeenLimit \div 2 + 1
<1>2. all \in Seq(Nat) /\ Len(all) = Len(seen) + 1
    OBVIOUS
<1>3. DOMAIN all = 1 .. Len(seen) + 1
    BY <1>2
<1>4. h \in Nat /\ h >= 2 /\ h <= SeenLimit + 1
    BY <1>1
<1>5. Remembers(seen, id) = IF Len(seen) = SeenLimit THEN SubSeq(all, h, SeenLimit + 1) ELSE all
    BY DEF Remembers
<1> HIDE DEF all, h
<1>6. CASE Len(seen) = SeenLimit
    <2> DEFINE res == SubSeq(all, h, SeenLimit + 1)
    <2>1. \A i \in h .. SeenLimit + 1 : all[i] \in Nat
        BY <1>1, <1>2, <1>3, <1>4, <1>6
    <2>2. /\ res \in Seq(Nat)
          /\ Len(res) = IF h <= SeenLimit + 1 THEN SeenLimit + 1 - h + 1 ELSE 0
        BY <1>1, <1>4, <2>1, SubSeqProperties
    <2> HIDE DEF res
    <2>3. Len(res) <= SeenLimit
        BY <1>1, <1>4, <2>2
    <2> QED BY <1>5, <1>6, <2>2, <2>3 DEF res
<1>7. CASE Len(seen) # SeenLimit
    BY <1>1, <1>2, <1>5, <1>7
<1> QED BY <1>6, <1>7

(* The fields of an observer change.                                       *)
LEMMA FineFields ==
    ASSUME ObserverTypes, NEW o, Fine(o), NEW t \in Times, NEW b \in BOOLEAN, NEW turn, Good(turn)
    PROVE  /\ Fine([o EXCEPT !.userStoppedAt = t])
           /\ Fine([o EXCEPT !.bargeStartedAt = t])
           /\ Fine([o EXCEPT !.botSpeaking = b])
           /\ Fine([o EXCEPT !.turn = turn])
           /\ [o EXCEPT !.userStoppedAt = t].turn = o.turn
           /\ [o EXCEPT !.bargeStartedAt = t].turn = o.turn
           /\ [o EXCEPT !.botSpeaking = b].turn = o.turn
           /\ [o EXCEPT !.turn = turn].turn = turn
<1>1. o \in Observers /\ Len(o.seen) <= SeenLimit /\ Good(o.turn)
    BY DEF Fine
<1>2. turn \in [Events -> Times]
    BY DEF Good
<1> QED BY <1>1, <1>2 DEF Fine, Observers

(* What on_push_frame leaves, up to its first await.                       *)
Left ==
    /\ Fine(observer')
    /\ \/ job' = Idle
       \/ /\ job' \in Jobs /\ job'.now = clock
          /\ job'.then = "beginsTurn" => observer'.turn = NoMarks

(* A frame that is handled without a record leaves the observer at rest.   *)
LEMMA HandledEffect ==
    ASSUME job = Idle, NEW o, Fine(o), Handled(o)
    PROVE  Left
BY DEF Handled, Left

(* A frame that leads to records leaves the observer with a job.           *)
LEMMA HandledThenEffect ==
    ASSUME ObserverTypes, NEW o, Fine(o), NEW records \in Seq(Metrics),
           NEW then \in {"nothing", "beginsTurn", "forgetsStop", "forgetsBargeIn"},
           then = "beginsTurn" => o.turn = NoMarks, HandledThen(o, records, then)
    PROVE  Left
<1>1. observer' = o /\ job' = [records |-> records, then |-> then, now |-> clock]
    BY DEF HandledThen
<1>2. job' \in Jobs /\ job'.now = clock /\ job'.then = then
    BY <1>1, ClockTypes DEF Jobs
<1> QED BY <1>1, <1>2 DEF Left

(* A mark at the present time keeps the turn in time.                      *)
LEMMA MarkedFine ==
    ASSUME ObserverTypes, NEW o, Fine(o), NEW event \in Events, event # "vad_speech_start"
    PROVE  Fine([o EXCEPT !.turn = Mark(@, event, clock)])
<1>1. Good(Mark(o.turn, event, clock))
    BY MarkGood DEF Fine
<1>2. None \in Times
    BY ClockTypes
<1> DEFINE turn == Mark(o.turn, event, clock)
<1> HIDE DEF turn
<1>3. Fine([o EXCEPT !.turn = turn])
    BY <1>1, <1>2, FineFields DEF turn
<1> QED BY <1>3 DEF turn

(* on_push_frame leaves the observer in order, whatever the frame.         *)
LEMMA OnPushFrameEffect ==
    ASSUME ObserverTypes, Good(observer.turn), OnPushFrame
    PROVE  Left
<1> DEFINE frame == Head(hops)
           o == [observer EXCEPT !.seen = Remembers(@, frame.id)]
<1>1. job = Idle /\ frame \in Frames
    BY DEF OnPushFrame, ObserverTypes
<1>2. observer \in Observers /\ Len(observer.seen) <= SeenLimit
    BY DEF ObserverTypes
<1>3. Fine(observer)
    BY <1>2 DEF Fine
<1>4. Fine(o)
    <2>1. frame.id \in Nat /\ observer.seen \in Seq(Nat)
        BY <1>1, <1>2 DEF Frames, Observers
    <2> DEFINE seen == Remembers(observer.seen, frame.id)
    <2>2. seen \in Seq(Nat) /\ Len(seen) <= SeenLimit
        BY <1>2, <2>1, RemembersEffect
    <2>3. o = [observer EXCEPT !.seen = seen]
        OBVIOUS
    <2> HIDE DEF seen, o, frame
    <2>4. o \in Observers /\ o.seen = seen /\ o.turn = observer.turn
        BY <1>2, <2>2, <2>3 DEF Observers
    <2> QED BY <2>2, <2>4 DEF Fine
<1>5. \/ UNCHANGED <<observer, job>>
      \/ UserStartedFrame(o) \/ UserStoppedFrame(o) \/ TranscriptionFrame(o)
      \/ BotStartedFrame(o) \/ BotStoppedFrame(o)
    BY DEF OnPushFrame
<1> HIDE DEF o, frame
<1>6. /\ clock \in Times /\ None \in Times /\ TRUE \in BOOLEAN /\ FALSE \in BOOLEAN
      /\ Good(NoMarks) /\ Good(Mark(NoMarks, "vad_speech_start", clock))
    BY ClockTypes, FreshGood
<1>7. CASE UNCHANGED <<observer, job>>
    BY <1>1, <1>3, <1>7 DEF Left
<1>8. CASE UserStartedFrame(o)
    <2> DEFINE hears == [o EXCEPT !.userStoppedAt = None]
    <2>1. Fine(hears)
        BY <1>4, <1>6, FineFields
    <2>2. \/ Handled([hears EXCEPT !.bargeStartedAt = clock,
                                   !.turn = Mark(@, "interruption_detected", clock)])
          \/ FlushesTurn(hears)
        BY <1>8 DEF UserStartedFrame
    <2> HIDE DEF hears
    <2>3. CASE Handled([hears EXCEPT !.bargeStartedAt = clock,
                                     !.turn = Mark(@, "interruption_detected", clock)])
        <3> DEFINE barged == [hears EXCEPT !.bargeStartedAt = clock]
                   res == [barged EXCEPT !.turn = Mark(@, "interruption_detected", clock)]
        <3>1. Fine(barged)
            BY <1>6, <2>1, FineFields
        <3>2. "interruption_detected" \in Events
            BY DEF Events
        <3>3. Handled(res)
            BY <2>3
        <3> HIDE DEF barged
        <3>4. Fine(res)
            BY <3>1, <3>2, MarkedFine
        <3> HIDE DEF res
        <3> QED BY <1>1, <3>3, <3>4, HandledEffect
    <2>4. CASE FlushesTurn(hears)
        <3> DEFINE fresh == [hears EXCEPT !.turn = NoMarks]
                   begun == [fresh EXCEPT !.turn = Mark(@, "vad_speech_start", clock)]
                   records == TurnRecords(hears.turn)
        <3>1. Fine(fresh) /\ fresh.turn = NoMarks
            BY <1>6, <2>1, FineFields
        <3>2. Handled(begun) \/ HandledThen(fresh, records, "beginsTurn")
            BY <2>4 DEF FlushesTurn
        <3>3. records \in Seq(Metrics)
            <4>1. records \in {<<>>, <<"turn_timeline">>, <<"turn_timeline", "segment">>}
                BY DEF TurnRecords
            <4>2. "turn_timeline" \in Metrics /\ "segment" \in Metrics
                BY DEF Metrics
            <4> HIDE DEF records
            <4>3. /\ <<>> \in Seq(Metrics) /\ <<"turn_timeline">> \in Seq(Metrics)
                  /\ <<"turn_timeline", "segment">> \in Seq(Metrics)
                BY <4>2
            <4> QED BY <4>1, <4>3
        <3> HIDE DEF fresh, records
        <3>4. Fine(begun)
            <4> DEFINE turn == Mark(NoMarks, "vad_speech_start", clock)
            <4>1. begun = [fresh EXCEPT !.turn = turn]
                BY <3>1
            <4>2. Good(turn)
                BY <1>6
            <4> HIDE DEF turn, begun
            <4>3. Fine([fresh EXCEPT !.turn = turn])
                BY <1>6, <3>1, <4>2, FineFields
            <4> QED BY <4>1, <4>3
        <3> HIDE DEF begun
        <3>5. CASE Handled(begun)
            BY <1>1, <3>4, <3>5, HandledEffect
        <3>6. CASE HandledThen(fresh, records, "beginsTurn")
            BY <3>1, <3>3, <3>6, HandledThenEffect
        <3> QED BY <3>2, <3>5, <3>6
    <2> QED BY <2>2, <2>3, <2>4
<1>9. CASE UserStoppedFrame(o)
    <2> DEFINE stopped == [o EXCEPT !.userStoppedAt = clock]
               res == [stopped EXCEPT !.turn = Mark(@, "vad_speech_end", clock)]
    <2>1. Fine(stopped)
        BY <1>4, <1>6, FineFields
    <2>2. "vad_speech_end" \in Events
        BY DEF Events
    <2>3. Handled(res)
        BY <1>9 DEF UserStoppedFrame
    <2> HIDE DEF stopped
    <2>4. Fine(res)
        BY <2>1, <2>2, MarkedFine
    <2> HIDE DEF res
    <2> QED BY <1>1, <2>3, <2>4, HandledEffect
<1>10. CASE TranscriptionFrame(o)
    <2> DEFINE marked == [o EXCEPT !.turn = Mark(@, "stt_final", clock)]
    <2>1. "stt_final" \in Events
        BY DEF Events
    <2>2. Fine(marked)
        BY <1>4, <2>1, MarkedFine
    <2>3. Handled(marked) \/ HandledThen(marked, <<"turn_end_to_stt_final">>, "forgetsStop")
        BY <1>10 DEF TranscriptionFrame
    <2> HIDE DEF marked
    <2>4. <<"turn_end_to_stt_final">> \in Seq(Metrics)
        BY DEF Metrics
    <2>5. CASE Handled(marked)
        BY <1>1, <2>2, <2>5, HandledEffect
    <2>6. CASE HandledThen(marked, <<"turn_end_to_stt_final">>, "forgetsStop")
        BY <2>2, <2>4, <2>6, HandledThenEffect
    <2> QED BY <2>3, <2>5, <2>6
<1>11. CASE BotStartedFrame(o)
    <2> DEFINE speaks == [o EXCEPT !.botSpeaking = TRUE]
               res == [speaks EXCEPT !.turn = Mark(@, "server_audio_sent", clock)]
    <2>1. Fine(speaks)
        BY <1>4, <1>6, FineFields
    <2>2. "server_audio_sent" \in Events
        BY DEF Events
    <2>3. Handled(res)
        BY <1>11 DEF BotStartedFrame
    <2> HIDE DEF speaks
    <2>4. Fine(res)
        BY <2>1, <2>2, MarkedFine
    <2> HIDE DEF res
    <2> QED BY <1>1, <2>3, <2>4, HandledEffect
<1>12. CASE BotStoppedFrame(o)
    <2> DEFINE silent == [o EXCEPT !.botSpeaking = FALSE]
    <2>1. Fine(silent)
        BY <1>4, <1>6, FineFields
    <2>2. Handled(silent) \/ HandledThen(silent, <<"barge_in_audible_stop">>, "forgetsBargeIn")
        BY <1>12 DEF BotStoppedFrame
    <2> HIDE DEF silent
    <2>3. <<"barge_in_audible_stop">> \in Seq(Metrics)
        BY DEF Metrics
    <2>4. CASE Handled(silent)
        BY <1>1, <2>1, <2>4, HandledEffect
    <2>5. CASE HandledThen(silent, <<"barge_in_audible_stop">>, "forgetsBargeIn")
        BY <2>1, <2>3, <2>5, HandledThenEffect
    <2> QED BY <2>2, <2>4, <2>5
<1> QED BY <1>5, <1>7, <1>8, <1>9, <1>10, <1>11, <1>12

(* What on_push_frame has left keeps the types, and the times in order.    *)
LEMMA PushFrameStep ==
    ASSUME HostInv, OnPushFrame, UNCHANGED <<pushed, last>>
    PROVE  ObserverTypes' /\ TurnInTime'
<1>1. /\ ObserverTypes /\ Good(observer.turn) /\ job = Idle
      /\ UNCHANGED <<clock, clientJobs, holder>>
    BY DEF HostInv, ObserverTypes, Observers, TurnInTime, OffsetsNotNegative, Good, OnPushFrame,
           trackerVars
<1>2. Left
    BY <1>1, OnPushFrameEffect
<1>3. hops' \in Seq(Frames)
    BY <1>1 DEF OnPushFrame, ObserverTypes
<1>4. holder # "observer"
    BY <1>1 DEF ObserverTypes, Idle
<1>5. job' \in Jobs
    <2>1. Idle \in Jobs
        <3>1. None \in Times /\ <<>> \in Seq(Metrics)
            BY <1>1, ClockTypes
        <3> QED BY <3>1 DEF Idle, Jobs
    <2> QED BY <1>2, <2>1 DEF Left
<1>6. observer' \in Observers /\ Len(observer'.seen) <= SeenLimit /\ Good(observer'.turn)
    BY <1>2 DEF Left, Fine
<1>7. ObserverTypes'
    BY <1>1, <1>3, <1>4, <1>5, <1>6 DEF ObserverTypes
<1>8. (\A e \in Events : observer.turn[e] <= clock)' /\ OffsetsNotNegative'
    BY <1>1, <1>6 DEF Good, OffsetsNotNegative
<1>9. ASSUME job'.then = "beginsTurn"
      PROVE  /\ job'.now \in 0 .. clock /\ observer'.turn["vad_speech_start"] = None
             /\ \A e \in Events : observer'.turn[e] = None
    <2>1. job'.now = clock /\ observer'.turn = NoMarks
        BY <1>2, <1>9 DEF Left, Idle
    <2>2. clock \in 0 .. clock
        BY <1>1, ClockTypes
    <2>3. \A e \in Events : NoMarks[e] = None
        BY DEF NoMarks
    <2>4. "vad_speech_start" \in Events
        BY DEF Events
    <2> QED BY <2>1, <2>2, <2>3, <2>4
<1>10. TurnInTime'
    BY <1>1, <1>8, <1>9 DEF TurnInTime
<1> QED BY <1>7, <1>10

(* The task records.                                                       *)
LEMMA ObserverRecordsStep ==
    ASSUME HostInv, ObserverRecords, UNCHANGED <<pushed, last>>
    PROVE  TrackerInv' /\ ObserverTypes' /\ TurnInTime'
<1>1. /\ job.records # <<>> /\ Appends("observer", Head(job.records))
      /\ UNCHANGED <<clock, hops, observer, job, clientJobs>>
    BY DEF ObserverRecords
<1>2. Head(job.records) \in Metrics
    BY <1>1 DEF HostInv, ObserverTypes, Jobs
<1>3. TrackerInv' /\ holder' = "observer"
    BY <1>1, <1>2, AppendsTracker DEF HostInv
<1>4. ObserverTypes'
    BY <1>1, <1>3 DEF HostInv, ObserverTypes
<1>5. TurnInTime'
    BY <1>1 DEF HostInv, TurnInTime, OffsetsNotNegative
<1> QED BY <1>3, <1>4, <1>5

(* A wait for the tracker is over; the turn begins when on_push_frame came *)
(* to it.                                                                  *)
LEMMA ObserverContinuesStep ==
    ASSUME HostInv, ObserverContinues, UNCHANGED <<pushed, last>>
    PROVE  TrackerInv' /\ ObserverTypes' /\ TurnInTime'
<1>1. /\ LetsGo("observer") /\ UNCHANGED <<clock, hops, clientJobs>>
      /\ \/ /\ Len(job.records) > 1
            /\ job' = [job EXCEPT !.records = Tail(@)]
            /\ UNCHANGED observer
         \/ /\ Len(job.records) = 1
            /\ job' = Idle
            /\ observer' = Continued
    BY DEF ObserverContinues, Returns
<1>2. TrackerInv' /\ holder' = Nobody
    BY <1>1, LetsGoTracker DEF HostInv
<1>3. ObserverTypes /\ TurnInTime /\ job \in Jobs /\ observer \in Observers
    BY DEF HostInv, ObserverTypes
<1>4. Nobody # "observer" /\ Nobody # "client"
    BY DEF Nobody
<1>5. CASE /\ Len(job.records) > 1
           /\ job' = [job EXCEPT !.records = Tail(@)]
           /\ UNCHANGED observer
    <2>1. job.records \in Seq(Metrics) /\ job.records # <<>>
        BY <1>3, <1>5, EmptySeq DEF Jobs
    <2>2. Tail(job.records) \in Seq(Metrics)
        BY <2>1
    <2> DEFINE rest == Tail(job.records)
    <2> HIDE DEF rest
    <2>3. job' = [job EXCEPT !.records = rest] /\ rest \in Seq(Metrics)
        BY <1>5, <2>2 DEF rest
    <2>4. job' \in Jobs /\ job'.then = job.then /\ job'.now = job.now
        BY <1>3, <2>3 DEF Jobs
    <2>5. ObserverTypes'
        BY <1>1, <1>2, <1>3, <1>4, <1>5, <2>4 DEF ObserverTypes
    <2>6. TurnInTime'
        BY <1>1, <1>3, <1>5, <2>4 DEF TurnInTime, OffsetsNotNegative
    <2> QED BY <1>2, <2>5, <2>6
<1>6. CASE Len(job.records) = 1 /\ job' = Idle /\ observer' = Continued
    <2>1. Idle \in Jobs /\ Idle.then # "beginsTurn"
        <3>1. None \in Times /\ <<>> \in Seq(Metrics)
            BY <1>3, ClockTypes
        <3> QED BY <3>1 DEF Idle, Jobs
    <2>2. Good(observer.turn) /\ Fine(observer)
        BY <1>3 DEF ObserverTypes, Observers, TurnInTime, OffsetsNotNegative, Good, Fine
    <2>3. Fine(observer')
        <3>1. CASE job.then = "beginsTurn"
            <4> DEFINE turn == Mark(observer.turn, "vad_speech_start", job.now)
                       old == observer.turn
            <4>1. observer' = [observer EXCEPT !.turn = turn]
                BY <1>6, <3>1 DEF Continued
            <4>2. /\ job.now \in 0 .. clock /\ old["vad_speech_start"] = None
                  /\ \A e \in Events : old[e] # None => old[e] >= job.now
                  /\ \A e \in Events : old[e] <= clock
                  /\ old \in [Events -> Times] /\ job.now \in Times
                BY <1>3, <3>1 DEF TurnInTime, Observers, Jobs
            <4>3. "vad_speech_start" \in Events
                BY DEF Events
            <4> HIDE DEF old
            <4>4. /\ turn \in [Events -> Times]
                  /\ \A e \in Events : turn[e] = IF e = "vad_speech_start" /\ old[e] = None
                                                 THEN job.now ELSE old[e]
                BY <4>2, <4>3, MarkEffect DEF old
            <4> HIDE DEF turn
            <4>5. turn["vad_speech_start"] = job.now
                BY <4>2, <4>3, <4>4
            <4>6. job.now <= clock /\ job.now >= job.now
                BY <1>3, <4>2, ClockTypes
            <4>7. Good(turn)
                BY <4>2, <4>4, <4>5, <4>6 DEF Good
            <4>8. Fine([observer EXCEPT !.turn = turn])
                BY <1>3, <2>2, <4>7, <4>2, FineFields
            <4> QED BY <4>1, <4>8
        <3>2. CASE job.then = "forgetsStop"
            <4>1. observer' = [observer EXCEPT !.userStoppedAt = None]
                BY <1>6, <3>2 DEF Continued
            <4> QED BY <1>3, <2>2, <4>1, ClockTypes, FineFields
        <3>3. CASE job.then = "forgetsBargeIn"
            <4>1. observer' = [observer EXCEPT !.bargeStartedAt = None]
                BY <1>6, <3>3 DEF Continued
            <4> QED BY <1>3, <2>2, <4>1, ClockTypes, FineFields
        <3>4. CASE job.then \in {"nothing", "failed"}
            <4>1. observer' = observer
                BY <1>6, <3>4 DEF Continued
            <4> QED BY <2>2, <4>1
        <3> QED BY <1>3, <3>1, <3>2, <3>3, <3>4 DEF Jobs
    <2>4. observer' \in Observers /\ Len(observer'.seen) <= SeenLimit /\ Good(observer'.turn)
        BY <2>3 DEF Fine
    <2>5. ObserverTypes'
        BY <1>1, <1>2, <1>3, <1>4, <1>6, <2>1, <2>4 DEF ObserverTypes
    <2>6. TurnInTime'
        BY <1>1, <1>6, <2>1, <2>4 DEF TurnInTime, OffsetsNotNegative, Good
    <2> QED BY <1>2, <2>5, <2>6
<1> QED BY <1>1, <1>5, <1>6

(* A message of the client marks an event of the turn under way.           *)
LEMMA ClientMessageStep ==
    ASSUME HostInv, NEW message, OnClientMessage(message), UNCHANGED <<pushed, last>>
    PROVE  HostInv'
<1>1. /\ TrackerInv /\ ObserverTypes /\ TurnInTime /\ Good(observer.turn)
      /\ observer \in Observers /\ Fine(observer)
    BY DEF HostInv, ObserverTypes, Observers, TurnInTime, OffsetsNotNegative, Good, Fine
<1>2. UNCHANGED <<trackerVars, clock, hops, job>>
    BY DEF OnClientMessage
<1>3. PICK event \in {"client_audible_start", "client_audio_stopped"} :
          observer' = Marked(event)
    BY DEF OnClientMessage
<1>4. clientJobs' \in Seq(Metrics) /\ (clientJobs # <<>> => clientJobs' # <<>>)
    <2>1. clientJobs \in Seq(Metrics)
        BY <1>1 DEF ObserverTypes
    <2>2. "client_audible_start" \in Metrics /\ "client_barge_in_audible_stop" \in Metrics
        BY DEF Metrics
    <2>3. \A metric \in Metrics : /\ Append(clientJobs, metric) \in Seq(Metrics)
                                  /\ Append(clientJobs, metric) # <<>>
        BY <2>1, AppendProperties
    <2> QED BY <2>1, <2>2, <2>3 DEF OnClientMessage
<1>5. event \in Events /\ event # "vad_speech_start" /\ "vad_speech_start" \in Events
    BY DEF Events
<1> DEFINE turn == Mark(observer.turn, event, clock)
<1>6. observer' = [observer EXCEPT !.turn = turn]
    BY <1>3 DEF Marked
<1>7. Good(turn)
    BY <1>1, <1>5, MarkGood
<1>8. \A e \in Events :
          turn[e] = IF e = event /\ observer.turn[e] = None THEN clock ELSE observer.turn[e]
    BY <1>1, <1>5, ClockTypes, MarkEffect DEF Good
<1> HIDE DEF turn
<1>9. Fine(observer') /\ observer'.turn = turn
    <2>1. None \in Times
        BY <1>1, ClockTypes
    <2> QED BY <1>1, <1>6, <1>7, <2>1, FineFields
<1>10. TrackerInv'
    BY <1>1, <1>2, SameTracker
<1>11. ObserverTypes'
    BY <1>1, <1>2, <1>4, <1>9 DEF ObserverTypes, Fine, trackerVars
<1>12. TurnInTime'
    <2>1. (\A e \in Events : observer.turn[e] <= clock)' /\ OffsetsNotNegative'
        BY <1>2, <1>7, <1>9 DEF Good, OffsetsNotNegative
    <2>2. ASSUME job.then = "beginsTurn"
          PROVE  /\ job.now \in 0 .. clock /\ turn["vad_speech_start"] = None
                 /\ \A e \in Events : turn[e] # None => turn[e] >= job.now
        <3>1. /\ job.now \in 0 .. clock /\ observer.turn["vad_speech_start"] = None
              /\ \A e \in Events : observer.turn[e] # None => observer.turn[e] >= job.now
            BY <1>1, <2>2 DEF TurnInTime
        <3>2. clock >= job.now
            BY <1>1, <3>1, ClockTypes
        <3> QED BY <1>5, <1>8, <3>1, <3>2
    <2> QED BY <1>2, <1>9, <2>1, <2>2 DEF TurnInTime
<1> QED BY <1>10, <1>11, <1>12 DEF HostInv

(* record() raises: the observer's task ends.                              *)
LEMMA ObserverFailsStep ==
    ASSUME HostInv, ObserverFails, UNCHANGED <<pushed, last>>
    PROVE  HostInv'
<1>1. /\ LetsGo("observer") /\ job' = Failed /\ UNCHANGED <<clock, hops, observer, clientJobs>>
    BY DEF ObserverFails, Raises
<1>2. TrackerInv' /\ holder' = Nobody
    BY <1>1, LetsGoTracker DEF HostInv
<1>3. Failed \in Jobs /\ Failed.then = "failed"
    <2>1. None \in Times /\ <<>> \in Seq(Metrics)
        BY ClockTypes DEF HostInv
    <2> QED BY <2>1 DEF Failed, Jobs
<1>4. Nobody # "observer" /\ Nobody # "client"
    BY DEF Nobody
<1>5. ObserverTypes'
    BY <1>1, <1>2, <1>3, <1>4 DEF HostInv, ObserverTypes
<1>6. TurnInTime'
    BY <1>1, <1>3 DEF HostInv, TurnInTime, OffsetsNotNegative
<1> QED BY <1>2, <1>5, <1>6 DEF HostInv

(* A measure of the page enters the tracker.                               *)
LEMMA ClientRecordsStep ==
    ASSUME HostInv, ClientRecords, UNCHANGED <<pushed, last>>
    PROVE  HostInv'
<1>1. /\ clientJobs # <<>> /\ Appends("client", Head(clientJobs))
      /\ UNCHANGED <<clock, hops, observer, job, clientJobs>>
    BY DEF ClientRecords
<1>2. Head(clientJobs) \in Metrics
    BY <1>1 DEF HostInv, ObserverTypes
<1>3. TrackerInv' /\ holder' = "client"
    BY <1>1, <1>2, AppendsTracker DEF HostInv
<1>4. ObserverTypes'
    BY <1>1, <1>3 DEF HostInv, ObserverTypes
<1>5. TurnInTime'
    BY <1>1 DEF HostInv, TurnInTime, OffsetsNotNegative
<1> QED BY <1>3, <1>4, <1>5 DEF HostInv

(* The message handler is done with a measure of the page.                 *)
LEMMA ClientReturnsStep ==
    ASSUME HostInv, ClientReturns, UNCHANGED <<pushed, last>>
    PROVE  HostInv'
<1>1. /\ clientJobs # <<>> /\ LetsGo("client") /\ clientJobs' = Tail(clientJobs)
      /\ UNCHANGED <<clock, hops, observer, job>>
    BY DEF ClientReturns, Returns, Raises
<1>2. clientJobs' \in Seq(Metrics)
    BY <1>1 DEF HostInv, ObserverTypes
<1>3. TrackerInv' /\ holder' = Nobody
    BY <1>1, LetsGoTracker DEF HostInv
<1>4. Nobody # "observer" /\ Nobody # "client"
    BY DEF Nobody
<1>5. ObserverTypes'
    BY <1>1, <1>2, <1>3, <1>4 DEF HostInv, ObserverTypes
<1>6. TurnInTime'
    BY <1>1 DEF HostInv, TurnInTime, OffsetsNotNegative
<1> QED BY <1>3, <1>5, <1>6 DEF HostInv

(* A line is taken by a thread, which leaves observer and clock alone.     *)
LEMMA ThreadBeginsStep ==
    ASSUME HostInv, ThreadBegins, UNCHANGED <<pushed, last>>
    PROVE  HostInv'
<1>1. UNCHANGED <<clock, hops, observer, job, clientJobs, holder>>
    BY DEF ThreadBegins, LineBegun
<1>2. PICK line \in queued : LineBegun(line)
    BY DEF ThreadBegins
<1>3. TrackerInv'
    BY <1>2, BegunTracker DEF HostInv
<1>4. ObserverTypes' /\ TurnInTime'
    BY <1>1 DEF HostInv, ObserverTypes, TurnInTime, OffsetsNotNegative
<1> QED BY <1>3, <1>4 DEF HostInv

(* A line reaches the file, or does not.                                   *)
LEMMA WritesStep ==
    ASSUME HostInv, Writes, UNCHANGED <<pushed, last>>
    PROVE  HostInv'
<1>1. UNCHANGED <<clock, hops, observer, job, clientJobs, holder>>
    BY DEF Writes, LineWritten, LineFails
<1>2. PICK line \in writing : LineWritten(line) \/ LineFails(line)
    BY DEF Writes
<1>3. TrackerInv'
    BY <1>2, WrittenTracker, FailsTracker DEF HostInv
<1>4. ObserverTypes' /\ TurnInTime'
    BY <1>1 DEF HostInv, ObserverTypes, TurnInTime, OffsetsNotNegative
<1> QED BY <1>3, <1>4 DEF HostInv

(* A worker ends, and the next one has an observer of its own.             *)
LEMMA WorkerEndsStep ==
    ASSUME HostInv, WorkerEnds, pushed' = pushed, last' = NoFrame
    PROVE  HostInv'
<1>1. /\ Cancelled({"observer", "client"}) /\ clock' = clock
      /\ hops' = <<>> /\ observer' = NewObserver /\ job' = Idle /\ clientJobs' = <<>>
    BY DEF WorkerEnds
<1>2. ObserverTypes /\ TrackerInv
    BY DEF HostInv
<1>3. TrackerInv' /\ holder' = Nobody
    BY <1>1, <1>2, CancelledTracker
<1>4. Good(NoMarks) /\ None \in Times /\ SeenLimit \in Nat
    BY <1>2, FreshGood, ClockTypes, SeenAssumption
<1>5. /\ NewObserver \in Observers /\ Len(NewObserver.seen) <= SeenLimit
      /\ NewObserver.turn = NoMarks
    <2>1. NoMarks \in [Events -> Times]
        BY <1>4 DEF Good
    <2>2. <<>> \in Seq(Nat) /\ Len(<<>>) = 0
        OBVIOUS
    <2> QED BY <1>4, <2>1, <2>2 DEF NewObserver, Observers
<1>6. Idle \in Jobs /\ Idle.then = "nothing"
    <2>1. <<>> \in Seq(Metrics)
        OBVIOUS
    <2> QED BY <1>4, <2>1 DEF Idle, Jobs
<1>7. last' \in Frames
    BY DEF NoFrame, Frames
<1>8. Nobody # "observer" /\ Nobody # "client"
    BY DEF Nobody
<1>9. <<>> \in Seq(Frames) /\ <<>> \in Seq(Metrics)
    OBVIOUS
<1>10. ObserverTypes'
    BY <1>1, <1>2, <1>3, <1>5, <1>6, <1>7, <1>8, <1>9 DEF ObserverTypes
<1>11. TurnInTime'
    BY <1>1, <1>4, <1>5, <1>6 DEF TurnInTime, OffsetsNotNegative, Good
<1> QED BY <1>3, <1>10, <1>11 DEF HostInv

(* Time passes.                                                            *)
LEMMA ClockTicksStep ==
    ASSUME HostInv, ClockTicks, UNCHANGED <<pushed, last>>
    PROVE  HostInv'
<1>1. /\ clock < MaxClock /\ clock' = clock + 1
      /\ UNCHANGED <<trackerVars, hops, observer, job, clientJobs>>
    BY DEF ClockTicks
<1>2. /\ TrackerInv /\ ObserverTypes /\ TurnInTime /\ clock \in Nat /\ MaxClock \in Nat
      /\ \A e \in Events : observer.turn[e] \in Int
    <2>1. TrackerInv /\ ObserverTypes /\ TurnInTime
        BY DEF HostInv
    <2>2. \A e \in Events : observer.turn[e] \in Times
        BY <2>1 DEF ObserverTypes, Observers
    <2> QED BY <2>1, <2>2, ClockTypes
<1>3. TrackerInv'
    BY <1>1, <1>2, SameTracker
<1>4. ObserverTypes'
    BY <1>1, <1>2 DEF ObserverTypes, trackerVars
<1>5. TurnInTime'
    BY <1>1, <1>2 DEF TurnInTime, OffsetsNotNegative
<1> QED BY <1>3, <1>4, <1>5 DEF HostInv

(* Who leaves the host alone keeps its invariant.                          *)
LEMMA HostStays ==
    ASSUME HostInv, UNCHANGED <<timelineVars, pushed, last>>
    PROVE  HostInv'
<1>1. TrackerInv'
    BY SameTracker DEF HostInv, timelineVars
<1>2. ObserverTypes' /\ TurnInTime'
    BY DEF HostInv, ObserverTypes, TurnInTime, OffsetsNotNegative, timelineVars, trackerVars
<1> QED BY <1>1, <1>2 DEF HostInv

(* A frame is pushed past the observer.                                    *)
LEMMA PushesStep ==
    ASSUME HostInv, NEW type \in {"userStarted", "userStopped", "transcription",
                                  "botStarted", "botStopped"}, Pushes(type)
    PROVE  HostInv'
<1> DEFINE f == [id |-> pushed + 1, type |-> type]
<1>1. /\ pushed' = pushed + 1 /\ last' = f
      /\ hops' = hops \o IF last = NoFrame THEN <<f>> ELSE <<f, last>>
      /\ UNCHANGED <<trackerVars, clock, observer, job, clientJobs>>
    BY DEF Pushes
<1>2. hops \in Seq(Frames) /\ pushed \in Nat /\ last \in Frames
    BY DEF HostInv, ObserverTypes
<1>3. f \in Frames
    BY <1>2 DEF Frames
<1> HIDE DEF f
<1>4. <<f>> \in Seq(Frames) /\ <<f, last>> \in Seq(Frames)
    BY <1>2, <1>3
<1>5. hops' \in Seq(Frames)
    BY <1>1, <1>2, <1>4
<1>6. TrackerInv'
    BY <1>1, SameTracker DEF HostInv
<1>7. ObserverTypes' /\ TurnInTime'
    BY <1>1, <1>2, <1>3, <1>5
       DEF HostInv, ObserverTypes, TurnInTime, OffsetsNotNegative, trackerVars
<1> QED BY <1>6, <1>7 DEF HostInv

-----------------------------------------------------------------------------
(* The page.                                                               *)
LEMMA TellsStep ==
    ASSUME PageTypes, NEW message \in Down, Tells(message)
    PROVE  PageTypes'
<1>1. /\ Len(down) < ChannelSize /\ down' = Append(down, message)
      /\ UNCHANGED <<page, conn, heard, up>>
    BY DEF Tells
<1>2. down \in Seq(Down) /\ ChannelSize \in Nat
    BY ChannelAssumption DEF PageTypes
<1>3. down' \in Seq(Down) /\ Len(down') <= ChannelSize
    <2>1. Append(down, message) \in Seq(Down) /\ Len(Append(down, message)) = Len(down) + 1
        BY <1>2, AppendProperties
    <2>2. Len(down) \in Nat
        BY <1>2
    <2> QED BY <1>1, <1>2, <2>1, <2>2
<1> QED BY <1>1, <1>3 DEF PageTypes

(* Types: a message is taken off the channel.                              *)
LEMMA ReceivesType ==
    ASSUME PageTypes, NEW type, Receives(type)
    PROVE  /\ down' \in Seq(Down) /\ Len(down') <= ChannelSize
           /\ Head(down) \in Down /\ Head(down).type = type
           /\ conn \in {"connecting", "up"}
<1>1. down \in Seq(Down) /\ Len(down) <= ChannelSize /\ down # <<>> /\ down' = Tail(down)
    BY DEF PageTypes, Receives
<1>2. down' \in Seq(Down) /\ Len(down') = Len(down) - 1 /\ Head(down) \in Down
    BY <1>1, HeadTailProperties
<1>3. Len(down) \in Nat /\ ChannelSize \in Nat
    BY <1>1, ChannelAssumption
<1> QED BY <1>1, <1>2, <1>3 DEF Receives

(* Types: messages are put on the channel.                                 *)
LEMMA PostsType ==
    ASSUME PageTypes, NEW messages \in Seq(Up), Posts(messages)
    PROVE  up' \in Seq(Up) /\ Len(up') <= ChannelSize
<1>1. up \in Seq(Up) /\ Len(up) <= ChannelSize
    BY DEF PageTypes
<1>2. up \o messages \in Seq(Up) /\ Len(up \o messages) = Len(up) + Len(messages)
    BY <1>1, ConcatProperties
<1> QED BY <1>1, <1>2 DEF Posts

(* Types: appendTranscript leaves a page.                                  *)
LEMMA AppendTranscriptType ==
    ASSUME PageTypes, NEW role, NEW text \in {Blank, 1}, NEW partial \in BOOLEAN,
           AppendTranscript(role, text, partial)
    PROVE  page' \in Pages
<1>1. page \in Pages
    BY DEF PageTypes
<1>2. \/ page' = page
      \/ page' = [page EXCEPT !.partialUserMessage = text]
      \/ page' = [page EXCEPT !.partialUserMessage = Blank]
    BY DEF AppendTranscript, AppendsPartial, AppendsFinal
<1> QED BY <1>1, <1>2 DEF Pages

(* Types: the callbacks of the page.                                       *)
LEMMA CallbacksStep ==
    ASSUME PageTypes, Callbacks
    PROVE  PageTypes'
<1>1. /\ page \in Pages /\ heard \in BOOLEAN /\ up \in Seq(Up) /\ Len(up) <= ChannelSize
      /\ down \in Seq(Down) /\ Len(down) <= ChannelSize
      /\ conn \in {"off", "connecting", "up", "lost"}
    BY DEF PageTypes
<1>2. CASE OnBotReady
    <2>1. down' \in Seq(Down) /\ Len(down') <= ChannelSize
        BY <1>2, ReceivesType DEF OnBotReady
    <2> QED BY <1>1, <1>2, <2>1 DEF PageTypes, OnBotReady
<1>3. CASE OnUserStartedSpeaking \/ OnUserStoppedSpeaking \/ OnBotStartedSpeaking
    <2>1. down' \in Seq(Down) /\ Len(down') <= ChannelSize
        BY <1>3, ReceivesType
           DEF OnUserStartedSpeaking, OnUserStoppedSpeaking, OnBotStartedSpeaking
    <2>2. page' \in Pages
        BY <1>1, <1>3
           DEF OnUserStartedSpeaking, OnUserStoppedSpeaking, OnBotStartedSpeaking, Pages
    <2> QED BY <1>1, <1>3, <2>1, <2>2
            DEF PageTypes, OnUserStartedSpeaking, OnUserStoppedSpeaking, OnBotStartedSpeaking
<1>4. CASE OnBotStoppedSpeaking
    <2>1. down' \in Seq(Down) /\ Len(down') <= ChannelSize
        BY <1>4, ReceivesType DEF OnBotStoppedSpeaking
    <2>2. BargeInMessages \in Seq(Up)
        <3>1. [type |-> "client.barge_in.stopped"] \in Up
            BY DEF Up
        <3> QED BY <3>1 DEF BargeInMessages
    <2>3. up' \in Seq(Up) /\ Len(up') <= ChannelSize
        BY <1>4, <2>2, PostsType DEF OnBotStoppedSpeaking
    <2>4. page' \in Pages
        BY <1>1, <1>4 DEF OnBotStoppedSpeaking, Pages
    <2> QED BY <1>1, <1>4, <2>1, <2>3, <2>4 DEF PageTypes, OnBotStoppedSpeaking
<1>5. CASE OnUserTranscript
    <2>1. /\ down' \in Seq(Down) /\ Len(down') <= ChannelSize
          /\ Head(down) \in Down /\ Head(down).type = "transcript"
        BY <1>5, ReceivesType DEF OnUserTranscript
    <2>2. \A m \in Down : m.type = "transcript" => m.text \in {Blank, 1} /\ m.final \in BOOLEAN
        BY DEF Down
    <2> DEFINE m == Head(down)
    <2>3. m.text \in {Blank, 1} /\ (~ m.final) \in BOOLEAN
        BY <2>1, <2>2
    <2>4. AppendTranscript("user", m.text, ~ m.final)
        BY <1>5 DEF OnUserTranscript
    <2> HIDE DEF m
    <2>5. page' \in Pages
        BY <2>3, <2>4, AppendTranscriptType
    <2> QED BY <1>1, <1>5, <2>1, <2>5 DEF PageTypes, OnUserTranscript
<1>6. CASE OnBotOutput
    <2>1. /\ down' \in Seq(Down) /\ Len(down') <= ChannelSize
          /\ Head(down) \in Down /\ Head(down).type = "output"
        BY <1>6, ReceivesType DEF OnBotOutput
    <2>2. \A m \in Down : m.type = "output" => m.text \in {Blank, 1}
        BY DEF Down
    <2> DEFINE m == Head(down)
    <2>3. m.text \in {Blank, 1}
        BY <2>1, <2>2
    <2>4. AppendTranscript("bot", m.text, FALSE)
        BY <1>6 DEF OnBotOutput
    <2> HIDE DEF m
    <2>5. page' \in Pages
        BY <2>3, <2>4, AppendTranscriptType
    <2> QED BY <1>1, <1>6, <2>1, <2>5 DEF PageTypes, OnBotOutput
<1>7. CASE Playing
    <2> DEFINE message == [type |-> "client.playback.started", measured |-> page.userStopped]
    <2>1. message \in Up
        BY <1>1 DEF Up, Pages
    <2>2. Posts(<<message>>)
        BY <1>7 DEF Playing
    <2> HIDE DEF message
    <2>3. <<message>> \in Seq(Up)
        BY <2>1
    <2>4. up' \in Seq(Up) /\ Len(up') <= ChannelSize
        BY <2>2, <2>3, PostsType
    <2> QED BY <1>1, <1>7, <2>4 DEF PageTypes, Playing
<1> QED BY <1>2, <1>3, <1>4, <1>5, <1>6, <1>7 DEF Callbacks

(* Who leaves the page alone keeps its types.                              *)
LEMMA PageStays ==
    ASSUME PageTypes, UNCHANGED <<page, conn, heard, down, up>>
    PROVE  PageTypes'
BY DEF PageTypes

(* What a conversation does at both ends.                                  *)
LEMMA ConversationStep ==
    ASSUME MInv, Conversation
    PROVE  MInv'
<1>1. HostInv /\ PageTypes
    BY DEF MInv
<1>2. \A t \in {"ready", "userStarted", "userStopped", "botStarted", "botStopped"} :
          [type |-> t] \in Down
    BY DEF Down
<1>3. CASE AnswersReady
    <2>1. HostInv'
        BY <1>1, <1>3, HostStays DEF AnswersReady, Tells, turnVars
    <2>2. PageTypes'
        BY <1>1, <1>2, <1>3, TellsStep DEF AnswersReady
    <2> QED BY <2>1, <2>2 DEF MInv
<1>4. CASE ClientMessage
    <2>1. UNCHANGED <<page, conn, heard, down, pushed, last>> /\ up' = Tail(up) /\ up # <<>>
        BY <1>4 DEF ClientMessage, worldVars
    <2>2. HostInv'
        BY <1>1, <1>4, <2>1, ClientMessageStep DEF ClientMessage
    <2>3. up' \in Seq(Up) /\ Len(up') <= ChannelSize
        <3>1. up \in Seq(Up) /\ Len(up) <= ChannelSize /\ Len(up) \in Nat /\ ChannelSize \in Nat
            BY <1>1, ChannelAssumption DEF PageTypes
        <3>2. Tail(up) \in Seq(Up) /\ Len(Tail(up)) = Len(up) - 1
            BY <2>1, <3>1, HeadTailProperties
        <3> QED BY <2>1, <3>1, <3>2
    <2>4. PageTypes'
        BY <1>1, <2>1, <2>3 DEF PageTypes
    <2> QED BY <2>2, <2>4 DEF MInv
<1>5. ASSUME NEW t \in {"userStarted", "userStopped", "botStarted", "botStopped"},
             Pushes(t), Tells([type |-> t])
      PROVE  MInv'
    <2>1. HostInv'
        BY <1>1, <1>5, PushesStep
    <2>2. PageTypes'
        BY <1>1, <1>2, <1>5, TellsStep
    <2> QED BY <2>1, <2>2 DEF MInv
<1>6. CASE UserStarts \/ UserStops \/ BotStarts \/ BotStops
    BY <1>5, <1>6 DEF UserStarts, UserStops, BotStarts, BotStops
<1>7. ASSUME NEW text \in {Blank, 1}, NEW final \in BOOLEAN, Recognises(text, final)
      PROVE  MInv'
    <2>1. [type |-> "transcript", text |-> text, final |-> final] \in Down
        BY DEF Down
    <2>2. PageTypes'
        BY <1>1, <1>7, <2>1, TellsStep DEF Recognises
    <2>3. HostInv'
        BY <1>1, <1>7, PushesStep, HostStays DEF Recognises
    <2> QED BY <2>2, <2>3 DEF MInv
<1>8. CASE Replies(1)
    <2>1. [type |-> "output", text |-> 1] \in Down
        BY DEF Down
    <2>2. PageTypes'
        BY <1>1, <1>8, <2>1, TellsStep DEF Replies
    <2>3. HostInv'
        BY <1>1, <1>8, HostStays DEF Replies
    <2> QED BY <2>2, <2>3 DEF MInv
<1> QED BY <1>3, <1>4, <1>6, <1>7, <1>8 DEF Conversation

(* A session begins, ends or is refused.                                   *)
LEMMA SessionStep ==
    ASSUME MInv, NewSession \/ SessionOver \/ RefusedConnect
    PROVE  MInv'
<1>1. HostInv /\ PageTypes
    BY DEF MInv
<1>2. ASSUME Disconnects \/ ConnectionLost PROVE PageTypes'
    <2>1. <<>> \in Seq(Down) /\ <<>> \in Seq(Up) /\ Len(<<>>) = 0 /\ ChannelSize \in Nat
        BY ChannelAssumption
    <2>2. page' \in Pages
        BY <1>1, <1>2 DEF PageTypes, Pages, Disconnects, ConnectionLost, LeavesSpeaking
    <2>3. /\ heard' = FALSE /\ down' = <<>> /\ up' = <<>> /\ conn' \in {"off", "lost"}
        BY <1>2 DEF Disconnects, ConnectionLost, LeavesSpeaking
    <2>4. /\ down' \in Seq(Down) /\ Len(down') <= ChannelSize
          /\ up' \in Seq(Up) /\ Len(up') <= ChannelSize
        BY <2>1, <2>3
    <2> QED BY <2>2, <2>3, <2>4 DEF PageTypes
<1>3. CASE NewSession
    <2>1. HostInv'
        BY <1>1, <1>3, HostStays DEF NewSession
    <2>2. PageTypes'
        BY <1>1, <1>3 DEF NewSession, Connects, PageTypes
    <2> QED BY <2>1, <2>2 DEF MInv
<1>4. CASE SessionOver
    <2>1. HostInv'
        BY <1>1, <1>4, WorkerEndsStep DEF SessionOver
    <2> QED BY <1>2, <1>4, <2>1 DEF MInv, SessionOver
<1>5. CASE RefusedConnect
    <2>1. HostInv'
        BY <1>1, <1>5, HostStays DEF RefusedConnect, worldVars
    <2> QED BY <1>2, <1>5, <2>1 DEF MInv, RefusedConnect
<1> QED BY <1>3, <1>4, <1>5

(* The host records.                                                       *)
LEMMA RecordingStep ==
    ASSUME MInv, Recording, UNCHANGED <<pageVars, worldVars>>
    PROVE  MInv'
<1>1. HostInv /\ PageTypes
    BY DEF MInv
<1>2. PageTypes' /\ UNCHANGED <<pushed, last>>
    BY <1>1, PageStays DEF pageVars, worldVars
<1>3. CASE OnPushFrame
    <2>1. TrackerInv'
        BY <1>1, <1>3, SameTracker DEF HostInv, OnPushFrame
    <2>2. ObserverTypes' /\ TurnInTime'
        BY <1>1, <1>2, <1>3, PushFrameStep
    <2> QED BY <1>2, <2>1, <2>2 DEF MInv, HostInv
<1>4. CASE ObserverRecords
    BY <1>1, <1>2, <1>4, ObserverRecordsStep DEF MInv, HostInv
<1>5. CASE ObserverContinues
    BY <1>1, <1>2, <1>5, ObserverContinuesStep DEF MInv, HostInv
<1>6. CASE ClientRecords
    BY <1>1, <1>2, <1>6, ClientRecordsStep DEF MInv
<1>7. CASE ClientReturns
    BY <1>1, <1>2, <1>7, ClientReturnsStep DEF MInv
<1>8. CASE Writes
    BY <1>1, <1>2, <1>8, WritesStep DEF MInv
<1>9. CASE ThreadBegins
    BY <1>1, <1>2, <1>9, ThreadBeginsStep DEF MInv
<1>10. CASE ObserverFails
    BY <1>1, <1>2, <1>10, ObserverFailsStep DEF MInv
<1> QED BY <1>3, <1>4, <1>5, <1>6, <1>7, <1>8, <1>9, <1>10 DEF Recording

(* Every step keeps the invariant.                                         *)
LEMMA NextMInv == MInv /\ [Next]_vars => MInv'
<1> SUFFICES ASSUME MInv, [Next]_vars PROVE MInv'
    OBVIOUS
<1>1. HostInv /\ PageTypes
    BY DEF MInv
<1>2. CASE Conversation
    BY <1>2, ConversationStep
<1>3. CASE Callbacks /\ UNCHANGED <<timelineVars, worldVars>>
    <2>1. HostInv' /\ PageTypes'
        BY <1>1, <1>3, HostStays, CallbacksStep DEF worldVars
    <2> QED BY <2>1 DEF MInv
<1>4. CASE ClearTranscript /\ UNCHANGED <<timelineVars, worldVars>>
    <2>1. HostInv'
        BY <1>1, <1>4, HostStays DEF worldVars
    <2>2. page' \in Pages
        BY <1>1, <1>4 DEF ClearTranscript, PageTypes, Pages
    <2>3. PageTypes'
        BY <1>1, <1>4, <2>2 DEF ClearTranscript, PageTypes
    <2> QED BY <2>1, <2>3 DEF MInv
<1>5. CASE Recording /\ UNCHANGED <<pageVars, worldVars>>
    BY <1>5, RecordingStep
<1>6. CASE ClockTicks /\ UNCHANGED <<pageVars, worldVars>>
    <2>1. HostInv' /\ PageTypes'
        BY <1>1, <1>6, ClockTicksStep, PageStays DEF pageVars, worldVars
    <2> QED BY <2>1 DEF MInv
<1>7. CASE NewSession \/ SessionOver \/ RefusedConnect
    BY <1>7, SessionStep
<1>8. CASE UNCHANGED vars
    <2>1. HostInv' /\ PageTypes'
        BY <1>1, <1>8, HostStays, PageStays DEF vars, pageVars, worldVars
    <2> QED BY <2>1 DEF MInv
<1> QED BY <1>2, <1>3, <1>4, <1>5, <1>6, <1>7, <1>8 DEF Next

(* Nothing has been measured.                                              *)
LEMMA InitMInv == Init => MInv
<1> SUFFICES ASSUME Init PROVE MInv
    OBVIOUS
<1>1. /\ memory = <<>> /\ file = <<>> /\ holder = Nobody /\ inOrder = TRUE
      /\ queued = {} /\ writing = {} /\ lost = {}
      /\ clock = 0 /\ hops = <<>> /\ observer = NewObserver /\ job = Idle
      /\ clientJobs = <<>> /\ pushed = 0 /\ last = NoFrame
    BY DEF Init, ObserverInit, TrackerInit
<1>2. /\ <<>> \in Seq(Metrics) /\ <<>> \in Seq(Nat) /\ <<>> \in Seq(Frames)
      /\ <<>> \in Seq(Down) /\ <<>> \in Seq(Up) /\ Len(<<>>) = 0 /\ DOMAIN <<>> = {}
      /\ MaxClock \in Nat /\ ChannelSize \in Nat /\ SeenLimit \in Nat
    BY EmptySeq, ClockAssumption, ChannelAssumption, SeenAssumption
<1>3. TrackerInv
    BY <1>1, <1>2 DEF TrackerInv, TrackerTypes, FileFollowsMemory
<1>4. /\ None \in Times /\ NoMarks \in [Events -> Times] /\ (\A e \in Events : NoMarks[e] = None)
      /\ "vad_speech_start" \in Events /\ None <= 0
    BY <1>2 DEF Times, None, NoMarks, Events
<1>5. /\ observer \in Observers /\ Len(observer.seen) <= SeenLimit /\ observer.turn = NoMarks
    BY <1>1, <1>2, <1>4 DEF NewObserver, Observers
<1>6. job \in Jobs /\ job.then = "nothing"
    BY <1>1, <1>2, <1>4 DEF Idle, Jobs
<1>7. last \in Frames /\ Nobody # "observer" /\ Nobody # "client"
    BY <1>1 DEF NoFrame, Frames, Nobody
<1>8. ObserverTypes
    BY <1>1, <1>2, <1>5, <1>6, <1>7 DEF ObserverTypes
<1>9. TurnInTime
    BY <1>1, <1>4, <1>5, <1>6 DEF TurnInTime, OffsetsNotNegative
<1>10. PageTypes
    <2>1. /\ page = NewPage /\ conn = "off" /\ heard = FALSE /\ down = <<>> /\ up = <<>>
        BY DEF Init, PageInit
    <2>2. page \in Pages
        BY <2>1 DEF NewPage, Pages
    <2>3. /\ down \in Seq(Down) /\ Len(down) <= ChannelSize
          /\ up \in Seq(Up) /\ Len(up) <= ChannelSize
        BY <1>2, <2>1
    <2> QED BY <2>1, <2>2, <2>3 DEF PageTypes
<1> QED BY <1>3, <1>8, <1>9, <1>10 DEF MInv, HostInv

-----------------------------------------------------------------------------
(* The inductive invariant holds throughout.                               *)
THEOREM MeasuresInvariance == Spec => []MInv
BY InitMInv, NextMInv, PTL DEF Spec

(* The types of the page, the observer and the tracker.                    *)
THEOREM MeasuresTypeCorrect == Spec => []TypeOK
<1>1. ASSUME MInv PROVE TypeOK
    <2>1. TrackerInv /\ ObserverTypes /\ PageTypes
        BY <1>1 DEF MInv, HostInv
    <2>2. TrackerTypeOK
        <3>1. DOMAIN memory = 1 .. Len(memory)
            BY <2>1 DEF TrackerInv, TrackerTypes
        <3> QED BY <2>1, <3>1 DEF TrackerInv, TrackerTypes, FileFollowsMemory, TrackerTypeOK
    <2>3. ObserverTypeOK
        BY <2>1, <2>2 DEF ObserverTypes, ObserverTypeOK, TrackerInv, TrackerTypes, Observers,
                          Times
    <2>4. PageTypeOK
        BY <2>1 DEF PageTypes, PageTypeOK, Pages
    <2> QED BY <2>3, <2>4 DEF TypeOK
<1> QED BY <1>1, MeasuresInvariance, PTL

(* Every record is in the file once, or on its way, or lost with the task  *)
(* that was cancelled or the write that failed; one line at most waits for *)
(* a thread, with the lock held for it; and as long as nobody was cancelled*)
(* while a thread was writing, the file is in the order of the memory.     *)
THEOREM RecordsReachTheFile == Spec => []FileFollowsMemory
<1>1. MInv => FileFollowsMemory
    BY DEF MInv, HostInv, TrackerInv
<1> QED BY <1>1, MeasuresInvariance, PTL

(* No event of a turn is older than its beginning, though the beginning is *)
(* marked after a wait in which the client marks the same turn.            *)
THEOREM NoNegativeOffset == Spec => []OffsetsNotNegative
<1>1. MInv => OffsetsNotNegative
    BY DEF MInv, HostInv, TurnInTime
<1> QED BY <1>1, MeasuresInvariance, PTL

-----------------------------------------------------------------------------
(* A task appends what it has to record next, and holds the lock for it.   *)
LEMMA AppendsHeld ==
    ASSUME TrackerInv, NEW task \in {"observer", "client"}, NEW metric \in Metrics,
           Appends(task, metric)
    PROVE  holder' = task /\ Last(memory') = metric
<1>1. memory \in Seq(Metrics) /\ memory' = Append(memory, metric) /\ holder' = task
    BY DEF Appends, TrackerInv, TrackerTypes
<1> QED BY <1>1 DEF Last

(* What the tasks of the host do leaves the lock with its task, or free.   *)
LEMMA RecordingHeld ==
    ASSUME HostInv, LockHasItsTask, Recording
    PROVE  LockHasItsTask'
<1> USE DEF HostInv, LockHasItsTask
<1>1. /\ job \in Jobs /\ clientJobs \in Seq(Metrics)
    BY DEF ObserverTypes
<1>2. CASE OnPushFrame
    <2>1. job.records = <<>> /\ UNCHANGED <<memory, holder, clientJobs>>
        BY <1>2 DEF OnPushFrame, Idle, trackerVars
    <2> QED BY <2>1
<1>3. CASE ObserverRecords
    <2>1. Head(job.records) \in Metrics
        BY <1>1, <1>3 DEF ObserverRecords, Jobs
    <2>2. holder' = "observer" /\ Last(memory') = Head(job.records)
        BY <1>3, <2>1, AppendsHeld DEF ObserverRecords
    <2> QED BY <1>3, <2>2 DEF ObserverRecords
<1>4. CASE ClientRecords
    <2>1. Head(clientJobs) \in Metrics
        BY <1>1, <1>4 DEF ClientRecords
    <2>2. holder' = "client" /\ Last(memory') = Head(clientJobs)
        BY <1>4, <2>1, AppendsHeld DEF ClientRecords
    <2> QED BY <1>4, <2>2 DEF ClientRecords
<1>5. CASE ObserverContinues \/ ObserverFails \/ ClientReturns
    <2>1. holder' = Nobody
        BY <1>5 DEF ObserverContinues, ObserverFails, ClientReturns, Returns, Raises, LetsGo
    <2> QED BY <2>1 DEF Nobody
<1>6. CASE ThreadBegins \/ Writes
    <2>1. UNCHANGED <<memory, holder, job, clientJobs>>
        BY <1>6 DEF ThreadBegins, Writes, LineBegun, LineWritten, LineFails
    <2> QED BY <2>1
<1> QED BY <1>2, <1>3, <1>4, <1>5, <1>6 DEF Recording

(* And so do the messages of the client and the ends of sessions.          *)
LEMMA LockStep == MInv /\ LockHasItsTask /\ [Next]_vars => LockHasItsTask'
<1> SUFFICES ASSUME MInv, LockHasItsTask, [Next]_vars PROVE LockHasItsTask'
    OBVIOUS
<1>1. HostInv
    BY DEF MInv
<1>2. CASE UNCHANGED <<memory, holder, job, clientJobs>>
    BY <1>2 DEF LockHasItsTask
<1>3. CASE ClientMessage
    <2>1. /\ UNCHANGED <<memory, holder, job>>
          /\ \/ clientJobs' = clientJobs
             \/ \E metric \in Metrics : clientJobs' = Append(clientJobs, metric)
        BY <1>3 DEF ClientMessage, OnClientMessage, trackerVars, Metrics
    <2>2. clientJobs \in Seq(Metrics)
        BY <1>1 DEF HostInv, ObserverTypes
    <2>3. clientJobs # <<>> => clientJobs' # <<>> /\ Head(clientJobs') = Head(clientJobs)
        BY <2>1, <2>2
    <2> QED BY <2>1, <2>3 DEF LockHasItsTask
<1>4. CASE Recording
    BY <1>1, <1>4, RecordingHeld
<1>5. CASE SessionOver
    <2>1. holder \in {Nobody, "observer", "client"}
        BY <1>1 DEF HostInv, TrackerInv, TrackerTypes
    <2>2. holder' = Nobody
        BY <1>5, <2>1 DEF SessionOver, WorkerEnds, Cancelled
    <2> QED BY <2>2 DEF LockHasItsTask, Nobody
<1>6. CASE AnswersReady \/ UserStarts \/ UserStops \/ BotStarts \/ BotStops
           \/ (\E text \in {Blank, 1}, final \in BOOLEAN : Recognises(text, final)) \/ Replies(1)
    BY <1>2, <1>6 DEF AnswersReady, UserStarts, UserStops, BotStarts, BotStops, Recognises,
                      Replies, Pushes, timelineVars, trackerVars
<1>7. CASE NewSession \/ UNCHANGED timelineVars
    BY <1>2, <1>7 DEF NewSession, timelineVars, trackerVars
<1>8. CASE ClockTicks
    BY <1>2, <1>8 DEF ClockTicks, trackerVars
<1> QED BY <1>3, <1>4, <1>5, <1>6, <1>7, <1>8 DEF Next, Conversation, RefusedConnect, vars

(* Whoever holds the tracker's lock is a task that will give it back: no   *)
(* cancelled session and no failed write takes the lock with it.           *)
THEOREM LockIsGivenBack == Spec => []LockHasItsTask
<1>1. Init => LockHasItsTask
    BY DEF Init, ObserverInit, TrackerInit, LockHasItsTask, Nobody
<1> QED BY <1>1, LockStep, MeasuresInvariance, PTL DEF Spec
=============================================================================
