---------------------------- MODULE TurnMeasurement ----------------------------
(***************************************************************************)
(* A session measured from both ends: the host's conversation goes as      *)
(* frames past the observer of its worker (TurnTimeline) and as messages   *)
(* to the page (BrowserPage), whose own measures come back as client       *)
(* messages.  Sessions follow one another over one page and one tracker.   *)
(* The pipeline that pushes the frames is pipecat's.                       *)
(***************************************************************************)
EXTENDS TurnTimeline, BrowserPage

CONSTANTS
    NumSessions,    (* bound: connects                                     *)
    NumEvents       (* bound: frames that are pushed, and texts that are   *)
                    (* recognised or said, in all sessions                 *)

ASSUME NumbersAssumption ==
    NumSessions \in Nat /\ NumEvents \in Nat

VARIABLES
    sessions,
    pushed,         (* frames so far; also their ids                       *)
    last,           (* the last frame pushed, which has a hop to make      *)
    texts,          (* texts so far                                        *)
    ready,          (* the client's ready is answered                      *)
    userSpeaking,
    botSpeaking,
    \* history
    turns,          (* turns of this session that began                    *)
    order,          (* in the turn under way: the robot began to speak     *)
                    (* before the user had stopped, or not                 *)
    early,          (* turns before it of which that is so                 *)
    before,         (* records when this session began                     *)
    carried         (* the page has brought a barge-in from a session that *)
                    (* ended in the middle of it                           *)

turnVars == <<turns, order, early>>
worldVars == <<sessions, pushed, last, texts, ready, userSpeaking, botSpeaking, turns,
               order, early, before, carried>>
vars == <<timelineVars, pageVars, worldVars>>

NoFrame == [id |-> 0, type |-> "none"]

Init ==
    /\ ObserverInit
    /\ PageInit
    /\ sessions = 0
    /\ pushed = 0
    /\ last = NoFrame
    /\ texts = 0
    /\ ready = FALSE
    /\ userSpeaking = FALSE
    /\ botSpeaking = FALSE
    /\ turns = 0
    /\ order = "none"
    /\ early = 0
    /\ before = 0
    /\ carried = FALSE
-----------------------------------------------------------------------------
InSession == conn \in {"connecting", "up"}

(* A message to the page.                                                  *)
Tells(message) ==
    /\ InSession
    /\ Len(down) < ChannelSize
    /\ down' = Append(down, message)
    /\ UNCHANGED <<page, transcript, conn, heard, up, sessions, before, carried>>

(* A frame is pushed to the first processor, and the one before it to the  *)
(* last.                                                                   *)
Pushes(type) ==
    LET frame == [id |-> pushed + 1, type |-> type] IN
    /\ pushed + texts < NumEvents
    /\ pushed' = pushed + 1
    /\ last' = frame
    /\ hops' = hops \o IF last = NoFrame THEN <<frame>> ELSE <<frame, last>>
    /\ UNCHANGED <<trackerVars, clock, observer, job, clientJobs>>

AnswersReady ==
    /\ ~ ready
    /\ ready' = TRUE
    /\ Tells([type |-> "ready"])
    /\ UNCHANGED <<timelineVars, pushed, last, texts, userSpeaking, botSpeaking, turnVars>>

UserStarts ==
    /\ ~ userSpeaking
    /\ userSpeaking' = TRUE
    /\ \/ /\ botSpeaking
          /\ UNCHANGED turnVars
       \/ /\ ~ botSpeaking
          /\ turns' = turns + 1
          /\ order' = "begun"
          /\ early' = early + IF order = "early" THEN 1 ELSE 0
    /\ Pushes("userStarted") /\ Tells([type |-> "userStarted"])
    /\ UNCHANGED <<texts, ready, botSpeaking>>

UserStops ==
    /\ userSpeaking
    /\ userSpeaking' = FALSE
    /\ order' = IF order = "begun" THEN "heard" ELSE order
    /\ Pushes("userStopped") /\ Tells([type |-> "userStopped"])
    /\ UNCHANGED <<texts, ready, botSpeaking, turns, early>>

BotStarts ==
    /\ ~ botSpeaking
    /\ botSpeaking' = TRUE
    /\ order' = IF order = "begun" THEN "early" ELSE order
    /\ Pushes("botStarted") /\ Tells([type |-> "botStarted"])
    /\ UNCHANGED <<texts, ready, userSpeaking, turns, early>>

BotStops ==
    /\ botSpeaking
    /\ botSpeaking' = FALSE
    /\ Pushes("botStopped") /\ Tells([type |-> "botStopped"])
    /\ UNCHANGED <<texts, ready, userSpeaking, turnVars>>

(* Interim and final transcriptions, and what the robot says.  Only final  *)
(* ones are frames the observer looks at.                                  *)
Recognises(text, final) ==
    /\ pushed + texts < NumEvents
    /\ texts' = texts + 1
    /\ Tells([type |-> "transcript", text |-> text, final |-> final])
    /\ \/ final /\ Pushes("transcription")
       \/ ~ final /\ UNCHANGED <<timelineVars, pushed, last>>
    /\ UNCHANGED <<ready, userSpeaking, botSpeaking, turnVars>>

Replies(text) ==
    /\ pushed + texts < NumEvents
    /\ texts' = texts + 1
    /\ Tells([type |-> "output", text |-> text])
    /\ UNCHANGED <<timelineVars, pushed, last, ready, userSpeaking, botSpeaking, turnVars>>

(* A client message comes to the host.                                     *)
ClientMessage ==
    /\ up # <<>>
    /\ Len(clientJobs) < MaxJobs
    /\ up' = Tail(up)
    /\ OnClientMessage(Head(up))
    /\ UNCHANGED <<page, transcript, conn, heard, down, worldVars>>

Conversation ==
    \/ AnswersReady \/ ClientMessage
    \/ UserStarts \/ UserStops \/ BotStarts \/ BotStops
    \/ \E text \in {Blank, 1}, final \in BOOLEAN : Recognises(text, final)
    \/ Replies(1)
-----------------------------------------------------------------------------
NewSession ==
    /\ sessions < NumSessions
    /\ sessions' = sessions + 1
    /\ Connects
    /\ ready' = FALSE
    /\ turns' = 0
    /\ order' = "none"
    /\ early' = 0
    /\ before' = Len(memory)
    /\ carried' = page.bargeInStarted
    /\ UNCHANGED <<timelineVars, pushed, last, texts, userSpeaking, botSpeaking>>

(* However the session ends, its worker ends with it; a page whose         *)
(* connection was lost, when the user tries to connect again.              *)
SessionOver ==
    /\ InSession
    /\ Disconnects \/ ConnectionLost
    /\ WorkerEnds
    /\ userSpeaking' = FALSE
    /\ botSpeaking' = FALSE
    /\ last' = NoFrame
    /\ UNCHANGED <<sessions, pushed, texts, ready, turnVars, before, carried>>

RefusedConnect ==
    /\ conn = "lost"
    /\ Disconnects
    /\ UNCHANGED <<timelineVars, worldVars>>

Next ==
    \/ Conversation
    \/ Callbacks /\ UNCHANGED <<timelineVars, worldVars>>
    \/ ClearTranscript /\ UNCHANGED <<timelineVars, worldVars>>
    \/ Recording /\ UNCHANGED <<pageVars, worldVars>>
    \/ ClockTicks /\ UNCHANGED <<pageVars, worldVars>>
    \/ NewSession \/ SessionOver \/ RefusedConnect

Spec == Init /\ [][Next]_vars
-----------------------------------------------------------------------------
(* The page, the observer and the tracker are of their types.              *)
TypeOK == PageTypeOK /\ ObserverTypeOK

(* Both ends agree on who speaks and whether a barge-in is under way once  *)
(* frames and messages have come in, so that each barge-in is measured     *)
(* once at each end; unless the page still waits for the end of one that   *)
(* an earlier session was left in, or a write that failed has ended the    *)
(* observer.                                                               *)
EndsAgree ==
    conn = "up" /\ down = <<>> /\ hops = <<>> /\ job = Idle /\ ~ carried =>
        /\ page.botSpeaking = observer.botSpeaking
        /\ page.bargeInStarted = (observer.bargeStartedAt # None)

(* Every turn of a session is recorded once when the next one begins,      *)
(* however often its frames are observed; one in which the robot began to  *)
(* speak before the user had stopped may be missing, and speech that       *)
(* interrupts begins no turn; and when a write for the observer fails, the  *)
(* turns after it are not recorded either.                                 *)
Timelines ==
    Cardinality({i \in before + 1 .. Len(memory) : memory[i] = "turn_timeline"})

TurnsAreRecorded ==
    InSession /\ turns > 0 /\ hops = <<>> /\ job = Idle =>
        Timelines \in turns - 1 - early .. turns - 1
=============================================================================
