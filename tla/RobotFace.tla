------------------------------- MODULE RobotFace -------------------------------
(***************************************************************************)
(* The face of the robot emulator,                                         *)
(* clients/desktop_robot_emulator/src/main.ts: a state, an emotion, an     *)
(* animation and a mouth that follow the events of the session (the RTVI   *)
(* messages of the host, in the order of the data channel), the two        *)
(* buttons that wake the robot and send it to sleep, timeouts, animation   *)
(* frames, and the beginning and end of the connection.                    *)
(*                                                                         *)
(* Connecting is one step each way here: its awaits and the clicks that    *)
(* overlap are ClientConnection's.  Of the host there are the speech       *)
(* detector, the speaker, what was heard and said as far as the face cares *)
(* and the wake gate; the Pipecat libraries between are external.  Time is *)
(* counted in ticks of a convenient length.                                *)
(***************************************************************************)
EXTENDS Integers, Sequences

CONSTANTS
    HoldTime,        (* ticks an emotion asked for is held (10 s)          *)
    CueTime,         (* ticks an emotion of the reply is held (6 s)        *)
    GreetTime,       (* ticks the greeting plays (1.4 s)                   *)
    WinkTime,        (* ticks a wink lasts (0.9 s)                         *)
    NumSessions,     (* bound: connects                                    *)
    NumEvents,       (* bound: times the user or the robot begins to       *)
                     (* speak, transcripts and outputs that move the face, *)
                     (* and buttons pressed                                *)
    ChannelSize,     (* bound: messages on their way, in each direction    *)
    WakeMode         (* WAKE_MODE_ENABLED                                  *)

ASSUME TimesAssumption ==
    /\ HoldTime \in Nat \ {0} /\ CueTime \in Nat \ {0} /\ GreetTime \in Nat \ {0}
    /\ WinkTime \in Nat \ {0}
    /\ NumSessions \in Nat /\ NumEvents \in Nat
    /\ ChannelSize \in Nat \ {0, 1}
    /\ WakeMode \in BOOLEAN

VARIABLES
    \* the page
    face,            (* robot.dataset.state                                *)
    look,            (* the emotion, the animation of a behaviour, the wink*)
    timer,           (* for the first two, what their timer variable names:*)
                     (* the time left of that timeout, 0 when it is due or *)
                     (* over                                               *)
    timeouts,        (* for each, the time left of the pending timeouts    *)
    mouth,           (* its class "talking"                                *)
    mouthRaf,        (* the track whose loop asked for it                  *)
    frames,          (* the tracks whose loop waits for its next frame     *)
    shown,           (* which buttons updateControls has enabled           *)
    \* the session
    conn,            (* its connection                                     *)
    sessions,        (* connects so far                                    *)
    down, up,        (* the messages on their way                          *)
    \* the host
    greeted,         (* it has answered the client's ready                 *)
    userSpeaking,
    botSpeaking,
    gate,
    events,          (* counted for their bound                            *)
    \* history
    undisturbed,     (* since the robot began to speak, after the greeting,*)
                     (* the user has neither spoken nor pressed a button   *)
    promised         (* for the first two, the time they are still to be   *)
                     (* seen                                               *)

clockVars == <<look, timer, timeouts, promised>>
mouthVars == <<mouth, mouthRaf, frames>>
connVars == <<shown, conn, sessions>>
speechVars == <<userSpeaking, botSpeaking, undisturbed>>
hostVars == <<greeted, gate, events>>
vars == <<face, clockVars, mouthVars, connVars, down, up, speechVars, hostVars>>
-----------------------------------------------------------------------------
Kinds == {"emotion", "behavior"}        (* those with a timer variable    *)
Looks == Kinds \cup {"wink"}
Tracks == 1 .. NumSessions
Rest == [emotion |-> "neutral", behavior |-> "none", wink |-> "none"]

(* The face commands of the user, one for each way holdEmotion takes; and  *)
(* the cue of the reply.                                                   *)
Commands == {"sad", "neutral", "wink"}
Cue == "laughing"
Held == {"sad", Cue}

Init ==
    /\ face = "offline"
    /\ look = Rest
    /\ timer = [k \in Kinds |-> 0]
    /\ timeouts = [k \in Looks |-> {}]
    /\ mouth = "closed"
    /\ mouthRaf = 0
    /\ frames = {}
    /\ shown = "disconnected"
    /\ conn = "off"
    /\ promised = [k \in Kinds |-> 0]
    /\ down = <<>>
    /\ up = <<>>
    /\ userSpeaking = FALSE
    /\ botSpeaking = FALSE
    /\ undisturbed = FALSE
    /\ sessions = 0
    /\ greeted = FALSE
    /\ gate = IF WakeMode THEN "asleep" ELSE "awake"
    /\ events = 0
-----------------------------------------------------------------------------
(* clearTimeout and setTimeout with what a timer variable names.           *)
Cleared(k) == timeouts[k] \ {timer[k]}

RestartsWithoutClearing(k, time) ==
    /\ timeouts' = [timeouts EXCEPT ![k] = @ \cup {time}]
    /\ timer' = [timer EXCEPT ![k] = time]

RestartsAndClears(k, time) ==
    /\ timeouts' = [timeouts EXCEPT ![k] = (@ \cup {time}) \ {time}]
    /\ timer' = [timer EXCEPT ![k] = time]

Restarts(k, time) ==
    /\ timeouts' = [timeouts EXCEPT ![k] = Cleared(k) \cup {time}]
    /\ timer' = [timer EXCEPT ![k] = time]

Promises(k, time) == promised' = [promised EXCEPT ![k] = time]

(* holdEmotion.  A wink is an animation of its own, which the first of its *)
(* timeouts ends: they have no variable, and nothing clears them.          *)
HoldEmotion(emotion, time) ==
    \/ /\ emotion = "wink"
       /\ look' = [look EXCEPT !.wink = "wink"]
       /\ timeouts' = [timeouts EXCEPT !.wink = @ \cup {WinkTime}]
       /\ UNCHANGED <<timer, promised>>
    \/ /\ emotion = "neutral"
       /\ look' = [look EXCEPT !.emotion = emotion]
       /\ timeouts' = [timeouts EXCEPT !.emotion = Cleared("emotion")]
       /\ timer' = [timer EXCEPT !.emotion = 0]
       /\ Promises("emotion", 0)
    \/ /\ emotion \notin {"wink", "neutral"}
       /\ look' = [look EXCEPT !.emotion = emotion]
       /\ Restarts("emotion", time)
       /\ Promises("emotion", time)

(* playBehavior; its emotion is not held, and a timeout of an emotion held *)
(* before goes on.                                                         *)
PlayBehavior(name, emotion, time) ==
    /\ look' = [look EXCEPT !.emotion = emotion, !.behavior = name]
    /\ Restarts("behavior", time)
    /\ promised' = [emotion |-> 0, behavior |-> time]

AttachWithoutCancel(track) ==
    /\ frames' = frames \cup {track}
    /\ mouthRaf' = track
    /\ UNCHANGED mouth

(* attachMouthAnalyser, and the loop's next frame.                         *)
AttachMouthAnalyser(track) ==
    /\ frames' = (frames \ {mouthRaf}) \cup {track}
    /\ mouthRaf' = track
    /\ UNCHANGED mouth

Frame(track) ==
    /\ track \in frames
    /\ mouth' = IF face = "speaking" THEN "talking" ELSE "closed"
    /\ mouthRaf' = track
    /\ UNCHANGED <<face, clockVars, frames, connVars, down, up, speechVars, hostVars>>

(* sendClientMessage: refused, and given up, while the bot is not ready.   *)
SendClientMessage(message) ==
    /\ Len(up) < ChannelSize
    /\ up' = IF conn = "up" THEN Append(up, message) ELSE up
-----------------------------------------------------------------------------
(* The callbacks of configureClient, one message of the host each.         *)
Receives(type) ==
    /\ conn \in {"connecting", "up"}
    /\ down # <<>>
    /\ Head(down).type = type
    /\ down' = Tail(down)

OnBotReady ==
    /\ Receives("ready")
    /\ face' = "idle"
    /\ conn' = "up"
    /\ shown' = "connected"
    /\ UNCHANGED <<clockVars, mouthVars, sessions, up, speechVars, hostVars>>

SetState(state) ==
    /\ face' = state
    /\ UNCHANGED <<clockVars, mouthVars, connVars, up, speechVars, hostVars>>

OnUserStartedSpeaking == Receives("userStarted") /\ SetState("listening")
OnBotStartedSpeaking == Receives("botStarted") /\ SetState("speaking")
OnBotStoppedSpeaking == Receives("botStopped") /\ SetState("idle")

OnUserStoppedAlways == Receives("userStopped") /\ SetState("thinking")

OnUserStoppedSpeaking ==
    /\ Receives("userStopped")
    /\ SetState(IF face = "listening" THEN "thinking" ELSE face)

OnUserTranscript ==
    /\ Receives("transcript")
    /\ HoldEmotion(Head(down).emotion, HoldTime)
    /\ UNCHANGED <<face, mouthVars, connVars, up, speechVars, hostVars>>

OnBotOutput ==
    /\ Receives("output")
    /\ HoldEmotion(Head(down).emotion, CueTime)
    /\ UNCHANGED <<face, mouthVars, connVars, up, speechVars, hostVars>>

OnServerMessage ==
    /\ Receives("behavior")
    /\ PlayBehavior("greet", "friendly", GreetTime)
    /\ SendClientMessage("ack")
    /\ UNCHANGED <<face, mouthVars, connVars, speechVars, hostVars>>

OnTrackStarted ==
    /\ conn \in {"connecting", "up"}
    /\ mouthRaf # sessions
    /\ AttachMouthAnalyser(sessions)
    /\ UNCHANGED <<face, clockVars, connVars, down, up, speechVars, hostVars>>

Callback ==
    \/ OnBotReady \/ OnServerMessage \/ OnTrackStarted
    \/ OnUserStartedSpeaking \/ OnUserStoppedSpeaking
    \/ OnBotStartedSpeaking \/ OnBotStoppedSpeaking
    \/ OnUserTranscript \/ OnBotOutput
-----------------------------------------------------------------------------
(* The buttons.                                                            *)
Presses(message, state) ==
    /\ shown = "connected"
    /\ events < NumEvents
    /\ events' = events + 1
    /\ SendClientMessage(message)
    /\ face' = state
    /\ undisturbed' = FALSE
    /\ UNCHANGED <<clockVars, mouthVars, connVars, down, userSpeaking, botSpeaking, greeted,
                   gate>>

ClickWakeKeepsFace == Presses("robot.wake", face)

ClickWake == Presses("robot.wake", "idle")
ClickSleep == Presses("robot.sleep", "sleeping")

(* The session is over for the page, and the host ends its worker.         *)
SessionEnds ==
    /\ down' = <<>>
    /\ up' = <<>>
    /\ userSpeaking' = FALSE
    /\ botSpeaking' = FALSE
    /\ undisturbed' = FALSE
    /\ UNCHANGED <<sessions, hostVars>>

ShowsOfflineCancelsFrame ==
    /\ face' = "offline"
    /\ shown' = "disconnected"
    /\ frames' = {}
    /\ UNCHANGED <<clockVars, mouth, mouthRaf>>

(* setState("offline") and updateControls(false), in onDisconnected, in    *)
(* the catch of connect() and at the end of disconnect().                  *)
ShowsOffline ==
    /\ face' = "offline"
    /\ shown' = "disconnected"
    /\ UNCHANGED <<clockVars, mouthVars>>

(* connect(); a new worker has a gate of its own.                          *)
ClickConnect ==
    /\ shown = "disconnected"
    /\ conn = "off"
    /\ sessions < NumSessions
    /\ sessions' = sessions + 1
    /\ conn' = "connecting"
    /\ shown' = "connecting"
    /\ gate' = IF WakeMode THEN "asleep" ELSE "awake"
    /\ greeted' = FALSE
    /\ UNCHANGED <<face, clockVars, mouthVars, down, up, speechVars, events>>

ConnectFails ==
    /\ conn = "connecting"
    /\ conn' = "off"
    /\ ShowsOffline
    /\ SessionEnds

(* disconnect() until client.disconnect() has closed the peer connection,  *)
(* and its return.                                                         *)
ClickDisconnect ==
    /\ shown # "disconnected"
    /\ conn \in {"connecting", "up"}
    /\ conn' = "leaving"
    /\ SessionEnds
    /\ UNCHANGED <<face, clockVars, mouthVars, shown>>

Left ==
    /\ conn = "leaving"
    /\ conn' = "off"
    /\ ShowsOffline
    /\ SessionEnds

(* The transport gives up: onDisconnected.                                 *)
ConnectionLost ==
    /\ conn = "up"
    /\ conn' = "off"
    /\ ShowsOffline
    /\ SessionEnds

PageReloads ==
    /\ sessions # 0
    /\ face' = "offline"
    /\ look' = Rest
    /\ timer' = [k \in Kinds |-> 0]
    /\ timeouts' = [k \in Looks |-> {}]
    /\ promised' = [k \in Kinds |-> 0]
    /\ mouth' = "closed"
    /\ mouthRaf' = 0
    /\ frames' = {}
    /\ shown' = "disconnected"
    /\ conn' = "off"
    /\ SessionEnds
-----------------------------------------------------------------------------
(* Time: a timeout that is due runs its callback before the next tick.     *)
Fires(k) ==
    /\ 0 \in timeouts[k]
    /\ timeouts' = [timeouts EXCEPT ![k] = @ \ {0}]
    /\ look' = [look EXCEPT ![k] = Rest[k]]
    /\ UNCHANGED <<face, timer, promised, mouthVars, connVars, down, up, speechVars, hostVars>>

Less(t) == IF t = 0 THEN 0 ELSE t - 1

Tick ==
    /\ \A k \in Looks : 0 \notin timeouts[k]
    /\ \E k \in Looks : timeouts[k] # {}
    /\ timeouts' = [k \in Looks |-> {t - 1 : t \in timeouts[k]}]
    /\ timer' = [k \in Kinds |-> Less(timer[k])]
    /\ promised' = [k \in Kinds |-> Less(promised[k])]
    /\ UNCHANGED <<face, look, mouthVars, connVars, down, up, speechVars, hostVars>>
-----------------------------------------------------------------------------
(* The host: what it sends, while the transport is connected.              *)
Sends(messages) ==
    /\ conn \in {"connecting", "up"}
    /\ Len(down) + Len(messages) <= ChannelSize
    /\ down' = down \o messages
    /\ UNCHANGED <<face, clockVars, mouthVars, connVars, up, gate>>

(* The client is ready: pipecat answers that the bot is, and               *)
(* on_rtvi_client_ready greets, each in a task of its own.                 *)
AnswersReady ==
    /\ ~ greeted
    /\ greeted' = TRUE
    /\ \/ Sends(<<[type |-> "ready"], [type |-> "behavior"]>>)
       \/ Sends(<<[type |-> "behavior"], [type |-> "ready"]>>)
    /\ UNCHANGED <<speechVars, events>>

(* The speech detector and the speaker; either may begin at any time: the  *)
(* user interrupts, and the robot introduces itself unasked.               *)
Begins(type) ==
    /\ events < NumEvents
    /\ events' = events + 1
    /\ Sends(<<[type |-> type]>>)
    /\ UNCHANGED greeted

Ceases(type) ==
    /\ Sends(<<[type |-> type]>>)
    /\ UNCHANGED <<greeted, events>>

UserStarts ==
    /\ ~ userSpeaking
    /\ userSpeaking' = TRUE
    /\ undisturbed' = FALSE
    /\ Begins("userStarted")
    /\ UNCHANGED botSpeaking

UserStops ==
    /\ userSpeaking
    /\ userSpeaking' = FALSE
    /\ Ceases("userStopped")
    /\ UNCHANGED <<botSpeaking, undisturbed>>

BotStarts ==
    /\ ~ botSpeaking
    /\ botSpeaking' = TRUE
    /\ undisturbed' = greeted
    /\ Begins("botStarted")
    /\ UNCHANGED userSpeaking

BotStops ==
    /\ botSpeaking
    /\ botSpeaking' = FALSE
    /\ undisturbed' = FALSE
    /\ Ceases("botStopped")
    /\ UNCHANGED userSpeaking

(* A final transcript with a face command, and an output with a cue.       *)
Says(type, emotion) ==
    /\ events < NumEvents
    /\ events' = events + 1
    /\ Sends(<<[type |-> type, emotion |-> emotion]>>)
    /\ UNCHANGED <<greeted, speechVars>>

(* on_client_message, as far as the wake gate is concerned.                *)
OnClientMessage ==
    /\ up # <<>>
    /\ up' = Tail(up)
    /\ gate' = CASE Head(up) = "robot.wake" -> "awake"
                 [] Head(up) = "robot.sleep" /\ WakeMode -> "asleep"
                 [] OTHER -> gate
    /\ UNCHANGED <<face, clockVars, mouthVars, connVars, down, speechVars, greeted, events>>

(* A transcript after the idle timeout.                                    *)
GateTimesOut ==
    /\ conn = "up"
    /\ WakeMode
    /\ gate = "awake"
    /\ gate' = "asleep"
    /\ UNCHANGED <<face, clockVars, mouthVars, connVars, down, up, speechVars, greeted, events>>

Host ==
    \/ AnswersReady \/ OnClientMessage \/ GateTimesOut
    \/ UserStarts \/ UserStops \/ BotStarts \/ BotStops
    \/ \E c \in Commands : Says("transcript", c)
    \/ Says("output", Cue)
-----------------------------------------------------------------------------
Next ==
    \/ Callback
    \/ ClickWake \/ ClickSleep \/ ClickConnect \/ ClickDisconnect
    \/ ConnectFails \/ Left \/ ConnectionLost \/ PageReloads
    \/ \E k \in Looks : Fires(k)
    \/ Tick
    \/ \E t \in Tracks : Frame(t)
    \/ Host

Spec == Init /\ [][Next]_vars

(* The browser: time passes, timeouts that are due run, and the frames of  *)
(* a page that is seen are drawn.                                          *)
FairSpec ==
    /\ Spec
    /\ WF_vars(Tick)
    /\ \A k \in Looks : WF_vars(Fires(k))
    /\ \A t \in Tracks : WF_vars(Frame(t))
-----------------------------------------------------------------------------
(* The face, its timers, the channels and the host are of their types; a   *)
(* timer variable names the one timeout that is pending, and mouthRaf the  *)
(* one animation loop there is, however often the page connects.           *)
TypeOK ==
    /\ face \in {"offline", "idle", "listening", "thinking", "speaking", "sleeping"}
    /\ look \in [emotion : Held \cup {"neutral", "friendly"}, behavior : {"none", "greet"},
                wink : {"none", "wink"}]
    /\ timer \in [Kinds -> Nat]
    /\ timeouts \in [Looks -> SUBSET Nat]
    /\ \A k \in Kinds : timeouts[k] \subseteq {timer[k]}
    /\ mouth \in {"closed", "talking"}
    /\ mouthRaf \in 0 .. NumSessions
    /\ frames \subseteq {mouthRaf} \cap Tracks
    /\ shown \in {"disconnected", "connecting", "connected"}
    /\ conn \in {"off", "connecting", "up", "leaving"}
    /\ sessions \in 0 .. NumSessions
    /\ Len(down) <= ChannelSize
    /\ Len(up) <= ChannelSize
    /\ gate \in {"awake", "asleep"}
    /\ {greeted, userSpeaking, botSpeaking, undisturbed} \subseteq BOOLEAN

(* However messages, buttons and connections overlap, what the face says   *)
(* is so once the messages have come in: it is offline without a session   *)
(* and only then, whichever way the last one ended; who it shows to speak  *)
(* does (the guards of onUserStoppedSpeaking and onBotStoppedSpeaking);    *)
(* and the robot is seen to speak from the first word to the last, unless  *)
(* the user speaks over it or presses a button: the end of what the user   *)
(* said before, late as it may be, does not take the face back.            *)
FaceIsTrue ==
    /\ conn = "off" => face = "offline"
    /\ conn = "up" => face # "offline"
    /\ conn = "up" /\ down = <<>> =>
        /\ face = "speaking" => botSpeaking
        /\ face = "listening" => userSpeaking
        /\ botSpeaking /\ undisturbed => face = "speaking"

(* A face that sleeps is that of a robot that does not listen, once the    *)
(* buttons' messages have come to the host (wake mode).                    *)
SleepsWithGate ==
    conn = "up" /\ WakeMode /\ face = "sleeping" /\ up = <<>> => gate = "asleep"

(* An emotion that is held, for a command or for a cue, and the animation  *)
(* of a behaviour are seen for their full time: no timeout of an earlier   *)
(* one ends them (holdEmotion, playBehavior).  This is not so of the       *)
(* emotion that a behaviour brings, which is not held, nor of a wink.      *)
SeenInFull ==
    [][\A k \in Kinds :
         look[k] # Rest[k] /\ look'[k] = Rest[k] /\ down' = down => promised'[k] = 0]_vars

(* And no longer: an emotion that is held is given up, an animation ends,  *)
(* the wink included, whatever was shown or pressed meanwhile.  (The       *)
(* emotion of a behaviour may stay until the next.)                        *)
LooksEnd ==
    /\ look.emotion \in Held ~> look.emotion \notin Held
    /\ \A k \in {"behavior", "wink"} : look[k] # "none" ~> look[k] = "none"

(* The mouth stops moving when the robot does not speak any more, also     *)
(* when its last words are cut off by the end of the session.              *)
MouthCloses ==
    mouth = "talking" /\ face # "speaking" ~> mouth = "closed" \/ face = "speaking"
=============================================================================
