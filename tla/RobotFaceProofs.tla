---------------------------- MODULE RobotFaceProofs ----------------------------
(***************************************************************************)
(* Theorems about RobotFace for any number of sessions and events, any     *)
(* size of the channels and any times, in wake mode or not.                *)
(*                                                                         *)
(* What the face shows depends on messages that are still on their way, so *)
(* FaceIsTrue, which speaks of an empty channel, is not inductive: FaceInv *)
(* says what the last event of each kind in the channel tells about the    *)
(* host, and from which message on the robot is seen to speak.  SleepInv   *)
(* does the same for SleepsWithGate and the messages to the host.          *)
(***************************************************************************)
EXTENDS RobotFace, SequenceTheorems, TLAPS

Messages ==
    [type : {"ready", "behavior", "userStarted", "userStopped", "botStarted", "botStopped"}]
      \cup [type : {"transcript"}, emotion : Commands]
      \cup [type : {"output"}, emotion : {Cue}]

ClientMessages == {"ack", "robot.wake", "robot.sleep"}

InSession == conn \in {"connecting", "up"}

(* The looks and their timeouts: the one that will end a look is not due   *)
(* before its time.                                                        *)
ClockInv ==
    /\ look \in [emotion : Held \cup {"neutral", "friendly"}, behavior : {"none", "greet"},
                wink : {"none", "wink"}]
    /\ timer \in [Kinds -> Nat]
    /\ timeouts \in [Looks -> SUBSET Nat]
    /\ promised \in [Kinds -> Nat]
    /\ \A k \in Kinds : timeouts[k] \subseteq {timer[k]} /\ promised[k] <= timer[k]

MouthInv ==
    /\ mouth \in {"closed", "talking"}
    /\ mouthRaf \in 0 .. NumSessions
    /\ frames \subseteq {mouthRaf} \cap Tracks

(* Only a session has speech, messages and buttons other than the one for  *)
(* Connect.                                                                *)
SessionInv ==
    /\ face \in {"offline", "idle", "listening", "thinking", "speaking", "sleeping"}
    /\ shown \in {"disconnected", "connecting", "connected"}
    /\ conn \in {"off", "connecting", "up", "leaving"}
    /\ sessions \in 0 .. NumSessions
    /\ down \in Seq(Messages) /\ Len(down) <= ChannelSize
    /\ up \in Seq(ClientMessages) /\ Len(up) <= ChannelSize
    /\ gate \in {"awake", "asleep"}
    /\ greeted \in BOOLEAN /\ userSpeaking \in BOOLEAN
    /\ botSpeaking \in BOOLEAN /\ undisturbed \in BOOLEAN
    /\ InSession => sessions # 0
    /\ ~ InSession => down = <<>> /\ up = <<>> /\ ~ botSpeaking /\ ~ userSpeaking /\ ~ undisturbed
    /\ shown = "connected" => conn \in {"up", "leaving"}

TypeInv == ClockInv /\ MouthInv /\ SessionInv

(* The last event of two kinds on its way says how it is.                  *)
LastIsTrue(channel, started, stopped, speaking) ==
    \A i \in 1 .. Len(channel) :
        /\ channel[i].type \in {started, stopped}
        /\ \A j \in i + 1 .. Len(channel) : channel[j].type \notin {started, stopped}
        => (channel[i].type = started <=> speaking)

NoneOf(channel, types) == \A i \in 1 .. Len(channel) : channel[i].type \notin types

BotEvents == {"botStarted", "botStopped"}
UserEvents == {"userStarted", "userStopped"}

(* What takes a speaking face away.                                        *)
Disturbing == {"ready", "userStarted", "botStopped"}

(* The beginning of the robot's speech is shown or is on its way, with     *)
(* nothing behind that takes the face away.                                *)
ShownFrom(channel, n, f) ==
    /\ n = 0 => f = "speaking"
    /\ n # 0 => channel[n].type = "botStarted"
    /\ \A j \in n + 1 .. Len(channel) : channel[j].type \notin Disturbing

ShownSoon == \E n \in 0 .. Len(down) : ShownFrom(down, n, face)

FaceInv ==
    /\ conn = "off" => face = "offline"
    /\ conn = "up" => face # "offline"
    /\ LastIsTrue(down, "botStarted", "botStopped", botSpeaking)
    /\ LastIsTrue(down, "userStarted", "userStopped", userSpeaking)
    /\ InSession /\ NoneOf(down, BotEvents) /\ face = "speaking" => botSpeaking
    /\ InSession /\ NoneOf(down, UserEvents) /\ face = "listening" => userSpeaking
    /\ undisturbed => greeted /\ botSpeaking /\ ShownSoon
-----------------------------------------------------------------------------
(* The channel after a message is taken from it or put into it.            *)
LEMMA TailIndex ==
    ASSUME NEW S, NEW s \in Seq(S), s # <<>>
    PROVE  /\ Tail(s) \in Seq(S)
           /\ Len(Tail(s)) = Len(s) - 1
           /\ \A i \in 1 .. Len(s) - 1 : Tail(s)[i] = s[i + 1]
           /\ Len(s) \in Nat \ {0}
           /\ Head(s) = s[1]
           /\ Head(s) \in S
OBVIOUS

(* ... and all but the last message are where they were.                   *)
LEMMA AddIndex ==
    ASSUME NEW S, NEW s \in Seq(S), NEW m \in S
    PROVE  /\ s \o <<m>> \in Seq(S)
           /\ Len(s \o <<m>>) = Len(s) + 1
           /\ \A i \in 1 .. Len(s) : (s \o <<m>>)[i] = s[i]
           /\ (s \o <<m>>)[Len(s) + 1] = m
           /\ Len(s) \in Nat
OBVIOUS

(* Two messages are one after the other, as AnswersReady sends them.       *)
LEMMA AddTwo ==
    ASSUME NEW S, NEW s \in Seq(S), NEW m \in S, NEW n \in S, NEW w, w = <<m, n>>
    PROVE  s \o w = (s \o <<m>>) \o <<n>>
<1> DEFINE t == s \o <<m>>
           u == s \o w
<1>1. /\ t \in Seq(S) /\ Len(t) = Len(s) + 1 /\ Len(s) \in Nat
      /\ \A i \in 1 .. Len(s) : t[i] = s[i]
      /\ t[Len(s) + 1] = m
    BY AddIndex
<1>2. /\ u \in Seq(S) /\ Len(u) = Len(s) + 2
      /\ \A i \in 1 .. Len(s) : u[i] = s[i]
      /\ u[Len(s) + 1] = m /\ u[Len(s) + 2] = n
    OBVIOUS
<1> HIDE DEF t, u
<1>3. /\ t \o <<n>> \in Seq(S) /\ Len(t \o <<n>>) = Len(t) + 1
      /\ \A i \in 1 .. Len(t) : (t \o <<n>>)[i] = t[i]
      /\ (t \o <<n>>)[Len(t) + 1] = n
    BY <1>1, AddIndex
<1>4. \A i \in 1 .. Len(u) : u[i] = (t \o <<n>>)[i]
    BY <1>1, <1>2, <1>3
<1> DEFINE v == t \o <<n>>
<1>5. v \in Seq(S) /\ Len(u) = Len(v) /\ \A i \in 1 .. Len(u) : u[i] = v[i]
    BY <1>1, <1>2, <1>3, <1>4
<1> HIDE DEF v
<1>6. u = v
    BY <1>2, <1>5, SeqEqual
<1> QED BY <1>6 DEF t, u, v

(* What the last event tells stays true when an earlier one is received.   *)
LEMMA LastTail ==
    ASSUME NEW s \in Seq(Messages), s # <<>>, NEW a, NEW b, NEW v,
           LastIsTrue(s, a, b, v)
    PROVE  LastIsTrue(Tail(s), a, b, v)
<1> SUFFICES ASSUME NEW i \in 1 .. Len(Tail(s)), Tail(s)[i].type \in {a, b},
                    \A j \in i + 1 .. Len(Tail(s)) : Tail(s)[j].type \notin {a, b}
             PROVE  Tail(s)[i].type = a <=> v
    BY DEF LastIsTrue
<1>1. /\ Len(Tail(s)) = Len(s) - 1
      /\ Len(s) \in Nat
      /\ \A j \in 1 .. Len(s) - 1 : Tail(s)[j] = s[j + 1]
    BY TailIndex
<1>2. i + 1 \in 1 .. Len(s) /\ Tail(s)[i] = s[i + 1]
    BY <1>1
<1>3. ASSUME NEW j \in i + 1 + 1 .. Len(s) PROVE s[j].type \notin {a, b}
  <2>1. j - 1 \in i + 1 .. Len(Tail(s)) /\ Tail(s)[j - 1] = s[j]
      BY <1>1
  <2> QED BY <2>1
<1> QED BY <1>2, <1>3 DEF LastIsTrue

(* A channel without events of a kind behind a message of another kind.    *)
LEMMA NoneTail ==
    ASSUME NEW s \in Seq(Messages), s # <<>>, NEW T,
           NoneOf(Tail(s), T), Head(s).type \notin T
    PROVE  NoneOf(s, T)
<1> SUFFICES ASSUME NEW i \in 1 .. Len(s) PROVE s[i].type \notin T
    BY DEF NoneOf
<1>1. CASE i = 1 BY <1>1, TailIndex
<1>2. CASE i # 1
  <2>1. i - 1 \in 1 .. Len(Tail(s)) /\ Tail(s)[i - 1] = s[i]
      BY <1>2, TailIndex
  <2> QED BY <2>1 DEF NoneOf
<1> QED BY <1>1, <1>2

(* An event that is received and was the last one was true.                *)
LEMMA LastReceived ==
    ASSUME NEW s \in Seq(Messages), s # <<>>, NEW a, NEW b, NEW v,
           LastIsTrue(s, a, b, v), NoneOf(Tail(s), {a, b}), Head(s).type \in {a, b}
    PROVE  Head(s).type = a <=> v
<1>1. 1 \in 1 .. Len(s) /\ Head(s) = s[1]
    BY TailIndex
<1>2. ASSUME NEW j \in 2 .. Len(s) PROVE s[j].type \notin {a, b}
  <2>1. j - 1 \in 1 .. Len(Tail(s)) /\ Tail(s)[j - 1] = s[j]
      BY TailIndex
  <2> QED BY <2>1 DEF NoneOf
<1> QED BY <1>1, <1>2 DEF LastIsTrue

(* A message of another kind behind the last event of a kind.              *)
LEMMA LastAddOther ==
    ASSUME NEW s \in Seq(Messages), NEW m \in Messages, NEW a, NEW b, NEW v,
           LastIsTrue(s, a, b, v), m.type \notin {a, b}
    PROVE  LastIsTrue(s \o <<m>>, a, b, v)
<1> DEFINE t == s \o <<m>>
<1> HIDE DEF t
<1>1. Len(t) = Len(s) + 1 /\ Len(s) \in Nat /\ \A i \in 1 .. Len(s) : t[i] = s[i]
    BY AddIndex DEF t
<1>2. t[Len(s) + 1] = m
    BY AddIndex DEF t
<1>3. ASSUME NEW i \in 1 .. Len(t), t[i].type \in {a, b},
             \A j \in i + 1 .. Len(t) : t[j].type \notin {a, b}
      PROVE  t[i].type = a <=> v
  <2>1. i \in 1 .. Len(s) /\ t[i] = s[i]
      BY <1>1, <1>2, <1>3
  <2>2. \A j \in i + 1 .. Len(s) : s[j].type \notin {a, b}
      BY <1>1, <1>3, <2>1
  <2> QED BY <1>3, <2>1, <2>2 DEF LastIsTrue
<1> QED BY <1>3 DEF LastIsTrue, t

(* The event that is sent is the last one, and tells how it is now.        *)
LEMMA LastAdded ==
    ASSUME NEW s \in Seq(Messages), NEW m \in Messages, NEW a, NEW b, NEW v,
           m.type \in {a, b}, v <=> m.type = a
    PROVE  LastIsTrue(s \o <<m>>, a, b, v)
<1> DEFINE t == s \o <<m>>
<1> HIDE DEF t
<1>1. Len(t) = Len(s) + 1 /\ Len(s) \in Nat /\ t[Len(s) + 1] = m
    BY AddIndex DEF t
<1>2. ASSUME NEW i \in 1 .. Len(t), t[i].type \in {a, b},
             \A j \in i + 1 .. Len(t) : t[j].type \notin {a, b}
      PROVE  t[i].type = a <=> v
  <2>1. i = Len(s) + 1
      BY <1>1, <1>2
  <2> QED BY <1>1, <2>1
<1> QED BY <1>2 DEF LastIsTrue, t

(* A channel without events of a kind had none before the last message.    *)
LEMMA NoneAdd ==
    ASSUME NEW s \in Seq(Messages), NEW m \in Messages, NEW T, NoneOf(s \o <<m>>, T)
    PROVE  NoneOf(s, T) /\ m.type \notin T
BY AddIndex DEF NoneOf

(* Speech that is shown or on its way is still so behind a callback,       *)
LEMMA ShownTail ==
    ASSUME NEW s \in Seq(Messages), s # <<>>, NEW now, NEW next, NEW n \in 0 .. Len(s),
           ShownFrom(s, n, now),
           Head(s).type \notin Disturbing /\ now = "speaking" => next = "speaking",
           Head(s).type = "botStarted" => next = "speaking"
    PROVE  \E k \in 0 .. Len(Tail(s)) : ShownFrom(Tail(s), k, next)
<1>1. /\ Len(Tail(s)) = Len(s) - 1
      /\ Len(s) \in Nat \ {0}
      /\ \A i \in 1 .. Len(s) - 1 : Tail(s)[i] = s[i + 1]
      /\ Head(s) = s[1]
    BY TailIndex
<1>2. ASSUME NEW k \in Nat, k = n - 1 \/ k = n, k <= Len(Tail(s)), k >= n - 1,
             NEW j \in k + 1 .. Len(Tail(s))
      PROVE  Tail(s)[j].type \notin Disturbing
  <2>1. j + 1 \in n + 1 .. Len(s) /\ Tail(s)[j] = s[j + 1]
      BY <1>1, <1>2
  <2> QED BY <2>1 DEF ShownFrom
<1>3. CASE n = 0
  <2>1. 1 \in n + 1 .. Len(s)
      BY <1>1, <1>3
  <2>2. Head(s).type \notin Disturbing
      BY <1>1, <2>1 DEF ShownFrom
  <2>3. next = "speaking"
      BY <1>3, <2>2 DEF ShownFrom
  <2>4. ShownFrom(Tail(s), 0, next)
      BY <1>1, <1>2, <1>3, <2>3 DEF ShownFrom
  <2> QED BY <1>1, <2>4
<1>4. CASE n = 1
  <2>1. next = "speaking"
      BY <1>1, <1>4 DEF ShownFrom
  <2>2. ShownFrom(Tail(s), 0, next)
      BY <1>1, <1>2, <1>4, <2>1 DEF ShownFrom
  <2> QED BY <1>1, <2>2
<1>5. CASE n > 1
  <2>1. n - 1 \in 1 .. Len(s) - 1 /\ Tail(s)[n - 1] = s[n]
      BY <1>1, <1>5
  <2>2. Tail(s)[n - 1].type = "botStarted"
      BY <1>5, <2>1 DEF ShownFrom
  <2>3. ShownFrom(Tail(s), n - 1, next)
      BY <1>1, <1>2, <1>5, <2>1, <2>2 DEF ShownFrom
  <2> QED BY <1>1, <2>1, <2>3
<1> QED BY <1>3, <1>4, <1>5

(* and when a message follows that does not take the face away;            *)
LEMMA ShownAdd ==
    ASSUME NEW s \in Seq(Messages), NEW m \in Messages, NEW now, NEW n \in 0 .. Len(s),
           ShownFrom(s, n, now), m.type \notin Disturbing
    PROVE  \E k \in 0 .. Len(s \o <<m>>) : ShownFrom(s \o <<m>>, k, now)
<1> DEFINE t == s \o <<m>>
<1>1. Len(t) = Len(s) + 1 /\ Len(s) \in Nat /\ \A i \in 1 .. Len(s) : t[i] = s[i]
    BY AddIndex
<1>2. t[Len(s) + 1] = m
    BY AddIndex
<1> HIDE DEF t
<1>3. ASSUME NEW j \in n + 1 .. Len(t) PROVE t[j].type \notin Disturbing
    BY <1>1, <1>2 DEF ShownFrom
<1>4. n # 0 => t[n].type = "botStarted"
    BY <1>1 DEF ShownFrom
<1>5. ShownFrom(t, n, now)
    BY <1>3, <1>4 DEF ShownFrom
<1> QED BY <1>1, <1>5 DEF t

(* and it is on its way when its beginning has been sent.                  *)
LEMMA ShownAdded ==
    ASSUME NEW s \in Seq(Messages), NEW m \in Messages, NEW now, m.type = "botStarted"
    PROVE  \E k \in 0 .. Len(s \o <<m>>) : ShownFrom(s \o <<m>>, k, now)
<1> DEFINE t == s \o <<m>>
<1>1. Len(t) = Len(s) + 1 /\ Len(s) \in Nat /\ t[Len(s) + 1] = m
    BY AddIndex
<1> HIDE DEF t
<1>2. ShownFrom(t, Len(s) + 1, now)
    BY <1>1 DEF ShownFrom
<1> QED BY <1>1, <1>2 DEF t
-----------------------------------------------------------------------------
(* The page as it is loaded, and a host without a session.                 *)
LEMMA InitTypeInv == Init => TypeInv
<1> SUFFICES ASSUME Init PROVE TypeInv
    OBVIOUS
<1>1. Rest \in [emotion : Held \cup {"neutral", "friendly"}, behavior : {"none", "greet"},
                wink : {"none", "wink"}]
    BY DEF Rest
<1>2. ClockInv
    BY <1>1 DEF Init, ClockInv, Looks
<1>3. MouthInv
    BY TimesAssumption DEF Init, MouthInv
<1>4. << >> \in Seq(Messages) /\ << >> \in Seq(ClientMessages) /\ Len(<< >>) = 0
    OBVIOUS
<1>5. SessionInv
  <2>1. /\ face = "offline" /\ conn = "off" /\ shown = "disconnected" /\ sessions = 0
        /\ down = << >> /\ up = << >> /\ gate \in {"awake", "asleep"}
      BY DEF Init
  <2>2. greeted = FALSE /\ userSpeaking = FALSE /\ botSpeaking = FALSE /\ undisturbed = FALSE
      BY DEF Init
  <2>3. sessions \in 0 .. NumSessions /\ 0 <= ChannelSize
      BY <2>1, TimesAssumption
  <2> QED BY <1>4, <2>1, <2>2, <2>3 DEF SessionInv, InSession
<1> QED BY <1>2, <1>3, <1>5 DEF TypeInv

(* Steps that leave the looks and their timeouts alone.                    *)
LEMMA ClockKept == ClockInv /\ UNCHANGED clockVars => ClockInv'
BY DEF ClockInv, clockVars

(* Steps that leave the mouth and its loop alone.                          *)
LEMMA MouthKept == MouthInv /\ UNCHANGED mouthVars => MouthInv'
BY DEF MouthInv, mouthVars

(* holdEmotion ends the timeout of the emotion before: one is pending.     *)
LEMMA HoldEmotionClock ==
    ASSUME ClockInv, NEW emotion \in Held \cup Commands, NEW time \in Nat,
           HoldEmotion(emotion, time)
    PROVE  ClockInv'
<1>1. CASE emotion = "wink"
    BY <1>1, TimesAssumption DEF HoldEmotion, ClockInv, Kinds, Looks
<1>2. CASE emotion = "neutral"
    BY <1>2 DEF HoldEmotion, ClockInv, Kinds, Looks, Cleared, Promises
<1>3. CASE emotion \notin {"wink", "neutral"}
    BY <1>3 DEF HoldEmotion, ClockInv, Kinds, Looks, Restarts, Cleared, Promises, Held, Commands
<1> QED BY <1>1, <1>2, <1>3

(* playBehavior does so with the timeout of the animation before.          *)
LEMMA PlayBehaviorClock ==
    ASSUME ClockInv, NEW time \in Nat, PlayBehavior("greet", "friendly", time)
    PROVE  ClockInv'
<1>1. /\ look' = [look EXCEPT !.emotion = "friendly", !.behavior = "greet"]
      /\ timeouts' = [timeouts EXCEPT !.behavior = Cleared("behavior") \cup {time}]
      /\ timer' = [timer EXCEPT !.behavior = time]
      /\ promised' = [emotion |-> 0, behavior |-> time]
    BY DEF PlayBehavior, Restarts
<1>2. /\ look' \in [emotion : Held \cup {"neutral", "friendly"}, behavior : {"none", "greet"},
                    wink : {"none", "wink"}]
      /\ timer' \in [Kinds -> Nat]
    BY <1>1 DEF ClockInv, Kinds
<1>3. timeouts' \in [Looks -> SUBSET Nat]
    BY <1>1 DEF ClockInv, Kinds, Looks, Cleared
<1>4. promised'.emotion = 0 /\ promised'.behavior = time /\ promised' \in [Kinds -> Nat]
    BY <1>1 DEF Kinds
<1>5. ASSUME NEW k \in Kinds PROVE timeouts'[k] \subseteq {timer'[k]} /\ promised'[k] <= timer'[k]
  <2>1. CASE k = "behavior"
      BY <1>1, <1>4, <2>1 DEF ClockInv, Kinds, Looks, Cleared
  <2>2. CASE k = "emotion"
      BY <1>1, <1>4, <2>2 DEF ClockInv, Kinds, Looks
  <2> QED BY <2>1, <2>2 DEF Kinds
<1> QED BY <1>2, <1>3, <1>4, <1>5 DEF ClockInv

(* Time passes for a timeout and for what it has promised alike.           *)
LEMMA TickClock == ASSUME ClockInv, Tick PROVE ClockInv'
<1>1. /\ timeouts' = [k \in Looks |-> {t - 1 : t \in timeouts[k]}]
      /\ timer' = [k \in Kinds |-> Less(timer[k])]
      /\ promised' = [k \in Kinds |-> Less(promised[k])]
      /\ look' = look
    BY DEF Tick
<1>2. \A n \in Nat : Less(n) \in Nat
    BY DEF Less
<1>3. \A m, n \in Nat : m <= n => Less(m) <= Less(n)
    BY DEF Less
<1>4. ASSUME NEW k \in Kinds
      PROVE  timeouts'[k] \subseteq {timer'[k]}
  <2>1. timeouts[k] \subseteq Nat \ {0} /\ timeouts[k] \subseteq {timer[k]}
      BY DEF ClockInv, Tick, Looks
  <2>2. \A t \in timeouts[k] : t - 1 = Less(timer[k])
      BY <2>1 DEF Less
  <2> QED BY <1>1, <2>2 DEF Looks
<1>5. timeouts' \in [Looks -> SUBSET Nat]
  <2>1. ASSUME NEW k \in Looks PROVE {t - 1 : t \in timeouts[k]} \subseteq Nat
    <3>1. timeouts[k] \subseteq Nat \ {0}
        BY DEF ClockInv, Tick
    <3>2. \A t \in timeouts[k] : t - 1 \in Nat
        BY <3>1
    <3> QED BY <3>2
  <2> QED BY <1>1, <2>1
<1>6. timer' \in [Kinds -> Nat] /\ promised' \in [Kinds -> Nat]
    BY <1>1, <1>2 DEF ClockInv
<1>7. \A k \in Kinds : promised'[k] <= timer'[k]
    BY <1>1, <1>3 DEF ClockInv
<1> QED BY <1>1, <1>4, <1>5, <1>6, <1>7 DEF ClockInv

(* The callback of a timeout that is due.                                  *)
LEMMA FiresClock == ASSUME ClockInv, NEW k \in Looks, Fires(k) PROVE ClockInv'
BY DEF Fires, ClockInv, Kinds, Looks, Rest

(* What a callback finds in the channel, and leaves there.                 *)
LEMMA ReceivesEffect ==
    ASSUME SessionInv, NEW type, Receives(type)
    PROVE  /\ InSession
           /\ down # <<>>
           /\ Head(down) \in Messages
           /\ Head(down).type = type
           /\ down' = Tail(down)
           /\ down' \in Seq(Messages)
           /\ Len(down') <= ChannelSize
BY TailIndex, TimesAssumption DEF Receives, SessionInv, InSession
-----------------------------------------------------------------------------
(* The session and its messages are of their types after every step.       *)
sessionVars == <<face, shown, conn, sessions, down, up, gate, greeted, speechVars>>

(* Steps that leave the session and its messages alone.                    *)
LEMMA SessionKept == SessionInv /\ UNCHANGED sessionVars => SessionInv'
BY DEF SessionInv, InSession, sessionVars, speechVars

(* The callbacks of the client, one message each.                          *)
LEMMA CallbackSession == ASSUME SessionInv, Callback PROVE SessionInv'
<1>1. CASE OnBotReady
  <2>1. Receives("ready") BY <1>1 DEF OnBotReady
  <2> QED BY <1>1, <2>1, ReceivesEffect DEF OnBotReady, SessionInv, InSession, speechVars, hostVars
<1>2. CASE OnServerMessage
  <2>1. Receives("behavior") /\ SendClientMessage("ack") BY <1>2 DEF OnServerMessage
  <2>2. up' \in Seq(ClientMessages) /\ Len(up') <= ChannelSize
      BY <2>1, TimesAssumption DEF SendClientMessage, SessionInv, ClientMessages
  <2> QED BY <1>2, <2>1, <2>2, ReceivesEffect
          DEF OnServerMessage, SessionInv, InSession, connVars, speechVars, hostVars
<1>3. CASE OnTrackStarted
    BY <1>3, SessionKept DEF OnTrackStarted, sessionVars, connVars, speechVars, hostVars
<1>4. ASSUME NEW type, Receives(type),
             NEW state \in {"listening", "thinking", "speaking", "idle"} \cup {face},
             SetState(state)
      PROVE  SessionInv'
    BY <1>4, ReceivesEffect DEF SetState, SessionInv, InSession, connVars, speechVars, hostVars
<1>5. CASE OnUserStartedSpeaking BY <1>4, <1>5 DEF OnUserStartedSpeaking
<1>6. CASE OnUserStoppedSpeaking BY <1>4, <1>6 DEF OnUserStoppedSpeaking
<1>7. CASE OnBotStartedSpeaking BY <1>4, <1>7 DEF OnBotStartedSpeaking
<1>8. CASE OnBotStoppedSpeaking BY <1>4, <1>8 DEF OnBotStoppedSpeaking
<1>9. ASSUME NEW type, Receives(type), UNCHANGED <<face, connVars, up, speechVars, hostVars>>
      PROVE  SessionInv'
    BY <1>9, ReceivesEffect DEF SessionInv, InSession, connVars, speechVars, hostVars
<1>10. CASE OnUserTranscript BY <1>9, <1>10 DEF OnUserTranscript
<1>11. CASE OnBotOutput BY <1>9, <1>11 DEF OnBotOutput
<1> QED BY <1>1, <1>2, <1>3, <1>5, <1>6, <1>7, <1>8, <1>10, <1>11 DEF Callback

(* The buttons send a message, if the bot is ready.                        *)
LEMMA PressesSession ==
    ASSUME SessionInv, NEW message \in ClientMessages, NEW state \in {"idle", "sleeping"},
           Presses(message, state)
    PROVE  SessionInv'
<1>1. up' \in Seq(ClientMessages) /\ Len(up') <= ChannelSize
    BY TimesAssumption DEF Presses, SendClientMessage, SessionInv
<1>2. ~ InSession => up' = << >>
    BY DEF Presses, SendClientMessage, SessionInv, InSession
<1> QED BY <1>1, <1>2 DEF Presses, SessionInv, InSession, connVars

(* Connecting, and each way a session ends.                                *)
LEMMA ConnectionSession ==
    ASSUME SessionInv,
           ClickConnect \/ ClickDisconnect \/ ConnectFails \/ Left \/ ConnectionLost \/ PageReloads
    PROVE  SessionInv'
<1>1. << >> \in Seq(Messages) /\ << >> \in Seq(ClientMessages) /\ Len(<< >>) = 0
      /\ 0 <= ChannelSize
    BY TimesAssumption
<1>2. CASE ClickConnect
  <2>1. sessions' \in 0 .. NumSessions /\ sessions' # 0
      BY <1>2, TimesAssumption DEF ClickConnect, SessionInv
  <2> QED BY <1>2, <2>1 DEF ClickConnect, SessionInv, InSession, speechVars
<1>3. CASE SessionEnds
          /\ conn' \in {"off", "leaving"}
          /\ \/ face' = "offline" /\ shown' = "disconnected"
             \/ UNCHANGED <<face, shown>> /\ conn' = "leaving"
    BY <1>1, <1>3 DEF SessionEnds, SessionInv, InSession, hostVars
<1> QED BY <1>2, <1>3
        DEF ClickDisconnect, ConnectFails, Left, ConnectionLost, PageReloads, ShowsOffline

(* What the host sends arrives at the end of the channel of a session.     *)
LEMMA SendsEffect ==
    ASSUME SessionInv, NEW m \in Messages, Sends(<<m>>)
    PROVE  /\ InSession /\ InSession'
           /\ down' = down \o <<m>>
           /\ down' \in Seq(Messages)
           /\ Len(down') <= ChannelSize
BY AddIndex, TimesAssumption DEF Sends, SessionInv, InSession, connVars

(* The same of two messages at once.                                       *)
LEMMA SendsTwoEffect ==
    ASSUME SessionInv, NEW m \in Messages, NEW n \in Messages, Sends(<<m, n>>)
    PROVE  /\ InSession /\ InSession'
           /\ down \o <<m>> \in Seq(Messages)
           /\ down' = (down \o <<m>>) \o <<n>>
           /\ down' \in Seq(Messages)
           /\ Len(down') <= ChannelSize
<1>1. down \in Seq(Messages) /\ down' = down \o <<m, n>>
    BY DEF Sends, SessionInv
<1>2. down \o <<m>> \in Seq(Messages) /\ Len(down \o <<m>>) = Len(down) + 1 /\ Len(down) \in Nat
    BY <1>1, AddIndex
<1>0. down \o <<m, n>> = (down \o <<m>>) \o <<n>>
    BY <1>1, AddTwo
<1> DEFINE t == down \o <<m>>
<1> HIDE DEF t
<1>3. t \o <<n>> \in Seq(Messages) /\ Len(t \o <<n>>) = Len(t) + 1
    BY <1>2, AddIndex DEF t
<1>4. down' = t \o <<n>>
    BY <1>0, <1>1 DEF t
<1>5. Len(<<m, n>>) = 2
    OBVIOUS
<1>6. Len(down') <= ChannelSize
    BY <1>2, <1>3, <1>4, <1>5 DEF Sends, t
<1> QED BY <1>2, <1>3, <1>4, <1>6 DEF Sends, InSession, connVars, t

(* The messages of the host that are no more than their type.              *)
Plain == {"ready", "behavior", "userStarted", "userStopped", "botStarted", "botStopped"}

(* ... are messages;                                                       *)
LEMMA PlainMessage == \A type \in Plain : [type |-> type] \in Messages
BY DEF Plain, Messages

(* and so are the transcripts and outputs that move the face.              *)
LEMMA SaidMessage ==
    /\ \A c \in Commands : [type |-> "transcript", emotion |-> c] \in Messages
    /\ [type |-> "output", emotion |-> Cue] \in Messages
BY DEF Messages

(* The host answers the client's ready with two messages, in some order.   *)
LEMMA AnswersReadyEffect ==
    ASSUME SessionInv, AnswersReady
    PROVE  \E m, n \in Messages :
               /\ {m.type, n.type} = {"ready", "behavior"}
               /\ Sends(<<m, n>>)
<1> DEFINE r == [type |-> "ready"]
           b == [type |-> "behavior"]
<1>1. r \in Messages /\ b \in Messages /\ r.type = "ready" /\ b.type = "behavior"
    BY PlainMessage DEF Plain
<1>2. Sends(<<r, b>>) \/ Sends(<<b, r>>)
    BY DEF AnswersReady
<1> HIDE DEF r, b
<1> QED BY <1>1, <1>2

(* The steps of the host.                                                  *)
LEMMA HostSession == ASSUME SessionInv, Host PROVE SessionInv'
<1>1. ASSUME NEW m \in Messages, Sends(<<m>>), greeted' \in BOOLEAN,
             userSpeaking' \in BOOLEAN, botSpeaking' \in BOOLEAN, undisturbed' \in BOOLEAN
      PROVE  SessionInv'
    BY <1>1, SendsEffect DEF Sends, SessionInv, InSession, connVars
<1>2. CASE AnswersReady
  <2>1. PICK m \in Messages, n \in Messages : Sends(<<m, n>>)
      BY <1>2, AnswersReadyEffect
  <2> QED BY <1>2, <2>1, SendsTwoEffect
          DEF AnswersReady, Sends, SessionInv, InSession, connVars, speechVars
<1>3. CASE OnClientMessage
  <2>1. Tail(up) \in Seq(ClientMessages) /\ Len(Tail(up)) <= ChannelSize
      BY <1>3, TailIndex, TimesAssumption DEF OnClientMessage, SessionInv
  <2>2. gate' \in {"awake", "asleep"}
      BY <1>3 DEF OnClientMessage, SessionInv
  <2> QED BY <1>3, <2>1, <2>2 DEF OnClientMessage, SessionInv, InSession, connVars, speechVars
<1>4. CASE GateTimesOut
    BY <1>4 DEF GateTimesOut, SessionInv, InSession, connVars, speechVars
<1>5. CASE UserStarts
    BY <1>1, <1>5, PlainMessage DEF UserStarts, Begins, Plain, SessionInv
<1>6. CASE UserStops
    BY <1>1, <1>6, PlainMessage DEF UserStops, Ceases, Plain, SessionInv
<1>7. CASE BotStarts
    BY <1>1, <1>7, PlainMessage DEF BotStarts, Begins, Plain, SessionInv
<1>8. CASE BotStops
    BY <1>1, <1>8, PlainMessage DEF BotStops, Ceases, Plain, SessionInv
<1>9. ASSUME NEW c \in Commands, Says("transcript", c) PROVE SessionInv'
    BY <1>1, <1>9, SaidMessage DEF Says, SessionInv, speechVars
<1>10. CASE Says("output", Cue)
    BY <1>1, <1>10, SaidMessage DEF Says, SessionInv, speechVars
<1> QED BY <1>2, <1>3, <1>4, <1>5, <1>6, <1>7, <1>8, <1>9, <1>10 DEF Host

(* Every step.                                                             *)
LEMMA NextSession == ASSUME SessionInv, [Next]_vars PROVE SessionInv'
<1>1. CASE Callback BY <1>1, CallbackSession
<1>2. CASE ClickWake \/ ClickSleep
    BY <1>2, PressesSession DEF ClickWake, ClickSleep, ClientMessages
<1>3. CASE ClickConnect \/ ClickDisconnect \/ ConnectFails \/ Left \/ ConnectionLost
              \/ PageReloads
    BY <1>3, ConnectionSession
<1>4. CASE Host BY <1>4, HostSession
<1>5. CASE Tick
    BY <1>5, SessionKept DEF Tick, sessionVars, connVars, hostVars
<1>6. ASSUME NEW k \in Looks, Fires(k) PROVE SessionInv'
    BY <1>6, SessionKept DEF Fires, sessionVars, connVars, hostVars
<1>7. ASSUME NEW t \in Tracks, Frame(t) PROVE SessionInv'
    BY <1>7, SessionKept DEF Frame, sessionVars, connVars, hostVars
<1>8. CASE UNCHANGED vars
    BY <1>8, SessionKept DEF vars, sessionVars, connVars, hostVars
<1> QED BY <1>1, <1>2, <1>3, <1>4, <1>5, <1>6, <1>7, <1>8 DEF Next
-----------------------------------------------------------------------------
(* The looks and the mouth are of their types after every step.            *)
LEMMA NextClock == ASSUME SessionInv, ClockInv, [Next]_vars PROVE ClockInv'
<1> USE TimesAssumption
<1>1. CASE Callback
  <2>1. CASE OnUserTranscript
    <3>1. Head(down) \in Messages /\ Head(down).type = "transcript"
        BY <2>1, ReceivesEffect DEF OnUserTranscript
    <3>2. Head(down).emotion \in Held \cup Commands
        BY <3>1 DEF Messages
    <3> QED BY <2>1, <3>2, HoldEmotionClock DEF OnUserTranscript
  <2>2. CASE OnBotOutput
    <3>1. Head(down) \in Messages /\ Head(down).type = "output"
        BY <2>2, ReceivesEffect DEF OnBotOutput
    <3>2. Head(down).emotion \in Held \cup Commands
        BY <3>1 DEF Messages, Held
    <3> QED BY <2>2, <3>2, HoldEmotionClock DEF OnBotOutput
  <2>3. CASE OnServerMessage
      BY <2>3, PlayBehaviorClock DEF OnServerMessage
  <2> QED BY <1>1, <2>1, <2>2, <2>3, ClockKept
          DEF Callback, OnBotReady, OnTrackStarted, SetState, OnUserStartedSpeaking,
              OnUserStoppedSpeaking, OnBotStartedSpeaking, OnBotStoppedSpeaking
<1>2. CASE PageReloads
  <2>1. Rest \in [emotion : Held \cup {"neutral", "friendly"}, behavior : {"none", "greet"},
                  wink : {"none", "wink"}]
      BY DEF Rest
  <2>2. timeouts' = [k \in Looks |-> {}] /\ timeouts' \in [Looks -> SUBSET Nat]
      BY <1>2 DEF PageReloads
  <2>3. ASSUME NEW k \in Kinds PROVE timeouts'[k] = {}
      BY <2>2 DEF Looks
  <2>4. /\ look' = Rest
        /\ timer' = [k \in Kinds |-> 0]
        /\ promised' = [k \in Kinds |-> 0]
      BY <1>2 DEF PageReloads
  <2>5. \A k \in Kinds : timeouts'[k] \subseteq {timer'[k]} /\ promised'[k] <= timer'[k]
      BY <2>3, <2>4
  <2> QED BY <2>1, <2>2, <2>4, <2>5 DEF ClockInv
<1>3. CASE ClickWake \/ ClickSleep \/ ClickConnect \/ ClickDisconnect \/ ConnectFails \/ Left
              \/ ConnectionLost
    BY <1>3, ClockKept
       DEF ClickWake, ClickSleep, Presses, ClickConnect, ClickDisconnect, ConnectFails, Left,
           ConnectionLost, ShowsOffline
<1>4. CASE Tick BY <1>4, TickClock
<1>5. ASSUME NEW k \in Looks, Fires(k) PROVE ClockInv'
    BY <1>5, FiresClock
<1>6. ASSUME NEW t \in Tracks, Frame(t) PROVE ClockInv'
    BY <1>6, ClockKept DEF Frame
<1>7. CASE Host
    BY <1>7, ClockKept
       DEF Host, AnswersReady, OnClientMessage, GateTimesOut, UserStarts, UserStops, BotStarts,
           BotStops, Says, Begins, Ceases, Sends
<1>8. CASE UNCHANGED vars
    BY <1>8, ClockKept DEF vars
<1> QED BY <1>1, <1>2, <1>3, <1>4, <1>5, <1>6, <1>7, <1>8 DEF Next

(* attachMouthAnalyser replaces the loop of the track before.              *)
LEMMA NextMouth == ASSUME SessionInv, MouthInv, [Next]_vars PROVE MouthInv'
<1>1. CASE Callback
  <2>1. CASE OnTrackStarted
    <3>1. sessions \in Tracks
        BY <2>1, TimesAssumption DEF OnTrackStarted, SessionInv, InSession, Tracks
    <3>2. frames' \subseteq {sessions} /\ mouthRaf' = sessions /\ mouth' = mouth
        BY <2>1 DEF OnTrackStarted, AttachMouthAnalyser, MouthInv
    <3> QED BY <3>1, <3>2, TimesAssumption DEF MouthInv, Tracks
  <2> QED BY <1>1, <2>1, MouthKept
          DEF Callback, OnBotReady, OnServerMessage, SetState, OnUserStartedSpeaking,
              OnUserStoppedSpeaking, OnBotStartedSpeaking, OnBotStoppedSpeaking,
              OnUserTranscript, OnBotOutput
<1>2. CASE PageReloads
    BY <1>2, TimesAssumption DEF PageReloads, MouthInv
<1>3. CASE ClickWake \/ ClickSleep \/ ClickConnect \/ ClickDisconnect \/ ConnectFails \/ Left
              \/ ConnectionLost
    BY <1>3, MouthKept
       DEF ClickWake, ClickSleep, Presses, ClickConnect, ClickDisconnect, ConnectFails, Left,
           ConnectionLost, ShowsOffline
<1>4. CASE Tick BY <1>4, MouthKept DEF Tick
<1>5. ASSUME NEW k \in Looks, Fires(k) PROVE MouthInv'
    BY <1>5, MouthKept DEF Fires
<1>6. ASSUME NEW t \in Tracks, Frame(t) PROVE MouthInv'
    BY <1>6, TimesAssumption DEF Frame, MouthInv, Tracks
<1>7. CASE Host
    BY <1>7, MouthKept
       DEF Host, AnswersReady, OnClientMessage, GateTimesOut, UserStarts, UserStops, BotStarts,
           BotStops, Says, Begins, Ceases, Sends
<1>8. CASE UNCHANGED vars
    BY <1>8, MouthKept DEF vars
<1> QED BY <1>1, <1>2, <1>3, <1>4, <1>5, <1>6, <1>7, <1>8 DEF Next

(* The inductive step of the type invariant.                               *)
LEMMA NextTypeInv == TypeInv /\ [Next]_vars => TypeInv'
BY NextSession, NextClock, NextMouth DEF TypeInv

(* The stronger invariant gives the one the runs check.                    *)
LEMMA TypeInvImplies == TypeInv => TypeOK
<1> SUFFICES ASSUME TypeInv PROVE TypeOK
    OBVIOUS
<1>1. /\ look \in [emotion : Held \cup {"neutral", "friendly"}, behavior : {"none", "greet"},
                   wink : {"none", "wink"}]
      /\ timeouts \in [Looks -> SUBSET Nat]
      /\ timer \in [Kinds -> Nat]
      /\ \A k \in Kinds : timeouts[k] \subseteq {timer[k]}
    BY DEF TypeInv, ClockInv
<1>2. {greeted, userSpeaking, botSpeaking, undisturbed} \subseteq BOOLEAN
    BY Zenon DEF TypeInv, SessionInv
<1> QED BY <1>1, <1>2, Zenon DEF TypeInv, MouthInv, SessionInv, TypeOK

(* The stronger invariant holds in every state.                            *)
LEMMA TypeInvHolds == Spec => []TypeInv
<1>1. Init => TypeInv BY InitTypeInv
<1>2. TypeInv /\ [Next]_vars => TypeInv' BY NextTypeInv
<1> QED BY <1>1, <1>2, PTL DEF Spec

(* The face, its timers and the channels are of their types; each timer    *)
(* variable of the page names the one timeout that is pending (clearTimeout*)
(* in holdEmotion and playBehavior), and mouthRaf its one animation loop.  *)
THEOREM FaceTypeCorrect == Spec => []TypeOK
BY TypeInvHolds, TypeInvImplies, PTL

(* The step of SeenInFull.                                                 *)
LEMMA NextSeenInFull ==
    ASSUME TypeInv, [Next]_vars, NEW k \in Kinds, look[k] # Rest[k], look'[k] = Rest[k],
           down' = down
    PROVE  promised'[k] = 0
<1> USE TimesAssumption
<1>1. CASE Callback
  <2>1. CASE OnTrackStarted BY <2>1 DEF OnTrackStarted, clockVars
  <2>2. ASSUME NEW type, Receives(type) PROVE FALSE
    <3>1. down \in Seq(Messages) /\ down # << >> /\ down' = Tail(down)
        BY <2>2 DEF Receives, TypeInv, SessionInv
    <3>2. Len(Tail(down)) = Len(down) - 1 /\ Len(down) \in Nat
        BY <3>1, TailIndex
    <3> QED BY <3>1, <3>2
  <2> QED BY <1>1, <2>1, <2>2
          DEF Callback, OnBotReady, OnServerMessage, OnUserStartedSpeaking, OnUserStoppedSpeaking,
              OnBotStartedSpeaking, OnBotStoppedSpeaking, OnUserTranscript, OnBotOutput
<1>2. CASE PageReloads BY <1>2 DEF PageReloads
<1>3. CASE ClickWake \/ ClickSleep \/ ClickConnect \/ ClickDisconnect \/ ConnectFails \/ Left
              \/ ConnectionLost
    BY <1>3 DEF ClickWake, ClickSleep, Presses, ClickConnect, ClickDisconnect, ConnectFails,
                Left, ConnectionLost, ShowsOffline, clockVars
<1>4. CASE Tick BY <1>4 DEF Tick
<1>5. ASSUME NEW l \in Looks, Fires(l) PROVE promised'[k] = 0
  <2>1. k = l
    <3>1. look' = [look EXCEPT ![l] = Rest[l]]
        BY <1>5 DEF Fires
    <3> QED BY <3>1 DEF TypeInv, ClockInv, Kinds, Looks
  <2>2. timer[k] = 0 /\ promised[k] <= timer[k] /\ promised[k] \in Nat
      BY <1>5, <2>1 DEF Fires, TypeInv, ClockInv, Looks
  <2> QED BY <1>5, <2>2 DEF Fires
<1>6. ASSUME NEW t \in Tracks, Frame(t) PROVE FALSE
    BY <1>6 DEF Frame, clockVars
<1>7. CASE Host
    BY <1>7 DEF Host, AnswersReady, OnClientMessage, GateTimesOut, UserStarts, UserStops,
                BotStarts, BotStops, Says, Begins, Ceases, Sends, clockVars
<1>8. CASE UNCHANGED vars BY <1>8 DEF vars, clockVars
<1> QED BY <1>1, <1>2, <1>3, <1>4, <1>5, <1>6, <1>7, <1>8 DEF Next

(* However commands, cues and greetings follow each other, no emotion that *)
(* is held and no animation of a behaviour is ended by the timeout of an   *)
(* earlier one: the clearTimeout of holdEmotion and of playBehavior.  The  *)
(* emotion that a behaviour brings is not held, and earlier timeouts end   *)
(* it as they end a wink.                                                  *)
THEOREM FaceSeenInFull == Spec => SeenInFull
<1>1. TypeInv /\ [Next]_vars =>
        [\A k \in Kinds :
           look[k] # Rest[k] /\ look'[k] = Rest[k] /\ down' = down => promised'[k] = 0]_vars
    BY NextSeenInFull
<1> QED BY <1>1, TypeInvHolds, PTL DEF Spec, SeenInFull
-----------------------------------------------------------------------------
(* What the face shows, after a message has been received, sent, or none.  *)
LEMMA FaceKept ==
    ASSUME FaceInv, UNCHANGED <<face, conn, down, greeted, speechVars>>
    PROVE  FaceInv'
BY DEF FaceInv, ShownSoon, ShownFrom, LastIsTrue, NoneOf, InSession, speechVars

(* A callback shows speech at its own event only, or leaves it shown.      *)
LEMMA ReceivedFace ==
    ASSUME SessionInv, FaceInv, NEW type, Receives(type),
           UNCHANGED <<greeted, speechVars>>,
           conn' \in {"connecting", "up"},
           conn' = "up" => face' # "offline",
           face' = "speaking" =>
               type = "botStarted" \/ (face = "speaking" /\ type \notin BotEvents),
           face' = "listening" =>
               type = "userStarted" \/ (face = "listening" /\ type \notin UserEvents),
           type = "botStarted" => face' = "speaking",
           face = "speaking" /\ type \notin Disturbing => face' = "speaking"
    PROVE  FaceInv'
<1>1. /\ InSession /\ down \in Seq(Messages) /\ down # << >> /\ Head(down).type = type
      /\ down' = Tail(down)
    BY ReceivesEffect DEF SessionInv
<1>2. /\ botSpeaking' = botSpeaking /\ userSpeaking' = userSpeaking
      /\ undisturbed' = undisturbed /\ greeted' = greeted
    BY DEF speechVars
<1>3. LastIsTrue(Tail(down), "botStarted", "botStopped", botSpeaking)
    BY <1>1, LastTail DEF FaceInv
<1>4. LastIsTrue(Tail(down), "userStarted", "userStopped", userSpeaking)
    BY <1>1, LastTail DEF FaceInv
<1>5. ASSUME NoneOf(Tail(down), BotEvents), face' = "speaking" PROVE botSpeaking
  <2>1. CASE type = "botStarted"
      BY <1>1, <1>5, <2>1, LastReceived DEF FaceInv, BotEvents
  <2>2. CASE face = "speaking" /\ type \notin BotEvents
      BY <1>1, <1>5, <2>2, NoneTail DEF FaceInv
  <2> QED BY <1>5, <2>1, <2>2
<1>6. ASSUME NoneOf(Tail(down), UserEvents), face' = "listening" PROVE userSpeaking
  <2>1. CASE type = "userStarted"
      BY <1>1, <1>6, <2>1, LastReceived DEF FaceInv, UserEvents
  <2>2. CASE face = "listening" /\ type \notin UserEvents
      BY <1>1, <1>6, <2>2, NoneTail DEF FaceInv
  <2> QED BY <1>6, <2>1, <2>2
<1>7. ASSUME undisturbed
      PROVE  /\ greeted /\ botSpeaking
             /\ \E n \in 0 .. Len(Tail(down)) : ShownFrom(Tail(down), n, face')
  <2>1. PICK n \in 0 .. Len(down) : ShownFrom(down, n, face)
      BY <1>7 DEF FaceInv, ShownSoon
  <2> QED BY <1>1, <1>7, <2>1, ShownTail DEF FaceInv
<1> QED BY <1>1, <1>2, <1>3, <1>4, <1>5, <1>6, <1>7 DEF FaceInv, ShownSoon, InSession

(* An event is sent in the step of the host that it tells of.              *)
LEMMA SentFace ==
    ASSUME SessionInv, FaceInv, NEW m \in Messages, Sends(<<m>>),
           m.type \in BotEvents => (botSpeaking' <=> m.type = "botStarted"),
           m.type \notin BotEvents => botSpeaking' = botSpeaking,
           m.type \in UserEvents => (userSpeaking' <=> m.type = "userStarted"),
           m.type \notin UserEvents => userSpeaking' = userSpeaking,
           undisturbed' =>
               /\ greeted' /\ botSpeaking'
               /\ \/ m.type = "botStarted"
                  \/ undisturbed /\ m.type \notin Disturbing
    PROVE  FaceInv'
<1> DEFINE s == down \o <<m>>
<1>1. /\ InSession /\ down \in Seq(Messages) /\ down' = s
      /\ face' = face /\ conn' = conn
    BY SendsEffect DEF SessionInv, Sends, connVars
<1>2. LastIsTrue(s, "botStarted", "botStopped", botSpeaking')
  <2>1. CASE m.type \in BotEvents BY <1>1, <2>1, LastAdded DEF BotEvents
  <2>2. CASE m.type \notin BotEvents BY <1>1, <2>2, LastAddOther DEF BotEvents, FaceInv
  <2> QED BY <2>1, <2>2
<1>3. LastIsTrue(s, "userStarted", "userStopped", userSpeaking')
  <2>1. CASE m.type \in UserEvents BY <1>1, <2>1, LastAdded DEF UserEvents
  <2>2. CASE m.type \notin UserEvents BY <1>1, <2>2, LastAddOther DEF UserEvents, FaceInv
  <2> QED BY <2>1, <2>2
<1>4. NoneOf(s, BotEvents) => NoneOf(down, BotEvents) /\ m.type \notin BotEvents
    BY <1>1, NoneAdd
<1>5. NoneOf(s, UserEvents) => NoneOf(down, UserEvents) /\ m.type \notin UserEvents
    BY <1>1, NoneAdd
<1>6. ASSUME undisturbed' PROVE \E n \in 0 .. Len(s) : ShownFrom(s, n, face)
  <2>1. CASE m.type = "botStarted" BY <1>1, <2>1, ShownAdded
  <2>2. CASE undisturbed /\ m.type \notin Disturbing
    <3>1. PICK n \in 0 .. Len(down) : ShownFrom(down, n, face)
        BY <2>2 DEF FaceInv, ShownSoon
    <3> QED BY <1>1, <2>2, <3>1, ShownAdd
  <2> QED BY <1>6, <2>1, <2>2
<1> HIDE DEF s
<1> QED BY <1>1, <1>2, <1>3, <1>4, <1>5, <1>6 DEF FaceInv, ShownSoon, InSession

(* The host's answer to the client's ready tells of no one's speech.       *)
LEMMA SentTwoFace ==
    ASSUME SessionInv, FaceInv, AnswersReady
    PROVE  FaceInv'
<1>1. PICK m \in Messages, n \in Messages :
          {m.type, n.type} = {"ready", "behavior"} /\ Sends(<<m, n>>)
    BY AnswersReadyEffect
<1>2. {m.type, n.type} \cap (BotEvents \cup UserEvents) = {}
    BY <1>1 DEF BotEvents, UserEvents
<1> DEFINE s == down \o <<m>>
           t == s \o <<n>>
<1>3. /\ InSession /\ down \in Seq(Messages) /\ s \in Seq(Messages) /\ down' = t
      /\ face' = face /\ conn' = conn
    BY <1>1, SendsTwoEffect DEF SessionInv, Sends, connVars
<1>4. botSpeaking' = botSpeaking /\ userSpeaking' = userSpeaking /\ ~ undisturbed'
    BY DEF AnswersReady, speechVars, FaceInv
<1>5. LastIsTrue(s, "botStarted", "botStopped", botSpeaking)
      /\ LastIsTrue(s, "userStarted", "userStopped", userSpeaking)
    BY <1>2, <1>3, LastAddOther DEF FaceInv, BotEvents, UserEvents
<1>6. ASSUME NEW T, NoneOf(t, T) PROVE NoneOf(down, T)
    BY <1>3, <1>6, NoneAdd
<1> HIDE DEF s
<1>7. LastIsTrue(t, "botStarted", "botStopped", botSpeaking)
      /\ LastIsTrue(t, "userStarted", "userStopped", userSpeaking)
    BY <1>2, <1>3, <1>5, LastAddOther DEF BotEvents, UserEvents
<1> HIDE DEF t
<1> QED BY <1>3, <1>4, <1>6, <1>7 DEF FaceInv, InSession

(* The end of a session leaves nothing to be shown.                        *)
LEMMA EndedFace ==
    ASSUME SessionInv, FaceInv,
           ~ InSession', down' = << >>, ~ undisturbed', conn' = "off" => face' = "offline"
    PROVE  FaceInv'
<1>1. Len(<< >>) = 0
    OBVIOUS
<1> QED BY <1>1 DEF FaceInv, InSession, LastIsTrue

(* The page as it is loaded is offline.                                    *)
LEMMA InitFaceInv == Init => FaceInv
<1>1. Len(<< >>) = 0
    OBVIOUS
<1> QED BY <1>1 DEF Init, FaceInv, InSession, LastIsTrue

(* The callbacks, with the guards of those that end speech.                *)
LEMMA CallbackFace == ASSUME SessionInv, FaceInv, Callback PROVE FaceInv'
<1> USE DEF BotEvents, UserEvents, Disturbing
<1>1. CASE OnBotReady
    BY <1>1, ReceivedFace DEF OnBotReady, hostVars
<1>2. CASE OnTrackStarted
    BY <1>2, FaceKept DEF OnTrackStarted, connVars, hostVars
<1>3. ASSUME NEW type \in {"behavior", "transcript", "output"}, Receives(type),
             UNCHANGED <<face, connVars, speechVars, hostVars>>
      PROVE  FaceInv'
    BY <1>3, ReceivedFace DEF Receives, FaceInv, connVars, hostVars
<1>4. CASE OnServerMessage BY <1>3, <1>4 DEF OnServerMessage
<1>5. CASE OnUserTranscript BY <1>3, <1>5 DEF OnUserTranscript
<1>6. CASE OnBotOutput BY <1>3, <1>6 DEF OnBotOutput
<1>7. CASE OnUserStartedSpeaking
    BY <1>7, ReceivedFace DEF OnUserStartedSpeaking, SetState, Receives, connVars, hostVars
<1>8. CASE OnUserStoppedSpeaking
    BY <1>8, ReceivedFace
       DEF OnUserStoppedSpeaking, SetState, Receives, FaceInv, connVars, hostVars
<1>9. CASE OnBotStartedSpeaking
    BY <1>9, ReceivedFace DEF OnBotStartedSpeaking, SetState, Receives, connVars, hostVars
<1>10. CASE OnBotStoppedSpeaking
    BY <1>10, ReceivedFace DEF OnBotStoppedSpeaking, SetState, Receives, connVars, hostVars
<1> QED BY <1>1, <1>2, <1>4, <1>5, <1>6, <1>7, <1>8, <1>9, <1>10 DEF Callback

(* The buttons show that the robot is idle or asleep, and disturb.         *)
LEMMA PressesFace ==
    ASSUME SessionInv, FaceInv, NEW message, NEW state \in {"idle", "sleeping"},
           Presses(message, state)
    PROVE  FaceInv'
<1>1. /\ face' = state /\ ~ undisturbed' /\ conn' = conn /\ down' = down
      /\ botSpeaking' = botSpeaking /\ userSpeaking' = userSpeaking
      /\ conn # "off"
    BY DEF Presses, SessionInv, connVars
<1> QED BY <1>1 DEF FaceInv, LastIsTrue, InSession

(* The steps of the host.                                                  *)
LEMMA HostFace == ASSUME SessionInv, FaceInv, Host PROVE FaceInv'
<1> USE DEF BotEvents, UserEvents, Disturbing
<1>1. CASE AnswersReady BY <1>1, SentTwoFace
<1>2. CASE OnClientMessage \/ GateTimesOut
    BY <1>2, FaceKept DEF OnClientMessage, GateTimesOut, connVars
<1>3. CASE UserStarts
    BY <1>3, SentFace, PlainMessage DEF UserStarts, Begins, Plain
<1>4. CASE UserStops
    BY <1>4, SentFace, PlainMessage DEF UserStops, Ceases, Plain, FaceInv
<1>5. CASE BotStarts
    BY <1>5, SentFace, PlainMessage DEF BotStarts, Begins, Plain
<1>6. CASE BotStops
    BY <1>6, SentFace, PlainMessage DEF BotStops, Ceases, Plain
<1>7. ASSUME NEW c \in Commands, Says("transcript", c) PROVE FaceInv'
    BY <1>7, SentFace, SaidMessage DEF Says, speechVars, FaceInv
<1>8. CASE Says("output", Cue)
    BY <1>8, SentFace, SaidMessage DEF Says, speechVars, FaceInv
<1> QED BY <1>1, <1>2, <1>3, <1>4, <1>5, <1>6, <1>7, <1>8 DEF Host

(* The inductive step of FaceInv.                                          *)
LEMMA NextFaceInv == ASSUME SessionInv, FaceInv, [Next]_vars PROVE FaceInv'
<1>1. CASE Callback BY <1>1, CallbackFace
<1>2. CASE ClickWake \/ ClickSleep
    BY <1>2, PressesFace DEF ClickWake, ClickSleep
<1>3. CASE ClickConnect
  <2>1. /\ face = "offline" /\ down = << >> /\ ~ undisturbed
        /\ face' = "offline" /\ down' = << >> /\ ~ undisturbed' /\ conn' = "connecting"
      BY <1>3 DEF ClickConnect, SessionInv, FaceInv, InSession, speechVars
  <2>2. Len(<< >>) = 0
      OBVIOUS
  <2> QED BY <2>1, <2>2 DEF FaceInv, LastIsTrue
<1>4. CASE ClickDisconnect \/ ConnectFails \/ Left \/ ConnectionLost \/ PageReloads
    BY <1>4, EndedFace
       DEF ClickDisconnect, ConnectFails, Left, ConnectionLost, PageReloads, SessionEnds,
           ShowsOffline, InSession
<1>5. CASE Host BY <1>5, HostFace
<1>6. CASE Tick BY <1>6, FaceKept DEF Tick, connVars, hostVars
<1>7. ASSUME NEW k \in Looks, Fires(k) PROVE FaceInv'
    BY <1>7, FaceKept DEF Fires, connVars, hostVars
<1>8. ASSUME NEW t \in Tracks, Frame(t) PROVE FaceInv'
    BY <1>8, FaceKept DEF Frame, connVars, hostVars
<1>9. CASE UNCHANGED vars
    BY <1>9, FaceKept DEF vars, connVars, hostVars
<1> QED BY <1>1, <1>2, <1>3, <1>4, <1>5, <1>6, <1>7, <1>8, <1>9 DEF Next

(* Once the messages have come in, FaceInv says what FaceIsTrue does.      *)
LEMMA FaceInvImplies == FaceInv => FaceIsTrue
<1> SUFFICES ASSUME FaceInv PROVE FaceIsTrue
    OBVIOUS
<1>1. Len(<< >>) = 0 /\ 1 .. 0 = {}
    OBVIOUS
<1>2. down = << >> => NoneOf(down, BotEvents) /\ NoneOf(down, UserEvents)
    BY <1>1 DEF NoneOf
<1>3. down = << >> /\ undisturbed => face = "speaking"
  <2>1. SUFFICES ASSUME down = << >>, undisturbed PROVE face = "speaking"
      OBVIOUS
  <2>2. PICK n \in 0 .. Len(down) : ShownFrom(down, n, face)
      BY <2>1 DEF FaceInv, ShownSoon
  <2>3. n = 0
      BY <1>1, <2>1
  <2> QED BY <2>2, <2>3 DEF ShownFrom
<1> QED BY <1>2, <1>3 DEF FaceInv, FaceIsTrue, InSession

(* Whatever order messages, buttons, losses and reloads come in, what the  *)
(* face shows is so once the messages have come in, and a robot that       *)
(* speaks undisturbed is seen to: setState in the callbacks of             *)
(* configureClient, with the guards of the two that end speech.            *)
THEOREM FaceShowsTruth == Spec => []FaceIsTrue
<1>1. Init => FaceInv BY InitFaceInv
<1>2. TypeInv /\ FaceInv /\ [Next]_vars => FaceInv'
    BY NextFaceInv DEF TypeInv
<1> QED BY <1>1, <1>2, TypeInvHolds, FaceInvImplies, PTL DEF Spec
-----------------------------------------------------------------------------
(* The gate is asleep, or will be by a message on its way, and no wake     *)
(* follows.                                                                *)
SleepFrom(channel, n, g) ==
    /\ n = 0 => g = "asleep"
    /\ n # 0 => channel[n] = "robot.sleep"
    /\ \A j \in n + 1 .. Len(channel) : channel[j] # "robot.wake"

SleepInv ==
    conn = "up" /\ WakeMode /\ face = "sleeping" =>
        \E n \in 0 .. Len(up) : SleepFrom(up, n, gate)

(* What a client message that is handled leaves of it,                     *)
LEMMA SleepTail ==
    ASSUME NEW s \in Seq(ClientMessages), s # <<>>, NEW now, NEW next, NEW n \in 0 .. Len(s),
           SleepFrom(s, n, now),
           Head(s) = "robot.sleep" => next = "asleep",
           Head(s) # "robot.wake" /\ now = "asleep" => next = "asleep"
    PROVE  \E k \in 0 .. Len(Tail(s)) : SleepFrom(Tail(s), k, next)
<1>1. /\ Len(Tail(s)) = Len(s) - 1
      /\ Len(s) \in Nat \ {0}
      /\ \A i \in 1 .. Len(s) - 1 : Tail(s)[i] = s[i + 1]
      /\ Head(s) = s[1]
    BY TailIndex
<1>2. ASSUME NEW k \in Nat, k >= n - 1, NEW j \in k + 1 .. Len(Tail(s))
      PROVE  Tail(s)[j] # "robot.wake"
  <2>1. j + 1 \in n + 1 .. Len(s) /\ Tail(s)[j] = s[j + 1]
      BY <1>1, <1>2
  <2> QED BY <2>1 DEF SleepFrom
<1>3. CASE n = 0
  <2>1. 1 \in n + 1 .. Len(s)
      BY <1>1, <1>3
  <2>2. next = "asleep"
      BY <1>1, <1>3, <2>1 DEF SleepFrom
  <2>3. SleepFrom(Tail(s), 0, next)
      BY <1>1, <1>2, <1>3, <2>2 DEF SleepFrom
  <2> QED BY <1>1, <2>3
<1>4. CASE n = 1
  <2>1. next = "asleep"
      BY <1>1, <1>4 DEF SleepFrom
  <2>2. SleepFrom(Tail(s), 0, next)
      BY <1>1, <1>2, <1>4, <2>1 DEF SleepFrom
  <2> QED BY <1>1, <2>2
<1>5. CASE n > 1
  <2>1. n - 1 \in 1 .. Len(s) - 1 /\ Tail(s)[n - 1] = s[n]
      BY <1>1, <1>5
  <2>2. Tail(s)[n - 1] = "robot.sleep"
      BY <1>5, <2>1 DEF SleepFrom
  <2>3. SleepFrom(Tail(s), n - 1, next)
      BY <1>1, <1>2, <1>5, <2>1, <2>2 DEF SleepFrom
  <2> QED BY <1>1, <2>1, <2>3
<1> QED BY <1>3, <1>4, <1>5

(* ... and one that does not wake the robot.                               *)
LEMMA SleepAdd ==
    ASSUME NEW s \in Seq(ClientMessages), NEW m \in ClientMessages, NEW g,
           NEW n \in 0 .. Len(s), SleepFrom(s, n, g), m # "robot.wake"
    PROVE  \E k \in 0 .. Len(s \o <<m>>) : SleepFrom(s \o <<m>>, k, g)
<1> DEFINE t == s \o <<m>>
<1>1. Len(t) = Len(s) + 1 /\ Len(s) \in Nat /\ \A i \in 1 .. Len(s) : t[i] = s[i]
    BY AddIndex
<1>2. t[Len(s) + 1] = m
    BY AddIndex
<1> HIDE DEF t
<1>3. ASSUME NEW j \in n + 1 .. Len(t) PROVE t[j] # "robot.wake"
    BY <1>1, <1>2 DEF SleepFrom
<1>4. n # 0 => t[n] = "robot.sleep"
    BY <1>1 DEF SleepFrom
<1>5. SleepFrom(t, n, g)
    BY <1>3, <1>4 DEF SleepFrom
<1> QED BY <1>1, <1>5 DEF t

(* ... and the one that sends it to sleep.                                 *)
LEMMA SleepAdded ==
    ASSUME NEW s \in Seq(ClientMessages), NEW g
    PROVE  \E k \in 0 .. Len(s \o <<"robot.sleep">>) : SleepFrom(s \o <<"robot.sleep">>, k, g)
<1> DEFINE t == s \o <<"robot.sleep">>
<1>1. Len(t) = Len(s) + 1 /\ Len(s) \in Nat /\ t[Len(s) + 1] = "robot.sleep"
    BY AddIndex DEF ClientMessages
<1> HIDE DEF t
<1>2. SleepFrom(t, Len(s) + 1, g)
    BY <1>1 DEF SleepFrom
<1> QED BY <1>1, <1>2 DEF t

(* Append, as SendClientMessage has it.                                    *)
LEMMA AppendAdds ==
    ASSUME NEW S, NEW s \in Seq(S), NEW m \in S
    PROVE  Append(s, m) = s \o <<m>>
OBVIOUS

(* Steps that leave the face, the channel to the host and the gate alone.  *)
LEMMA SleepKept ==
    ASSUME SleepInv, UNCHANGED <<face, conn, up, gate>>
    PROVE  SleepInv'
BY DEF SleepInv, SleepFrom

(* The inductive step: only the button shows sleep, with its message.      *)
LEMMA NextSleepInv == ASSUME SessionInv, SleepInv, [Next]_vars PROVE SleepInv'
<1> SUFFICES ASSUME conn' = "up", WakeMode, face' = "sleeping"
             PROVE  (\E n \in 0 .. Len(up) : SleepFrom(up, n, gate))'
    BY DEF SleepInv
<1> DEFINE Sleeps == \E n \in 0 .. Len(up) : SleepFrom(up, n, gate)
<1>1. up \in Seq(ClientMessages)
    BY DEF SessionInv
<1>2. CASE Callback
  <2>1. CASE OnServerMessage
    <3>1. /\ SendClientMessage("ack") /\ face' = face /\ conn' = conn /\ gate' = gate
        BY <2>1 DEF OnServerMessage, connVars, hostVars
    <3>2. up' = up \o <<"ack">>
        BY <1>1, <3>1, AppendAdds DEF SendClientMessage, ClientMessages
    <3>3. PICK n \in 0 .. Len(up) : SleepFrom(up, n, gate)
        BY <3>1 DEF SleepInv
    <3>4. \E k \in 0 .. Len(up \o <<"ack">>) : SleepFrom(up \o <<"ack">>, k, gate)
        BY <1>1, <3>3, SleepAdd DEF ClientMessages
    <3> QED BY <3>1, <3>2, <3>4
  <2>2. ASSUME UNCHANGED <<face, conn, up, gate>> PROVE Sleeps'
      BY <2>2, SleepKept DEF SleepInv
  <2> QED BY <1>2, <2>1, <2>2
          DEF Callback, OnBotReady, OnTrackStarted, SetState, OnUserStartedSpeaking,
              OnUserStoppedSpeaking, OnBotStartedSpeaking, OnBotStoppedSpeaking,
              OnUserTranscript, OnBotOutput, connVars, hostVars
<1>3. CASE ClickSleep
  <2>1. /\ up' = Append(up, "robot.sleep") /\ gate' = gate
      BY <1>3 DEF ClickSleep, Presses, SendClientMessage, connVars
  <2>2. up' = up \o <<"robot.sleep">>
      BY <1>1, <2>1, AppendAdds DEF ClientMessages
  <2> QED BY <1>1, <2>1, <2>2, SleepAdded
<1>4. CASE ClickWake \/ ClickConnect \/ ClickDisconnect \/ ConnectFails \/ Left
              \/ ConnectionLost \/ PageReloads
    BY <1>4 DEF ClickWake, Presses, ClickConnect, ClickDisconnect, ConnectFails, Left,
                ConnectionLost, PageReloads
<1>5. CASE OnClientMessage
  <2>1. /\ up # <<>> /\ up' = Tail(up) /\ face' = face /\ conn' = conn
        /\ gate' = CASE Head(up) = "robot.wake" -> "awake"
                     [] Head(up) = "robot.sleep" /\ WakeMode -> "asleep"
                     [] OTHER -> gate
      BY <1>5 DEF OnClientMessage, connVars
  <2>2. Head(up) = "robot.sleep" => gate' = "asleep"
      BY <2>1
  <2>3. Head(up) # "robot.wake" /\ gate = "asleep" => gate' = "asleep"
      BY <2>1
  <2>4. PICK n \in 0 .. Len(up) : SleepFrom(up, n, gate)
      BY <2>1 DEF SleepInv
  <2>5. \E k \in 0 .. Len(Tail(up)) : SleepFrom(Tail(up), k, gate')
      BY <1>1, <2>1, <2>2, <2>3, <2>4, SleepTail
  <2> QED BY <2>1, <2>5
<1>6. CASE GateTimesOut
  <2>1. /\ up' = up /\ face' = face /\ gate = "awake" /\ gate' = "asleep" /\ conn' = conn
      BY <1>6 DEF GateTimesOut, connVars
  <2>2. PICK n \in 0 .. Len(up) : SleepFrom(up, n, gate)
      BY <2>1 DEF SleepInv
  <2>3. SleepFrom(up, n, gate')
      BY <2>1, <2>2 DEF SleepFrom
  <2> QED BY <2>1, <2>3
<1>7. CASE \/ AnswersReady \/ UserStarts \/ UserStops \/ BotStarts \/ BotStops
           \/ \E c \in Commands : Says("transcript", c)
           \/ Says("output", Cue)
  <2>1. UNCHANGED <<face, conn, up, gate>>
      BY <1>7 DEF AnswersReady, UserStarts, UserStops, BotStarts, BotStops, Says, Begins, Ceases,
                  Sends, connVars
  <2> QED BY <2>1, SleepKept DEF SleepInv
<1>8. ASSUME \/ Tick \/ UNCHANGED vars
             \/ \E k \in Looks : Fires(k)
             \/ \E t \in Tracks : Frame(t)
      PROVE  Sleeps'
  <2>1. UNCHANGED <<face, conn, up, gate>>
      BY <1>8 DEF Tick, Fires, Frame, vars, connVars, hostVars
  <2> QED BY <2>1, SleepKept DEF SleepInv
<1> QED BY <1>2, <1>3, <1>4, <1>5, <1>6, <1>7, <1>8 DEF Next, Host

(* However the buttons, the greeting and the events of the conversation    *)
(* overlap, a face that sleeps is that of a robot whose gate is closed     *)
(* once the page's messages have come in: wakeButton, sleepButton and      *)
(* on_client_message.                                                      *)
THEOREM FaceSleepsWithGate == Spec => []SleepsWithGate
<1>1. Init => SleepInv
    BY DEF Init, SleepInv
<1>2. TypeInv /\ SleepInv /\ [Next]_vars => SleepInv'
    BY NextSleepInv DEF TypeInv
<1>3. SleepInv => SleepsWithGate
  <2>1. SUFFICES ASSUME SleepInv, conn = "up", WakeMode, face = "sleeping", up = <<>>
                 PROVE  gate = "asleep"
      BY DEF SleepsWithGate
  <2>2. PICK n \in 0 .. Len(up) : SleepFrom(up, n, gate)
      BY <2>1 DEF SleepInv
  <2>3. n = 0
      BY <2>1
  <2> QED BY <2>2, <2>3 DEF SleepFrom
<1> QED BY <1>1, <1>2, <1>3, TypeInvHolds, PTL DEF Spec
=============================================================================
