------------------------ MODULE ClientConnectionProofs ------------------------
(***************************************************************************)
(* Theorems about ClientConnection for every number of clicks and for      *)
(* every timeout.                                                          *)
(***************************************************************************)
EXTENDS ClientConnection, TLAPS

Unfinished == {t \in Tasks : at[t] \notin Finished}

(* Calm clicks follow one another.                                         *)
OneTaskAtATime == calm => \A s, t \in Unfinished : s = t

(* So nothing clears what a connect has put into the globals.              *)
OwnsGlobals ==
    \A c \in Connects : calm =>
        /\ at[c] \in {"starting", "negotiating"} => token = c
        /\ at[c] = "negotiating" => sessionId = c

(* The heartbeat runs only while the page is connected and nothing is      *)
(* under way.                                                              *)
TimerMeansConnected ==
    calm /\ heartbeatTimer # 0 =>
        /\ Quiet
        /\ shown = "connected"
        /\ interval[heartbeatTimer] # "off"

(* How long the host can have heard nothing of the session that the timer  *)
(* beats for.                                                              *)
SilenceBounded ==
    \A c \in Connects :
        calm /\ lapse = "none" /\ heartbeatTimer = c /\ session[c] = "live" =>
            silent[c] <= IF interval[c] = "due" THEN Timeout ELSE Timeout - 1

IInv ==
    /\ TypeOK
    /\ NoLeakedInterval
    /\ OneTaskAtATime
    /\ OwnsGlobals
    /\ TimerMeansConnected
    /\ ShownIsTrue
    /\ SilenceBounded

-----------------------------------------------------------------------------
Timers == {"off", "waiting", "due"}
Shown == {"disconnected", "connecting", "connected"}
Awaits == {"idle", "devices", "registering", "starting", "negotiating",
           "aborted", "hung", "leaving", "deleting", "done"}
Ids == 0 .. NumConnects

(* A timer stopped is the only one there was.                              *)
LEMMA StopEffect ==
    ASSUME BoundsAssumption, NoLeakedInterval, StopHeartbeat
    PROVE  /\ heartbeatTimer' = 0 /\ heartbeatTimer' \in Ids
           /\ interval' \in [Connects -> Timers]
           /\ \A c \in Connects : interval'[c] = "off"
<1>1. heartbeatTimer' = 0 /\ heartbeatTimer' \in Ids
    BY DEF StopHeartbeat, Ids, BoundsAssumption
<1>2. interval' = [c \in Connects |-> IF c = heartbeatTimer THEN "off" ELSE interval[c]]
    BY DEF StopHeartbeat, Cleared
<1>3. \A c \in Connects : interval'[c] = "off"
    BY <1>2 DEF NoLeakedInterval
<1>4. interval' \in [Connects -> Timers]
    BY <1>2, <1>3 DEF Timers
<1> QED BY <1>1, <1>3, <1>4

(* The end of disconnect(), in whatever tasks come to it.                  *)
LEMMA AfterDisconnectEffect ==
    ASSUME BoundsAssumption, TypeOK, NEW t \in Tasks, NEW T \in SUBSET Tasks,
           NEW tok \in Ids, NEW controls \in Shown,
           AfterDisconnect(t, T, tok, controls)
    PROVE  /\ token' \in Ids /\ sessionId' \in Ids /\ shown' \in Shown
           /\ at' \in [Tasks -> Awaits]
           /\ deletes' \subseteq Tasks /\ target' \in [Tasks -> Ids]
           /\ \A s \in Tasks \ ({t} \cup T) : at'[s] = at[s]
           /\ \A s \in {t} \cup T : at'[s] \in {"deleting", "done"}
           /\ at'[t] = "deleting" \/ shown' = "disconnected"
           /\ at'[t] = "deleting" => shown' = controls
<1> USE DEF BoundsAssumption, Ids, Shown, Awaits
<1>1. at \in [Tasks -> Awaits] /\ sessionId \in Ids /\ deletes \subseteq Tasks
      /\ target \in [Tasks -> Ids]
    BY DEF TypeOK
<1>2. 0 \in Ids /\ "disconnected" \in Shown
    OBVIOUS
<1>3. CASE /\ tok # 0 /\ sessionId # 0 /\ app = "browser"
           /\ Asks({t} \cup T)
           /\ at' = [s \in Tasks |-> IF s \in {t} \cup T THEN "deleting" ELSE at[s]]
           /\ token' = tok
           /\ shown' = controls
           /\ UNCHANGED sessionId
    <2>1. deletes' \subseteq Tasks /\ target' \in [Tasks -> Ids]
        BY <1>1, <1>3 DEF Asks
    <2>2. at' \in [Tasks -> Awaits]
        BY <1>1, <1>3
    <2>3. token' \in Ids /\ sessionId' \in Ids /\ shown' \in Shown
        BY <1>1, <1>3
    <2>4. at'[t] = "deleting"
        BY <1>3
    <2>5. \A s \in Tasks \ ({t} \cup T) : at'[s] = at[s]
        BY <1>3
    <2>6. \A s \in {t} \cup T : at'[s] \in {"deleting", "done"}
        BY <1>3
    <2> QED BY <1>3, <2>1, <2>2, <2>3, <2>4, <2>5, <2>6
<1>4. CASE /\ Asks({t}) \/ UNCHANGED deleteVars
           /\ Tail({t} \cup T)
    <2>1. deletes' \subseteq Tasks /\ target' \in [Tasks -> Ids]
        BY <1>1, <1>4 DEF Asks, deleteVars
    <2>2. /\ at' = [s \in Tasks |-> IF s \in {t} \cup T THEN "done" ELSE at[s]]
          /\ sessionId' = 0 /\ token' = 0 /\ shown' = "disconnected"
        BY <1>4 DEF Tail, EndsWithControls
    <2>3. at' \in [Tasks -> Awaits]
        BY <1>1, <2>2
    <2>4. \A s \in Tasks \ ({t} \cup T) : at'[s] = at[s]
        BY <2>2
    <2>5. \A s \in {t} \cup T : at'[s] = "done"
        BY <2>2
    <2> QED BY <1>2, <2>1, <2>2, <2>3, <2>4, <2>5
<1> QED BY <1>3, <1>4 DEF AfterDisconnect

(* disconnect(), from its call to its first await that suspends.           *)
LEMMA DisconnectEffect ==
    ASSUME BoundsAssumption, TypeOK, NoLeakedInterval, NEW t \in Tasks,
           NEW tok \in Ids, Disconnect(t, tok)
    PROVE  /\ heartbeatTimer' = 0 /\ heartbeatTimer' \in Ids
           /\ interval' \in [Connects -> Timers]
           /\ \A c \in Connects : interval'[c] = "off"
           /\ pc' = 0 /\ open' = FALSE
           /\ transport' \in {"disconnecting", "disconnected"}
           /\ token' \in Ids /\ sessionId' \in Ids /\ shown' \in Shown
           /\ at' \in [Tasks -> Awaits]
           /\ deletes' \subseteq Tasks /\ target' \in [Tasks -> Ids]
           /\ \A s \in Tasks \ {t} :
                  at'[s] = at[s] \/ (at[s] = "negotiating" /\ at'[s] = "aborted")
           /\ at'[t] \in {"leaving", "deleting", "done"}
           /\ at'[t] = "done" => shown' = "disconnected"
<1>1. at \in [Tasks -> Awaits] /\ sessionId \in Ids /\ deletes \subseteq Tasks
      /\ target \in [Tasks -> Ids] /\ shown \in Shown /\ pc \in Ids
    BY DEF TypeOK, Ids, Shown, Awaits
<1>2. StopHeartbeat /\ pc' = 0 /\ open' = FALSE
    BY DEF Disconnect
<1>3. CASE /\ pc # 0
           /\ at' = [at EXCEPT ![t] = "leaving",
                               ![pc] = IF @ = "negotiating" THEN "aborted" ELSE @]
           /\ token' = tok
           /\ transport' = "disconnecting"
           /\ UNCHANGED <<sessionId, shown, deleteVars>>
    <2>1. pc \in Tasks
        BY <1>1, <1>3 DEF Tasks, Connects, Ids
    <2>2. \A s \in Tasks \ {t} :
              at'[s] = at[s] \/ (at[s] = "negotiating" /\ at'[s] = "aborted")
        BY <1>1, <1>3, <2>1
    <2>3. at'[t] = "leaving"
        BY <1>1, <1>3, <2>1
    <2>4. DOMAIN at' = Tasks /\ at' = [s \in Tasks |-> at'[s]]
        BY <1>1, <1>3, <2>1
    <2>5. \A s \in Tasks : at'[s] \in Awaits
        BY <1>1, <2>2, <2>3 DEF Awaits
    <2>6. at' \in [Tasks -> Awaits]
        BY <2>4, <2>5
    <2>7. token' \in Ids /\ sessionId' \in Ids /\ shown' \in Shown
          /\ deletes' \subseteq Tasks /\ target' \in [Tasks -> Ids]
        BY <1>1, <1>3 DEF deleteVars
    <2> QED BY <1>2, <1>3, <2>2, <2>3, <2>6, <2>7, StopEffect
<1>4. CASE /\ transport' = "disconnected"
           /\ AfterDisconnect(t, {}, tok, shown)
    <2>1. /\ token' \in Ids /\ sessionId' \in Ids /\ shown' \in Shown
          /\ at' \in [Tasks -> Awaits]
          /\ deletes' \subseteq Tasks /\ target' \in [Tasks -> Ids]
          /\ \A s \in Tasks \ ({t} \cup {}) : at'[s] = at[s]
          /\ \A s \in {t} \cup {} : at'[s] \in {"deleting", "done"}
          /\ at'[t] = "deleting" \/ shown' = "disconnected"
        <3>1. {} \in SUBSET Tasks
            OBVIOUS
        <3> QED BY <1>1, <1>4, <3>1, AfterDisconnectEffect
    <2>2. \A s \in Tasks \ {t} : at'[s] = at[s]
        BY <2>1
    <2>3. at'[t] \in {"deleting", "done"}
        BY <2>1
    <2> QED BY <1>2, <1>4, <2>1, <2>2, <2>3, StopEffect
<1> QED BY <1>3, <1>4 DEF Disconnect

(* ... the same with the rest of a page's step.                            *)
LEMMA DisconnectType ==
    ASSUME BoundsAssumption, TypeOK, NoLeakedInterval, NEW t \in Tasks,
           NEW tok \in Ids, Disconnect(t, tok),
           calm' \in BOOLEAN, lapse' = lapse, UNCHANGED <<app, hostVars>>
    PROVE  TypeOK'
<1>1. /\ heartbeatTimer' \in Ids /\ interval' \in [Connects -> Timers]
      /\ pc' = 0 /\ open' = FALSE
      /\ transport' \in {"disconnecting", "disconnected"}
      /\ token' \in Ids /\ sessionId' \in Ids /\ shown' \in Shown
      /\ at' \in [Tasks -> Awaits]
      /\ deletes' \subseteq Tasks /\ target' \in [Tasks -> Ids]
    BY DisconnectEffect
<1>2. 0 \in Ids
    BY DEF Ids, BoundsAssumption
<1> QED BY <1>1, <1>2 DEF TypeOK, Ids, Timers, Shown, Awaits, hostVars

-----------------------------------------------------------------------------
(* Types.                                                                  *)
LEMMA ConnectType ==
    ASSUME BoundsAssumption, TypeOK, NoLeakedInterval, NEW c \in Connects,
           \/ ClickConnect(c) \/ DevicesReady(c) \/ NotRegistered(c)
           \/ Registered(c) \/ StartBotFails(c) \/ BotStarted(c)
           \/ Connected(c) \/ ConnectionFails(c) \/ AbortedReturns(c)
    PROVE  TypeOK'
<1>1. c \in Tasks /\ c \in Ids /\ token \in Ids /\ 0 \in Ids
    BY DEF TypeOK, Tasks, Connects, Ids, BoundsAssumption
<1>2. at \in [Tasks -> Awaits] /\ calm \in BOOLEAN /\ interval \in [Connects -> Timers]
    BY DEF TypeOK, Awaits, Timers
<1> USE DEF pageVars, idVars, timerVars, deleteVars, clientVars, hostVars, historyVars
<1>3. CASE ClickConnect(c)
    <2>1. at' \in [Tasks -> Awaits]
        BY <1>1, <1>2, <1>3 DEF ClickConnect, Awaits
    <2>2. calm' \in BOOLEAN
        BY <1>2, <1>3 DEF ClickConnect
    <2>3. transport' \in {transport, "initializing"} /\ shown' = "connecting"
        BY <1>3 DEF ClickConnect
    <2> QED BY <1>3, <2>1, <2>2, <2>3 DEF TypeOK, ClickConnect, Awaits
<1>4. CASE DevicesReady(c)
    <2>1. at' \in [Tasks -> Awaits]
        BY <1>1, <1>2, <1>4 DEF DevicesReady, Awaits
    <2> QED BY <1>4, <2>1 DEF TypeOK, DevicesReady, Awaits
<1>5. CASE NotRegistered(c)
    BY <1>1, <1>2, <1>5, DisconnectType DEF NotRegistered, Fail
<1>6. CASE Registered(c)
    <2>1. CASE Fail(c, c)
        BY <1>1, <1>2, <2>1, DisconnectType DEF Fail
    <2>2. CASE ~ Fail(c, c)
        <3>1. at' \in [Tasks -> Awaits]
            BY <1>1, <1>2, <1>6, <2>2 DEF Registered, Awaits
        <3> QED BY <1>1, <1>6, <2>2, <3>1 DEF TypeOK, Registered, Awaits, Ids
    <2> QED BY <2>1, <2>2
<1>7. CASE StartBotFails(c)
    BY <1>1, <1>2, <1>7, DisconnectType DEF StartBotFails, Fail
<1>8. CASE BotStarted(c)
    <2>1. at' \in [Tasks -> Awaits]
        BY <1>1, <1>2, <1>8 DEF BotStarted, Awaits
    <2> QED BY <1>1, <1>8, <2>1 DEF TypeOK, BotStarted, Awaits, Ids
<1>9. CASE Connected(c)
    <2>1. at' \in [Tasks -> Awaits]
        BY <1>1, <1>2, <1>9 DEF Connected, Awaits
    <2>2. interval' \in [Connects -> Timers] /\ heartbeatTimer' \in Ids
        BY <1>1, <1>2, <1>9 DEF Connected, StartHeartbeat, Cleared, Timers
    <2> QED BY <1>1, <1>9, <2>1, <2>2 DEF TypeOK, Connected, Awaits, Ids, Timers
<1>10. CASE ConnectionFails(c)
    <2>1. /\ token' \in Ids /\ sessionId' \in Ids /\ shown' \in Shown
          /\ at' \in [Tasks -> Awaits]
          /\ deletes' \subseteq Tasks /\ target' \in [Tasks -> Ids]
        <3>1. {} \in SUBSET Tasks /\ "disconnected" \in Shown
            BY DEF Shown
        <3> QED BY <1>1, <1>10, <3>1, AfterDisconnectEffect DEF ConnectionFails
    <2>2. heartbeatTimer' \in Ids /\ interval' \in [Connects -> Timers]
        BY <1>10, StopEffect DEF ConnectionFails
    <2> QED BY <1>1, <1>10, <2>1, <2>2
            DEF TypeOK, ConnectionFails, Ids, Timers, Shown, Awaits
<1>11. CASE AbortedReturns(c)
    <2>1. at' \in [Tasks -> Awaits]
        BY <1>1, <1>2, <1>11 DEF AbortedReturns, Awaits
    <2> QED BY <1>11, <2>1 DEF TypeOK, AbortedReturns, Awaits
<1> QED BY <1>3, <1>4, <1>5, <1>6, <1>7, <1>8, <1>9, <1>10, <1>11

(* Types: disconnect() and its DELETE.                                     *)
LEMMA LeaveType ==
    ASSUME BoundsAssumption, TypeOK, NoLeakedInterval, NEW t \in Tasks,
           Left(t) \/ DeleteEnds(t) \/ (t \in Leaves /\ ClickDisconnect(t))
    PROVE  TypeOK'
<1>1. token \in Ids /\ 0 \in Ids
    BY DEF TypeOK, Ids, BoundsAssumption
<1>2. at \in [Tasks -> Awaits] /\ calm \in BOOLEAN
    BY DEF TypeOK, Awaits
<1> USE DEF pageVars, idVars, timerVars, deleteVars, clientVars, hostVars, historyVars
<1>3. CASE Left(t)
    <2>1. PICK T \in {{}} \cup {{c} : c \in {c \in Connects : at[c] = "aborted"}} :
              AfterDisconnect(t, T, token, "disconnected")
        BY <1>3 DEF Left
    <2>2. T \in SUBSET Tasks /\ "disconnected" \in Shown
        BY DEF Tasks, Shown
    <2>3. /\ token' \in Ids /\ sessionId' \in Ids /\ shown' \in Shown
          /\ at' \in [Tasks -> Awaits]
          /\ deletes' \subseteq Tasks /\ target' \in [Tasks -> Ids]
        BY <1>1, <2>1, <2>2, AfterDisconnectEffect
    <2>4. heartbeatTimer' \in Ids /\ interval' \in [Connects -> Timers]
        BY <1>3, StopEffect DEF Left
    <2> QED BY <1>3, <2>3, <2>4 DEF TypeOK, Left, Ids, Timers, Shown, Awaits
<1>4. CASE DeleteEnds(t)
    <2>1. session' \in [Connects -> {"none", "live", "closed", "expired"}]
        BY <1>4 DEF DeleteEnds, TypeOK
    <2>2. /\ token' \in Ids /\ sessionId' \in Ids /\ shown' \in Shown
          /\ at' \in [Tasks -> Awaits]
        <3>1. CASE at[t] = "deleting"
            BY <1>1, <1>2, <1>4, <3>1
               DEF DeleteEnds, Tail, EndsWithControls, Shown, Awaits
        <3>2. CASE at[t] # "deleting"
            BY <1>1, <1>2, <1>4, <3>2 DEF DeleteEnds, TypeOK, Ids, Shown
        <3> QED BY <3>1, <3>2
    <2> QED BY <1>4, <2>1, <2>2 DEF TypeOK, DeleteEnds, Ids, Shown, Awaits
<1>5. CASE t \in Leaves /\ ClickDisconnect(t)
    BY <1>1, <1>2, <1>5, DisconnectType DEF ClickDisconnect
<1> QED BY <1>3, <1>4, <1>5

(* Types: the page, the heartbeat, the host and the clock.                 *)
LEMMA RestType ==
    ASSUME BoundsAssumption, TypeOK, NoLeakedInterval,
           \/ ConnectionLost \/ PageReloads \/ Tick
           \/ \E c \in Connects : \/ HeartbeatFires(c) \/ HostCreates(c)
                                  \/ HostCloses(c) \/ Expires(c)
    PROVE  TypeOK'
<1> USE DEF pageVars, idVars, timerVars, deleteVars, clientVars, hostVars, historyVars
<1>1. 0 \in Ids /\ 0 \in 0 .. Timeout + 1
    BY TimeoutAssumption DEF Ids, BoundsAssumption
<1>2. CASE ConnectionLost
    <2>1. heartbeatTimer' \in Ids /\ interval' \in [Connects -> Timers]
        BY <1>2, StopEffect DEF ConnectionLost
    <2> QED BY <1>1, <1>2, <2>1 DEF TypeOK, ConnectionLost, LosesConnection, Ids, Timers
<1>3. CASE PageReloads
    <2>1. at' \in [Tasks -> Awaits] /\ interval' \in [Connects -> Timers]
        BY <1>3 DEF PageReloads, TypeOK, Awaits, Timers
    <2> QED BY <1>1, <1>3, <2>1 DEF TypeOK, PageReloads, Ids, Awaits, Timers
<1>4. CASE Tick
    <2>1. interval' \in [Connects -> Timers]
        BY <1>4 DEF Tick, TypeOK, Timers
    <2>2. silent' \in [Connects -> 0 .. Timeout + 1]
        BY <1>4, TimeoutAssumption DEF Tick, TypeOK
    <2> QED BY <1>4, <2>1, <2>2 DEF TypeOK, Tick, Timers
<1>5. ASSUME NEW c \in Connects, HeartbeatFires(c) PROVE TypeOK'
    <2>1. interval' \in [Connects -> Timers]
        BY <1>5 DEF HeartbeatFires, Fires, TypeOK, Timers
    <2>2. silent' \in [Connects -> 0 .. Timeout + 1] /\ lapse' \in {"none", "slow", "lost"}
        BY <1>1, <1>5 DEF HeartbeatFires, Beats, TypeOK
    <2> QED BY <1>5, <2>1, <2>2 DEF TypeOK, HeartbeatFires, Fires, Timers
<1>6. ASSUME NEW c \in Connects, HostCreates(c) \/ HostCloses(c) \/ Expires(c)
      PROVE  TypeOK'
    <2>1. session' \in [Connects -> {"none", "live", "closed", "expired"}]
        BY <1>6 DEF HostCreates, HostCloses, Expires, TypeOK
    <2> QED BY <1>6, <2>1 DEF TypeOK, HostCreates, HostCloses, Expires
<1> QED BY <1>2, <1>3, <1>4, <1>5, <1>6

-----------------------------------------------------------------------------
(* A step with which a task stops the timer and is done or waits for its   *)
(* own end keeps the invariant, whether it went on or has just begun.      *)
LEMMA EndingStep ==
    ASSUME BoundsAssumption, IInv, TypeOK', NEW t \in Tasks,
           heartbeatTimer' = 0, \A c \in Connects : interval'[c] = "off",
           pc' \in {0, pc},
           \A s \in Tasks \ {t} :
               at'[s] = at[s] \/ (at[s] \notin Finished /\ at'[s] \in {"aborted", "deleting", "done"}),
           at'[t] \in {"leaving", "deleting", "done"},
           at'[t] = "done" => shown' # "connected",
           calm' => calm /\ (at[t] \in Finished => Quiet),
           UNCHANGED hostVars
    PROVE  IInv'
<1>1. NoLeakedInterval' /\ TimerMeansConnected'
    BY DEF NoLeakedInterval, TimerMeansConnected
<1>2. \A s \in Tasks : at'[s] \notin Finished => s = t \/ at[s] \notin Finished
    BY DEF Finished
<1>3. ASSUME calm', NEW s \in Tasks, at'[s] \notin Finished PROVE s = t
    <2>1. CASE at[t] \in Finished
        BY <1>2, <1>3, <2>1 DEF Quiet
    <2>2. CASE at[t] \notin Finished
        BY <1>2, <1>3, <2>2 DEF IInv, OneTaskAtATime, Unfinished
    <2> QED BY <2>1, <2>2
<1>4. OneTaskAtATime'
    BY <1>3 DEF OneTaskAtATime, Unfinished
<1>5. OwnsGlobals'
    <2> SUFFICES ASSUME NEW c \in Connects, calm', at'[c] \in {"starting", "negotiating"}
                 PROVE  FALSE
        BY DEF OwnsGlobals
    <2>1. c \in Tasks /\ at'[c] \notin Finished
        BY DEF Tasks, Finished
    <2> QED BY <1>3, <2>1
<1>6. ShownIsTrue'
    <2>1. Quiet' => at'[t] = "done"
        BY DEF Quiet, Finished
    <2> QED BY <2>1 DEF ShownIsTrue
<1>7. SilenceBounded'
    BY DEF SilenceBounded, Connects
<1> QED BY <1>1, <1>4, <1>5, <1>6, <1>7 DEF IInv

(* disconnect() keeps it, from a click on Disconnect or a connect's catch. *)
LEMMA DisconnectStep ==
    ASSUME BoundsAssumption, IInv, TypeOK', NEW t \in Tasks,
           NEW tok \in Ids, Disconnect(t, tok),
           calm' => calm /\ (at[t] \in Finished => Quiet),
           UNCHANGED hostVars
    PROVE  IInv'
<1>1. /\ heartbeatTimer' = 0
      /\ \A c \in Connects : interval'[c] = "off"
      /\ pc' = 0
      /\ \A s \in Tasks \ {t} :
             at'[s] = at[s] \/ (at[s] = "negotiating" /\ at'[s] = "aborted")
      /\ at'[t] \in {"leaving", "deleting", "done"}
      /\ at'[t] = "done" => shown' = "disconnected"
    BY DisconnectEffect DEF IInv
<1>2. "negotiating" \notin Finished
    BY DEF Finished
<1> QED BY <1>1, <1>2, EndingStep

(* A connect that goes on: to a new await, without the timer.              *)
LEMMA GoingOnStep ==
    ASSUME BoundsAssumption, IInv, TypeOK', NEW c \in Connects,
           UNCHANGED <<timerVars, hostVars>>,
           \A s \in Tasks \ {c} : at'[s] = at[s],
           at'[c] \in {"devices", "registering", "starting", "negotiating", "hung"},
           calm' => calm /\ (at[c] \in Finished => Quiet),
           at'[c] = "negotiating" => at[c] = "starting",
           at'[c] = "starting" => token' = c,
           at'[c] = "negotiating" => token' = token /\ sessionId' = c,
           at[c] \in Finished => shown # "connected"
    PROVE  IInv'
<1>1. c \in Tasks /\ c # 0
    BY DEF Tasks, Connects
<1>2. \A s \in Tasks : at'[s] \notin Finished => s = c \/ at[s] \notin Finished
    BY DEF Finished
<1>3. ASSUME calm', NEW s \in Tasks, at'[s] \notin Finished PROVE s = c
    <2>1. CASE at[c] \in Finished
        BY <1>2, <1>3, <2>1 DEF Quiet
    <2>2. CASE at[c] \notin Finished
        BY <1>1, <1>2, <1>3, <2>2 DEF IInv, OneTaskAtATime, Unfinished
    <2> QED BY <2>1, <2>2
<1>4. ~ Quiet'
    BY <1>1 DEF Quiet, Finished
<1>5. calm' => heartbeatTimer = 0
    <2> SUFFICES ASSUME calm', heartbeatTimer # 0 PROVE FALSE
        OBVIOUS
    <2>1. Quiet /\ shown = "connected"
        BY DEF IInv, TimerMeansConnected
    <2> QED BY <1>1, <2>1 DEF Quiet
<1>6. NoLeakedInterval'
    BY DEF IInv, NoLeakedInterval, timerVars
<1>7. OneTaskAtATime'
    BY <1>3 DEF OneTaskAtATime, Unfinished
<1>8. OwnsGlobals'
    <2> SUFFICES ASSUME NEW d \in Connects, calm', at'[d] \in {"starting", "negotiating"}
                 PROVE  /\ token' = d
                        /\ at'[d] = "negotiating" => sessionId' = d
        BY DEF OwnsGlobals
    <2>1. d \in Tasks /\ at'[d] \notin Finished
        BY DEF Tasks, Finished
    <2>2. d = c
        BY <1>3, <2>1
    <2>3. at[c] = "starting" => token = c
        BY DEF IInv, OwnsGlobals
    <2> QED BY <2>2, <2>3
<1>9. TimerMeansConnected' /\ ShownIsTrue'
    BY <1>4, <1>5 DEF TimerMeansConnected, ShownIsTrue, timerVars
<1>10. SilenceBounded'
    BY <1>5 DEF SilenceBounded, Connects, timerVars
<1> QED BY <1>6, <1>7, <1>8, <1>9, <1>10 DEF IInv

-----------------------------------------------------------------------------
(* Every step keeps the invariant.                                         *)
LEMMA ConnectStep ==
    ASSUME BoundsAssumption, IInv, TypeOK', NEW c \in Connects,
           \/ ClickConnect(c) \/ DevicesReady(c) \/ NotRegistered(c)
           \/ Registered(c) \/ StartBotFails(c) \/ BotStarted(c)
           \/ Connected(c) \/ ConnectionFails(c) \/ AbortedReturns(c)
    PROVE  IInv'
<1>1. c \in Tasks /\ c \in Ids /\ token \in Ids /\ 0 \in Ids /\ c # 0
    BY DEF IInv, TypeOK, Tasks, Connects, Ids, BoundsAssumption
<1>2. at \in [Tasks -> Awaits] /\ NoLeakedInterval /\ TypeOK
    BY DEF IInv, TypeOK, Awaits
<1>3. \A a \in {"devices", "registering", "starting", "negotiating", "aborted"} :
          a \notin Finished
    BY DEF Finished
<1> USE DEF pageVars, idVars, timerVars, deleteVars, clientVars, hostVars, historyVars
<1>4. CASE ClickConnect(c)
    <2>1. /\ at' = [at EXCEPT ![c] = "devices"] \/ at' = [at EXCEPT ![c] = "registering"]
          /\ at[c] = "idle" /\ calm' = (calm /\ Quiet) /\ shown = "disconnected"
          /\ pc' = pc /\ UNCHANGED <<timerVars, hostVars>>
        BY <1>4 DEF ClickConnect
    <2>2. \A s \in Tasks \ {c} : at'[s] = at[s]
        BY <1>2, <2>1
    <2>3. at'[c] \in {"devices", "registering"}
        BY <1>1, <1>2, <2>1
    <2> QED BY <2>1, <2>2, <2>3, GoingOnStep
<1>5. CASE DevicesReady(c)
    <2>1. /\ at' = [at EXCEPT ![c] = "registering"]
          /\ at[c] = "devices" /\ calm' = calm
          /\ pc' = pc /\ UNCHANGED <<timerVars, hostVars>>
        BY <1>5 DEF DevicesReady
    <2>2. (\A s \in Tasks \ {c} : at'[s] = at[s]) /\ at'[c] = "registering"
        BY <1>1, <1>2, <2>1
    <2> QED BY <1>3, <2>1, <2>2, GoingOnStep
<1>6. CASE NotRegistered(c)
    <2>1. Disconnect(c, token) /\ calm' = calm /\ UNCHANGED hostVars
          /\ at[c] \in {"devices", "registering"}
        BY <1>6 DEF NotRegistered, Fail
    <2> QED BY <1>1, <1>3, <2>1, DisconnectStep
<1>7. CASE Registered(c)
    <2>1. CASE Fail(c, c)
        <3>1. Disconnect(c, c) /\ calm' = calm /\ UNCHANGED hostVars
              /\ at[c] = "registering"
            BY <1>7, <2>1 DEF Registered, Fail
        <3> QED BY <1>1, <1>3, <3>1, DisconnectStep
    <2>2. CASE ~ Fail(c, c)
        <3>1. /\ at' = [at EXCEPT ![c] = "starting"]
              /\ at[c] = "registering" /\ calm' = calm /\ token' = c
              /\ pc' = pc /\ UNCHANGED <<timerVars, hostVars>>
            BY <1>7, <2>2 DEF Registered
        <3>2. (\A s \in Tasks \ {c} : at'[s] = at[s]) /\ at'[c] = "starting"
            BY <1>1, <1>2, <3>1
        <3> QED BY <1>3, <3>1, <3>2, GoingOnStep
    <2> QED BY <2>1, <2>2
<1>8. CASE StartBotFails(c)
    <2>1. Disconnect(c, token) /\ calm' = calm /\ UNCHANGED hostVars
          /\ at[c] = "starting"
        BY <1>8 DEF StartBotFails, Fail
    <2> QED BY <1>1, <1>3, <2>1, DisconnectStep
<1>9. CASE BotStarted(c)
    <2>1. /\ at' = [at EXCEPT ![c] = "negotiating"]
          /\ at[c] = "starting" /\ calm' = calm /\ token' = token /\ sessionId' = c
          /\ pc' = c /\ UNCHANGED <<timerVars, hostVars>>
        BY <1>9 DEF BotStarted
    <2>2. (\A s \in Tasks \ {c} : at'[s] = at[s]) /\ at'[c] = "negotiating"
        BY <1>1, <1>2, <2>1
    <2> QED BY <1>3, <2>1, <2>2, GoingOnStep
<1>10. CASE Connected(c)
    <2>1. /\ at' = [at EXCEPT ![c] = "done"]
          /\ at[c] = "negotiating" /\ pc = c /\ session[c] = "live"
          /\ calm' = calm /\ token' = token /\ sessionId' = sessionId
          /\ pc' = pc /\ open' = TRUE /\ shown' = "connected"
          /\ heartbeatTimer' = c
          /\ interval' = [Cleared EXCEPT ![c] = "waiting"]
          /\ session' = session /\ silent' = silent
        BY <1>10 DEF Connected, StartHeartbeat
    <2>2. (\A s \in Tasks \ {c} : at'[s] = at[s]) /\ at'[c] = "done"
        BY <1>1, <1>2, <2>1
    <2>3. interval'[c] = "waiting" /\ \A d \in Connects \ {c} : interval'[d] = "off"
        BY <1>2, <2>1 DEF Cleared, NoLeakedInterval
    <2>4. NoLeakedInterval'
        BY <2>1, <2>3 DEF NoLeakedInterval
    <2>5. calm => Quiet' /\ token = c /\ sessionId = c
        <3> SUFFICES ASSUME calm PROVE Quiet' /\ token = c /\ sessionId = c
            OBVIOUS
        <3>1. \A s \in Tasks \ {c} : at[s] \in Finished
            BY <1>1, <1>3, <2>1 DEF IInv, OneTaskAtATime, Unfinished
        <3>2. Quiet'
            BY <2>2, <3>1 DEF Quiet, Finished
        <3>3. token = c /\ sessionId = c
            BY <2>1 DEF IInv, OwnsGlobals
        <3> QED BY <3>2, <3>3
    <2>6. OneTaskAtATime' /\ ShownIsTrue'
        BY <1>1, <2>1, <2>5 DEF OneTaskAtATime, ShownIsTrue, Quiet, Unfinished
    <2>7. TimerMeansConnected'
        BY <2>1, <2>3, <2>5 DEF TimerMeansConnected
    <2>8. OwnsGlobals'
        <3> SUFFICES ASSUME NEW d \in Connects, calm',
                            at'[d] \in {"starting", "negotiating"}
                     PROVE  FALSE
            BY DEF OwnsGlobals
        <3>1. d \in Tasks
            BY DEF Tasks
        <3> QED BY <2>1, <2>5, <3>1 DEF Quiet, Finished
    <2>9. SilenceBounded'
        <3>1. lapse' = IF silent[c] < Timeout THEN "none" ELSE "slow"
            BY <1>10 DEF Connected
        <3>2. silent[c] \in Nat
            BY DEF IInv, TypeOK
        <3>3. lapse' = "none" => silent'[c] <= Timeout - 1
            BY <2>1, <3>1, <3>2, TimeoutAssumption
        <3> QED BY <2>1, <2>3, <3>3 DEF SilenceBounded
    <2> QED BY <2>4, <2>6, <2>7, <2>8, <2>9 DEF IInv
<1>11. CASE ConnectionFails(c)
    <2>1. /\ at[c] = "negotiating" /\ pc' = 0 /\ calm' = calm /\ UNCHANGED hostVars
          /\ StopHeartbeat /\ AfterDisconnect(c, {}, token, "disconnected")
        BY <1>11 DEF ConnectionFails
    <2>2. heartbeatTimer' = 0 /\ \A d \in Connects : interval'[d] = "off"
        BY <1>2, <2>1, StopEffect
    <2>3. /\ \A s \in Tasks \ ({c} \cup {}) : at'[s] = at[s]
          /\ \A s \in {c} \cup {} : at'[s] \in {"deleting", "done"}
          /\ at'[c] = "deleting" \/ shown' = "disconnected"
        <3>1. {} \in SUBSET Tasks /\ "disconnected" \in Shown
            BY DEF Shown
        <3> QED BY <1>1, <1>2, <2>1, <3>1, AfterDisconnectEffect
    <2>4. /\ \A s \in Tasks \ {c} : at'[s] = at[s]
          /\ at'[c] \in {"deleting", "done"}
          /\ at'[c] = "done" => shown' # "connected"
        BY <2>3
    <2> QED BY <1>1, <1>3, <2>1, <2>2, <2>4, EndingStep
<1>12. CASE AbortedReturns(c)
    <2>1. /\ at' = [at EXCEPT ![c] = "hung"]
          /\ at[c] = "aborted" /\ calm' = calm
          /\ pc' = pc /\ UNCHANGED <<timerVars, hostVars>>
        BY <1>12 DEF AbortedReturns
    <2>2. (\A s \in Tasks \ {c} : at'[s] = at[s]) /\ at'[c] = "hung"
        BY <1>1, <1>2, <2>1
    <2> QED BY <1>3, <2>1, <2>2, GoingOnStep
<1> QED BY <1>4, <1>5, <1>6, <1>7, <1>8, <1>9, <1>10, <1>11, <1>12

(* disconnect() and its DELETE.                                            *)
LEMMA LeaveStep ==
    ASSUME BoundsAssumption, IInv, TypeOK', NEW t \in Tasks,
           Left(t) \/ DeleteEnds(t) \/ (t \in Leaves /\ ClickDisconnect(t))
    PROVE  IInv'
<1>1. token \in Ids /\ NoLeakedInterval /\ TypeOK
    BY DEF IInv, TypeOK, Ids
<1> USE DEF pageVars, idVars, timerVars, deleteVars, clientVars, hostVars, historyVars
<1>2. CASE Left(t)
    <2>1. /\ at[t] = "leaving" /\ StopHeartbeat /\ pc' = pc /\ calm' = calm
          /\ UNCHANGED hostVars
        BY <1>2 DEF Left
    <2>2. PICK T \in {{}} \cup {{c} : c \in {c \in Connects : at[c] = "aborted"}} :
              AfterDisconnect(t, T, token, "disconnected")
        BY <1>2 DEF Left
    <2>3. T \in SUBSET Tasks /\ (\A s \in T : at[s] = "aborted") /\ "disconnected" \in Shown
        BY DEF Tasks, Shown
    <2>4. /\ \A s \in Tasks \ ({t} \cup T) : at'[s] = at[s]
          /\ \A s \in {t} \cup T : at'[s] \in {"deleting", "done"}
          /\ at'[t] = "deleting" \/ shown' = "disconnected"
        BY <1>1, <2>2, <2>3, AfterDisconnectEffect
    <2>5. heartbeatTimer' = 0 /\ \A c \in Connects : interval'[c] = "off"
        BY <1>1, <2>1, StopEffect
    <2>6. \A s \in Tasks \ {t} :
              at'[s] = at[s] \/ (at[s] \notin Finished /\ at'[s] \in {"aborted", "deleting", "done"})
        BY <2>3, <2>4 DEF Finished
    <2>7. at[t] \notin Finished
        BY <2>1 DEF Finished
    <2>8. at'[t] \in {"leaving", "deleting", "done"} /\ (at'[t] = "done" => shown' # "connected")
        BY <2>4
    <2> QED BY <2>1, <2>5, <2>6, <2>7, <2>8, EndingStep
<1>3. CASE DeleteEnds(t)
    <2>1. \A c \in Connects :
              /\ session'[c] = "live" => session[c] = "live"
              /\ session'[c] = "none" <=> session[c] = "none"
        BY <1>1, <1>3 DEF DeleteEnds, TypeOK
    <2>2. UNCHANGED <<timerVars, calm, lapse, pc, open, silent>>
        BY <1>3 DEF DeleteEnds
    <2>3. /\ \A s \in Tasks \ {t} : at'[s] = at[s]
          /\ at'[t] = IF at[t] = "deleting" THEN "done" ELSE at[t]
          /\ at[t] = "deleting" => shown' = "disconnected"
          /\ at[t] # "deleting" => UNCHANGED <<token, sessionId, shown>>
        BY <1>3 DEF DeleteEnds, Tail, EndsWithControls
    <2>4. \A s \in Tasks : at'[s] = at[s] \/ (s = t /\ at[t] = "deleting" /\ at'[t] = "done")
        BY <2>3
    <2>5. NoLeakedInterval' /\ OneTaskAtATime'
        BY <2>2, <2>4 DEF IInv, NoLeakedInterval, OneTaskAtATime, Unfinished, Finished
    <2>6. at[t] = "deleting" => (calm => heartbeatTimer = 0)
        BY DEF IInv, TimerMeansConnected, Quiet, Finished
    <2>7. at[t] # "deleting" => Quiet' = Quiet
        BY <2>4 DEF Quiet
    <2>8. TimerMeansConnected'
        BY <2>2, <2>3, <2>6, <2>7 DEF IInv, TimerMeansConnected
    <2>9. ShownIsTrue'
        BY <2>2, <2>3, <2>7 DEF IInv, ShownIsTrue
    <2>10. OwnsGlobals'
        <3> SUFFICES ASSUME NEW c \in Connects, calm, at'[c] \in {"starting", "negotiating"}
                     PROVE  /\ token' = c
                            /\ at'[c] = "negotiating" => sessionId' = c
            BY <2>2 DEF OwnsGlobals
        <3>1. c \in Tasks /\ at'[c] = at[c]
            BY <2>4 DEF Tasks
        <3>2. at[t] # "deleting"
            BY <3>1 DEF IInv, OneTaskAtATime, Unfinished, Finished
        <3> QED BY <2>3, <3>1, <3>2 DEF IInv, OwnsGlobals
    <2>11. SilenceBounded'
        BY <2>1, <2>2 DEF IInv, SilenceBounded
    <2> QED BY <2>5, <2>8, <2>9, <2>10, <2>11 DEF IInv
<1>4. CASE t \in Leaves /\ ClickDisconnect(t)
    <2>1. Disconnect(t, token) /\ calm' = (calm /\ Quiet) /\ UNCHANGED hostVars
        BY <1>4 DEF ClickDisconnect
    <2> QED BY <1>1, <2>1, DisconnectStep
<1> QED BY <1>2, <1>3, <1>4

(* The connection is lost, or the page is reloaded.                        *)
LEMMA PageStep ==
    ASSUME BoundsAssumption, IInv, TypeOK', ConnectionLost \/ PageReloads
    PROVE  IInv'
<1> USE DEF pageVars, idVars, timerVars, deleteVars, clientVars, hostVars, historyVars
<1>1. /\ pc' = 0 /\ heartbeatTimer' = 0 /\ shown' = "disconnected"
      /\ calm' = calm /\ session' = session /\ silent' = silent
      /\ \A c \in Connects : interval'[c] = "off"
    BY StopEffect DEF ConnectionLost, LosesConnection, PageReloads, IInv
<1>2. \/ at' = at /\ token' = token /\ sessionId' = sessionId
      \/ at' = [t \in Tasks |-> IF at[t] = "idle" THEN "idle" ELSE "done"]
    BY DEF ConnectionLost, LosesConnection, PageReloads
<1>3. \A c \in Connects : c \in Tasks /\ c # 0
    BY DEF Tasks, Connects
<1>4. NoLeakedInterval' /\ TimerMeansConnected' /\ ShownIsTrue'
    BY <1>1 DEF NoLeakedInterval, TimerMeansConnected, ShownIsTrue
<1>5. OneTaskAtATime'
    BY <1>1, <1>2 DEF IInv, OneTaskAtATime, Unfinished, Finished
<1>6. OwnsGlobals'
    BY <1>1, <1>2, <1>3 DEF IInv, OwnsGlobals
<1>7. SilenceBounded'
    BY <1>1, <1>3 DEF SilenceBounded
<1> QED BY <1>4, <1>5, <1>6, <1>7 DEF IInv

(* The host creates, closes or expires a session.                          *)
LEMMA HostStep ==
    ASSUME BoundsAssumption, IInv, TypeOK', NEW c \in Connects,
           HostCreates(c) \/ HostCloses(c) \/ Expires(c)
    PROVE  IInv'
<1> USE DEF pageVars, idVars, timerVars, deleteVars, clientVars, hostVars, historyVars
<1>1. UNCHANGED <<pageVars, clientVars, calm, lapse, silent>>
    BY DEF HostCreates, HostCloses, Expires
<1>2. NoLeakedInterval' /\ OneTaskAtATime' /\ OwnsGlobals'
      /\ TimerMeansConnected' /\ ShownIsTrue'
    BY <1>1 DEF IInv, NoLeakedInterval, OneTaskAtATime, OwnsGlobals, Unfinished,
                TimerMeansConnected, ShownIsTrue, Quiet
<1>3. SilenceBounded'
    <2> SUFFICES ASSUME NEW d \in Connects, calm, lapse = "none", heartbeatTimer = d,
                        session'[d] = "live"
                 PROVE  silent[d] <= IF interval[d] = "due" THEN Timeout ELSE Timeout - 1
        BY <1>1 DEF SilenceBounded
    <2>1. session[d] = "live" \/ at[d] = "starting"
        BY DEF IInv, TypeOK, HostCreates, HostCloses, Expires
    <2>2. at[d] # "starting"
        BY DEF IInv, TimerMeansConnected, Quiet, Finished, Tasks, Connects
    <2> QED BY <2>1, <2>2 DEF IInv, SilenceBounded
<1> QED BY <1>2, <1>3 DEF IInv

(* A beat of the calm page is for the session it is connected to.          *)
LEMMA BeatStep ==
    ASSUME BoundsAssumption, IInv, TypeOK', NEW c \in Connects, HeartbeatFires(c)
    PROVE  IInv'
<1> USE DEF pageVars, idVars, timerVars, deleteVars, clientVars, hostVars, historyVars
<1>1. /\ interval[c] = "due" /\ interval' = [interval EXCEPT ![c] = "waiting"]
      /\ UNCHANGED <<token, sessionId, heartbeatTimer, shown, at, session, pc, open>>
    BY DEF HeartbeatFires, Fires
<1>2. heartbeatTimer = c /\ c # 0
    BY <1>1 DEF IInv, NoLeakedInterval, Connects
<1>3. interval'[c] = "waiting" /\ \A d \in Connects \ {c} : interval'[d] = interval[d]
    BY <1>1 DEF IInv, TypeOK
<1>4. calm' = calm
    BY DEF HeartbeatFires, Fires
<1>5. calm /\ lapse' = "none" => sessionId = c /\ silent' = [silent EXCEPT ![c] = 0]
    <2> SUFFICES ASSUME calm, lapse' = "none"
                 PROVE  sessionId = c /\ silent' = [silent EXCEPT ![c] = 0]
        OBVIOUS
    <2>1. sessionId = c /\ token # 0
        BY <1>2 DEF IInv, TimerMeansConnected, ShownIsTrue
    <2> QED BY <1>2, <2>1 DEF HeartbeatFires, Beats
<1>7. NoLeakedInterval' /\ OneTaskAtATime' /\ OwnsGlobals' /\ ShownIsTrue'
    BY <1>1, <1>2, <1>3, <1>4
       DEF IInv, NoLeakedInterval, OneTaskAtATime, OwnsGlobals, Unfinished, ShownIsTrue, Quiet
<1>8. TimerMeansConnected'
    BY <1>1, <1>2, <1>3, <1>4 DEF IInv, TimerMeansConnected, Quiet
<1>9. SilenceBounded'
    <2> SUFFICES ASSUME NEW d \in Connects, calm, lapse' = "none", d = c
                 PROVE  silent'[d] <= Timeout - 1
        BY <1>1, <1>2, <1>3, <1>4 DEF SilenceBounded
    <2>1. silent'[c] = 0
        BY <1>5 DEF IInv, TypeOK
    <2> QED BY <2>1, TimeoutAssumption
<1> QED BY <1>7, <1>8, <1>9 DEF IInv

(* Time passes at the host.                                                *)
LEMMA TickStep ==
    ASSUME BoundsAssumption, IInv, TypeOK', Tick
    PROVE  IInv'
<1> USE DEF pageVars, idVars, timerVars, deleteVars, clientVars, hostVars, historyVars
<1>1. UNCHANGED <<token, sessionId, heartbeatTimer, shown, at, session, pc, open, calm,
                  lapse>>
    BY DEF Tick
<1>2. \A c \in Connects : interval[c] # "due"
    BY DEF Tick
<1>3. \A c \in Connects :
          interval'[c] = IF interval[c] = "waiting" THEN "due" ELSE interval[c]
    BY DEF Tick
<1>4. \A c \in Connects :
          /\ silent[c] \in Nat
          /\ silent'[c] \in {silent[c], silent[c] + 1}
          /\ session[c] # "live" => silent'[c] = silent[c]
    BY DEF IInv, TypeOK, Tick
<1>5. NoLeakedInterval' /\ OneTaskAtATime' /\ OwnsGlobals' /\ ShownIsTrue'
    BY <1>1, <1>3
       DEF IInv, NoLeakedInterval, OneTaskAtATime, OwnsGlobals, Unfinished, ShownIsTrue, Quiet
<1>6. TimerMeansConnected'
    <2> SUFFICES ASSUME calm, heartbeatTimer # 0 PROVE interval'[heartbeatTimer] # "off"
        BY <1>1 DEF IInv, TimerMeansConnected, Quiet
    <2>1. heartbeatTimer \in Connects
        BY DEF IInv, TypeOK, Connects, BoundsAssumption
    <2> QED BY <1>3, <2>1 DEF IInv, TimerMeansConnected
<1>7. SilenceBounded'
    <2> SUFFICES ASSUME NEW d \in Connects, calm, lapse = "none", heartbeatTimer = d,
                        session[d] = "live"
                 PROVE  interval'[d] = "due" /\ silent'[d] <= Timeout
        BY <1>1 DEF SilenceBounded
    <2>1. d # 0
        BY DEF Connects
    <2>2. interval[d] = "waiting"
        BY <1>2, <2>1 DEF IInv, TimerMeansConnected, TypeOK
    <2>3. silent[d] <= Timeout - 1
        BY <2>2 DEF IInv, SilenceBounded
    <2> QED BY <1>3, <1>4, <2>2, <2>3, TimeoutAssumption
<1> QED BY <1>5, <1>6, <1>7 DEF IInv

(* A page just opened.                                                     *)
LEMMA InitIInv ==
    ASSUME BoundsAssumption, Init
    PROVE  IInv
<1>1. TypeOK
    <2>1. 0 \in 0 .. NumConnects /\ 0 \in 0 .. Timeout + 1
        BY TimeoutAssumption DEF BoundsAssumption
    <2>2. /\ interval \in [Connects -> {"off", "waiting", "due"}]
          /\ at \in [Tasks -> {"idle", "devices", "registering", "starting", "negotiating",
                              "aborted", "hung", "leaving", "deleting", "done"}]
          /\ session \in [Connects -> {"none", "live", "closed", "expired"}]
        BY DEF Init
    <2>3. target \in [Tasks -> 0 .. NumConnects]
        BY <2>1 DEF Init
    <2>4. silent \in [Connects -> 0 .. Timeout + 1]
        BY <2>1 DEF Init
    <2> QED BY <2>1, <2>2, <2>3, <2>4 DEF Init, TypeOK
<1>2. NoLeakedInterval /\ OneTaskAtATime /\ TimerMeansConnected /\ ShownIsTrue
    BY DEF Init, NoLeakedInterval, OneTaskAtATime, Unfinished, Finished,
           TimerMeansConnected, ShownIsTrue
<1>3. OwnsGlobals
    BY DEF Init, OwnsGlobals, Tasks
<1>4. SilenceBounded
    BY DEF Init, SilenceBounded, Connects
<1> QED BY <1>1, <1>2, <1>3, <1>4 DEF IInv

(* Every step keeps the invariant.                                         *)
LEMMA NextIInv ==
    ASSUME BoundsAssumption, IInv, Next
    PROVE  IInv'
<1>1. TypeOK /\ NoLeakedInterval
    BY DEF IInv
<1>2. ASSUME NEW c \in Connects,
             \/ ClickConnect(c) \/ DevicesReady(c) \/ NotRegistered(c)
             \/ Registered(c) \/ StartBotFails(c) \/ BotStarted(c)
             \/ Connected(c) \/ ConnectionFails(c) \/ AbortedReturns(c)
      PROVE  IInv'
    <2>1. TypeOK'
        BY <1>1, <1>2, ConnectType
    <2> QED BY <1>2, <2>1, ConnectStep
<1>3. ASSUME NEW t \in Tasks,
             Left(t) \/ DeleteEnds(t) \/ (t \in Leaves /\ ClickDisconnect(t))
      PROVE  IInv'
    <2>1. TypeOK'
        BY <1>1, <1>3, LeaveType
    <2> QED BY <1>3, <2>1, LeaveStep
<1>4. CASE ConnectionLost \/ PageReloads
    <2>1. TypeOK'
        BY <1>1, <1>4, RestType
    <2> QED BY <1>4, <2>1, PageStep
<1>5. ASSUME NEW c \in Connects, HeartbeatFires(c) PROVE IInv'
    <2>1. TypeOK'
        BY <1>1, <1>5, RestType
    <2> QED BY <1>5, <2>1, BeatStep
<1>6. ASSUME NEW c \in Connects, HostCreates(c) \/ HostCloses(c) \/ Expires(c)
      PROVE  IInv'
    <2>1. TypeOK'
        BY <1>1, <1>6, RestType
    <2> QED BY <1>6, <2>1, HostStep
<1>7. CASE Tick
    <2>1. TypeOK'
        BY <1>1, <1>7, RestType
    <2> QED BY <1>7, <2>1, TickStep
<1>8. Leaves \subseteq Tasks
    BY DEF Tasks
<1> QED BY <1>2, <1>3, <1>4, <1>5, <1>6, <1>7, <1>8 DEF Next, Click, TaskStep

(* A stutter keeps the invariant.                                          *)
LEMMA StutterIInv ==
    ASSUME IInv, UNCHANGED vars
    PROVE  IInv'
BY DEF IInv, vars, pageVars, idVars, timerVars, deleteVars, clientVars, hostVars,
       historyVars, TypeOK, NoLeakedInterval, OneTaskAtATime, Unfinished, OwnsGlobals,
       TimerMeansConnected, Quiet, ShownIsTrue, SilenceBounded

-----------------------------------------------------------------------------
(* The invariant holds of both pages, however the clicks overlap and       *)
(* whatever is lost.                                                       *)
THEOREM Invariance == Spec => []IInv
<1>1. Init => IInv
    BY BoundsAssumption, InitIInv
<1>2. IInv /\ [Next]_vars => IInv'
    BY BoundsAssumption, NextIInv, StutterIInv
<1> QED BY <1>1, <1>2, PTL DEF Spec

(* The page's globals, its libraries' state and the host's keep their      *)
(* types.                                                                  *)
THEOREM TypeCorrect == Spec => []TypeOK
<1>1. IInv => TypeOK
    BY DEF IInv
<1> QED BY <1>1, Invariance, PTL

(* A heartbeat timer that runs is always the one stopHeartbeat would stop. *)
THEOREM NoIntervalLeaks == Spec => []NoLeakedInterval
<1>1. IInv => NoLeakedInterval
    BY DEF IInv
<1> QED BY <1>1, Invariance, PTL

(* A page that shows "connected" after calm clicks is, and beats for the   *)
(* session it would delete.                                                *)
THEOREM ConnectedPageIsTrue == Spec => []ShownIsTrue
<1>1. IInv => ShownIsTrue
    BY DEF IInv
<1> QED BY <1>1, Invariance, PTL

(* The host does not let the session of such a page expire, if an interval *)
(* of the timeout was left when the connection was up and the last beat    *)
(* has arrived.                                                            *)
THEOREM PromptPageKeepsItsSession == Spec => PromptIsNotExpired
<1>1. ASSUME IInv, [Next]_vars, calm, lapse = "none", ConnectedExpires
      PROVE  FALSE
    <2>1. PICK c \in Connects :
              /\ session[c] = "live" /\ session'[c] = "expired"
              /\ Quiet /\ shown = "connected" /\ pc = c
        BY <1>1 DEF ConnectedExpires
    <2>2. heartbeatTimer = c
        BY <1>1, <2>1 DEF IInv, ShownIsTrue
    <2>3. silent[c] \in Nat /\ silent[c] <= Timeout
        BY <1>1, <2>1, <2>2, TimeoutAssumption DEF IInv, TypeOK, SilenceBounded
    <2>4. \A d \in Connects : ~ Expires(d) \/ d # c
        BY <2>3, TimeoutAssumption DEF Expires
    <2>5. PICK d \in Connects : Expires(d)
        BY <1>1, <2>1
           DEF Next, vars, Click, TaskStep, ClickConnect, ClickDisconnect, DevicesReady,
               NotRegistered, Registered, StartBotFails, BotStarted, Connected,
               ConnectionFails, AbortedReturns, Left, DeleteEnds, Fail, ConnectionLost,
               LosesConnection, PageReloads, HeartbeatFires, Fires, HostCreates,
               HostCloses, Tick, hostVars, IInv, TypeOK
    <2>6. session' = [session EXCEPT ![d] = "expired"] /\ d # c
        BY <2>4, <2>5 DEF Expires
    <2> QED BY <1>1, <2>1, <2>6 DEF IInv, TypeOK
<1>2. IInv /\ [Next]_vars => [calm /\ lapse = "none" => ~ ConnectedExpires]_vars
    BY <1>1
<1> QED BY <1>2, Invariance, PTL DEF Spec, PromptIsNotExpired
=============================================================================
