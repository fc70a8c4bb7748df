--------------------------- MODULE ClientConnection ---------------------------
(***************************************************************************)
(* The page that talks to the host: clients/browser/src/main.ts and        *)
(* clients/desktop_robot_emulator/src/main.ts, which differ in that the    *)
(* browser waits for the answer to its DELETE.  Both keep a token, a       *)
(* session id and a heartbeat timer in globals that every click's async    *)
(* function reads and writes between its awaits.                           *)
(*                                                                         *)
(* The k-th click on Connect is the task k; the token it obtains and the   *)
(* session the host creates for it are also called k.  A step is the code  *)
(* between two awaits.  The Pipecat client and its WebRTC transport, and   *)
(* the host as far as a page sees it, are external.  Time is counted in    *)
(* heartbeat intervals.                                                    *)
(***************************************************************************)
EXTENDS Integers

CONSTANTS
    NumConnects,     (* bound: clicks on Connect                           *)
    NumLeaves,       (* bound: clicks on Disconnect                        *)
    Timeout          (* heartbeat_timeout_seconds, in heartbeat intervals  *)

ASSUME BoundsAssumption ==
    /\ NumConnects \in Nat
    /\ NumLeaves \in Nat

ASSUME TimeoutAssumption == Timeout \in Nat \ {0}

VARIABLES
    \* the page
    app,             (* which of the two pages it is                       *)
    token,           (* 0 stands for the empty string, as in sessionId     *)
    sessionId,
    heartbeatTimer,  (* the connect that set it, 0 when undefined          *)
    interval,        (* the browser's timers, by the connect that set them *)
    shown,           (* which buttons updateControls has enabled           *)
    at,              (* the await each click's task is suspended in        *)
    deletes,         (* tasks whose DELETE is on its way                   *)
    target,          (* the session it names                               *)
    \* the Pipecat client
    transport,       (* its state                                          *)
    pc,              (* the connect its peer connection is for             *)
    open,            (* that connection is up and the bot ready            *)
    \* the host
    session,
    silent,          (* intervals since the last heartbeat                 *)
    \* history
    calm,            (* no click came while an earlier one was under way   *)
    lapse            (* why the host may be without a beat of the timer    *)
                     (* for longer than its interval: the connection took  *)
                     (* too long ("slow") or the last beat was "lost"      *)

idVars == <<token, sessionId>>
timerVars == <<heartbeatTimer, interval>>
deleteVars == <<deletes, target>>
pageVars == <<idVars, timerVars, shown, at, deleteVars>>
clientVars == <<transport, pc, open>>
hostVars == <<session, silent>>
historyVars == <<calm, lapse>>
vars == <<app, pageVars, clientVars, hostVars, historyVars>>
-----------------------------------------------------------------------------
Connects == 1 .. NumConnects
Leaves == NumConnects + 1 .. NumConnects + NumLeaves
Tasks == Connects \cup Leaves

(* A task that will run no more: "hung" is a connect whose promise nothing *)
(* settles any more.                                                       *)
Finished == {"idle", "done"}
Quiet == \A t \in Tasks : at[t] \in Finished

Init ==
    /\ app \in {"browser", "emulator"}
    /\ token = 0
    /\ sessionId = 0
    /\ heartbeatTimer = 0
    /\ interval = [c \in Connects |-> "off"]
    /\ shown = "disconnected"
    /\ at = [t \in Tasks |-> "idle"]
    /\ deletes = {}
    /\ target = [t \in Tasks |-> 0]
    /\ transport = "disconnected"
    /\ pc = 0
    /\ open = FALSE
    /\ session = [c \in Connects |-> "none"]
    /\ silent = [c \in Connects |-> 0]
    /\ calm = TRUE
    /\ lapse = "none"
-----------------------------------------------------------------------------
(* clearInterval and setInterval, stopHeartbeat and startHeartbeat.        *)
Cleared == [c \in Connects |-> IF c = heartbeatTimer THEN "off" ELSE interval[c]]

StopHeartbeat ==
    /\ heartbeatTimer' = 0
    /\ interval' = Cleared

StartHeartbeatOnly(c) ==
    /\ heartbeatTimer' = c
    /\ interval' = [interval EXCEPT ![c] = "waiting"]

StartHeartbeat(c) ==
    /\ heartbeatTimer' = c
    /\ interval' = [Cleared EXCEPT ![c] = "waiting"]

(* The end of disconnect() in the tasks T.                                 *)
EndsWithControls(T, controls) ==
    /\ at' = [t \in Tasks |-> IF t \in T THEN "done" ELSE at[t]]
    /\ sessionId' = 0
    /\ token' = 0
    /\ shown' = controls

TailKeepsControls(T) == EndsWithControls(T, shown)
Tail(T) == EndsWithControls(T, "disconnected")

(* disconnect() once client.disconnect() has returned, in the task t and   *)
(* in those of T that went the same way at the same moment; "controls" is  *)
(* what the page shows by then.  The emulator's globals are cleared at     *)
(* once, so only t finds a session to delete.                              *)
Asks(S) ==
    /\ deletes' = deletes \cup S
    /\ target' = [s \in Tasks |-> IF s \in S THEN sessionId ELSE target[s]]

AfterDisconnect(t, T, tok, controls) ==
    LET deletable == tok # 0 /\ sessionId # 0 IN
    \/ /\ deletable /\ app = "browser"
       /\ Asks({t} \cup T)
       /\ at' = [s \in Tasks |-> IF s \in {t} \cup T THEN "deleting" ELSE at[s]]
       /\ token' = tok
       /\ shown' = controls
       /\ UNCHANGED sessionId
    \/ /\ deletable /\ app = "emulator"
       /\ Asks({t})
       /\ Tail({t} \cup T)
    \/ /\ ~ deletable
       /\ Tail({t} \cup T)
       /\ UNCHANGED deleteVars

(* disconnect() up to the return of client.disconnect(): a peer connection *)
(* is closed at once, its media a while later; without one there is        *)
(* nothing to wait for.  tok is the value of token by then.                *)
Disconnect(t, tok) ==
    /\ StopHeartbeat
    /\ pc' = 0
    /\ open' = FALSE
    /\ \/ /\ pc # 0
          /\ at' = [at EXCEPT ![t] = "leaving",
                              ![pc] = IF @ = "negotiating" THEN "aborted" ELSE @]
          /\ token' = tok
          /\ transport' = "disconnecting"
          /\ UNCHANGED <<sessionId, shown, deleteVars>>
       \/ /\ pc = 0
          /\ transport' = "disconnected"
          /\ AfterDisconnect(t, {}, tok, shown)

(* client.disconnect() returns: its onDisconnected callback stops the      *)
(* heartbeat and the controls.  A connect that waited for this connection  *)
(* to open is rejected and disconnects as well; one that was negotiating   *)
(* goes on, declares the transport ready and is never settled.             *)
Left(t) ==
    /\ at[t] = "leaving"
    /\ StopHeartbeat
    /\ transport' = "disconnected"
    /\ \E rejected \in {{}} \cup {{c} : c \in {c \in Connects : at[c] = "aborted"}} :
          AfterDisconnect(t, rejected, token, "disconnected")
    /\ UNCHANGED <<app, pc, open, historyVars, hostVars>>

AbortedReturns(c) ==
    /\ at[c] = "aborted"
    /\ at' = [at EXCEPT ![c] = "hung"]
    /\ transport' = "ready"
    /\ UNCHANGED <<app, idVars, timerVars, shown, deleteVars, pc, open, historyVars, hostVars>>

(* The answer to a DELETE; or the request or its answer is lost, which the *)
(* page treats the same way.                                               *)
DeleteEnds(t) ==
    /\ t \in deletes
    /\ deletes' = deletes \ {t}
    /\ session' \in {session, [session EXCEPT ![target[t]] =
                                IF @ = "live" THEN "closed" ELSE @]}
    /\ IF at[t] = "deleting" THEN Tail({t})
                             ELSE UNCHANGED <<token, sessionId, shown, at>>
    /\ UNCHANGED <<app, timerVars, target, silent, historyVars, clientVars>>
-----------------------------------------------------------------------------
(* The catch of connect().                                                 *)
Fail(c, tok) ==
    /\ Disconnect(c, tok)
    /\ UNCHANGED <<app, historyVars, hostVars>>

ClickConnect(c) ==
    /\ shown = "disconnected"
    /\ at[c] = "idle"
    /\ \A d \in Connects : d < c => at[d] # "idle"
    /\ shown' = "connecting"
    /\ calm' = (calm /\ Quiet)
    /\ UNCHANGED lapse
    /\ \/ /\ transport = "disconnected"
          /\ transport' = "initializing"
          /\ at' = [at EXCEPT ![c] = "devices"]
       \/ /\ transport # "disconnected"
          /\ at' = [at EXCEPT ![c] = "registering"]
          /\ UNCHANGED transport
    /\ UNCHANGED <<app, idVars, timerVars, deleteVars, pc, open, hostVars>>

DevicesReady(c) ==
    /\ at[c] = "devices"
    /\ transport' = "initialized"
    /\ at' = [at EXCEPT ![c] = "registering"]
    /\ UNCHANGED <<app, idVars, timerVars, shown, deleteVars, pc, open, historyVars, hostVars>>

(* No microphone, or a device the host does not register.                  *)
NotRegistered(c) ==
    /\ at[c] \in {"devices", "registering"}
    /\ Fail(c, token)

(* registerDevice returns and startBot begins, which the Pipecat client    *)
(* refuses when it believes to be started already.                         *)
Started == {"authenticating", "connecting", "ready"}

Registered(c) ==
    /\ at[c] = "registering"
    /\ \/ /\ transport \in Started
          /\ Fail(c, c)
       \/ /\ transport \notin Started
          /\ token' = c
          /\ transport' = "authenticating"
          /\ at' = [at EXCEPT ![c] = "starting"]
          /\ UNCHANGED <<app, sessionId, timerVars, shown, deleteVars, pc, open,
                         historyVars, hostVars>>

(* startBot fails: the host has refused, or the answer did not come within *)
(* 20 s, the session created or not.                                       *)
StartBotFails(c) ==
    /\ at[c] = "starting"
    /\ Fail(c, token)

(* startBot returns and client.connect begins.                             *)
BotStarted(c) ==
    /\ at[c] = "starting"
    /\ session[c] # "none"
    /\ sessionId' = c
    /\ transport' = "connecting"
    /\ pc' = c
    /\ open' = FALSE
    /\ at' = [at EXCEPT ![c] = "negotiating"]
    /\ UNCHANGED <<app, token, timerVars, shown, deleteVars, historyVars, hostVars>>

(* client.connect returns: the bot is ready.                               *)
Connected(c) ==
    /\ at[c] = "negotiating"
    /\ pc = c
    /\ session[c] = "live"
    /\ open' = TRUE
    /\ transport' = "ready"
    /\ StartHeartbeat(c)
    /\ shown' = "connected"
    /\ at' = [at EXCEPT ![c] = "done"]
    /\ lapse' = IF silent[c] < Timeout THEN "none" ELSE "slow"
    /\ UNCHANGED <<app, idVars, deleteVars, pc, calm, hostVars>>

(* The transport gives up (a stop of its own: onDisconnected), and         *)
(* client.connect rejects.                                                 *)
ConnectionFails(c) ==
    /\ at[c] = "negotiating"
    /\ pc = c
    /\ pc' = 0
    /\ transport' = "disconnected"
    /\ StopHeartbeat
    /\ AfterDisconnect(c, {}, token, "disconnected")
    /\ UNCHANGED <<app, open, historyVars, hostVars>>
-----------------------------------------------------------------------------
ClickDisconnect(t) ==
    /\ shown # "disconnected"
    /\ at[t] = "idle"
    /\ \A d \in Leaves : d < t => at[d] # "idle"
    /\ calm' = (calm /\ Quiet)
    /\ Disconnect(t, token)
    /\ UNCHANGED <<app, lapse, hostVars>>

(* The transport loses an open connection and gives up to restore it.  It  *)
(* stops and calls onDisconnected, but keeps its state.                    *)
LosesConnection(controls) ==
    /\ open
    /\ open' = FALSE
    /\ pc' = 0
    /\ shown' = controls
    /\ UNCHANGED <<app, idVars, at, deleteVars, transport, hostVars, historyVars>>

ConnectionLostUnnoticed == LosesConnection(shown) /\ StopHeartbeat
ConnectionLostOffline == LosesConnection("offline") /\ StopHeartbeat

ConnectionLost == LosesConnection("disconnected") /\ StopHeartbeat

(* The page is reloaded, or its browser dies and is started again: no      *)
(* DELETE is sent, and one on its way may or may not arrive.               *)
PageReloads ==
    /\ \E t \in Tasks : at[t] # "idle"
    /\ token' = 0
    /\ sessionId' = 0
    /\ heartbeatTimer' = 0
    /\ interval' = [c \in Connects |-> "off"]
    /\ shown' = "disconnected"
    /\ at' = [t \in Tasks |-> IF at[t] = "idle" THEN "idle" ELSE "done"]
    /\ transport' = "disconnected"
    /\ pc' = 0
    /\ open' = FALSE
    /\ UNCHANGED <<app, deleteVars, historyVars, hostVars>>

(* The timer's callback: it looks at the globals, not at what was current  *)
(* when it was set.  The beat may be lost.                                 *)
Fires(c, then) ==
    /\ interval[c] = "due"
    /\ interval' = [interval EXCEPT ![c] = then]
    /\ UNCHANGED <<app, idVars, heartbeatTimer, shown, at, deleteVars, session, calm,
                   clientVars>>

Beats(s) == silent' = [silent EXCEPT ![s] = 0] /\ lapse' = "none"

HeartbeatOnce(c) == Fires(c, "off") /\ Beats(c)
HeartbeatOfConnect(c) == Fires(c, "waiting") /\ Beats(c)

HeartbeatFires(c) ==
    /\ Fires(c, "waiting")
    /\ \/ (sessionId = 0 \/ token = 0) /\ UNCHANGED <<silent, lapse>>
       \/ sessionId # 0 /\ token # 0 /\ Beats(sessionId)
       \/ sessionId # 0 /\ token # 0 /\ lapse' = "lost" /\ UNCHANGED silent
-----------------------------------------------------------------------------
(* The host: create_session, close_session for a reason of its own (the    *)
(* peer has gone, the worker fails, an administrator), and the expiry loop *)
(* with its close.                                                         *)
HostCreates(c) ==
    /\ at[c] = "starting"
    /\ session[c] = "none"
    /\ session' = [session EXCEPT ![c] = "live"]
    /\ UNCHANGED <<app, silent, historyVars, pageVars, clientVars>>

HostCloses(c) ==
    /\ session[c] = "live"
    /\ session' = [session EXCEPT ![c] = "closed"]
    /\ UNCHANGED <<app, silent, historyVars, pageVars, clientVars>>

Expires(c) ==
    /\ session[c] = "live"
    /\ silent[c] > Timeout
    /\ session' = [session EXCEPT ![c] = "expired"]
    /\ UNCHANGED <<app, silent, historyVars, pageVars, clientVars>>

(* One interval passes.  A timer that is due fires before the next one.    *)
Tick ==
    /\ \A c \in Connects : interval[c] # "due"
    /\ interval' = [c \in Connects |->
                      IF interval[c] = "waiting" THEN "due" ELSE interval[c]]
    /\ silent' = [c \in Connects |->
                    IF session[c] = "live" /\ silent[c] <= Timeout
                    THEN silent[c] + 1 ELSE silent[c]]
    /\ UNCHANGED <<app, idVars, heartbeatTimer, shown, at, deleteVars, session,
                   historyVars, clientVars>>
-----------------------------------------------------------------------------
TaskStep(t) ==
    \/ /\ t \in Connects
       /\ \/ DevicesReady(t) \/ NotRegistered(t) \/ Registered(t)
          \/ StartBotFails(t) \/ BotStarted(t)
          \/ Connected(t) \/ ConnectionFails(t) \/ AbortedReturns(t)
    \/ Left(t)
    \/ DeleteEnds(t)

Click ==
    \/ \E c \in Connects : ClickConnect(c)
    \/ \E t \in Leaves : ClickDisconnect(t)

Next ==
    \/ Click
    \/ \E t \in Tasks : TaskStep(t)
    \/ ConnectionLost
    \/ PageReloads
    \/ \E c \in Connects : HeartbeatFires(c)
    \/ \E c \in Connects : HostCreates(c) \/ HostCloses(c) \/ Expires(c)
    \/ Tick

Spec == Init /\ [][Next]_vars

(* Requests are answered or fail, the user grants or refuses the           *)
(* microphone, the browser's timers fire, time passes and the expiry loop  *)
(* runs.  No click, no loss and no other close is relied upon.             *)
FairSpec ==
    /\ Spec
    /\ \A t \in Tasks : WF_vars(TaskStep(t))
    /\ \A c \in Connects : WF_vars(HeartbeatFires(c)) /\ WF_vars(Expires(c))
    /\ WF_vars(Tick)
-----------------------------------------------------------------------------
(* The page's globals and what its libraries and its host keep are of      *)
(* their types.                                                            *)
TypeOK ==
    /\ app \in {"browser", "emulator"}
    /\ token \in 0 .. NumConnects
    /\ sessionId \in 0 .. NumConnects
    /\ heartbeatTimer \in 0 .. NumConnects
    /\ interval \in [Connects -> {"off", "waiting", "due"}]
    /\ shown \in {"disconnected", "connecting", "connected"}
    /\ at \in [Tasks -> {"idle", "devices", "registering", "starting", "negotiating",
                         "aborted", "hung", "leaving", "deleting", "done"}]
    /\ deletes \subseteq Tasks
    /\ target \in [Tasks -> 0 .. NumConnects]
    /\ transport \in {"disconnected", "initializing", "initialized", "authenticating",
                      "connecting", "ready", "disconnecting"}
    /\ pc \in 0 .. NumConnects
    /\ open \in BOOLEAN
    /\ session \in [Connects -> {"none", "live", "closed", "expired"}]
    /\ silent \in [Connects -> 0 .. Timeout + 1]
    /\ calm \in BOOLEAN
    /\ lapse \in {"none", "slow", "lost"}

(* However the clicks overlap, a timer that runs is the one stopHeartbeat  *)
(* would stop (startHeartbeat, stopHeartbeat).                             *)
NoLeakedInterval ==
    \A c \in Connects : interval[c] # "off" => heartbeatTimer = c

(* As long as one click follows the end of another, a page that shows it   *)
(* is connected is: to the session it would beat for and delete, with the  *)
(* heartbeat running, whatever failed or was lost before.                  *)
ShownIsTrue ==
    calm /\ Quiet /\ shown = "connected" =>
        /\ open
        /\ pc = sessionId
        /\ pc = heartbeatTimer
        /\ token # 0

(* The session a page at rest is connected to is taken away as one whose   *)
(* client has gone.                                                        *)
ConnectedExpires ==
    \E c \in Connects :
        /\ session[c] = "live" /\ session'[c] = "expired"
        /\ Quiet /\ shown = "connected" /\ pc = c

(* With such clicks the host does not take a connected page for a client   *)
(* that has gone, however much of the timeout the negotiation has used up, *)
(* if an interval of it was left and the last beat has arrived             *)
(* (startHeartbeat, cleanup_expired).                                      *)
PromptIsNotExpired == [][calm /\ lapse = "none" => ~ ConnectedExpires]_vars

(* A session the page does not hold any more, because a click has lost its *)
(* id, a DELETE or an answer went astray or the page was reloaded, comes   *)
(* to its end on the host: no timer goes on beating for it.  So does one   *)
(* whose connection was lost, unless the user connects again.              *)
Abandoned(c) == session[c] = "live" /\ at[c] # "starting" /\ sessionId # c

AbandonedSessionsEnd ==
    \A c \in Connects :
        /\ Abandoned(c) ~> session[c] # "live"
        /\ session[c] = "live" /\ shown = "disconnected"
             ~> session[c] # "live" \/ shown # "disconnected"

(* The controls do not stay at "connecting": the user can always try       *)
(* again.                                                                  *)
ConnectingEnds == shown = "connecting" ~> shown # "connecting"

-----------------------------------------------------------------------------
(* SPECIFICATION.md: the heartbeat times out when the client has lost its  *)
(* connection.  The code does not keep to it: with no beat lost, a session *)
(* expires under a page at rest that is connected to it, when the          *)
(* negotiation took long, or when a click on Disconnect during startBot    *)
(* has cleared the token of a connect that went on.                        *)
ConnectedIsNotExpired == [][lapse # "lost" => ~ ConnectedExpires]_vars
=============================================================================
