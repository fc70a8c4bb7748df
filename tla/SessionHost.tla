----------------------------- MODULE SessionHost -----------------------------
(***************************************************************************)
(* The host's session registry (app/sessions.py) together with everything  *)
(* that drives it: the REST handlers, the offer callback that builds a     *)
(* voice worker, the task that runs the worker, the expiry loop and the    *)
(* server's shutdown (app/main.py, app/pipecat_runtime/worker_factory.py). *)
(*                                                                         *)
(* All of it runs on one asyncio event loop, so the code between two       *)
(* awaits that really suspend is one step.  The registry's lock is never   *)
(* held across an await, hence is always free when it is asked for, and    *)
(* taking it does not suspend.  The awaits that do suspend are the WebRTC  *)
(* negotiation, the start of a worker, the append of a metric, the run of  *)
(* a worker, the cancellation of a runner and the release of a bundle's    *)
(* resources: they are the points where the actions below are cut.         *)
(*                                                                         *)
(* Session identifiers are drawn in the order 1, 2, ...: uuids are         *)
(* interchangeable, and the registry's dict keeps the order of creation.   *)
(***************************************************************************)
EXTENDS Integers, FiniteSets

CONSTANTS
    NumSessions,      (* bound: sessions created in a behaviour             *)
    Offers,           (* bound: offers that get as far as building a worker *)
    Deletes,          (* bound: DELETE requests in flight at the same time  *)
    Cleaner,          (* the task of _cleanup_loop                          *)
    Stopper,          (* the lifespan's shutdown                            *)
    NoOffer,
    MaxSessions,      (* settings.max_sessions                              *)
    MaxLocalStt,      (* settings.local_stt_max_sessions                    *)
    Timeout,          (* settings.heartbeat_timeout_seconds, in ticks       *)
    ClosedRetention,  (* CLOSED_RETENTION_SECONDS, in ticks                 *)
    ErrorRetention,   (* ERROR_RETENTION_SECONDS, in ticks                  *)
    MaxRetained       (* MAX_RETAINED_SESSION_RECORDS                       *)

ASSUME LimitsAssumption ==
    /\ NumSessions \in Nat
    /\ MaxSessions \in Nat
    /\ MaxLocalStt \in Nat
    /\ Timeout \in Nat
    /\ ClosedRetention \in Nat
    /\ ErrorRetention \in Nat
    /\ ClosedRetention <= ErrorRetention
    /\ MaxRetained \in Nat

ASSUME TasksAssumption ==
    /\ NoOffer \notin Offers
    /\ Cleaner # Stopper
    /\ Offers \cap Deletes = {}
    /\ {Cleaner, Stopper} \cap (Offers \cup Deletes) = {}

VARIABLES
    \* the registry: _sessions, one function per field of SessionInfo
    issued,      (* number of identifiers handed out                        *)
    state,       (* "none" when the identifier is not in the dict           *)
    profile,
    cleanup,     (* cleanup_status                                          *)
    idle,        (* now - last_heartbeat, saturating just above Timeout     *)
    age,         (* now - created_at, saturating just above ErrorRetention  *)
    \* the registry: _runtimes
    runtime,     (* SessionRuntimeRecord: whose worker it holds, closing    *)
    \* one offer request and the worker, runner and bundle it builds
    offerAt,     (* where the request stands                                *)
    offerOf,     (* the session it is for                                   *)
    bundle,      (* the PipelineBundle's resources                          *)
    runner,      (* the task of _run_worker_runner                          *)
    cancelled,   (* runner.cancel has been called                           *)
    \* close_session, as run by each task that calls it
    closeAt,     (* the await it is suspended in                            *)
    victim,      (* the worker of the runtime record it is closing          *)
    queue,       (* sessions it goes on to close                            *)
    \* the server
    server

vars == <<issued, state, profile, cleanup, idle, age, runtime, offerAt,
          offerOf, bundle, runner, cancelled, closeAt, victim, queue, server>>

sessionVars == <<issued, profile, idle, age>>
workerVars == <<offerAt, offerOf, bundle, runner>>
closeVars == <<cancelled, closeAt, victim, queue>>
-----------------------------------------------------------------------------
Sessions == 1 .. NumSessions
Closers == Offers \cup Deletes \cup {Cleaner, Stopper}

Profiles == {"hybrid_local_vi", "mock"}
LiveStates == {"created", "active"}
SessionStates == LiveStates \cup {"closing", "closed", "error", "none"}
CleanupNotes == {"none", "pending", "completed", "error"}

NoRecord == [owner |-> NoOffer, closing |-> FALSE]

(* has_worker, and the test at the head of register_worker: a record only  *)
(* ever comes from register_worker, which claims it, so to have a record   *)
(* is to have a claimed one.                                               *)
HasOpenWorker(s) == runtime[s].owner # NoOffer /\ ~ runtime[s].closing
HasWorker(s) == runtime[s].owner # NoOffer

Live(st) == {s \in Sessions : st[s] \in LiveStates}
LocalLive(st) == {s \in Live(st) : profile[s] = "hybrid_local_vi"}
-----------------------------------------------------------------------------
Init ==
    /\ issued = 0
    /\ state = [s \in Sessions |-> "none"]
    /\ profile = [s \in Sessions |-> "mock"]
    /\ cleanup = [s \in Sessions |-> "none"]
    /\ idle = [s \in Sessions |-> 0]
    /\ age = [s \in Sessions |-> 0]
    /\ runtime = [s \in Sessions |-> NoRecord]
    /\ offerAt = [o \in Offers |-> "idle"]
    /\ offerOf = [o \in Offers |-> 0]
    /\ bundle = [o \in Offers |-> "none"]
    /\ runner = [o \in Offers |-> "none"]
    /\ cancelled = [o \in Offers |-> FALSE]
    /\ closeAt = [k \in Closers |-> "idle"]
    /\ victim = [k \in Closers |-> NoOffer]
    /\ queue = [k \in Closers |-> {}]
    /\ server = "up"

-----------------------------------------------------------------------------
(* POST /v1/sessions.  Both limits count the sessions that are CREATED or  *)
(* ACTIVE.                                                                 *)
HasRoomOffByOne(p) ==
    /\ Cardinality(Live(state)) <= MaxSessions
    /\ p = "hybrid_local_vi" => Cardinality(LocalLive(state)) <= MaxLocalStt

HasRoom(p) ==
    /\ Cardinality(Live(state)) < MaxSessions
    /\ p = "hybrid_local_vi" => Cardinality(LocalLive(state)) < MaxLocalStt

CreateSession(p) ==
    /\ server = "up"
    /\ issued < NumSessions
    /\ HasRoom(p)
    /\ issued' = issued + 1
    /\ state' = [state EXCEPT ![issued + 1] = "created"]
    /\ profile' = [profile EXCEPT ![issued + 1] = p]
    /\ UNCHANGED <<cleanup, idle, age, runtime, server>>
    /\ UNCHANGED workerVars
    /\ UNCHANGED closeVars

(* POST /v1/sessions/{id}/heartbeat, when it is not answered 403 or 404.   *)
Heartbeat(s) ==
    /\ server = "up"
    /\ state[s] \in LiveStates
    /\ idle' = [idle EXCEPT ![s] = 0]
    /\ UNCHANGED <<issued, state, profile, cleanup, age, runtime, server>>
    /\ UNCHANGED workerVars
    /\ UNCHANGED closeVars

(* Time passes.  The heartbeat's age is only read while a session is live. *)
Tick ==
    /\ server = "up"
    /\ idle' = [s \in Sessions |->
                  IF state[s] \in LiveStates /\ idle[s] <= Timeout
                  THEN idle[s] + 1 ELSE idle[s]]
    /\ age' = [s \in Sessions |->
                  IF state[s] # "none" /\ age[s] <= ErrorRetention
                  THEN age[s] + 1 ELSE age[s]]
    /\ UNCHANGED <<issued, state, profile, cleanup, runtime, server>>
    /\ UNCHANGED workerVars
    /\ UNCHANGED closeVars

-----------------------------------------------------------------------------
(* mark_error: whatever the session's state, as long as it is in the dict. *)
Errored(s) == [state EXCEPT ![s] = IF @ = "none" THEN @ ELSE "error"]
ErrorNotedAsFailed(s) ==
    [cleanup EXCEPT ![s] = IF state[s] = "none" THEN @ ELSE "failed"]
ErrorNoted(s) == [cleanup EXCEPT ![s] = IF state[s] = "none" THEN @ ELSE "error"]

MarkError(s) ==
    /\ state' = Errored(s)
    /\ cleanup' = ErrorNoted(s)

(* activate_session.                                                       *)
ActivatedAlways(s) == [state EXCEPT ![s] = IF @ = "none" THEN @ ELSE "active"]
Activated(s) == [state EXCEPT ![s] = IF @ = "created" THEN "active" ELSE @]

(* POST .../offer, past _authorize_offer and the check of the state: the   *)
(* peer connection is being negotiated.  An offer that renegotiates a      *)
(* known connection never reaches the callback and leaves no trace.        *)
OfferAccepted(o, s) ==
    /\ server = "up"
    /\ offerAt[o] = "idle"
    /\ state[s] \in LiveStates
    /\ offerAt' = [offerAt EXCEPT ![o] = "negotiating"]
    /\ offerOf' = [offerOf EXCEPT ![o] = s]
    /\ UNCHANGED <<state, cleanup, runtime, bundle, runner, server>>
    /\ UNCHANGED sessionVars
    /\ UNCHANGED closeVars

(* handle_web_request raises, or create_pipeline does before it has built  *)
(* anything: the session is marked and the request answered 500.           *)
NegotiationFails(o) ==
    /\ offerAt[o] = "negotiating"
    /\ MarkError(offerOf[o])
    /\ offerAt' = [offerAt EXCEPT ![o] = "idle"]
    /\ offerOf' = [offerOf EXCEPT ![o] = 0]
    /\ UNCHANGED <<runtime, bundle, runner, server>>
    /\ UNCHANGED sessionVars
    /\ UNCHANGED closeVars

(* connection_callback finds a registered worker: the offer is refused and *)
(* the session it was made for marked as failed.                           *)
WorkerRefused(o) ==
    /\ offerAt[o] = "negotiating"
    /\ HasWorker(offerOf[o])
    /\ MarkError(offerOf[o])
    /\ offerAt' = [offerAt EXCEPT ![o] = "idle"]
    /\ offerOf' = [offerOf EXCEPT ![o] = 0]
    /\ UNCHANGED <<runtime, bundle, runner, server>>
    /\ UNCHANGED sessionVars
    /\ UNCHANGED closeVars

(* connection_callback: the bundle exists and runner.add_workers is        *)
(* awaited.                                                                *)
WorkerBuilding(o) ==
    /\ offerAt[o] = "negotiating"
    /\ ~ HasWorker(offerOf[o])
    /\ offerAt' = [offerAt EXCEPT ![o] = "building"]
    /\ bundle' = [bundle EXCEPT ![o] = "open"]
    /\ UNCHANGED <<state, cleanup, runtime, offerOf, runner, server>>
    /\ UNCHANGED sessionVars
    /\ UNCHANGED closeVars

(* add_workers raises, or register_worker does because another offer was   *)
(* quicker: nobody holds the bundle any more.                              *)
BuildFails(o) ==
    /\ offerAt[o] = "building"
    /\ MarkError(offerOf[o])
    /\ offerAt' = [offerAt EXCEPT ![o] = "failed"]
    /\ UNCHANGED <<runtime, offerOf, bundle, runner, server>>
    /\ UNCHANGED sessionVars
    /\ UNCHANGED closeVars

(* register_worker and activate_session, which never suspend; then the     *)
(* start-up metric is appended to its file.  Neither asks whether the      *)
(* session is still wanted.                                                *)
WorkerRegistered(o) ==
    LET s == offerOf[o] IN
    /\ offerAt[o] = "building"
    /\ ~ HasWorker(s)
    /\ runtime' = [runtime EXCEPT ![s] = [owner |-> o, closing |-> FALSE]]
    /\ state' = Activated(s)
    /\ offerAt' = [offerAt EXCEPT ![o] = "recording"]
    /\ UNCHANGED <<cleanup, offerOf, bundle, runner, server>>
    /\ UNCHANGED sessionVars
    /\ UNCHANGED closeVars

(* The metric is on disk: the task that runs the worker is created.        *)
RunnerSpawned(o) ==
    /\ offerAt[o] = "recording"
    /\ offerAt' = [offerAt EXCEPT ![o] = "answered"]
    /\ runner' = [runner EXCEPT ![o] = "ready"]
    /\ UNCHANGED <<state, cleanup, runtime, offerOf, bundle, server>>
    /\ UNCHANGED sessionVars
    /\ UNCHANGED closeVars

(* The append raises: the worker stays registered and is never run.        *)
MetricFails(o) ==
    /\ offerAt[o] = "recording"
    /\ MarkError(offerOf[o])
    /\ offerAt' = [offerAt EXCEPT ![o] = "failed"]
    /\ UNCHANGED <<runtime, offerOf, bundle, runner, server>>
    /\ UNCHANGED sessionVars
    /\ UNCHANGED closeVars
-----------------------------------------------------------------------------
(* close_session, for one session or for several in a row.                 *)
(*                                                                         *)
(* A session that is CLOSING or CLOSED is left alone.  One without a       *)
(* record, or whose record is already closing, becomes CLOSED without a    *)
(* pause.  The first one with an open record becomes CLOSING, its runner   *)
(* is asked to cancel, and the caller is suspended there; the sessions     *)
(* after it in the dict's order wait in "queue".  The operators take the   *)
(* states "st" and clean-up notes "cl" that the step has produced so far.  *)
ClosableOnceConnected(x) == x \in {"active", "error"}
Closable(x) == x \in {"created", "active", "error"}

OpenOrClosingRecord(s) == HasWorker(s)
OpenRecord(s) == HasWorker(s) /\ ~ runtime[s].closing

Suspends(s, st) == Closable(st[s]) /\ OpenRecord(s)

FirstSuspending(Q, st) ==
    {s \in Q : Suspends(s, st) /\ \A t \in Q : Suspends(t, st) => s <= t}

ClosedAtOnce(Q, st) ==
    {s \in Q : Closable(st[s]) /\ \A t \in Q : Suspends(t, st) => s < t}

SweptStatesLate(Q, st) ==
    [s \in Sessions |-> IF s \in ClosedAtOnce(Q, st) THEN "closed" ELSE st[s]]

SweptStates(Q, st) ==
    [s \in Sessions |->
        CASE s \in ClosedAtOnce(Q, st)    -> "closed"
          [] s \in FirstSuspending(Q, st) -> "closing"
          [] OTHER                        -> st[s]]

SweptNotes(Q, st, cl) ==
    [s \in Sessions |->
        CASE s \in ClosedAtOnce(Q, st)    -> "completed"
          [] s \in FirstSuspending(Q, st) -> "pending"
          [] OTHER                        -> cl[s]]

(* _prune_retained: finished sessions past their retention, measured from  *)
(* their creation, and the oldest ones beyond MAX_RETAINED_SESSION_RECORDS *)
Prunable(st) ==
    LET retained == {s \in Sessions : st[s] \in {"closed", "error"}} IN
    {s \in retained :
        \/ st[s] = "closed" /\ age[s] > ClosedRetention
        \/ st[s] = "error" /\ age[s] > ErrorRetention
        \/ Cardinality({t \in retained : t > s}) >= MaxRetained}

(* The runners that are asked to cancel when the sessions "first" begin to  *)
(* close.                                                                  *)
CancelsIfRunning(first) ==
    {o \in Offers : runner[o] = "running" /\ \E s \in first : runtime[s].owner = o}
Cancels(first) == {o \in Offers : \E s \in first : runtime[s].owner = o}

(* Drop the pruned sessions and their runtime records from the two dicts.  *)
RegistryWithout(gone, st, cl, rt) ==
    /\ state' = [s \in Sessions |-> IF s \in gone THEN "none" ELSE st[s]]
    /\ cleanup' = [s \in Sessions |-> IF s \in gone THEN "none" ELSE cl[s]]
    /\ runtime' = [s \in Sessions |-> IF s \in gone THEN NoRecord ELSE rt[s]]
    /\ profile' = [s \in Sessions |-> IF s \in gone THEN "mock" ELSE profile[s]]
    /\ idle' = [s \in Sessions |-> IF s \in gone THEN 0 ELSE idle[s]]
    /\ age' = [s \in Sessions |-> IF s \in gone THEN 0 ELSE age[s]]

(* Task k closes the sessions Q.  When none of them makes it wait the task *)
(* is through with them, and the expiry loop goes on to prune.             *)
CloseAll(k, Q, st, cl) ==
    LET first == FirstSuspending(Q, st)
        swept == SweptStates(Q, st)
        gone  == IF k = Cleaner /\ first = {} THEN Prunable(swept) ELSE {}
    IN
    /\ RegistryWithout(gone, swept, SweptNotes(Q, st, cl),
          [s \in Sessions |->
              IF s \in first THEN [owner |-> runtime[s].owner, closing |-> TRUE]
              ELSE runtime[s]])
    /\ cancelled' = [o \in Offers |-> cancelled[o] \/ o \in Cancels(first)]
    /\ closeAt' = [closeAt EXCEPT ![k] =
          IF first = {} THEN "idle" ELSE "cancelling"]
    /\ victim' = [victim EXCEPT ![k] =
          IF first = {} THEN NoOffer
          ELSE CHOOSE o \in Offers : \E s \in first : runtime[s].owner = o]
    /\ queue' = [queue EXCEPT ![k] = {s \in Q : \E t \in first : t < s}]

-----------------------------------------------------------------------------
(* DELETE /v1/sessions/{id}, by the session's owner.                       *)
DeleteSession(d, s) ==
    /\ server = "up"
    /\ closeAt[d] = "idle"
    /\ state[s] # "none"
    /\ CloseAll(d, {s}, state, cleanup)
    /\ UNCHANGED <<issued, server>>
    /\ UNCHANGED workerVars

(* _run_worker_runner: the new task enters runner.run().                   *)
RunnerStarts(o) ==
    /\ server # "stopped"
    /\ runner[o] = "ready"
    /\ runner' = [runner EXCEPT ![o] = "running"]
    /\ UNCHANGED <<state, cleanup, runtime, offerAt, offerOf, bundle, server>>
    /\ UNCHANGED sessionVars
    /\ UNCHANGED closeVars

(* on_client_disconnected: the peer is gone, the runner is cancelled.      *)
ClientDisconnects(o) ==
    /\ server # "stopped"
    /\ runner[o] = "running"
    /\ cancelled' = [cancelled EXCEPT ![o] = TRUE]
    /\ UNCHANGED <<state, cleanup, runtime, closeAt, victim, queue, server>>
    /\ UNCHANGED sessionVars
    /\ UNCHANGED workerVars

(* runner.run() returns, cancelled or at the pipeline's end, and the task  *)
(* closes the session.                                                     *)
RunnerEnds(o) ==
    /\ server # "stopped"
    /\ runner[o] = "running"
    /\ runner' = [runner EXCEPT ![o] = "ended"]
    /\ CloseAll(o, {offerOf[o]}, state, cleanup)
    /\ UNCHANGED <<issued, offerAt, offerOf, bundle, server>>

(* runner.run() raises: the session is marked, then closed all the same.   *)
RunnerFails(o) ==
    LET s == offerOf[o] IN
    /\ server # "stopped"
    /\ runner[o] = "running"
    /\ runner' = [runner EXCEPT ![o] = "failed"]
    /\ CloseAll(o, {s}, Errored(s), ErrorNoted(s))
    /\ UNCHANGED <<issued, offerAt, offerOf, bundle, server>>

(* cleanup_expired: collect the sessions whose heartbeat is overdue and    *)
(* start to close them.                                                    *)
ExpiredOnceConnected == {s \in Live(state) : state[s] = "active" /\ idle[s] > Timeout}
Expired == {s \in Live(state) : idle[s] > Timeout}

CleanupPass ==
    /\ server = "up"
    /\ closeAt[Cleaner] = "idle"
    /\ CloseAll(Cleaner, Expired, state, cleanup)
    /\ UNCHANGED <<issued, server>>
    /\ UNCHANGED workerVars

(* runner.cancel has returned or raised; bundle.aclose takes the resources *)
(* and waits for them to close.                                            *)
CancelReturnsUncaught(k) ==
    /\ server # "stopped"
    /\ closeAt[k] = "cancelling"
    /\ \E next \in {"idle", "releasing"} : closeAt' = [closeAt EXCEPT ![k] = next]
    /\ UNCHANGED <<state, cleanup, runtime, cancelled, victim, queue, server>>
    /\ UNCHANGED sessionVars
    /\ UNCHANGED workerVars

CancelReturns(k) ==
    /\ server # "stopped"
    /\ closeAt[k] = "cancelling"
    /\ closeAt' = [closeAt EXCEPT ![k] = "releasing"]
    /\ UNCHANGED <<state, cleanup, runtime, cancelled, victim, queue, server>>
    /\ UNCHANGED sessionVars
    /\ UNCHANGED workerVars

(* The resources are closed.  The session, whatever became of it in the    *)
(* meantime, is CLOSED if it is still there, and the task takes up what is *)
(* left of its work.                                                       *)
Finished(s) == [state EXCEPT ![s] = IF @ = "none" THEN @ ELSE "closed"]
FinishNoted(s) ==
    [cleanup EXCEPT ![s] = IF state[s] = "none" THEN @ ELSE "completed"]

ReleaseReturns(k) ==
    LET s == offerOf[victim[k]] IN
    /\ server # "stopped"
    /\ closeAt[k] = "releasing"
    /\ bundle' = [bundle EXCEPT ![victim[k]] = "released"]
    /\ CloseAll(k, queue[k], Finished(s), FinishNoted(s))
    /\ UNCHANGED <<issued, offerAt, offerOf, runner, server>>

-----------------------------------------------------------------------------
(* The lifespan's shutdown begins once no request is in flight.  The       *)
(* expiry loop is cancelled in the await it is suspended in: out of        *)
(* runner.cancel it still releases the bundle, out of the release itself   *)
(* it does not try again.  Either way it leaves the session CLOSING.       *)
ShutdownBegins ==
    /\ server = "up"
    /\ \A o \in Offers : offerAt[o] \notin {"negotiating", "building", "recording"}
    /\ \A d \in Deletes : closeAt[d] = "idle"
    /\ server' = "draining"
    /\ closeAt' = [closeAt EXCEPT ![Cleaner] =
          IF @ = "cancelling" THEN "aborting" ELSE "idle"]
    /\ victim' = [victim EXCEPT ![Cleaner] =
          IF closeAt[Cleaner] = "cancelling" THEN @ ELSE NoOffer]
    /\ queue' = [queue EXCEPT ![Cleaner] = {}]
    /\ UNCHANGED <<state, cleanup, runtime, cancelled>>
    /\ UNCHANGED sessionVars
    /\ UNCHANGED workerVars

AbortReleases ==
    /\ closeAt[Cleaner] = "aborting"
    /\ bundle' = [bundle EXCEPT ![victim[Cleaner]] = "released"]
    /\ closeAt' = [closeAt EXCEPT ![Cleaner] = "idle"]
    /\ victim' = [victim EXCEPT ![Cleaner] = NoOffer]
    /\ UNCHANGED <<state, cleanup, runtime, offerAt, offerOf, runner>>
    /\ UNCHANGED <<cancelled, queue, server>>
    /\ UNCHANGED sessionVars

(* With the loop gone, every session still listed is closed in turn.       *)
ShutdownSweeps ==
    /\ server = "draining"
    /\ closeAt[Cleaner] = "idle"
    /\ server' = "closing"
    /\ CloseAll(Stopper, {s \in Sessions : state[s] # "none"}, state, cleanup)
    /\ UNCHANGED issued
    /\ UNCHANGED workerVars

ShutdownEnds ==
    /\ server = "closing"
    /\ closeAt[Stopper] = "idle"
    /\ server' = "stopped"
    /\ UNCHANGED <<state, cleanup, runtime>>
    /\ UNCHANGED sessionVars
    /\ UNCHANGED workerVars
    /\ UNCHANGED closeVars

-----------------------------------------------------------------------------
RestStep ==
    \/ \E p \in Profiles : CreateSession(p)
    \/ \E s \in Sessions : Heartbeat(s)
    \/ \E d \in Deletes, s \in Sessions : DeleteSession(d, s)

OfferStep(o) ==
    \/ \E s \in Sessions : OfferAccepted(o, s)
    \/ NegotiationFails(o)
    \/ WorkerRefused(o)
    \/ WorkerBuilding(o)
    \/ BuildFails(o)
    \/ WorkerRegistered(o)
    \/ RunnerSpawned(o)
    \/ MetricFails(o)

RunnerStep(o) ==
    \/ RunnerStarts(o)
    \/ ClientDisconnects(o)
    \/ RunnerEnds(o)
    \/ RunnerFails(o)

CloseStep(k) == CancelReturns(k) \/ ReleaseReturns(k)

ShutdownStep ==
    \/ ShutdownBegins
    \/ AbortReleases
    \/ ShutdownSweeps
    \/ ShutdownEnds

Next ==
    \/ RestStep
    \/ Tick
    \/ \E o \in Offers : OfferStep(o)
    \/ \E o \in Offers : RunnerStep(o)
    \/ CleanupPass
    \/ \E k \in Closers : CloseStep(k)
    \/ ShutdownStep

Spec == Init /\ [][Next]_vars

(* The clock advances, the expiry loop comes round, and what a closing     *)
(* task awaits comes back.  Nothing is asked of clients or of workers.     *)
Fairness ==
    /\ WF_vars(Tick)
    /\ WF_vars(CleanupPass)
    /\ \A k \in Closers : WF_vars(CloseStep(k))

FairSpec == Spec /\ Fairness

-----------------------------------------------------------------------------
(* Every variable of the host keeps its type: the fields of SessionInfo    *)
(* and of SessionRuntimeRecord, the requests, the tasks and the server.    *)
TypeOK ==
    /\ issued \in 0 .. NumSessions
    /\ state \in [Sessions -> SessionStates]
    /\ profile \in [Sessions -> Profiles]
    /\ cleanup \in [Sessions -> CleanupNotes]
    /\ idle \in [Sessions -> 0 .. Timeout + 1]
    /\ age \in [Sessions -> 0 .. ErrorRetention + 1]
    /\ runtime \in [Sessions -> [owner : Offers \cup {NoOffer}, closing : BOOLEAN]]
    /\ offerAt \in [Offers -> {"idle", "negotiating", "building", "recording",
                               "answered", "failed"}]
    /\ offerOf \in [Offers -> 0 .. NumSessions]
    /\ bundle \in [Offers -> {"none", "open", "released"}]
    /\ runner \in [Offers -> {"none", "ready", "running", "ended", "failed"}]
    /\ cancelled \in [Offers -> BOOLEAN]
    /\ closeAt \in [Closers -> {"idle", "cancelling", "releasing", "aborting"}]
    /\ victim \in [Closers -> Offers \cup {NoOffer}]
    /\ queue \in [Closers -> SUBSET Sessions]
    /\ server \in {"up", "draining", "closing", "stopped"}

(* The host never holds more connectable sessions than max_sessions, nor   *)
(* more with the local recogniser than local_stt_max_sessions: the checks  *)
(* are made at creation only, so nothing later may make a session          *)
(* connectable again (sessions.py create_session, activate_session).       *)
Capacity ==
    /\ Cardinality(Live(state)) <= MaxSessions
    /\ Cardinality(LocalLive(state)) <= MaxLocalStt

(* A session is ACTIVE exactly as long as a worker of its own is           *)
(* registered that nobody has begun to close: a CREATED one has none, and  *)
(* an ACTIVE one never points to a worker that is being torn down.         *)
LiveSessionHasItsWorker ==
    \A s \in Sessions :
        /\ state[s] = "created" => ~ HasWorker(s)
        /\ state[s] = "active" => OpenRecord(s)

(* While a session is in the registry, the only worker task it can have is *)
(* the one in its runtime record, so two offers can race but never leave   *)
(* two voice pipelines on a registered session.                            *)
SoleRegisteredWorker ==
    \A o \in Offers :
        runner[o] \in {"ready", "running"} /\ state[offerOf[o]] # "none"
            => runtime[offerOf[o]].owner = o

(* Tear-down is never abandoned and never done twice while the server is   *)
(* up: a CLOSING session has a task that will finish it (close_session     *)
(* answers every other caller at once), a record whose "closing" flag is   *)
(* set has been released or is about to be, and two tasks never work on    *)
(* the same worker.                                                        *)
CleanupHasOneOwner ==
    /\ server = "up" =>
        \A s \in Sessions :
            /\ state[s] = "closing" =>
                \E k \in Closers : victim[k] # NoOffer /\ offerOf[victim[k]] = s
            /\ runtime[s].closing =>
                \/ bundle[runtime[s].owner] = "released"
                \/ \E k \in Closers : victim[k] = runtime[s].owner
    /\ \A k, m \in Closers :
        k # m /\ victim[k] = victim[m] => victim[k] = NoOffer

(* The resources of a pipeline are not closed under a worker that has not  *)
(* been told to stop.                                                      *)
ReleasedAfterCancel ==
    \A o \in Offers : bundle[o] = "released" => cancelled[o]

(* When the server has stopped no session is left connectable, whatever    *)
(* was half done when the shutdown began.                                  *)
StoppedHostHasNoLiveSession == server = "stopped" => Live(state) = {}

(* The registry implements the promise of AdmissionControl: identifiers    *)
(* are used once, places are bounded, and a place given up is given up for *)
(* good, through mark_error, close_session and _prune_retained alike.      *)
Admission == INSTANCE AdmissionControl WITH
    Ids <- Sessions,
    used <- 1 .. issued,
    live <- Live(state),
    local <- LocalLive(state)

ImplementsAdmission == Admission!Spec

(* A session whose client has gone silent does not keep its place for      *)
(* ever: over and over it is not live, or has just sent a heartbeat, or    *)
(* the server is shutting down.                                            *)
SilentSessionsExpire ==
    \A s \in Sessions :
        []<>(state[s] \notin LiveStates \/ idle[s] = 0 \/ server # "up")

(* A session that has begun to close is closed in the end, even if it is   *)
(* marked as failed or pruned under the task that closes it.               *)
ClosingCompletes ==
    \A s \in Sessions :
        state[s] = "closing" ~> (state[s] \in {"closed", "none"} \/ server # "up")

-----------------------------------------------------------------------------
(* A worker that runs and that nobody has told to stop.                    *)
AtWork(o) == runner[o] = "running" /\ ~ cancelled[o]

(* SPECIFICATION.md section 5.3: MAX_SESSIONS bounds the sessions that are *)
(* active at the same time.  There are never more workers at work.  (The   *)
(* code does not keep to it.)                                              *)
WorkersWithinLimit ==
    Cardinality({o \in Offers : AtWork(o)}) <= MaxSessions
=============================================================================
