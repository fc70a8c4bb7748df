# Robot AI Host: formal models

TLA+ models of the voice host in `robot-ai-host/`: a FastAPI server that gives
school robots and browsers a Vietnamese voice assistant over WebRTC, and the two
TypeScript pages that talk to it.  TLC checks the models on small instances,
TLAPS proves theorems about them for every value of the constants.
`PROJECT.json` lists the runs, the theorems, the source lines each definition
stands for and, for every property, a change to the code's model that breaks it.

Paths are relative to `src/robot-ai-host/`; Python files without a directory are
in `app/`, and `main.ts` is `clients/browser/src/main.ts` unless it says
"emulator" (`clients/desktop_robot_emulator/src/main.ts`).

| question | module | proofs |
|---|---|---|
| Who may hold a place on the host, and who tears a session down? | `SessionHost`, abstractly `AdmissionControl` | `SessionHostProofs`, `SessionTeardownProofs` |
| What does the listener hear of a reply? | `TwoTierTTS` | `TwoTierTTSProofs` |
| What is the language model asked with, what is said aloud? | `Conversation` | `ConversationProofs` |
| What does a page hold, and what becomes of what it loses? | `ClientConnection` | `ClientConnectionProofs` |
| What does the robot's face say? | `RobotFace` | `RobotFaceProofs` |
| What is measured of a conversation, at both ends? | `TurnMeasurement` over `TurnTimeline` over `LatencyTracker`, and `BrowserPage` | `TurnMeasurementProofs`, `MeasuredTurnsProofs` |

Every `MC...` module extends the module it is named after for TLC; a `.cfg` is
`<module>_<run>.cfg`.

Every safety property of a passing run, the refinement included, is also a theorem;
the liveness properties and the runs that expect a violation stay with TLC.  Each
section says what its theorems assume and along which invariant they are proved.


## 1. The system

### Components, state, operations

* **Session registry** (`sessions.py`, `main.py`, `pipecat_runtime/worker_factory.py`).
  Two dicts: `_sessions` (a `SessionInfo` per session: state, profile, clean-up
  note, last heartbeat, creation time) and `_runtimes` (a `SessionRuntimeRecord`
  per session that has a voice worker: worker, runner, bundle, closing).  They are
  changed by the REST handlers (create, heartbeat, DELETE, offer), by the offer
  callback that builds a worker, by the task that runs the worker
  (`_run_worker_runner`), by the expiry loop (`_cleanup_loop`) and by the lifespan's
  shutdown.  *Correct* when the two limits hold, state and record agree, a tear-down
  under way is finished by exactly one task, and silent sessions give their places
  back.
* **Speech** (`pipecat_runtime/two_tier_tts.py`, `vieneu_engine.py`).  One engine
  with a lock; a worker thread that renders and hands chunks over a bounded asyncio
  queue with `run_coroutine_threadsafe`; a task that reads them with a timeout, a
  fallback tier, and barge-ins that cancel it anywhere.  *Correct* when audio comes
  complete, in order, once, in one voice, and threads and the lock are released.
* **Conversation** (`processors/*.py`, `core/context_manager.py`,
  `pipecat_runtime/pipeline_factory.py`).  A chain of processors with a task each
  around one shared list of messages: `STTGuard`, `WakeGate`, the user aggregator,
  `ContextCompactor`, `TurnGrounding`, `SmallTalkBypass`, the LLM,
  `StreamDeduplicator`, `ResponsePolicy`, the TTS, the assistant aggregator.
  *Correct* when the request is bounded and complete, its notes belong to the last
  words, a reset forgets, and the reply is capped.
* **The pages** (`clients/*/src/main.ts`).  Globals `token`, `sessionId`,
  `heartbeatTimer` and the Pipecat client, written by async click handlers between
  their awaits and by library callbacks.  *Correct* when what is shown is true and
  nothing is kept alive that nobody holds.
* **The robot's face** (emulator).  `dataset.state`, the emotion and the animation
  with a timer variable each, the mouth with its animation loop, two buttons.  Written
  by callbacks, clicks, timeouts and frames.  *Correct* when the face agrees with the
  conversation and the session, and what it plays is seen in full and ends.
* **The browser's measures and transcript.**  `botSpeaking`, `bargeInStartedAt`,
  `lastUserStoppedAt`, `partialUserMessage`, written by the callbacks of the client.
  *Correct* when they agree with what the host observes, and the transcript holds no
  half sentence that is over.
* **Metrics and turn timeline** (`pipecat_runtime/observers.py`, `metrics.py`): the
  frames of a session are cut into turns, client events add marks, a tracker keeps
  the records and a JSONL file.  *Correct* when each turn is recorded once, no mark
  comes before its turn, and what the memory holds reaches the file or is known to be
  lost.
* **Credentials** (`auth.py`, `security/*.py`): device and connection tokens,
  one-time tickets, sliding-window rate limits, the admin token.  *Correct* when a
  ticket is used at most once and before it expires, and a window admits its number.
* **Student memory** (`core/memory.py`): consent-bound notes with expiry.
* **Pure text**: prompts, glossary, knowledge search, text filters, expression and
  routing.
* **Not reached by the running host**: the tool gateway (`tools/`), task state,
  routing and expression (`core/`), the response state machine
  (`pipecat_runtime/response_lifecycle.py`) and the fake robot are constructed by
  tests only or by nothing.  The WebSocket transport's route is registered while the
  app is built (`main.py:226`), before the lifespan sets the settings
  (`main.py:139`), so `register_websocket_routes` always returns early.

### How they interact

A page registers (`POST /v1/devices/register`), creates a session, sends its WebRTC
offer to the session's endpoint and beats every 15 s.  The offer callback builds the
transport and the pipeline (conversation, speech, observer), registers the worker
with the registry and runs it in a task of its own; that task, the DELETE handler,
the expiry loop and the shutdown all end in `SessionManager.close_session`.  The
client's messages over the data channel (`robot.wake`, `robot.sleep`,
`conversation.reset`) reach the conversation while a turn is under way; its measures
(`client.playback.started`, `client.barge_in.stopped`) mark the observer's turn.  The
events of speech, transcripts and outputs go the other way and move the face and the
transcript.

### What is hard here

* handlers interleave at every await of one event loop: an offer against a DELETE,
  the expiry loop, a crash of the worker, the shutdown;
* threads that cannot be cancelled, under tasks that can, with timeouts on both sides;
* processors that read and rewrite a shared list while messages of the client clear it;
* clicks that overlap, answers that are lost, a connection lost with the host none
  the wiser;
* what two sides know of the same conversation from events that cross each other:
  the face and the gate, the page's measures and the observer's;
* globals, timeouts and animation loops that outlive the session they began in;
* time: expiry, retention, duplicate windows, idle timeouts.

`PROJECT.json` lists each hazard at its line with the properties that cover it.


## 2. The session host

(`SessionHost`, `AdmissionControl`, `SessionHostProofs`, `SessionTeardownProofs`)

### State and actions

The host runs on one asyncio loop, so a step is the code between two awaits that
really suspend.  The registry's `asyncio.Lock` is never held across an await, is
therefore always free, and taking it does not suspend: `_lock` has no variable.

| model | code |
|---|---|
| `state`, `profile`, `cleanup`, `idle`, `age`, `issued` | the fields of `SessionInfo`; `idle` and `age` are the differences to `now` the code computes, saturating just above the largest limit they are compared with |
| `runtime` | `_runtimes`: whose worker, and `closing` |
| `offerAt`, `offerOf`, `bundle`, `runner`, `cancelled` | an offer request and the worker, runner and `PipelineBundle` it makes |
| `closeAt`, `victim`, `queue` | a task that runs `close_session`: the await it is in, the record it tears down, the sessions it goes on to |
| `server` | the lifespan: up, draining (the expiry loop's own close is being aborted), closing, stopped |
| `CreateSession`, `Heartbeat`, `DeleteSession` | the REST handlers, both limits included |
| `OfferAccepted`, `NegotiationFails`, `WorkerRefused`, `WorkerBuilding`, `BuildFails`, `WorkerRegistered`, `RunnerSpawned`, `MetricFails` | the offer handler and its callback from await to await, with every error path (`mark_error`) |
| `RunnerStarts`, `ClientDisconnects`, `RunnerEnds`, `RunnerFails` | `_run_worker_runner` and its `finally`/`except` |
| `CloseAll` | `close_session` for a set of sessions up to the first that suspends: those without an open record are closed at once |
| `CancelReturns`, `ReleaseReturns` | the two awaits of a tear-down |
| `CleanupPass` | `cleanup_expired` with `_prune_retained` |
| `ShutdownBegins` ... `ShutdownEnds` | the lifespan's `finally` |

Identifiers are handed out in order: uuids are interchangeable, and the dict keeps
the order of creation, which decides what is pruned.

### Runs

* `registry` (two sessions, two offers, one DELETE, one place for the local
  recogniser, symmetric requests): seven invariants and the refinement of
  `AdmissionControl`.  Two sessions are the least for limits and pruning, two offers
  for a race on one session; a third offer only repeats the second's refusals.
* `liveness` (one offer): `SilentSessionsExpire`, `ClosingCompletes`.
* `limit`: a statement the code does not keep.  A session marked as failed gives up its
  place while its worker goes on, so more than `MAX_SESSIONS` workers run.  Every other
  worker without a place is one too many in the same way: that of a CLOSED session, that
  of a session whose record was pruned (section 8).  `SoleRegisteredWorker` holds all the
  same: it is about sessions in the registry.

The clock's bounds (`Timeout` 1, retention 1 and 2 ticks) make silence, expiry and
both retentions happen within a few ticks; ages saturate, so the state space is
finite with no bound on the number of ticks.

*Fairness*: the clock advances, the expiry loop comes round, an awaited
`runner.cancel` and the release of a bundle come back.  The loop is a `while True`
with a sleep, and its body catches every exception; the two awaits are inside a
`try` whose failure is also modelled as a return.  Nothing is asked of clients,
offers or workers.  That the two awaits come back at all is assumed: no timeout bounds
them, and a cancellation that hung would stop the expiry loop for every session.

### What is proved

For every number of sessions, offers and requests and every limit
(`LimitsAssumption`, `TasksAssumption`: the constants are naturals, the two
retentions are ordered, the tasks are distinct):

* `TypeCorrect`, `LiveSessionWorker`, `SoleWorker` – the invariants `TypeOK`,
  `LiveSessionHasItsWorker` and `SoleRegisteredWorker`;
* `CapacityHolds` – both limits, at every moment;
* `Refinement` – `Spec => ImplementsAdmission`: every step is one admission, a
  retirement of some sessions, or leaves the places alone;
* `CleanupOwned`, `ReleaseFollowsCancel`, `NothingLiveOnceStopped` – the invariants
  `CleanupHasOneOwner`, `ReleasedAfterCancel` and `StoppedHostHasNoLiveSession`.  The
  last says that no session is CREATED or ACTIVE when the lifespan has ended; a close
  that the shutdown aborted leaves its session CLOSING, with its record.

`IInv` is inductive.  Types alone are not: that the session a runner closes is one
of the registry's needs the links between tables (`Linked`: who is past the
negotiation is for an issued session; only an answered offer has a runner; a record
holds a worker built for its own session; a suspended close holds a worker of some
record).  `SoleRegisteredWorker` needs who is *entitled* to a record, from the moment
of registration and not only when the runner is scheduled
(`EntitledOwnTheirRecord`).  What `close_session` does to a set of sessions is
summarised once (`CloseAllEffect`, `ClosingStepEffect`) and used by all six actions
that call it.  `CapacityHolds` and `Refinement` rest on `OnlyCreationRevives`: no step
but a creation makes a session live, and none changes a live session's profile.

The last three are about tear-downs and need, beside `IInv`, who holds what across
the awaits of `close_session` (`TInv`).  `ClosersHold`: a suspended close holds a
worker whose runner was asked to cancel and whose record, as long as it is listed, is
marked `closing`; a runner that closes its own session has ended before.
`StopperSweepsAll`: once the shutdown sweeps, whatever is still live waits in its
queue, since by then nothing is admitted any more.

Only model-checked: `SilentSessionsExpire` and `ClosingCompletes`, which are liveness,
and the violation `limit`.


## 3. Speech

(`TwoTierTTS`, `TwoTierTTSProofs`)

### State and actions

`at` is the await or the yield `run_tts` is suspended in; `thread`, `queue`,
`scheduled`, `waiting`, `woken`, `item`, `tries`, `cancelled` belong to one call of the
engine.  All settings (`vieneu_streaming`, `tts_opener_first`) are chosen in `Init`.

A put that the thread schedules with `run_coroutine_threadsafe` goes through asyncio's
queue as that queue works: it is in `scheduled` until the loop begins it (`PutStarts`);
`Queue.put` looks at `full()` then, and either adds its item or becomes a waiter
(`waiting`); a get wakes the oldest waiter (`Wakes`), which the loop runs later
(`PutResumes`) and which looks again.  So a put that has just begun may take the place
a woken waiter was woken for, and a put that has timed out in the thread may land after
those of later chunks.

| model | code |
|---|---|
| `RendersChunk`, `RendersLast`, `RenderRaises`, `PutTimesOut` | `_produce` and `_put`, with the second it waits and the retry |
| `GetsChunk`, `Resumes`, `StreamEnds`, `ChunkTimesOut` | the reader of the stream in `run_tts`, which yields between two chunks |
| `Leaves`, `TellsAndDrains`, `StreamClosed` | the `finally` of `synthesize_stream`: the event, the draining, the join of the thread |
| `RenderReturns`, `ExpressiveRaises`, `ExpressiveTimesOut`, `OpenerRaises` | the whole-sentence calls and their `wait_for` |
| `BargeInOnStream`, `BargeInOnWait` | a `CancelledError` at an await of `run_tts` |
| `BargeInOnYield`, `CloserTells`, `CloserEnds` | a `CancelledError` in the task that pushes a yielded frame: the generator is dropped, and a task of the loop closes it later, with the engine's lock still held |
| `OrphanEnds` | a thread whose task has gone |

### Runs

* `speech` (two sentences, one chunk and the sentinel, a queue of 1, two offers of an
  item): one voice, nothing left out, no streaming thread without its lock, and the lock
  comes free again.  The chunk fills the queue, so that the sentinel waits, is offered
  again and may be overtaken or overtake; the second sentence is there for what the first
  one leaves behind, its dropped generator included.
* `twice` (one sentence, two chunks): a put that is not served within a second is
  scheduled again while the first is pending; both land and the chunk is spoken twice.

*Fairness*: the engine comes to the end of every chunk or raises, the loop runs the
puts, the reader and the closer.  No timeout and no barge-in is relied upon.

### What is proved

For every number of sentences and chunks, every size of the queue and every number of
offers of an item (`SizesAssumption`: the last two are at least one):

* `TypeCorrect` – `TypeOK`;
* `NoneLeftOut` – `NothingSkipped`: the first time a chunk is heard, the one before it
  has been, and the sentinel is read only when all have;
* `OneVoice` – `OneVoicePerSentence`;
* `NoOrphanedStream` – `NoThreadLeftBehind`: a streaming thread at work has its call
  hold the lock.  The exception is in the statement: a barge-in on a call that already
  waits for its thread (end "cut") leaves it behind, told to stop;
* `OneStreamAtATime` – of all streaming threads at most one has not been told to stop.

Order is not kept, so the invariant cannot follow the stream item by item.  It says of
every item on its way, wherever it is (queue, scheduled, waiting, woken, in the thread's
hand), that the chunk before it is further on the way or has been heard; a put that
overtakes another keeps that, because what it overtakes is a repetition.  That part speaks
of the sentence being read, since a thread may do anything to one that `run_tts` has left;
what was heard (`AllHeardInStep`) it says of every sentence.  The rest is whose the lock
is: the call `run_tts` is suspended in, or the generator the closer has still to close.

Only model-checked: `LockComesFree` (liveness) and the violation `twice`.


## 4. Conversation

(`Conversation`, `ConversationProofs`)

### State and actions

A message is a role, the turns it stands for, and what it is about; texts are left out.
What visitors say falls into five kinds, by the notes it calls for and whether the
small-talk rules have a reply.  `frame` is the processor the `LLMContextFrame` has come
to: one step per processor that touches the shared context, so that resets,
`robot.wake`, `robot.sleep`, the gate's timeout, ticks and interruptions fall between
any two.

| model | code |
|---|---|
| `SpeechStarts`, `TurnEnds` | the user aggregator of pipecat: an interruption, the end of a turn |
| `Admitted`, `FindsTimeout`, `DroppedWhenIdle` | `STTGuard` and `WakeGate._admit` for a final transcription |
| `Compacts` with `compact` and `Oldest` | `ContextCompactor`, which sets the messages only when they have become fewer; `ContextManager.compact` with its head, prior summary, cut, and the limit on the summary's characters |
| `Grounds` | `TurnGroundingProcessor`: old notes out, those of the last words in; a document that cannot be searched leaves the context as it is |
| `Bypasses` | the small-talk reply through `StreamDeduplicator` and the policy |
| `LLMStarts`, `LLMWrites(d)`, `LLMEnds`, `LLMFails` | the LLM of pipecat; each delta `d` through `ResponsePolicyProcessor` |
| `ClientResets`, `Wakes`, `Sleeps` | `conversation.reset`, `robot.wake`, `robot.sleep` |

A summary keeps its last `summary_max_chars` (1200) characters, so that the oldest turns
fall out of it; how many depends on how long they were.  `Oldest` is any number of them
that leaves the newest `SummaryTurns`: a summarised turn takes at most some 350
characters, so that three always fit.  A delta is one or two words with the mark that
ends a sentence or without, and the policy counts marks and words as they come: the
words of a sentence too many pass until its mark does.

### Runs

* `turns` (five turns of three kinds, two kept, two more in the summary; replies of up to
  three words, of which one sentence and two words pass): the notes, the bound, what is
  remembered, the reset and the cap.  A greeting is answered without the LLM, a plea
  calls for both notes, a chat for none after it.  Five turns with two kept compact up to
  three times, so that a summary is summarised and then loses a turn; an interruption may
  leave a turn without a reply, and a reply half cut short.  Three words are divided into
  deltas in every way, over either limit.  The gate times out with the first tick, so
  that every turn may come too late; the duplicate window is 0 ticks, so that nothing is
  dropped as a duplicate and the same words come again at once.

Two runs show what the comments promise and the code does not keep:

* `safety`: with one document whose entries cannot be searched, no sign of danger brings
  the safety note, because the search comes first and raises.
* `repeats`: the deduplicator is cleared by a frame that never passes it; a second
  greeting within 30 s is answered with silence.

Safety only: no fairness is assumed, since neither visitors nor the LLM owe a step.

### What is proved

For every set of things said and every limit, and for any number of turns and words of a
reply (`SettingsAssumption`: what is said is one of the five kinds, and at least one turn
is kept; `BoundsAssumption`: the two bounds are naturals):

* `TypeCorrect` – `TypeOK`;
* `ReplyCapped` – `ReplyIsCapped`: no more sentences are completed and no more words
  spoken than the limits allow, and nothing of a reply within them is swallowed.  That a
  sentence may be left open is in section 8;
* `ResetForgetsAll` – `ResetForgets`: of the turns that were in the context at a reset
  none comes back, except that the one reply under way may be added.  Words that the
  aggregator is still gathering then are a turn after the reset;
* `TurnsRemembered` – `AllTurnsRemembered`: the last `MaxTurns + SummaryTurns` turns
  since the reset;
* `RequestIsBounded` – `RequestBounded`;
* `NotesFit` – `NotesFitLastWords`, which speaks only of sessions whose documents can
  all be searched; of the others `safety` shows what happens.

The last three are stated of the request the LLM is given.  A frame gets there in
steps, and a client's message may change the context between any two, so `ContextInv`
says what holds where the frame is: the shape of the context (`WellFormed`: the summary
first and a user turn after it, notes only behind some words) and `Remembered` always;
`Bounded` once the compactor has seen it; `Fitting` once the grounding has.  A reset and
the processors behind each keep it.  That compaction loses no turn but the oldest of the
summary, saves no message where it leaves one turn more, and keeps the last words is
proved of `compact` itself, for contexts of every length and every cut of the summary.
Sequences are filtered with `OfRoles`, which is written out because the provers cannot
expand the standard `SelectSeq`; the proofs speak of the increasing embedding of the
filtered sequence into the other, and find first and last positions as least elements of
sets of numbers (`LeastOfNaturals`, by `WFMin`).

Only model-checked: the violations `safety` and `repeats`.


## 5. The page's connection

(`ClientConnection`, `ClientConnectionProofs`)

### State and actions

The k-th click on Connect is the task k; its token and its session are called k too.
`at` is the await each task is suspended in.  `DevicesReady` ... `Connected` are
`connect()`; `Disconnect`, `Left`, `DeleteEnds`, `Tail` are `disconnect()`;
`HeartbeatFires` is the interval's callback with its three outcomes (skipped, served,
lost); `ConnectionLost` is `onDisconnected`; `PageReloads` the `beforeunload`.
`HostCreates`, `HostCloses`, `Expires` are the host as the page sees it.  `Tick` is one
heartbeat interval (15 s); it waits for a timer that is due and for nothing else, so that
a negotiation may take any time.  `app` chooses between the browser, which awaits the
answer to its DELETE, and the emulator, which does not.  Pipecat's client and transport
are external: `Started` is the set of transport states in which `startBot` is refused.

There are two history variables.  `calm`: no click came while an earlier one was under
way.  `lapse`: why the host may have heard nothing for longer than an interval – the last
connection took up the whole timeout ("slow"), or the last beat was "lost".
`ShownIsTrue` and `PromptIsNotExpired` are stated for calm behaviours, because clicks
that overlap break them; the other properties hold for any overlap.

### Runs

* `clicks` (two clicks on Connect, two on Disconnect, `Timeout` of one interval, fair): no
  interval leaks, what a page at rest shows is true, and its session is not taken away
  if an interval of the timeout was left when the connection was up and the last beat has
  arrived; sessions that a page has lost come to their end, and no page stays at
  "connecting".  Two clicks of each kind are what an overlap needs, and a new session
  beside one that was lost.  A `Timeout` of one is the least that leaves a beat in time;
  the defaults (30 s and 15 s) are two.
* `silence` (two clicks on Connect, one on Disconnect, `Timeout` of two): a heartbeat
  timeout is to mean that the client has lost its connection, and does not.
  `activate_session` does not renew the heartbeat and the first beat comes an interval
  after the connection is up, so the host expires the session of a connected page whose
  negotiation took more than the first interval of the timeout.  The same property also
  fails, with a longer trace, when Disconnect is clicked during `startBot`: that connect
  goes on with an empty token, and its timer beats for nobody.

*Fairness*: requests are answered or fail, the user grants or refuses the microphone,
timers fire, time passes, the expiry loop runs.  No click, no loss and no other close
is relied upon.

### What is proved

For any number of clicks on either button, that overlap in any way, and for every
`Timeout` of an interval or more (`BoundsAssumption`, `TimeoutAssumption`):

* `TypeCorrect` – `TypeOK`;
* `NoIntervalLeaks` – `NoLeakedInterval`, with no condition on the clicks;
* `ConnectedPageIsTrue` – `ShownIsTrue`;
* `PromptPageKeepsItsSession` – the action property `PromptIsNotExpired`.

The last two are about calm behaviours, in which one task at a time is unfinished
(`OneTaskAtATime`), so that nothing clears what a connect has put into the globals
(`OwnsGlobals`), and a timer is set only while the page is connected and nothing is under
way (`TimerMeansConnected`).  `SilenceBounded` follows how long the host has heard nothing
of the session of a page that is connected: as long as `lapse` is "none" a beat that is
due comes before the timeout is exceeded.

Only model-checked: `AbandonedSessionsEnd` and `ConnectingEnds`, which are liveness, and
the violation `silence`.


## 6. The robot's face

(`RobotFace`, `RobotFaceProofs`)

### State and actions

`face` is `dataset.state`; `look` the emotion, the animation of a behaviour and the wink.
For the first two, `timer` is what `emotionHoldTimer` and `behaviorResetTimer` name and
`timeouts` are those really pending, so that a timeout nobody can clear any more would
be seen.  The timeout of a wink has no variable: every wink adds one to `timeouts.wink`,
which nothing clears.  `mouthRaf` and `frames` are the same for the animation loop: what
`cancelAnimationFrame` would cancel, and the loops that do run.

| model | code |
|---|---|
| `OnBotReady` ... `OnTrackStarted` | the callbacks of `configureClient`, one message of the data channel (`down`) each |
| `HoldEmotion`, `PlayBehavior`, `Restarts` | `holdEmotion`, the wink included, and `playBehavior` with their timeouts |
| `AttachMouthAnalyser`, `Frame` | the mouth's loop, begun with every track, never ended |
| `ClickWake`, `ClickSleep` | the buttons: a message (`up`) and a face at once |
| `ClickConnect`, `ConnectFails`, `ClickDisconnect`, `Left`, `ConnectionLost`, `PageReloads` | the connection, one step each way |
| `Fires`, `Tick` | timeouts and time |
| `AnswersReady`, `OnClientMessage`, `GateTimesOut` | the greeting and the wake gate of the host |
| `UserStarts` ... `Says` | the speech detector, the speaker, transcripts and outputs: external |

Two history variables: `undisturbed` (since the robot began to speak, after the
greeting, the user has neither spoken nor pressed a button) and `promised` (how long a
held emotion and an animation are still to be seen).

### Run

* `face` (two sessions, wake mode, three events, two messages under way in each
  direction; a command is held two ticks, a cue, the greeting and a wink one): that the
  face is true once the messages have come in, that sleeping faces are those of robots
  that do not listen, that what is held or played is seen in full, that it ends, the wink
  included, and that the mouth closes.  Two sessions are what a timeout or a loop needs
  to outlive its session; three events are an utterance, a reply over it and a command or
  a button, or two winks and a command.  The relation of the times matters, not their
  length: a long hold restarted by a short one, and the reverse.

*Fairness*: time passes, timeouts that are due run, and the frames of a page that is
seen are drawn.  Nothing is asked of the host, the user or the connection.

### What is proved

For every number of sessions and events, every size of the channels (two or more: the
answer to the client's ready is two messages), every length of the holds, of the
greeting and of the wink, in wake mode or not (`TimesAssumption`):

* `FaceTypeCorrect` – `TypeOK`, with one pending timeout for each timer variable and
  one animation loop;
* `FaceSeenInFull` – `SeenInFull`: no earlier timeout ends an emotion that is held, for a
  command or a cue, or an animation, whatever the relation of the times is.  It is not
  stated of a behaviour's emotion nor of the wink, of which it is not so;
* `FaceShowsTruth` – `FaceIsTrue`;
* `FaceSleepsWithGate` – `SleepsWithGate`, which says something in wake mode only.

`FaceIsTrue` and `SleepsWithGate` speak of empty channels and are not inductive.
`FaceInv` says what messages that are still on their way will do: the last event of
the robot's speech in the channel, if there is one, is what the host's speaker does
(`LastIsTrue`), else the face knows already; the same for the user's; and while nobody
disturbs the robot, its face speaks or a "started" is under way with nothing behind it
that takes the face away (`ShownFrom`).  A callback takes the first message
(`ReceivedFace`), the host adds a last one (`SentFace`), the end of a session empties
the channel (`EndedFace`), and that is all the steps there are.  `SleepInv` is the same
for the buttons' messages.  `SeenInFull` needs that a promise is never longer than the
timeout that will end it (`ClockInv`).

Only model-checked: `LooksEnd` and `MouthCloses`, which are liveness.

### What the face does not promise

* After an utterance the host drops, the face stays "thinking" until the next event.
* When the robot stops while the user who interrupted it still speaks, the face is
  idle, not listening.
* Sleep pressed during a reply: the face wakes with the reply's next event, the gate
  stays closed.  `SleepsWithGate` is the other direction only; and without wake mode the
  button puts the face to sleep over a robot that goes on listening.
* A behaviour's emotion has no hold of its own: an older emotion's timeout ends it, and
  without one it may stay for good.
* A second wink ends with the timeout of the first.


## 7. Measures

(`LatencyTracker`, `TurnTimeline`, `BrowserPage`, `TurnMeasurement`,
`TurnMeasurementProofs`, `MeasuredTurnsProofs`)

### State and actions

`LatencyTracker` is `record()`: the list, the lock, and the line that a thread of the
executor writes.  A line first waits for a thread (`queued`) and is then in its hands
(`writing`); a task that is cancelled gives the lock back and takes its line out of the
executor's queue, but a thread that has begun goes on; a write may fail, and `record()`
raises.  `TurnTimeline` is the observer of one session: `observer` holds its fields,
`hops` is pipecat's queue for it (each frame once per hop), `job` what `on_push_frame`
still has to record before it goes on, `clientJobs` the tasks of client messages that
record on their own.  A record that raises goes through `on_push_frame` and ends the task
pipecat feeds the observer from (`Failed`).  `now` is read before the await and used
after it, as in the code.  `BrowserPage` is the page: `page` holds its globals and
`transcript` the nodes it shows; whether a time is defined is kept, how long it was is
not.  `TurnMeasurement` puts the two ends on one conversation: each event of speech is a
frame for the observer and a message for the page, and sessions follow one another over
the same page and the same tracker.

| model | code |
|---|---|
| `Appends`, `Returns`, `Raises`, `Cancelled` | `LatencyTracker.record` from await to await, and its cancellation |
| `LineBegun`, `LineWritten`, `LineFails` | `asyncio.to_thread(self._append_line, ...)`: a thread takes the line, writes it, or fails |
| `Remembers` | `_seen_frames` and its halving |
| `OnPushFrame` with `UserStartedFrame` ... `BotStoppedFrame` | `on_push_frame` up to its first await |
| `FlushesTurn`, `TurnRecords` | `_flush_turn`; `record()` rejects a negative latency |
| `ObserverRecords`, `ObserverContinues`, `Continued`, `ObserverFails` | the rest of it |
| `OnClientMessage`, `ClientRecords`, `ClientReturns` | `on_client_message` for the two measures |
| `WorkerEnds` | the tasks of a session are cancelled, wherever they are |
| `OnUserStartedSpeaking` ... `Playing`, `AppendTranscript` | the callbacks of the browser page |
| `ClearTranscript`, `Connects`, `Disconnects`, `ConnectionLost` | its buttons and its connection |

### Run

* `measures` (two sessions, five frames or texts in all, two ids remembered, one tick
  of the clock, one message under way in each direction, a write that may fail): types,
  turns recorded once, no mark before its turn, the two ends agree, no partial text left,
  what becomes of each record, and that the lock comes back.  Five frames are a turn, its
  reply and the beginning of the next, in any order; with two ids remembered the halving
  comes in the third frame, while the second still has a hop to make; one tick is enough
  for a mark before and one after it.  In the pipeline 2 048 ids are kept and a frame has
  some fifteen hops.  One failure more would fall on another line only.

Safety only: that the lock is held by a task that has the record to wait for, and by
nobody else, is stated of every state; that a thread comes to an end is the executor's.

Four conditions name what the code does not promise: `carried` (the page brings a
barge-in from a session that ended in the middle of it, since `disconnect()` clears
`botSpeaking` and not `bargeInStartedAt`; it is then reported in the next session with
the time in between), `inOrder` (the line of a session cancelled while a thread writes
it may be overtaken), `early` (section 8), and `Failed` (after a write that raised,
the observer of that session sees nothing any more).

### What is proved

For any number of sessions, frames and texts, every size of the channels, any number of
writes that fail, and every limit on the ids remembered of two or more (`SeenAssumption`;
`NumbersAssumption`, `ClockAssumption` and `ChannelAssumption` say of the bounds that
they are naturals):

* `MeasuresTypeCorrect` – `TypeOK`;
* `RecordsReachTheFile` – `FileFollowsMemory`: each record is in the file once, on its way
  there, or lost because its task was cancelled before a thread took the line or because
  the write failed, and never two of these; a line that waits for a thread has a task
  that waits for it with the lock;
* `LockIsGivenBack` – `LockHasItsTask`: whoever holds the lock is a task that waits for
  the record it appended last, so neither a cancelled session nor a failed write takes it
  along;
* `NoNegativeOffset` – `OffsetsNotNegative`;
* `PartialTextIsShown` – `PartialIsShown`;
* `BothEndsAgree` – `EndsAgree`, of an observer whose task goes on;
* `EveryTurnIsRecorded` – `TurnsAreRecorded`, likewise, with the turns of `early` apart.

The first four are in `TurnMeasurementProofs`.  With the types, `FileFollowsMemory` is
inductive as it stands, since it says where each line is and who waits for it; a turn that
is about to begin has no mark older than the `now` read before the await (`TurnInTime`).

The others are in `MeasuredTurnsProofs`.  `EndsAgree` and `TurnsAreRecorded` speak of
moments when nothing is on its way.  `EndsInv` makes both ends accounts of one
conversation: `Speech` is all that matters of it (whether the robot speaks, whether a
barge-in is under way, the turns begun, how the last one went on, how many the robot
answered too early) and `After` what an event makes of it.  There is an account that
agrees with the observer (`Abstracts`), from which the frames on their way lead to what
has happened (`HopsLead`; of an observer that has failed nothing is claimed,
`HostFollows`), and one that agrees with the page, from which the messages lead
there (`Leads`).  A frame makes several hops, and the observer must take each once: ids
come in order, the hop that a frame still has to make comes right behind the next frame
at the latest, and the observer remembers the last two frames whatever the halving has
forgotten (`RemembersLast`), which is where a limit of two is needed.  A timeline the
observer has yet to record counts as recorded (`Recorded`).  The ways from one account to
another are functions that `EndsInv` claims to exist, since the provers can do no
induction over the messages: a step adds to one end of them or takes from the other.


## 8. What the documents say and the code does

The five violation runs above are the findings of `PROJECT.json`.  Met on the way and not
kept as runs:

* A DELETE during the negotiation closes a session whose worker is built afterwards and
  runs on; `docs/SPECIFICATION.md:438` calls a session CLOSED that is cleaned up.  An offer whose
  negotiation ends only after the record was pruned runs a second worker for the session
  (`sessions.py:304`, `:323`).
* A put that timed out may land after the next chunk's (`vieneu_engine.py:122`), so that
  an older chunk is spoken after a newer one.
* `wait_for` cannot stop a thread (`two_tier_tts.py:196`): after a timeout the next
  render runs beside the one that goes on; the comment at `vieneu_engine.py:96` says one
  at a time.
* The idle gate compares the time only when a transcription arrives
  (`wake_gate.py:46`).  `robot.wake` renews it first, and the next visitor is answered
  with the context of the one before, which `wake_gate.py:4` says is dropped.
* The gate stands before the user aggregator, so words it has admitted go to the LLM
  although it has become idle; `wake_gate.py:3` says that in idle state no transcription
  reaches the LLM.
* A reply over the limit is cut in the middle of a sentence, where the comment at
  `response_policy.py:69` has it stop at the boundary.
* `disconnect()` during `startBot` clears the token the connect goes on with
  (`main.ts:354`).
* `docs/SPECIFICATION.md:334` has the heartbeat carry the connection token; the code
  takes the access token.
* The comment in `security/rate_limit.py:64` says longest prefix; the loop takes the
  first rule that matches.
* A heartbeat that arrives while its session waits in the expiry loop's list does not
  save it (`sessions.py:262-270`).
* The class comment at `vieneu_engine.py:52` says that until the engine is ready "the
  two-tier service cleanly falls back to Piper for that sentence"; the opener is built
  from the same engine (`pipeline_factory.py:382`), raises too, and the sentence is
  dropped (`two_tier_tts.py:210-214`).
* `metrics.py:46` says "One record per completed turn".  A turn that the robot answered
  before the user had stopped has a negative value, which `record()` rejects, so its
  timeline is lost; speech that interrupts begins no turn, so that two turns share one
  record; and the last turn of a session is not recorded.  `TurnsAreRecorded` states what
  holds.
* `mark_error` followed by `close_session` leaves CLOSED, and the trace of the error
  goes with it; its retention is then the shorter one.


## 9. Not modelled, and why

Audio, video, WebRTC and the providers' libraries; the texts of prompts, replies and
documents; labels, particles, levels, logs, the lists of behaviours and microphones and
the mute button, on which no other state of a page depends.  In the models above: the
guard's minimum duration, interim transcriptions in the pipeline, tool calls in the
context, the render budgets of sentences without letters, `MetricsFrame`s, and
`LatencyTracker.reset`, which only tests call.  The components listed as `not_modelled`
in `PROJECT.json` give their reason there.


## 10. Plan

No safety property of a run is left without a theorem.  Liveness under fairness is out of
the prover's reach and stays with TLC, as do the violations.  In this order; each module is
written to be checked first and proved about after.

1. `ClientConnection` over `SessionHost`: the page's `session` mapped to the
   registry's `state`, so that the host the page assumes is the host that exists; and
   an abstract statement of what `TwoTierTTS` promises a listener (a sentence is heard
   as far as it goes, in one voice, or not at all) that it implements.
2. `Access`: `TicketStore`, `RateLimiter`, token expiry and the consent and expiry of
   the student memory, with the clock.  Abstractly: a ticket as a one-shot capability,
   a window as "at most N in any W".
