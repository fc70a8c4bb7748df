----------------------------- MODULE TwoTierTTS -----------------------------
(***************************************************************************)
(* How a reply is spoken: run_tts of app/pipecat_runtime/two_tier_tts.py   *)
(* takes the reply's sentences one after the other and asks the engine of  *)
(* app/pipecat_runtime/vieneu_engine.py for their audio, either streamed   *)
(* or whole, with the engine's other entry point as the fallback.          *)
(*                                                                         *)
(* Three kinds of actors interleave: the task of run_tts, which a barge-in *)
(* may cancel at any await; the engine's worker threads, which cannot be   *)
(* cancelled; and the event loop, on which a thread's puts are scheduled.  *)
(* A timeout of wait_for or a barge-in raises CancelledError where the     *)
(* task is suspended; an asyncio lock is released by that exception, while *)
(* a thread the task was waiting for goes on (Python 3.12, the version the *)
(* repository installs).  A barge-in that hits the pipeline while it       *)
(* pushes a frame run_tts has yielded drops the generator instead, and the *)
(* event loop closes it later in a task of its own, the closer.            *)
(*                                                                         *)
(* A sentence's audio is the sequence 1, 2, ..., Chunks.  Sentences with   *)
(* no letter in them return at once and are left out.                      *)
(***************************************************************************)
EXTENDS Integers, Sequences, FiniteSets

CONSTANTS
    NumSentences,   (* bound: sentences spoken in a behaviour               *)
    Chunks,         (* bound: chunks the engine renders for a sentence      *)
    QueueSize,      (* maxsize of the queue from thread to task (4)         *)
    MaxPuts         (* bound: times _put offers one item                    *)

ASSUME SizesAssumption ==
    /\ NumSentences \in Nat
    /\ Chunks \in Nat
    /\ QueueSize \in Nat \ {0}
    /\ MaxPuts \in Nat \ {0}

VARIABLES
    settings,    (* vieneu_streaming and tts_opener_first                   *)
    engine,      (* _tts of the engine: being loaded, there, or never there *)
    lock,        (* the sentence whose call holds the engine's lock, or 0   *)
    \* run_tts
    closer,      (* the sentence whose dropped generator is being closed    *)
    current,     (* the sentence it works on, or the last one               *)
    index,       (* turn.sentences: the place of that sentence in its turn  *)
    at,          (* the await or yield it is suspended in                   *)
    next,        (* what it goes on with after the lock or the closing      *)
    end,         (* how each sentence ended                                 *)
    heard,       (* chunks of the stream passed on, per sentence            *)
    voices,      (* the tiers each sentence was spoken by                   *)
    \* one call of the engine per sentence and tier
    thread,      (* its worker thread                                       *)
    \* one call of synthesize_stream per sentence
    queue,       (* the asyncio queue                                       *)
    scheduled,   (* calls of queue.put that the loop has not yet begun      *)
    waiting,     (* those that found it full: its waiters (_putters)        *)
    woken,       (* waiters that a get has woken and the loop has yet to run*)
    item,        (* what the producer renders or offers                     *)
    tries,       (* times it has been offered                               *)
    cancelled    (* the threading event                                     *)

taskVars == <<current, index, at, next>>
streamVars == <<queue, scheduled, waiting, woken, item, tries, cancelled>>
vars == <<settings, engine, lock, closer, current, index, at, next, end, heard,
          voices, thread, queue, scheduled, waiting, woken, item, tries, cancelled>>
-----------------------------------------------------------------------------
Sentences == 1 .. NumSentences
Tiers == {"expressive", "opener"}

(* What follows the last chunk: the sentinel, or the exception raised.     *)
Done == Chunks + 1
Failed == Chunks + 2

(* The awaits and the yield in which the call for the current sentence     *)
(* holds the lock.                                                         *)
Calling == {"streaming", "yielding", "closing", "rendering", "opener"}

Init ==
    /\ settings \in [streaming : BOOLEAN, openerFirst : BOOLEAN]
    /\ engine = "loading"
    /\ lock = 0 /\ closer = 0
    /\ current = 0 /\ index = 0
    /\ at = "idle" /\ next = "none"
    /\ end = [n \in Sentences |-> "none"]
    /\ heard = [n \in Sentences |-> <<>>]
    /\ voices = [n \in Sentences |-> {}]
    /\ thread = [n \in Sentences |-> [t \in Tiers |-> "none"]]
    /\ queue = [n \in Sentences |-> <<>>]
    /\ scheduled = [n \in Sentences |-> <<>>]
    /\ waiting = [n \in Sentences |-> <<>>]
    /\ woken = [n \in Sentences |-> <<>>]
    /\ item = [n \in Sentences |-> 0]
    /\ tries = [n \in Sentences |-> 0]
    /\ cancelled = [n \in Sentences |-> FALSE]

(* _warm_up, started once when the pipeline is built.                      *)
WarmUpEnds ==
    /\ engine = "loading"
    /\ engine' \in {"ready", "failed"}
    /\ UNCHANGED <<settings, lock, closer, taskVars, end, heard, voices, thread,
                   streamVars>>

-----------------------------------------------------------------------------
(* run_tts begins a sentence, of the same turn or of a new one.            *)
UseExpressive(i) == i > 1 \/ ~ settings.openerFirst

Begins(i) ==
    /\ at = "idle"
    /\ current < NumSentences
    /\ i \in {1, index + 1}
    /\ current' = current + 1
    /\ index' = i
    /\ UNCHANGED <<settings, engine, lock, closer, heard, voices, thread, streamVars>>

(* The engine is there: its entry point asks for the lock.                 *)
EngineCall(i) ==
    /\ Begins(i)
    /\ engine = "ready"
    /\ at' = "locking"
    /\ next' = IF ~ UseExpressive(i) THEN "opener"
               ELSE IF settings.streaming THEN "streaming" ELSE "rendering"
    /\ UNCHANGED end

(* It is not: the expressive tier raises, the opener, which is the same    *)
(* engine, raises too, and the sentence is given up.                       *)
EngineMissing(i) ==
    /\ Begins(i)
    /\ engine # "ready"
    /\ end' = [end EXCEPT ![current + 1] = "dropped"]
    /\ UNCHANGED <<at, next>>

(* "async with self._lock", and a thread is sent to render.  A call that   *)
(* finds the lock free does not wait: nothing else of run_tts is possible. *)
TakesLock ==
    /\ at = "locking"
    /\ lock = 0
    /\ lock' = current
    /\ at' = next
    /\ next' = "none"
    /\ LET tier == IF next = "opener" THEN "opener" ELSE "expressive" IN
       thread' = [thread EXCEPT ![current][tier] = "rendering"]
    /\ UNCHANGED <<settings, engine, closer, current, index, end, heard, voices,
                   streamVars>>

(* The budget of the expressive tier runs while it waits for the lock; the *)
(* opener then waits in its place, as long as it takes.                    *)
LockTimesOut ==
    /\ at = "locking"
    /\ lock # 0
    /\ next \in {"streaming", "rendering"}
    /\ next' = "opener"
    /\ UNCHANGED <<settings, engine, lock, closer, current, index, at, end, heard,
                   voices, thread, streamVars>>

-----------------------------------------------------------------------------
(* The producer thread of synthesize_stream.  It stops at the first offer  *)
(* it would make after the consumer has gone.                              *)
Offers(n, x) ==
    /\ thread[n]["expressive"] = "rendering"
    /\ settings.streaming
    /\ item' = [item EXCEPT ![n] = x]
    /\ IF cancelled[n]
       THEN /\ thread' = [thread EXCEPT ![n]["expressive"] = "ended"]
            /\ UNCHANGED <<scheduled, tries>>
       ELSE /\ thread' = [thread EXCEPT ![n]["expressive"] = "putting"]
            /\ scheduled' = [scheduled EXCEPT ![n] =
                                Append(@, [item |-> x, try |-> 1])]
            /\ tries' = [tries EXCEPT ![n] = 1]
    /\ UNCHANGED <<settings, engine, lock, closer, taskVars, end, heard, voices,
                   queue, waiting, woken, cancelled>>

RendersChunk(n) == item[n] < Chunks /\ Offers(n, item[n] + 1)
RendersLast(n) == item[n] = Chunks /\ Offers(n, Done)
RenderRaises(n) == Offers(n, Failed)

(* As PutTimesOut below, but the item is given up.                         *)
ItemGivenUp(n) ==
    /\ thread[n]["expressive"] = "putting"
    /\ thread' = [thread EXCEPT ![n]["expressive"] =
          IF cancelled[n] THEN "ended" ELSE "rendering"]
    /\ scheduled' = [scheduled EXCEPT ![n] = <<>>]
    /\ waiting' = [waiting EXCEPT ![n] = <<>>]
    /\ woken' = [woken EXCEPT ![n] = <<>>]
    /\ UNCHANGED <<settings, engine, lock, closer, taskVars, end, heard, voices,
                   queue, item, tries, cancelled>>

(* The put has not been done within a second, because the queue is full or *)
(* the loop is busy: offer the item again, if the consumer is still there. *)
(* The first put is not withdrawn.                                         *)
PutTimesOut(n) ==
    /\ thread[n]["expressive"] = "putting"
    /\ IF cancelled[n]
       THEN /\ thread' = [thread EXCEPT ![n]["expressive"] = "ended"]
            /\ UNCHANGED <<scheduled, tries>>
       ELSE /\ tries[n] < MaxPuts
            /\ tries' = [tries EXCEPT ![n] = @ + 1]
            /\ scheduled' = [scheduled EXCEPT ![n] =
                                Append(@, [item |-> item[n], try |-> tries[n] + 1])]
            /\ UNCHANGED thread
    /\ UNCHANGED <<settings, engine, lock, closer, taskVars, end, heard, voices,
                   queue, waiting, woken, item, cancelled>>

(* queue.put runs, for the first time or again.  With room in the queue it *)
(* is done, and the thread goes on if it is the put it waits for, its      *)
(* latest; otherwise it waits, behind the others.                          *)
PutRuns(n, put) ==
    IF Len(queue[n]) < QueueSize
    THEN /\ queue' = [queue EXCEPT ![n] = Append(@, put.item)]
         /\ thread' =
              IF /\ thread[n]["expressive"] = "putting"
                 /\ put = [item |-> item[n], try |-> tries[n]]
              THEN [thread EXCEPT ![n]["expressive"] =
                       IF item[n] \in {Done, Failed} THEN "ended" ELSE "rendering"]
              ELSE thread
         /\ UNCHANGED waiting
    ELSE /\ waiting' = [waiting EXCEPT ![n] = Append(@, put)]
         /\ UNCHANGED <<queue, thread>>

(* The loop runs the oldest put that was scheduled, or the waiter that was *)
(* woken first: whichever of the two comes first takes the place.          *)
PutStarts(n) ==
    /\ scheduled[n] # <<>>
    /\ PutRuns(n, Head(scheduled[n]))
    /\ scheduled' = [scheduled EXCEPT ![n] = Tail(@)]
    /\ UNCHANGED <<settings, engine, lock, closer, taskVars, end, heard, voices,
                   woken, item, tries, cancelled>>

PutResumes(n) ==
    /\ woken[n] # <<>>
    /\ PutRuns(n, Head(woken[n]))
    /\ woken' = [woken EXCEPT ![n] = Tail(@)]
    /\ UNCHANGED <<settings, engine, lock, closer, taskVars, end, heard, voices,
                   scheduled, item, tries, cancelled>>

(* Every item that is taken from the queue wakes the first waiter.         *)
Wakes(n, taken) ==
    LET k == IF taken < Len(waiting[n]) THEN taken ELSE Len(waiting[n]) IN
    /\ woken' = [woken EXCEPT ![n] = @ \o SubSeq(waiting[n], 1, k)]
    /\ waiting' = [waiting EXCEPT ![n] = SubSeq(@, k + 1, Len(@))]

-----------------------------------------------------------------------------
(* The task reads the stream and yields the chunk to the pipeline.         *)
GetsChunk ==
    /\ at = "streaming"
    /\ queue[current] # <<>>
    /\ Head(queue[current]) \notin {Done, Failed}
    /\ at' = "yielding"
    /\ heard' = [heard EXCEPT ![current] = Append(@, Head(queue[current]))]
    /\ voices' = [voices EXCEPT ![current] = @ \cup {"expressive"}]
    /\ queue' = [queue EXCEPT ![current] = Tail(@)]
    /\ Wakes(current, 1)
    /\ UNCHANGED <<settings, engine, lock, closer, current, index, next, end,
                   thread, scheduled, item, tries, cancelled>>

(* The pipeline has pushed the frame and asks for the next one.            *)
Resumes ==
    /\ at = "yielding"
    /\ at' = "streaming"
    /\ UNCHANGED <<settings, engine, lock, closer, current, index, next, end, heard,
                   voices, thread, streamVars>>

(* The finally of synthesize_stream: tell the thread, drain the queue; the *)
(* thread is then awaited.                                                 *)
TellsAndDrains(n) ==
    /\ cancelled' = [cancelled EXCEPT ![n] = TRUE]
    /\ queue' = [queue EXCEPT ![n] = <<>>]
    /\ Wakes(n, Len(queue[n]))

Leaves(then) ==
    /\ at = "streaming"
    /\ at' = "closing"
    /\ next' = then
    /\ TellsAndDrains(current)
    /\ UNCHANGED <<settings, engine, lock, closer, current, index, end, heard,
                   voices, thread, scheduled, item, tries>>

(* Once a chunk of the sentence has been passed on, the rest of it is      *)
(* abandoned; before that the opener takes over.                           *)
AlwaysTheOpener == "opener"
AbortedByTrouble == IF heard[current] = <<>> THEN "opener" ELSE "aborted"
AfterTrouble == IF heard[current] = <<>> THEN "opener" ELSE "finished"

(* The sentinel, or the producer's exception, comes out of the queue.      *)
StreamEnds ==
    /\ at = "streaming"
    /\ queue[current] # <<>>
    /\ Head(queue[current]) \in {Done, Failed}
    /\ Leaves(AfterTrouble)

(* wait_for gives up on the next chunk.                                    *)
ChunkTimesOut == Leaves(AfterTrouble)

(* The thread has ended: the lock is released and run_tts goes on.         *)
ThreadToldToGo(n) == cancelled[n]
ThreadGone(n) == thread[n]["expressive"] = "ended"
StreamClosed ==
    /\ at = "closing"
    /\ ThreadGone(current)
    /\ lock' = 0
    /\ IF next = "opener"
       THEN at' = "locking" /\ UNCHANGED <<next, end>>
       ELSE /\ at' = "idle"
            /\ next' = "none"
            /\ end' = [end EXCEPT ![current] = next]
    /\ UNCHANGED <<settings, engine, closer, current, index, heard, voices, thread,
                   streamVars>>

-----------------------------------------------------------------------------
(* synthesize: a thread renders the whole sentence.                        *)
RendererTier == IF at = "opener" THEN "opener" ELSE "expressive"

RenderReturns ==
    /\ at \in {"rendering", "opener"}
    /\ thread' = [thread EXCEPT ![current][RendererTier] = "ended"]
    /\ voices' = [voices EXCEPT ![current] = @ \cup {RendererTier}]
    /\ end' = [end EXCEPT ![current] = "finished"]
    /\ at' = "idle"
    /\ lock' = 0
    /\ UNCHANGED <<settings, engine, closer, current, index, next, heard, streamVars>>

(* The expressive render raises: the opener takes over.                    *)
OpenerTakesOver ==
    /\ at = "rendering"
    /\ at' = "locking"
    /\ next' = "opener"
    /\ lock' = 0
    /\ UNCHANGED <<settings, engine, closer, current, index, end, heard, voices,
                   streamVars>>

ExpressiveRaises ==
    /\ OpenerTakesOver
    /\ thread' = [thread EXCEPT ![current]["expressive"] = "ended"]

(* It takes too long: the opener takes over as well, with the lock that    *)
(* the cancelled call has released and its thread still at work.           *)
ExpressiveTimesOut == OpenerTakesOver /\ UNCHANGED thread

(* The opener raises: the sentence is given up.                            *)
OpenerRaises ==
    /\ at = "opener"
    /\ thread' = [thread EXCEPT ![current]["opener"] = "ended"]
    /\ end' = [end EXCEPT ![current] = "dropped"]
    /\ at' = "idle"
    /\ lock' = 0
    /\ UNCHANGED <<settings, engine, closer, current, index, next, heard, voices,
                   streamVars>>

(* A render nobody waits for any more comes to its end.                    *)
Awaited(n, t) == n = current /\ at \in {"rendering", "opener"} /\ t = RendererTier
OrphanEnds(n, t) ==
    /\ thread[n][t] = "rendering"
    /\ t = "opener" \/ ~ settings.streaming
    /\ ~ Awaited(n, t)
    /\ thread' = [thread EXCEPT ![n][t] = "ended"]
    /\ UNCHANGED <<settings, engine, lock, closer, taskVars, end, heard, voices,
                   streamVars>>

-----------------------------------------------------------------------------
(* A barge-in cancels the task.  While it reads the stream it still waits  *)
(* for the producer; anywhere else it drops what it waits for.  A second   *)
(* one does not reach a task that is already cancelled.                    *)
BargeInOnStream == Leaves("interrupted")

BargeInOnWait ==
    /\ at \in {"locking", "closing", "rendering", "opener"}
    /\ at = "locking" => lock # 0
    /\ next # "interrupted"
    /\ at' = "idle"
    /\ next' = "none"
    /\ lock' = IF at = "locking" THEN lock ELSE 0
    /\ end' = [end EXCEPT ![current] =
                  IF at = "closing" THEN "cut" ELSE "interrupted"]
    /\ UNCHANGED <<settings, engine, closer, current, index, heard, voices, thread,
                   streamVars>>

(* As BargeInOnYield below, but nobody closes the generator.               *)
BargeInAbandons ==
    /\ at = "yielding"
    /\ at' = "idle"
    /\ end' = [end EXCEPT ![current] = "interrupted"]
    /\ UNCHANGED <<settings, engine, lock, closer, current, index, next, heard,
                   voices, thread, streamVars>>

(* It hits the pipeline while it pushes a chunk: run_tts and the engine's  *)
(* generator are dropped at their yields, with the lock.                   *)
BargeInOnYield ==
    /\ at = "yielding"
    /\ at' = "idle"
    /\ closer' = current
    /\ end' = [end EXCEPT ![current] = "interrupted"]
    /\ UNCHANGED <<settings, engine, lock, current, index, next, heard, voices,
                   thread, streamVars>>

(* The closer runs the finally of both generators, and awaits the thread.  *)
CloserTells ==
    /\ closer # 0
    /\ ~ cancelled[closer]
    /\ TellsAndDrains(closer)
    /\ UNCHANGED <<settings, engine, lock, closer, taskVars, end, heard, voices,
                   thread, scheduled, item, tries>>

CloserEnds ==
    /\ closer # 0
    /\ cancelled[closer]
    /\ ThreadGone(closer)
    /\ closer' = 0
    /\ lock' = 0
    /\ UNCHANGED <<settings, engine, taskVars, end, heard, voices, thread, streamVars>>

-----------------------------------------------------------------------------
ThreadStep(n) ==
    \/ RendersChunk(n)
    \/ RendersLast(n)
    \/ RenderRaises(n)
    \/ PutTimesOut(n)
    \/ \E t \in Tiers : OrphanEnds(n, t)

PutStep(n) == PutStarts(n) \/ PutResumes(n)

ReadStep == TakesLock \/ GetsChunk \/ Resumes \/ StreamEnds \/ StreamClosed

RenderStep == RenderReturns \/ ExpressiveRaises \/ OpenerRaises

CloserStep == CloserTells \/ CloserEnds

BargeIn == BargeInOnStream \/ BargeInOnWait \/ BargeInOnYield

Next ==
    \/ WarmUpEnds
    \/ \E i \in Sentences : EngineCall(i) \/ EngineMissing(i)
    \/ \E n \in Sentences : ThreadStep(n) \/ PutStep(n)
    \/ ReadStep
    \/ RenderStep
    \/ CloserStep
    \/ LockTimesOut \/ ChunkTimesOut \/ ExpressiveTimesOut
    \/ BargeIn

Spec == Init /\ [][Next]_vars

(* The engine comes to the end of every chunk and every sentence, and the  *)
(* loop serves its puts, its readers and its closers; no timeout and no    *)
(* barge-in is relied upon.                                                *)
FairSpec ==
    /\ Spec
    /\ \A n \in Sentences : WF_vars(ThreadStep(n)) /\ WF_vars(PutStep(n))
    /\ WF_vars(ReadStep)
    /\ WF_vars(RenderStep)
    /\ WF_vars(CloserStep)

-----------------------------------------------------------------------------
Puts == [item : 1 .. Failed, try : 1 .. MaxPuts]

(* Every variable of run_tts and of the engine keeps its type.             *)
TypeOK ==
    /\ settings \in [streaming : BOOLEAN, openerFirst : BOOLEAN]
    /\ engine \in {"loading", "ready", "failed"}
    /\ lock \in 0 .. NumSentences /\ closer \in 0 .. NumSentences
    /\ current \in 0 .. NumSentences
    /\ index \in 0 .. NumSentences
    /\ at \in {"idle", "locking"} \cup Calling
    /\ next \in {"none", "streaming", "rendering", "opener", "finished", "interrupted"}
    /\ end \in [Sentences -> {"none", "finished", "dropped", "interrupted", "cut"}]
    /\ heard \in [Sentences -> Seq(1 .. Chunks)]
    /\ voices \in [Sentences -> SUBSET Tiers]
    /\ thread \in [Sentences ->
                     [Tiers -> {"none", "rendering", "putting", "ended"}]]
    /\ queue \in [Sentences -> Seq(1 .. Failed)]
    /\ scheduled \in [Sentences -> Seq(Puts)]
    /\ waiting \in [Sentences -> Seq(Puts)]
    /\ woken \in [Sentences -> Seq(Puts)]
    /\ item \in [Sentences -> 0 .. Failed]
    /\ tries \in [Sentences -> 0 .. MaxPuts]
    /\ cancelled \in [Sentences -> BOOLEAN]

(* However the puts of thread and loop interleave, time out, are made      *)
(* again and overtake each other, no chunk of a sentence is left out: what *)
(* the listener hears of it for the first time always comes next, and the  *)
(* sentinel is read when all of it has been heard (_put, synthesize_stream,*)
(* run_tts).                                                               *)
NothingSkipped ==
    /\ \A n \in Sentences : \A k \in 1 .. Len(heard[n]) :
           heard[n][k] = 1 \/ \E j \in 1 .. k - 1 : heard[n][j] = heard[n][k] - 1
    /\ at = "streaming" /\ queue[current] # <<>> /\ Head(queue[current]) = Done =>
           \A c \in 1 .. Chunks : \E j \in 1 .. Len(heard[current]) : heard[current][j] = c

(* A sentence that has begun in one voice is never begun again in the      *)
(* other, whatever goes wrong half-way (run_tts after its first chunk).    *)
OneVoicePerSentence == \A n \in Sentences : Cardinality(voices[n]) <= 1

(* A streaming thread at work is the thread of the call that holds the     *)
(* engine's lock, so neither an end of the stream, nor a timeout, nor a    *)
(* barge-in on the stream or at a yield leaves one behind.  Only a barge-  *)
(* in on a call that already waits for its thread does, and that thread    *)
(* has been told to stop (the "finally" of synthesize_stream and of        *)
(* run_tts).                                                               *)
Streams(n) == settings.streaming /\ thread[n]["expressive"] \in {"rendering", "putting"}
NoThreadLeftBehind ==
    \A n \in Sentences :
        Streams(n) => lock = n \/ (end[n] = "cut" /\ cancelled[n])

(* The engine's lock comes free again after every call, though the thread  *)
(* may be blocked on a full queue nobody reads any more, and though the    *)
(* generator that holds it may have been dropped.                          *)
LockComesFree == \A n \in Sentences : lock = n ~> lock # n

-----------------------------------------------------------------------------
(* vieneu_engine.py: "Yield PCM chunks as VieNeu produces them".  No chunk *)
(* is heard twice.  (The code does not keep to it.)                        *)
NoChunkTwice ==
    \A n \in Sentences : \A j, k \in 1 .. Len(heard[n]) :
        heard[n][j] = heard[n][k] => j = k
=============================================================================
