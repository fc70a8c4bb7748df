---------------------------- MODULE Conversation ----------------------------
(***************************************************************************)
(* One visitor after another talks to the robot: the chain of processors   *)
(* that _assemble_hybrid_bundle (app/pipecat_runtime/pipeline_factory.py)  *)
(* builds around the shared LLMContext, from the transcription to the text *)
(* that is spoken:                                                         *)
(*                                                                         *)
(*   STTGuard, WakeGate, user aggregator, ContextCompactor, TurnGrounding, *)
(*   SmallTalkBypass, LLM, StreamDedup, ResponsePolicy, TTS, assistant     *)
(*   aggregator                                                            *)
(*                                                                         *)
(* Every processor has a task and a queue of its own, so a frame takes one *)
(* step per processor that touches the context, and the messages of the    *)
(* client (conversation.reset, robot.wake, robot.sleep), handled by yet    *)
(* another task, come in between.  What follows the LLM keeps only state   *)
(* of its own, so a frame passes all of it in one step.                    *)
(*                                                                         *)
(* The aggregators, the LLM and the speech detection belong to pipecat;    *)
(* they are modelled from how this code uses them: a visitor who starts to *)
(* speak interrupts the reply and drops what is on its way to the LLM, and *)
(* the part of the reply that was spoken is added to the context.          *)
(***************************************************************************)
EXTENDS Integers, Sequences, SequencesExt

CONSTANTS
    Said,           (* what visitors say, as far as the processors can tell *)
    Canned,         (* the replies of the small-talk rules                  *)
    MaxTurns,       (* settings.conversation_max_turns                      *)
    SummaryTurns,   (* turns that fit in the summary's characters at least  *)
    MaxSentences,   (* settings.response_max_sentences                      *)
    MaxWords,       (* settings.response_max_words                          *)
    IdleTimeout,    (* settings.idle_timeout_seconds, in ticks              *)
    SttWindow,      (* duplicate_window_seconds of STTGuard, in ticks       *)
    DedupTtl,       (* ttl_seconds of StreamDeduplicator, in ticks          *)
    NumTurns,       (* bound: user turns in a behaviour                     *)
    MaxReply        (* bound: words the LLM writes in one reply             *)

(* The notes an utterance calls for: documents found, or a school topic    *)
(* without any; a sign of danger.  A greeting calls for neither.           *)
NotesFor == [greeting |-> {}, chat |-> {}, question |-> {"knowledge"},
             danger |-> {"safety"}, plea |-> {"knowledge", "safety"}]

ASSUME SettingsAssumption ==
    /\ Said \subseteq DOMAIN NotesFor
    /\ MaxTurns \in Nat \ {0}
    /\ SummaryTurns \in Nat
    /\ MaxSentences \in Nat
    /\ MaxWords \in Nat
    /\ IdleTimeout \in Nat
    /\ SttWindow \in Nat
    /\ DedupTtl \in Nat

ASSUME BoundsAssumption ==
    /\ NumTurns \in Nat
    /\ MaxReply \in Nat

VARIABLES
    settings,    (* wake_mode_enabled, and a document search() fails on     *)
    \* the shared context
    context,     (* the messages of the LLMContext                          *)
    turns,       (* user turns added to it so far                           *)
    resetAt,     (* "turns" when the conversation was last reset            *)
    \* STTGuard and WakeGate
    recent,      (* time for which an utterance counts as a duplicate       *)
    active,
    silence,     (* now - _last_turn, saturating just above IdleTimeout     *)
    \* the user aggregator
    talking,     (* a user turn is under way                                *)
    pending,     (* what it has gathered of it                              *)
    frame,       (* the processor the LLMContextFrame has come to           *)
    \* the LLM and what follows it
    reply,       (* the LLM is writing one; how much of it so far           *)
    policy,      (* the fields of ResponsePolicyProcessor                   *)
    spoken,      (* how much of the reply has been sent to the TTS          *)
    seen,        (* time for which StreamDeduplicator drops a reply         *)
    fate         (* what has become of the last turn                        *)

vars == <<settings, context, turns, resetAt, recent, active, silence, talking,
          pending, frame, reply, policy, spoken, seen, fate>>
contextVars == <<context, turns, resetAt>>
gateVars == <<recent, active, silence>>
replyVars == <<reply, policy, spoken>>
-----------------------------------------------------------------------------
Message(role, ts, about) == [role |-> role, turns |-> ts, about |-> about]

NoteRoles == {"knowledge", "safety"}          (* two kinds of system notes  *)
SystemRoles == NoteRoles \cup {"summary"}
Roles == {"user", "assistant"} \cup SystemRoles

Intro == Message("assistant", {0}, "reply")
Users(ms) == {i \in DOMAIN ms : ms[i].role = "user"}

(* The messages with one of these roles: SelectSeq, which the provers      *)
(* cannot expand, for the only tests that are made.                        *)
OfRoles(ms, R) ==
    LET upTo[i \in 0 .. Len(ms)] ==
            IF i = 0 THEN <<>>
            ELSE IF ms[i].role \in R THEN Append(upTo[i - 1], ms[i])
            ELSE upTo[i - 1]
    IN upTo[Len(ms)]

NoReply == [on |-> FALSE, sentences |-> 0, words |-> 0]

NothingSpoken == [sentences |-> 0, words |-> 0]

Init ==
    /\ settings \in [wakeMode : BOOLEAN, badDocument : BOOLEAN]
    /\ context \in {<<>>, <<Intro>>}
    /\ turns = 0
    /\ resetAt = 0
    /\ recent = [u \in Said |-> 0]
    /\ active = ~ settings.wakeMode
    /\ silence = 0
    /\ talking = FALSE
    /\ pending = <<>>
    /\ frame = "none"
    /\ reply = NoReply
    /\ policy = [sentences |-> 0, words |-> 0, truncating |-> FALSE]
    /\ spoken = NothingSpoken
    /\ seen = [r \in Canned |-> 0]
    /\ fate = "none"

-----------------------------------------------------------------------------
(* ContextManager.                                                         *)

(* The leading system messages, and what follows them.                     *)
Lead(ms) == SelectInSeq(ms, LAMBDA m : m.role \notin SystemRoles)
LeadOf(ms) == IF Lead(ms) = 0 THEN ms ELSE SubSeq(ms, 1, Lead(ms) - 1)
BodyOf(ms) == IF Lead(ms) = 0 THEN <<>> ELSE SubSeq(ms, Lead(ms), Len(ms))

TurnsOf(ms) == UNION {ms[i].turns : i \in DOMAIN ms}

(* The start of the last MaxTurns turns of a body.                         *)
CutLate(body) == CHOOSE i \in Users(body) :
                     Cardinality({j \in Users(body) : j > i}) = MaxTurns
Cut(body) == CHOOSE i \in Users(body) :
                 Cardinality({j \in Users(body) : j >= i}) = MaxTurns

Overlong(ms) == Cardinality(Users(BodyOf(ms))) > MaxTurns

(* The turns that a summary is made of: those of the last one and of what  *)
(* is cut off.                                                             *)
Prior(ms) == TurnsOf(OfRoles(LeadOf(ms), {"summary"}))
Dropped(ms) == TurnsOf(OfRoles(SubSeq(BodyOf(ms), 1, Cut(BodyOf(ms)) - 1),
                               Roles \ SystemRoles))

(* The summary keeps its last summary_max_chars characters, and so loses   *)
(* what the oldest turns said: how many depends on how much that was, but  *)
(* SummaryTurns of them fit however long they were.                        *)
Oldest(ms) ==
    LET ts == IF Overlong(ms) THEN Prior(ms) \cup Dropped(ms) ELSE {}
    IN {0} \cup {t \in ts : \E last \in ts : t + SummaryTurns <= last + 1}

(* As ContextManager.compact, but without what the last summary held.      *)
compactForgetting(ms, oldest) ==
    IF ~ Overlong(ms) THEN ms
    ELSE <<Message("summary", {t \in Dropped(ms) : t >= oldest}, "talk")>>
         \o SubSeq(BodyOf(ms), Cut(BodyOf(ms)), Len(BodyOf(ms)))

compact(ms, oldest) ==
    IF ~ Overlong(ms) THEN ms
    ELSE OfRoles(LeadOf(ms), NoteRoles)
         \o <<Message("summary", {t \in Prior(ms) \cup Dropped(ms) : t >= oldest}, "talk")>>
         \o SubSeq(BodyOf(ms), Cut(BodyOf(ms)), Len(BodyOf(ms)))

(* reset keeps the leading system messages, and no summary.                *)
resetWithSummary(ms) == LeadOf(ms)
reset(ms) ==
    LET last == SelectInSeq(ms, LAMBDA m : m.role \notin NoteRoles) IN
    IF last = 0 THEN ms ELSE SubSeq(ms, 1, last - 1)

(* bundle.reset_conversation.                                              *)
ResetConversation ==
    /\ context' = reset(context)
    /\ resetAt' = turns
    /\ UNCHANGED turns

-----------------------------------------------------------------------------
(* ResponsePolicyProcessor._reset.                                         *)
NotReset(p) == p
FreshPolicy(p) == [sentences |-> 0, words |-> 0, truncating |-> FALSE]

(* What was spoken of the reply to turn n is added to the context.         *)
CommitSpoken(n) ==
    IF spoken.words > 0 THEN Append(context, Message("assistant", {n}, "reply")) ELSE context

(* The visitor starts to speak.  Whether the frame that ends a reply still *)
(* gets through to the response policy is not certain.                     *)
SpeechStarts ==
    /\ ~ talking
    /\ turns < NumTurns
    /\ talking' = TRUE
    /\ frame' = "none"
    /\ reply' = NoReply
    /\ spoken' = NothingSpoken
    /\ context' = CommitSpoken(turns)
    /\ fate' = IF fate = "open" THEN "interrupted" ELSE fate
    /\ policy' \in {policy, FreshPolicy(policy)}
    /\ UNCHANGED <<settings, turns, resetAt, pending, seen>>
    /\ UNCHANGED gateVars

(* A final transcription passes STTGuard, which remembers it, and comes to *)
(* WakeGate.  The bound is one utterance for a turn.                       *)
Unheard(u) == recent[u] = 0

TimedOut == settings.wakeMode /\ active /\ silence > IdleTimeout

Heard(u) ==
    /\ talking
    /\ pending = <<>>
    /\ Unheard(u)
    /\ recent' = [recent EXCEPT ![u] = SttWindow]
    /\ UNCHANGED <<settings, talking, frame, reply, policy, spoken, seen, fate>>

Admitted(u) ==
    /\ Heard(u)
    /\ active /\ ~ TimedOut
    /\ silence' = 0
    /\ pending' = <<u>>
    /\ UNCHANGED <<active, context, turns, resetAt>>

(* The gate discovers that its time is over.                               *)
FindsTimeout(u) ==
    /\ Heard(u)
    /\ TimedOut
    /\ active' = FALSE
    /\ ResetConversation
    /\ UNCHANGED <<silence, pending>>

DroppedWhenIdle(u) ==
    /\ Heard(u)
    /\ ~ active
    /\ UNCHANGED <<active, silence, pending, context, turns, resetAt>>

(* The turn ends: its text is added to the context and the frame goes out. *)
TurnEnds ==
    /\ talking
    /\ talking' = FALSE
    /\ pending' = <<>>
    /\ IF pending = <<>>
       THEN UNCHANGED <<context, turns, frame, fate>>
       ELSE /\ turns' = turns + 1
            /\ context' = Append(context, Message("user", {turns + 1}, Head(pending)))
            /\ frame' = "compactor"
            /\ fate' = "open"
    /\ UNCHANGED <<settings, resetAt, reply, policy, spoken, seen>>
    /\ UNCHANGED gateVars

-----------------------------------------------------------------------------
(* ContextCompactor keeps the context unless compacting makes it shorter.  *)
Compacts ==
    /\ frame = "compactor"
    /\ frame' = "grounding"
    /\ \E oldest \in Oldest(context) :
           LET shorter == compact(context, oldest)
           IN context' = IF Len(shorter) < Len(context) THEN shorter ELSE context
    /\ UNCHANGED <<settings, turns, resetAt, talking, pending, reply, policy, spoken,
                   seen, fate>>
    /\ UNCHANGED gateVars

(* The last thing a visitor has said, if the context still holds any.      *)
LastSaid(ms) == LET last == SelectLastInSeq(ms, LAMBDA m : m.role = "user") IN
                IF last = 0 THEN "nothing" ELSE ms[last].about

NotesAbout(u) ==
    (IF "knowledge" \in NotesFor[u] THEN <<Message("knowledge", {}, u)>> ELSE <<>>)
    \o (IF "safety" \in NotesFor[u] THEN <<Message("safety", {}, u)>> ELSE <<>>)

WithoutNotes(ms) == OfRoles(ms, Roles \ NoteRoles)

WithNotesOnly(ms) == ms \o NotesAbout(LastSaid(ms))
WithNotes(ms) == WithoutNotes(ms) \o NotesAbout(LastSaid(ms))

(* TurnGroundingProcessor.  A document that search cannot read makes every *)
(* search raise: the error is caught and the context stays as it is.       *)
Grounds ==
    /\ frame = "grounding"
    /\ frame' = "bypass"
    /\ context' = IF LastSaid(context) = "nothing" \/ settings.badDocument
                  THEN context ELSE WithNotes(context)
    /\ UNCHANGED <<settings, turns, resetAt, talking, pending, reply, policy, spoken,
                   seen, fate>>
    /\ UNCHANGED gateVars

(* SmallTalkBypassProcessor lets everything pass but a greeting.           *)
GoesToLLM ==
    /\ frame = "bypass"
    /\ LastSaid(context) # "greeting"
    /\ frame' = "llm"
    /\ UNCHANGED <<settings, talking, pending, seen, fate>>
    /\ UNCHANGED contextVars
    /\ UNCHANGED gateVars
    /\ UNCHANGED replyVars

(* A greeting is answered by one frame of text, between the two frames     *)
(* that begin and end a reply; the deduplicator may swallow it.  A canned  *)
(* reply is within the limits of the response policy.                      *)
Bypasses(r) ==
    /\ frame = "bypass"
    /\ LastSaid(context) = "greeting"
    /\ frame' = "none"
    /\ policy' = FreshPolicy(policy)
    /\ IF seen[r] > 0
       THEN /\ fate' = "swallowed"
            /\ UNCHANGED <<seen, context>>
       ELSE /\ fate' = "answered"
            /\ seen' = [seen EXCEPT ![r] = DedupTtl]
            /\ context' = Append(context, Message("assistant", {turns}, "reply"))
    /\ UNCHANGED <<settings, turns, resetAt, talking, pending, reply, spoken>>
    /\ UNCHANGED gateVars

-----------------------------------------------------------------------------
(* The LLM takes the context and begins a reply.  The frame that announces *)
(* it resets the response policy.                                          *)
LLMStarts ==
    /\ frame = "llm"
    /\ frame' = "none"
    /\ reply' = [NoReply EXCEPT !.on = TRUE]
    /\ spoken' = NothingSpoken
    /\ policy' = FreshPolicy(policy)
    /\ UNCHANGED <<settings, talking, pending, seen, fate>>
    /\ UNCHANGED contextVars
    /\ UNCHANGED gateVars

(* What a frame of the reply brings: a word or two, and the mark that ends *)
(* a sentence or none yet.  The frames are the LLM's deltas, too short for *)
(* the deduplicator.                                                       *)
Deltas == [words : 1 .. 2, marks : 0 .. 1]

(* The LLM writes on.  The policy lets a frame pass while all that it has  *)
(* let pass stays within both limits, and swallows the rest of the reply.  *)
LLMWrites(d) ==
    LET sentences == policy.sentences + d.marks
        words     == policy.words + d.words
    IN
    /\ reply.on
    /\ reply.words + d.words <= MaxReply
    /\ reply' = [on |-> TRUE, sentences |-> reply.sentences + d.marks,
                 words |-> reply.words + d.words]
    /\ IF policy.truncating THEN UNCHANGED <<policy, spoken>>
       ELSE IF sentences > MaxSentences \/ words > MaxWords
       THEN /\ policy' = [policy EXCEPT !.truncating = TRUE]
            /\ UNCHANGED spoken
       ELSE /\ policy' = [sentences |-> sentences, words |-> words, truncating |-> FALSE]
            /\ spoken' = [sentences |-> spoken.sentences + d.marks,
                          words |-> spoken.words + d.words]
    /\ UNCHANGED <<settings, talking, pending, frame, seen, fate>>
    /\ UNCHANGED contextVars
    /\ UNCHANGED gateVars

(* The reply is complete, and what was spoken of it is remembered.         *)
LLMEnds ==
    /\ reply.on
    /\ reply' = NoReply
    /\ spoken' = NothingSpoken
    /\ policy' = FreshPolicy(policy)
    /\ context' = CommitSpoken(turns)
    /\ fate' = "answered"
    /\ UNCHANGED <<settings, turns, resetAt, talking, pending, frame, seen>>
    /\ UNCHANGED gateVars

(* The request fails or times out before the first word.                   *)
LLMFails ==
    /\ frame = "llm"
    /\ frame' = "none"
    /\ fate' = "failed"
    /\ UNCHANGED <<settings, talking, pending, seen>>
    /\ UNCHANGED contextVars
    /\ UNCHANGED gateVars
    /\ UNCHANGED replyVars

-----------------------------------------------------------------------------
(* conversation.reset from the client.                                     *)
ClientResets ==
    /\ ResetConversation
    /\ UNCHANGED <<settings, talking, pending, frame, seen, fate>>
    /\ UNCHANGED gateVars
    /\ UNCHANGED replyVars

(* robot.wake: WakeGate.wake.                                              *)
Wakes ==
    /\ active' = TRUE
    /\ silence' = 0
    /\ UNCHANGED <<settings, recent, talking, pending, frame, seen, fate>>
    /\ UNCHANGED contextVars
    /\ UNCHANGED replyVars

(* robot.sleep: WakeGate.sleep.                                            *)
Sleeps ==
    /\ settings.wakeMode
    /\ active' = FALSE
    /\ ResetConversation
    /\ UNCHANGED <<settings, recent, silence, talking, pending, frame, seen, fate>>
    /\ UNCHANGED replyVars

DownBelowZero(n) == n - 1
Down(n) == IF n = 0 THEN 0 ELSE n - 1

Tick ==
    /\ silence' = IF silence <= IdleTimeout THEN silence + 1 ELSE silence
    /\ recent' = [u \in Said |-> Down(recent[u])]
    /\ seen' = [r \in Canned |-> Down(seen[r])]
    /\ UNCHANGED <<settings, active, talking, pending, frame, fate>>
    /\ UNCHANGED contextVars
    /\ UNCHANGED replyVars

-----------------------------------------------------------------------------
Visitor ==
    \/ SpeechStarts
    \/ \E u \in Said : Admitted(u) \/ FindsTimeout(u) \/ DroppedWhenIdle(u)
    \/ TurnEnds

ContextFrame ==
    \/ Compacts
    \/ Grounds
    \/ GoesToLLM
    \/ \E r \in Canned : Bypasses(r)

LLM == LLMStarts \/ (\E d \in Deltas : LLMWrites(d)) \/ LLMEnds \/ LLMFails

Client == ClientResets \/ Wakes \/ Sleeps

Next == Visitor \/ ContextFrame \/ LLM \/ Client \/ Tick

Spec == Init /\ [][Next]_vars

-----------------------------------------------------------------------------
Messages == [role : Roles,
             turns : SUBSET (0 .. NumTurns),
             about : Said \cup {"reply", "talk"}]

(* Every variable of the chain of processors keeps its type.               *)
TypeOK ==
    /\ settings \in [wakeMode : BOOLEAN, badDocument : BOOLEAN]
    /\ context \in Seq(Messages)
    /\ turns \in 0 .. NumTurns
    /\ resetAt \in 0 .. turns
    /\ recent \in [Said -> 0 .. SttWindow]
    /\ active \in BOOLEAN
    /\ silence \in 0 .. IdleTimeout + 1
    /\ talking \in BOOLEAN
    /\ pending \in {<<>>} \cup {<<u>> : u \in Said}
    /\ frame \in {"none", "compactor", "grounding", "bypass", "llm"}
    /\ reply \in [on : BOOLEAN, sentences : 0 .. MaxReply, words : 0 .. MaxReply]
    /\ policy \in [sentences : 0 .. MaxSentences, words : 0 .. MaxWords,
                   truncating : BOOLEAN]
    /\ spoken \in [sentences : 0 .. MaxSentences, words : 0 .. MaxWords]
    /\ seen \in [Canned -> 0 .. DedupTtl]
    /\ fate \in {"none", "open", "interrupted", "swallowed", "answered", "failed"}

(* What the LLM is about to be asked with carries exactly the notes that   *)
(* the visitor's last words call for: none of an earlier turn, each once,  *)
(* and none when a reset has taken the words away (TurnGroundingProcessor; *)
(* of a session with a document that cannot be read it says nothing).      *)
NotesFitLastWords ==
    frame = "llm" /\ ~ settings.badDocument =>
        LET notes == OfRoles(context, NoteRoles)
            last  == LastSaid(context)
        IN notes = IF last = "nothing" THEN <<>> ELSE NotesAbout(last)

(* The request is bounded: at most MaxTurns user turns, behind at most one *)
(* summary.  One turn more only when compacting for the first time would   *)
(* drop a single message, a turn that got no reply, and so gain nothing    *)
(* (ContextCompactor sets the messages only if they have become fewer).    *)
RequestBounded ==
    frame = "llm" =>
        /\ \A i \in DOMAIN context : context[i].role = "summary" => i = 1
        /\ \/ Cardinality(Users(context)) <= MaxTurns
           \/ /\ Cardinality(Users(context)) = MaxTurns + 1
              /\ \A i \in {1, 2} : context[i].role = "user"

(* The last turns since a reset are in the request, word for word or in    *)
(* the summary, however often the context was compacted: MaxTurns of them, *)
(* and as many more as the summary's characters hold at least.             *)
AllTurnsRemembered ==
    frame = "llm" =>
        {n \in (resetAt + 1) .. turns : n > turns - (MaxTurns + SummaryTurns)}
            \subseteq TurnsOf(OfRoles(context, {"user", "summary"}))

(* No turn that was in the context when it was reset, by the client or by  *)
(* the gate, comes back into it, neither from a frame on its way nor in a  *)
(* summary, except that the one reply under way may be added, without the  *)
(* words it answers (reset_conversation).  Words that the user aggregator  *)
(* was still gathering are a turn after the reset.                         *)
ResetForgets ==
    /\ \A i \in DOMAIN context : \A n \in context[i].turns :
           n > resetAt \/ (n = resetAt /\ context[i].role # "user")
    /\ \A i, j \in DOMAIN context :
           resetAt \in context[i].turns /\ resetAt \in context[j].turns => i = j

(* No more sentences are completed, and no more words spoken, of a reply   *)
(* than the limits allow, and a word is swallowed only of a reply that is  *)
(* longer than that: also when the reply before was interrupted while it   *)
(* was being cut short (ResponsePolicyProcessor).                          *)
ReplyIsCapped ==
    reply.on =>
        /\ spoken.sentences <= MaxSentences /\ spoken.words <= MaxWords
        /\ spoken.words < reply.words =>
               reply.sentences > MaxSentences \/ reply.words > MaxWords

-----------------------------------------------------------------------------
(* The following are what the code's comments and documents say and the    *)
(* code does not keep.                                                     *)

(* turn_grounding.py: risk keywords inject a guideline for the response.   *)
(* No request in which the visitor's last words are a sign of danger is    *)
(* without the safety note.                                                *)
DangerIsNoted ==
    frame = "llm" /\ LastSaid(context) = "danger" =>
        \E i \in DOMAIN context : context[i].role = "safety"

(* stream_deduplicator.py: repeats across turns must pass.  No reply of a  *)
(* turn is swallowed because an earlier turn was given the same one.       *)
RepeatsPass == fate # "swallowed"
=============================================================================
