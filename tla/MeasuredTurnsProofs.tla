-------------------------- MODULE MeasuredTurnsProofs --------------------------
(***************************************************************************)
(* Theorems about what TurnMeasurement shows and measures of a             *)
(* conversation, for every number of sessions and frames and every limit:  *)
(* the transcript of the page, the agreement of page and observer, and     *)
(* the records of turns.                                                   *)
(***************************************************************************)
EXTENDS TurnMeasurementProofs, FiniteSetTheorems

(* The transcript.                                                         *)
Nodes == [role : {"user", "bot"}, text : {Blank, 1}, partial : BOOLEAN]

ShownInv == transcript \in Seq(Nodes) /\ PartialIsShown

(* What a conversation amounts to, for whoever has heard the same events:  *)
(* whether the robot speaks and a barge-in is under way, the turns that    *)
(* have begun, how the last one went on, and how many of the others the    *)
(* robot answered too early.                                               *)
Speech == [bot : BOOLEAN, barge : BOOLEAN, turns : Nat,
           order : {"none", "begun", "heard", "early"}, early : Nat]

After(s, type) ==
    CASE type = "userStarted" /\ s.bot -> [s EXCEPT !.barge = TRUE]
      [] type = "userStarted" /\ ~ s.bot ->
            [s EXCEPT !.turns = @ + 1, !.order = "begun",
                      !.early = @ + IF s.order = "early" THEN 1 ELSE 0]
      [] type = "userStopped" ->
            [s EXCEPT !.order = IF @ = "begun" THEN "heard" ELSE @]
      [] type = "botStarted" ->
            [s EXCEPT !.bot = TRUE, !.order = IF @ = "begun" THEN "early" ELSE @]
      [] type = "botStopped" -> [s EXCEPT !.bot = FALSE, !.barge = FALSE]
      [] OTHER -> s

(* The messages of q lead from p to w.                                     *)
Leads(f, q, p, w) ==
    /\ f[0] = p /\ f[Len(q)] = w
    /\ \A i \in 0 .. Len(q) - 1 : f[i + 1] = After(f[i], q[i + 1].type)

(* The hops of q lead from a to w: frames come in the order of their ids,  *)
(* and after each the hop that the one before it, if it is of the same     *)
(* session, still had to make.                                             *)
HopsLead(f, t, q, a, top, w, end, base) ==
    /\ f[0] = a /\ f[Len(q)] = w /\ t[0] = top /\ t[Len(q)] = end
    /\ \A i \in 0 .. Len(q) - 1 :
          \/ /\ q[i + 1].id = t[i] + 1 /\ t[i + 1] = t[i] + 1
             /\ f[i + 1] = After(f[i], q[i + 1].type)
          \/ /\ q[i + 1].id = t[i] - 1 /\ q[i + 1].id > base /\ t[i + 1] = t[i]
             /\ f[i + 1] = f[i]

(* The observer remembers the last two frames of this session, which are   *)
(* those that may have a hop to make.                                      *)
RemembersLast(base, top) ==
    LET seen == observer.seen
        n == Len(seen) IN
    /\ base <= top
    /\ \A i \in 1 .. n : seen[i] <= top
    /\ top > base => n >= 1 /\ seen[n] = top
    /\ top > base + 1 => n >= 2 /\ seen[n - 1] = top - 1

LastPushed(base) ==
    IF last = NoFrame THEN base = pushed ELSE last.id = pushed /\ base < pushed

(* Timelines in memory, and the one the observer waits to record.          *)
Waits == job.records # <<>> /\ job.records[1] = "turn_timeline" /\ holder # "observer"
Recorded == Timelines + IF Waits THEN 1 ELSE 0

(* What the observer holds of the conversation.                            *)
Observes(a) ==
    /\ a.bot <=> observer.botSpeaking
    /\ a.barge <=> (observer.bargeStartedAt # None /\ job.then # "forgetsBargeIn")

Begun(a) ==
    /\ a.turns = 0 <=> (observer.turn["vad_speech_start"] = None /\ job.then # "beginsTurn")
    /\ a.turns = 0 <=> a.order = "none"

Ordered(a) ==
    LET end == observer.turn["vad_speech_end"]
        sent == observer.turn["server_audio_sent"] IN
    /\ a.order = "begun" => end = None /\ sent = None
    /\ a.order = "heard" => end # None /\ (sent = None \/ sent >= end)

Counted(a) ==
    /\ a.turns = 0 => Recorded = 0
    /\ a.turns > 0 => a.turns - 1 - a.early <= Recorded /\ Recorded <= a.turns - 1

Abstracts(a) == Observes(a) /\ Begun(a) /\ Ordered(a) /\ Counted(a)

(* The frames on their way will lead the observer, and the messages on     *)
(* their way the page, to what the conversation amounts to.                *)
HostHears(w) ==
    \E a \in Speech, base \in Nat, top \in Nat :
        /\ \E f, t : HopsLead(f, t, hops, a, top, w, pushed, base)
        /\ RemembersLast(base, top)
        /\ LastPushed(base)
        /\ Abstracts(a)

PageHears(w) ==
    \E p \in Speech :
        /\ p.bot <=> page.botSpeaking
        /\ p.barge <=> page.bargeInStarted
        /\ \E f : Leads(f, down, p, w)

(* An observer that a failed write has ended hears nothing any more.       *)
HostFollows(w) == job = Failed \/ HostHears(w)

HappensSo(w) ==
    w.bot = botSpeaking /\ w.turns = turns /\ w.order = order /\ w.early = early

HeardByBoth ==
    InSession => \E w \in Speech : HappensSo(w) /\ HostFollows(w) /\ (carried \/ PageHears(w))

(* What is recorded, by whom; and between sessions nothing is on its way.  *)
RecordsInv ==
    /\ \A i \in 2 .. Len(job.records) : job.records[i] # "turn_timeline"
    /\ job.then \in {"nothing", "failed"} <=> job.records = <<>>
    /\ clientJobs \in Seq({"client_audible_start", "client_barge_in_audible_stop"})
    /\ before \in Nat /\ before <= Len(memory)

Apart ==
    ~ InSession =>
        /\ observer = NewObserver /\ hops = <<>> /\ job = Idle /\ clientJobs = <<>>
        /\ up = <<>> /\ down = <<>> /\ last = NoFrame /\ ~ botSpeaking
        /\ conn = "off" => ~ page.botSpeaking

EndsInv == RecordsInv /\ Apart /\ HeardByBoth

-----------------------------------------------------------------------------
(* The transcript and its partial message.                                 *)

(* What is said finally is appended to nodes that are final.               *)
LEMMA FinalShown ==
    ASSUME NEW others \in Seq(Nodes), \A i \in DOMAIN others : ~ others[i].partial,
           NEW role \in {"user", "bot"}, NEW text \in {Blank, 1},
           transcript' = Append(others, Node(role, text, FALSE)),
           page'.partialUserMessage = Blank
    PROVE  ShownInv'
<1> DEFINE node == Node(role, text, FALSE)
<1>1. node \in Nodes /\ ~ node.partial /\ transcript' = Append(others, node)
    BY DEF Node, Nodes
<1> HIDE DEF node
<1>2. /\ transcript' \in Seq(Nodes) /\ Len(transcript') = Len(others) + 1
      /\ \A i \in 1 .. Len(others) : transcript'[i] = others[i]
      /\ transcript'[Len(others) + 1] = node
    <2>1. \A e \in Nodes : /\ Append(others, e) \in Seq(Nodes)
                           /\ Len(Append(others, e)) = Len(others) + 1
                           /\ \A i \in 1 .. Len(others) : Append(others, e)[i] = others[i]
                           /\ Append(others, e)[Len(others) + 1] = e
        BY AppendProperties
    <2> DEFINE all == Append(others, node)
    <2>2. /\ all \in Seq(Nodes) /\ Len(all) = Len(others) + 1
          /\ \A i \in 1 .. Len(others) : all[i] = others[i]
          /\ all[Len(others) + 1] = node
        BY <1>1, <2>1, Zenon
    <2>3. transcript' = all
        BY <1>1
    <2> HIDE DEF all
    <2> QED BY <2>2, <2>3
<1>3. DOMAIN others = 1 .. Len(others) /\ DOMAIN transcript' = 1 .. Len(others) + 1
      /\ Len(others) \in Nat
    BY <1>2
<1>4. ASSUME NEW i \in DOMAIN transcript' PROVE ~ transcript'[i].partial
    <2>1. CASE i = Len(others) + 1
        BY <1>1, <1>2, <2>1
    <2>2. CASE i # Len(others) + 1
        BY <1>2, <1>3, <2>2
    <2> QED BY <2>1, <2>2
<1>5. Partials' = {}
    BY <1>4 DEF Partials, IsPartial
<1> QED BY <1>2, <1>5 DEF ShownInv, PartialIsShown

(* The node that is partial is taken out.                                  *)
LEMMA RemovesPartial ==
    ASSUME NEW i \in DOMAIN transcript, transcript \in Seq(Nodes), Partials = {i}
    PROVE  LET rest == RemoveFirstMatch(transcript, IsPartial) IN
           rest \in Seq(Nodes) /\ \A j \in DOMAIN rest : ~ rest[j].partial
<1> DEFINE n == Len(transcript)
           I == {j \in 1 .. n : IsPartial(transcript[j])}
<1>1. n \in Nat /\ DOMAIN transcript = 1 .. n /\ i \in 1 .. n
    OBVIOUS
<1>2. I = {i}
    BY <1>1 DEF Partials
<1>3. IsPartial(transcript[i]) /\ \A j \in 1 .. n : j # i => ~ transcript[j].partial
    BY <1>1, <1>2 DEF IsPartial
<1>4. SelectInSeq(transcript, IsPartial) = i
    <2>1. SelectInSeq(transcript, IsPartial) = IF I # {} THEN Min(I) ELSE 0
        BY DEF SelectInSeq
    <2> HIDE DEF I
    <2>2. Min(I) \in I
        <3>1. i \in I /\ \A y \in I : i =< y
            BY <1>1, <1>2
        <3> QED BY <3>1, Zenon DEF Min
    <2> QED BY <1>2, <2>1, <2>2
<1> DEFINE a == SubSeq(transcript, 1, i - 1)
           b == SubSeq(transcript, i + 1, n)
           rest == RemoveFirstMatch(transcript, IsPartial)
<1>5. rest = a \o b
    BY <1>1, <1>3, <1>4 DEF RemoveFirstMatch, RemoveAt
<1>6. /\ a \in Seq(Nodes) /\ Len(a) = i - 1
      /\ \A j \in 1 .. i - 1 : a[j] = transcript[j]
    <2>1. \A j \in 1 .. i - 1 : transcript[j] \in Nodes
        BY <1>1
    <2> QED BY <1>1, <2>1, SubSeqProperties
<1>7. /\ b \in Seq(Nodes) /\ Len(b) = n - i
      /\ \A j \in 1 .. n - i : b[j] = transcript[i + j]
    <2>1. \A j \in i + 1 .. n : transcript[j] \in Nodes
        BY <1>1
    <2>2. /\ b \in Seq(Nodes)
          /\ Len(b) = IF i + 1 <= n THEN n - (i + 1) + 1 ELSE 0
          /\ \A j \in 1 .. n - (i + 1) + 1 : b[j] = transcript[i + 1 + j - 1]
        BY <1>1, <2>1, SubSeqProperties
    <2> HIDE DEF b, n
    <2>3. Len(b) = n - i
        BY <1>1, <2>2
    <2>4. ASSUME NEW j \in 1 .. n - i PROVE b[j] = transcript[i + j]
        <3>1. j \in 1 .. n - (i + 1) + 1 /\ i + 1 + j - 1 = i + j
            BY <1>1
        <3> QED BY <2>2, <3>1
    <2> QED BY <2>2, <2>3, <2>4
<1> HIDE DEF a, b
<1>8. /\ a \o b \in Seq(Nodes) /\ Len(a \o b) = Len(a) + Len(b)
      /\ \A j \in 1 .. Len(a) + Len(b) :
            (a \o b)[j] = IF j <= Len(a) THEN a[j] ELSE b[j - Len(a)]
    BY <1>6, <1>7, ConcatProperties
<1> HIDE DEF rest, n
<1>9. rest \in Seq(Nodes) /\ DOMAIN rest = 1 .. n - 1
    BY <1>1, <1>5, <1>6, <1>7, <1>8
<1>10. ASSUME NEW j \in DOMAIN rest PROVE ~ rest[j].partial
    <2>1. CASE j <= i - 1
        <3>1. rest[j] = transcript[j] /\ j \in 1 .. n /\ j # i
            BY <1>1, <1>5, <1>6, <1>7, <1>8, <1>9, <2>1
        <3> QED BY <1>3, <3>1
    <2>2. CASE ~ (j <= i - 1)
        <3>1. j - (i - 1) \in 1 .. n - i /\ j \in 1 .. n - 1 /\ ~ (j <= Len(a))
            BY <1>1, <1>6, <1>9, <2>2
        <3>2. rest[j] = b[j - (i - 1)]
            BY <1>5, <1>6, <1>7, <1>8, <3>1
        <3>3. b[j - (i - 1)] = transcript[i + (j - (i - 1))]
            BY <1>7, <3>1
        <3>4. i + (j - (i - 1)) = j + 1
            BY <1>1, <3>1
        <3>5. rest[j] = transcript[j + 1] /\ j + 1 \in 1 .. n /\ j + 1 # i
            BY <1>1, <2>2, <3>1, <3>2, <3>3, <3>4
        <3> QED BY <1>3, <3>5
    <2> QED BY <2>1, <2>2
<1> QED BY <1>9, <1>10 DEF rest

(* appendTranscript of a final text.                                       *)
LEMMA AppendsFinalShown ==
    ASSUME ShownInv, PageTypes, NEW role \in {"user", "bot"}, NEW text \in {Blank, 1},
           AppendsFinal(role, text)
    PROVE  ShownInv'
<1> DEFINE held == page.partialUserMessage
<1>1. /\ transcript \in Seq(Nodes) /\ page \in Pages /\ held \in {Blank, 1}
      /\ DOMAIN transcript = 1 .. Len(transcript)
    BY DEF ShownInv, PageTypes, Pages
<1>2. CASE role = "user" /\ held # Blank
    <2> DEFINE rest == RemoveFirstMatch(transcript, IsPartial)
    <2>1. page'.partialUserMessage = Blank
        BY <1>1, <1>2 DEF AppendsFinal, Pages
    <2>2. transcript' = Append(rest, Node(role, text, FALSE))
        BY <1>2 DEF AppendsFinal
    <2>3. PICK i \in DOMAIN transcript : Partials = {i}
        BY <1>2 DEF ShownInv, PartialIsShown
    <2>4. rest \in Seq(Nodes) /\ \A j \in DOMAIN rest : ~ rest[j].partial
        BY <1>1, <2>3, RemovesPartial
    <2> HIDE DEF rest
    <2> QED BY <2>1, <2>2, <2>4, FinalShown
<1>3. CASE held = Blank
    <2>1. page' = page /\ transcript' = Append(transcript, Node(role, text, FALSE))
        BY <1>3 DEF AppendsFinal
    <2>2. Partials = {}
        BY <1>3 DEF ShownInv, PartialIsShown
    <2>3. \A i \in DOMAIN transcript : ~ transcript[i].partial
        BY <2>2 DEF Partials, IsPartial
    <2> QED BY <1>1, <1>3, <2>1, <2>3, FinalShown
<1>4. CASE role # "user" /\ held # Blank
    <2> DEFINE node == Node(role, text, FALSE)
               n == Len(transcript)
    <2>1. page' = page /\ transcript' = Append(transcript, node)
        BY <1>4 DEF AppendsFinal
    <2>2. node \in Nodes /\ ~ node.partial
        BY DEF Node, Nodes
    <2> HIDE DEF node
    <2>3. /\ transcript' \in Seq(Nodes) /\ Len(transcript') = n + 1
          /\ \A i \in 1 .. n : transcript'[i] = transcript[i]
          /\ transcript'[n + 1] = node
        BY <1>1, <2>1, <2>2, AppendProperties
    <2>4. n \in Nat /\ DOMAIN transcript = 1 .. n /\ DOMAIN transcript' = 1 .. n + 1
        BY <1>1, <2>3
    <2> HIDE DEF n
    <2>5. PICK i \in DOMAIN transcript : Partials = {i} /\ transcript[i] = Node("user", held, TRUE)
        BY <1>4 DEF ShownInv, PartialIsShown
    <2>6. \A j \in DOMAIN transcript' : IsPartial(transcript'[j]) <=> j = i
        <3> TAKE j \in DOMAIN transcript'
        <3>1. CASE j \in 1 .. n
            <4>1. transcript'[j] = transcript[j] /\ (j \in Partials <=> j = i)
                BY <2>3, <2>5, <3>1
            <4> QED BY <2>4, <3>1, <4>1 DEF Partials
        <3>2. CASE j = n + 1
            BY <2>2, <2>3, <2>4, <2>5, <3>2 DEF IsPartial
        <3> QED BY <2>4, <3>1, <3>2
    <2>7. i \in DOMAIN transcript' /\ transcript'[i] = transcript[i]
        BY <2>3, <2>4
    <2>8. Partials' = {i}
        BY <2>6, <2>7 DEF Partials
    <2> QED BY <1>4, <2>1, <2>3, <2>5, <2>7, <2>8 DEF ShownInv, PartialIsShown
<1> QED BY <1>2, <1>3, <1>4

(* appendTranscript of a partial text.                                     *)
LEMMA AppendsPartialShown ==
    ASSUME ShownInv, PageTypes, NEW text \in {Blank, 1}, text # Blank, AppendsPartial(text)
    PROVE  ShownInv'
<1> DEFINE held == page.partialUserMessage
           node == Node("user", text, TRUE)
           n == Len(transcript)
<1>1. /\ transcript \in Seq(Nodes) /\ page \in Pages /\ held \in {Blank, 1}
      /\ DOMAIN transcript = 1 .. n /\ n \in Nat
    BY DEF ShownInv, PageTypes, Pages
<1>2. node \in Nodes /\ node.partial
    BY DEF Node, Nodes
<1>3. page'.partialUserMessage = text
    BY <1>1 DEF AppendsPartial, Pages
<1>4. CASE held = Blank
    <2>1. transcript' = Append(transcript, node)
        BY <1>4 DEF AppendsPartial
    <2> HIDE DEF node
    <2>2. /\ transcript' \in Seq(Nodes) /\ Len(transcript') = n + 1
          /\ \A i \in 1 .. n : transcript'[i] = transcript[i]
          /\ transcript'[n + 1] = node
        BY <1>1, <1>2, <2>1, AppendProperties
    <2>3. DOMAIN transcript' = 1 .. n + 1
        BY <2>2
    <2> HIDE DEF n
    <2>4. Partials = {}
        BY <1>4 DEF ShownInv, PartialIsShown
    <2>5. \A j \in DOMAIN transcript' : IsPartial(transcript'[j]) <=> j = n + 1
        BY <1>1, <1>2, <2>2, <2>3, <2>4 DEF IsPartial, Partials
    <2>6. n + 1 \in DOMAIN transcript'
        BY <1>1, <2>3
    <2>7. Partials' = {n + 1}
        BY <2>5, <2>6 DEF Partials
    <2> QED BY <1>3, <2>2, <2>6, <2>7 DEF ShownInv, PartialIsShown, node
<1>5. CASE held # Blank
    <2>1. transcript' = [i \in DOMAIN transcript |->
                           IF i \in Partials THEN node ELSE transcript[i]]
        BY <1>5 DEF AppendsPartial
    <2> HIDE DEF node
    <2>2. PICK i \in DOMAIN transcript : Partials = {i}
        BY <1>5 DEF ShownInv, PartialIsShown
    <2>3. transcript' \in Seq(Nodes) /\ DOMAIN transcript' = DOMAIN transcript
        BY <1>1, <1>2, <2>1
    <2>4. \A j \in DOMAIN transcript' : IsPartial(transcript'[j]) <=> j = i
        BY <1>2, <2>1, <2>2 DEF IsPartial, Partials
    <2>5. transcript'[i] = node
        BY <2>1, <2>2
    <2>6. Partials' = {i}
        BY <2>2, <2>3, <2>4 DEF Partials
    <2> QED BY <1>3, <2>2, <2>3, <2>5, <2>6 DEF ShownInv, PartialIsShown, node
<1> QED BY <1>4, <1>5

(* What does not touch the transcript keeps what it shows.                 *)
LEMMA TranscriptStays ==
    ASSUME ShownInv, UNCHANGED transcript, page'.partialUserMessage = page.partialUserMessage
    PROVE  ShownInv'
BY DEF ShownInv, PartialIsShown, Partials

(* The partial message the page holds is the one that is shown.            *)
LEMMA ShownStep ==
    ASSUME MInv, ShownInv, [Next]_vars
    PROVE  ShownInv'
<1>1. PageTypes /\ page \in Pages
    BY DEF MInv, PageTypes
<1>2. ASSUME NEW role \in {"user", "bot"}, NEW text \in {Blank, 1}, NEW partial \in BOOLEAN,
             AppendTranscript(role, text, partial)
      PROVE  ShownInv'
    <2>1. CASE UNCHANGED <<page, transcript>>
        BY <2>1, TranscriptStays
    <2>2. CASE text # Blank /\ role = "user" /\ partial /\ AppendsPartial(text)
        BY <1>1, <2>2, AppendsPartialShown
    <2>3. CASE AppendsFinal(role, text)
        BY <1>1, <2>3, AppendsFinalShown
    <2> QED BY <1>2, <2>1, <2>2, <2>3 DEF AppendTranscript
<1>3. CASE OnUserTranscript
    <2>1. Head(down) \in Down /\ Head(down).type = "transcript"
        BY <1>1, <1>3, ReceivesType DEF OnUserTranscript
    <2>2. \A m \in Down : m.type = "transcript" => m.text \in {Blank, 1} /\ m.final \in BOOLEAN
        BY DEF Down
    <2> DEFINE m == Head(down)
    <2>3. m.text \in {Blank, 1} /\ (~ m.final) \in BOOLEAN
        BY <2>1, <2>2
    <2>4. AppendTranscript("user", m.text, ~ m.final)
        BY <1>3 DEF OnUserTranscript
    <2> HIDE DEF m
    <2> QED BY <1>2, <2>3, <2>4
<1>4. CASE OnBotOutput
    <2>1. Head(down) \in Down /\ Head(down).type = "output"
        BY <1>1, <1>4, ReceivesType DEF OnBotOutput
    <2>2. \A m \in Down : m.type = "output" => m.text \in {Blank, 1}
        BY DEF Down
    <2> DEFINE m == Head(down)
    <2>3. m.text \in {Blank, 1}
        BY <2>1, <2>2
    <2>4. AppendTranscript("bot", m.text, FALSE)
        BY <1>4 DEF OnBotOutput
    <2> HIDE DEF m
    <2> QED BY <1>2, <2>3, <2>4
<1>5. CASE \/ OnBotReady \/ OnUserStartedSpeaking \/ OnUserStoppedSpeaking
           \/ OnBotStartedSpeaking \/ OnBotStoppedSpeaking \/ Playing
    <2>1. UNCHANGED transcript /\ page'.partialUserMessage = page.partialUserMessage
        BY <1>1, <1>5 DEF OnBotReady, OnUserStartedSpeaking, OnUserStoppedSpeaking,
           OnBotStartedSpeaking, OnBotStoppedSpeaking, Playing, Pages
    <2> QED BY <2>1, TranscriptStays
<1>6. CASE Conversation
    <2>1. UNCHANGED <<page, transcript>>
        BY <1>6 DEF Conversation, AnswersReady, ClientMessage, UserStarts, UserStops,
           BotStarts, BotStops, Recognises, Replies, Tells
    <2> QED BY <2>1, TranscriptStays
<1>7. CASE ClearTranscript
    <2>1. transcript' = <<>> /\ page'.partialUserMessage = Blank
        BY <1>1, <1>7 DEF ClearTranscript, Pages
    <2>2. <<>> \in Seq(Nodes) /\ DOMAIN <<>> = {}
        BY EmptySeq
    <2> QED BY <2>1, <2>2 DEF ShownInv, PartialIsShown, Partials
<1>8. CASE NewSession \/ SessionOver \/ RefusedConnect
    <2>1. UNCHANGED transcript /\ page'.partialUserMessage = page.partialUserMessage
        BY <1>1, <1>8 DEF NewSession, SessionOver, RefusedConnect, Connects, Disconnects,
           ConnectionLost, LeavesSpeaking, Pages
    <2> QED BY <2>1, TranscriptStays
<1>9. CASE UNCHANGED pageVars
    BY <1>9, TranscriptStays DEF pageVars
<1> QED BY <1>3, <1>4, <1>5, <1>6, <1>7, <1>8, <1>9 DEF Next, Callbacks, vars

(* The partial message the page holds is the one partial node of the       *)
(* transcript, whatever is recognised, said and cleared.                   *)
THEOREM PartialTextIsShown == Spec => []PartialIsShown
<1>1. Init => ShownInv
    <2>1. <<>> \in Seq(Nodes) /\ DOMAIN <<>> = {}
        BY EmptySeq
    <2> QED BY <2>1 DEF Init, PageInit, NewPage, ShownInv, PartialIsShown, Partials
<1>2. MInv /\ ShownInv /\ [Next]_vars => ShownInv'
    BY ShownStep
<1>3. ShownInv => PartialIsShown
    BY DEF ShownInv
<1> QED BY <1>1, <1>2, <1>3, MeasuresInvariance, PTL DEF Spec

-----------------------------------------------------------------------------
(* What is on its way.                                                     *)

(* What each event makes of an account of a conversation.                  *)
LEMMA AfterEffect ==
    ASSUME NEW s \in Speech, NEW type
    PROVE  /\ After(s, type) \in Speech
           /\ After(s, type).bot <=>
                  type = "botStarted" \/ (type # "botStopped" /\ s.bot)
           /\ After(s, type).barge <=>
                  (type = "userStarted" /\ s.bot) \/ (type # "botStopped" /\ s.barge)
           /\ type = "userStarted" /\ ~ s.bot =>
                  /\ After(s, type).turns = s.turns + 1
                  /\ After(s, type).order = "begun"
                  /\ After(s, type).early = s.early + IF s.order = "early" THEN 1 ELSE 0
           /\ ~ (type = "userStarted" /\ ~ s.bot) =>
                  /\ After(s, type).turns = s.turns
                  /\ After(s, type).early = s.early
                  /\ After(s, type).order =
                        IF s.order = "begun" /\ type = "userStopped" THEN "heard"
                        ELSE IF s.order = "begun" /\ type = "botStarted" THEN "early"
                        ELSE s.order
<1>1. /\ s.bot \in BOOLEAN /\ s.barge \in BOOLEAN /\ s.turns \in Nat /\ s.early \in Nat
      /\ s.order \in {"none", "begun", "heard", "early"}
      /\ s = [bot |-> s.bot, barge |-> s.barge, turns |-> s.turns, order |-> s.order,
             early |-> s.early]
    BY DEF Speech
<1>2. CASE type = "userStarted" /\ s.bot
    <2>1. After(s, type) = [s EXCEPT !.barge = TRUE]
        BY <1>2 DEF After
    <2> QED BY <1>1, <1>2, <2>1 DEF Speech
<1>3. CASE type = "userStarted" /\ ~ s.bot
    <2> DEFINE more == s.early + IF s.order = "early" THEN 1 ELSE 0
               next == s.turns + 1
    <2>1. After(s, type) = [s EXCEPT !.turns = next, !.order = "begun", !.early = more]
        BY <1>3 DEF After
    <2>2. more \in Nat /\ next \in Nat
        BY <1>1
    <2> HIDE DEF more, next
    <2>3. After(s, type) = [bot |-> s.bot, barge |-> s.barge, turns |-> next,
                            order |-> "begun", early |-> more]
        BY <1>1, <2>1
    <2> QED BY <1>1, <1>3, <2>2, <2>3 DEF Speech, more, next
<1>4. CASE type = "userStopped"
    <2>1. After(s, type) = [s EXCEPT !.order = IF s.order = "begun" THEN "heard" ELSE s.order]
        BY <1>4 DEF After
    <2> QED BY <1>1, <1>4, <2>1 DEF Speech
<1>5. CASE type = "botStarted"
    <2>1. After(s, type) = [s EXCEPT !.bot = TRUE,
                              !.order = IF s.order = "begun" THEN "early" ELSE s.order]
        BY <1>5 DEF After
    <2> QED BY <1>1, <1>5, <2>1 DEF Speech
<1>6. CASE type = "botStopped"
    <2>1. After(s, type) = [s EXCEPT !.bot = FALSE, !.barge = FALSE]
        BY <1>6 DEF After
    <2> QED BY <1>1, <1>6, <2>1 DEF Speech
<1>7. CASE type \notin {"userStarted", "userStopped", "botStarted", "botStopped"}
    <2>1. After(s, type) = s
        BY <1>7 DEF After
    <2> QED BY <1>1, <1>7, <2>1
<1> QED BY <1>1, <1>2, <1>3, <1>4, <1>5, <1>6, <1>7

(* No message is left: both agree.                                         *)
LEMMA LeadsNowhere ==
    ASSUME NEW f, NEW p, NEW w, Leads(f, <<>>, p, w)
    PROVE  p = w
BY EmptySeq DEF Leads

(* The first message is taken.                                             *)
LEMMA LeadsFromHead ==
    ASSUME NEW D, NEW q \in Seq(D), q # <<>>, NEW f, NEW p, NEW w, Leads(f, q, p, w)
    PROVE  \E g : Leads(g, Tail(q), After(p, Head(q).type), w)
<1> DEFINE n == Len(q)
           g == [i \in 0 .. n |-> f[i + 1]]
<1>1. /\ n \in Nat /\ n >= 1 /\ Head(q) = q[1]
      /\ Len(Tail(q)) = n - 1 /\ \A i \in 1 .. n - 1 : Tail(q)[i] = q[i + 1]
    BY HeadTailProperties, EmptySeq
<1>2. /\ f[0] = p /\ f[n] = w
      /\ \A i \in 0 .. n - 1 : f[i + 1] = After(f[i], q[i + 1].type)
    BY DEF Leads
<1> HIDE DEF n
<1>3. \A i \in 0 .. n : g[i] = f[i + 1]
    OBVIOUS
<1> HIDE DEF g
<1>4. f[1] = After(p, q[1].type)
    BY <1>1, <1>2
<1>5. g[0] = After(p, q[1].type)
    BY <1>1, <1>3, <1>4
<1>6. g[n - 1] = w
    BY <1>1, <1>2, <1>3
<1>7. ASSUME NEW i \in 0 .. n - 2
      PROVE  g[i + 1] = After(g[i], Tail(q)[i + 1].type)
    <2>1. i + 1 \in 0 .. n - 1 /\ i \in 0 .. n /\ i + 1 \in 0 .. n /\ i + 1 \in 1 .. n - 1
        BY <1>1
    <2>2. f[(i + 1) + 1] = After(f[i + 1], q[(i + 1) + 1].type)
        BY <1>2, <2>1
    <2>3. g[i] = f[i + 1] /\ g[i + 1] = f[(i + 1) + 1] /\ Tail(q)[i + 1] = q[(i + 1) + 1]
        BY <1>1, <1>3, <2>1
    <2> QED BY <2>2, <2>3
<1>8. Leads(g, Tail(q), After(p, q[1].type), w)
    <2>1. Len(Tail(q)) - 1 = n - 2
        BY <1>1
    <2> QED BY <1>1, <1>5, <1>6, <1>7, <2>1 DEF Leads
<1> QED BY <1>1, <1>8

(* A message is added.                                                     *)
LEMMA LeadsToLast ==
    ASSUME NEW D, NEW q \in Seq(D), NEW m \in D, NEW f, NEW p, NEW w, Leads(f, q, p, w)
    PROVE  \E g : Leads(g, Append(q, m), p, After(w, m.type))
<1> DEFINE n == Len(q)
           g == [i \in 0 .. n + 1 |-> IF i <= n THEN f[i] ELSE After(w, m.type)]
<1>1. /\ n \in Nat /\ Len(Append(q, m)) = n + 1
      /\ \A i \in 1 .. n : Append(q, m)[i] = q[i]
      /\ Append(q, m)[n + 1] = m
    BY AppendProperties
<1>2. /\ f[0] = p /\ f[n] = w
      /\ \A i \in 0 .. n - 1 : f[i + 1] = After(f[i], q[i + 1].type)
    BY DEF Leads
<1> HIDE DEF n
<1>3. (\A i \in 0 .. n : g[i] = f[i]) /\ g[n + 1] = After(w, m.type)
    BY <1>1
<1> HIDE DEF g
<1>4. ASSUME NEW i \in 0 .. n
      PROVE  g[i + 1] = After(g[i], Append(q, m)[i + 1].type)
    <2>1. CASE i = n
        BY <1>1, <1>2, <1>3, <2>1
    <2>2. CASE i # n
        <3>1. i \in 0 .. n - 1 /\ i + 1 \in 0 .. n /\ i + 1 \in 1 .. n
            BY <1>1, <2>2
        <3> QED BY <1>1, <1>2, <1>3, <3>1
    <2> QED BY <2>1, <2>2
<1>5. Leads(g, Append(q, m), p, After(w, m.type))
    <2>1. (n + 1) - 1 = n /\ 0 \in 0 .. n
        BY <1>1
    <2> QED BY <1>1, <1>2, <1>3, <1>4, <2>1 DEF Leads
<1> QED BY <1>5

(* No hop is left.                                                         *)
LEMMA HopsLeadNowhere ==
    ASSUME NEW f, NEW t, NEW a, NEW top, NEW w, NEW end, NEW base,
           HopsLead(f, t, <<>>, a, top, w, end, base)
    PROVE  a = w /\ top = end
BY EmptySeq DEF HopsLead

(* The first hop is taken: a new frame, or one that was seen.              *)
LEMMA HopsFromHead ==
    ASSUME NEW q \in Seq(Frames), q # <<>>, NEW f, NEW t, NEW a, NEW top, NEW w, NEW end,
           NEW base, HopsLead(f, t, q, a, top, w, end, base)
    PROVE  \/ /\ Head(q).id = top + 1
              /\ \E g, u : HopsLead(g, u, Tail(q), After(a, Head(q).type), top + 1,
                                    w, end, base)
           \/ /\ Head(q).id = top - 1 /\ Head(q).id > base
              /\ \E g, u : HopsLead(g, u, Tail(q), a, top, w, end, base)
<1> DEFINE n == Len(q)
           g == [i \in 0 .. n |-> f[i + 1]]
           u == [i \in 0 .. n |-> t[i + 1]]
<1>1. /\ n \in Nat /\ n >= 1 /\ Head(q) = q[1]
      /\ Len(Tail(q)) = n - 1 /\ \A i \in 1 .. n - 1 : Tail(q)[i] = q[i + 1]
    BY HeadTailProperties, EmptySeq
<1>2. /\ f[0] = a /\ f[n] = w /\ t[0] = top /\ t[n] = end
      /\ \A i \in 0 .. n - 1 :
          \/ /\ q[i + 1].id = t[i] + 1 /\ t[i + 1] = t[i] + 1
             /\ f[i + 1] = After(f[i], q[i + 1].type)
          \/ /\ q[i + 1].id = t[i] - 1 /\ q[i + 1].id > base /\ t[i + 1] = t[i]
             /\ f[i + 1] = f[i]
    BY DEF HopsLead
<1> HIDE DEF n
<1>3. \A i \in 0 .. n : g[i] = f[i + 1] /\ u[i] = t[i + 1]
    OBVIOUS
<1> HIDE DEF g, u
<1>4. \/ q[1].id = top + 1 /\ t[1] = top + 1 /\ f[1] = After(a, q[1].type)
      \/ q[1].id = top - 1 /\ q[1].id > base /\ t[1] = top /\ f[1] = a
    <2>1. 0 \in 0 .. n - 1 /\ 0 + 1 = 1
        BY <1>1
    <2> QED BY <1>2, <2>1
<1>5. g[0] = f[1] /\ u[0] = t[1] /\ g[n - 1] = w /\ u[n - 1] = end
    BY <1>1, <1>2, <1>3
<1>6. ASSUME NEW i \in 0 .. n - 2
      PROVE  \/ /\ Tail(q)[i + 1].id = u[i] + 1 /\ u[i + 1] = u[i] + 1
                /\ g[i + 1] = After(g[i], Tail(q)[i + 1].type)
             \/ /\ Tail(q)[i + 1].id = u[i] - 1 /\ Tail(q)[i + 1].id > base /\ u[i + 1] = u[i]
                /\ g[i + 1] = g[i]
    <2>1. i + 1 \in 0 .. n - 1 /\ i \in 0 .. n /\ i + 1 \in 0 .. n /\ i + 1 \in 1 .. n - 1
        BY <1>1
    <2> DEFINE j == i + 1
    <2>2. \/ /\ q[j + 1].id = t[j] + 1 /\ t[j + 1] = t[j] + 1
             /\ f[j + 1] = After(f[j], q[j + 1].type)
          \/ /\ q[j + 1].id = t[j] - 1 /\ q[j + 1].id > base /\ t[j + 1] = t[j]
             /\ f[j + 1] = f[j]
        BY <1>2, <2>1
    <2>3. /\ g[i] = f[j] /\ g[j] = f[j + 1] /\ u[i] = t[j] /\ u[j] = t[j + 1]
          /\ Tail(q)[j] = q[j + 1]
        BY <1>1, <1>3, <2>1
    <2> QED BY <2>2, <2>3
<1>7. HopsLead(g, u, Tail(q), f[1], t[1], w, end, base)
    <2>1. Len(Tail(q)) - 1 = n - 2
        BY <1>1
    <2> QED BY <1>1, <1>5, <1>6, <2>1 DEF HopsLead
<1> QED BY <1>1, <1>4, <1>7

(* A hop is added: of a new frame, or the last one of the frame before.    *)
LEMMA HopsToLast ==
    ASSUME NEW q \in Seq(Frames), NEW m \in Frames, NEW f, NEW t, NEW a, NEW top, NEW w,
           NEW end, NEW base, HopsLead(f, t, q, a, top, w, end, base)
    PROVE  /\ m.id = end + 1 =>
                 \E g, u : HopsLead(g, u, Append(q, m), a, top, After(w, m.type), end + 1, base)
           /\ m.id = end - 1 /\ m.id > base =>
                 \E g, u : HopsLead(g, u, Append(q, m), a, top, w, end, base)
<1> DEFINE n == Len(q)
           G(x) == [i \in 0 .. n + 1 |-> IF i <= n THEN f[i] ELSE x]
           U(x) == [i \in 0 .. n + 1 |-> IF i <= n THEN t[i] ELSE x]
<1>1. /\ n \in Nat /\ Len(Append(q, m)) = n + 1
      /\ \A i \in 1 .. n : Append(q, m)[i] = q[i]
      /\ Append(q, m)[n + 1] = m
    BY AppendProperties
<1>2. /\ f[0] = a /\ f[n] = w /\ t[0] = top /\ t[n] = end
      /\ \A i \in 0 .. n - 1 :
          \/ /\ q[i + 1].id = t[i] + 1 /\ t[i + 1] = t[i] + 1
             /\ f[i + 1] = After(f[i], q[i + 1].type)
          \/ /\ q[i + 1].id = t[i] - 1 /\ q[i + 1].id > base /\ t[i + 1] = t[i]
             /\ f[i + 1] = f[i]
    BY DEF HopsLead
<1> HIDE DEF n
<1>3. ASSUME NEW x, NEW y,
             \/ m.id = end + 1 /\ y = end + 1 /\ x = After(w, m.type)
             \/ m.id = end - 1 /\ m.id > base /\ y = end /\ x = w
      PROVE  HopsLead(G(x), U(y), Append(q, m), a, top, x, y, base)
    <2> DEFINE g == G(x)
               u == U(y)
    <2>1. /\ \A i \in 0 .. n : g[i] = f[i] /\ u[i] = t[i]
          /\ g[n + 1] = x /\ u[n + 1] = y
        BY <1>1
    <2> HIDE DEF g, u
    <2>2. ASSUME NEW i \in 0 .. n
          PROVE  \/ /\ Append(q, m)[i + 1].id = u[i] + 1 /\ u[i + 1] = u[i] + 1
                    /\ g[i + 1] = After(g[i], Append(q, m)[i + 1].type)
                 \/ /\ Append(q, m)[i + 1].id = u[i] - 1 /\ Append(q, m)[i + 1].id > base
                    /\ u[i + 1] = u[i] /\ g[i + 1] = g[i]
        <3>1. CASE i = n
            <4>1. g[i] = w /\ u[i] = end /\ g[i + 1] = x /\ u[i + 1] = y
                BY <1>1, <1>2, <2>1, <3>1
            <4> QED BY <1>1, <1>3, <3>1, <4>1
        <3>2. CASE i # n
            <4>1. i \in 0 .. n - 1 /\ i + 1 \in 0 .. n /\ i + 1 \in 1 .. n
                BY <1>1, <3>2
            <4>2. /\ g[i] = f[i] /\ g[i + 1] = f[i + 1] /\ u[i] = t[i] /\ u[i + 1] = t[i + 1]
                  /\ Append(q, m)[i + 1] = q[i + 1]
                BY <1>1, <2>1, <4>1
            <4> QED BY <1>2, <4>1, <4>2
        <3> QED BY <3>1, <3>2
    <2>3. (n + 1) - 1 = n /\ 0 \in 0 .. n
        BY <1>1
    <2>4. HopsLead(g, u, Append(q, m), a, top, x, y, base)
        BY <1>1, <1>2, <2>1, <2>2, <2>3 DEF HopsLead
    <2> QED BY <2>4 DEF g, u
<1> HIDE DEF G, U
<1> QED BY <1>3
-----------------------------------------------------------------------------
(* The observer and its frames.                                            *)

(* The timelines are finitely many; a record that is appended adds one, or *)
(* none.                                                                   *)
LEMMA TimelinesCount ==
    ASSUME RecordsInv, memory \in Seq(Metrics)
    PROVE  Timelines \in Nat
<1> DEFINE T == {i \in before + 1 .. Len(memory) : memory[i] = "turn_timeline"}
<1>1. before + 1 \in Int /\ Len(memory) \in Int
    BY DEF RecordsInv
<1>2. IsFiniteSet(before + 1 .. Len(memory)) /\ T \subseteq before + 1 .. Len(memory)
    BY <1>1, FS_Interval
<1> HIDE DEF T
<1>3. IsFiniteSet(T) /\ Cardinality(T) \in Nat
    BY <1>2, FS_Subset, FS_CardinalityType
<1> QED BY <1>3 DEF Timelines, T

LEMMA TimelinesGrow ==
    ASSUME RecordsInv, memory \in Seq(Metrics), NEW metric \in Metrics,
           memory' = Append(memory, metric), before' = before
    PROVE  Timelines' = Timelines + IF metric = "turn_timeline" THEN 1 ELSE 0
<1> DEFINE n == Len(memory)
           T == {i \in before + 1 .. n : memory[i] = "turn_timeline"}
           U == {i \in before + 1 .. Len(memory') : memory'[i] = "turn_timeline"}
<1>1. /\ n \in Nat /\ before \in Nat /\ before <= n
      /\ Len(memory') = n + 1 /\ memory'[n + 1] = metric
      /\ \A i \in 1 .. n : memory'[i] = memory[i]
    BY AppendProperties DEF RecordsInv
<1>2. Timelines = Cardinality(T) /\ Timelines' = Cardinality(U)
    BY DEF Timelines
<1>3. IsFiniteSet(T) /\ Cardinality(T) \in Nat
    <2>1. IsFiniteSet(before + 1 .. n) /\ T \subseteq before + 1 .. n
        BY <1>1, FS_Interval
    <2> HIDE DEF T
    <2> QED BY <2>1, FS_Subset, FS_CardinalityType
<1>4. n + 1 \notin T
    BY <1>1
<1>5. \A i : i \in U <=> i \in T \/ (i = n + 1 /\ metric = "turn_timeline")
    BY <1>1
<1> HIDE DEF T, U, n
<1>6. CASE metric = "turn_timeline"
    <2>1. U = T \cup {n + 1}
        BY <1>5, <1>6
    <2>2. Cardinality(U) = Cardinality(T) + 1
        BY <1>3, <1>4, <2>1, FS_AddElement
    <2> QED BY <1>2, <1>6, <2>2
<1>7. CASE metric # "turn_timeline"
    <2>1. U = T
        BY <1>5, <1>7
    <2> QED BY <1>2, <1>3, <1>7, <2>1
<1> QED BY <1>6, <1>7

(* A frame that is not an echo of one that was seen makes of what the      *)
(* observer holds what it makes of the account.                            *)
LEMMA HandlesFrame ==
    ASSUME HostInv, RecordsInv, NEW a \in Speech, Abstracts(a), OnPushFrame, before' = before,
           Head(hops).id \notin ToSet(observer.seen), NEW type, Head(hops).type = type
    PROVE  Abstracts(After(a, type))'
<1> DEFINE b == After(a, type)
           o == [observer EXCEPT !.seen = Remembers(@, Head(hops).id)]
           t == observer.turn
<1>1. /\ job = Idle /\ holder' = holder /\ memory' = memory /\ clock' = clock
      /\ \/ type = "userStarted" /\ UserStartedFrame(o)
         \/ type = "userStopped" /\ UserStoppedFrame(o)
         \/ type = "transcription" /\ TranscriptionFrame(o)
         \/ type = "botStarted" /\ BotStartedFrame(o)
         \/ type = "botStopped" /\ BotStoppedFrame(o)
    BY DEF OnPushFrame, trackerVars
<1>2. /\ clock \in Times /\ clock \in Nat /\ clock # None /\ None \in Times
      /\ \A x \in Times : x \in Int
    BY ClockTypes DEF HostInv, None
<1>3. /\ observer \in Observers /\ t \in [Events -> Times]
      /\ o \in [seen : {o.seen}, turn : {t}, bargeStartedAt : {observer.bargeStartedAt},
                userStoppedAt : {observer.userStoppedAt},
                botSpeaking : {observer.botSpeaking}]
    BY DEF HostInv, ObserverTypes, Observers
<1>4. /\ {"vad_speech_start", "vad_speech_end", "server_audio_sent", "stt_final",
          "interruption_detected"} \subseteq Events
      /\ t["vad_speech_end"] <= clock
    BY DEF Events, HostInv, TurnInTime
<1>5. /\ holder # "observer" /\ Timelines' = Timelines /\ Timelines \in Nat
      /\ Recorded = Timelines
    <2>1. holder # "observer"
        BY <1>1 DEF HostInv, ObserverTypes, Idle
    <2>2. Timelines' = Timelines
        BY <1>1 DEF Timelines
    <2>3. Timelines \in Nat
        BY TimelinesCount DEF HostInv, TrackerInv, TrackerTypes
    <2> QED BY <1>1, <2>1, <2>2, <2>3 DEF Recorded, Waits, Idle
<1>6. /\ a.turns \in Nat /\ a.early \in Nat /\ a.bot \in BOOLEAN /\ a.barge \in BOOLEAN
      /\ a.order \in {"none", "begun", "heard", "early"}
    BY DEF Speech
<1>7. /\ a.bot <=> observer.botSpeaking
      /\ a.barge <=> observer.bargeStartedAt # None
      /\ a.turns = 0 <=> t["vad_speech_start"] = None
      /\ a.turns = 0 <=> a.order = "none"
      /\ a.order = "begun" => t["vad_speech_end"] = None /\ t["server_audio_sent"] = None
      /\ a.order = "heard" => /\ t["vad_speech_end"] # None
                              /\ \/ t["server_audio_sent"] = None
                                 \/ t["server_audio_sent"] >= t["vad_speech_end"]
      /\ a.turns = 0 => Timelines = 0
      /\ a.turns > 0 => a.turns - 1 - a.early <= Timelines /\ Timelines <= a.turns - 1
    BY <1>1, <1>5 DEF Abstracts, Observes, Begun, Ordered, Counted, Idle
<1>8. \A event \in Events : \A e \in Events : Mark(t, event, clock)[e] =
          IF e = event /\ t[e] = None THEN clock ELSE t[e]
    BY <1>2, <1>3, MarkEffect
<1>9. ASSUME observer'.botSpeaking <=> b.bot,
             b.barge <=> observer'.bargeStartedAt # None /\ job'.then # "forgetsBargeIn",
             b.turns = 0 <=> observer'.turn["vad_speech_start"] = None
                             /\ job'.then # "beginsTurn",
             b.turns = 0 <=> b.order = "none",
             Ordered(b)', Counted(b)'
      PROVE  Abstracts(b)'
    BY <1>9 DEF Abstracts, Observes, Begun
<1>10. ASSUME job' = Idle, b.turns = a.turns, b.early = a.early PROVE Counted(b)'
    BY <1>5, <1>7, <1>10 DEF Counted, Recorded, Waits, Idle
<1>11. /\ b \in Speech
       /\ b.bot <=> type = "botStarted" \/ (type # "botStopped" /\ a.bot)
       /\ b.barge <=> (type = "userStarted" /\ a.bot) \/ (type # "botStopped" /\ a.barge)
       /\ type = "userStarted" /\ ~ a.bot =>
              /\ b.turns = a.turns + 1 /\ b.order = "begun"
              /\ b.early = a.early + IF a.order = "early" THEN 1 ELSE 0
       /\ ~ (type = "userStarted" /\ ~ a.bot) =>
              /\ b.turns = a.turns /\ b.early = a.early
              /\ b.order = IF a.order = "begun" /\ type = "userStopped" THEN "heard"
                           ELSE IF a.order = "begun" /\ type = "botStarted" THEN "early"
                           ELSE a.order
    BY AfterEffect
<1>12. CASE type = "userStarted" /\ a.bot
    <2>1. /\ job' = Idle
          /\ observer' = [[o EXCEPT !.userStoppedAt = None]
                             EXCEPT !.bargeStartedAt = clock,
                                    !.turn = Mark(@, "interruption_detected", clock)]
        BY <1>1, <1>3, <1>7, <1>12 DEF UserStartedFrame, Handled
    <2>2. /\ observer'.turn = Mark(t, "interruption_detected", clock)
          /\ observer'.bargeStartedAt = clock
          /\ observer'.botSpeaking = observer.botSpeaking
        BY <1>3, <2>1
    <2>3. \A e \in {"vad_speech_start", "vad_speech_end", "server_audio_sent"} :
              observer'.turn[e] = t[e]
        BY <1>4, <1>8, <2>2
    <2>4. Ordered(b)'
        BY <1>7, <1>11, <1>12, <2>3 DEF Ordered
    <2> QED BY <1>2, <1>7, <1>9, <1>10, <1>11, <1>12, <2>1, <2>2, <2>3, <2>4 DEF Idle
<1>13. CASE type = "userStarted" /\ ~ a.bot
    <2> DEFINE h == [o EXCEPT !.userStoppedAt = None]
               fresh == [h EXCEPT !.turn = NoMarks]
    <2>1. /\ h.turn = t /\ FlushesTurn(h) /\ fresh.turn = NoMarks
          /\ fresh.bargeStartedAt = observer.bargeStartedAt
          /\ fresh.botSpeaking = observer.botSpeaking
        BY <1>1, <1>3, <1>7, <1>13 DEF UserStartedFrame
    <2>2. /\ NoMarks \in [Events -> Times] /\ \A e \in Events : NoMarks[e] = None
        BY <1>2 DEF NoMarks
    <2>3. CASE TurnRecords(t) = <<>>
        <3>1. /\ job' = Idle
              /\ observer' = [fresh EXCEPT !.turn = Mark(NoMarks, "vad_speech_start", clock)]
            BY <1>1, <2>1, <2>3 DEF FlushesTurn, Handled
        <3>2. /\ observer'.turn = Mark(NoMarks, "vad_speech_start", clock)
              /\ observer'.bargeStartedAt = observer.bargeStartedAt
              /\ observer'.botSpeaking = observer.botSpeaking
            BY <1>3, <2>1, <3>1
        <3>3. /\ observer'.turn["vad_speech_start"] = clock
              /\ observer'.turn["vad_speech_end"] = None
              /\ observer'.turn["server_audio_sent"] = None
            BY <1>2, <1>4, <2>2, <3>2, MarkEffect
        <3>4. Ordered(b)'
            BY <1>11, <1>13, <3>3 DEF Ordered
        <3>5. Counted(b)'
            <4>1. a.turns = 0 \/ a.order = "early"
                BY <1>2, <1>3, <1>4, <1>6, <1>7, <2>3 DEF TurnRecords
            <4> QED BY <1>5, <1>6, <1>7, <1>11, <1>13, <3>1, <4>1
                    DEF Counted, Recorded, Waits, Idle
        <3> QED BY <1>2, <1>6, <1>7, <1>9, <1>11, <1>13, <3>1, <3>2, <3>3, <3>4, <3>5 DEF Idle
    <2>4. CASE TurnRecords(t) # <<>>
        <3>1. /\ job' = [records |-> TurnRecords(t), then |-> "beginsTurn", now |-> clock]
              /\ observer' = fresh
            BY <2>1, <2>4 DEF FlushesTurn, HandledThen
        <3>2. TurnRecords(t)[1] = "turn_timeline" /\ t["vad_speech_start"] # None
            BY <2>4 DEF TurnRecords
        <3>3. /\ observer'.turn["vad_speech_start"] = None
              /\ observer'.turn["vad_speech_end"] = None
              /\ observer'.turn["server_audio_sent"] = None
            BY <1>4, <2>1, <2>2, <3>1
        <3>4. Ordered(b)'
            BY <1>11, <1>13, <3>3 DEF Ordered
        <3>5. Counted(b)'
            <4>1. Waits'
                BY <1>1, <1>5, <2>4, <3>1, <3>2 DEF Waits
            <4>2. Recorded' = Timelines + 1
                BY <1>5, <4>1 DEF Recorded
            <4> QED BY <1>5, <1>6, <1>7, <1>11, <1>13, <3>2, <4>2 DEF Counted
        <3> QED BY <1>6, <1>7, <1>9, <1>11, <1>13, <2>1, <3>1, <3>4, <3>5
    <2> QED BY <2>3, <2>4
<1>14. CASE type = "userStopped"
    <2>1. /\ job' = Idle
          /\ observer' = [o EXCEPT !.userStoppedAt = clock,
                                   !.turn = Mark(@, "vad_speech_end", clock)]
        BY <1>1, <1>14 DEF UserStoppedFrame, Handled
    <2>2. /\ observer'.turn = Mark(t, "vad_speech_end", clock)
          /\ observer'.bargeStartedAt = observer.bargeStartedAt
          /\ observer'.botSpeaking = observer.botSpeaking
        BY <1>3, <2>1
    <2>3. /\ observer'.turn["vad_speech_start"] = t["vad_speech_start"]
          /\ observer'.turn["server_audio_sent"] = t["server_audio_sent"]
          /\ observer'.turn["vad_speech_end"] =
                IF t["vad_speech_end"] = None THEN clock ELSE t["vad_speech_end"]
        BY <1>4, <1>8, <2>2
    <2>4. Ordered(b)'
        BY <1>2, <1>7, <1>11, <1>14, <2>3 DEF Ordered
    <2>5. b.order = "none" <=> a.order = "none"
        BY <1>11, <1>14
    <2> QED BY <1>7, <1>9, <1>10, <1>11, <1>14, <2>1, <2>2, <2>3, <2>4, <2>5 DEF Idle
<1>15. CASE type = "transcription"
    <2> DEFINE m == [o EXCEPT !.turn = Mark(@, "stt_final", clock)]
    <2>1. /\ observer' = m
          /\ job' = Idle \/ job' = [records |-> <<"turn_end_to_stt_final">>,
                                    then |-> "forgetsStop", now |-> clock]
        BY <1>1, <1>15 DEF TranscriptionFrame, Handled, HandledThen
    <2>2. /\ observer'.turn = Mark(t, "stt_final", clock)
          /\ observer'.bargeStartedAt = observer.bargeStartedAt
          /\ observer'.botSpeaking = observer.botSpeaking
        BY <1>3, <2>1
    <2>3. \A e \in {"vad_speech_start", "vad_speech_end", "server_audio_sent"} :
              observer'.turn[e] = t[e]
        BY <1>4, <1>8, <2>2
    <2>4. Ordered(b)'
        BY <1>7, <1>11, <1>15, <2>3 DEF Ordered
    <2>5. ~ Waits' /\ job'.then \notin {"beginsTurn", "forgetsBargeIn"}
        BY <2>1 DEF Waits, Idle
    <2>6. Counted(b)'
        BY <1>5, <1>7, <1>11, <1>15, <2>5 DEF Counted, Recorded
    <2> QED BY <1>7, <1>9, <1>11, <1>15, <2>2, <2>3, <2>4, <2>5, <2>6
<1>16. CASE type = "botStarted"
    <2>1. /\ job' = Idle
          /\ observer' = [o EXCEPT !.botSpeaking = TRUE,
                                   !.turn = Mark(@, "server_audio_sent", clock)]
        BY <1>1, <1>16 DEF BotStartedFrame, Handled
    <2>2. /\ observer'.turn = Mark(t, "server_audio_sent", clock)
          /\ observer'.bargeStartedAt = observer.bargeStartedAt
          /\ observer'.botSpeaking
        BY <1>3, <2>1
    <2>3. /\ observer'.turn["vad_speech_start"] = t["vad_speech_start"]
          /\ observer'.turn["vad_speech_end"] = t["vad_speech_end"]
          /\ observer'.turn["server_audio_sent"] =
                IF t["server_audio_sent"] = None THEN clock ELSE t["server_audio_sent"]
        BY <1>4, <1>8, <2>2
    <2>4. Ordered(b)'
        BY <1>2, <1>4, <1>7, <1>11, <1>16, <2>3 DEF Ordered
    <2>5. b.order = "none" <=> a.order = "none"
        BY <1>11, <1>16
    <2> QED BY <1>7, <1>9, <1>10, <1>11, <1>16, <2>1, <2>2, <2>3, <2>4, <2>5 DEF Idle
<1>17. CASE type = "botStopped"
    <2> DEFINE silent == [o EXCEPT !.botSpeaking = FALSE]
    <2>1. /\ observer' = silent
          /\ \/ job' = Idle /\ observer.bargeStartedAt = None
             \/ job' = [records |-> <<"barge_in_audible_stop">>, then |-> "forgetsBargeIn",
                        now |-> clock]
        BY <1>1, <1>3, <1>17 DEF BotStoppedFrame, Handled, HandledThen
    <2>2. /\ observer'.turn = t
          /\ observer'.bargeStartedAt = observer.bargeStartedAt
          /\ observer'.botSpeaking = FALSE
        BY <1>3, <2>1
    <2>3. Ordered(b)'
        BY <1>7, <1>11, <1>17, <2>2 DEF Ordered
    <2>4. ~ Waits' /\ job'.then # "beginsTurn"
        BY <2>1 DEF Waits, Idle
    <2>5. Counted(b)'
        BY <1>5, <1>7, <1>11, <1>17, <2>4 DEF Counted, Recorded
    <2>6. ~ (observer'.bargeStartedAt # None /\ job'.then # "forgetsBargeIn")
        BY <2>1, <2>2
    <2> QED BY <1>7, <1>9, <1>11, <1>17, <2>2, <2>3, <2>4, <2>5, <2>6
<1> QED BY <1>1, <1>12, <1>13, <1>14, <1>15, <1>16, <1>17

(* A frame that is new becomes the last one the observer remembers: the    *)
(* older half it may drop is none of the last two.                         *)
LEMMA RemembersNext ==
    ASSUME ObserverTypes, NEW base \in Nat, NEW top \in Nat, RemembersLast(base, top),
           observer'.seen = Remembers(observer.seen, top + 1)
    PROVE  RemembersLast(base, top + 1)'
<1> DEFINE seen == observer.seen
           n == Len(seen)
           all == Append(seen, top + 1)
           kept == observer'.seen
<1>1. /\ seen \in Seq(Nat) /\ n \in Nat /\ n <= SeenLimit /\ SeenLimit \in Nat
      /\ SeenLimit >= 2
    BY SeenAssumption DEF ObserverTypes, Observers
<1>2. /\ base <= top
      /\ \A i \in 1 .. n : seen[i] <= top
      /\ top > base => n >= 1 /\ seen[n] = top
    BY DEF RemembersLast
<1>3. /\ all \in Seq(Nat) /\ Len(all) = n + 1 /\ all[n + 1] = top + 1
      /\ \A i \in 1 .. n : all[i] = seen[i]
    BY <1>1, AppendProperties
<1> HIDE DEF all, n
<1>4. /\ \A i \in 1 .. n + 1 : all[i] <= top + 1 /\ all[i] \in Nat
      /\ top + 1 > base + 1 => n >= 1 /\ all[n] = top
    <2>1. \A i \in 1 .. n + 1 : all[i] \in Nat
        BY <1>1, <1>3
    <2>2. \A i \in 1 .. n + 1 : all[i] <= top + 1
        <3> TAKE i \in 1 .. n + 1
        <3>1. CASE i = n + 1
            BY <1>3, <3>1
        <3>2. CASE i # n + 1
            <4>1. i \in 1 .. n
                BY <1>1, <3>2
            <4> QED BY <1>2, <1>3, <2>1, <4>1
        <3> QED BY <3>1, <3>2
    <2> QED BY <1>1, <1>2, <1>3, <2>1, <2>2
<1>5. ASSUME NEW d \in Nat, d < n, Len(kept) = n + 1 - d,
             \A i \in 1 .. n + 1 - d : kept[i] = all[i + d]
      PROVE  RemembersLast(base, top + 1)'
    <2>1. \A i \in 1 .. n + 1 - d : kept[i] <= top + 1
        <3> TAKE i \in 1 .. n + 1 - d
        <3>1. i + d \in 1 .. n + 1
            BY <1>1, <1>5
        <3> QED BY <1>4, <1>5, <3>1
    <2>2. n + 1 - d >= 2 /\ kept[n + 1 - d] = top + 1
        <3>1. n + 1 - d \in 1 .. n + 1 - d /\ (n + 1 - d) + d = n + 1
            BY <1>1, <1>5
        <3>2. kept[n + 1 - d] = all[n + 1]
            BY <1>5, <3>1
        <3> QED BY <1>1, <1>3, <1>5, <3>2
    <2>3. kept[n + 1 - d - 1] = all[n]
        <3>1. n + 1 - d - 1 \in 1 .. n + 1 - d /\ (n + 1 - d - 1) + d = n
            BY <1>1, <1>5
        <3>2. kept[n + 1 - d - 1] = all[(n + 1 - d - 1) + d]
            BY <1>5, <3>1
        <3> QED BY <3>1, <3>2
    <2>4. top + 1 > base + 1 => kept[n + 1 - d - 1] = top + 1 - 1
        BY <1>4, <2>3
    <2> DEFINE m == n + 1 - d
    <2>5. /\ Len(kept) = m /\ m >= 2 /\ kept[m] = top + 1 /\ m \in Nat
          /\ \A i \in 1 .. m : kept[i] <= top + 1
          /\ top + 1 > base + 1 => kept[m - 1] = top + 1 - 1
        BY <1>1, <1>5, <2>1, <2>2, <2>4
    <2>6. base <= top + 1
        BY <1>2
    <2> HIDE DEF m
    <2> QED BY <2>5, <2>6 DEF RemembersLast
<1>6. CASE n = SeenLimit
    <2> DEFINE d == SeenLimit \div 2
    <2>1. d \in Nat /\ d < n /\ 1 <= d + 1
        BY <1>1, <1>6
    <2>2. kept = SubSeq(all, d + 1, n + 1)
        BY <1>6 DEF Remembers, n, all
    <2> HIDE DEF d
    <2>3. \A i \in d + 1 .. n + 1 : all[i] \in Nat
        BY <1>1, <1>4, <2>1
    <2>4. /\ Len(kept) = IF d + 1 <= n + 1 THEN (n + 1) - (d + 1) + 1 ELSE 0
          /\ \A i \in 1 .. (n + 1) - (d + 1) + 1 : kept[i] = all[(d + 1) + i - 1]
        <3> DEFINE s == SubSeq(all, d + 1, n + 1)
        <3>1. /\ Len(s) = IF d + 1 <= n + 1 THEN (n + 1) - (d + 1) + 1 ELSE 0
              /\ \A i \in 1 .. (n + 1) - (d + 1) + 1 : s[i] = all[(d + 1) + i - 1]
            BY <1>1, <2>1, <2>3, SubSeqProperties
        <3> HIDE DEF s
        <3>2. kept = s
            BY <2>2 DEF s
        <3> QED BY <3>1, <3>2
    <2>5. (n + 1) - (d + 1) + 1 = n + 1 - d
        BY <1>1, <2>1
    <2>6. ASSUME NEW i \in 1 .. n + 1 - d PROVE kept[i] = all[i + d]
        <3>1. kept[i] = all[(d + 1) + i - 1] /\ (d + 1) + i - 1 = i + d
            BY <2>1, <2>4, <2>5
        <3> QED BY <3>1
    <2>7. Len(kept) = n + 1 - d
        <3>1. d + 1 <= n + 1
            BY <1>1, <2>1
        <3> QED BY <2>4, <2>5, <3>1
    <2> QED BY <1>5, <2>1, <2>6, <2>7
<1>7. CASE n # SeenLimit /\ n > 0
    <2>1. kept = all
        BY <1>7 DEF Remembers, n, all
    <2>2. 0 \in Nat /\ 0 < n /\ Len(kept) = n + 1 - 0
          /\ \A i \in 1 .. n + 1 - 0 : kept[i] = all[i + 0]
        BY <1>1, <1>3, <1>7, <2>1
    <2> QED BY <1>5, <2>2
<1>8. CASE n # SeenLimit /\ n = 0
    <2>1. kept = all
        BY <1>8 DEF Remembers, n, all
    <2>2. ~ (top > base) /\ Len(kept) = 1 /\ kept[1] = top + 1
        BY <1>2, <1>3, <1>8, <2>1
    <2> QED BY <1>2, <2>2 DEF RemembersLast
<1> QED BY <1>1, <1>6, <1>7, <1>8

(* What neither records nor touches what the observer holds keeps it.      *)
LEMMA AccountKept ==
    ASSUME NEW a, Abstracts(a), Recorded' = Recorded,
           observer'.botSpeaking = observer.botSpeaking,
           observer'.bargeStartedAt = observer.bargeStartedAt,
           job'.then = job.then,
           \A e \in {"vad_speech_start", "vad_speech_end", "server_audio_sent"} :
               observer'.turn[e] = observer.turn[e]
    PROVE  Abstracts(a)'
<1>1. Observes(a)'
    BY DEF Abstracts, Observes
<1>2. Begun(a)'
    BY DEF Abstracts, Begun
<1>3. Ordered(a)'
    BY DEF Abstracts, Ordered
<1>4. Counted(a)'
    BY DEF Abstracts, Counted
<1> QED BY <1>1, <1>2, <1>3, <1>4 DEF Abstracts

(* A timeline counts from when the observer waits to record it.            *)
LEMMA ObserverRecordsAccount ==
    ASSUME HostInv, RecordsInv, NEW a, Abstracts(a), ObserverRecords, before' = before
    PROVE  Abstracts(a)' /\ RecordsInv'
<1>1. /\ job.records # <<>> /\ holder = Nobody /\ holder' = "observer"
      /\ memory' = Append(memory, Head(job.records))
      /\ UNCHANGED <<observer, job, clientJobs>>
    BY DEF ObserverRecords, Appends
<1>2. /\ job.records \in Seq(Metrics) /\ memory \in Seq(Metrics)
      /\ Head(job.records) = job.records[1] /\ job.records[1] \in Metrics
    BY <1>1, EmptySeq DEF HostInv, ObserverTypes, Jobs, TrackerInv, TrackerTypes
<1>3. Timelines' = Timelines + IF job.records[1] = "turn_timeline" THEN 1 ELSE 0
    BY <1>1, <1>2, TimelinesGrow
<1>4. Timelines \in Nat
    BY <1>2, TimelinesCount
<1>5. ~ Waits' /\ (Waits <=> job.records[1] = "turn_timeline")
    BY <1>1 DEF Waits, Nobody
<1>6. Recorded' = Recorded
    BY <1>3, <1>4, <1>5 DEF Recorded
<1>7. Abstracts(a)'
    BY <1>1, <1>6, AccountKept
<1>8. Len(memory') = Len(memory) + 1 /\ Len(memory) \in Nat
    BY <1>1, <1>2, AppendProperties
<1>9. RecordsInv'
    BY <1>1, <1>8 DEF RecordsInv
<1> QED BY <1>7, <1>9

(* Only the first record may be a timeline; after the last one the turn    *)
(* begins, or the barge-in is forgotten, as the account has had it.        *)
LEMMA ObserverContinuesAccount ==
    ASSUME HostInv, RecordsInv, NEW a, Abstracts(a), ObserverContinues, before' = before
    PROVE  Abstracts(a)' /\ RecordsInv'
<1>1. /\ holder = "observer" /\ holder' = Nobody /\ memory' = memory
      /\ clientJobs' = clientJobs
      /\ \/ /\ Len(job.records) > 1 /\ observer' = observer
            /\ job' = [job EXCEPT !.records = Tail(@)]
         \/ Len(job.records) = 1 /\ job' = Idle /\ observer' = Continued
    BY DEF ObserverContinues, Returns, LetsGo
<1>2. /\ job \in Jobs /\ job.records \in Seq(Metrics) /\ job.records # <<>>
      /\ observer \in Observers /\ observer.turn \in [Events -> Times]
    BY <1>1 DEF HostInv, ObserverTypes, Jobs, Observers
<1>3. Timelines' = Timelines /\ Timelines \in Nat /\ Recorded = Timelines
    <2>1. Timelines' = Timelines
        BY <1>1 DEF Timelines
    <2>2. Timelines \in Nat
        BY TimelinesCount DEF HostInv, TrackerInv, TrackerTypes
    <2> QED BY <1>1, <2>1, <2>2 DEF Recorded, Waits
<1>4. CASE Len(job.records) > 1
    <2> DEFINE rest == Tail(job.records)
    <2>0. observer' = observer /\ job' = [job EXCEPT !.records = rest]
        <3> DEFINE n == Len(job.records)
        <3>2. n \in Nat /\ n > 1
            BY <1>2, <1>4, LenProperties
        <3>1. n # 1
            <4> HIDE DEF n
            <4> QED BY <3>2
        <3> QED BY <1>1, <3>1, Zenon
    <2>1. /\ observer' = observer /\ job'.then = job.then /\ job'.records = Tail(job.records)
        <3> HIDE DEF rest
        <3>1. job'.then = job.then /\ job'.records = rest
            BY <1>2, <2>0 DEF Jobs
        <3> QED BY <2>0, <3>1 DEF rest
    <2>2. /\ Len(Tail(job.records)) = Len(job.records) - 1 /\ Len(job.records) \in Nat
          /\ \A i \in 1 .. Len(job.records) - 1 : Tail(job.records)[i] = job.records[i + 1]
        BY <1>2, HeadTailProperties
    <2>3. \A i \in 1 .. Len(job.records) - 1 : job.records[i + 1] # "turn_timeline"
        <3> TAKE i \in 1 .. Len(job.records) - 1
        <3>1. i + 1 \in 2 .. Len(job.records)
            BY <2>2
        <3> QED BY <3>1 DEF RecordsInv
    <2>4. ~ Waits'
        <3>1. 1 \in 1 .. Len(job.records) - 1
            BY <1>4, <2>2
        <3> QED BY <2>1, <2>2, <2>3, <3>1 DEF Waits
    <2>5. Abstracts(a)'
        BY <1>3, <2>1, <2>4, AccountKept DEF Recorded
    <2>6. RecordsInv'
        <3>1. \A i \in 2 .. Len(job'.records) : job'.records[i] # "turn_timeline"
            BY <2>1, <2>2, <2>3
        <3>2. job'.records # <<>>
            <4> DEFINE n == Len(job.records)
            <4>0. n \in Nat /\ n > 1
                BY <1>4, <2>2
            <4>1. n - 1 # 0
                <5> HIDE DEF n
                <5> QED BY <4>0
            <4>2. Len(rest) = n - 1 /\ job'.records = rest
                BY <2>1, <2>2
            <4> HIDE DEF rest, n
            <4>3. Len(rest) # 0
                BY <4>1, <4>2
            <4>4. Len(<<>>) = 0
                OBVIOUS
            <4> QED BY <4>2, <4>3, <4>4
        <3> QED BY <1>1, <1>2, <2>1, <3>1, <3>2 DEF RecordsInv
    <2> QED BY <2>5, <2>6
<1>5. CASE ~ (Len(job.records) > 1)
    <2>1. job' = Idle /\ observer' = Continued
        BY <1>1, <1>5
    <2>2. ~ Waits' /\ Recorded' = Recorded
        BY <1>3, <2>1 DEF Waits, Recorded, Idle
    <2>3. RecordsInv'
        BY <1>1, <2>1, EmptySeq DEF RecordsInv, Idle
    <2>4. job.then \notin {"nothing", "failed"}
        BY <1>2 DEF RecordsInv
    <2>5. /\ {"vad_speech_start", "vad_speech_end", "server_audio_sent"} \subseteq Events
          /\ job'.then = "nothing"
        BY <2>1 DEF Events, Idle
    <2>6. CASE job.then = "beginsTurn"
        <3>1. job.now \in Times /\ job.now # None
            BY <1>2, <2>6 DEF HostInv, TurnInTime, None, Jobs
        <3>2. /\ observer'.turn = Mark(observer.turn, "vad_speech_start", job.now)
              /\ observer'.botSpeaking = observer.botSpeaking
              /\ observer'.bargeStartedAt = observer.bargeStartedAt
            BY <1>2, <2>1, <2>6 DEF Continued, Observers
        <3>3. observer.turn["vad_speech_start"] = None
            BY <2>6 DEF HostInv, TurnInTime
        <3>9. \A e \in Events : Mark(observer.turn, "vad_speech_start", job.now)[e] =
                  IF e = "vad_speech_start" /\ observer.turn[e] = None THEN job.now
                  ELSE observer.turn[e]
            BY <1>2, <2>5, <3>1, MarkEffect
        <3>4. /\ observer'.turn["vad_speech_start"] = job.now
              /\ observer'.turn["vad_speech_end"] = observer.turn["vad_speech_end"]
              /\ observer'.turn["server_audio_sent"] = observer.turn["server_audio_sent"]
            BY <2>5, <3>2, <3>3, <3>9
        <3>5. Observes(a)'
            BY <2>5, <2>6, <3>2 DEF Abstracts, Observes
        <3>6. Begun(a)'
            BY <2>5, <2>6, <3>1, <3>4 DEF Abstracts, Begun
        <3>7. Ordered(a)'
            BY <3>4 DEF Abstracts, Ordered
        <3>8. Counted(a)'
            BY <2>2 DEF Abstracts, Counted
        <3> QED BY <2>3, <3>5, <3>6, <3>7, <3>8 DEF Abstracts
    <2>7. CASE job.then = "forgetsBargeIn"
        <3>1. /\ observer'.turn = observer.turn
              /\ observer'.botSpeaking = observer.botSpeaking
              /\ observer'.bargeStartedAt = None
            BY <1>2, <2>1, <2>7 DEF Continued, Observers
        <3>2. Observes(a)'
            BY <2>5, <2>7, <3>1 DEF Abstracts, Observes
        <3>3. Begun(a)'
            BY <2>5, <2>7, <3>1 DEF Abstracts, Begun
        <3>4. Ordered(a)'
            BY <3>1 DEF Abstracts, Ordered
        <3>5. Counted(a)'
            BY <2>2 DEF Abstracts, Counted
        <3> QED BY <2>3, <3>2, <3>3, <3>4, <3>5 DEF Abstracts
    <2>8. CASE job.then = "forgetsStop"
        <3>1. /\ observer'.turn = observer.turn
              /\ observer'.botSpeaking = observer.botSpeaking
              /\ observer'.bargeStartedAt = observer.bargeStartedAt
            BY <1>2, <2>1, <2>8 DEF Continued, Observers
        <3>2. Observes(a)'
            BY <2>5, <2>8, <3>1 DEF Abstracts, Observes
        <3>3. Begun(a)'
            BY <2>5, <2>8, <3>1 DEF Abstracts, Begun
        <3>4. Ordered(a)'
            BY <3>1 DEF Abstracts, Ordered
        <3>5. Counted(a)'
            BY <2>2 DEF Abstracts, Counted
        <3> QED BY <2>3, <3>2, <3>3, <3>4, <3>5 DEF Abstracts
    <2> QED BY <1>2, <2>4, <2>6, <2>7, <2>8 DEF Jobs
<1> QED BY <1>4, <1>5

(* What the client's messages record is no timeline, and what they mark    *)
(* are events of their own.                                                *)
LEMMA ClientAccount ==
    ASSUME HostInv, RecordsInv, before' = before,
           \/ ClientRecords \/ ClientReturns \/ ThreadBegins \/ Writes \/ ClockTicks
           \/ Len(clientJobs) < MaxJobs /\ \E m \in Up : OnClientMessage(m)
    PROVE  job' = job /\ RecordsInv' /\ \A a : Abstracts(a) => Abstracts(a)'
<1> DEFINE C == {"client_audible_start", "client_barge_in_audible_stop"}
<1>1. /\ clientJobs \in Seq(C) /\ memory \in Seq(Metrics) /\ Len(memory) \in Nat
      /\ observer \in Observers /\ observer.turn \in [Events -> Times]
    BY DEF HostInv, RecordsInv, TrackerInv, TrackerTypes, ObserverTypes, Observers
<1>2. CASE ClientRecords
    <2>1. /\ clientJobs # <<>> /\ holder = Nobody /\ holder' = "client"
          /\ memory' = Append(memory, Head(clientJobs))
          /\ UNCHANGED <<observer, job, clientJobs>>
        BY <1>2 DEF ClientRecords, Appends
    <2>2. Head(clientJobs) \in C
        BY <1>1, <2>1, EmptySeq
    <2>3. Head(clientJobs) \in Metrics /\ Head(clientJobs) # "turn_timeline"
        BY <2>2 DEF Metrics
    <2>4. Timelines' = Timelines
        BY <1>1, <2>1, <2>3, TimelinesGrow, TimelinesCount
    <2>5. Recorded' = Recorded
        BY <2>1, <2>4 DEF Recorded, Waits, Nobody
    <2>6. Len(memory') = Len(memory) + 1
        BY <1>1, <2>1, <2>3, AppendProperties
    <2>7. RecordsInv'
        BY <1>1, <2>1, <2>6 DEF RecordsInv
    <2> QED BY <2>1, <2>5, <2>7, AccountKept
<1>3. CASE ClientReturns
    <2>1. /\ clientJobs # <<>> /\ holder = "client" /\ holder' = Nobody /\ memory' = memory
          /\ clientJobs' = Tail(clientJobs) /\ UNCHANGED <<observer, job>>
        BY <1>3 DEF ClientReturns, Returns, Raises, LetsGo
    <2>2. Recorded' = Recorded
        BY <2>1 DEF Recorded, Waits, Timelines, Nobody
    <2>3. clientJobs' \in Seq(C)
        BY <1>1, <2>1, HeadTailProperties, EmptySeq
    <2>4. RecordsInv'
        BY <2>1, <2>3 DEF RecordsInv
    <2> QED BY <2>1, <2>2, <2>4, AccountKept
<1>4. CASE ThreadBegins \/ Writes \/ ClockTicks
    <2>1. UNCHANGED <<observer, job, clientJobs, memory, holder>>
        BY <1>4 DEF ThreadBegins, Writes, LineBegun, LineWritten, LineFails, ClockTicks,
           trackerVars
    <2>2. Recorded' = Recorded
        BY <2>1 DEF Recorded, Waits, Timelines
    <2>3. RecordsInv'
        BY <2>1 DEF RecordsInv
    <2> QED BY <2>1, <2>2, <2>3, AccountKept
<1>5. ASSUME NEW m \in Up, OnClientMessage(m)
      PROVE  job' = job /\ RecordsInv' /\ \A a : Abstracts(a) => Abstracts(a)'
    <2>1. UNCHANGED <<memory, holder, job>>
        BY <1>5 DEF OnClientMessage, trackerVars
    <2>2. PICK event \in {"client_audible_start", "client_audio_stopped"} :
              observer' = [observer EXCEPT !.turn = Mark(@, event, clock)]
        BY <1>5 DEF OnClientMessage, Marked
    <2>3. /\ observer'.turn = Mark(observer.turn, event, clock)
          /\ observer'.botSpeaking = observer.botSpeaking
          /\ observer'.bargeStartedAt = observer.bargeStartedAt
        BY <1>1, <2>2 DEF Observers
    <2>4. /\ {"vad_speech_start", "vad_speech_end", "server_audio_sent"} \subseteq Events
          /\ event \in Events /\ clock \in Times
        BY ClockTypes DEF Events, HostInv
    <2>9. \A e \in Events : Mark(observer.turn, event, clock)[e] =
              IF e = event /\ observer.turn[e] = None THEN clock ELSE observer.turn[e]
        BY <1>1, <2>4, MarkEffect
    <2>5. \A e \in {"vad_speech_start", "vad_speech_end", "server_audio_sent"} :
              observer'.turn[e] = observer.turn[e]
        BY <2>3, <2>4, <2>9
    <2>6. clientJobs' \in Seq(C)
        <3>1. \A c \in C : Append(clientJobs, c) \in Seq(C)
            BY <1>1, AppendProperties
        <3>2. \/ clientJobs' = clientJobs
              \/ clientJobs' = Append(clientJobs, "client_audible_start")
              \/ clientJobs' = Append(clientJobs, "client_barge_in_audible_stop")
            BY <1>5 DEF OnClientMessage
        <3> QED BY <1>1, <3>1, <3>2
    <2>7. Recorded' = Recorded
        BY <2>1 DEF Recorded, Waits, Timelines
    <2>8. RecordsInv'
        BY <2>1, <2>6 DEF RecordsInv
    <2> QED BY <2>1, <2>3, <2>5, <2>7, <2>8, AccountKept
<1> QED BY <1>2, <1>3, <1>4, <1>5

(* The observer's task ends in the middle of its records.                  *)
LEMMA ObserverFailsAccount ==
    ASSUME HostInv, RecordsInv, ObserverFails, before' = before
    PROVE  job' = Failed /\ RecordsInv'
<1>1. job' = Failed /\ memory' = memory /\ clientJobs' = clientJobs
    BY DEF ObserverFails, Raises, LetsGo
<1>2. Failed.records = <<>> /\ Failed.then = "failed" /\ Len(<<>>) = 0
    BY DEF Failed
<1> QED BY <1>1, <1>2 DEF RecordsInv

(* What a frame leaves to do.                                              *)
LEMMA FrameJob ==
    ASSUME HostInv, RecordsInv, OnPushFrame, before' = before
    PROVE  /\ RecordsInv'
           /\ IF Head(hops).id \in ToSet(observer.seen) THEN UNCHANGED <<observer, job>>
              ELSE observer'.seen = Remembers(observer.seen, Head(hops).id)
<1> DEFINE o == [observer EXCEPT !.seen = Remembers(@, Head(hops).id)]
<1>1. /\ job = Idle /\ UNCHANGED <<memory, clientJobs>>
      /\ IF Head(hops).id \in ToSet(observer.seen) THEN UNCHANGED <<observer, job>> ELSE
         \/ UserStartedFrame(o) \/ UserStoppedFrame(o) \/ TranscriptionFrame(o)
         \/ BotStartedFrame(o) \/ BotStoppedFrame(o)
    BY DEF OnPushFrame, trackerVars
<1>2. /\ observer \in Observers
      /\ o \in [seen : {o.seen}, turn : {o.turn}, bargeStartedAt : {o.bargeStartedAt},
                userStoppedAt : {o.userStoppedAt}, botSpeaking : {o.botSpeaking}]
      /\ o.seen = Remembers(observer.seen, Head(hops).id)
    BY DEF HostInv, ObserverTypes, Observers
<1> HIDE DEF o
<1>3. IF Head(hops).id \in ToSet(observer.seen) THEN UNCHANGED <<observer, job>>
      ELSE observer'.seen = o.seen
    BY <1>1, <1>2 DEF UserStartedFrame, UserStoppedFrame, TranscriptionFrame, BotStartedFrame,
       BotStoppedFrame, FlushesTurn, Handled, HandledThen
<1>4. \/ job' = Idle
      \/ \E x : job' = [records |-> <<x>>, then |-> "forgetsStop", now |-> clock]
      \/ \E x : job' = [records |-> <<x>>, then |-> "forgetsBargeIn", now |-> clock]
      \/ \E turn : /\ TurnRecords(turn) # <<>>
                   /\ job' = [records |-> TurnRecords(turn), then |-> "beginsTurn",
                              now |-> clock]
    <2>1. CASE UserStartedFrame(o)
        <3>1. ASSUME NEW h, FlushesTurn(h)
              PROVE  \/ job' = Idle
                     \/ \E turn : /\ TurnRecords(turn) # <<>>
                                  /\ job' = [records |-> TurnRecords(turn),
                                             then |-> "beginsTurn", now |-> clock]
            BY <1>1, <3>1 DEF FlushesTurn, Handled, HandledThen
        <3>2. Handled([[o EXCEPT !.userStoppedAt = None] EXCEPT !.bargeStartedAt = clock,
                            !.turn = Mark(@, "interruption_detected", clock)])
                 => job' = Idle
            BY <1>1 DEF Handled
        <3> QED BY <2>1, <3>1, <3>2 DEF UserStartedFrame
    <2>2. CASE TranscriptionFrame(o)
        BY <1>1, <2>2 DEF TranscriptionFrame, Handled, HandledThen
    <2>3. CASE BotStoppedFrame(o)
        BY <1>1, <2>3 DEF BotStoppedFrame, Handled, HandledThen
    <2>4. CASE UserStoppedFrame(o) \/ BotStartedFrame(o) \/ UNCHANGED <<observer, job>>
        BY <1>1, <2>4 DEF UserStoppedFrame, BotStartedFrame, Handled
    <2> QED BY <1>1, <2>1, <2>2, <2>3, <2>4
<1>5. /\ \A i \in 2 .. Len(job'.records) : job'.records[i] # "turn_timeline"
      /\ job'.then \in {"nothing", "failed"} <=> job'.records = <<>>
    <2>1. CASE job' = Idle
        BY <2>1 DEF Idle
    <2>2. ASSUME NEW x, NEW then \in {"forgetsStop", "forgetsBargeIn"},
                 job' = [records |-> <<x>>, then |-> then, now |-> clock]
          PROVE  /\ \A i \in 2 .. Len(job'.records) : job'.records[i] # "turn_timeline"
                 /\ job'.then \in {"nothing", "failed"} <=> job'.records = <<>>
        BY <2>2
    <2>3. ASSUME NEW turn, TurnRecords(turn) # <<>>,
                 job' = [records |-> TurnRecords(turn), then |-> "beginsTurn", now |-> clock]
          PROVE  /\ \A i \in 2 .. Len(job'.records) : job'.records[i] # "turn_timeline"
                 /\ job'.then \in {"nothing", "failed"} <=> job'.records = <<>>
        <3>1. TurnRecords(turn) \in {<<"turn_timeline">>, <<"turn_timeline", "segment">>}
            BY <2>3 DEF TurnRecords
        <3>2. job'.records = TurnRecords(turn) /\ job'.then = "beginsTurn"
            BY <2>3
        <3>3. CASE TurnRecords(turn) = <<"turn_timeline">>
            BY <3>2, <3>3
        <3>4. CASE TurnRecords(turn) = <<"turn_timeline", "segment">>
            BY <3>2, <3>4
        <3> QED BY <3>1, <3>3, <3>4
    <2> QED BY <1>4, <2>1, <2>2, <2>3
<1>6. RecordsInv'
    BY <1>1, <1>5 DEF RecordsInv
<1> QED BY <1>2, <1>3, <1>6

-----------------------------------------------------------------------------
(* The host: what it hears is what happened.                               *)

(* Nothing is pushed and no frame is taken.                                *)
LEMMA HeardStays ==
    ASSUME NEW w, HostHears(w), UNCHANGED <<hops, pushed, last>>,
           observer'.seen = observer.seen,
           \A a \in Speech : Abstracts(a) => Abstracts(a)'
    PROVE  HostHears(w)'
<1>1. PICK a \in Speech, base \in Nat, top \in Nat :
          /\ \E f, t : HopsLead(f, t, hops, a, top, w, pushed, base)
          /\ RemembersLast(base, top) /\ LastPushed(base) /\ Abstracts(a)
    BY DEF HostHears
<1>2. RemembersLast(base, top)' /\ LastPushed(base)'
    BY <1>1 DEF RemembersLast, LastPushed
<1>3. Abstracts(a)'
    BY <1>1
<1>4. \E f, t : HopsLead(f, t, hops', a, top, w, pushed', base)
    BY <1>1
<1> QED BY <1>2, <1>3, <1>4 DEF HostHears

(* A frame is taken: a new one makes of the account what it makes of the   *)
(* observer, and the echo of one is known to it.                           *)
LEMMA FrameHeard ==
    ASSUME HostInv, RecordsInv, NEW w \in Speech, HostHears(w), OnPushFrame,
           UNCHANGED <<before, pushed, last>>
    PROVE  HostHears(w)' /\ RecordsInv'
<1> DEFINE type == Head(hops).type
           seen == observer.seen
<1>1. PICK a \in Speech, base \in Nat, top \in Nat :
          /\ \E f, t : HopsLead(f, t, hops, a, top, w, pushed, base)
          /\ RemembersLast(base, top) /\ LastPushed(base) /\ Abstracts(a)
    BY DEF HostHears
<1>2. PICK f, t : HopsLead(f, t, hops, a, top, w, pushed, base)
    BY <1>1
<1>3. /\ hops \in Seq(Frames) /\ hops # <<>> /\ hops' = Tail(hops) /\ ObserverTypes
      /\ seen \in Seq(Nat) /\ DOMAIN seen = 1 .. Len(seen)
      /\ memory' = memory /\ holder' = holder
    BY DEF OnPushFrame, HostInv, ObserverTypes, Observers, trackerVars
<1>4. LastPushed(base)' /\ RecordsInv'
    BY <1>1, FrameJob DEF LastPushed
<1>5. CASE /\ Head(hops).id = top + 1
           /\ \E g, u : HopsLead(g, u, Tail(hops), After(a, type), top + 1, w, pushed, base)
    <2>1. Head(hops).id \notin ToSet(seen)
        <3>1. \A i \in 1 .. Len(seen) : seen[i] # top + 1
            <4>1. \A i \in 1 .. Len(seen) : seen[i] <= top /\ seen[i] \in Nat
                BY <1>1, <1>3 DEF RemembersLast
            <4> HIDE DEF seen
            <4> QED BY <4>1
        <3> QED BY <1>3, <1>5, <3>1 DEF ToSet
    <2>2. RemembersLast(base, top + 1)'
        <3>1. observer'.seen = Remembers(seen, top + 1)
            BY <1>5, <2>1, FrameJob
        <3> QED BY <1>1, <1>3, <3>1, RemembersNext
    <2> DEFINE b == After(a, type)
    <2>3. PICK kind : kind = type
        OBVIOUS
    <2>4. Abstracts(After(a, kind))'
        BY <1>1, <2>1, <2>3, HandlesFrame
    <2>5. After(a, kind) \in Speech
        BY AfterEffect
    <2>6. \E g, u : HopsLead(g, u, hops', After(a, kind), top + 1, w, pushed', base)
        BY <1>3, <1>5, <2>3
    <2>7. top + 1 \in Nat
        OBVIOUS
    <2> QED BY <1>4, <2>2, <2>4, <2>5, <2>6, <2>7 DEF HostHears
<1>6. CASE /\ Head(hops).id = top - 1 /\ Head(hops).id > base
           /\ \E g, u : HopsLead(g, u, Tail(hops), a, top, w, pushed, base)
    <2>1. Head(hops).id \in ToSet(seen)
        <3>1. top > base + 1
            BY <1>6
        <3>2. Len(seen) >= 2 /\ seen[Len(seen) - 1] = top - 1
            BY <1>1, <3>1 DEF RemembersLast
        <3> DEFINE n == Len(seen) - 1
        <3>3. n \in DOMAIN seen /\ seen[n] = Head(hops).id
            BY <1>3, <1>6, <3>2
        <3> HIDE DEF n
        <3> QED BY <3>3 DEF ToSet
    <2>2. UNCHANGED <<observer, job>>
        BY <2>1, FrameJob
    <2>3. RemembersLast(base, top)'
        BY <1>1, <2>2 DEF RemembersLast
    <2>4. Recorded' = Recorded
        BY <1>3, <2>2 DEF Recorded, Waits, Timelines
    <2>5. Abstracts(a)'
        BY <1>1, <2>2, <2>4, AccountKept
    <2>6. \E g, u : HopsLead(g, u, hops', a, top, w, pushed', base)
        BY <1>3, <1>6
    <2> QED BY <1>4, <2>3, <2>5, <2>6 DEF HostHears
<1>7. \/ /\ Head(hops).id = top + 1
         /\ \E g, u : HopsLead(g, u, Tail(hops), After(a, type), top + 1, w, pushed, base)
      \/ /\ Head(hops).id = top - 1 /\ Head(hops).id > base
         /\ \E g, u : HopsLead(g, u, Tail(hops), a, top, w, pushed, base)
    BY <1>2, <1>3, HopsFromHead
<1> QED BY <1>5, <1>6, <1>7

(* A frame is pushed, and the one before it makes its last hop.            *)
LEMMA PushHeard ==
    ASSUME HostInv, NEW w \in Speech, HostHears(w), NEW type \in
               {"userStarted", "userStopped", "transcription", "botStarted", "botStopped"},
           Pushes(type), before' = before
    PROVE  HostHears(After(w, type))'
<1> DEFINE frame == [id |-> pushed + 1, type |-> type]
           one == Append(hops, frame)
<1>1. PICK a \in Speech, base \in Nat, top \in Nat :
          /\ \E f, t : HopsLead(f, t, hops, a, top, w, pushed, base)
          /\ RemembersLast(base, top) /\ LastPushed(base) /\ Abstracts(a)
    BY DEF HostHears
<1>2. PICK f, t : HopsLead(f, t, hops, a, top, w, pushed, base)
    BY <1>1
<1>3. /\ hops \in Seq(Frames) /\ pushed \in Nat /\ last \in Frames
      /\ frame \in Frames /\ frame.id = pushed + 1 /\ frame.type = type
      /\ frame # NoFrame
    BY DEF HostInv, ObserverTypes, Frames, NoFrame
<1>4. /\ pushed' = pushed + 1 /\ last' = frame
      /\ hops' = hops \o IF last = NoFrame THEN <<frame>> ELSE <<frame, last>>
      /\ UNCHANGED <<observer, job, memory, holder>>
    BY DEF Pushes, trackerVars
<1> HIDE DEF frame
<1>5. PICK g, u : HopsLead(g, u, one, a, top, After(w, type), pushed + 1, base)
    BY <1>2, <1>3, HopsToLast
<1>6. one \in Seq(Frames) /\ one = hops \o <<frame>>
    BY <1>3, AppendProperties, AppendIsConcat
<1>7. \E g2, u2 : HopsLead(g2, u2, hops', a, top, After(w, type), pushed', base)
    <2>1. CASE last = NoFrame
        BY <1>4, <1>5, <1>6, <2>1
    <2>2. CASE last # NoFrame
        <3>1. last.id = (pushed + 1) - 1 /\ last.id > base
            BY <1>1, <1>3, <2>2 DEF LastPushed
        <3> HIDE DEF one
        <3>2. \E g2, u2 : HopsLead(g2, u2, Append(one, last), a, top, After(w, type),
                                  pushed + 1, base)
            BY <1>3, <1>5, <1>6, <3>1, HopsToLast
        <3>3. Append(one, last) = hops'
            <4>1. Append(one, last) = one \o <<last>>
                BY <1>3, <1>6, AppendIsConcat
            <4>2. (hops \o <<frame>>) \o <<last>> = hops \o (<<frame>> \o <<last>>)
                <5>1. <<frame>> \in Seq(Frames) /\ <<last>> \in Seq(Frames)
                    BY <1>3
                <5> QED BY <1>3, <5>1, ConcatAssociative
            <4>3. <<frame>> \o <<last>> = <<frame, last>>
                <5> DEFINE p == <<frame>>
                           q == <<last>>
                           r == <<frame, last>>
                <5>1. /\ p \in Seq(Frames) /\ q \in Seq(Frames) /\ r \in Seq(Frames)
                      /\ Len(p) = 1 /\ Len(q) = 1 /\ Len(r) = 2
                      /\ p[1] = r[1] /\ q[1] = r[2]
                    BY <1>3
                <5> HIDE DEF p, q, r
                <5>2. /\ p \o q \in Seq(Frames) /\ Len(p \o q) = 2
                      /\ \A i \in 1 .. 2 : (p \o q)[i] = r[i]
                    <6>1. /\ p \o q \in Seq(Frames) /\ Len(p \o q) = Len(p) + Len(q)
                          /\ \A i \in 1 .. Len(p) + Len(q) :
                                (p \o q)[i] = IF i <= Len(p) THEN p[i] ELSE q[i - Len(p)]
                        BY <5>1, ConcatProperties
                    <6> DEFINE pq == p \o q
                    <6>2. /\ pq \in Seq(Frames) /\ Len(pq) = 2
                          /\ \A i \in 1 .. 2 : pq[i] = IF i <= 1 THEN p[i] ELSE q[i - 1]
                        BY <5>1, <6>1
                    <6> HIDE DEF pq
                    <6>3. pq[1] = r[1] /\ pq[2] = r[2]
                        BY <5>1, <6>2
                    <6>4. \A i \in 1 .. 2 : pq[i] = r[i]
                        <7>1. \A i \in 1 .. 2 : i = 1 \/ i = 2
                            OBVIOUS
                        <7> QED BY <6>3, <7>1
                    <6> QED BY <6>2, <6>4 DEF pq
                <5>3. p \o q = r
                    BY <5>1, <5>2, SeqEqual
                <5> QED BY <5>3 DEF p, q, r
            <4> QED BY <1>4, <1>6, <2>2, <4>1, <4>2, <4>3
        <3> QED BY <1>4, <3>2, <3>3
    <2> QED BY <2>1, <2>2
<1>8. LastPushed(base)'
    BY <1>1, <1>3, <1>4 DEF LastPushed
<1>9. RemembersLast(base, top)'
    BY <1>1, <1>4 DEF RemembersLast
<1>10. Abstracts(a)'
    <2>1. Recorded' = Recorded
        BY <1>4 DEF Recorded, Waits, Timelines
    <2> QED BY <1>1, <1>4, <2>1, AccountKept
<1> QED BY <1>7, <1>8, <1>9, <1>10 DEF HostHears

-----------------------------------------------------------------------------
(* The page: what it hears is what happened.                               *)

(* No message comes or is heard.                                           *)
LEMMA PageStill ==
    ASSUME NEW w, PageHears(w), down' = down, page'.botSpeaking = page.botSpeaking,
           page'.bargeInStarted = page.bargeInStarted
    PROVE  PageHears(w)'
<1>1. PICK p \in Speech : /\ p.bot <=> page.botSpeaking
                          /\ p.barge <=> page.bargeInStarted
                          /\ \E f : Leads(f, down, p, w)
    BY DEF PageHears
<1>2. \E f : Leads(f, down', p, w)
    BY <1>1
<1> QED BY <1>1, <1>2 DEF PageHears

(* A message is sent.                                                      *)
LEMMA MessageSent ==
    ASSUME PageTypes, NEW w, PageHears(w), NEW m \in Down, Tells(m)
    PROVE  PageHears(After(w, m.type))'
<1>1. PICK p \in Speech : /\ p.bot <=> page.botSpeaking
                          /\ p.barge <=> page.bargeInStarted
                          /\ \E f : Leads(f, down, p, w)
    BY DEF PageHears
<1>2. down \in Seq(Down) /\ down' = Append(down, m) /\ page' = page
    BY DEF PageTypes, Tells
<1>3. \E g : Leads(g, down', p, After(w, m.type))
    BY <1>1, <1>2, LeadsToLast
<1> QED BY <1>1, <1>2, <1>3 DEF PageHears

(* What each message makes of the page is what its event makes of the      *)
(* account.                                                                *)
LEMMA MessageHeard ==
    ASSUME PageTypes, NEW w, PageHears(w), Callbacks
    PROVE  PageHears(w)' /\ InSession /\ InSession'
<1> DEFINE type == Head(down).type
<1>1. PICK p \in Speech : /\ p.bot <=> page.botSpeaking
                          /\ p.barge <=> page.bargeInStarted
                          /\ \E f : Leads(f, down, p, w)
    BY DEF PageHears
<1>2. page \in Pages /\ page.botSpeaking \in BOOLEAN /\ page.bargeInStarted \in BOOLEAN
    BY DEF PageTypes, Pages
<1>3. CASE Playing
    <2>1. down' = down /\ page' = page /\ InSession /\ InSession'
        BY <1>3 DEF Playing, InSession
    <2> QED BY <2>1, PageStill
<1>4. CASE ~ Playing
    <2>1. /\ \E kind : Receives(kind)
          /\ InSession /\ InSession'
          /\ page'.botSpeaking <=>
                type = "botStarted" \/ (type # "botStopped" /\ page.botSpeaking)
          /\ page'.bargeInStarted <=>
                \/ type = "userStarted" /\ page.botSpeaking
                \/ type # "botStopped" /\ page.bargeInStarted
        <3>1. CASE OnBotReady
            BY <1>2, <3>1 DEF OnBotReady, Receives, InSession
        <3>2. CASE OnUserStartedSpeaking
            BY <1>2, <3>2 DEF OnUserStartedSpeaking, Receives, InSession, Pages
        <3>3. CASE OnUserStoppedSpeaking
            BY <1>2, <3>3 DEF OnUserStoppedSpeaking, Receives, InSession, Pages
        <3>4. CASE OnBotStartedSpeaking
            BY <1>2, <3>4 DEF OnBotStartedSpeaking, Receives, InSession, Pages
        <3>5. CASE OnBotStoppedSpeaking
            BY <1>2, <3>5 DEF OnBotStoppedSpeaking, Receives, InSession, Pages
        <3>6. ASSUME NEW role, NEW text, NEW partial, AppendTranscript(role, text, partial)
              PROVE  /\ page'.botSpeaking = page.botSpeaking
                     /\ page'.bargeInStarted = page.bargeInStarted
            BY <1>2, <3>6 DEF AppendTranscript, AppendsPartial, AppendsFinal, Pages
        <3>7. CASE OnUserTranscript
            <4>1. /\ page'.botSpeaking = page.botSpeaking
                  /\ page'.bargeInStarted = page.bargeInStarted
                BY <3>6, <3>7 DEF OnUserTranscript
            <4> QED BY <1>2, <3>7, <4>1 DEF OnUserTranscript, Receives, InSession
        <3>8. CASE OnBotOutput
            <4>1. /\ page'.botSpeaking = page.botSpeaking
                  /\ page'.bargeInStarted = page.bargeInStarted
                BY <3>6, <3>8 DEF OnBotOutput
            <4> QED BY <1>2, <3>8, <4>1 DEF OnBotOutput, Receives, InSession
        <3> QED BY <1>4, <3>1, <3>2, <3>3, <3>4, <3>5, <3>7, <3>8 DEF Callbacks
    <2>2. down \in Seq(Down) /\ down # <<>> /\ down' = Tail(down)
        BY <2>1 DEF Receives, PageTypes
    <2>3. PICK kind : kind = type
        OBVIOUS
    <2>4. \E g : Leads(g, down', After(p, kind), w)
        BY <1>1, <2>2, <2>3, LeadsFromHead
    <2>5. /\ After(p, kind) \in Speech
          /\ After(p, kind).bot <=> kind = "botStarted" \/ (kind # "botStopped" /\ p.bot)
          /\ After(p, kind).barge <=>
                (kind = "userStarted" /\ p.bot) \/ (kind # "botStopped" /\ p.barge)
        BY AfterEffect
    <2>6. /\ After(p, kind).bot <=> page'.botSpeaking
          /\ After(p, kind).barge <=> page'.bargeInStarted
        BY <1>1, <2>1, <2>3, <2>5
    <2> QED BY <2>1, <2>4, <2>5, <2>6 DEF PageHears
<1> QED BY <1>3, <1>4

-----------------------------------------------------------------------------
(* Both ends hear what happens.                                            *)

(* Something is said or done: an event of both ends, or a message to the   *)
(* page only.                                                              *)
LEMMA HappensToBoth ==
    ASSUME HostInv, PageTypes, EndsInv, NEW m \in Down, Tells(m),
           \/ /\ UNCHANGED <<timelineVars, pushed, last, botSpeaking, turnVars>>
              /\ m.type \notin {"userStarted", "userStopped", "botStarted", "botStopped"}
           \/ /\ m.type \notin {"userStarted", "userStopped", "botStarted", "botStopped"}
              /\ Pushes("transcription")
              /\ UNCHANGED <<botSpeaking, turnVars>>
           \/ /\ m.type \in {"userStarted", "userStopped", "botStarted", "botStopped"}
              /\ Pushes(m.type)
              /\ \A w \in Speech : HappensSo(w) => HappensSo(After(w, m.type))'
    PROVE  EndsInv'
<1> DEFINE K == {"userStarted", "userStopped", "botStarted", "botStopped"}
<1>1. InSession /\ InSession' /\ UNCHANGED <<before, carried, memory, job, clientJobs>>
    BY DEF Tells, InSession, Pushes, timelineVars, trackerVars
<1>2. RecordsInv' /\ Apart'
    BY <1>1 DEF EndsInv, RecordsInv, Apart
<1>3. PICK w \in Speech : HappensSo(w) /\ HostFollows(w) /\ (carried \/ PageHears(w))
    BY <1>1 DEF EndsInv, HeardByBoth
<1>4. /\ After(w, m.type) \in Speech
      /\ m.type \notin K => After(w, m.type) = w
      /\ After(w, "transcription") = w
    BY AfterEffect DEF After
<1>5. carried' \/ PageHears(After(w, m.type))'
    BY <1>1, <1>3, MessageSent
<1>6. CASE UNCHANGED <<timelineVars, pushed, last, botSpeaking, turnVars>> /\ m.type \notin K
    <2>1. HappensSo(w)'
        BY <1>3, <1>6 DEF HappensSo, turnVars
    <2>2. UNCHANGED <<observer, hops, job, memory, holder>>
        BY <1>6 DEF timelineVars, trackerVars
    <2>3. Recorded' = Recorded
        BY <1>1, <2>2 DEF Recorded, Waits, Timelines
    <2>4. \A a \in Speech : Abstracts(a) => Abstracts(a)'
        BY <2>2, <2>3, AccountKept
    <2>5. HostFollows(w)'
        BY <1>1, <1>3, <1>6, <2>2, <2>4, HeardStays DEF HostFollows
    <2> QED BY <1>2, <1>3, <1>4, <1>5, <1>6, <2>1, <2>5 DEF EndsInv, HeardByBoth
<1>7. CASE m.type \notin K /\ Pushes("transcription") /\ UNCHANGED <<botSpeaking, turnVars>>
    <2>1. HappensSo(w)'
        BY <1>3, <1>7 DEF HappensSo, turnVars
    <2>2. HostFollows(After(w, "transcription"))'
        BY <1>1, <1>3, <1>7, PushHeard DEF HostFollows
    <2>3. HostFollows(w)'
        BY <1>4, <2>2
    <2> QED BY <1>2, <1>3, <1>4, <1>5, <1>7, <2>1, <2>3 DEF EndsInv, HeardByBoth
<1>8. CASE /\ m.type \in K /\ Pushes(m.type)
           /\ \A v \in Speech : HappensSo(v) => HappensSo(After(v, m.type))'
    <2>1. HappensSo(After(w, m.type))'
        BY <1>3, <1>8
    <2>2. HostFollows(After(w, m.type))'
        BY <1>1, <1>3, <1>8, PushHeard DEF HostFollows
    <2> QED BY <1>2, <1>4, <1>5, <2>1, <2>2 DEF EndsInv, HeardByBoth
<1> QED BY <1>6, <1>7, <1>8

(* The conversation.                                                       *)
LEMMA ConversationHeard ==
    ASSUME MInv, EndsInv, Conversation
    PROVE  EndsInv'
<1>1. HostInv /\ PageTypes
    BY DEF MInv
<1>2. \A t \in {"ready", "userStarted", "userStopped", "botStarted", "botStopped"} :
          [type |-> t] \in Down
    BY DEF Down
<1>3. CASE AnswersReady
    <2> DEFINE m == [type |-> "ready"]
    <2>1. /\ m \in Down /\ m.type = "ready" /\ Tells(m)
          /\ UNCHANGED <<timelineVars, pushed, last, botSpeaking, turnVars>>
        BY <1>2, <1>3 DEF AnswersReady
    <2> HIDE DEF m
    <2> QED BY <1>1, <2>1, HappensToBoth
<1>4. CASE ClientMessage
    <2>1. /\ up # <<>> /\ OnClientMessage(Head(up)) /\ Len(clientJobs) < MaxJobs
          /\ UNCHANGED <<page, conn, down, worldVars>> /\ UNCHANGED <<hops, job>>
        BY <1>4 DEF ClientMessage, OnClientMessage
    <2>2. InSession /\ InSession'
        BY <2>1 DEF EndsInv, Apart, InSession
    <2>3. Head(up) \in Up
        BY <1>1, <2>1, EmptySeq DEF PageTypes
    <2>4. UNCHANGED <<before, pushed, last, carried, botSpeaking, turns, order, early>>
        BY <2>1 DEF worldVars
    <2>5. RecordsInv' /\ \A a \in Speech : Abstracts(a) => Abstracts(a)'
        BY <1>1, <2>1, <2>3, <2>4, ClientAccount DEF EndsInv
    <2>6. PICK w \in Speech : HappensSo(w) /\ HostFollows(w) /\ (carried \/ PageHears(w))
        BY <2>2 DEF EndsInv, HeardByBoth
    <2>7. observer'.seen = observer.seen
        BY <1>1, <2>1 DEF OnClientMessage, Marked, HostInv, ObserverTypes, Observers
    <2>8. HostFollows(w)'
        BY <2>1, <2>4, <2>5, <2>6, <2>7, HeardStays DEF HostFollows
    <2>9. RecordsInv'
        BY <2>5
    <2>10. HappensSo(w)'
        BY <2>4, <2>6 DEF HappensSo
    <2>11. carried' \/ PageHears(w)'
        BY <2>1, <2>4, <2>6, PageStill
    <2> QED BY <2>2, <2>6, <2>8, <2>9, <2>10, <2>11 DEF EndsInv, Apart, HeardByBoth
<1>5. CASE UserStarts
    <2> DEFINE m == [type |-> "userStarted"]
    <2>1. m \in Down /\ m.type = "userStarted" /\ Tells(m) /\ Pushes("userStarted")
        BY <1>2, <1>5 DEF UserStarts
    <2>2. \A w \in Speech : HappensSo(w) => HappensSo(After(w, "userStarted"))'
        <3> SUFFICES ASSUME NEW w \in Speech, HappensSo(w)
                     PROVE  HappensSo(After(w, "userStarted"))'
            OBVIOUS
        <3>1. w.bot \in BOOLEAN /\ After(w, "userStarted").bot \in BOOLEAN
            BY AfterEffect DEF Speech
        <3>2. After(w, "userStarted").bot = w.bot
            BY <3>1, AfterEffect
        <3>3. CASE botSpeaking
            <4>1. UNCHANGED <<botSpeaking, turnVars>>
                BY <1>5, <3>3 DEF UserStarts
            <4>2. w.bot
                BY <3>3, Zenon DEF HappensSo
            <4>3. /\ After(w, "userStarted").turns = w.turns
                  /\ After(w, "userStarted").early = w.early
                  /\ After(w, "userStarted").order = w.order
                BY <4>2, AfterEffect
            <4> QED BY <3>2, <4>1, <4>3 DEF HappensSo, turnVars
        <3>4. CASE ~ botSpeaking
            <4>1. /\ turns' = turns + 1 /\ order' = "begun" /\ botSpeaking' = botSpeaking
                  /\ early' = early + IF order = "early" THEN 1 ELSE 0
                BY <1>5, <3>4 DEF UserStarts
            <4> QED BY <3>2, <3>4, <4>1, AfterEffect DEF HappensSo
        <3> QED BY <3>3, <3>4
    <2> HIDE DEF m
    <2> QED BY <1>1, <2>1, <2>2, HappensToBoth
<1>6. CASE UserStops
    <2> DEFINE m == [type |-> "userStopped"]
    <2>1. m \in Down /\ m.type = "userStopped" /\ Tells(m) /\ Pushes("userStopped")
        BY <1>2, <1>6 DEF UserStops
    <2>2. \A w \in Speech : HappensSo(w) => HappensSo(After(w, "userStopped"))'
        <3> SUFFICES ASSUME NEW w \in Speech, HappensSo(w)
                     PROVE  HappensSo(After(w, "userStopped"))'
            OBVIOUS
        <3>1. w.bot \in BOOLEAN /\ After(w, "userStopped").bot \in BOOLEAN
            BY AfterEffect DEF Speech
        <3>2. After(w, "userStopped").bot = w.bot
            BY <3>1, AfterEffect
        <3>3. /\ order' = IF order = "begun" THEN "heard" ELSE order
              /\ UNCHANGED <<turns, early, botSpeaking>>
            BY <1>6 DEF UserStops
        <3> QED BY <3>2, <3>3, AfterEffect DEF HappensSo
    <2> HIDE DEF m
    <2> QED BY <1>1, <2>1, <2>2, HappensToBoth
<1>7. CASE BotStarts
    <2> DEFINE m == [type |-> "botStarted"]
    <2>1. m \in Down /\ m.type = "botStarted" /\ Tells(m) /\ Pushes("botStarted")
        BY <1>2, <1>7 DEF BotStarts
    <2>2. \A w \in Speech : HappensSo(w) => HappensSo(After(w, "botStarted"))'
        <3> SUFFICES ASSUME NEW w \in Speech, HappensSo(w)
                     PROVE  HappensSo(After(w, "botStarted"))'
            OBVIOUS
        <3>1. After(w, "botStarted").bot \in BOOLEAN
            BY AfterEffect DEF Speech
        <3>2. After(w, "botStarted").bot = TRUE
            BY <3>1, AfterEffect
        <3>3. /\ order' = IF order = "begun" THEN "early" ELSE order
              /\ UNCHANGED <<turns, early>> /\ botSpeaking' = TRUE
            BY <1>7 DEF BotStarts
        <3>4. /\ After(w, "botStarted").turns = w.turns
              /\ After(w, "botStarted").early = w.early
              /\ After(w, "botStarted").order = IF w.order = "begun" THEN "early" ELSE w.order
            BY AfterEffect
        <3> QED BY <3>2, <3>3, <3>4 DEF HappensSo
    <2> HIDE DEF m
    <2> QED BY <1>1, <2>1, <2>2, HappensToBoth
<1>8. CASE BotStops
    <2> DEFINE m == [type |-> "botStopped"]
    <2>1. m \in Down /\ m.type = "botStopped" /\ Tells(m) /\ Pushes("botStopped")
        BY <1>2, <1>8 DEF BotStops
    <2>2. \A w \in Speech : HappensSo(w) => HappensSo(After(w, "botStopped"))'
        <3> SUFFICES ASSUME NEW w \in Speech, HappensSo(w)
                     PROVE  HappensSo(After(w, "botStopped"))'
            OBVIOUS
        <3>1. After(w, "botStopped").bot \in BOOLEAN
            BY AfterEffect DEF Speech
        <3>2. After(w, "botStopped").bot = FALSE
            BY <3>1, AfterEffect
        <3>3. UNCHANGED <<turns, order, early>> /\ botSpeaking' = FALSE
            BY <1>8 DEF BotStops, turnVars
        <3> QED BY <3>2, <3>3, AfterEffect DEF HappensSo
    <2> HIDE DEF m
    <2> QED BY <1>1, <2>1, <2>2, HappensToBoth
<1>9. ASSUME NEW text \in {Blank, 1}, NEW final \in BOOLEAN, Recognises(text, final)
      PROVE  EndsInv'
    <2> DEFINE m == [type |-> "transcript", text |-> text, final |-> final]
    <2>1. /\ m \in Down /\ m.type = "transcript" /\ Tells(m)
          /\ UNCHANGED <<botSpeaking, turnVars>>
          /\ Pushes("transcription") \/ UNCHANGED <<timelineVars, pushed, last>>
        BY <1>9 DEF Recognises, Down
    <2> HIDE DEF m
    <2> QED BY <1>1, <2>1, HappensToBoth
<1>10. CASE Replies(1)
    <2> DEFINE m == [type |-> "output", text |-> 1]
    <2>1. /\ m \in Down /\ m.type = "output" /\ Tells(m)
          /\ UNCHANGED <<timelineVars, pushed, last, botSpeaking, turnVars>>
        BY <1>10 DEF Replies, Down
    <2> HIDE DEF m
    <2> QED BY <1>1, <2>1, HappensToBoth
<1> QED BY <1>3, <1>4, <1>5, <1>6, <1>7, <1>8, <1>9, <1>10 DEF Conversation

(* What the tasks and threads of the host do, and the clock.               *)
LEMMA RecordingHeard ==
    ASSUME MInv, EndsInv, Recording \/ ClockTicks, UNCHANGED <<pageVars, worldVars>>
    PROVE  EndsInv'
<1>1. /\ HostInv /\ ObserverTypes /\ RecordsInv
      /\ UNCHANGED <<page, conn, down, up, before, pushed, last, carried, botSpeaking, turns,
                     order, early>>
      /\ (InSession <=> InSession')
    BY DEF MInv, HostInv, EndsInv, pageVars, worldVars, InSession
<1>2. CASE ~ InSession
    <2>1. hops = <<>> /\ job = Idle /\ clientJobs = <<>> /\ observer = NewObserver
        BY <1>2 DEF EndsInv, Apart
    <2>2. holder = Nobody
        BY <1>1, <2>1 DEF ObserverTypes, HostInv, TrackerInv, TrackerTypes, Idle
    <2>3. /\ ~ OnPushFrame /\ ~ ObserverRecords /\ ~ ObserverContinues /\ ~ ObserverFails
          /\ ~ ClientRecords /\ ~ ClientReturns
        BY <2>1, <2>2 DEF OnPushFrame, ObserverRecords, ObserverContinues, ObserverFails,
           ClientRecords, ClientReturns, Returns, Raises, LetsGo, Idle, Nobody
    <2>4. UNCHANGED <<hops, job, clientJobs, observer, memory>>
        BY <2>3 DEF Recording, ThreadBegins, Writes, LineBegun, LineWritten, LineFails,
           ClockTicks, trackerVars
    <2>5. RecordsInv' /\ Apart'
        BY <1>1, <2>4 DEF EndsInv, RecordsInv, Apart
    <2> QED BY <1>1, <1>2, <2>5 DEF EndsInv, HeardByBoth
<1>3. CASE InSession
    <2>1. PICK w \in Speech : HappensSo(w) /\ HostFollows(w) /\ (carried \/ PageHears(w))
        BY <1>3 DEF EndsInv, HeardByBoth
    <2>2. HostFollows(w)' /\ RecordsInv'
        <3>1. CASE OnPushFrame
            <4>1. HostHears(w)
                BY <2>1, <3>1 DEF HostFollows, OnPushFrame, Idle, Failed
            <4> QED BY <1>1, <3>1, <4>1, FrameHeard DEF HostFollows
        <3>2. CASE ObserverFails
            BY <1>1, <3>2, ObserverFailsAccount DEF HostFollows
        <3>3. CASE ObserverRecords \/ ObserverContinues
            <4>1. job.records # <<>>
                BY <1>1, <3>3 DEF ObserverRecords, ObserverContinues, Returns, LetsGo,
                   HostInv, ObserverTypes
            <4>2. HostHears(w)
                BY <2>1, <4>1 DEF HostFollows, Failed
            <4>3. \A a \in Speech : Abstracts(a) => Abstracts(a)' /\ RecordsInv'
                BY <1>1, <3>3, ObserverRecordsAccount, ObserverContinuesAccount
            <4>4. UNCHANGED hops /\ observer'.seen = observer.seen
                <5>1. CASE ObserverContinues
                    <6>1. observer' = observer \/ observer' = Continued
                        BY <5>1 DEF ObserverContinues
                    <6>2. Continued.seen = observer.seen
                        BY <1>1 DEF Continued, ObserverTypes, Observers
                    <6> QED BY <5>1, <6>1, <6>2 DEF ObserverContinues
                <5>2. CASE ObserverRecords
                    BY <5>2 DEF ObserverRecords
                <5> QED BY <3>3, <5>1, <5>2
            <4>5. RecordsInv'
                BY <4>2, <4>3 DEF HostHears
            <4> QED BY <1>1, <4>2, <4>3, <4>4, <4>5, HeardStays DEF HostFollows
        <3>4. CASE ClientRecords \/ ClientReturns \/ ThreadBegins \/ Writes \/ ClockTicks
            <4>1. job' = job /\ RecordsInv' /\ \A a : Abstracts(a) => Abstracts(a)'
                BY <1>1, <3>4, ClientAccount
            <4>2. UNCHANGED hops /\ observer'.seen = observer.seen
                BY <3>4 DEF ClientRecords, ClientReturns, ThreadBegins, Writes, ClockTicks
            <4> QED BY <1>1, <2>1, <4>1, <4>2, HeardStays DEF HostFollows
        <3> QED BY <3>1, <3>2, <3>3, <3>4 DEF Recording
    <2>3. carried' \/ PageHears(w)'
        BY <1>1, <2>1, PageStill
    <2>4. HappensSo(w)'
        BY <1>1, <2>1 DEF HappensSo
    <2> QED BY <1>1, <1>3, <2>2, <2>3, <2>4 DEF EndsInv, Apart, HeardByBoth
<1> QED BY <1>2, <1>3

(* What does not touch the host.                                           *)
LEMMA HostUntouched ==
    ASSUME EndsInv, UNCHANGED <<timelineVars, worldVars>>
    PROVE  /\ RecordsInv'
           /\ \A w : HappensSo(w) /\ HostFollows(w) => HappensSo(w)' /\ HostFollows(w)'
<1>1. UNCHANGED <<observer, hops, job, clientJobs, memory, holder, before, pushed, last,
                  botSpeaking, turns, order, early>>
    BY DEF timelineVars, trackerVars, worldVars
<1>2. Recorded' = Recorded
    BY <1>1 DEF Recorded, Waits, Timelines
<1>3. \A a \in Speech : Abstracts(a) => Abstracts(a)'
    BY <1>1, <1>2, AccountKept
<1>4. \A w : HostFollows(w) => HostFollows(w)'
    BY <1>1, <1>3, HeardStays DEF HostFollows
<1>5. \A w : HappensSo(w) => HappensSo(w)'
    BY <1>1 DEF HappensSo
<1> QED BY <1>1, <1>4, <1>5 DEF EndsInv, RecordsInv

(* The page's callbacks, its button, and the nothing of a stutter.         *)
LEMMA PageStepHeard ==
    ASSUME MInv, EndsInv, Callbacks \/ ClearTranscript \/ UNCHANGED pageVars,
           UNCHANGED <<timelineVars, worldVars>>
    PROVE  EndsInv'
<1>1. PageTypes /\ RecordsInv'
    BY HostUntouched DEF MInv
<1>2. UNCHANGED <<observer, hops, job, clientJobs, last, botSpeaking, carried>>
    BY DEF timelineVars, worldVars
<1>3. CASE Callbacks
    <2>1. InSession /\ InSession' /\ \A w : PageHears(w) => PageHears(w)'
        <3>1. InSession /\ InSession'
            BY <1>1, <1>3 DEF Callbacks, InSession, OnBotReady, OnUserStartedSpeaking,
               OnUserStoppedSpeaking, OnBotStartedSpeaking, OnBotStoppedSpeaking,
               OnUserTranscript, OnBotOutput, Playing, Receives
        <3> QED BY <1>1, <1>3, <3>1, MessageHeard
    <2> QED BY <1>1, <1>2, <2>1, HostUntouched DEF EndsInv, Apart, HeardByBoth
<1>4. CASE ClearTranscript \/ UNCHANGED pageVars
    <2>1. /\ UNCHANGED <<conn, down, up>>
          /\ page'.botSpeaking = page.botSpeaking
          /\ page'.bargeInStarted = page.bargeInStarted
        BY <1>1, <1>4 DEF ClearTranscript, pageVars, PageTypes, Pages
    <2>2. \A w : PageHears(w) => PageHears(w)'
        BY <2>1, PageStill
    <2>3. InSession <=> InSession'
        BY <2>1 DEF InSession
    <2>4. Apart'
        BY <1>2, <2>1, <2>3 DEF EndsInv, Apart
    <2> QED BY <1>1, <1>2, <2>2, <2>3, <2>4, HostUntouched DEF EndsInv, HeardByBoth
<1> QED BY <1>3, <1>4

(* A session begins: nothing has happened, and nothing is on its way.      *)
LEMMA NewSessionHeard ==
    ASSUME MInv, EndsInv, NewSession
    PROVE  EndsInv'
<1> DEFINE w == [bot |-> FALSE, barge |-> FALSE, turns |-> 0, order |-> "none", early |-> 0]
<1>1. /\ conn = "off" /\ conn' = "connecting" /\ ~ InSession /\ InSession'
      /\ UNCHANGED <<page, down, observer, hops, job, clientJobs, memory, holder, pushed, last,
                     botSpeaking>>
      /\ turns' = 0 /\ order' = "none" /\ early' = 0
      /\ before' = Len(memory) /\ carried' = page.bargeInStarted
    BY DEF NewSession, Connects, InSession, timelineVars, trackerVars
<1>2. /\ observer = NewObserver /\ hops = <<>> /\ job = Idle /\ clientJobs = <<>>
      /\ down = <<>> /\ last = NoFrame /\ ~ botSpeaking /\ ~ page.botSpeaking
    BY <1>1 DEF EndsInv, Apart
<1>3. /\ memory \in Seq(Metrics) /\ Len(memory) \in Nat /\ pushed \in Nat
    BY DEF MInv, HostInv, TrackerInv, TrackerTypes, ObserverTypes
<1>4. RecordsInv' /\ Apart'
    BY <1>1, <1>3 DEF EndsInv, RecordsInv, Apart
<1>5. w \in Speech
    BY DEF Speech
<1>6. Timelines' = 0
    <2> DEFINE T == {i \in Len(memory) + 1 .. Len(memory) : memory[i] = "turn_timeline"}
    <2>1. T = {}
        BY <1>3
    <2>2. Timelines' = Cardinality(T)
        BY <1>1 DEF Timelines
    <2> HIDE DEF T
    <2> QED BY <2>1, <2>2, FS_EmptySet, Zenon
<1>7. HostHears(w)'
    <2> DEFINE f == [i \in 0 .. 0 |-> w]
               t == [i \in 0 .. 0 |-> pushed]
    <2>1. HopsLead(f, t, <<>>, w, pushed, w, pushed, pushed)
        <3>1. f[0] = w /\ t[0] = pushed /\ Len(<<>>) = 0
            OBVIOUS
        <3> HIDE DEF f, t, w
        <3> QED BY <3>1 DEF HopsLead
    <2> HIDE DEF f, t
    <2>2. \E g, u : HopsLead(g, u, hops', w, pushed, w, pushed', pushed)
        BY <1>1, <1>2, <2>1
    <2>3. observer'.seen = <<>> /\ observer'.botSpeaking = FALSE
          /\ observer'.bargeStartedAt = None /\ observer'.turn = NoMarks
        BY <1>1, <1>2 DEF NewObserver
    <2>4. RemembersLast(pushed, pushed)'
        BY <1>1, <1>3, <2>3 DEF RemembersLast
    <2>5. LastPushed(pushed)'
        BY <1>1, <1>2 DEF LastPushed
    <2>6. Recorded' = 0
        BY <1>1, <1>2, <1>6 DEF Recorded, Waits, Idle
    <2>7. NoMarks["vad_speech_start"] = None
        BY DEF NoMarks, Events
    <2>8. job'.then = "nothing"
        BY <1>1, <1>2 DEF Idle
    <2>9. Abstracts(w)'
        BY <2>3, <2>6, <2>7, <2>8 DEF Abstracts, Observes, Begun, Ordered, Counted
    <2>10. PICK base : base = pushed
        OBVIOUS
    <2> QED BY <1>1, <1>3, <1>5, <2>2, <2>4, <2>5, <2>9, <2>10 DEF HostHears
<1>8. HappensSo(w)'
    <2>1. botSpeaking = FALSE
        BY <1>2
    <2> QED BY <1>1, <2>1 DEF HappensSo
<1>9. carried' \/ PageHears(w)'
    <2>1. ASSUME ~ page.bargeInStarted PROVE PageHears(w)'
        <3> DEFINE f == [i \in 0 .. 0 |-> w]
        <3>1. Leads(f, <<>>, w, w)
            <4>1. f[0] = w /\ Len(<<>>) = 0
                OBVIOUS
            <4> HIDE DEF f, w
            <4> QED BY <4>1 DEF Leads
        <3> HIDE DEF f
        <3>2. \E g : Leads(g, down', w, w)
            BY <1>1, <1>2, <3>1
        <3>3. (w.bot <=> page'.botSpeaking) /\ (w.barge <=> page'.bargeInStarted)
            BY <1>1, <1>2, <2>1
        <3> QED BY <1>5, <3>2, <3>3 DEF PageHears
    <2> QED BY <1>1, <2>1
<1> QED BY <1>4, <1>5, <1>7, <1>8, <1>9 DEF EndsInv, HeardByBoth, HostFollows

(* A session ends.                                                         *)
LEMMA SessionOverHeard ==
    ASSUME MInv, EndsInv, SessionOver \/ RefusedConnect
    PROVE  EndsInv'
<1>1. /\ ~ InSession' /\ down' = <<>> /\ up' = <<>> /\ memory' = memory /\ before' = before
      /\ conn' = "off" => page'.botSpeaking = FALSE
    BY DEF SessionOver, RefusedConnect, Disconnects, ConnectionLost, LeavesSpeaking, InSession,
       WorkerEnds, Cancelled, timelineVars, trackerVars, worldVars, MInv, PageTypes, Pages
<1>2. CASE SessionOver
    <2>1. /\ observer' = NewObserver /\ hops' = <<>> /\ job' = Idle /\ clientJobs' = <<>>
          /\ last' = NoFrame /\ botSpeaking' = FALSE
        BY <1>2 DEF SessionOver, WorkerEnds
    <2>2. <<>> \in Seq({"client_audible_start", "client_barge_in_audible_stop"})
        BY EmptySeq
    <2>3. RecordsInv'
        BY <1>1, <2>1, <2>2 DEF EndsInv, RecordsInv, Idle
    <2> QED BY <1>1, <2>1, <2>3 DEF EndsInv, Apart, HeardByBoth
<1>3. CASE RefusedConnect
    <2>1. /\ UNCHANGED <<observer, hops, job, clientJobs, last, botSpeaking>> /\ ~ InSession
        BY <1>3 DEF RefusedConnect, timelineVars, worldVars, InSession
    <2>2. RecordsInv'
        BY <1>1, <2>1 DEF EndsInv, RecordsInv
    <2> QED BY <1>1, <2>1, <2>2 DEF EndsInv, Apart, HeardByBoth
<1> QED BY <1>2, <1>3

(* Both ends hear what happens, whatever happens.                          *)
LEMMA EndsStep == MInv /\ EndsInv /\ [Next]_vars => EndsInv'
<1> SUFFICES ASSUME MInv, EndsInv, [Next]_vars PROVE EndsInv'
    OBVIOUS
<1>1. CASE Conversation
    BY <1>1, ConversationHeard
<1>2. CASE (Callbacks \/ ClearTranscript) /\ UNCHANGED <<timelineVars, worldVars>>
    BY <1>2, PageStepHeard
<1>3. CASE (Recording \/ ClockTicks) /\ UNCHANGED <<pageVars, worldVars>>
    BY <1>3, RecordingHeard
<1>4. CASE NewSession
    BY <1>4, NewSessionHeard
<1>5. CASE SessionOver \/ RefusedConnect
    BY <1>5, SessionOverHeard
<1>6. CASE UNCHANGED vars
    BY <1>6, PageStepHeard DEF vars
<1> QED BY <1>1, <1>2, <1>3, <1>4, <1>5, <1>6 DEF Next

LEMMA EndsInit == Init => EndsInv
<1> SUFFICES ASSUME Init PROVE EndsInv
    OBVIOUS
<1>1. /\ memory = <<>> /\ hops = <<>> /\ observer = NewObserver /\ job = Idle
      /\ clientJobs = <<>> /\ last = NoFrame /\ botSpeaking = FALSE /\ before = 0
      /\ page = NewPage /\ conn = "off" /\ down = <<>> /\ up = <<>>
    BY DEF Init, ObserverInit, TrackerInit, PageInit
<1>2. <<>> \in Seq({"client_audible_start", "client_barge_in_audible_stop"})
      /\ Len(<<>>) = 0
    BY EmptySeq
<1>3. RecordsInv
    BY <1>1, <1>2 DEF RecordsInv, Idle
<1> QED BY <1>1, <1>3 DEF EndsInv, Apart, HeardByBoth, InSession, NewPage

LEMMA EndsInvariance == Spec => []EndsInv
BY EndsInit, EndsStep, MeasuresInvariance, PTL DEF Spec

(* Once frames and messages have come in, page and observer agree on who   *)
(* speaks and whether a barge-in is under way, unless a session before     *)
(* ended in the middle of one or a failed write has ended the observer.    *)
THEOREM BothEndsAgree == Spec => []EndsAgree
<1>1. ASSUME MInv, EndsInv PROVE EndsAgree
    <2> SUFFICES ASSUME conn = "up", down = <<>>, hops = <<>>, job = Idle, ~ carried
                 PROVE  /\ page.botSpeaking = observer.botSpeaking
                        /\ page.bargeInStarted = (observer.bargeStartedAt # None)
        BY DEF EndsAgree
    <2>1. PICK w \in Speech : HostHears(w) /\ PageHears(w)
        BY <1>1 DEF EndsInv, HeardByBoth, HostFollows, InSession, Idle, Failed
    <2>2. PICK a \in Speech, base \in Nat, top \in Nat :
              (\E f, t : HopsLead(f, t, hops, a, top, w, pushed, base)) /\ Abstracts(a)
        BY <2>1 DEF HostHears
    <2>3. PICK p \in Speech : /\ p.bot <=> page.botSpeaking
                              /\ p.barge <=> page.bargeInStarted
                              /\ \E f : Leads(f, down, p, w)
        BY <2>1 DEF PageHears
    <2>4. a = w
        BY <2>2, HopsLeadNowhere
    <2>5. p = w
        BY <2>3, LeadsNowhere
    <2>6. /\ w.bot <=> observer.botSpeaking
          /\ w.barge <=> observer.bargeStartedAt # None
        BY <2>2, <2>4 DEF Abstracts, Observes, Idle
    <2>7. /\ page.botSpeaking \in BOOLEAN /\ page.bargeInStarted \in BOOLEAN
          /\ observer.botSpeaking \in BOOLEAN
        BY <1>1 DEF MInv, HostInv, ObserverTypes, Observers, PageTypes, Pages
    <2> QED BY <2>3, <2>5, <2>6, <2>7
<1> QED BY <1>1, EndsInvariance, MeasuresInvariance, PTL

(* Every turn is recorded once when the next one begins, except for those  *)
(* the robot answered too early, which may be missing, and as long as no   *)
(* failed write has ended the observer.                                    *)
THEOREM EveryTurnIsRecorded == Spec => []TurnsAreRecorded
<1>1. ASSUME MInv, EndsInv PROVE TurnsAreRecorded
    <2> SUFFICES ASSUME InSession, turns > 0, hops = <<>>, job = Idle
                 PROVE  Timelines \in turns - 1 - early .. turns - 1
        BY DEF TurnsAreRecorded
    <2>1. PICK w \in Speech : HappensSo(w) /\ HostHears(w)
        BY <1>1 DEF EndsInv, HeardByBoth, HostFollows, Idle, Failed
    <2>2. PICK a \in Speech, base \in Nat, top \in Nat :
              (\E f, t : HopsLead(f, t, hops, a, top, w, pushed, base)) /\ Abstracts(a)
        BY <2>1 DEF HostHears
    <2>3. a = w
        BY <2>2, HopsLeadNowhere
    <2>4. turns \in Nat /\ early \in Nat /\ w.turns = turns /\ w.early = early
        BY <2>1 DEF HappensSo, Speech
    <2>5. Timelines \in Nat
        BY <1>1, TimelinesCount DEF MInv, HostInv, TrackerInv, TrackerTypes, EndsInv
    <2>6. Recorded = Timelines
        BY <2>5 DEF Recorded, Waits, Idle
    <2>7. turns - 1 - early <= Timelines /\ Timelines <= turns - 1
        BY <2>2, <2>3, <2>4, <2>6 DEF Abstracts, Counted
    <2> QED BY <2>4, <2>5, <2>7
<1> QED BY <1>1, EndsInvariance, MeasuresInvariance, PTL
=============================================================================
