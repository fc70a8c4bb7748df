------------------------------ MODULE BrowserPage ------------------------------
(***************************************************************************)
(* What the browser page, clients/browser/src/main.ts, measures and shows  *)
(* of a conversation: the callbacks of its Pipecat client, the transcript  *)
(* and the audio element that begins to play.  The messages of the host    *)
(* come in the order of the data channel.  Elapsed times are left out:     *)
(* whether a time is defined decides what is sent; so is the time it took  *)
(* to connect, which is sent once and only recorded.  An utterance is a    *)
(* number, blank text is 0.                                                *)
(***************************************************************************)
EXTENDS Naturals, SequencesExt

CONSTANT ChannelSize   (* bound: messages on their way, in each direction  *)

ASSUME ChannelAssumption == ChannelSize \in Nat

VARIABLES
    page,           (* its globals                                         *)
    transcript,     (* the nodes of the transcript                         *)
    conn,           (* the connection                                      *)
    heard,          (* the remote track plays                              *)
    down, up        (* the messages on their way                           *)

pageVars == <<page, transcript, conn, heard, down, up>>
-----------------------------------------------------------------------------
Blank == 0

NewPage ==
    [botSpeaking |-> FALSE, bargeInStarted |-> FALSE, userStopped |-> FALSE,
     partialUserMessage |-> Blank]

PageInit ==
    /\ page = NewPage
    /\ transcript = <<>>
    /\ conn = "off"
    /\ heard = FALSE
    /\ down = <<>>
    /\ up = <<>>
-----------------------------------------------------------------------------
(* postClientMessage: messages for a bot that is not ready are refused.    *)
Posts(messages) ==
    /\ Len(up) + Len(messages) <= ChannelSize
    /\ up' = IF conn = "up" THEN up \o messages ELSE up

(* appendTranscript.  The page holds the node of a partial message, which  *)
(* follows what is recognised and makes way for the final text.            *)
Node(role, text, partial) == [role |-> role, text |-> text, partial |-> partial]
IsPartial(node) == node.partial
Partials == {i \in DOMAIN transcript : IsPartial(transcript[i])}

AppendsPartial(text) ==
    /\ page' = [page EXCEPT !.partialUserMessage = text]
    /\ transcript' =
         IF page.partialUserMessage = Blank
         THEN Append(transcript, Node("user", text, TRUE))
         ELSE [i \in DOMAIN transcript |->
                 IF i \in Partials THEN Node("user", text, TRUE) ELSE transcript[i]]

AppendsFinal(role, text) ==
    LET replaces == role = "user" /\ page.partialUserMessage # Blank
        others == IF replaces THEN RemoveFirstMatch(transcript, IsPartial) ELSE transcript IN
    /\ page' = IF replaces THEN [page EXCEPT !.partialUserMessage = Blank] ELSE page
    /\ transcript' = Append(others, Node(role, text, FALSE))

AppendTranscript(role, text, partial) ==
    \/ text = Blank /\ UNCHANGED <<page, transcript>>
    \/ text # Blank /\ role = "user" /\ partial /\ AppendsPartial(text)
    \/ text # Blank /\ ~ (role = "user" /\ partial) /\ AppendsFinal(role, text)
-----------------------------------------------------------------------------
(* The callbacks of configureClient, one message of the host each.         *)
Receives(type) ==
    /\ conn \in {"connecting", "up"}
    /\ down # <<>>
    /\ Head(down).type = type
    /\ down' = Tail(down)

OnBotReady ==
    /\ Receives("ready")
    /\ conn' = "up"
    /\ UNCHANGED <<page, transcript, heard, up>>

OnUserStartedSpeaking ==
    /\ Receives("userStarted")
    /\ page' = [page EXCEPT !.bargeInStarted = @ \/ page.botSpeaking]
    /\ UNCHANGED <<transcript, conn, heard, up>>

OnUserStoppedSpeaking ==
    /\ Receives("userStopped")
    /\ page' = [page EXCEPT !.userStopped = TRUE]
    /\ UNCHANGED <<transcript, conn, heard, up>>

OnBotStartedSpeaking ==
    /\ Receives("botStarted")
    /\ page' = [page EXCEPT !.botSpeaking = TRUE]
    /\ UNCHANGED <<transcript, conn, heard, up>>

BargeInMessages ==
    IF page.bargeInStarted THEN <<[type |-> "client.barge_in.stopped"]>> ELSE <<>>

OnBotStoppedSpeaking ==
    /\ Receives("botStopped")
    /\ Posts(BargeInMessages)
    /\ page' = [page EXCEPT !.botSpeaking = FALSE, !.bargeInStarted = FALSE]
    /\ UNCHANGED <<transcript, conn, heard>>

OnUserTranscript ==
    /\ Receives("transcript")
    /\ AppendTranscript("user", Head(down).text, ~ Head(down).final)
    /\ UNCHANGED <<conn, heard, up>>

OnBotOutput ==
    /\ Receives("output")
    /\ AppendTranscript("bot", Head(down).text, FALSE)
    /\ UNCHANGED <<conn, heard, up>>

(* The remote track has started and the element begins to play it.         *)
Playing ==
    /\ conn \in {"connecting", "up"}
    /\ ~ heard
    /\ heard' = TRUE
    /\ Posts(<<[type |-> "client.playback.started", measured |-> page.userStopped]>>)
    /\ UNCHANGED <<page, transcript, conn, down>>

Callbacks ==
    \/ OnBotReady \/ OnUserStartedSpeaking \/ OnUserStoppedSpeaking
    \/ OnBotStartedSpeaking \/ OnBotStoppedSpeaking
    \/ OnUserTranscript \/ OnBotOutput \/ Playing
-----------------------------------------------------------------------------
(* The button "clear transcript".                                          *)
ClearsNodesOnly ==
    /\ transcript # <<>>
    /\ transcript' = <<>>
    /\ UNCHANGED <<page, conn, heard, down, up>>

ClearTranscript ==
    /\ transcript # <<>>
    /\ transcript' = <<>>
    /\ page' = [page EXCEPT !.partialUserMessage = Blank]
    /\ UNCHANGED <<conn, heard, down, up>>

(* connect(), of which the awaits are ClientConnection's.  After a         *)
(* connection that was lost startBot is refused, and the catch calls       *)
(* disconnect().                                                           *)
Connects ==
    /\ conn = "off"
    /\ conn' = "connecting"
    /\ UNCHANGED <<page, transcript, heard, down, up>>

LeavesSpeaking(connection) ==
    /\ conn' = connection
    /\ heard' = FALSE
    /\ down' = <<>>
    /\ up' = <<>>
    /\ UNCHANGED <<page, transcript>>

DisconnectsSpeaking == conn # "off" /\ LeavesSpeaking("off")

(* disconnect(), of the user or of the catch of connect().                 *)
Disconnects ==
    /\ conn # "off"
    /\ conn' = "off"
    /\ page' = [page EXCEPT !.botSpeaking = FALSE]
    /\ heard' = FALSE
    /\ down' = <<>>
    /\ up' = <<>>
    /\ UNCHANGED transcript

(* The transport gives up: onDisconnected touches none of the globals.     *)
ConnectionLost ==
    /\ conn = "up"
    /\ LeavesSpeaking("lost")

PageTypeOK ==
    /\ conn \in {"off", "connecting", "up", "lost"}
    /\ {page.botSpeaking, page.bargeInStarted, page.userStopped, heard} \subseteq BOOLEAN
    /\ Len(down) <= ChannelSize
    /\ Len(up) <= ChannelSize

(* The partial message the page holds is the one node of the transcript    *)
(* that is partial: what is recognised next is seen, and no half sentence  *)
(* is left over.                                                           *)
PartialIsShown ==
    IF page.partialUserMessage = Blank THEN Partials = {}
    ELSE \E i \in DOMAIN transcript :
            /\ Partials = {i}
            /\ transcript[i] = Node("user", page.partialUserMessage, TRUE)
=============================================================================
