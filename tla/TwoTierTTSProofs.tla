--------------------------- MODULE TwoTierTTSProofs ---------------------------
(***************************************************************************)
(* Theorems about TwoTierTTS for every number of sentences and chunks,     *)
(* every queue size and every number of puts.                              *)
(*                                                                         *)
(* IInv is the inductive invariant.  Puts overtake each other, so its part *)
(* about the audio says nothing of their order: every item that is on its  *)
(* way to the listener, in whatever place, has the chunk before it further *)
(* on the way.  What a thread does to a sentence that run_tts has left can *)
(* be arbitrary, so that part speaks of the sentence being read only.      *)
(***************************************************************************)
EXTENDS TwoTierTTS, SequenceTheorems, FiniteSetTheorems, WellFoundedInduction,
        TLAPS

(* x is somewhere in the sequence s.                                       *)
In(s, x) == \E j \in 1 .. Len(s) : s[j] = x
Elements(s) == {s[k] : k \in 1 .. Len(s)}
Pending(n) == Elements(scheduled[n]) \cup Elements(waiting[n]) \cup Elements(woken[n])

(* Nothing has happened yet to the stream of a sentence.                   *)
Fresh(n) ==
    /\ thread[n]["expressive"] = "none"
    /\ heard[n] = <<>> /\ queue[n] = <<>> /\ Pending(n) = {} /\ item[n] = 0
    /\ ~ cancelled[n]

(* Nothing has happened yet to a sentence that run_tts has not begun.      *)
Untouched(n) ==
    /\ Fresh(n)
    /\ end[n] = "none" /\ voices[n] = {}

FutureUntouched == \A n \in Sentences : n > current => Untouched(n) /\ closer # n

(* The lock is held by the call for the current sentence, while it does    *)
(* anything but wait for it, or by the generator that is being closed.     *)
CallHoldsLock ==
    /\ at \in Calling => lock = current
    /\ lock # 0 => lock = closer \/ at \in Calling
    /\ closer # 0 => lock = closer
    /\ closer # 0 /\ closer = current => at = "idle"

(* What each await of run_tts implies for the sentence it works on.        *)
Working ==
    /\ at # "idle" => current \in Sentences /\ end[current] = "none"
    /\ at \in {"streaming", "yielding", "closing"} => settings.streaming
    /\ at = "rendering" => ~ settings.streaming
    /\ at = "locking" => next \in {"streaming", "rendering", "opener"}
    /\ next \in {"streaming", "rendering"} => at = "locking"
    /\ at = "locking" /\ next = "streaming" => settings.streaming
    /\ at = "locking" /\ next = "rendering" => ~ settings.streaming
    /\ at = "closing" => next \in {"opener", "finished", "interrupted"}
    /\ at \in {"streaming", "yielding"} => ~ cancelled[current]
    /\ at = "closing" => cancelled[current]
    /\ at = "streaming" /\ heard[current] = <<>> => voices[current] = {}
    /\ at \in {"streaming", "yielding"} => voices[current] \subseteq {"expressive"}
    /\ at = "yielding" => heard[current] # <<>>
    /\ at \in {"locking", "rendering", "opener"} => voices[current] = {}
    /\ at = "closing" /\ next = "opener" => voices[current] = {}

(* A call that waits for the lock to stream has done nothing yet, and the  *)
(* opener does not wait or speak beside a streaming thread.                *)
StreamNotBegun ==
    /\ at = "locking" /\ next = "streaming" => Fresh(current)
    /\ at \in {"locking", "opener"} => ~ Streams(current)

(* A sentence has at most one voice.                                       *)
VoiceIsOne == \A n \in Sentences : \E t \in Tiers : voices[n] \subseteq {t}

(* The stream of a sentence, from its listener back to its producer.       *)
Reached(n, x) == x = 0 \/ In(heard[n], x) \/ In(queue[n], x)
Ready(n, x) == x = Failed \/ Reached(n, x - 1)
QueueInStep(n) ==
    \A k \in 1 .. Len(queue[n]) :
        \/ queue[n][k] \in {1, Failed}
        \/ In(heard[n], queue[n][k] - 1)
        \/ \E j \in 1 .. k - 1 : queue[n][j] = queue[n][k] - 1
StreamInStep(n) ==
    /\ QueueInStep(n)
    /\ \A p \in Pending(n) : Ready(n, p.item)
    /\ thread[n]["expressive"] = "putting" => Ready(n, item[n])
    /\ thread[n]["expressive"] = "rendering" => Reached(n, item[n])
HeardInStep(h) ==
    \A k \in 1 .. Len(h) : h[k] = 1 \/ \E j \in 1 .. k - 1 : h[j] = h[k] - 1
AllHeardInStep == \A n \in Sentences : HeardInStep(heard[n])

(* Whoever waits for a put has an item to offer.                           *)
OffersAnItem ==
    \A n \in Sentences : thread[n]["expressive"] = "putting" => item[n] # 0

IInv ==
    /\ TypeOK
    /\ FutureUntouched
    /\ OffersAnItem
    /\ CallHoldsLock
    /\ Working
    /\ StreamNotBegun
    /\ VoiceIsOne
    /\ NoThreadLeftBehind
    /\ AllHeardInStep
    /\ at \in {"streaming", "yielding"} => StreamInStep(current)

-----------------------------------------------------------------------------
(* The elements of a sequence, as the loop's lists of puts change.         *)
LEMMA ElementsOfAppend ==
    ASSUME NEW S, NEW s \in Seq(S), NEW e \in S
    PROVE  Elements(Append(s, e)) = Elements(s) \cup {e}
<1>1. /\ Len(s) \in Nat /\ Len(Append(s, e)) = Len(s) + 1
      /\ Append(s, e)[Len(s) + 1] = e
      /\ \A k \in 1 .. Len(s) : Append(s, e)[k] = s[k]
  OBVIOUS
<1> QED
  BY <1>1 DEF Elements

LEMMA ElementsOfTail ==
    ASSUME NEW S, NEW s \in Seq(S), s # <<>>
    PROVE  /\ Tail(s) \in Seq(S)
           /\ Elements(Tail(s)) \subseteq Elements(s)
           /\ Head(s) \in Elements(s) /\ Head(s) \in S
<1>1. /\ Len(s) \in Nat /\ Len(s) > 0 /\ Len(Tail(s)) = Len(s) - 1
      /\ \A k \in 1 .. Len(s) - 1 : Tail(s)[k] = s[k + 1]
      /\ Tail(s) \in Seq(S) /\ Head(s) = s[1]
  BY HeadTailProperties, LenProperties, EmptySeq
<1>2. 1 \in 1 .. Len(s) /\ s[1] \in S
  BY <1>1
<1>3. \A k \in 1 .. Len(s) - 1 : k + 1 \in 1 .. Len(s)
  BY <1>1
<1> QED
  BY <1>1, <1>2, <1>3 DEF Elements

LEMMA ElementsOfPart ==
    ASSUME NEW S, NEW s \in Seq(S), NEW a \in 1 .. Len(s) + 1, NEW b \in 0 .. Len(s)
    PROVE  /\ SubSeq(s, a, b) \in Seq(S)
           /\ Elements(SubSeq(s, a, b)) \subseteq Elements(s)
<1>1. /\ Len(s) \in Nat
      /\ SubSeq(s, a, b) \in Seq(S)
      /\ Len(SubSeq(s, a, b)) = IF a <= b THEN b - a + 1 ELSE 0
      /\ \A k \in 1 .. b - a + 1 : SubSeq(s, a, b)[k] = s[a + k - 1]
  BY SubSeqProperties, LenProperties
<1>2. \A k \in 1 .. b - a + 1 : a + k - 1 \in 1 .. Len(s)
  BY <1>1
<1>3. ASSUME NEW k \in 1 .. Len(SubSeq(s, a, b))
      PROVE  SubSeq(s, a, b)[k] \in Elements(s)
  <2>1. k \in 1 .. b - a + 1
    BY <1>1
  <2> QED
    BY <1>1, <1>2, <2>1 DEF Elements
<1> QED
  BY <1>1, <1>3 DEF Elements

LEMMA ElementsOfConcat ==
    ASSUME NEW S, NEW s \in Seq(S), NEW t \in Seq(S)
    PROVE  /\ s \o t \in Seq(S)
           /\ Elements(s \o t) \subseteq Elements(s) \cup Elements(t)
<1>1. /\ Len(s) \in Nat /\ Len(t) \in Nat
      /\ s \o t \in Seq(S) /\ Len(s \o t) = Len(s) + Len(t)
      /\ \A k \in 1 .. Len(s) + Len(t) :
            (s \o t)[k] = IF k <= Len(s) THEN s[k] ELSE t[k - Len(s)]
  BY ConcatProperties, LenProperties
<1>2. ASSUME NEW k \in 1 .. Len(s \o t)
      PROVE  (s \o t)[k] \in Elements(s) \cup Elements(t)
  <2>1. k \in 1 .. Len(s) \/ k - Len(s) \in 1 .. Len(t)
    BY <1>1
  <2> QED
    BY <1>1, <2>1 DEF Elements
<1> QED
  BY <1>1, <1>2 DEF Elements

LEMMA ElementsOfEmpty == Elements(<<>>) = {}
BY DEF Elements

(* What is in a sequence is in it after something has been appended.       *)
LEMMA InAppend ==
    ASSUME NEW S, NEW s \in Seq(S), NEW e \in S, NEW x, In(s, x) \/ x = e
    PROVE  In(Append(s, e), x)
<1>1. /\ Len(s) \in Nat /\ Len(Append(s, e)) = Len(s) + 1
      /\ Append(s, e)[Len(s) + 1] = e
      /\ \A k \in 1 .. Len(s) : Append(s, e)[k] = s[k]
  OBVIOUS
<1> QED
  BY <1>1 DEF In

(* The places of a sequence without its head.                              *)
LEMMA TailFacts ==
    ASSUME NEW S, NEW s \in Seq(S), s # <<>>
    PROVE  /\ Tail(s) \in Seq(S) /\ Head(s) \in S /\ Head(s) = s[1]
           /\ Len(s) \in Nat /\ Len(s) > 0 /\ Len(Tail(s)) = Len(s) - 1
           /\ \A k \in 1 .. Len(s) - 1 : Tail(s)[k] = s[k + 1]
<1>1. /\ Len(s) \in Nat /\ Len(s) > 0 /\ Len(Tail(s)) = Len(s) - 1
      /\ \A k \in 1 .. Len(s) - 1 : Tail(s)[k] = s[k + 1]
      /\ Tail(s) \in Seq(S) /\ Head(s) = s[1]
  BY HeadTailProperties, LenProperties, EmptySeq
<1>2. 1 \in 1 .. Len(s) /\ s[1] \in S
  BY <1>1
<1> QED
  BY <1>1, <1>2

(* A wake-up moves waiters, it makes no new put.                           *)
LEMMA WakesFacts ==
    ASSUME TypeOK, NEW n \in Sentences, NEW taken \in Nat, Wakes(n, taken)
    PROVE  /\ waiting' \in [Sentences -> Seq(Puts)] /\ woken' \in [Sentences -> Seq(Puts)]
           /\ \A m \in Sentences : m # n => waiting'[m] = waiting[m] /\ woken'[m] = woken[m]
           /\ Elements(waiting'[n]) \subseteq Elements(waiting[n])
           /\ Elements(woken'[n]) \subseteq Elements(woken[n]) \cup Elements(waiting[n])
<1> DEFINE k == IF taken < Len(waiting[n]) THEN taken ELSE Len(waiting[n])
           first == SubSeq(waiting[n], 1, k)
           rest == SubSeq(waiting[n], k + 1, Len(waiting[n]))
<1>1. /\ waiting[n] \in Seq(Puts) /\ woken[n] \in Seq(Puts)
      /\ waiting \in [Sentences -> Seq(Puts)] /\ woken \in [Sentences -> Seq(Puts)]
  BY DEF TypeOK
<1>2. Len(waiting[n]) \in Nat /\ k \in 0 .. Len(waiting[n])
  BY <1>1
<1>3. /\ woken' = [woken EXCEPT ![n] = woken[n] \o first]
      /\ waiting' = [waiting EXCEPT ![n] = rest]
  BY DEF Wakes
<1>4. 1 \in 1 .. Len(waiting[n]) + 1 /\ k + 1 \in 1 .. Len(waiting[n]) + 1
  BY <1>2
<1> HIDE DEF k
<1>5. /\ first \in Seq(Puts) /\ Elements(first) \subseteq Elements(waiting[n])
      /\ rest \in Seq(Puts) /\ Elements(rest) \subseteq Elements(waiting[n])
  BY <1>1, <1>2, <1>4, ElementsOfPart
<1> HIDE DEF first, rest
<1>6. /\ woken[n] \o first \in Seq(Puts)
      /\ Elements(woken[n] \o first) \subseteq Elements(woken[n]) \cup Elements(first)
  BY <1>1, <1>5, ElementsOfConcat
<1>7. /\ waiting'[n] = rest /\ woken'[n] = woken[n] \o first
      /\ \A m \in Sentences : m # n => waiting'[m] = waiting[m] /\ woken'[m] = woken[m]
  BY <1>1, <1>3
<1>8. waiting' \in [Sentences -> Seq(Puts)] /\ woken' \in [Sentences -> Seq(Puts)]
  BY <1>1, <1>3, <1>5, <1>6
<1> QED
  BY <1>5, <1>6, <1>7, <1>8

(* A set of numbers that is not empty has a least element.                 *)
LEMMA LeastNumber ==
    ASSUME NEW T \in SUBSET Nat, T # {}
    PROVE  \E m \in T : \A n \in T : m <= n
<1> DEFINE R == OpToRel(<, Nat)
<1>1. IsWellFoundedOn(R, Nat)
  BY NatLessThanWellFounded
<1>2. \A x, y \in Nat : <<x, y>> \in R <=> x < y
  BY DEF OpToRel
<1> HIDE DEF R
<1>3. PICK m \in T : \A n \in T : ~ (<<n, m>> \in R)
  BY <1>1, WFMin
<1>4. ASSUME NEW n \in T PROVE m <= n
  <2>1. m \in Nat /\ n \in Nat /\ ~ (<<n, m>> \in R)
    BY <1>3
  <2> QED
    BY <1>2, <2>1
<1> QED
  BY <1>4

(* A sequence in step that holds the last chunk holds all of them.         *)
LEMMA AllBeforeTheLast ==
    ASSUME NEW h \in Seq(1 .. Chunks), HeardInStep(h), In(h, Chunks),
           NEW c \in 1 .. Chunks
    PROVE  In(h, c)
<1> SUFFICES ASSUME ~ In(h, c) PROVE FALSE
  OBVIOUS
<1> DEFINE T == {d \in Nat : d < Chunks /\ ~ In(h, Chunks - d)}
<1>1. Chunks \in Nat /\ c \in Nat /\ Chunks - c \in Nat /\ Chunks - (Chunks - c) = c
  BY SizesAssumption
<1>2. Chunks - c \in T
  BY <1>1
<1>3. PICK d \in T : \A e \in T : d <= e
  <2>1. T \in SUBSET Nat /\ T # {}
    BY <1>2
  <2> QED
    BY <2>1, LeastNumber
<1>4. d \in Nat /\ d < Chunks /\ ~ In(h, Chunks - d)
  BY <1>3
<1>5. d # 0
  <2>1. Chunks - 0 = Chunks
    BY <1>1
  <2> QED
    BY <1>4, <2>1
<1>6. d - 1 \in Nat /\ d - 1 < Chunks /\ ~ (d <= d - 1)
  BY <1>1, <1>4, <1>5
<1>7. In(h, Chunks - (d - 1))
  BY <1>3, <1>6
<1>8. PICK k \in 1 .. Len(h) : h[k] = Chunks - (d - 1)
  BY <1>7 DEF In
<1>9. Chunks - (d - 1) # 1 /\ Chunks - (d - 1) - 1 = Chunks - d
  BY <1>1, <1>4
<1>10. PICK j \in 1 .. k - 1 : h[j] = h[k] - 1
  BY <1>8, <1>9 DEF HeardInStep
<1>11. Len(h) \in Nat /\ j \in 1 .. Len(h)
  BY <1>8, <1>10, LenProperties
<1> QED
  BY <1>4, <1>8, <1>9, <1>10, <1>11 DEF In

-----------------------------------------------------------------------------
(* A step that leaves run_tts alone, and touches the stream of one         *)
(* sentence that has begun: of a thread, of the loop or of an orphan.      *)
LEMMA OneStreamIInv ==
    ASSUME IInv, TypeOK', NEW n \in Sentences, n <= current,
           UNCHANGED <<settings, engine, lock, closer, taskVars, end, heard, voices,
                       cancelled>>,
           \A m \in Sentences : m # n =>
              /\ thread'[m] = thread[m] /\ queue'[m] = queue[m] /\ item'[m] = item[m]
              /\ scheduled'[m] = scheduled[m] /\ waiting'[m] = waiting[m]
              /\ woken'[m] = woken[m],
           thread'[n]["expressive"] \in {"rendering", "putting"} =>
              thread[n]["expressive"] \in {"rendering", "putting"},
           thread'[n]["expressive"] = "putting" => item'[n] # 0,
           at = "locking" /\ next = "streaming" => n # current,
           at \in {"streaming", "yielding"} /\ n = current => StreamInStep(n)'
    PROVE  IInv'
<1>1. /\ current' = current /\ at' = at /\ next' = next /\ current \in 0 .. NumSentences
      /\ UNCHANGED <<settings, engine, lock, closer, end, heard, voices, cancelled>>
  BY DEF taskVars, IInv, TypeOK
<1>2. FutureUntouched'
  <2>1. \A m \in Sentences : m > current => m # n
    BY <1>1 DEF Sentences
  <2> QED
    BY <1>1, <2>1 DEF IInv, FutureUntouched, Untouched, Fresh, Pending, Sentences
<1>3. OffersAnItem'
  BY DEF IInv, OffersAnItem, Sentences
<1>4. CallHoldsLock' /\ Working' /\ VoiceIsOne' /\ AllHeardInStep'
  BY <1>1 DEF IInv, CallHoldsLock, Working, VoiceIsOne, AllHeardInStep, Sentences, Calling
<1>5. \A m \in Sentences : Streams(m)' => Streams(m)
  BY <1>1 DEF Streams
<1>6. NoThreadLeftBehind'
  BY <1>1, <1>5 DEF IInv, NoThreadLeftBehind, Sentences
<1>7. StreamNotBegun'
  <2>1. at # "idle" => current \in Sentences
    BY DEF IInv, Working
  <2> QED
    BY <1>1, <1>5, <2>1 DEF IInv, StreamNotBegun, Fresh, Pending
<1>8. at' \in {"streaming", "yielding"} => StreamInStep(current)'
  <2> SUFFICES ASSUME at \in {"streaming", "yielding"}, n # current
               PROVE  StreamInStep(current)'
    BY <1>1
  <2>1. current \in Sentences /\ StreamInStep(current)
    BY DEF IInv, Working
  <2> QED
    BY <1>1, <2>1
    DEF StreamInStep, QueueInStep, Pending, Ready, Reached
<1> QED
  BY <1>2, <1>3, <1>4, <1>6, <1>7, <1>8 DEF IInv

(* A streaming thread at work, or a put on its way, belongs to a sentence  *)
(* that has begun, and not to one that still waits for the lock.           *)
LEMMA BegunFacts ==
    ASSUME IInv, NEW n \in Sentences,
           thread[n]["expressive"] # "none" \/ Pending(n) # {}
    PROVE  n <= current /\ (at = "locking" /\ next = "streaming" => n # current)
<1>1. ~ Fresh(n)
  BY DEF Fresh
<1>2. n \in Int /\ current \in Int
  BY DEF IInv, TypeOK, Sentences
<1> QED
  BY <1>1, <1>2 DEF IInv, FutureUntouched, Untouched, StreamNotBegun

-----------------------------------------------------------------------------
(* The producer thread.                                                    *)
LEMMA OffersIInv ==
    ASSUME IInv, NEW n \in Sentences, NEW x \in 1 .. Failed, Offers(n, x),
           x = Failed \/ x = item[n] + 1
    PROVE  IInv'
<1> DEFINE after == IF cancelled[n] THEN "ended" ELSE "putting"
           put == [item |-> x, try |-> 1]
<1>1. /\ UNCHANGED <<settings, engine, lock, closer, taskVars, end, heard, voices,
                     queue, waiting, woken, cancelled>>
      /\ thread[n]["expressive"] = "rendering"
      /\ item' = [item EXCEPT ![n] = x]
      /\ thread' = [thread EXCEPT ![n]["expressive"] = after]
      /\ scheduled' = IF cancelled[n] THEN scheduled
                      ELSE [scheduled EXCEPT ![n] = Append(@, put)]
      /\ tries' = IF cancelled[n] THEN tries ELSE [tries EXCEPT ![n] = 1]
  BY DEF Offers
<1>2. after \in {"putting", "ended"} /\ put \in Puts /\ 1 \in 0 .. MaxPuts
  BY SizesAssumption DEF Puts
<1>3. put.item = x
  OBVIOUS
<1> HIDE DEF after, put
<1>4. n <= current /\ (at = "locking" /\ next = "streaming" => n # current)
  BY <1>1, BegunFacts
<1>5. /\ thread \in [Sentences -> [Tiers -> {"none", "rendering", "putting", "ended"}]]
      /\ scheduled \in [Sentences -> Seq(Puts)] /\ item \in [Sentences -> 0 .. Failed]
      /\ "expressive" \in Tiers
  BY DEF IInv, TypeOK, Tiers
<1>6. /\ \A m \in Sentences : m # n => /\ thread'[m] = thread[m] /\ item'[m] = item[m]
                                       /\ scheduled'[m] = scheduled[m]
      /\ thread'[n]["expressive"] = after /\ item'[n] = x
      /\ scheduled'[n] = IF cancelled[n] THEN scheduled[n] ELSE Append(scheduled[n], put)
      /\ thread' \in [Sentences -> [Tiers -> {"none", "rendering", "putting", "ended"}]]
  BY <1>1, <1>2, <1>5
<1>7. TypeOK'
  <2>1. scheduled' \in [Sentences -> Seq(Puts)] /\ item' \in [Sentences -> 0 .. Failed]
    BY <1>1, <1>2, <1>5
  <2>2. tries' \in [Sentences -> 0 .. MaxPuts]
    BY <1>1, <1>2 DEF IInv, TypeOK
  <2> QED
    BY <1>1, <1>6, <2>1, <2>2 DEF IInv, TypeOK, taskVars
<1>8. at \in {"streaming", "yielding"} /\ n = current => StreamInStep(n)'
  <2> SUFFICES ASSUME at \in {"streaming", "yielding"}, n = current PROVE StreamInStep(n)'
    OBVIOUS
  <2>1. StreamInStep(n)
    BY DEF IInv
  <2>2. Ready(n, x)
    BY <1>1, <1>5, <2>1 DEF StreamInStep, Ready
  <2>3. Pending(n)' \subseteq Pending(n) \cup {put}
    <3>1. scheduled[n] \in Seq(Puts)
      BY <1>5
    <3>2. Elements(Append(scheduled[n], put)) = Elements(scheduled[n]) \cup {put}
      BY <1>2, <3>1, ElementsOfAppend
    <3> QED
      BY <1>1, <1>6, <3>2 DEF Pending
  <2>4. \A y : (Ready(n, y) => Ready(n, y)') /\ (Reached(n, y) => Reached(n, y)')
    BY <1>1 DEF Ready, Reached
  <2>5. \A p \in Pending(n)' : Ready(n, p.item)'
    BY <1>3, <2>1, <2>2, <2>3, <2>4 DEF StreamInStep
  <2>6. QueueInStep(n)'
    BY <1>1, <2>1 DEF StreamInStep, QueueInStep
  <2> QED
    BY <1>2, <1>6, <2>2, <2>4, <2>5, <2>6 DEF StreamInStep
<1> QED
  <2>1. x # 0
    OBVIOUS
  <2> QED
    BY <1>1, <1>4, <1>6, <1>7, <1>8, <2>1, OneStreamIInv

(* The three things a producer can offer.                                  *)
LEMMA RendersIInv ==
    ASSUME IInv, NEW n \in Sentences, RendersChunk(n) \/ RendersLast(n) \/ RenderRaises(n)
    PROVE  IInv'
<1>1. item[n] \in 0 .. Failed
  BY DEF IInv, TypeOK
<1>2. CASE RendersChunk(n)
  <2>1. Offers(n, item[n] + 1) /\ item[n] + 1 \in 1 .. Failed
    BY <1>1, <1>2, SizesAssumption DEF RendersChunk, Failed
  <2> QED
    BY <2>1, OffersIInv
<1>3. CASE RendersLast(n)
  <2>1. Offers(n, item[n] + 1) /\ item[n] + 1 \in 1 .. Failed
    BY <1>1, <1>3, SizesAssumption DEF RendersLast, Done, Failed
  <2> QED
    BY <2>1, OffersIInv
<1>4. CASE RenderRaises(n)
  <2>1. Offers(n, Failed) /\ Failed \in 1 .. Failed
    BY <1>4, SizesAssumption DEF RenderRaises, Failed
  <2> QED
    BY <2>1, OffersIInv
<1> QED
  BY <1>2, <1>3, <1>4

(* A put takes too long: it is made again, or given up by a thread whose   *)
(* reader is gone.                                                         *)
LEMMA PutTimesOutIInv ==
    ASSUME IInv, NEW n \in Sentences, PutTimesOut(n)
    PROVE  IInv'
<1> DEFINE put == [item |-> item[n], try |-> tries[n] + 1]
<1>1. /\ UNCHANGED <<settings, engine, lock, closer, taskVars, end, heard, voices,
                     queue, waiting, woken, item, cancelled>>
      /\ thread[n]["expressive"] = "putting"
      /\ thread' = IF cancelled[n] THEN [thread EXCEPT ![n]["expressive"] = "ended"]
                                   ELSE thread
      /\ scheduled' = IF cancelled[n] THEN scheduled
                      ELSE [scheduled EXCEPT ![n] = Append(@, put)]
      /\ tries' = IF cancelled[n] THEN tries ELSE [tries EXCEPT ![n] = @ + 1]
      /\ ~ cancelled[n] => tries[n] < MaxPuts
  BY DEF PutTimesOut
<1>2. /\ thread \in [Sentences -> [Tiers -> {"none", "rendering", "putting", "ended"}]]
      /\ scheduled \in [Sentences -> Seq(Puts)] /\ tries \in [Sentences -> 0 .. MaxPuts]
      /\ "expressive" \in Tiers
      /\ item[n] \in 1 .. Failed /\ tries[n] \in Nat
  BY <1>1 DEF IInv, TypeOK, Tiers, OffersAnItem
<1>3. ~ cancelled[n] => put \in Puts
  BY <1>1, <1>2, SizesAssumption DEF Puts
<1>4. put.item = item[n]
  OBVIOUS
<1> HIDE DEF put
<1>5. n <= current /\ (at = "locking" /\ next = "streaming" => n # current)
  BY <1>1, BegunFacts
<1>6. /\ \A m \in Sentences : m # n => thread'[m] = thread[m] /\ scheduled'[m] = scheduled[m]
      /\ thread'[n]["expressive"] = IF cancelled[n] THEN "ended" ELSE "putting"
      /\ scheduled'[n] = IF cancelled[n] THEN scheduled[n] ELSE Append(scheduled[n], put)
      /\ thread' \in [Sentences -> [Tiers -> {"none", "rendering", "putting", "ended"}]]
  BY <1>1, <1>2
<1>7. TypeOK'
  <2>1. scheduled' \in [Sentences -> Seq(Puts)]
    BY <1>1, <1>2, <1>3
  <2>2. tries' \in [Sentences -> 0 .. MaxPuts]
    BY <1>1, <1>2, SizesAssumption
  <2> QED
    BY <1>1, <1>6, <2>1, <2>2 DEF IInv, TypeOK, taskVars
<1>8. at \in {"streaming", "yielding"} /\ n = current => StreamInStep(n)'
  <2> SUFFICES ASSUME at \in {"streaming", "yielding"}, n = current PROVE StreamInStep(n)'
    OBVIOUS
  <2>1. StreamInStep(n) /\ ~ cancelled[n]
    BY DEF IInv, Working
  <2>2. Pending(n)' \subseteq Pending(n) \cup {put}
    <3>1. scheduled[n] \in Seq(Puts)
      BY <1>2
    <3>2. Elements(Append(scheduled[n], put)) = Elements(scheduled[n]) \cup {put}
      BY <1>3, <2>1, <3>1, ElementsOfAppend
    <3> QED
      BY <1>1, <1>6, <2>1, <3>2 DEF Pending
  <2>3. \A y : (Ready(n, y) => Ready(n, y)') /\ (Reached(n, y) => Reached(n, y)')
    BY <1>1 DEF Ready, Reached
  <2>4. \A p \in Pending(n)' : Ready(n, p.item)'
    BY <1>1, <1>4, <2>1, <2>2, <2>3 DEF StreamInStep
  <2>5. QueueInStep(n)'
    BY <1>1, <2>1 DEF StreamInStep, QueueInStep
  <2> QED
    BY <1>1, <1>6, <2>1, <2>3, <2>4, <2>5 DEF StreamInStep
<1>9. /\ item'[n] # 0 /\ \A m \in Sentences : item'[m] = item[m] /\ queue'[m] = queue[m]
      /\ \A m \in Sentences : waiting'[m] = waiting[m] /\ woken'[m] = woken[m]
      /\ thread[n]["expressive"] \in {"rendering", "putting"}
  BY <1>1, <1>2
<1> QED
  BY <1>1, <1>5, <1>6, <1>7, <1>8, <1>9, OneStreamIInv

(* A render that nobody waits for ends: its thread may be the one that a   *)
(* timeout left to the opener, but never one that feeds a stream.          *)
LEMMA OrphanEndsIInv ==
    ASSUME IInv, NEW n \in Sentences, NEW t \in Tiers, OrphanEnds(n, t)
    PROVE  IInv'
<1>1. /\ UNCHANGED <<settings, engine, lock, closer, taskVars, end, heard, voices, queue,
                     scheduled, waiting, woken, item, tries, cancelled>>
      /\ thread[n][t] = "rendering"
      /\ t = "opener" \/ ~ settings.streaming
      /\ thread' = [thread EXCEPT ![n][t] = "ended"]
  BY DEF OrphanEnds, streamVars
<1>2. /\ thread \in [Sentences -> [Tiers -> {"none", "rendering", "putting", "ended"}]]
      /\ "expressive" \in Tiers
  BY DEF IInv, TypeOK, Tiers
<1>3. /\ \A m \in Sentences : m # n => thread'[m] = thread[m]
      /\ t # "expressive" => thread'[n]["expressive"] = thread[n]["expressive"]
      /\ t = "expressive" => thread'[n]["expressive"] = "ended"
      /\ thread' \in [Sentences -> [Tiers -> {"none", "rendering", "putting", "ended"}]]
  BY <1>1, <1>2
<1>4. TypeOK'
  BY <1>1, <1>3 DEF IInv, TypeOK, taskVars
<1>5. FutureUntouched' /\ OffersAnItem' /\ CallHoldsLock' /\ Working' /\ VoiceIsOne'
      /\ AllHeardInStep'
  <2>1. /\ current' = current /\ at' = at /\ next' = next
    BY <1>1 DEF taskVars
  <2>2. \A m \in Sentences : m > current => m # n \/ t # "expressive"
    BY <1>1, BegunFacts DEF IInv, TypeOK, Sentences
  <2>3. FutureUntouched'
    <3>1. \A m \in Sentences : m > current =>
             thread'[m]["expressive"] = thread[m]["expressive"]
      BY <1>3, <2>2
    <3> QED
      BY <1>1, <2>1, <3>1
      DEF IInv, FutureUntouched, Untouched, Fresh, Pending, Sentences
  <2>4. OffersAnItem'
    <3>1. \A m \in Sentences : thread'[m]["expressive"] \in {thread[m]["expressive"], "ended"}
      BY <1>3
    <3> QED
      BY <1>1, <3>1 DEF IInv, OffersAnItem, Sentences
  <2>5. CallHoldsLock' /\ Working' /\ VoiceIsOne' /\ AllHeardInStep'
    BY <1>1, <2>1
    DEF IInv, CallHoldsLock, Working, VoiceIsOne, AllHeardInStep, Sentences, Calling
  <2> QED
    BY <2>3, <2>4, <2>5
<1>6. \A m \in Sentences : Streams(m)' = Streams(m)
  BY <1>1, <1>3, Zenon DEF Streams, Tiers
<1>7. NoThreadLeftBehind'
  BY <1>1, <1>6 DEF IInv, NoThreadLeftBehind, Sentences
<1>8. settings.streaming => \A m \in Sentences :
         thread'[m]["expressive"] = thread[m]["expressive"]
  BY <1>1, <1>3
<1>9. StreamNotBegun' /\ (at' \in {"streaming", "yielding"} => StreamInStep(current)')
  <2>1. /\ current' = current /\ at' = at /\ next' = next
        /\ at # "idle" => current \in Sentences
        /\ at \in {"streaming", "yielding"} => settings.streaming
        /\ at = "locking" /\ next = "streaming" => settings.streaming
    BY <1>1 DEF taskVars, IInv, Working
  <2> QED
    BY <1>1, <1>6, <1>8, <2>1
    DEF IInv, StreamNotBegun, StreamInStep, QueueInStep, Fresh, Pending, Ready, Reached
<1> QED
  BY <1>4, <1>5, <1>7, <1>9 DEF IInv

(* A put that runs lands in the queue or goes back to wait.                *)
LEMMA PutRunsIInv ==
    ASSUME IInv, NEW n \in Sentences, NEW put \in Puts, put \in Pending(n), PutRuns(n, put),
           UNCHANGED <<settings, engine, lock, closer, taskVars, end, heard, voices,
                       item, tries, cancelled>>,
           scheduled' \in [Sentences -> Seq(Puts)], woken' \in [Sentences -> Seq(Puts)],
           \A m \in Sentences : m # n =>
              scheduled'[m] = scheduled[m] /\ woken'[m] = woken[m],
           Elements(scheduled'[n]) \subseteq Elements(scheduled[n]),
           Elements(woken'[n]) \subseteq Elements(woken[n])
    PROVE  IInv'
<1> DEFINE lands == Len(queue[n]) < QueueSize
           latest == /\ thread[n]["expressive"] = "putting"
                     /\ put = [item |-> item[n], try |-> tries[n]]
           after == IF item[n] \in {Done, Failed} THEN "ended" ELSE "rendering"
<1>1. /\ queue \in [Sentences -> Seq(1 .. Failed)]
      /\ waiting \in [Sentences -> Seq(Puts)] /\ scheduled[n] \in Seq(Puts)
      /\ thread \in [Sentences -> [Tiers -> {"none", "rendering", "putting", "ended"}]]
      /\ "expressive" \in Tiers /\ put.item \in 1 .. Failed
  BY DEF IInv, TypeOK, Tiers, Puts
<1>2. /\ queue' = IF lands THEN [queue EXCEPT ![n] = Append(queue[n], put.item)] ELSE queue
      /\ waiting' = IF lands THEN waiting ELSE [waiting EXCEPT ![n] = Append(waiting[n], put)]
      /\ thread' = IF lands /\ latest THEN [thread EXCEPT ![n]["expressive"] = after]
                                     ELSE thread
  BY DEF PutRuns
<1>3. after \in {"ended", "rendering"} /\ (latest => put.item = item[n])
      /\ (latest => thread[n]["expressive"] = "putting")
  OBVIOUS
<1> HIDE DEF lands, latest, after
<1>4. n <= current /\ (at = "locking" /\ next = "streaming" => n # current)
  BY BegunFacts
<1>5. /\ queue'[n] = IF lands THEN Append(queue[n], put.item) ELSE queue[n]
      /\ waiting'[n] = IF lands THEN waiting[n] ELSE Append(waiting[n], put)
      /\ thread'[n]["expressive"] = IF lands /\ latest THEN after
                                    ELSE thread[n]["expressive"]
      /\ \A m \in Sentences : m # n =>
            queue'[m] = queue[m] /\ waiting'[m] = waiting[m] /\ thread'[m] = thread[m]
  BY <1>1, <1>2
<1>6. TypeOK'
  <2>1. queue' \in [Sentences -> Seq(1 .. Failed)]
    BY <1>1, <1>2
  <2>2. waiting' \in [Sentences -> Seq(Puts)]
    BY <1>1, <1>2
  <2>3. thread' \in [Sentences -> [Tiers -> {"none", "rendering", "putting", "ended"}]]
    BY <1>1, <1>2, <1>3
  <2> QED
    BY <2>1, <2>2, <2>3 DEF IInv, TypeOK, taskVars
<1>7. at \in {"streaming", "yielding"} /\ n = current => StreamInStep(n)'
  <2> SUFFICES ASSUME at \in {"streaming", "yielding"}, n = current PROVE StreamInStep(n)'
    OBVIOUS
  <2>1. StreamInStep(n)
    BY DEF IInv
  <2>2. Pending(n)' \subseteq Pending(n)
    <3>1. Elements(Append(waiting[n], put)) = Elements(waiting[n]) \cup {put}
      BY <1>1, ElementsOfAppend
    <3> QED
      BY <1>5, <3>1 DEF Pending
  <2>3. /\ \A x : In(queue[n], x) => In(queue'[n], x)
        /\ lands => In(queue'[n], put.item)
    <3>1. queue[n] \in Seq(1 .. Failed)
      BY <1>1
    <3>2. ASSUME NEW x, In(queue[n], x) \/ x = put.item
          PROVE  In(Append(queue[n], put.item), x)
      <4> DEFINE e == put.item
      <4>1. e \in 1 .. Failed
        BY <1>1
      <4>2. In(queue[n], x) \/ x = e
        BY <3>2
      <4> HIDE DEF e
      <4>3. In(Append(queue[n], e), x)
        BY <3>1, <4>1, <4>2, InAppend
      <4> QED
        BY <4>3 DEF e
    <3>3. queue'[n] = IF lands THEN Append(queue[n], put.item) ELSE queue[n]
      BY <1>5
    <3> QED
      BY <3>2, <3>3
  <2>4. \A y : (Ready(n, y) => Ready(n, y)') /\ (Reached(n, y) => Reached(n, y)')
    BY <2>3 DEF Ready, Reached
  <2>5. \A p \in Pending(n)' : Ready(n, p.item)'
    BY <2>1, <2>2, <2>4 DEF StreamInStep
  <2>6. Ready(n, put.item)
    BY <2>1 DEF StreamInStep
  <2>7. QueueInStep(n)'
    <3>1. CASE ~ lands
      BY <1>5, <2>1, <3>1 DEF StreamInStep, QueueInStep
    <3>2. CASE lands
      <4> DEFINE q == Append(queue[n], put.item)
      <4>1. /\ Len(queue[n]) \in Nat /\ Len(q) = Len(queue[n]) + 1
            /\ q[Len(queue[n]) + 1] = put.item
            /\ \A k \in 1 .. Len(queue[n]) : q[k] = queue[n][k]
        BY <1>1
      <4>2. queue'[n] = q
        BY <1>5, <3>2
      <4> HIDE DEF q
      <4>3. ASSUME NEW k \in 1 .. Len(queue[n]) + 1
            PROVE  \/ q[k] \in {1, Failed}
                   \/ In(heard[n], q[k] - 1)
                   \/ \E j \in 1 .. k - 1 : q[j] = q[k] - 1
        <5>1. CASE k = Len(queue[n]) + 1
          <6>1. put.item = 1 \/ put.item = Failed \/ In(heard[n], put.item - 1)
                \/ In(queue[n], put.item - 1)
            BY <1>1, <2>6 DEF Ready, Reached
          <6> QED
            BY <4>1, <5>1, <6>1 DEF In
        <5>2. CASE k # Len(queue[n]) + 1
          <6>1. k \in 1 .. Len(queue[n]) /\ \A j \in 1 .. k - 1 : j \in 1 .. Len(queue[n])
            BY <4>1, <5>2
          <6>2. \/ queue[n][k] \in {1, Failed}
                \/ In(heard[n], queue[n][k] - 1)
                \/ \E j \in 1 .. k - 1 : queue[n][j] = queue[n][k] - 1
            BY <2>1, <6>1 DEF StreamInStep, QueueInStep
          <6> QED
            BY <4>1, <6>1, <6>2
        <5> QED
          BY <5>1, <5>2
      <4> QED
        BY <4>1, <4>2, <4>3 DEF QueueInStep
    <3> QED
      BY <3>1, <3>2
  <2>8. thread'[n]["expressive"] = "putting" => Ready(n, item[n])'
    BY <1>3, <1>5, <2>1, <2>4 DEF StreamInStep
  <2>9. thread'[n]["expressive"] = "rendering" => Reached(n, item[n])'
    <3>1. lands /\ latest => Reached(n, item[n])'
      BY <1>3, <2>3 DEF Reached
    <3> QED
      BY <1>5, <2>1, <2>4, <3>1 DEF StreamInStep
  <2> QED
    BY <2>5, <2>7, <2>8, <2>9 DEF StreamInStep
<1>8. /\ thread'[n]["expressive"] \in {"rendering", "putting"} =>
             thread[n]["expressive"] \in {"rendering", "putting"}
      /\ thread'[n]["expressive"] = "putting" => item'[n] # 0
  BY <1>3, <1>5 DEF IInv, OffersAnItem
<1> QED
  BY <1>4, <1>5, <1>6, <1>7, <1>8, OneStreamIInv

(* The loop runs a put for the first time, or a waiter that was woken.     *)
LEMMA PutStartsIInv == ASSUME IInv, NEW n \in Sentences, PutStarts(n) PROVE IInv'
<1>1. scheduled[n] \in Seq(Puts) /\ scheduled \in [Sentences -> Seq(Puts)] /\ scheduled[n] # <<>>
      /\ woken \in [Sentences -> Seq(Puts)]
  BY DEF IInv, TypeOK, PutStarts
<1>2. /\ Tail(scheduled[n]) \in Seq(Puts) /\ Head(scheduled[n]) \in Puts
      /\ Elements(Tail(scheduled[n])) \subseteq Elements(scheduled[n])
      /\ Head(scheduled[n]) \in Elements(scheduled[n])
  BY <1>1, ElementsOfTail
<1>3. Head(scheduled[n]) \in Pending(n)
  BY <1>2 DEF Pending
<1>4. /\ scheduled' = [scheduled EXCEPT ![n] = Tail(scheduled[n])] /\ woken' = woken
      /\ PutRuns(n, Head(scheduled[n]))
      /\ UNCHANGED <<settings, engine, lock, closer, taskVars, end, heard, voices,
                     item, tries, cancelled>>
  BY DEF PutStarts
<1>5. /\ scheduled' \in [Sentences -> Seq(Puts)] /\ scheduled'[n] = Tail(scheduled[n])
      /\ \A m \in Sentences : m # n => scheduled'[m] = scheduled[m]
  BY <1>1, <1>2, <1>4
<1> QED
  BY <1>1, <1>2, <1>3, <1>4, <1>5, PutRunsIInv

LEMMA PutResumesIInv == ASSUME IInv, NEW n \in Sentences, PutResumes(n) PROVE IInv'
<1>1. woken[n] \in Seq(Puts) /\ woken \in [Sentences -> Seq(Puts)] /\ woken[n] # <<>>
      /\ scheduled \in [Sentences -> Seq(Puts)]
  BY DEF IInv, TypeOK, PutResumes
<1>2. /\ Tail(woken[n]) \in Seq(Puts) /\ Head(woken[n]) \in Puts
      /\ Elements(Tail(woken[n])) \subseteq Elements(woken[n])
      /\ Head(woken[n]) \in Elements(woken[n])
  BY <1>1, ElementsOfTail
<1>3. Head(woken[n]) \in Pending(n)
  BY <1>2 DEF Pending
<1>4. /\ woken' = [woken EXCEPT ![n] = Tail(woken[n])] /\ scheduled' = scheduled
      /\ PutRuns(n, Head(woken[n]))
      /\ UNCHANGED <<settings, engine, lock, closer, taskVars, end, heard, voices,
                     item, tries, cancelled>>
  BY DEF PutResumes
<1>5. /\ woken' \in [Sentences -> Seq(Puts)] /\ woken'[n] = Tail(woken[n])
      /\ \A m \in Sentences : m # n => woken'[m] = woken[m]
  BY <1>1, <1>2, <1>4
<1> QED
  BY <1>1, <1>2, <1>3, <1>4, <1>5, PutRunsIInv

-----------------------------------------------------------------------------
(* What a step that leaves it alone keeps.                                 *)
LEMMA QuietStreams ==
    ASSUME IInv, UNCHANGED <<heard, queue, scheduled, waiting, woken, item, thread, cancelled>>
    PROVE  /\ \A n \in Sentences : (Fresh(n) => Fresh(n)') /\ (StreamInStep(n) => StreamInStep(n)')
           /\ AllHeardInStep' /\ OffersAnItem'
<1>1. \A n \in Sentences : (Fresh(n) => Fresh(n)') /\ (StreamInStep(n) => StreamInStep(n)')
  BY DEF Fresh, Pending, StreamInStep, QueueInStep, Ready, Reached
<1> QED
  BY <1>1 DEF IInv, AllHeardInStep, OffersAnItem, Sentences

LEMMA QuietVoices == ASSUME VoiceIsOne, UNCHANGED voices PROVE VoiceIsOne'
BY DEF VoiceIsOne

(* The model, once.                                                        *)
LEMMA WarmUpEndsIInv == ASSUME IInv, WarmUpEnds PROVE IInv'
<1>1. /\ UNCHANGED <<settings, lock, closer, current, index, at, next, end, heard, voices, thread,
                     queue, scheduled, waiting, woken, item, tries, cancelled>>
      /\ engine' \in {"ready", "failed"}
  BY DEF WarmUpEnds, streamVars, taskVars
<1>2. TypeOK'
  BY <1>1 DEF IInv, TypeOK
<1>3. \A n \in Sentences : (Fresh(n) => Fresh(n)') /\ (StreamInStep(n) => StreamInStep(n)')
  BY <1>1, QuietStreams
<1>4. AllHeardInStep' /\ OffersAnItem' /\ VoiceIsOne'
  BY <1>1, QuietStreams, QuietVoices DEF IInv
<1>5. FutureUntouched' /\ CallHoldsLock' /\ Working' /\ NoThreadLeftBehind'
  BY <1>1, <1>3 DEF IInv, FutureUntouched, Untouched, CallHoldsLock, Working,
                    NoThreadLeftBehind, Streams, Sentences, Calling
<1>6. StreamNotBegun' /\ (at' \in {"streaming", "yielding"} => StreamInStep(current)')
  BY <1>1, <1>3 DEF IInv, StreamNotBegun, Working, Streams
<1> QED
  BY <1>2, <1>4, <1>5, <1>6 DEF IInv

-----------------------------------------------------------------------------
(* A sentence begins: its call waits for the lock, or finds no engine.     *)
LEMMA BeginsIInv ==
    ASSUME IInv, NEW i \in Sentences, EngineCall(i) \/ EngineMissing(i)
    PROVE  IInv'
<1>1. /\ UNCHANGED <<settings, engine, lock, closer, heard, voices, thread, queue, scheduled,
                     waiting, woken, item, tries, cancelled>>
      /\ at = "idle" /\ current < NumSentences
      /\ current' = current + 1 /\ index' = i
  BY DEF EngineCall, EngineMissing, Begins, streamVars
<1>2. \/ /\ at' = "locking" /\ end' = end
         /\ next' \in {"streaming", "rendering", "opener"}
         /\ next' = "streaming" => settings.streaming
         /\ next' = "rendering" => ~ settings.streaming
      \/ /\ at' = at /\ next' = next
         /\ end' = [end EXCEPT ![current + 1] = "dropped"]
  BY DEF EngineCall, EngineMissing
<1>3. current \in Nat /\ current + 1 \in Sentences /\ NumSentences \in Nat
  BY <1>1, SizesAssumption DEF IInv, TypeOK, Sentences
<1>4. /\ Untouched(current + 1) /\ closer # current + 1
      /\ \A n \in Sentences : n > current' => n > current /\ n # current + 1
  BY <1>1, <1>3 DEF IInv, FutureUntouched, Sentences
<1>5. \A n \in Sentences : n # current + 1 => end'[n] = end[n]
  BY <1>2 DEF IInv, TypeOK
<1>6. \A n \in Sentences : (Fresh(n) => Fresh(n)') /\ (Streams(n)' => Streams(n))
  BY <1>1, QuietStreams DEF Streams
<1>7. TypeOK'
  <2>1. end' \in [Sentences -> {"none", "finished", "dropped", "interrupted", "cut"}]
    BY <1>2 DEF IInv, TypeOK
  <2>2. at' \in {"idle", "locking"} /\ index' \in 0 .. NumSentences
        /\ current' \in 0 .. NumSentences
    BY <1>1, <1>2, <1>3 DEF Sentences
  <2>3. next' \in {"none", "streaming", "rendering", "opener", "finished", "interrupted"}
    BY <1>2 DEF IInv, TypeOK
  <2> QED
    BY <1>1, <2>1, <2>2, <2>3 DEF IInv, TypeOK
<1>8. FutureUntouched'
  <2>1. \A n \in Sentences : n > current' =>
           Fresh(n)' /\ end'[n] = "none" /\ voices'[n] = {} /\ closer' # n
    BY <1>1, <1>4, <1>5, <1>6 DEF IInv, FutureUntouched, Untouched
  <2> QED
    BY <2>1 DEF FutureUntouched, Untouched, Sentences
<1>9. AllHeardInStep' /\ OffersAnItem' /\ VoiceIsOne'
  BY <1>1, QuietStreams, QuietVoices DEF IInv
<1>10. CallHoldsLock'
  BY <1>1, <1>2, <1>3, <1>4 DEF IInv, CallHoldsLock, Calling
<1>11. Working'
  BY <1>1, <1>2, <1>3, <1>4 DEF IInv, Working, Untouched
<1> DEFINE m == current + 1
<1>12. ~ Streams(m) /\ Fresh(m)
  BY <1>4 DEF Untouched, Fresh, Streams
<1>13. NoThreadLeftBehind'
  <2> SUFFICES ASSUME NEW n \in Sentences, Streams(n)'
               PROVE  lock' = n \/ (end'[n] = "cut" /\ cancelled'[n])
    BY DEF NoThreadLeftBehind, Sentences
  <2>1. Streams(n) /\ n # m
    BY <1>6, <1>12
  <2> QED
    BY <1>1, <1>5, <2>1 DEF IInv, NoThreadLeftBehind
<1>14. StreamNotBegun' /\ ~ (at' \in {"streaming", "yielding"})
  <2>1. Fresh(current)' /\ ~ Streams(current)'
    <3>1. PICK next1 \in Sentences : next1 = current + 1
      BY <1>3
    <3>2. Fresh(next1)' /\ ~ Streams(next1)'
      BY <1>6, <1>12, <3>1
    <3> QED
      BY <1>1, <3>1, <3>2 DEF Fresh, Pending, Streams
  <2> QED
    BY <1>1, <1>2, <2>1 DEF StreamNotBegun
<1> QED
  BY <1>7, <1>8, <1>9, <1>10, <1>11, <1>13, <1>14 DEF IInv

(* The call gets the lock, and its thread begins.                          *)
LEMMA TakesLockIInv == ASSUME IInv, TakesLock PROVE IInv'
<1> DEFINE tier == IF next = "opener" THEN "opener" ELSE "expressive"
<1>1. /\ UNCHANGED <<settings, engine, closer, current, index, end, heard, voices, queue,
                     scheduled, waiting, woken, item, tries, cancelled>>
      /\ at = "locking" /\ lock = 0 /\ lock' = current /\ at' = next /\ next' = "none"
      /\ thread' = [thread EXCEPT ![current][tier] = "rendering"]
  BY DEF TakesLock, streamVars
<1>2. /\ current \in Sentences /\ current \in Nat /\ current # 0
      /\ next \in {"streaming", "rendering", "opener"} /\ closer = 0
  BY <1>1 DEF IInv, Working, CallHoldsLock, Sentences, TypeOK
<1>3. /\ tier \in Tiers /\ "expressive" \in Tiers
      /\ next = "opener" => tier # "expressive"
      /\ next # "opener" => tier = "expressive"
  BY DEF Tiers
<1>4. thread \in [Sentences -> [Tiers -> {"none", "rendering", "putting", "ended"}]]
  BY DEF IInv, TypeOK
<1> HIDE DEF tier
<1>5. /\ \A n \in Sentences : n # current => thread'[n] = thread[n]
      /\ next = "opener" => thread'[current]["expressive"] = thread[current]["expressive"]
      /\ next # "opener" => thread'[current]["expressive"] = "rendering"
      /\ thread' \in [Sentences -> [Tiers -> {"none", "rendering", "putting", "ended"}]]
  BY <1>1, <1>2, <1>3, <1>4
<1>6. TypeOK'
  <2>1. lock' \in 0 .. NumSentences
        /\ at' \in {"streaming", "rendering", "opener"}
    BY <1>1, <1>2 DEF IInv, TypeOK
  <2>2. at' \in {"idle", "locking"} \cup Calling
    BY <2>1 DEF Calling
  <2> QED
    BY <1>1, <1>5, <2>1, <2>2 DEF IInv, TypeOK
<1>7. FutureUntouched'
  <2>1. \A n \in Sentences : n > current => n # current
    BY <1>2 DEF Sentences
  <2> QED
    BY <1>1, <1>5, <2>1 DEF IInv, FutureUntouched, Untouched, Fresh, Pending, Sentences
<1>8. OffersAnItem' /\ AllHeardInStep' /\ VoiceIsOne'
  <2>1. \A n \in Sentences : thread'[n]["expressive"] = "putting" =>
           thread[n]["expressive"] = "putting"
    BY <1>2, <1>5
  <2> QED
    BY <1>1, <2>1, QuietVoices DEF IInv, OffersAnItem, AllHeardInStep, Sentences
<1>9. CallHoldsLock'
  BY <1>1, <1>2 DEF CallHoldsLock, Calling
<1>10. Working'
  BY <1>1, <1>2 DEF IInv, Working, StreamNotBegun, Fresh
<1>11. NoThreadLeftBehind'
  BY <1>1, <1>2, <1>5 DEF IInv, NoThreadLeftBehind, Streams, Sentences
<1>12. StreamNotBegun'
  BY <1>1, <1>2, <1>5 DEF IInv, StreamNotBegun, Streams, Working
<1>13. ASSUME at' \in {"streaming", "yielding"} PROVE StreamInStep(current)'
  <2>1. Fresh(current) /\ next = "streaming"
    BY <1>1, <1>2, <1>13 DEF IInv, StreamNotBegun
  <2>2. /\ queue'[current'] = <<>> /\ Pending(current)' = {} /\ item'[current'] = 0
        /\ thread'[current']["expressive"] = "rendering"
    BY <1>1, <1>5, <2>1 DEF Fresh, Pending
  <2>3. QueueInStep(current)'
    <3>1. Len(queue'[current']) = 0
      BY <2>2
    <3>2. \A k : k \notin 1 .. Len(queue'[current'])
      BY <3>1
    <3> QED
      BY <3>2 DEF QueueInStep
  <2> QED
    BY <2>2, <2>3 DEF StreamInStep, Reached
<1> QED
  BY <1>6, <1>7, <1>8, <1>9, <1>10, <1>11, <1>12, <1>13 DEF IInv

(* It has waited for the lock too long, or the chunk has been pushed.      *)
LEMMA SmallStepIInv == ASSUME IInv, LockTimesOut \/ Resumes PROVE IInv'
<1>1. /\ UNCHANGED <<settings, engine, lock, closer, current, index, end, heard, voices, thread,
                     queue, scheduled, waiting, woken, item, tries, cancelled>>
      /\ \/ /\ at = "locking" /\ at' = at /\ next \in {"streaming", "rendering"}
            /\ next' = "opener"
         \/ at = "yielding" /\ at' = "streaming" /\ next' = next
  BY DEF LockTimesOut, Resumes, streamVars
<1>2. TypeOK'
  <2>1. at' \in {"idle", "locking"} \cup Calling
    BY <1>1 DEF Calling
  <2> QED
    BY <1>1, <2>1 DEF IInv, TypeOK
<1>3. \A n \in Sentences : (Fresh(n) => Fresh(n)') /\ (StreamInStep(n) => StreamInStep(n)')
  BY <1>1, QuietStreams
<1>4. AllHeardInStep' /\ OffersAnItem' /\ VoiceIsOne'
  BY <1>1, QuietStreams, QuietVoices DEF IInv
<1>5. FutureUntouched' /\ CallHoldsLock' /\ NoThreadLeftBehind'
  BY <1>1, <1>3 DEF IInv, FutureUntouched, Untouched, CallHoldsLock, NoThreadLeftBehind, Streams,
                    Sentences, Calling
<1>6. Working'
  BY <1>1 DEF IInv, Working
<1>7. StreamNotBegun' /\ (at' \in {"streaming", "yielding"} => StreamInStep(current)')
  BY <1>1, <1>3 DEF IInv, StreamNotBegun, Working, Streams
<1> QED
  BY <1>2, <1>4, <1>5, <1>6, <1>7 DEF IInv

-----------------------------------------------------------------------------
(* run_tts reads the stream.                                               *)
LEMMA GetsChunkIInv == ASSUME IInv, GetsChunk PROVE IInv'
<1> DEFINE x == Head(queue[current])
           n == current
           h == Append(heard[n], x)
           q == Tail(queue[n])
<1>1. /\ UNCHANGED <<settings, engine, lock, closer, current, index, next, end, thread, scheduled,
                     item, tries, cancelled>>
      /\ at = "streaming" /\ at' = "yielding"
      /\ queue[current] # <<>> /\ x \notin {Done, Failed}
      /\ heard' = [heard EXCEPT ![current] = h]
      /\ voices' = [voices EXCEPT ![current] = @ \cup {"expressive"}]
      /\ queue' = [queue EXCEPT ![current] = q]
      /\ Wakes(current, 1)
  BY DEF GetsChunk
<1>2. current \in Sentences /\ StreamInStep(current)
  BY <1>1 DEF IInv, Working
<1>3. /\ queue \in [Sentences -> Seq(1 .. Failed)] /\ queue[n] \in Seq(1 .. Failed)
      /\ heard \in [Sentences -> Seq(1 .. Chunks)] /\ heard[n] \in Seq(1 .. Chunks)
      /\ voices \in [Sentences -> SUBSET Tiers]
  BY <1>2 DEF IInv, TypeOK
<1>4. /\ q \in Seq(1 .. Failed) /\ x \in 1 .. Failed
      /\ Len(queue[n]) \in Nat /\ Len(queue[n]) > 0 /\ Len(q) = Len(queue[n]) - 1
      /\ \A k \in 1 .. Len(queue[n]) - 1 : q[k] = queue[n][k + 1]
      /\ x = queue[n][1]
  BY <1>1, <1>3, TailFacts
<1>5. x \in 1 .. Chunks
  <2> HIDE DEF x
  <2> QED
    BY <1>1, <1>4, SizesAssumption DEF Done, Failed
<1>6. /\ h \in Seq(1 .. Chunks) /\ Len(heard[n]) \in Nat /\ Len(h) = Len(heard[n]) + 1
      /\ h[Len(heard[n]) + 1] = x
      /\ \A k \in 1 .. Len(heard[n]) : h[k] = heard[n][k]
      /\ In(h, x) /\ \A y : In(heard[n], y) => In(h, y)
  <2> HIDE DEF x
  <2>1. ASSUME NEW y, In(heard[n], y) \/ y = x PROVE In(h, y)
    BY <1>3, <1>5, <2>1, InAppend
  <2> QED
    BY <1>3, <1>5, <2>1
<1>7. /\ heard'[n] = h /\ queue'[n] = q
      /\ voices'[n] = voices[n] \cup {"expressive"}
      /\ \A m \in Sentences : m # n =>
            heard'[m] = heard[m] /\ queue'[m] = queue[m] /\ voices'[m] = voices[m]
  BY <1>1, <1>2, <1>3
<1>8. /\ waiting' \in [Sentences -> Seq(Puts)] /\ woken' \in [Sentences -> Seq(Puts)]
      /\ \A m \in Sentences : m # n => waiting'[m] = waiting[m] /\ woken'[m] = woken[m]
      /\ Pending(n)' \subseteq Pending(n)
  <2>1. /\ waiting' \in [Sentences -> Seq(Puts)] /\ woken' \in [Sentences -> Seq(Puts)]
        /\ \A m \in Sentences : m # n => waiting'[m] = waiting[m] /\ woken'[m] = woken[m]
        /\ Elements(waiting'[n]) \subseteq Elements(waiting[n])
        /\ Elements(woken'[n]) \subseteq Elements(woken[n]) \cup Elements(waiting[n])
    BY <1>1, <1>2, WakesFacts DEF IInv
  <2> QED
    BY <1>1, <2>1 DEF Pending
<1>9. x = 1 \/ In(heard[n], x - 1)
  <2>1. 1 \in 1 .. Len(queue[n]) /\ \A j : j \notin 1 .. 1 - 1
    BY <1>4
  <2>2. x # Failed
    BY <1>1
  <2> QED
    BY <1>2, <1>4, <2>1, <2>2 DEF StreamInStep, QueueInStep
<1> HIDE DEF x, h, q
<1>10. TypeOK'
  <2>1. heard' \in [Sentences -> Seq(1 .. Chunks)] /\ queue' \in [Sentences -> Seq(1 .. Failed)]
        /\ voices' \in [Sentences -> SUBSET Tiers]
    BY <1>1, <1>3, <1>4, <1>6 DEF Tiers
  <2>2. at' \in {"idle", "locking"} \cup Calling
    BY <1>1 DEF Calling
  <2> QED
    BY <1>1, <1>8, <2>1, <2>2 DEF IInv, TypeOK
<1>11. FutureUntouched' /\ OffersAnItem'
  <2>1. \A m \in Sentences : m > current => m # n
    BY <1>2 DEF Sentences
  <2> QED
    BY <1>1, <1>7, <1>8, <2>1
    DEF IInv, FutureUntouched, Untouched, Fresh, Pending, OffersAnItem, Sentences
<1>12. CallHoldsLock' /\ StreamNotBegun'
  BY <1>1 DEF IInv, CallHoldsLock, Calling, Working, StreamNotBegun
<1>13. Working'
  <2>1. heard'[n] # <<>>
    <3>1. Len(h) # 0
      BY <1>6
    <3> QED
      BY <1>7, <3>1
  <2> QED
    BY <1>1, <1>2, <1>7, <2>1 DEF IInv, Working
<1>14. VoiceIsOne'
  <2>1. voices'[n] \subseteq {"expressive"} /\ "expressive" \in Tiers
    BY <1>1, <1>7 DEF IInv, Working, Tiers
  <2> QED
    BY <1>7, <2>1 DEF IInv, VoiceIsOne, Sentences, Tiers
<1>15. NoThreadLeftBehind'
  BY <1>1 DEF IInv, NoThreadLeftBehind, Streams, Sentences
<1>16. AllHeardInStep'
  <2>1. HeardInStep(h)
    <3>1. HeardInStep(heard[n])
      BY <1>2 DEF IInv, AllHeardInStep
    <3> SUFFICES ASSUME NEW k \in 1 .. Len(heard[n]) + 1
                 PROVE  h[k] = 1 \/ \E j \in 1 .. k - 1 : h[j] = h[k] - 1
      BY <1>6 DEF HeardInStep
    <3>2. CASE k = Len(heard[n]) + 1
      BY <1>6, <1>9, <3>2 DEF In
    <3>3. CASE k # Len(heard[n]) + 1
      <4>1. k \in 1 .. Len(heard[n]) /\ \A j \in 1 .. k - 1 : j \in 1 .. Len(heard[n])
        BY <1>6, <3>3
      <4> QED
        BY <1>6, <3>1, <4>1 DEF HeardInStep
    <3> QED
      BY <3>2, <3>3
  <2> QED
    BY <1>7, <2>1 DEF IInv, AllHeardInStep, Sentences
<1>17. StreamInStep(n)'
  <2>1. \A y : In(queue[n], y) => In(h, y) \/ In(q, y)
    <3> SUFFICES ASSUME NEW y, NEW k \in 1 .. Len(queue[n]), queue[n][k] = y
                 PROVE  In(h, y) \/ In(q, y)
      BY DEF In
    <3>1. CASE k = 1
      BY <1>4, <1>6, <3>1
    <3>2. CASE k # 1
      <4>1. k - 1 \in 1 .. Len(q) /\ q[k - 1] = queue[n][k]
        BY <1>4, <3>2
      <4> QED
        BY <4>1 DEF In
    <3> QED
      BY <3>1, <3>2
  <2>2. \A y : (Ready(n, y) => Ready(n, y)') /\ (Reached(n, y) => Reached(n, y)')
    BY <1>1, <1>6, <1>7, <2>1 DEF Ready, Reached
  <2>3. QueueInStep(n)'
    <3> SUFFICES ASSUME NEW k \in 1 .. Len(q)
                 PROVE  \/ q[k] \in {1, Failed}
                        \/ In(h, q[k] - 1)
                        \/ \E j \in 1 .. k - 1 : q[j] = q[k] - 1
      BY <1>1, <1>7 DEF QueueInStep
    <3>1. k + 1 \in 1 .. Len(queue[n]) /\ q[k] = queue[n][k + 1] /\ k \in Nat
      BY <1>4
    <3>2. \/ q[k] \in {1, Failed}
          \/ In(heard[n], q[k] - 1)
          \/ \E j \in 1 .. (k + 1) - 1 : queue[n][j] = q[k] - 1
      BY <1>2, <3>1 DEF StreamInStep, QueueInStep
    <3>3. ASSUME NEW j \in 1 .. (k + 1) - 1, queue[n][j] = q[k] - 1
          PROVE  In(h, q[k] - 1) \/ \E i \in 1 .. k - 1 : q[i] = q[k] - 1
      <4>1. CASE j = 1
        BY <1>4, <1>6, <3>3, <4>1
      <4>2. CASE j # 1
        <5>1. j - 1 \in 1 .. k - 1 /\ j - 1 \in 1 .. Len(queue[n]) - 1 /\ (j - 1) + 1 = j
          BY <1>4, <3>1, <4>2
        <5>2. q[j - 1] = queue[n][j]
          BY <1>4, <5>1
        <5> QED
          BY <3>3, <5>1, <5>2
      <4> QED
        BY <4>1, <4>2
    <3> QED
      BY <1>6, <3>2, <3>3
  <2>4. \A p \in Pending(n)' : Ready(n, p.item)'
    BY <1>2, <1>8, <2>2 DEF StreamInStep
  <2> QED
    BY <1>1, <1>2, <2>2, <2>3, <2>4 DEF StreamInStep
<1>18. StreamInStep(current)'
  BY <1>1, <1>17 DEF StreamInStep, QueueInStep, Pending, Ready, Reached
<1> QED
  BY <1>1, <1>10, <1>11, <1>12, <1>13, <1>14, <1>15, <1>16, <1>18 DEF IInv

(* Three ways out of the stream: its end, a timeout and a barge-in.        *)
LEMMA LeavesIInv ==
    ASSUME IInv, NEW then \in {"opener", "finished", "interrupted"}, Leaves(then),
           then = "opener" => heard[current] = <<>>
    PROVE  IInv'
<1>1. /\ UNCHANGED <<settings, engine, lock, closer, current, index, end, heard, voices, thread,
                     scheduled, item, tries>>
      /\ at = "streaming" /\ at' = "closing" /\ next' = then
      /\ queue' = [queue EXCEPT ![current] = <<>>]
      /\ cancelled' = [cancelled EXCEPT ![current] = TRUE]
      /\ Wakes(current, Len(queue[current]))
  BY DEF Leaves, TellsAndDrains
<1>2. current \in Sentences /\ Len(queue[current]) \in Nat
  BY <1>1 DEF IInv, Working, TypeOK
<1>3. /\ waiting' \in [Sentences -> Seq(Puts)] /\ woken' \in [Sentences -> Seq(Puts)]
      /\ \A m \in Sentences : m # current => waiting'[m] = waiting[m] /\ woken'[m] = woken[m]
  BY <1>1, <1>2, WakesFacts DEF IInv
<1>4. /\ cancelled'[current] = TRUE
      /\ \A m \in Sentences : m # current => queue'[m] = queue[m] /\ cancelled'[m] = cancelled[m]
  BY <1>1, <1>2 DEF IInv, TypeOK
<1>5. TypeOK'
  <2>1. queue' \in [Sentences -> Seq(1 .. Failed)]
    BY <1>1, EmptySeq DEF IInv, TypeOK
  <2>2. cancelled' \in [Sentences -> BOOLEAN]
    BY <1>1 DEF IInv, TypeOK
  <2>3. at' \in {"idle", "locking"} \cup Calling
    BY <1>1 DEF Calling
  <2> QED
    BY <1>1, <1>3, <2>1, <2>2, <2>3 DEF IInv, TypeOK
<1>6. FutureUntouched'
  <2>1. \A m \in Sentences : m > current => m # current
    BY <1>2 DEF Sentences
  <2> QED
    BY <1>1, <1>3, <1>4, <2>1 DEF IInv, FutureUntouched, Untouched, Fresh, Pending, Sentences
<1>7. OffersAnItem' /\ AllHeardInStep' /\ VoiceIsOne'
  BY <1>1 DEF IInv, OffersAnItem, AllHeardInStep, VoiceIsOne, Sentences
<1>8. CallHoldsLock' /\ StreamNotBegun'
  BY <1>1 DEF IInv, CallHoldsLock, Calling, StreamNotBegun
<1>9. Working'
  BY <1>1, <1>2, <1>4 DEF IInv, Working
<1>10. NoThreadLeftBehind'
  BY <1>1, <1>4 DEF IInv, NoThreadLeftBehind, Streams, Sentences
<1> QED
  BY <1>1, <1>5, <1>6, <1>7, <1>8, <1>9, <1>10 DEF IInv

LEMMA LeavingIInv == ASSUME IInv, StreamEnds \/ ChunkTimesOut \/ BargeInOnStream PROVE IInv'
<1>1. CASE BargeInOnStream
  BY <1>1, LeavesIInv DEF BargeInOnStream
<1>2. CASE StreamEnds \/ ChunkTimesOut
  <2>1. Leaves(AfterTrouble)
    BY <1>2 DEF StreamEnds, ChunkTimesOut
  <2>2. /\ AfterTrouble \in {"opener", "finished", "interrupted"}
        /\ AfterTrouble = "opener" => heard[current] = <<>>
    BY DEF AfterTrouble
  <2> QED
    BY <2>1, <2>2, LeavesIInv
<1> QED
  BY <1>1, <1>2

(* The generator that was dropped is closed: its thread is told, ...       *)
LEMMA CloserTellsIInv == ASSUME IInv, CloserTells PROVE IInv'
<1>1. /\ UNCHANGED <<settings, engine, lock, closer, current, index, at, next, end, heard, voices,
                     thread, scheduled, item, tries>>
      /\ closer # 0
      /\ queue' = [queue EXCEPT ![closer] = <<>>]
      /\ cancelled' = [cancelled EXCEPT ![closer] = TRUE]
      /\ Wakes(closer, Len(queue[closer]))
  BY DEF CloserTells, TellsAndDrains, taskVars
<1>2. closer \in Sentences /\ Len(queue[closer]) \in Nat
  <2>1. closer \in Sentences
    BY <1>1, SizesAssumption DEF IInv, TypeOK, Sentences
  <2> QED
    BY <2>1 DEF IInv, TypeOK
<1>3. /\ waiting' \in [Sentences -> Seq(Puts)] /\ woken' \in [Sentences -> Seq(Puts)]
      /\ \A m \in Sentences : m # closer => waiting'[m] = waiting[m] /\ woken'[m] = woken[m]
  BY <1>1, <1>2, WakesFacts DEF IInv
<1>4. /\ cancelled'[closer] = TRUE
      /\ \A m \in Sentences : m # closer => queue'[m] = queue[m] /\ cancelled'[m] = cancelled[m]
  BY <1>1, <1>2 DEF IInv, TypeOK
<1>5. /\ at # "idle" => closer # current /\ current \in Sentences
      /\ \A m \in Sentences : m > current => m # closer
      /\ at \notin {"streaming", "yielding", "closing"}
  <2>1. at \in Calling => closer = current
    BY <1>1 DEF IInv, CallHoldsLock
  <2> QED
    BY <1>1, <2>1 DEF IInv, CallHoldsLock, FutureUntouched, Working, Calling
<1>6. TypeOK'
  <2>1. queue' \in [Sentences -> Seq(1 .. Failed)]
    BY <1>1, EmptySeq DEF IInv, TypeOK
  <2>2. cancelled' \in [Sentences -> BOOLEAN]
    BY <1>1 DEF IInv, TypeOK
  <2> QED
    BY <1>1, <1>3, <2>1, <2>2 DEF IInv, TypeOK
<1>7. FutureUntouched'
  BY <1>1, <1>3, <1>4, <1>5 DEF IInv, FutureUntouched, Untouched, Fresh, Pending, Sentences
<1>8. OffersAnItem' /\ AllHeardInStep' /\ VoiceIsOne' /\ CallHoldsLock'
  BY <1>1 DEF IInv, OffersAnItem, AllHeardInStep, VoiceIsOne, CallHoldsLock, Calling, Sentences
<1>9. Working'
  BY <1>1, <1>4, <1>5 DEF IInv, Working
<1>10. NoThreadLeftBehind'
  BY <1>1, <1>4 DEF IInv, NoThreadLeftBehind, Streams, Sentences
<1>11. StreamNotBegun'
  BY <1>1, <1>3, <1>4, <1>5 DEF IInv, StreamNotBegun, Streams, Fresh, Pending
<1> QED
  BY <1>1, <1>5, <1>6, <1>7, <1>8, <1>9, <1>10, <1>11 DEF IInv

(* ... and when it has ended the lock comes free.                          *)
LEMMA CloserEndsIInv == ASSUME IInv, CloserEnds PROVE IInv'
<1>1. /\ UNCHANGED <<settings, engine, current, index, at, next, end, heard, voices, thread, queue,
                     scheduled, waiting, woken, item, tries, cancelled>>
      /\ closer # 0 /\ closer' = 0 /\ lock' = 0
      /\ thread[closer]["expressive"] = "ended"
  BY DEF CloserEnds, ThreadGone, taskVars, streamVars
<1>2. lock = closer /\ ~ Streams(closer) /\ at \notin Calling
  BY <1>1 DEF IInv, CallHoldsLock, Streams, Calling
<1>3. TypeOK'
  BY <1>1, SizesAssumption DEF IInv, TypeOK
<1>4. \A n \in Sentences : (Fresh(n) => Fresh(n)') /\ (StreamInStep(n) => StreamInStep(n)')
  BY <1>1, QuietStreams
<1>5. AllHeardInStep' /\ OffersAnItem' /\ VoiceIsOne'
  BY <1>1, QuietStreams, QuietVoices DEF IInv
<1>6. FutureUntouched' /\ Working'
  <2>1. \A n \in Sentences : n # 0
    BY DEF Sentences
  <2> QED
    BY <1>1, <1>4, <2>1 DEF IInv, FutureUntouched, Untouched, Working, Sentences
<1>7. CallHoldsLock'
  BY <1>1, <1>2 DEF CallHoldsLock, Calling
<1>8. NoThreadLeftBehind'
  BY <1>1, <1>2 DEF IInv, NoThreadLeftBehind, Streams, Sentences
<1>9. StreamNotBegun' /\ (at' \in {"streaming", "yielding"} => StreamInStep(current)')
  BY <1>1, <1>2, <1>4 DEF IInv, StreamNotBegun, Working, Streams, Calling
<1> QED
  BY <1>3, <1>5, <1>6, <1>7, <1>8, <1>9 DEF IInv

-----------------------------------------------------------------------------
(* The call for a sentence lets go of the lock, or of waiting for it: the  *)
(* sentence is over, or its opener asks for the lock in its turn.          *)
LEMMA CallEndsIInv ==
    ASSUME IInv, at \in {"locking", "closing", "rendering", "opener"},
           UNCHANGED <<settings, engine, closer, current, index, heard, queue, scheduled,
                       waiting, woken, item, tries, cancelled>>,
           \/ /\ at' = "idle" /\ next' \in {"none", next}
              /\ at = "locking" => next' = "none"
              /\ \E e \in {"finished", "dropped", "interrupted", "cut"} :
                    end' = [end EXCEPT ![current] = e]
           \/ /\ at' = "locking" /\ next' = "opener" /\ end' = end
              /\ voices' = voices /\ voices[current] = {} /\ at # "locking",
           lock' = IF at = "locking" THEN lock ELSE 0,
           \/ voices' = voices
           \/ /\ VoiceIsOne'
              /\ voices' \in [Sentences -> SUBSET Tiers]
              /\ \A m \in Sentences : m # current => voices'[m] = voices[m],
           NEW t \in Tiers,
           thread' = thread \/ thread' = [thread EXCEPT ![current][t] = "ended"],
           Streams(current) => /\ end' = [end EXCEPT ![current] = "cut"]
                               /\ cancelled[current]
    PROVE  IInv'
<1>1. current \in Sentences /\ current \in Nat /\ current # 0
  BY DEF IInv, Working, TypeOK, Sentences
<1>2. /\ thread \in [Sentences -> [Tiers -> {"none", "rendering", "putting", "ended"}]]
      /\ end \in [Sentences -> {"none", "finished", "dropped", "interrupted", "cut"}]
      /\ "expressive" \in Tiers
  BY DEF IInv, TypeOK, Tiers
<1>3. /\ thread' \in [Sentences -> [Tiers -> {"none", "rendering", "putting", "ended"}]]
      /\ \A m \in Sentences : m # current => thread'[m] = thread[m]
      /\ thread'[current]["expressive"] \in {thread[current]["expressive"], "ended"}
  <2>1. CASE thread' = [thread EXCEPT ![current][t] = "ended"]
    BY <1>1, <1>2, <2>1
  <2> QED
    BY <1>2, <2>1
<1>4. /\ end' \in [Sentences -> {"none", "finished", "dropped", "interrupted", "cut"}]
      /\ \A m \in Sentences : m # current => end'[m] = end[m]
  BY <1>1, <1>2
<1>5. TypeOK'
  <2>1. voices' \in [Sentences -> SUBSET Tiers]
    BY DEF IInv, TypeOK
  <2>2. /\ lock' \in 0 .. NumSentences
        /\ next' \in {"none", "streaming", "rendering", "opener", "finished", "interrupted"}
        /\ at' \in {"idle", "locking"} \cup Calling
    BY SizesAssumption DEF IInv, TypeOK
  <2>3. TypeOK
    BY DEF IInv
  <2> QED
    BY <1>3, <1>4, <2>1, <2>2, <2>3 DEF TypeOK
<1>6. FutureUntouched'
  <2>1. \A m \in Sentences : m > current => m # current
    BY <1>1 DEF Sentences
  <2>2. \A m \in Sentences : m # current => voices'[m] = voices[m]
    OBVIOUS
  <2> QED
    BY <1>3, <1>4, <2>1, <2>2 DEF IInv, FutureUntouched, Untouched, Fresh, Pending, Sentences
<1>7. OffersAnItem' /\ AllHeardInStep'
  <2>1. \A m \in Sentences : thread'[m]["expressive"] = "putting" =>
           thread[m]["expressive"] = "putting"
    BY <1>3
  <2> QED
    BY <2>1 DEF IInv, OffersAnItem, AllHeardInStep, Sentences
<1>8. VoiceIsOne'
  BY QuietVoices DEF IInv
<1>9. CallHoldsLock'
  BY <1>1 DEF IInv, CallHoldsLock, Calling
<1>10. Working'
  BY <1>1 DEF IInv, Working
<1>11. \A m \in Sentences : Streams(m)' => Streams(m)
  <2>1. \A m \in Sentences : thread'[m]["expressive"] \in {"rendering", "putting"} =>
           thread[m]["expressive"] \in {"rendering", "putting"}
    BY <1>3
  <2> QED
    BY <2>1 DEF Streams
<1>12. NoThreadLeftBehind'
  <2> SUFFICES ASSUME NEW m \in Sentences, Streams(m)'
               PROVE  lock' = m \/ (end'[m] = "cut" /\ cancelled'[m])
    BY DEF NoThreadLeftBehind, Sentences
  <2>1. Streams(m) /\ (lock = m \/ (end[m] = "cut" /\ cancelled[m]))
    BY <1>11 DEF IInv, NoThreadLeftBehind
  <2>2. CASE m = current
    BY <1>1, <1>2, <2>1, <2>2
  <2>3. CASE m # current
    <3>1. at # "locking" => lock = current
      BY DEF IInv, CallHoldsLock, Calling
    <3> QED
      BY <1>4, <2>1, <2>3, <3>1
  <2> QED
    BY <2>2, <2>3
<1>13. StreamNotBegun'
  <2>1. at' = "locking" => ~ Streams(current)
    <3>1. at' = "locking" /\ Streams(current) => end[current] = "cut"
      BY <1>1, <1>2
    <3> QED
      BY <3>1 DEF IInv, Working
  <2> QED
    BY <1>1, <1>11, <2>1 DEF StreamNotBegun, Streams
<1> QED
  BY <1>5, <1>6, <1>7, <1>8, <1>9, <1>10, <1>12, <1>13 DEF IInv

(* A rendered sentence comes back from its thread.                         *)
LEMMA RenderReturnsIInv == ASSUME IInv, RenderReturns PROVE IInv'
<1>1. /\ UNCHANGED <<settings, engine, closer, current, index, next, heard, queue, scheduled,
                     waiting, woken, item, tries, cancelled>>
      /\ at \in {"rendering", "opener"} /\ at' = "idle" /\ lock' = 0
      /\ thread' = [thread EXCEPT ![current][RendererTier] = "ended"]
      /\ voices' = [voices EXCEPT ![current] = @ \cup {RendererTier}]
      /\ end' = [end EXCEPT ![current] = "finished"]
      /\ RendererTier \in Tiers
  BY DEF RenderReturns, streamVars, RendererTier, Tiers
<1>2. current \in Sentences /\ voices[current] = {} /\ ~ Streams(current)
  BY <1>1 DEF IInv, Working, StreamNotBegun, Streams
<1>3. voices'[current] = {RendererTier}
      /\ \A m \in Sentences : m # current => voices'[m] = voices[m]
  BY <1>1, <1>2 DEF IInv, TypeOK
<1>4. VoiceIsOne'
  BY <1>1, <1>3 DEF IInv, VoiceIsOne, Sentences, Tiers
<1>5. voices' \in [Sentences -> SUBSET Tiers]
  BY <1>1 DEF IInv, TypeOK
<1> QED
  BY <1>1, <1>2, <1>3, <1>4, <1>5, CallEndsIInv

(* The engine raises while the opener renders.                             *)
LEMMA OpenerRaisesIInv == ASSUME IInv, OpenerRaises PROVE IInv'
<1>1. /\ UNCHANGED <<settings, engine, closer, current, index, next, heard, voices, queue,
                     scheduled, waiting, woken, item, tries, cancelled>>
      /\ at = "opener" /\ at' = "idle" /\ lock' = 0
      /\ thread' = [thread EXCEPT ![current]["opener"] = "ended"]
      /\ end' = [end EXCEPT ![current] = "dropped"]
      /\ "opener" \in Tiers
  BY DEF OpenerRaises, streamVars, Tiers
<1>2. ~ Streams(current)
  BY <1>1 DEF IInv, StreamNotBegun
<1> QED
  BY <1>1, <1>2, CallEndsIInv

(* The caller is cancelled while it waits for a thread or for the lock.    *)
LEMMA BargeInOnWaitIInv == ASSUME IInv, BargeInOnWait PROVE IInv'
<1> DEFINE e == IF at = "closing" THEN "cut" ELSE "interrupted"
<1>1. /\ UNCHANGED <<settings, engine, closer, current, index, heard, voices, thread, queue,
                     scheduled, waiting, woken, item, tries, cancelled>>
      /\ at \in {"locking", "closing", "rendering", "opener"} /\ at' = "idle"
      /\ next' = "none"
      /\ lock' = IF at = "locking" THEN lock ELSE 0
      /\ end' = [end EXCEPT ![current] = e]
      /\ "opener" \in Tiers
  BY DEF BargeInOnWait, streamVars, Tiers
<1>2. e \in {"finished", "dropped", "interrupted", "cut"} /\ (at = "closing" => e = "cut")
  OBVIOUS
<1> HIDE DEF e
<1>3. Streams(current) => at = "closing"
  BY <1>1 DEF IInv, StreamNotBegun, Working, Streams
<1>4. at = "closing" => cancelled[current]
  BY DEF IInv, Working
<1> QED
  BY <1>1, <1>2, <1>3, <1>4, CallEndsIInv

(* The stream is closed in order.                                          *)
LEMMA StreamClosedIInv == ASSUME IInv, StreamClosed PROVE IInv'
<1>1. /\ UNCHANGED <<settings, engine, closer, current, index, heard, voices, thread, queue,
                     scheduled, waiting, woken, item, tries, cancelled>>
      /\ at = "closing" /\ lock' = 0 /\ thread[current]["expressive"] = "ended"
      /\ "opener" \in Tiers
  BY DEF StreamClosed, ThreadGone, streamVars, Tiers
<1>2. ~ Streams(current) /\ next \in {"opener", "finished", "interrupted"}
      /\ (next = "opener" => voices[current] = {})
  BY <1>1 DEF Streams, IInv, Working
<1>3. CASE next = "opener"
  <2>1. at' = "locking" /\ next' = "opener" /\ end' = end
    BY <1>3 DEF StreamClosed
  <2> QED
    BY <1>1, <1>2, <1>3, <2>1, CallEndsIInv
<1>4. CASE next # "opener"
  <2>1. at' = "idle" /\ next' = "none" /\ end' = [end EXCEPT ![current] = next]
    BY <1>4 DEF StreamClosed
  <2>2. PICK e \in {"finished", "dropped", "interrupted", "cut"} : e = next
    BY <1>2, <1>4
  <2>3. end' = [end EXCEPT ![current] = e]
    BY <2>1, <2>2
  <2> QED
    BY <1>1, <1>2, <2>1, <2>3, CallEndsIInv
<1> QED
  BY <1>3, <1>4

(* The whole render fails or is given up: the opener takes over.           *)
LEMMA OpenerTakesOverIInv == ASSUME IInv, ExpressiveRaises \/ ExpressiveTimesOut PROVE IInv'
<1>1. /\ UNCHANGED <<settings, engine, closer, current, index, end, heard, voices, queue,
                     scheduled, waiting, woken, item, tries, cancelled>>
      /\ at = "rendering" /\ at' = "locking" /\ next' = "opener" /\ lock' = 0
      /\ thread' = thread \/ thread' = [thread EXCEPT ![current]["expressive"] = "ended"]
      /\ "expressive" \in Tiers
  BY DEF ExpressiveRaises, ExpressiveTimesOut, OpenerTakesOver, streamVars, Tiers
<1>2. ~ Streams(current) /\ voices[current] = {}
  BY <1>1 DEF IInv, Working, Streams
<1> QED
  BY <1>1, <1>2, CallEndsIInv

(* The generator is dropped at its yield, with the lock.                   *)
LEMMA BargeInOnYieldIInv == ASSUME IInv, BargeInOnYield PROVE IInv'
<1>1. /\ UNCHANGED <<settings, engine, lock, current, index, next, heard, voices, thread, queue,
                     scheduled, waiting, woken, item, tries, cancelled>>
      /\ at = "yielding" /\ at' = "idle" /\ closer' = current
      /\ end' = [end EXCEPT ![current] = "interrupted"]
  BY DEF BargeInOnYield, streamVars
<1>2. current \in Sentences /\ lock = current /\ end[current] = "none"
  BY <1>1 DEF IInv, Working, CallHoldsLock, Calling
<1>3. \A m \in Sentences : m # current => end'[m] = end[m]
  BY <1>1 DEF IInv, TypeOK
<1>4. TypeOK'
  BY <1>1 DEF IInv, TypeOK
<1>5. \A n \in Sentences : Fresh(n) => Fresh(n)'
  BY <1>1, QuietStreams
<1>6. AllHeardInStep' /\ OffersAnItem' /\ VoiceIsOne'
  BY <1>1, QuietStreams, QuietVoices DEF IInv
<1>7. FutureUntouched'
  <2>1. \A m \in Sentences : m > current => m # current
    BY <1>2 DEF Sentences
  <2> QED
    BY <1>1, <1>3, <1>5, <2>1 DEF IInv, FutureUntouched, Untouched, Sentences
<1>8. CallHoldsLock' /\ StreamNotBegun'
  BY <1>1, <1>2 DEF CallHoldsLock, StreamNotBegun, Calling
<1>9. Working'
  BY <1>1 DEF IInv, Working
<1>10. NoThreadLeftBehind'
  BY <1>1, <1>2, <1>3 DEF IInv, NoThreadLeftBehind, Streams, Sentences
<1> QED
  BY <1>1, <1>4, <1>6, <1>7, <1>8, <1>9, <1>10 DEF IInv

-----------------------------------------------------------------------------
(* Nothing has been said.                                                  *)
LEMMA InitIInv == Init => IInv
<1> SUFFICES ASSUME Init PROVE IInv
  OBVIOUS
<1>1. 0 \in 0 .. NumSentences /\ 0 \in 0 .. Failed /\ 0 \in 0 .. MaxPuts
  BY SizesAssumption DEF Failed
<1>2. <<>> \in Seq(1 .. Chunks) /\ <<>> \in Seq(1 .. Failed) /\ <<>> \in Seq(Puts)
  BY EmptySeq
<1>3. TypeOK
  BY <1>1, <1>2 DEF Init, TypeOK, Tiers
<1>4. \A n \in Sentences : Fresh(n) /\ ~ Streams(n) /\ n # 0
  BY ElementsOfEmpty DEF Init, Fresh, Pending, Streams, Tiers, Sentences
<1>5. FutureUntouched /\ OffersAnItem
  BY <1>4 DEF Init, FutureUntouched, Untouched, OffersAnItem, Tiers
<1>6. CallHoldsLock /\ Working /\ StreamNotBegun /\ NoThreadLeftBehind
  BY <1>4 DEF Init, CallHoldsLock, Calling, Working, StreamNotBegun, NoThreadLeftBehind
<1>7. VoiceIsOne
  BY DEF Init, VoiceIsOne, Tiers
<1>8. AllHeardInStep
  <2>1. \A n \in Sentences : heard[n] = <<>>
    BY DEF Init
  <2> QED
    BY <2>1, EmptySeq DEF AllHeardInStep, HeardInStep
<1>9. at \notin {"streaming", "yielding"}
  BY DEF Init
<1> QED
  BY <1>3, <1>5, <1>6, <1>7, <1>8, <1>9 DEF IInv

(* A stutter keeps the invariant.                                          *)
LEMMA StutterIInv == ASSUME IInv, UNCHANGED vars PROVE IInv'
<1>1. UNCHANGED <<settings, engine, lock, closer, current, index, at, next, end, heard, voices,
                  thread, queue, scheduled, waiting, woken, item, tries, cancelled>>
  BY DEF vars
<1>2. TypeOK'
  BY <1>1 DEF IInv, TypeOK
<1>3. \A n \in Sentences : (Fresh(n) => Fresh(n)') /\ (StreamInStep(n) => StreamInStep(n)')
  BY <1>1, QuietStreams
<1>4. AllHeardInStep' /\ OffersAnItem' /\ VoiceIsOne'
  BY <1>1, QuietStreams, QuietVoices DEF IInv
<1>5. FutureUntouched' /\ CallHoldsLock' /\ Working' /\ NoThreadLeftBehind'
  BY <1>1, <1>3 DEF IInv, FutureUntouched, Untouched, CallHoldsLock, Working,
                    NoThreadLeftBehind, Streams, Sentences, Calling
<1>6. StreamNotBegun' /\ (at' \in {"streaming", "yielding"} => StreamInStep(current)')
  BY <1>1, <1>3 DEF IInv, StreamNotBegun, Working, Streams
<1> QED
  BY <1>2, <1>4, <1>5, <1>6 DEF IInv

(* Every step keeps the invariant.                                         *)
LEMMA NextIInv == ASSUME IInv, [Next]_vars PROVE IInv'
<1>1. ASSUME NEW i \in Sentences, EngineCall(i) \/ EngineMissing(i)
      PROVE  IInv'
  BY <1>1, BeginsIInv
<1>2. ASSUME NEW n \in Sentences, ThreadStep(n) \/ PutStep(n)
      PROVE  IInv'
  BY <1>2, RendersIInv, PutTimesOutIInv, OrphanEndsIInv, PutStartsIInv, PutResumesIInv
  DEF ThreadStep, PutStep
<1>3. CASE ReadStep \/ LockTimesOut \/ ChunkTimesOut
  BY <1>3, TakesLockIInv, SmallStepIInv, GetsChunkIInv, LeavingIInv, StreamClosedIInv
  DEF ReadStep
<1>4. CASE RenderStep \/ ExpressiveTimesOut
  BY <1>4, RenderReturnsIInv, OpenerTakesOverIInv, OpenerRaisesIInv DEF RenderStep
<1>5. CASE BargeIn
  BY <1>5, LeavingIInv, BargeInOnWaitIInv, BargeInOnYieldIInv DEF BargeIn
<1>6. CASE CloserStep
  BY <1>6, CloserTellsIInv, CloserEndsIInv DEF CloserStep
<1>7. CASE WarmUpEnds \/ UNCHANGED vars
  BY <1>7, WarmUpEndsIInv, StutterIInv
<1> QED
  BY <1>1, <1>2, <1>3, <1>4, <1>5, <1>6, <1>7 DEF Next

(* The inductive invariant of run_tts, its threads, their puts and the     *)
(* lock.                                                                   *)
THEOREM Invariance == Spec => []IInv
<1>1. Init => IInv
  BY InitIInv
<1>2. IInv /\ [Next]_vars => IInv'
  BY NextIInv
<1> QED
  BY <1>1, <1>2, PTL DEF Spec

(* Every variable of the speaking service keeps its type, so run_tts never *)
(* passes the sentinel or an exception on as audio.                        *)
THEOREM TypeCorrect == Spec => []TypeOK
<1>1. IInv => TypeOK
  BY DEF IInv
<1> QED
  BY <1>1, Invariance, PTL

(* No chunk of a sentence is left out on its way to the listener, in       *)
(* whatever order the loop runs the puts, however often they are repeated, *)
(* at every size of the queue; and what is read to its sentinel has been   *)
(* heard whole.                                                            *)
THEOREM NoneLeftOut == Spec => []NothingSkipped
<1>1. IInv => NothingSkipped
  <2> SUFFICES ASSUME IInv PROVE NothingSkipped
    OBVIOUS
  <2>1. \A n \in Sentences : HeardInStep(heard[n])
    BY DEF IInv, AllHeardInStep
  <2>2. ASSUME at = "streaming", queue[current] # <<>>, Head(queue[current]) = Done,
               NEW c \in 1 .. Chunks
        PROVE  \E j \in 1 .. Len(heard[current]) : heard[current][j] = c
    <3>1. current \in Sentences /\ QueueInStep(current)
      BY <2>2 DEF IInv, Working, StreamInStep
    <3>2. queue[current] \in Seq(1 .. Failed) /\ heard[current] \in Seq(1 .. Chunks)
      BY <3>1 DEF IInv, TypeOK
    <3>3. queue[current][1] = Done /\ 1 \in 1 .. Len(queue[current])
      BY <2>2, <3>2, TailFacts
    <3>4. In(heard[current], Done - 1)
      <4>1. Done \notin {1, Failed} /\ \A j : j \notin 1 .. 1 - 1
        BY SizesAssumption DEF Done, Failed
      <4> QED
        BY <3>1, <3>3, <4>1 DEF QueueInStep
    <3>5. In(heard[current], Chunks)
      BY <3>4, SizesAssumption DEF Done
    <3> QED
      BY <2>1, <3>1, <3>2, <3>5, AllBeforeTheLast DEF In
  <2> QED
    BY <2>1, <2>2 DEF NothingSkipped, HeardInStep
<1> QED
  BY <1>1, Invariance, PTL

(* No sentence is begun in one voice and begun again in the other, by any  *)
(* mix of exceptions, timeouts and barge-ins.                              *)
THEOREM OneVoice == Spec => []OneVoicePerSentence
<1>1. IInv => OneVoicePerSentence
  <2> SUFFICES ASSUME IInv, NEW n \in Sentences PROVE Cardinality(voices[n]) <= 1
    BY DEF OneVoicePerSentence
  <2>1. PICK t \in Tiers : voices[n] \subseteq {t}
    BY DEF IInv, VoiceIsOne
  <2>2. voices[n] = {} \/ voices[n] = {t}
    BY <2>1
  <2>3. Cardinality({}) = 0 /\ Cardinality({t}) = 1
    BY FS_EmptySet, FS_Singleton
  <2> QED
    BY <2>2, <2>3
<1> QED
  BY <1>1, Invariance, PTL

(* A streaming thread at work has its call hold the lock, be it that of    *)
(* run_tts or of the closer; the exception is a call that was cancelled    *)
(* while it waited for its thread, which has been told to stop.            *)
THEOREM NoOrphanedStream == Spec => []NoThreadLeftBehind
<1>1. IInv => NoThreadLeftBehind
  BY DEF IInv
<1> QED
  BY <1>1, Invariance, PTL

(* Two threads that nobody has told to stop never stream at the same time, *)
(* though the lock may be asked for while a dropped generator still holds  *)
(* it: of two sentences at most one is being rendered for a listener.      *)
THEOREM OneStreamAtATime ==
    Spec => [](\A m, n \in Sentences :
                  Streams(m) /\ ~ cancelled[m] /\ Streams(n) /\ ~ cancelled[n] => m = n)
<1>1. IInv => \A m, n \in Sentences :
                 Streams(m) /\ ~ cancelled[m] /\ Streams(n) /\ ~ cancelled[n] => m = n
  BY DEF IInv, NoThreadLeftBehind
<1> QED
  BY <1>1, Invariance, PTL
=============================================================================
