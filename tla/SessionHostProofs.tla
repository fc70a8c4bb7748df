------------------------- MODULE SessionHostProofs -------------------------
(***************************************************************************)
(* Theorems about SessionHost for every number of sessions, offers and     *)
(* requests, every limit and every retention.                              *)
(*                                                                         *)
(* The inductive invariant is IInv.  TypeOK alone is not inductive: the    *)
(* session a runner closes is the one its offer was made for, and that it  *)
(* is one of the registry's sessions is what Linked says.                  *)
(***************************************************************************)
EXTENDS SessionHost, FiniteSetTheorems, TLAPS

(* How the tables refer to each other: who is past the negotiation is for  *)
(* an issued session, only an answered offer has a runner, a record holds  *)
(* a worker that was built for its own session, and a suspended            *)
(* close_session holds the worker of some record.                          *)
Registered == {"recording", "answered", "failed"}

Linked ==
    /\ \A o \in Offers : offerAt[o] # "idle" => offerOf[o] \in 1 .. issued
    /\ \A o \in Offers : runner[o] # "none" => offerAt[o] = "answered"
    /\ \A s \in Sessions : HasWorker(s) =>
          /\ offerOf[runtime[s].owner] = s
          /\ offerAt[runtime[s].owner] \in Registered
    /\ \A k \in Closers : victim[k] # NoOffer => offerAt[victim[k]] \in Registered
    /\ \A k \in Closers : closeAt[k] # "idle" => victim[k] # NoOffer
    /\ \A s \in Sessions : state[s] # "none" => s <= issued

(* A worker that has been registered and whose run has not ended is in its *)
(* session's record, as long as the session is listed.                     *)
Entitled(o) == offerAt[o] = "recording" \/ runner[o] \in {"ready", "running"}

EntitledOwnTheirRecord ==
    \A o \in Offers :
        Entitled(o) /\ state[offerOf[o]] # "none" => runtime[offerOf[o]].owner = o

IInv ==
    /\ TypeOK
    /\ Linked
    /\ LiveSessionHasItsWorker
    /\ EntitledOwnTheirRecord

-----------------------------------------------------------------------------
(* What one call of CloseAll can do to the registry and to its caller.     *)
CloseEffect(k, st) ==
    /\ state' \in [Sessions -> SessionStates]
    /\ cleanup' \in [Sessions -> CleanupNotes]
    /\ runtime' \in [Sessions -> [owner : Offers \cup {NoOffer}, closing : BOOLEAN]]
    /\ profile' \in [Sessions -> Profiles]
    /\ idle' \in [Sessions -> 0 .. Timeout + 1]
    /\ age' \in [Sessions -> 0 .. ErrorRetention + 1]
    /\ cancelled' \in [Offers -> BOOLEAN]
    /\ closeAt' \in [Closers -> {"idle", "cancelling", "releasing", "aborting"}]
    /\ victim' \in [Closers -> Offers \cup {NoOffer}]
    /\ queue' \in [Closers -> SUBSET Sessions]
    /\ \A s \in Sessions : state'[s] \in LiveStates =>
          /\ state'[s] = st[s]
          /\ profile'[s] = profile[s]
          /\ runtime'[s] = runtime[s]
    /\ \A s \in Sessions : state'[s] # "none" =>
          st[s] # "none" /\ runtime'[s].owner = runtime[s].owner
    /\ \A s \in Sessions :
          runtime'[s].owner # NoOffer => runtime'[s].owner = runtime[s].owner
    /\ \A j \in Closers : victim'[j] # NoOffer =>
          \/ victim'[j] = victim[j]
          \/ \E s \in Sessions : HasWorker(s) /\ victim'[j] = runtime[s].owner
    /\ \A j \in Closers :
          closeAt'[j] # "idle" =>
             victim'[j] # NoOffer \/ (closeAt[j] # "idle" /\ j # k)
    /\ \A j \in Closers : j # k => victim'[j] = victim[j]

(* What closing a set of sessions does to the records and places.          *)
LEMMA CloseAllEffect ==
    ASSUME TypeOK, NEW k \in Closers, NEW Q \in SUBSET Sessions,
           NEW st \in [Sessions -> SessionStates],
           NEW cl \in [Sessions -> CleanupNotes],
           CloseAll(k, Q, st, cl)
    PROVE  CloseEffect(k, st)
<1> DEFINE first == FirstSuspending(Q, st)
           swept == SweptStates(Q, st)
           notes == SweptNotes(Q, st, cl)
           gone  == IF k = Cleaner /\ first = {} THEN Prunable(swept) ELSE {}
           rt    == [s \in Sessions |->
                       IF s \in first THEN [owner |-> runtime[s].owner, closing |-> TRUE]
                       ELSE runtime[s]]
<1>1. /\ RegistryWithout(gone, swept, notes, rt)
      /\ cancelled' = [o \in Offers |-> cancelled[o] \/ o \in Cancels(first)]
      /\ closeAt' = [closeAt EXCEPT ![k] = IF first = {} THEN "idle" ELSE "cancelling"]
      /\ victim' = [victim EXCEPT ![k] =
            IF first = {} THEN NoOffer
            ELSE CHOOSE o \in Offers : \E s \in first : runtime[s].owner = o]
      /\ queue' = [queue EXCEPT ![k] = {s \in Q : \E t \in first : t < s}]
  BY DEF CloseAll
<1>2. /\ first \subseteq Sessions
      /\ \A s \in first : HasWorker(s) /\ st[s] # "none"
  BY DEF FirstSuspending, Suspends, OpenRecord, Closable
<1>3. /\ swept \in [Sessions -> SessionStates]
      /\ \A s \in Sessions :
            /\ swept[s] \in LiveStates => swept[s] = st[s] /\ s \notin first
            /\ swept[s] # "none" => st[s] # "none"
  BY DEF SweptStates, SessionStates, LiveStates, FirstSuspending, ClosedAtOnce,
         Suspends, Closable
<1>4. notes \in [Sessions -> CleanupNotes]
  BY DEF SweptNotes, CleanupNotes
<1>5. gone \subseteq Sessions
  BY DEF Prunable
<1>6. \A s \in Sessions : runtime[s] \in [owner : Offers \cup {NoOffer}, closing : BOOLEAN]
  BY DEF TypeOK
<1>7. /\ rt \in [Sessions -> [owner : Offers \cup {NoOffer}, closing : BOOLEAN]]
      /\ \A s \in Sessions :
            /\ rt[s].owner = runtime[s].owner
            /\ s \notin first => rt[s] = runtime[s]
  BY <1>6
<1> DEFINE new == IF first = {} THEN NoOffer
                  ELSE CHOOSE o \in Offers : \E s \in first : runtime[s].owner = o
<1>8. /\ new \in Offers \cup {NoOffer}
      /\ first # {} =>
            new # NoOffer /\ \E s \in Sessions : HasWorker(s) /\ new = runtime[s].owner
  <2>1. CASE first = {}
    BY <2>1
  <2>2. CASE first # {}
    <3>1. PICK s \in first : TRUE
      BY <2>2
    <3>2. runtime[s].owner \in Offers
      BY <1>2, <1>6 DEF HasWorker
    <3>3. \E o \in Offers : \E t \in first : runtime[t].owner = o
      BY <3>1, <3>2
    <3>4. new \in Offers /\ \E t \in first : runtime[t].owner = new
      BY <2>2, <3>3
    <3> QED
      BY <1>2, <3>4, TasksAssumption
  <2> QED
    BY <2>1, <2>2
<1> HIDE DEF first, swept, notes, gone, rt, new
<1>9. NoRecord \in [owner : Offers \cup {NoOffer}, closing : BOOLEAN]
      /\ NoRecord.owner = NoOffer
  BY DEF NoRecord
<1>10. /\ state' \in [Sessions -> SessionStates]
       /\ cleanup' \in [Sessions -> CleanupNotes]
       /\ runtime' \in [Sessions -> [owner : Offers \cup {NoOffer}, closing : BOOLEAN]]
  BY <1>1, <1>3, <1>4, <1>7, <1>9
  DEF RegistryWithout, SessionStates, CleanupNotes
<1>11. /\ profile' \in [Sessions -> Profiles]
       /\ idle' \in [Sessions -> 0 .. Timeout + 1]
       /\ age' \in [Sessions -> 0 .. ErrorRetention + 1]
  <2>1. "mock" \in Profiles /\ 0 \in 0 .. Timeout + 1 /\ 0 \in 0 .. ErrorRetention + 1
    BY LimitsAssumption DEF Profiles
  <2> QED
    BY <1>1, <2>1 DEF RegistryWithout, TypeOK
<1>12. cancelled' \in [Offers -> BOOLEAN]
  BY <1>1 DEF TypeOK
<1>13. closeAt' \in [Closers -> {"idle", "cancelling", "releasing", "aborting"}]
  BY <1>1 DEF TypeOK
<1>14. /\ victim' = [victim EXCEPT ![k] = new]
       /\ victim' \in [Closers -> Offers \cup {NoOffer}]
  BY <1>1, <1>8 DEF TypeOK, new
<1>15. queue' \in [Closers -> SUBSET Sessions]
  BY <1>1 DEF TypeOK
<1>16. \A s \in Sessions : state'[s] \in LiveStates =>
          /\ state'[s] = st[s]
          /\ profile'[s] = profile[s]
          /\ runtime'[s] = runtime[s]
  BY <1>1, <1>3, <1>7 DEF RegistryWithout, LiveStates
<1>17. \A s \in Sessions : state'[s] # "none" =>
          st[s] # "none" /\ runtime'[s].owner = runtime[s].owner
  BY <1>1, <1>3, <1>7 DEF RegistryWithout
<1>18. \A s \in Sessions :
          runtime'[s].owner # NoOffer => runtime'[s].owner = runtime[s].owner
  BY <1>1, <1>7, <1>9 DEF RegistryWithout
<1>19. \A j \in Closers : victim'[j] # NoOffer =>
          \/ victim'[j] = victim[j]
          \/ \E s \in Sessions : HasWorker(s) /\ victim'[j] = runtime[s].owner
  BY <1>8, <1>14 DEF TypeOK, new
<1>20. \A j \in Closers :
          closeAt'[j] # "idle" =>
             victim'[j] # NoOffer \/ (closeAt[j] # "idle" /\ j # k)
  BY <1>1, <1>8, <1>14 DEF TypeOK, new
<1>21. \A j \in Closers : j # k => victim'[j] = victim[j]
  BY <1>14 DEF TypeOK
<1> QED
  BY <1>10, <1>11, <1>12, <1>13, <1>14, <1>15, <1>16, <1>17, <1>18, <1>19,
     <1>20, <1>21
  DEF CloseEffect

-----------------------------------------------------------------------------
(* The six steps that run close_session.                                   *)
ClosingStep ==
    \/ \E d \in Deletes, s \in Sessions : DeleteSession(d, s)
    \/ \E o \in Offers : RunnerEnds(o) \/ RunnerFails(o)
    \/ CleanupPass
    \/ \E k \in Closers : ReleaseReturns(k)
    \/ ShutdownSweeps

(* The states that the sweep starts from bring no session back.            *)
ClosingEffect(k, st) ==
    /\ CloseEffect(k, st)
    /\ \A s \in Sessions : st[s] \in LiveStates => st[s] = state[s]
    /\ \A s \in Sessions : st[s] # "none" => state[s] # "none"

(* Every step of a close is one of a closer.                               *)
LEMMA ClosingStepEffect ==
    ASSUME IInv, ClosingStep
    PROVE  \E k \in Closers, st \in [Sessions -> SessionStates] : ClosingEffect(k, st)
<1> USE DEF ClosingEffect
<1>1. state \in [Sessions -> SessionStates] /\ cleanup \in [Sessions -> CleanupNotes]
  BY DEF IInv, TypeOK
<1>2. ASSUME NEW d \in Deletes, NEW s \in Sessions, DeleteSession(d, s)
      PROVE  ClosingEffect(d, state)
  BY <1>1, <1>2, CloseAllEffect DEF DeleteSession, IInv, Closers
<1>3. ASSUME NEW o \in Offers, runner[o] = "running"
      PROVE  {offerOf[o]} \in SUBSET Sessions
  <2>1. offerOf[o] \in 1 .. issued
    BY <1>3 DEF IInv, Linked
  <2> QED
    BY <2>1, LimitsAssumption DEF IInv, TypeOK, Sessions
<1>4. ASSUME NEW o \in Offers, RunnerEnds(o)
      PROVE  ClosingEffect(o, state)
  <2>1. {offerOf[o]} \in SUBSET Sessions
    BY <1>3, <1>4 DEF RunnerEnds
  <2> QED
    BY <1>1, <1>4, <2>1, CloseAllEffect DEF RunnerEnds, IInv, Closers
<1>5. ASSUME NEW o \in Offers, RunnerFails(o)
      PROVE  \E st \in [Sessions -> SessionStates] : ClosingEffect(o, st)
  <2> DEFINE st == Errored(offerOf[o])
             cl == ErrorNoted(offerOf[o])
  <2>1. {offerOf[o]} \in SUBSET Sessions
    BY <1>3, <1>5 DEF RunnerFails
  <2>2. /\ st \in [Sessions -> SessionStates]
        /\ cl \in [Sessions -> CleanupNotes]
        /\ \A s \in Sessions : st[s] \in LiveStates => st[s] = state[s]
        /\ \A s \in Sessions : st[s] # "none" => state[s] # "none"
    BY <1>1 DEF Errored, ErrorNoted, SessionStates, CleanupNotes, LiveStates
  <2>3. CloseAll(o, {offerOf[o]}, st, cl)
    BY <1>5 DEF RunnerFails
  <2> HIDE DEF st, cl
  <2>4. CloseEffect(o, st)
    BY <2>1, <2>2, <2>3, CloseAllEffect DEF IInv, Closers
  <2> QED
    BY <2>2, <2>4
<1>6. ASSUME CleanupPass
      PROVE  ClosingEffect(Cleaner, state)
  <2>1. Expired \in SUBSET Sessions
    BY DEF Expired, Live
  <2> QED
    BY <1>1, <1>6, <2>1, CloseAllEffect DEF CleanupPass, IInv, Closers
<1>7. ASSUME NEW k \in Closers, ReleaseReturns(k)
      PROVE  \E st \in [Sessions -> SessionStates] : ClosingEffect(k, st)
  <2> DEFINE st == Finished(offerOf[victim[k]])
             cl == FinishNoted(offerOf[victim[k]])
  <2>1. /\ st \in [Sessions -> SessionStates]
        /\ cl \in [Sessions -> CleanupNotes]
        /\ \A s \in Sessions : st[s] \in LiveStates => st[s] = state[s]
        /\ \A s \in Sessions : st[s] # "none" => state[s] # "none"
    BY <1>1 DEF Finished, FinishNoted, SessionStates, CleanupNotes, LiveStates
  <2>2. CloseAll(k, queue[k], st, cl) /\ queue[k] \in SUBSET Sessions
    BY <1>7 DEF ReleaseReturns, IInv, TypeOK
  <2> HIDE DEF st, cl
  <2>3. CloseEffect(k, st)
    BY <2>1, <2>2, CloseAllEffect DEF IInv
  <2> QED
    BY <2>1, <2>3
<1>8. ASSUME ShutdownSweeps
      PROVE  ClosingEffect(Stopper, state)
  BY <1>1, <1>8, CloseAllEffect DEF ShutdownSweeps, IInv, Closers
<1> QED
  BY <1>1, <1>2, <1>4, <1>5, <1>6, <1>7, <1>8 DEF ClosingStep, Closers

(* The rest of such a step: it changes no offer, starts no runner.         *)
LEMMA ClosingStepRest ==
    ASSUME IInv, ClosingStep
    PROVE  /\ UNCHANGED <<issued, offerAt, offerOf>>
           /\ bundle' \in [Offers -> {"none", "open", "released"}]
           /\ runner' \in [Offers -> {"none", "ready", "running", "ended", "failed"}]
           /\ \A o \in Offers : runner'[o] # "none" => runner[o] # "none"
           /\ \A o \in Offers : runner'[o] \in {"ready", "running"}
                                   => runner'[o] = runner[o]
           /\ server' \in {"up", "draining", "closing", "stopped"}
BY DEF ClosingStep, DeleteSession, RunnerEnds, RunnerFails, CleanupPass,
       ReleaseReturns, ShutdownSweeps, workerVars, IInv, TypeOK

(* The steps of a close.                                                   *)
LEMMA ClosingStepIInv == ASSUME IInv, ClosingStep PROVE IInv'
<1>0. PICK k \in Closers, st \in [Sessions -> SessionStates] : ClosingEffect(k, st)
  BY ClosingStepEffect
<1> USE <1>0, ClosingStepRest DEF ClosingEffect
<1>1. TypeOK'
  BY DEF IInv, TypeOK, CloseEffect, Sessions, Closers
<1>2. Linked'
  <2>1. \A s \in Sessions : HasWorker(s)' =>
           HasWorker(s) /\ runtime'[s].owner = runtime[s].owner
    BY DEF CloseEffect, HasWorker
  <2>2. \A s \in Sessions : HasWorker(s)' =>
           /\ offerOf'[runtime'[s].owner] = s
           /\ offerAt'[runtime'[s].owner] \in Registered
    BY <2>1 DEF IInv, Linked
  <2>3. \A j \in Closers : victim'[j] # NoOffer => offerAt'[victim'[j]] \in Registered
    BY DEF IInv, Linked, CloseEffect
  <2>4. \A j \in Closers : closeAt'[j] # "idle" => victim'[j] # NoOffer
    BY DEF IInv, Linked, CloseEffect
  <2>5. \A s \in Sessions : state'[s] # "none" => s <= issued'
    BY DEF IInv, Linked, CloseEffect
  <2>6. \A o \in Offers : offerAt'[o] # "idle" => offerOf'[o] \in 1 .. issued'
    BY DEF IInv, Linked
  <2>7. \A o \in Offers : runner'[o] # "none" => offerAt'[o] = "answered"
    BY DEF IInv, Linked
  <2> QED
    BY <2>2, <2>3, <2>4, <2>5, <2>6, <2>7 DEF Linked, Sessions, Closers
<1>3. LiveSessionHasItsWorker'
  BY DEF IInv, LiveSessionHasItsWorker, CloseEffect, LiveStates, HasWorker,
         OpenRecord, Sessions
<1>4. EntitledOwnTheirRecord'
  <2> SUFFICES ASSUME NEW o \in Offers, Entitled(o)', state'[offerOf'[o]] # "none"
               PROVE  runtime'[offerOf'[o]].owner = o
    BY DEF EntitledOwnTheirRecord
  <2>1. Entitled(o) /\ offerAt[o] # "idle"
    BY DEF Entitled, IInv, Linked
  <2>2. offerOf[o] \in Sessions
    BY <2>1 DEF IInv, Linked, TypeOK, Sessions
  <2> QED
    BY <2>1, <2>2 DEF IInv, EntitledOwnTheirRecord, CloseEffect
<1> QED
  BY <1>1, <1>2, <1>3, <1>4 DEF IInv

-----------------------------------------------------------------------------
(* The host starts empty.                                                  *)
LEMMA InitIInv == Init => IInv
<1> SUFFICES ASSUME Init PROVE IInv
  OBVIOUS
<1>1. /\ 0 \in 0 .. NumSessions
      /\ 0 \in 0 .. Timeout + 1
      /\ 0 \in 0 .. ErrorRetention + 1
  BY LimitsAssumption
<1>2. TypeOK
  BY <1>1 DEF Init, TypeOK, NoRecord, SessionStates, CleanupNotes, Profiles
<1>3. Linked
  BY DEF Init, Linked, HasWorker, NoRecord
<1>4. LiveSessionHasItsWorker /\ EntitledOwnTheirRecord
  BY DEF Init, LiveSessionHasItsWorker, EntitledOwnTheirRecord, Entitled
<1> QED
  BY <1>2, <1>3, <1>4 DEF IInv

(* The requests and the clock.                                             *)
LEMMA CreateSessionIInv ==
    ASSUME IInv, NEW p \in Profiles, CreateSession(p)
    PROVE  IInv'
<1>1. /\ issued + 1 \in Sessions
      /\ issued' = issued + 1 /\ issued \in Nat
  BY LimitsAssumption DEF CreateSession, IInv, TypeOK, Sessions
<1>2. TypeOK'
  BY <1>1 DEF IInv, TypeOK, CreateSession, SessionStates, LiveStates, Sessions, Closers,
              workerVars, closeVars
<1>3. state[issued + 1] = "none"
  BY <1>1 DEF IInv, Linked, Sessions
<1>4. \A o \in Offers : offerAt[o] # "idle" => offerOf[o] \in 1 .. issued
  BY DEF IInv, Linked
<1>5. ~ HasWorker(issued + 1)
  <2> SUFFICES ASSUME HasWorker(issued + 1) PROVE FALSE
    OBVIOUS
  <2>1. runtime[issued + 1].owner \in Offers
    BY <1>1 DEF IInv, TypeOK, HasWorker
  <2>2. /\ offerOf[runtime[issued + 1].owner] = issued + 1
        /\ offerAt[runtime[issued + 1].owner] # "idle"
    BY <1>1 DEF IInv, Linked, Registered
  <2> QED
    BY <1>1, <1>4, <2>1, <2>2
<1>6. Linked'
  BY <1>1 DEF IInv, TypeOK, Linked, CreateSession, HasWorker, Sessions, Closers,
              workerVars, closeVars
<1>7. LiveSessionHasItsWorker'
  BY <1>1, <1>5 DEF IInv, TypeOK, LiveSessionHasItsWorker, CreateSession, HasWorker,
                    OpenRecord, Sessions
<1>8. EntitledOwnTheirRecord'
  <2> SUFFICES ASSUME NEW o \in Offers, Entitled(o)', state'[offerOf'[o]] # "none"
               PROVE  runtime'[offerOf'[o]].owner = o
    BY DEF EntitledOwnTheirRecord
  <2>1. Entitled(o) /\ offerAt[o] # "idle"
    BY DEF Entitled, CreateSession, workerVars, IInv, Linked
  <2>2. offerOf[o] \in Sessions /\ offerOf[o] # issued + 1
    BY <1>1, <1>4, <2>1, LimitsAssumption DEF Sessions
  <2>3. state'[offerOf[o]] = state[offerOf[o]]
    BY <2>2, <1>1 DEF CreateSession, IInv, TypeOK
  <2> QED
    BY <2>1, <2>3 DEF CreateSession, workerVars, IInv, EntitledOwnTheirRecord
<1> QED
  BY <1>2, <1>6, <1>7, <1>8 DEF IInv

(* Steps that leave the states, records and workers alone.                 *)
LEMMA QuietIInv ==
    ASSUME IInv, TypeOK',
           UNCHANGED <<issued, state, runtime, offerAt, offerOf, runner>>,
           \A k \in Closers : victim'[k] = victim[k] \/ victim'[k] = NoOffer,
           \A k \in Closers : closeAt'[k] # "idle" =>
               closeAt[k] # "idle" /\ victim'[k] = victim[k]
    PROVE  IInv'
<1>1. Linked'
  BY DEF IInv, Linked, HasWorker, Sessions, Closers
<1>2. LiveSessionHasItsWorker' /\ EntitledOwnTheirRecord'
  BY DEF IInv, LiveSessionHasItsWorker, EntitledOwnTheirRecord, Entitled, HasWorker,
         OpenRecord, Sessions
<1> QED
  BY <1>1, <1>2 DEF IInv

(* A heartbeat.                                                            *)
LEMMA HeartbeatIInv ==
    ASSUME IInv, NEW s \in Sessions, Heartbeat(s)
    PROVE  IInv'
<1>1. TypeOK'
  BY LimitsAssumption DEF IInv, TypeOK, Heartbeat, workerVars, closeVars, Sessions, Closers
<1> QED
  BY <1>1, QuietIInv DEF Heartbeat, workerVars, closeVars, IInv, TypeOK

(* Time passes.                                                            *)
LEMMA TickIInv == ASSUME IInv, Tick PROVE IInv'
<1>1. idle' \in [Sessions -> 0 .. Timeout + 1]
  BY LimitsAssumption DEF IInv, TypeOK, Tick
<1>2. age' \in [Sessions -> 0 .. ErrorRetention + 1]
  BY LimitsAssumption DEF IInv, TypeOK, Tick
<1>3. TypeOK'
  BY <1>1, <1>2 DEF IInv, TypeOK, Tick, workerVars, closeVars, Sessions, Closers
<1> QED
  BY <1>3, QuietIInv DEF Tick, workerVars, closeVars

-----------------------------------------------------------------------------
(* The offer callback.  Four of its exits mark the session as failed.      *)
LEMMA MarkedIInv ==
    ASSUME IInv, NEW o \in Offers,
           MarkError(offerOf[o]),
           UNCHANGED sessionVars,
           UNCHANGED closeVars,
           UNCHANGED <<runtime, bundle, runner, server>>,
           \/ /\ offerAt[o] = "negotiating"
              /\ offerAt' = [offerAt EXCEPT ![o] = "idle"]
              /\ offerOf' = [offerOf EXCEPT ![o] = 0]
           \/ /\ offerAt[o] \in {"building", "recording"}
              /\ offerAt' = [offerAt EXCEPT ![o] = "failed"]
              /\ offerOf' = offerOf
    PROVE  IInv'
<1> USE DEF sessionVars, closeVars
<1>0. TypeOK'
  <2>1. /\ state' \in [Sessions -> SessionStates]
        /\ cleanup' \in [Sessions -> CleanupNotes]
    BY DEF MarkError, Errored, ErrorNoted, IInv, TypeOK, SessionStates, CleanupNotes
  <2>2. /\ offerAt' \in [Offers -> {"idle", "negotiating", "building", "recording",
                                    "answered", "failed"}]
        /\ offerOf' \in [Offers -> 0 .. NumSessions]
    BY LimitsAssumption DEF IInv, TypeOK
  <2> QED
    BY <2>1, <2>2 DEF IInv, TypeOK, Sessions, Closers
<1>1. \A s \in Sessions :
         /\ state'[s] \in LiveStates => state'[s] = state[s]
         /\ state'[s] # "none" => state[s] # "none"
  BY DEF MarkError, Errored, IInv, TypeOK, LiveStates
<1>2. \A p \in Offers : Entitled(p)' => Entitled(p)
  BY DEF Entitled, IInv, Linked, TypeOK
<1>3. \A p \in Offers : offerAt[p] \in Registered =>
         offerAt'[p] \in Registered /\ offerOf'[p] = offerOf[p]
  BY DEF Registered, IInv, TypeOK
<1>4. \A s \in Sessions : HasWorker(s) => runtime[s].owner \in Offers
  BY DEF IInv, TypeOK, HasWorker
<1>5. \A k \in Closers : victim[k] # NoOffer => victim[k] \in Offers
  BY DEF IInv, TypeOK
<1>6. Linked'
  <2>1. \A p \in Offers : offerAt'[p] # "idle" => offerOf'[p] \in 1 .. issued'
    BY DEF IInv, Linked, TypeOK
  <2>2. \A p \in Offers : runner'[p] # "none" => offerAt'[p] = "answered"
    BY DEF IInv, Linked, TypeOK
  <2>3. \A s \in Sessions : HasWorker(s)' =>
           /\ offerOf'[runtime'[s].owner] = s
           /\ offerAt'[runtime'[s].owner] \in Registered
    BY <1>3, <1>4 DEF IInv, Linked, HasWorker
  <2>4. \A k \in Closers : victim'[k] # NoOffer => offerAt'[victim'[k]] \in Registered
    BY <1>3, <1>5 DEF IInv, Linked
  <2>5. \A k \in Closers : closeAt'[k] # "idle" => victim'[k] # NoOffer
    BY DEF IInv, Linked
  <2>6. \A s \in Sessions : state'[s] # "none" => s <= issued'
    BY <1>1 DEF IInv, Linked
  <2> QED
    BY <2>1, <2>2, <2>3, <2>4, <2>5, <2>6 DEF Linked, Sessions, Closers
<1>7. LiveSessionHasItsWorker'
  BY <1>1 DEF IInv, LiveSessionHasItsWorker, HasWorker, OpenRecord, LiveStates, Sessions
<1>8. EntitledOwnTheirRecord'
  <2> SUFFICES ASSUME NEW p \in Offers, Entitled(p)', state'[offerOf'[p]] # "none"
               PROVE  runtime'[offerOf'[p]].owner = p
    BY DEF EntitledOwnTheirRecord
  <2>1. Entitled(p) /\ offerAt[p] \in Registered
    BY <1>2 DEF Entitled, IInv, Linked, Registered
  <2>2. offerOf'[p] = offerOf[p] /\ offerOf[p] \in Sessions
    BY <1>3, <2>1, LimitsAssumption DEF IInv, Linked, TypeOK, Registered, Sessions
  <2> QED
    BY <1>1, <2>1, <2>2 DEF IInv, EntitledOwnTheirRecord
<1> QED
  BY <1>0, <1>6, <1>7, <1>8 DEF IInv

(* An offer is accepted.                                                   *)
LEMMA OfferAcceptedIInv ==
    ASSUME IInv, NEW o \in Offers, NEW s \in Sessions, OfferAccepted(o, s)
    PROVE  IInv'
<1> USE DEF OfferAccepted, sessionVars, closeVars
<1>1. TypeOK'
  BY LimitsAssumption DEF IInv, TypeOK, Sessions, Closers
<1>2. \A p \in Offers : offerAt[p] # "idle" => offerOf'[p] = offerOf[p] /\ offerAt'[p] = offerAt[p]
  BY DEF IInv, TypeOK
<1>3. Linked'
  <2>1. s <= issued
    BY DEF IInv, Linked, LiveStates
  <2>2. \A p \in Offers : offerAt'[p] # "idle" => offerOf'[p] \in 1 .. issued'
    BY <2>1 DEF IInv, Linked, TypeOK, Sessions
  <2>3. \A t \in Sessions : HasWorker(t) => runtime[t].owner \in Offers
    BY DEF IInv, TypeOK, HasWorker
  <2>4. \A k \in Closers : victim[k] # NoOffer => victim[k] \in Offers
    BY DEF IInv, TypeOK
  <2> QED
    BY <1>2, <2>2, <2>3, <2>4 DEF IInv, Linked, HasWorker, Registered, Sessions, Closers
<1>4. LiveSessionHasItsWorker'
  BY DEF IInv, LiveSessionHasItsWorker, HasWorker, OpenRecord, Sessions
<1>5. EntitledOwnTheirRecord'
  <2> SUFFICES ASSUME NEW p \in Offers, Entitled(p)', state'[offerOf'[p]] # "none"
               PROVE  runtime'[offerOf'[p]].owner = p
    BY DEF EntitledOwnTheirRecord
  <2>1. Entitled(p) /\ offerAt[p] # "idle"
    BY DEF Entitled, IInv, Linked, TypeOK
  <2> QED
    BY <1>2, <2>1 DEF IInv, EntitledOwnTheirRecord
<1> QED
  BY <1>1, <1>3, <1>4, <1>5 DEF IInv

(* The offer callback builds a worker.                                     *)
LEMMA WorkerBuildingIInv ==
    ASSUME IInv, NEW o \in Offers, WorkerBuilding(o)
    PROVE  IInv'
<1> USE DEF WorkerBuilding, sessionVars, closeVars
<1>1. TypeOK'
  BY DEF IInv, TypeOK, Sessions, Closers
<1>2. \A p \in Offers : offerAt[p] \in Registered => offerAt'[p] = offerAt[p]
  BY DEF IInv, TypeOK, Registered
<1>3. Linked'
  <2>1. \A t \in Sessions : HasWorker(t) => runtime[t].owner \in Offers
    BY DEF IInv, TypeOK, HasWorker
  <2>2. \A k \in Closers : victim[k] # NoOffer => victim[k] \in Offers
    BY DEF IInv, TypeOK
  <2>3. \A p \in Offers : offerAt'[p] # "idle" => offerAt[p] # "idle"
    BY DEF IInv, TypeOK
  <2>4. \A p \in Offers : runner'[p] # "none" => offerAt'[p] = "answered"
    BY <1>2 DEF IInv, Linked, Registered
  <2> QED
    BY <1>2, <2>1, <2>2, <2>3, <2>4 DEF IInv, Linked, HasWorker, Sessions, Closers
<1>4. LiveSessionHasItsWorker'
  BY DEF IInv, LiveSessionHasItsWorker, HasWorker, OpenRecord, Sessions
<1>5. EntitledOwnTheirRecord'
  <2>1. \A p \in Offers : Entitled(p)' => Entitled(p)
    BY DEF Entitled, IInv, TypeOK
  <2> QED
    BY <2>1 DEF IInv, EntitledOwnTheirRecord
<1> QED
  BY <1>1, <1>3, <1>4, <1>5 DEF IInv

(* register_worker refuses a session that has a record, so the new record  *)
(* takes nothing from anyone.                                              *)
LEMMA WorkerRegisteredIInv ==
    ASSUME IInv, NEW o \in Offers, WorkerRegistered(o)
    PROVE  IInv'
<1> USE DEF WorkerRegistered, sessionVars, closeVars
<1>1. offerOf[o] \in Sessions
  BY LimitsAssumption DEF IInv, Linked, TypeOK, Sessions
<1>2. TypeOK'
  <2>1. state' \in [Sessions -> SessionStates]
    BY DEF Activated, IInv, TypeOK, SessionStates, LiveStates
  <2> QED
    BY <2>1 DEF IInv, TypeOK, Sessions, Closers
<1>3. \A s \in Sessions : s # offerOf[o] =>
         state'[s] = state[s] /\ runtime'[s] = runtime[s]
  BY DEF Activated, IInv, TypeOK
<1>4. /\ runtime'[offerOf[o]] = [owner |-> o, closing |-> FALSE]
      /\ state'[offerOf[o]] # "none" => state[offerOf[o]] # "none"
      /\ state'[offerOf[o]] # "created"
      /\ offerAt'[o] = "recording"
      /\ \A p \in Offers : p # o => offerAt'[p] = offerAt[p]
  BY <1>1 DEF Activated, IInv, TypeOK
<1>5. runner[o] = "none" /\ o # NoOffer
  BY TasksAssumption DEF IInv, Linked
<1>6. Linked'
  <2>1. \A p \in Offers : offerAt'[p] # "idle" => offerOf'[p] \in 1 .. issued'
    BY <1>4 DEF IInv, Linked
  <2>2. \A p \in Offers : runner'[p] # "none" => offerAt'[p] = "answered"
    BY <1>4, <1>5 DEF IInv, Linked
  <2>3. \A s \in Sessions : HasWorker(s)' =>
           /\ offerOf'[runtime'[s].owner] = s
           /\ offerAt'[runtime'[s].owner] \in Registered
    <3> SUFFICES ASSUME NEW s \in Sessions, HasWorker(s)'
                 PROVE  /\ offerOf'[runtime'[s].owner] = s
                        /\ offerAt'[runtime'[s].owner] \in Registered
      OBVIOUS
    <3>1. CASE s = offerOf[o]
      BY <1>4, <3>1 DEF Registered
    <3>2. CASE s # offerOf[o]
      <4>1. HasWorker(s) /\ runtime'[s] = runtime[s] /\ runtime[s].owner \in Offers
        BY <1>3, <3>2 DEF HasWorker, IInv, TypeOK
      <4> QED
        BY <1>4, <4>1 DEF IInv, Linked, Registered
    <3> QED
      BY <3>1, <3>2
  <2>4. \A k \in Closers : victim'[k] # NoOffer => offerAt'[victim'[k]] \in Registered
    BY <1>4 DEF IInv, Linked, Registered, TypeOK
  <2>5. \A k \in Closers : closeAt'[k] # "idle" => victim'[k] # NoOffer
    BY DEF IInv, Linked
  <2>6. \A s \in Sessions : state'[s] # "none" => s <= issued'
    BY <1>3, <1>4 DEF IInv, Linked
  <2> QED
    BY <2>1, <2>2, <2>3, <2>4, <2>5, <2>6 DEF Linked, Sessions, Closers
<1>7. LiveSessionHasItsWorker'
  BY <1>3, <1>4, <1>5 DEF IInv, LiveSessionHasItsWorker, HasWorker, OpenRecord, Sessions
<1>8. EntitledOwnTheirRecord'
  <2> SUFFICES ASSUME NEW p \in Offers, Entitled(p)', state'[offerOf'[p]] # "none"
               PROVE  runtime'[offerOf'[p]].owner = p
    BY DEF EntitledOwnTheirRecord
  <2>1. CASE p = o
    BY <1>4, <2>1
  <2>2. CASE p # o
    <3>1. Entitled(p) /\ offerAt[p] # "idle"
      BY <1>4, <2>2 DEF Entitled, IInv, Linked
    <3>2. offerOf[p] \in Sessions
      BY <3>1, LimitsAssumption DEF IInv, Linked, TypeOK, Sessions
    <3>3. runtime[offerOf[p]].owner = p
      BY <1>3, <1>4, <3>1, <3>2 DEF IInv, EntitledOwnTheirRecord
    <3>4. offerOf[p] # offerOf[o]
      BY <3>3, TasksAssumption DEF HasWorker
    <3> QED
      BY <1>3, <3>2, <3>3, <3>4
  <2> QED
    BY <2>1, <2>2
<1> QED
  BY <1>2, <1>6, <1>7, <1>8 DEF IInv

(* The task that runs the worker is created, then entered: the worker was  *)
(* entitled to its record before.                                          *)
LEMMA RunnerIInv ==
    ASSUME IInv, NEW o \in Offers, RunnerSpawned(o) \/ RunnerStarts(o)
    PROVE  IInv'
<1> USE DEF RunnerSpawned, RunnerStarts, sessionVars, closeVars
<1>1. TypeOK'
  BY DEF IInv, TypeOK, Sessions, Closers
<1>2. \A p \in Offers :
         /\ offerAt[p] \in Registered => offerAt'[p] \in Registered
         /\ offerAt'[p] # "idle" => offerAt[p] # "idle"
         /\ runner'[p] # "none" => offerAt'[p] = "answered"
         /\ Entitled(p)' => Entitled(p)
  BY DEF IInv, TypeOK, Linked, Registered, Entitled
<1>3. Linked'
  <2>1. \A t \in Sessions : HasWorker(t) => runtime[t].owner \in Offers
    BY DEF IInv, TypeOK, HasWorker
  <2>2. \A k \in Closers : victim[k] # NoOffer => victim[k] \in Offers
    BY DEF IInv, TypeOK
  <2> QED
    BY <1>2, <2>1, <2>2 DEF IInv, Linked, HasWorker, Sessions, Closers
<1>4. LiveSessionHasItsWorker' /\ EntitledOwnTheirRecord'
  BY <1>2 DEF IInv, LiveSessionHasItsWorker, EntitledOwnTheirRecord, HasWorker,
              OpenRecord, Sessions
<1> QED
  BY <1>1, <1>3, <1>4 DEF IInv

-----------------------------------------------------------------------------
(* Every step keeps the invariant.                                         *)
LEMMA NextIInv ==
    ASSUME IInv, [Next]_vars
    PROVE  IInv'
<1>1. CASE RestStep
  BY <1>1, CreateSessionIInv, HeartbeatIInv, ClosingStepIInv DEF RestStep, ClosingStep
<1>2. CASE Tick
  BY <1>2, TickIInv
<1>3. ASSUME NEW o \in Offers, OfferStep(o)
      PROVE  IInv'
  <2>1. CASE NegotiationFails(o) \/ WorkerRefused(o) \/ BuildFails(o) \/ MetricFails(o)
    BY <2>1, MarkedIInv DEF NegotiationFails, WorkerRefused, BuildFails, MetricFails
  <2>2. CASE ~ (NegotiationFails(o) \/ WorkerRefused(o) \/ BuildFails(o) \/ MetricFails(o))
    BY <1>3, <2>2, OfferAcceptedIInv, WorkerBuildingIInv, WorkerRegisteredIInv,
       RunnerIInv
    DEF OfferStep
  <2> QED
    BY <2>1, <2>2
<1>4. ASSUME NEW o \in Offers, RunnerStep(o)
      PROVE  IInv'
  <2>1. CASE ClientDisconnects(o)
    <3>1. TypeOK'
      BY <2>1 DEF ClientDisconnects, sessionVars, workerVars, IInv, TypeOK, Sessions,
                  Closers
    <3> QED
      BY <2>1, <3>1, QuietIInv DEF ClientDisconnects, sessionVars, workerVars
  <2> QED
    BY <1>4, <2>1, RunnerIInv, ClosingStepIInv DEF RunnerStep, ClosingStep
<1>5. CASE CleanupPass
  BY <1>5, ClosingStepIInv DEF ClosingStep
<1>6. ASSUME NEW k \in Closers, CloseStep(k)
      PROVE  IInv'
  <2>1. CASE CancelReturns(k)
    <3>1. TypeOK'
      BY <2>1 DEF CancelReturns, sessionVars, workerVars, IInv, TypeOK, Sessions, Closers
    <3>2. \A j \in Closers : closeAt'[j] # "idle" => closeAt[j] # "idle"
      BY <2>1 DEF CancelReturns, IInv, TypeOK
    <3> QED
      BY <2>1, <3>1, <3>2, QuietIInv DEF CancelReturns, sessionVars, workerVars
  <2> QED
    BY <1>6, <2>1, ClosingStepIInv DEF CloseStep, ClosingStep
<1>7. CASE ShutdownStep
  <2>1. CASE ShutdownBegins
    <3>1. TypeOK'
      BY <2>1 DEF ShutdownBegins, sessionVars, workerVars, IInv, TypeOK, Sessions, Closers
    <3>2. \A k \in Closers :
             /\ victim'[k] = victim[k] \/ victim'[k] = NoOffer
             /\ closeAt'[k] # "idle" => closeAt[k] # "idle" /\ victim'[k] = victim[k]
      BY <2>1 DEF ShutdownBegins, IInv, TypeOK
    <3> QED
      BY <2>1, <3>1, <3>2, QuietIInv DEF ShutdownBegins, sessionVars, workerVars
  <2>2. CASE AbortReleases
    <3>1. TypeOK'
      BY <2>2 DEF AbortReleases, sessionVars, IInv, TypeOK, Sessions, Closers
    <3>2. \A k \in Closers :
             /\ victim'[k] = victim[k] \/ victim'[k] = NoOffer
             /\ closeAt'[k] # "idle" => closeAt[k] # "idle" /\ victim'[k] = victim[k]
      BY <2>2 DEF AbortReleases, IInv, TypeOK
    <3> QED
      BY <2>2, <3>1, <3>2, QuietIInv DEF AbortReleases, sessionVars
  <2>3. CASE ShutdownSweeps
    BY <2>3, ClosingStepIInv DEF ClosingStep
  <2>4. CASE ShutdownEnds
    <3>1. TypeOK'
      BY <2>4 DEF ShutdownEnds, sessionVars, workerVars, closeVars, IInv, TypeOK,
                  Sessions, Closers
    <3> QED
      BY <2>4, <3>1, QuietIInv DEF ShutdownEnds, sessionVars, workerVars, closeVars
  <2> QED
    BY <1>7, <2>1, <2>2, <2>3, <2>4 DEF ShutdownStep
<1>8. CASE UNCHANGED vars
  <2>1. TypeOK'
    BY <1>8 DEF vars, IInv, TypeOK, Sessions, Closers
  <2> QED
    BY <1>8, <2>1, QuietIInv DEF vars
<1> QED
  BY <1>1, <1>2, <1>3, <1>4, <1>5, <1>6, <1>7, <1>8 DEF Next

(* The inductive invariant of the registry: types, the links between       *)
(* offers, records                                                         *)
(* and closing tasks, and who is entitled to a record.                     *)
THEOREM Invariance == Spec => []IInv
<1>1. Init => IInv
  BY InitIInv
<1>2. IInv /\ [Next]_vars => IInv'
  BY NextIInv
<1> QED
  BY <1>1, <1>2, PTL DEF Spec

(* Every variable keeps its type, in every behaviour of the host.          *)
THEOREM TypeCorrect == Spec => []TypeOK
<1>1. IInv => TypeOK
  BY DEF IInv
<1> QED
  BY <1>1, Invariance, PTL

(* A CREATED session has no worker and an ACTIVE one has one that nobody   *)
(* has begun to close, whatever offers, runners, sweeps and clients do.    *)
THEOREM LiveSessionWorker == Spec => []LiveSessionHasItsWorker
<1>1. IInv => LiveSessionHasItsWorker
  BY DEF IInv
<1> QED
  BY <1>1, Invariance, PTL

(* A listed session's only worker task is the one in its runtime record.   *)
THEOREM SoleWorker == Spec => []SoleRegisteredWorker
<1>1. IInv => SoleRegisteredWorker
  BY DEF IInv, EntitledOwnTheirRecord, Entitled, SoleRegisteredWorker
<1> QED
  BY <1>1, Invariance, PTL

-----------------------------------------------------------------------------
(* No step but the creation of a session makes one connectable.            *)
NothingRevived ==
    /\ issued' = issued
    /\ \A s \in Sessions : state'[s] \in LiveStates =>
          state[s] \in LiveStates /\ profile'[s] = profile[s]

(* No step but create_session gives a session a place.                     *)
LEMMA OnlyCreationRevives ==
    ASSUME IInv, [Next]_vars, ~ \E p \in Profiles : CreateSession(p)
    PROVE  NothingRevived
<1> USE DEF NothingRevived
<1>1. CASE ClosingStep
  BY <1>1, ClosingStepEffect, ClosingStepRest DEF ClosingEffect, CloseEffect
<1>2. ASSUME NEW o \in Offers, MarkError(offerOf[o]), UNCHANGED sessionVars
      PROVE  NothingRevived
  BY <1>2 DEF MarkError, Errored, sessionVars, LiveStates, IInv, TypeOK
<1>3. ASSUME NEW o \in Offers, WorkerRegistered(o)
      PROVE  NothingRevived
  BY <1>3 DEF WorkerRegistered, Activated, sessionVars, LiveStates, IInv, TypeOK
<1>4. CASE UNCHANGED <<issued, state, profile>>
  BY <1>4
<1>5. ASSUME NEW o \in Offers, OfferStep(o)
      PROVE  NothingRevived
  <2>1. CASE NegotiationFails(o) \/ WorkerRefused(o) \/ BuildFails(o) \/ MetricFails(o)
    BY <1>2, <2>1 DEF NegotiationFails, WorkerRefused, BuildFails, MetricFails
  <2>2. CASE (\E s \in Sessions : OfferAccepted(o, s)) \/ WorkerBuilding(o) \/ RunnerSpawned(o)
    BY <1>4, <2>2 DEF OfferAccepted, WorkerBuilding, RunnerSpawned, sessionVars
  <2> QED
    BY <1>3, <1>5, <2>1, <2>2 DEF OfferStep
<1>6. ASSUME NEW o \in Offers, RunnerStep(o)
      PROVE  NothingRevived
  BY <1>1, <1>4, <1>6 DEF RunnerStep, RunnerStarts, ClientDisconnects, ClosingStep, sessionVars
<1>7. ASSUME NEW k \in Closers, CloseStep(k)
      PROVE  NothingRevived
  BY <1>1, <1>4, <1>7 DEF CloseStep, CancelReturns, ClosingStep, sessionVars
<1>8. CASE ShutdownStep
  BY <1>1, <1>4, <1>8 DEF ShutdownStep, ShutdownBegins, AbortReleases, ShutdownEnds,
                          ClosingStep, sessionVars
<1>9. CASE RestStep
  BY <1>1, <1>4, <1>9 DEF RestStep, Heartbeat, ClosingStep
<1>10. CASE Tick \/ UNCHANGED vars
  BY <1>4, <1>10 DEF Tick, vars
<1> QED
  BY <1>1, <1>5, <1>6, <1>7, <1>8, <1>9, <1>10 DEF Next, ClosingStep

(* The registry's step seen from the abstract specification.               *)
LEMMA StepRefines ==
    ASSUME IInv, [Next]_vars
    PROVE  [Admission!Next]_(Admission!vars)
<1>1. ASSUME NEW p \in Profiles, CreateSession(p)
      PROVE  Admission!Admit(issued + 1, p = "hybrid_local_vi")
            /\ issued + 1 \in Sessions
  <2>1. /\ issued + 1 \in Sessions /\ issued \in Nat /\ issued' = issued + 1
    BY <1>1, LimitsAssumption DEF CreateSession, IInv, TypeOK, Sessions
  <2>2. (1 .. issued)' = (1 .. issued) \cup {issued + 1}
    BY <2>1
  <2>3. Live(state)' = Live(state) \cup {issued + 1}
    BY <1>1, <2>1 DEF CreateSession, Live, LiveStates, IInv, TypeOK
  <2>4. state[issued + 1] = "none"
    BY <2>1 DEF IInv, Linked
  <2>5. LocalLive(state)' = IF p = "hybrid_local_vi"
                            THEN LocalLive(state) \cup {issued + 1}
                            ELSE LocalLive(state)
    BY <1>1, <2>1, <2>3, <2>4 DEF CreateSession, LocalLive, Live, LiveStates, IInv, TypeOK
  <2>6. /\ Admission!Cardinality(Live(state)) = Cardinality(Live(state))
        /\ Admission!Cardinality(LocalLive(state)) = Cardinality(LocalLive(state))
    BY DEF Admission!Cardinality, Cardinality
  <2>7. /\ Cardinality(Live(state)) < MaxSessions
        /\ p = "hybrid_local_vi" => Cardinality(LocalLive(state)) < MaxLocalStt
    BY <1>1 DEF CreateSession, HasRoom
  <2>8. issued + 1 \notin 1 .. issued
    BY <2>1
  <2>9. CASE p = "hybrid_local_vi"
    BY <2>1, <2>2, <2>3, <2>5, <2>6, <2>7, <2>8, <2>9 DEF Admission!Admit
  <2>10. CASE p # "hybrid_local_vi"
    BY <2>1, <2>2, <2>3, <2>5, <2>6, <2>7, <2>8, <2>10 DEF Admission!Admit
  <2> QED
    BY <2>9, <2>10
<1>2. ASSUME NothingRevived
      PROVE  \E ids \in SUBSET Live(state) : Admission!Retire(ids)
  <2>1. Live(state)' = Live(state) \ (Live(state) \ Live(state'))
    BY <1>2 DEF NothingRevived, Live
  <2>2. LocalLive(state)' = LocalLive(state) \ (Live(state) \ Live(state'))
    BY <1>2 DEF NothingRevived, LocalLive, Live
  <2> QED
    BY <1>2, <2>1, <2>2 DEF Admission!Retire, NothingRevived
<1> QED
  BY <1>1, <1>2, OnlyCreationRevives DEF Admission!Next

(* The registry admits and retires sessions the way AdmissionControl does: *)
(* mark_error, close_session and the pruning never give a session back the *)
(* place it has lost.                                                      *)
THEOREM Refinement == Spec => ImplementsAdmission
<1>1. Init => Admission!Init
  BY LimitsAssumption DEF Init, Admission!Init, Live, LocalLive, LiveStates
<1>2. IInv /\ [Next]_vars => [Admission!Next]_(Admission!vars)
  BY StepRefines
<1> QED
  BY <1>1, <1>2, Invariance, PTL DEF Spec, ImplementsAdmission, Admission!Spec

(* The limits hold at every moment, though they are looked at only when a  *)
(* session is created.                                                     *)
LEMMA SubsetWithin ==
    ASSUME NEW S, NEW T \in SUBSET S, NEW n \in Nat, IsFiniteSet(S), Cardinality(S) <= n
    PROVE  Cardinality(T) <= n
<1>1. IsFiniteSet(T) /\ Cardinality(T) <= Cardinality(S)
  BY FS_Subset
<1> QED
  BY <1>1, FS_CardinalityType

(* One more in a set that has room stays within the limit.                 *)
LEMMA AddWithin ==
    ASSUME NEW S, NEW x, NEW n \in Nat, IsFiniteSet(S), Cardinality(S) < n
    PROVE  Cardinality(S \cup {x}) <= n
<1>1. Cardinality(S) \in Nat
  BY FS_CardinalityType
<1>2. Cardinality(S \cup {x}) = IF x \in S THEN Cardinality(S) ELSE Cardinality(S) + 1
  BY FS_AddElement
<1> QED
  BY <1>1, <1>2

(* The sessions with a place can be counted.                               *)
LEMMA LiveFinite ==
    ASSUME NEW st
    PROVE  IsFiniteSet(Live(st)) /\ IsFiniteSet(LocalLive(st))
<1>1. IsFiniteSet(Sessions)
  BY FS_Interval, LimitsAssumption DEF Sessions
<1>2. Live(st) \in SUBSET Sessions /\ LocalLive(st) \in SUBSET Sessions
  BY DEF Live, LocalLive
<1> QED
  BY <1>1, <1>2, FS_Subset

(* Every step keeps both limits.                                           *)
LEMMA CapacityStep ==
    ASSUME IInv, [Next]_vars, Capacity
    PROVE  Capacity'
<1>1. CASE NothingRevived
  <2>1. Live(state)' \in SUBSET Live(state) /\ LocalLive(state)' \in SUBSET LocalLive(state)
    BY <1>1 DEF NothingRevived, Live, LocalLive
  <2>2. Cardinality(Live(state)') <= MaxSessions
    BY <2>1, SubsetWithin, LiveFinite, LimitsAssumption DEF Capacity
  <2>3. Cardinality(LocalLive(state)') <= MaxLocalStt
    BY <2>1, SubsetWithin, LiveFinite, LimitsAssumption DEF Capacity
  <2> QED
    BY <2>2, <2>3 DEF Capacity
<1>2. ASSUME NEW p \in Profiles, CreateSession(p)
      PROVE  Capacity'
  <2>1. issued + 1 \in Sessions /\ state[issued + 1] = "none"
    BY <1>2, LimitsAssumption DEF CreateSession, IInv, TypeOK, Linked, Sessions
  <2>2. /\ Live(state)' = Live(state) \cup {issued + 1}
        /\ LocalLive(state)' = IF p = "hybrid_local_vi"
                               THEN LocalLive(state) \cup {issued + 1}
                               ELSE LocalLive(state)
    BY <1>2, <2>1 DEF CreateSession, LocalLive, Live, LiveStates, IInv, TypeOK
  <2>3. /\ Cardinality(Live(state)) < MaxSessions
        /\ p = "hybrid_local_vi" => Cardinality(LocalLive(state)) < MaxLocalStt
    BY <1>2 DEF CreateSession, HasRoom
  <2>4. Cardinality(Live(state)') <= MaxSessions
    BY <2>2, <2>3, AddWithin, LiveFinite, LimitsAssumption
  <2>5. Cardinality(LocalLive(state)') <= MaxLocalStt
    <3>1. CASE p = "hybrid_local_vi"
      BY <2>2, <2>3, <3>1, AddWithin, LiveFinite, LimitsAssumption
    <3>2. CASE p # "hybrid_local_vi"
      BY <2>2, <3>2 DEF Capacity
    <3> QED
      BY <3>1, <3>2
  <2> QED
    BY <2>4, <2>5 DEF Capacity
<1> QED
  BY <1>1, <1>2, OnlyCreationRevives

(* The host never holds more connectable sessions than it has places, in   *)
(* all and for the local recogniser.                                       *)
THEOREM CapacityHolds == Spec => []Capacity
<1>1. Init => Capacity
  <2>1. Init => Live(state) = {} /\ LocalLive(state) = {}
    BY DEF Init, Live, LocalLive, LiveStates
  <2> QED
    BY <2>1, FS_EmptySet, LimitsAssumption DEF Capacity
<1>2. IInv /\ [Next]_vars /\ Capacity => Capacity'
  BY CapacityStep
<1> QED
  BY <1>1, <1>2, Invariance, PTL DEF Spec
=============================================================================
