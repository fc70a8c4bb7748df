------------------------ MODULE SessionTeardownProofs ------------------------
(***************************************************************************)
(* Theorems about the tear-down of sessions (close_session and the tasks   *)
(* that run it), for every number of sessions, offers and requests: a      *)
(* session that has begun to close has exactly one task that finishes it,  *)
(* no pipeline is released before its runner was told to stop, and a       *)
(* stopped host leaves no session connectable.                             *)
(*                                                                         *)
(* They hold together or not at all: that two tasks never share a worker   *)
(* rests on the record's "closing" flag, the flag on the worker being      *)
(* registered once (IInv), and what the shutdown leaves behind on the      *)
(* queue of the one task that works through the registry.                  *)
(***************************************************************************)
EXTENDS SessionHostProofs, WellFoundedInduction

(* What a suspended close_session holds: a worker whose runner was asked   *)
(* to cancel and whose record, while it is listed, is marked as closing.   *)
(* A runner that closes its own session has ended before.                  *)
ClosersHold ==
    /\ \A k \in Closers : closeAt[k] = "idle" => victim[k] = NoOffer
    /\ \A o \in Offers : closeAt[o] # "idle" => runner[o] \in {"ended", "failed"}
    /\ server = "up" => closeAt[Cleaner] # "aborting"
    /\ \A k \in Closers : victim[k] # NoOffer => cancelled[victim[k]]
    /\ \A k \in Closers, s \in Sessions :
          victim[k] # NoOffer /\ runtime[s].owner = victim[k] => runtime[s].closing
    /\ \A s \in Sessions : runtime[s].closing => HasWorker(s)

(* Once the shutdown sweeps, whatever is still live waits in its queue.    *)
StopperSweepsAll ==
    /\ closeAt[Stopper] = "idle" => queue[Stopper] = {}
    /\ server # "closing" => closeAt[Stopper] = "idle"
    /\ server \in {"closing", "stopped"} => Live(state) \subseteq queue[Stopper]

TInv ==
    /\ ClosersHold
    /\ StopperSweepsAll
    /\ ReleasedAfterCancel
    /\ CleanupHasOneOwner

-----------------------------------------------------------------------------
(* A non-empty set of numbers has a least one.                             *)
LEMMA LeastOfNaturals ==
    ASSUME NEW T \in SUBSET Nat, T # {}
    PROVE  \E m \in T : \A n \in T : m <= n
<1> DEFINE R == OpToRel(<, Nat)
<1>1. IsWellFoundedOn(R, Nat)
  BY NatLessThanWellFounded
<1>2. \A x, y \in Nat : <<x, y>> \in R <=> x < y
  BY DEF OpToRel
<1> HIDE DEF R
<1>3. PICK m \in T : \A n \in T : ~ (<<n, m>> \in R)
  BY <1>1, WFMin
<1>4. ASSUME NEW n \in T
      PROVE  m <= n
  <2>1. m \in Nat /\ n \in Nat /\ ~ (<<n, m>> \in R)
    BY <1>3
  <2>2. ~ (n < m)
    BY <1>2, <2>1
  <2> QED
    BY <2>1, <2>2
<1> QED
  BY <1>4

(* FirstSuspending picks the one session of Q that suspends close_session  *)
(* first, or finds that none of them does.                                 *)
LEMMA OneSuspendsFirst ==
    ASSUME NEW Q \in SUBSET Sessions, NEW st
    PROVE  \/ /\ FirstSuspending(Q, st) = {}
              /\ \A t \in Q : ~ Suspends(t, st)
           \/ \E m \in Q :
                /\ FirstSuspending(Q, st) = {m}
                /\ Suspends(m, st)
                /\ \A t \in Q : Suspends(t, st) => m <= t
<1> DEFINE W == {t \in Q : Suspends(t, st)}
<1>1. \A t \in Q : t \in Nat
  BY DEF Sessions
<1>2. CASE W = {}
  BY <1>2 DEF FirstSuspending
<1>3. CASE W # {}
  <2>1. PICK m \in W : \A n \in W : m <= n
    BY <1>1, <1>3, LeastOfNaturals
  <2>2. m \in Q /\ Suspends(m, st) /\ \A t \in Q : Suspends(t, st) => m <= t
    BY <2>1
  <2>3. FirstSuspending(Q, st) = {m}
    <3>1. m \in FirstSuspending(Q, st)
      BY <2>2 DEF FirstSuspending
    <3>2. ASSUME NEW s \in FirstSuspending(Q, st)
          PROVE  s = m
      <4>1. s \in Q /\ s <= m /\ m <= s
        BY <2>2, <3>2 DEF FirstSuspending
      <4> QED
        BY <1>1, <2>2, <4>1
    <3> QED
      BY <3>1, <3>2
  <2> QED
    BY <2>2, <2>3
<1> QED
  BY <1>2, <1>3

(* What close_session leaves to its caller: through with Q, or suspended   *)
(* with the worker of the one session it has just marked.                  *)
Through(k, st) ==
    /\ closeAt'[k] = "idle"
    /\ victim'[k] = NoOffer
    /\ queue'[k] = {}
    /\ \A s \in Sessions : state'[s] = "closing" => st[s] = "closing"
    /\ \A s \in Sessions : runtime'[s].closing => runtime[s].closing

SuspendedOn(k, m, st) ==
    /\ OpenRecord(m)
    /\ closeAt'[k] = "cancelling"
    /\ victim'[k] = runtime[m].owner
    /\ cancelled'[runtime[m].owner]
    /\ runtime'[m].closing
    /\ \A s \in Sessions : s # m /\ state'[s] = "closing" => st[s] = "closing"
    /\ \A s \in Sessions : s # m /\ runtime'[s].closing => runtime[s].closing

HandsOver(k, Q, st) ==
    /\ \A o \in Offers : cancelled[o] => cancelled'[o]
    /\ \A j \in Closers : j # k =>
          closeAt'[j] = closeAt[j] /\ victim'[j] = victim[j] /\ queue'[j] = queue[j]
    /\ \A s \in Q : state'[s] \in LiveStates => s \in queue'[k]
    /\ \A s \in Sessions :
          runtime'[s].owner # NoOffer =>
             /\ runtime'[s].owner = runtime[s].owner
             /\ runtime[s].closing => runtime'[s].closing
    /\ \A s \in Sessions : runtime'[s].closing => runtime'[s].owner # NoOffer
    /\ Through(k, st) \/ \E m \in Sessions : SuspendedOn(k, m, st)

(* What closing a set of sessions does to the tear-down in progress of a   *)
(* closer.                                                                 *)
LEMMA CloseAllHandsOver ==
    ASSUME TypeOK, ClosersHold, NEW k \in Closers, NEW Q \in SUBSET Sessions,
           NEW st \in [Sessions -> SessionStates],
           NEW cl \in [Sessions -> CleanupNotes],
           CloseAll(k, Q, st, cl)
    PROVE  HandsOver(k, Q, st)
<1> DEFINE first == FirstSuspending(Q, st)
           swept == SweptStates(Q, st)
           gone  == IF k = Cleaner /\ first = {} THEN Prunable(swept) ELSE {}
           rt    == [s \in Sessions |->
                       IF s \in first THEN [owner |-> runtime[s].owner, closing |-> TRUE]
                       ELSE runtime[s]]
           new   == IF first = {} THEN NoOffer
                    ELSE CHOOSE o \in Offers : \E s \in first : runtime[s].owner = o
<1>1. /\ RegistryWithout(gone, swept, SweptNotes(Q, st, cl), rt)
      /\ cancelled' = [o \in Offers |-> cancelled[o] \/ o \in Cancels(first)]
      /\ closeAt' = [closeAt EXCEPT ![k] = IF first = {} THEN "idle" ELSE "cancelling"]
      /\ victim' = [victim EXCEPT ![k] = new]
      /\ queue' = [queue EXCEPT ![k] = {s \in Q : \E t \in first : t < s}]
  BY DEF CloseAll
<1>2. /\ state' = [s \in Sessions |-> IF s \in gone THEN "none" ELSE swept[s]]
      /\ runtime' = [s \in Sessions |-> IF s \in gone THEN NoRecord ELSE rt[s]]
  BY <1>1 DEF RegistryWithout
<1>3. /\ first \subseteq Q
      /\ \A s \in Sessions :
            /\ swept[s] = "closing" => s \in first \/ st[s] = "closing"
            /\ s \in Q /\ swept[s] \in LiveStates =>
                  /\ st[s] \in LiveStates
                  /\ s \notin first
                  /\ s \notin ClosedAtOnce(Q, st)
  BY DEF SweptStates, LiveStates, FirstSuspending, ClosedAtOnce
<1>4. first = {} \/ gone = {}
  OBVIOUS
<1>5. \A s \in Sessions :
         /\ rt[s].owner = runtime[s].owner
         /\ s \notin first => rt[s] = runtime[s]
         /\ s \in first => rt[s].closing
  BY DEF TypeOK
<1>6. \/ /\ first = {}
         /\ \A t \in Q : ~ Suspends(t, st)
      \/ \E m \in Q :
           /\ first = {m}
           /\ Suspends(m, st)
           /\ \A t \in Q : Suspends(t, st) => m <= t
  BY OneSuspendsFirst
<1>7. NoRecord.owner = NoOffer /\ ~ NoRecord.closing
  BY DEF NoRecord
<1>8. \A o \in Offers : cancelled[o] => cancelled'[o]
  BY <1>1
<1>9. \A j \in Closers : j # k =>
         closeAt'[j] = closeAt[j] /\ victim'[j] = victim[j] /\ queue'[j] = queue[j]
  BY <1>1 DEF TypeOK
<1>10. /\ closeAt'[k] = IF first = {} THEN "idle" ELSE "cancelling"
       /\ victim'[k] = new
       /\ queue'[k] = {s \in Q : \E t \in first : t < s}
  BY <1>1 DEF TypeOK
<1>11. \A t \in Q : t \in Nat
  BY DEF Sessions
<1> HIDE DEF first, swept, gone, rt
<1>12. ASSUME NEW s \in Q, state'[s] \in LiveStates
       PROVE  s \in queue'[k]
  <2>1. swept[s] = state'[s] /\ s \in Sessions
    BY <1>2, <1>12 DEF LiveStates
  <2>2. Closable(st[s]) /\ s \notin first /\ s \notin ClosedAtOnce(Q, st)
    BY <1>3, <1>12, <2>1 DEF LiveStates, Closable
  <2>3. PICK t \in Q : Suspends(t, st) /\ ~ (s < t)
    BY <2>2 DEF ClosedAtOnce
  <2>4. PICK m \in Q : first = {m} /\ \A u \in Q : Suspends(u, st) => m <= u
    BY <1>6, <2>3
  <2>5. m < s
    BY <1>11, <2>2, <2>3, <2>4
  <2> QED
    BY <1>10, <2>4, <2>5
<1>13. \A s \in Sessions :
          runtime'[s].owner # NoOffer =>
             /\ runtime'[s].owner = runtime[s].owner
             /\ runtime[s].closing => runtime'[s].closing
  BY <1>2, <1>5, <1>7
<1>14. \A s \in first : s \in Sessions /\ OpenRecord(s)
  BY <1>6 DEF Suspends
<1>15. \A s \in Sessions : runtime'[s].closing => runtime'[s].owner # NoOffer
  BY <1>2, <1>5, <1>7, <1>14 DEF ClosersHold, OpenRecord, HasWorker
<1>16. \A s \in Sessions : s \notin first =>
          /\ state'[s] = "closing" => st[s] = "closing"
          /\ runtime'[s].closing => runtime[s].closing
  BY <1>2, <1>3, <1>5, <1>7
<1>17. CASE first = {}
  <2>1. Through(k, st)
    BY <1>10, <1>16, <1>17 DEF Through
  <2> QED
    BY <1>8, <1>9, <1>12, <1>13, <1>15, <2>1 DEF HandsOver
<1>18. ASSUME NEW m \in Q, first = {m}
       PROVE  SuspendedOn(k, m, st)
  <2>1. OpenRecord(m) /\ m \in Sessions /\ runtime[m].owner \in Offers
    BY <1>14, <1>18 DEF OpenRecord, HasWorker, TypeOK
  <2>2. new = runtime[m].owner
    BY <1>18, <2>1
  <2>3. cancelled'[runtime[m].owner]
    BY <1>1, <1>18, <2>1 DEF Cancels
  <2>4. runtime'[m].closing
    BY <1>2, <1>4, <1>5, <1>18, <2>1
  <2>5. closeAt'[k] = "cancelling" /\ victim'[k] = runtime[m].owner
    BY <1>10, <1>18, <2>2
  <2> QED
    BY <1>16, <1>18, <2>1, <2>3, <2>4, <2>5 DEF SuspendedOn
<1> QED
  BY <1>6, <1>8, <1>9, <1>12, <1>13, <1>15, <1>17, <1>18 DEF HandsOver
-----------------------------------------------------------------------------
(* The six steps that run close_session, for task k over the sessions Q.   *)
(* Only the return of a release gives up a worker, which it has released.  *)
TeardownEffect(k, Q, st) ==
    /\ HandsOver(k, Q, st)
    /\ \A s \in Sessions : st[s] = "closing" =>
          /\ state[s] = "closing"
          /\ victim[k] # NoOffer => offerOf[victim[k]] # s
    /\ \A o \in Offers :
          bundle'[o] = "released" <=> bundle[o] = "released" \/ o = victim[k]
    /\ \A o \in Offers :
          /\ runner[o] \in {"ended", "failed"} => runner'[o] \in {"ended", "failed"}
          /\ o = k => runner'[o] \in {"ended", "failed"}
    /\ IF k = Stopper THEN server' = "closing" /\ Live(state) \subseteq Q
                      ELSE server' = server

(* Every step of a close is a hand-over of one closer.                     *)
LEMMA TeardownStepEffect ==
    ASSUME IInv, TInv, ClosingStep
    PROVE  \E k \in Closers, Q \in SUBSET Sessions, st \in [Sessions -> SessionStates] :
              TeardownEffect(k, Q, st)
<1>1. /\ state \in [Sessions -> SessionStates]
      /\ cleanup \in [Sessions -> CleanupNotes]
      /\ TypeOK /\ ClosersHold
  BY DEF IInv, TypeOK, TInv
<1>2. \A o \in Offers : o # Stopper /\ o # NoOffer /\ o \in Closers
  BY TasksAssumption DEF Closers
<1>3. \A d \in Deletes : d # Stopper /\ d \notin Offers /\ d \in Closers
  BY TasksAssumption DEF Closers
<1>4. /\ Cleaner # Stopper /\ Cleaner \in Closers /\ Stopper \in Closers
      /\ Cleaner \notin Offers /\ Stopper \notin Offers
  BY TasksAssumption DEF Closers
<1>5. \A k \in Closers : closeAt[k] = "idle" => victim[k] = NoOffer
  BY <1>1 DEF ClosersHold
<1>6. ASSUME NEW d \in Deletes, NEW s \in Sessions, DeleteSession(d, s)
      PROVE  TeardownEffect(d, {s}, state)
  <2>1. HandsOver(d, {s}, state)
    BY <1>1, <1>3, <1>6, CloseAllHandsOver DEF DeleteSession
  <2>2. victim[d] = NoOffer /\ UNCHANGED <<bundle, runner, server>>
    BY <1>3, <1>5, <1>6 DEF DeleteSession, workerVars
  <2> QED
    BY <1>2, <1>3, <2>1, <2>2 DEF TeardownEffect
<1>7. ASSUME NEW o \in Offers, runner[o] = "running"
      PROVE  /\ {offerOf[o]} \in SUBSET Sessions
             /\ victim[o] = NoOffer
  <2>1. offerOf[o] \in Sessions
    <3>1. offerOf[o] \in 1 .. issued
      BY <1>7 DEF IInv, Linked
    <3> QED
      BY <1>1, <3>1, LimitsAssumption DEF TypeOK, Sessions
  <2>2. closeAt[o] = "idle"
    BY <1>1, <1>7 DEF ClosersHold
  <2> QED
    BY <1>2, <1>5, <2>1, <2>2
<1>8. ASSUME NEW o \in Offers, RunnerEnds(o)
      PROVE  TeardownEffect(o, {offerOf[o]}, state)
  <2>1. HandsOver(o, {offerOf[o]}, state)
    BY <1>1, <1>2, <1>7, <1>8, CloseAllHandsOver DEF RunnerEnds
  <2>2. victim[o] = NoOffer /\ UNCHANGED <<bundle, server>>
    BY <1>7, <1>8 DEF RunnerEnds
  <2>3. \A p \in Offers : runner'[p] = IF p = o THEN "ended" ELSE runner[p]
    BY <1>1, <1>8 DEF RunnerEnds, TypeOK
  <2> QED
    BY <1>2, <2>1, <2>2, <2>3 DEF TeardownEffect
<1>9. ASSUME NEW o \in Offers, RunnerFails(o)
      PROVE  TeardownEffect(o, {offerOf[o]}, Errored(offerOf[o]))
             /\ Errored(offerOf[o]) \in [Sessions -> SessionStates]
  <2> DEFINE st == Errored(offerOf[o])
             cl == ErrorNoted(offerOf[o])
  <2>1. /\ st \in [Sessions -> SessionStates]
        /\ cl \in [Sessions -> CleanupNotes]
        /\ \A s \in Sessions : st[s] = "closing" => state[s] = "closing"
    BY <1>1 DEF Errored, ErrorNoted, SessionStates, CleanupNotes, LiveStates
  <2>2. CloseAll(o, {offerOf[o]}, st, cl)
    BY <1>9 DEF RunnerFails
  <2>3. {offerOf[o]} \in SUBSET Sessions /\ victim[o] = NoOffer
        /\ UNCHANGED <<bundle, server>>
    BY <1>7, <1>9 DEF RunnerFails
  <2>4. \A p \in Offers : runner'[p] = IF p = o THEN "failed" ELSE runner[p]
    BY <1>1, <1>9 DEF RunnerFails, TypeOK
  <2> HIDE DEF st, cl
  <2>5. HandsOver(o, {offerOf[o]}, st)
    BY <1>1, <1>2, <2>1, <2>2, <2>3, CloseAllHandsOver
  <2>6. TeardownEffect(o, {offerOf[o]}, st)
    BY <1>2, <2>1, <2>3, <2>4, <2>5 DEF TeardownEffect
  <2> QED
    BY <2>1, <2>6 DEF st
<1>10. ASSUME CleanupPass
       PROVE  TeardownEffect(Cleaner, Expired, state) /\ Expired \in SUBSET Sessions
  <2>1. Expired \in SUBSET Sessions
    BY DEF Expired, Live
  <2>2. HandsOver(Cleaner, Expired, state)
    BY <1>1, <1>4, <1>10, <2>1, CloseAllHandsOver DEF CleanupPass
  <2>3. victim[Cleaner] = NoOffer /\ UNCHANGED <<bundle, runner, server>>
    BY <1>4, <1>5, <1>10 DEF CleanupPass, workerVars
  <2> QED
    BY <1>2, <1>4, <2>1, <2>2, <2>3 DEF TeardownEffect
<1>11. ASSUME NEW k \in Closers, ReleaseReturns(k)
       PROVE  \E st \in [Sessions -> SessionStates] : TeardownEffect(k, queue[k], st)
  <2> DEFINE st == Finished(offerOf[victim[k]])
             cl == FinishNoted(offerOf[victim[k]])
  <2>1. /\ st \in [Sessions -> SessionStates]
        /\ cl \in [Sessions -> CleanupNotes]
        /\ \A s \in Sessions : st[s] = "closing" =>
              state[s] = "closing" /\ offerOf[victim[k]] # s
    BY <1>1 DEF Finished, FinishNoted, SessionStates, CleanupNotes, LiveStates
  <2>2. /\ CloseAll(k, queue[k], st, cl) /\ closeAt[k] = "releasing"
        /\ queue[k] \in SUBSET Sessions
        /\ UNCHANGED <<runner, server>>
    BY <1>1, <1>11 DEF ReleaseReturns, TypeOK
  <2>3. victim[k] \in Offers
    BY <1>1, <2>2 DEF IInv, Linked, TypeOK
  <2>4. \A o \in Offers :
           bundle'[o] = IF o = victim[k] THEN "released" ELSE bundle[o]
    BY <1>1, <1>11, <2>3 DEF ReleaseReturns, TypeOK
  <2>5. \A o \in Offers : o = k => runner[o] \in {"ended", "failed"}
    BY <1>1, <2>2 DEF ClosersHold
  <2>6. k = Stopper => server = "closing" /\ Live(state) \subseteq queue[k]
    BY <1>1, <2>2 DEF TInv, StopperSweepsAll
  <2> HIDE DEF st, cl
  <2>7. HandsOver(k, queue[k], st)
    BY <1>1, <2>1, <2>2, CloseAllHandsOver
  <2>8. TeardownEffect(k, queue[k], st)
    BY <2>1, <2>2, <2>4, <2>5, <2>6, <2>7 DEF TeardownEffect
  <2> QED
    BY <2>1, <2>8
<1>12. ASSUME ShutdownSweeps
       PROVE  TeardownEffect(Stopper, {s \in Sessions : state[s] # "none"}, state)
  <2> DEFINE Q == {s \in Sessions : state[s] # "none"}
  <2>1. Q \in SUBSET Sessions /\ Live(state) \subseteq Q
    BY DEF Live, LiveStates
  <2>2. HandsOver(Stopper, Q, state)
    BY <1>1, <1>4, <1>12, <2>1, CloseAllHandsOver DEF ShutdownSweeps
  <2>3. closeAt[Stopper] = "idle" /\ UNCHANGED <<bundle, runner>> /\ server' = "closing"
    BY <1>12 DEF ShutdownSweeps, workerVars, TInv, StopperSweepsAll
  <2>4. victim[Stopper] = NoOffer
    BY <1>4, <1>5, <2>3
  <2> QED
    BY <1>2, <1>4, <2>1, <2>2, <2>3, <2>4 DEF TeardownEffect
<1> QED
  <2>1. CASE \E d \in Deletes, s \in Sessions : DeleteSession(d, s)
    BY <1>1, <1>3, <1>6, <2>1
  <2>2. CASE \E o \in Offers : RunnerEnds(o) \/ RunnerFails(o)
    <3>1. PICK o \in Offers : RunnerEnds(o) \/ RunnerFails(o)
      BY <2>2
    <3>2. {offerOf[o]} \in SUBSET Sessions
      BY <1>7, <3>1 DEF RunnerEnds, RunnerFails
    <3> QED
      BY <1>1, <1>2, <1>8, <1>9, <3>1, <3>2
  <2>3. CASE CleanupPass
    BY <1>1, <1>4, <1>10, <2>3
  <2>4. CASE \E k \in Closers : ReleaseReturns(k)
    <3>1. PICK k \in Closers : ReleaseReturns(k)
      BY <2>4
    <3>2. queue[k] \in SUBSET Sessions
      BY <1>1 DEF TypeOK
    <3> QED
      BY <1>11, <3>1, <3>2
  <2>5. CASE ShutdownSweeps
    BY <1>1, <1>4, <1>12, <2>5
  <2> QED
    BY <2>1, <2>2, <2>3, <2>4, <2>5 DEF ClosingStep

(* A sweep makes no session connectable.                                   *)
LEMMA ClosingRevivesNone ==
    ASSUME IInv, ClosingStep
    PROVE  Live(state)' \subseteq Live(state)
<1>1. PICK k \in Closers, st \in [Sessions -> SessionStates] : ClosingEffect(k, st)
  BY ClosingStepEffect
<1>2. \A s \in Sessions : state'[s] \in LiveStates => state[s] \in LiveStates
  BY <1>1 DEF ClosingEffect, CloseEffect
<1> QED
  BY <1>2 DEF Live

(* What task k has just taken up is nobody else's, and what it was at work *)
(* on before is released.                                                  *)
LEMMA TeardownStepTInv ==
    ASSUME IInv, TInv, ClosingStep
    PROVE  TInv'
<1>1. PICK k \in Closers, Q \in SUBSET Sessions, st \in [Sessions -> SessionStates] :
         TeardownEffect(k, Q, st)
  BY TeardownStepEffect
<1>2. /\ HandsOver(k, Q, st)
      /\ Through(k, st) \/ \E m \in Sessions : SuspendedOn(k, m, st)
  BY <1>1 DEF TeardownEffect, HandsOver
<1>3. /\ UNCHANGED <<offerAt, offerOf>>
      /\ IInv' /\ TypeOK /\ Linked
  BY ClosingStepRest, ClosingStepIInv DEF IInv
<1>4. /\ ClosersHold /\ StopperSweepsAll /\ ReleasedAfterCancel /\ CleanupHasOneOwner
      /\ TypeOK'
  BY <1>3 DEF TInv, IInv
<1>5. /\ \A o \in Offers : cancelled[o] => cancelled'[o]
      /\ \A j \in Closers : j # k =>
            closeAt'[j] = closeAt[j] /\ victim'[j] = victim[j] /\ queue'[j] = queue[j]
      /\ \A s \in Sessions : runtime'[s].owner # NoOffer =>
            /\ runtime'[s].owner = runtime[s].owner
            /\ runtime[s].closing => runtime'[s].closing
      /\ \A s \in Sessions : runtime'[s].closing => runtime'[s].owner # NoOffer
  BY <1>2 DEF HandsOver
<1>6. /\ \A j \in Closers : victim[j] # NoOffer => victim[j] \in Offers
      /\ \A s \in Sessions : HasWorker(s) =>
            runtime[s].owner \in Offers /\ offerOf[runtime[s].owner] = s
  BY <1>3 DEF TypeOK, Linked, HasWorker
<1>7. server' = "up" => server = "up"
  BY <1>1 DEF TeardownEffect
<1>8. ClosersHold'
  <2>1. \A j \in Closers : closeAt'[j] = "idle" => victim'[j] = NoOffer
    BY <1>2, <1>4, <1>5 DEF ClosersHold, Through, SuspendedOn
  <2>2. \A o \in Offers : closeAt'[o] # "idle" => runner'[o] \in {"ended", "failed"}
    BY <1>1, <1>4, <1>5 DEF ClosersHold, TeardownEffect, Closers
  <2>3. server' = "up" => closeAt'[Cleaner] # "aborting"
    BY <1>2, <1>4, <1>5, <1>7 DEF ClosersHold, Through, SuspendedOn, Closers
  <2>4. \A j \in Closers : victim'[j] # NoOffer => cancelled'[victim'[j]]
    BY <1>2, <1>4, <1>5, <1>6 DEF ClosersHold, Through, SuspendedOn
  <2>5. ASSUME NEW j \in Closers, NEW s \in Sessions,
               victim'[j] # NoOffer, runtime'[s].owner = victim'[j]
        PROVE  runtime'[s].closing
    <3>1. CASE j # k
      BY <1>4, <1>5, <2>5, <3>1 DEF ClosersHold
    <3>2. CASE j = k
      <4>1. PICK m \in Sessions : SuspendedOn(k, m, st)
        BY <1>2, <2>5, <3>2 DEF Through
      <4>2. runtime[s].owner = runtime[m].owner /\ HasWorker(m) /\ HasWorker(s)
        BY <1>5, <2>5, <3>2, <4>1 DEF SuspendedOn, OpenRecord, HasWorker
      <4>3. s = m
        BY <1>6, <4>2
      <4> QED
        BY <4>1, <4>3 DEF SuspendedOn
    <3> QED
      BY <3>1, <3>2
  <2>6. \A s \in Sessions : runtime'[s].closing => HasWorker(s)'
    BY <1>5 DEF HasWorker
  <2> QED
    BY <2>1, <2>2, <2>3, <2>4, <2>5, <2>6 DEF ClosersHold, Sessions, Closers
<1>9. StopperSweepsAll'
  <2>1. CASE k = Stopper
    <3>1. server' = "closing" /\ Live(state) \subseteq Q
      BY <1>1, <2>1 DEF TeardownEffect
    <3>2. closeAt'[Stopper] = "idle" => queue'[Stopper] = {}
      BY <1>2, <2>1 DEF Through, SuspendedOn
    <3>3. Live(state)' \subseteq Live(state)
      BY ClosingRevivesNone
    <3>4. Live(state)' \subseteq queue'[Stopper]
      BY <1>2, <2>1, <3>1, <3>3 DEF HandsOver, Live
    <3> QED
      BY <3>1, <3>2, <3>4 DEF StopperSweepsAll, Closers
  <2>2. CASE k # Stopper
    <3>1. server' = server /\ Live(state)' \subseteq Live(state)
      BY <1>1, <2>2, ClosingRevivesNone DEF TeardownEffect
    <3>2. closeAt'[Stopper] = closeAt[Stopper] /\ queue'[Stopper] = queue[Stopper]
      BY <1>5, <2>2 DEF Closers
    <3> QED
      BY <1>4, <3>1, <3>2 DEF StopperSweepsAll, Closers
  <2> QED
    BY <2>1, <2>2
<1>10. ReleasedAfterCancel'
  <2>1. \A o \in Offers : bundle'[o] = "released" => cancelled[o]
    BY <1>1, <1>4, TasksAssumption DEF TeardownEffect, ReleasedAfterCancel, ClosersHold
  <2> QED
    BY <1>5, <2>1 DEF ReleasedAfterCancel
<1>11. CleanupHasOneOwner'
  <2>1. ASSUME server' = "up", NEW s \in Sessions, state'[s] = "closing"
        PROVE  \E j \in Closers : victim'[j] # NoOffer /\ offerOf'[victim'[j]] = s
    <3>1. CASE SuspendedOn(k, s, st)
      <4>1. HasWorker(s) /\ victim'[k] = runtime[s].owner
        BY <3>1 DEF SuspendedOn, OpenRecord
      <4> QED
        BY <1>3, <1>6, <4>1 DEF HasWorker
    <3>2. CASE ~ SuspendedOn(k, s, st)
      <4>1. st[s] = "closing"
        BY <1>2, <2>1, <3>2 DEF Through, SuspendedOn
      <4>2. state[s] = "closing" /\ (victim[k] # NoOffer => offerOf[victim[k]] # s)
        BY <1>1, <4>1 DEF TeardownEffect
      <4>3. PICK j \in Closers : victim[j] # NoOffer /\ offerOf[victim[j]] = s
        BY <1>4, <1>7, <2>1, <4>2 DEF CleanupHasOneOwner
      <4>4. j # k
        BY <4>2, <4>3
      <4> QED
        BY <1>3, <1>5, <4>3, <4>4
    <3> QED
      BY <3>1, <3>2
  <2>2. ASSUME server' = "up", NEW s \in Sessions, runtime'[s].closing
        PROVE  \/ bundle'[runtime'[s].owner] = "released"
               \/ \E j \in Closers : victim'[j] = runtime'[s].owner
    <3>1. runtime'[s].owner # NoOffer /\ runtime'[s].owner = runtime[s].owner
      BY <1>5, <2>2
    <3>2. runtime[s].owner \in Offers
      BY <1>6, <3>1 DEF HasWorker
    <3>3. CASE SuspendedOn(k, s, st)
      BY <3>1, <3>3 DEF SuspendedOn
    <3>4. CASE ~ SuspendedOn(k, s, st)
      <4>1. runtime[s].closing
        BY <1>2, <2>2, <3>4 DEF Through, SuspendedOn
      <4>2. CASE bundle[runtime[s].owner] = "released"
        BY <1>1, <3>1, <3>2, <4>2 DEF TeardownEffect
      <4>3. CASE \E j \in Closers : victim[j] = runtime[s].owner
        <5>1. PICK j \in Closers : victim[j] = runtime[s].owner
          BY <4>3
        <5>2. CASE j = k
          BY <1>1, <3>1, <3>2, <5>1, <5>2 DEF TeardownEffect
        <5>3. CASE j # k
          BY <1>5, <3>1, <5>1, <5>3
        <5> QED
          BY <5>2, <5>3
      <4> QED
        BY <1>4, <1>7, <2>2, <4>1, <4>2, <4>3 DEF CleanupHasOneOwner
    <3> QED
      BY <3>3, <3>4
  <2>3. ASSUME NEW j \in Closers, j # k, victim'[k] = victim'[j]
        PROVE  victim'[k] = NoOffer
    <3>1. CASE Through(k, st)
      BY <3>1 DEF Through
    <3>2. ASSUME NEW m \in Sessions, SuspendedOn(k, m, st)
          PROVE  FALSE
      <4>1. /\ runtime[m].owner # NoOffer /\ ~ runtime[m].closing
            /\ victim[j] = runtime[m].owner
        BY <1>5, <2>3, <3>2 DEF SuspendedOn, OpenRecord, HasWorker
      <4> QED
        BY <1>4, <4>1 DEF ClosersHold
    <3> QED
      BY <1>2, <3>1, <3>2
  <2>4. \A i, j \in Closers : i # j /\ victim'[i] = victim'[j] => victim'[i] = NoOffer
    BY <1>4, <1>5, <2>3 DEF CleanupHasOneOwner
  <2> QED
    BY <2>1, <2>2, <2>4 DEF CleanupHasOneOwner, Sessions, Closers
<1> QED
  BY <1>8, <1>9, <1>10, <1>11 DEF TInv
-----------------------------------------------------------------------------
(* Steps of requests, offers, runners and the clock: no task begins, goes  *)
(* on with or ends a tear-down, and a record is only added by              *)
(* register_worker, for a worker that nobody can have been closing.        *)
LEMMA QuietTInv ==
    ASSUME IInv, TInv,
           UNCHANGED <<closeAt, victim, queue, server>>,
           \A o \in Offers : cancelled[o] => cancelled'[o],
           \A o \in Offers : bundle'[o] = "released" => bundle[o] = "released",
           \A o \in Offers :
              bundle[o] = "released" /\ offerAt[o] \in Registered => bundle'[o] = "released",
           \A o \in Offers :
              runner[o] \in {"ended", "failed"} => runner'[o] \in {"ended", "failed"},
           \A o \in Offers : offerAt[o] \in Registered => offerOf'[o] = offerOf[o],
           \A s \in Sessions : state'[s] = "closing" => state[s] = "closing",
           Live(state)' \subseteq Live(state) \/ server = "up",
           \A s \in Sessions :
              \/ runtime'[s] = runtime[s]
              \/ \E o \in Offers :
                    /\ offerAt[o] = "building"
                    /\ runtime'[s] = [owner |-> o, closing |-> FALSE]
    PROVE  TInv'
<1>1. /\ TypeOK /\ Linked
      /\ ClosersHold /\ StopperSweepsAll /\ ReleasedAfterCancel /\ CleanupHasOneOwner
  BY DEF IInv, TInv
<1>2. \A k \in Closers : victim[k] # NoOffer =>
         victim[k] \in Offers /\ offerAt[victim[k]] \in Registered
  BY <1>1 DEF TypeOK, Linked
<1>3. ASSUME NEW s \in Sessions, runtime'[s] # runtime[s]
      PROVE  /\ ~ runtime'[s].closing
             /\ \E o \in Offers : offerAt[o] = "building" /\ runtime'[s].owner = o
  <2>1. PICK o \in Offers :
           offerAt[o] = "building" /\ runtime'[s] = [owner |-> o, closing |-> FALSE]
    BY <1>3
  <2> QED
    BY <2>1
<1>4. \A s \in Sessions : runtime[s].closing =>
         runtime[s].owner \in Offers /\ offerAt[runtime[s].owner] \in Registered
  BY <1>1 DEF ClosersHold, HasWorker, TypeOK, Linked
<1>5. ClosersHold'
  <2>1. ASSUME NEW k \in Closers, NEW s \in Sessions,
               victim[k] # NoOffer, runtime'[s].owner = victim[k]
        PROVE  runtime'[s].closing
    <3>1. offerAt[runtime'[s].owner] \in Registered
      BY <1>2, <2>1
    <3>2. runtime'[s] = runtime[s]
      BY <1>3, <3>1 DEF Registered
    <3> QED
      BY <1>1, <2>1, <3>2 DEF ClosersHold
  <2>2. \A k \in Closers : victim[k] # NoOffer => cancelled'[victim[k]]
    BY <1>1, <1>2 DEF ClosersHold
  <2>3. \A s \in Sessions : runtime'[s].closing => HasWorker(s)'
    BY <1>1, <1>3 DEF ClosersHold, HasWorker
  <2>4. \A o \in Offers : closeAt[o] # "idle" => runner'[o] \in {"ended", "failed"}
    BY <1>1 DEF ClosersHold
  <2>5. /\ \A k \in Closers : closeAt[k] = "idle" => victim[k] = NoOffer
        /\ server = "up" => closeAt[Cleaner] # "aborting"
    BY <1>1 DEF ClosersHold
  <2> QED
    BY <2>1, <2>2, <2>3, <2>4, <2>5 DEF ClosersHold, Sessions, Closers
<1>6. StopperSweepsAll'
  BY <1>1 DEF StopperSweepsAll
<1>7. ReleasedAfterCancel'
  BY <1>1 DEF ReleasedAfterCancel
<1>8. CleanupHasOneOwner'
  <2>1. ASSUME server = "up", NEW s \in Sessions, state'[s] = "closing"
        PROVE  \E k \in Closers : victim'[k] # NoOffer /\ offerOf'[victim'[k]] = s
    <3>1. PICK k \in Closers : victim[k] # NoOffer /\ offerOf[victim[k]] = s
      BY <1>1, <2>1 DEF CleanupHasOneOwner
    <3> QED
      BY <1>2, <3>1
  <2>2. ASSUME server = "up", NEW s \in Sessions, runtime'[s].closing
        PROVE  \/ bundle'[runtime'[s].owner] = "released"
               \/ \E k \in Closers : victim'[k] = runtime'[s].owner
    BY <1>1, <1>3, <1>4, <2>2 DEF CleanupHasOneOwner
  <2>3. \A k, m \in Closers : k # m /\ victim[k] = victim[m] => victim[k] = NoOffer
    BY <1>1 DEF CleanupHasOneOwner
  <2> QED
    BY <2>1, <2>2, <2>3 DEF CleanupHasOneOwner, Sessions, Closers
<1> QED
  BY <1>5, <1>6, <1>7, <1>8 DEF TInv

(* mark_error, in four exits of the offer's handler.                       *)
LEMMA MarkedTInv ==
    ASSUME IInv, TInv, NEW o \in Offers,
           NegotiationFails(o) \/ WorkerRefused(o) \/ BuildFails(o) \/ MetricFails(o)
    PROVE  TInv'
<1> USE DEF NegotiationFails, WorkerRefused, BuildFails, MetricFails
<1>1. /\ UNCHANGED <<closeAt, victim, queue, server, cancelled, bundle, runner, runtime>>
      /\ MarkError(offerOf[o])
  BY DEF closeVars
<1>2. \A s \in Sessions :
         /\ state'[s] = "closing" => state[s] = "closing"
         /\ state'[s] \in LiveStates => state[s] \in LiveStates
  BY <1>1 DEF MarkError, Errored, LiveStates, IInv, TypeOK
<1>3. Live(state)' \subseteq Live(state)
  BY <1>2 DEF Live
<1>4. \A p \in Offers : offerAt[p] \in Registered => offerOf'[p] = offerOf[p]
  BY DEF Registered, IInv, TypeOK
<1> QED
  BY <1>1, <1>2, <1>3, <1>4, QuietTInv

(* The offer's other steps.                                                *)
LEMMA OfferTInv ==
    ASSUME IInv, TInv, NEW o \in Offers, OfferStep(o)
    PROVE  TInv'
<1>1. CASE NegotiationFails(o) \/ WorkerRefused(o) \/ BuildFails(o) \/ MetricFails(o)
  BY <1>1, MarkedTInv
<1>2. ASSUME NEW s \in Sessions, OfferAccepted(o, s)
      PROVE  TInv'
  <2>1. /\ UNCHANGED <<closeAt, victim, queue, server, cancelled, bundle, runner,
                       runtime, state>>
        /\ Live(state)' \subseteq Live(state)
    BY <1>2 DEF OfferAccepted, closeVars, Live
  <2>2. \A p \in Offers : offerAt[p] \in Registered => offerOf'[p] = offerOf[p]
    BY <1>2 DEF OfferAccepted, Registered, IInv, TypeOK
  <2> QED
    BY <2>1, <2>2, QuietTInv
<1>3. CASE WorkerBuilding(o)
  <2>1. /\ UNCHANGED <<closeAt, victim, queue, server, cancelled, offerOf, runner,
                       runtime, state>>
        /\ Live(state)' \subseteq Live(state)
    BY <1>3 DEF WorkerBuilding, closeVars, Live
  <2>2. \A p \in Offers :
           /\ bundle'[p] = "released" => bundle[p] = "released"
           /\ bundle[p] = "released" /\ offerAt[p] \in Registered => bundle'[p] = "released"
    BY <1>3 DEF WorkerBuilding, Registered, IInv, TypeOK
  <2> QED
    BY <2>1, <2>2, QuietTInv
<1>4. CASE WorkerRegistered(o)
  <2>1. /\ UNCHANGED <<closeAt, victim, queue, server, cancelled, offerOf, bundle, runner>>
        /\ offerAt[o] = "building"
    BY <1>4 DEF WorkerRegistered, closeVars
  <2>2. \A s \in Sessions :
           /\ state'[s] = "closing" => state[s] = "closing"
           /\ state'[s] \in LiveStates => state[s] \in LiveStates
    BY <1>4 DEF WorkerRegistered, Activated, LiveStates, IInv, TypeOK
  <2>3. Live(state)' \subseteq Live(state)
    BY <2>2 DEF Live
  <2>4. \A s \in Sessions :
           \/ runtime'[s] = runtime[s]
           \/ runtime'[s] = [owner |-> o, closing |-> FALSE]
    BY <1>4 DEF WorkerRegistered, IInv, TypeOK
  <2> QED
    BY <2>1, <2>2, <2>3, <2>4, QuietTInv
<1>5. CASE RunnerSpawned(o)
  <2>1. /\ UNCHANGED <<closeAt, victim, queue, server, cancelled, offerOf, bundle,
                       runtime, state>>
        /\ Live(state)' \subseteq Live(state)
    BY <1>5 DEF RunnerSpawned, closeVars, Live
  <2>2. runner[o] = "none"
    BY <1>5 DEF RunnerSpawned, IInv, Linked
  <2>3. \A p \in Offers :
           runner[p] \in {"ended", "failed"} => runner'[p] \in {"ended", "failed"}
    BY <1>5, <2>2 DEF RunnerSpawned, IInv, TypeOK
  <2> QED
    BY <2>1, <2>3, QuietTInv
<1> QED
  BY <1>1, <1>2, <1>3, <1>4, <1>5 DEF OfferStep

(* Requests, the clock, and a runner that begins or whose client leaves.   *)
LEMMA RestTInv ==
    ASSUME IInv, TInv,
           \/ \E p \in Profiles : CreateSession(p)
           \/ \E s \in Sessions : Heartbeat(s)
           \/ Tick
           \/ \E o \in Offers : RunnerStarts(o) \/ ClientDisconnects(o)
           \/ UNCHANGED vars
    PROVE  TInv'
<1>1. ASSUME NEW p \in Profiles, CreateSession(p)
      PROVE  TInv'
  <2>1. /\ UNCHANGED <<closeAt, victim, queue, server, cancelled, offerOf, bundle,
                       runner, runtime>>
        /\ server = "up"
    BY <1>1 DEF CreateSession, closeVars, workerVars
  <2>2. \A s \in Sessions : state'[s] = "closing" => state[s] = "closing"
    BY <1>1 DEF CreateSession, IInv, TypeOK
  <2> QED
    BY <2>1, <2>2, QuietTInv
<1>2. CASE UNCHANGED <<state, runtime, closeAt, victim, queue, server, offerOf, bundle>>
           /\ (\A o \in Offers : cancelled[o] => cancelled'[o])
           /\ (\A o \in Offers : runner[o] \in {"ended", "failed"} => runner'[o] = runner[o])
  <2>1. Live(state)' \subseteq Live(state)
    BY <1>2 DEF Live
  <2> QED
    BY <1>2, <2>1, QuietTInv
<1>3. CASE (\E s \in Sessions : Heartbeat(s)) \/ Tick \/ UNCHANGED vars
  BY <1>2, <1>3 DEF Heartbeat, Tick, vars, closeVars, workerVars
<1>4. ASSUME NEW o \in Offers, RunnerStarts(o)
      PROVE  TInv'
  BY <1>2, <1>4 DEF RunnerStarts, closeVars, IInv, TypeOK
<1>5. ASSUME NEW o \in Offers, ClientDisconnects(o)
      PROVE  TInv'
  BY <1>2, <1>5 DEF ClientDisconnects, workerVars, IInv, TypeOK
<1> QED
  BY <1>1, <1>3, <1>4, <1>5

(* runner.cancel comes back: the task goes on to the release.              *)
LEMMA CancelReturnsTInv ==
    ASSUME IInv, TInv, NEW k \in Closers, CancelReturns(k)
    PROVE  TInv'
<1>1. /\ UNCHANGED <<state, runtime, cancelled, victim, queue, server, bundle, runner, offerOf>>
      /\ TypeOK /\ closeAt[k] = "cancelling"
      /\ ClosersHold /\ StopperSweepsAll /\ ReleasedAfterCancel /\ CleanupHasOneOwner
  BY DEF CancelReturns, workerVars, IInv, TInv
<1>2. \A j \in Closers :
         closeAt'[j] = IF j = k THEN "releasing" ELSE closeAt[j]
  BY <1>1 DEF CancelReturns, TypeOK
<1>3. ClosersHold'
  BY <1>1, <1>2 DEF ClosersHold, HasWorker, Closers, Sessions
<1>4. StopperSweepsAll'
  BY <1>1, <1>2 DEF StopperSweepsAll, Live, Sessions, Closers
<1>5. ReleasedAfterCancel' /\ CleanupHasOneOwner'
  BY <1>1 DEF ReleasedAfterCancel, CleanupHasOneOwner, Sessions, Closers
<1> QED
  BY <1>3, <1>4, <1>5 DEF TInv

(* The shutdown takes the worker from the expiry loop, which is allowed    *)
(* only because the server is no longer up: the session stays CLOSING.     *)
LEMMA ShutdownBeginsTInv ==
    ASSUME IInv, TInv, ShutdownBegins
    PROVE  TInv'
<1>1. /\ UNCHANGED <<state, runtime, cancelled, bundle, runner, offerOf>>
      /\ server = "up" /\ server' = "draining"
      /\ TypeOK
      /\ ClosersHold /\ StopperSweepsAll /\ ReleasedAfterCancel /\ CleanupHasOneOwner
  BY DEF ShutdownBegins, workerVars, IInv, TInv
<1>2. Cleaner # Stopper /\ Cleaner \in Closers /\ Stopper \in Closers /\ Cleaner \notin Offers
  BY TasksAssumption DEF Closers
<1>3. \A k \in Closers : k # Cleaner =>
         closeAt'[k] = closeAt[k] /\ victim'[k] = victim[k] /\ queue'[k] = queue[k]
  BY <1>1 DEF ShutdownBegins, TypeOK
<1>4. \/ closeAt'[Cleaner] = "aborting" /\ victim'[Cleaner] = victim[Cleaner]
      \/ closeAt'[Cleaner] = "idle" /\ victim'[Cleaner] = NoOffer
  BY <1>1, <1>2 DEF ShutdownBegins, TypeOK
<1>5. \A k \in Closers : victim'[k] = NoOffer \/ victim'[k] = victim[k]
  BY <1>3, <1>4
<1>6. ClosersHold'
  <2>1. \A k \in Closers : closeAt'[k] = "idle" => victim'[k] = NoOffer
    BY <1>1, <1>3, <1>4 DEF ClosersHold
  <2>2. \A o \in Offers : closeAt'[o] # "idle" => runner'[o] \in {"ended", "failed"}
    BY <1>1, <1>2, <1>3 DEF ClosersHold, Closers
  <2>3. \A k \in Closers : victim'[k] # NoOffer => cancelled'[victim'[k]]
    BY <1>1, <1>5 DEF ClosersHold
  <2>4. \A k \in Closers, s \in Sessions :
           victim'[k] # NoOffer /\ runtime'[s].owner = victim'[k] => runtime'[s].closing
    BY <1>1, <1>5 DEF ClosersHold
  <2>5. \A s \in Sessions : runtime'[s].closing => HasWorker(s)'
    BY <1>1 DEF ClosersHold, HasWorker
  <2> QED
    BY <1>1, <2>1, <2>2, <2>3, <2>4, <2>5 DEF ClosersHold, Sessions, Closers
<1>7. StopperSweepsAll'
  BY <1>1, <1>2, <1>3 DEF StopperSweepsAll
<1>8. ReleasedAfterCancel'
  BY <1>1 DEF ReleasedAfterCancel
<1>9. CleanupHasOneOwner'
  <2>1. \A k, m \in Closers : k # m /\ victim'[k] = victim'[m] => victim'[k] = NoOffer
    BY <1>1, <1>5 DEF CleanupHasOneOwner
  <2> QED
    BY <1>1, <2>1 DEF CleanupHasOneOwner, Closers
<1> QED
  BY <1>6, <1>7, <1>8, <1>9 DEF TInv

(* _abort_runtime_record releases what the expiry loop took.               *)
LEMMA AbortReleasesTInv ==
    ASSUME IInv, TInv, AbortReleases
    PROVE  TInv'
<1>1. /\ UNCHANGED <<state, runtime, cancelled, runner, offerOf, queue, server>>
      /\ closeAt[Cleaner] = "aborting"
      /\ TypeOK /\ Linked
      /\ ClosersHold /\ StopperSweepsAll /\ ReleasedAfterCancel /\ CleanupHasOneOwner
  BY DEF AbortReleases, sessionVars, IInv, TInv
<1>2. Cleaner # Stopper /\ Cleaner \in Closers /\ Stopper \in Closers /\ Cleaner \notin Offers
  BY TasksAssumption DEF Closers
<1>3. server # "up"
  BY <1>1 DEF ClosersHold
<1>4. /\ \A k \in Closers : k # Cleaner =>
            closeAt'[k] = closeAt[k] /\ victim'[k] = victim[k]
      /\ closeAt'[Cleaner] = "idle" /\ victim'[Cleaner] = NoOffer
  BY <1>1, <1>2 DEF AbortReleases, TypeOK
<1>5. victim[Cleaner] \in Offers /\ cancelled[victim[Cleaner]]
  BY <1>1, <1>2 DEF Linked, TypeOK, ClosersHold
<1>6. \A o \in Offers :
         bundle'[o] = IF o = victim[Cleaner] THEN "released" ELSE bundle[o]
  BY <1>1, <1>5 DEF AbortReleases, TypeOK
<1>7. ClosersHold'
  <2>1. \A k \in Closers : victim'[k] # NoOffer => victim'[k] = victim[k]
    BY <1>4
  <2>2. \A k \in Closers : closeAt'[k] = "idle" => victim'[k] = NoOffer
    BY <1>1, <1>4 DEF ClosersHold
  <2>3. \A o \in Offers : closeAt'[o] # "idle" => runner'[o] \in {"ended", "failed"}
    BY <1>1, <1>2, <1>4 DEF ClosersHold, Closers
  <2>4. \A k \in Closers : victim'[k] # NoOffer => cancelled'[victim'[k]]
    BY <1>1, <2>1 DEF ClosersHold
  <2>5. \A k \in Closers, s \in Sessions :
           victim'[k] # NoOffer /\ runtime'[s].owner = victim'[k] => runtime'[s].closing
    BY <1>1, <2>1 DEF ClosersHold
  <2>6. \A s \in Sessions : runtime'[s].closing => HasWorker(s)'
    BY <1>1 DEF ClosersHold, HasWorker
  <2> QED
    BY <1>1, <1>3, <2>2, <2>3, <2>4, <2>5, <2>6 DEF ClosersHold, Sessions, Closers
<1>8. StopperSweepsAll'
  BY <1>1, <1>2, <1>4 DEF StopperSweepsAll, Live, Sessions
<1>9. ReleasedAfterCancel'
  BY <1>1, <1>5, <1>6 DEF ReleasedAfterCancel
<1>10. CleanupHasOneOwner'
  BY <1>1, <1>3, <1>4 DEF CleanupHasOneOwner, Closers
<1> QED
  BY <1>7, <1>8, <1>9, <1>10 DEF TInv

(* The lifespan ends: nothing is left to close.                            *)
LEMMA ShutdownEndsTInv ==
    ASSUME IInv, TInv, ShutdownEnds
    PROVE  TInv'
<1>1. /\ UNCHANGED <<state, runtime, cancelled, closeAt, victim, queue, bundle, runner, offerOf>>
      /\ server = "closing" /\ server' = "stopped" /\ closeAt[Stopper] = "idle"
      /\ ClosersHold /\ StopperSweepsAll /\ ReleasedAfterCancel /\ CleanupHasOneOwner
  BY DEF ShutdownEnds, workerVars, closeVars, TInv
<1>2. ClosersHold'
  BY <1>1 DEF ClosersHold, HasWorker, Sessions, Closers
<1>3. StopperSweepsAll'
  BY <1>1 DEF StopperSweepsAll, Live, Sessions
<1>4. ReleasedAfterCancel' /\ CleanupHasOneOwner'
  BY <1>1 DEF ReleasedAfterCancel, CleanupHasOneOwner, Closers
<1> QED
  BY <1>2, <1>3, <1>4 DEF TInv

-----------------------------------------------------------------------------
(* The host starts without a tear-down.                                    *)
LEMMA InitTInv == Init => TInv
<1> SUFFICES ASSUME Init PROVE TInv
  OBVIOUS
<1>1. /\ \A k \in Closers : closeAt[k] = "idle" /\ victim[k] = NoOffer /\ queue[k] = {}
      /\ \A s \in Sessions : state[s] = "none" /\ runtime[s] = NoRecord
      /\ \A o \in Offers : bundle[o] = "none"
      /\ server = "up"
  BY DEF Init
<1>2. Cleaner \in Closers /\ Stopper \in Closers
  BY DEF Closers
<1>3. ~ NoRecord.closing
  BY DEF NoRecord
<1>4. ClosersHold
  BY <1>1, <1>2, <1>3 DEF ClosersHold, Closers
<1>5. StopperSweepsAll /\ ReleasedAfterCancel /\ CleanupHasOneOwner
  BY <1>1, <1>2, <1>3 DEF StopperSweepsAll, ReleasedAfterCancel, CleanupHasOneOwner
<1> QED
  BY <1>4, <1>5 DEF TInv

(* Every step keeps the invariant.                                         *)
LEMMA NextTInv ==
    ASSUME IInv, TInv, [Next]_vars
    PROVE  TInv'
<1>1. CASE RestStep
  BY <1>1, RestTInv, TeardownStepTInv DEF RestStep, ClosingStep
<1>2. CASE Tick \/ UNCHANGED vars
  BY <1>2, RestTInv
<1>3. ASSUME NEW o \in Offers, OfferStep(o)
      PROVE  TInv'
  BY <1>3, OfferTInv
<1>4. ASSUME NEW o \in Offers, RunnerStep(o)
      PROVE  TInv'
  BY <1>4, RestTInv, TeardownStepTInv DEF RunnerStep, ClosingStep
<1>5. CASE CleanupPass
  BY <1>5, TeardownStepTInv DEF ClosingStep
<1>6. ASSUME NEW k \in Closers, CloseStep(k)
      PROVE  TInv'
  BY <1>6, CancelReturnsTInv, TeardownStepTInv DEF CloseStep, ClosingStep
<1>7. CASE ShutdownStep
  BY <1>7, ShutdownBeginsTInv, AbortReleasesTInv, ShutdownEndsTInv, TeardownStepTInv
  DEF ShutdownStep, ClosingStep
<1> QED
  BY <1>1, <1>2, <1>3, <1>4, <1>5, <1>6, <1>7 DEF Next

(* The inductive invariant of the tear-downs of close_session and          *)
(* _abort_runtime_record.                                                  *)
THEOREM TeardownInvariance == Spec => []TInv
<1>1. Init => TInv
  BY InitTInv
<1>2. IInv /\ TInv /\ [Next]_vars => TInv'
  BY NextTInv
<1> QED
  BY <1>1, <1>2, Invariance, PTL DEF Spec

(* A tear-down is never abandoned while the server is up, and never done   *)
(* by two tasks: a CLOSING session has a task that finishes it, a record   *)
(* marked as closing has been released or is about to be, and no worker is *)
(* in the hands of two callers of close_session.                           *)
THEOREM CleanupOwned == Spec => []CleanupHasOneOwner
<1>1. TInv => CleanupHasOneOwner
  BY DEF TInv
<1> QED
  BY <1>1, TeardownInvariance, PTL

(* A pipeline's resources are not closed under a worker that has not been  *)
(* told to stop, whether the runner's own end, a client, a sweep or the    *)
(* shutdown closes it.                                                     *)
THEOREM ReleaseFollowsCancel == Spec => []ReleasedAfterCancel
<1>1. TInv => ReleasedAfterCancel
  BY DEF TInv
<1> QED
  BY <1>1, TeardownInvariance, PTL

(* No session is connectable on a server that has stopped, whatever was    *)
(* half done when the shutdown began.                                      *)
THEOREM NothingLiveOnceStopped == Spec => []StoppedHostHasNoLiveSession
<1>1. TInv => StoppedHostHasNoLiveSession
  BY DEF TInv, StopperSweepsAll, StoppedHostHasNoLiveSession
<1> QED
  BY <1>1, TeardownInvariance, PTL
=============================================================================
