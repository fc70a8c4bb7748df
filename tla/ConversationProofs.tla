-------------------------- MODULE ConversationProofs --------------------------
(***************************************************************************)
(* Theorems about Conversation for every set of utterances, every limit    *)
(* and every number of turns.                                              *)
(***************************************************************************)
EXTENDS Conversation, SequenceTheorems, FiniteSetTheorems, WellFoundedInduction, TLAPS

(* A frame is on its way only while nobody speaks, and a reply is written  *)
(* only when none is; a turn under way is within the bound.                *)
OneAtATime ==
    /\ talking => frame = "none" /\ turns < NumTurns
    /\ talking \/ frame # "none" => ~ reply.on

(* The response policy is in step with the reply: it counts what it lets   *)
(* pass, which is all of it until a limit is exceeded.                     *)
PolicyInStep ==
    /\ spoken.words > 0 => reply.on
    /\ reply.sentences <= reply.words
    /\ reply.on =>
          /\ policy.sentences = spoken.sentences /\ policy.words = spoken.words
          /\ IF policy.truncating
             THEN reply.sentences > MaxSentences \/ reply.words > MaxWords
             ELSE spoken.sentences = reply.sentences /\ spoken.words = reply.words

(* The summary comes first and a user turn after it; notes come behind     *)
(* some words and stand for no turn.                                       *)
WellFormed(ms) ==
    /\ \A i \in DOMAIN ms :
          /\ ms[i].role = "summary" => i = 1
          /\ ms[i].role = "user" => ms[i].about \in Said
          /\ ms[i].role \in NoteRoles => i # 1 /\ ms[i].turns = {} /\ Users(ms) # {}
    /\ ms # <<>> /\ ms[1].role = "summary" => Len(ms) > 1 /\ ms[2].role = "user"

(* The turns of the messages never decrease, and a message of the user is  *)
(* later than all before it.                                               *)
Ordered(ms) ==
    /\ \A i \in DOMAIN ms : ms[i].role = "user" => \E t : ms[i].turns = {t}
    /\ \A i, j \in DOMAIN ms : i < j =>
          \A a \in ms[i].turns, b \in ms[j].turns :
              a <= b /\ (ms[j].role = "user" => a < b)

Past(ms, n) == \A i \in DOMAIN ms : \A t \in ms[i].turns : t <= n

(* A turn that has been asked and not answered has only its own message.   *)
UnderWay == frame # "none" \/ reply.on
Unanswered(ms, n) == \A i \in DOMAIN ms : n \in ms[i].turns => ms[i].role = "user"

(* The last turns since the reset are in messages of the user or the       *)
(* summary.                                                                *)
Holds(ms, n) ==
    \E i \in DOMAIN ms : ms[i].role \in {"user", "summary"} /\ n \in ms[i].turns
Remembered ==
    \A n \in (resetAt + 1) .. turns :
        n > turns - (MaxTurns + SummaryTurns) => Holds(context, n)

(* From the compactor and from the grounding on.                           *)
Bounded(ms) ==
    \/ Cardinality(Users(ms)) <= MaxTurns
    \/ /\ Cardinality(Users(ms)) = MaxTurns + 1
       /\ \A i \in {1, 2} : i \in Users(ms)

Fitting(ms) ==
    ~ settings.badDocument =>
        OfRoles(ms, NoteRoles) =
            IF LastSaid(ms) = "nothing" THEN <<>> ELSE NotesAbout(LastSaid(ms))

(* What a frame finds in the context, wherever it is and whoever resets    *)
(* the conversation meanwhile.                                             *)
ContextInv ==
    /\ WellFormed(context)
    /\ Ordered(context)
    /\ Past(context, turns)
    /\ UnderWay => Unanswered(context, turns)
    /\ Remembered
    /\ ResetForgets
    /\ frame \in {"grounding", "bypass", "llm"} => Bounded(context)
    /\ frame \in {"bypass", "llm"} => Fitting(context)

(* The inductive invariant.                                                *)
IInv ==
    /\ TypeOK
    /\ OneAtATime
    /\ PolicyInStep
    /\ ReplyIsCapped
    /\ ContextInv

-----------------------------------------------------------------------------
(* Induction over the natural numbers, as the least of a set of them.      *)
LEMMA LeastOfNaturals ==
    ASSUME NEW T \in SUBSET Nat, T # {}
    PROVE  \E m \in T : \A n \in T : m <= n
<1> DEFINE R == OpToRel(<, Nat)
<1>1. IsWellFoundedOn(R, Nat)
    BY NatLessThanWellFounded
<1>2. \A x, y \in Nat : <<x, y>> \in R <=> x < y
    BY DEF OpToRel
<1> HIDE DEF R
<1>3. PICK m \in T : \A n \in T : ~ (<<n, m>> \in R)
    BY <1>1, WFMin
<1>4. ASSUME NEW n \in T PROVE m <= n
    <2>1. m \in Nat /\ n \in Nat /\ ~ (<<n, m>> \in R)
        BY <1>3
    <2>2. ~ (n < m)
        BY <1>2, <2>1
    <2> QED BY <2>1, <2>2
<1> QED BY <1>4

(* Induction over a set of numbers.                                        *)
LEMMA NaturalsInduct ==
    ASSUME NEW P, 0 \in P, \A n \in Nat : n \in P => n + 1 \in P
    PROVE  Nat \subseteq P
<1> DEFINE T == {n \in Nat : n \notin P}
<1>1. SUFFICES ASSUME T # {} PROVE FALSE
    OBVIOUS
<1>2. PICK m \in T : \A n \in T : m <= n
    <2>1. T \in SUBSET Nat
        OBVIOUS
    <2> HIDE DEF T
    <2> QED BY <1>1, <2>1, LeastOfNaturals
<1>3. m \in Nat /\ m # 0
    BY <1>2
<1>4. m - 1 \in Nat /\ m - 1 \notin T
    BY <1>2, <1>3
<1>5. m - 1 \in P
    BY <1>4
<1>6. (m - 1) + 1 \in P
    BY <1>4, <1>5
<1> QED BY <1>2, <1>3, <1>6

-----------------------------------------------------------------------------
(* OfRoles is well defined ...                                             *)
Upto(F, ms, R, n) ==
    F = [i \in 0 .. n |-> IF i = 0 THEN <<>>
                          ELSE IF ms[i].role \in R THEN Append(F[i - 1], ms[i])
                          ELSE F[i - 1]]

(* The computation of OfRoles exists up to every length.                   *)
LEMMA UptoExists ==
    ASSUME NEW ms, NEW R, NEW n \in Nat
    PROVE  \E F : Upto(F, ms, R, n)
<1> DEFINE P == {k \in Nat : \E F : Upto(F, ms, R, k)}
<1>1. 0 \in P
    <2>1. Upto([i \in 0 .. 0 |-> <<>>], ms, R, 0)
        BY DEF Upto
    <2> QED BY <2>1
<1>2. ASSUME NEW k \in Nat, k \in P PROVE k + 1 \in P
    <2>1. PICK G : Upto(G, ms, R, k)
        BY <1>2
    <2> DEFINE F == [i \in 0 .. k + 1 |->
                        IF i <= k THEN G[i]
                        ELSE IF ms[i].role \in R THEN Append(G[i - 1], ms[i])
                        ELSE G[i - 1]]
    <2>2. \A i \in 0 .. k :
              G[i] = IF i = 0 THEN <<>>
                     ELSE IF ms[i].role \in R THEN Append(G[i - 1], ms[i])
                     ELSE G[i - 1]
        BY <2>1 DEF Upto
    <2>3. \A i \in 0 .. k + 1 : i # 0 => F[i - 1] = G[i - 1]
        OBVIOUS
    <2>4. \A i \in 0 .. k + 1 :
              F[i] = IF i = 0 THEN <<>>
                     ELSE IF ms[i].role \in R THEN Append(F[i - 1], ms[i])
                     ELSE F[i - 1]
        BY <2>2, <2>3
    <2>5. F = [i \in 0 .. k + 1 |-> F[i]]
        OBVIOUS
    <2> HIDE DEF F
    <2>6. Upto(F, ms, R, k + 1)
        BY <2>4, <2>5 DEF Upto
    <2> QED BY <2>6
<1> HIDE DEF P
<1>3. Nat \subseteq P
    BY <1>1, <1>2, NaturalsInduct
<1> QED BY <1>3 DEF P

(* OfRoles is the last value of its computation.                           *)
LEMMA OfRolesDef ==
    ASSUME NEW D, NEW ms \in Seq(D), NEW R
    PROVE  \E F : Upto(F, ms, R, Len(ms)) /\ OfRoles(ms, R) = F[Len(ms)]
<1> DEFINE F == CHOOSE F :
                    F = [i \in 0 .. Len(ms) |->
                            IF i = 0 THEN <<>>
                            ELSE IF ms[i].role \in R THEN Append(F[i - 1], ms[i])
                            ELSE F[i - 1]]
<1>1. Len(ms) \in Nat
    OBVIOUS
<1>2. \E G : G = [i \in 0 .. Len(ms) |->
                      IF i = 0 THEN <<>>
                      ELSE IF ms[i].role \in R THEN Append(G[i - 1], ms[i])
                      ELSE G[i - 1]]
    <2>1. \E G : Upto(G, ms, R, Len(ms))
        BY <1>1, UptoExists
    <2> QED BY <2>1, Zenon DEF Upto
<1>3. F = [i \in 0 .. Len(ms) |->
              IF i = 0 THEN <<>>
              ELSE IF ms[i].role \in R THEN Append(F[i - 1], ms[i])
              ELSE F[i - 1]]
    BY <1>2, Zenon
<1>4. OfRoles(ms, R) = F[Len(ms)]
    BY Zenon DEF OfRoles
<1> HIDE DEF F
<1> QED BY <1>3, <1>4 DEF Upto

(* ... and f tells where each message of the result comes from: it takes   *)
(* all of the first n that have one of the roles, in their order.          *)
Embeds(f, out, ms, R, n) ==
    /\ f \in [1 .. Len(out) -> 1 .. n]
    /\ \A j, k \in 1 .. Len(out) : j < k => f[j] < f[k]
    /\ \A j \in 1 .. Len(out) : ms[f[j]].role \in R /\ out[j] = ms[f[j]]
    /\ \A i \in 1 .. n : ms[i].role \in R => \E j \in 1 .. Len(out) : f[j] = i

(* An embedding grows with the list: by the next message if its role is    *)
(* one of R.                                                               *)
LEMMA EmbedsNext ==
    ASSUME NEW D, NEW ms \in Seq(D), NEW R, NEW out \in Seq(D), NEW f,
           NEW n \in Nat, n + 1 <= Len(ms), Embeds(f, out, ms, R, n)
    PROVE  /\ ms[n + 1].role \notin R => Embeds(f, out, ms, R, n + 1)
           /\ ms[n + 1].role \in R =>
                  \E g : Embeds(g, Append(out, ms[n + 1]), ms, R, n + 1)
<1>1. f \in [1 .. Len(out) -> 1 .. n] /\ Len(out) \in Nat /\ ms[n + 1] \in D
    BY DEF Embeds
<1>2. ASSUME ms[n + 1].role \notin R PROVE Embeds(f, out, ms, R, n + 1)
    <2>1. f \in [1 .. Len(out) -> 1 .. n + 1]
        BY <1>1
    <2>2. \A i \in 1 .. n + 1 : ms[i].role \in R => i \in 1 .. n
        BY <1>2
    <2> QED BY <2>1, <2>2 DEF Embeds
<1>3. ASSUME ms[n + 1].role \in R
      PROVE  \E g : Embeds(g, Append(out, ms[n + 1]), ms, R, n + 1)
    <2> DEFINE L == Len(out) + 1
               res == Append(out, ms[n + 1])
               g == [j \in 1 .. L |-> IF j = L THEN n + 1 ELSE f[j]]
    <2>1. /\ Len(res) = L /\ res[L] = ms[n + 1]
          /\ \A j \in 1 .. Len(out) : res[j] = out[j]
        BY <1>1
    <2>2. \A j \in 1 .. Len(out) : j \in 1 .. L /\ j # L /\ g[j] = f[j] /\ f[j] \in 1 .. n
        BY <1>1
    <2>3. L \in 1 .. L /\ g[L] = n + 1 /\ \A j \in 1 .. L : j = L \/ j \in 1 .. Len(out)
        BY <1>1
    <2>4. g = [j \in 1 .. L |-> g[j]]
        OBVIOUS
    <2> HIDE DEF L, res, g
    <2>5. 1 .. n \subseteq 1 .. n + 1 /\ n + 1 \in 1 .. n + 1
        OBVIOUS
    <2>6. \A j \in 1 .. L : g[j] \in 1 .. n + 1
        BY <2>2, <2>3, <2>5
    <2>7. g \in [1 .. L -> 1 .. n + 1]
        BY <2>6, <2>4
    <2>8. \A j, k \in 1 .. L : j < k => g[j] < g[k]
        <3> SUFFICES ASSUME NEW j \in 1 .. L, NEW k \in 1 .. L, j < k PROVE g[j] < g[k]
            OBVIOUS
        <3>1. j \in 1 .. Len(out)
            BY <1>1, <2>3 DEF L
        <3>2. CASE k = L
            BY <2>2, <2>3, <3>1, <3>2
        <3>3. CASE k \in 1 .. Len(out)
            BY <2>2, <3>1, <3>3 DEF Embeds
        <3> QED BY <2>3, <3>2, <3>3
    <2>9. \A j \in 1 .. L : ms[g[j]].role \in R /\ res[j] = ms[g[j]]
        BY <1>3, <2>1, <2>2, <2>3 DEF Embeds
    <2>10. \A i \in 1 .. n + 1 : ms[i].role \in R => \E j \in 1 .. L : g[j] = i
        <3> SUFFICES ASSUME NEW i \in 1 .. n + 1, ms[i].role \in R
                     PROVE  \E j \in 1 .. L : g[j] = i
            OBVIOUS
        <3>1. CASE i = n + 1
            BY <2>3, <3>1
        <3>2. CASE i \in 1 .. n
            <4>1. PICK j \in 1 .. Len(out) : f[j] = i
                BY <3>2 DEF Embeds
            <4> QED BY <2>2, <4>1
        <3> QED BY <3>1, <3>2
    <2>11. Embeds(g, res, ms, R, n + 1)
        BY <2>1, <2>7, <2>8, <2>9, <2>10 DEF Embeds
    <2> QED BY <2>11 DEF res
<1> QED BY <1>2, <1>3

(* What OfRoles keeps is embedded in the list, in its order.               *)
LEMMA OfRolesEmbeds ==
    ASSUME NEW D, NEW ms \in Seq(D), NEW R
    PROVE  /\ OfRoles(ms, R) \in Seq(D)
           /\ \E f : Embeds(f, OfRoles(ms, R), ms, R, Len(ms))
<1>1. PICK F : Upto(F, ms, R, Len(ms)) /\ OfRoles(ms, R) = F[Len(ms)]
    BY OfRolesDef
<1>2. \A i \in 0 .. Len(ms) :
          F[i] = IF i = 0 THEN <<>>
                 ELSE IF ms[i].role \in R THEN Append(F[i - 1], ms[i])
                 ELSE F[i - 1]
    BY <1>1 DEF Upto
<1> DEFINE P == {n \in Nat : n <= Len(ms) =>
                    F[n] \in Seq(D) /\ \E f : Embeds(f, F[n], ms, R, n)}
<1>3. 0 \in P
    <2>1. F[0] = <<>> /\ Len(<<>>) = 0 /\ <<>> \in Seq(D)
        BY <1>2, EmptySeq
    <2>2. Embeds([j \in 1 .. 0 |-> 0], <<>>, ms, R, 0)
        BY <2>1 DEF Embeds
    <2> QED BY <2>1, <2>2
<1>4. ASSUME NEW n \in Nat, n \in P PROVE n + 1 \in P
    <2> SUFFICES ASSUME n + 1 <= Len(ms)
                 PROVE  F[n + 1] \in Seq(D) /\ \E f : Embeds(f, F[n + 1], ms, R, n + 1)
        OBVIOUS
    <2>1. n <= Len(ms) /\ n + 1 \in 0 .. Len(ms) /\ n + 1 # 0 /\ (n + 1) - 1 = n
          /\ ms[n + 1] \in D
        OBVIOUS
    <2>2. F[n] \in Seq(D) /\ \E f : Embeds(f, F[n], ms, R, n)
        BY <1>4, <2>1
    <2>3. F[n + 1] = IF ms[n + 1].role \in R THEN Append(F[n], ms[n + 1]) ELSE F[n]
        BY <1>2, <2>1
    <2>4. F[n + 1] \in Seq(D)
        BY <2>1, <2>2, <2>3
    <2>5. PICK f : Embeds(f, F[n], ms, R, n)
        BY <2>2
    <2>6. \E g : Embeds(g, F[n + 1], ms, R, n + 1)
        <3>1. CASE ms[n + 1].role \in R
            BY <2>2, <2>3, <2>5, <3>1, EmbedsNext
        <3>2. CASE ms[n + 1].role \notin R
            BY <2>2, <2>3, <2>5, <3>2, EmbedsNext
        <3> QED BY <3>1, <3>2
    <2> QED BY <2>4, <2>6
<1> HIDE DEF P
<1>5. Len(ms) \in P
    <2>1. Nat \subseteq P
        BY <1>3, <1>4, NaturalsInduct
    <2> QED BY <2>1
<1> QED BY <1>1, <1>5 DEF P

-----------------------------------------------------------------------------
(* Counting.                                                               *)
LEMMA SameCount ==
    ASSUME NEW S, IsFiniteSet(S), NEW T, NEW f \in [S -> T],
           \A x, y \in S : f[x] = f[y] => x = y,
           \A z \in T : \E x \in S : f[x] = z
    PROVE  IsFiniteSet(T) /\ Cardinality(T) = Cardinality(S)
<1>1. f \in Bijection(S, T)
    BY DEF Bijection, Injection, Surjection, IsInjective
<1>2. ExistsBijection(S, T)
    BY <1>1 DEF ExistsBijection
<1> QED BY <1>2, FS_Bijection

(* The user messages of a list can be counted.                             *)
LEMMA UsersFinite ==
    ASSUME NEW D, NEW ms \in Seq(D)
    PROVE  /\ IsFiniteSet(Users(ms)) /\ Cardinality(Users(ms)) \in Nat
           /\ Users(ms) \subseteq 1 .. Len(ms)
<1>1. DOMAIN ms = 1 .. Len(ms) /\ Len(ms) \in Nat
    OBVIOUS
<1>2. Users(ms) \subseteq 1 .. Len(ms)
    BY <1>1 DEF Users
<1>3. IsFiniteSet(1 .. Len(ms))
    BY <1>1, FS_Interval
<1>4. IsFiniteSet(Users(ms))
    BY <1>2, <1>3, FS_Subset
<1> QED BY <1>2, <1>4, FS_CardinalityType

(* The greatest of some places in a sequence.                              *)
LEMMA GreatestPlace ==
    ASSUME NEW n \in Nat, NEW T \in SUBSET (1 .. n), T # {}
    PROVE  \E m \in T : \A k \in T : k <= m
<1> DEFINE B == {b \in Nat : \A k \in T : k <= b}
<1>1. n \in B
    OBVIOUS
<1>2. PICK m \in B : \A b \in B : m <= b
    <2>1. B \in SUBSET Nat /\ B # {}
        BY <1>1
    <2> HIDE DEF B
    <2> QED BY <2>1, LeastOfNaturals
<1>3. m \in Nat /\ \A k \in T : k <= m
    BY <1>2
<1>4. m \in T
    <2> SUFFICES ASSUME m \notin T PROVE FALSE
        OBVIOUS
    <2>1. \A k \in T : k \in Nat /\ k # 0 /\ k <= m /\ k # m
        BY <1>3
    <2>2. PICK k \in T : TRUE
        OBVIOUS
    <2>3. m # 0
        BY <1>3, <2>1, <2>2
    <2>4. m - 1 \in B
        BY <1>3, <2>1, <2>3
    <2> QED BY <1>2, <1>3, <2>4
<1> QED BY <1>3, <1>4

-----------------------------------------------------------------------------
(* What OfRoles keeps.                                                     *)
LEMMA OfRolesElements ==
    ASSUME NEW D, NEW ms \in Seq(D), NEW R
    PROVE  /\ OfRoles(ms, R) \in Seq(D)
           /\ \A j \in DOMAIN OfRoles(ms, R) :
                  \E i \in DOMAIN ms : OfRoles(ms, R)[j] = ms[i] /\ ms[i].role \in R
           /\ \A j \in DOMAIN OfRoles(ms, R) : j # 1 =>
                  \E i \in DOMAIN ms : OfRoles(ms, R)[j] = ms[i] /\ i # 1
           /\ \A i \in DOMAIN ms : ms[i].role \in R =>
                  \E j \in DOMAIN OfRoles(ms, R) : OfRoles(ms, R)[j] = ms[i]
           /\ \A i, k \in DOMAIN OfRoles(ms, R) : i < k =>
                  \E a, b \in DOMAIN ms : /\ a < b /\ OfRoles(ms, R)[i] = ms[a]
                                         /\ OfRoles(ms, R)[k] = ms[b]
<1> DEFINE out == OfRoles(ms, R)
<1>1. out \in Seq(D)
    BY OfRolesEmbeds
<1>2. PICK f : Embeds(f, out, ms, R, Len(ms))
    BY OfRolesEmbeds
<1> HIDE DEF out
<1>3. DOMAIN out = 1 .. Len(out) /\ DOMAIN ms = 1 .. Len(ms)
    BY <1>1
<1>4. \A j \in DOMAIN out : f[j] \in DOMAIN ms /\ out[j] = ms[f[j]] /\ ms[f[j]].role \in R
    BY <1>2, <1>3 DEF Embeds
<1>5. \A i \in DOMAIN ms : ms[i].role \in R => \E j \in DOMAIN out : out[j] = ms[i]
    BY <1>2, <1>3 DEF Embeds
<1>6. ASSUME NEW j \in DOMAIN out, j # 1 PROVE f[j] # 1
    <2>1. 1 \in 1 .. Len(out) /\ j \in 1 .. Len(out) /\ 1 < j
        BY <1>1, <1>3, <1>6
    <2>2. f[1] < f[j] /\ f[1] \in 1 .. Len(ms) /\ f[j] \in 1 .. Len(ms)
        BY <1>2, <2>1 DEF Embeds
    <2> QED BY <2>2
<1>7. \A i, k \in DOMAIN out : i < k =>
          \E a, b \in DOMAIN ms : a < b /\ out[i] = ms[a] /\ out[k] = ms[b]
    <2>1. \A i, k \in DOMAIN out : i < k => f[i] < f[k]
        BY <1>2, <1>3 DEF Embeds
    <2> QED BY <1>4, <2>1
<1> QED BY <1>1, <1>4, <1>5, <1>6, <1>7 DEF out

(* Nothing is kept of a list without the roles.                            *)
LEMMA OfRolesNone ==
    ASSUME NEW D, NEW ms \in Seq(D), NEW R, \A i \in DOMAIN ms : ms[i].role \notin R
    PROVE  OfRoles(ms, R) = <<>>
<1> DEFINE out == OfRoles(ms, R)
<1>1. out \in Seq(D) /\ \A j \in DOMAIN out : FALSE
    BY OfRolesElements
<1> HIDE DEF out
<1>2. DOMAIN out = 1 .. Len(out) /\ Len(out) \in Nat
    BY <1>1
<1>3. Len(out) = 0
    BY <1>1, <1>2
<1>4. out = <<>>
    BY <1>1, <1>3, EmptySeq
<1> QED BY <1>4 DEF out

(* The first two messages stay in front when their roles are kept.         *)
LEMMA OfRolesPrefix ==
    ASSUME NEW D, NEW ms \in Seq(D), NEW R, ms # <<>>, ms[1].role \in R
    PROVE  /\ OfRoles(ms, R) # <<>> /\ OfRoles(ms, R)[1] = ms[1]
           /\ Len(ms) > 1 /\ ms[2].role \in R =>
                  Len(OfRoles(ms, R)) > 1 /\ OfRoles(ms, R)[2] = ms[2]
<1> DEFINE out == OfRoles(ms, R)
<1>1. out \in Seq(D)
    BY OfRolesEmbeds
<1>2. PICK f : Embeds(f, out, ms, R, Len(ms))
    BY OfRolesEmbeds
<1> HIDE DEF out
<1>3. Len(ms) \in Nat /\ Len(ms) > 0 /\ Len(out) \in Nat
    BY <1>1
<1>4. /\ \A j \in 1 .. Len(out) : f[j] \in 1 .. Len(ms) /\ out[j] = ms[f[j]]
      /\ \A j, k \in 1 .. Len(out) : j < k => f[j] < f[k]
      /\ \A i \in 1 .. Len(ms) : ms[i].role \in R => \E j \in 1 .. Len(out) : f[j] = i
    BY <1>2 DEF Embeds
<1>5. PICK j \in 1 .. Len(out) : f[j] = 1
    BY <1>3, <1>4
<1>6. 1 \in 1 .. Len(out)
    BY <1>3
<1>7. f[1] = 1
    <2>1. j > 1 => f[1] < 1 /\ f[1] \in 1 .. Len(ms)
        BY <1>4, <1>5, <1>6
    <2>2. ~ (j > 1)
        BY <2>1
    <2> QED BY <1>5, <2>2
<1>8. ASSUME Len(ms) > 1, ms[2].role \in R PROVE Len(out) > 1 /\ f[2] = 2
    <2>1. PICK k \in 1 .. Len(out) : f[k] = 2
        BY <1>3, <1>4, <1>8
    <2>2. k > 1
        BY <1>7, <2>1
    <2>3. 2 \in 1 .. Len(out) /\ Len(out) > 1
        BY <1>3, <2>1, <2>2
    <2>4. f[2] \in 1 .. Len(ms) /\ f[1] < f[2]
        BY <1>4, <1>6, <2>3
    <2>5. k > 2 => f[2] < 2
        BY <1>4, <2>1, <2>3
    <2> QED BY <1>7, <2>1, <2>2, <2>3, <2>4, <2>5
<1>9. out # <<>>
    BY <1>1, <1>6
<1>10. out[1] = ms[1]
    BY <1>4, <1>6, <1>7
<1>11. Len(ms) > 1 /\ ms[2].role \in R => Len(out) > 1 /\ out[2] = ms[2]
    BY <1>3, <1>4, <1>8
<1> QED BY <1>9, <1>10, <1>11 DEF out

(* Messages of the user are kept, and no other becomes one: they are as    *)
(* many.                                                                   *)
LEMMA OfRolesUsers ==
    ASSUME NEW D, NEW ms \in Seq(D), NEW R, "user" \in R
    PROVE  Cardinality(Users(OfRoles(ms, R))) = Cardinality(Users(ms))
<1> DEFINE out == OfRoles(ms, R)
<1>1. out \in Seq(D)
    BY OfRolesEmbeds
<1>2. PICK f : Embeds(f, out, ms, R, Len(ms))
    BY OfRolesEmbeds
<1> HIDE DEF out
<1>3. DOMAIN out = 1 .. Len(out) /\ DOMAIN ms = 1 .. Len(ms) /\ Len(out) \in Nat
    BY <1>1
<1>4. /\ \A j \in 1 .. Len(out) : f[j] \in 1 .. Len(ms) /\ out[j] = ms[f[j]]
      /\ \A j, k \in 1 .. Len(out) : j < k => f[j] < f[k]
      /\ \A i \in 1 .. Len(ms) : ms[i].role \in R => \E j \in 1 .. Len(out) : f[j] = i
    BY <1>2 DEF Embeds
<1> DEFINE g == [j \in Users(out) |-> f[j]]
<1>5. \A j \in Users(out) : g[j] \in Users(ms)
    BY <1>3, <1>4 DEF Users
<1>6. g \in [Users(out) -> Users(ms)]
    BY <1>5
<1>7. \A x, y \in Users(out) : g[x] = g[y] => x = y
    <2> SUFFICES ASSUME NEW x \in Users(out), NEW y \in Users(out), f[x] = f[y], x # y
                 PROVE  FALSE
        OBVIOUS
    <2>1. x \in 1 .. Len(out) /\ y \in 1 .. Len(out)
        BY <1>3 DEF Users
    <2>2. x < y \/ y < x
        BY <2>1
    <2>3. f[x] < f[y] \/ f[y] < f[x]
        BY <1>4, <2>1, <2>2
    <2>4. f[x] \in 1 .. Len(ms)
        BY <1>4, <2>1
    <2> QED BY <2>3, <2>4
<1>8. \A z \in Users(ms) : \E x \in Users(out) : g[x] = z
    <2> SUFFICES ASSUME NEW z \in Users(ms) PROVE \E x \in Users(out) : f[x] = z
        OBVIOUS
    <2>1. z \in 1 .. Len(ms) /\ ms[z].role \in R
        BY <1>3 DEF Users
    <2>2. PICK x \in 1 .. Len(out) : f[x] = z
        BY <1>4, <2>1
    <2> QED BY <1>3, <1>4, <2>2 DEF Users
<1>9. IsFiniteSet(Users(out))
    BY <1>1, UsersFinite
<1> HIDE DEF g
<1>10. Cardinality(Users(ms)) = Cardinality(Users(out))
    BY <1>6, <1>7, <1>8, <1>9, SameCount
<1> QED BY <1>10 DEF out

-----------------------------------------------------------------------------
(* The last thing said, through the operations on the context.             *)
LEMMA LastSaidCases ==
    ASSUME NEW D, NEW ms \in Seq(D)
    PROVE  /\ Users(ms) = {} => LastSaid(ms) = "nothing"
           /\ \A i \in Users(ms) :
                  (\A j \in Users(ms) : j <= i) => LastSaid(ms) = ms[i].about
<1>1. DOMAIN ms = 1 .. Len(ms) /\ Len(ms) \in Nat
    OBVIOUS
<1>2. {i \in 1 .. Len(ms) : ms[i].role = "user"} = Users(ms)
    BY <1>1 DEF Users
<1>3. SelectLastInSeq(ms, LAMBDA m : m.role = "user") =
          IF Users(ms) # {} THEN Max(Users(ms)) ELSE 0
    BY <1>2 DEF SelectLastInSeq
<1>4. Users(ms) = {} => LastSaid(ms) = "nothing"
    BY <1>3 DEF LastSaid
<1>5. ASSUME NEW i \in Users(ms), \A j \in Users(ms) : j <= i
      PROVE  LastSaid(ms) = ms[i].about
    <2>1. Users(ms) \subseteq Nat /\ i \in Nat /\ i # 0
        BY <1>1 DEF Users
    <2>2. Max(Users(ms)) \in Users(ms) /\ \A j \in Users(ms) : Max(Users(ms)) >= j
        <3>1. \E x \in Users(ms) : \A y \in Users(ms) : x >= y
            BY <1>5, <2>1
        <3> QED BY <3>1, Zenon DEF Max
    <2>3. Max(Users(ms)) = i
        BY <1>5, <2>1, <2>2
    <2>4. SelectLastInSeq(ms, LAMBDA m : m.role = "user") = i
        BY <1>3, <1>5, <2>3
    <2> QED BY <2>1, <2>4 DEF LastSaid
<1> QED BY <1>4, <1>5

(* Whenever the user's words can be matched in order, the last ones are    *)
(* the same.                                                               *)
LEMMA LastSaidMatched ==
    ASSUME NEW D, NEW ms \in Seq(D), NEW out \in Seq(D), NEW f,
           \A j \in Users(out) : f[j] \in Users(ms) /\ out[j] = ms[f[j]],
           \A j, k \in Users(out) : j < k => f[j] < f[k],
           \A i \in Users(ms) : \E j \in Users(out) : f[j] = i
    PROVE  LastSaid(out) = LastSaid(ms)
<1>1. CASE Users(out) = {}
    <2>1. Users(ms) = {}
        BY <1>1
    <2> QED BY <1>1, <2>1, LastSaidCases
<1>2. CASE Users(out) # {}
    <2>1. Users(out) \subseteq 1 .. Len(out) /\ Len(out) \in Nat
          /\ Users(ms) \subseteq 1 .. Len(ms)
        BY UsersFinite
    <2>2. PICK m \in Users(out) : \A k \in Users(out) : k <= m
        BY <1>2, <2>1, GreatestPlace
    <2>3. LastSaid(out) = out[m].about
        BY <2>2, LastSaidCases
    <2>4. ASSUME NEW i \in Users(ms) PROVE i <= f[m]
        <3>1. PICK j \in Users(out) : f[j] = i
            OBVIOUS
        <3>2. j = m \/ j < m
            BY <2>1, <2>2
        <3>3. f[m] \in 1 .. Len(ms) /\ i \in 1 .. Len(ms)
            BY <2>1
        <3> QED BY <3>1, <3>2, <3>3
    <2>5. LastSaid(ms) = ms[f[m]].about
        BY <2>4, LastSaidCases
    <2> QED BY <2>3, <2>5
<1> QED BY <1>1, <1>2

(* The last words of the user are those of the whole list.                 *)
LEMMA OfRolesLastSaid ==
    ASSUME NEW D, NEW ms \in Seq(D), NEW R, "user" \in R
    PROVE  LastSaid(OfRoles(ms, R)) = LastSaid(ms)
<1> DEFINE out == OfRoles(ms, R)
<1>1. out \in Seq(D)
    BY OfRolesEmbeds
<1>2. PICK f : Embeds(f, out, ms, R, Len(ms))
    BY OfRolesEmbeds
<1> HIDE DEF out
<1>3. DOMAIN out = 1 .. Len(out) /\ DOMAIN ms = 1 .. Len(ms)
    BY <1>1
<1>4. \A j \in Users(out) : f[j] \in Users(ms) /\ out[j] = ms[f[j]]
    BY <1>2, <1>3 DEF Embeds, Users
<1>5. \A j, k \in Users(out) : j < k => f[j] < f[k]
    BY <1>2, <1>3 DEF Embeds, Users
<1>6. \A i \in Users(ms) : \E j \in Users(out) : f[j] = i
    BY <1>2, <1>3 DEF Embeds, Users
<1>7. LastSaid(out) = LastSaid(ms)
    BY <1>1, <1>4, <1>5, <1>6, LastSaidMatched
<1> QED BY <1>7 DEF out

(* Behind a sequence without any user turn the last words are those before.*)
LEMMA LastSaidBefore ==
    ASSUME NEW D, NEW ms \in Seq(D), NEW tail \in Seq(D),
           \A j \in DOMAIN tail : tail[j].role # "user"
    PROVE  LastSaid(ms \o tail) = LastSaid(ms) /\ Users(ms \o tail) = Users(ms)
<1> DEFINE out == ms \o tail
<1>1. /\ out \in Seq(D) /\ Len(out) = Len(ms) + Len(tail)
      /\ \A i \in 1 .. Len(ms) + Len(tail) :
             out[i] = IF i <= Len(ms) THEN ms[i] ELSE tail[i - Len(ms)]
    BY ConcatProperties
<1> HIDE DEF out
<1>2. /\ DOMAIN out = 1 .. Len(out) /\ DOMAIN ms = 1 .. Len(ms)
      /\ DOMAIN tail = 1 .. Len(tail) /\ Len(ms) \in Nat /\ Len(tail) \in Nat
    BY <1>1
<1>3. ASSUME NEW i \in 1 .. Len(out)
      PROVE  out[i].role = "user" <=> i \in 1 .. Len(ms) /\ ms[i].role = "user"
    <2>1. CASE i <= Len(ms)
        BY <1>1, <1>2, <2>1
    <2>2. CASE ~ (i <= Len(ms))
        <3>1. i - Len(ms) \in DOMAIN tail /\ out[i] = tail[i - Len(ms)]
            BY <1>1, <1>2, <2>2
        <3> QED BY <1>2, <2>2, <3>1
    <2> QED BY <2>1, <2>2
<1>4. 1 .. Len(ms) \subseteq 1 .. Len(out)
    BY <1>1, <1>2
<1>5. Users(out) = Users(ms)
    BY <1>2, <1>3, <1>4 DEF Users
<1>6. \A j \in Users(ms) : out[j] = ms[j]
    BY <1>1, <1>2 DEF Users
<1> DEFINE f == [j \in Users(ms) |-> j]
<1>7. \A j \in Users(out) : f[j] \in Users(ms) /\ out[j] = ms[f[j]]
    BY <1>5, <1>6
<1>8. \A j, k \in Users(out) : j < k => f[j] < f[k]
    BY <1>5
<1>9. \A i \in Users(ms) : \E j \in Users(out) : f[j] = i
    BY <1>5
<1>10. out \in Seq(D)
    BY <1>1
<1> HIDE DEF f
<1>11. LastSaid(out) = LastSaid(ms)
    BY <1>7, <1>8, <1>9, <1>10, LastSaidMatched
<1> QED BY <1>5, <1>11 DEF out

(* Of two parts the first of which has none of the roles, and the second   *)
(* nothing else, OfRoles keeps the second.                                 *)
LEMMA OfRolesTail ==
    ASSUME NEW D, NEW ms \in Seq(D), NEW tail \in Seq(D), NEW R,
           \A i \in DOMAIN ms : ms[i].role \notin R,
           \A i \in DOMAIN tail : tail[i].role \in R
    PROVE  OfRoles(ms \o tail, R) = tail
<1> DEFINE all == ms \o tail
           out == OfRoles(all, R)
<1>1. /\ all \in Seq(D) /\ Len(all) = Len(ms) + Len(tail)
      /\ \A i \in 1 .. Len(ms) + Len(tail) :
             all[i] = IF i <= Len(ms) THEN ms[i] ELSE tail[i - Len(ms)]
    BY ConcatProperties
<1> HIDE DEF all
<1>2. out \in Seq(D)
    BY <1>1, OfRolesEmbeds
<1>3. PICK f : Embeds(f, out, all, R, Len(all))
    BY <1>1, OfRolesEmbeds
<1> HIDE DEF out
<1>4. /\ DOMAIN ms = 1 .. Len(ms) /\ DOMAIN tail = 1 .. Len(tail)
      /\ Len(ms) \in Nat /\ Len(tail) \in Nat /\ Len(out) \in Nat
    BY <1>2
<1>5. /\ \A j \in 1 .. Len(out) : f[j] \in 1 .. Len(ms) + Len(tail)
                                  /\ out[j] = all[f[j]] /\ all[f[j]].role \in R
      /\ \A j, k \in 1 .. Len(out) : j < k => f[j] < f[k]
      /\ \A i \in 1 .. Len(ms) + Len(tail) :
             all[i].role \in R => \E j \in 1 .. Len(out) : f[j] = i
    BY <1>1, <1>3 DEF Embeds
<1>6. \A i \in 1 .. Len(tail) :
          /\ Len(ms) + i \in 1 .. Len(ms) + Len(tail)
          /\ all[Len(ms) + i] = tail[i] /\ tail[i].role \in R
    <2> SUFFICES ASSUME NEW i \in 1 .. Len(tail)
                 PROVE  /\ Len(ms) + i \in 1 .. Len(ms) + Len(tail)
                        /\ all[Len(ms) + i] = tail[i] /\ tail[i].role \in R
        OBVIOUS
    <2>1. /\ Len(ms) + i \in 1 .. Len(ms) + Len(tail) /\ ~ (Len(ms) + i <= Len(ms))
          /\ (Len(ms) + i) - Len(ms) = i
        BY <1>4
    <2> QED BY <1>1, <1>4, <2>1
<1>7. \A i \in 1 .. Len(tail) : \E j \in 1 .. Len(out) : f[j] = Len(ms) + i
    BY <1>5, <1>6
<1>8. \A j \in 1 .. Len(out) : f[j] > Len(ms)
    <2> SUFFICES ASSUME NEW j \in 1 .. Len(out), f[j] <= Len(ms) PROVE FALSE
        BY <1>4, <1>5
    <2>1. f[j] \in 1 .. Len(ms) /\ all[f[j]] = ms[f[j]]
        BY <1>1, <1>4, <1>5
    <2> QED BY <1>4, <1>5, <2>1
<1>9. \A j \in 1 .. Len(out) : f[j] = Len(ms) + j
    <2> DEFINE T == {j \in 1 .. Len(out) : f[j] # Len(ms) + j}
    <2>1. SUFFICES ASSUME T # {} PROVE FALSE
        OBVIOUS
    <2>2. PICK m \in T : \A k \in T : m <= k
        <3>1. T \in SUBSET Nat
            BY <1>4
        <3> HIDE DEF T
        <3> QED BY <2>1, <3>1, LeastOfNaturals
    <2>3. m \in 1 .. Len(out) /\ f[m] # Len(ms) + m /\ f[m] \in Nat
        BY <1>4, <1>5, <2>2
    <2>4. \A k \in 1 .. Len(out) : k < m => f[k] = Len(ms) + k
        BY <1>4, <2>2, <2>3
    <2>5. f[m] > Len(ms) + m
        <3>1. CASE m = 1
            BY <1>4, <1>8, <2>3, <3>1
        <3>2. CASE m # 1
            <4>1. m - 1 \in 1 .. Len(out) /\ m - 1 < m
                BY <1>4, <2>3, <3>2
            <4>2. f[m - 1] = Len(ms) + (m - 1) /\ f[m - 1] < f[m]
                BY <1>5, <2>3, <2>4, <4>1
            <4> QED BY <1>4, <2>3, <4>2
        <3> QED BY <3>1, <3>2
    <2>6. m \in 1 .. Len(tail)
        BY <1>4, <1>5, <2>3, <2>5
    <2>7. PICK k \in 1 .. Len(out) : f[k] = Len(ms) + m
        BY <1>7, <2>6
    <2>8. k < m \/ k = m \/ m < k
        BY <1>4, <2>3
    <2>9. m < k => f[m] < f[k]
        BY <1>5, <2>3
    <2> QED BY <1>4, <2>3, <2>4, <2>5, <2>7, <2>8, <2>9
<1>10. Len(out) = Len(tail)
    <2>1. Len(out) <= Len(tail)
        <3> SUFFICES ASSUME Len(out) > Len(tail) PROVE FALSE
            BY <1>4
        <3>1. Len(out) \in 1 .. Len(out)
            BY <1>4
        <3>2. f[Len(out)] = Len(ms) + Len(out) /\ f[Len(out)] <= Len(ms) + Len(tail)
            BY <1>4, <1>5, <1>9, <3>1
        <3> QED BY <1>4, <3>2
    <2>2. Len(tail) <= Len(out)
        <3> SUFFICES ASSUME Len(tail) > Len(out) PROVE FALSE
            BY <1>4
        <3>1. Len(tail) \in 1 .. Len(tail)
            BY <1>4
        <3>2. PICK j \in 1 .. Len(out) : f[j] = Len(ms) + Len(tail)
            BY <1>7, <3>1
        <3> QED BY <1>4, <1>9, <3>2
    <2> QED BY <1>4, <2>1, <2>2
<1>11. \A i \in 1 .. Len(out) : out[i] = tail[i]
    BY <1>5, <1>6, <1>9, <1>10
<1>12. out = tail
    BY <1>2, <1>10, <1>11, SeqEqual
<1> QED BY <1>12 DEF out, all

-----------------------------------------------------------------------------
(* The order of the turns.                                                 *)

(* Of any two turns in two messages of out there are two messages of ms in *)
(* the same order that they come from.                                     *)
Descends(out, ms) ==
    \A i, k \in DOMAIN out : i < k =>
        \A n \in out[i].turns, p \in out[k].turns :
            \E a, b \in DOMAIN ms :
                /\ a < b /\ n \in ms[a].turns /\ p \in ms[b].turns
                /\ out[k].role = "user" => ms[b].role = "user"

(* The order of the turns is inherited ...                                 *)
LEMMA OrderKept ==
    ASSUME NEW ms, NEW out, Ordered(ms), Descends(out, ms),
           \A i \in DOMAIN out : out[i].role = "user" => \E j \in DOMAIN ms : out[i] = ms[j]
    PROVE  Ordered(out)
<1>1. ASSUME NEW i \in DOMAIN out, out[i].role = "user" PROVE \E t : out[i].turns = {t}
    BY <1>1 DEF Ordered
<1>2. ASSUME NEW i \in DOMAIN out, NEW k \in DOMAIN out, i < k,
             NEW n \in out[i].turns, NEW p \in out[k].turns
      PROVE  n <= p /\ (out[k].role = "user" => n < p)
    <2>1. PICK a \in DOMAIN ms : \E b \in DOMAIN ms :
              /\ a < b /\ n \in ms[a].turns /\ p \in ms[b].turns
              /\ out[k].role = "user" => ms[b].role = "user"
        BY <1>2 DEF Descends
    <2> QED BY <2>1 DEF Ordered
<1> QED BY <1>1, <1>2 DEF Ordered

(* ... and so is that a turn is in one message only.                       *)
LEMMA OnceKept ==
    ASSUME NEW ms \in Seq(Messages), NEW out \in Seq(Messages), NEW r, Descends(out, ms),
           \A i, j \in DOMAIN ms : r \in ms[i].turns /\ r \in ms[j].turns => i = j
    PROVE  \A i, j \in DOMAIN out : r \in out[i].turns /\ r \in out[j].turns => i = j
<1>1. ASSUME NEW i \in DOMAIN out, NEW k \in DOMAIN out, i < k,
             r \in out[i].turns, r \in out[k].turns
      PROVE  FALSE
    <2>1. PICK a \in DOMAIN ms : \E b \in DOMAIN ms :
              a < b /\ r \in ms[a].turns /\ r \in ms[b].turns
        BY <1>1 DEF Descends
    <2>2. PICK b \in DOMAIN ms : a < b /\ r \in ms[a].turns /\ r \in ms[b].turns
        BY <2>1
    <2>3. a \in Nat /\ b \in Nat
        OBVIOUS
    <2> QED BY <2>2, <2>3
<1>2. \A i, j \in DOMAIN out : i \in Nat /\ j \in Nat
    OBVIOUS
<1> QED BY <1>1, <1>2

-----------------------------------------------------------------------------
(* What a visitor said is of the kinds there are.                          *)
LEMMA LastSaidKnown ==
    ASSUME NEW D, NEW ms \in Seq(D), WellFormed(ms), LastSaid(ms) # "nothing"
    PROVE  LastSaid(ms) \in Said /\ Users(ms) # {}
<1>1. Users(ms) # {}
    BY LastSaidCases
<1>2. Users(ms) \subseteq 1 .. Len(ms) /\ Len(ms) \in Nat
    BY UsersFinite
<1>3. PICK m \in Users(ms) : \A k \in Users(ms) : k <= m
    BY <1>1, <1>2, GreatestPlace
<1>4. LastSaid(ms) = ms[m].about
    BY <1>3, LastSaidCases
<1> QED BY <1>1, <1>3, <1>4 DEF WellFormed, Users

(* The notes of a turn are messages of the two kinds of notes.             *)
LEMMA NotesAboutType ==
    ASSUME NEW u \in Said
    PROVE  /\ NotesAbout(u) \in Seq(Messages)
           /\ \A i \in DOMAIN NotesAbout(u) :
                  NotesAbout(u)[i].role \in NoteRoles /\ NotesAbout(u)[i].turns = {}
<1> DEFINE k == Message("knowledge", {}, u)
           s == Message("safety", {}, u)
           a == IF "knowledge" \in NotesFor[u] THEN <<k>> ELSE <<>>
           b == IF "safety" \in NotesFor[u] THEN <<s>> ELSE <<>>
<1>1. /\ k \in Messages /\ k.role \in NoteRoles /\ k.turns = {}
      /\ s \in Messages /\ s.role \in NoteRoles /\ s.turns = {}
    BY DEF Message, Messages, Roles, SystemRoles, NoteRoles
<1> HIDE DEF k, s
<1>2. a \in Seq(Messages) /\ \A i \in DOMAIN a : a[i].role \in NoteRoles /\ a[i].turns = {}
    BY <1>1, EmptySeq
<1>3. b \in Seq(Messages) /\ \A i \in DOMAIN b : b[i].role \in NoteRoles /\ b[i].turns = {}
    BY <1>1, EmptySeq
<1>4. NotesAbout(u) = a \o b
    BY DEF NotesAbout, k, s
<1> HIDE DEF a, b
<1>5. /\ a \o b \in Seq(Messages) /\ Len(a \o b) = Len(a) + Len(b)
      /\ \A i \in 1 .. Len(a) + Len(b) :
             (a \o b)[i] = IF i <= Len(a) THEN a[i] ELSE b[i - Len(a)]
    BY <1>2, <1>3, ConcatProperties
<1>6. /\ DOMAIN a = 1 .. Len(a) /\ DOMAIN b = 1 .. Len(b)
      /\ DOMAIN (a \o b) = 1 .. Len(a) + Len(b) /\ Len(a) \in Nat /\ Len(b) \in Nat
    BY <1>2, <1>3, <1>5
<1>7. ASSUME NEW i \in DOMAIN (a \o b)
      PROVE  (a \o b)[i].role \in NoteRoles /\ (a \o b)[i].turns = {}
    <2>1. CASE i <= Len(a)
        <3>1. i \in DOMAIN a /\ (a \o b)[i] = a[i]
            BY <1>5, <1>6, <2>1
        <3> QED BY <1>2, <3>1
    <2>2. CASE ~ (i <= Len(a))
        <3>1. i - Len(a) \in DOMAIN b /\ (a \o b)[i] = b[i - Len(a)]
            BY <1>5, <1>6, <2>2
        <3> QED BY <1>3, <3>1
    <2> QED BY <2>1, <2>2
<1> QED BY <1>4, <1>5, <1>7

(* TurnGrounding puts the right notes behind the words, and nothing else   *)
(* of the context changes but the old notes.                               *)
LEMMA WithNotesEffect ==
    ASSUME NEW ms \in Seq(Messages), WellFormed(ms), LastSaid(ms) # "nothing"
    PROVE  /\ WithNotes(ms) \in Seq(Messages)
           /\ WellFormed(WithNotes(ms))
           /\ LastSaid(WithNotes(ms)) = LastSaid(ms)
           /\ OfRoles(WithNotes(ms), NoteRoles) = NotesAbout(LastSaid(ms))
           /\ Bounded(ms) => Bounded(WithNotes(ms))
           /\ \A n : Holds(ms, n) => Holds(WithNotes(ms), n)
           /\ \A i \in DOMAIN WithNotes(ms) :
                  \/ \E j \in DOMAIN ms : WithNotes(ms)[i] = ms[j]
                  \/ (WithNotes(ms)[i].turns = {} /\ WithNotes(ms)[i].role \in NoteRoles)
           /\ Descends(WithNotes(ms), ms)
<1> DEFINE R == Roles \ NoteRoles
           base == OfRoles(ms, R)
           notes == NotesAbout(LastSaid(ms))
           res == base \o notes
<1>1. WithNotes(ms) = res
    BY DEF WithNotes, WithoutNotes
<1>2. LastSaid(ms) \in Said /\ Users(ms) # {}
    BY LastSaidKnown
<1>3. /\ notes \in Seq(Messages)
      /\ \A i \in DOMAIN notes : notes[i].role \in NoteRoles /\ notes[i].turns = {}
    BY <1>2, NotesAboutType
<1>4. \A i \in DOMAIN ms : ms[i] \in Messages /\ ms[i].role \in Roles
    <2>1. \A i \in DOMAIN ms : ms[i] \in Messages
        OBVIOUS
    <2>2. \A m \in Messages : m.role \in Roles
        BY DEF Messages
    <2> QED BY <2>1, <2>2
<1>5. /\ "user" \in R /\ "summary" \in R
      /\ R \cap NoteRoles = {} /\ \A r \in Roles : r \notin NoteRoles => r \in R
      /\ "user" \notin NoteRoles /\ "summary" \notin NoteRoles
    BY DEF Roles, SystemRoles, NoteRoles
<1>6. /\ DOMAIN ms = 1 .. Len(ms) /\ Len(ms) \in Nat
    OBVIOUS
<1> HIDE DEF R
<1>7. /\ base \in Seq(Messages)
      /\ \A j \in DOMAIN base : \E i \in DOMAIN ms : base[j] = ms[i] /\ ms[i].role \in R
      /\ \A j \in DOMAIN base : j # 1 => \E i \in DOMAIN ms : base[j] = ms[i] /\ i # 1
      /\ \A i \in DOMAIN ms : ms[i].role \in R => \E j \in DOMAIN base : base[j] = ms[i]
      /\ \A i, k \in DOMAIN base : i < k =>
             \E a, b \in DOMAIN ms : a < b /\ base[i] = ms[a] /\ base[k] = ms[b]
    BY OfRolesElements
<1>8. ms # <<>> /\ ms[1].role \in R
    <2>1. Len(ms) > 0 /\ 1 \in DOMAIN ms /\ ms # <<>>
        BY <1>2, <1>6 DEF Users
    <2> QED BY <1>4, <1>5, <2>1 DEF WellFormed
<1>9. /\ base # <<>> /\ base[1] = ms[1]
      /\ Len(ms) > 1 /\ ms[2].role \in R => Len(base) > 1 /\ base[2] = ms[2]
    BY <1>8, OfRolesPrefix
<1>10. Cardinality(Users(base)) = Cardinality(Users(ms))
    BY <1>5, OfRolesUsers
<1>11. LastSaid(base) = LastSaid(ms)
    BY <1>5, OfRolesLastSaid
<1> HIDE DEF base, notes
<1>12. /\ res \in Seq(Messages) /\ Len(res) = Len(base) + Len(notes)
       /\ \A i \in 1 .. Len(base) + Len(notes) :
              res[i] = IF i <= Len(base) THEN base[i] ELSE notes[i - Len(base)]
    BY <1>3, <1>7, ConcatProperties
<1>13. /\ DOMAIN base = 1 .. Len(base) /\ DOMAIN notes = 1 .. Len(notes)
       /\ DOMAIN res = 1 .. Len(base) + Len(notes)
       /\ Len(base) \in Nat /\ Len(notes) \in Nat
    BY <1>3, <1>7, <1>12
<1>14. LastSaid(res) = LastSaid(base) /\ Users(res) = Users(base)
    <2>1. \A j \in DOMAIN notes : notes[j].role # "user"
        BY <1>3, <1>5
    <2> QED BY <1>3, <1>7, <2>1, LastSaidBefore
<1>15. OfRoles(res, NoteRoles) = notes
    <2>1. \A i \in DOMAIN base : base[i].role \notin NoteRoles
        BY <1>5, <1>7
    <2>2. \A i \in DOMAIN notes : notes[i].role \in NoteRoles
        BY <1>3
    <2> QED BY <1>3, <1>7, <2>1, <2>2, OfRolesTail
<1> HIDE DEF res
<1>16. \A i \in DOMAIN res :
           \/ i \in DOMAIN base /\ res[i] = base[i]
           \/ i > Len(base) /\ res[i].role \in NoteRoles /\ res[i].turns = {}
    <2> SUFFICES ASSUME NEW i \in DOMAIN res
                 PROVE  \/ i \in DOMAIN base /\ res[i] = base[i]
                        \/ i > Len(base) /\ res[i].role \in NoteRoles /\ res[i].turns = {}
        OBVIOUS
    <2>1. CASE i <= Len(base)
        BY <1>12, <1>13, <2>1
    <2>2. CASE ~ (i <= Len(base))
        <3>1. i - Len(base) \in DOMAIN notes /\ res[i] = notes[i - Len(base)] /\ i > Len(base)
            BY <1>12, <1>13, <2>2
        <3> QED BY <1>3, <3>1
    <2> QED BY <2>1, <2>2
<1>17. \A i \in DOMAIN base : i \in DOMAIN res /\ res[i] = base[i]
    BY <1>12, <1>13
<1>18. Users(res) # {}
    <2>1. PICK i \in DOMAIN ms : ms[i].role = "user"
        BY <1>2 DEF Users
    <2>2. PICK j \in DOMAIN base : base[j] = ms[i]
        BY <1>5, <1>7, <2>1
    <2>3. j \in Users(base)
        BY <2>1, <2>2 DEF Users
    <2> QED BY <1>14, <2>3
<1>19. WellFormed(res)
    <2>1. ASSUME NEW i \in DOMAIN res
          PROVE  /\ res[i].role = "summary" => i = 1
                 /\ res[i].role = "user" => res[i].about \in Said
                 /\ res[i].role \in NoteRoles => i # 1 /\ res[i].turns = {} /\ Users(res) # {}
        <3>1. CASE i \in DOMAIN base /\ res[i] = base[i]
            <4>1. PICK k \in DOMAIN ms : res[i] = ms[k] /\ ms[k].role \in R
                BY <1>7, <3>1
            <4>2. ms[k].role = "user" => ms[k].about \in Said
                BY DEF WellFormed
            <4>3. ASSUME i # 1 PROVE res[i].role # "summary"
                <5>1. PICK l \in DOMAIN ms : res[i] = ms[l] /\ l # 1
                    BY <1>7, <3>1, <4>3
                <5> QED BY <5>1 DEF WellFormed
            <4> QED BY <1>5, <4>1, <4>2, <4>3
        <3>2. CASE i > Len(base) /\ res[i].role \in NoteRoles /\ res[i].turns = {}
            <4>1. Len(base) > 0
                BY <1>9, <1>7
            <4>2. i # 1
                BY <1>13, <3>2, <4>1
            <4> QED BY <1>5, <1>18, <3>2, <4>2
        <3> QED BY <1>16, <3>1, <3>2
    <2>2. ASSUME res[1].role = "summary" PROVE Len(res) > 1 /\ res[2].role = "user"
        <3>1. 1 \in DOMAIN base /\ res[1] = ms[1]
            <4>1. Len(base) # 0
                BY <1>7, <1>9, EmptySeq
            <4>2. 1 \in DOMAIN base
                BY <1>13, <4>1
            <4> QED BY <1>9, <1>17, <4>2
        <3>2. Len(ms) > 1 /\ ms[2].role = "user"
            BY <1>8, <2>2, <3>1 DEF WellFormed
        <3>3. Len(base) > 1 /\ base[2] = ms[2]
            BY <1>5, <1>9, <3>2
        <3>4. 2 \in DOMAIN base
            BY <1>13, <3>3
        <3> QED BY <1>12, <1>13, <1>17, <3>2, <3>3, <3>4
    <2> QED BY <2>1, <2>2 DEF WellFormed
<1>20. ASSUME Bounded(ms) PROVE Bounded(res)
    <2>1. Cardinality(Users(res)) = Cardinality(Users(ms))
        BY <1>10, <1>14
    <2>2. ASSUME \A i \in {1, 2} : i \in Users(ms)
          PROVE  \A i \in {1, 2} : i \in Users(res)
        <3>1. Len(ms) > 1 /\ ms[1].role = "user" /\ ms[2].role = "user"
            BY <1>6, <2>2 DEF Users
        <3>2. Len(base) > 1 /\ base[1] = ms[1] /\ base[2] = ms[2]
            BY <1>5, <1>9, <3>1
        <3>3. 1 \in DOMAIN base /\ 2 \in DOMAIN base
            BY <1>13, <3>2
        <3>4. \A i \in {1, 2} : i \in Users(base)
            BY <3>1, <3>2, <3>3 DEF Users
        <3> QED BY <1>14, <3>4
    <2> QED BY <1>20, <2>1, <2>2 DEF Bounded
<1>21. ASSUME NEW n, Holds(ms, n) PROVE Holds(res, n)
    <2>1. PICK i \in DOMAIN ms : ms[i].role \in {"user", "summary"} /\ n \in ms[i].turns
        BY <1>21 DEF Holds
    <2>2. PICK j \in DOMAIN base : base[j] = ms[i]
        BY <1>5, <1>7, <2>1
    <2> QED BY <1>17, <2>1, <2>2 DEF Holds
<1>22. \A i \in DOMAIN res : \/ \E j \in DOMAIN ms : res[i] = ms[j]
                            \/ (res[i].turns = {} /\ res[i].role \in NoteRoles)
    BY <1>7, <1>16
<1>24. Descends(res, ms)
    <2> SUFFICES ASSUME NEW i \in DOMAIN res, NEW k \in DOMAIN res, i < k,
                        NEW n \in res[i].turns, NEW p \in res[k].turns
                 PROVE  \E a, b \in DOMAIN ms :
                            /\ a < b /\ n \in ms[a].turns /\ p \in ms[b].turns
                            /\ res[k].role = "user" => ms[b].role = "user"
        BY DEF Descends
    <2>1. i \in DOMAIN base /\ res[i] = base[i] /\ k \in DOMAIN base /\ res[k] = base[k]
        BY <1>16
    <2>2. PICK a \in DOMAIN ms, b \in DOMAIN ms : a < b /\ base[i] = ms[a] /\ base[k] = ms[b]
        BY <1>7, <2>1
    <2>3. n \in ms[a].turns /\ p \in ms[b].turns /\ (res[k].role = "user" => ms[b].role = "user")
        BY <2>1, <2>2
    <2> QED BY <2>2, <2>3
<1>23. OfRoles(res, NoteRoles) = NotesAbout(LastSaid(ms))
    BY <1>15 DEF notes
<1> QED BY <1>1, <1>11, <1>12, <1>14, <1>19, <1>20, <1>21, <1>22, <1>23, <1>24

-----------------------------------------------------------------------------
(* Compacting.                                                             *)

(* Of a set of at least n places one is the first of the last n.           *)
LEMMA CutExists ==
    ASSUME NEW len \in Nat, NEW U \in SUBSET (1 .. len), NEW n \in Nat \ {0},
           Cardinality(U) >= n
    PROVE  \E i \in U : Cardinality({j \in U : j >= i}) = n
<1> DEFINE From(k) == {j \in U : j >= k}
           T == {k \in Nat : Cardinality(From(k)) <= n}
<1>1. IsFiniteSet(U) /\ Cardinality(U) \in Nat
    <2>1. IsFiniteSet(1 .. len)
        BY FS_Interval
    <2> QED BY <2>1, FS_Subset, FS_CardinalityType
<1>2. \A j \in U : j \in Nat /\ j >= 1 /\ j <= len
    OBVIOUS
<1>3. ASSUME NEW a, NEW b, \A j \in U : j >= a <=> j >= b PROVE From(a) = From(b)
    BY <1>3
<1>4. \A k : From(k) \subseteq U /\ IsFiniteSet(From(k)) /\ Cardinality(From(k)) \in Nat
    BY <1>1, FS_Subset, FS_CardinalityType
<1>5. len + 1 \in T
    <2>1. \A j \in U : ~ (j >= len + 1)
        BY <1>2
    <2>2. From(len + 1) = {}
        BY <2>1
    <2>3. Cardinality(From(len + 1)) = 0
        BY <2>2, FS_EmptySet
    <2> QED BY <2>3
<1>6. PICK k \in T : \A h \in T : k <= h
    <2>1. T \in SUBSET Nat /\ T # {}
        BY <1>5
    <2> HIDE DEF T
    <2> QED BY <2>1, LeastOfNaturals
<1>7. k \in Nat /\ Cardinality(From(k)) <= n
    BY <1>6
<1>8. Cardinality(From(k)) = n
    <2>1. CASE k = 0
        <3>1. \A j \in U : j >= k
            BY <1>2, <2>1
        <3>2. From(k) = U
            BY <3>1
        <3> HIDE DEF From, T
        <3> QED BY <1>1, <1>7, <3>2
    <2>2. CASE k # 0
        <3>1. k - 1 \in Nat /\ ~ (k <= k - 1)
            BY <1>7, <2>2
        <3>2. k - 1 \notin T
            <4> HIDE DEF T
            <4> QED BY <1>6, <3>1
        <3>3. ~ (Cardinality(From(k - 1)) <= n)
            BY <3>1, <3>2
        <3>4. \A j \in U : j >= k - 1 => j >= k \/ j = k - 1
            BY <1>2, <1>7, <3>1
        <3>5. From(k - 1) \subseteq From(k) \cup {k - 1}
            BY <3>4
        <3> HIDE DEF From, T
        <3>6. /\ IsFiniteSet(From(k) \cup {k - 1})
              /\ Cardinality(From(k) \cup {k - 1}) \in
                    {Cardinality(From(k)), Cardinality(From(k)) + 1}
            BY <1>4, FS_AddElement
        <3>7. Cardinality(From(k - 1)) <= Cardinality(From(k) \cup {k - 1})
            BY <3>5, <3>6, FS_Subset
        <3>8. Cardinality(From(k)) \in Nat /\ Cardinality(From(k - 1)) \in Nat
            BY <1>4
        <3> QED BY <1>7, <3>3, <3>6, <3>7, <3>8
    <2> QED BY <2>1, <2>2
<1>9. From(k) # {}
    BY <1>8, FS_EmptySet
<1>10. PICK i \in From(k) : \A j \in From(k) : i <= j
    <2>1. From(k) \in SUBSET Nat
        BY <1>2
    <2> HIDE DEF From
    <2> QED BY <1>9, <2>1, LeastOfNaturals
<1>11. i \in U /\ i >= k /\ i \in Nat /\ \A j \in U : j >= k => i <= j
    BY <1>2, <1>10
<1>12. From(i) = From(k)
    <2>1. \A j \in U : j >= i <=> j >= k
        BY <1>2, <1>7, <1>11
    <2> QED BY <1>3, <2>1
<1> QED BY <1>8, <1>11, <1>12

(* The first message that is not of the system ends the head of the list.  *)
LEMMA LeadIs ==
    ASSUME NEW D, NEW ms \in Seq(D), NEW i \in DOMAIN ms, ms[i].role \notin SystemRoles,
           \A j \in DOMAIN ms : j < i => ms[j].role \in SystemRoles
    PROVE  Lead(ms) = i
<1>1. DOMAIN ms = 1 .. Len(ms) /\ Len(ms) \in Nat
    OBVIOUS
<1> DEFINE I == {j \in 1 .. Len(ms) : ms[j].role \notin SystemRoles}
<1>2. i \in I /\ I # {} /\ (\A j \in I : i <= j) /\ I \subseteq Nat
    BY <1>1
<1>3. Lead(ms) = IF I # {} THEN Min(I) ELSE 0
    BY DEF Lead, SelectInSeq
<1> HIDE DEF I
<1>4. Min(I) \in I /\ \A y \in I : Min(I) =< y
    BY <1>2, Zenon DEF Min
<1>5. Min(I) = i
    BY <1>2, <1>4
<1> QED BY <1>2, <1>3, <1>5

(* Where the body of a well-formed context begins, and its users.          *)
LEMMA BodyEffect ==
    ASSUME NEW ms \in Seq(Messages), WellFormed(ms), ms # <<>>
    PROVE  \E l \in {1, 2} :
              /\ l <= Len(ms) /\ Lead(ms) = l
              /\ l = 2 => ms[1].role = "summary"
              /\ l = 1 => ms[1].role \notin SystemRoles
              /\ BodyOf(ms) \in Seq(Messages) /\ Len(BodyOf(ms)) = Len(ms) - l + 1
              /\ \A i \in 1 .. Len(ms) - l + 1 : BodyOf(ms)[i] = ms[l + i - 1]
              /\ LeadOf(ms) \in Seq(Messages) /\ Len(LeadOf(ms)) = l - 1
              /\ l = 2 => LeadOf(ms)[1] = ms[1]
              /\ Cardinality(Users(BodyOf(ms))) = Cardinality(Users(ms))
<1>1. DOMAIN ms = 1 .. Len(ms) /\ Len(ms) \in Nat /\ Len(ms) > 0 /\ 1 \in DOMAIN ms
    OBVIOUS
<1>2. \A i \in DOMAIN ms : ms[i] \in Messages
    OBVIOUS
<1>3. ms[1].role \notin NoteRoles
    BY <1>1 DEF WellFormed
<1>4. PICK l \in {1, 2} : /\ l <= Len(ms) /\ Lead(ms) = l
                          /\ l = 2 => ms[1].role = "summary"
                          /\ l = 1 => ms[1].role \notin SystemRoles
    <2>1. CASE ms[1].role = "summary"
        <3>1. Len(ms) > 1 /\ ms[2].role = "user"
            BY <2>1 DEF WellFormed
        <3>2. 2 \in DOMAIN ms /\ ms[2].role \notin SystemRoles
            BY <1>1, <3>1 DEF SystemRoles, NoteRoles
        <3>3. \A j \in DOMAIN ms : j < 2 => ms[j].role \in SystemRoles
            BY <1>1, <2>1 DEF SystemRoles
        <3>4. Lead(ms) = 2
            BY <3>2, <3>3, LeadIs
        <3> QED BY <1>1, <2>1, <3>1, <3>4
    <2>2. CASE ms[1].role # "summary"
        <3>1. ms[1].role \notin SystemRoles
            BY <1>3, <2>2 DEF SystemRoles
        <3>2. \A j \in DOMAIN ms : j < 1 => ms[j].role \in SystemRoles
            BY <1>1
        <3>3. Lead(ms) = 1
            BY <1>1, <3>1, <3>2, LeadIs
        <3> QED BY <1>1, <3>1, <3>3
    <2> QED BY <2>1, <2>2
<1> DEFINE body == SubSeq(ms, l, Len(ms))
           front == SubSeq(ms, 1, l - 1)
<1>5. BodyOf(ms) = body /\ LeadOf(ms) = front
    BY <1>4 DEF BodyOf, LeadOf
<1>6. /\ body \in Seq(Messages)
      /\ Len(body) = IF l <= Len(ms) THEN Len(ms) - l + 1 ELSE 0
      /\ \A i \in 1 .. Len(ms) - l + 1 : body[i] = ms[l + i - 1]
    <2>1. \A i \in l .. Len(ms) : ms[i] \in Messages
        BY <1>1, <1>2, <1>4
    <2>2. l \in Int /\ Len(ms) \in Int
        BY <1>1, <1>4
    <2> QED BY <2>1, <2>2, SubSeqProperties
<1>7. /\ front \in Seq(Messages)
      /\ Len(front) = IF 1 <= l - 1 THEN l - 1 - 1 + 1 ELSE 0
      /\ \A i \in 1 .. (l - 1) - 1 + 1 : front[i] = ms[1 + i - 1]
    <2>1. \A i \in 1 .. l - 1 : ms[i] \in Messages
        BY <1>1, <1>2, <1>4
    <2>2. 1 \in Int /\ l - 1 \in Int
        BY <1>4
    <2> QED BY <2>1, <2>2, SubSeqProperties
<1> HIDE DEF body, front
<1>8. Len(body) = Len(ms) - l + 1 /\ Len(front) = l - 1
    BY <1>4, <1>6, <1>7
<1>9. l = 2 => front[1] = ms[1]
    BY <1>4, <1>7
<1>10. Cardinality(Users(body)) = Cardinality(Users(ms))
    <2> DEFINE f == [i \in Users(body) |-> l + i - 1]
    <2>1. DOMAIN body = 1 .. Len(ms) - l + 1
        BY <1>6, <1>8
    <2>2. f \in [Users(body) -> Users(ms)]
        <3>1. ASSUME NEW i \in Users(body) PROVE l + i - 1 \in Users(ms)
            <4>1. l + i - 1 \in DOMAIN ms /\ body[i] = ms[l + i - 1]
                BY <1>1, <1>4, <1>6, <2>1 DEF Users
            <4> QED BY <4>1 DEF Users
        <3> QED BY <3>1
    <2>3. \A x, y \in Users(body) : f[x] = f[y] => x = y
        <3>1. Users(body) \subseteq Nat
            BY <2>1 DEF Users
        <3> QED BY <1>4, <3>1
    <2>4. \A z \in Users(ms) : \E x \in Users(body) : f[x] = z
        <3> SUFFICES ASSUME NEW z \in Users(ms) PROVE \E x \in Users(body) : l + x - 1 = z
            OBVIOUS
        <3>1. z \in 1 .. Len(ms) /\ ms[z].role = "user"
            BY <1>1 DEF Users
        <3>2. z >= l
            BY <1>4, <3>1
        <3>3. z - l + 1 \in 1 .. Len(ms) - l + 1 /\ l + (z - l + 1) - 1 = z
            BY <1>1, <1>4, <3>1, <3>2
        <3>4. z - l + 1 \in Users(body)
            BY <1>6, <2>1, <3>1, <3>3 DEF Users
        <3> QED BY <3>3, <3>4
    <2>5. IsFiniteSet(Users(body))
        BY <1>6, UsersFinite
    <2> HIDE DEF f
    <2>6. Cardinality(Users(ms)) = Cardinality(Users(body))
        BY <2>2, <2>3, <2>4, <2>5, SameCount
    <2> QED BY <2>6
<1> QED BY <1>4, <1>5, <1>6, <1>7, <1>8, <1>9, <1>10

(* The turns of the messages with some of the roles.                       *)
LEMMA TurnsOfRoles ==
    ASSUME NEW ms \in Seq(Messages), NEW R, NEW n
    PROVE  n \in TurnsOf(OfRoles(ms, R)) <=>
               \E i \in DOMAIN ms : ms[i].role \in R /\ n \in ms[i].turns
<1> DEFINE out == OfRoles(ms, R)
<1>1. /\ \A j \in DOMAIN out : \E i \in DOMAIN ms : out[j] = ms[i] /\ ms[i].role \in R
      /\ \A i \in DOMAIN ms : ms[i].role \in R => \E j \in DOMAIN out : out[j] = ms[i]
    BY OfRolesElements
<1> HIDE DEF out
<1>2. n \in TurnsOf(out) <=> \E j \in DOMAIN out : n \in out[j].turns
    BY DEF TurnsOf
<1>3. n \in TurnsOf(out) <=> \E i \in DOMAIN ms : ms[i].role \in R /\ n \in ms[i].turns
    BY <1>1, <1>2
<1> QED BY <1>3 DEF out

(* What is cut off: everything before the first of the last MaxTurns user  *)
(* messages.                                                               *)
LEMMA CutEffect ==
    ASSUME NEW body \in Seq(Messages), Cardinality(Users(body)) > MaxTurns
    PROVE  /\ Cut(body) \in Users(body) /\ Cut(body) \in 2 .. Len(body)
           /\ Cardinality({j \in Users(body) : j >= Cut(body)}) = MaxTurns
<1> DEFINE k == Cut(body)
<1>1. /\ IsFiniteSet(Users(body)) /\ Cardinality(Users(body)) \in Nat
      /\ Users(body) \subseteq 1 .. Len(body) /\ Len(body) \in Nat
    BY UsersFinite
<1>2. \E i \in Users(body) : Cardinality({j \in Users(body) : j >= i}) = MaxTurns
    <2> DEFINE U == Users(body)
               len == Len(body)
    <2>1. MaxTurns \in Nat \ {0} /\ Cardinality(U) >= MaxTurns
        BY <1>1, SettingsAssumption
    <2>2. len \in Nat /\ U \in SUBSET (1 .. len)
        BY <1>1
    <2> HIDE DEF U, len
    <2>3. \E i \in U : Cardinality({j \in U : j >= i}) = MaxTurns
        BY <2>1, <2>2, CutExists
    <2> QED BY <2>3, Zenon DEF U
<1>3. k \in Users(body) /\ Cardinality({j \in Users(body) : j >= k}) = MaxTurns
    BY <1>2, Zenon DEF Cut
<1> HIDE DEF k
<1>4. k # 1
    <2> SUFFICES ASSUME k = 1 PROVE FALSE
        OBVIOUS
    <2>1. \A j \in Users(body) : j >= k
        BY <1>1
    <2>2. {j \in Users(body) : j >= k} = Users(body)
        BY <2>1
    <2>3. Cardinality(Users(body)) = MaxTurns
        BY <1>3, <2>2, Zenon
    <2>4. MaxTurns \in Nat
        BY SettingsAssumption
    <2> QED BY <2>3, <2>4
<1>5. k \in 2 .. Len(body)
    BY <1>1, <1>3, <1>4
<1> QED BY <1>3, <1>5 DEF k

(* What compact returns: a summary of what was said before some user       *)
(* message, from its oldest turn on, and the messages from there on.       *)
Compacted(ms, c, m, oldest) ==
    /\ m \in 2 .. Len(ms) /\ ms[m].role = "user"
    /\ Cardinality({j \in Users(ms) : j >= m}) = MaxTurns
    /\ c \in Seq(Messages) /\ Len(c) = Len(ms) - m + 2
    /\ c[1].role = "summary"
    /\ \A i \in 2 .. Len(ms) - m + 2 : c[i] = ms[m + i - 2]
    /\ \A n \in c[1].turns : \E j \in 1 .. m - 1 : n \in ms[j].turns
    /\ \A j \in 1 .. Len(ms) : \A n :
           j < m /\ ms[j].role \in {"user", "summary"} /\ n \in ms[j].turns /\ n >= oldest
               => n \in c[1].turns
    /\ oldest \in Nat
    /\ \/ oldest = 0
       \/ \E j \in 1 .. m - 1 : \E t \in ms[j].turns : oldest + SummaryTurns <= t + 1

(* compact leaves the head, a summary and the body from a message of the   *)
(* user on.                                                                *)
LEMMA CompactShape ==
    ASSUME NEW ms \in Seq(Messages), WellFormed(ms), ms # <<>>,
           Cardinality(Users(ms)) > MaxTurns, NEW oldest \in Oldest(ms)
    PROVE  \E m : Compacted(ms, compact(ms, oldest), m, oldest)
<1> DEFINE body == BodyOf(ms)
           front == LeadOf(ms)
<1>1. PICK l \in {1, 2} :
              /\ l <= Len(ms) /\ Lead(ms) = l
              /\ l = 2 => ms[1].role = "summary"
              /\ l = 1 => ms[1].role \notin SystemRoles
              /\ body \in Seq(Messages) /\ Len(body) = Len(ms) - l + 1
              /\ \A i \in 1 .. Len(ms) - l + 1 : body[i] = ms[l + i - 1]
              /\ front \in Seq(Messages) /\ Len(front) = l - 1
              /\ l = 2 => front[1] = ms[1]
              /\ Cardinality(Users(body)) = Cardinality(Users(ms))
    BY BodyEffect
<1> DEFINE k == Cut(body)
           m == l + k - 1
           early == SubSeq(body, 1, k - 1)
           late == SubSeq(body, k, Len(body))
           head == OfRoles(front, NoteRoles)
           prior == TurnsOf(OfRoles(front, {"summary"}))
           talk == OfRoles(early, Roles \ SystemRoles)
           ts == prior \cup TurnsOf(talk)
           s == Message("summary", {t \in ts : t >= oldest}, "talk")
<1>2. /\ k \in Users(body) /\ k \in 2 .. Len(body)
      /\ Cardinality({j \in Users(body) : j >= k}) = MaxTurns
    BY <1>1, CutEffect
<1>3. /\ compact(ms, oldest) = head \o <<s>> \o late
      /\ oldest \in {0} \cup {t \in ts : \E last \in ts : t + SummaryTurns <= last + 1}
    <2>1. Overlong(ms)
        BY <1>1 DEF Overlong
    <2>2. Prior(ms) = prior /\ Dropped(ms) = TurnsOf(talk)
        BY Zenon DEF Prior, Dropped
    <2>3. compact(ms, oldest) = head \o <<s>> \o late
        BY <2>1, <2>2, Zenon DEF compact
    <2>4. oldest \in {0} \cup {t \in ts : \E last \in ts : t + SummaryTurns <= last + 1}
        BY <2>1, <2>2, Zenon DEF Oldest
    <2> QED BY <2>3, <2>4
<1>4. \A i \in DOMAIN ms : ms[i] \in Messages
    OBVIOUS
<1>5. DOMAIN ms = 1 .. Len(ms) /\ Len(ms) \in Nat
    OBVIOUS
<1> HIDE DEF body, front, k
<1>6. DOMAIN body = 1 .. Len(body) /\ DOMAIN front = 1 .. Len(front)
    BY <1>1
<1>7. m \in 2 .. Len(ms) /\ ms[m] = body[k] /\ ms[m].role = "user"
    <2>1. m \in 2 .. Len(ms) /\ ms[m] = body[k]
        BY <1>1, <1>2, <1>5
    <2> QED BY <1>2, <2>1 DEF Users
<1>8. Cardinality({j \in Users(ms) : j >= m}) = MaxTurns
    <2> DEFINE A == {j \in Users(body) : j >= k}
               B == {j \in Users(ms) : j >= m}
               f == [j \in A |-> l + j - 1]
    <2>1. ASSUME NEW j \in A PROVE l + j - 1 \in B
        <3>1. j \in 1 .. Len(body) /\ body[j].role = "user" /\ j >= k
            BY <1>6 DEF Users
        <3>2. l + j - 1 \in 1 .. Len(ms) /\ ms[l + j - 1] = body[j] /\ l + j - 1 >= m
            BY <1>1, <1>2, <1>5, <3>1
        <3> QED BY <1>5, <3>1, <3>2 DEF Users
    <2>2. \A z \in B : \E j \in A : l + j - 1 = z
        <3> SUFFICES ASSUME NEW z \in B PROVE \E j \in A : l + j - 1 = z
            OBVIOUS
        <3>1. z \in 1 .. Len(ms) /\ ms[z].role = "user" /\ z >= m
            BY <1>5 DEF Users
        <3>2. /\ z - l + 1 \in 1 .. Len(body) /\ l + (z - l + 1) - 1 = z
              /\ z - l + 1 >= k /\ body[z - l + 1] = ms[z]
            <4>1. k \in Nat /\ k >= 2
                BY <1>2
            <4>2. /\ z - l + 1 \in 1 .. Len(ms) - l + 1 /\ l + (z - l + 1) - 1 = z
                  /\ z - l + 1 >= k
                BY <1>5, <3>1, <4>1
            <4> QED BY <1>1, <4>2
        <3> DEFINE j == z - l + 1
        <3>3. j \in A
            BY <1>6, <3>1, <3>2 DEF Users
        <3> QED BY <3>2, <3>3
    <2>3. \A x, y \in A : f[x] = f[y] => x = y
        <3>1. A \subseteq Nat
            BY <1>6 DEF Users
        <3> QED BY <1>1, <3>1
    <2>4. f \in [A -> B] /\ \A z \in B : \E j \in A : f[j] = z
        BY <2>1, <2>2
    <2>5. IsFiniteSet(A)
        BY <1>1, UsersFinite, FS_Subset
    <2>6. Cardinality(A) = MaxTurns
        BY <1>2
    <2> HIDE DEF A, B, f
    <2>7. Cardinality(B) = Cardinality(A)
        BY <2>3, <2>4, <2>5, SameCount
    <2> QED BY <2>6, <2>7 DEF B
<1>9. head = <<>>
    <2>1. \A i \in DOMAIN front : front[i].role \notin NoteRoles
        <3> SUFFICES ASSUME NEW i \in DOMAIN front PROVE front[i].role \notin NoteRoles
            OBVIOUS
        <3>1. l = 2 /\ i = 1
            BY <1>1, <1>6
        <3> QED BY <1>1, <3>1 DEF NoteRoles
    <2> QED BY <1>1, <2>1, OfRolesNone
<1>10. /\ late \in Seq(Messages) /\ Len(late) = Len(body) - k + 1
       /\ \A i \in 1 .. Len(body) - k + 1 : late[i] = body[k + i - 1]
    <2>1. \A i \in k .. Len(body) : body[i] \in Messages
        BY <1>1, <1>2, <1>6
    <2>2. k \in Int /\ Len(body) \in Int /\ k <= Len(body)
        BY <1>2
    <2> HIDE DEF late
    <2> QED BY <2>1, <2>2, SubSeqProperties DEF late
<1>11. /\ early \in Seq(Messages) /\ Len(early) = k - 1
       /\ \A i \in 1 .. k - 1 : early[i] = body[i]
    <2>1. \A i \in 1 .. k - 1 : body[i] \in Messages
        BY <1>1, <1>2, <1>6
    <2>2. 1 \in Int /\ k - 1 \in Int /\ 1 <= k - 1
        BY <1>2
    <2>3. /\ early \in Seq(Messages) /\ Len(early) = (k - 1) - 1 + 1
          /\ \A i \in 1 .. (k - 1) - 1 + 1 : early[i] = body[1 + i - 1]
        BY <2>1, <2>2, SubSeqProperties
    <2> HIDE DEF early
    <2> QED BY <1>2, <2>3
<1>12. DOMAIN early = 1 .. k - 1
    BY <1>11
<1>13. \A n : n \in prior <=> l = 2 /\ n \in ms[1].turns
    <2> SUFFICES ASSUME NEW n PROVE n \in prior <=> l = 2 /\ n \in ms[1].turns
        OBVIOUS
    <2>1. n \in prior <=> \E i \in DOMAIN front : front[i].role \in {"summary"} /\ n \in front[i].turns
        BY <1>1, TurnsOfRoles
    <2>2. l = 2 => 1 \in DOMAIN front /\ front[1].role = "summary" /\ front[1] = ms[1]
        BY <1>1, <1>6
    <2>3. \A i \in DOMAIN front : l = 2 /\ i = 1
        BY <1>1, <1>6
    <2> HIDE DEF prior
    <2> QED BY <2>1, <2>2, <2>3
<1>14. \A n : n \in TurnsOf(talk) <=>
           \E i \in 1 .. k - 1 : body[i].role \in Roles \ SystemRoles /\ n \in body[i].turns
    <2> SUFFICES ASSUME NEW n
                 PROVE  n \in TurnsOf(talk) <=>
                            \E i \in 1 .. k - 1 : /\ body[i].role \in Roles \ SystemRoles
                                                  /\ n \in body[i].turns
        OBVIOUS
    <2>1. n \in TurnsOf(talk) <=>
              \E i \in DOMAIN early : early[i].role \in Roles \ SystemRoles /\ n \in early[i].turns
        BY <1>11, TurnsOfRoles
    <2> HIDE DEF early, talk
    <2> QED BY <1>11, <1>12, <2>1
<1>15. /\ s.role = "summary" /\ s.turns = {t \in ts : t >= oldest} /\ s.about = "talk"
       /\ s = [role |-> s.role, turns |-> s.turns, about |-> s.about]
    BY DEF Message
<1>26. \A n : n \in ts <=> n \in prior \/ n \in TurnsOf(talk)
    OBVIOUS
<1> HIDE DEF prior, talk, ts, s, head, early, late, m
<1>27. \A n \in ts : \E j \in 1 .. m - 1 : n \in ms[j].turns
    <2> SUFFICES ASSUME NEW n \in ts PROVE \E j \in 1 .. m - 1 : n \in ms[j].turns
        OBVIOUS
    <2>1. CASE n \in prior
        <3>1. 1 \in 1 .. m - 1
            BY <1>7
        <3> QED BY <1>13, <2>1, <3>1
    <2>2. CASE n \in TurnsOf(talk)
        <3>1. PICK i \in 1 .. k - 1 : n \in body[i].turns
            BY <1>14, <2>2
        <3>2. l + i - 1 \in 1 .. m - 1 /\ body[i] = ms[l + i - 1]
            BY <1>1, <1>2, <1>5 DEF m
        <3> QED BY <3>1, <3>2
    <2> QED BY <1>26, <2>1, <2>2
<1>16. \A n \in s.turns : \E j \in 1 .. m - 1 : n \in ms[j].turns
    BY <1>15, <1>27
<1>28. /\ oldest \in Nat
       /\ \/ oldest = 0
          \/ \E j \in 1 .. m - 1 : \E t \in ms[j].turns : oldest + SummaryTurns <= t + 1
    <2>1. \A j \in 1 .. m - 1 : ms[j] \in Messages
        <3>1. 1 .. m - 1 \subseteq DOMAIN ms
            BY <1>5, <1>7
        <3> QED BY <1>4, <3>1
    <2>2. \A j \in 1 .. m - 1 : \A t \in ms[j].turns : t \in Nat
        BY <2>1 DEF Messages
    <2> QED BY <1>3, <1>27, <2>2
<1>17. ASSUME NEW j \in 1 .. Len(ms), NEW n, j < m,
              ms[j].role \in {"user", "summary"}, n \in ms[j].turns, n >= oldest
       PROVE  n \in s.turns
    <2>1. CASE j < l
        <3>1. n \in ts
            BY <1>1, <1>13, <1>17, <1>26, <2>1
        <3> QED BY <1>15, <1>17, <3>1
    <2>2. CASE ~ (j < l)
        <3>1. /\ j - l + 1 \in 1 .. k - 1 /\ j - l + 1 \in 1 .. Len(ms) - l + 1
              /\ l + (j - l + 1) - 1 = j
            BY <1>1, <1>2, <1>5, <1>17, <2>2 DEF m
        <3>2. body[j - l + 1] = ms[j]
            BY <1>1, <3>1
        <3>3. ms[j].role \in Roles \ SystemRoles
            <4>1. ms[j].role # "summary"
                <5>1. CASE l = 1
                    <6>1. ms[j].role = "summary" => j = 1
                        BY <1>5 DEF WellFormed
                    <6> QED BY <1>1, <5>1, <6>1 DEF SystemRoles
                <5>2. CASE l = 2
                    <6>1. ms[j].role = "summary" => j = 1
                        BY <1>5 DEF WellFormed
                    <6> QED BY <2>2, <5>2, <6>1
                <5> QED BY <5>1, <5>2
            <4> QED BY <1>17, <4>1 DEF Roles, SystemRoles, NoteRoles
        <3>4. n \in TurnsOf(talk)
            BY <1>14, <1>17, <3>1, <3>2, <3>3
        <3> QED BY <1>15, <1>17, <1>26, <3>4
    <2> QED BY <2>1, <2>2
<1>18. s \in Messages
    <2>1. s.turns \subseteq 0 .. NumTurns
        <3> SUFFICES ASSUME NEW n \in s.turns PROVE n \in 0 .. NumTurns
            OBVIOUS
        <3>1. PICK j \in 1 .. m - 1 : n \in ms[j].turns
            BY <1>16
        <3>2. j \in DOMAIN ms
            BY <1>5, <1>7
        <3> QED BY <1>4, <3>1, <3>2 DEF Messages
    <2>2. s.role \in Roles
        BY <1>15 DEF Roles, SystemRoles
    <2> QED BY <1>15, <2>1, <2>2 DEF Messages
<1>19. <<s>> \in Seq(Messages) /\ Len(<<s>>) = 1 /\ <<s>>[1] = s
    BY <1>18
<1> DEFINE c == <<s>> \o late
<1>20. /\ c \in Seq(Messages) /\ Len(c) = 1 + Len(late)
       /\ \A i \in 1 .. 1 + Len(late) : c[i] = IF i <= 1 THEN <<s>>[i] ELSE late[i - 1]
    <2>1. /\ c \in Seq(Messages) /\ Len(c) = Len(<<s>>) + Len(late)
          /\ \A i \in 1 .. Len(<<s>>) + Len(late) :
                 c[i] = IF i <= Len(<<s>>) THEN <<s>>[i] ELSE late[i - Len(<<s>>)]
        BY <1>10, <1>19, ConcatProperties
    <2> HIDE DEF c
    <2> QED BY <1>19, <2>1
<1>21. compact(ms, oldest) = c
    <2>1. <<>> \o <<s>> = <<s>>
        BY <1>19
    <2> QED BY <1>3, <1>9, <2>1
<1> HIDE DEF c
<1>22. Len(c) = Len(ms) - m + 2
    BY <1>1, <1>2, <1>5, <1>10, <1>20 DEF m
<1>23. c[1] = s
    <2>1. Len(late) \in Nat
        BY <1>10
    <2>2. 1 \in 1 .. 1 + Len(late)
        BY <2>1
    <2> QED BY <1>19, <1>20, <2>2
<1>24. \A i \in 2 .. Len(ms) - m + 2 : c[i] = ms[m + i - 2]
    <2> SUFFICES ASSUME NEW i \in 2 .. Len(ms) - m + 2 PROVE c[i] = ms[m + i - 2]
        OBVIOUS
    <2>1. i \in 1 .. 1 + Len(late) /\ ~ (i <= 1) /\ i - 1 \in 1 .. Len(body) - k + 1
        BY <1>1, <1>2, <1>5, <1>10 DEF m
    <2>2. c[i] = body[k + (i - 1) - 1]
        BY <1>10, <1>20, <2>1
    <2>3. k + (i - 1) - 1 \in 1 .. Len(ms) - l + 1 /\ l + (k + (i - 1) - 1) - 1 = m + i - 2
        BY <1>1, <1>2, <1>5, <2>1 DEF m
    <2> QED BY <1>1, <2>2, <2>3
<1>25. Compacted(ms, c, m, oldest)
    BY <1>7, <1>8, <1>15, <1>16, <1>17, <1>20, <1>22, <1>23, <1>24, <1>28 DEF Compacted
<1> QED BY <1>21, <1>25

(* A compacted list is in shape and has MaxTurns messages of the user.     *)
LEMMA CompactedEffect ==
    ASSUME NEW ms \in Seq(Messages), WellFormed(ms), NEW c, NEW m, NEW oldest,
           Compacted(ms, c, m, oldest), Cardinality(Users(ms)) > MaxTurns
    PROVE  /\ WellFormed(c)
           /\ Cardinality(Users(c)) = MaxTurns
           /\ Len(c) >= Len(ms) => Bounded(ms)
           /\ \A n : n >= oldest /\ Holds(ms, n) => Holds(c, n)
           /\ \A i \in DOMAIN c : \/ \E j \in DOMAIN ms : c[i] = ms[j]
                                  \/ /\ c[i].role = "summary"
                                     /\ \A n \in c[i].turns :
                                            \E j \in DOMAIN ms : n \in ms[j].turns
           /\ Descends(c, ms)
<1>1. DOMAIN ms = 1 .. Len(ms) /\ Len(ms) \in Nat
    OBVIOUS
<1>2. /\ m \in 2 .. Len(ms) /\ ms[m].role = "user"
      /\ Cardinality({j \in Users(ms) : j >= m}) = MaxTurns
      /\ c \in Seq(Messages) /\ Len(c) = Len(ms) - m + 2
      /\ c[1].role = "summary"
      /\ \A i \in 2 .. Len(ms) - m + 2 : c[i] = ms[m + i - 2]
    BY DEF Compacted
<1>3. DOMAIN c = 1 .. Len(ms) - m + 2 /\ m \in Nat /\ m >= 2 /\ Len(ms) - m + 2 >= 2
    BY <1>1, <1>2
<1>4. \A i \in DOMAIN c : i # 1 =>
          /\ i \in 2 .. Len(ms) - m + 2 /\ m + i - 2 \in DOMAIN ms
          /\ m + i - 2 # 1 /\ m + i - 2 >= m /\ c[i] = ms[m + i - 2]
    <2> SUFFICES ASSUME NEW i \in DOMAIN c, i # 1
                 PROVE  /\ i \in 2 .. Len(ms) - m + 2 /\ m + i - 2 \in DOMAIN ms
                        /\ m + i - 2 # 1 /\ m + i - 2 >= m /\ c[i] = ms[m + i - 2]
        OBVIOUS
    <2>1. i \in 2 .. Len(ms) - m + 2
        BY <1>1, <1>3
    <2>2. m + i - 2 \in DOMAIN ms /\ m + i - 2 # 1 /\ m + i - 2 >= m
        BY <1>1, <1>3, <2>1
    <2> QED BY <1>2, <2>1, <2>2
<1>5. \A j \in DOMAIN ms : j >= m =>
          j - m + 2 \in DOMAIN c /\ j - m + 2 # 1 /\ m + (j - m + 2) - 2 = j
          /\ c[j - m + 2] = ms[j]
    <2> SUFFICES ASSUME NEW j \in DOMAIN ms, j >= m
                 PROVE  /\ j - m + 2 \in DOMAIN c /\ j - m + 2 # 1
                        /\ m + (j - m + 2) - 2 = j /\ c[j - m + 2] = ms[j]
        OBVIOUS
    <2>1. j - m + 2 \in DOMAIN c /\ j - m + 2 # 1 /\ m + (j - m + 2) - 2 = j
        BY <1>1, <1>3
    <2> QED BY <1>4, <2>1
<1>6. 1 \in DOMAIN c /\ 2 \in DOMAIN c /\ c[2] = ms[m] /\ m \in DOMAIN ms
    <2>1. 1 \in DOMAIN c /\ 2 \in 2 .. Len(ms) - m + 2 /\ 2 \in DOMAIN c /\ m \in DOMAIN ms
        BY <1>1, <1>2, <1>3
    <2>2. c[2] = ms[m + 2 - 2] /\ m + 2 - 2 = m
        BY <1>2, <1>3, <2>1
    <2> QED BY <2>1, <2>2
<1>7. 2 \in Users(c)
    BY <1>2, <1>6 DEF Users
<1>8. WellFormed(c)
    <2>1. ASSUME NEW i \in DOMAIN c
          PROVE  /\ c[i].role = "summary" => i = 1
                 /\ c[i].role = "user" => c[i].about \in Said
                 /\ c[i].role \in NoteRoles => i # 1 /\ c[i].turns = {} /\ Users(c) # {}
        <3>1. CASE i = 1
            BY <1>2, <3>1 DEF NoteRoles
        <3>2. CASE i # 1
            <4>1. m + i - 2 \in DOMAIN ms /\ m + i - 2 # 1 /\ c[i] = ms[m + i - 2]
                BY <1>4, <3>2
            <4> QED BY <1>7, <3>2, <4>1 DEF WellFormed
        <3> QED BY <3>1, <3>2
    <2>2. Len(c) > 1 /\ c[2].role = "user"
        BY <1>2, <1>3, <1>6
    <2> QED BY <2>1, <2>2 DEF WellFormed
<1>9. Cardinality(Users(c)) = MaxTurns
    <2> DEFINE B == {j \in Users(ms) : j >= m}
               f == [j \in B |-> j - m + 2]
               U == Users(c)
    <2>1. ASSUME NEW j \in B PROVE j - m + 2 \in U
        BY <1>5 DEF Users
    <2>2. \A z \in U : \E j \in B : j - m + 2 = z
        <3> SUFFICES ASSUME NEW z \in U PROVE \E j \in B : j - m + 2 = z
            OBVIOUS
        <3>1. z \in DOMAIN c /\ c[z].role = "user" /\ z # 1
            BY <1>2 DEF Users
        <3>2. m + z - 2 \in DOMAIN ms /\ m + z - 2 >= m /\ c[z] = ms[m + z - 2]
            BY <1>4, <3>1
        <3>3. m + z - 2 \in B
            BY <3>1, <3>2 DEF Users
        <3>4. (m + z - 2) - m + 2 = z
            BY <1>3, <3>1
        <3> QED BY <3>3, <3>4
    <2>3. \A x, y \in B : f[x] = f[y] => x = y
        <3>1. B \subseteq Nat
            BY <1>1 DEF Users
        <3> QED BY <1>3, <3>1
    <2>4. f \in [B -> U] /\ \A z \in U : \E j \in B : f[j] = z
        BY <2>1, <2>2
    <2>5. IsFiniteSet(B)
        BY UsersFinite, FS_Subset
    <2>6. Cardinality(B) = MaxTurns
        BY <1>2
    <2> HIDE DEF B, f, U
    <2>7. Cardinality(U) = Cardinality(B)
        BY <2>3, <2>4, <2>5, SameCount
    <2> QED BY <2>6, <2>7 DEF U
<1>10. ASSUME Len(c) >= Len(ms) PROVE Bounded(ms)
    <2>1. m = 2
        BY <1>1, <1>2, <1>3, <1>10
    <2> DEFINE B == {j \in Users(ms) : j >= m}
               U == Users(ms)
    <2>2. IsFiniteSet(U) /\ Cardinality(U) \in Nat /\ U \subseteq 1 .. Len(ms)
        BY UsersFinite
    <2>3. IsFiniteSet(B) /\ Cardinality(B) = MaxTurns /\ 1 \notin B /\ B \subseteq U
        <3>1. 1 \notin B
            BY <2>1
        <3> QED BY <1>2, <2>2, <3>1, FS_Subset
    <2>4. \A j \in U : j \in B \/ j = 1
        BY <1>1, <2>1 DEF Users
    <2>5. Cardinality(U) > MaxTurns
        OBVIOUS
    <2>6. 2 \in U
        BY <1>2, <1>6, <2>1 DEF Users
    <2> HIDE DEF B, U
    <2>7. MaxTurns \in Nat
        BY SettingsAssumption
    <2>8. 1 \in U
        <3> SUFFICES ASSUME 1 \notin U PROVE FALSE
            OBVIOUS
        <3>1. U = B
            BY <2>3, <2>4
        <3> QED BY <2>3, <2>5, <2>7, <3>1
    <2>9. U = B \cup {1}
        BY <2>3, <2>4, <2>8
    <2>10. Cardinality(U) = MaxTurns + 1
        BY <2>3, <2>9, FS_AddElement
    <2> QED BY <2>6, <2>8, <2>10 DEF Bounded, U
<1>11. ASSUME NEW n, n >= oldest, Holds(ms, n) PROVE Holds(c, n)
    <2>1. PICK j \in DOMAIN ms : ms[j].role \in {"user", "summary"} /\ n \in ms[j].turns
        BY <1>11 DEF Holds
    <2>2. CASE j < m
        <3>1. n \in c[1].turns
            BY <1>1, <1>11, <2>1, <2>2 DEF Compacted
        <3> QED BY <1>2, <1>6, <3>1 DEF Holds
    <2>3. CASE ~ (j < m)
        <3>1. j >= m
            BY <1>1, <1>3, <2>3
        <3>2. j - m + 2 \in DOMAIN c /\ c[j - m + 2] = ms[j]
            BY <1>5, <3>1
        <3> QED BY <2>1, <3>2 DEF Holds
    <2> QED BY <2>2, <2>3
<1>12. ASSUME NEW i \in DOMAIN c
       PROVE  \/ \E j \in DOMAIN ms : c[i] = ms[j]
              \/ /\ c[i].role = "summary"
                 /\ \A n \in c[i].turns : \E j \in DOMAIN ms : n \in ms[j].turns
    <2>1. CASE i = 1
        <3>1. 1 .. m - 1 \subseteq DOMAIN ms
            BY <1>1, <1>2
        <3> QED BY <1>2, <2>1, <3>1 DEF Compacted
    <2>2. CASE i # 1
        BY <1>4, <2>2
    <2> QED BY <2>1, <2>2
<1>13. Descends(c, ms)
    <2> SUFFICES ASSUME NEW i \in DOMAIN c, NEW k \in DOMAIN c, i < k,
                        NEW n \in c[i].turns, NEW p \in c[k].turns
                 PROVE  \E a, b \in DOMAIN ms :
                            /\ a < b /\ n \in ms[a].turns /\ p \in ms[b].turns
                            /\ c[k].role = "user" => ms[b].role = "user"
        BY DEF Descends
    <2>1. k # 1 /\ i \in Nat /\ k \in Nat
        BY <1>1, <1>3
    <2>2. m + k - 2 \in DOMAIN ms /\ m + k - 2 >= m /\ c[k] = ms[m + k - 2]
        BY <1>4, <2>1
    <2>3. CASE i = 1
        <3>1. PICK a \in 1 .. m - 1 : n \in ms[a].turns
            BY <2>3 DEF Compacted
        <3>2. a \in DOMAIN ms /\ a < m + k - 2
            BY <1>1, <1>2, <1>3, <2>1, <2>2
        <3> QED BY <2>2, <3>1, <3>2
    <2>4. CASE i # 1
        <3>1. m + i - 2 \in DOMAIN ms /\ c[i] = ms[m + i - 2]
            BY <1>4, <2>4
        <3>2. m + i - 2 < m + k - 2
            BY <1>3, <2>1
        <3> QED BY <2>2, <3>1, <3>2
    <2> QED BY <2>3, <2>4
<1> QED BY <1>8, <1>9, <1>10, <1>11, <1>12, <1>13

(* What comes before the last MaxTurns turns of the user is that much      *)
(* older than the last turn.                                               *)
LEMMA EarlyTurns ==
    ASSUME NEW ms \in Seq(Messages), Ordered(ms), NEW T \in Nat, Past(ms, T),
           NEW m \in DOMAIN ms, Cardinality({j \in Users(ms) : j >= m}) = MaxTurns,
           NEW j \in 1 .. m - 1, NEW t \in ms[j].turns
    PROVE  t + MaxTurns <= T
<1> DEFINE B == {i \in Users(ms) : i >= m}
           I == (t + 1) .. T
           g == [i \in B |-> CHOOSE n : ms[i].turns = {n}]
<1>1. DOMAIN ms = 1 .. Len(ms) /\ Len(ms) \in Nat /\ j \in DOMAIN ms /\ MaxTurns \in Nat
    BY SettingsAssumption
<1>2. \A i \in DOMAIN ms : \A n \in ms[i].turns : n \in Nat
    <2>1. \A i \in DOMAIN ms : ms[i] \in Messages
        OBVIOUS
    <2> QED BY <2>1 DEF Messages
<1>3. ASSUME NEW i \in B
      PROVE  ms[i].turns = {g[i]} /\ g[i] \in I /\ i \in DOMAIN ms /\ ms[i].role = "user"
    <2>1. i \in DOMAIN ms /\ ms[i].role = "user" /\ j < i
        BY <1>1 DEF Users
    <2>2. PICK n : ms[i].turns = {n}
        BY <2>1 DEF Ordered
    <2>3. ms[i].turns = {g[i]}
        BY <2>2
    <2> HIDE DEF g
    <2>4. g[i] \in Nat /\ t < g[i] /\ g[i] <= T /\ t \in Nat
        BY <1>1, <1>2, <2>1, <2>3 DEF Ordered, Past
    <2> QED BY <2>1, <2>3, <2>4
<1>4. g \in [B -> I]
    <2> HIDE DEF B, I
    <2>1. \A i \in B : g[i] = CHOOSE n : ms[i].turns = {n}
        OBVIOUS
    <2>2. \A i \in B : g[i] \in I
        BY <1>3
    <2>3. \A i \in B : (CHOOSE n : ms[i].turns = {n}) \in I
        BY <2>1, <2>2
    <2> QED BY <2>3
<1>5. \A x, y \in B : g[x] = g[y] => x = y
    <2> HIDE DEF g
    <2>1. ASSUME NEW x \in B, NEW y \in B, g[x] = g[y], x < y PROVE FALSE
        <3>1. g[x] < g[y] /\ g[x] \in Nat
            BY <1>2, <1>3, <2>1 DEF Ordered
        <3> QED BY <2>1, <3>1
    <2>2. \A x, y \in B : x \in Nat /\ y \in Nat
        BY <1>1, <1>3
    <2> QED BY <2>1, <2>2
<1>6. t \in Nat
    BY <1>1, <1>2
<1> HIDE DEF B, I, g
<1>7. g \in Injection(B, I)
    BY <1>4, <1>5 DEF Injection, IsInjective
<1>8. IsFiniteSet(I) /\ Cardinality(I) = IF t + 1 > T THEN 0 ELSE T - (t + 1) + 1
    <2>1. t + 1 \in Int /\ T \in Int
        BY <1>6
    <2>2. /\ IsFiniteSet((t + 1) .. T)
          /\ Cardinality((t + 1) .. T) = IF t + 1 > T THEN 0 ELSE T - (t + 1) + 1
        BY <2>1, FS_Interval
    <2> QED BY <2>2 DEF I
<1>9. MaxTurns <= Cardinality(I)
    <2>1. Cardinality(B) <= Cardinality(I)
        BY <1>7, <1>8, FS_Injection
    <2>2. Cardinality(B) = MaxTurns
        BY DEF B
    <2> QED BY <2>1, <2>2
<1>10. MaxTurns # 0
    BY SettingsAssumption
<1> QED BY <1>1, <1>6, <1>8, <1>9, <1>10

(* The compactor: the context stays well formed, becomes bounded and loses *)
(* no turn but the oldest; a summary speaks of turns that were there.      *)
Trimmed(ms, oldest) ==
    IF Len(compact(ms, oldest)) < Len(ms) THEN compact(ms, oldest) ELSE ms

(* What ContextCompactor leaves is in shape, bounded, and holds the last   *)
(* turns that it held.                                                     *)
LEMMA TrimmedEffect ==
    ASSUME NEW ms \in Seq(Messages), WellFormed(ms), Ordered(ms), NEW T \in Nat, Past(ms, T),
           NEW oldest \in Oldest(ms)
    PROVE  /\ Trimmed(ms, oldest) \in Seq(Messages)
           /\ WellFormed(Trimmed(ms, oldest))
           /\ Bounded(Trimmed(ms, oldest))
           /\ \A n \in Nat : n > T - (MaxTurns + SummaryTurns) /\ Holds(ms, n)
                  => Holds(Trimmed(ms, oldest), n)
           /\ \A i \in DOMAIN Trimmed(ms, oldest) :
                  \/ \E j \in DOMAIN ms : Trimmed(ms, oldest)[i] = ms[j]
                  \/ /\ Trimmed(ms, oldest)[i].role = "summary"
                     /\ \A n \in Trimmed(ms, oldest)[i].turns :
                            \E j \in DOMAIN ms : n \in ms[j].turns
           /\ Descends(Trimmed(ms, oldest), ms)
<1>1. Cardinality(Users(ms)) \in Nat /\ MaxTurns \in Nat /\ SummaryTurns \in Nat
      /\ Len(ms) \in Nat /\ DOMAIN ms = 1 .. Len(ms)
    BY UsersFinite, SettingsAssumption
<1>4. Descends(ms, ms)
    BY DEF Descends
<1>2. CASE Cardinality(Users(ms)) > MaxTurns
    <2>1. ms # <<>>
        <3> SUFFICES ASSUME ms = <<>> PROVE FALSE
            OBVIOUS
        <3>1. Len(ms) = 0
            BY EmptySeq
        <3>2. Users(ms) = {}
            BY <3>1 DEF Users
        <3>3. Cardinality(Users(ms)) = 0
            BY <3>2, FS_EmptySet, Zenon
        <3> QED BY <1>1, <1>2, <3>3
    <2> DEFINE c == compact(ms, oldest)
    <2>2. PICK m : Compacted(ms, c, m, oldest)
        BY <1>2, <2>1, CompactShape
    <2>3. Trimmed(ms, oldest) = IF Len(c) < Len(ms) THEN c ELSE ms
        BY DEF Trimmed
    <2> HIDE DEF c
    <2>4. c \in Seq(Messages) /\ Len(c) \in Nat
        BY <2>2 DEF Compacted
    <2>5. /\ WellFormed(c)
          /\ Cardinality(Users(c)) = MaxTurns
          /\ Len(c) >= Len(ms) => Bounded(ms)
          /\ \A n : n >= oldest /\ Holds(ms, n) => Holds(c, n)
          /\ \A i \in DOMAIN c : \/ \E j \in DOMAIN ms : c[i] = ms[j]
                                 \/ /\ c[i].role = "summary"
                                    /\ \A n \in c[i].turns :
                                           \E j \in DOMAIN ms : n \in ms[j].turns
          /\ Descends(c, ms)
        BY <1>2, <2>2, CompactedEffect
    <2>6. Bounded(c)
        BY <1>1, <2>5 DEF Bounded
    <2>9. \A n \in Nat : n > T - (MaxTurns + SummaryTurns) => n >= oldest
        <3>1. \/ oldest = 0
              \/ \E j \in 1 .. m - 1 : \E t \in ms[j].turns : oldest + SummaryTurns <= t + 1
            BY <2>2 DEF Compacted
        <3>2. CASE \E j \in 1 .. m - 1 : \E t \in ms[j].turns : oldest + SummaryTurns <= t + 1
            <4>1. PICK j \in 1 .. m - 1 : \E t \in ms[j].turns : oldest + SummaryTurns <= t + 1
                BY <3>2
            <4>2. PICK t \in ms[j].turns : oldest + SummaryTurns <= t + 1
                BY <4>1
            <4>3. m \in DOMAIN ms /\ Cardinality({i \in Users(ms) : i >= m}) = MaxTurns
                BY <1>1, <2>2 DEF Compacted
            <4>4. t + MaxTurns <= T
                BY <4>3, EarlyTurns
            <4>5. t \in Nat
                <5>1. j \in DOMAIN ms
                    BY <1>1, <4>3
                <5>2. ms[j] \in Messages
                    BY <5>1
                <5> QED BY <5>2 DEF Messages
            <4>6. oldest \in Nat
                BY <2>2 DEF Compacted
            <4> QED BY <1>1, <4>2, <4>4, <4>5, <4>6
        <3> QED BY <3>1, <3>2
    <2>7. CASE Len(c) < Len(ms)
        <3>1. Trimmed(ms, oldest) = c
            BY <2>3, <2>7
        <3>2. \A n \in Nat : n > T - (MaxTurns + SummaryTurns) /\ Holds(ms, n) => Holds(c, n)
            BY <2>5, <2>9
        <3> QED BY <2>4, <2>5, <2>6, <3>1, <3>2
    <2>8. CASE ~ (Len(c) < Len(ms))
        <3>1. Trimmed(ms, oldest) = ms
            BY <2>3, <2>8
        <3>2. Len(c) >= Len(ms)
            BY <1>1, <2>4, <2>8
        <3> QED BY <1>4, <2>5, <3>1, <3>2
    <2> QED BY <2>7, <2>8
<1>3. CASE ~ (Cardinality(Users(ms)) > MaxTurns)
    <2>1. Bounded(ms)
        BY <1>1, <1>3 DEF Bounded
    <2>2. Trimmed(ms, oldest) = ms
        <3> SUFFICES ~ Overlong(ms)
            BY Zenon DEF Trimmed, compact
        <3>1. CASE ms = <<>>
            <4>1. DOMAIN ms = {} /\ Len(ms) = 0
                BY <3>1, EmptySeq
            <4>2. BodyOf(ms) = <<>>
                <5>1. Lead(ms) = 0
                    BY <4>1 DEF Lead, SelectInSeq
                <5> QED BY <5>1 DEF BodyOf
            <4>3. Users(BodyOf(ms)) = {}
                BY <4>2, EmptySeq DEF Users
            <4>4. Cardinality(Users(BodyOf(ms))) = 0
                BY <4>3, FS_EmptySet, Zenon
            <4> QED BY <1>1, <4>4 DEF Overlong
        <3>2. CASE ms # <<>>
            <4>1. Cardinality(Users(BodyOf(ms))) = Cardinality(Users(ms))
                BY <3>2, BodyEffect
            <4> QED BY <1>1, <1>3, <4>1 DEF Overlong
        <3> QED BY <3>1, <3>2
    <2> QED BY <1>4, <2>1, <2>2
<1> QED BY <1>2, <1>3

-----------------------------------------------------------------------------
(* A reset leaves nothing: notes never come first.                         *)
LEMMA ResetEffect ==
    ASSUME NEW ms \in Seq(Messages), WellFormed(ms)
    PROVE  reset(ms) = <<>>
<1> DEFINE I == {j \in 1 .. Len(ms) : ms[j].role \notin NoteRoles}
           last == SelectInSeq(ms, LAMBDA m : m.role \notin NoteRoles)
<1>1. last = IF I # {} THEN Min(I) ELSE 0
    BY DEF SelectInSeq
<1>2. reset(ms) = IF last = 0 THEN ms ELSE SubSeq(ms, 1, last - 1)
    BY DEF reset
<1>3. DOMAIN ms = 1 .. Len(ms) /\ Len(ms) \in Nat
    OBVIOUS
<1> HIDE DEF last
<1>4. CASE ms = <<>>
    <2>1. Len(ms) = 0
        BY <1>4, EmptySeq
    <2>2. I = {}
        BY <2>1
    <2> QED BY <1>1, <1>2, <1>4, <2>2
<1>5. CASE ms # <<>>
    <2>1. Len(ms) > 0 /\ 1 \in DOMAIN ms
        BY <1>5, EmptySeq
    <2>2. 1 \in I
        BY <1>3, <2>1 DEF WellFormed
    <2>3. \A j \in I : j \in Nat /\ 1 <= j
        BY <1>3
    <2> HIDE DEF I
    <2>4. Min(I) \in I /\ \A y \in I : Min(I) =< y
        <3>1. \E x \in I : \A y \in I : x =< y
            BY <2>2, <2>3
        <3> QED BY <3>1, Zenon DEF Min
    <2>5. Min(I) = 1
        BY <2>2, <2>3, <2>4
    <2>6. last = 1
        BY <1>1, <2>2, <2>5
    <2>7. reset(ms) = SubSeq(ms, 1, 0)
        BY <1>2, <2>6
    <2>8. SubSeq(ms, 1, 0) = <<>>
        OBVIOUS
    <2> QED BY <2>7, <2>8
<1> QED BY <1>4, <1>5

(* Turn r is in one message at most; it is in none.                        *)
Once(ms, r) == \A i, j \in DOMAIN ms : r \in ms[i].turns /\ r \in ms[j].turns => i = j
Absent(ms, r) == \A i \in DOMAIN ms : r \notin ms[i].turns

(* A message of the visitor or the robot is added.                         *)
LEMMA AppendEffect ==
    ASSUME NEW ms \in Seq(Messages), WellFormed(ms), NEW msg \in Messages,
           msg.role \in {"user", "assistant"}, msg.role = "user" => msg.about \in Said
    PROVE  /\ Append(ms, msg) \in Seq(Messages)
           /\ WellFormed(Append(ms, msg))
           /\ \A n : Holds(ms, n) => Holds(Append(ms, msg), n)
           /\ \A n \in msg.turns : msg.role = "user" => Holds(Append(ms, msg), n)
           /\ \A i \in DOMAIN Append(ms, msg) :
                  Append(ms, msg)[i] = msg \/ \E j \in DOMAIN ms : Append(ms, msg)[i] = ms[j]
           /\ \A t \in Nat :
                  msg.turns = {t} /\ Ordered(ms) /\ Past(ms, IF msg.role = "user" THEN t - 1 ELSE t)
                      => Ordered(Append(ms, msg)) /\ Past(Append(ms, msg), t)
           /\ \A r : Once(ms, r) /\ (r \in msg.turns => Absent(ms, r))
                       => Once(Append(ms, msg), r)
<1> DEFINE out == Append(ms, msg)
<1>1. /\ out \in Seq(Messages) /\ Len(out) = Len(ms) + 1 /\ out[Len(ms) + 1] = msg
      /\ \A i \in 1 .. Len(ms) : out[i] = ms[i]
      /\ Len(ms) \in Nat /\ DOMAIN ms = 1 .. Len(ms)
    OBVIOUS
<1> HIDE DEF out
<1>2. DOMAIN out = 1 .. Len(ms) + 1
    BY <1>1
<1>3. \A i \in DOMAIN ms : i \in DOMAIN out /\ out[i] = ms[i]
    BY <1>1, <1>2
<1>4. \A i \in DOMAIN out : i \in DOMAIN ms \/ (i = Len(ms) + 1 /\ out[i] = msg)
    BY <1>1, <1>2
<1>5. Len(ms) + 1 \in DOMAIN out
    BY <1>1, <1>2
<1>6. Users(ms) \subseteq Users(out)
    BY <1>3 DEF Users
<1>7. WellFormed(out)
    <2>1. ASSUME NEW i \in DOMAIN out
          PROVE  /\ out[i].role = "summary" => i = 1
                 /\ out[i].role = "user" => out[i].about \in Said
                 /\ out[i].role \in NoteRoles => i # 1 /\ out[i].turns = {} /\ Users(out) # {}
        <3>1. CASE i \in DOMAIN ms
            <4>1. out[i] = ms[i]
                BY <1>3, <3>1
            <4> QED BY <1>6, <3>1, <4>1 DEF WellFormed
        <3>2. CASE i = Len(ms) + 1 /\ out[i] = msg
            BY <3>2 DEF NoteRoles
        <3> QED BY <1>4, <3>1, <3>2
    <2>2. ASSUME out[1].role = "summary" PROVE Len(out) > 1 /\ out[2].role = "user"
        <3>1. ms # <<>>
            <4> SUFFICES ASSUME ms = <<>> PROVE FALSE
                OBVIOUS
            <4>1. Len(ms) = 0
                BY EmptySeq
            <4> QED BY <1>1, <2>2, <4>1
        <3>2. 1 \in DOMAIN ms
            BY <1>1, <3>1, EmptySeq
        <3>3. Len(ms) > 1 /\ ms[2].role = "user"
            BY <1>3, <2>2, <3>1, <3>2 DEF WellFormed
        <3>4. 2 \in DOMAIN ms
            BY <1>1, <3>3
        <3> QED BY <1>1, <1>3, <3>3, <3>4
    <2> QED BY <2>1, <2>2 DEF WellFormed
<1>8. \A n : Holds(ms, n) => Holds(out, n)
    BY <1>3 DEF Holds
<1>9. \A n \in msg.turns : msg.role = "user" => Holds(out, n)
    BY <1>1, <1>5 DEF Holds
<1>10. \A i \in DOMAIN out : out[i] = msg \/ \E j \in DOMAIN ms : out[i] = ms[j]
    BY <1>3, <1>4
<1>11. ASSUME NEW t \in Nat, msg.turns = {t}, Ordered(ms),
              Past(ms, IF msg.role = "user" THEN t - 1 ELSE t)
       PROVE  Ordered(out) /\ Past(out, t)
    <2>1. \A i \in DOMAIN ms : \A n \in ms[i].turns :
              n \in Nat /\ n <= t /\ (msg.role = "user" => n < t)
        <3>1. \A i \in DOMAIN ms : ms[i] \in Messages
            OBVIOUS
        <3>2. \A i \in DOMAIN ms : \A n \in ms[i].turns : n \in Nat
            BY <3>1 DEF Messages
        <3> QED BY <1>11, <3>2 DEF Past
    <2>2. Past(out, t)
        <3> SUFFICES ASSUME NEW i \in DOMAIN out, NEW n \in out[i].turns PROVE n <= t
            BY DEF Past
        <3>1. CASE i \in DOMAIN ms
            BY <1>3, <2>1, <3>1
        <3>2. CASE out[i] = msg
            BY <1>11, <3>2
        <3> QED BY <1>4, <3>1, <3>2
    <2>3. \A i \in DOMAIN out : out[i].role = "user" => \E n : out[i].turns = {n}
        BY <1>3, <1>4, <1>11 DEF Ordered
    <2>4. ASSUME NEW i \in DOMAIN out, NEW j \in DOMAIN out, i < j,
                 NEW a \in out[i].turns, NEW b \in out[j].turns
          PROVE  a <= b /\ (out[j].role = "user" => a < b)
        <3>1. i \in DOMAIN ms /\ out[i] = ms[i]
            BY <1>1, <1>2, <1>3, <2>4
        <3>2. CASE j \in DOMAIN ms
            BY <1>3, <1>11, <2>4, <3>1, <3>2 DEF Ordered
        <3>3. CASE out[j] = msg
            BY <1>11, <2>1, <3>1, <3>3
        <3> QED BY <1>4, <3>2, <3>3
    <2> QED BY <2>2, <2>3, <2>4 DEF Ordered
<1>12. ASSUME NEW r, Once(ms, r), r \in msg.turns => Absent(ms, r)
       PROVE  Once(out, r)
    BY <1>3, <1>4, <1>12 DEF Once, Absent
<1>13. out \in Seq(Messages)
    BY <1>1
<1>14. \A t \in Nat :
           msg.turns = {t} /\ Ordered(ms) /\ Past(ms, IF msg.role = "user" THEN t - 1 ELSE t)
               => Ordered(out) /\ Past(out, t)
    BY <1>11
<1>15. \A r : Once(ms, r) /\ (r \in msg.turns => Absent(ms, r)) => Once(out, r)
    BY <1>12
<1> QED BY <1>7, <1>8, <1>9, <1>10, <1>13, <1>14, <1>15, Zenon DEF out

(* A context whose last words nobody knows has no words, and so no notes.  *)
LEMMA NoWords ==
    ASSUME NEW ms \in Seq(Messages), WellFormed(ms), LastSaid(ms) = "nothing"
    PROVE  OfRoles(ms, NoteRoles) = <<>>
<1>1. Users(ms) = {}
    <2> SUFFICES ASSUME Users(ms) # {} PROVE FALSE
        OBVIOUS
    <2> DEFINE T == Users(ms)
               n == Len(ms)
    <2>1. T \in SUBSET (1 .. n) /\ n \in Nat
        BY UsersFinite
    <2>2. T # {}
        OBVIOUS
    <2> HIDE DEF T, n
    <2>3. PICK i \in T : \A j \in T : j <= i
        BY <2>1, <2>2, GreatestPlace
    <2>4. i \in Users(ms) /\ \A j \in Users(ms) : j <= i
        BY <2>3 DEF T
    <2>5. LastSaid(ms) = ms[i].about
        BY <2>4, LastSaidCases
    <2>6. ms[i].about \in Said
        BY <2>4 DEF WellFormed, Users
    <2>7. "nothing" \notin Said
        BY SettingsAssumption DEF NotesFor
    <2> QED BY <2>5, <2>6, <2>7
<1>2. \A i \in DOMAIN ms : ms[i].role \notin NoteRoles
    BY <1>1 DEF WellFormed
<1> QED BY <1>2, OfRolesNone

-----------------------------------------------------------------------------
(* What each kind of step does to the context.                             *)

(* The context stays, and the frame with it, or it goes nowhere, or from   *)
(* the bypass to the LLM.                                                  *)
LEMMA ContextKept ==
    ASSUME IInv, UNCHANGED <<settings, context, turns, resetAt>>, UnderWay' => UnderWay,
           \/ frame' = frame
           \/ frame' = "none"
           \/ frame = "bypass" /\ frame' = "llm"
    PROVE  ContextInv'
<1>1. /\ WellFormed(context) /\ Ordered(context) /\ Past(context, turns)
      /\ UnderWay => Unanswered(context, turns)
      /\ Remembered /\ ResetForgets
      /\ frame \in {"grounding", "bypass", "llm"} => Bounded(context)
      /\ frame \in {"bypass", "llm"} => Fitting(context)
    BY DEF IInv, ContextInv
<1>2. settings' = settings /\ context' = context /\ turns' = turns /\ resetAt' = resetAt
    OBVIOUS
<1>3. WellFormed(context)'
    BY <1>1, <1>2 DEF WellFormed, Users
<1>4. Remembered' /\ ResetForgets'
    BY <1>1, <1>2 DEF Remembered, ResetForgets, Holds
<1>7. Ordered(context)' /\ Past(context, turns)'
    BY <1>1, <1>2 DEF Ordered, Past
<1>8. (UnderWay => Unanswered(context, turns))'
    BY <1>1, <1>2 DEF Unanswered
<1>5. (frame \in {"grounding", "bypass", "llm"} => Bounded(context))'
    BY <1>1, <1>2 DEF Bounded, Users
<1>6. (frame \in {"bypass", "llm"} => Fitting(context))'
    BY <1>1, <1>2 DEF Fitting
<1> QED BY <1>3, <1>4, <1>5, <1>6, <1>7, <1>8 DEF ContextInv

(* A reset, whoever asks for it.                                           *)
LEMMA ContextReset ==
    ASSUME IInv, ResetConversation, UNCHANGED <<settings, frame>>
    PROVE  /\ ContextInv'
           /\ context' \in Seq(Messages) /\ turns' \in 0 .. NumTurns /\ resetAt' \in 0 .. turns'
<1>1. context \in Seq(Messages) /\ WellFormed(context) /\ turns \in 0 .. NumTurns
    BY DEF IInv, TypeOK, ContextInv
<1>2. context' = <<>> /\ turns' = turns /\ resetAt' = turns
    BY <1>1, ResetEffect DEF ResetConversation
<1>3. <<>> \in Seq(Messages) /\ Len(<<>>) = 0 /\ DOMAIN <<>> = {}
    BY EmptySeq
<1>4. Users(<<>>) = {}
    BY <1>3 DEF Users
<1>5. WellFormed(<<>>)
    BY <1>3 DEF WellFormed
<1>6. /\ ResetForgets' /\ Ordered(context)' /\ Past(context, turns)'
      /\ Unanswered(context, turns)'
    BY <1>2, <1>3 DEF ResetForgets, Ordered, Past, Unanswered
<1>7. Remembered'
    BY <1>1, <1>2 DEF Remembered
<1>8. Bounded(<<>>)
    <2>1. Cardinality(Users(<<>>)) = 0
        BY <1>4, FS_EmptySet, Zenon
    <2>2. MaxTurns \in Nat
        BY SettingsAssumption
    <2> QED BY <2>1, <2>2 DEF Bounded
<1>9. Fitting(<<>>)'
    <2>1. LastSaid(<<>>) = "nothing"
        BY <1>3, <1>4, LastSaidCases
    <2>2. OfRoles(<<>>, NoteRoles) = <<>>
        BY <1>3, <1>5, <2>1, NoWords
    <2> QED BY <2>1, <2>2 DEF Fitting
<1> QED BY <1>1, <1>2, <1>3, <1>5, <1>6, <1>7, <1>8, <1>9 DEF ContextInv

(* The robot's words are added when the frame has gone.                    *)
LEMMA ReplyType ==
    ASSUME TypeOK
    PROVE  LET msg == Message("assistant", {turns}, "reply") IN
           /\ msg \in Messages /\ msg.role = "assistant" /\ msg.turns = {turns}
    BY DEF TypeOK, Message, Messages, Roles

(* The assistant aggregator adds a reply, or nothing.                      *)
LEMMA ContextReply ==
    ASSUME IInv, UNCHANGED <<settings, turns, resetAt>>, frame' = "none", ~ reply'.on,
           \/ context' = context
           \/ UnderWay /\ context' = Append(context, Message("assistant", {turns}, "reply"))
    PROVE  ContextInv' /\ context' \in Seq(Messages)
<1>1. /\ context \in Seq(Messages) /\ turns \in Nat /\ resetAt \in Nat /\ resetAt <= turns
      /\ WellFormed(context) /\ Ordered(context) /\ Past(context, turns)
      /\ UnderWay => Unanswered(context, turns)
      /\ Remembered /\ ResetForgets
    BY DEF IInv, ContextInv, TypeOK
<1>4. ~ UnderWay'
    BY DEF UnderWay
<1>2. CASE context' = context
    <2>1. ContextInv'
        BY <1>2, <1>4, ContextKept
    <2> QED BY <1>1, <1>2, <2>1
<1>3. CASE UnderWay /\ context' = Append(context, Message("assistant", {turns}, "reply"))
    <2> DEFINE msg == Message("assistant", {turns}, "reply")
    <2>1. /\ msg \in Messages /\ msg.role = "assistant" /\ msg.turns = {turns}
          /\ context' = Append(context, msg)
        BY <1>3, ReplyType DEF IInv
    <2> HIDE DEF msg
    <2> DEFINE out == Append(context, msg)
    <2>7. resetAt \in msg.turns => \A i \in DOMAIN context : resetAt \notin context[i].turns
        <3> SUFFICES ASSUME resetAt = turns, NEW i \in DOMAIN context,
                            resetAt \in context[i].turns
                     PROVE  FALSE
            BY <2>1
        <3>1. context[i].role = "user"
            BY <1>1, <1>3 DEF Unanswered
        <3> QED BY <1>1, <3>1 DEF ResetForgets
    <2>8. \A i, j \in DOMAIN context :
              resetAt \in context[i].turns /\ resetAt \in context[j].turns => i = j
        BY <1>1 DEF ResetForgets
    <2>2. /\ out \in Seq(Messages) /\ WellFormed(out)
          /\ \A n : Holds(context, n) => Holds(out, n)
          /\ \A i \in DOMAIN out : out[i] = msg \/ \E j \in DOMAIN context : out[i] = context[j]
        BY <1>1, <2>1, AppendEffect
    <2>9. Ordered(out) /\ Past(out, turns)
        <3>1. Past(context, IF msg.role = "user" THEN turns - 1 ELSE turns)
            BY <1>1, <2>1
        <3> HIDE DEF out
        <3> QED BY <1>1, <2>1, <3>1, AppendEffect DEF out
    <2>10. \A i, j \in DOMAIN out : resetAt \in out[i].turns /\ resetAt \in out[j].turns => i = j
        BY <1>1, <2>1, <2>7, <2>8, AppendEffect DEF Once, Absent
    <2> HIDE DEF out
    <2>3. context' = out
        BY <2>1 DEF out
    <2>5. Remembered'
        BY <1>1, <2>2, <2>3 DEF Remembered
    <2>6. ResetForgets'
        <3> SUFFICES ASSUME NEW i \in DOMAIN out, NEW n \in out[i].turns
                     PROVE  n > resetAt \/ (n = resetAt /\ out[i].role # "user")
            BY <2>3, <2>10 DEF ResetForgets
        <3>1. CASE out[i] = msg
            BY <1>1, <2>1, <3>1
        <3>2. CASE \E j \in DOMAIN context : out[i] = context[j]
            BY <1>1, <3>2 DEF ResetForgets
        <3> QED BY <2>2, <3>1, <3>2
    <2>11. Ordered(context)' /\ Past(context, turns)'
        BY <2>3, <2>9 DEF Ordered, Past
    <2> QED BY <1>4, <2>2, <2>3, <2>5, <2>6, <2>11 DEF ContextInv
<1> QED BY <1>2, <1>3

(* The visitor's words are added, and the frame starts its way.            *)
LEMMA ContextSaid ==
    ASSUME IInv, UNCHANGED <<settings, resetAt>>, frame' = "compactor",
           turns < NumTurns, turns' = turns + 1, NEW u \in Said,
           context' = Append(context, Message("user", {turns + 1}, u))
    PROVE  ContextInv' /\ context' \in Seq(Messages)
<1>1. /\ context \in Seq(Messages) /\ turns \in 0 .. NumTurns /\ resetAt \in Nat
      /\ resetAt <= turns /\ turns \in Nat
      /\ WellFormed(context) /\ Ordered(context) /\ Past(context, turns)
      /\ Remembered /\ ResetForgets
    BY DEF IInv, ContextInv, TypeOK
<1> DEFINE msg == Message("user", {turns + 1}, u)
<1>2. /\ msg \in Messages /\ msg.role = "user" /\ msg.turns = {turns + 1} /\ msg.about = u
      /\ context' = Append(context, msg)
    <2>1. turns + 1 \in 0 .. NumTurns
        BY <1>1, BoundsAssumption
    <2> QED BY <2>1 DEF Message, Messages, Roles
<1> HIDE DEF msg
<1> DEFINE out == Append(context, msg)
<1>3. /\ out \in Seq(Messages) /\ WellFormed(out)
      /\ \A n : Holds(context, n) => Holds(out, n)
      /\ \A n \in msg.turns : Holds(out, n)
      /\ \A i \in DOMAIN out : out[i] = msg \/ \E j \in DOMAIN context : out[i] = context[j]
    BY <1>1, <1>2, AppendEffect
<1>8. Ordered(out) /\ Past(out, turns + 1)
    <2>1. Past(context, IF msg.role = "user" THEN (turns + 1) - 1 ELSE turns + 1)
          /\ turns + 1 \in Nat
        BY <1>1, <1>2
    <2> HIDE DEF out
    <2> QED BY <1>1, <1>2, <2>1, AppendEffect DEF out
<1>9. \A i, j \in DOMAIN out : resetAt \in out[i].turns /\ resetAt \in out[j].turns => i = j
    <2>1. resetAt \notin msg.turns
        BY <1>1, <1>2
    <2>2. \A i, j \in DOMAIN context :
              resetAt \in context[i].turns /\ resetAt \in context[j].turns => i = j
        BY <1>1 DEF ResetForgets
    <2> QED BY <1>1, <1>2, <2>1, <2>2, AppendEffect DEF Once, Absent
<1> HIDE DEF out
<1>4. context' = out
    BY <1>2 DEF out
<1>5. Unanswered(context, turns)'
    <2> SUFFICES ASSUME NEW i \in DOMAIN out, turns + 1 \in out[i].turns
                 PROVE  out[i].role = "user"
        BY <1>4 DEF Unanswered
    <2>1. ASSUME NEW j \in DOMAIN context, out[i] = context[j] PROVE FALSE
        <3>1. turns + 1 <= turns
            BY <1>1, <2>1 DEF Past
        <3> QED BY <1>1, <3>1
    <2> QED BY <1>2, <1>3, <2>1
<1>6. Remembered'
    <2> SUFFICES ASSUME NEW n \in (resetAt + 1) .. (turns + 1),
                        n > (turns + 1) - (MaxTurns + SummaryTurns)
                 PROVE  Holds(out, n)
        BY <1>4 DEF Remembered
    <2>1. CASE n = turns + 1
        BY <1>2, <1>3, <2>1
    <2>2. CASE n \in (resetAt + 1) .. turns
        <3>1. n > turns - (MaxTurns + SummaryTurns)
            BY <1>1, SettingsAssumption
        <3> QED BY <1>1, <1>3, <2>2, <3>1 DEF Remembered
    <2> QED BY <1>1, <2>1, <2>2
<1>7. ResetForgets'
    <2> SUFFICES ASSUME NEW i \in DOMAIN out, NEW n \in out[i].turns
                 PROVE  n > resetAt \/ (n = resetAt /\ out[i].role # "user")
        BY <1>4, <1>9 DEF ResetForgets
    <2>1. CASE out[i] = msg
        BY <1>1, <1>2, <2>1
    <2>2. CASE \E j \in DOMAIN context : out[i] = context[j]
        BY <1>1, <2>2 DEF ResetForgets
    <2> QED BY <1>3, <2>1, <2>2
<1>10. Ordered(context)' /\ Past(context, turns)'
    BY <1>4, <1>8 DEF Ordered, Past
<1> QED BY <1>3, <1>4, <1>5, <1>6, <1>7, <1>10 DEF ContextInv

(* The compactor.                                                          *)
LEMMA ContextTrimmed ==
    ASSUME IInv, Compacts
    PROVE  ContextInv' /\ context' \in Seq(Messages)
<1>1. /\ context \in Seq(Messages) /\ resetAt \in Nat /\ turns \in Nat
      /\ WellFormed(context) /\ Ordered(context) /\ Past(context, turns)
      /\ Unanswered(context, turns) /\ Remembered /\ ResetForgets
    BY DEF IInv, ContextInv, TypeOK, Compacts, UnderWay
<1>2. PICK oldest \in Oldest(context) : context' = Trimmed(context, oldest)
    BY DEF Compacts, Trimmed
<1> DEFINE out == Trimmed(context, oldest)
<1>3. /\ context' = out /\ frame' = "grounding"
      /\ settings' = settings /\ turns' = turns /\ resetAt' = resetAt
    BY <1>2 DEF Compacts
<1>4. /\ out \in Seq(Messages) /\ WellFormed(out) /\ Bounded(out)
      /\ \A n \in Nat : n > turns - (MaxTurns + SummaryTurns) /\ Holds(context, n)
             => Holds(out, n)
      /\ \A i \in DOMAIN out :
             \/ \E j \in DOMAIN context : out[i] = context[j]
             \/ /\ out[i].role = "summary"
                /\ \A n \in out[i].turns : \E j \in DOMAIN context : n \in context[j].turns
      /\ Descends(out, context)
    BY <1>1, TrimmedEffect
<1> HIDE DEF out
<1>5. Ordered(out)
    <2>1. \A i \in DOMAIN out : out[i].role = "user" => \E j \in DOMAIN context : out[i] = context[j]
        BY <1>4
    <2> QED BY <1>1, <1>4, <2>1, OrderKept
<1>6. Past(out, turns)
    BY <1>1, <1>4 DEF Past
<1>7. Unanswered(out, turns)
    <2> SUFFICES ASSUME NEW i \in DOMAIN out, turns \in out[i].turns, out[i].role = "summary"
                 PROVE  FALSE
        BY <1>1, <1>4 DEF Unanswered
    <2>1. i = 1 /\ Len(out) > 1 /\ out[2].role = "user"
        <3>1. i = 1
            BY <1>4 DEF WellFormed
        <3>2. out # <<>>
            BY <1>4, EmptySeq
        <3> QED BY <1>4, <3>1, <3>2 DEF WellFormed
    <2>2. 2 \in DOMAIN out /\ 1 \in DOMAIN out
        BY <1>4, <2>1
    <2>3. PICK t : out[2].turns = {t}
        BY <1>5, <2>1, <2>2 DEF Ordered
    <2>4. turns < t
        BY <1>5, <2>1, <2>2, <2>3 DEF Ordered
    <2>5. t <= turns
        BY <1>6, <2>2, <2>3 DEF Past
    <2>6. t \in Nat
        <3>1. out[2] \in Messages
            BY <1>4, <2>2
        <3> QED BY <2>3, <3>1 DEF Messages
    <2> QED BY <1>1, <2>4, <2>5, <2>6
<1>8. Remembered'
    <2>1. (resetAt + 1) .. turns \subseteq Nat
        BY <1>1
    <2> QED BY <1>1, <1>3, <1>4, <2>1 DEF Remembered
<1>9. ResetForgets'
    <2>1. \A i, j \in DOMAIN context :
              resetAt \in context[i].turns /\ resetAt \in context[j].turns => i = j
        BY <1>1 DEF ResetForgets
    <2>2. \A i, j \in DOMAIN out : resetAt \in out[i].turns /\ resetAt \in out[j].turns => i = j
        BY <1>1, <1>4, <2>1, OnceKept
    <2> SUFFICES ASSUME NEW i \in DOMAIN out, NEW n \in out[i].turns
                 PROVE  n > resetAt \/ (n = resetAt /\ out[i].role # "user")
        BY <1>3, <2>2 DEF ResetForgets
    <2>3. CASE \E j \in DOMAIN context : out[i] = context[j]
        BY <1>1, <2>3 DEF ResetForgets
    <2>4. CASE /\ out[i].role = "summary"
               /\ \A k \in out[i].turns : \E j \in DOMAIN context : k \in context[j].turns
        BY <1>1, <2>4 DEF ResetForgets
    <2> QED BY <1>4, <2>3, <2>4
<1>10. Ordered(context)' /\ Past(context, turns)' /\ Unanswered(context, turns)'
    BY <1>3, <1>5, <1>6, <1>7 DEF Ordered, Past, Unanswered
<1> QED BY <1>3, <1>4, <1>8, <1>9, <1>10 DEF ContextInv

(* The grounding.                                                          *)
LEMMA ContextGrounded ==
    ASSUME IInv, Grounds
    PROVE  ContextInv' /\ context' \in Seq(Messages)
<1>1. /\ context \in Seq(Messages) /\ resetAt \in Nat /\ turns \in Nat
      /\ WellFormed(context) /\ Ordered(context) /\ Past(context, turns)
      /\ Unanswered(context, turns) /\ Remembered /\ ResetForgets
      /\ Bounded(context)
    BY DEF IInv, ContextInv, TypeOK, Grounds, UnderWay
<1>2. /\ frame' = "bypass"
      /\ settings' = settings /\ turns' = turns /\ resetAt' = resetAt
    BY DEF Grounds
<1>3. CASE LastSaid(context) = "nothing" \/ settings.badDocument
    <2>1. context' = context
        BY <1>3 DEF Grounds
    <2>2. Fitting(context)
        <3>1. CASE LastSaid(context) = "nothing"
            BY <1>1, <3>1, NoWords DEF Fitting
        <3>2. CASE settings.badDocument
            BY <3>2 DEF Fitting
        <3> QED BY <1>3, <3>1, <3>2
    <2>3. Fitting(context)'
        BY <1>2, <2>1, <2>2 DEF Fitting
    <2>4. Remembered' /\ ResetForgets'
        BY <1>1, <1>2, <2>1 DEF Remembered, ResetForgets, Holds
    <2>5. WellFormed(context)' /\ Bounded(context)'
        BY <1>1, <2>1 DEF WellFormed, Bounded, Users
    <2>6. Ordered(context)' /\ Past(context, turns)' /\ Unanswered(context, turns)'
        BY <1>1, <1>2, <2>1 DEF Ordered, Past, Unanswered
    <2> QED BY <1>1, <2>1, <2>3, <2>4, <2>5, <2>6 DEF ContextInv
<1>4. CASE ~ (LastSaid(context) = "nothing" \/ settings.badDocument)
    <2> DEFINE out == WithNotes(context)
    <2>1. context' = out
        BY <1>4 DEF Grounds
    <2>2. /\ out \in Seq(Messages) /\ WellFormed(out)
          /\ LastSaid(out) = LastSaid(context)
          /\ OfRoles(out, NoteRoles) = NotesAbout(LastSaid(context))
          /\ Bounded(out)
          /\ \A n : Holds(context, n) => Holds(out, n)
          /\ \A i \in DOMAIN out : \/ \E j \in DOMAIN context : out[i] = context[j]
                                   \/ (out[i].turns = {} /\ out[i].role \in NoteRoles)
          /\ Descends(out, context)
        BY <1>1, <1>4, WithNotesEffect
    <2> HIDE DEF out
    <2>3. Ordered(out)
        <3>1. \A i \in DOMAIN out :
                  out[i].role = "user" => \E j \in DOMAIN context : out[i] = context[j]
            BY <2>2 DEF NoteRoles
        <3> QED BY <1>1, <2>2, <3>1, OrderKept
    <2>7. Past(out, turns) /\ Unanswered(out, turns)
        BY <1>1, <2>2 DEF Past, Unanswered
    <2>8. \A i, j \in DOMAIN out : resetAt \in out[i].turns /\ resetAt \in out[j].turns => i = j
        <3>1. \A i, j \in DOMAIN context :
                  resetAt \in context[i].turns /\ resetAt \in context[j].turns => i = j
            BY <1>1 DEF ResetForgets
        <3> QED BY <1>1, <2>2, <3>1, OnceKept
    <2>9. Ordered(context)' /\ Past(context, turns)' /\ Unanswered(context, turns)'
        BY <1>2, <2>1, <2>3, <2>7 DEF Ordered, Past, Unanswered
    <2>4. Remembered'
        BY <1>1, <1>2, <2>1, <2>2 DEF Remembered
    <2>5. ResetForgets'
        <3> SUFFICES ASSUME NEW i \in DOMAIN out, NEW n \in out[i].turns
                     PROVE  n > resetAt \/ (n = resetAt /\ out[i].role # "user")
            BY <1>2, <2>1, <2>8 DEF ResetForgets
        <3> QED BY <1>1, <2>2 DEF ResetForgets
    <2>6. Fitting(context)'
        BY <1>2, <1>4, <2>1, <2>2 DEF Fitting
    <2> QED BY <2>1, <2>2, <2>4, <2>5, <2>6, <2>9 DEF ContextInv
<1> QED BY <1>3, <1>4

-----------------------------------------------------------------------------
(* The steps.                                                              *)
ReplyShape == [on : BOOLEAN, sentences : 0 .. MaxReply, words : 0 .. MaxReply]
PolicyShape == [sentences : 0 .. MaxSentences, words : 0 .. MaxWords, truncating : BOOLEAN]
SpokenShape == [sentences : 0 .. MaxSentences, words : 0 .. MaxWords]

(* Where every counter starts.                                             *)
LEMMA FreshTypes ==
    /\ 0 \in 0 .. MaxReply /\ 0 \in 0 .. MaxSentences /\ 0 \in 0 .. NumTurns
    /\ 0 \in 0 .. SttWindow /\ 0 \in 0 .. DedupTtl /\ 0 \in 0 .. IdleTimeout + 1
    /\ NoReply \in ReplyShape /\ ~ NoReply.on
    /\ NoReply.sentences = 0 /\ NoReply.words = 0
    /\ [NoReply EXCEPT !.on = TRUE] \in ReplyShape
    /\ NothingSpoken \in SpokenShape
    /\ NothingSpoken.sentences = 0 /\ NothingSpoken.words = 0
    /\ [sentences |-> 0, words |-> 0, truncating |-> FALSE] \in PolicyShape
<1>1. /\ 0 \in 0 .. MaxReply /\ 0 \in 0 .. MaxSentences /\ 0 \in 0 .. NumTurns
      /\ 0 \in 0 .. SttWindow /\ 0 \in 0 .. DedupTtl /\ 0 \in 0 .. IdleTimeout + 1
      /\ 0 \in 0 .. MaxWords
    BY SettingsAssumption, BoundsAssumption
<1>2. NoReply = [on |-> FALSE, sentences |-> 0, words |-> 0]
    BY DEF NoReply
<1>3. \A r \in ReplyShape : [r EXCEPT !.on = TRUE] \in ReplyShape
    BY DEF ReplyShape
<1>4. /\ NoReply \in ReplyShape /\ ~ NoReply.on
      /\ NoReply.sentences = 0 /\ NoReply.words = 0
    BY <1>1, <1>2 DEF ReplyShape
<1>5. [NoReply EXCEPT !.on = TRUE] \in ReplyShape
    BY <1>3, <1>4, Zenon
<1>6. /\ NothingSpoken \in SpokenShape
      /\ NothingSpoken.sentences = 0 /\ NothingSpoken.words = 0
    BY <1>1 DEF NothingSpoken, SpokenShape
<1>7. [sentences |-> 0, words |-> 0, truncating |-> FALSE] \in PolicyShape
    BY <1>1 DEF PolicyShape
<1> QED BY <1>1, <1>4, <1>5, <1>6, <1>7

(* The conversation starts with the greeting.                              *)
LEMMA InitIInv == Init => IInv
<1> SUFFICES ASSUME Init PROVE IInv
    OBVIOUS
<1>1. Intro \in Messages /\ Intro.role = "assistant" /\ Intro.turns = {0}
    BY BoundsAssumption DEF Intro, Message, Messages, Roles
<1>2. /\ <<Intro>> \in Seq(Messages) /\ DOMAIN <<Intro>> = {1} /\ <<Intro>>[1] = Intro
      /\ <<>> \in Seq(Messages) /\ DOMAIN <<>> = {} /\ Len(<<>>) = 0
    BY <1>1, EmptySeq
<1> HIDE DEF Intro
<1>3. context \in Seq(Messages)
    BY <1>2 DEF Init
<1>4. \A i \in DOMAIN context : i = 1 /\ context[i] = Intro
    BY <1>2 DEF Init
<1>5. TypeOK
    <2>1. recent \in [Said -> 0 .. SttWindow]
        BY FreshTypes DEF Init
    <2>2. seen \in [Canned -> 0 .. DedupTtl]
        BY FreshTypes DEF Init
    <2>3. silence \in 0 .. IdleTimeout + 1
        BY FreshTypes DEF Init
    <2>4. /\ turns \in 0 .. NumTurns /\ resetAt \in 0 .. turns /\ spoken \in SpokenShape
          /\ reply \in ReplyShape /\ policy \in PolicyShape
        BY FreshTypes DEF Init
    <2>5. /\ settings \in [wakeMode : BOOLEAN, badDocument : BOOLEAN]
          /\ active \in BOOLEAN /\ talking \in BOOLEAN
          /\ pending \in {<<>>} \cup {<<u>> : u \in Said}
          /\ frame \in {"none", "compactor", "grounding", "bypass", "llm"}
          /\ fate \in {"none", "open", "interrupted", "swallowed", "answered", "failed"}
        BY DEF Init
    <2> QED BY <1>3, <2>1, <2>2, <2>3, <2>4, <2>5
            DEF TypeOK, ReplyShape, PolicyShape, SpokenShape
<1>6. OneAtATime /\ PolicyInStep /\ ReplyIsCapped
    BY FreshTypes DEF Init, OneAtATime, PolicyInStep, ReplyIsCapped
<1>7. ContextInv
    <2>1. context # <<>> => context[1] = Intro
        BY <1>2 DEF Init
    <2>2. WellFormed(context)
        BY <1>1, <1>4, <2>1 DEF WellFormed, NoteRoles
    <2>3. ResetForgets /\ Ordered(context) /\ Past(context, turns)
        BY <1>1, <1>4 DEF ResetForgets, Ordered, Past, Init
    <2>4. Remembered
        BY DEF Remembered, Init
    <2>5. ~ UnderWay
        BY FreshTypes DEF UnderWay, Init
    <2> QED BY <2>2, <2>3, <2>4, <2>5 DEF ContextInv, Init
<1> QED BY <1>5, <1>6, <1>7 DEF IInv

(* The visitor starts to speak, and interrupts.                            *)
LEMMA SpeechStartsStep ==
    ASSUME IInv, SpeechStarts
    PROVE  IInv'
<1>1. ContextInv' /\ context' \in Seq(Messages)
    <2>1. frame' = "none" /\ ~ reply'.on /\ UNCHANGED <<settings, turns, resetAt>>
        BY FreshTypes DEF SpeechStarts
    <2>2. spoken.words > 0 => UnderWay
        BY DEF IInv, PolicyInStep, UnderWay
    <2>3. \/ context' = context
          \/ UnderWay /\ context' = Append(context, Message("assistant", {turns}, "reply"))
        BY <2>2 DEF SpeechStarts, CommitSpoken
    <2> QED BY <2>1, <2>3, ContextReply
<1>2. TypeOK'
    <2>1. reply' \in ReplyShape /\ spoken' \in SpokenShape
        BY FreshTypes DEF SpeechStarts
    <2>2. policy' \in PolicyShape
        BY FreshTypes DEF IInv, TypeOK, SpeechStarts, FreshPolicy, PolicyShape
    <2> QED BY <1>1, <2>1, <2>2, FreshTypes
            DEF IInv, TypeOK, SpeechStarts, gateVars, ReplyShape, PolicyShape, SpokenShape
<1>3. OneAtATime' /\ PolicyInStep' /\ ReplyIsCapped'
    BY FreshTypes DEF SpeechStarts, OneAtATime, PolicyInStep, ReplyIsCapped
<1> QED BY <1>1, <1>2, <1>3 DEF IInv

(* STTGuard notes when it heard a text.                                    *)
LEMMA HeardType ==
    ASSUME IInv, NEW u \in Said, Heard(u)
    PROVE  recent' \in [Said -> 0 .. SttWindow]
<1>1. recent \in [Said -> 0 .. SttWindow] /\ SttWindow \in 0 .. SttWindow
    BY SettingsAssumption DEF IInv, TypeOK
<1> QED BY <1>1 DEF Heard

(* WakeGate admits a transcription.                                        *)
LEMMA AdmittedStep ==
    ASSUME IInv, NEW u \in Said, Admitted(u)
    PROVE  IInv'
<1>1. ContextInv'
    BY ContextKept DEF Admitted, Heard, UnderWay
<1>2. TypeOK'
    <2>1. recent' \in [Said -> 0 .. SttWindow]
        BY HeardType DEF Admitted
    <2>2. pending' \in {<<>>} \cup {<<v>> : v \in Said}
        BY DEF Admitted
    <2>3. /\ settings \in [wakeMode : BOOLEAN, badDocument : BOOLEAN]
          /\ context \in Seq(Messages) /\ turns \in 0 .. NumTurns /\ resetAt \in 0 .. turns
        BY DEF IInv, TypeOK
    <2> QED BY <2>1, <2>2, <2>3, FreshTypes DEF IInv, TypeOK, Admitted, Heard
<1>3. OneAtATime' /\ PolicyInStep' /\ ReplyIsCapped'
    BY DEF IInv, Admitted, Heard, OneAtATime, PolicyInStep, ReplyIsCapped
<1> QED BY <1>1, <1>2, <1>3 DEF IInv

(* WakeGate finds that its time has run out, and resets the conversation.  *)
LEMMA FindsTimeoutStep ==
    ASSUME IInv, NEW u \in Said, FindsTimeout(u)
    PROVE  IInv'
<1>1. /\ ContextInv'
      /\ context' \in Seq(Messages) /\ turns' \in 0 .. NumTurns /\ resetAt' \in 0 .. turns'
    BY ContextReset DEF FindsTimeout, Heard
<1>2. TypeOK'
    <2>1. recent' \in [Said -> 0 .. SttWindow]
        BY HeardType DEF FindsTimeout
    <2> QED BY <1>1, <2>1 DEF IInv, TypeOK, FindsTimeout, Heard
<1>3. OneAtATime' /\ PolicyInStep' /\ ReplyIsCapped'
    BY DEF IInv, FindsTimeout, Heard, ResetConversation, OneAtATime, PolicyInStep, ReplyIsCapped
<1> QED BY <1>1, <1>2, <1>3 DEF IInv

(* WakeGate drops what is said to a sleeping robot.                        *)
LEMMA DroppedWhenIdleStep ==
    ASSUME IInv, NEW u \in Said, DroppedWhenIdle(u)
    PROVE  IInv'
<1>1. ContextInv'
    BY ContextKept DEF DroppedWhenIdle, Heard, UnderWay
<1>2. TypeOK'
    <2>1. recent' \in [Said -> 0 .. SttWindow]
        BY HeardType DEF DroppedWhenIdle
    <2> QED BY <2>1 DEF IInv, TypeOK, DroppedWhenIdle, Heard
<1>3. OneAtATime' /\ PolicyInStep' /\ ReplyIsCapped'
    BY DEF IInv, DroppedWhenIdle, Heard, OneAtATime, PolicyInStep, ReplyIsCapped
<1> QED BY <1>1, <1>2, <1>3 DEF IInv

(* The user aggregator adds the turn to the context.                       *)
LEMMA TurnEndsStep ==
    ASSUME IInv, TurnEnds
    PROVE  IInv'
<1>1. /\ pending' = <<>> /\ talking' = FALSE
      /\ UNCHANGED <<settings, resetAt, reply, policy, spoken, seen, recent, active, silence>>
      /\ turns \in Nat /\ turns < NumTurns /\ frame = "none" /\ ~ reply.on
    BY DEF IInv, TypeOK, OneAtATime, TurnEnds, gateVars
<1>2. CASE pending = <<>>
    <2>1. UNCHANGED <<context, turns, frame, fate>>
        BY <1>2 DEF TurnEnds
    <2>2. ContextInv'
        BY <1>1, <2>1, ContextKept DEF UnderWay
    <2>3. TypeOK'
        BY <1>1, <2>1 DEF IInv, TypeOK
    <2>4. OneAtATime' /\ PolicyInStep' /\ ReplyIsCapped'
        BY <1>1, <2>1 DEF IInv, OneAtATime, PolicyInStep, ReplyIsCapped
    <2> QED BY <2>2, <2>3, <2>4 DEF IInv
<1>3. CASE pending # <<>>
    <2>1. PICK u \in Said : pending = <<u>>
        BY <1>3 DEF IInv, TypeOK
    <2>2. Head(pending) = u
        BY <2>1
    <2>3. /\ turns' = turns + 1 /\ frame' = "compactor" /\ fate' = "open"
          /\ context' = Append(context, Message("user", {turns + 1}, u))
        BY <1>3, <2>2 DEF TurnEnds
    <2>4. ContextInv' /\ context' \in Seq(Messages)
        BY <1>1, <2>3, ContextSaid
    <2>5. turns' \in 0 .. NumTurns /\ resetAt' \in 0 .. turns'
        BY <1>1, <2>3, BoundsAssumption DEF IInv, TypeOK
    <2>6. TypeOK'
        BY <1>1, <2>3, <2>4, <2>5 DEF IInv, TypeOK
    <2>7. OneAtATime' /\ PolicyInStep' /\ ReplyIsCapped'
        BY <1>1, <2>3 DEF IInv, OneAtATime, PolicyInStep, ReplyIsCapped
    <2> QED BY <2>4, <2>6, <2>7 DEF IInv
<1> QED BY <1>2, <1>3

(* ContextCompactor handles the context frame.                             *)
LEMMA CompactsStep ==
    ASSUME IInv, Compacts
    PROVE  IInv'
<1>1. ContextInv' /\ context' \in Seq(Messages)
    BY ContextTrimmed
<1>2. TypeOK'
    BY <1>1 DEF IInv, TypeOK, Compacts, gateVars
<1>3. OneAtATime' /\ PolicyInStep' /\ ReplyIsCapped'
    BY DEF IInv, Compacts, OneAtATime, PolicyInStep, ReplyIsCapped
<1> QED BY <1>1, <1>2, <1>3 DEF IInv

(* TurnGrounding replaces the notes.                                       *)
LEMMA GroundsStep ==
    ASSUME IInv, Grounds
    PROVE  IInv'
<1>1. ContextInv' /\ context' \in Seq(Messages)
    BY ContextGrounded
<1>2. TypeOK'
    BY <1>1 DEF IInv, TypeOK, Grounds, gateVars
<1>3. OneAtATime' /\ PolicyInStep' /\ ReplyIsCapped'
    BY DEF IInv, Grounds, OneAtATime, PolicyInStep, ReplyIsCapped
<1> QED BY <1>1, <1>2, <1>3 DEF IInv

(* SmallTalkBypass lets the frame pass.                                    *)
LEMMA GoesToLLMStep ==
    ASSUME IInv, GoesToLLM
    PROVE  IInv'
<1>1. ContextInv'
    BY ContextKept DEF GoesToLLM, contextVars, replyVars, UnderWay
<1>2. TypeOK'
    BY DEF IInv, TypeOK, GoesToLLM, contextVars, gateVars, replyVars
<1>3. OneAtATime' /\ PolicyInStep' /\ ReplyIsCapped'
    BY DEF IInv, GoesToLLM, OneAtATime, PolicyInStep, ReplyIsCapped, contextVars, replyVars
<1> QED BY <1>1, <1>2, <1>3 DEF IInv

(* SmallTalkBypass answers itself.                                         *)
LEMMA BypassesStep ==
    ASSUME IInv, NEW r \in Canned, Bypasses(r)
    PROVE  IInv'
<1>1. ContextInv' /\ context' \in Seq(Messages)
    <2>1. frame = "bypass" /\ UnderWay /\ ~ reply.on /\ reply' = reply
        BY DEF IInv, OneAtATime, UnderWay, Bypasses
    <2> QED BY <2>1, ContextReply DEF Bypasses
<1>2. TypeOK'
    <2>1. policy' \in [sentences : 0 .. MaxSentences, words : 0 .. MaxWords,
                      truncating : BOOLEAN]
        BY FreshTypes DEF Bypasses, FreshPolicy, PolicyShape
    <2>2. seen' \in [Canned -> 0 .. DedupTtl]
        <3>1. seen \in [Canned -> 0 .. DedupTtl] /\ DedupTtl \in 0 .. DedupTtl
            BY SettingsAssumption DEF IInv, TypeOK
        <3> QED BY <3>1 DEF Bypasses
    <2>3. fate' \in {"swallowed", "answered"}
        BY DEF Bypasses
    <2> QED BY <1>1, <2>1, <2>2, <2>3 DEF IInv, TypeOK, Bypasses, gateVars
<1>3. OneAtATime' /\ PolicyInStep' /\ ReplyIsCapped'
    BY DEF IInv, Bypasses, OneAtATime, PolicyInStep, ReplyIsCapped
<1> QED BY <1>1, <1>2, <1>3 DEF IInv

(* The LLM starts to answer.                                               *)
LEMMA LLMStartsStep ==
    ASSUME IInv, LLMStarts
    PROVE  IInv'
<1>1. ContextInv'
    BY ContextKept DEF LLMStarts, contextVars, UnderWay
<1>2. TypeOK'
    BY FreshTypes DEF IInv, TypeOK, LLMStarts, FreshPolicy, contextVars, gateVars,
                      ReplyShape, PolicyShape, SpokenShape
<1>3. OneAtATime'
    BY DEF IInv, LLMStarts, OneAtATime, contextVars
<1>4. PolicyInStep' /\ ReplyIsCapped'
    <2>1. /\ reply'.sentences = 0 /\ reply'.words = 0
          /\ spoken'.sentences = 0 /\ spoken'.words = 0 /\ reply'.on
          /\ policy'.sentences = 0 /\ policy'.words = 0 /\ policy'.truncating = FALSE
        BY FreshTypes DEF LLMStarts, FreshPolicy, NoReply
    <2>2. 0 <= MaxSentences /\ 0 <= MaxWords
        BY SettingsAssumption
    <2> QED BY <2>1, <2>2 DEF PolicyInStep, ReplyIsCapped
<1> QED BY <1>1, <1>2, <1>3, <1>4 DEF IInv

(* A piece of the answer passes the policy, or not.                        *)
LEMMA LLMWritesStep ==
    ASSUME IInv, NEW d \in Deltas, LLMWrites(d)
    PROVE  IInv'
<1>1. ContextInv'
    BY ContextKept DEF LLMWrites, contextVars, UnderWay
<1> DEFINE sentences == policy.sentences + d.marks
           words == policy.words + d.words
<1>2. /\ reply \in ReplyShape /\ reply.on /\ policy \in PolicyShape /\ spoken \in SpokenShape
      /\ reply.sentences <= reply.words /\ reply.words + d.words <= MaxReply
      /\ policy.sentences = spoken.sentences /\ policy.words = spoken.words
      /\ IF policy.truncating
         THEN reply.sentences > MaxSentences \/ reply.words > MaxWords
         ELSE spoken.sentences = reply.sentences /\ spoken.words = reply.words
    BY DEF IInv, TypeOK, LLMWrites, PolicyInStep, ReplyShape, PolicyShape, SpokenShape
<1>3. /\ MaxReply \in Nat /\ MaxSentences \in Nat /\ MaxWords \in Nat
      /\ d.words \in 1 .. 2 /\ d.marks \in 0 .. 1
      /\ reply.sentences \in Nat /\ reply.words \in Nat
      /\ spoken.sentences \in 0 .. MaxSentences /\ spoken.words \in 0 .. MaxWords
    BY <1>2, SettingsAssumption, BoundsAssumption DEF Deltas, ReplyShape, SpokenShape
<1>4. /\ reply' \in ReplyShape /\ reply'.on
      /\ reply'.sentences = reply.sentences + d.marks /\ reply'.words = reply.words + d.words
      /\ reply'.sentences <= reply'.words
    <2>1. reply' = [on |-> TRUE, sentences |-> reply.sentences + d.marks,
                    words |-> reply.words + d.words]
        BY DEF LLMWrites
    <2>2. /\ reply.sentences + d.marks \in 0 .. MaxReply
          /\ reply.words + d.words \in 0 .. MaxReply
          /\ reply.sentences + d.marks <= reply.words + d.words
        BY <1>2, <1>3
    <2> QED BY <2>1, <2>2 DEF ReplyShape
<1>5. /\ policy' \in PolicyShape /\ spoken' \in SpokenShape
      /\ PolicyInStep' /\ ReplyIsCapped'
    <2>1. CASE policy.truncating
        <3>1. policy' = policy /\ spoken' = spoken
            BY <2>1 DEF LLMWrites
        <3> QED BY <1>2, <1>3, <1>4, <2>1, <3>1 DEF PolicyInStep, ReplyIsCapped
    <2>2. CASE ~ policy.truncating /\ (sentences > MaxSentences \/ words > MaxWords)
        <3>1. policy' = [policy EXCEPT !.truncating = TRUE] /\ spoken' = spoken
            BY <2>2 DEF LLMWrites
        <3>2. /\ policy' \in PolicyShape /\ policy'.truncating = TRUE
              /\ policy'.sentences = policy.sentences /\ policy'.words = policy.words
            BY <1>2, <3>1 DEF PolicyShape
        <3> QED BY <1>2, <1>3, <1>4, <2>2, <3>1, <3>2 DEF PolicyInStep, ReplyIsCapped
    <2>3. CASE ~ policy.truncating /\ ~ (sentences > MaxSentences \/ words > MaxWords)
        <3>1. /\ policy' = [sentences |-> sentences, words |-> words, truncating |-> FALSE]
              /\ spoken' = [sentences |-> spoken.sentences + d.marks,
                            words |-> spoken.words + d.words]
            BY <2>3 DEF LLMWrites
        <3>2. /\ sentences \in 0 .. MaxSentences /\ words \in 0 .. MaxWords
              /\ sentences = spoken.sentences + d.marks /\ words = spoken.words + d.words
            BY <1>2, <1>3, <2>3
        <3>3. /\ policy'.sentences = sentences /\ policy'.words = words
              /\ policy'.truncating = FALSE /\ policy' \in PolicyShape
            BY <3>1, <3>2 DEF PolicyShape
        <3>4. /\ spoken'.sentences = sentences /\ spoken'.words = words
              /\ spoken' \in SpokenShape
            BY <3>1, <3>2 DEF SpokenShape
        <3>5. sentences = reply.sentences + d.marks /\ words = reply.words + d.words
            BY <1>2, <2>3, <3>2
        <3> HIDE DEF sentences, words
        <3> QED BY <1>3, <1>4, <3>2, <3>3, <3>4, <3>5 DEF PolicyInStep, ReplyIsCapped
    <2> QED BY <2>1, <2>2, <2>3
<1>6. TypeOK'
    BY <1>4, <1>5 DEF IInv, TypeOK, LLMWrites, contextVars, gateVars,
                      ReplyShape, PolicyShape, SpokenShape
<1>7. OneAtATime'
    BY <1>2 DEF IInv, LLMWrites, OneAtATime, contextVars
<1> QED BY <1>1, <1>5, <1>6, <1>7 DEF IInv

(* The answer is complete.                                                 *)
LEMMA LLMEndsStep ==
    ASSUME IInv, LLMEnds
    PROVE  IInv'
<1>1. frame' = "none" /\ frame = "none"
    BY DEF IInv, OneAtATime, LLMEnds
<1>2. ContextInv' /\ context' \in Seq(Messages)
    <2>1. ~ reply'.on /\ UnderWay /\ UNCHANGED <<settings, turns, resetAt>>
        BY FreshTypes DEF LLMEnds, UnderWay
    <2> QED BY <1>1, <2>1, ContextReply DEF LLMEnds, CommitSpoken
<1>3. TypeOK'
    BY <1>2, FreshTypes DEF IInv, TypeOK, LLMEnds, FreshPolicy, gateVars,
                            ReplyShape, PolicyShape, SpokenShape
<1>4. OneAtATime' /\ PolicyInStep' /\ ReplyIsCapped'
    BY FreshTypes DEF IInv, LLMEnds, OneAtATime, PolicyInStep, ReplyIsCapped
<1> QED BY <1>2, <1>3, <1>4 DEF IInv

(* The request to the LLM fails.                                           *)
LEMMA LLMFailsStep ==
    ASSUME IInv, LLMFails
    PROVE  IInv'
<1>1. ContextInv'
    BY ContextKept DEF LLMFails, contextVars, replyVars, UnderWay
<1>2. TypeOK'
    BY DEF IInv, TypeOK, LLMFails, contextVars, gateVars, replyVars
<1>3. OneAtATime' /\ PolicyInStep' /\ ReplyIsCapped'
    BY DEF IInv, LLMFails, OneAtATime, PolicyInStep, ReplyIsCapped, contextVars, replyVars
<1> QED BY <1>1, <1>2, <1>3 DEF IInv

(* The buttons: reset, wake, sleep.                                        *)
LEMMA ClientStep ==
    ASSUME IInv, Client
    PROVE  IInv'
<1>1. CASE Wakes
    <2>1. ContextInv'
        BY <1>1, ContextKept DEF Wakes, contextVars, replyVars, UnderWay
    <2>2. TypeOK'
        BY <1>1, FreshTypes DEF IInv, TypeOK, Wakes, contextVars, replyVars
    <2>3. OneAtATime' /\ PolicyInStep' /\ ReplyIsCapped'
        BY <1>1 DEF IInv, Wakes, OneAtATime, PolicyInStep, ReplyIsCapped, contextVars, replyVars
    <2> QED BY <2>1, <2>2, <2>3 DEF IInv
<1>2. CASE ClientResets \/ Sleeps
    <2>1. /\ ResetConversation /\ active' \in {active, FALSE}
          /\ UNCHANGED <<settings, recent, silence, talking, pending, frame, seen, fate,
                         reply, policy, spoken>>
        BY <1>2 DEF ClientResets, Sleeps, gateVars, replyVars
    <2>2. /\ ContextInv'
          /\ context' \in Seq(Messages) /\ turns' \in 0 .. NumTurns /\ resetAt' \in 0 .. turns'
        BY <2>1, ContextReset
    <2>3. TypeOK'
        <3>1. active' \in BOOLEAN /\ settings' = settings /\ recent' = recent
              /\ silence' = silence /\ talking' = talking /\ pending' = pending
              /\ frame' = frame /\ seen' = seen /\ fate' = fate
              /\ reply' = reply /\ policy' = policy /\ spoken' = spoken
            BY <2>1 DEF IInv, TypeOK
        <3> QED BY <2>2, <3>1 DEF IInv, TypeOK
    <2>4. OneAtATime' /\ PolicyInStep' /\ ReplyIsCapped'
        BY <2>1 DEF IInv, ResetConversation, OneAtATime, PolicyInStep, ReplyIsCapped
    <2> QED BY <2>2, <2>3, <2>4 DEF IInv
<1> QED BY <1>1, <1>2 DEF Client

(* Time passes.                                                            *)
LEMMA TickStep ==
    ASSUME IInv, Tick
    PROVE  IInv'
<1>1. ContextInv'
    BY ContextKept DEF Tick, contextVars, replyVars, UnderWay
<1>2. TypeOK'
    <2>1. recent' \in [Said -> 0 .. SttWindow]
        <3>1. \A u \in Said : recent[u] \in 0 .. SttWindow
            BY DEF IInv, TypeOK
        <3>2. \A n \in 0 .. SttWindow : Down(n) \in 0 .. SttWindow
            BY SettingsAssumption DEF Down
        <3> QED BY <3>1, <3>2 DEF Tick
    <2>2. seen' \in [Canned -> 0 .. DedupTtl]
        <3>1. \A r \in Canned : seen[r] \in 0 .. DedupTtl
            BY DEF IInv, TypeOK
        <3>2. \A n \in 0 .. DedupTtl : Down(n) \in 0 .. DedupTtl
            BY SettingsAssumption DEF Down
        <3> QED BY <3>1, <3>2 DEF Tick
    <2>3. silence' \in 0 .. IdleTimeout + 1
        BY SettingsAssumption DEF IInv, TypeOK, Tick
    <2> QED BY <2>1, <2>2, <2>3 DEF IInv, TypeOK, Tick, contextVars, replyVars
<1>3. OneAtATime' /\ PolicyInStep' /\ ReplyIsCapped'
    BY DEF IInv, Tick, OneAtATime, PolicyInStep, ReplyIsCapped, contextVars, replyVars
<1> QED BY <1>1, <1>2, <1>3 DEF IInv

(* A stutter keeps the invariant.                                          *)
LEMMA StutterStep ==
    ASSUME IInv, UNCHANGED vars
    PROVE  IInv'
<1>1. ContextInv'
    BY ContextKept DEF vars, UnderWay
<1>2. TypeOK'
    BY DEF IInv, TypeOK, vars
<1>3. OneAtATime' /\ PolicyInStep' /\ ReplyIsCapped'
    BY DEF IInv, vars, OneAtATime, PolicyInStep, ReplyIsCapped
<1> QED BY <1>1, <1>2, <1>3 DEF IInv

(* Every step keeps the invariant.                                         *)
LEMMA NextIInv == IInv /\ [Next]_vars => IInv'
<1> SUFFICES ASSUME IInv, [Next]_vars PROVE IInv'
    OBVIOUS
<1>1. CASE Visitor
    BY <1>1, SpeechStartsStep, AdmittedStep, FindsTimeoutStep, DroppedWhenIdleStep,
       TurnEndsStep DEF Visitor
<1>2. CASE ContextFrame
    BY <1>2, CompactsStep, GroundsStep, GoesToLLMStep, BypassesStep DEF ContextFrame
<1>3. CASE LLM
    BY <1>3, LLMStartsStep, LLMWritesStep, LLMEndsStep, LLMFailsStep DEF LLM
<1>4. CASE Client
    BY <1>4, ClientStep
<1>5. CASE Tick
    BY <1>5, TickStep
<1>6. CASE UNCHANGED vars
    BY <1>6, StutterStep
<1> QED BY <1>1, <1>2, <1>3, <1>4, <1>5, <1>6 DEF Next

-----------------------------------------------------------------------------
(* The inductive invariant of the conversation pipeline.                   *)
THEOREM Invariance == Spec => []IInv
BY InitIInv, NextIInv, PTL DEF Spec

(* The types.                                                              *)
THEOREM TypeCorrect == Spec => []TypeOK
<1>1. IInv => TypeOK
    BY DEF IInv
<1> QED BY <1>1, Invariance, PTL

(* What is spoken of a reply stays within both limits, and nothing of a    *)
(* reply within them is swallowed, whatever interrupted the one before it. *)
THEOREM ReplyCapped == Spec => []ReplyIsCapped
<1>1. IInv => ReplyIsCapped
    BY DEF IInv
<1> QED BY <1>1, Invariance, PTL

(* No turn that was in the context when it was reset is in it again, but   *)
(* for the one reply under way.                                            *)
THEOREM ResetForgetsAll == Spec => []ResetForgets
<1>1. IInv => ResetForgets
    BY DEF IInv, ContextInv
<1> QED BY <1>1, Invariance, PTL

(* The LLM is asked with the last turns since a reset, MaxTurns of them    *)
(* and as many as a summary holds, however often it was made and cut.      *)
THEOREM TurnsRemembered == Spec => []AllTurnsRemembered
<1>1. ASSUME IInv PROVE AllTurnsRemembered
    <2> SUFFICES ASSUME NEW n \in (resetAt + 1) .. turns,
                        n > turns - (MaxTurns + SummaryTurns)
                 PROVE  n \in TurnsOf(OfRoles(context, {"user", "summary"}))
        BY DEF AllTurnsRemembered
    <2>1. context \in Seq(Messages) /\ Holds(context, n)
        BY <1>1 DEF IInv, TypeOK, ContextInv, Remembered
    <2>2. \E i \in DOMAIN context : /\ context[i].role \in {"user", "summary"}
                                    /\ n \in context[i].turns
        BY <2>1 DEF Holds
    <2> QED BY <2>1, <2>2, TurnsOfRoles
<1> QED BY <1>1, Invariance, PTL

(* The LLM is asked with at most MaxTurns user turns behind at most one    *)
(* summary, or with one turn more when compacting would gain nothing.      *)
THEOREM RequestIsBounded == Spec => []RequestBounded
<1>1. ASSUME IInv PROVE RequestBounded
    <2> SUFFICES ASSUME frame = "llm"
                 PROVE  /\ \A i \in DOMAIN context : context[i].role = "summary" => i = 1
                        /\ \/ Cardinality(Users(context)) <= MaxTurns
                           \/ /\ Cardinality(Users(context)) = MaxTurns + 1
                              /\ \A i \in {1, 2} : context[i].role = "user"
        BY DEF RequestBounded
    <2>1. WellFormed(context) /\ Bounded(context)
        BY <1>1 DEF IInv, ContextInv
    <2> QED BY <2>1 DEF WellFormed, Bounded, Users
<1> QED BY <1>1, Invariance, PTL

(* Where every document can be read, the LLM is asked with exactly the     *)
(* notes that the visitor's last words call for.                           *)
THEOREM NotesFit == Spec => []NotesFitLastWords
<1>1. ASSUME IInv PROVE NotesFitLastWords
    BY <1>1 DEF IInv, ContextInv, Fitting, NotesFitLastWords
<1> QED BY <1>1, Invariance, PTL
=============================================================================
