-------------------------- MODULE AcquisitionProofs --------------------------
(***************************************************************************)
(* Acquisition for any number of items, any page size, any set of coins    *)
(* and any bounds: types, what a producer sends and swallows, and how far  *)
(* the filter of the ai-worker lags behind.                                *)
(***************************************************************************)
EXTENDS Acquisition, FiniteSetTheorems, TLAPS

\* What the steps of the other part leave alone.
Rest == <<coins, judged, fate>>

\* Every step is one of these: steps of the producer alone, of the coins alone, or of
\* the worker.
LEMMA Steps ==
    Next <=> \/ (Post \/ EditSource \/ SeedMark \/ SeedReady \/ Fetch \/ Skip \/ Send \/ Mark \/ Sleep
                  \/ SendFails \/ MarkFails \/ Crash \/ RedisLoses) /\ UNCHANGED Rest
             \/ \E i \in Item : Lapse(i) /\ UNCHANGED Rest
             \/ (Tick \/ \E S \in SUBSET Coin, on \in BOOLEAN : SetActive(S, on)) /\ UNCHANGED <<source, judged, fate>>
             \/ \E i \in Item : Judge(i) \/ JudgeBlindly(i)
             \/ WorkerRestarts
  BY DEF Next, ProducerNext, PollStep, SourceFaults, CoinsPage, Rest

-----------------------------------------------------------------------------
(* Types *)

\* A page has an oldest item, which is not newer than the newest.
LEMMA OldestType ==
    ASSUME NEW top \in 1 .. LastItem
    PROVE  Oldest(top) \in Item
  BY ProducerAssumption DEF Oldest, Item

LEMMA TypeProducer ==
    ASSUME TypeOK, ProducerNext, UNCHANGED Rest
    PROVE  TypeOK'
<1> USE ProducerAssumption DEF TypeOK, Item, Rest, coins, editable
<1>1. CASE Post
  BY <1>1 DEF Post
<1>2. CASE SeedMark
  <2>1. posted \in Item
    BY <1>2 DEF SeedMark, Listed
  <2>3. Marks \subseteq Item
    BY Zenon DEF Marks
  <2>2. active' \in BOOLEAN
    <3>1. active' = active /\ active \in BOOLEAN
      BY <1>2 DEF SeedMark
    <3> QED
      BY <3>1, Zenon
  <2> QED
    BY <1>2, <2>1, <2>2, <2>3 DEF SeedMark
<1>3. CASE SeedReady
  BY <1>3 DEF SeedReady
<1>4. CASE Fetch
  <2>1. Oldest(posted) \in Item
    BY <1>4, OldestType DEF Fetch, Listed
  <2> QED
    BY <1>4, <2>1 DEF Fetch, Listed
<1>5. CASE Skip
  BY <1>5 DEF Skip, Walking
<1>6. CASE Send
  <2>1. next \in Item
    BY <1>6 DEF Send, Walking
  <2> QED
    BY <1>6, <2>1 DEF Send, Walking
<1>7. CASE Mark
  BY <1>7 DEF Mark
<1>8. CASE Sleep
  BY <1>8 DEF Sleep
<1>9. CASE SendFails
  <2>1. PICK arrived \in 0 .. 1 : sent' = [sent EXCEPT ![next] = @ + arrived]
    BY <1>9 DEF SendFails
  <2>2. next \in Item
    BY <1>9 DEF SendFails, Walking
  <2>3. sent' \in [Item -> Nat]
    BY <2>1, <2>2
  <2> QED
    BY <1>9, <2>3 DEF SendFails, Walking, Fault
<1>10. CASE MarkFails
  BY <1>10 DEF MarkFails, Fault
<1>11. CASE Crash
  BY <1>11 DEF Crash, Fault
<1>12. CASE RedisLoses
  <2>1. ready' \in BOOLEAN
    BY <1>12, Zenon DEF RedisLoses
  <2>2. seen' \subseteq Item
    BY <1>12 DEF RedisLoses
  <2> QED
    BY <1>12, <2>1, <2>2 DEF RedisLoses, Fault
<1>13. CASE \E i \in Item : Lapse(i)
  BY <1>13 DEF Lapse
<1>14. CASE EditSource
  <2>1. active' \in BOOLEAN
    BY <1>14, Zenon DEF EditSource
  <2>2. renamed' \in BOOLEAN
    <3>1. renamed' = renamed \/ renamed' = TRUE
      BY <1>14, Zenon DEF EditSource
    <3> QED
      BY <3>1, Zenon
  <2>3. renames' \in 0 .. MaxRenames
    BY <1>14 DEF EditSource
  <2> QED
    BY <1>14, <2>1, <2>2, <2>3 DEF EditSource
<1> QED
  BY <1>1, <1>2, <1>3, <1>4, <1>5, <1>6, <1>7, <1>8, <1>9, <1>10, <1>11, <1>12, <1>13, <1>14
     DEF ProducerNext, PollStep, SourceFaults

LEMMA TypeCoins ==
    ASSUME TypeOK, Tick \/ CoinsPage, UNCHANGED <<source, judged, fate>>
    PROVE  TypeOK'
<1> USE CoinAssumption DEF TypeOK, source, editable
<1>1. CASE Tick
  BY <1>1 DEF Tick, Older, Ages, Long
<1>2. CASE CoinsPage
  BY <1>2 DEF CoinsPage, SetActive, Ages, Long
<1> QED
  BY <1>1, <1>2

LEMMA TypeWorker ==
    ASSUME TypeOK, (\E i \in Item : Judge(i) \/ JudgeBlindly(i)) \/ WorkerRestarts
    PROVE  TypeOK'
<1> USE ProducerAssumption, CoinAssumption DEF TypeOK, Ages, Long, editable
<1>1. ASSUME NEW i \in Item, Judge(i) PROVE TypeOK'
  BY <1>1 DEF Judge, Filtered, Cached, Load, coins, source
<1>2. ASSUME NEW i \in Item, JudgeBlindly(i) PROVE TypeOK'
  BY <1>2 DEF JudgeBlindly, Filtered, LoadFails, Fault
<1>3. CASE WorkerRestarts
  BY <1>3 DEF WorkerRestarts, RestartWorker, Cold, Fault
<1> QED
  BY <1>1, <1>2, <1>3

\* Type correctness.
THEOREM TypeCorrect == Spec => []TypeOK
<1>1. Init => TypeOK
  <2> SUFFICES ASSUME Init PROVE TypeOK
    OBVIOUS
  <2>0. ready \in BOOLEAN /\ active \in BOOLEAN /\ renamed \in BOOLEAN
    BY Zenon DEF Init, ProducerInit
  <2>1. /\ posted \in 0 .. LastItem
        /\ next \in 0 .. LastItem /\ bottom \in 0 .. LastItem
        /\ renames \in 0 .. MaxRenames
        /\ lapses \in 0 .. MaxLapses /\ faults \in 0 .. MaxFaults
    BY ProducerAssumption DEF Init, ProducerInit
  <2>2. /\ tracked \subseteq Coin /\ cache \subseteq Coin
        /\ age \in Ages /\ calm \in Ages /\ span \in [Coin -> Ages]
    BY CoinAssumption DEF Init, CoinsInit, Ages, Long
  <2> QED
    BY <2>0, <2>1, <2>2 DEF Init, ProducerInit, TypeOK
<1>2. TypeOK /\ [Next]_vars => TypeOK'
  <2> SUFFICES ASSUME TypeOK, [Next]_vars PROVE TypeOK'
    OBVIOUS
  <2>1. CASE UNCHANGED vars
    BY <2>1 DEF vars, source, editable, coins, TypeOK
  <2>2. CASE Next
    BY <2>2, TypeProducer, TypeCoins, TypeWorker DEF Next, Rest
  <2> QED
    BY <2>1, <2>2
<1> QED
  BY <1>1, <1>2, PTL DEF Spec

-----------------------------------------------------------------------------
(* What is sent, and how often *)

\* The last send of an item is paid for by its mark, by the mark that is on its way, by
\* a lapse, by a fault, or by a new name, of which Fresh is the one still to be spent.
Paid(i)  == IF i \in seen \/ (at = "marking" /\ next = i) THEN 1 ELSE 0
Renewals == IF KeyedByName THEN renames ELSE 0
Fresh    == IF KeyedByName /\ renamed THEN 1 ELSE 0

SentInv == \A i \in Item : sent[i] + Fresh <= lapses + faults + Renewals + Paid(i)

\* Nothing but a step of the producer changes what SentInv and SwallowInv speak of,
\* except the count of faults, which grows.
LEMMA OtherSteps ==
    ASSUME TypeOK, Next, ~(ProducerNext /\ UNCHANGED Rest)
    PROVE  /\ UNCHANGED <<ready, seen, at, next, sent, seeded, lapses, renamed, renames>>
           /\ faults' \in Nat /\ faults <= faults'
<1> USE ProducerAssumption DEF TypeOK, editable
<1>1. CASE (Tick \/ CoinsPage) /\ UNCHANGED <<source, judged, fate>>
  BY <1>1 DEF source
<1>2. ASSUME NEW i \in Item, Judge(i) \/ JudgeBlindly(i)
      PROVE  /\ UNCHANGED <<ready, seen, at, next, sent, seeded, lapses, renamed, renames>>
             /\ faults' \in Nat /\ faults <= faults'
  BY <1>2 DEF Judge, JudgeBlindly, Fault, source
<1>3. CASE WorkerRestarts
  BY <1>3 DEF WorkerRestarts, Fault
<1> QED
  BY <1>1, <1>2, <1>3 DEF Next, Rest

LEMMA CountTypes ==
    ASSUME TypeOK
    PROVE  /\ lapses \in Nat /\ faults \in Nat /\ Renewals \in Nat /\ Fresh \in 0 .. 1
           /\ \A i \in Item : sent[i] \in Nat /\ Paid(i) \in 0 .. 1
  BY ProducerAssumption DEF TypeOK, Renewals, Fresh, Paid

LEMMA SentProducer ==
    ASSUME TypeOK, SentInv, ProducerNext
    PROVE  SentInv'
<1> SUFFICES ASSUME NEW i \in Item
             PROVE  sent'[i] + Fresh' <= lapses' + faults' + Renewals' + Paid(i)'
  BY DEF SentInv
<1>0. /\ sent[i] + Fresh <= lapses + faults + Renewals + Paid(i)
      /\ sent[i] \in Nat /\ lapses \in Nat /\ faults \in Nat
      /\ Renewals \in Nat /\ Fresh \in 0 .. 1
  BY CountTypes DEF SentInv
<1>a. ASSUME UNCHANGED editable PROVE Renewals' = Renewals /\ Fresh' = Fresh
  BY <1>a DEF editable, Renewals, Fresh
<1>1. CASE Post \/ SeedReady \/ Fetch \/ Skip \/ Sleep
  BY <1>0, <1>a, <1>1 DEF Post, SeedReady, Fetch, Skip, Sleep, Walking, Paid
<1>2. CASE SeedMark
  <2>1. /\ sent' = sent /\ lapses' = lapses /\ faults' = faults /\ Renewals' = Renewals
        /\ Fresh' = 0
    BY <1>2 DEF SeedMark, Renewals, Fresh
  <2>2. CASE KeyedByName /\ renamed
    BY <1>0, <2>1, <2>2 DEF Fresh, Paid
  <2>3. CASE ~(KeyedByName /\ renamed)
    BY <1>0, <1>2, <2>1, <2>3 DEF SeedMark, Marks, Fresh, Paid
  <2> QED
    BY <2>2, <2>3
<1>3. CASE Send
  <2>1. CASE i = next
    BY <1>0, <1>a, <1>3, <2>1 DEF Send, Walking, TypeOK, Paid
  <2>2. CASE i # next
    BY <1>0, <1>a, <1>3, <2>2 DEF Send, Walking, TypeOK, Paid
  <2> QED
    BY <2>1, <2>2
<1>4. CASE Mark
  BY <1>0, <1>a, <1>4 DEF Mark, Paid
<1>5. CASE SendFails
  <2>1. PICK arrived \in 0 .. 1 : sent' = [sent EXCEPT ![next] = @ + arrived]
    BY <1>5 DEF SendFails
  <2>2. sent'[i] <= sent[i] + 1 /\ sent'[i] \in Nat
    BY <2>1 DEF TypeOK
  <2>3. CASE i = next
    BY <1>0, <1>a, <1>5, <2>2, <2>3 DEF SendFails, Walking, Fault, Paid
  <2>4. CASE i # next
    BY <1>0, <1>a, <1>5, <2>1, <2>4 DEF SendFails, Walking, Fault, TypeOK, Paid
  <2> QED
    BY <2>3, <2>4
<1>6. CASE MarkFails
  BY <1>0, <1>a, <1>6 DEF MarkFails, Fault, Paid
<1>7. CASE \E j \in Item : Lapse(j)
  BY <1>0, <1>a, <1>7 DEF Lapse, Paid
<1>8. CASE Crash
  BY <1>0, <1>a, <1>8 DEF Crash, Fault, Paid
<1>9. CASE RedisLoses
  BY <1>0, <1>a, <1>9 DEF RedisLoses, Fault, Paid
<1>10. CASE EditSource
  BY <1>0, <1>10, ProducerAssumption DEF EditSource, TypeOK, Renewals, Fresh, Paid
<1> QED
  BY <1>1, <1>2, <1>3, <1>4, <1>5, <1>6, <1>7, <1>8, <1>9, <1>10
     DEF ProducerNext, PollStep, SourceFaults

\* An item is sent once, and once more for each lapse of a mark, each fault and, where
\* the name is in the key, each new name.
THEOREM SentOnce == Spec => []SentOncePerFault
<1>1. Init => SentInv
  BY ProducerAssumption DEF Init, ProducerInit, SentInv, Paid, Renewals, Fresh
<1>2. TypeOK /\ SentInv /\ [Next]_vars => SentInv'
  <2> SUFFICES ASSUME TypeOK, SentInv, [Next]_vars PROVE SentInv'
    OBVIOUS
  <2>1. CASE UNCHANGED vars
    BY <2>1 DEF vars, source, editable, SentInv, Paid, Renewals, Fresh
  <2>2. CASE ProducerNext /\ UNCHANGED Rest
    BY <2>2, SentProducer
  <2>3. CASE Next /\ ~(ProducerNext /\ UNCHANGED Rest)
    <3>1. /\ UNCHANGED <<seen, at, next, sent, lapses, renamed, renames>>
          /\ faults' \in Nat /\ faults <= faults'
      BY <2>3, OtherSteps
    <3>2. UNCHANGED <<Renewals, Fresh>> /\ \A i \in Item : Paid(i)' = Paid(i)
      BY <3>1 DEF Renewals, Fresh, Paid
    <3> QED
      BY <3>1, <3>2, CountTypes DEF SentInv
  <2> QED
    BY <2>1, <2>2, <2>3
<1>3. TypeOK /\ SentInv => SentOncePerFault
  BY CountTypes DEF SentInv, SentOncePerFault, Renewals
<1> QED
  BY <1>1, <1>2, <1>3, TypeCorrect, PTL DEF Spec

-----------------------------------------------------------------------------
(* What is swallowed *)

MarkedWasSent ==
    /\ \A i \in seen : sent[i] > 0 \/ i \in seeded
    /\ at = "marking" => sent[next] > 0

\* Seeding is over as long as the key of the present name, or the process that is about
\* to set it, lives.
Kept == IF (ready \/ at = "seeding") /\ ~renamed THEN 1 ELSE 0

SeedInv == IsFiniteSet(seeded) /\ Cardinality(seeded) <= faults + renames + Kept

LEMMA MarkedProducer ==
    ASSUME TypeOK, MarkedWasSent, ProducerNext
    PROVE  MarkedWasSent'
<1> USE DEF MarkedWasSent
<1>1. CASE Post \/ EditSource \/ SeedReady \/ Fetch \/ Skip \/ Sleep
  <2>1. UNCHANGED <<seen, sent, seeded>>
    BY <1>1 DEF Post, EditSource, SeedReady, Fetch, Skip, Sleep
  <2>2. at' = "marking" => at = "marking" /\ next' = next
    BY <1>1 DEF Post, EditSource, SeedReady, Fetch, Skip, Sleep, Walking
  <2> QED
    BY <2>1, <2>2
<1>2. CASE SeedMark
  BY <1>2 DEF SeedMark, Marks
<1>3. CASE Send
  BY <1>3, ProducerAssumption DEF Send, Walking, TypeOK, Item
<1>4. CASE Mark
  BY <1>4 DEF Mark
<1>5. CASE SendFails
  <2>1. PICK arrived \in 0 .. 1 : sent' = [sent EXCEPT ![next] = @ + arrived]
    BY <1>5 DEF SendFails
  <2>2. \A i \in Item : sent'[i] >= sent[i]
    BY <2>1 DEF TypeOK
  <2>3. seen \subseteq Item /\ \A i \in Item : sent[i] \in Nat /\ sent'[i] \in Int
    BY <2>1 DEF TypeOK
  <2> QED
    BY <1>5, <2>2, <2>3 DEF SendFails, Walking
<1>6. CASE MarkFails
  BY <1>6 DEF MarkFails
<1>7. CASE Crash
  BY <1>7 DEF Crash
<1>8. CASE RedisLoses
  BY <1>8 DEF RedisLoses
<1>9. CASE \E i \in Item : Lapse(i)
  BY <1>9 DEF Lapse
<1> QED
  BY <1>1, <1>2, <1>3, <1>4, <1>5, <1>6, <1>7, <1>8, <1>9
     DEF ProducerNext, PollStep, SourceFaults

LEMMA SeedTypes ==
    ASSUME TypeOK
    PROVE  faults \in Nat /\ renames \in Nat /\ Kept \in 0 .. 1
  BY ProducerAssumption DEF TypeOK, Kept

LEMMA SeedProducer ==
    ASSUME TypeOK, SeedInv, ProducerNext
    PROVE  SeedInv'
<1>0. /\ faults \in Nat /\ renames \in Nat /\ Kept \in 0 .. 1
      /\ Cardinality(seeded) \in Nat
  BY SeedTypes, FS_CardinalityType DEF SeedInv
<1>1. CASE SeedMark
  <2>1. /\ IsFiniteSet(seeded')
        /\ Cardinality(seeded') = Cardinality(seeded)
            \/ Cardinality(seeded') = Cardinality(seeded) + 1
    BY <1>1, FS_AddElement DEF SeedMark, SeedInv
  <2>2. Kept = 0 /\ Kept' = 1 /\ faults' = faults /\ renames' = renames
    BY <1>1 DEF SeedMark, IsReady, Kept
  <2> QED
    BY <1>0, <2>1, <2>2 DEF SeedInv
<1>2. CASE SendFails \/ MarkFails \/ Crash \/ RedisLoses
  <2>1. seeded' = seeded /\ faults' = faults + 1 /\ renames' = renames
    BY <1>2 DEF SendFails, MarkFails, Crash, RedisLoses, Fault, editable
  <2>2. Kept' \in 0 .. 1
    BY DEF Kept
  <2> QED
    BY <1>0, <2>1, <2>2 DEF SeedInv
<1>3. CASE Post \/ SeedReady \/ Fetch \/ Skip \/ Send \/ Mark \/ Sleep \/ \E i \in Item : Lapse(i)
  <2>1. seeded' = seeded /\ faults' = faults /\ renames' = renames /\ Kept' = Kept
    BY <1>3 DEF Post, SeedReady, Fetch, Skip, Send, Mark, Sleep, Lapse, Kept, Walking, editable
  <2> QED
    BY <2>1 DEF SeedInv
<1>4. CASE EditSource
  <2>1. seeded' = seeded /\ faults' = faults
    BY <1>4 DEF EditSource
  <2>2. CASE UNCHANGED <<renamed, renames>>
    BY <1>4, <2>1, <2>2 DEF EditSource, SeedInv, Kept
  <2>3. CASE renames' = renames + 1 /\ renamed' = TRUE
    <3>1. Kept' = 0
      BY <2>3 DEF Kept
    <3> QED
      BY <1>0, <2>1, <2>3, <3>1 DEF SeedInv
  <2> QED
    BY <1>4, <2>2, <2>3 DEF EditSource
<1> QED
  BY <1>1, <1>2, <1>3, <1>4 DEF ProducerNext, PollStep, SourceFaults

\* A marked item was sent, but for the newest one at a start, and one more for each
\* fault and each new name.
THEOREM Swallowed == Spec => []FewSwallowed
<1> DEFINE Inv == MarkedWasSent /\ SeedInv
<1>1. Init => Inv
  BY FS_EmptySet, ProducerAssumption
     DEF Init, ProducerInit, MarkedWasSent, SeedInv, Kept
<1>2. TypeOK /\ Inv /\ [Next]_vars => Inv'
  <2> SUFFICES ASSUME TypeOK, Inv, [Next]_vars PROVE Inv'
    OBVIOUS
  <2>1. CASE UNCHANGED vars
    BY <2>1 DEF vars, source, editable, MarkedWasSent, SeedInv, Kept
  <2>2. CASE ProducerNext /\ UNCHANGED Rest
    BY <2>2, MarkedProducer, SeedProducer
  <2>3. CASE Next /\ ~(ProducerNext /\ UNCHANGED Rest)
    <3>1. /\ UNCHANGED <<ready, seen, at, next, sent, seeded, renamed, renames>>
          /\ faults' \in Nat /\ faults <= faults'
      BY <2>3, OtherSteps
    <3>2. MarkedWasSent'
      BY <3>1 DEF MarkedWasSent
    <3>3. /\ faults \in Nat /\ renames \in Nat /\ Kept \in 0 .. 1
          /\ Cardinality(seeded) \in Nat
      BY SeedTypes, FS_CardinalityType DEF SeedInv
    <3>4. Kept' = Kept
      BY <3>1 DEF Kept
    <3> QED
      BY <3>1, <3>2, <3>3, <3>4 DEF SeedInv
  <2> QED
    BY <2>1, <2>2, <2>3
<1>3. TypeOK /\ Inv => FewSwallowed
  <2> SUFFICES ASSUME TypeOK, Inv PROVE FewSwallowed
    OBVIOUS
  <2>1. /\ faults \in Nat /\ renames \in Nat /\ Kept \in 0 .. 1
        /\ Cardinality(seeded) \in Nat
    BY SeedTypes, FS_CardinalityType DEF SeedInv
  <2> QED
    BY <2>1 DEF FewSwallowed, MarkedWasSent, SeedInv
<1> QED
  BY <1>1, <1>2, <1>3, TypeCorrect, PTL DEF Spec

-----------------------------------------------------------------------------
(* How far the filter lags behind *)

\* Where the cache and the table differ, the coin was toggled since the load, or the
\* cache is the empty one of a start or a failed load.
LagInv ==
    \A c \in Coin : ~(c \in tracked <=> c \in cache) =>
        span[c] <= age \/ (c \notin cache /\ calm <= age)

LEMMA OlderMonotone ==
    ASSUME NEW a \in Ages, NEW b \in Ages, a <= b
    PROVE  Older(a) <= Older(b)
  BY CoinAssumption DEF Older, Ages, Long

LEMMA LagStep ==
    ASSUME TypeOK, LagInv, Next
    PROVE  LagInv'
<1> SUFFICES ASSUME NEW c \in Coin, ~(c \in tracked' <=> c \in cache')
             PROVE  span'[c] <= age' \/ (c \notin cache' /\ calm' <= age')
  BY DEF LagInv
<1>0. /\ age \in Ages /\ calm \in Ages /\ span[c] \in Ages /\ span \in [Coin -> Ages]
      /\ ~(c \in tracked <=> c \in cache) =>
            span[c] <= age \/ (c \notin cache /\ calm <= age)
  BY DEF TypeOK, LagInv
<1>1. CASE UNCHANGED coins
  BY <1>0, <1>1 DEF coins
<1>2. CASE Tick
  BY <1>0, <1>2, OlderMonotone DEF Tick
<1>3. ASSUME NEW S \in SUBSET Coin, NEW on \in BOOLEAN, SetActive(S, on)
      PROVE  span'[c] <= age' \/ (c \notin cache' /\ calm' <= age')
  BY <1>0, <1>3, CoinAssumption DEF SetActive, Ages, Long
<1>4. CASE Load
  BY <1>4 DEF Load
<1>5. CASE LoadFails
  BY <1>5 DEF LoadFails
<1>6. CASE RestartWorker
  BY <1>6, CoinAssumption DEF RestartWorker, Cold, Ages, Long
<1> QED
  BY <1>1, <1>2, <1>3, <1>4, <1>5, <1>6
     DEF Next, coins, CoinsPage, Judge, JudgeBlindly, Cached, WorkerRestarts

LEMMA LagInvariant == Spec => []LagInv
<1>1. Init => LagInv
  BY CoinAssumption DEF Init, CoinsInit, LagInv, Ages, Long
<1>2. TypeOK /\ LagInv /\ [Next]_vars => LagInv'
  BY LagStep DEF vars, coins, LagInv
<1> QED
  BY <1>1, <1>2, TypeCorrect, PTL DEF Spec

\* The judgement of a message about item i, by a list that is fresh, loaded or missing.
LEMMA JudgedInTime ==
    ASSUME TypeOK, LagInv, NEW i \in Item, Judge(i) \/ JudgeBlindly(i)
    PROVE  /\ fate'[i] = "kept" => CoinOf[i] \in tracked \/ span[CoinOf[i]] <= CacheTTL
           /\ fate'[i] = "dropped" => \/ CoinOf[i] \notin tracked
                                      \/ span[CoinOf[i]] <= CacheTTL
                                      \/ calm' <= CacheTTL
<1> DEFINE c == CoinOf[i]
<1>0. /\ c \in Coin /\ age \in Ages /\ calm \in Ages /\ span[c] \in Ages
      /\ ~(c \in tracked <=> c \in cache) =>
            span[c] <= age \/ (c \notin cache /\ calm <= age)
  BY CoinOfAssumption DEF TypeOK, LagInv
<1>1. fate'[i] = IF c \in cache' THEN "kept" ELSE "dropped"
  BY DEF Judge, JudgeBlindly, Filtered, TypeOK
<1>2. CASE Cached
  BY <1>0, <1>1, <1>2, CoinAssumption DEF Cached, coins, Ages, Long
<1>3. CASE Load
  BY <1>1, <1>3 DEF Load
<1>4. CASE LoadFails
  BY <1>1, <1>4, CoinAssumption DEF LoadFails
<1> QED
  BY <1>2, <1>3, <1>4 DEF Judge, JudgeBlindly

\* The filter is never more than CacheTTL behind the panel.
THEOREM FilterLag == Spec => FilterLagsBehind
<1>1. TypeOK /\ LagInv /\ [Next]_vars =>
        [\A i \in Item : judged'[i] # judged[i] =>
            LET c == CoinOf[i] IN
            /\ fate'[i] = "kept" => c \in tracked \/ span[c] <= CacheTTL
            /\ fate'[i] = "dropped" => c \notin tracked \/ span[c] <= CacheTTL
                                        \/ calm' <= CacheTTL]_vars
  <2> SUFFICES ASSUME TypeOK, LagInv, Next, NEW i \in Item, judged'[i] # judged[i]
               PROVE  LET c == CoinOf[i] IN
                      /\ fate'[i] = "kept" => c \in tracked \/ span[c] <= CacheTTL
                      /\ fate'[i] = "dropped" => c \notin tracked \/ span[c] <= CacheTTL
                                                  \/ calm' <= CacheTTL
    OBVIOUS
  <2>1. PICK j \in Item : Judge(j) \/ JudgeBlindly(j)
    BY DEF Next, WorkerRestarts
  <2>2. j = i
    BY <2>1 DEF Judge, JudgeBlindly, Filtered, TypeOK
  <2> QED
    BY <2>1, <2>2, JudgedInTime
<1> QED
  BY <1>1, TypeCorrect, LagInvariant, PTL DEF Spec, FilterLagsBehind
=============================================================================
