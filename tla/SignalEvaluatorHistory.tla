------------------------ MODULE SignalEvaluatorHistory ------------------------
(***************************************************************************)
(* The life of a scenario as the tables, the log and Redis tell it: what   *)
(* the three agree on whatever fails.                                      *)
(*                                                                         *)
(* HInv carries the rows, the log and the batch that will be added to them *)
(* together: the batch logs one entry for each scenario it enters and one  *)
(* end for each verdict (BatchAudit), a row that runs has logged what its  *)
(* active column says and no end (RowAudit), and only a scenario that goes *)
(* on after the batch has keys (KeysInv).                                  *)
(***************************************************************************)
EXTENDS SignalEvaluatorProofs, FiniteSetTheorems

-----------------------------------------------------------------------------
(* Invariants that hold whatever fails *)

\* How often x occurs in q.
Count(x, q) == Cardinality({i \in 1 .. Len(q) : q[i] = x})

One(condition) == IF condition THEN 1 ELSE 0

\* The keys of s in Redis.
HasKeys(s) == s \in rEntered \cup rFirst \cup rGap \/ rTp[s] > 0

\* A scenario with keys runs, and goes on after the batch.
KeysInv ==
    \A s \in Scenario : HasKeys(s) =>
        status[s] = "running" /\ bOutcome[s] = "running" /\ s \notin bSiblings

\* The rows of the batch that are due.
DirtyInv ==
    /\ \A s \in Scenario : bOutcome[s] # "running" => s \in bDirty
    /\ bActivated \subseteq bDirty

\* Postgres knows the states of the life cycle only.
StatusInv == \A s \in Scenario : status[s] \in {"absent", "running", "cancelled"} \cup Outcome

\* The batch logs an entry for each scenario it enters and an end for each verdict.
BatchAudit ==
    \A s \in Scenario :
        /\ Count("entered", bEvents[s]) = One(s \in bActivated)
        /\ Count("completed", bEvents[s]) = One(bOutcome[s] # "running")

\* The log and the result row of a scenario that waits, is in a position, or ended.
RowAudit ==
    \A s \in Scenario :
        /\ status[s] \in {"absent", "running"} =>
            /\ Count("completed", events[s]) = 0
            /\ Count("entered", events[s]) = One(active[s])
            /\ result[s].entered = active[s]
            /\ ~result[s].completed
        /\ active[s] => result[s].result = "running"
        /\ Count("completed", events[s]) <= 1 /\ Count("entered", events[s]) <= 1

HInv == KeysInv /\ DirtyInv /\ StatusInv /\ BatchAudit /\ RowAudit /\ ResultFollowsStatus

-----------------------------------------------------------------------------
(* Counting the events of a log *)

LEMMA Occurrences ==
    ASSUME NEW q \in Seq(EventType), NEW x
    PROVE  /\ IsFiniteSet({i \in 1 .. Len(q) : q[i] = x})
           /\ Count(x, q) \in Nat
<1>1. Len(q) \in Nat
  OBVIOUS
<1>2. IsFiniteSet(1 .. Len(q))
  BY <1>1, FS_Interval
<1>3. IsFiniteSet({i \in 1 .. Len(q) : q[i] = x})
  BY <1>2, FS_Subset
<1> QED
  BY <1>3, FS_CardinalityType DEF Count

LEMMA CountNever ==
    ASSUME NEW q \in Seq(EventType), NEW x, \A i \in 1 .. Len(q) : q[i] # x
    PROVE  Count(x, q) = 0
<1>1. {i \in 1 .. Len(q) : q[i] = x} = {}
  OBVIOUS
<1> QED
  BY <1>1, FS_EmptySet DEF Count

LEMMA CountIf ==
    ASSUME NEW condition \in BOOLEAN, NEW e \in EventType, NEW x
    PROVE  /\ If(condition, <<e>>) \in Seq(EventType)
           /\ Count(x, If(condition, <<e>>)) = One(condition /\ x = e)
<1>1. If(condition, <<e>>) \in Seq(EventType)
  BY DEF If
<1>2. CASE condition /\ x = e
  <2>1. {i \in 1 .. Len(<<e>>) : <<e>>[i] = x} = {1}
    BY <1>2
  <2> QED
    BY <1>1, <1>2, <2>1, FS_Singleton DEF Count, If, One
<1>3. CASE ~(condition /\ x = e)
  <2>1. \A i \in 1 .. Len(If(condition, <<e>>)) : If(condition, <<e>>)[i] # x
    BY <1>3 DEF If
  <2>2. Count(x, If(condition, <<e>>)) = 0
    BY <1>1, <2>1, CountNever
  <2> QED
    BY <1>1, <1>3, <2>2 DEF One
<1> QED
  BY <1>2, <1>3

LEMMA CountConcat ==
    ASSUME NEW q \in Seq(EventType), NEW r \in Seq(EventType), NEW x
    PROVE  /\ q \o r \in Seq(EventType)
           /\ Count(x, q \o r) = Count(x, q) + Count(x, r)
<1> DEFINE A == {i \in 1 .. Len(q) : q[i] = x}
           B == {j \in 1 .. Len(r) : r[j] = x}
           C == {i \in 1 .. Len(q \o r) : (q \o r)[i] = x}
           D == C \ A
           f == [j \in B |-> Len(q) + j]
<1>1. Len(q) \in Nat /\ Len(r) \in Nat /\ Len(q \o r) = Len(q) + Len(r)
  OBVIOUS
<1>2. /\ \A i \in 1 .. Len(q) : (q \o r)[i] = q[i]
      /\ \A j \in 1 .. Len(r) : (q \o r)[Len(q) + j] = r[j]
  OBVIOUS
<1>3. A \subseteq C
  BY <1>1, <1>2
<1>4. \A i \in D : i \in Nat /\ i > Len(q) /\ i - Len(q) \in B /\ Len(q) + (i - Len(q)) = i
  <2> SUFFICES ASSUME NEW i \in D
               PROVE  i \in Nat /\ i > Len(q) /\ i - Len(q) \in B /\ Len(q) + (i - Len(q)) = i
    OBVIOUS
  <2>1. i \in 1 .. Len(q) + Len(r) /\ (q \o r)[i] = x
    BY <1>1
  <2>2. i \notin 1 .. Len(q)
    BY <1>2, <2>1
  <2>3. i - Len(q) \in 1 .. Len(r) /\ Len(q) + (i - Len(q)) = i /\ i > Len(q) /\ i \in Nat
    BY <1>1, <2>1, <2>2
  <2>4. r[i - Len(q)] = x
    BY <1>2, <2>1, <2>3
  <2> QED
    BY <2>3, <2>4
<1>5. \A j \in B : j \in Nat /\ Len(q) + j \in D
  <2> SUFFICES ASSUME NEW j \in B PROVE j \in Nat /\ Len(q) + j \in D
    OBVIOUS
  <2>1. j \in 1 .. Len(r) /\ r[j] = x
    OBVIOUS
  <2>2. Len(q) + j \in 1 .. Len(q \o r) /\ Len(q) + j \notin 1 .. Len(q) /\ j \in Nat
    BY <1>1, <2>1
  <2>3. (q \o r)[Len(q) + j] = x
    BY <1>2, <2>1
  <2> QED
    BY <2>2, <2>3
<1>6. f \in Bijection(B, D)
  <2> HIDE DEF B, D
  <2>1. f \in [B -> D]
    BY <1>5
  <2>2. \A a, b \in B : f[a] = f[b] => a = b
    BY <1>1, <1>5
  <2>3. \A i \in D : \E j \in B : f[j] = i
    BY <1>4
  <2> HIDE DEF f
  <2> QED
    BY <2>1, <2>2, <2>3 DEF Bijection, Injection, Surjection, IsInjective
<1>7. IsFiniteSet(A) /\ IsFiniteSet(B)
  BY Occurrences
<1>8. IsFiniteSet(D) /\ Cardinality(D) = Cardinality(B)
  <2>1. ExistsBijection(B, D)
    BY <1>6 DEF ExistsBijection
  <2> QED
    BY <1>7, <2>1, FS_Bijection
<1>9. Cardinality(C) = Cardinality(A) + Cardinality(D)
  <2>1. C = A \cup D /\ A \cap D = {}
    BY <1>3
  <2>2. Cardinality(A) \in Nat /\ Cardinality(D) \in Nat
    BY <1>7, <1>8, FS_CardinalityType
  <2> HIDE DEF A, C, D
  <2>3. Cardinality(A \cup D) = Cardinality(A) + Cardinality(D) - Cardinality(A \cap D)
    BY <1>7, <1>8, FS_Union
  <2>4. Cardinality(A \cap D) = 0
    BY <2>1, FS_EmptySet, Zenon
  <2>5. Cardinality(C) = Cardinality(A \cup D)
    BY <2>1, Zenon
  <2> QED
    BY <2>2, <2>3, <2>4, <2>5
<1>10. Count(x, q) = Cardinality(A) /\ Count(x, r) = Cardinality(B)
         /\ Count(x, q \o r) = Cardinality(C)
  BY DEF Count
<1>11. q \o r \in Seq(EventType)
  OBVIOUS
<1> HIDE DEF A, B, C, D
<1> QED
  BY <1>8, <1>9, <1>10, <1>11

\* What an evaluation logs, apart from targets and the stop: the end of a gap, an entry
\* when it enters, an end when it decides.
LEMMA EvalEventsCount ==
    ASSUME TypeOK, NEW s \in Scenario, NEW obs \in Observation
    PROVE  LET E == EvalEvents(s, obs)
           IN  /\ E \in Seq(EventType)
               /\ Count("entered", E) = One(NewlyEntered(s, obs))
               /\ Count("completed", E) = One(Verdict(s, obs) # "running")
               /\ Count("data_gap_end", E) = One(s \in rGap /\ IsEntered(s, obs))
               /\ Count("data_gap_start", E) = 0 /\ Count("cancelled", E) = 0
<1> DEFINE in   == IsEntered(s, obs)
           hits == IF in THEN BestTp(s, obs) - rTp[s] ELSE 0
           out  == Verdict(s, obs)
           gap  == s \in rGap /\ in
           new  == NewlyEntered(s, obs)
           e1 == If(gap, <<"data_gap_end">>)
           e2 == If(new, <<"entered">>)
           e3 == [i \in 1 .. hits |-> "tp_hit"]
           e4 == If(out = "failed", <<"sl_hit">>)
           e5 == If(out # "running", <<"completed">>)
           Kinds == {"entered", "completed", "data_gap_end", "data_gap_start", "cancelled"}
<1>1. hits \in Nat
  BY BestTpType DEF TypeOK
<1>2. /\ gap \in BOOLEAN /\ new \in BOOLEAN
      /\ (out = "failed") \in BOOLEAN /\ (out # "running") \in BOOLEAN
  BY Zenon DEF NewlyEntered
<1>3. {"data_gap_end", "entered", "tp_hit", "sl_hit", "completed"} \subseteq EventType
  BY DEF EventType
<1>4. EvalEvents(s, obs) = e1 \o e2 \o e3 \o e4 \o e5
  BY DEF EvalEvents
<1> HIDE DEF in, out, hits, gap, new
<1>5. /\ e1 \in Seq(EventType) /\ e2 \in Seq(EventType)
      /\ e4 \in Seq(EventType) /\ e5 \in Seq(EventType)
  BY <1>2, <1>3, CountIf
<1>6. e3 \in Seq(EventType) /\ Len(e3) = hits /\ \A i \in 1 .. Len(e3) : e3[i] = "tp_hit"
  BY <1>1, <1>3
<1> HIDE DEF e3
<1>7. ASSUME NEW x \in Kinds
      PROVE  /\ Count(x, e1) = One(gap /\ x = "data_gap_end")
             /\ Count(x, e2) = One(new /\ x = "entered")
             /\ Count(x, e3) = 0 /\ Count(x, e4) = 0
             /\ Count(x, e5) = One(out # "running" /\ x = "completed")
  <2>1. Count(x, e1) = One(gap /\ x = "data_gap_end")
    BY <1>2, <1>3, CountIf
  <2>2. Count(x, e4) = One(out = "failed" /\ x = "sl_hit")
    BY <1>2, <1>3, CountIf
  <2>3. Count(x, e2) = One(new /\ x = "entered")
    BY <1>2, <1>3, CountIf
  <2>4. Count(x, e5) = One(out # "running" /\ x = "completed")
    BY <1>2, <1>3, CountIf
  <2>5. Count(x, e3) = 0
    BY <1>6, CountNever
  <2> QED
    BY <2>1, <2>2, <2>3, <2>4, <2>5 DEF One
<1> HIDE DEF e1, e2, e4, e5
<1> DEFINE c2 == e1 \o e2
           c3 == c2 \o e3
           c4 == c3 \o e4
<1>8. EvalEvents(s, obs) = c4 \o e5
  BY <1>4
<1>9. c2 \in Seq(EventType) /\ c3 \in Seq(EventType) /\ c4 \in Seq(EventType)
         /\ c4 \o e5 \in Seq(EventType)
  <2>1. c2 \in Seq(EventType)
    BY <1>5
  <2>2. c3 \in Seq(EventType)
    BY <1>6, <2>1
  <2>3. c4 \in Seq(EventType)
    BY <1>5, <2>2
  <2> QED
    BY <1>5, <2>1, <2>2, <2>3
<1>10. ASSUME NEW x \in Kinds
       PROVE  Count(x, c4 \o e5) = One(gap /\ x = "data_gap_end") + One(new /\ x = "entered")
                                     + One(out # "running" /\ x = "completed")
  <2>1. Count(x, c2) = Count(x, e1) + Count(x, e2)
    BY <1>5, CountConcat
  <2>2. Count(x, c3) = Count(x, c2) + Count(x, e3)
    <3> HIDE DEF c2
    <3> QED
      BY <1>6, <1>9, CountConcat
  <2> HIDE DEF c2
  <2>3. Count(x, c4) = Count(x, c3) + Count(x, e4)
    <3> HIDE DEF c3
    <3> QED
      BY <1>5, <1>9, CountConcat
  <2> HIDE DEF c3
  <2>4. Count(x, c4 \o e5) = Count(x, c4) + Count(x, e5)
    <3> HIDE DEF c4
    <3> QED
      BY <1>5, <1>9, CountConcat
  <2> HIDE DEF c4, Kinds
  <2>5. /\ One(gap /\ x = "data_gap_end") \in Nat /\ One(new /\ x = "entered") \in Nat
        /\ One(out # "running" /\ x = "completed") \in Nat
    BY DEF One
  <2> QED
    BY <1>7, <2>1, <2>2, <2>3, <2>4, <2>5
<1> HIDE DEF c4
<1>11. /\ Count("entered", c4 \o e5) = One(new)
       /\ Count("completed", c4 \o e5) = One(out # "running")
       /\ Count("data_gap_end", c4 \o e5) = One(gap)
       /\ Count("data_gap_start", c4 \o e5) = 0 /\ Count("cancelled", c4 \o e5) = 0
  BY <1>2, <1>10 DEF One
<1> QED
  BY <1>8, <1>9, <1>11 DEF out, gap, in, new

\* A sequence with one more event is the sequence followed by that event.
LEMMA AppendConcat ==
    ASSUME NEW q \in Seq(EventType), NEW e \in EventType
    PROVE  <<e>> \in Seq(EventType) /\ Append(q, e) = q \o <<e>>
OBVIOUS

\* An event written once more counts once more.
LEMMA CountAppend ==
    ASSUME NEW q \in Seq(EventType), NEW e \in EventType, NEW x
    PROVE  /\ Append(q, e) \in Seq(EventType)
           /\ Count(x, Append(q, e)) = Count(x, q) + One(x = e)
<1>1. <<e>> \in Seq(EventType) /\ Append(q, e) = q \o <<e>>
  BY AppendConcat
<1>2. Count(x, <<e>>) = One(x = e)
  <2>1. If(TRUE, <<e>>) = <<e>>
    BY DEF If
  <2> QED
    BY <2>1, CountIf
<1>3. Count(x, q \o <<e>>) = Count(x, q) + Count(x, <<e>>) /\ q \o <<e>> \in Seq(EventType)
  BY <1>1, CountConcat
<1> QED
  BY <1>1, <1>2, <1>3

-----------------------------------------------------------------------------
(* HInv is inductive, given the invariant of the loop *)

\* What the rules of the loop say of a row of the cycle still to be evaluated.
LEMMA TodoRow ==
    ASSUME IInv, pc # "write", NEW s \in todo
    PROVE  /\ s \in Scenario /\ s \in snap /\ status[s] = "running"
           /\ bOutcome[s] = "running" /\ s \notin bActivated /\ bSiblings = {}
  BY DEF IInv, TypeOK, ReadTogether, BatchInv, Running

LEMMA CountEmpty == \A x : Count(x, <<>>) = 0
<1>1. <<>> \in Seq(EventType) /\ \A x : \A i \in 1 .. Len(<<>>) : <<>>[i] # x
  OBVIOUS
<1> QED
  BY <1>1, CountNever

LEMMA InitHistory == Init => HInv
<1> SUFFICES ASSUME Init PROVE HInv
  OBVIOUS
<1>1. KeysInv /\ DirtyInv /\ StatusInv
  BY DEF Init, KeysInv, HasKeys, DirtyInv, StatusInv
<1>2. \A s \in Scenario : events[s] = <<>> /\ bEvents[s] = <<>> /\ active[s] = FALSE
         /\ status[s] = "absent" /\ result[s] = NoRow
         /\ s \notin bActivated /\ bOutcome[s] = "running"
  BY DEF Init, NoEvents
<1>3. BatchAudit
  BY <1>2, CountEmpty DEF BatchAudit, One
<1>4. RowAudit
  <2>1. \A s \in Scenario : result[s].entered = FALSE /\ result[s].completed = FALSE
    BY <1>2 DEF NoRow
  <2>2. One(FALSE) = 0
    BY DEF One
  <2>3. \A s \in Scenario : /\ Count("completed", events[s]) = 0
                             /\ Count("entered", events[s]) = One(active[s])
    BY <1>2, <2>2, CountEmpty, Zenon
  <2>4. \A s \in Scenario : Count("entered", events[s]) = 0
    BY <1>2, CountEmpty, Zenon
  <2>5. \A s \in Scenario : result[s].entered = active[s] /\ ~result[s].completed /\ ~active[s]
    BY <1>2, <2>1, Zenon
  <2>6. \A s \in Scenario : Count("completed", events[s]) <= 1 /\ Count("entered", events[s]) <= 1
    BY <2>3, <2>4
  <2> QED
    BY <2>3, <2>5, <2>6, Zenon DEF RowAudit
<1>5. ResultFollowsStatus
  BY <1>2 DEF ResultFollowsStatus, Outcome
<1> QED
  BY <1>1, <1>3, <1>4, <1>5 DEF HInv

\* Steps that leave Postgres and the batch alone, and give keys only to a scenario
\* that goes on.
LEMMA QuietHistory ==
    ASSUME HInv, UNCHANGED <<db, batch>>,
           \A s \in Scenario : HasKeys(s)' =>
               \/ HasKeys(s)
               \/ status[s] = "running" /\ bOutcome[s] = "running" /\ s \notin bSiblings
    PROVE  HInv'
<1> USE DEF db, batch
<1>1. KeysInv'
  BY DEF HInv, KeysInv
<1>2. DirtyInv' /\ StatusInv' /\ BatchAudit'
  BY DEF HInv, DirtyInv, StatusInv, BatchAudit
<1>3. RowAudit' /\ ResultFollowsStatus'
  BY DEF HInv, RowAudit, ResultFollowsStatus
<1> QED
  BY <1>1, <1>2, <1>3 DEF HInv

\* Steps that leave Postgres alone and drop the batch.
LEMMA EmptiedHistory ==
    ASSUME HInv, UNCHANGED db, EmptyBatch, \A s \in Scenario : HasKeys(s)' => HasKeys(s)
    PROVE  HInv'
<1> USE DEF db
<1>1. KeysInv'
  BY DEF HInv, KeysInv, EmptyBatch
<1>2. DirtyInv' /\ StatusInv'
  BY DEF HInv, DirtyInv, StatusInv, EmptyBatch
<1>3. BatchAudit'
  <2>1. \A s \in Scenario : bEvents'[s] = <<>> /\ s \notin bActivated' /\ bOutcome'[s] = "running"
    BY DEF EmptyBatch, NoEvents
  <2> QED
    BY <2>1, CountEmpty DEF BatchAudit, One
<1>4. RowAudit' /\ ResultFollowsStatus'
  BY DEF HInv, RowAudit, ResultFollowsStatus
<1> QED
  BY <1>1, <1>2, <1>3, <1>4 DEF HInv

\* Without a price only a gap is noted.
LEMMA NoPriceHistory ==
    ASSUME IInv, HInv, NEW s \in Scenario, EvalNoPrice(s)
    PROVE  HInv'
<1> USE DEF db
<1>1. status[s] = "running" /\ bOutcome[s] = "running" /\ bSiblings = {}
  BY TodoRow DEF EvalNoPrice
<1>2. KeysInv'
  BY <1>1 DEF EvalNoPrice, HInv, KeysInv, HasKeys
<1>3. DirtyInv' /\ StatusInv'
  BY DEF EvalNoPrice, HInv, DirtyInv, StatusInv
<1>4. BatchAudit'
  <2>1. bEvents \in [Scenario -> Seq(EventType)] /\ "data_gap_start" \in EventType
    BY DEF IInv, TypeOK, EventType
  <2>2. \A t \in Scenario : bEvents'[t] = bEvents[t]
                            \/ bEvents'[t] = Append(bEvents[t], "data_gap_start")
    BY <2>1 DEF EvalNoPrice
  <2>3. ASSUME NEW t \in Scenario, NEW x \in {"entered", "completed"}
        PROVE  Count(x, bEvents'[t]) = Count(x, bEvents[t])
    <3>1. bEvents[t] \in Seq(EventType) /\ x # "data_gap_start"
      BY <2>1
    <3>2. Count(x, Append(bEvents[t], "data_gap_start"))
             = Count(x, bEvents[t]) + One(x = "data_gap_start")
      BY <2>1, <3>1, CountAppend
    <3>3. Count(x, bEvents[t]) \in Nat /\ One(x = "data_gap_start") = 0
      BY <3>1, Occurrences DEF One
    <3>4. CASE bEvents'[t] = Append(bEvents[t], "data_gap_start")
      <4>1. Count(x, bEvents'[t]) = Count(x, Append(bEvents[t], "data_gap_start"))
        BY <3>4, Zenon
      <4> QED
        BY <3>2, <3>3, <4>1
    <3>5. CASE bEvents'[t] = bEvents[t]
      BY <3>5, Zenon
    <3> QED
      BY <2>2, <3>4, <3>5
  <2>4. bActivated' = bActivated /\ bOutcome' = bOutcome
    BY DEF EvalNoPrice
  <2> QED
    BY <2>3, <2>4 DEF HInv, BatchAudit
<1>5. RowAudit' /\ ResultFollowsStatus'
  BY DEF EvalNoPrice, HInv, RowAudit, ResultFollowsStatus
<1> QED
  BY <1>2, <1>3, <1>4, <1>5 DEF HInv

\* An evaluation logs the entry and the end that it puts into the batch.
LEMMA EvalHistory ==
    ASSUME IInv, HInv, NEW s \in Scenario, EvalPriced(s)
    PROVE  HInv'
<1> USE DEF db
<1>1. /\ status[s] = "running" /\ bOutcome[s] = "running" /\ s \notin bActivated
      /\ bSiblings = {} /\ bSiblings' = {} /\ UNCHANGED db
  BY TodoRow DEF EvalPriced
<1>2. PICK obs \in Observation : EvalWith(s, obs)
  BY DEF EvalPriced
<1>3. TypeOK
  BY DEF IInv
<1>4. /\ bOutcome' = [bOutcome EXCEPT ![s] = Verdict(s, obs)]
      /\ bOutcome'[s] = Verdict(s, obs)
      /\ \A t \in Scenario : t # s => bOutcome'[t] = bOutcome[t]
  BY <1>2, <1>3 DEF EvalWith, TypeOK
<1>5. KeysInv'
  <2>1. HasKeys(s)' => Verdict(s, obs) = "running"
    BY <1>2, <1>3 DEF EvalWith, EvalRedis, HasKeys, TypeOK
  <2>2. \A t \in Scenario : t # s => (HasKeys(t)' => HasKeys(t))
    BY <1>2, <1>3 DEF EvalWith, EvalRedis, HasKeys, TypeOK
  <2> QED
    BY <1>1, <1>4, <2>1, <2>2 DEF HInv, KeysInv
<1>6. bActivated' = IF NewlyEntered(s, obs) THEN bActivated \cup {s} ELSE bActivated
  BY <1>2 DEF EvalWith
<1>7. DirtyInv'
  <2>1. bDirty \subseteq bDirty'
    BY <1>2 DEF EvalWith
  <2>2. Verdict(s, obs) # "running" \/ NewlyEntered(s, obs) => s \in bDirty'
    BY <1>2 DEF EvalWith, NewlyEntered
  <2> QED
    BY <1>4, <1>6, <2>1, <2>2 DEF HInv, DirtyInv
<1>8. BatchAudit'
  <2>1. /\ bEvents'[s] = bEvents[s] \o EvalEvents(s, obs)
        /\ \A t \in Scenario : t # s => bEvents'[t] = bEvents[t]
        /\ bEvents[s] \in Seq(EventType)
    BY <1>2, <1>3 DEF EvalWith, TypeOK
  <2>2. Count("entered", bEvents[s]) = 0 /\ Count("completed", bEvents[s]) = 0
    BY <1>1 DEF HInv, BatchAudit, One
  <2>3. /\ EvalEvents(s, obs) \in Seq(EventType)
        /\ Count("entered", EvalEvents(s, obs)) = One(NewlyEntered(s, obs))
        /\ Count("completed", EvalEvents(s, obs)) = One(Verdict(s, obs) # "running")
    BY <1>3, EvalEventsCount
  <2>4. /\ Count("entered", bEvents'[s]) = 0 + One(NewlyEntered(s, obs))
        /\ Count("completed", bEvents'[s]) = 0 + One(Verdict(s, obs) # "running")
    BY <2>1, <2>2, <2>3, CountConcat
  <2>5. (s \in bActivated') <=> NewlyEntered(s, obs)
    BY <1>1, <1>6
  <2>6. \A t \in Scenario : t # s => (t \in bActivated' <=> t \in bActivated)
    BY <1>6
  <2>7. /\ Count("entered", bEvents'[s]) = One(s \in bActivated')
        /\ Count("completed", bEvents'[s]) = One(bOutcome'[s] # "running")
    BY <1>4, <2>4, <2>5 DEF One
  <2> QED
    BY <1>4, <2>1, <2>6, <2>7 DEF HInv, BatchAudit, One
<1>9. StatusInv' /\ RowAudit' /\ ResultFollowsStatus'
  BY <1>1 DEF HInv, StatusInv, RowAudit, ResultFollowsStatus
<1> QED
  BY <1>5, <1>7, <1>8, <1>9 DEF HInv

\* The siblings to be cancelled lose their keys before the transaction.
LEMMA CancelHistory ==
    ASSUME IInv, HInv, CancelSiblings
    PROVE  HInv'
<1> USE DEF db
<1>1. KeysInv'
  <2>1. \A s \in Scenario : HasKeys(s)' => HasKeys(s) /\ s \notin bSiblings'
    BY DEF CancelSiblings, HasKeys
  <2> QED
    BY <2>1 DEF CancelSiblings, HInv, KeysInv
<1>2. DirtyInv' /\ StatusInv' /\ BatchAudit'
  BY DEF CancelSiblings, HInv, DirtyInv, StatusInv, BatchAudit
<1>3. RowAudit' /\ ResultFollowsStatus'
  BY DEF CancelSiblings, HInv, RowAudit, ResultFollowsStatus
<1> QED
  BY <1>1, <1>2, <1>3 DEF HInv

LEMMA StoreHistory ==
    ASSUME IInv, HInv, NEW g \in Signal, StoreSignal(g)
    PROVE  HInv'
<1> USE DEF redis, process, batch
<1>1. /\ UNCHANGED <<active, result, events, redis, batch>>
      /\ \A s \in Scenario : status'[s] = IF SignalOf[s] = g THEN "running" ELSE status[s]
      /\ \A s \in Scenario : SignalOf[s] = g => status[s] = "absent"
  BY DEF StoreSignal, ScenariosOf
<1>2. KeysInv'
  BY <1>1 DEF HInv, KeysInv, HasKeys
<1>3. DirtyInv' /\ StatusInv' /\ BatchAudit'
  BY <1>1 DEF HInv, DirtyInv, StatusInv, BatchAudit
<1>4. RowAudit'
  BY <1>1 DEF HInv, RowAudit
<1>5. ResultFollowsStatus'
  BY <1>1 DEF HInv, ResultFollowsStatus, RowAudit, Outcome
<1> QED
  BY <1>2, <1>3, <1>4, <1>5 DEF HInv

-----------------------------------------------------------------------------
(* The batch transaction, table by table *)

\* Whatever the batch decides is of a row that was read, so that it still runs.
LEMMA DecidedRuns ==
    ASSUME IInv, pc = "write", NEW s \in Scenario,
           bOutcome[s] # "running" \/ s \in bActivated \cup bSiblings
    PROVE  /\ s \in snap /\ status[s] = "running"
           /\ s \in bActivated \cup bSiblings => ~active[s]
           /\ s \in bActivated => s \notin bSiblings
<1>1. s \in snap
  BY DEF IInv, TypeOK, BatchInv
<1>2. status[s] = "running" /\ (active[s] <=> s \in snapActive)
  BY <1>1, Zenon DEF IInv, ReadTogether, Running
<1>3. s \in bActivated \cup bSiblings => s \notin snapActive
  BY DEF IInv, EntriesAreNew, BatchInv, SiblingCancel
<1>4. s \in bActivated => s \notin bSiblings
  BY DEF IInv, BatchInv, SiblingCancel
<1> QED
  BY <1>1, <1>2, <1>3, <1>4

\* The three UPDATEs on scenarios together.
LEMMA CommitStatus ==
    ASSUME IInv, CommitBatch, NEW s \in Scenario
    PROVE  /\ status'[s] = IF bOutcome[s] # "running" THEN bOutcome[s]
                           ELSE IF s \in bSiblings THEN "cancelled" ELSE status[s]
           /\ active'[s] <=> bOutcome[s] = "running" /\ (active[s] \/ s \in bActivated)
<1>1. status'[s] = WrittenStatus(s) /\ active'[s] = WrittenActive(s) /\ pc = "write"
  BY DEF CommitBatch
<1>2. "running" \notin TerminalStates
  BY DEF TerminalStates, Outcome
<1>3. Settles(s) <=> bOutcome[s] # "running"
  BY <1>1, <1>2, DecidedRuns DEF Settles
<1>4. Cancels(s) <=> s \in bSiblings /\ bOutcome[s] = "running"
  BY <1>1, <1>3, DecidedRuns DEF Cancels, AfterSettle, AfterEnter
<1>5. AfterEnter(s) <=> active[s] \/ (s \in bActivated /\ bOutcome[s] = "running")
  BY <1>1, DecidedRuns DEF AfterEnter
<1>6. s \in bSiblings => ~active[s] /\ s \notin bActivated
  BY <1>1, DecidedRuns
<1>7. active'[s] <=> bOutcome[s] = "running" /\ (active[s] \/ s \in bActivated)
  BY <1>1, <1>3, <1>4, <1>5, <1>6, Zenon DEF WrittenActive
<1>8. status'[s] = IF bOutcome[s] # "running" THEN bOutcome[s]
                   ELSE IF s \in bSiblings THEN "cancelled" ELSE status[s]
  BY <1>1, <1>3, <1>4 DEF WrittenStatus, AfterSettle
<1> QED
  BY <1>7, <1>8

\* The upserts of scenario_results together.
LEMMA CommitResult ==
    ASSUME IInv, HInv, CommitBatch, NEW s \in Scenario
    PROVE  /\ result'[s].entered <=> result[s].entered \/ s \in bActivated
           /\ result'[s].completed <=>
                result[s].completed \/ bOutcome[s] # "running" \/ s \in bSiblings
           /\ result'[s].result = IF s \in bSiblings THEN "cancelled"
                                  ELSE IF s \in bDirty THEN bOutcome[s]
                                  ELSE result[s].result
<1> DEFINE row == IF s \in bDirty
                  THEN Upsert(result[s], bOutcome[s], bTp[s],
                              s \in bActivated, bOutcome[s] # "running")
                  ELSE result[s]
<1>1. result'[s] = IF s \in bSiblings THEN Upsert(row, "cancelled", 0, FALSE, TRUE) ELSE row
  BY DEF CommitBatch, WrittenResult
<1>2. (bOutcome[s] # "running" => s \in bDirty) /\ (s \in bActivated => s \in bDirty)
  BY DEF HInv, DirtyInv
<1>3. /\ row.entered <=> result[s].entered \/ s \in bActivated
      /\ row.completed <=> result[s].completed \/ bOutcome[s] # "running"
      /\ row.result = IF s \in bDirty THEN bOutcome[s] ELSE result[s].result
  <2>1. CASE s \in bDirty
    BY <2>1 DEF Upsert
  <2>2. CASE s \notin bDirty
    BY <1>2, <2>2, Zenon
  <2> QED
    BY <2>1, <2>2
<1> HIDE DEF row
<1>4. CASE s \in bSiblings
  <2>1. /\ result'[s].entered = (row.entered \/ FALSE)
        /\ result'[s].completed = (row.completed \/ TRUE)
        /\ result'[s].result = "cancelled"
    BY <1>1, <1>4 DEF Upsert
  <2> QED
    BY <1>3, <1>4, <2>1, Zenon
<1>5. CASE s \notin bSiblings
  <2>1. result'[s] = row
    BY <1>1, <1>5
  <2> QED
    BY <1>3, <1>5, <2>1, Zenon
<1> QED
  BY <1>4, <1>5

\* The inserts into scenario_events.
LEMMA CommitLog ==
    ASSUME IInv, HInv, CommitBatch, NEW s \in Scenario
    PROVE  /\ Count("entered", events'[s])
                = Count("entered", events[s]) + One(s \in bActivated)
           /\ Count("completed", events'[s])
                = Count("completed", events[s]) + One(bOutcome[s] # "running")
<1> DEFINE last == If(s \in bSiblings, <<"cancelled">>)
<1>1. events[s] \in Seq(EventType) /\ bEvents[s] \in Seq(EventType)
  BY DEF IInv, TypeOK
<1>2. "cancelled" \in EventType /\ (s \in bSiblings) \in BOOLEAN
  BY DEF EventType
<1>3. /\ last \in Seq(EventType)
      /\ Count("entered", last) = 0 /\ Count("completed", last) = 0
  BY <1>2, CountIf DEF One
<1>4. events'[s] = (events[s] \o bEvents[s]) \o last
  BY DEF CommitBatch, WrittenEvents
<1> HIDE DEF last
<1> DEFINE both == events[s] \o bEvents[s]
<1>5. /\ both \in Seq(EventType)
      /\ Count("entered", both) = Count("entered", events[s]) + Count("entered", bEvents[s])
      /\ Count("completed", both)
            = Count("completed", events[s]) + Count("completed", bEvents[s])
  BY <1>1, CountConcat
<1>6. events'[s] = both \o last
  BY <1>4
<1> HIDE DEF both
<1>7. /\ Count("entered", events'[s]) = Count("entered", both) + Count("entered", last)
      /\ Count("completed", events'[s]) = Count("completed", both) + Count("completed", last)
  BY <1>3, <1>5, <1>6, CountConcat
<1>8. /\ Count("entered", bEvents[s]) = One(s \in bActivated)
      /\ Count("completed", bEvents[s]) = One(bOutcome[s] # "running")
  BY DEF HInv, BatchAudit
<1>9. /\ Count("entered", events[s]) \in Nat /\ Count("completed", events[s]) \in Nat
      /\ One(s \in bActivated) \in Nat /\ One(bOutcome[s] # "running") \in Nat
  BY <1>1, Occurrences DEF One
<1> QED
  BY <1>3, <1>5, <1>7, <1>8, <1>9

LEMMA CommitHistory ==
    ASSUME IInv, HInv, CommitBatch
    PROVE  HInv'
<1>0. pc = "write"
  BY DEF CommitBatch
<1>1. KeysInv'
  <2>1. ASSUME NEW s \in Scenario, HasKeys(s)'
        PROVE  status'[s] = "running" /\ bOutcome'[s] = "running" /\ s \notin bSiblings'
    <3>1. HasKeys(s)
      BY <2>1 DEF CommitBatch, redis, HasKeys
    <3>2. status[s] = "running" /\ bOutcome[s] = "running" /\ s \notin bSiblings
      BY <3>1 DEF HInv, KeysInv
    <3> QED
      BY <3>2, CommitStatus DEF CommitBatch, EndCycle, EmptyBatch
  <2> QED
    BY <2>1 DEF KeysInv
<1>2. DirtyInv'
  BY DEF CommitBatch, EndCycle, EmptyBatch, DirtyInv
<1>3. StatusInv'
  <2>1. \A s \in Scenario : bOutcome[s] # "running" => bOutcome[s] \in Outcome
    BY DEF IInv, TypeOK
  <2> QED
    BY <2>1, CommitStatus DEF HInv, StatusInv
<1>4. BatchAudit'
  <2>1. \A s \in Scenario : bEvents'[s] = <<>> /\ s \notin bActivated' /\ bOutcome'[s] = "running"
    BY DEF CommitBatch, EndCycle, EmptyBatch, NoEvents
  <2> QED
    BY <2>1, CountEmpty DEF BatchAudit, One
<1>5. ASSUME NEW s \in Scenario
      PROVE  /\ status'[s] \in {"absent", "running"} =>
                  /\ bOutcome[s] = "running" /\ s \notin bSiblings
                  /\ status[s] \in {"absent", "running"}
             /\ result[s].entered \in BOOLEAN /\ active[s] \in BOOLEAN
             /\ result'[s].entered \in BOOLEAN /\ active'[s] \in BOOLEAN
             /\ result[s].completed \in BOOLEAN /\ result'[s].completed \in BOOLEAN
  <2>1. bOutcome[s] \in Outcome \cup {"running"} /\ "absent" \notin Outcome
           /\ "running" \notin Outcome
    BY DEF IInv, TypeOK, Outcome
  <2>2. TypeOK /\ TypeOK'
    BY CommitType DEF IInv
  <2>3. result[s] \in ResultRow /\ result'[s] \in ResultRow
    BY <2>2 DEF TypeOK
  <2>4. /\ result[s].entered \in BOOLEAN /\ result'[s].entered \in BOOLEAN
        /\ result[s].completed \in BOOLEAN /\ result'[s].completed \in BOOLEAN
    BY <2>3 DEF ResultRow
  <2>5. active[s] \in BOOLEAN /\ active'[s] \in BOOLEAN
    BY <2>2, Zenon DEF TypeOK
  <2>6. status'[s] \in {"absent", "running"} =>
            /\ bOutcome[s] = "running" /\ s \notin bSiblings
            /\ status[s] \in {"absent", "running"}
    BY <2>1, CommitStatus
  <2> QED
    BY <2>4, <2>5, <2>6
<1>6. RowAudit'
  <2> SUFFICES ASSUME NEW s \in Scenario
               PROVE  /\ status'[s] \in {"absent", "running"} =>
                          /\ Count("completed", events'[s]) = 0
                          /\ Count("entered", events'[s]) = One(active'[s])
                          /\ result'[s].entered = active'[s]
                          /\ ~result'[s].completed
                      /\ active'[s] => result'[s].result = "running"
                      /\ Count("completed", events'[s]) <= 1 /\ Count("entered", events'[s]) <= 1
    BY DEF RowAudit
  <2>1. status[s] \in {"absent", "running"} =>
            /\ Count("completed", events[s]) = 0
            /\ Count("entered", events[s]) = One(active[s])
            /\ result[s].entered = active[s]
            /\ ~result[s].completed
    BY DEF HInv, RowAudit
  <2>2. ASSUME status'[s] \in {"absent", "running"}
        PROVE  /\ Count("completed", events'[s]) = 0
               /\ Count("entered", events'[s]) = One(active'[s])
    <3>1. Count("completed", events[s]) = 0 /\ One(bOutcome[s] # "running") = 0
      BY <1>5, <2>1, <2>2 DEF One
    <3>2. Count("entered", events[s]) = One(active[s])
      BY <1>5, <2>1, <2>2
    <3>3. One(active[s]) + One(s \in bActivated) = One(active'[s])
      BY <1>0, <1>5, <2>2, CommitStatus, DecidedRuns DEF One
    <3> QED
      BY <3>1, <3>2, <3>3, CommitLog
  <2>3. ASSUME status'[s] \in {"absent", "running"}
        PROVE  result'[s].entered = active'[s] /\ ~result'[s].completed
    <3>1. result[s].entered = active[s] /\ ~result[s].completed
      BY <1>5, <2>1, <2>3
    <3>2. bOutcome[s] = "running" /\ s \notin bSiblings
      BY <1>5, <2>3
    <3>3. result'[s].entered <=> active'[s]
      BY <3>1, <3>2, CommitResult, CommitStatus, Zenon
    <3>4. ~result'[s].completed
      BY <3>1, <3>2, CommitResult, Zenon
    <3> QED
      BY <1>5, <3>3, <3>4
  <2>4. ASSUME active'[s] PROVE result'[s].result = "running"
    <3>1. bOutcome[s] = "running" /\ (active[s] \/ s \in bActivated)
      BY <2>4, CommitStatus
    <3>2. active[s] => result[s].result = "running"
      BY DEF HInv, RowAudit
    <3>3. s \notin bSiblings
      BY <1>0, <3>1, DecidedRuns
    <3>4. s \in bActivated => s \in bDirty
      BY DEF HInv, DirtyInv
    <3> QED
      BY <3>1, <3>2, <3>3, <3>4, CommitResult
  <2>5. Count("completed", events'[s]) <= 1 /\ Count("entered", events'[s]) <= 1
    <3>1. /\ Count("completed", events[s]) <= 1 /\ Count("entered", events[s]) <= 1
          /\ events[s] \in Seq(EventType)
      BY DEF HInv, RowAudit, IInv, TypeOK
    <3>2. Count("completed", events[s]) \in Nat /\ Count("entered", events[s]) \in Nat
      BY <3>1, Occurrences
    <3>3. bOutcome[s] # "running" => Count("completed", events[s]) = 0
      BY <1>0, <2>1, DecidedRuns
    <3>4. s \in bActivated => Count("entered", events[s]) = 0
      BY <1>0, <2>1, DecidedRuns DEF One
    <3> QED
      BY <3>1, <3>2, <3>3, <3>4, CommitLog DEF One
  <2> QED
    BY <2>2, <2>3, <2>4, <2>5
<1>7. ResultFollowsStatus'
  <2> SUFFICES ASSUME NEW s \in Scenario
               PROVE  /\ status'[s] \in Outcome =>
                          /\ result'[s].completed
                          /\ result'[s].result \in {status'[s], "cancelled"}
                      /\ status'[s] = "cancelled" =>
                          result'[s].completed /\ result'[s].result = "cancelled"
                      /\ status'[s] = "running" => ~result'[s].completed
    BY DEF ResultFollowsStatus
  <2>1. CASE bOutcome[s] # "running"
    <3>1. s \in bDirty /\ bOutcome[s] \in Outcome
      BY <2>1 DEF HInv, DirtyInv, IInv, TypeOK
    <3>2. status'[s] = bOutcome[s] /\ status'[s] # "cancelled" /\ status'[s] # "running"
      BY <2>1, <3>1, CommitStatus DEF Outcome
    <3>3. result'[s].completed /\ result'[s].result \in {bOutcome[s], "cancelled"}
      BY <2>1, <3>1, CommitResult
    <3> QED
      BY <3>2, <3>3
  <2>2. CASE bOutcome[s] = "running" /\ s \in bSiblings
    <3>1. status'[s] = "cancelled" /\ "cancelled" \notin Outcome
      BY <2>2, CommitStatus DEF Outcome
    <3>2. result'[s].completed /\ result'[s].result = "cancelled"
      BY <2>2, CommitResult
    <3> QED
      BY <3>1, <3>2
  <2>3. CASE bOutcome[s] = "running" /\ s \notin bSiblings
    <3>1. status'[s] = status[s]
      BY <2>3, CommitStatus
    <3>2. (result'[s].completed <=> result[s].completed)
      BY <2>3, CommitResult
    <3>3. status[s] \in Outcome \cup {"cancelled"} => result'[s].result = result[s].result
      <4> SUFFICES ASSUME status[s] \in Outcome \cup {"cancelled"} PROVE s \notin bDirty
        BY <2>3, CommitResult
      <4>1. status[s] # "running"
        BY DEF Outcome
      <4> QED
        BY <4>1 DEF IInv, TypeOK, ReadTogether, Running
    <3> QED
      BY <3>1, <3>2, <3>3 DEF HInv, ResultFollowsStatus
  <2> QED
    BY <2>1, <2>2, <2>3
<1> QED
  BY <1>1, <1>2, <1>3, <1>4, <1>6, <1>7 DEF HInv

\* A call to Redis that fails leaves keys only to a scenario still to be decided.
LEMMA RaisesKeys ==
    ASSUME IInv, NEW s \in Scenario, EvalRaises(s), NEW t \in Scenario, HasKeys(t)'
    PROVE  HasKeys(t) \/ (status[t] = "running" /\ bOutcome[t] = "running" /\ t \notin bSiblings)
<1>1. status[s] = "running" /\ bOutcome[s] = "running" /\ s \notin bSiblings
  BY TodoRow DEF EvalRaises
<1>2. SUFFICES ASSUME t # s PROVE HasKeys(t)
  BY <1>1
<1>3. TypeOK
  BY DEF IInv
<1>4. CASE SignalOf[s] \in feedDown
  <2>1. rGap' \subseteq rGap \cup {s} /\ UNCHANGED <<rEntered, rTp, rFirst>>
    BY <1>4 DEF EvalRaises
  <2> QED
    BY <1>2, <2>1 DEF HasKeys
<1>5. CASE SignalOf[s] \notin feedDown
  <2>1. PICK obs \in Observation :
           EvalRedis(s, obs) \/ \E done \in 0 .. 4 : EvalRedisUpTo(s, obs, done)
    BY <1>5 DEF EvalRaises
  <2>2. CASE EvalRedis(s, obs)
    BY <1>2, <1>3, <2>2 DEF EvalRedis, HasKeys, TypeOK
  <2>3. ASSUME NEW done \in 0 .. 4, EvalRedisUpTo(s, obs, done) PROVE HasKeys(t)
    BY <1>2, <1>3, <2>3 DEF EvalRedisUpTo, HasKeys, TypeOK
  <2> QED
    BY <2>1, <2>2, <2>3
<1> QED
  BY <1>4, <1>5

\* Recovery gives keys back to scenarios in a position only.
LEMMA RecoverKeys ==
    ASSUME IInv, Recover, NEW s \in Scenario, HasKeys(s)'
    PROVE  HasKeys(s) \/ (status[s] = "running" /\ bOutcome[s] = "running" /\ s \notin bSiblings)
<1>1. bOutcome[s] = "running" /\ bSiblings = {}
  BY DEF Recover, IInv, ReadTogether, BatchInv
<1>2. s \notin Entered => HasKeys(s)
  BY DEF Recover, HasKeys
<1> QED
  BY <1>1, <1>2 DEF Entered, Running

LEMMA NextHistory == IInv /\ HInv /\ [Next]_vars => HInv'
<1> SUFFICES ASSUME IInv, HInv, [Next]_vars PROVE HInv'
  OBVIOUS
<1> USE DEF db, redis, loaded, batch, process, world
<1>1. CASE Recover
  BY <1>1, RecoverKeys, QuietHistory DEF Recover
<1>2. CASE LoadCycle
  <2>1. \A s \in Scenario : HasKeys(s)' => HasKeys(s)
    BY <1>2 DEF LoadCycle, HasKeys
  <2> QED
    BY <1>2, <2>1, EmptiedHistory DEF LoadCycle
<1>3. ASSUME NEW s \in Scenario, EvalNoPrice(s) PROVE HInv'
  BY <1>3, NoPriceHistory
<1>4. ASSUME NEW s \in Scenario, EvalPriced(s) PROVE HInv'
  BY <1>4, EvalHistory
<1>5. CASE CancelSiblings
  BY <1>5, CancelHistory
<1>6. CASE CommitBatch
  BY <1>6, CommitHistory
<1>7. ASSUME NEW s \in Scenario, EvalRaises(s) PROVE HInv'
  BY <1>7, RaisesKeys, QuietHistory DEF EvalRaises
<1>8. ASSUME UNCHANGED <<db, redis, batch>> PROVE HInv'
  <2>1. \A s \in Scenario : HasKeys(s)' => HasKeys(s)
    BY <1>8 DEF HasKeys
  <2> QED
    BY <1>8, <2>1, QuietHistory
<1>9. CASE RecoverFails \/ LoadFails
  BY <1>8, <1>9 DEF RecoverFails, LoadFails
<1>10. CASE CommitFails \/ Crash
  <2>1. \A s \in Scenario : HasKeys(s)' => HasKeys(s)
    BY <1>10 DEF CommitFails, Crash, HasKeys
  <2> QED
    BY <1>10, <2>1, EmptiedHistory DEF CommitFails, Crash, EndCycle
<1>11. CASE CancelRaises
  <2>1. PICK S \in SUBSET SiblingCancel :
           /\ rEntered' = rEntered \ S
           /\ rTp' = [s \in Scenario |-> IF s \in S THEN 0 ELSE rTp[s]]
           /\ rFirst' = rFirst \ S
           /\ rGap' = rGap \ S
    BY <1>11 DEF CancelRaises
  <2>2. \A s \in Scenario : HasKeys(s)' => HasKeys(s)
    BY <2>1 DEF HasKeys
  <2> QED
    BY <1>11, <2>2, EmptiedHistory DEF CancelRaises, EndCycle
<1>12. CASE RedisRestart
  <2>1. \A s \in Scenario : ~HasKeys(s)'
    BY <1>12 DEF RedisRestart, HasKeys
  <2> QED
    BY <1>12, <2>1, QuietHistory DEF RedisRestart
<1>13. ASSUME NEW s \in Scenario, RedisEvicts(s) PROVE HInv'
  <2>1. \A t \in Scenario : HasKeys(t)' => HasKeys(t)
    BY <1>13 DEF RedisEvicts, HasKeys, IInv, TypeOK
  <2> QED
    BY <1>13, <2>1, QuietHistory DEF RedisEvicts
<1>14. ASSUME NEW g \in Signal, StoreSignal(g) PROVE HInv'
  BY <1>14, StoreHistory
<1>15. ASSUME NEW g \in Signal, FeedStops(g) \/ FeedReturns(g) PROVE HInv'
  BY <1>8, <1>15 DEF FeedStops, FeedReturns
<1>16. ASSUME NEW s \in Scenario, Expire(s) PROVE HInv'
  BY <1>8, <1>16 DEF Expire
<1>17. CASE UNCHANGED vars
  BY <1>8, <1>17 DEF vars
<1>18. ASSUME NEW s \in Scenario, KeyRunsOut(s) PROVE HInv'
  <2>1. \A t \in Scenario : HasKeys(t)' => HasKeys(t)
    BY <1>18 DEF KeyRunsOut, HasKeys
  <2> QED
    BY <1>18, <2>1, QuietHistory DEF KeyRunsOut
<1> QED
  BY <1>1, <1>2, <1>3, <1>4, <1>5, <1>6, <1>7, <1>9, <1>10, <1>11, <1>12, <1>13,
     <1>14, <1>15, <1>16, <1>17, <1>18
  DEF Next, Evaluator, EvalOne, Faults, Environment

\* Redis, the batch, the log and the result rows agree in every reachable state.
THEOREM HistoryInvariance == Spec => []HInv
<1> QED
  BY InitHistory, NextHistory, Invariance, PTL DEF Spec

\* Whatever fails, the audit log never shows a second entry or a second end of a
\* scenario, and a position has its entry in the log and in its result row, where
\* recovery looks for it (_confirm_entry, 442-497; _batch_write, 817-920).
THEOREM Audited == Spec => []EntryIsAudited
<1>1. IInv /\ HInv => EntryIsAudited
  <2> SUFFICES ASSUME IInv, HInv PROVE EntryIsAudited
    OBVIOUS
  <2>1. ASSUME NEW s \in Scenario
        PROVE  /\ Times("entered", s) = Count("entered", events[s])
               /\ Times("completed", s) = Count("completed", events[s])
    BY DEF Times, Count
  <2>2. ASSUME NEW s \in Entered
        PROVE  s \in Scenario /\ Count("entered", events[s]) = 1
               /\ result[s].entered /\ result[s].result = "running"
    BY DEF HInv, RowAudit, Entered, Running, One
  <2> QED
    BY <2>1, <2>2 DEF HInv, RowAudit, EntryIsAudited
<1> QED
  BY <1>1, Invariance, HistoryInvariance, PTL

\* Whatever fails, the result row ends exactly when its scenario does, and as it did
\* unless the scenario was also on the list of siblings to cancel (_UPSERT_SQL, 771-802;
\* _batch_write, 817-907).
THEOREM ResultFollows == Spec => []ResultFollowsStatus
<1>1. HInv => ResultFollowsStatus
  BY DEF HInv
<1> QED
  BY <1>1, HistoryInvariance, PTL

\* Whatever fails and in whatever order the stores are written, a scenario that ended
\* has no tracking key left between two cycles (_cleanup, 374-388, and its calls at 676
\* and 1054).
THEOREM NoOrphans == Spec => []NoOrphanKeys
<1>1. IInv /\ HInv => NoOrphanKeys
  BY DEF IInv, TypeOK, HInv, KeysInv, HasKeys, NoOrphanKeys, Running
<1> QED
  BY <1>1, Invariance, HistoryInvariance, PTL
=============================================================================
