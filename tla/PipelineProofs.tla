--------------------------- MODULE PipelineProofs ---------------------------
(***************************************************************************)
(* The pipeline keeps its types, routes every message through its steps in *)
(* order, loses no accepted message, and ends one at most once more than   *)
(* there were faults, for every set of messages and partitions and any     *)
(* number of faults.                                                       *)
(***************************************************************************)
EXTENDS Pipeline, FiniteSetTheorems, TLAPS

\* The topics only grow, and what is new is m on topic t.
Grows(t, m) ==
    \A w \in Worker, p \in Partition :
        /\ Len(log[w][p]) \in Nat /\ Len(log'[w][p]) \in Nat
        /\ Len(log[w][p]) <= Len(log'[w][p])
        /\ \A i \in 1 .. Len(log[w][p]) : log'[w][p][i] = log[w][p][i]
        /\ \A i \in 1 .. Len(log'[w][p]) :
            i <= Len(log[w][p]) \/ (w = t /\ log'[w][p][i] = m)

\* m is at the end of a partition of topic t.
Arrived(t, m) ==
    \E p \in Partition :
        Len(log'[t][p]) = Len(log[t][p]) + 1 /\ log'[t][p][Len(log'[t][p])] = m

\* What a send does.
LEMMA Sent ==
    ASSUME log \in [Worker -> [Partition -> Seq(Message)]],
           NEW t \in Worker, NEW m \in Message, SendTo(t, m)
    PROVE  /\ log' \in [Worker -> [Partition -> Seq(Message)]]
           /\ Grows(t, m)
           /\ Arrived(t, m)
<1>1. PICK q \in Partition : log' = [log EXCEPT ![t][q] = Append(log[t][q], m)]
  BY DEF SendTo
<1>2. /\ log'[t][q] = Append(log[t][q], m)
      /\ \A w \in Worker, p \in Partition : w # t \/ p # q => log'[w][p] = log[w][p]
  BY <1>1
<1>3. log[t][q] \in Seq(Message)
  OBVIOUS
<1>4. /\ Append(log[t][q], m) \in Seq(Message)
      /\ Len(Append(log[t][q], m)) = Len(log[t][q]) + 1
      /\ \A i \in 1 .. Len(log[t][q]) : Append(log[t][q], m)[i] = log[t][q][i]
      /\ Append(log[t][q], m)[Len(log[t][q]) + 1] = m
      /\ Len(log[t][q]) \in Nat
  BY <1>3
<1>5. log' \in [Worker -> [Partition -> Seq(Message)]]
  BY <1>1, <1>4
<1>6. \A w \in Worker, p \in Partition : Len(log[w][p]) \in Nat
  OBVIOUS
<1>7. Grows(t, m)
  <2> SUFFICES ASSUME NEW w \in Worker, NEW p \in Partition
               PROVE  /\ Len(log[w][p]) \in Nat /\ Len(log'[w][p]) \in Nat
                      /\ Len(log[w][p]) <= Len(log'[w][p])
                      /\ \A i \in 1 .. Len(log[w][p]) : log'[w][p][i] = log[w][p][i]
                      /\ \A i \in 1 .. Len(log'[w][p]) :
                            i <= Len(log[w][p]) \/ (w = t /\ log'[w][p][i] = m)
    BY DEF Grows
  <2>1. CASE w = t /\ p = q
    <3>1. /\ log'[w][p] = Append(log[t][q], m) /\ log[w][p] = log[t][q]
          /\ \A i \in 1 .. Len(log[t][q]) + 1 : i <= Len(log[t][q]) \/ i = Len(log[t][q]) + 1
      BY <1>2, <1>4, <2>1
    <3> QED
      BY <1>4, <2>1, <3>1
  <2>2. CASE w # t \/ p # q
    <3>1. log'[w][p] = log[w][p] /\ Len(log[w][p]) \in Nat
      BY <1>2, <1>6, <2>2
    <3> QED
      BY <3>1
  <2> QED
    BY <2>1, <2>2
<1>8. Arrived(t, m)
  BY <1>2, <1>4 DEF Arrived
<1> QED
  BY <1>5, <1>7, <1>8

\* The engine's routing: the first open step.
LEMMA Routing ==
    /\ NextStep({}) = "ai"
    /\ NextStep({"ai"}) = "final"
    /\ \A trace : NextStep(trace) # "none" => NextStep(trace) \in Worker
<1> DEFINE open(trace) == {i \in 1 .. Len(Steps) : Steps[i] \notin trace}
           first(trace) == CHOOSE i \in open(trace) : \A j \in open(trace) : i <= j
<1>1. Len(Steps) = 2 /\ Steps[1] = "ai" /\ Steps[2] = "final"
  BY DEF Steps
<1>2. NextStep({}) = "ai"
  <2>1. open({}) = {1, 2}
    BY <1>1
  <2>2. first({}) = 1
    BY <2>1
  <2> QED
    BY <1>1, <2>1, <2>2 DEF NextStep
<1>3. NextStep({"ai"}) = "final"
  <2>1. open({"ai"}) = {2}
    BY <1>1
  <2>2. first({"ai"}) = 2
    BY <2>1
  <2> QED
    BY <1>1, <2>1, <2>2 DEF NextStep
<1>4. ASSUME NEW trace, NextStep(trace) # "none"
      PROVE  NextStep(trace) \in Worker
  <2>1. open(trace) # {} /\ NextStep(trace) = Steps[first(trace)]
    BY <1>4 DEF NextStep
  <2>2. open(trace) \subseteq {1, 2}
    BY <1>1
  <2>3. \E i \in open(trace) : \A j \in open(trace) : i <= j
    <3>1. CASE 1 \in open(trace)
      BY <2>2, <3>1
    <3>2. CASE 1 \notin open(trace)
      <4>1. 2 \in open(trace) /\ open(trace) \subseteq {2}
        BY <2>1, <2>2, <3>2
      <4> QED
        BY <4>1
    <3> QED
      BY <3>1, <3>2
  <2>4. first(trace) \in {1, 2}
    BY <2>2, <2>3
  <2> QED
    BY <1>1, <2>1, <2>4 DEF Worker
<1> QED
  BY <1>2, <1>3, <1>4

-----------------------------------------------------------------------------
(* Types *)

\* The part of TypeOK a send touches.
LogType ==
    /\ log \in [Worker -> [Partition -> Seq(Message)]]
    /\ \A w \in Worker, p \in Partition :
        committed[w][p] <= position[w][p] /\ position[w][p] <= Len(log[w][p])

LEMMA InitType == ASSUME Init PROVE TypeOK
BY PipelineAssumption DEF Init, TypeOK, Worker, Holding, Message, Null

LEMMA FaultType == ASSUME faults \in 0 .. MaxFaults, Fault PROVE faults' \in 0 .. MaxFaults
BY PipelineAssumption DEF Fault

LEMMA CountType ==
    ASSUME NEW f \in [Msg -> Nat], NEW m \in Msg PROVE Count(f, m) \in [Msg -> Nat]
BY DEF Count

\* A send keeps the offsets within the topics.
LEMMA SentType ==
    ASSUME TypeOK, NEW t \in Worker, NEW m \in Message, SendTo(t, m), UNCHANGED consumer
    PROVE  LogType'
<1>1. /\ log' \in [Worker -> [Partition -> Seq(Message)]]
      /\ Grows(t, m)
  BY Sent DEF TypeOK
<1>2. \A w \in Worker, p \in Partition :
        /\ committed[w][p] <= position[w][p] /\ position[w][p] <= Len(log[w][p])
        /\ position[w][p] \in Nat /\ committed[w][p] \in Nat
  BY DEF TypeOK
<1>3. committed' = committed /\ position' = position
  BY DEF consumer
<1> QED
  BY <1>1, <1>2, <1>3 DEF Grows, LogType

LEMMA NextType == ASSUME TypeOK, [Next]_vars PROVE TypeOK'
<1> USE DEF TypeOK, LogType
<1>1. ASSUME NEW m \in Msg, Accept(m) PROVE TypeOK'
  <2>1. [id |-> m, trace |-> {}] \in Message /\ "engine" \in Worker
    BY DEF Message, Worker
  <2>2. LogType'
    BY <1>1, <2>1, SentType DEF Accept
  <2> QED
    BY <1>1, <2>2 DEF Accept, consumer, worker, ends
<1>2. ASSUME NEW w \in Worker, Start(w) PROVE TypeOK'
  BY <1>2 DEF Start, Goto, Holding, ends
<1>3. ASSUME NEW w \in Worker, Poll(w) PROVE TypeOK'
  <2>1. PICK p \in Partition :
          /\ position[w][p] < Len(log[w][p])
          /\ position' = [position EXCEPT ![w][p] = @ + 1]
          /\ current' = [current EXCEPT ![w] = log[w][p][position[w][p] + 1]]
    BY <1>3 DEF Poll
  <2>2. log[w][p] \in Seq(Message) /\ position[w][p] + 1 \in 1 .. Len(log[w][p])
    BY <2>1
  <2>3. log[w][p][position[w][p] + 1] \in Message
    BY <2>2
  <2>4. current' \in [Worker -> Message \cup {Null}]
    BY <2>1, <2>3
  <2>5. \A v \in Worker : state'[v] \in Holding => current'[v] \in Message
    BY <1>3, <2>1, <2>3 DEF Poll, Goto
  <2>6. /\ position' \in [Worker -> [Partition -> Nat]]
        /\ \A v \in Worker, q \in Partition :
             committed[v][q] <= position'[v][q] /\ position'[v][q] <= Len(log[v][q])
    BY <2>1, <2>2
  <2> QED
    BY <1>3, <2>4, <2>5, <2>6 DEF Poll, Goto, ends, Holding
<1>4. ASSUME Dispatch PROVE TypeOK'
  <2> DEFINE m == current["engine"]
  <2>1. m \in Message
    BY <1>4 DEF Dispatch, Worker, Holding
  <2>2. LogType'
    <3>1. CASE NextStep(m.trace) = "none"
      BY <1>4, <3>1 DEF Dispatch, consumer
    <3>2. CASE NextStep(m.trace) # "none"
      BY <1>4, <2>1, <3>2, SentType, Routing DEF Dispatch
    <3> QED
      BY <3>1, <3>2
  <2> QED
    BY <1>4, <2>2 DEF Dispatch, Done, Goto, consumer, ends, Holding
<1>5. ASSUME NEW w \in Worker, Drop(w) PROVE TypeOK'
  <2>1. current[w].id \in Msg
    BY <1>5 DEF Drop, Holding, Message
  <2> QED
    BY <1>5, <2>1, CountType DEF Drop, Done, Goto, consumer, Holding
<1>6. ASSUME Analyse PROVE TypeOK'
  <2>1. current["ai"] \in Message /\ "ai" \in Worker
    BY <1>6 DEF Analyse, Holding, Worker
  <2>2. [current["ai"] EXCEPT !.trace = @ \cup {"ai"}] \in Message
    BY <2>1 DEF Message
  <2>3. current' = [current EXCEPT !["ai"] = [current["ai"] EXCEPT !.trace = @ \cup {"ai"}]]
    BY <1>6 DEF Analyse
  <2> QED
    BY <1>6, <2>1, <2>2, <2>3 DEF Analyse, Goto, consumer, ends, Holding
<1>7. ASSUME Store PROVE TypeOK'
  <2>1. current["final"].id \in Msg
    BY <1>7 DEF Store, Holding, Message, Worker
  <2> QED
    BY <1>7, <2>1, CountType DEF Store, Done, Goto, consumer, Holding
<1>8. ASSUME NEW w \in Worker, Raise(w) PROVE TypeOK'
  BY <1>8 DEF Raise, Goto, consumer, ends, Holding
<1>9. ASSUME DispatchFails PROVE TypeOK'
  <2> DEFINE m == current["engine"]
  <2>1. m \in Message /\ NextStep(m.trace) \in Worker
    BY <1>9, Routing DEF DispatchFails, Worker, Holding
  <2>2. LogType'
    <3>1. CASE UNCHANGED log
      BY <1>9, <3>1 DEF DispatchFails, consumer
    <3>2. CASE SendTo(NextStep(m.trace), m)
      BY <1>9, <2>1, <3>2, SentType DEF DispatchFails
    <3> QED
      BY <1>9, <3>1, <3>2 DEF DispatchFails
  <2> QED
    BY <1>9, <2>2, FaultType DEF DispatchFails, Goto, consumer, ends, Holding
<1>10. ASSUME StoreFails PROVE TypeOK'
  <2>1. current["final"] \in Message /\ current["final"].id \in Msg /\ "final" \in Worker
    BY <1>10 DEF StoreFails, Holding, Message, Worker
  <2>2. stored' \in [Msg -> Nat]
    <3>1. stored \in [Msg -> Nat]
      OBVIOUS
    <3>2. CASE stored' = Count(stored, current["final"].id)
      BY <2>1, <3>1, <3>2, CountType
    <3>3. CASE UNCHANGED stored
      BY <3>1, <3>3
    <3> QED
      BY <1>10, <3>2, <3>3 DEF StoreFails
  <2> QED
    BY <1>10, <2>1, <2>2, FaultType DEF StoreFails, Goto, consumer, Holding
<1>11. ASSUME Send PROVE TypeOK'
  <2>1. current["ai"] \in Message /\ "engine" \in Worker
    BY <1>11 DEF Send, Holding, Worker
  <2>2. LogType'
    BY <1>11, <2>1, SentType DEF Send
  <2> QED
    BY <1>11, <2>2 DEF Send, Done, Goto, consumer, ends, Holding
<1>12. ASSUME SendFails PROVE TypeOK'
  <2>1. current["ai"] \in Message /\ "engine" \in Worker
    BY <1>12 DEF SendFails, Holding, Worker
  <2>2. LogType'
    <3>1. CASE UNCHANGED log
      BY <1>12, <3>1 DEF SendFails, consumer
    <3>2. CASE SendTo("engine", current["ai"])
      BY <1>12, <2>1, <3>2, SentType DEF SendFails
    <3> QED
      BY <1>12, <3>1, <3>2 DEF SendFails
  <2> QED
    BY <1>12, <2>2, FaultType DEF SendFails, Goto, consumer, ends, Holding
<1>13. ASSUME NEW w \in Worker, DeadLetter(w) PROVE TypeOK'
  <2>1. current[w].id \in Msg
    BY <1>13 DEF DeadLetter, Holding, Message
  <2> QED
    BY <1>13, <2>1, CountType DEF DeadLetter, Done, Goto, consumer, Holding
<1>14. ASSUME NEW w \in Worker, DeadLetterFails(w) PROVE TypeOK'
  <2>1. current[w].id \in Msg
    BY <1>14 DEF DeadLetterFails, Holding, Message
  <2> QED
    BY <1>14, <2>1, CountType, FaultType
    DEF DeadLetterFails, Done, Goto, consumer, Holding
<1>15. ASSUME NEW w \in Worker, Commit(w) PROVE TypeOK'
  BY <1>15 DEF Commit, Goto, ends, Holding
<1>16. ASSUME NEW w \in Worker, CommitFails(w) PROVE TypeOK'
  BY <1>16, FaultType DEF CommitFails, Goto, consumer, ends, Holding
<1>17. ASSUME NEW w \in Worker, Crash(w) PROVE TypeOK'
  BY <1>17, FaultType DEF Crash, Done, Goto, consumer, ends, Holding
<1>18. ASSUME NEW w \in Worker, Rebalance(w) PROVE TypeOK'
  BY <1>18, FaultType DEF Rebalance, worker, ends
<1>19. CASE UNCHANGED vars
  BY <1>19 DEF vars, consumer, worker, ends
<1> QED
  BY <1>1, <1>2, <1>3, <1>4, <1>5, <1>6, <1>7, <1>8, <1>9, <1>10, <1>11, <1>12, <1>13,
     <1>14, <1>15, <1>16, <1>17, <1>18, <1>19 DEF Next, Step, Faults

\* Every variable keeps its type and the offsets their order: what is committed has
\* been handed out, what is handed out has been written.
THEOREM TypeCorrect == Spec => []TypeOK
<1>1. Init => TypeOK
  BY InitType
<1>2. TypeOK /\ [Next]_vars => TypeOK'
  BY NextType
<1> QED
  BY <1>1, <1>2, PTL DEF Spec

-----------------------------------------------------------------------------
(* The steps of a message *)

\* The traces with which a message may be on the topic of a worker.
TracesAt == [engine |-> {{}, {"ai"}}, ai |-> {{}}, final |-> {{"ai"}}]

\* Every message on a topic, and every message a handler works on, is at the step of
\* that topic.
TraceInv ==
    /\ \A w \in Worker, p \in Partition : \A i \in 1 .. Len(log[w][p]) :
        log[w][p][i].trace \in TracesAt[w]
    /\ \A w \in Worker : state[w] = "work" => current[w].trace \in TracesAt[w]
    /\ state["ai"] = "send" => current["ai"].trace = {"ai"}

LEMMA SentTrace ==
    ASSUME TypeOK, TraceInv, NEW t \in Worker, NEW m \in Message, SendTo(t, m),
           m.trace \in TracesAt[t]
    PROVE  \A w \in Worker, p \in Partition : \A i \in 1 .. Len(log'[w][p]) :
               log'[w][p][i].trace \in TracesAt[w]
<1>1. Grows(t, m)
  BY Sent DEF TypeOK
<1> SUFFICES ASSUME NEW w \in Worker, NEW p \in Partition, NEW i \in 1 .. Len(log'[w][p])
             PROVE  log'[w][p][i].trace \in TracesAt[w]
  OBVIOUS
<1>2. i <= Len(log[w][p]) \/ (w = t /\ log'[w][p][i] = m)
  BY <1>1 DEF Grows
<1>3. CASE i <= Len(log[w][p])
  <2>1. i \in 1 .. Len(log[w][p])
    BY <1>1, <1>3 DEF Grows
  <2>2. log'[w][p][i] = log[w][p][i]
    BY <1>1, <2>1 DEF Grows
  <2> QED
    BY <2>1, <2>2 DEF TraceInv
<1> QED
  BY <1>2, <1>3

\* The engine sends a message to the topic of its trace.
LEMMA Routed ==
    ASSUME NEW trace \in {{}, {"ai"}}
    PROVE  /\ NextStep(trace) \in Worker /\ NextStep(trace) # "none"
           /\ trace \in TracesAt[NextStep(trace)]
<1>1. CASE trace = {}
  BY <1>1, Routing DEF TracesAt, Worker
<1>2. CASE trace = {"ai"}
  BY <1>2, Routing DEF TracesAt, Worker
<1> QED
  BY <1>1, <1>2

LEMMA InitTrace == ASSUME Init PROVE TraceInv
BY DEF Init, TraceInv, Worker

LEMMA NextTrace == ASSUME TypeOK, TraceInv, [Next]_vars PROVE TraceInv'
<1> USE DEF TraceInv
<1>1. ASSUME NEW m \in Msg, Accept(m) PROVE TraceInv'
  <2> DEFINE e == [id |-> m, trace |-> {}]
  <2>1. e \in Message /\ "engine" \in Worker /\ e.trace \in TracesAt["engine"]
    BY DEF Message, Worker, TracesAt
  <2>2. SendTo("engine", e)
    BY <1>1 DEF Accept
  <2> QED
    BY <1>1, <2>1, <2>2, SentTrace DEF Accept, worker
<1>2. ASSUME NEW w \in Worker, Poll(w) PROVE TraceInv'
  <2>1. PICK p \in Partition :
          /\ position[w][p] < Len(log[w][p])
          /\ current' = [current EXCEPT ![w] = log[w][p][position[w][p] + 1]]
    BY <1>2 DEF Poll
  <2>2. position[w][p] + 1 \in 1 .. Len(log[w][p]) /\ current \in [Worker -> Message \cup {Null}]
    BY <2>1 DEF TypeOK
  <2>3. log[w][p][position[w][p] + 1].trace \in TracesAt[w]
    BY <2>2
  <2>4. current'[w].trace \in TracesAt[w] /\ \A v \in Worker \ {w} : current'[v] = current[v]
    BY <2>1, <2>2, <2>3
  <2>5. /\ log' = log /\ state'[w] = "work"
        /\ \A v \in Worker \ {w} : state'[v] = state[v]
    BY <1>2 DEF Poll, Goto, TypeOK
  <2> QED
    BY <2>4, <2>5 DEF Worker
<1>3. ASSUME Dispatch PROVE TraceInv'
  <2> DEFINE m == current["engine"]
  <2>1. m \in Message /\ m.trace \in {{}, {"ai"}}
    BY <1>3 DEF Dispatch, TypeOK, Worker, Holding, TracesAt
  <2>2. SendTo(NextStep(m.trace), m)
    BY <1>3, <2>1, Routed DEF Dispatch
  <2>3. \A w \in Worker, p \in Partition : \A i \in 1 .. Len(log'[w][p]) :
          log'[w][p][i].trace \in TracesAt[w]
    BY <2>1, <2>2, Routed, SentTrace
  <2>4. \A v \in Worker : state'[v] \in {"work", "send"} =>
             state'[v] = state[v] /\ current'[v] = current[v]
    BY <1>3 DEF Dispatch, Done, Goto, TypeOK
  <2> QED
    BY <2>3, <2>4 DEF Worker
<1>4. ASSUME DispatchFails PROVE TraceInv'
  <2> DEFINE m == current["engine"]
  <2>1. m \in Message /\ m.trace \in {{}, {"ai"}}
    BY <1>4 DEF DispatchFails, TypeOK, Worker, Holding, TracesAt
  <2>2. \A w \in Worker, p \in Partition : \A i \in 1 .. Len(log'[w][p]) :
          log'[w][p][i].trace \in TracesAt[w]
    BY <1>4, <2>1, Routed, SentTrace DEF DispatchFails
  <2> QED
    BY <1>4, <2>2 DEF DispatchFails, Goto, TypeOK
<1>5. ASSUME Analyse PROVE TraceInv'
  <2>1. current["ai"] \in Message /\ current["ai"].trace = {} /\ "ai" \in Worker
    BY <1>5 DEF Analyse, TypeOK, Holding, Worker, TracesAt
  <2>2. current' = [current EXCEPT !["ai"] = [current["ai"] EXCEPT !.trace = @ \cup {"ai"}]]
    BY <1>5 DEF Analyse
  <2>3. current'["ai"].trace = {"ai"} /\ \A v \in Worker \ {"ai"} : current'[v] = current[v]
    BY <2>1, <2>2 DEF Message, TypeOK
  <2> QED
    BY <1>5, <2>3 DEF Analyse, Goto, TypeOK, Worker
<1>6. ASSUME Send PROVE TraceInv'
  <2>1. current["ai"] \in Message /\ "engine" \in Worker /\ current["ai"].trace \in TracesAt["engine"]
    BY <1>6 DEF Send, TypeOK, Holding, Worker, TracesAt
  <2>2. \A w \in Worker, p \in Partition : \A i \in 1 .. Len(log'[w][p]) :
          log'[w][p][i].trace \in TracesAt[w]
    BY <1>6, <2>1, SentTrace DEF Send
  <2> QED
    BY <1>6, <2>2 DEF Send, Done, Goto, TypeOK
<1>7. ASSUME SendFails PROVE TraceInv'
  <2>1. current["ai"] \in Message /\ "engine" \in Worker /\ current["ai"].trace \in TracesAt["engine"]
    BY <1>7 DEF SendFails, TypeOK, Holding, Worker, TracesAt
  <2>2. \A w \in Worker, p \in Partition : \A i \in 1 .. Len(log'[w][p]) :
          log'[w][p][i].trace \in TracesAt[w]
    BY <1>7, <2>1, SentTrace DEF SendFails
  <2> QED
    BY <1>7, <2>2 DEF SendFails, Goto, TypeOK
<1>8. ASSUME NEW w \in Worker,
             \/ Start(w) \/ Drop(w) \/ Raise(w) \/ DeadLetter(w) \/ Commit(w)
             \/ DeadLetterFails(w) \/ CommitFails(w) \/ Crash(w) \/ Rebalance(w)
      PROVE  TraceInv'
  <2>1. /\ log' = log
        /\ \A v \in Worker : state'[v] \in {"work", "send"} =>
             state'[v] = state[v] /\ current'[v] = current[v]
    BY <1>8 DEF Start, Drop, Raise, DeadLetter, Commit, DeadLetterFails, CommitFails, Crash,
                Rebalance, Done, Goto, worker, ends, consumer, TypeOK
  <2> QED
    BY <2>1 DEF Worker
<1>9. ASSUME Store \/ StoreFails PROVE TraceInv'
  <2>1. /\ log' = log
        /\ \A v \in Worker : state'[v] \in {"work", "send"} =>
             state'[v] = state[v] /\ current'[v] = current[v]
    BY <1>9 DEF Store, StoreFails, Done, Goto, TypeOK
  <2> QED
    BY <2>1 DEF Worker
<1>10. CASE UNCHANGED vars
  BY <1>10 DEF vars, worker
<1> QED
  BY <1>1, <1>2, <1>3, <1>4, <1>5, <1>6, <1>7, <1>8, <1>9, <1>10 DEF Next, Step, Faults

\* Only analysed messages reach final-store and none is analysed twice, whatever
\* restarts, rebalances or is sent twice.
THEOREM InOrder == Spec => []StepsInOrder
<1>1. Init => TypeOK /\ TraceInv
  BY InitType, InitTrace
<1>2. TypeOK /\ TraceInv /\ [Next]_vars => TypeOK' /\ TraceInv'
  BY NextType, NextTrace
<1>3. TraceInv => StepsInOrder
  BY DEF TraceInv, StepsInOrder, TracesAt, Worker
<1> QED
  BY <1>1, <1>2, <1>3, PTL DEF Spec

-----------------------------------------------------------------------------
(* At-least-once delivery: where a message that has not ended is *)

\* Where the consumer of w goes on reading partition p.
Offset(w, p) == IF state[w] = "down" THEN committed[w][p] ELSE position[w][p]

Held(m) == \E w \in Worker : state[w] \in Holding /\ current[w].id = m

\* A copy of m after the first n messages of a partition.
CopyAfter(n, partition, m) == \E i \in n + 1 .. Len(partition) : partition[i].id = m

Ahead(m) == \E w \in Worker, p \in Partition : CopyAfter(Offset(w, p), log[w][p], m)

\* A message in hand can be read again after a restart.
HeldUncommitted ==
    \A w \in Worker : state[w] \in Holding =>
        \E p \in Partition : CopyAfter(committed[w][p], log[w][p], current[w].id)

Accounted(m) == Settled(m) \/ m \in unsent \/ Held(m) \/ Ahead(m)

NoneForgotten == \A m \in accepted : Accounted(m)

IInv == TypeOK /\ TraceInv /\ HeldUncommitted /\ NoneForgotten

-----------------------------------------------------------------------------
(* What a step keeps *)

\* The topics keep what they have.
LogKept ==
    \A w \in Worker, p \in Partition :
        /\ Len(log[w][p]) \in Nat /\ Len(log'[w][p]) \in Nat
        /\ Len(log[w][p]) <= Len(log'[w][p])
        /\ \A i \in 1 .. Len(log[w][p]) : log'[w][p][i] = log[w][p][i]

\* Ends are not taken back.
EndsKept ==
    /\ \A m \in Msg : Settled(m) => Settled(m)'
    /\ unsent \subseteq unsent'

\* Nothing happens to the other workers.
OthersKept(w) ==
    \A v \in Worker \ {w} : state'[v] = state[v] /\ current'[v] = current[v]

\* No consumer moves on.
OffsetsKept ==
    \A w \in Worker, p \in Partition : Offset(w, p)' <= Offset(w, p)

LEMMA OffsetType ==
    ASSUME TypeOK, NEW w \in Worker, NEW p \in Partition
    PROVE  /\ Offset(w, p) \in Nat /\ committed[w][p] \in Nat /\ Len(log[w][p]) \in Nat
           /\ committed[w][p] <= Offset(w, p) /\ Offset(w, p) <= Len(log[w][p])
<1>1. /\ committed[w][p] \in Nat /\ position[w][p] \in Nat /\ log[w][p] \in Seq(Message)
      /\ committed[w][p] <= position[w][p] /\ position[w][p] <= Len(log[w][p])
  BY DEF TypeOK
<1> QED
  BY <1>1 DEF Offset

LEMMA SameLog == ASSUME TypeOK, UNCHANGED log PROVE LogKept
BY OffsetType DEF LogKept

LEMMA SentLog ==
    ASSUME TypeOK, NEW t \in Worker, NEW m \in Message, SendTo(t, m) PROVE LogKept
BY Sent DEF TypeOK, Grows, LogKept

\* Every step of the pipeline keeps the topics.
LEMMA LogStep == ASSUME TypeOK, TraceInv, [Next]_vars PROVE LogKept
<1>1. ASSUME NEW m \in Msg, Accept(m) PROVE LogKept
  <2>1. [id |-> m, trace |-> {}] \in Message /\ "engine" \in Worker
    BY DEF Message, Worker
  <2> QED
    BY <1>1, <2>1, SentLog DEF Accept
<1>2. CASE Dispatch \/ DispatchFails
  <2>1. current["engine"] \in Message
    BY <1>2 DEF Dispatch, DispatchFails, TypeOK, Worker, Holding
  <2>2. UNCHANGED log \/ \E t \in Worker : SendTo(t, current["engine"])
    BY <1>2, Routing DEF Dispatch, DispatchFails
  <2> QED
    BY <2>1, <2>2, SameLog, SentLog
<1>3. CASE Send \/ SendFails
  <2>1. current["ai"] \in Message /\ "engine" \in Worker
    BY <1>3 DEF Send, SendFails, TypeOK, Worker, Holding
  <2>2. UNCHANGED log \/ SendTo("engine", current["ai"])
    BY <1>3 DEF Send, SendFails
  <2> QED
    BY <2>1, <2>2, SameLog, SentLog
<1>4. CASE UNCHANGED log
  BY <1>4, SameLog
<1> QED
  BY <1>1, <1>2, <1>3, <1>4
  DEF Next, Step, Faults, Start, Poll, Drop, Raise, DeadLetter, Commit, Analyse, Store,
      StoreFails, DeadLetterFails, CommitFails, Crash, Rebalance, vars

LEMMA Counted ==
    ASSUME NEW f \in [Msg -> Nat], NEW m \in Msg
    PROVE  Count(f, m)[m] > 0 /\ \A k \in Msg : Count(f, m)[k] >= f[k]
BY DEF Count

\* So do the ends of the messages.
LEMMA EndsStep == ASSUME TypeOK, [Next]_vars PROVE EndsKept
<1>1. ASSUME NEW w \in Worker, state[w] \in Holding PROVE current[w].id \in Msg
  BY <1>1 DEF TypeOK, Message
<1>2. /\ stored' = stored \/ \E m \in Msg : stored' = Count(stored, m)
      /\ dropped' = dropped \/ \E m \in Msg : dropped' = Count(dropped, m)
      /\ dead' = dead \/ \E m \in Msg : dead' = Count(dead, m)
      /\ unsent \subseteq unsent'
  BY <1>1 DEF Holding, Worker, Next, Step, Faults, Accept, Dispatch, DispatchFails, Send,
      SendFails, Start, Poll, Drop, Raise, DeadLetter, Commit, Analyse, Store, StoreFails,
      DeadLetterFails, CommitFails, Crash, Rebalance, vars, ends
<1>3. stored \in [Msg -> Nat] /\ dropped \in [Msg -> Nat] /\ dead \in [Msg -> Nat]
  BY DEF TypeOK
<1>4. TypeOK'
  BY NextType
<1>5. \A k \in Msg : stored'[k] >= stored[k] /\ dropped'[k] >= dropped[k] /\ dead'[k] >= dead[k]
  BY <1>2, <1>3, Counted
<1>6. \A k \in Msg : /\ stored'[k] \in Nat /\ dropped'[k] \in Nat /\ dead'[k] \in Nat
                    /\ stored[k] \in Nat /\ dropped[k] \in Nat /\ dead[k] \in Nat
  BY <1>3, <1>4 DEF TypeOK
<1> QED
  BY <1>2, <1>5, <1>6 DEF EndsKept, Settled

-----------------------------------------------------------------------------
(* Copies of a message *)

LEMMA CopyKept ==
    ASSUME LogKept, NEW w \in Worker, NEW p \in Partition, NEW n \in Nat, NEW k \in Nat,
           k <= n, NEW m, CopyAfter(n, log[w][p], m)
    PROVE  CopyAfter(k, log'[w][p], m)
<1>1. PICK i \in n + 1 .. Len(log[w][p]) : log[w][p][i].id = m
  BY DEF CopyAfter
<1>2. /\ Len(log[w][p]) \in Nat /\ Len(log'[w][p]) \in Nat
      /\ Len(log[w][p]) <= Len(log'[w][p])
      /\ \A j \in 1 .. Len(log[w][p]) : log'[w][p][j] = log[w][p][j]
  BY DEF LogKept
<1>3. i \in 1 .. Len(log[w][p]) /\ i \in k + 1 .. Len(log'[w][p])
  BY <1>1, <1>2
<1> QED
  BY <1>1, <1>2, <1>3 DEF CopyAfter

\* A copy ahead of one consumer stays ahead of it unless it is handed out.
LEMMA CopyAhead ==
    ASSUME TypeOK, TypeOK', LogKept, NEW w \in Worker, NEW p \in Partition, NEW n \in Nat,
           Offset(w, p)' <= n, NEW m, CopyAfter(n, log[w][p], m)
    PROVE  Ahead(m)'
<1>1. Offset(w, p)' \in Nat
  BY OffsetType DEF TypeOK, Offset
<1>2. CopyAfter(Offset(w, p)', log'[w][p], m)
  BY <1>1, CopyKept
<1> QED
  BY <1>2 DEF Ahead

\* A message that is sent is ahead of its consumer.
LEMMA SentAhead ==
    ASSUME TypeOK, TypeOK', NEW t \in Worker, NEW e \in Message, SendTo(t, e), OffsetsKept
    PROVE  Ahead(e.id)'
<1>1. PICK p \in Partition :
        Len(log'[t][p]) = Len(log[t][p]) + 1 /\ log'[t][p][Len(log'[t][p])] = e
  BY Sent DEF TypeOK, Arrived
<1>2. /\ Offset(t, p)' \in Nat /\ Offset(t, p)' <= Len(log[t][p]) /\ Len(log[t][p]) \in Nat
  <2>1. Offset(t, p)' \in Nat
    BY DEF TypeOK, Offset
  <2> QED
    BY <2>1, OffsetType DEF OffsetsKept
<1>3. Len(log'[t][p]) \in Offset(t, p)' + 1 .. Len(log'[t][p])
  BY <1>1, <1>2
<1> QED
  BY <1>1, <1>3 DEF Ahead, CopyAfter

\* One worker lets go of its message, every other keeps its own: nothing is forgotten
\* if the one let go of is accounted for.
LEMMA StepKeeps ==
    ASSUME TypeOK, TypeOK', NoneForgotten, LogKept, EndsKept, OffsetsKept,
           NEW w \in Worker, OthersKept(w),
           \A m \in Msg : state[w] \in Holding /\ current[w].id = m => Accounted(m)'
    PROVE  \A m \in accepted : Accounted(m)'
<1> SUFFICES ASSUME NEW m \in accepted PROVE Accounted(m)'
  OBVIOUS
<1>1. m \in Msg /\ Accounted(m)
  BY DEF NoneForgotten, TypeOK
<1>2. CASE Settled(m) \/ m \in unsent
  BY <1>1, <1>2 DEF EndsKept, Accounted
<1>3. CASE Held(m)
  <2>1. PICK v \in Worker : state[v] \in Holding /\ current[v].id = m
    BY <1>3 DEF Held
  <2>2. CASE v = w
    BY <1>1, <2>1, <2>2
  <2>3. CASE v # w
    BY <2>1, <2>3 DEF OthersKept, Held, Accounted
  <2> QED
    BY <2>2, <2>3
<1>4. CASE Ahead(m)
  <2>1. PICK v \in Worker, p \in Partition : CopyAfter(Offset(v, p), log[v][p], m)
    BY <1>4 DEF Ahead
  <2>2. Offset(v, p) \in Nat /\ Offset(v, p)' <= Offset(v, p)
    BY OffsetType DEF OffsetsKept
  <2> QED
    BY <2>1, <2>2, CopyAhead DEF Accounted
<1> QED
  BY <1>1, <1>2, <1>3, <1>4 DEF Accounted

\* A message that was in hand before the step is still on its topic.
LEMMA HoldKeeps ==
    ASSUME TypeOK, LogKept, HeldUncommitted, NEW w \in Worker,
           \A p \in Partition : committed'[w][p] = committed[w][p],
           state[w] \in Holding, current'[w].id = current[w].id
    PROVE  \E p \in Partition : CopyAfter(committed'[w][p], log'[w][p], current'[w].id)
<1>1. PICK p \in Partition : CopyAfter(committed[w][p], log[w][p], current[w].id)
  BY DEF HeldUncommitted
<1>2. committed[w][p] \in Nat
  BY OffsetType
<1>3. CopyAfter(committed[w][p], log'[w][p], current[w].id)
  BY <1>1, <1>2, CopyKept
<1> QED
  BY <1>3

-----------------------------------------------------------------------------
(* The invariant *)

LEMMA HeldStep ==
    ASSUME TypeOK, TraceInv, HeldUncommitted, [Next]_vars PROVE HeldUncommitted'
<1>1. LogKept
  BY LogStep
<1>2. ASSUME NEW w \in Worker, Poll(w) PROVE HeldUncommitted'
  <2>1. PICK p \in Partition :
          /\ position[w][p] < Len(log[w][p])
          /\ current' = [current EXCEPT ![w] = log[w][p][position[w][p] + 1]]
    BY <1>2 DEF Poll
  <2>2. /\ committed' = committed /\ log' = log
        /\ \A v \in Worker \ {w} : state'[v] = state[v] /\ current'[v] = current[v]
        /\ current'[w] = log[w][p][position[w][p] + 1]
    BY <1>2, <2>1 DEF Poll, Goto, TypeOK
  <2>3. position[w][p] + 1 \in committed[w][p] + 1 .. Len(log[w][p])
    BY <2>1 DEF TypeOK
  <2>4. CopyAfter(committed'[w][p], log'[w][p], current'[w].id)
    BY <2>2, <2>3 DEF CopyAfter
  <2>5. ASSUME NEW v \in Worker \ {w}, state'[v] \in Holding
        PROVE  \E q \in Partition : CopyAfter(committed'[v][q], log'[v][q], current'[v].id)
    BY <1>1, <2>2, <2>5, HoldKeeps
  <2> QED
    BY <2>4, <2>5 DEF HeldUncommitted
<1>3. ASSUME ~ \E w \in Worker : Poll(w), NEW v \in Worker, state'[v] \in Holding
      PROVE  /\ state[v] \in Holding /\ current'[v].id = current[v].id
             /\ committed'[v] = committed[v]
  <2> USE DEF Done, Goto, TypeOK, Holding
  <2>1. CASE \E m \in Msg : Accept(m)
    BY <1>3, <2>1 DEF Accept, worker, consumer
  <2>2. CASE Dispatch \/ DispatchFails
    BY <1>3, <2>2 DEF Dispatch, DispatchFails, consumer
  <2>3. CASE Send \/ SendFails
    BY <1>3, <2>3 DEF Send, SendFails, consumer
  <2>4. CASE Analyse
    BY <1>3, <2>4 DEF Analyse, consumer, Message, Worker
  <2>5. CASE Store \/ StoreFails
    BY <1>3, <2>5 DEF Store, StoreFails, consumer
  <2>6. ASSUME NEW w \in Worker, \/ Start(w) \/ Drop(w) \/ Raise(w) \/ DeadLetter(w)
                                \/ DeadLetterFails(w)
        PROVE  /\ state[v] \in Holding /\ current'[v].id = current[v].id
               /\ committed'[v] = committed[v]
    BY <1>3, <2>6 DEF Start, Drop, Raise, DeadLetter, DeadLetterFails, consumer
  <2>7. ASSUME NEW w \in Worker, \/ Commit(w) \/ CommitFails(w) \/ Crash(w) \/ Rebalance(w)
        PROVE  /\ state[v] \in Holding /\ current'[v].id = current[v].id
               /\ committed'[v] = committed[v]
    BY <1>3, <2>7 DEF Commit, CommitFails, Crash, Rebalance, consumer, worker
  <2>8. CASE UNCHANGED vars
    BY <1>3, <2>8 DEF vars, consumer, worker
  <2> QED
    BY <1>3, <2>1, <2>2, <2>3, <2>4, <2>5, <2>6, <2>7, <2>8 DEF Next, Step, Faults
<1>4. ASSUME ~ \E w \in Worker : Poll(w) PROVE HeldUncommitted'
  BY <1>1, <1>3, <1>4, HoldKeeps DEF HeldUncommitted
<1> QED
  BY <1>2, <1>4

\* Only Poll moves a consumer on.
LEMMA OffsetStep ==
    ASSUME TypeOK, [Next]_vars, ~ \E w \in Worker : Poll(w) PROVE OffsetsKept
<1> SUFFICES ASSUME NEW v \in Worker, NEW p \in Partition PROVE Offset(v, p)' <= Offset(v, p)
  BY DEF OffsetsKept
<1>1. /\ Offset(v, p) \in Nat /\ committed[v][p] \in Nat /\ position[v][p] \in Nat
      /\ committed[v][p] <= Offset(v, p) /\ committed[v][p] <= position[v][p]
  BY OffsetType DEF TypeOK
<1>2. ASSUME position' = position, committed' = committed,
             state'[v] = "down" <=> state[v] = "down"
      PROVE  Offset(v, p)' <= Offset(v, p)
  BY <1>1, <1>2 DEF Offset
<1> USE DEF Done, Goto, TypeOK, Holding
<1>3. CASE \E m \in Msg : Accept(m)
  BY <1>2, <1>3 DEF Accept, worker, consumer
<1>4. CASE Dispatch \/ DispatchFails
  BY <1>2, <1>4 DEF Dispatch, DispatchFails, consumer
<1>5. CASE Send \/ SendFails
  BY <1>2, <1>5 DEF Send, SendFails, consumer
<1>6. CASE Analyse \/ Store \/ StoreFails
  BY <1>2, <1>6 DEF Analyse, Store, StoreFails, consumer
<1>7. ASSUME NEW w \in Worker,
             \/ Drop(w) \/ Raise(w) \/ DeadLetter(w) \/ DeadLetterFails(w) \/ CommitFails(w)
      PROVE  Offset(v, p)' <= Offset(v, p)
  BY <1>2, <1>7 DEF Drop, Raise, DeadLetter, DeadLetterFails, CommitFails, consumer
<1>8. ASSUME NEW w \in Worker, Commit(w) PROVE Offset(v, p)' <= Offset(v, p)
  BY <1>1, <1>8 DEF Commit, Offset
<1>9. ASSUME NEW w \in Worker, Start(w) PROVE Offset(v, p)' <= Offset(v, p)
  BY <1>1, <1>9 DEF Start, Offset
<1>10. ASSUME NEW w \in Worker, Crash(w) PROVE Offset(v, p)' <= Offset(v, p)
  BY <1>1, <1>10 DEF Crash, Offset, consumer
<1>11. ASSUME NEW w \in Worker, Rebalance(w) PROVE Offset(v, p)' <= Offset(v, p)
  BY <1>1, <1>11 DEF Rebalance, Offset, worker
<1>12. CASE UNCHANGED vars
  BY <1>2, <1>12 DEF vars, consumer, worker
<1> QED
  BY <1>3, <1>4, <1>5, <1>6, <1>7, <1>8, <1>9, <1>10, <1>11, <1>12 DEF Next, Step, Faults

\* The message a worker lets go of has ended, is on its next topic, or can be read again.
LEMMA ReleaseStep ==
    ASSUME TypeOK, TypeOK', TraceInv, HeldUncommitted, EndsKept, LogKept, OffsetsKept, Next,
           ~ \E w \in Worker : Poll(w)
    PROVE  \E w \in Worker :
              /\ OthersKept(w)
              /\ \A m \in Msg : state[w] \in Holding /\ current[w].id = m => Accounted(m)'
<1> DEFINE Keeps(w) == state[w] \in Holding =>
               state'[w] \in Holding /\ current'[w].id = current[w].id
           Goal == \E w \in Worker :
              /\ OthersKept(w)
              /\ \A m \in Msg : state[w] \in Holding /\ current[w].id = m => Accounted(m)'
<1>0. "engine" \in Worker /\ "ai" \in Worker /\ "final" \in Worker
  BY DEF Worker
<1>1. ASSUME NEW w \in Worker, OthersKept(w), Keeps(w) PROVE Goal
  BY <1>1 DEF Accounted, Held
<1>2. ASSUME NEW m \in Msg, Accept(m) PROVE Goal
  BY <1>0, <1>1, <1>2 DEF Accept, worker, OthersKept
<1>3. ASSUME NEW w \in Worker,
             \/ Start(w) \/ Raise(w) \/ Commit(w) \/ CommitFails(w) \/ Rebalance(w)
      PROVE  Goal
  <2>1. OthersKept(w) /\ Keeps(w)
    BY <1>3 DEF Start, Raise, Commit, CommitFails, Rebalance, OthersKept, Goto, worker,
                TypeOK, Holding
  <2> QED
    BY <1>1, <2>1
<1>4. CASE Analyse
  <2>1. OthersKept("ai") /\ Keeps("ai")
    BY <1>0, <1>4 DEF Analyse, OthersKept, Goto, TypeOK, Holding, Message
  <2> QED
    BY <1>0, <1>1, <2>1
<1>5. CASE DispatchFails
  <2>1. OthersKept("engine") /\ Keeps("engine")
    BY <1>0, <1>5 DEF DispatchFails, OthersKept, Goto, TypeOK, Holding
  <2> QED
    BY <1>0, <1>1, <2>1
<1>6. CASE SendFails
  <2>1. OthersKept("ai") /\ Keeps("ai")
    BY <1>0, <1>6 DEF SendFails, OthersKept, Goto, TypeOK, Holding
  <2> QED
    BY <1>0, <1>1, <2>1
<1>7. CASE StoreFails
  <2>1. OthersKept("final") /\ Keeps("final")
    BY <1>0, <1>7 DEF StoreFails, OthersKept, Goto, TypeOK, Holding
  <2> QED
    BY <1>0, <1>1, <2>1
<1>8. CASE Dispatch
  <2> DEFINE e == current["engine"]
  <2>1. e \in Message /\ e.trace \in {{}, {"ai"}}
    BY <1>0, <1>8 DEF Dispatch, TypeOK, TraceInv, Holding, TracesAt
  <2>2. NextStep(e.trace) \in Worker /\ SendTo(NextStep(e.trace), e)
    BY <1>8, <2>1, Routed DEF Dispatch
  <2>3. \A m \in Msg : e.id = m => Ahead(m)'
    BY <2>1, <2>2, SentAhead
  <2>4. OthersKept("engine")
    BY <1>0, <1>8 DEF Dispatch, OthersKept, Done, Goto, TypeOK
  <2> QED
    BY <1>0, <2>3, <2>4 DEF Accounted
<1>9. CASE Send
  <2>1. \A m \in Msg : current["ai"].id = m => Ahead(m)'
    BY <1>0, <1>9, SentAhead DEF Send, TypeOK, Holding
  <2>2. OthersKept("ai")
    BY <1>0, <1>9 DEF Send, OthersKept, Done, Goto, TypeOK
  <2> QED
    BY <1>0, <2>1, <2>2 DEF Accounted
<1>10. ASSUME NEW w \in Worker,
              \/ Drop(w) \/ DeadLetter(w) \/ DeadLetterFails(w) \/ (w = "final" /\ Store)
       PROVE  Goal
  <2>1. OthersKept(w)
    BY <1>10 DEF Drop, DeadLetter, DeadLetterFails, Store, OthersKept, Done, Goto, TypeOK
  <2>2. ASSUME NEW m \in Msg, state[w] \in Holding, current[w].id = m PROVE Accounted(m)'
    <3>1. /\ stored'[m] \in Nat /\ dropped'[m] \in Nat /\ dead'[m] \in Nat
          /\ stored \in [Msg -> Nat] /\ dropped \in [Msg -> Nat] /\ dead \in [Msg -> Nat]
      BY DEF TypeOK
    <3>2. ASSUME stored'[m] > 0 \/ dropped'[m] > 0 \/ dead'[m] > 0 PROVE Accounted(m)'
      BY <3>1, <3>2 DEF Settled, Accounted
    <3>3. CASE Drop(w)
      BY <2>2, <3>1, <3>3, <3>2, Counted DEF Drop
    <3>4. CASE DeadLetter(w)
      BY <2>2, <3>1, <3>4, <3>2, Counted DEF DeadLetter
    <3>5. CASE DeadLetterFails(w)
      BY <2>2, <3>5 DEF DeadLetterFails, Accounted
    <3>6. CASE w = "final" /\ Store
      BY <2>2, <3>1, <3>6, <3>2, Counted DEF Store
    <3> QED
      BY <1>10, <3>3, <3>4, <3>5, <3>6
  <2> QED
    BY <2>1, <2>2
<1>11. ASSUME NEW w \in Worker, Crash(w) PROVE Goal
  <2>1. OthersKept(w)
    BY <1>11 DEF Crash, OthersKept, Done, Goto, TypeOK
  <2>2. ASSUME NEW m \in Msg, state[w] \in Holding, current[w].id = m PROVE Accounted(m)'
    <3>1. PICK p \in Partition : CopyAfter(committed[w][p], log[w][p], m)
      BY <2>2 DEF HeldUncommitted
    <3>2. Offset(w, p)' <= committed[w][p] /\ committed[w][p] \in Nat
      BY <1>11, OffsetType DEF Crash, Done, Goto, Offset, consumer, TypeOK
    <3> QED
      BY <3>1, <3>2, CopyAhead DEF Accounted
  <2> QED
    BY <2>1, <2>2
<1> QED
  BY <1>0, <1>2, <1>3, <1>4, <1>5, <1>6, <1>7, <1>8, <1>9, <1>10, <1>11 DEF Next, Step, Faults

\* The message Poll hands out is held, every other copy stays ahead.
LEMMA PollStep ==
    ASSUME TypeOK, TypeOK', LogKept, EndsKept, NoneForgotten, NEW w \in Worker, Poll(w)
    PROVE  NoneForgotten'
<1>1. PICK p \in Partition :
        /\ position[w][p] < Len(log[w][p])
        /\ position' = [position EXCEPT ![w][p] = @ + 1]
        /\ current' = [current EXCEPT ![w] = log[w][p][position[w][p] + 1]]
  BY DEF Poll
<1>2. /\ accepted' = accepted /\ log' = log /\ committed' = committed
      /\ state[w] = "poll" /\ state'[w] = "work"
      /\ \A v \in Worker \ {w} : state'[v] = state[v] /\ current'[v] = current[v]
      /\ current'[w] = log[w][p][position[w][p] + 1]
  BY <1>1 DEF Poll, Goto, TypeOK
<1> SUFFICES ASSUME NEW m \in accepted PROVE Accounted(m)'
  BY <1>2 DEF NoneForgotten
<1>3. m \in Msg /\ Accounted(m)
  BY DEF NoneForgotten, TypeOK
<1>4. CASE Settled(m) \/ m \in unsent
  BY <1>3, <1>4 DEF EndsKept, Accounted
<1>5. CASE Held(m)
  BY <1>2, <1>5 DEF Held, Holding, Accounted
<1>6. CASE Ahead(m)
  <2>1. PICK v \in Worker, q \in Partition : CopyAfter(Offset(v, q), log[v][q], m)
    BY <1>6 DEF Ahead
  <2>2. Offset(v, q) \in Nat /\ Len(log[v][q]) \in Nat
    BY OffsetType
  <2>3. CASE v # w \/ q # p
    <3>1. position'[v][q] = position[v][q] /\ committed'[v][q] = committed[v][q]
      BY <1>1, <1>2, <2>3 DEF TypeOK
    <3>2. state'[v] = "down" <=> state[v] = "down"
      BY <1>2
    <3>3. Offset(v, q)' = Offset(v, q)
      BY <3>1, <3>2 DEF Offset
    <3> QED
      BY <2>1, <2>2, <3>3, CopyAhead DEF Accounted
  <2>4. CASE v = w /\ q = p
    <3>1. Offset(v, q) = position[w][p] /\ Offset(v, q)' = position[w][p] + 1
      BY <1>1, <1>2, <2>4 DEF Offset, TypeOK
    <3>2. PICK i \in position[w][p] + 1 .. Len(log[w][p]) : log[w][p][i].id = m
      BY <2>1, <2>4, <3>1 DEF CopyAfter
    <3>3. CASE i = position[w][p] + 1
      BY <1>2, <3>2, <3>3 DEF Held, Holding, Accounted
    <3>4. CASE i # position[w][p] + 1
      <4>1. i \in Offset(v, q)' + 1 .. Len(log[w][p])
        BY <2>2, <2>4, <3>1, <3>2, <3>4
      <4> QED
        BY <1>2, <2>4, <3>2, <4>1 DEF Ahead, CopyAfter, Accounted
    <3> QED
      BY <3>3, <3>4
  <2> QED
    BY <2>3, <2>4
<1> QED
  BY <1>3, <1>4, <1>5, <1>6 DEF Accounted

LEMMA NextInv == ASSUME IInv, [Next]_vars PROVE IInv'
<1>1. TypeOK' /\ TraceInv' /\ HeldUncommitted'
  BY NextType, NextTrace, HeldStep DEF IInv
<1>2. LogKept /\ EndsKept
  BY LogStep, EndsStep DEF IInv
<1>3. ASSUME NEW w \in Worker, Poll(w) PROVE NoneForgotten'
  BY <1>1, <1>2, <1>3, PollStep DEF IInv
<1>4. ASSUME Next, ~ \E w \in Worker : Poll(w) PROVE NoneForgotten'
  <2>1. OffsetsKept
    BY <1>4, OffsetStep DEF IInv
  <2>2. \A m \in accepted : Accounted(m)'
    BY <1>1, <1>2, <1>4, <2>1, ReleaseStep, StepKeeps DEF IInv
  <2>3. CASE accepted' = accepted
    BY <2>2, <2>3 DEF NoneForgotten
  <2>4. ASSUME NEW m \in Msg, Accept(m) PROVE NoneForgotten'
    <3> DEFINE e == [id |-> m, trace |-> {}]
    <3>1. e \in Message /\ e.id = m /\ "engine" \in Worker
      BY DEF Message, Worker
    <3>2. Ahead(m)'
      BY <1>1, <2>1, <2>4, <3>1, SentAhead DEF Accept, IInv
    <3> QED
      BY <2>2, <2>4, <3>2 DEF Accept, NoneForgotten, Accounted
  <2> QED
    BY <1>4, <2>3, <2>4
    DEF Next, Step, Faults, Start, Poll, Drop, Raise, DeadLetter, Commit, Analyse, Store,
        StoreFails, DeadLetterFails, CommitFails, Crash, Rebalance, Dispatch, DispatchFails,
        Send, SendFails
<1>5. CASE UNCHANGED vars
  <2>1. /\ state' = state /\ current' = current /\ position' = position
        /\ committed' = committed /\ accepted' = accepted /\ "engine" \in Worker
    BY <1>5 DEF vars, worker, consumer, Worker
  <2>2. OffsetsKept /\ OthersKept("engine")
    <3>1. \A w \in Worker, p \in Partition : Offset(w, p) \in Nat /\ Offset(w, p)' = Offset(w, p)
      BY <2>1, OffsetType DEF Offset, IInv
    <3> QED
      BY <2>1, <3>1 DEF OffsetsKept, OthersKept
  <2>3. \A m \in Msg : state["engine"] \in Holding /\ current["engine"].id = m => Accounted(m)'
    BY <2>1 DEF Accounted, Held
  <2> QED
    BY <1>1, <1>2, <2>1, <2>2, <2>3, StepKeeps DEF IInv, NoneForgotten
<1> QED
  BY <1>1, <1>3, <1>4, <1>5 DEF IInv

LEMMA InitInv == ASSUME Init PROVE IInv
<1>1. TypeOK /\ TraceInv
  BY InitType, InitTrace
<1>2. HeldUncommitted /\ NoneForgotten
  BY DEF Init, HeldUncommitted, NoneForgotten, Holding
<1> QED
  BY <1>1, <1>2 DEF IInv

LEMMA InvSafe == ASSUME IInv PROVE NothingLost
<1> SUFFICES ASSUME NEW m \in accepted, Held(m) \/ Ahead(m) PROVE InFlight(m)
  BY DEF IInv, NoneForgotten, Accounted, NothingLost
<1>1. CASE Held(m)
  BY <1>1 DEF Held, IInv, HeldUncommitted, CopyAfter, InFlight
<1>2. CASE Ahead(m)
  <2>1. PICK w \in Worker, p \in Partition : \E i \in Offset(w, p) + 1 .. Len(log[w][p]) :
              log[w][p][i].id = m
    BY <1>2 DEF Ahead, CopyAfter
  <2>2. \A i \in Offset(w, p) + 1 .. Len(log[w][p]) : i \in committed[w][p] + 1 .. Len(log[w][p])
    BY OffsetType DEF IInv
  <2> QED
    BY <2>1, <2>2 DEF InFlight
<1> QED
  BY <1>1, <1>2

\* The inductive invariant: every accepted message has ended, is in a worker's hand with
\* an uncommitted copy, or lies ahead of a consumer.
THEOREM Invariance == Spec => []IInv
<1>1. Init => IInv
  BY InitInv
<1>2. IInv /\ [Next]_vars => IInv'
  BY NextInv
<1> QED
  BY <1>1, <1>2, PTL DEF Spec

\* No committed offset passes a message that is not stored, dropped, dead-lettered or on
\* its way, whatever crashes, rebalances or fails to commit; only a failing send to
\* dlq-signals can lose one.
THEOREM Delivery == Spec => []NothingLost
<1>1. IInv => NothingLost
  BY InvSafe
<1> QED
  BY <1>1, Invariance, PTL

-----------------------------------------------------------------------------
(* At least once is nearly once: each fault adds at most one end of a message *)

One(condition) == IF condition THEN 1 ELSE 0

\* The copies of m on the topic of w: a partition and an index in it.
Copies(w, m) ==
    {x \in Partition \X Nat : /\ x[2] \in 1 .. Len(log[w][x[1]])
                              /\ log[w][x[1]][x[2]].id = m}

\* Those its consumer will hand out, and those it has handed out but not committed,
\* which a restart brings back.
Unread(w, m) == {x \in Copies(w, m) : Offset(w, x[1]) < x[2]}
Unsure(w, m) == {x \in Copies(w, m) : committed[w][x[1]] < x[2] /\ x[2] <= Offset(w, x[1])}

\* The copies a restart brings back, but for the one whose fault is still to come: while
\* a message is handled and its offset not committed, one of them is no duplicate yet.
Busy(w) == state[w] \in Holding \cup {"commit"}
Extra(w, n) == IF Busy(w) /\ n > 0 THEN n - 1 ELSE n

\* How many ends w may still bring about for m, if no more faults happen.
Load(w, m) ==
    Cardinality(Unread(w, m)) + One(state[w] \in Holding /\ current[w].id = m)
        + Extra(w, Cardinality(Unsure(w, m)))

Ended(m) == stored[m] + dropped[m] + dead[m]

Total(m) == Ended(m) + Load("engine", m) + Load("ai", m) + Load("final", m)

FiniteCopies == \A w \in Worker, m \in Msg : IsFiniteSet(Copies(w, m))

\* A message no producer has sent yet is nowhere.
OnlyAccepted ==
    /\ \A w \in Worker, p \in Partition : \A i \in 1 .. Len(log[w][p]) :
        log[w][p][i].id \in accepted
    /\ \A w \in Worker : state[w] \in Holding => current[w].id \in accepted
    /\ \A m \in Msg \ accepted : Ended(m) = 0

EndsInv ==
    /\ OnlyAccepted
    /\ FiniteCopies
    /\ \A m \in Msg : Total(m) <= 1 + faults

-----------------------------------------------------------------------------
(* Counting copies *)

LEMMA Sizes ==
    ASSUME FiniteCopies, NEW w \in Worker, NEW m \in Msg
    PROVE  /\ IsFiniteSet(Unread(w, m)) /\ Cardinality(Unread(w, m)) \in Nat
           /\ IsFiniteSet(Unsure(w, m)) /\ Cardinality(Unsure(w, m)) \in Nat
           /\ Load(w, m) \in Nat
<1>1. IsFiniteSet(Copies(w, m))
  BY DEF FiniteCopies
<1>2. Unread(w, m) \in SUBSET Copies(w, m) /\ Unsure(w, m) \in SUBSET Copies(w, m)
  BY DEF Unread, Unsure
<1>3. IsFiniteSet(Unread(w, m)) /\ IsFiniteSet(Unsure(w, m))
  BY <1>1, <1>2, FS_Subset
<1>4. Cardinality(Unread(w, m)) \in Nat /\ Cardinality(Unsure(w, m)) \in Nat
  BY <1>3, FS_CardinalityType
<1> QED
  BY <1>3, <1>4 DEF Load, Extra, One

\* Where neither topic nor offsets change, the copies are the same.
LEMMA SameCopies ==
    ASSUME NEW w \in Worker, NEW m \in Msg, log'[w] = log[w], committed'[w] = committed[w],
           \A p \in Partition : Offset(w, p)' = Offset(w, p)
    PROVE  /\ Copies(w, m)' = Copies(w, m)
           /\ Unread(w, m)' = Unread(w, m) /\ Unsure(w, m)' = Unsure(w, m)
<1>1. Copies(w, m)' = Copies(w, m)
  BY DEF Copies
<1>2. \A x \in Copies(w, m) : x[1] \in Partition
  BY DEF Copies
<1> QED
  BY <1>1, <1>2 DEF Unread, Unsure

\* A message that is sent is one more unread copy, of itself, on its topic.
LEMMA SentCopies ==
    ASSUME TypeOK, FiniteCopies, NEW t \in Worker, NEW e \in Message, SendTo(t, e),
           UNCHANGED committed,
           \A w \in Worker, p \in Partition : Offset(w, p)' = Offset(w, p),
           NEW w \in Worker, NEW m \in Msg
    PROVE  /\ IsFiniteSet(Copies(w, m)')
           /\ Cardinality(Unread(w, m)') = Cardinality(Unread(w, m)) + One(w = t /\ e.id = m)
           /\ Unsure(w, m)' = Unsure(w, m)
<1>1. PICK q \in Partition : log' = [log EXCEPT ![t][q] = Append(log[t][q], e)]
  BY DEF SendTo
<1>2. log[t][q] \in Seq(Message) /\ \A v \in Worker, p \in Partition : log[v][p] \in Seq(Message)
  BY DEF TypeOK
<1>3. /\ log'[t][q] = Append(log[t][q], e)
      /\ \A v \in Worker, p \in Partition : v # t \/ p # q => log'[v][p] = log[v][p]
  BY <1>1 DEF TypeOK
<1>4. IsFiniteSet(Copies(w, m)) /\ IsFiniteSet(Unread(w, m)) /\ Cardinality(Unread(w, m)) \in Nat
  BY Sizes DEF FiniteCopies
<1>5. PICK n \in Nat : n = Len(log[t][q])
  BY <1>2
<1>6. /\ Len(log[t][q]) = n /\ Len(log'[t][q]) = n + 1 /\ log'[t][q][n + 1] = e
      /\ \A i \in 1 .. n : log'[t][q][i] = log[t][q][i]
  BY <1>2, <1>3, <1>5
<1>7. PICK x0 \in Partition \X Nat : x0 = <<q, n + 1>>
  <2>1. n + 1 \in Nat
    OBVIOUS
  <2>2. <<q, n + 1>> \in Partition \X Nat
    BY <2>1
  <2> QED
    BY <2>2
<1>8. \A p \in Partition : Offset(w, p) \in Nat /\ Offset(w, p) <= Len(log[w][p])
  BY OffsetType
<1>9. CASE w = t /\ e.id = m
  <2>1. Copies(w, m)' = Copies(w, m) \cup {x0}
    <3>1. ASSUME NEW p \in Partition, NEW i \in Nat
          PROVE  (i \in 1 .. Len(log'[w][p]) /\ log'[w][p][i].id = m)
                   <=> (i \in 1 .. Len(log[w][p]) /\ log[w][p][i].id = m)
                       \/ (p = q /\ i = n + 1)
      <4>1. CASE p = q
        <5>1. /\ Len(log[w][p]) = n /\ Len(log'[w][p]) = n + 1
              /\ log'[w][p][n + 1] = e /\ e.id = m
              /\ \A j \in 1 .. n : log'[w][p][j] = log[w][p][j]
          BY <1>6, <1>9, <4>1
        <5>2. CASE i \in 1 .. n
          <6>1. i \in 1 .. n + 1 /\ i # n + 1 /\ log'[w][p][i] = log[w][p][i]
            BY <5>1, <5>2
          <6> QED
            BY <5>1, <5>2, <6>1
        <5>3. CASE i = n + 1
          <6>1. i \in 1 .. n + 1
            BY <5>3
          <6> QED
            BY <4>1, <5>1, <5>3, <6>1
        <5>4. CASE i \notin 1 .. n + 1
          <6>1. i \notin 1 .. n /\ i # n + 1
            BY <5>4
          <6> QED
            BY <5>1, <5>4, <6>1
        <5> QED
          BY <5>2, <5>3, <5>4
      <4>2. CASE p # q
        BY <1>3, <1>9, <4>2
      <4> QED
        BY <4>1, <4>2
    <3> QED
      BY <1>7, <3>1 DEF Copies
  <2>2. x0 \notin Copies(w, m)
    BY <1>6, <1>7, <1>9 DEF Copies
  <2>3. Offset(w, x0[1])' < x0[2] /\ ~(x0[2] <= Offset(w, x0[1])')
    <3>1. Offset(w, q)' = Offset(w, q) /\ Offset(w, q) \in Nat /\ Offset(w, q) <= n
      BY <1>6, <1>8, <1>9
    <3>2. Offset(w, q)' < n + 1 /\ ~(n + 1 <= Offset(w, q)')
      BY <3>1
    <3> QED
      BY <1>7, <3>2
  <2>4. \A x \in Copies(w, m) : Offset(w, x[1])' = Offset(w, x[1])
    <3>1. \A x \in Copies(w, m) : x[1] \in Partition
      BY DEF Copies
    <3> QED
      BY <3>1
  <2>5. Unread(w, m)' = Unread(w, m) \cup {x0}
    <3>1. x0 \in Unread(w, m)'
      BY <2>1, <2>3 DEF Unread
    <3>2. ASSUME NEW x, x # x0 PROVE x \in Unread(w, m)' <=> x \in Unread(w, m)
      <4>1. x \in Copies(w, m)' <=> x \in Copies(w, m)
        BY <2>1, <3>2
      <4> QED
        BY <2>4, <4>1 DEF Unread
    <3> QED
      BY <3>1, <3>2
  <2>6. Unsure(w, m)' = Unsure(w, m)
    <3>1. x0 \notin Unsure(w, m)' /\ x0 \notin Unsure(w, m)
      BY <2>2, <2>3 DEF Unsure
    <3>2. ASSUME NEW x, x # x0 PROVE x \in Unsure(w, m)' <=> x \in Unsure(w, m)
      <4>1. x \in Copies(w, m)' <=> x \in Copies(w, m)
        BY <2>1, <3>2
      <4> QED
        BY <2>4, <4>1 DEF Unsure
    <3> QED
      BY <3>1, <3>2
  <2>7. x0 \notin Unread(w, m)
    BY <2>2 DEF Unread
  <2>8. IsFiniteSet(Copies(w, m)')
    BY <1>4, <2>1, FS_AddElement
  <2>9. Cardinality(Unread(w, m)') = Cardinality(Unread(w, m)) + 1
    BY <1>4, <2>5, <2>7, FS_AddElement
  <2> QED
    BY <1>9, <2>6, <2>8, <2>9 DEF One
<1>10. CASE ~(w = t /\ e.id = m)
  <2>1. Copies(w, m)' = Copies(w, m)
    <3>1. ASSUME NEW p \in Partition, NEW i \in Nat
          PROVE  (i \in 1 .. Len(log'[w][p]) /\ log'[w][p][i].id = m)
                   <=> (i \in 1 .. Len(log[w][p]) /\ log[w][p][i].id = m)
      <4>1. CASE w = t /\ p = q
        <5>1. /\ Len(log[w][p]) = n /\ Len(log'[w][p]) = n + 1
              /\ log'[w][p][n + 1] = e /\ e.id # m
              /\ \A j \in 1 .. n : log'[w][p][j] = log[w][p][j]
          BY <1>6, <1>10, <4>1
        <5>2. CASE i \in 1 .. n
          <6>1. i \in 1 .. n + 1 /\ log'[w][p][i] = log[w][p][i]
            BY <5>1, <5>2
          <6> QED
            BY <5>1, <5>2, <6>1
        <5>3. CASE i = n + 1
          BY <5>1, <5>3
        <5> QED
          BY <5>1, <5>2, <5>3
      <4>2. CASE w # t \/ p # q
        BY <1>3, <4>2
      <4> QED
        BY <4>1, <4>2
    <3> QED
      BY <3>1 DEF Copies
  <2>2. \A x \in Copies(w, m) : x[1] \in Partition
    BY DEF Copies
  <2>3. Unread(w, m)' = Unread(w, m) /\ Unsure(w, m)' = Unsure(w, m)
    BY <2>1, <2>2 DEF Unread, Unsure
  <2> QED
    BY <1>4, <1>10, <2>1, <2>3 DEF One
<1> QED
  BY <1>9, <1>10

\* Poll makes an unread copy of the message it hands out an unsure one.
LEMMA PolledCopies ==
    ASSUME TypeOK, FiniteCopies, NEW w \in Worker, Poll(w), NEW m \in Msg
    PROVE  /\ Cardinality(Unread(w, m)') = Cardinality(Unread(w, m)) - One(current'[w].id = m)
           /\ Cardinality(Unsure(w, m)') = Cardinality(Unsure(w, m)) + One(current'[w].id = m)
<1>1. PICK p \in Partition :
        /\ position[w][p] < Len(log[w][p])
        /\ position' = [position EXCEPT ![w][p] = @ + 1]
        /\ current' = [current EXCEPT ![w] = log[w][p][position[w][p] + 1]]
  BY DEF Poll
<1> DEFINE i0 == position[w][p] + 1
           x0 == <<p, i0>>
<1>2. /\ log' = log /\ committed' = committed /\ state[w] = "poll" /\ state'[w] = "work"
      /\ current'[w] = log[w][p][i0]
  BY <1>1 DEF Poll, Goto, TypeOK
<1>3. /\ position[w][p] \in Nat /\ committed[w][p] \in Nat
      /\ committed[w][p] <= position[w][p] /\ Len(log[w][p]) \in Nat
  BY DEF TypeOK
<1>4. /\ i0 \in 1 .. Len(log[w][p]) /\ i0 \in Nat /\ committed[w][p] < i0
      /\ x0 \in Partition \X Nat /\ x0[1] = p /\ x0[2] = i0
  <2>1. i0 \in 1 .. Len(log[w][p]) /\ i0 \in Nat /\ committed[w][p] < i0
    BY <1>1, <1>3
  <2> QED
    BY <2>1
<1>5. /\ Offset(w, p) = position[w][p] /\ Offset(w, p)' = i0
      /\ \A q \in Partition \ {p} : Offset(w, q)' = Offset(w, q)
  BY <1>1, <1>2 DEF Offset, TypeOK
<1>6. Copies(w, m)' = Copies(w, m)
  BY <1>2 DEF Copies
<1>7. \A x \in Copies(w, m) : x \in Partition \X Nat /\ x = <<x[1], x[2]>>
  BY DEF Copies
<1>8. /\ IsFiniteSet(Unread(w, m)) /\ Cardinality(Unread(w, m)) \in Nat
      /\ IsFiniteSet(Unsure(w, m)) /\ Cardinality(Unsure(w, m)) \in Nat
  BY Sizes
<1>9. ASSUME NEW x \in Copies(w, m)
      PROVE  /\ Offset(w, x[1])' < x[2] <=> Offset(w, x[1]) < x[2] /\ x # x0
             /\ x[2] <= Offset(w, x[1])' <=> x[2] <= Offset(w, x[1]) \/ x = x0
  <2>1. x[1] \in Partition /\ x[2] \in Nat /\ x = <<x[1], x[2]>>
    BY <1>7
  <2>2. CASE x[1] = p
    <3>1. x = x0 <=> x[2] = i0
      BY <1>4, <2>1, <2>2
    <3> HIDE DEF x0
    <3> QED
      BY <1>3, <1>5, <2>1, <2>2, <3>1
  <2>3. CASE x[1] # p
    BY <1>3, <1>4, <1>5, <2>1, <2>3, OffsetType
  <2> QED
    BY <2>2, <2>3
<1>10. Unread(w, m)' = Unread(w, m) \ {x0}
  BY <1>6, <1>9 DEF Unread
<1>11. CASE current'[w].id = m
  <2>1. x0 \in Copies(w, m)
    BY <1>2, <1>4, <1>11 DEF Copies
  <2>2. x0 \in Unread(w, m) /\ x0 \notin Unsure(w, m)
    BY <1>3, <1>4, <1>5, <2>1 DEF Unread, Unsure
  <2>3. Unsure(w, m)' = Unsure(w, m) \cup {x0}
    BY <1>2, <1>4, <1>6, <1>9, <2>1 DEF Unsure
  <2> HIDE DEF x0
  <2>4. Cardinality(Unread(w, m)') = Cardinality(Unread(w, m)) - 1
    BY <1>8, <1>10, <2>2, FS_RemoveElement
  <2>5. Cardinality(Unsure(w, m)') = Cardinality(Unsure(w, m)) + 1
    BY <1>8, <2>2, <2>3, FS_AddElement
  <2> QED
    BY <1>11, <2>4, <2>5 DEF One
<1>12. CASE current'[w].id # m
  <2>1. x0 \notin Copies(w, m)
    BY <1>2, <1>4, <1>12 DEF Copies
  <2>2. Unread(w, m)' = Unread(w, m)
    BY <1>10, <2>1 DEF Unread
  <2>3. Unsure(w, m)' = Unsure(w, m)
    BY <1>2, <1>6, <1>9, <2>1 DEF Unsure
  <2> QED
    BY <1>8, <1>12, <2>2, <2>3 DEF One
<1> QED
  BY <1>11, <1>12

\* A consumer that goes back to its committed offsets has its unsure copies to read again.
LEMMA BackCopies ==
    ASSUME TypeOK, FiniteCopies, NEW w \in Worker, NEW m \in Msg, UNCHANGED <<log, committed>>,
           \A p \in Partition : Offset(w, p)' = committed[w][p]
    PROVE  /\ Cardinality(Unread(w, m)') = Cardinality(Unread(w, m)) + Cardinality(Unsure(w, m))
           /\ Cardinality(Unsure(w, m)') = 0
<1>1. Copies(w, m)' = Copies(w, m)
  BY DEF Copies
<1>2. ASSUME NEW x \in Copies(w, m)
      PROVE  /\ x[1] \in Partition /\ x[2] \in Nat
             /\ Offset(w, x[1]) \in Nat /\ committed[w][x[1]] \in Nat
             /\ committed[w][x[1]] <= Offset(w, x[1])
  BY OffsetType DEF Copies
<1>3. Unread(w, m)' = Unread(w, m) \cup Unsure(w, m) /\ Unread(w, m) \cap Unsure(w, m) = {}
  BY <1>1, <1>2 DEF Unread, Unsure
<1>4. Unsure(w, m)' = {}
  BY <1>1, <1>2 DEF Unsure
<1>5. /\ IsFiniteSet(Unread(w, m)) /\ Cardinality(Unread(w, m)) \in Nat
      /\ IsFiniteSet(Unsure(w, m)) /\ Cardinality(Unsure(w, m)) \in Nat
  BY Sizes
<1> QED
  BY <1>3, <1>4, <1>5, FS_Union, FS_EmptySet

\* A commit leaves no copy unsure.
LEMMA CommittedCopies ==
    ASSUME TypeOK, FiniteCopies, NEW w \in Worker, NEW m \in Msg, log' = log,
           \A p \in Partition : Offset(w, p)' = Offset(w, p) /\ committed'[w][p] = Offset(w, p)
    PROVE  /\ Cardinality(Unread(w, m)') = Cardinality(Unread(w, m))
           /\ Cardinality(Unsure(w, m)') = 0
<1>1. Copies(w, m)' = Copies(w, m)
  BY DEF Copies
<1>2. ASSUME NEW x \in Copies(w, m)
      PROVE  /\ x[1] \in Partition /\ x[2] \in Nat
             /\ Offset(w, x[1]) \in Nat
  BY OffsetType DEF Copies
<1>3. Unread(w, m)' = Unread(w, m)
  BY <1>1, <1>2 DEF Unread
<1>4. Unsure(w, m)' = {}
  BY <1>1, <1>2 DEF Unsure
<1> QED
  BY <1>3, <1>4, FS_EmptySet

-----------------------------------------------------------------------------
(* What a step costs *)

Holds(w, m) == state[w] \in Holding /\ current[w].id = m

\* The copies stay finitely many, and a message comes closer to a second end only by a
\* fault.
Paid == /\ FiniteCopies'
        /\ \A m \in Msg : /\ Total(m)' \in Int
                          /\ Total(m)' <= Total(m) + (faults' - faults)

\* Neither the topics change nor what belongs to another worker.
OnlyAt(w) ==
    /\ log' = log
    /\ \A v \in Worker \ {w} :
        /\ state'[v] = state[v] /\ current'[v] = current[v]
        /\ position'[v] = position[v] /\ committed'[v] = committed[v]

\* The consumer of w stands still.
Still(w) ==
    committed'[w] = committed[w] /\ \A p \in Partition : Offset(w, p)' = Offset(w, p)

LEMMA CountedOne ==
    ASSUME NEW f \in [Msg -> Nat], NEW k \in Msg, NEW m \in Msg
    PROVE  Count(f, k)[m] = f[m] + One(k = m)
BY DEF Count, One

LEMMA EndedType ==
    ASSUME TypeOK, NEW m \in Msg
    PROVE  /\ stored[m] \in Nat /\ dropped[m] \in Nat /\ dead[m] \in Nat /\ Ended(m) \in Nat
BY DEF TypeOK, Ended

LEMMA FaultsNat == ASSUME TypeOK PROVE faults \in Nat
BY PipelineAssumption DEF TypeOK

LEMMA TotalType ==
    ASSUME TypeOK, FiniteCopies, NEW m \in Msg PROVE Total(m) \in Nat
BY EndedType, Sizes DEF Total, Worker

LEMMA SameFinite == ASSUME FiniteCopies, log' = log PROVE FiniteCopies'
<1>1. ASSUME NEW w \in Worker, NEW m \in Msg PROVE Copies(w, m)' = Copies(w, m)
  BY DEF Copies
<1> QED
  BY <1>1 DEF FiniteCopies

\* A step at one worker moves the total by what it moves there and by the ends.
LEMMA LocalStep ==
    ASSUME TypeOK, FiniteCopies, NEW w \in Worker, OnlyAt(w), NEW m \in Msg,
           NEW a \in Int, NEW b \in Int,
           Load(w, m)' = Load(w, m) + a, Ended(m)' = Ended(m) + b
    PROVE  Total(m)' = Total(m) + a + b
<1>1. ASSUME NEW v \in Worker \ {w} PROVE Load(v, m)' = Load(v, m)
  <2>1. \A p \in Partition : Offset(v, p)' = Offset(v, p)
    BY DEF OnlyAt, Offset
  <2>2. Unread(v, m)' = Unread(v, m) /\ Unsure(v, m)' = Unsure(v, m)
    BY <2>1, SameCopies DEF OnlyAt
  <2> QED
    BY <2>2 DEF OnlyAt, Load, Extra, Busy
<1>2. \A v \in Worker : Load(v, m) \in Nat
  BY Sizes
<1>3. Ended(m) \in Nat
  BY EndedType
<1>4. Worker = {"engine", "ai", "final"}
  BY DEF Worker
<1>5. CASE w = "engine"
  BY <1>1, <1>2, <1>3, <1>4, <1>5 DEF Total
<1>6. CASE w = "ai"
  BY <1>1, <1>2, <1>3, <1>4, <1>6 DEF Total
<1>7. CASE w = "final"
  BY <1>1, <1>2, <1>3, <1>4, <1>7 DEF Total
<1> QED
  BY <1>4, <1>5, <1>6, <1>7

\* Where the consumer stands still, only the hands of the worker count.
LEMMA StillLoad ==
    ASSUME TypeOK, FiniteCopies, NEW w \in Worker, OnlyAt(w), Still(w), NEW m \in Msg,
           Busy(w)' <=> Busy(w)
    PROVE  Load(w, m)' = Load(w, m) + (One(Holds(w, m)') - One(Holds(w, m)))
<1>1. Unread(w, m)' = Unread(w, m) /\ Unsure(w, m)' = Unsure(w, m)
  BY SameCopies DEF OnlyAt, Still
<1>2. Cardinality(Unread(w, m)) \in Nat /\ Cardinality(Unsure(w, m)) \in Nat
  BY Sizes
<1> QED
  BY <1>1, <1>2 DEF Load, Extra, One, Holds

\* A step at one worker is paid for if it costs one message at most a fault.
LEMMA PaidAt ==
    ASSUME TypeOK, FiniteCopies, NEW w \in Worker, OnlyAt(w), faults' \in Nat,
           \A m \in Msg : \E a, b \in Int :
               /\ Load(w, m)' = Load(w, m) + a /\ Ended(m)' = Ended(m) + b
               /\ a + b <= faults' - faults
    PROVE  Paid
<1>1. FiniteCopies'
  BY SameFinite DEF OnlyAt
<1>2. ASSUME NEW m \in Msg
      PROVE  Total(m)' \in Int /\ Total(m)' <= Total(m) + (faults' - faults)
  <2>1. PICK a \in Int, b \in Int :
          /\ Load(w, m)' = Load(w, m) + a /\ Ended(m)' = Ended(m) + b
          /\ a + b <= faults' - faults
    OBVIOUS
  <2>2. Total(m)' = Total(m) + a + b
    BY <2>1, LocalStep
  <2>3. Total(m) \in Nat /\ faults \in Nat
    BY TotalType, FaultsNat
  <2>4. \A n, f, g \in Nat :
          a + b <= g - f => n + a + b \in Int /\ n + a + b <= n + (g - f)
    BY <2>1
  <2> QED
    BY <2>1, <2>2, <2>3, <2>4
<1> QED
  BY <1>1, <1>2 DEF Paid

\* A message that stays in hand costs nothing.
LEMMA HeldOn ==
    ASSUME TypeOK, FiniteCopies, NEW w \in Worker, OnlyAt(w), Still(w),
           Busy(w)' <=> Busy(w), \A m \in Msg : Holds(w, m)' <=> Holds(w, m),
           UNCHANGED ends, faults' \in {faults, faults + 1}
    PROVE  Paid
<1>1. ASSUME NEW m \in Msg
      PROVE  /\ Load(w, m)' = Load(w, m) /\ Ended(m)' = Ended(m)
             /\ Load(w, m) \in Nat /\ Ended(m) \in Nat
  <2>1. Load(w, m) \in Nat /\ Ended(m) \in Nat
    BY Sizes, EndedType
  <2>2. One(Holds(w, m)') = One(Holds(w, m)) /\ One(Holds(w, m)) \in Nat
    BY DEF One
  <2>3. Ended(m)' = Ended(m)
    BY DEF Ended, ends
  <2>4. Busy(w)' <=> Busy(w)
    OBVIOUS
  <2>5. Load(w, m)' = Load(w, m) + (One(Holds(w, m)') - One(Holds(w, m)))
    BY <2>4, StillLoad
  <2> QED
    BY <2>1, <2>2, <2>3, <2>5
<1>2. faults \in Nat /\ faults' \in Nat /\ 0 + 0 <= faults' - faults
  BY FaultsNat
<1>3. ASSUME NEW m \in Msg
      PROVE  \E a, b \in Int : /\ Load(w, m)' = Load(w, m) + a /\ Ended(m)' = Ended(m) + b
                              /\ a + b <= faults' - faults
  <2>1. Load(w, m)' = Load(w, m) + 0 /\ Ended(m)' = Ended(m) + 0 /\ 0 \in Int
    BY <1>1
  <2> QED
    BY <1>2, <2>1
<1> QED
  BY <1>2, <1>3, PaidAt

\* An end takes the message out of the hands of the worker.
LEMMA EndsIt ==
    ASSUME TypeOK, FiniteCopies, NEW w \in Worker, OnlyAt(w), Still(w),
           state[w] \in Holding, state'[w] = "commit", faults' = faults,
           \A m \in Msg : Ended(m)' = Ended(m) + One(current[w].id = m)
    PROVE  Paid
<1>1. ASSUME NEW m \in Msg
      PROVE  \E a, b \in Int : /\ Load(w, m)' = Load(w, m) + a /\ Ended(m)' = Ended(m) + b
                              /\ a + b <= faults' - faults
  <2> DEFINE k == One(current[w].id = m)
  <2>1. Busy(w)' <=> Busy(w)
    BY DEF Busy
  <2>2. ~Holds(w, m)' /\ (Holds(w, m) <=> current[w].id = m)
    BY DEF Holds, Holding
  <2>3. k \in Nat /\ One(Holds(w, m)') = 0 /\ One(Holds(w, m)) = k
    BY <2>2 DEF One
  <2>4. Ended(m)' = Ended(m) + k
    OBVIOUS
  <2> HIDE DEF k
  <2>5. Load(w, m)' = Load(w, m) + (0 - k)
    BY <2>1, <2>3, StillLoad
  <2>6. faults \in Nat /\ 0 - k \in Int /\ k \in Int /\ (0 - k) + k <= faults' - faults
    BY <2>3, FaultsNat
  <2> QED
    BY <2>4, <2>5, <2>6
<1>2. faults' \in Nat
  BY FaultsNat
<1> QED
  BY <1>1, <1>2, PaidAt

\* A send puts one copy more before the consumer of its topic.
LEMMA SentLoad ==
    ASSUME TypeOK, FiniteCopies, NEW t \in Worker, NEW e \in Message, SendTo(t, e),
           UNCHANGED consumer, \A v \in Worker : state'[v] = "down" <=> state[v] = "down",
           NEW w \in Worker, NEW m \in Msg, Busy(w)' <=> Busy(w)
    PROVE  /\ IsFiniteSet(Copies(w, m)')
           /\ Load(w, m)' = Load(w, m) + One(w = t /\ e.id = m)
                                + (One(Holds(w, m)') - One(Holds(w, m)))
<1>1. UNCHANGED committed /\ \A v \in Worker, p \in Partition : Offset(v, p)' = Offset(v, p)
  BY DEF Offset, consumer
<1>2. /\ Cardinality(Unread(w, m)') = Cardinality(Unread(w, m)) + One(w = t /\ e.id = m)
      /\ Unsure(w, m)' = Unsure(w, m)
      /\ IsFiniteSet(Copies(w, m)')
  BY <1>1, SentCopies
<1>3. Cardinality(Unread(w, m)) \in Nat /\ Cardinality(Unsure(w, m)) \in Nat
  BY Sizes
<1> QED
  BY <1>2, <1>3 DEF Load, Extra, One, Holds

\* A send that succeeds or fails: the topic of t has one more copy of e, and w, which sent
\* it, keeps it in hand only if a fault pays for that.
LEMMA SendCosts ==
    ASSUME TypeOK, FiniteCopies, NEW t \in Worker, NEW e \in Message, SendTo(t, e),
           UNCHANGED <<consumer, ends>>, NEW w \in Worker, OthersKept(w),
           state[w] \in Holding, current[w] = e,
           \/ state'[w] = "commit" /\ faults' = faults
           \/ state'[w] \in Holding /\ current'[w] = e /\ faults' = faults + 1
    PROVE  Paid
<1>1. \A v \in Worker : (state'[v] = "down" <=> state[v] = "down") /\ (Busy(v)' <=> Busy(v))
  BY DEF OthersKept, Holding, Busy
<1>2. \A m \in Msg, v \in Worker :
        /\ IsFiniteSet(Copies(v, m)')
        /\ Load(v, m)' = Load(v, m) + One(v = t /\ e.id = m)
                                + (One(Holds(v, m)') - One(Holds(v, m)))
  BY <1>1, SentLoad
<1>3. FiniteCopies'
  BY <1>2 DEF FiniteCopies
<1>4. ASSUME NEW m \in Msg
      PROVE  Total(m)' \in Int /\ Total(m)' <= Total(m) + (faults' - faults)
  <2>2. ASSUME NEW v \in Worker \ {w} PROVE One(Holds(v, m)') = One(Holds(v, m))
    BY DEF OthersKept, Holds, One
  <2>3. /\ One(Holds(w, m)) = One(e.id = m)
        /\ One(Holds(w, m)') <= faults' - faults
    <3>1. faults \in Nat
      BY FaultsNat
    <3>2. CASE state'[w] = "commit" /\ faults' = faults
      BY <3>1, <3>2 DEF Holds, Holding, One
    <3>3. CASE faults' = faults + 1
      BY <3>1, <3>3 DEF Holds, One
    <3> QED
      BY <3>2, <3>3 DEF Holds, One
  <2>4. Ended(m)' = Ended(m)
    BY DEF Ended, ends
  <2>5. /\ \A v \in Worker : Load(v, m) \in Nat
        /\ Ended(m) \in Nat /\ faults \in Nat /\ Total(m) \in Nat
        /\ \A v \in Worker : One(v = t /\ e.id = m) \in Nat
        /\ \A v \in Worker : One(Holds(v, m)) \in Nat /\ One(Holds(v, m)') \in Nat
        /\ One(e.id = m) \in Nat
    BY Sizes, EndedType, TotalType, FaultsNat DEF One
  <2>6. Worker = {"engine", "ai", "final"}
    BY DEF Worker
  <2>7. One("engine" = t /\ e.id = m) + One("ai" = t /\ e.id = m) + One("final" = t /\ e.id = m)
            = One(e.id = m)
    BY <2>6 DEF One
  <2> DEFINE Change(v) == One(Holds(v, m)') - One(Holds(v, m))
  <2>8. Change("engine") + Change("ai") + Change("final") = Change(w)
    <3>1. \A v \in Worker : Change(v) \in Int
      BY <2>5
    <3>2. \A v \in Worker \ {w} : Change(v) = 0
      BY <2>2, <2>5
    <3> HIDE DEF Change
    <3>3. CASE w = "engine"
      BY <2>6, <3>1, <3>2, <3>3
    <3>4. CASE w = "ai"
      BY <2>6, <3>1, <3>2, <3>4
    <3>5. CASE w = "final"
      BY <2>6, <3>1, <3>2, <3>5
    <3> QED
      BY <2>6, <3>3, <3>4, <3>5
  <2>10. faults' \in Nat
    BY <2>5
  <2>9. Total(m)' = Total(m) + One(e.id = m) + (One(Holds(w, m)') - One(Holds(w, m)))
    BY <1>2, <2>4, <2>5, <2>6, <2>7, <2>8 DEF Total
  <2> QED
    BY <2>3, <2>5, <2>9, <2>10
<1> QED
  BY <1>3, <1>4 DEF Paid

\* The steps that move the consumer of a worker.
LEMMA ConsumerCosts ==
    ASSUME TypeOK, FiniteCopies, NEW w \in Worker,
           Poll(w) \/ Commit(w) \/ Crash(w) \/ Rebalance(w)
    PROVE  Paid
<1> USE DEF Done, Goto
<1>1. OnlyAt(w) /\ UNCHANGED ends
  BY DEF Poll, Commit, Crash, Rebalance, OnlyAt, TypeOK, consumer, worker, ends
<1>2. faults \in Nat /\ faults' \in Nat /\ faults' = (IF Crash(w) \/ Rebalance(w)
                                                    THEN faults + 1 ELSE faults)
  <2>1. Poll(w) \/ Commit(w) => faults' = faults /\ ~Crash(w) /\ ~Rebalance(w)
    BY FaultsNat DEF Poll, Commit, Crash, Rebalance, Fault
  <2>2. Crash(w) \/ Rebalance(w) => faults' = faults + 1
    BY DEF Crash, Rebalance, Fault
  <2> QED
    BY <2>1, <2>2, FaultsNat
<1> SUFFICES ASSUME NEW m \in Msg
             PROVE  \E a, b \in Int : /\ Load(w, m)' = Load(w, m) + a /\ Ended(m)' = Ended(m) + b
                                     /\ a + b <= faults' - faults
  BY <1>1, <1>2, PaidAt
<1> DEFINE r == Cardinality(Unread(w, m))
           u == Cardinality(Unsure(w, m))
           r1 == Cardinality(Unread(w, m)')
           u1 == Cardinality(Unsure(w, m)')
<1>3. r \in Nat /\ u \in Nat /\ Ended(m) \in Nat /\ Ended(m)' = Ended(m)
  BY <1>1, Sizes, EndedType DEF Ended, ends
<1>4. /\ Load(w, m) = r + One(Holds(w, m)) + (IF Busy(w) /\ u > 0 THEN u - 1 ELSE u)
      /\ Load(w, m)' = r1 + One(Holds(w, m)') + (IF Busy(w)' /\ u1 > 0 THEN u1 - 1 ELSE u1)
  BY DEF Load, Extra, Holds
<1>5. One(Holds(w, m)) \in {0, 1} /\ One(Holds(w, m)') \in {0, 1}
  BY DEF One
<1>6. ASSUME NEW d \in Int, Load(w, m)' = Load(w, m) + d, d <= faults' - faults
      PROVE  \E a, b \in Int : /\ Load(w, m)' = Load(w, m) + a /\ Ended(m)' = Ended(m) + b
                              /\ a + b <= faults' - faults
  BY <1>2, <1>3, <1>6
<1> HIDE DEF r, u, r1, u1
<1>7. CASE Poll(w)
  <2>1. /\ r1 = r - One(current'[w].id = m) /\ u1 = u + One(current'[w].id = m)
        /\ One(Holds(w, m)) = 0 /\ One(Holds(w, m)') = One(current'[w].id = m)
        /\ One(current'[w].id = m) \in {0, 1} /\ ~Busy(w) /\ Busy(w)' /\ faults' = faults
    <3>1. /\ r1 = r - One(current'[w].id = m) /\ u1 = u + One(current'[w].id = m)
      BY <1>7, PolledCopies DEF r, u, r1, u1
    <3>2. state[w] = "poll" /\ state'[w] = "work" /\ faults' = faults
      BY <1>7 DEF Poll, TypeOK
    <3>3. ~Holds(w, m) /\ (Holds(w, m)' <=> current'[w].id = m) /\ ~Busy(w) /\ Busy(w)'
      BY <3>2 DEF Holds, Holding, Busy
    <3> QED
      BY <3>1, <3>2, <3>3 DEF One
  <2> DEFINE k == One(current'[w].id = m)
             d == IF u + k > 0 THEN k - 1 ELSE 0
  <2>2. k \in {0, 1} /\ r1 = r - k /\ u1 = u + k /\ One(Holds(w, m)') = k
    BY <2>1
  <2> HIDE DEF k
  <2>3. d \in Int /\ d <= 0 /\ Load(w, m)' = Load(w, m) + d
    BY <1>3, <1>4, <2>1, <2>2
  <2> HIDE DEF d
  <2> QED
    BY <1>2, <1>6, <2>1, <2>3
<1>8. CASE Commit(w)
  <2>1. /\ r1 = r /\ u1 = 0 /\ One(Holds(w, m)) = 0 /\ One(Holds(w, m)') = 0
        /\ faults' = faults
    <3>1. /\ state[w] = "commit" /\ state'[w] = "poll" /\ faults' = faults
          /\ position' = position /\ committed'[w] = position[w]
      BY <1>8 DEF Commit, TypeOK
    <3>2. \A p \in Partition : Offset(w, p)' = Offset(w, p) /\ committed'[w][p] = Offset(w, p)
      BY <3>1 DEF Offset
    <3>3. r1 = r /\ u1 = 0
      BY <1>1, <3>2, CommittedCopies DEF r, r1, u1, OnlyAt
    <3> QED
      BY <3>1, <3>3 DEF One, Holds, Holding
  <2> DEFINE d == IF Busy(w) /\ u > 0 THEN 1 - u ELSE 0 - u
  <2>2. d \in Int /\ d <= 0 /\ Load(w, m)' = Load(w, m) + d
    BY <1>3, <1>4, <2>1
  <2> HIDE DEF d
  <2> QED
    BY <1>2, <1>6, <2>1, <2>2
<1>9. CASE Crash(w) \/ Rebalance(w)
  <2>1. /\ r1 = r + u /\ u1 = 0 /\ One(Holds(w, m)') <= One(Holds(w, m))
    <3>1. /\ log' = log /\ committed' = committed
          /\ \A p \in Partition : Offset(w, p)' = committed[w][p]
      BY <1>9 DEF Crash, Rebalance, Offset, consumer, worker, TypeOK
    <3>2. r1 = r + u /\ u1 = 0
      BY <3>1, BackCopies DEF r, u, r1, u1
    <3>3. Holds(w, m)' => Holds(w, m)
      BY <1>9 DEF Crash, Rebalance, worker, TypeOK, Holds, Holding
    <3> QED
      BY <3>2, <3>3 DEF One
  <2>2. faults' - faults = 1
    BY <1>2, <1>9
  <2> DEFINE d == (One(Holds(w, m)') - One(Holds(w, m)))
                    + (IF Busy(w) /\ u > 0 THEN 1 ELSE 0)
  <2>3. d \in Int /\ d <= 1 /\ Load(w, m)' = Load(w, m) + d
    BY <1>3, <1>4, <1>5, <2>1
  <2> HIDE DEF d
  <2> QED
    BY <1>6, <2>2, <2>3
<1> QED
  BY <1>7, <1>8, <1>9

\* The faults that may end a message and let it come back.
LEMMA FaultCosts ==
    ASSUME TypeOK, FiniteCopies, NEW w \in Worker,
           DeadLetterFails(w) \/ CommitFails(w) \/ (w = "final" /\ StoreFails)
    PROVE  Paid
<1> USE DEF Done, Goto
<1>1. OnlyAt(w) /\ Still(w)
  BY DEF DeadLetterFails, CommitFails, StoreFails, OnlyAt, Still, Offset, TypeOK, consumer, worker,
         Holding
<1>2. faults \in Nat /\ faults' = faults + 1
  BY FaultsNat DEF DeadLetterFails, CommitFails, StoreFails, Fault
<1> SUFFICES ASSUME NEW m \in Msg
             PROVE  \E a, b \in Int : /\ Load(w, m)' = Load(w, m) + a /\ Ended(m)' = Ended(m) + b
                                     /\ a + b <= faults' - faults
  BY <1>1, <1>2, PaidAt
<1> DEFINE r == Cardinality(Unread(w, m))
           u == Cardinality(Unsure(w, m))
<1>3. r \in Nat /\ u \in Nat /\ Ended(m) \in Nat
  BY Sizes, EndedType
<1>4. Unread(w, m)' = Unread(w, m) /\ Unsure(w, m)' = Unsure(w, m)
  BY <1>1, SameCopies DEF OnlyAt, Still
<1>5. /\ Load(w, m) = r + One(Holds(w, m)) + (IF Busy(w) /\ u > 0 THEN u - 1 ELSE u)
      /\ Load(w, m)' = r + One(Holds(w, m)') + (IF Busy(w)' /\ u > 0 THEN u - 1 ELSE u)
  BY <1>4 DEF Load, Extra, Holds
<1> HIDE DEF r, u
<1>6. CASE CommitFails(w)
  <2>1. Ended(m)' = Ended(m) + 0
    BY <1>3, <1>6 DEF CommitFails, ends, Ended
  <2>2. One(Holds(w, m)) = 0 /\ One(Holds(w, m)') = 0 /\ Busy(w) /\ ~Busy(w)'
    BY <1>6 DEF CommitFails, One, Holds, Holding, Busy, TypeOK
  <2> DEFINE d == IF u > 0 THEN 1 ELSE 0
  <2>3. d \in Int /\ d + 0 <= 1 /\ Load(w, m)' = Load(w, m) + d
    BY <1>3, <1>5, <2>2
  <2> HIDE DEF d
  <2> QED
    BY <1>2, <2>1, <2>3
<1>7. CASE DeadLetterFails(w)
  <2> DEFINE k == One(current[w].id = m)
  <2>1. k \in {0, 1} /\ current[w].id \in Msg
    BY <1>7 DEF DeadLetterFails, One, TypeOK, Holding, Message
  <2>2. PICK b \in {0, k} : Ended(m)' = Ended(m) + b
    <3>1. stored' = stored /\ dropped' = dropped
      BY <1>7 DEF DeadLetterFails
    <3>2. dead'[m] = dead[m] \/ dead'[m] = dead[m] + k
      <4>1. dead' = dead \/ dead' = Count(dead, current[w].id)
        BY <1>7 DEF DeadLetterFails
      <4>2. Count(dead, current[w].id)[m] = dead[m] + k
        BY <2>1 DEF TypeOK, Count, One
      <4> QED
        BY <4>1, <4>2
    <3>3. /\ stored[m] \in Nat /\ dropped[m] \in Nat /\ dead[m] \in Nat
          /\ stored'[m] = stored[m] /\ dropped'[m] = dropped[m]
      BY <3>1, EndedType
    <3> HIDE DEF k
    <3>4. Ended(m)' = Ended(m) + 0 \/ Ended(m)' = Ended(m) + k
      BY <2>1, <3>2, <3>3 DEF Ended
    <3> QED
      BY <3>4
  <2>3. One(Holds(w, m)) = k /\ One(Holds(w, m)') = 0 /\ Busy(w) /\ ~Busy(w)'
    BY <1>7 DEF DeadLetterFails, One, Holds, Holding, Busy, TypeOK
  <2> HIDE DEF k
  <2> DEFINE d == (IF u > 0 THEN 1 ELSE 0) - k
  <2>4. d \in Int /\ d + b <= 1 /\ b \in Int /\ Load(w, m)' = Load(w, m) + d
    BY <1>3, <1>5, <2>1, <2>3
  <2> HIDE DEF d
  <2> QED
    BY <1>2, <2>2, <2>4
<1>8. CASE w = "final" /\ StoreFails
  <2> DEFINE k == One(current[w].id = m)
  <2>1. k \in {0, 1} /\ current[w].id \in Msg
    BY <1>8 DEF StoreFails, One, TypeOK, Holding, Message
  <2>2. PICK b \in {0, k} : Ended(m)' = Ended(m) + b
    <3>1. dead' = dead /\ dropped' = dropped
      BY <1>8 DEF StoreFails
    <3>2. stored'[m] = stored[m] \/ stored'[m] = stored[m] + k
      <4>1. stored' = stored \/ stored' = Count(stored, current[w].id)
        BY <1>8 DEF StoreFails
      <4>2. Count(stored, current[w].id)[m] = stored[m] + k
        BY <2>1 DEF TypeOK, Count, One
      <4> QED
        BY <4>1, <4>2
    <3>3. /\ stored[m] \in Nat /\ dropped[m] \in Nat /\ dead[m] \in Nat
          /\ dropped'[m] = dropped[m] /\ dead'[m] = dead[m]
      BY <3>1, EndedType
    <3> HIDE DEF k
    <3>4. Ended(m)' = Ended(m) + 0 \/ Ended(m)' = Ended(m) + k
      BY <2>1, <3>2, <3>3 DEF Ended
    <3> QED
      BY <3>4
  <2>3. /\ One(Holds(w, m)') = One(Holds(w, m)) /\ One(Holds(w, m)) \in {0, 1}
        /\ Busy(w) /\ Busy(w)'
    BY <1>8 DEF StoreFails, One, Holds, Holding, Busy, TypeOK
  <2> HIDE DEF k
  <2>4. Load(w, m)' = Load(w, m) + 0 /\ 0 + b <= 1 /\ b \in Int
    BY <1>3, <1>5, <2>1, <2>3
  <2> QED
    BY <1>2, <2>2, <2>4
<1> QED
  BY <1>6, <1>7, <1>8

\* Every step but the first send of a message is paid for.
LEMMA StepCosts ==
    ASSUME TypeOK, TraceInv, FiniteCopies, Next, ~ \E m \in Msg : Accept(m) PROVE Paid
<1>0. "engine" \in Worker /\ "ai" \in Worker /\ "final" \in Worker
  BY DEF Worker
<1>1. ASSUME NEW w \in Worker, Start(w) \/ Raise(w) PROVE Paid
  <2>1. OnlyAt(w) /\ Still(w) /\ UNCHANGED ends /\ faults' = faults
    BY <1>1 DEF Start, Raise, Goto, OnlyAt, Still, Offset, TypeOK, consumer
  <2>2. Busy(w)' <=> Busy(w)
    BY <1>1 DEF Start, Raise, Goto, Busy, Holding, TypeOK
  <2>3. \A m \in Msg : Holds(w, m)' <=> Holds(w, m)
    BY <1>1 DEF Start, Raise, Goto, Holds, Holding, TypeOK
  <2> QED
    BY <2>1, <2>2, <2>3, HeldOn
<1>2. CASE Analyse
  <2>1. OnlyAt("ai") /\ Still("ai") /\ UNCHANGED ends /\ faults' = faults
    BY <1>0, <1>2 DEF Analyse, Goto, OnlyAt, Still, Offset, TypeOK, consumer
  <2>2. Busy("ai")' <=> Busy("ai")
    BY <1>0, <1>2 DEF Analyse, Goto, Busy, Holding, TypeOK
  <2>3. \A m \in Msg : Holds("ai", m)' <=> Holds("ai", m)
    BY <1>0, <1>2 DEF Analyse, Goto, Holds, Holding, TypeOK, Message
  <2> QED
    BY <1>0, <2>1, <2>2, <2>3, HeldOn
<1>3. ASSUME NEW w \in Worker, Drop(w) \/ DeadLetter(w) \/ (w = "final" /\ Store) PROVE Paid
  <2>1. OnlyAt(w) /\ Still(w)
    BY <1>3 DEF Drop, DeadLetter, Store, Done, Goto, OnlyAt, Still, Offset, TypeOK, consumer,
                Holding
  <2>2. state[w] \in Holding /\ state'[w] = "commit" /\ faults' = faults
    BY <1>3 DEF Drop, DeadLetter, Store, Done, Goto, TypeOK, Holding
  <2>3. ASSUME NEW m \in Msg PROVE Ended(m)' = Ended(m) + One(current[w].id = m)
    <3> DEFINE c == current[w].id
    <3>1. c \in Msg
      BY <2>2 DEF TypeOK, Message
    <3>2. \/ dropped' = Count(dropped, c) /\ stored' = stored /\ dead' = dead
          \/ dead' = Count(dead, c) /\ stored' = stored /\ dropped' = dropped
          \/ stored' = Count(stored, c) /\ dropped' = dropped /\ dead' = dead
      BY <1>3 DEF Drop, DeadLetter, Store
    <3>3. /\ stored \in [Msg -> Nat] /\ dropped \in [Msg -> Nat] /\ dead \in [Msg -> Nat]
          /\ stored[m] \in Nat /\ dropped[m] \in Nat /\ dead[m] \in Nat
      BY DEF TypeOK
    <3> HIDE DEF c
    <3>4. Ended(m)' = Ended(m) + One(c = m)
      BY <3>1, <3>2, <3>3 DEF Ended, Count, One
    <3> QED
      BY <3>4 DEF c
  <2> QED
    BY <2>1, <2>2, <2>3, EndsIt
<1>4. ASSUME NEW w \in Worker, Poll(w) \/ Commit(w) \/ Crash(w) \/ Rebalance(w) PROVE Paid
  BY <1>4, ConsumerCosts
<1>5. ASSUME NEW w \in Worker, DeadLetterFails(w) \/ CommitFails(w) PROVE Paid
  BY <1>5, FaultCosts
<1>6. CASE StoreFails
  BY <1>0, <1>6, FaultCosts
<1>7. CASE Dispatch \/ DispatchFails
  <2> DEFINE e == current["engine"]
             t == NextStep(e.trace)
  <2>1. e \in Message /\ e.trace \in {{}, {"ai"}} /\ state["engine"] \in Holding
    BY <1>0, <1>7 DEF Dispatch, DispatchFails, TypeOK, TraceInv, Holding, TracesAt
  <2>2. t \in Worker /\ t # "none"
    BY <2>1, Routed
  <2>3. OthersKept("engine") /\ UNCHANGED <<consumer, ends>>
    BY <1>0, <1>7 DEF Dispatch, DispatchFails, OthersKept, Done, Goto, TypeOK
  <2>4. \/ state'["engine"] = "commit" /\ faults' = faults
        \/ state'["engine"] \in Holding /\ current'["engine"] = e /\ faults' = faults + 1
    BY <1>0, <1>7 DEF Dispatch, DispatchFails, Done, Goto, Fault, Holding, TypeOK
  <2>5. CASE SendTo(t, e)
    BY <1>0, <2>1, <2>2, <2>3, <2>4, <2>5, SendCosts
  <2>6. CASE ~SendTo(t, e)
    <3>1. DispatchFails /\ log' = log
      BY <1>7, <2>2, <2>6 DEF Dispatch, DispatchFails
    <3>2. OnlyAt("engine") /\ Still("engine") /\ faults' = faults + 1
      BY <1>0, <3>1 DEF DispatchFails, Fault, Goto, OnlyAt, Still, Offset, TypeOK, consumer
    <3>3. Busy("engine")' <=> Busy("engine")
      BY <1>0, <3>1 DEF DispatchFails, Goto, Busy, Holding, TypeOK
    <3>4. \A m \in Msg : Holds("engine", m)' <=> Holds("engine", m)
      BY <1>0, <3>1 DEF DispatchFails, Goto, Holds, Holding, TypeOK
    <3> QED
      BY <1>0, <2>3, <3>2, <3>3, <3>4, HeldOn
  <2> QED
    BY <2>5, <2>6
<1>8. CASE Send \/ SendFails
  <2> DEFINE e == current["ai"]
  <2>1. e \in Message /\ state["ai"] \in Holding
    BY <1>0, <1>8 DEF Send, SendFails, TypeOK, Holding
  <2>2. OthersKept("ai") /\ UNCHANGED <<consumer, ends>>
    BY <1>0, <1>8 DEF Send, SendFails, OthersKept, Done, Goto, TypeOK
  <2>3. \/ state'["ai"] = "commit" /\ faults' = faults
        \/ state'["ai"] \in Holding /\ current'["ai"] = e /\ faults' = faults + 1
    BY <1>0, <1>8 DEF Send, SendFails, Done, Goto, Fault, Holding, TypeOK
  <2>4. CASE SendTo("engine", e)
    BY <1>0, <2>1, <2>2, <2>3, <2>4, SendCosts
  <2>5. CASE ~SendTo("engine", e)
    <3>1. SendFails /\ log' = log
      BY <1>8, <2>5 DEF Send, SendFails
    <3>2. OnlyAt("ai") /\ Still("ai") /\ faults' = faults + 1
      BY <1>0, <3>1 DEF SendFails, Fault, Goto, OnlyAt, Still, Offset, TypeOK, consumer
    <3>3. Busy("ai")' <=> Busy("ai")
      BY <1>0, <3>1 DEF SendFails, Goto, Busy, Holding, TypeOK
    <3>4. \A m \in Msg : Holds("ai", m)' <=> Holds("ai", m)
      BY <1>0, <3>1 DEF SendFails, Goto, Holds, Holding, TypeOK
    <3> QED
      BY <1>0, <2>2, <3>2, <3>3, <3>4, HeldOn
  <2> QED
    BY <2>4, <2>5
<1> QED
  BY <1>1, <1>2, <1>3, <1>4, <1>5, <1>6, <1>7, <1>8 DEF Next, Step, Faults

\* A new message has no copy anywhere before it is sent.
LEMMA AcceptCosts ==
    ASSUME TypeOK, OnlyAccepted, FiniteCopies, NEW k \in Msg, Accept(k)
    PROVE  /\ FiniteCopies'
           /\ Total(k)' = 1
           /\ \A m \in Msg \ {k} : Total(m)' = Total(m)
<1> DEFINE e == [id |-> k, trace |-> {}]
<1>1. /\ e \in Message /\ e.id = k /\ "engine" \in Worker /\ SendTo("engine", e)
      /\ UNCHANGED <<consumer, worker, ends>> /\ k \notin accepted
  BY DEF Accept, Message, Worker
<1>2. ASSUME NEW w \in Worker, NEW m \in Msg
      PROVE  /\ IsFiniteSet(Copies(w, m)')
             /\ Load(w, m)' = Load(w, m) + One(w = "engine" /\ k = m)
  <2>1. /\ \A v \in Worker : state'[v] = "down" <=> state[v] = "down"
        /\ Busy(w)' <=> Busy(w)
    BY <1>1 DEF worker, Busy
  <2>2. One(Holds(w, m)') = One(Holds(w, m)) /\ One(Holds(w, m)) \in Nat
    BY <1>1 DEF worker, Holds, One
  <2>3. One(w = "engine" /\ e.id = m) = One(w = "engine" /\ k = m)
        /\ One(w = "engine" /\ k = m) \in Nat
    BY <1>1 DEF One
  <2>4. /\ IsFiniteSet(Copies(w, m)')
        /\ Load(w, m)' = Load(w, m) + One(w = "engine" /\ e.id = m)
                             + (One(Holds(w, m)') - One(Holds(w, m)))
    BY <1>1, <2>1, SentLoad
  <2>5. Load(w, m) \in Nat
    BY Sizes
  <2> QED
    BY <2>2, <2>3, <2>4, <2>5
<1>3. \A m \in Msg : Ended(m)' = Ended(m) /\ Ended(m) \in Nat
  BY <1>1, EndedType DEF Ended, ends
<1>4. Worker = {"engine", "ai", "final"} /\ \A w \in Worker, m \in Msg : Load(w, m) \in Nat
  BY Sizes DEF Worker
<1>5. ASSUME NEW w \in Worker PROVE Load(w, k) = 0
  <2>1. Copies(w, k) = {}
    BY <1>1 DEF OnlyAccepted, Copies
  <2>2. Unread(w, k) = {} /\ Unsure(w, k) = {}
    BY <2>1 DEF Unread, Unsure
  <2>3. ~(state[w] \in Holding /\ current[w].id = k)
    BY <1>1 DEF OnlyAccepted
  <2> QED
    BY <2>2, <2>3, FS_EmptySet DEF Load, Extra, One
<1>6. Ended(k) = 0
  BY <1>1 DEF OnlyAccepted
<1>7. FiniteCopies'
  BY <1>2 DEF FiniteCopies
<1>8. ASSUME NEW m \in Msg
      PROVE  Total(m)' = IF m = k THEN Total(m) + 1 ELSE Total(m)
  <2>1. /\ Load("engine", m)' = Load("engine", m) + One(k = m)
        /\ Load("ai", m)' = Load("ai", m) /\ Load("final", m)' = Load("final", m)
    BY <1>2, <1>4 DEF One
  <2> QED
    BY <1>3, <1>4, <2>1 DEF Total, One
<1>9. Total(k) = 0
  BY <1>4, <1>5, <1>6 DEF Total
<1> QED
  BY <1>7, <1>8, <1>9

\* What is not accepted stays nowhere.
LEMMA AcceptedStep ==
    ASSUME TypeOK, TypeOK', TraceInv, OnlyAccepted, [Next]_vars PROVE OnlyAccepted'
<1>0. "engine" \in Worker /\ "ai" \in Worker /\ "final" \in Worker
  BY DEF Worker
<1>1. ASSUME NEW t \in Worker, NEW e \in Message, SendTo(t, e), e.id \in accepted',
             accepted \subseteq accepted'
      PROVE  \A w \in Worker, p \in Partition : \A i \in 1 .. Len(log'[w][p]) :
                 log'[w][p][i].id \in accepted'
  <2>1. Grows(t, e)
    BY <1>1, Sent DEF TypeOK
  <2> SUFFICES ASSUME NEW w \in Worker, NEW p \in Partition, NEW i \in 1 .. Len(log'[w][p])
               PROVE  log'[w][p][i].id \in accepted'
    OBVIOUS
  <2>2. CASE i <= Len(log[w][p])
    <3>1. i \in 1 .. Len(log[w][p]) /\ log'[w][p][i] = log[w][p][i]
      BY <2>1, <2>2 DEF Grows
    <3> QED
      BY <1>1, <3>1 DEF OnlyAccepted
  <2>3. CASE ~(i <= Len(log[w][p]))
    BY <1>1, <2>1, <2>3 DEF Grows
  <2> QED
    BY <2>2, <2>3
<1>2. ASSUME NEW k \in Msg, Accept(k) PROVE OnlyAccepted'
  <2> DEFINE e == [id |-> k, trace |-> {}]
  <2>1. e \in Message /\ e.id \in accepted' /\ accepted \subseteq accepted' /\ SendTo("engine", e)
    BY <1>2 DEF Accept, Message
  <2>2. \A w \in Worker, p \in Partition : \A i \in 1 .. Len(log'[w][p]) :
            log'[w][p][i].id \in accepted'
    BY <1>0, <1>1, <2>1
  <2>3. \A w \in Worker : state'[w] \in Holding => current'[w].id \in accepted'
    BY <1>2, <2>1 DEF Accept, worker, OnlyAccepted
  <2>4. \A m \in Msg \ accepted' : Ended(m)' = 0
    BY <1>2, <2>1 DEF Accept, ends, OnlyAccepted, Ended
  <2> QED
    BY <2>2, <2>3, <2>4 DEF OnlyAccepted
<1>3. ASSUME ~ \E m \in Msg : Accept(m) PROVE OnlyAccepted'
  <2>1. accepted' = accepted
    BY <1>3 DEF Next, Step, Faults, Start, Poll, Drop, Raise, DeadLetter, Commit, Analyse, Store,
       StoreFails, DeadLetterFails, CommitFails, Crash, Rebalance, Dispatch, DispatchFails,
       Send, SendFails, vars
  <2>2. \/ log' = log
        \/ \E t \in Worker, w \in Worker : state[w] \in Holding /\ SendTo(t, current[w])
    <3>1. CASE Dispatch \/ DispatchFails
      BY <1>0, <3>1, Routing DEF Dispatch, DispatchFails, Holding
    <3>2. CASE Send \/ SendFails
      BY <1>0, <3>2 DEF Send, SendFails, Holding
    <3> QED
      BY <1>3, <3>1, <3>2 DEF Next, Step, Faults, Start, Poll, Drop, Raise, DeadLetter, Commit,
         Analyse, Store, StoreFails, DeadLetterFails, CommitFails, Crash, Rebalance, vars
  <2>3. \A w \in Worker, p \in Partition : \A i \in 1 .. Len(log'[w][p]) :
            log'[w][p][i].id \in accepted'
    <3>1. CASE log' = log
      BY <2>1, <3>1 DEF OnlyAccepted
    <3>2. ASSUME NEW t \in Worker, NEW w \in Worker, state[w] \in Holding, SendTo(t, current[w])
          PROVE  \A v \in Worker, p \in Partition : \A i \in 1 .. Len(log'[v][p]) :
                     log'[v][p][i].id \in accepted'
      <4>1. current[w] \in Message /\ current[w].id \in accepted'
        BY <2>1, <3>2 DEF TypeOK, OnlyAccepted
      <4>2. PICK q \in Partition : log' = [log EXCEPT ![t][q] = Append(log[t][q], current[w])]
        BY <3>2 DEF SendTo
      <4>3. ASSUME NEW v \in Worker, NEW p \in Partition, NEW i \in 1 .. Len(log'[v][p])
            PROVE  log'[v][p][i].id \in accepted'
        <5>1. log[v][p] \in Seq(Message)
          BY DEF TypeOK
        <5>2. CASE v = t /\ p = q
          <6>1. log'[v][p] = Append(log[v][p], current[w])
            BY <4>2, <5>2 DEF TypeOK
          <6>2. log'[v][p][i] = current[w]
                \/ (i \in 1 .. Len(log[v][p]) /\ log'[v][p][i] = log[v][p][i])
            BY <4>1, <4>3, <5>1, <6>1
          <6> QED
            BY <2>1, <4>1, <6>2 DEF OnlyAccepted
        <5>3. CASE v # t \/ p # q
          <6>1. log'[v][p] = log[v][p]
            BY <4>2, <5>3 DEF TypeOK
          <6> QED
            BY <2>1, <4>3, <6>1 DEF OnlyAccepted
        <5> QED
          BY <5>2, <5>3
      <4> QED
        BY <4>3
    <3> QED
      BY <2>2, <3>1, <3>2
  <2>4. ASSUME NEW v \in Worker, state'[v] \in Holding PROVE current'[v].id \in accepted
    <3>1. ASSUME NEW w \in Worker, Poll(w) PROVE current'[v].id \in accepted
      <4>1. PICK p \in Partition :
              /\ position[w][p] < Len(log[w][p])
              /\ current' = [current EXCEPT ![w] = log[w][p][position[w][p] + 1]]
        BY <3>1 DEF Poll
      <4>2. position[w][p] + 1 \in 1 .. Len(log[w][p])
        BY <4>1 DEF TypeOK
      <4>3. v # w => state[v] \in Holding /\ current'[v] = current[v]
        BY <2>4, <3>1, <4>1 DEF Poll, Goto, TypeOK
      <4>4. v = w => current'[v].id = log[w][p][position[w][p] + 1].id
        BY <4>1 DEF TypeOK
      <4> QED
        BY <4>2, <4>3, <4>4 DEF OnlyAccepted
    <3>2. ASSUME ~ \E w \in Worker : Poll(w)
          PROVE  state[v] \in Holding /\ current'[v].id = current[v].id
      <4> USE DEF Done, Goto, TypeOK, Holding
      <4>1. CASE Dispatch \/ DispatchFails
        BY <2>4, <4>1 DEF Dispatch, DispatchFails
      <4>2. CASE Send \/ SendFails
        BY <2>4, <4>2 DEF Send, SendFails
      <4>3. CASE Analyse
        BY <2>4, <4>3 DEF Analyse, Message, Worker
      <4>4. CASE Store \/ StoreFails
        BY <2>4, <4>4 DEF Store, StoreFails
      <4>5. ASSUME NEW w \in Worker, \/ Start(w) \/ Drop(w) \/ Raise(w) \/ DeadLetter(w)
                                    \/ DeadLetterFails(w)
            PROVE  state[v] \in Holding /\ current'[v].id = current[v].id
        BY <2>4, <4>5 DEF Start, Drop, Raise, DeadLetter, DeadLetterFails
      <4>6. ASSUME NEW w \in Worker, \/ Commit(w) \/ CommitFails(w) \/ Crash(w)
                                    \/ Rebalance(w)
            PROVE  state[v] \in Holding /\ current'[v].id = current[v].id
        BY <2>4, <4>6 DEF Commit, CommitFails, Crash, Rebalance, worker
      <4>7. CASE UNCHANGED vars
        BY <2>4, <4>7 DEF vars, worker
      <4> QED
        BY <1>3, <3>2, <4>1, <4>2, <4>3, <4>4, <4>5, <4>6, <4>7 DEF Next, Step, Faults
    <3> QED
      BY <3>1, <3>2 DEF OnlyAccepted
  <2>5. ASSUME NEW m \in Msg \ accepted PROVE Ended(m)' = 0
    <3>1. \A w \in Worker : state[w] \in Holding => current[w].id \in Msg /\ current[w].id # m
      BY DEF OnlyAccepted, TypeOK, Message
    <3>2. \A f \in [Msg -> Nat], k \in Msg : k # m => Count(f, k)[m] = f[m]
      BY DEF Count
    <3>3. stored \in [Msg -> Nat] /\ dropped \in [Msg -> Nat] /\ dead \in [Msg -> Nat]
      BY DEF TypeOK
    <3> DEFINE Same == stored'[m] = stored[m] /\ dropped'[m] = dropped[m] /\ dead'[m] = dead[m]
    <3>4. ASSUME NEW w \in Worker, state[w] \in Holding,
                 stored' \in {stored, Count(stored, current[w].id)},
                 dropped' \in {dropped, Count(dropped, current[w].id)},
                 dead' \in {dead, Count(dead, current[w].id)}
          PROVE  Same
      <4> DEFINE k == current[w].id
      <4>1. k \in Msg /\ k # m
        BY <3>1, <3>4
      <4>2. /\ stored' = stored \/ stored' = Count(stored, k)
            /\ dropped' = dropped \/ dropped' = Count(dropped, k)
            /\ dead' = dead \/ dead' = Count(dead, k)
        BY <3>4
      <4> HIDE DEF k
      <4> QED
        BY <3>2, <3>3, <4>1, <4>2
    <3> DEFINE Ender(w) == \/ Drop(w) \/ DeadLetter(w) \/ DeadLetterFails(w)
                           \/ w = "final" /\ (Store \/ StoreFails)
    <3>5. ASSUME NEW w \in Worker, Ender(w) PROVE Same
      BY <3>4, <3>5 DEF Drop, DeadLetter, DeadLetterFails, Store, StoreFails, Holding
    <3>6. ASSUME ends' = ends PROVE Same
      BY <3>6 DEF ends
    <3>7. ends' = ends \/ \E w \in Worker : Ender(w)
      BY <1>0, <1>3 DEF Next, Step, Faults, Start, Poll, Raise, Commit, Analyse, CommitFails,
         Crash, Rebalance, Dispatch, DispatchFails, Send, SendFails, vars
    <3>8. Same
      <4> HIDE DEF Same, Ender
      <4>1. CASE ends' = ends
        BY <3>6, <4>1
      <4>2. CASE \E w \in Worker : Ender(w)
        <5>1. PICK w \in Worker : Ender(w)
          BY <4>2
        <5> QED
          BY <3>5, <5>1
      <4> QED
        BY <3>7, <4>1, <4>2
    <3> QED
      BY <3>8 DEF OnlyAccepted, Ended
  <2> QED
    BY <2>1, <2>3, <2>4, <2>5 DEF OnlyAccepted
<1> QED
  BY <1>2, <1>3

LEMMA InitEnds == ASSUME Init PROVE EndsInv
<1>1. TypeOK
  BY InitType
<1>2. OnlyAccepted
  BY DEF Init, OnlyAccepted, Ended, Holding
<1>3. ASSUME NEW w \in Worker, NEW m \in Msg PROVE Copies(w, m) = {}
  BY DEF Init, Copies
<1>4. FiniteCopies
  BY <1>3, FS_EmptySet DEF FiniteCopies
<1>5. ASSUME NEW m \in Msg PROVE Total(m) = 0
  <2>1. ASSUME NEW w \in Worker PROVE Load(w, m) = 0
    <3>1. Unread(w, m) = {} /\ Unsure(w, m) = {}
      BY <1>3 DEF Unread, Unsure
    <3>2. state[w] = "down"
      BY DEF Init
    <3> QED
      BY <3>1, <3>2, FS_EmptySet DEF Load, Extra, One, Holding
  <2> QED
    BY <2>1 DEF Total, Worker, Ended, Init
<1> QED
  BY <1>2, <1>4, <1>5 DEF EndsInv, Init

LEMMA NextEnds == ASSUME IInv, EndsInv, [Next]_vars PROVE EndsInv'
<1>1. TypeOK /\ TraceInv /\ TypeOK' /\ OnlyAccepted /\ FiniteCopies
  BY NextType DEF IInv, EndsInv
<1>2. OnlyAccepted'
  BY <1>1, AcceptedStep
<1>3. \A m \in Msg : Total(m) \in Nat /\ Total(m) <= 1 + faults
  BY <1>1, TotalType DEF EndsInv
<1>4. faults \in Nat /\ faults' \in Nat
  BY <1>1, PipelineAssumption DEF TypeOK
<1>5. ASSUME NEW k \in Msg, Accept(k) PROVE EndsInv'
  <2>1. /\ FiniteCopies' /\ Total(k)' = 1 /\ \A m \in Msg \ {k} : Total(m)' = Total(m)
        /\ faults' = faults
    BY <1>1, <1>5, AcceptCosts DEF Accept
  <2> QED
    BY <1>2, <1>3, <1>4, <2>1 DEF EndsInv
<1>6. ASSUME Next, ~ \E m \in Msg : Accept(m) PROVE EndsInv'
  <2>1. /\ FiniteCopies'
        /\ \A m \in Msg : /\ Total(m)' \in Int
                          /\ Total(m)' <= Total(m) + (faults' - faults)
    BY <1>1, <1>6, StepCosts DEF Paid
  <2>2. ASSUME NEW m \in Msg PROVE Total(m)' <= 1 + faults'
    <3>1. \A n, f, g \in Nat, i \in Int : n <= 1 + f /\ i <= n + (g - f) => i <= 1 + g
      OBVIOUS
    <3> QED
      BY <1>3, <1>4, <2>1, <3>1
  <2> QED
    BY <1>2, <2>1, <2>2 DEF EndsInv
<1>7. CASE UNCHANGED vars
  <2>1. FiniteCopies' /\ faults' = faults
    BY <1>1, <1>7, SameFinite DEF vars
  <2>2. ASSUME NEW m \in Msg PROVE Total(m)' = Total(m)
    <3>1. ASSUME NEW w \in Worker PROVE Load(w, m)' = Load(w, m)
      <4>1. \A p \in Partition : Offset(w, p)' = Offset(w, p)
        BY <1>7 DEF vars, consumer, worker, Offset
      <4>2. Unread(w, m)' = Unread(w, m) /\ Unsure(w, m)' = Unsure(w, m)
        BY <1>7, <4>1, SameCopies DEF vars, consumer
      <4> QED
        BY <1>7, <4>2 DEF vars, worker, Load, Extra, Busy
    <3> QED
      BY <1>7, <3>1 DEF vars, ends, Total, Ended, Worker
  <2> QED
    BY <1>2, <1>3, <2>1, <2>2 DEF EndsInv
<1> QED
  BY <1>5, <1>6, <1>7

\* At least once is nearly once: whatever crashes, rebalances, raises or fails to commit,
\* a message ends at most once more than there were faults (core/worker.py, 75-118;
\* core/kafka_client.py, 69-79).
THEOREM EndsOnce == Spec => []EndsOncePerFault
<1>1. Init => EndsInv
  BY InitEnds
<1>2. IInv /\ EndsInv /\ [Next]_vars => EndsInv'
  BY NextEnds
<1>3. IInv /\ EndsInv => EndsOncePerFault
  <2> SUFFICES ASSUME IInv, EndsInv, NEW m \in Msg
               PROVE  stored[m] + dropped[m] + dead[m] <= 1 + faults
    BY DEF EndsOncePerFault
  <2>1. TypeOK /\ FiniteCopies /\ Total(m) <= 1 + faults
    BY DEF IInv, EndsInv
  <2>2. /\ Load("engine", m) \in Nat /\ Load("ai", m) \in Nat /\ Load("final", m) \in Nat
        /\ Ended(m) \in Nat /\ faults \in Nat
    BY <2>1, Sizes, EndedType, FaultsNat DEF Worker
  <2> QED
    BY <2>1, <2>2 DEF Total, Ended
<1> QED
  BY <1>1, <1>2, <1>3, Invariance, PTL DEF Spec
=============================================================================
