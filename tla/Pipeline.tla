------------------------------ MODULE Pipeline ------------------------------
(***************************************************************************)
(* The message pipeline: engine, ai-worker and final-store are BaseWorkers *)
(* (core/worker.py), each a consumer group with one member on a Kafka      *)
(* topic of its own.                                                       *)
(*   engine   sends a message to the topic of its next step;               *)
(*   ai       drops a message or sends it, analysed, back to the engine;   *)
(*   final    stores a message in Postgres, or drops it.                   *)
(* A handler that raises puts its message on dlq-signals, which nobody     *)
(* consumes.  Offsets are committed by hand, after the handler.            *)
(*                                                                         *)
(* Simplifications:                                                        *)
(*   - A message is its trace_id and the steps in its trace; what its text *)
(*     makes of it (dropped, invalid, gateway error) is a free choice.     *)
(*   - Every producer asks for the same two steps (WORKFLOWS).             *)
(*   - pipeline_logs is written by calls that swallow every exception; it  *)
(*     is left out.                                                        *)
(*   - Faults (a crash, a rebalance, a send or a database commit that      *)
(*     raises although it may have happened, a commit of offsets that      *)
(*     fails) are bounded together by MaxFaults.                           *)
(***************************************************************************)
EXTENDS Naturals, Sequences, FiniteSets

CONSTANTS
    Msg,          \* the trace_ids
    Partition,    \* the partitions of a topic
    MaxFaults     \* bound on faults

ASSUME PipelineAssumption ==
    Partition # {} /\ MaxFaults \in Nat

VARIABLES
    log,         \* log[t][p]: the messages of partition p of topic t-signals
    position,    \* position[w][p]: how many messages the consumer has handed out
    committed,   \* committed[w][p]: the committed offset of the group
    state,       \* where handle_message of each worker is
    current,     \* the message in hand
    accepted,    \* messages a producer has put on engine-signals
    stored,      \* how often final-store has inserted the signals of a message
    dropped,     \* how often a worker has dropped it
    dead,        \* how often it is on dlq-signals
    unsent,      \* messages whose send to dlq-signals has raised
    faults

consumer == <<position, committed>>
worker   == <<state, current>>
ends     == <<stored, dropped, dead, unsent>>
vars     == <<log, consumer, worker, accepted, ends, faults>>

Steps   == <<"ai", "final">>             \* WORKFLOWS
Worker  == {"engine", "ai", "final"}     \* and their topics
Message == [id: Msg, trace: SUBSET {"ai", "final"}]
Null    == [id |-> "none", trace |-> {}] \* nothing in hand

Holding == {"work", "send", "dead"}      \* states with a message not yet dealt with

TypeOK ==
    /\ log \in [Worker -> [Partition -> Seq(Message)]]
    /\ position \in [Worker -> [Partition -> Nat]]
    /\ committed \in [Worker -> [Partition -> Nat]]
    /\ \A w \in Worker, p \in Partition :
        committed[w][p] <= position[w][p] /\ position[w][p] <= Len(log[w][p])
    /\ state \in [Worker -> {"down", "poll", "commit"} \cup Holding]
    /\ current \in [Worker -> Message \cup {Null}]
    /\ \A w \in Worker : state[w] \in Holding => current[w] \in Message
    /\ accepted \subseteq Msg
    /\ stored \in [Msg -> Nat] /\ dropped \in [Msg -> Nat] /\ dead \in [Msg -> Nat]
    /\ unsent \subseteq Msg
    /\ faults \in 0 .. MaxFaults

-----------------------------------------------------------------------------

\* Mutant of NextStep: the trace is ignored.
NextStepFirst(trace) == Steps[1]

\* next_step of the engine: the first step that is not in the trace.
NextStep(trace) ==
    LET open == {i \in 1 .. Len(Steps) : Steps[i] \notin trace} IN
    IF open = {} THEN "none" ELSE Steps[CHOOSE i \in open : \A j \in open : i <= j]

Fault == faults < MaxFaults /\ faults' = faults + 1

Count(f, m) == [f EXCEPT ![m] = @ + 1]

\* send_and_wait without a key: any partition.
SendTo(t, m) ==
    \E p \in Partition : log' = [log EXCEPT ![t][p] = Append(@, m)]

Goto(w, st) == state' = [state EXCEPT ![w] = st]

Done(w, st) == Goto(w, st) /\ current' = [current EXCEPT ![w] = Null]

Init ==
    /\ log = [t \in Worker |-> [p \in Partition |-> <<>>]]
    /\ position = [w \in Worker |-> [p \in Partition |-> 0]]
    /\ committed = [w \in Worker |-> [p \in Partition |-> 0]]
    /\ state = [w \in Worker |-> "down"]
    /\ current = [w \in Worker |-> Null]
    /\ accepted = {}
    /\ stored = [m \in Msg |-> 0] /\ dropped = [m \in Msg |-> 0] /\ dead = [m \in Msg |-> 0]
    /\ unsent = {}
    /\ faults = 0

\* A producer publishes a new event.
Accept(m) ==
    /\ m \notin accepted
    /\ accepted' = accepted \cup {m}
    /\ SendTo("engine", [id |-> m, trace |-> {}])
    /\ UNCHANGED <<consumer, worker, ends, faults>>

\* Mutant of Start: auto_offset_reset "latest" for a group that has not read yet.
StartLatest(w) ==
    /\ state[w] = "down"
    /\ Goto(w, "poll")
    /\ position' = [position EXCEPT ![w] =
            [p \in Partition |-> IF committed[w][p] > 0 THEN committed[w][p]
                                                         ELSE Len(log[w][p])]]
    /\ UNCHANGED <<log, committed, current, accepted, ends, faults>>

\* setup: the consumer starts at the committed offsets (earliest at first).
Start(w) ==
    /\ state[w] = "down"
    /\ Goto(w, "poll")
    /\ position' = [position EXCEPT ![w] = committed[w]]
    /\ UNCHANGED <<log, committed, current, accepted, ends, faults>>

\* Mutant of Poll: offsets are committed when messages are handed out.
PollCommits(w) ==
    /\ state[w] = "poll"
    /\ \E p \in Partition :
        /\ position[w][p] < Len(log[w][p])
        /\ position' = [position EXCEPT ![w][p] = @ + 1]
        /\ current' = [current EXCEPT ![w] = log[w][p][position[w][p] + 1]]
    /\ committed' = [committed EXCEPT ![w] = position'[w]]
    /\ Goto(w, "work")
    /\ UNCHANGED <<log, accepted, ends, faults>>

\* The loop of run: the next message of some partition.
Poll(w) ==
    /\ state[w] = "poll"
    /\ \E p \in Partition :
        /\ position[w][p] < Len(log[w][p])
        /\ position' = [position EXCEPT ![w][p] = @ + 1]
        /\ current' = [current EXCEPT ![w] = log[w][p][position[w][p] + 1]]
    /\ Goto(w, "work")
    /\ UNCHANGED <<log, committed, accepted, ends, faults>>

-----------------------------------------------------------------------------
(* process_event of the three services *)

\* The engine forwards the message itself and returns None.
Dispatch ==
    LET m == current["engine"] IN
    /\ state["engine"] = "work"
    /\ IF NextStep(m.trace) = "none" THEN UNCHANGED log ELSE SendTo(NextStep(m.trace), m)
    /\ Done("engine", "commit")
    /\ UNCHANGED <<consumer, accepted, ends, faults>>

\* The ai-worker and final-store find nothing to do: no analysis, no coin, an empty
\* answer, no tracked symbol; no signal or scenario to store.
Drop(w) ==
    /\ w \in {"ai", "final"} /\ state[w] = "work"
    /\ dropped' = Count(dropped, current[w].id)
    /\ Done(w, "commit")
    /\ UNCHANGED <<log, consumer, accepted, stored, dead, unsent, faults>>

\* The gateway answers with signals of tracked coins.
Analyse ==
    /\ state["ai"] = "work"
    /\ current' = [current EXCEPT !["ai"].trace = @ \cup {"ai"}]
    /\ Goto("ai", "send")
    /\ UNCHANGED <<log, consumer, accepted, ends, faults>>

\* One transaction inserts the signals with their scenarios.
Store ==
    /\ state["final"] = "work"
    /\ stored' = Count(stored, current["final"].id)
    /\ Done("final", "commit")
    /\ UNCHANGED <<log, consumer, accepted, dropped, dead, unsent, faults>>

\* process_event raises for the message itself: the gateway fails or times out, the
\* event is invalid.
Raise(w) ==
    /\ w \in {"ai", "final"} /\ state[w] = "work"
    /\ Goto(w, "dead")
    /\ UNCHANGED <<log, consumer, current, accepted, ends, faults>>

\* The send of the engine raises, with or without the message on the topic.
DispatchFails ==
    LET m == current["engine"] IN
    /\ state["engine"] = "work" /\ Fault
    /\ NextStep(m.trace) # "none"
    /\ UNCHANGED log \/ SendTo(NextStep(m.trace), m)
    /\ Goto("engine", "dead")
    /\ UNCHANGED <<consumer, current, accepted, ends>>

\* The transaction of final-store raises, rolled back or not.
StoreFails ==
    /\ state["final"] = "work" /\ Fault
    /\ UNCHANGED stored \/ stored' = Count(stored, current["final"].id)
    /\ Goto("final", "dead")
    /\ UNCHANGED <<log, consumer, current, accepted, dropped, dead, unsent>>

-----------------------------------------------------------------------------
(* The rest of handle_message *)

\* The result of the ai-worker goes back to the engine.
Send ==
    /\ state["ai"] = "send"
    /\ SendTo("engine", current["ai"])
    /\ Done("ai", "commit")
    /\ UNCHANGED <<consumer, accepted, ends, faults>>

SendFails ==
    /\ state["ai"] = "send" /\ Fault
    /\ UNCHANGED log \/ SendTo("engine", current["ai"])
    /\ Goto("ai", "dead")
    /\ UNCHANGED <<consumer, current, accepted, ends>>

DeadLetter(w) ==
    /\ state[w] = "dead"
    /\ dead' = Count(dead, current[w].id)
    /\ Done(w, "commit")
    /\ UNCHANGED <<log, consumer, accepted, stored, dropped, unsent, faults>>

\* Nothing is committed now; the loop goes on after five seconds.
DeadLetterFails(w) ==
    /\ state[w] = "dead" /\ Fault
    /\ UNCHANGED dead \/ dead' = Count(dead, current[w].id)
    /\ unsent' = unsent \cup {current[w].id}
    /\ Done(w, "poll")
    /\ UNCHANGED <<log, consumer, accepted, stored, dropped>>

\* Mutants of Commit: the handler returns without committing; the committed offset
\* is one too high.
CommitNothing(w) ==
    /\ state[w] = "commit"
    /\ Goto(w, "poll")
    /\ UNCHANGED <<log, consumer, current, accepted, ends, faults>>
CommitOneMore(w) ==
    /\ state[w] = "commit"
    /\ committed' = [committed EXCEPT ![w] = [p \in Partition |-> position[w][p] + 1]]
    /\ Goto(w, "poll")
    /\ UNCHANGED <<log, position, current, accepted, ends, faults>>

\* safe_commit: commit() takes the positions of all partitions.
Commit(w) ==
    /\ state[w] = "commit"
    /\ committed' = [committed EXCEPT ![w] = position[w]]
    /\ Goto(w, "poll")
    /\ UNCHANGED <<log, position, current, accepted, ends, faults>>

\* It gives up without an exception: the loop goes on.
CommitFails(w) ==
    /\ state[w] = "commit" /\ Fault
    /\ Goto(w, "poll")
    /\ UNCHANGED <<log, consumer, current, accepted, ends>>

-----------------------------------------------------------------------------

Crash(w) ==
    /\ state[w] # "down" /\ Fault
    /\ Done(w, "down")
    /\ UNCHANGED <<log, consumer, accepted, ends>>

\* The group rebalances under a running handler: the consumer is back at the
\* committed offsets.
Rebalance(w) ==
    /\ state[w] # "down" /\ Fault
    /\ position' = [position EXCEPT ![w] = committed[w]]
    /\ UNCHANGED <<log, committed, worker, accepted, ends>>

Step(w) ==
    \/ Start(w) \/ Poll(w) \/ Drop(w) \/ Raise(w) \/ DeadLetter(w) \/ Commit(w)
    \/ w = "engine" /\ Dispatch
    \/ w = "ai" /\ (Analyse \/ Send)
    \/ w = "final" /\ Store

Faults ==
    \/ DispatchFails \/ StoreFails \/ SendFails
    \/ \E w \in Worker : DeadLetterFails(w) \/ CommitFails(w) \/ Crash(w) \/ Rebalance(w)

Next ==
    \/ \E m \in Msg : Accept(m)
    \/ \E w \in Worker : Step(w)
    \/ Faults

Spec == Init /\ [][Next]_vars

\* Each container consumes for ever and is restarted when it stops.
LiveSpec == Spec /\ \A w \in Worker : WF_vars(Step(w))

-----------------------------------------------------------------------------
(* Properties *)

Settled(m) == stored[m] + dropped[m] + dead[m] > 0

\* Some group will still be given a copy of m, at the latest after a restart.
InFlight(m) ==
    \E w \in Worker, p \in Partition : \E i \in committed[w][p] + 1 .. Len(log[w][p]) :
        log[w][p][i].id = m

\* The promise of manual commits (core/worker.py:100-112): no offset passes a
\* message before it is stored, deliberately dropped, dead-lettered, or on its way
\* in another topic.
\* The exception is a message that could not be dead-lettered either.
NothingLost == \A m \in accepted : Settled(m) \/ InFlight(m) \/ m \in unsent

\* At least once is nearly once: each fault adds at most one end of a message, be it
\* a second row in signals or a message both stored and dead-lettered.
EndsOncePerFault ==
    \A m \in Msg : stored[m] + dropped[m] + dead[m] <= 1 + faults

\* Only analysed messages reach final-store, and an analysed one is never analysed
\* again: copies after a restart keep the step they are at.
StepsInOrder ==
    \A p \in Partition :
        /\ \A i \in 1 .. Len(log["ai"][p]) : log["ai"][p][i].trace = {}
        /\ \A i \in 1 .. Len(log["final"][p]) : log["final"][p][i].trace = {"ai"}

\* Every event a producer got rid of ends, whatever crashes on the way.
EverythingSettles == \A m \in Msg : m \in accepted ~> Settled(m) \/ m \in unsent

\* core/worker.py:116: a message that cannot be dead-lettered is not committed, "to
\* avoid losing the message if DLQ is down".
UnsentKept == \A m \in unsent : Settled(m) \/ InFlight(m)

\* shared/models/signals.py:17: one Signal per (trace_id, symbol).
StoredOnce == \A m \in Msg : stored[m] <= 1
=============================================================================
