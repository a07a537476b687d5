# TLA+ verification of signal-backend

signal-backend collects trading analyses, lets an AI turn them into *signals*
(one per symbol) with *scenarios* (possible trades), and then follows the market
until every scenario has entered, won, lost, run out or been cancelled. This
directory holds its TLA+ models, the TLC configurations that check them, and
TLAPS proofs.

`tlc -config EvaluatorFaults.cfg MCSignalEvaluator.tla` checks a run,
`tlapm SignalEvaluatorProofs.tla` checks the proofs of a module. PROJECT.json
lists the runs, maps each definition to the lines it models, and names the hazards
of the code with the properties that watch them.

## The system

| Part | State | Operations | Interacts with |
|---|---|---|---|
| producers (telegram, scraper, http_api) | seen marks in Redis | poll, send, mark seen | Kafka `engine-signals` |
| engine (`services/engine`) | none | route an event to the topic of its next step | Kafka |
| BaseWorker (`core/worker.py`, `kafka_client.py`, `dlq.py`) | consumer position, committed offset | handle a message, publish, commit, dead-letter | Kafka, `pipeline_logs` |
| ai_worker | cached tracked coins | analyse a message through the gateway | gateway, Postgres |
| claude gateway | semaphore of 10 slots | run an LLM process with a timeout | ai_worker |
| final_store | none | validate, group, normalise, insert a signal with its scenarios | Postgres, Redis prices |
| price_streamer | last prices, ticks | web socket, REST fallback, USDT conversion | exchanges, Redis |
| **signal_evaluator** | Redis `eval:*` keys, Postgres rows, the batch of a cycle | recover, fast and full cycle, commit | Redis, Postgres |
| office | none | edit, add and delete scenarios, coins and sources, replay dead letters | Postgres, Kafka |
| API (Go) | cache, rate-limit windows | queries, performance, health | Postgres, Redis |

A message flows producer -> engine -> ai_worker -> engine -> final_store ->
Postgres; from there on the evaluator owns the scenarios, with prices that the
streamer puts in Redis. The admin panel edits the same rows.

What is hard:

- *evaluator*: two stores without a common transaction. Redis is written while a
  scenario is evaluated, Postgres once per cycle. Every failure between the two
  writes leaves them apart. Correct means: one position per signal, no position
  without its record, an end that is final and the same in all tables, and every
  scenario ends.
- *office against evaluator*: statements of the panel run inside a cycle.
- *pipeline*: at-least-once delivery, a dead-letter path that can fail, offsets
  that commit past a lost message, duplicates at the end.
- *data path*: gateway, ai-worker and final-store each repair and reread the same
  fields by rules of their own. Correct means: no usable scenario is lost, mixed up
  with another or changed into another trade.
- *trade monitoring*: candles from a sliding window over a set of ticks, timers
  and extremes kept in Redis and rebuilt from Postgres. Correct means: an exit
  happens when, and only when, a price that a cycle could see calls for it.
- *producers and caches*: marks set after the send, a seed in two steps, keys that
  hold a name an operator may change, a list of coins that is up to five minutes
  old. Correct means: nothing is sent or swallowed without a cause, and every post is
  judged.

## Modules

| Module | Content |
|---|---|
| `ScenarioLifecycle` | abstract specification: phases of the scenarios of a signal, as the evaluator's docstring promises them |
| `SignalEvaluator` | the evaluation loop of `services/processors/signal_evaluator/main.py`, Postgres, Redis and every fault; the refinement mapping to `ScenarioLifecycle` |
| `MCSignalEvaluator` | instances for TLC |
| `EvaluatorOffice`, `MCEvaluatorOffice` | the loop together with the admin panel |
| `Pipeline`, `MCPipeline` | engine, ai_worker and final_store as BaseWorkers over Kafka |
| `Listing` | a comprehension and a sort as the elements of a list in an order, by rank |
| `GatewaySchema` | what the gateway makes of the JSON of the language model |
| `Normalize` | what final-store makes of a scenario: geometry, order, timeframe, expiry, grouping |
| `Intake` | one message through gateway, filter of the ai-worker and final-store |
| `PriceFeed` | prices and ticks of one coin in Redis, the candle of the evaluator |
| `TradeMonitor` | one scenario against these prices: `_eval` in detail |
| `Journey`, `MCJourney` | `Intake`, `PriceFeed` and `TradeMonitor` together |
| `Producer` | a polled source and its producer (scraper, http_api), edited by an operator |
| `TrackedCoins` | the coins of the panel and the copy of the ai-worker |
| `Acquisition`, `MCAcquisition` | `Producer` and `TrackedCoins` together |
| `AcquisitionProofs` | TLAPS: types, sends, swallowed items and the lag of the filter |
| `IntakeProofs` | TLAPS: lemmas on lists in an order, on the validators, the geometry and the grouping; what the rows of any reply are |
| `JourneyProofs` | TLAPS: the stored rows, types, the timer, the extremes, the end and the profit of a trade |
| `SignalEvaluatorProofs` | TLAPS: lemmas on the operators, type correctness, the inductive invariant of the loop, the theorems on the scenarios and signals tables |
| `SignalEvaluatorHistory` | TLAPS: the Redis keys, the log and the result rows, whatever fails |
| `SignalEvaluatorFaultFree` | TLAPS: what holds as long as nothing fails, and the refinement of `ScenarioLifecycle` |
| `EvaluatorOfficeProofs` | TLAPS: what survives an operator who edits the rows under a cycle |
| `PipelineProofs` | TLAPS: types, offsets, the order of the steps of a message, at-least-once delivery, at most one more end than faults |

### SignalEvaluator

State: the columns of `scenarios`, `scenario_results`, `scenario_events` and
`signals` that the loop writes (`status`, `active`, `result`, `events`,
`sigActive`, `sigRef`); the Redis keys it decides from (`rEntered`, `rTp`,
`rFirst`, `rGap`); the process: where it is (`pc`), the rows it read (`snap`,
`snapActive`, `snapExpired`), those still to evaluate (`todo`) and the lists of
the batch (`bDirty` ... `bSiblings`). The environment stores signals, lets time
pass `expire_at`, and stops and resumes the price of a symbol. `KeyRunsOut` is the
end of a time to live: a gap mark lives two hours (`main.py:398`), the other keys 40
days (`main.py:50`), which a long outage and a scenario of 90 days outlast. That is no
fault; `lapses` counts such keys for each scenario, up to `MaxLapses`.

Steps, in the order of a cycle:

| Action | Code |
|---|---|
| `Recover`, `RecoverFails` | `recover_redis_state` |
| `LoadCycle`, `LoadFails` | the SELECT of `evaluate_cycle`; every `SlowCycles`-th cycle is a full one |
| `EvalPriced(s)` | `_eval` with a candle: entry, best target, verdict, events, row, Redis keys |
| `EvalNoPrice(s)` | `_eval` returns None; `_note_data_gap` |
| `EvalRaises(s)` | a Redis call fails in `_eval` or `_note_data_gap`: the scenario is dropped, earlier writes stay |
| `CancelSiblings`, `CancelRaises` | `sibling_cancel` and its `_cleanup` calls |
| `CommitBatch`, `CommitFails` | `_batch_write` |
| `Crash`, `RedisRestart`, `RedisEvicts(s)` | docker restarts, `allkeys-lru` |

Rows come in any order (the SELECT has no ORDER BY), so `EvalOne` picks any row
of `todo`. A candle is an `Observation`: whether the scenario's entry condition
holds, the highest target it reaches, whether it touches the stop. These are
chosen freely in each evaluation; that covers every price path, entry type and
tolerance, and the recorded rule that a stop and a target in one candle is a
success (`main.py:592-612`) is in `Verdict`.

The batch is one atomic step: it is one transaction, its UPDATEs are guarded by
the current row, and its inserts fail as a whole when a scenario row is gone
(`Writes`).

### EvaluatorOffice

Adds `UpdateScenario`, `DeleteScenario`, `DeleteSignal` and `AddScenario` of
`services/office/db.py`, enabled at every step of a cycle. Deleting cascades to
results and events and sets `active_scenarios_id` to NULL; ids are not reused
(serial columns). Edits write a status of `EditChoices`, scenarios added by hand start
with one of `AddChoices`; both are subsets of the five options of the form, which
preselects `running` for a new scenario and for one whose status it does not know
(`success`, `failed`, `cancelled`).

### Pipeline

State: a log per topic and partition, the position and the committed offset of
each consumer group, where `handle_message` of each worker is (`state`) and its
message (`current`). `stored`, `dropped`, `dead` count how a message ended, and
`unsent` records messages whose send to dlq-signals raised.

| Action | Code |
|---|---|
| `Accept(m)` | a producer's `send_and_wait("engine-signals", ...)` |
| `Start(w)`, `Poll(w)` | `setup` and the loop of `run` in `core/worker.py` |
| `Dispatch`, `Analyse`, `Drop(w)`, `Store`, `Raise(w)` | `process_event` of the three services |
| `Send`, `DeadLetter(w)`, `Commit(w)` | the rest of `handle_message`; `safe_commit` |
| `DispatchFails`, `SendFails`, `StoreFails`, `DeadLetterFails(w)`, `CommitFails(w)` | the awaited call raises (or, for the commit, gives up); its effect may have happened |
| `Crash(w)`, `Rebalance(w)` | restart of a container; the group is reset to the committed offsets |

A message is its `trace_id` and the steps in its trace. Whether its text is an
analysis, names tracked coins, or makes the gateway fail is a free choice of
`Drop`, `Analyse` and `Raise`, so a second delivery may end differently from the
first one. Records are read by index and never removed; retention is not
modelled. The commit takes the position of every partition, as
`consumer.commit()` does: that is what loses a message later.

### Journey: Intake, PriceFeed, TradeMonitor

`Intake` takes one reply of the language model through `ParseFails`,
`ParseNothing`, `ParseItems` (the route `/parse` with `CleanItems` of
`GatewaySchema`), `Filter` (`_filter_by_tracked_coins`) and `Insert`
(`insert_signals_with_scenarios` with `RowsOf` of `Normalize`). A price is a text:
absent, `now`, a number, a number with thousands separators, a number printed as NaN, or
junk. The two readers differ on separators: the gateway accepts them, `_to_float` of
final-store does not, so that such an entry becomes NULL, which the evaluator takes for
a market order (`repository.py:194`, `main.py:460`). NaN passes every reader and every
comparison: a stop that is NaN is stored, and no price ever reaches it. The timeframe
`1M` becomes one minute (`repository.py:275`). The gateway replaces an unknown direction
by `up`; `_infer_direction` of final-store can therefore never run, and a reply that
says "short" is stored as a long trade without the targets and stop that are now on the
wrong side.

`Renders` says what a row owes to its scenario: the side for `up` and `down`, an entry
that is a plain number or `now`, a plain stop on the loss side, the plain targets on the
profit side and nothing invented, a timeframe of the list. It promises nothing of
irregular fields, `1M` among them; that what the path *accepts* is stored as it was
written is `AcceptedAsWritten`, which fails (`intake_deviations`).

The lists of the code are filtered (the empty items, the tracked coins, the targets
above zero and on the profit side) and sorted (the targets). `Listing` defines both
without recursion: the element number `k` of the outcome is the one that has `k - 1`
others before it (`Place`, `Arrange`), and `Pick` is the comprehension, with the
order of the list. The same `Place` numbers the usable scenarios of a coin over all
items of a reply, which is the order in which `_group_by_symbol` appends them.

`PriceFeed` keeps the age of each price in the sorted set of ticks and the last
price. Members of the set are the prices, so a price that returns moves
(`Publish`), also when it was slow to be written and comes after a newer one: web
sockets and the REST poll write the same set (`price_streamer/main.py:98`), each with
its own score, up to `MaxDelay` old. `Candles` is `_candle`: the ticks of the last 12 s,
of which one with the newest score is the close (`Closes`), or the last price while its
key lives.

`TradeMonitor` is `_eval` for one scenario: `Confirmed` and `ConsolAfter`
(`_confirm_entry`, `_check_consolidation`), `Hits` (`_best_tp`), `StopHit` and
`Verdict` (`main.py:592-626`), the extremes in Redis and the LEAST/GREATEST of the
upsert, the price points. `Cycle` reads a waiting scenario every `SlowCycles`-th
time only, and comes `Interval` after the last one or any time later. `Tick` is time,
`Quote` a price, `Restart` is `recover_redis_state`; since `Tick` is always possible
before it, the evaluator may have been down for any time. `KeyLost` and `PricesLost`
are evictions of the keys of the scenario, of the set of ticks and of the last price; a
restart of Redis is several of them. `Follow` in `Journey` hands a stored row to the
evaluator.

`ExitsFollowThePrices` and `ExtremesCoverThePrices` compare the verdicts and rows with
`seen`, the prices that were in the window of some cycle since the entry (`Found`).
`seen` is kept from a history of its own (`fresh`), not from the ticks, so a price that
the set should hold and does not is noticed. The cycle of the entry is included, because
the code judges its candle: a trade may be won or lost in the cycle of its entry by a
tick from before the entry. A price that was in no window, because a cycle took longer
than 12 s or the evaluator was down, moves neither a verdict nor an extreme, and nothing
in the code prevents that (`main.py:52`): it is outside both properties. The order of
stop and target in one candle is `StopFirst`, which fails (`journey_stop_first`).

`ConsolidationHeld` speaks of the closes that cycles read: the entry comes a timeframe
or more after an earlier close in the zone, with none out of the zone read in between.
The docstring (`main.py:19`, "price holds for one full timeframe unit") says more, and
more than the code can know: with a dead feed between two closes the timer runs on.
`SuccessIsProfit` leaves out market and consolidation orders, which enter at the close
and may be beyond a target already. Redis calls that fail inside `_eval` are in
`SignalEvaluator` (`EvalRaises`), not here.

### Acquisition: Producer, TrackedCoins

`Producer` is `process_source`, which scraper and http_api share: a poll loads the
source (`active`, its name), seeds it when the init key is missing (`SeedMark`,
`SeedReady`), or walks the page from the newest item on (`Fetch`, `Skip`, `Send`,
`Mark`, `Sleep`). Items are numbered as they appear; `posted` is the newest one.
`EditSource` is the panel: `renamed` says that the name differs from the one under
which the keys were written. The init key has the name in both producers, the mark
only in http_api (`KeyedByName`, `Marks`). Faults are `SendFails` (the exception of
one item, after or before the send took effect), `MarkFails`, `Crash`, `RedisLoses`
(any subset of the keys) and `Lapse` (a mark is 30 days old).

`TrackedCoins` has the table, the copy of the ai-worker and its age; `span` and
`calm` are history variables. `Judge(i)` in `Acquisition` filters one message about
item `i` by a copy that is fresh enough (`Cached`) or loaded now (`Load`), and
`JudgeBlindly(i)` is a load that fails: the worker goes on with an empty list for
as long as a good one would last, and drops what comes (the docstring calls this
fail-closed, the comment in `_load_tracked_coins` fail-open).

The definitions whose comment begins with *Mutant of* are faulty variants of the
definition that follows them. They are used only to confirm that the properties
can fail: with the variant put in its place, TLC finds the property violated.

## Runs

| Run | Question | Instance | Result |
|---|---|---|---|
| `evaluator_fault_free` | with nothing failing but the feed, do Redis and Postgres agree, is one scenario per signal traded, does the log tell its story, does the loop implement `ScenarioLifecycle`? | signals A (two scenarios) and B (one), 1 target, 1 outage of any length, 1 key that runs out per scenario | holds |
| `evaluator_faults` | what is still true of the four tables and of the keys with failures, and does every scenario end? | one signal, two scenarios, 2 faults, 1 outage | holds |
| `evaluator_lost_entry` | is the multi-scenario rule kept over the life of a signal when one step fails? | 1 fault | violated |
| `evaluator_result_mismatch` | is the result row the scenario's end? | no fault | violated |
| `office` | an operator closes (`canceled`, `expired`) and deletes scenarios and adds running ones around the loop | 3 operations, no faults | holds |
| `pipeline` | does every accepted message end, in the order of the steps, with few duplicates? | 2 messages, 1 partition, 2 faults | holds |
| `pipeline_lost` | is a message kept when it cannot be dead-lettered? | 2 messages, 2 partitions, 1 fault | violated |
| `pipeline_duplicate` | are the signals of a message stored once? | 2 messages, 2 partitions, 1 fault | violated |
| `journey` | are scenarios stored as analysed, and entered and closed as the prices say? | all replies of `MCJourney` (every field with regular and irregular values, all pairs of items), 7 kinds of orders traded over 3 prices, candle window 1, buffer and price TTL 2, writes up to 1 late, 2 fast cycles per slow one, timeframe 2 | holds |
| `journey_stop_first` | is the stop checked first? | the 7 kinds of orders, the same feed | violated |
| `intake_deviations` | is what the path accepts stored as it was written? | a regular scenario, and one with a separated entry and the timeframe `1M` | violated |
| `acquisition` | what is sent twice, swallowed, dropped or never judged? | 2 items on a page of 2, 1 coin, 1 fault, 1 lapse, 1 rename, marks keyed by name | holds |

Bounds. The rules relate scenarios of one signal, and a violation needs two of
them; the third scenario belongs to another signal and shows that one batch can
serve two signals. One target level is enough to tell a scenario with a target
reached from one without; more levels only lengthen the log. `SlowCycles = 2`
has both kinds of cycle. Two faults include every pair (for example a failed
commit, then an evicted key). One key that runs out is enough for a second start
of the same gap. Faults, outages and lapses are counters in guards, so the state space is
finite; the log is finite because a scenario ends. The competitors are interchangeable in
the fault-free run (`SYMMETRY`), which checks no liveness.

In the pipeline two messages let one be behind, and be passed by, the other; one
partition makes them share an offset. `EndsOncePerFault` needs two faults to tell
a bound that adds from one that multiplies: a copy made at one worker is read
again at the next. With two partitions per topic the state space exceeds eight
million states; the theorems cover any number of them, and so do the
counterexamples. The run checks liveness as well, where TLC's symmetry is not sound:
`OrderedSpec` fixes instead which of the two messages is accepted first.

In `journey` the prices 98, 100 and 102 lie on both sides of an entry at 100, and every
target and stop is reached, a target at 96 by the tolerance of a `range` order (two
percent of 100 is one step). The windows keep the order of the code's numbers: the
buffer is longer than the candle's window, and the last price lives no shorter. A window
of 1 over cycles any time apart has prices that are in two windows, in one and in none.
A write that is 1 late comes after a newer score of the same price, and of another. The
timeframe of 2 lets a timer be set, run on and be read. The theorems hold for any values.

In `acquisition` the unit of time is the life of the cache (`CacheTTL = 0`: the list
is good until time passes), which still has fresh, stale, failed and cold copies.
Two items are the least for which one is newer, and looked at first. The disjunct
"left the page" of `PostsAreJudged` does not occur with a page that holds all
items; the safety properties are proved for all pages.

Fairness (`LiveSpec` of `SignalEvaluator`). Weak fairness of the evaluator's steps: `run` is an
endless loop that catches every exception and docker restarts the container
(`restart: unless-stopped`). Weak fairness of `FeedReturns`: the streamer
reconnects for ever; without it nothing ends, because `_eval` looks at the expiry
only after it has a candle. Nothing is assumed of faults or of time.

`LiveSpec` of `Pipeline` is weak fairness of the steps of each worker: its loop
runs until it is stopped, every call in it returns or raises after a timeout, and
its container is restarted (`docker/workers-compose.yml`). Faults are finite in
number; producers are free to stop.

`LiveSpec` of `Acquisition` is weak fairness of the poll (`run` of the producers is
an endless loop with a sleep of an hour, and the container is restarted) and of the
judgement of each message (BaseWorker, above). An operator may switch the source
off; `PostsAreJudged` speaks of sources that stay on.

`Journey` has no fairness: that every scenario ends is `ExpiredScenarioEnds`.

### What the violated runs show

1. *Lost entry* (`main.py:553`). `_confirm_entry` sets `eval:entered` in Redis
   before the batch that activates the scenario and cancels its siblings. If the
   batch is lost, the scenario is later taken for entered but never for newly
   entered: it is never activated, blocks and cancels nobody, and is judged a win
   or loss with no entry in Postgres while a sibling enters. The docstring
   (29-31) promises a SETNX and immediate cancellation.
2. *Result and status apart* (`main.py:1048`). A sibling that runs out in the
   cycle of another's entry ends as `expired` in `scenarios` and as `cancelled` in
   `scenario_results`, with two closing events.
3. *Lost message* (`core/worker.py:118`). If the send to dlq-signals fails, the
   offset is not committed, but the loop goes on without seeking back, and the
   commit after the next message covers the failed one.
4. *Stored twice* (`final_store/main.py:84`). One fault between the transaction
   and the offset stores a second signal for the same trace_id and symbol, whose
   scenarios the evaluator follows as well.
5. *Target first* (`main.py:603`). A candle with both the stop and a target is a
   success. The docstring (25) checks the stop first, "unless TP was confirmed in a prior
   cycle"; a target confirmed in a prior cycle has ended the position, so the exception
   cannot be this one.
6. *Accepted and changed* (`final_store/repository.py:572` and `275`). An entry of
   `1,000` has "a defined entry point" for `_has_valid_entry` and is stored as NULL, a
   market order; a timeframe of `1M`, which the tables of gateway, final-store and
   evaluator list, is stored as `1m`.

## Theorems

| Theorem | Statement |
|---|---|
| `TypeCorrect` | `Spec => []TypeOK` |
| `Invariance` | `Spec => []IInv` |
| `OneEntered` | `Spec => []OneEnteredPerSignal` |
| `NoneWaits` | `Spec => []NoWaitingBesideEntered` |
| `SignalMirrors` | `Spec => []SignalMirrorsScenario` |
| `HistoryInvariance` | `Spec => []HInv` |
| `Audited` | `Spec => []EntryIsAudited` |
| `ResultFollows` | `Spec => []ResultFollowsStatus` |
| `NoOrphans` | `Spec => []NoOrphanKeys` |
| `OneTrade` | `MaxFaults = 0` implies `Spec => []OneTradePerSignal` |
| `OutcomeEntered` | `MaxFaults = 0` implies `Spec => []OutcomeHasEntry` |
| `Agree` | `MaxFaults = 0` implies `Spec => []StoresAgree` |
| `LogTold` | `MaxFaults = 0` implies `Spec => []EventsTellTheStory` |
| `Implements` | `MaxFaults = 0` implies `Spec => ImplementsLifecycle` |
| `OfficeTypes` | `OfficeSpec => []OfficeTypeOK` |
| `EndedIsKept` | `OfficeSpec => EndedMeanwhileIsKept` |
| `OneEnteredOffice` | `"running" \notin EditChoices` implies `OfficeSpec => []OneEnteredDespiteOffice` |
| `TypeCorrect` (pipeline) | `Spec => []TypeOK` |
| `InOrder` | `Spec => []StepsInOrder` |
| `Delivery` | `Spec => []NothingLost` |
| `EndsOnce` | `Spec => []EndsOncePerFault` |
| `TypeCorrect` (acquisition) | `Spec => []TypeOK` |
| `SentOnce` | `Spec => []SentOncePerFault` |
| `Swallowed` | `Spec => []FewSwallowed` |
| `FilterLag` | `Spec => FilterLagsBehind` |
| `TypeCorrect` (journey) | `Spec => []JourneyTypeOK` |
| `EntersAfterTimeframe` | `Spec => ConsolidationHeld` |
| `ExtremesAreKept` | `Spec => ExtremesCoverThePrices` |
| `RowsAreTradable` | `Spec => []TradableRows` |
| `RowsAreAsAnalysed` | `Spec => []StoredAsAnalysed` |
| `ExitsAreRight` | `Spec => ExitsFollowThePrices` |
| `SuccessPays` | `Spec => []SuccessIsProfit` |

### Evaluator

They hold for every set of scenarios and signals, any number of targets, outages,
lapses and, unless the hypothesis says otherwise, faults; the assumptions are
`ScenarioAssumption` (a scenario belongs to a signal) and `BoundAssumption` (bounds are naturals, `SlowCycles` positive).

`OneEntered`, `NoneWaits` and `SignalMirrors` speak of the scenarios and signals
tables only, and none of the three properties is
inductive: a commit applies what was decided from rows read earlier. `IInv` adds
what the loop remembers. `ReadTogether`: rows read are still running (nobody but
the batch ends a scenario), the active column has not changed, and a waiting row
comes with all running rows of its signal, because only full cycles read waiting
rows and a signal is stored with its scenarios at once. `EntriesAreNew`: an entry
of the batch was read as waiting, and no other entered scenario of its signal was
read or entered in this cycle. `BatchInv`: verdicts belong to evaluated rows and
`bSiblings` is what `SiblingCancel` computes. `CommitOne` reads the effect of the
transaction on one scenario off these facts, `EntryTakesSignal` says what an entry
does to its siblings, and `CommitInv` puts them together. All other steps leave
Postgres alone (`QuietStep`, `EndOfCycle`) or add rows nobody has read
(`StoreInv`). Redis does not occur in `IInv`: that is why the three properties
survive the loss of any key.

*Whatever fails* (`SignalEvaluatorHistory`). `NoOrphanKeys` speaks of the moment
between two cycles; inside a cycle keys are written before, and deleted before, the
transaction. `KeysInv` says when a scenario may have a key at all: it runs, the batch
has no verdict on it and it is not among the siblings to cancel. So a key written for a
scenario whose batch is lost is a key of a scenario that still runs, and recovery
brings keys back for positions only (`RecoverKeys`). `EntryIsAudited` compares the log
with the row and the active column; `BatchAudit` says that the lists of a batch agree
with each other (an entry event for each activation, an end for each verdict) and
`RowAudit` that the tables do, and a commit carries one into the other
(`CommitLog`, `CommitResult`). `RowAudit` is stronger than the property: it
also says that a scenario that waits has no entry in its log, which is why
the next one is the first. `DirtyInv` (a verdict or an entry puts the scenario into the
rows to be upserted) is what `ResultFollowsStatus` needs. Events of a log are counted
with `Cardinality`; `CountConcat` adds up the counts of two sequences.

*As long as nothing fails* (`SignalEvaluatorFaultFree`, hypothesis `MaxFaults = 0`;
the feed may stop as often and as long as it likes, and keys may run out). These
properties are false with one fault, as `evaluator_lost_entry` shows, so the hypothesis
is needed; states with entries, outages, keys that ran out and ends satisfy it (`evaluator_fault_free`). `FlagInv` says by how much Redis is ahead
of Postgres inside a cycle: by the entries of the batch, less its verdicts. With it an
entered flag is an entry that Postgres has or gets, and a missing one has run out, whence
`StoresAgree`, and a
win or loss is of a position (`WonInv`), whence `OutcomeHasEntry`. `TradedInv` carries
`OneTradePerSignal`: once a scenario was traded, none of its signal runs any more; the
entry that would break this was read as waiting, so its signal was read whole
(`EntryIsFirst`). For the refinement, `CommitRefines` shows that
each signal is taken by its one entry (`Enter`) or only loses scenarios to their end
(`Settle`), and that a signal without a scenario in the batch stutters;
`StoreRefines` is `Store`; all other steps leave the phases alone. `EventsTellTheStory`
speaks of every prefix of a log, and needs the batch: `StoryInv` states it of the log
followed by the events of the batch (`Log`), and bounds by the lapses of the scenario how
many gaps that sequence has open beyond the one its key stands for. `ToldConcat` and
`ToldIf` extend a story by events that may follow it, `EvalTold` does so in the order in which `_eval` appends
its events.

*With the panel* (`EvaluatorOfficeProofs`, any number of edits and faults;
`OfficeAssumption` adds that what the panel writes is an option of its form).
`ReadTogether` fails: an operator may end or delete a row that was read, and add a
sibling nobody read. `RowsStay` keeps what is needed of it. A row that is gone was
deleted, and its id does not come back, so no later row can be taken for it; any other
row has the active column it was read with, which the panel never writes; and what is
in a position beside a waiting row was read with it, because the panel opens no
position. With `EntriesAreNew` no batch then opens a second one (`OneEnteredOffice`).
`EndedIsKept` needs `TableInv` only, and holds whatever the edits write. It protects
the statuses that the UPDATE of the batch lists, of the form's only `expired`; a scenario
closed as `canceled`, `hit_tp` or `hit_sl` inside a cycle is overwritten by a verdict of
that cycle. A deleted
scenario with a verdict or an entry has a result row to write (`VerdictIsWritten`),
whose foreign key fails the batch.

The hypothesis of `OneEnteredOffice` is needed. With `EditChoices = {"running",
"canceled"}` and three operations TLC finds two positions: the operator closes a scenario
in its position, whose active column stays TRUE; a sibling added by hand enters;
the first one is edited back to `running`. An edit that leaves the status as it is
changes nothing in the model, so the hypothesis excludes revivals and
reopenings only. No run asks whether an ended scenario can be revived: one UPDATE of the
panel does it (`db.py:610`, whose form preselects `running`), although
`models/signals.py` calls the terminal statuses immutable.

The liveness of the loop (`ExpiredScenarioEnds`, `ExpiredEndsDespiteOffice`) stays
with TLC: it rests on fairness, and `ENABLED` is out of the prover's reach.

### Pipeline

They hold for every set of messages, every non-empty set of partitions and every
bound on the faults (`PipelineAssumption`). `TraceInv` gives `InOrder`: each copy
on a topic, and each message a handler works on, has the trace of that topic, so
the engine never finds a message with nothing left to do.

`NothingLost` is not inductive, because a commit is safe only if everything
before the position has ended. `IInv` says where each
accepted message is: it has ended (`Settled`, or `unsent`), a worker holds it, or
a copy lies beyond the offset from which its consumer goes on (`Offset`: the
position, or the committed offset while the worker is down). A worker commits
only when it holds nothing, so the commit passes none of these copies. A crash
turns a held message into a copy beyond the committed offset (`HeldUncommitted`).
The proof is split into what all steps keep (`LogStep`, `EndsStep`, `OffsetStep`),
the one message a step lets go of (`ReleaseStep`), and `PollStep`, the only step
that moves a consumer on.

*Nearly once*. `EndsOncePerFault` counts ends, but a message with two
copies is on its way to a second end before it has a first. `EndsInv` bounds `Total`, the
ends a message has plus those it can still come to if no more faults happen. A worker
contributes its `Load`: the copies its consumer will hand out (`Unread`), the message in
its hands, and the copies it has handed out without a commit (`Unsure`), which a crash or
a rebalance brings back. The delicate point is the last: while a worker is busy with a
message, one `Unsure` copy of it is not a duplicate yet, so `Extra` leaves one out, and the
fault that skips its commit, or brings it back, pays for it. `StepCosts` shows that no step but the
first send of a message raises `Total` by more than the faults it adds; there is a lemma on
the copies for each way in which a consumer moves (`PolledCopies`, `BackCopies`,
`CommittedCopies`, `SentCopies`). `OnlyAccepted` is needed for the first send: before
it the message is nowhere.

The liveness of the pipeline (`EverythingSettles`) is model-checked only.

### Acquisition

They hold for any number of items, any size of a page, any set of coins and any
bounds, for both ways of keying a mark (`ProducerAssumption`, `CoinAssumption`,
`CoinOfAssumption`).

`SentOncePerFault` bounds how often an item is sent, but not who pays for the next
send. `SentInv` does: every send is paid for by a lapse, a fault, a new name, or
by the mark of the item, which is set or on its way (`Paid`). A new name that no
poll has seen yet (`Fresh`) has not been spent. A crash between send and mark takes
`Paid` away and adds a fault.

`FewSwallowed` needs `MarkedWasSent`, which adds to the property that an item about
to be marked was sent, and `SeedInv`: items seeded so far are paid for by faults and
new names, but for one, and that one only as long as the init key of the present
name (or the poll that is about to set it) lives (`Kept`).

`FilterLagsBehind` follows from `LagInv`: where the copy and the table differ, the
coin was switched since the load, or the copy is the empty one of a start or a failed
load. Between two loads both sides age together (`OlderMonotone`).

`PostsAreJudged` is model-checked only.

### Journey

They hold for any set of positive prices that has a highest one (it bounds the
tolerance), any windows with `CandleWindow < BufferWindow <= PriceTTL`, writes less than
`BufferWindow` late (`FeedAssumption`), any positive interval, number of fast cycles and
timeframe (`MonitorAssumption`) and any replies: lists of any length, of items with any
number of scenarios, with any number of targets, each field a member of its type
(`ReplyAssumption`, `RawItem`). Nothing is assumed of how long a cycle or a restart
takes.
`EvaluateCases` takes `_eval` apart into a scenario that waits, enters or stays in
its position, on which all proofs split.

`ConsolidationHeld` needs `TimerInv`: the timer in Redis never claims more time than has
passed since the first of the closes in the zone (`zone`), because every loss only resets
it. For the extremes and the exits the argument is in two halves. What a cycle could
see, it sees: by `FreshInv` the history of the scores is the window of the set of ticks,
through writes, time and losses (`FreshQuote`, `FreshTick`, `FreshLost`), so that the
candle consists of what `Found` says (`FoundIsCandle`). What was seen is accounted for:
the row covers it (`CoverInv`), and while a position is open none of it has reached the
stop or a target (`SafeInv`); `SeenAfter` says what a cycle adds. The extremes in Redis
may be lost at any time; the row keeps its own, which LEAST and GREATEST never give up.

*The rows of a reply* (`IntakeProofs`). What the stages hold is in `StageInv`: the
items are those of the gateway, then those of them that are tracked, and the rows are
what `RowsOf` makes of these. The rest is about data, and since the lists are defined
by rank it takes no induction over them. `PlacesDiffer` and `Arranged` say that the
places of a finite set under a strict total order are `0 .. n - 1`, each taken once,
so that `Arrange` is a bijection that goes upwards in the order; from this follow
`PickIs` (a comprehension keeps the order and drops nothing else) and `OrderedIs` (the
sort of the targets is a permutation, nearest first). `RowIsSound` puts them through
the geometry: every row is `Tradable`.

`StoredAsAnalysed` compares two ends of the path: the places of the usable scenarios
in what the model printed, and the rows. Filters in between shift every index.
`Corresponds` gives a bijection between the usable places of the reply and those of
the items that final-store reads, which agrees with the order of reading, and
`PlaceMoves` says that such a bijection leaves the number of a place unchanged. So row
`k` is made of scenario `k` (`RowsComeFrom`). What it says is `RowRenders`. Its
targets are counted by `Draws`: a list that has the values of the members of a set,
each once; both filters and the sort keep that (`DrawsPick`, `DrawsAgain`).

The exits and the profit depend on the stored row: that targets and stop are on
their sides of the entry and are numbers. This is `RowsAreTradable`, and `RowInv`
carries it from the store to the trade.

## Not modelled, and the plan

In the order of importance:

1. `ClaudeGateway`: slots, subprocess and timeouts of the gateway. The ai-worker has
   one request at a time, so that the limit of ten is out of its reach.
2. In `Pipeline`: the replay of the panel, whose pipeline has a step nobody serves.
3. In `TradeMonitor`: drawdown and PnL (overwritten by each cycle, and after a restart
   computed from narrower extremes), data gaps, a best target kept over a commit
   that failed, and calls of Redis that fail inside a cycle. Two promises the code does
   not keep have no run of their own, because one step of the model shows each: a price
   that is in no window is missed, and a gap of the feed counts as time in the zone.
4. In `PriceFeed`: the order of the fallbacks and the symbols watched. A coin that is
   switched off loses its feed, and its open positions end only if it returns.
5. In `EvaluatorOffice`: what the form does to prices. `update_scenario` stores
   targets without the geometry and order of final-store, on which `TradableRows`
   and the evaluator's choice of the best target rest.
6. In `Producer`: edits that change the page of a source (another filter, another
   URL), whose items are then all new.
7. Proofs: every invariant and every safety property of a passing run is proved.
   Left to TLC are the liveness properties, `ExpiredScenarioEnds`,
   `ExpiredEndsDespiteOffice`, `EverythingSettles` and `PostsAreJudged`: TLAPS has no
   rules for fairness.

Left out for good: the public API (read-only queries, a cache and a rate limiter),
the telegram producer (it sends each message when it comes and keeps nothing: a
message whose send fails, or that comes while it is disconnected, is lost),
the table of telegram sources (no producer reads it), HTML templates,
authentication, bootstrap and logging (plain I/O), the LLM's answers.
