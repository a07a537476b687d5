----------------------------- MODULE Acquisition -----------------------------
(***************************************************************************)
(* How an item of a source becomes a signal or is given up: the producer   *)
(* sends it once and marks it for ever, the ai-worker lets it through or   *)
(* drops it by a list of coins that may be out of date.  An item that is   *)
(* dropped never comes back.  The topics in between are in Pipeline; here  *)
(* every message that is sent arrives once.                                *)
(***************************************************************************)
EXTENDS Producer, TrackedCoins

CONSTANT CoinOf   \* CoinOf[i]: the coin of the analysis in item i

ASSUME CoinOfAssumption == CoinOf \in [Item -> Coin]

VARIABLES
    judged,   \* judged[i]: messages about i that the ai-worker has filtered
    fate      \* fate[i]: what became of the last of them

vars == <<source, coins, judged, fate>>

Init ==
    /\ ProducerInit /\ CoinsInit
    /\ judged = [i \in Item |-> 0]
    /\ fate = [i \in Item |-> "open"]

\* _filter_by_tracked_coins for a message about item i.
Filtered(i) ==
    /\ judged[i] < sent[i]
    /\ judged' = [judged EXCEPT ![i] = @ + 1]
    /\ fate' = [fate EXCEPT ![i] = IF CoinOf[i] \in cache' THEN "kept" ELSE "dropped"]

Judge(i) ==
    /\ Cached \/ Load
    /\ Filtered(i)
    /\ UNCHANGED source

JudgeBlindly(i) ==
    /\ LoadFails /\ Fault
    /\ Filtered(i)
    /\ UNCHANGED <<posted, ready, seen, at, next, bottom, sent, seeded, lapses, editable>>

WorkerRestarts ==
    /\ RestartWorker /\ Fault
    /\ UNCHANGED <<posted, ready, seen, at, next, bottom, sent, seeded, lapses, editable, judged, fate>>

\* The switches of the coins page, one by one, for a selection or for all.
CoinsPage == \E S \in SUBSET Coin, on \in BOOLEAN : SetActive(S, on)

Next ==
    \/ ProducerNext /\ UNCHANGED <<coins, judged, fate>>
    \/ (Tick \/ CoinsPage) /\ UNCHANGED <<source, judged, fate>>
    \/ \E i \in Item : Judge(i) \/ JudgeBlindly(i)
    \/ WorkerRestarts

Spec == Init /\ [][Next]_vars

\* The loop of the producer polls for ever, the worker handles what arrives.
LiveSpec ==
    /\ Spec
    /\ WF_vars(PollStep /\ UNCHANGED <<coins, judged, fate>>)
    /\ \A i \in Item : WF_vars(Judge(i))

-----------------------------------------------------------------------------
(* Properties *)

\* Types; the process looks at items that exist.
TypeOK ==
    /\ posted \in 0 .. LastItem /\ ready \in BOOLEAN
    /\ seen \subseteq Item /\ seeded \subseteq Item
    /\ at \in {"asleep", "seeding", "walking", "marking"}
    /\ next \in 0 .. LastItem /\ bottom \in 0 .. LastItem
    /\ at \in {"walking", "marking"} => bottom \in Item
    /\ at = "marking" => next \in Item
    /\ sent \in [Item -> Nat] /\ judged \in [Item -> Nat]
    /\ fate \in [Item -> {"open", "kept", "dropped"}]
    /\ active \in BOOLEAN /\ renamed \in BOOLEAN
    /\ renames \in 0 .. MaxRenames /\ lapses \in 0 .. MaxLapses /\ faults \in 0 .. MaxFaults
    /\ tracked \subseteq Coin /\ cache \subseteq Coin
    /\ age \in Ages /\ calm \in Ages /\ span \in [Coin -> Ages]

\* Sending and marking are two calls: an item is sent again only because of a fault or
\* because its mark ran out while it was still on the page, and once for each.  The
\* http_api producer sends the whole page again under a new name, the scraper does not.
SentOncePerFault ==
    \A i \in Item : sent[i] <= 1 + lapses + faults + (IF KeyedByName THEN renames ELSE 0)

\* An item that is marked was sent, or was taken for the newest one of a source that
\* seemed new; the latter happens once, and once more for each new name, loss of keys
\* or crash.
FewSwallowed ==
    /\ \A i \in seen : sent[i] > 0 \/ i \in seeded
    /\ Cardinality(seeded) <= 1 + faults + renames

\* The filter is at most CacheTTL behind the panel: what it lets through was tracked,
\* and what it drops was not, at some time within CacheTTL, unless the worker was
\* started or failed to load the list within that time.
FilterLagsBehind ==
    [][\A i \in Item : judged'[i] # judged[i] =>
        LET c == CoinOf[i] IN
        /\ fate'[i] = "kept" => c \in tracked \/ span[c] <= CacheTTL
        /\ fate'[i] = "dropped" => c \notin tracked \/ span[c] <= CacheTTL
                                    \/ calm' <= CacheTTL]_vars

\* Once a source stays switched on every item is judged in the end, unless it was
\* swallowed at a start or left the page before a poll.
PostsAreJudged ==
    <>[]active => \A i \in Item : posted >= i ~>
        (judged[i] > 0 \/ i \in seeded \/ i + PageSize <= posted)
=============================================================================
