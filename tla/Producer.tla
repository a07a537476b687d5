------------------------------ MODULE Producer ------------------------------
(***************************************************************************)
(* A polled source and its producer (services/producers/scraper and        *)
(* http_api, which have the same loop): the page of the newest items, the  *)
(* marks of the items that were seen, kept in Redis, and process_source.   *)
(*                                                                         *)
(*   - Items are numbered in the order in which they appear; a page shows  *)
(*     the newest first.                                                   *)
(*   - An operator may rename the source, to a name never used before, and *)
(*     switch it off and on; deleting it and adding it again by its name   *)
(*     is the same, as its keys stay in Redis.                             *)
(*   - A poll loads the source and fetches its page in one step: an edit   *)
(*     or an item in between is one after or before both.                  *)
(*   - A poll that finds nothing or cannot fetch the page changes nothing  *)
(*     and is left out.                                                    *)
(*   - A mark lives 30 days, much longer than an item stays on most pages; *)
(*     when a mark lapses is free.                                         *)
(***************************************************************************)
EXTENDS Integers, FiniteSets

CONSTANTS
    LastItem,    \* bound: items 1 .. LastItem appear
    PageSize,    \* items on a page
    KeyedByName, \* http_api: the key of a mark holds the name of the source
    MaxRenames,  \* bound: new names
    MaxLapses,   \* bound: marks that run out
    MaxFaults    \* bound: crashes, failing calls, evictions

ASSUME ProducerAssumption ==
    /\ LastItem \in Nat /\ PageSize \in Nat \ {0}
    /\ KeyedByName \in BOOLEAN
    /\ MaxRenames \in Nat /\ MaxLapses \in Nat /\ MaxFaults \in Nat

Item == 1 .. LastItem

VARIABLES
    posted,   \* the newest item
    ready,    \* scraper:init:{name}
    seen,     \* items with a mark scraper:seen:{url}
    at,       \* where process_source is
    next,     \* the item it looks at
    bottom,   \* the last item of the page it has fetched
    sent,     \* sent[i]: messages about item i in engine-signals
    seeded,   \* history: items marked without being sent
    active,   \* is_active of the source
    renamed,  \* its name has changed since a poll has loaded it
    renames, lapses, faults

editable  == <<active, renamed, renames>>
source == <<posted, ready, seen, at, next, bottom, sent, seeded, lapses, faults, editable>>

ProducerInit ==
    /\ posted = 0 /\ ready = FALSE /\ seen = {}
    /\ at = "asleep" /\ next = 0 /\ bottom = 0
    /\ sent = [i \in Item |-> 0] /\ seeded = {}
    /\ active \in BOOLEAN /\ renamed = FALSE
    /\ renames = 0 /\ lapses = 0 /\ faults = 0

\* Mutant of Oldest: only the newest item is looked at.
OldestNewest(top) == top

\* The last item on the page whose first one is top.
Oldest(top) == IF top > PageSize THEN top - PageSize + 1 ELSE 1

Fault == faults < MaxFaults /\ faults' = faults + 1

\* The source publishes an item.
Post ==
    /\ posted < LastItem
    /\ posted' = posted + 1
    /\ UNCHANGED <<ready, seen, at, next, bottom, sent, seeded, lapses, faults, editable>>

\* The operator edits, deletes or adds the source.
EditSource ==
    /\ active' \in BOOLEAN
    /\ \/ UNCHANGED <<renamed, renames>>
       \/ renames < MaxRenames /\ renames' = renames + 1 /\ renamed' = TRUE
    /\ UNCHANGED <<posted, ready, seen, at, next, bottom, sent, seeded, lapses, faults>>

-----------------------------------------------------------------------------

\* Mutant of Listed: an empty page is taken for one with an item.
ListedAny == TRUE

\* "if not items: return"
Listed == posted > 0

\* What is found under the present name.
Marks   == IF renamed /\ KeyedByName THEN {} ELSE seen
IsReady == ready /\ ~renamed

\* A poll loads the source; if its init key is missing, it marks the newest item ...
SeedMark ==
    /\ at = "asleep" /\ active /\ Listed /\ ~IsReady
    /\ seen' = Marks \cup {posted}
    /\ seeded' = seeded \cup {posted}
    /\ ready' = FALSE /\ renamed' = FALSE
    /\ at' = "seeding"
    /\ UNCHANGED <<posted, next, bottom, sent, lapses, faults, active, renames>>

\* ... and sets the key.
SeedReady ==
    /\ at = "seeding"
    /\ ready' = TRUE
    /\ at' = "asleep"
    /\ UNCHANGED <<posted, seen, next, bottom, sent, seeded, lapses, faults, editable>>

\* A poll fetches the page, and walks through it from the newest item on.
Fetch ==
    /\ at = "asleep" /\ active /\ Listed /\ IsReady
    /\ next' = posted /\ bottom' = Oldest(posted)
    /\ at' = "walking"
    /\ UNCHANGED <<posted, ready, seen, sent, seeded, lapses, faults, editable>>

Walking == at = "walking" /\ next >= bottom

Skip ==
    /\ Walking /\ next \in seen
    /\ next' = next - 1
    /\ UNCHANGED <<posted, ready, seen, at, bottom, sent, seeded, lapses, faults, editable>>

Send ==
    /\ Walking /\ next \notin seen
    /\ sent' = [sent EXCEPT ![next] = @ + 1]
    /\ at' = "marking"
    /\ UNCHANGED <<posted, ready, seen, next, bottom, seeded, lapses, faults, editable>>

\* Mutant of Mark: the item is not marked.
MarkForgotten ==
    /\ at = "marking"
    /\ next' = next - 1
    /\ at' = "walking"
    /\ UNCHANGED <<posted, ready, seen, bottom, sent, seeded, lapses, faults, editable>>

Mark ==
    /\ at = "marking"
    /\ seen' = seen \cup {next}
    /\ next' = next - 1
    /\ at' = "walking"
    /\ UNCHANGED <<posted, ready, bottom, sent, seeded, lapses, faults, editable>>

Sleep ==
    /\ at = "walking" /\ next < bottom
    /\ at' = "asleep" /\ next' = 0 /\ bottom' = 0
    /\ UNCHANGED <<posted, ready, seen, sent, seeded, lapses, faults, editable>>

-----------------------------------------------------------------------------
(* Faults *)

\* Mutant of SendFails: the item is marked all the same.
SendFailsMarked ==
    /\ Walking /\ next \notin seen /\ Fault
    /\ seen' = seen \cup {next}
    /\ next' = next - 1
    /\ UNCHANGED <<posted, ready, at, bottom, sent, seeded, lapses, editable>>

\* The article cannot be fetched, or the send raises, after it took effect or before.
SendFails ==
    /\ Walking /\ next \notin seen /\ Fault
    /\ \E arrived \in 0 .. 1 : sent' = [sent EXCEPT ![next] = @ + arrived]
    /\ next' = next - 1
    /\ UNCHANGED <<posted, ready, seen, at, bottom, seeded, lapses, editable>>

MarkFails ==
    /\ at = "marking" /\ Fault
    /\ next' = next - 1
    /\ at' = "walking"
    /\ UNCHANGED <<posted, ready, seen, bottom, sent, seeded, lapses, editable>>

\* The container stops, or Redis fails outside the try block of an item.
Crash ==
    /\ at # "asleep" /\ Fault
    /\ at' = "asleep" /\ next' = 0 /\ bottom' = 0
    /\ UNCHANGED <<posted, ready, seen, sent, seeded, lapses, editable>>

\* Redis evicts keys or starts empty.
RedisLoses ==
    /\ Fault
    /\ seen' \in SUBSET seen
    /\ ready' \in {ready, FALSE}
    /\ UNCHANGED <<posted, at, next, bottom, sent, seeded, lapses, editable>>

\* The 30 days of a mark are over.
Lapse(i) ==
    /\ i \in seen /\ lapses < MaxLapses
    /\ seen' = seen \ {i}
    /\ lapses' = lapses + 1
    /\ UNCHANGED <<posted, ready, at, next, bottom, sent, seeded, faults, editable>>

PollStep == SeedMark \/ SeedReady \/ Fetch \/ Skip \/ Send \/ Mark \/ Sleep

SourceFaults == SendFails \/ MarkFails \/ Crash \/ RedisLoses

ProducerNext == Post \/ EditSource \/ PollStep \/ SourceFaults \/ \E i \in Item : Lapse(i)

=============================================================================
