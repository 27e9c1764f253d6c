------------------------------- MODULE PoolIndex -------------------------------
(* The index of pools: what main finds at start-up and what the oracle adds     *)
(* while the bot runs (src/bot/src/main.rs, cfmm/dex.rs: sync_dex and           *)
(* get_all_pools, runner/oracles.rs: start_add_new_pools, runner/mod.rs).       *)
(*                                                                             *)
(* The node is external: blocks come, pools are created in them, a subscription *)
(* delivers the blocks that come after it in order, and a request for logs      *)
(* answers with what is in the chain at that moment.  Each factory's blocks are *)
(* asked for in ranges that overlap by one block, all of them at once.          *)
EXTENDS Integers, Sequences

CONSTANTS
    Pool,           \* pools with WETH on one side
    Factory,        \* dexes
    FactoryOf,      \* pool -> the dex whose event announces it
    Step,           \* blocks from one range to the next (the code: 100000)
    Interval,       \* INTERVAL_BLOCK_NEW_POOL
    Flaky,          \* whether a request for logs may fail
    Checked,        \* whether u64 subtraction panics on underflow (debug) or wraps
    MaxBlock,       \* bound: blocks
    MaxEpoch        \* bound: bots started by the main loop

ASSUME PoolIndexAssumption ==
    /\ FactoryOf \in [Pool -> Factory]
    /\ Step \in Nat \ {0} /\ Interval \in Nat \ {0}
    /\ Flaky \in BOOLEAN /\ Checked \in BOOLEAN
    /\ MaxBlock \in Nat /\ MaxEpoch \in Nat

Never == MaxBlock + 1   \* the block of a pool not created yet

VARIABLES
    head,           \* the latest block
    created,        \* pool -> the block it was created in
    initial,        \* main's pools, which every new bot starts with
    index,          \* all_pools of the bot
    epoch,          \* bots started after the first
    oracle,         \* where main, and then the oracle, is
    stream,         \* blocks the subscription holds
    since,          \* current_block_num when this subscription started
    counter,        \* blocks since the last sync
    from,           \* current_block_num: the block the next sync starts at
    latest,         \* the block the sync under way ends at
    todo,           \* the ranges still to be fetched: factory and first block
    fetched         \* the pools found by the sync under way

vars == <<head, created, initial, index, epoch, oracle, stream, since, counter, from,
          latest, todo, fetched>>

\* (creation_block..=current_block).step_by(step), for every dex
Ranges(first, last) ==
    Factory \X {f \in first..last : \E k \in 0..(last - first) : f = first + k * Step}

\* main has read the number of the latest block.
Init ==
    /\ head \in 0..MaxBlock
    /\ created \in [Pool -> (0..head) \cup {Never}]
    /\ initial = {} /\ index = {} /\ epoch = 0
    /\ oracle = "main"
    /\ stream = <<>> /\ since = 0 /\ counter = 0 /\ from = 0
    /\ latest = head
    /\ todo = Ranges(0, head)
    /\ fetched = {}
--------------------------------------------------------------------------------
\* sync_dex and get_all_pools

\* Mutants of Fetch: the first block of a range is left out; the address of the factory
\* is taken for the pool's.
FetchAfter(range) ==
    /\ oracle \in {"main", "sync"}
    /\ range \in todo
    /\ todo' = todo \ {range}
    /\ fetched' = fetched \cup
          {p \in Pool : /\ FactoryOf[p] = range[1]
                        /\ created[p] \in (range[2] + 1)..(range[2] + Step)
                        /\ created[p] # Never}
    /\ UNCHANGED <<head, created, initial, index, epoch, oracle, stream, since, counter,
                   from, latest>>

FetchFactory(range) ==
    /\ oracle \in {"main", "sync"}
    /\ range \in todo
    /\ todo' = todo \ {range}
    /\ fetched' = fetched \cup {range[1]}
    /\ UNCHANGED <<head, created, initial, index, epoch, oracle, stream, since, counter,
                   from, latest>>

\* A range that starts before the last block may reach beyond it; the node answers with
\* what it has.
Fetch(range) ==
    /\ oracle \in {"main", "sync"}
    /\ range \in todo
    /\ todo' = todo \ {range}
    /\ fetched' = fetched \cup
          {p \in Pool : /\ FactoryOf[p] = range[1]
                        /\ created[p] \in range[2]..(range[2] + Step)
                        /\ created[p] # Never}
    /\ UNCHANGED <<head, created, initial, index, epoch, oracle, stream, since, counter,
                   from, latest>>

\* The length of the progress bar, current_block - creation_block, may not exist.
Underflow == Checked /\ latest < from

\* An error in one task is the result of sync_dex, which the oracle unwraps.
SyncFails ==
    /\ oracle = "sync"
    /\ Underflow \/ (Flaky /\ todo # {})
    /\ oracle' = "dead"
    /\ UNCHANGED <<head, created, initial, index, epoch, stream, since, counter, from,
                   latest, todo, fetched>>

\* main: the pools for every bot there will be
MainSynced ==
    /\ oracle = "main" /\ todo = {}
    /\ initial' = fetched /\ index' = fetched /\ fetched' = {}
    /\ oracle' = "connect"
    /\ UNCHANGED <<head, created, epoch, stream, since, counter, from, latest, todo>>

\* Mutant of Synced: the next sync starts at the head of now.
SyncedToHead ==
    /\ oracle = "sync" /\ todo = {} /\ ~Underflow
    /\ index' = index \cup fetched /\ fetched' = {}
    /\ counter' = 0 /\ from' = head
    /\ oracle' = "await"
    /\ UNCHANGED <<head, created, initial, epoch, stream, since, latest, todo>>

\* start_add_new_pools: insert what was found, and start over.
Synced ==
    /\ oracle = "sync" /\ todo = {} /\ ~Underflow
    /\ index' = index \cup fetched /\ fetched' = {}
    /\ counter' = 0 /\ from' = latest
    /\ oracle' = "await"
    /\ UNCHANGED <<head, created, initial, epoch, stream, since, latest, todo>>
--------------------------------------------------------------------------------
\* start_add_new_pools

Subscribe ==
    /\ oracle = "connect"
    /\ oracle' = "number"
    /\ stream' = <<>>
    /\ UNCHANGED <<head, created, initial, index, epoch, since, counter, from, latest,
                   todo, fetched>>

\* counter = 0, get_block_number()
ReadNumber ==
    /\ oracle = "number"
    /\ oracle' = "await"
    /\ counter' = 0 /\ from' = head /\ since' = head
    /\ UNCHANGED <<head, created, initial, index, epoch, stream, latest, todo, fetched>>

Notice ==
    /\ oracle = "await" /\ stream # <<>>
    /\ stream' = Tail(stream)
    /\ counter' = counter + 1
    /\ IF counter + 1 = Interval
       THEN /\ oracle' = "sync"
            /\ latest' = Head(stream)
            /\ todo' = Ranges(from, Head(stream))
       ELSE UNCHANGED <<oracle, latest, todo>>
    /\ UNCHANGED <<head, created, initial, index, epoch, since, from, fetched>>

StreamEnds ==
    /\ oracle = "await" /\ stream = <<>>
    /\ oracle' = "connect"
    /\ UNCHANGED <<head, created, initial, index, epoch, stream, since, counter, from,
                   latest, todo, fetched>>

\* The mempool stream ends; the new bot has an index and an oracle of its own.
Restart ==
    /\ oracle # "main" /\ epoch < MaxEpoch
    /\ epoch' = epoch + 1
    /\ index' = initial
    /\ oracle' = "connect"
    /\ todo' = {} /\ fetched' = {}
    /\ UNCHANGED <<head, created, initial, stream, since, counter, from, latest>>
--------------------------------------------------------------------------------
\* A block, with the pools created in it.
NewBlock ==
    /\ head < MaxBlock
    /\ head' = head + 1
    /\ \E new \in SUBSET {p \in Pool : created[p] = Never} :
          created' = [p \in Pool |-> IF p \in new THEN head + 1 ELSE created[p]]
    /\ stream' = IF oracle \in {"number", "await", "sync"}
                 THEN Append(stream, head + 1) ELSE stream
    /\ UNCHANGED <<initial, index, epoch, oracle, since, counter, from, latest, todo,
                   fetched>>
--------------------------------------------------------------------------------
OracleStep == Subscribe \/ ReadNumber \/ Notice \/ StreamEnds

Over == head = MaxBlock /\ oracle = "dead" /\ epoch = MaxEpoch /\ UNCHANGED vars

Next ==
    \/ \E range \in todo : Fetch(range)
    \/ SyncFails \/ MainSynced \/ Synced
    \/ OracleStep \/ Restart
    \/ NewBlock
    \/ Over

Spec == Init /\ [][Next]_vars
--------------------------------------------------------------------------------
State == {"main", "connect", "number", "await", "sync", "dead"}

TypeOK ==
    /\ head \in Nat
    /\ created \in [Pool -> Nat]
    /\ initial \subseteq Pool /\ index \subseteq Pool /\ fetched \subseteq Pool
    /\ epoch \in Nat /\ oracle \in State /\ stream \in Seq(Nat)
    /\ since \in Nat /\ counter \in Nat /\ from \in Nat /\ latest \in Nat
    /\ todo \subseteq Factory \X Nat

\* A pool created while a subscription lasts is in the index once Interval more blocks
\* have been taken from the stream: nothing falls between two syncs, between two ranges,
\* or between a sync and the blocks that come while it runs.
Fresh ==
    oracle = "await" =>
        \A p \in Pool :
            /\ created[p] # Never
            /\ since <= created[p]
            /\ created[p] + Interval + Len(stream) <= head
            => p \in index

\* What every bot starts with is all the chain had when main looked, however the ranges
\* of the factories are interleaved with new blocks.
MainComplete ==
    [][oracle = "main" /\ oracle' # "main" =>
          \A p \in Pool : created[p] <= latest => p \in initial']_vars

\* bot/README.md:106, "add any new pools created": when the oracle has synced up to the
\* latest block, every pool there is is in the index.
EveryPoolAdded ==
    oracle = "await" /\ since < from /\ from = head =>
        \A p \in Pool : created[p] <= head => p \in index
--------------------------------------------------------------------------------
\* The inductive invariant behind Fresh and MainComplete.

Subscribed == oracle \in {"number", "await", "sync"}
Seen == head - Len(stream)      \* the last block taken from the stream

\* The stream holds the blocks up to the head, one after the other.
Chain ==
    /\ head <= MaxBlock
    /\ \A p \in Pool : created[p] = Never \/ created[p] <= head
    /\ Subscribed =>
          /\ Len(stream) <= head
          /\ \A i \in 1..Len(stream) : stream[i] = head - Len(stream) + i

\* The oracle is never further than a sync's worth of blocks from where the next starts.
Lag ==
    /\ oracle \in {"await", "sync"} => from <= head
    /\ oracle = "await" => counter < Interval /\ Seen <= from + counter
    /\ oracle = "sync" => latest = Seen
    /\ oracle = "main" => latest <= head /\ from = 0

\* Every pool of a sync under way has been found, or its range is still to be fetched.
Found ==
    oracle \in {"main", "sync"} =>
        \A p \in Pool :
            from <= created[p] /\ created[p] <= latest =>
                \/ p \in fetched
                \/ \E range \in todo : /\ range[1] = FactoryOf[p]
                                      /\ range[2] <= created[p]
                                      /\ created[p] <= range[2] + Step

Covered ==
    oracle \in {"await", "sync"} =>
        \A p \in Pool : since <= created[p] /\ created[p] < from => p \in index

IInv == TypeOK /\ Chain /\ Lag /\ Found /\ Covered
================================================================================
