# rusty-kongming: models and proofs

TLA+ models of the bot in `src/bot`, the TLC configurations that check them on
small instances, and TLAPS proofs of what matters most for every instance.
`PROJECT.json` lists components, runs, mutants, the map from definitions to
source lines, findings, hazards and theorems.

To check: `tlc -config MCForkBackend.cfg MCForkBackend` (and so on, one
configuration per run); `tlapm ForkBackendProofs.tla` (and so on, one proof
module per component).

## 1. The system

The bot watches the mempool for swaps that move the price of a pool of WETH and
another token, simulates what it would gain by trading before and after them, and
sends what pays as a bundle to several relays.

```
 main ── sync_dex ──────────────► all_pools ◄── start_add_new_pools  (PoolIndex)
  │                                  │
  └─ loop: Bot::new, run ── mempool ─┴─► task per victim transaction
        │  BotState, SandwichMaker        │ state diff -> touched pools
        │                                 │ fork -> ForkFactory      (ForkBackend)
        │                                 │ search for the best input (IntervalSearch)
        │                                 │ pack the calldata, simulate in a sandbox
        │                                 │                  (Calldata, SandwichSim)
        │                                 ├─► price it, send_bundle ─► relays
        │                                 │                  (Fees, BundleLifecycle)
        │  block oracle                   └─► add_recipe ─► backlog   (MegaSandwich)
        └─ mega sandwich oracle ◄──────────────────────────────┘
```

### Components, their state and their operations

| component | state | operations | what makes it correct |
|---|---|---|---|
| forked database (`forked_db/*`) | per sandbox: a local database and a blocking call; shared: channel, `queued_requests`, `pending_requests`, three maps of listeners, the cache | `basic`, `storage`, `block_hash` through `Database` and `DatabaseRef`, `commit`, `new_sandbox_fork`, drop; `poll`, `on_request` | every read ends; one fetch per key at a time; all sandboxes see one chain; local writes stay; the thread ends |
| books and bundles (`runner/bundle_sender.rs`, `runner/state.rs`, `runner/mod.rs`, `main.rs`) | nonce, WETH balance, dust, each behind a lock of its own; a task per opportunity and a task per relay | `Bot::new`, `run`, `send_bundle`, `update_weth_balance`, `add_dust`, restart of the bot | what the books say is on the chain, at any moment and however many tasks are under way; they catch up |
| backlog and mega sandwich (`runner/bundle_sender.rs`, `runner/oracles.rs`) | `pending_sandwiches` under a fair lock | `add_recipe`, clear, `make_mega_sandwich` with one task per pool | no recipe is used twice, nothing is torn, nobody waits forever |
| pool index (`cfmm/dex.rs`, `main.rs`, `runner/oracles.rs`) | `all_pools`, counter of blocks, first block of the next sync | `sync_dex`, `get_all_pools`, `start_add_new_pools` | no pool falls between two ranges or two syncs |
| search (`simulate/make_sandwich.rs`) | range, counter, best input | `juiced_quadratic_search` | ends, stays within the balance, finds the optimum |
| simulation (`simulate/make_sandwich.rs`, amounts of `utils/tx_builder/*`) | transaction environment of the EVM, nonces, what the contract holds | `sanity_check`, `sanity_check_multi`, `sanity_check_mega`, `evaluate_sandwich_revenue` | the recipe it reports can be sent and paid; it panics for known reasons only |
| block oracle (`types/block.rs`, `start_block_oracle`) | latest and next block | update per block | part of BundleLifecycle: it lags and skips |
| fees (`calculate_bribe_for_max_fee`, `calculate_next_block_base_fee`) | none | arithmetic | agrees with EIP-1559; what is offered is earned |
| calldata (`utils/tx_builder/sandwich/*`, `utils/encode_packed.rs`) and the contract that reads it (`src/contract/src/sandwich.huff`) | none; memory and place in the calldata | one payload per swap, strung together; one routine per kind of swap, the V3 callback | two programs that share no code agree on every byte; all swaps or none |
| inspectors (`simulate/inspectors/*`) | opcode counters, lists of calls, access list | one callback per opcode and call | a verdict that agrees with its description. Not modelled |
| state diffs (`utils/state_diff.rs`) | none | trace of the victims -> cached database, touched pools | the initial cache is part of ForkBackend, the rest not modelled |
| BrainDance (`src/contract/src/BrainDance.sol`), owner's routines of the contract | tokens | swaps during the search, withdrawals | not modelled |
| alerts, configuration, ABI, relay clients | none | input and output | not modelled |

### How they interact, and what is hard

- **Threads and channels.** A sandbox blocks a thread on a oneshot channel while
  `GlobalBackend`, a hand-written future on a thread of its own, is polled when
  its waker is called. A lost wake-up or a forgotten listener blocks a worker of
  the runtime forever.
- **Tasks that copy and act later.** The balance is copied when the victim
  arrives, the dust looked up after the simulation, the nonce read before
  signing, and all three updated after inclusion under three different locks.
- **Outcomes that do not come, or come too late.** Relays refuse, watching ends in
  an error, a bundle lands after the bot that sent it has been replaced.
- **Restarts.** The main loop builds a new bot when the stream of transactions
  ends. Nothing is persisted; tasks of the old bot run on.
- **Panics as control flow.** `unwrap` in spawned tasks, some with a lock in
  their hands; `try_join_all` that returns at the first panic.
- **One environment for many transactions.** The simulations write the fields of
  the next transaction over those of the one before.
- **Two programs with one format.** The bot writes jump labels, memory offsets and
  fields; the contract jumps to the byte it reads, knows the offsets by heart and
  uses its memory again from swap to swap without clearing all of it.
- **U256 arithmetic** that panics below zero, rounding to four bytes, cut points
  that coincide.

`PROJECT.json` lists these hazards one by one, at their lines, with the property
that covers each or the reason why none does.

## 2. The modules

Amounts and keys are members of small sets, actions are the code between two
points where something else can happen. Mutants are operators named in a comment
that starts with "Mutant", placed before what they mutate; no specification uses
them.

### ForkBackend and ReadThrough

`ForkBackend` has one process per sandbox (`ForkDB`, or the `ForkFactory` they
are cloned from), the backend thread, and the node.

| code | model |
|---|---|
| `ForkDB::basic/storage/block_hash`, `DatabaseRef` twins | `ReadKey` with mode `"keep"` or `"ref"`; `FirstAsk` says which key is asked for first: `Database::storage` always asks for the account |
| `rx.recv()` returns | `Receive`: record the answer, go on to the slot or end |
| `commit`, `insert_account_storage` of the factory | `Write` |
| clone, drop of a sender | `Fork`, `Drop` |
| the three loops of `poll` | phases `drain` (`OnRequest`, `Drained`), `recv` (`Take`, `Close`, `NothingIncoming`), `poll` (`PollOne`, `PollEnd`), and `parked` (`Wake`) |
| `on_request`, `request_account*`, `request_hash` | `FromCache`, `Join` (Occupied), `Open` (Vacant) |
| three arms of a ready future | `PollReady` (`Inserted`, `Notify`), `PollFailed` |
| the provider's request | `Respond`: any value of `Chain`, or an error |

Requests and futures are kept as sets, which lets them be taken in any order; the
code takes requests in theirs, so every behaviour of the code is one of the
model. The node may return different values for one key at different times: the
bot forks at a block that does not exist yet.

`ReadThrough` is the abstract promise: a key has one settled value, a question is
answered with it or with an error, and an error settles nothing. `Implements` is
its specification under the mapping `asked <- want`, `answer <- reply`,
`settled <- cache`.

### BundleLifecycle

Chain (head, nonce of the searcher, WETH and tokens of the contract), one set of
books per bot that the main loop starts ("epoch"), a task per opportunity, a task
per relay and bundle.

| code | model |
|---|---|
| `BotState::new`, `SandwichMaker::new`, `BlockOracle::new` | `ReadDust`, `ReadWeth`, `ReadNonce`, `ReadBlock`: four requests, at four moments |
| end of the mempool stream | `Restart` |
| `start_block_oracle` | `OracleUpdate` |
| head of a task in `run` | `Arrive`: target block and balance are copied |
| `create_optimal_sandwich`, `has_dust` | `Simulate` |
| `send_bundle` up to the loop over relays | `SendBundle`: the nonce is read, the bundle signed |
| a relay's task | `RelaySend`, `Watch`, `WatchFails`, and for the relay named "flashbots" `Credit`, `AddDust`, `Bump`, one per lock |
| builders | `Include`, `EmptyBlock`: external; a bundle is for one block and needs the nonce |

A block includes at most one bundle: a second one would need the nonce after the
first, which a bot has only after the block is over, and its target would be
later.

What a landed bundle does to the contract's tokens depends on its pool. A sandwich on
a V2 pool leaves dust of its token (`DustKept` of SandwichSim). What one sells to a V3
pool is the balance rounded down to units of 10^13, or to four bytes and a shift
(`v3.rs:121-146`, `236-238`): that may be all the contract holds, the dust of an
earlier sandwich with it. `V3Tokens` says which tokens a bundle sells that way, and
`Include` may take any of them off the contract's dust. The bot records dust whatever the pool
(`bundle_sender.rs:383`), so that `DustBacked` says: what is in the books, or was read
from them, is there, unless a landed bundle has sold that token to a V3 pool.

Two assumptions about the chain: a bundle that lands earns what its simulation said
(swaps on V2 pools ask for fixed amounts and revert otherwise; on a V3 pool another
transaction before the bundle could change it), and the owner withdraws nothing
(`recover_weth` is not modelled). `TrackedBalanceBacked` and `Affordable` rest on both.

### MegaSandwich

The lock is the queue of those who asked for it, as tokio's lock is fair. The
oracle clears the backlog, sleeps, takes the lock, spawns a task per pool, joins
them (`GiveUp` as soon as one has panicked), merges those that pay, simulates.
With `Panics` every unwrap may fail; a panic releases the lock (`Leave`), as
tokio's lock is not poisoned, and kills the oracle where it is the oracle's own.

### PoolIndex

Ranges of blocks that overlap by one (`Ranges`), one request each in any order,
blocks and pools coming meanwhile; `main`'s sync and the oracle's are the same
actions in two states. `Underflow` is the subtraction for the progress bar, which
panics in a build with checks. The panics of the oracle's own requests, to connect,
to subscribe and to read the block number (`oracles.rs:66-75`), are not modelled as
deaths: an oracle that never comes to its first sync adds nothing, and neither `Fresh`
nor `MainComplete` speaks of it.

### IntervalSearch

A step is a turn of the loop. The market is any function from inputs to revenue,
because the properties must not depend on what simulations answer. The four ways
of shrinking are four actions; U256 subtraction below zero is the state
`"panic"`.

### SandwichSim

The four simulations share their control and differ in named places: how amounts
are rounded (`Paid`, `Sold`, `AskedIn`, `AskedOut`), whether a rejected victim ends
the function, whether an error is an unwrap, whether reverted victims are
filtered. `env` keeps what one transaction leaves to the next. What a pool offers,
what a token keeps of a transfer, whether a victim is refused, runs or reverts, whether a
query of a balance fails and whether the inspection finds fault are nondeterministic,
and so is the gas a transaction uses. Access lists are left out.

| code | model |
|---|---|
| `encode_four_bytes` | `UnitOf`: the least power of 256 that leaves 2^31 at most; `Four`, `Decode` |
| `encode_weth`, `encode_intermediary_token`, `encode_intermediary_with_dust` | `EncodeWeth`, `Sold`, `WithDust` |
| what the calldata makes the contract pay and ask for, and the ether sent along | `Purchase`, `Sale`; `trade` keeps the last one, whether or not it went through |
| the balance query, the transactions of a simulation | `StartBalance`, `Frontrun`, `MeatRuns`, `MeatRejected`, `TokenBalance`, `Backrun`, and what each does when it fails |
| what revm checks first | `Payable` (fees), `Funded` (the sender's ether against gas limit, price and value); `Charged` is what is left |
| `inspect_ref(..).unwrap()`, `meat.gas_price.unwrap()` | `Unsent`, `MeatPanics` |
| the recipe and its price | `Report`; `Price`, which asks `Offered` of Fees |

In the single purchase on a V2 pool the contract stores the amount with the bytes of
the block number behind it (finding 4), so what it asks for is one of
`Decode(out)..Decode(out) + UnitOf(out) - 1` (`AskedIn`). Where that is more than the
pool gives, the pool refuses and the simulation ends in an error: `Honoured` says by
how much the calldata may ask too much, and that it never does otherwise.

`PanicsOnly` names all the ways in which a simulation panics, for these are
`unwrap`s that look as if they could not fail: the first execution of the
frontrun or backrun is refused because the searcher cannot pay `700000` times the
base fee and the value, or because a victim of a mega sandwich has left its tip in the
environment; the node fails during it; a victim has neither a type nor a gas price; a
V2 check has no token to take one unit from. Taken for granted are the environment
variables (read at start-up), amounts that fit 128 bits and four bytes with a shift
(`as_u128`, `v2.rs:249`), pairs that answer `getReserves` with three words
(`helpers.rs:163-174`), a searcher that is not a contract, and calldata that
is paid for by the gas limit.

The main loop passes on only victims whose `max_fee_per_gas` reaches the base fee,
and the node fills that field for transactions of type 2; victims of the old kind, or
without a type, are modelled because the functions handle them, for other callers and
other nodes. A transaction of type 1 has no `max_fee_per_gas`: the simulations give it
the price 0 and revm refuses it, which `MeatRejected` allows for every victim.

### Fees

Operators and no state: the next base fee (`NextBaseFee`, and the rule of EIP-1559,
`ProtocolBaseFee`), the bribe and the maximum fee (`Bribe`, `MaxFee`, `Offered`), and
what a bundle costs and brings (`Cost`, `Profit`). The random share of the revenue is
an argument. `SandwichSim` extends it; the first part of `SandwichSimProofs` states
what holds of every value.

### Calldata

The bot's half is `Packed`, from the swaps it wants to bytes; the contract's half runs
on these bytes. A byte is a record of what it is a byte of (the third byte of the pool
of the second swap, the number 41), so that a property can tell every byte from every
other while addresses and amounts stay abstract. Memory is a sequence of 249 such
bytes.

| code | model |
|---|---|
| jump labels of `SandwichLogicV2::new`, `SandwichLogicV3::new`, `_find_swap_type(_multi)` | `V2SwapType`, `V3SwapType` |
| `create_payload_*` | `V2Payload`, `V3Payload`, `FourBytes` |
| payloads of a batch, one after the other | `Concat`, `Packed` |
| `MAIN` and its gates | `Gate`: the jump label's place among the gates |
| `v2_*`, `multi_call_v2_*` | `V2Transfer` (the result is dropped), `V2Swap` |
| `v3_*`, `multi_call_v3_*`, the callback | `V3Swap`, `Callback` |
| "clean memory", the length that is added, `multi_call_next` | `Cleaned`, `PayloadLength`, `Goto` |
| the check of the block number | `WrongBlock`, `GetOut`, `CheckBlock` |

What the transaction is meant to do (`Meant`) is written in the terms of the tokens'
and pools' ABI and uses neither the bot's offsets nor the contract's. That the caller
is the searcher is taken for granted. Pools and tokens succeed or fail as they like.

## 3. The runs

| run | question | answer |
|---|---|---|
| `fork` | in any interleaving, can a sandbox be forgotten, a key be fetched twice, two sandboxes disagree, the thread end too early, a slot make up an empty account? Does every read end, does the thread end, does the backend implement `ReadThrough`? | no; yes |
| `fork_stale` | does what a sandbox committed stay? | no: finding 1 |
| `bundle_safety` | with flaky relays, lost watches and a restart, can nonce, balance or dust be ahead of the chain, can a frontrun be sized beyond the balance? | no, but for dust after a sandwich on a V3 pool |
| `bundle_liveness` | do the books of one bot with reliable watching catch up? | yes |
| `bundle_restart` | and after a restart? | no: finding 2 |
| `mega` | can a recipe be used twice, or a big sandwich be made of a batch that is torn? Does everybody get the lock? | no; yes |
| `pools` | can a pool created during a subscription be missed? Is main's index complete? | no; yes |
| `pools_gap` | is every pool found that is created at any time? | no: finding 3 |
| `search` | does the search end, stay in range, find the optimum of a concave revenue? | yes |
| `sim` | can what the simulation asks for be paid, does dust stay, can the recipe be replayed, when does it panic, is what is offered for it earned? | yes, but for the bytes behind a single V2 purchase; yes, on V2; yes; in five cases; yes |
| `calldata` | do the contract's calls agree with what the bot means, byte for byte, for any string of swaps? Are all made or none, and when does it revert? | yes; yes; when a swap fails or the block is wrong |
| `calldata_single` | is the amount asked of a V2 pair always the decoded one? | no: finding 4 |

### Bounds

- ForkBackend: the factory and one sandbox, two values of the node. Two askers
  are what joining, disagreement and the last drop need; a third would only join
  once more. Keys are an account that only the node knows and its slot, which is
  where a slot can come before its account, and an account that the factory
  injects. Block hashes and accounts of the state diff take the same branches; the
  proofs have them, and lift the other bounds.
- BundleLifecycle: two opportunities on one token, in the safety run one of them on a
  V3 pool, two relays (one that keeps the books, one that does not), two bots, two
  blocks (three in `bundle_restart`): two bundles can land for two bots, one after the
  other, and the one on the V3 pool may sell the dust of the one before. `Revenue` is 1,
  so a profit is none or all of it. The two opportunities differ in their pool, so there
  is no symmetry between them.
- MegaSandwich: three recipes for two pools (two of one pool), three blocks, so
  that a block waits in the stream while the oracle works on the one before.
- PoolIndex: two factories with a pool each, ranges of two blocks, a sync every
  second block, six blocks, one restart: three syncs, each with a boundary
  between ranges.
- IntervalSearch: every function with values 0 and 1 for each balance to 12, and
  tents to 28, three parts. `Base` is 7, so that the tolerance is zero for the small
  balances, as it is in the code for a few thousand wei, and more than one for the
  largest. The code's constants (15 parts, 10 turns, a millionth) need balances
  beyond enumeration; the bound of `NoUnderflow` is tight for the small ones.
- SandwichSim: up to two victims of two senders with two nonces and four kinds
  of fees, none at all among them; a sender with less ether than the gas limit costs with
  the value, with just enough for one transaction, and with plenty; units 2 and 3, a byte scaled to 2 and four bytes to 4, so that every
  rounding loses something for some amount and nothing for another. Gas 1 or 2 at a
  base fee of 1 and shares of 2/4 and 3/4 give offers that are declined, that are just
  covered and that leave a profit.
- Calldata: transactions of up to three swaps, every mix of V2 and V3 and of the
  place of WETH, shifts of 0 and 28, the least and the greatest that fit an amount.
  What one swap leaves in memory can reach the next, or the one after it if the next
  does not write there: three swaps show both.

`CHECK_DEADLOCK FALSE` is said only of `search` and `sim`, where a call returns. Everywhere else the system runs on, or an explicit disjunct says
when the bounds have been reached and only stuttering is left.

### Fairness

- `ForkBackend`: weak fairness of the backend's thread (the operating system
  schedules it), of the return from `rx.recv` once there is an answer, and of the
  node, which answers or whose connection errs. None on reads, writes and drops,
  which are the caller's choice.
- `BundleLifecycle`: weak fairness of every task's steps (the runtime schedules
  them), among them the post to Discord, which is assumed to return; and blocks
  keep coming up to the bound. None on the mempool, on the builders' choice to
  include a bundle, or on restarts.
- `MegaSandwich`: weak fairness of every task. None on blocks, on the end of the
  stream, or on whether a recipe is found.
- `IntervalSearch`: the loop runs.
- `PoolIndex`, `SandwichSim` and `Calldata` have safety properties only, and no
  fairness.

### Findings

1. `fork_stale`: `Database::storage` fetches the account again before a slot and
   inserts it over the one that a transaction of the same sandbox committed
   (`fork_db.rs:92-101`), although `basic` takes a local account as found.
2. `bundle_restart`: bundles of the old bot that land after the new bot has read
   the nonce are counted in the old bot's books only; the new one signs with a
   used nonce from then on (`main.rs:124`, `bundle_sender.rs:373-396`).
3. `pools_gap`: pools created between main's sync and the oracle's subscription,
   or between two subscriptions, are never looked for (`oracles.rs:74-75`).
4. `calldata_single`: `v2_input0` and `v2_input1` store the 31 bytes behind the memory
   offset without a mask (`sandwich.huff:592-594`, `647-649`). If the amount is
   shifted, the first bytes of the block number that follows it end up in its low
   bytes, where the bot counts with zeros (`v2.rs:30`). The pair is asked for a little
   more than was decoded, and refuses if that is more than it gives. The multi
   routines mask. SandwichSim has these bytes in `AskedIn`: such a frontrun brings more
   than the bot asks for, or fails.

The trace of finding 1 has the factory as its actor; a sandbox forked from it takes
the same steps, and is the one that has `Database::storage`.

Two more disagreements are visible in the models and have no run of their own. The
recipe of a mega sandwich keeps the victims that reverted, whose filter is computed
and dropped (`make_sandwich.rs:911`, `988`; `Report` of SandwichSim); nothing uses the
result. And `send_bundle` logs "Adding new dust" for every included bundle
(`bundle_sender.rs:383-386`), also for one on a V3 pool that left none: the next recipe
for that token is priced as if the dust were there. `DustBacked` holds only because it
makes an exception of such bundles.

## 4. The proofs

One module per component, named after what it proves about, and `NaturalLemmas` with
what several of them use of the natural numbers. All have the same shape: an inductive
invariant `IInv`, the lemma that it holds at first, a lemma per action (or group of
actions), the lemma that every step keeps it, `Invariance`, and one theorem per
property that follows from it. Only the theorems about `Fees`, which has no state,
stand by themselves, at the beginning of `SandwichSimProofs`. The only assumptions are
the named `ASSUME`s of the modules, which say what the constants are. Induction over numbers is done with sets of numbers: one that is not empty has a
least element (`Least`), and one with 0 and the successor of each of its elements is
all of them (`Induction`). Both come from the library's theorem on well-founded
relations and need no operator as a parameter.

- **ForkBackendProofs** (any number of sandboxes, accounts, slots, numbers and
  values). `IInv` says where the request of a blocked sandbox is (`Placed`), that
  the opener of a fetch listens to it and a key with listeners is not cached
  (`Fetching`), that an account is cached before its slots (`AccountsFirst`) and
  that everything read is what the cache holds (`FromOneCache`). `AgreedReads`
  alone is not inductive: it needs that a cached key is never fetched again, which
  is `Fetching`; `NoPhantomAccount` needs that nobody asks for a slot whose account
  is unknown. `NoOrphan`, `OneFetchPerKey`, `AgreedReads`, `NoPhantomAccount` and
  `ClosedQuietly` follow, and `Refinement`: `Spec => Implements`.
- **BundleLifecycleProofs** (any number of opportunities, tokens, relays, blocks
  and bots, any balance and revenue). The heart is `NonceBooks`: a landed bundle
  used up its nonce, its bot stands at that nonce until the task of flashbots has
  ended, and no two landed bundles share a nonce. With that the profit still to
  be added (`WethBooks`) is always covered. `NonceNotAhead`,
  `TrackedBalanceBacked`, `Affordable`, `DustBacked` and `OneAtATime` follow, with
  restarts and lost watches. `DustBacked` is an invariant for any mixture of V2 and V3
  pools: a token that is not `Backed` any more was sold to a V3 pool by a bundle that
  has landed, and what has landed stays.
- **MegaSandwichProofs** (any number of recipes, pools and blocks): the oracle
  holds the lock while it works (`Locked`), and what it cleared is all that was
  used (`Cleared`). `NeverTwice` and `BatchIsBacklog` follow. `AllOrNothing` rests on
  a second invariant (`Tried`): every pool with recipes has a task, and once the
  sandwiches are put together every task has ended without a panic; nobody can add a
  recipe for a pool without a task in between, because of the lock.
- **PoolIndexProofs** (any step, interval and number of pools and blocks): the
  stream is the gap between the last block seen and the head (`Chain`), a sync
  never lags more than an interval (`Lag`), every pool of the range is found or its
  range is still to be fetched (`Found`, which rests on a bound of quotient and
  remainder), and everything before the next sync is in the index (`Covered`).
  `Fresh` and `MainComplete` follow.
- **IntervalSearchProofs** (any market, number of parts, of turns and tolerance):
  `WithinBalance`, from a lemma that a cut of a range lies in the range (`CutInRange`);
  `NoUnderflow` and `NearOptimal`, of which neither is inductive. For `NoUnderflow` the
  invariant counts the turns (`Barren`): while no revenue has been found, the range is no
  shorter than what `Need` demands for the turns that are left, and after `GiveUp` turns
  the search ends before it subtracts. `Need` is a constant of the module, the length a
  range must have to be cut down to its first third that many times more, and the
  assumption on it says just that; the smallest such function gives 29523 wei for the 15
  parts and 10 turns of the code. A turn with revenue never subtracts from zero, because
  the last of the highest cuts is taken, and the cut above it is a larger input. For
  `NearOptimal` the invariant says where an optimal input can be (`Kept`): it is the best
  cut so far or still in the range. That rests on concavity: slopes fall (`Slopes`), so
  that an optimum lies no more than a part away from the best cut (`OptimumNearBest`),
  and a market in which all cuts bring nothing brings nothing anywhere (`NothingFound`).
  `RangeShrinks` is the action property behind termination: every turn after which the
  search goes on leaves a shorter range.
- **Fees**, in SandwichSimProofs (any fee, gas limit, revenue and share; U256 is taken as the natural
  numbers): the expected base fee never underflows (`BaseFeeFalls`) and is that of
  EIP-1559 except for a rise of less than one, which the rule rounds up to one and the
  bot down to none (`BaseFeeExpected`); an offer costs no more than the revenue plus
  what is overpaid for dust, and pays the base fee (`CostCovered`); the profit that
  goes into the books is between nothing and the revenue (`ProfitWithinRevenue`),
  which is what BundleLifecycle assumes of it. A gas limit of two is assumed, as the
  code divides by half of it.
- **SandwichSimProofs** (any victims, amounts, units and fees): the lemmas say that
  `encode_four_bytes` finds a unit (`UnitChosen`, from the well-foundedness of the
  natural numbers) and what it keeps of an amount (`FourBytesBounds`: no more than
  there was, nothing only of nothing, and with one unit less there is something left;
  this needs that a unit one byte smaller would not have done). The invariant adds
  that the tip in the environment is some victim's (`TipOfMeat`), that a check that
  goes on to its backrun has passed a query with the same tip (`ReadyToSell`), that
  there is no tip before the first victim (`NoTipYet`), and
  that the revenue is what the contract has gained (`RevenueGained`). With `NoTipYet`
  a frontrun is refused for want of ether only, and with `ReadyToSell` the backrun of a
  check is, which leaves a tip as a reason to panic to mega sandwiches. A sender that
  can pay for the gas limit can pay for the gas (`ChargedRight`). `Honoured`,
  `DustKept`, `PanicsOnly` and `FeesEarned` follow. For `Replayable` the invariant says
  that a sender's nonce is the number of its victims that have passed, that each victim
  had the nonce its sender had then (`NonceReached`), and that a simulation past its
  victims has run all of them (`AllRun`). The recipe is the enumeration of the places
  that passed in their order: that there is one (`IncreasingExists`), that it reaches
  every such place (`Places`), and that it keeps the number of earlier victims of a
  sender (`GoodReplays`) are lemmas by induction over the number of places.

- **CalldataProofs** (any number of swaps in a transaction, any shift of an amount):
  the contract adds up lengths of payloads that another program packs, so the proof
  puts a layout beside the calldata. `ConcatLayout` says where each of any number of
  sequences lies in their concatenation, `PayloadLayout` how long each of the eight
  kinds of payload is and where it has the block number, `PackedLayout` that the
  calldata is these payloads one after the other (`Ends`, behind the check of the
  block if there is one), and `LabelLeads` that the byte the bot writes is the gate of
  a routine for this swap, although the two sides number their labels differently. The
  invariant says that the contract works on the payload of one swap, has made two calls
  for each swap before it, and is in a routine that fits the swap (`Place`); that every
  call but a payment has succeeded unless the transaction reverts (`Outcome`); and that
  in the wrong block nothing is called (`Early`). `AllOrNothing` alone is not inductive:
  a swap that ends a byte away from `Ends` would still keep it until the next jump.
  `TypeOK` needs that every place an amount is stored at leaves room for a word, for
  whatever byte of the calldata the place is taken from (`StoreAmountKeeps`), and that a
  load does not go past the zeros behind the calldata (`LoadByte`). `AllSwapsOrNone`,
  `RevertReasons` and `TypeCorrect` follow.

  `CallsAsMeant` is about every byte that is sent. The lemmas for it say what a write
  changes and what it leaves (`Put`, `Keeps`), what memory holds after the writes of
  each routine against the bytes that are meant (`PaidAsMeant`, `SwappedAsMeant`,
  `V3ArgumentsMeant`, `CallbackMeant`), and where the parts of a payload are
  (`Works`). The invariant it adds is `Answered`, every call so far is the one that is
  meant for its place (`Wanted`), and `Blanks`, a routine finds memory clear behind
  byte 36, and behind byte 132 once the payment of a V2 swap is made. `Answered` alone
  is not inductive, because no routine writes all the words it sends: it needs the zeros
  that the one before it has left. They are there because `Cleaned` clears what each
  routine that goes on has written behind byte 36 (`V2CleanedClears`,
  `V3CleanedClears`). `multi_call_v3_input1` clears nothing in 36..68, and need
  not: its arguments have zeros there, which is a part of `V3ArgumentsMeant`. The
  bytes left out (`Spilled`) end the amount that a single purchase asks of a V2 pair:
  when it is shifted they are those of the block number, as its routine does not mask
  what it loads.

Every invariant that a passing run checks is stated by a theorem. Only model-checked is
all liveness (`EveryReadEnds`, `ThreadEnds`, `EventuallyAccounted`, `NonceCatchesUp`,
`EveryAddEnds`, `OracleReturns`, `SearchEnds`), which needs fairness and enabledness.

## 5. What is not modelled

- The end of the process: `main` unwraps the result of `run`, and nothing runs
  after that.
- Reorganisations of the chain: the code does not look for them.
- The runtime's worker threads: `thread::sleep` in the mega sandwich oracle and
  the blocking reads of sandboxes occupy one each.
- A node whose head moves between the requests for two keys: `AgreedReads` speaks
  of one key at a time.
- The contract's check of its caller, its routines for the owner (`seppuku`,
  `recover_eth`, `recover_weth`), and `BrainDance.sol`.
- The inspectors (`is_sando_safu.rs`, `access_list.rs`): counters over the opcodes of
  one execution, with nothing beside it. That the code flags a contract which uses
  `GAS` less often than `CALL`, where its comment asks for the other way round
  (`is_sando_safu.rs:62`), can be read off the line. SandwichSim lets an inspection
  fail at any time.
- `extract_pools` and the union of the diffs of several victims: which of two diffs is
  right depends on an order of victims that the bot does not know.
- Amounts of 2^151 and more, for which `encode_four_bytes` overflows (`v2.rs:249`): the
  reserves of a V2 pair are below 2^112.
- Decoding of logs and configuration, alerts, construction of clients, generated
  bindings, vendored libraries and the node tests.

## 6. Plan

Built so far, in this order: ForkBackend and ReadThrough; BundleLifecycle;
MegaSandwich; PoolIndex; IntervalSearch; SandwichSim; Fees and its part in
SandwichSim; Calldata; the proof modules.

Left:

1. A node in ForkBackend whose answers depend on its head, for what a sandbox sees
   of two keys when the fork block does not exist yet.
2. `SandwichSim`: whether each victim runs with the fee it was signed with (the
   priority fee that an earlier victim leaves behind).
3. `BrainDance.sol` beside the contract of `Calldata`: that the search and the check
   of one recipe trade the same amounts.
