---------------------------- MODULE BundleLifecycle ----------------------------
(* The life of a bundle, and the books the bot keeps about its own account     *)
(* (src/bot/src/runner/mod.rs, runner/bundle_sender.rs, runner/state.rs,       *)
(* main.rs).                                                                   *)
(*                                                                             *)
(* The bot tracks three facts about the chain and never reads them again after *)
(* start-up: the nonce of the searcher, the WETH balance of the contract, and  *)
(* the tokens the contract holds a speck of ("dust").  Every opportunity runs  *)
(* in a task of its own that reads each of them at a different moment; every   *)
(* relay gets the bundle from a task of its own, and the one named "flashbots" *)
(* brings the books up to date when the bundle has landed.  When the mempool   *)
(* stream ends the main loop builds a new bot with new books, while the tasks  *)
(* of the old one run on with the old books.                                   *)
(*                                                                             *)
(* The chain, the relays and the builders are external: a block may include    *)
(* one bundle that some relay got, that targets this block, and whose nonce is *)
(* the searcher's.  Amounts are in units of the revenue of a bundle.           *)
EXTENDS Naturals

CONSTANTS
    Bundle,         \* opportunities the mempool offers, one task each
    Token,          \* the tokens traded against WETH
    TokenOf,        \* bundle -> the token of its target pool that is not WETH
    V3Tokens,       \* bundle -> the tokens it sells to V3 pools
    Relay,          \* relay endpoints
    Flashbots,      \* the relay whose task keeps the books
    Flaky,          \* relays whose send_bundle may fail
    LossyWatch,     \* whether watching for inclusion may end in an error
    Revenue,        \* what a bundle adds to the contract's WETH
    StartWeth,      \* the contract's WETH at the beginning
    MaxBlock,       \* bound: blocks
    MaxEpoch        \* bound: bots started by the main loop

ASSUME BundleAssumption ==
    /\ TokenOf \in [Bundle -> Token]
    /\ V3Tokens \in [Bundle -> SUBSET Token]
    /\ Flashbots \in Relay
    /\ Flaky \subseteq Relay
    /\ LossyWatch \in BOOLEAN
    /\ Revenue \in Nat /\ StartWeth \in Nat
    /\ MaxBlock \in Nat /\ MaxEpoch \in Nat \ {0}

Epoch == 1..MaxEpoch

VARIABLES
    \* the chain
    head,           \* number of the latest block
    chainNonce,     \* transactions of the searcher
    chainWeth,      \* WETH held by the contract
    chainDust,      \* tokens the contract holds
    landed,         \* bundles included in a block
    \* the bots: one set of books per epoch
    epoch,          \* the bot that reads the mempool
    boot,           \* how far Bot::new is: "dust", "weth", "nonce", "oracle", "run"
    oracle,         \* latest block its oracle has seen
    nonce, weth, dust,
    \* the tasks
    task,           \* bundle -> the task that handles it
    relay           \* bundle -> relay -> the task that sends it there

chain == <<head, chainNonce, chainWeth, chainDust, landed>>
books == <<nonce, weth, dust>>
vars == <<head, chainNonce, chainWeth, chainDust, landed, epoch, boot, oracle,
          nonce, weth, dust, task, relay>>

Task == [st : {"unseen", "sim", "ready", "sent", "dropped"},
         epoch : Epoch, target : Nat, cap : Nat, hasDust : BOOLEAN,
         nonce : Nat, profit : Nat]
NewTask == [st |-> "unseen", epoch |-> 1, target |-> 0, cap |-> 0,
            hasDust |-> FALSE, nonce |-> 0, profit |-> 0]
RelayState ==
    {"idle", "sending", "watching", "lost", "credit", "adddust", "bump", "done"}

Init ==
    /\ head = 0 /\ chainNonce = 0 /\ chainWeth = StartWeth
    /\ chainDust \in SUBSET Token
    /\ landed = {}
    /\ epoch = 1 /\ boot = "dust" /\ oracle = 0
    /\ nonce = [e \in Epoch |-> 0]
    /\ weth = [e \in Epoch |-> 0]
    /\ dust = [e \in Epoch |-> {}]
    /\ task = [b \in Bundle |-> NewTask]
    /\ relay = [b \in Bundle |-> [r \in Relay |-> "idle"]]
--------------------------------------------------------------------------------
\* Bot::new and the main loop.

\* BotState::new: the dust, then the balance.
ReadDust ==
    /\ boot = "dust" /\ boot' = "weth"
    /\ dust' = [dust EXCEPT ![epoch] = chainDust]
    /\ UNCHANGED <<chain, epoch, oracle, nonce, weth, task, relay>>

ReadWeth ==
    /\ boot = "weth" /\ boot' = "nonce"
    /\ weth' = [weth EXCEPT ![epoch] = chainWeth]
    /\ UNCHANGED <<chain, epoch, oracle, nonce, dust, task, relay>>

\* SandwichMaker::new
ReadNonce ==
    /\ boot = "nonce" /\ boot' = "oracle"
    /\ nonce' = [nonce EXCEPT ![epoch] = chainNonce]
    /\ UNCHANGED <<chain, epoch, oracle, weth, dust, task, relay>>

\* BlockOracle::new, and run
ReadBlock ==
    /\ boot = "oracle" /\ boot' = "run"
    /\ oracle' = head
    /\ UNCHANGED <<chain, epoch, books, task, relay>>

\* The mempool stream ends: run returns and the main loop builds a new bot.
Restart ==
    /\ boot = "run" /\ epoch < MaxEpoch
    /\ boot' = "dust"
    /\ epoch' = epoch + 1
    /\ UNCHANGED <<chain, oracle, books, task, relay>>

\* start_block_oracle; it may lag, and skip blocks while it reconnects.
OracleUpdate ==
    /\ boot = "run" /\ oracle < head
    /\ oracle' \in (oracle + 1)..head
    /\ UNCHANGED <<chain, epoch, boot, books, task, relay>>
--------------------------------------------------------------------------------
\* The task of an opportunity.

\* The main loop takes a victim transaction and copies the oracle and the balance.
Arrive(b) ==
    /\ boot = "run" /\ task[b].st = "unseen"
    /\ task' = [task EXCEPT ![b].st = "sim", ![b].epoch = epoch,
                            ![b].target = oracle + 1, ![b].cap = weth[epoch]]
    /\ UNCHANGED <<chain, epoch, boot, oracle, books, relay>>

\* create_optimal_sandwich fails, finds no revenue, or finds a recipe; whether there
\* is dust is looked up afterwards.
Simulate(b) ==
    /\ task[b].st = "sim"
    /\ \/ task' = [task EXCEPT ![b].st = "dropped"]
       \/ task' = [task EXCEPT ![b].st = "ready",
                      ![b].hasDust = TokenOf[b] \in dust[task[b].epoch]]
    /\ UNCHANGED <<chain, epoch, boot, oracle, books, relay>>

\* Mutant of SendBundle: the nonce is asked from the node.
SendWithChainNonce(b) ==
    /\ task[b].st = "ready"
    /\ task' = [task EXCEPT ![b].st = "sent", ![b].nonce = chainNonce]
    /\ relay' = [relay EXCEPT ![b] = [r \in Relay |-> "sending"]]
    /\ UNCHANGED <<chain, epoch, boot, oracle, books>>

\* send_bundle up to the relays: the nonce is read now, the bribe may not cover the
\* fees, and what is left of the revenue after fees is the profit.
SendBundle(b) ==
    /\ task[b].st = "ready"
    /\ \/ /\ task' = [task EXCEPT ![b].st = "dropped"]
          /\ UNCHANGED relay
       \/ \E p \in 0..Revenue :
            /\ task' = [task EXCEPT ![b].st = "sent", ![b].profit = p,
                                    ![b].nonce = nonce[task[b].epoch]]
            /\ relay' = [relay EXCEPT ![b] = [r \in Relay |-> "sending"]]
    /\ UNCHANGED <<chain, epoch, boot, oracle, books>>

RelaySend(b, r) ==
    /\ relay[b][r] = "sending"
    /\ \/ relay' = [relay EXCEPT ![b][r] = "watching"]
       \/ r \in Flaky /\ relay' = [relay EXCEPT ![b][r] = "done"]
    /\ UNCHANGED <<chain, epoch, boot, oracle, books, task>>

\* Mutants of Watch: the task of every relay keeps the books; a bundle counts as
\* included once its block is there.
WatchByAll(b, r) ==
    /\ relay[b][r] = "watching"
    /\ head >= task[b].target
    /\ relay' = [relay EXCEPT ![b][r] = IF b \in landed THEN "credit" ELSE "done"]
    /\ UNCHANGED <<chain, epoch, boot, oracle, books, task>>

WatchHopefully(b, r) ==
    /\ relay[b][r] = "watching"
    /\ head >= task[b].target
    /\ relay' = [relay EXCEPT ![b][r] = IF r = Flashbots THEN "credit" ELSE "done"]
    /\ UNCHANGED <<chain, epoch, boot, oracle, books, task>>

\* pending_bundle.await resolves once the target block is there, and only the task of
\* flashbots does anything with the result, after it has posted it to Discord.
Watch(b, r) ==
    /\ relay[b][r] = "watching"
    /\ head >= task[b].target
    /\ relay' = [relay EXCEPT ![b][r] =
                    IF r = Flashbots /\ b \in landed THEN "credit" ELSE "done"]
    /\ UNCHANGED <<chain, epoch, boot, oracle, books, task>>

\* Or it ends in an error, which counts as not included; the relay has the bundle.
WatchFails(b, r) ==
    /\ LossyWatch
    /\ relay[b][r] = "watching"
    /\ relay' = [relay EXCEPT ![b][r] = "lost"]
    /\ UNCHANGED <<chain, epoch, boot, oracle, books, task>>

\* Three locks, one after the other: the balance, the dust unless the recipe was
\* made with dust, the nonce.
Credit(b, r) ==
    /\ relay[b][r] = "credit"
    /\ weth' = [weth EXCEPT ![task[b].epoch] = @ + task[b].profit]
    /\ relay' = [relay EXCEPT ![b][r] = IF task[b].hasDust THEN "bump" ELSE "adddust"]
    /\ UNCHANGED <<chain, epoch, boot, oracle, nonce, dust, task>>

\* Mutant of AddDust: the wrong thing is recorded.
AddWrongDust(b, r) ==
    /\ relay[b][r] = "adddust"
    /\ dust' = [dust EXCEPT ![task[b].epoch] = @ \cup {b}]
    /\ relay' = [relay EXCEPT ![b][r] = "bump"]
    /\ UNCHANGED <<chain, epoch, boot, oracle, nonce, weth, task>>

AddDust(b, r) ==
    /\ relay[b][r] = "adddust"
    /\ dust' = [dust EXCEPT ![task[b].epoch] = @ \cup {TokenOf[b]}]
    /\ relay' = [relay EXCEPT ![b][r] = "bump"]
    /\ UNCHANGED <<chain, epoch, boot, oracle, nonce, weth, task>>

\* Mutants of Bump: the update is lost; only one of the two transactions counts.
BumpLost(b, r) ==
    /\ relay[b][r] = "bump"
    /\ relay' = [relay EXCEPT ![b][r] = "done"]
    /\ UNCHANGED <<chain, epoch, boot, oracle, books, task>>

BumpOne(b, r) ==
    /\ relay[b][r] = "bump"
    /\ nonce' = [nonce EXCEPT ![task[b].epoch] = @ + 1]
    /\ relay' = [relay EXCEPT ![b][r] = "done"]
    /\ UNCHANGED <<chain, epoch, boot, oracle, weth, dust, task>>

Bump(b, r) ==
    /\ relay[b][r] = "bump"
    /\ nonce' = [nonce EXCEPT ![task[b].epoch] = @ + 2]
    /\ relay' = [relay EXCEPT ![b][r] = "done"]
    /\ UNCHANGED <<chain, epoch, boot, oracle, weth, dust, task>>
--------------------------------------------------------------------------------
\* The chain.

\* Builders see what some relay accepted; both transactions of the bundle carry the
\* searcher's nonces, and the bundle is for this block only.
Includable(b) ==
    /\ \E r \in Relay : relay[b][r] \in {"watching", "lost"}
    /\ b \notin landed
    /\ task[b].target = head + 1
    /\ task[b].nonce = chainNonce

EmptyBlock ==
    /\ head < MaxBlock
    /\ head' = head + 1
    /\ UNCHANGED <<chainNonce, chainWeth, chainDust, landed, epoch, boot, oracle,
                   books, task, relay>>

\* A sandwich on a V2 pool leaves dust of its token (DustKept of SandwichSim).  A V3 pool
\* is sold what the encoding of the amount keeps, which may be all the contract holds, the
\* dust of another sandwich with it, or leave something.
Include(b) ==
    /\ head < MaxBlock
    /\ Includable(b)
    /\ head' = head + 1
    /\ chainNonce' = chainNonce + 2
    /\ chainWeth' = chainWeth + Revenue
    /\ \E left \in SUBSET V3Tokens[b] :
          chainDust' = ((chainDust \cup {TokenOf[b]}) \ V3Tokens[b]) \cup left
    /\ landed' = landed \cup {b}
    /\ UNCHANGED <<epoch, boot, oracle, books, task, relay>>
--------------------------------------------------------------------------------
BotStep == ReadDust \/ ReadWeth \/ ReadNonce \/ ReadBlock \/ OracleUpdate
TaskStep(b) == Simulate(b) \/ SendBundle(b)
RelayStep(b, r) ==
    RelaySend(b, r) \/ Watch(b, r) \/ Credit(b, r) \/ AddDust(b, r) \/ Bump(b, r)

\* The bound on blocks is reached and every relay's task has ended.
Over ==
    /\ head = MaxBlock
    /\ \A b \in Bundle, r \in Relay : relay[b][r] \in {"idle", "watching", "lost", "done"}
    /\ UNCHANGED vars

Next ==
    \/ BotStep \/ Restart
    \/ \E b \in Bundle : Arrive(b) \/ TaskStep(b) \/ Include(b)
    \/ \E b \in Bundle, r \in Relay : RelayStep(b, r) \/ WatchFails(b, r)
    \/ EmptyBlock
    \/ Over

\* The runtime schedules every task, and blocks keep coming.
Fairness ==
    /\ WF_vars(BotStep)
    /\ \A b \in Bundle : WF_vars(TaskStep(b))
    /\ \A b \in Bundle, r \in Relay : WF_vars(RelayStep(b, r))
    /\ WF_vars(EmptyBlock \/ \E b \in Bundle : Include(b))

Spec == Init /\ [][Next]_vars /\ Fairness
--------------------------------------------------------------------------------
TypeOK ==
    /\ head \in Nat /\ chainNonce \in Nat /\ chainWeth \in Nat
    /\ chainDust \subseteq Token /\ landed \subseteq Bundle
    /\ epoch \in Epoch /\ oracle \in Nat
    /\ boot \in {"dust", "weth", "nonce", "oracle", "run"}
    /\ nonce \in [Epoch -> Nat]
    /\ weth \in [Epoch -> Nat]
    /\ dust \in [Epoch -> SUBSET Token]
    /\ task \in [Bundle -> Task]
    /\ relay \in [Bundle -> [Relay -> RelayState]]

\* The bot never signs with a nonce the chain has not reached, which no block could
\* include: the nonce is counted up only for bundles that landed, once for each,
\* although ten tasks watch every bundle (bundle_sender.rs, `relay_name == "flashbots"`).
NonceNotAhead == \A e \in Epoch : nonce[e] <= chainNonce

\* The balance a bot works with is never more than the contract holds.
TrackedBalanceBacked == \A e \in Epoch : weth[e] <= chainWeth

\* No frontrun is sized beyond the contract's WETH: the balance copied when the victim
\* arrived is still there when the bundle could land, however many blocks, credits and
\* restarts lie between.
Affordable ==
    \A b \in Bundle : task[b].st \in {"sim", "ready", "sent"} => task[b].cap <= chainWeth

\* The contract holds dust of the token, or a bundle that landed sold it to a V3 pool.
Backed(t) == t \in chainDust \/ \E b \in landed : t \in V3Tokens[b]

\* Dust is in the books, and a recipe is made in the belief that the contract holds dust
\* of its token (which skips the overpaid bribe), only where it is so, unless a V3 sandwich
\* of the same token has landed: the books are never told of what it sold.
DustBacked ==
    /\ \A e \in Epoch : \A t \in dust[e] : Backed(t)
    /\ \A b \in Bundle : task[b].hasDust => Backed(TokenOf[b])

\* At most one landed bundle of a bot is not yet in its books: the nonce that has not
\* been counted up keeps every other out, so that the three updates of one bundle never
\* interleave with those of another.
Unaccounted(b) == b \in landed /\ nonce[task[b].epoch] <= task[b].nonce
OneAtATime ==
    \A b, c \in Bundle :
        Unaccounted(b) /\ Unaccounted(c) /\ task[b].epoch = task[c].epoch => b = c

\* Every bundle that lands gets into the books of the bot that sent it.
EventuallyAccounted == \A b \in Bundle : b \in landed ~> ~Unaccounted(b)

\* In the end the bot that runs signs with the nonce the chain expects, so that its
\* bundles can land.
NonceCatchesUp == <>[](boot = "run" /\ nonce[epoch] = chainNonce)

--------------------------------------------------------------------------------
\* The inductive invariant behind the safety properties.

\* What has landed was sent; only the task of flashbots keeps books, and only for what
\* landed; a task exists once its bot has read its books from the chain.
Provenance ==
    /\ \A b \in Bundle :
          /\ b \in landed \/ (\E r \in Relay : relay[b][r] # "idle") => task[b].st = "sent"
          /\ task[b].st # "unseen" => \/ task[b].epoch < epoch
                                      \/ task[b].epoch = epoch /\ boot = "run"
          /\ \A r \in Relay : relay[b][r] \in {"credit", "adddust", "bump"} =>
                r = Flashbots /\ b \in landed
    /\ boot = "run" \/ \A b \in Bundle : task[b].epoch = epoch => task[b].st = "unseen"

\* A landed bundle used up the nonce it was signed with, and as long as it is not
\* accounted for, its bot stays at that nonce.
NonceBooks ==
    /\ NonceNotAhead
    /\ \A b \in Bundle : task[b].st = "sent" => task[b].nonce <= nonce[task[b].epoch]
    /\ \A b \in landed :
          /\ task[b].nonce + 2 <= chainNonce
          /\ relay[b][Flashbots] # "done" => nonce[task[b].epoch] = task[b].nonce
    /\ \A b, c \in landed : task[b].nonce = task[c].nonce => b = c

\* The contract has the profit of a landed bundle before the bot adds it.
WethBooks ==
    /\ TrackedBalanceBacked
    /\ Affordable
    /\ \A b \in Bundle : task[b].profit <= Revenue
    /\ \A b \in landed :
          relay[b][Flashbots] \in {"idle", "sending", "watching", "credit"} =>
              weth[task[b].epoch] + task[b].profit <= chainWeth

DustBooks ==
    /\ DustBacked
    /\ \A b \in landed : Backed(TokenOf[b])

IInv == TypeOK /\ Provenance /\ NonceBooks /\ WethBooks /\ DustBooks
================================================================================
