------------------------------ MODULE SandwichSim ------------------------------
(* One simulation of a sandwich in a sandbox                                   *)
(* (src/bot/src/simulate/make_sandwich.rs: sanity_check, sanity_check_multi,   *)
(* sanity_check_mega, evaluate_sandwich_revenue; simulate/helpers.rs;          *)
(* utils/tx_builder/sandwich/v2.rs and v3.rs for the amounts), and the fees    *)
(* that are offered for its recipe (Fees).                                     *)
(*                                                                             *)
(* All four run frontrun, victims ("meats") and backrun in one EVM, and write  *)
(* the fields of each transaction into the same environment: a field that is   *)
(* not written again is the one of the transaction before.  The EVM refuses a  *)
(* transaction whose nonce is not the sender's next one, one that pays less    *)
(* than the base fee or tips more than it pays, and one whose sender cannot    *)
(* pay for its gas limit and what it sends along.  What the senders of the     *)
(* victims and of the queries have is not followed: they may always be refused.*)
EXTENDS Fees, Sequences, FiniteSets

CONSTANTS
    Meat,           \* transactions of the mempool: who, nonce, tip, cap
    None,           \* no tip: a transaction of the old kind; no nonce to check; no cap:
                    \* neither a type nor a gas price
    MaxMeats,       \* bound: transactions in one sandwich
    BaseFee,        \* base fee of the next block
    StartWeth,      \* what the contract holds when the simulation starts
    Optimal,        \* inputs that the search may have come up with
    Dust,           \* what the contract may hold of the other token
    Out,            \* what a pool may offer for a swap
    WethUnit,       \* get_weth_encode_divisor (the code: 100000)
    TokenUnit,      \* divisor of encode_intermediary_token (the code: 10^13)
    Funds,          \* ether that the sender of the frontrun and the backrun may have
    GasLimit,       \* gas limit of the frontrun and of the backrun (the code: 700000)
    Gas,            \* what a frontrun or a backrun may use
    Unit, Byte,     \* encode_four_bytes divides by the least unit, a power of Byte, that ...
    Fits,           \* ... leaves at most this (the code: 256^0 .. 256^15, 256 and 2^31)
    Largest         \* largest amount of a token (a pool's reserves are below 2^112)

ASSUME SimAssumption ==
    /\ \A m \in Meat :
          /\ m.nonce \in Nat /\ m.cap \in Nat \cup {None} /\ m.tip \in Nat \cup {None}
          /\ m.tip # None => m.cap # None /\ m.tip <= m.cap
    /\ None \notin Int
    /\ MaxMeats \in Nat /\ BaseFee \in Nat \ {0}
    /\ StartWeth \in Nat /\ Optimal \subseteq 1..StartWeth
    /\ Funds \subseteq Nat /\ GasLimit \in Nat /\ Gas \subseteq 1..GasLimit
    /\ WethUnit \in Nat \ {0} /\ TokenUnit \in Nat \ {0}
    /\ Byte \in Nat \ {0, 1} /\ Fits \in Nat /\ Fits >= Byte
    /\ Unit \subseteq Nat \ {0} /\ \A u \in Unit : u = 1 \/ \E v \in Unit : u = Byte * v
    /\ Largest \in Nat /\ \E u \in Unit : Largest \div u <= Fits
    /\ StartWeth <= Largest /\ Dust \subseteq 0..Largest /\ Out \subseteq 0..Largest
    /\ \A d \in Dust, o \in Out : d + o <= Largest

Sender == {m.from : m \in Meat}

VARIABLES
    flow,           \* "single", "multi", "mega", "evaluate": the function that runs
    variant,        \* pool_variant: "V2" or "V3"
    node,           \* whether the node answers what the sandbox asks it
    meats,          \* ingredients.meats
    optimal,        \* frontrun_in, as the function was given it
    pc,             \* where the function is, or how it ended
    env,            \* evm.env.tx: gas_price, gas_priority_fee, nonce
    nonce,          \* sender -> next nonce in the sandbox
    good,           \* is_meat_good
    funds,          \* ether of the searcher, or of the controller of BrainDance
    weth, token,    \* what the contract holds
    trade,          \* the last swap, refused ones too: whether it buys the token, what the
                    \* contract has, pays, may be given and asks for, and the ether sent
    recipe,         \* the meats and the revenue of the OptimalRecipe
    revenue,
    offer           \* what send_bundle knows of the recipe, and its max_fee

vars == <<flow, variant, node, meats, optimal, pc, env, nonce, good, funds, weth, token,
          trade, recipe, revenue, offer>>
input == <<flow, variant, node, meats, optimal>>
world == <<nonce, weth, token>>
deal == <<funds, trade>>
output == <<recipe, revenue, offer>>

\* The functions that run the sandwich on the contract with the amounts of the search.
Checks == {"single", "multi"}
--------------------------------------------------------------------------------
\* Amounts.

\* Mutant of EncodeWeth: rounds up.
EncodeWethUp(x) == ((x + WethUnit - 1) \div WethUnit) * WethUnit

EncodeWeth(x) == (x \div WethUnit) * WethUnit

UnitOf(x) == CHOOSE u \in Unit : x \div u <= Fits /\ \A v \in Unit : v < u => x \div v > Fits
Four(x) == x \div UnitOf(x)

\* decode_intermediary: what four bytes and a shift keep of an amount
Decode(x) == Four(x) * UnitOf(x)

\* Mutant of WithDust: all of it.
WithoutDust(x) == Decode(x)

\* encode_intermediary_with_dust, where something is left to take one from
WithDust(x) == (Four(x) - 1) * UnitOf(x)

\* What the frontrun pays into the pool.
Paid ==
    CASE flow = "single" -> EncodeWeth(optimal)
      [] flow = "multi" -> Decode(optimal)
      [] OTHER -> optimal

\* What the backrun sells; BrainDance sells all it got.
Sold ==
    CASE flow \in Checks /\ variant = "V2" -> WithDust(token)
      [] flow = "single" /\ variant = "V3" -> (token \div TokenUnit) * TokenUnit
      [] flow = "multi" /\ variant = "V3" -> Decode(token)
      [] OTHER -> token

\* What the contract asks the pool for; a V3 pool gives what it gives.  In the single
\* purchase on a V2 pool the bytes of the block number stay below the amount (see Calldata).
AskedIn(out) ==
    CASE variant = "V2" /\ flow = "single" -> Decode(out)..(Decode(out) + UnitOf(out) - 1)
      [] variant = "V2" /\ flow = "multi" -> {Decode(out)}
      [] OTHER -> {out}

AskedOut(out) ==
    CASE variant = "V2" /\ flow = "single" -> EncodeWeth(out)
      [] variant = "V2" /\ flow = "multi" -> Decode(out)
      [] OTHER -> out

\* The ether that carries an amount of WETH, in a single swap.
Carried(amount) == IF flow = "single" THEN amount \div WethUnit ELSE 0

Purchase(out, asks) ==
    [buys |-> TRUE, has |-> optimal, pays |-> Paid, gives |-> out, asks |-> asks,
     value |-> Carried(Paid)]
Sale(out) ==
    [buys |-> FALSE, has |-> token, pays |-> Sold, gives |-> out, asks |-> AskedOut(out),
     value |-> IF variant = "V2" THEN Carried(AskedOut(out)) ELSE 0]

\* A pool refuses to swap nothing, and a V2 pool to give nothing or more than the formula.
Swaps(t) == t.pays > 0 /\ (variant = "V2" => t.asks > 0 /\ t.asks <= t.gives)
--------------------------------------------------------------------------------
NoOffer == [revenue |-> 0, frontGas |-> 0, backGas |-> 0, hasDust |-> FALSE, maxFee |-> 0]

\* What the EVM checks before it runs a transaction: the fees ...
Payable(e) == BaseFee <= e.price /\ (e.tip # None => e.tip <= e.price)

\* ... and, here for the frontrun and the backrun, what the sender has.
Funded(value) == GasLimit * BaseFee + value <= funds
Charged(value) == \E used \in Gas : funds' = funds - (used * BaseFee + value)

Init ==
    /\ flow \in {"single", "multi", "mega", "evaluate"}
    /\ variant \in {"V2", "V3"}
    /\ node \in {"answers", "fails"}
    /\ meats \in UNION {[1..n -> Meat] : n \in 1..MaxMeats}
    /\ flow = "single" => Len(meats) = 1
    /\ optimal \in Optimal
    /\ pc = IF flow = "evaluate" THEN "front" ELSE "start"
    /\ env = [price |-> 0, tip |-> None, nonce |-> None]
    /\ nonce = [a \in Sender |-> 0]
    /\ good = <<>>
    /\ funds \in Funds
    /\ weth = StartWeth /\ token \in Dust
    /\ trade = [buys |-> TRUE, has |-> 0, pays |-> 0, gives |-> 0, asks |-> 0, value |-> 0]
    /\ recipe = <<>> /\ revenue = 0 /\ offer = NoOffer
--------------------------------------------------------------------------------
\* get_balance_of_evm of WETH; the environment is still the default one.
StartBalance ==
    /\ pc = "start"
    /\ env' = [env EXCEPT !.price = BaseFee]
    /\ pc' \in {"front", "error"}
    /\ UNCHANGED <<input, world, deal, good, output>>

\* inspect_ref(..).unwrap() panics where inspect_commit only fails; evaluate does without.
Unwraps == flow # "evaluate"

\* How a frontrun or backrun fails: the EVM refuses it; or it reverts, halts, has
\* suspicious opcodes; or the node fails.
Unsent(value) ==
    \/ Payable(env') /\ Funded(value) /\ pc' = "error"
    \/ ~(Payable(env') /\ Funded(value)) /\ pc' = (IF Unwraps THEN "panic" ELSE "error")
    \/ node = "fails" /\ Unwraps /\ pc' = "panic"

\* get_amount_out_evm, which the amounts of a check on a V2 pool come from, may fail.
Unquoted == flow \in Checks /\ variant = "V2" /\ pc' = "error" /\ UNCHANGED trade

\* The frontrun of a mega sandwich is what its parts were simulated to do.
Bought ==
    IF flow = "mega" THEN UNCHANGED trade
    ELSE \E out \in Out : \E asks \in AskedIn(out) : trade' = Purchase(out, asks)

\* The token may take a tax of what the pool sends.
Frontrun ==
    /\ pc = "front" /\ flow # "mega"
    /\ env' = [env EXCEPT !.price = BaseFee]
    /\ Bought
    /\ Swaps(trade') /\ Payable(env') /\ Funded(trade'.value)
    /\ Charged(trade'.value)
    /\ weth' = weth - Paid
    /\ \E brought \in 0..trade'.asks : token' = token + brought
    /\ pc' = "meats"
    /\ UNCHANGED <<input, nonce, good, output>>

MegaFrontrun ==
    /\ pc = "front" /\ flow = "mega"
    /\ env' = [env EXCEPT !.price = BaseFee]
    /\ Payable(env') /\ Funded(0)
    /\ Charged(0)
    /\ pc' = "meats"
    /\ UNCHANGED <<input, world, trade, good, output>>

FrontrunFails ==
    /\ pc = "front"
    /\ env' = [env EXCEPT !.price = BaseFee]
    /\ Unquoted \/ (Bought /\ Unsent(trade'.value))
    /\ UNCHANGED <<input, world, funds, good, output>>
--------------------------------------------------------------------------------
\* The victims.
meat == meats[Len(good) + 1]

\* meat.gas_price.unwrap(), for a transaction that has no type; evaluate takes zero.
NoPrice == meat.cap = None /\ flow # "evaluate"

MeatPanics ==
    /\ pc = "meats" /\ Len(good) < Len(meats)
    /\ NoPrice
    /\ pc' = "panic"
    /\ UNCHANGED <<input, world, deal, env, good, output>>

\* A transaction of the old kind leaves the tip as it is.
SetMeat ==
    /\ pc = "meats" /\ Len(good) < Len(meats)
    /\ ~NoPrice
    /\ env' = [price |-> IF meat.cap = None THEN 0 ELSE meat.cap, nonce |-> meat.nonce,
               tip |-> IF meat.tip = None THEN env.tip ELSE meat.tip]
    /\ UNCHANGED <<input, weth, token, deal, output>>

MeatRuns ==
    /\ SetMeat
    /\ Payable(env') /\ env'.nonce = nonce[meat.from]
    /\ nonce' = [nonce EXCEPT ![meat.from] = @ + 1]
    /\ \E ok \in BOOLEAN : good' = Append(good, ok)
    /\ UNCHANGED pc

\* Mutant of MeatRejected: as in evaluate_sandwich_revenue, the loop goes on.
MeatSkipped ==
    /\ SetMeat
    /\ good' = Append(good, FALSE)
    /\ UNCHANGED <<nonce, pc>>

\* The EVM refuses a victim: for its fees, its nonce, its sender's balance, its gas, its
\* chain, or because the node fails.
MeatRejected ==
    /\ SetMeat
    /\ IF flow = "evaluate"
       THEN good' = Append(good, FALSE) /\ UNCHANGED pc
       ELSE pc' = "error" /\ UNCHANGED good
    /\ UNCHANGED nonce

\* "clean nonce with meat transactions": the nonce, and nothing else
Clean ==
    /\ pc = "meats" /\ Len(good) = Len(meats)
    /\ env' = [env EXCEPT !.nonce = None]
    /\ pc' = IF flow \in Checks THEN "balance" ELSE "back"
    /\ UNCHANGED <<input, world, deal, good, output>>
--------------------------------------------------------------------------------
\* Mutant of TokenBalance: the query does not mind the tip.
TokenBalanceUnchecked ==
    /\ pc = "balance"
    /\ env' = [env EXCEPT !.price = BaseFee]
    /\ \/ pc' = "error"
       \/ pc' = IF variant = "V2" /\ Four(token) = 0 THEN "panic" ELSE "back"
    /\ UNCHANGED <<input, world, deal, good, output>>

\* The contract's balance is queried in the environment that the meats left, and the
\* amount to sell is worked out: four_byte_value -= 1 panics when there is none.  The query
\* fails for the tip, or for the token's code, the sender's balance or the node.
TokenBalance ==
    /\ pc = "balance"
    /\ env' = [env EXCEPT !.price = BaseFee]
    /\ \/ pc' = "error"
       \/ /\ Payable(env')
          /\ pc' = IF variant = "V2" /\ Four(token) = 0 THEN "panic" ELSE "back"
    /\ UNCHANGED <<input, world, deal, good, output>>

Backrun ==
    /\ pc = "back" /\ flow # "mega"
    /\ env' = [env EXCEPT !.price = BaseFee]
    /\ \E out \in Out :
          /\ trade' = Sale(out)
          /\ weth' = weth + AskedOut(out)
    /\ Swaps(trade') /\ Payable(env') /\ Funded(trade'.value)
    /\ Charged(trade'.value)
    /\ token' = token - Sold
    /\ pc' = "report"
    /\ UNCHANGED <<input, nonce, good, output>>

MegaBackrun ==
    /\ pc = "back" /\ flow = "mega"
    /\ env' = [env EXCEPT !.price = BaseFee]
    /\ Payable(env') /\ Funded(0)
    /\ Charged(0)
    /\ \E out \in Out : weth' = weth - optimal + out
    /\ pc' = "report"
    /\ UNCHANGED <<input, nonce, token, trade, good, output>>

BackrunFails ==
    /\ pc = "back"
    /\ env' = [env EXCEPT !.price = BaseFee]
    /\ \/ Unquoted
       \/ /\ IF flow = "mega" THEN UNCHANGED trade ELSE \E out \in Out : trade' = Sale(out)
          /\ Unsent(trade'.value)
    /\ UNCHANGED <<input, world, funds, good, output>>
--------------------------------------------------------------------------------
\* A set of numbers in increasing order.
Increasing(S) ==
    CHOOSE p \in [1..Cardinality(S) -> S] : \A k, l \in 1..Cardinality(S) : k < l => p[k] < p[l]

\* The meats that passed, in their order.
Passed == {i \in 1..Len(meats) : good[i]}
GoodMeats == [k \in 1..Cardinality(Passed) |-> meats[Increasing(Passed)[k]]]

\* Mutant of Report: the difference may be negative.
ReportSigned ==
    /\ pc = "report"
    /\ revenue' = weth - StartWeth
    /\ recipe' = IF flow = "mega" THEN meats ELSE GoodMeats
    /\ pc' = "done"
    /\ UNCHANGED <<input, world, deal, env, good, offer>>

\* The recipe of a mega sandwich keeps all meats; evaluate gives the revenue only.
Report ==
    /\ pc = "report"
    /\ revenue' = IF weth < StartWeth THEN 0 ELSE weth - StartWeth
    /\ recipe' = CASE flow \in Checks -> GoodMeats
                   [] flow = "mega" -> meats
                   [] flow = "evaluate" -> <<>>
    /\ pc' = "done"
    /\ UNCHANGED <<input, world, deal, env, good, offer>>

\* The last query fails, or what BrainDance returns cannot be decoded.
ReportFails ==
    /\ pc = "report"
    /\ pc' = "error"
    /\ UNCHANGED <<input, world, deal, env, good, output>>

--------------------------------------------------------------------------------
\* send_bundle and make_mega_sandwich: is the recipe worth its fees?  The first is asked
\* only when there is a revenue.  Whether there is dust is what the bot's books say.
Price ==
    /\ pc = "done" /\ flow \in Checks
    /\ flow = "single" => revenue > 0
    /\ \E front, back \in Gas, dusty \in BOOLEAN, share \in Share :
          LET o == [revenue |-> revenue, frontGas |-> front, backGas |-> back, hasDust |-> dusty]
          IN  \/ /\ Offered(o, BaseFee, share)
                 /\ pc' = "offered"
                 /\ offer' = [revenue |-> revenue, frontGas |-> front, backGas |-> back,
                              hasDust |-> dusty, maxFee |-> MaxFee(o, BaseFee, share)]
              \/ /\ ~Offered(o, BaseFee, share)
                 /\ pc' = "declined"
                 /\ UNCHANGED offer
    /\ UNCHANGED <<input, world, deal, env, good, recipe, revenue>>

Next ==
    \/ StartBalance \/ Frontrun \/ MegaFrontrun \/ FrontrunFails
    \/ MeatRuns \/ MeatRejected \/ MeatPanics \/ Clean
    \/ TokenBalance \/ Backrun \/ MegaBackrun \/ BackrunFails
    \/ Report \/ ReportFails \/ Price

Spec == Init /\ [][Next]_vars
--------------------------------------------------------------------------------
\* A simulation that has come to a recipe.
Ended == {"done", "offered", "declined"}

TypeOK ==
    /\ pc \in {"start", "front", "meats", "balance", "back", "report",
               "done", "offered", "declined", "error", "panic"}
    /\ env.price \in Nat /\ env.tip \in Nat \cup {None} /\ env.nonce \in Nat \cup {None}
    /\ nonce \in [Sender -> Nat]
    /\ good \in Seq(BOOLEAN) /\ Len(good) <= Len(meats)
    /\ funds \in Nat /\ weth \in Int /\ token \in Nat /\ revenue \in Nat
    /\ offer \in [revenue : Nat, frontGas : Nat, backGas : Nat, hasDust : BOOLEAN, maxFee : Nat]

\* Rounding, by units of WETH or to four bytes and a shift, never makes the calldata pay
\* what the contract has not got, for the transfer would revert; nor ask a pool for more
\* than it gives, except in the single purchase on a V2 pool, where the bytes of the block
\* number come on top of what four bytes keep, less than a unit of them (a pool that is
\* asked for too much refuses, and that sandwich fails in its simulation).
Honoured ==
    /\ trade.pays <= trade.has
    /\ \/ trade.asks <= trade.gives
       \/ /\ trade.buys /\ variant = "V2" /\ flow = "single"
          /\ trade.asks < Decode(trade.gives) + UnitOf(trade.gives)

\* After a sandwich on a V2 pool the contract holds dust of the token, whatever the token
\* takes of each transfer: has_dust will be said of it once the sandwich has landed.
DustKept == pc \in Ended /\ variant = "V2" /\ flow \in Checks => token >= 1

\* The meats of a recipe can be sent: each has the nonce its sender has reached by then,
\* unless a meat that was left out because it reverted had a later one of its sender.
NoLater ==
    \A i, j \in 1..Len(good) : i < j /\ ~good[i] /\ good[j] => meats[i].from # meats[j].from
Replays(s) ==
    \A k \in 1..Len(s) : s[k].nonce = Cardinality({i \in 1..(k - 1) : s[i].from = s[k].from})
Replayable == pc \in Ended /\ (flow = "mega" \/ NoLater) => Replays(recipe)

\* Why a simulation panics: the node fails; a V2 sandwich has no token to sell; the sender
\* of the frontrun and the backrun cannot pay for them; a victim has neither a type nor a
\* gas price; or a victim of a mega sandwich tips more than the base fee.  Of single and
\* multi sandwiches the tip of a victim makes an error, for they query the token's balance
\* before the backrun.  The evaluations of the search do not panic.  (Taken for granted: an
\* environment that is set, amounts up to Largest, pairs that answer getReserves, a searcher
\* without code, calldata within the gas limit.)
PanicsOnly ==
    pc = "panic" =>
        \/ flow \in Checks /\ variant = "V2" /\ token = 0
        \/ /\ flow # "evaluate"
           /\ \/ node = "fails"
              \/ ~Funded(trade.value)
              \/ \E i \in 1..Len(meats) : meats[i].cap = None
              \/ flow = "mega" /\ \E i \in 1..Len(meats) :
                                    meats[i].tip # None /\ meats[i].tip > BaseFee

\* Whoever is paid for a bundle is paid out of what the contract has gained in the very
\* simulation that the recipe comes from, up to what is overpaid for a first one; and the
\* backrun can pay the base fee.
FeesEarned ==
    pc = "offered" =>
        /\ BaseFee <= offer.maxFee
        /\ Cost(offer, BaseFee, offer.maxFee)
             <= weth - StartWeth + (IF offer.hasDust THEN 0 ELSE Overpay)
================================================================================
