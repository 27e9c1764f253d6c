---------------------------------- MODULE Fees ----------------------------------
(* What a sandwich pays for its place in a block: the base fee that the bot    *)
(* expects of the next block (src/bot/src/utils/mod.rs,                        *)
(* calculate_next_block_base_fee) and the fee it offers for the backrun        *)
(* (src/bot/src/runner/bundle_sender.rs, calculate_bribe_for_max_fee and the   *)
(* profit of send_bundle).  The numbers are those of U256, which no amount of  *)
(* ether or gas reaches; what must not become negative is stated by theorems.  *)
EXTENDS Integers

CONSTANTS
    Scale,          \* the share of the revenue that is bid is a fraction of it ...
    LeastShare,     \* ... from this one on (the code: 999900000 of 10^9)
    Overpay         \* what is paid for a first sandwich, to have dust (0.0003861 ether)

ASSUME FeesAssumption ==
    Scale \in Nat \ {0} /\ LeastShare \in 0..(Scale - 1) /\ Overpay \in Nat

\* What rng.gen_range may add up to.
Share == LeastShare..(Scale - 1)
--------------------------------------------------------------------------------
\* The base fee.

Target(limit) == limit \div 2
Delta(base, distance, target) == ((base * distance) \div target) \div 8

NextBaseFee(base, used, limit) ==
    LET target == Target(limit)
    IN  IF used >= target THEN base + Delta(base, used - target, target)
        ELSE base - Delta(base, target - used, target)

\* The rule of EIP-1559: above the target the base fee rises by one at least.
ProtocolBaseFee(base, used, limit) ==
    LET target == Target(limit)
        rise == Delta(base, used - target, target)
    IN  CASE used = target -> base
          [] used > target -> base + (IF rise = 0 THEN 1 ELSE rise)
          [] used < target -> base - Delta(base, target - used, target)
--------------------------------------------------------------------------------
\* The bribe.  An offer is what is known of a recipe by then.
Offer == [revenue : Nat, frontGas : Nat \ {0}, backGas : Nat \ {0}, hasDust : BOOLEAN]

\* FrontrunGasFeesNotCovered otherwise
Covered(o, base) == o.frontGas * base <= o.revenue
Rest(o, base) == o.revenue - o.frontGas * base

\* Mutant of Bribe: the frontrun's fee is not set aside.
BribeOfRevenue(o, base, share) ==
    IF o.hasDust THEN (o.revenue * share) \div Scale ELSE Rest(o, base) + Overpay

Bribe(o, base, share) ==
    IF o.hasDust THEN (Rest(o, base) * share) \div Scale ELSE Rest(o, base) + Overpay

MaxFee(o, base, share) == Bribe(o, base, share) \div o.backGas

\* Ok(max_fee); MaxFeeLessThanNextBaseFee otherwise
Offered(o, base, share) == Covered(o, base) /\ base <= MaxFee(o, base, share)

\* What the two transactions pay, and the profit that is reported and added to the books.
Cost(o, base, fee) == o.frontGas * base + o.backGas * fee
Profit(o, base, fee) ==
    IF Cost(o, base, fee) <= o.revenue THEN o.revenue - Cost(o, base, fee) ELSE 0
================================================================================
