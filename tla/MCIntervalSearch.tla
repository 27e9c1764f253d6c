--------------------------- MODULE MCIntervalSearch ---------------------------
(* Every market with a small balance, and concave ones with a larger balance.  *)
EXTENDS IntervalSearch

CONSTANTS
    SmallBalance, SmallRevenue,     \* any function up to here
    LargeBalance, Slope             \* tents: one peak, a slope on each side

SmallMarket ==
    UNION {[balance : {b}, rev : [0..b -> 0..SmallRevenue]] : b \in 0..SmallBalance}

Tent(b, peak, left, right) ==
    [x \in 0..b |-> b * Slope + 1 - (IF x < peak THEN left * (peak - x) ELSE right * (x - peak))]
LargeMarket ==
    {[balance |-> b, rev |-> Tent(b, peak, left, right)] :
        b \in 0..LargeBalance, peak \in 0..LargeBalance, left \in 0..Slope, right \in 0..Slope}

\* The least lengths that will do.
Lengths[k \in 0..(GiveUp - 1)] ==
    IF k = 0 THEN 0 ELSE ((Lengths[k - 1] + 1) * Intervals + Third - 1) \div Third

Markets == SmallMarket \cup {m \in LargeMarket : \A x \in DOMAIN m.rev : m.rev[x] \in Nat}
================================================================================
