---------------------------- MODULE SandwichSimProofs ----------------------------
(* Proofs about SandwichSim: the amounts of the calldata, the dust, the panics  *)
(* and the fees, for every mempool, pool, unit and fee.                         *)
EXTENDS SandwichSim, NaturalLemmas, SequenceTheorems, FiniteSetTheorems, FunctionTheorems

--------------------------------------------------------------------------------
\* The arithmetic of the fees: it takes no part in the invariant, and holds of every value.

\* A change of the base fee is a natural number, and in proportion to the distance from
\* the target: within the target it is no more than an eighth.
LEMMA DeltaBounds ==
    ASSUME NEW base \in Nat, NEW distance \in Nat, NEW target \in Nat \ {0}
    PROVE  /\ Delta(base, distance, target) \in Nat
           /\ distance <= target => 8 * Delta(base, distance, target) <= base
           /\ base * distance >= 8 * target => Delta(base, distance, target) >= 1
<1> DEFINE p == base * distance
           q == p \div target
<1>1. p \in Nat
    OBVIOUS
<1>2. q \in Nat /\ target * q <= p /\ p < target * q + target
    <2> HIDE DEF p
    <2> QED BY <1>1, Division
<1>3. q \div 8 \in Nat /\ 8 * (q \div 8) <= q /\ q < 8 * (q \div 8) + 8
    <2> HIDE DEF q
    <2> QED BY <1>2, Division
<1>4. ASSUME distance <= target PROVE q <= base
    <2>1. p <= target * base
        <3>1. base * distance <= base * target
            BY <1>4
        <3> QED BY <3>1
    <2> HIDE DEF p
    <2> QED BY <1>1, <2>1, DivisionBelow
<1>5. ASSUME p >= 8 * target PROVE q >= 8
    <2>1. SUFFICES ASSUME q <= 7 PROVE FALSE
        BY <1>2
    <2>2. target * q <= target * 7
        <3> HIDE DEF q
        <3> QED BY <1>2, <2>1
    <2> HIDE DEF p, q
    <2> QED BY <1>1, <1>2, <1>5, <2>2
<1>6. Delta(base, distance, target) = q \div 8
    BY DEF Delta
<1>7. ASSUME distance <= target PROVE 8 * Delta(base, distance, target) <= base
    <2> HIDE DEF q
    <2> QED BY <1>2, <1>3, <1>4, <1>6, <1>7
<1>8. ASSUME p >= 8 * target PROVE Delta(base, distance, target) >= 1
    <2> HIDE DEF p, q
    <2> QED BY <1>2, <1>3, <1>5, <1>6, <1>8
<1> QED BY <1>3, <1>6, <1>7, <1>8

\* The target is not zero for a block that can hold a transaction.
LEMMA TargetPositive ==
    ASSUME NEW limit \in Nat, limit >= 2
    PROVE  Target(limit) \in Nat \ {0}
BY DEF Target

\* The subtraction of calculate_next_block_base_fee does not underflow, and the fee falls
\* by no more than an eighth.
THEOREM BaseFeeFalls ==
    ASSUME NEW base \in Nat, NEW used \in Nat, NEW limit \in Nat, limit >= 2
    PROVE  /\ NextBaseFee(base, used, limit) \in Nat
           /\ 8 * (base - NextBaseFee(base, used, limit)) <= base
<1> DEFINE target == Target(limit)
<1>1. target \in Nat \ {0}
    BY TargetPositive
<1> HIDE DEF target
<1>2. CASE used >= target
    <2>1. Delta(base, used - target, target) \in Nat
        BY <1>1, <1>2, DeltaBounds
    <2>2. NextBaseFee(base, used, limit) = base + Delta(base, used - target, target)
        BY <1>2 DEF NextBaseFee, target
    <2> QED BY <2>1, <2>2
<1>3. CASE used < target
    <2>1. target - used \in Nat /\ target - used <= target
        BY <1>1, <1>3
    <2>2. /\ Delta(base, target - used, target) \in Nat
          /\ 8 * Delta(base, target - used, target) <= base
        BY <1>1, <2>1, DeltaBounds
    <2>3. NextBaseFee(base, used, limit) = base - Delta(base, target - used, target)
        BY <1>1, <1>3 DEF NextBaseFee, target
    <2> QED BY <2>2, <2>3
<1> QED BY <1>1, <1>2, <1>3

\* The bot expects the base fee of the protocol, or one wei less: it leaves out that the fee
\* of a block above the target rises by one at least, which tells only where an eighth of
\* the base fee, in proportion, is less than a wei.  A frontrun offers what is expected and
\* no more, so there it could not be included.
THEOREM BaseFeeExpected ==
    ASSUME NEW base \in Nat, NEW used \in Nat, NEW limit \in Nat, limit >= 2
    PROVE  LET expected == NextBaseFee(base, used, limit)
               due == ProtocolBaseFee(base, used, limit)
           IN  /\ expected <= due /\ due <= expected + 1
               /\ (used <= Target(limit)
                     \/ base * (used - Target(limit)) >= 8 * Target(limit)) => expected = due
<1> DEFINE target == Target(limit)
           rise == Delta(base, used - target, target)
           fall == Delta(base, target - used, target)
           expected == NextBaseFee(base, used, limit)
           due == ProtocolBaseFee(base, used, limit)
<1>1. target \in Nat \ {0}
    BY TargetPositive
<1>2. CASE used > target
    <2>1. rise \in Nat /\ (base * (used - target) >= 8 * target => rise >= 1)
        <3> HIDE DEF target
        <3> QED BY <1>1, <1>2, DeltaBounds
    <2>2. expected = base + rise
        BY <1>1, <1>2 DEF NextBaseFee
    <2>3. due = base + (IF rise = 0 THEN 1 ELSE rise)
        BY <1>1, <1>2 DEF ProtocolBaseFee
    <2> HIDE DEF expected, due, rise, target
    <2>4. /\ expected <= due /\ due <= expected + 1
          /\ base * (used - target) >= 8 * target => expected = due
        BY <2>1, <2>2, <2>3
    <2> QED BY <1>1, <1>2, <2>4 DEF expected, due, target
<1>3. CASE used < target
    <2>1. fall \in Nat
        <3> HIDE DEF target
        <3> QED BY <1>1, <1>3, DeltaBounds
    <2>2. expected = base - fall /\ due = base - fall
        BY <1>1, <1>3 DEF NextBaseFee, ProtocolBaseFee
    <2> QED BY <2>1, <2>2
<1>4. CASE used = target
    <2>1. Delta(base, 0, target) = 0
        <3>1. 0 \div target = 0
            <4> HIDE DEF target
            <4>1. 0 \div target \in Nat /\ target * (0 \div target) <= 0
                BY <1>1, Division
            <4> QED BY <1>1, <4>1
        <3>2. base * 0 = 0
            OBVIOUS
        <3> QED BY <3>1, <3>2 DEF Delta
    <2>2. expected = base + Delta(base, 0, target)
        BY <1>1, <1>4 DEF NextBaseFee
    <2>3. due = base
        BY <1>1, <1>4 DEF ProtocolBaseFee
    <2> QED BY <2>1, <2>2, <2>3
<1> QED BY <1>1, <1>2, <1>3, <1>4
--------------------------------------------------------------------------------
\* What the bot has to give for the backrun when it gives a share, or more than everything.
LEMMA BribeBounds ==
    ASSUME NEW o \in Offer, NEW base \in Nat, NEW share \in Share, Covered(o, base)
    PROVE  /\ Rest(o, base) \in Nat
           /\ Bribe(o, base, share) \in Nat
           /\ Bribe(o, base, share) <= Rest(o, base) + (IF o.hasDust THEN 0 ELSE Overpay)
           /\ o.hasDust /\ Rest(o, base) > 0 => Bribe(o, base, share) < Rest(o, base)
<1> DEFINE rest == Rest(o, base)
<1>1. rest \in Nat
    <2>1. o.revenue \in Nat /\ o.frontGas \in Nat
        BY DEF Offer
    <2>2. o.frontGas * base \in Nat
        BY <2>1
    <2> QED BY <2>1, <2>2 DEF Covered, Rest
<1> HIDE DEF rest
<1>2. CASE ~o.hasDust
    BY <1>1, <1>2, FeesAssumption DEF Bribe, rest
<1>3. CASE o.hasDust
    <2>1. Scale \in Nat \ {0} /\ share \in Nat /\ share <= Scale - 1
        BY FeesAssumption DEF Share
    <2>2. Bribe(o, base, share) = (rest * share) \div Scale
        BY <1>3 DEF Bribe, rest
    <2>3. rest * share \in Nat
        BY <1>1, <2>1
    <2>4. rest * share <= rest * (Scale - 1)
        BY <1>1, <2>1
    <2>5. rest * (Scale - 1) = Scale * rest - rest
        BY <1>1, <2>1
    <2>6. Bribe(o, base, share) \in Nat /\ Bribe(o, base, share) <= rest
        <3>1. rest * share <= Scale * rest
            BY <1>1, <2>1, <2>3, <2>4, <2>5
        <3> QED BY <1>1, <2>1, <2>2, <2>3, <3>1, Division, DivisionBelow
    <2>7. ASSUME rest > 0, Bribe(o, base, share) = rest PROVE FALSE
        <3>1. Scale * rest <= rest * share
            BY <2>1, <2>2, <2>3, <2>7, Division
        <3> QED BY <1>1, <2>1, <2>3, <2>4, <2>5, <2>7, <3>1
    <2> QED BY <1>1, <1>3, <2>6, <2>7 DEF rest
<1> QED BY <1>1, <1>2, <1>3 DEF rest

\* A bundle that is offered costs less than it earns, or as much when nothing is left after
\* the frontrun; the first one of a token, which is to leave dust behind, costs no more than
\* Overpay on top.  The backrun pays the base fee.
THEOREM CostCovered ==
    ASSUME NEW o \in Offer, NEW base \in Nat, NEW share \in Share, Offered(o, base, share)
    PROVE  /\ MaxFee(o, base, share) \in Nat /\ base <= MaxFee(o, base, share)
           /\ Cost(o, base, MaxFee(o, base, share))
                <= o.revenue + (IF o.hasDust THEN 0 ELSE Overpay)
           /\ o.hasDust /\ Rest(o, base) > 0 => Cost(o, base, MaxFee(o, base, share)) < o.revenue
<1> DEFINE bribe == Bribe(o, base, share)
           fee == MaxFee(o, base, share)
<1>1. Covered(o, base)
    BY DEF Offered
<1>2. /\ Rest(o, base) \in Nat /\ bribe \in Nat
      /\ bribe <= Rest(o, base) + (IF o.hasDust THEN 0 ELSE Overpay)
      /\ o.hasDust /\ Rest(o, base) > 0 => bribe < Rest(o, base)
    BY <1>1, BribeBounds
<1>3. o.backGas \in Nat \ {0} /\ o.frontGas * base \in Nat /\ o.revenue \in Nat
    <2>1. o.backGas \in Nat \ {0} /\ o.frontGas \in Nat /\ o.revenue \in Nat
        BY DEF Offer
    <2> QED BY <2>1
<1>4. fee \in Nat /\ o.backGas * fee <= bribe
    <2> HIDE DEF bribe
    <2>1. fee = bribe \div o.backGas
        BY DEF MaxFee, bribe
    <2> QED BY <1>2, <1>3, <2>1, Division
<1>5. o.backGas * fee \in Nat
    BY <1>3, <1>4
<1>6. Cost(o, base, fee) = o.frontGas * base + o.backGas * fee
    BY DEF Cost
<1>7. Rest(o, base) = o.revenue - o.frontGas * base
    BY DEF Rest
<1>8. base <= fee
    BY DEF Offered
<1> HIDE DEF bribe, fee
<1>9. /\ Cost(o, base, fee) <= o.revenue + (IF o.hasDust THEN 0 ELSE Overpay)
      /\ o.hasDust /\ Rest(o, base) > 0 => Cost(o, base, fee) < o.revenue
    BY <1>2, <1>3, <1>4, <1>5, <1>6, <1>7, FeesAssumption
<1> QED BY <1>4, <1>8, <1>9 DEF fee

\* The profit of a bundle is what BundleLifecycle assumes: some part of the revenue,
\* however the fee was worked out.
THEOREM ProfitWithinRevenue ==
    ASSUME NEW o \in Offer, NEW base \in Nat, NEW fee \in Nat
    PROVE  Profit(o, base, fee) \in 0..o.revenue
<1>1. o.revenue \in Nat /\ o.frontGas \in Nat /\ o.backGas \in Nat
    BY DEF Offer
<1>2. o.frontGas * base \in Nat /\ o.backGas * fee \in Nat
    BY <1>1
<1> QED BY <1>1, <1>2 DEF Profit, Cost
--------------------------------------------------------------------------------
\* The simulation.

\* A larger amount has no smaller quotient.
LEMMA DivisionMonotone ==
    ASSUME NEW a \in Nat, NEW b \in Nat, NEW u \in Nat \ {0}, a <= b
    PROVE  a \div u <= b \div u
<1> DEFINE q == b \div u
<1>1. q \in Nat /\ b < u * q + u
    BY Division
<1>2. a \div u \in Nat /\ u * (a \div u) <= a
    BY Division
<1> DEFINE r == a \div u
<1> HIDE DEF q, r
<1>3. SUFFICES ASSUME r >= q + 1 PROVE FALSE
    BY <1>1, <1>2 DEF q, r
<1>4. u * r >= u * (q + 1)
    BY <1>1, <1>2, <1>3 DEF r
<1>5. u * (q + 1) = u * q + u
    BY <1>1
<1>6. u * q \in Nat /\ u * r \in Nat
    BY <1>1, <1>2 DEF r
<1> QED BY <1>1, <1>2, <1>4, <1>5, <1>6 DEF r

\* encode_four_bytes finds a unit for every amount, and the least one that will do.
LEMMA UnitChosen ==
    ASSUME NEW x \in 0..Largest
    PROVE  /\ UnitOf(x) \in Unit /\ UnitOf(x) \in Nat \ {0}
           /\ x \div UnitOf(x) <= Fits
           /\ \A v \in Unit : v < UnitOf(x) => x \div v > Fits
<1> DEFINE S == {u \in Unit : x \div u <= Fits}
<1>1. Unit \subseteq Nat \ {0} /\ Largest \in Nat /\ Fits \in Nat
    BY SimAssumption
<1>2. S # {}
    <2>1. PICK u \in Unit : Largest \div u <= Fits
        BY SimAssumption
    <2>2. u \in Nat \ {0} /\ x \in Nat /\ x <= Largest
        BY <1>1
    <2>3. x \div u <= Largest \div u
        BY <1>1, <2>2, DivisionMonotone
    <2>4. x \div u \in Nat /\ Largest \div u \in Nat
        BY <1>1, <2>2, Division
    <2>5. x \div u <= Fits
        BY <1>1, <2>1, <2>3, <2>4
    <2> QED BY <2>5
<1>3. S \in SUBSET Nat
    BY <1>1
<1>4. PICK m \in S : \A n \in S : m <= n
    <2> HIDE DEF S
    <2> QED BY <1>2, <1>3, Least
<1>5. \A v \in Unit : v < m => x \div v > Fits
    <2>1. SUFFICES ASSUME NEW v \in Unit, v < m PROVE x \div v > Fits
        OBVIOUS
    <2>2. v \notin S
        BY <1>1, <1>3, <1>4, <2>1
    <2>3. x \div v \in Nat
        BY <1>1, Division
    <2> QED BY <1>1, <2>2, <2>3
<1>6. m \in Unit /\ x \div m <= Fits
    BY <1>4
<1>7. /\ UnitOf(x) \in Unit
      /\ x \div UnitOf(x) <= Fits /\ \A v \in Unit : v < UnitOf(x) => x \div v > Fits
    BY <1>5, <1>6 DEF UnitOf
<1> QED BY <1>1, <1>7

\* What four bytes and a unit keep of an amount: never more than there was, nothing only
\* of nothing, and one unit less is less than there was.
LEMMA FourBytesBounds ==
    ASSUME NEW x \in 0..Largest
    PROVE  /\ Four(x) \in Nat
           /\ Decode(x) \in 0..x
           /\ Four(x) = 0 => x = 0
           /\ Four(x) > 0 => WithDust(x) \in 0..(x - 1)
<1> DEFINE u == UnitOf(x)
           f == Four(x)
<1>1. u \in Unit /\ u \in Nat \ {0} /\ \A v \in Unit : v < u => x \div v > Fits
    BY UnitChosen
<1>2. x \in Nat
    BY SimAssumption
<1>3. f \in Nat /\ u * f <= x /\ x < u * f + u
    <2>1. f = x \div u
        BY DEF Four
    <2> HIDE DEF u, f
    <2> QED BY <1>1, <1>2, <2>1, Division
<1>4. Decode(x) = f * u /\ WithDust(x) = (f - 1) * u
    BY DEF Decode, WithDust
<1> HIDE DEF u, f
<1>5. f * u = u * f /\ u * f \in Nat
    BY <1>1, <1>3
<1>6. ASSUME f > 0 PROVE WithDust(x) \in 0..(x - 1)
    <2>1. (f - 1) * u = u * f - u
        BY <1>1, <1>3
    <2>2. (f - 1) * u \in Nat
        BY <1>1, <1>3, <1>6
    <2> QED BY <1>1, <1>2, <1>3, <1>4, <1>5, <2>1, <2>2
<1>7. ASSUME f = 0, x # 0 PROVE FALSE
    <2>1. x < u
        BY <1>1, <1>2, <1>3, <1>7
    <2>2. u # 1
        BY <1>2, <1>7, <2>1
    <2>3. PICK v \in Unit : u = Byte * v
        BY <1>1, <2>2, SimAssumption
    <2>4. v \in Nat \ {0} /\ Byte \in Nat \ {0, 1} /\ Fits \in Nat /\ Byte <= Fits
        BY SimAssumption
    <2>5. v < u
        BY <2>3, <2>4
    <2> DEFINE q == x \div v
    <2>6. q > Fits /\ q \in Nat /\ v * q <= x
        BY <1>1, <1>2, <2>4, <2>5, Division
    <2> HIDE DEF q
    <2>7. v * q >= v * Byte
        BY <2>4, <2>6
    <2>8. v * Byte = u /\ v * q \in Nat
        BY <2>3, <2>4, <2>6
    <2> QED BY <1>1, <1>2, <2>1, <2>6, <2>7, <2>8
<1> QED BY <1>2, <1>3, <1>4, <1>5, <1>6, <1>7 DEF f

\* Rounding to a unit of WETH, or of a token of a V3 pool, rounds down.
LEMMA RoundedDown ==
    ASSUME NEW x \in Nat, NEW unit \in Nat \ {0}
    PROVE  (x \div unit) * unit \in 0..x
<1> DEFINE q == x \div unit
<1>1. q \in Nat /\ unit * q <= x
    BY Division
<1> HIDE DEF q
<1>2. q * unit = unit * q /\ unit * q \in Nat
    BY <1>1
<1>3. q * unit \in 0..x
    BY <1>1, <1>2
<1> QED BY <1>3 DEF q
--------------------------------------------------------------------------------
\* The recipe keeps the order of the victims.

\* A set of places is finite, and its members are positive.
LEMMA Places ==
    ASSUME NEW n \in Nat, NEW S \in SUBSET (1..n)
    PROVE  IsFiniteSet(S) /\ Cardinality(S) \in Nat /\ \A x \in S : x \in Nat /\ 1 <= x /\ x <= n
<1>1. IsFiniteSet(1..n)
    BY FS_Interval
<1>2. IsFiniteSet(S)
    BY <1>1, FS_Subset
<1>3. Cardinality(S) \in Nat
    BY <1>2, FS_CardinalityType
<1> QED BY <1>2, <1>3

\* There is an increasing enumeration of every finite set of positive numbers ...
LEMMA IncreasingExists ==
    ASSUME NEW n \in Nat, NEW S \in SUBSET (1..n)
    PROVE  \E p \in [1..Cardinality(S) -> S] :
              \A k, l \in 1..Cardinality(S) : k < l => p[k] < p[l]
<1> DEFINE Ordered(U, p) == \A k, l \in 1..Cardinality(U) : k < l => p[k] < p[l]
           T == {m \in Nat : \A U \in SUBSET (1..m) :
                    \E p \in [1..Cardinality(U) -> U] : Ordered(U, p)}
<1>1. 0 \in T
    <2>1. ASSUME NEW U \in SUBSET (1..0) PROVE \E p \in [1..Cardinality(U) -> U] : Ordered(U, p)
        <3>1. 1..0 = {}
            OBVIOUS
        <3>2. U = {}
            BY <3>1
        <3>3. Cardinality(U) = 0
            BY <3>2, FS_EmptySet
        <3>4. [k \in 1..Cardinality(U) |-> k] \in [1..Cardinality(U) -> U]
            BY <3>1, <3>3
        <3>5. Ordered(U, [k \in 1..Cardinality(U) |-> k])
            BY <3>1, <3>3
        <3> QED BY <3>4, <3>5
    <2> QED BY <2>1
<1>2. ASSUME NEW m \in T PROVE m + 1 \in T
    <2>1. m \in Nat /\ \A U \in SUBSET (1..m) : \E p \in [1..Cardinality(U) -> U] : Ordered(U, p)
        OBVIOUS
    <2>2. ASSUME NEW U \in SUBSET (1..(m + 1))
          PROVE  \E p \in [1..Cardinality(U) -> U] : Ordered(U, p)
        <3> DEFINE V == U \ {m + 1}
        <3>1. V \in SUBSET (1..m)
            BY <2>1
        <3>2. PICK q \in [1..Cardinality(V) -> V] : Ordered(V, q)
            BY <2>1, <3>1
        <3>3. CASE m + 1 \notin U
            <4>1. U = V
                BY <3>3
            <4> QED BY <3>2, <4>1
        <3>4. CASE m + 1 \in U
            <4>1. IsFiniteSet(V) /\ Cardinality(V) \in Nat
                BY <2>1, <3>1, Places
            <4>2. U = V \cup {m + 1} /\ m + 1 \notin V
                BY <3>4
            <4>3. PICK c \in Nat : c = Cardinality(V)
                BY <4>1
            <4>4. Cardinality(U) = c + 1
                BY <4>1, <4>2, <4>3, FS_AddElement
            <4> HIDE DEF V
            <4>5. q \in [1..c -> V] /\ \A k, l \in 1..c : k < l => q[k] < q[l]
                BY <3>2, <4>3
            <4> DEFINE p == [k \in 1..(c + 1) |-> IF k <= c THEN q[k] ELSE m + 1]
            <4>6. \A k \in 1..(c + 1) : k <= c => k \in 1..c
                OBVIOUS
            <4>7. \A k \in 1..c : q[k] \in V /\ q[k] \in Nat /\ q[k] < m + 1
                <5>1. \A x \in V : x \in Nat /\ x < m + 1
                    BY <2>1, <3>1
                <5> QED BY <4>5, <5>1
            <4>8. p \in [1..(c + 1) -> U]
                BY <4>2, <4>6, <4>7
            <4>9. ASSUME NEW k \in 1..(c + 1), NEW l \in 1..(c + 1), k < l PROVE p[k] < p[l]
                <5>1. k <= c /\ k \in 1..c /\ p[k] = q[k]
                    BY <4>9
                <5>2. CASE l <= c
                    BY <4>5, <4>6, <4>9, <5>1, <5>2
                <5>3. CASE ~(l <= c)
                    BY <4>7, <5>1, <5>3
                <5> QED BY <5>2, <5>3
            <4> HIDE DEF p
            <4>10. p \in [1..Cardinality(U) -> U] /\ Ordered(U, p)
                BY <4>4, <4>8, <4>9
            <4> QED BY <4>10
        <3> QED BY <3>3, <3>4
    <2>3. m + 1 \in Nat
        BY <2>1
    <2> HIDE DEF Ordered
    <2> QED BY <2>2, <2>3, Zenon
<1> HIDE DEF Ordered
<1>3. T = Nat
    <2> HIDE DEF T
    <2> QED BY <1>1, <1>2, Induction DEF T
<1>4. n \in T
    BY <1>3
<1> QED BY <1>4 DEF Ordered

\* ... and Increasing is one: every element has one place in it.
LEMMA IncreasingEnumerates ==
    ASSUME NEW n \in Nat, NEW S \in SUBSET (1..n)
    PROVE  /\ IsFiniteSet(S) /\ Cardinality(S) \in Nat
           /\ Increasing(S) \in [1..Cardinality(S) -> S]
           /\ \A k, l \in 1..Cardinality(S) : k < l => Increasing(S)[k] < Increasing(S)[l]
           /\ \A x \in S : \E k \in 1..Cardinality(S) : Increasing(S)[k] = x
<1> DEFINE c == Cardinality(S)
           p == Increasing(S)
<1>1. IsFiniteSet(S) /\ c \in Nat
    BY Places
<1>2. p \in [1..c -> S] /\ \A k, l \in 1..c : k < l => p[k] < p[l]
    BY IncreasingExists DEF Increasing
<1> HIDE DEF p, c
<1>3. p \in Injection(1..c, S)
    <2>1. ASSUME NEW k \in 1..c, NEW l \in 1..c, p[k] = p[l] PROVE k = l
        <3>1. p[k] \in Int /\ p[l] \in Int /\ k \in Int /\ l \in Int
            <4>1. p[k] \in S /\ p[l] \in S
                BY <1>2
            <4>2. p[k] \in Nat /\ p[l] \in Nat
                BY <4>1, Places
            <4> QED BY <1>1, <4>2
        <3>2. ~(k < l) /\ ~(l < k)
            BY <1>2, <2>1, <3>1
        <3> QED BY <3>1, <3>2
    <2> QED BY <1>2, <2>1, Fun_IsInj
<1>4. Cardinality(1..c) = Cardinality(S)
    <2>1. Cardinality(1..c) = IF 1 > c THEN 0 ELSE c - 1 + 1
        BY <1>1, FS_Interval
    <2> QED BY <1>1, <2>1 DEF c
<1>5. p \in Surjection(1..c, S)
    BY <1>1, <1>3, <1>4, FS_Injection
<1>6. \A x \in S : \E k \in 1..c : p[k] = x
    BY <1>5 DEF Surjection
<1> QED BY <1>1, <1>2, <1>6 DEF p, c
--------------------------------------------------------------------------------
\* The inductive invariant.

InputOK ==
    /\ flow \in {"single", "multi", "mega", "evaluate"} /\ variant \in {"V2", "V3"}
    /\ node \in {"answers", "fails"}
    /\ meats \in Seq(Meat) /\ optimal \in Optimal
    /\ env \in [price : Nat, tip : Nat \cup {None}, nonce : Nat \cup {None}]

\* The tip in the environment is that of some victim.
TipOfMeat == env.tip # None => \E i \in 1..Len(meats) : meats[i].tip = env.tip

\* What the contract has of the token can be written in four bytes and a unit.
TokenBounded ==
    /\ token <= Largest
    /\ pc \in {"start", "front"} => token \in Dust

\* Only a victim sets a tip.
NoTipYet == pc \in {"start", "front"} => env.tip = None

Querying == pc = "balance" => flow \in Checks

\* The backrun of a check comes after a query of the balance in the same environment.
ReadyToSell ==
    pc = "back" /\ flow \in Checks =>
        /\ env.tip # None => env.tip <= BaseFee
        /\ variant = "V2" => Four(token) > 0

DustLeft == pc \in {"report"} \cup Ended /\ variant = "V2" /\ flow \in Checks => token >= 1

\* The revenue of a recipe is what the contract has gained, if it has.
RevenueGained == pc \in Ended => revenue = IF weth < StartWeth THEN 0 ELSE weth - StartWeth

\* How many of the first n victims are of a sender.
SentBefore(n, a) == Cardinality({i \in 1..n : meats[i].from = a})

\* A victim that was run, and none other is passed over, had the nonce of its sender.
NonceReached ==
    flow # "evaluate" =>
        /\ \A a \in Sender : nonce[a] = SentBefore(Len(good), a)
        /\ \A k \in 1..Len(good) : meats[k].nonce = SentBefore(k - 1, meats[k].from)

AllRun == pc \in {"balance", "back", "report"} \cup Ended => Len(good) = Len(meats)

IInv ==
    /\ TypeOK /\ InputOK /\ TipOfMeat /\ NoTipYet /\ TokenBounded /\ Querying /\ ReadyToSell
    /\ DustLeft /\ RevenueGained /\ Honoured /\ PanicsOnly /\ FeesEarned
    /\ NonceReached /\ AllRun /\ Replayable

\* DustKept is part of DustLeft.
LEMMA Implied ==
    IInv => TypeOK /\ Honoured /\ DustKept /\ PanicsOnly /\ FeesEarned /\ Replayable
BY DEF IInv, DustLeft, DustKept, Ended

\* What the amounts and the victims can be.
LEMMA Amounts ==
    /\ BaseFee \in Nat \ {0} /\ StartWeth \in Nat /\ Largest \in Nat /\ None \notin Int
    /\ Optimal \subseteq 0..Largest /\ Optimal \subseteq Nat
    /\ Dust \subseteq 0..Largest /\ Out \subseteq 0..Largest
    /\ Gas \subseteq Nat \ {0} /\ GasLimit \in Nat /\ Funds \subseteq Nat
    /\ \A used \in Gas : used <= GasLimit
    /\ \A d \in Dust, o \in Out : d + o <= Largest
    /\ \A m \in Meat :
          m.nonce \in Nat /\ m.cap \in Nat \cup {None} /\ m.tip \in Nat \cup {None}
BY SimAssumption

\* A simulation starts with nothing run and nothing gained.
LEMMA Initially == Init => IInv
<1> SUFFICES ASSUME Init PROVE IInv
    OBVIOUS
<1>1. meats \in Seq(Meat)
    <2>1. PICK n \in 1..MaxMeats : meats \in [1..n -> Meat]
        BY DEF Init
    <2>2. n \in Nat
        BY SimAssumption
    <2> QED BY <2>1, <2>2, SeqDef
<1>2. <<>> \in Seq(BOOLEAN) /\ Len(<<>>) = 0 /\ Len(meats) \in Nat
    BY <1>1
<1>3. nonce \in [Sender -> Nat] /\ token \in Nat /\ token <= Largest /\ token \in Dust
    BY Amounts DEF Init
<1>4. TypeOK
    BY <1>2, <1>3, Amounts DEF Init, TypeOK, NoOffer
<1>5. InputOK /\ TipOfMeat /\ NoTipYet
    BY <1>1 DEF Init, InputOK, TipOfMeat, NoTipYet
<1>6. TokenBounded /\ Querying /\ ReadyToSell /\ DustLeft /\ RevenueGained /\ Honoured /\ PanicsOnly
          /\ FeesEarned
    BY <1>3 DEF Init, TokenBounded, Querying, ReadyToSell, DustLeft, RevenueGained, Honoured,
        PanicsOnly, FeesEarned, Ended
<1>7. NonceReached
    <2>1. 1..0 = {}
        OBVIOUS
    <2>2. Len(good) = 0
        BY <1>2 DEF Init
    <2>3. \A a \in Sender : SentBefore(0, a) = 0
        <3>1. \A a \in Sender : {i \in 1..0 : meats[i].from = a} = {}
            BY <2>1
        <3> QED BY <3>1, FS_EmptySet DEF SentBefore
    <2>4. \A a \in Sender : nonce[a] = 0
        BY DEF Init
    <2> QED BY <2>1, <2>2, <2>3, <2>4 DEF NonceReached
<1>8. AllRun /\ Replayable
    BY DEF Init, AllRun, Replayable, Ended
<1> QED BY <1>4, <1>5, <1>6, <1>7, <1>8 DEF IInv

\* What is left over when the transaction has been paid for.
LEMMA ChargedRight ==
    ASSUME IInv, NEW v \in Nat, Funded(v), Charged(v)
    PROVE  funds' \in Nat
<1>1. PICK used \in Gas : funds' = funds - (used * BaseFee + v)
    BY DEF Charged
<1>2. used \in Nat /\ used <= GasLimit /\ GasLimit \in Nat /\ BaseFee \in Nat /\ funds \in Nat
    BY Amounts DEF IInv, TypeOK
<1>3. PICK left \in Nat : GasLimit = used + left
    <2>1. GasLimit - used \in Nat /\ GasLimit = used + (GasLimit - used)
        BY <1>2
    <2> QED BY <2>1
<1>4. GasLimit * BaseFee = used * BaseFee + left * BaseFee
    BY <1>2, <1>3
<1>5. used * BaseFee \in Nat /\ left * BaseFee \in Nat
    BY <1>2, <1>3
<1>6. used * BaseFee + left * BaseFee + v <= funds
    BY <1>4 DEF Funded
<1> QED BY <1>1, <1>2, <1>5, <1>6

\* The ether that carries an amount.
LEMMA CarriedAmount == ASSUME NEW x \in Nat PROVE Carried(x) \in Nat
<1>1. WethUnit \in Nat \ {0}
    BY SimAssumption
<1>2. x \div WethUnit \in Nat
    BY <1>1, Division
<1> QED BY <1>2 DEF Carried

\* The frontrun pays no more than the contract has, and asks for no more than is given, or
\* than the bytes of the block number add to it.
LEMMA FrontrunAmounts ==
    ASSUME IInv, NEW out \in Out, NEW asks \in AskedIn(out)
    PROVE  /\ Paid \in 0..optimal /\ asks \in Nat /\ out \in Nat
           /\ \/ asks <= out
              \/ variant = "V2" /\ flow = "single" /\ asks < Decode(out) + UnitOf(out)
           /\ variant # "V2" => asks <= out
<1>1. optimal \in 0..Largest /\ optimal \in Nat /\ out \in 0..Largest /\ WethUnit \in Nat \ {0}
    BY Amounts, SimAssumption DEF IInv, InputOK
<1>2. EncodeWeth(optimal) \in 0..optimal
    BY <1>1, RoundedDown DEF EncodeWeth
<1>3. Decode(optimal) \in 0..optimal /\ Decode(out) \in 0..out /\ UnitOf(out) \in Nat \ {0}
    BY <1>1, FourBytesBounds, UnitChosen
<1>4. CASE variant = "V2" /\ flow = "single"
    <2>1. asks \in Decode(out)..(Decode(out) + UnitOf(out) - 1)
        BY <1>4 DEF AskedIn
    <2> QED BY <1>1, <1>2, <1>3, <1>4, <2>1 DEF Paid
<1>5. CASE variant = "V2" /\ flow = "multi"
    <2>1. asks = Decode(out)
        BY <1>5 DEF AskedIn
    <2> QED BY <1>1, <1>2, <1>3, <1>5, <2>1 DEF Paid
<1>6. CASE ~(variant = "V2" /\ flow \in {"single", "multi"})
    <2>1. asks = out
        BY <1>6 DEF AskedIn
    <2> QED BY <1>1, <1>2, <1>3, <2>1 DEF Paid
<1> QED BY <1>4, <1>5, <1>6

\* The backrun sells no more than there is, and on a V2 pool leaves one at least.
LEMMA BackrunAmounts ==
    ASSUME IInv, pc = "back", NEW out \in Out
    PROVE  /\ Sold \in 0..token /\ AskedOut(out) \in 0..out
           /\ variant = "V2" /\ flow \in Checks => Sold <= token - 1
<1>1. token \in 0..Largest /\ token \in Nat
    BY Amounts DEF IInv, TypeOK, TokenBounded
<1>2. out \in 0..Largest /\ out \in Nat /\ WethUnit \in Nat \ {0} /\ TokenUnit \in Nat \ {0}
    BY Amounts, SimAssumption
<1>3. EncodeWeth(out) \in 0..out /\ (token \div TokenUnit) * TokenUnit \in 0..token
    BY <1>1, <1>2, RoundedDown DEF EncodeWeth
<1>4. /\ Decode(out) \in 0..out /\ Decode(token) \in 0..token
      /\ Four(token) > 0 => WithDust(token) \in 0..(token - 1)
    BY <1>1, <1>2, FourBytesBounds
<1>5. flow \in Checks /\ variant = "V2" => Four(token) > 0
    <2>1. ReadyToSell /\ pc = "back"
        BY DEF IInv
    <2> QED BY <2>1 DEF ReadyToSell
<1>6. variant \in {"V2", "V3"} /\ flow \in {"single", "multi", "mega", "evaluate"}
    BY DEF IInv, InputOK
<1> QED BY <1>1, <1>2, <1>3, <1>4, <1>5, <1>6 DEF Sold, AskedOut, Checks
--------------------------------------------------------------------------------
\* The steps.

\* Our own transactions pay the base fee, and leave the tip and the nonce as they are.
LEMMA OurPrice ==
    ASSUME IInv, env' = [env EXCEPT !.price = BaseFee]
    PROVE  /\ env' \in [price : Nat, tip : Nat \cup {None}, nonce : Nat \cup {None}]
           /\ env'.tip = env.tip /\ env'.price = BaseFee
           /\ Payable(env') <=> (env.tip # None => env.tip <= BaseFee)
<1>1. env \in [price : Nat, tip : Nat \cup {None}, nonce : Nat \cup {None}]
    BY DEF IInv, InputOK
<1>2. /\ env' \in [price : Nat, tip : Nat \cup {None}, nonce : Nat \cup {None}]
      /\ env'.tip = env.tip /\ env'.price = BaseFee
    BY <1>1, Amounts
<1> QED BY <1>2, Amounts DEF Payable

\* A swap that is not replaced is honoured still ...
LEMMA SameTrade == ASSUME IInv, UNCHANGED <<flow, variant, trade>> PROVE Honoured'
<1>1. Decode(trade.gives)' = Decode(trade.gives) /\ UnitOf(trade.gives)' = UnitOf(trade.gives)
    BY DEF Decode, Four, UnitOf
<1> QED BY <1>1 DEF IInv, Honoured

\* ... and so is one that pays what there is and asks for what is given.
LEMMA NewTrade ==
    ASSUME UNCHANGED <<flow, variant>>, NEW out, trade'.gives = out, trade'.pays <= trade'.has,
           \/ trade'.asks <= out
           \/ /\ trade'.buys /\ variant = "V2" /\ flow = "single"
              /\ trade'.asks < Decode(out) + UnitOf(out)
    PROVE  Honoured'
<1>1. Decode(trade.gives)' = Decode(out) /\ UnitOf(trade.gives)' = UnitOf(out)
    BY DEF Decode, Four, UnitOf
<1> QED BY <1>1 DEF Honoured

LEMMA PurchaseHonoured ==
    ASSUME IInv, UNCHANGED <<flow, variant>>,
           NEW out \in Out, NEW asks \in AskedIn(out), trade' = Purchase(out, asks)
    PROVE  Honoured' /\ trade'.value \in Nat
<1>1. /\ trade'.buys /\ trade'.has = optimal /\ trade'.pays = Paid /\ trade'.gives = out
      /\ trade'.asks = asks /\ trade'.value = Carried(Paid)
    BY DEF Purchase
<1>2. /\ Paid \in 0..optimal /\ optimal \in Nat
      /\ \/ asks <= out
         \/ variant = "V2" /\ flow = "single" /\ asks < Decode(out) + UnitOf(out)
    BY FrontrunAmounts, Amounts DEF IInv, InputOK
<1>3. Paid <= optimal /\ Paid \in Nat
    BY <1>2
<1>4. Honoured'
    BY <1>1, <1>2, <1>3, NewTrade
<1> QED BY <1>1, <1>3, <1>4, CarriedAmount

LEMMA SaleHonoured ==
    ASSUME IInv, pc = "back", UNCHANGED <<flow, variant>>,
           NEW out \in Out, trade' = Sale(out)
    PROVE  Honoured' /\ trade'.value \in Nat
<1>1. /\ trade'.has = token /\ trade'.pays = Sold /\ trade'.gives = out
      /\ trade'.asks = AskedOut(out)
      /\ trade'.value = IF variant = "V2" THEN Carried(AskedOut(out)) ELSE 0
    BY DEF Sale
<1>2. Sold \in 0..token /\ token \in Nat /\ AskedOut(out) \in 0..out /\ out \in Nat
    BY BackrunAmounts, Amounts DEF IInv, TypeOK
<1>3. Sold <= token /\ AskedOut(out) <= out /\ AskedOut(out) \in Nat
    BY <1>2
<1>4. Honoured'
    BY <1>1, <1>3, NewTrade
<1>5. Carried(AskedOut(out)) \in Nat
    BY <1>3, CarriedAmount
<1> QED BY <1>1, <1>4, <1>5

\* Steps that change the environment and nothing that the contract has.
LEMMA QuietStep ==
    ASSUME IInv, UNCHANGED <<input, world, good, output>>, funds' \in Nat, Honoured',
           env' \in [price : Nat, tip : Nat \cup {None}, nonce : Nat \cup {None}],
           env'.tip = env.tip,
           pc' \in {"front", "meats", "balance", "back", "error", "panic"},
           pc' = "front" => pc = "start",
           Querying', ReadyToSell', PanicsOnly', AllRun'
    PROVE  IInv'
<1>1. /\ UNCHANGED <<flow, variant, node, meats, optimal, nonce, weth, token, good>>
      /\ UNCHANGED <<recipe, revenue, offer>>
    BY DEF input, world, output
<1>2. TypeOK'
    BY <1>1 DEF IInv, TypeOK
<1>3. InputOK' /\ TipOfMeat' /\ NoTipYet'
    BY <1>1 DEF IInv, InputOK, TipOfMeat, NoTipYet
<1>4. TokenBounded'
    BY <1>1 DEF IInv, TokenBounded
<1>5. DustLeft' /\ RevenueGained' /\ FeesEarned'
    BY DEF DustLeft, RevenueGained, FeesEarned, Ended
<1>6. NonceReached' /\ Replayable'
    <2>1. pc' \notin Ended
        BY DEF Ended
    <2> QED BY <1>1, <2>1 DEF IInv, NonceReached, SentBefore, Replayable
<1> QED BY <1>2, <1>3, <1>4, <1>5, <1>6 DEF IInv

\* The query of the contract's balance before a search or a check.
LEMMA StartBalanceKeeps == ASSUME IInv, StartBalance PROVE IInv'
<1>1. /\ env' = [env EXCEPT !.price = BaseFee] /\ UNCHANGED <<input, world, good, output>>
      /\ funds' \in Nat /\ Honoured'
    BY SameTrade DEF StartBalance, IInv, TypeOK, input, deal
<1>2. pc = "start" /\ pc' \in {"front", "error"}
    BY DEF StartBalance
<1>3. Querying' /\ ReadyToSell' /\ PanicsOnly' /\ AllRun'
    BY <1>2 DEF Querying, ReadyToSell, PanicsOnly, AllRun, Ended
<1> QED BY <1>1, <1>2, <1>3, OurPrice, QuietStep

\* The frontrun of a mega sandwich.
LEMMA MegaFrontrunKeeps == ASSUME IInv, MegaFrontrun PROVE IInv'
<1>1. env' = [env EXCEPT !.price = BaseFee] /\ UNCHANGED <<input, world, good, output>>
    BY DEF MegaFrontrun
<1>2. pc' = "meats" /\ funds' \in Nat
    BY ChargedRight DEF MegaFrontrun
<1>3. Honoured'
    BY <1>1, SameTrade DEF MegaFrontrun, input
<1>4. Querying' /\ ReadyToSell' /\ PanicsOnly' /\ AllRun'
    BY <1>2 DEF Querying, ReadyToSell, PanicsOnly, AllRun, Ended
<1> QED BY <1>1, <1>2, <1>3, <1>4, OurPrice, QuietStep

\* What a frontrun or a backrun that fails has tried to swap.
LEMMA FailedTrade ==
    ASSUME IInv, UNCHANGED <<flow, variant, funds>>,
           \/ UNCHANGED trade
           \/ \E out \in Out : \E asks \in AskedIn(out) : trade' = Purchase(out, asks)
           \/ pc = "back" /\ \E out \in Out : trade' = Sale(out)
    PROVE  funds' \in Nat /\ Honoured'
<1>1. funds' \in Nat
    BY DEF IInv, TypeOK
<1>2. CASE UNCHANGED trade
    BY <1>1, <1>2, SameTrade
<1>3. CASE \E out \in Out : \E asks \in AskedIn(out) : trade' = Purchase(out, asks)
    BY <1>1, <1>3, PurchaseHonoured
<1>4. CASE pc = "back" /\ \E out \in Out : trade' = Sale(out)
    BY <1>1, <1>4, SaleHonoured
<1> QED BY <1>2, <1>3, <1>4

\* A frontrun that fails ends the simulation.  No victim has set a tip by then, so that the
\* EVM refuses it for want of ether only.
LEMMA FrontrunFailsKeeps == ASSUME IInv, FrontrunFails PROVE IInv'
<1>1. /\ env' = [env EXCEPT !.price = BaseFee] /\ UNCHANGED <<input, world, good, output>>
      /\ funds' = funds /\ pc = "front"
    BY DEF FrontrunFails
<1>2. UNCHANGED <<flow, variant, node, meats, token>>
    BY <1>1 DEF input, world
<1>3. funds' \in Nat /\ Honoured'
    BY <1>1, <1>2, FailedTrade DEF FrontrunFails, Unquoted, Bought
<1>4. Payable(env')
    BY <1>1, OurPrice DEF IInv, NoTipYet
<1>5. /\ pc' \in {"error", "panic"}
      /\ pc' = "panic" => flow # "evaluate" /\ (node = "fails" \/ ~Funded(trade'.value))
    BY <1>4 DEF FrontrunFails, Unquoted, Unsent, Unwraps
<1>6. PanicsOnly'
    <2>1. Funded(trade.value)' <=> Funded(trade'.value)
        BY <1>1 DEF Funded
    <2> QED BY <1>2, <1>5, <2>1 DEF PanicsOnly
<1>7. Querying' /\ ReadyToSell' /\ AllRun'
    BY <1>5 DEF Querying, ReadyToSell, AllRun, Ended
<1> QED BY <1>1, <1>3, <1>5, <1>6, <1>7, OurPrice, QuietStep

\* A victim without a type and a gas price makes a check panic, and a mega sandwich.
LEMMA MeatPanicsKeeps == ASSUME IInv, MeatPanics PROVE IInv'
<1>1. /\ UNCHANGED <<input, world, good, output>> /\ env' = env /\ pc' = "panic"
      /\ funds' \in Nat /\ Honoured'
    BY SameTrade DEF MeatPanics, IInv, TypeOK, input, deal
<1>2. env' \in [price : Nat, tip : Nat \cup {None}, nonce : Nat \cup {None}]
    BY <1>1 DEF IInv, InputOK
<1>3. Len(good) + 1 \in 1..Len(meats)
    <2>1. Len(good) \in Nat /\ Len(meats) \in Nat /\ Len(good) < Len(meats)
        BY DEF IInv, TypeOK, InputOK, MeatPanics
    <2> QED BY <2>1
<1>4. flow # "evaluate" /\ meats[Len(good) + 1].cap = None
    BY DEF MeatPanics, NoPrice, meat
<1>5. PanicsOnly'
    BY <1>1, <1>3, <1>4 DEF PanicsOnly, input
<1>6. Querying' /\ ReadyToSell' /\ AllRun'
    BY <1>1 DEF Querying, ReadyToSell, AllRun, Ended
<1> QED BY <1>1, <1>2, <1>5, <1>6, QuietStep

\* When all victims have run, the environment is cleared of the nonce.
LEMMA CleanKeeps == ASSUME IInv, Clean PROVE IInv'
<1>1. /\ env' = [env EXCEPT !.nonce = None] /\ UNCHANGED <<input, world, good, output>>
      /\ funds' \in Nat /\ Honoured'
    BY SameTrade DEF Clean, IInv, TypeOK, input, deal
<1>2. pc' \in {"balance", "back"} /\ (pc' = "back" => flow \notin Checks)
    BY DEF Clean
<1>3. /\ env' \in [price : Nat, tip : Nat \cup {None}, nonce : Nat \cup {None}]
      /\ env'.tip = env.tip
    BY <1>1 DEF IInv, InputOK
<1>4. Querying' /\ ReadyToSell' /\ PanicsOnly'
    <2>1. flow' = flow /\ (pc' = "balance" => flow \in Checks)
        BY <1>1 DEF input, Clean
    <2> QED BY <1>2, <2>1 DEF Querying, ReadyToSell, PanicsOnly
<1>5. AllRun'
    BY <1>1 DEF AllRun, Clean, input, world
<1> QED BY <1>1, <1>2, <1>3, <1>4, <1>5, QuietStep

\* The query fails if the last victim's tip is too high, and so the backrun need not; a V2
\* sandwich goes on only with an amount that one can be taken from.
LEMMA TokenBalanceKeeps == ASSUME IInv, TokenBalance PROVE IInv'
<1>1. /\ env' = [env EXCEPT !.price = BaseFee] /\ UNCHANGED <<input, world, good, output>>
      /\ funds' \in Nat /\ Honoured'
    BY SameTrade DEF TokenBalance, IInv, TypeOK, input, deal
<1>2. /\ UNCHANGED <<flow, variant, node, meats, token>> /\ token \in 0..Largest
      /\ Four(token) \in Nat /\ (Four(token) = 0 => token = 0)
    <2>1. token \in 0..Largest
        BY Amounts DEF IInv, TypeOK, TokenBounded
    <2> QED BY <1>1, <2>1, FourBytesBounds DEF input, world
<1>3. env'.tip = env.tip /\ (Payable(env') <=> (env.tip # None => env.tip <= BaseFee))
    BY <1>1, OurPrice
<1>4. \/ pc' = "error"
      \/ pc' = "back" /\ Payable(env') /\ (variant = "V2" => Four(token) # 0)
      \/ pc' = "panic" /\ variant = "V2" /\ Four(token) = 0
    BY DEF TokenBalance
<1>5. ReadyToSell'
    <2>1. SUFFICES ASSUME pc' = "back"
                   PROVE  /\ env'.tip # None => env'.tip <= BaseFee
                          /\ variant' = "V2" => Four(token)' > 0
        BY DEF ReadyToSell
    <2>2. Four(token)' = Four(token)
        BY <1>2 DEF Four, UnitOf
    <2> QED BY <1>2, <1>3, <1>4, <2>1, <2>2
<1>6. flow \in Checks
    BY DEF IInv, Querying, TokenBalance
<1>7. Querying' /\ PanicsOnly'
    BY <1>2, <1>4, <1>6 DEF Querying, PanicsOnly
<1>8. AllRun'
    BY <1>1 DEF IInv, AllRun, TokenBalance, input, world
<1> QED BY <1>1, <1>4, <1>5, <1>7, <1>8, OurPrice, QuietStep

\* Only a tip, or the want of ether, stops the backrun before the EVM runs it; after the
\* query of a check no tip does, so that it is a victim of a mega sandwich that tips too much.
LEMMA BackrunFailsKeeps == ASSUME IInv, BackrunFails PROVE IInv'
<1>1. /\ env' = [env EXCEPT !.price = BaseFee] /\ UNCHANGED <<input, world, good, output>>
      /\ funds' = funds /\ pc = "back"
    BY DEF BackrunFails
<1>2. UNCHANGED <<flow, variant, node, meats, token>>
    BY <1>1 DEF input, world
<1>3. funds' \in Nat /\ Honoured'
    BY <1>1, <1>2, FailedTrade DEF BackrunFails, Unquoted
<1>4. env'.tip = env.tip /\ (Payable(env') <=> (env.tip # None => env.tip <= BaseFee))
    BY <1>1, OurPrice
<1>5. /\ pc' \in {"error", "panic"}
      /\ pc' = "panic" =>
            flow # "evaluate" /\ (node = "fails" \/ ~Funded(trade'.value) \/ ~Payable(env'))
    BY DEF BackrunFails, Unquoted, Unsent, Unwraps
<1>6. ASSUME ~Payable(env'), flow # "evaluate"
      PROVE  flow = "mega" /\ \E i \in 1..Len(meats) : meats[i].tip # None /\ meats[i].tip > BaseFee
    <2>1. env.tip # None /\ ~(env.tip <= BaseFee)
        BY <1>4, <1>6
    <2>2. flow = "mega"
        BY <1>1, <1>6, <2>1 DEF IInv, InputOK, ReadyToSell, Checks
    <2>3. PICK i \in 1..Len(meats) : meats[i].tip = env.tip
        BY <2>1 DEF IInv, TipOfMeat
    <2>4. env.tip \in Nat /\ BaseFee \in Nat
        BY <2>1, Amounts DEF IInv, InputOK
    <2> QED BY <2>1, <2>2, <2>3, <2>4
<1>7. PanicsOnly'
    <2>1. Funded(trade.value)' <=> Funded(trade'.value)
        BY <1>1 DEF Funded
    <2> QED BY <1>2, <1>5, <1>6, <2>1 DEF PanicsOnly
<1>8. Querying' /\ ReadyToSell' /\ AllRun'
    BY <1>5 DEF Querying, ReadyToSell, AllRun, Ended
<1> QED BY <1>1, <1>3, <1>5, <1>7, <1>8, OurPrice, QuietStep

\* A victim sets the tip to its own, or leaves the one before.
LEMMA MeatSet ==
    ASSUME IInv, SetMeat
    PROVE  /\ env' \in [price : Nat, tip : Nat \cup {None}, nonce : Nat \cup {None}]
           /\ TipOfMeat' /\ UNCHANGED <<flow, variant, node, meats, optimal, weth, token>>
           /\ UNCHANGED <<funds, trade, recipe, revenue, offer>> /\ Len(good) < Len(meats) /\ meat \in Meat
<1>1. /\ UNCHANGED <<flow, variant, node, meats, optimal, weth, token>>
      /\ UNCHANGED <<funds, trade, recipe, revenue, offer>>
    BY DEF SetMeat, input, deal, output
<1>2. Len(good) \in Nat /\ Len(good) < Len(meats) /\ meats \in Seq(Meat)
    BY DEF IInv, TypeOK, InputOK, SetMeat
<1>3. Len(good) + 1 \in 1..Len(meats) /\ meat = meats[Len(good) + 1] /\ meat \in Meat
    <2>1. Len(good) + 1 \in 1..Len(meats)
        BY <1>2
    <2> QED BY <1>2, <2>1 DEF meat
<1>4. meat.cap \in Nat \cup {None} /\ meat.tip \in Nat \cup {None} /\ meat.nonce \in Nat
    BY <1>3, Amounts
<1>5. env' = [price |-> IF meat.cap = None THEN 0 ELSE meat.cap, nonce |-> meat.nonce,
              tip |-> IF meat.tip = None THEN env.tip ELSE meat.tip]
    BY DEF SetMeat
<1>6. env' \in [price : Nat, tip : Nat \cup {None}, nonce : Nat \cup {None}]
    BY <1>4, <1>5 DEF IInv, InputOK
<1>7. TipOfMeat'
    <2>1. CASE meat.tip = None
        BY <1>1, <1>5, <2>1 DEF IInv, TipOfMeat
    <2>2. CASE meat.tip # None
        BY <1>1, <1>3, <1>5, <2>2 DEF TipOfMeat
    <2> QED BY <2>1, <2>2
<1> QED BY <1>1, <1>2, <1>3, <1>6, <1>7

\* Steps of the victims' part: the contract and the reports are not touched.
LEMMA MeatStep ==
    ASSUME IInv, SetMeat, pc' \in {"meats", "error"},
           nonce' \in [Sender -> Nat],
           good' = good \/ \E ok \in BOOLEAN : good' = Append(good, ok),
           NonceReached'
    PROVE  IInv'
<1>1. /\ env' \in [price : Nat, tip : Nat \cup {None}, nonce : Nat \cup {None}]
      /\ TipOfMeat' /\ UNCHANGED <<flow, variant, node, meats, optimal, weth, token>>
      /\ UNCHANGED <<funds, trade, recipe, revenue, offer>> /\ Len(good) < Len(meats)
    BY MeatSet
<1>2. good' \in Seq(BOOLEAN) /\ Len(good') <= Len(meats)
    <2>1. good \in Seq(BOOLEAN) /\ Len(good) \in Nat /\ Len(meats) \in Nat
        BY DEF IInv, TypeOK, InputOK
    <2> QED BY <1>1, <2>1
<1>3. TypeOK'
    BY <1>1, <1>2 DEF IInv, TypeOK
<1>4. InputOK' /\ Honoured' /\ TokenBounded' /\ NoTipYet'
    BY <1>1, SameTrade DEF IInv, InputOK, TokenBounded, NoTipYet
<1>5. Querying' /\ ReadyToSell' /\ DustLeft' /\ RevenueGained' /\ PanicsOnly' /\ FeesEarned'
    BY DEF Querying, ReadyToSell, DustLeft, RevenueGained, PanicsOnly, FeesEarned, Ended
<1>6. AllRun' /\ Replayable'
    BY DEF AllRun, Replayable, Ended
<1> QED BY <1>1, <1>3, <1>4, <1>5, <1>6 DEF IInv

\* One more victim is one more of its sender.
LEMMA OneMore ==
    ASSUME NEW n \in Nat, NEW a
    PROVE  SentBefore(n + 1, a) =
              IF meats[n + 1].from = a THEN SentBefore(n, a) + 1 ELSE SentBefore(n, a)
<1> DEFINE S(m) == {i \in 1..m : meats[i].from = a}
<1>1. S(n) \in SUBSET (1..n) /\ n + 1 \notin S(n)
    OBVIOUS
<1>2. IsFiniteSet(S(n))
    BY <1>1, Places
<1>3. S(n + 1) = IF meats[n + 1].from = a THEN S(n) \cup {n + 1} ELSE S(n)
    OBVIOUS
<1>4. SentBefore(n, a) = Cardinality(S(n)) /\ SentBefore(n + 1, a) = Cardinality(S(n + 1))
    BY DEF SentBefore
<1> HIDE DEF S
<1>5. Cardinality(S(n) \cup {n + 1}) = Cardinality(S(n)) + 1
    BY <1>1, <1>2, FS_AddElement
<1>6. CASE meats[n + 1].from = a
    BY <1>3, <1>4, <1>5, <1>6
<1>7. CASE meats[n + 1].from # a
    BY <1>3, <1>4, <1>7
<1> QED BY <1>6, <1>7

\* A victim that runs uses its sender's nonce.
LEMMA MeatRunsKeeps == ASSUME IInv, MeatRuns PROVE IInv'
<1>1. SetMeat /\ pc' = "meats" /\ \E ok \in BOOLEAN : good' = Append(good, ok)
    BY DEF MeatRuns, SetMeat
<1>2. nonce \in [Sender -> Nat] /\ meat.from \in Sender
    BY <1>1, MeatSet DEF IInv, TypeOK, Sender
<1>3. nonce' \in [Sender -> Nat]
    BY <1>2 DEF MeatRuns
<1>4. NonceReached'
    <2> SUFFICES ASSUME flow' # "evaluate"
                 PROVE  /\ \A a \in Sender : nonce'[a] = SentBefore(Len(good), a)'
                        /\ \A k \in 1..Len(good') :
                              meats'[k].nonce = SentBefore(k - 1, meats[k].from)'
        BY DEF NonceReached
    <2>1. meats' = meats /\ flow' = flow /\ Len(good) < Len(meats)
        BY <1>1, MeatSet
    <2>2. PICK n \in Nat : n = Len(good)
        BY DEF IInv, TypeOK
    <2>3. Len(good') = n + 1
        BY <1>1, <2>2 DEF IInv, TypeOK
    <2>4. /\ \A a \in Sender : nonce[a] = SentBefore(n, a)
          /\ \A k \in 1..n : meats[k].nonce = SentBefore(k - 1, meats[k].from)
        BY <2>1, <2>2 DEF IInv, NonceReached
    <2>5. meat = meats[n + 1] /\ meat.nonce = nonce[meat.from]
        BY <2>2 DEF MeatRuns, SetMeat, meat
    <2>6. \A a, k : SentBefore(k, a)' = SentBefore(k, a)
        BY <2>1 DEF SentBefore
    <2>7. nonce' = [nonce EXCEPT ![meat.from] = @ + 1]
        BY DEF MeatRuns
    <2>8. ASSUME NEW a \in Sender PROVE nonce'[a] = SentBefore(n + 1, a)
        <3>1. SentBefore(n + 1, a) = IF meat.from = a THEN SentBefore(n, a) + 1 ELSE SentBefore(n, a)
            BY <2>5, OneMore
        <3> QED BY <1>2, <2>4, <2>7, <3>1
    <2>9. ASSUME NEW k \in 1..(n + 1) PROVE meats[k].nonce = SentBefore(k - 1, meats[k].from)
        <3>1. CASE k \in 1..n
            BY <2>4, <3>1
        <3>2. CASE k = n + 1
            BY <1>2, <2>4, <2>5, <3>2
        <3> QED BY <3>1, <3>2
    <2> QED BY <2>1, <2>3, <2>6, <2>8, <2>9
<1> QED BY <1>1, <1>3, <1>4, MeatStep

\* A victim that is rejected changes no nonce.
LEMMA MeatRejectedKeeps == ASSUME IInv, MeatRejected PROVE IInv'
<1>1. SetMeat /\ pc' \in {"meats", "error"}
    BY DEF MeatRejected, SetMeat
<1>2. good' = good \/ \E ok \in BOOLEAN : good' = Append(good, ok)
    BY DEF MeatRejected
<1>3. nonce' \in [Sender -> Nat]
    BY DEF MeatRejected, IInv, TypeOK
<1>4. NonceReached'
    <2>1. /\ UNCHANGED <<meats, flow, nonce>>
          /\ flow # "evaluate" => good' = good
        BY <1>1, MeatSet DEF MeatRejected
    <2> QED BY <2>1 DEF IInv, NonceReached, SentBefore
<1> QED BY <1>1, <1>2, <1>3, <1>4, MeatStep

\* The swaps: what is paid is there and what is asked for is given, the balance of the
\* token stays one that can be written, and a check leaves some of it on a V2 pool.
LEMMA SwapStep ==
    ASSUME IInv, UNCHANGED <<input, nonce, good, output>>,
           env' = [env EXCEPT !.price = BaseFee],
           pc' = "meats" \/ (pc = "back" /\ pc' = "report"),
           weth' \in Int, token' \in 0..Largest, funds' \in Nat, Honoured',
           pc' = "report" /\ variant = "V2" /\ flow \in Checks => token' >= 1
    PROVE  IInv'
<1>1. /\ UNCHANGED <<flow, variant, node, meats, optimal, nonce, good>>
      /\ UNCHANGED <<recipe, revenue, offer>>
    BY DEF input, output
<1>2. /\ env' \in [price : Nat, tip : Nat \cup {None}, nonce : Nat \cup {None}]
      /\ env'.tip = env.tip
    BY OurPrice
<1>3. token' \in Nat /\ token' <= Largest
    BY Amounts
<1>4. TypeOK'
    BY <1>1, <1>2, <1>3 DEF IInv, TypeOK
<1>5. InputOK' /\ TipOfMeat'
    BY <1>1, <1>2 DEF IInv, InputOK, TipOfMeat
<1>6. TokenBounded' /\ NoTipYet'
    BY <1>3 DEF TokenBounded, NoTipYet
<1>7. DustLeft'
    BY <1>1 DEF DustLeft, Ended
<1>8. Querying' /\ ReadyToSell' /\ RevenueGained' /\ PanicsOnly' /\ FeesEarned'
    BY DEF Querying, ReadyToSell, RevenueGained, PanicsOnly, FeesEarned, Ended
<1>9. NonceReached' /\ AllRun' /\ Replayable'
    BY <1>1 DEF IInv, NonceReached, SentBefore, AllRun, Replayable, Ended
<1> QED BY <1>4, <1>5, <1>6, <1>7, <1>8, <1>9 DEF IInv

\* The frontrun pays no more than there is, and the pool gives what is asked for.
LEMMA FrontrunKeeps == ASSUME IInv, Frontrun PROVE IInv'
<1>1. /\ UNCHANGED <<input, nonce, good, output>> /\ env' = [env EXCEPT !.price = BaseFee]
      /\ pc' = "meats" /\ UNCHANGED <<flow, variant>>
    BY DEF Frontrun, input
<1>2. PICK out \in Out : \E asks \in AskedIn(out) : trade' = Purchase(out, asks)
    BY DEF Frontrun, Bought
<1>3. PICK asks \in AskedIn(out) : trade' = Purchase(out, asks)
    BY <1>2
<1>4. trade'.asks = asks /\ trade'.gives = out
    BY <1>3 DEF Purchase
<1>5. Honoured' /\ trade'.value \in Nat
    BY <1>1, <1>3, PurchaseHonoured
<1>6. funds' \in Nat
    BY <1>5, ChargedRight DEF Frontrun
<1>7. Paid \in 0..optimal /\ asks \in Nat /\ out \in Nat /\ asks <= out
    <2>1. variant # "V2" => asks <= out
        BY FrontrunAmounts
    <2>2. variant = "V2" => asks <= out
        BY <1>4 DEF Frontrun, Swaps
    <2> QED BY <2>1, <2>2, FrontrunAmounts
<1>8. PICK brought \in 0..asks : token' = token + brought
    BY <1>4 DEF Frontrun
<1>9. optimal \in Nat /\ token \in Nat /\ token + out <= Largest /\ Largest \in Nat /\ weth \in Int
    <2>1. token \in Dust
        BY DEF Frontrun, IInv, TokenBounded
    <2>2. optimal \in Nat /\ weth \in Int /\ token \in Nat
        BY Amounts DEF IInv, InputOK, TypeOK
    <2> QED BY <2>1, <2>2, Amounts
<1>10. weth' \in Int /\ token' \in 0..Largest
    <2>1. weth' = weth - Paid
        BY DEF Frontrun
    <2> QED BY <1>7, <1>8, <1>9, <2>1
<1> QED BY <1>1, <1>5, <1>6, <1>10, SwapStep

\* The backrun asks for no more than the pool gives.
LEMMA BackrunKeeps == ASSUME IInv, Backrun PROVE IInv'
<1>1. PICK out \in Out : trade' = Sale(out) /\ weth' = weth + AskedOut(out)
    BY DEF Backrun
<1>2. /\ UNCHANGED <<input, nonce, good, output>> /\ env' = [env EXCEPT !.price = BaseFee]
      /\ pc = "back" /\ pc' = "report" /\ UNCHANGED <<flow, variant>>
    BY DEF Backrun, input
<1>3. /\ Sold \in 0..token /\ AskedOut(out) \in 0..out
      /\ variant = "V2" /\ flow \in Checks => Sold <= token - 1
    BY <1>2, BackrunAmounts
<1>4. Honoured' /\ trade'.value \in Nat
    BY <1>1, <1>2, SaleHonoured
<1>5. funds' \in Nat
    BY <1>4, ChargedRight DEF Backrun
<1>6. out \in Nat /\ weth \in Int /\ token \in Nat /\ token <= Largest /\ Largest \in Nat
    BY Amounts DEF IInv, TypeOK, TokenBounded
<1>7. /\ weth' \in Int /\ token' \in 0..Largest
      /\ variant = "V2" /\ flow \in Checks => token' >= 1
    <2>1. token' = token - Sold
        BY DEF Backrun
    <2> QED BY <1>1, <1>3, <1>6, <2>1
<1> QED BY <1>2, <1>4, <1>5, <1>7, SwapStep

\* The backrun of a mega sandwich, with the fee of some victim.
LEMMA MegaBackrunKeeps == ASSUME IInv, MegaBackrun PROVE IInv'
<1>1. PICK out \in Out : weth' = weth - optimal + out
    BY DEF MegaBackrun
<1>2. optimal \in Int /\ out \in Int /\ weth \in Int /\ token \in 0..Largest
    BY Amounts DEF IInv, InputOK, TypeOK, TokenBounded
<1>3. /\ UNCHANGED <<input, nonce, good, output>> /\ env' = [env EXCEPT !.price = BaseFee]
      /\ pc = "back" /\ pc' = "report" /\ UNCHANGED <<flow, variant, token, trade>>
    BY DEF MegaBackrun, input
<1>4. weth' \in Int /\ token' \in 0..Largest /\ flow \notin Checks
    BY <1>1, <1>2, <1>3 DEF MegaBackrun, Checks
<1>5. Honoured' /\ funds' \in Nat
    BY <1>3, SameTrade, ChargedRight DEF MegaBackrun
<1> QED BY <1>3, <1>4, <1>5, SwapStep

\* What was left out of a recipe had no later victim of its sender: then the victims of a
\* sender before a place in the recipe are the ones before the same victim in the sandwich.
LEMMA GoodReplays ==
    ASSUME IInv, flow # "evaluate", Len(good) = Len(meats), NoLater
    PROVE  Replays(GoodMeats)
<1> DEFINE S == Passed
           p == Increasing(S)
<1>1. PICK n \in Nat : n = Len(meats)
    BY DEF IInv, InputOK
<1>2. S \in SUBSET (1..n)
    BY <1>1 DEF Passed
<1>3. PICK c \in Nat : c = Cardinality(S)
    <2> HIDE DEF S
    <2> QED BY <1>2, Places
<1>4. /\ p \in [1..c -> S] /\ \A k, l \in 1..c : k < l => p[k] < p[l]
      /\ \A x \in S : \E k \in 1..c : p[k] = x
    <2> HIDE DEF S
    <2> QED BY <1>2, <1>3, IncreasingEnumerates
<1>5. GoodMeats = [k \in 1..c |-> meats[p[k]]]
    BY <1>3 DEF GoodMeats
<1>6. \A i \in 1..n : i \in S <=> good[i]
    BY <1>1 DEF Passed
<1> HIDE DEF S, p
<1>7. Len(GoodMeats) = c
    BY <1>5
<1>8. ASSUME NEW k \in 1..c
      PROVE  GoodMeats[k].nonce =
                Cardinality({i \in 1..(k - 1) : GoodMeats[i].from = GoodMeats[k].from})
    <2> DEFINE A == {i \in 1..(k - 1) : GoodMeats[i].from = GoodMeats[k].from}
               B == {i \in 1..(p[k] - 1) : meats[i].from = meats[p[k]].from}
               f == [i \in A |-> p[i]]
    <2>1. p[k] \in S /\ p[k] \in 1..n /\ GoodMeats[k] = meats[p[k]]
        BY <1>2, <1>4, <1>5
    <2>2. \A i \in A : i \in 1..c /\ i < k /\ meats[p[i]].from = meats[p[k]].from
        BY <1>5, <2>1
    <2>3. \A i \in 1..c : p[i] \in 1..n /\ good[p[i]]
        BY <1>2, <1>4, <1>6
    <2>4. f \in [A -> B]
        <3>1. \A i \in A : p[i] < p[k] /\ p[i] \in 1..n
            BY <1>4, <2>2, <2>3
        <3>2. \A i \in A : p[i] \in B
            BY <2>1, <2>2, <3>1
        <3> HIDE DEF A, B
        <3> QED BY <3>2
    <2>5. \A i, j \in A : f[i] = f[j] => i = j
        <3>1. SUFFICES ASSUME NEW i \in A, NEW j \in A, p[i] = p[j], i # j PROVE FALSE
            OBVIOUS
        <3>2. i \in 1..c /\ j \in 1..c
            BY <2>2
        <3>3. p[i] \in Int /\ p[j] \in Int
            BY <2>3, <3>2
        <3>4. i < j \/ j < i
            BY <3>1, <3>2
        <3> QED BY <1>4, <3>1, <3>2, <3>3, <3>4
    <2>6. \A b \in B : \E i \in A : f[i] = b
        <3>1. SUFFICES ASSUME NEW b \in B PROVE \E i \in A : p[i] = b
            OBVIOUS
        <3>2. b \in 1..n /\ b < p[k] /\ meats[b].from = meats[p[k]].from
            BY <2>1
        <3>3. good[b]
            BY <1>1, <2>1, <2>3, <3>2 DEF NoLater
        <3>4. PICK i \in 1..c : p[i] = b
            BY <1>4, <1>6, <3>2, <3>3
        <3>5. i < k
            <4>1. ~(k < i) /\ k # i
                BY <1>4, <2>1, <3>2, <3>4
            <4> QED BY <4>1
        <3>6. i \in 1..(k - 1) /\ GoodMeats[i].from = GoodMeats[k].from
            BY <1>5, <2>1, <3>2, <3>4, <3>5
        <3> QED BY <3>4, <3>6
    <2>7. IsFiniteSet(A)
        <3>1. k - 1 \in Nat /\ A \in SUBSET (1..(k - 1))
            OBVIOUS
        <3> HIDE DEF A
        <3> QED BY <3>1, Places
    <2>8. Cardinality(B) = Cardinality(A)
        <3> HIDE DEF A, B, f
        <3>1. f \in Injection(A, B) /\ f \in Surjection(A, B)
            BY <2>4, <2>5, <2>6, Fun_IsInj, Fun_IsSurj
        <3>2. ExistsBijection(A, B)
            BY <3>1 DEF ExistsBijection, Bijection
        <3> QED BY <2>7, <3>2, FS_Bijection
    <2>9. meats[p[k]].nonce = Cardinality(B)
        BY <1>1, <2>1 DEF IInv, NonceReached, SentBefore
    <2> QED BY <2>1, <2>8, <2>9
<1> QED BY <1>7, <1>8 DEF Replays

\* The recipe is reported with the meats that passed.
LEMMA ReportKeeps == ASSUME IInv, Report PROVE IInv'
<1>1. /\ UNCHANGED <<flow, variant, node, meats, optimal, nonce, weth, token, env, good>>
      /\ UNCHANGED <<funds, trade>> /\ offer' = offer /\ pc = "report" /\ pc' = "done"
    BY DEF Report, input, world, deal
<1>2. weth \in Int /\ StartWeth \in Nat
    BY Amounts DEF IInv, TypeOK
<1>3. revenue' = (IF weth < StartWeth THEN 0 ELSE weth - StartWeth) /\ revenue' \in Nat
    BY <1>2 DEF Report
<1>4. TypeOK'
    BY <1>1, <1>3 DEF IInv, TypeOK
<1>5. InputOK' /\ TipOfMeat' /\ NoTipYet' /\ Honoured' /\ TokenBounded'
    BY <1>1, SameTrade DEF IInv, InputOK, TipOfMeat, NoTipYet, TokenBounded
<1>6. DustLeft'
    BY <1>1 DEF IInv, DustLeft, Ended
<1>7. RevenueGained'
    BY <1>1, <1>3 DEF RevenueGained
<1>8. Querying' /\ ReadyToSell' /\ PanicsOnly' /\ FeesEarned'
    BY <1>1 DEF Querying, ReadyToSell, PanicsOnly, FeesEarned
<1>9. NonceReached' /\ AllRun'
    BY <1>1 DEF IInv, NonceReached, SentBefore, AllRun
<1>10. Replayable'
    <2>1. SUFFICES ASSUME flow = "mega" \/ NoLater PROVE Replays(recipe')
        BY <1>1 DEF Replayable, NoLater
    <2>2. flow \in {"single", "multi", "mega", "evaluate"} /\ Len(good) = Len(meats)
        BY <1>1 DEF IInv, InputOK, AllRun
    <2>3. CASE flow \in Checks
        <3>1. recipe' = GoodMeats /\ NoLater
            BY <2>1, <2>3 DEF Report, Checks
        <3> QED BY <2>2, <2>3, <3>1, GoodReplays DEF Checks
    <2>4. CASE flow = "mega"
        <3>1. recipe' = meats
            BY <2>4 DEF Report, Checks
        <3> QED BY <2>2, <2>4, <3>1 DEF IInv, NonceReached, SentBefore, Replays
    <2>5. CASE flow = "evaluate"
        <3>1. recipe' = <<>> /\ Len(<<>>) = 0
            BY <2>5 DEF Report, Checks
        <3> QED BY <3>1 DEF Replays
    <2> QED BY <2>2, <2>3, <2>4, <2>5 DEF Checks
<1> QED BY <1>4, <1>5, <1>6, <1>7, <1>8, <1>9, <1>10 DEF IInv

\* A query that fails while the recipe is put together.
LEMMA ReportFailsKeeps == ASSUME IInv, ReportFails PROVE IInv'
<1>1. /\ UNCHANGED <<input, world, good, output>> /\ env' = env /\ pc' = "error"
      /\ funds' \in Nat /\ Honoured'
    BY SameTrade DEF ReportFails, IInv, TypeOK, input, deal
<1>2. env' \in [price : Nat, tip : Nat \cup {None}, nonce : Nat \cup {None}]
    BY <1>1 DEF IInv, InputOK
<1>3. Querying' /\ ReadyToSell' /\ PanicsOnly' /\ AllRun'
    BY <1>1 DEF Querying, ReadyToSell, PanicsOnly, AllRun, Ended
<1> QED BY <1>1, <1>2, <1>3, QuietStep

\* An offer costs no more than the revenue, and an overpayment for the first dust; it is
\* made only for a recipe that has a revenue, which is then what the contract has gained.
LEMMA PriceKeeps == ASSUME IInv, Price PROVE IInv'
<1>1. /\ UNCHANGED <<flow, variant, node, meats, optimal, nonce, weth, token, env, good>>
      /\ UNCHANGED <<funds, trade>> /\ revenue' = revenue
      /\ pc = "done" /\ pc' \in {"offered", "declined"}
    BY DEF Price, input, world, deal
<1>2. /\ revenue \in Nat /\ weth \in Int /\ StartWeth \in Nat /\ BaseFee \in Nat \ {0}
      /\ revenue = IF weth < StartWeth THEN 0 ELSE weth - StartWeth
    BY <1>1, Amounts DEF IInv, TypeOK, RevenueGained, Ended
<1> DEFINE Known == offer' \in [revenue : Nat, frontGas : Nat, backGas : Nat,
                               hasDust : BOOLEAN, maxFee : Nat]
<1>3. ASSUME pc' = "offered" PROVE Known /\ FeesEarned'
    <2>1. PICK front \in Gas, back \in Gas, dusty \in BOOLEAN, share \in Share :
              LET o == [revenue |-> revenue, frontGas |-> front, backGas |-> back,
                        hasDust |-> dusty]
              IN  /\ Offered(o, BaseFee, share)
                  /\ offer' = [revenue |-> revenue, frontGas |-> front, backGas |-> back,
                               hasDust |-> dusty, maxFee |-> MaxFee(o, BaseFee, share)]
        BY <1>3 DEF Price
    <2> DEFINE o == [revenue |-> revenue, frontGas |-> front, backGas |-> back,
                     hasDust |-> dusty]
               fee == MaxFee(o, BaseFee, share)
    <2>2. o \in Offer /\ front \in Nat \ {0} /\ back \in Nat \ {0} /\ Overpay \in Nat
        BY <1>2, Amounts, FeesAssumption DEF Offer
    <2>3. Offered(o, BaseFee, share) /\ Covered(o, BaseFee)
        BY <2>1 DEF Offered
    <2>4. /\ fee \in Nat /\ BaseFee <= fee
          /\ Cost(o, BaseFee, fee) <= o.revenue + (IF o.hasDust THEN 0 ELSE Overpay)
        <3> HIDE DEF o
        <3> QED BY <1>2, <2>2, <2>3, CostCovered
    <2>5. offer' = [revenue |-> revenue, frontGas |-> front, backGas |-> back,
                    hasDust |-> dusty, maxFee |-> fee]
        BY <2>1
    <2> HIDE DEF fee
    <2>6. /\ offer'.maxFee = fee /\ offer'.hasDust = dusty
          /\ Cost(offer', BaseFee, fee) = Cost(o, BaseFee, fee)
        BY <2>5 DEF Cost
    <2>7. revenue = weth - StartWeth
        <3>1. front * BaseFee <= revenue
            BY <2>3 DEF Covered
        <3>2. front * BaseFee >= 1
            BY <1>2, <2>2
        <3> QED BY <1>2, <2>2, <3>1, <3>2
    <2>8. Cost(offer', BaseFee, fee)
            <= weth - StartWeth + (IF offer'.hasDust THEN 0 ELSE Overpay)
        BY <2>4, <2>6, <2>7
    <2>9. FeesEarned'
        BY <1>1, <2>4, <2>6, <2>8 DEF FeesEarned
    <2>10. Known
        BY <1>2, <2>2, <2>4, <2>5
    <2> QED BY <2>9, <2>10
<1>4. ASSUME pc' = "declined" PROVE Known /\ FeesEarned'
    <2>1. offer' = offer
        BY <1>4 DEF Price
    <2> QED BY <1>4, <2>1 DEF IInv, TypeOK, FeesEarned
<1>5. Known /\ FeesEarned'
    BY <1>1, <1>3, <1>4
<1>6. TypeOK'
    BY <1>1, <1>5 DEF IInv, TypeOK
<1>7. InputOK' /\ TipOfMeat' /\ NoTipYet' /\ Honoured' /\ TokenBounded'
    BY <1>1, SameTrade DEF IInv, InputOK, TipOfMeat, NoTipYet, TokenBounded
<1>8. DustLeft' /\ RevenueGained'
    BY <1>1 DEF IInv, DustLeft, RevenueGained, Ended
<1>9. Querying' /\ ReadyToSell' /\ PanicsOnly'
    BY <1>1 DEF Querying, ReadyToSell, PanicsOnly
<1>10. NonceReached' /\ AllRun'
    BY <1>1 DEF IInv, NonceReached, SentBefore, AllRun, Ended
<1>11. Replayable'
    <2>1. recipe' = recipe
        BY DEF Price
    <2> QED BY <1>1, <2>1 DEF IInv, Replayable, Replays, NoLater, Ended
<1> QED BY <1>5, <1>6, <1>7, <1>8, <1>9, <1>10, <1>11 DEF IInv

\* All steps together.
LEMMA Inductive == IInv /\ [Next]_vars => IInv'
<1> SUFFICES ASSUME IInv, [Next]_vars PROVE IInv'
    OBVIOUS
<1>1. CASE StartBalance BY <1>1, StartBalanceKeeps
<1>2. CASE Frontrun BY <1>2, FrontrunKeeps
<1>3. CASE MegaFrontrun BY <1>3, MegaFrontrunKeeps
<1>4. CASE FrontrunFails BY <1>4, FrontrunFailsKeeps
<1>5. CASE MeatRuns BY <1>5, MeatRunsKeeps
<1>6. CASE MeatRejected BY <1>6, MeatRejectedKeeps
<1>7. CASE Clean BY <1>7, CleanKeeps
<1>8. CASE TokenBalance BY <1>8, TokenBalanceKeeps
<1>9. CASE Backrun BY <1>9, BackrunKeeps
<1>10. CASE MegaBackrun BY <1>10, MegaBackrunKeeps
<1>11. CASE BackrunFails BY <1>11, BackrunFailsKeeps
<1>12. CASE Report BY <1>12, ReportKeeps
<1>13. CASE ReportFails BY <1>13, ReportFailsKeeps
<1>14. CASE Price BY <1>14, PriceKeeps
<1>15. CASE MeatPanics BY <1>15, MeatPanicsKeeps
<1>16. CASE UNCHANGED vars
    <2>1. /\ UNCHANGED <<flow, variant, node, meats, optimal, pc, env, nonce, good>>
          /\ UNCHANGED <<funds, weth, token, trade, recipe, revenue, offer>>
        BY <1>16 DEF vars
    <2>2. TypeOK' /\ InputOK' /\ TipOfMeat' /\ NoTipYet' /\ Honoured'
        BY <2>1, SameTrade DEF IInv, TypeOK, InputOK, TipOfMeat, NoTipYet
    <2>3. TokenBounded' /\ Querying' /\ DustLeft' /\ RevenueGained'
        BY <2>1 DEF IInv, TokenBounded, Querying, DustLeft, RevenueGained, Ended
    <2>4. ReadyToSell' /\ PanicsOnly'
        BY <2>1 DEF IInv, ReadyToSell, PanicsOnly, Funded, Four, UnitOf
    <2>5. FeesEarned'
        BY <2>1 DEF IInv, FeesEarned
    <2>6. NonceReached' /\ AllRun' /\ Replayable'
        BY <2>1 DEF IInv, NonceReached, SentBefore, AllRun, Replayable, Replays, NoLater, Ended
    <2> QED BY <2>2, <2>3, <2>4, <2>5, <2>6 DEF IInv
<1> QED BY <1>1, <1>2, <1>3, <1>4, <1>5, <1>6, <1>7, <1>8, <1>9, <1>10, <1>11, <1>12, <1>13,
           <1>14, <1>15, <1>16 DEF Next
--------------------------------------------------------------------------------
\* The theorems.

\* Every simulation keeps to the invariant, whatever its victims, units and fees.
THEOREM Invariance == Spec => []IInv
BY Initially, Inductive, PTL DEF Spec

\* The state has its type: no balance of the token below zero, no negative revenue
\* (the code subtracts without a check in U256).
THEOREM TypeCorrect == Spec => []TypeOK
BY Invariance, Implied, PTL

\* The calldata pays what the contract has and asks the pool for what it gives, but for the
\* single purchase on a V2 pool, where what is asked for may be more by less than a unit
\* (encode_weth, encode_four_bytes, encode_intermediary_token): for every unit and amount.
THEOREM AmountsHonoured == Spec => []Honoured
BY Invariance, Implied, PTL

\* A sandwich on a V2 pool leaves dust (encode_intermediary_with_dust).
THEOREM DustStays == Spec => []DustKept
BY Invariance, Implied, PTL

\* Panics have one of the five causes (the unwraps of inspect_ref and of meat.gas_price,
\* four_byte_value -= 1), and the evaluations of a search have none.
THEOREM PanicReasons == Spec => []PanicsOnly
BY Invariance, Implied, PTL

\* The victims of a recipe can be sent in its order (the nonces of the loops over meats and
\* the filter by is_meat_good).
THEOREM RecipeReplays == Spec => []Replayable
BY Invariance, Implied, PTL

\* What is offered for a bundle is earned by it (send_bundle, calculate_bribe_for_max_fee).
THEOREM OffersEarned == Spec => []FeesEarned
BY Invariance, Implied, PTL
================================================================================
