-------------------------- MODULE IntervalSearchProofs --------------------------
(* The search stays within the balance and its range shrinks with every turn;   *)
(* it panics only when there is next to nothing to search; and for a concave    *)
(* market its answer is within the tolerance of an optimal input: for every     *)
(* balance, every revenue function and any number of intervals.                 *)
EXTENDS IntervalSearch, NaturalLemmas

--------------------------------------------------------------------------------
\* The cuts.

\* A quotient by n of what is at most d times n is at most d.
LEMMA QuotientBound ==
  ASSUME NEW n \in Nat, n >= 1, NEW d \in Nat, NEW i \in 0..n
  PROVE  (d * i) \div n \in 0..d
<1> DEFINE x == d * i
<1>1. x \in Nat /\ x <= n * d
  <2>1. d * n - d * i = d * (n - i) /\ n - i \in Nat
    OBVIOUS
  <2>2. d * (n - i) \in Nat /\ d * i \in Nat /\ d * n \in Nat /\ d * n = n * d
    BY <2>1
  <2> QED
    BY <2>1, <2>2
<1> HIDE DEF x
<1>2. x \div n \in Nat /\ x \div n <= d
  BY <1>1, Division, DivisionBelow
<1> QED
  BY <1>2 DEF x

\* One part of a range is at least one long where the range is as long as there are parts,
\* and at most one long where it is no longer.
LEMMA Step ==
  ASSUME NEW n \in Nat, n >= 1, NEW d \in Nat, NEW i \in 0..(n - 1)
  PROVE  /\ (d * i) \div n \in Nat /\ (d * (i + 1)) \div n \in Nat
         /\ (d * i) \div n <= (d * (i + 1)) \div n
         /\ d >= n => (d * (i + 1)) \div n >= (d * i) \div n + 1
         /\ d <= n => (d * (i + 1)) \div n <= (d * i) \div n + 1
<1> DEFINE x == d * i
           y == d * (i + 1)
           p == x \div n
           q == y \div n
<1>1. x \in Nat /\ y \in Nat /\ y = x + d
  <2>1. i \in Nat /\ d \in Nat
    OBVIOUS
  <2>2. d * (i + 1) = d * i + d
    BY <2>1
  <2>3. d * i \in Nat
    BY <2>1
  <2> QED
    BY <2>2, <2>3
<1> HIDE DEF x, y
<1>2. p \in Nat /\ n * p <= x /\ x < n * p + n
  BY <1>1, Division
<1>3. q \in Nat /\ n * q <= y /\ y < n * q + n
  BY <1>1, Division
<1> HIDE DEF p, q
<1>4. n * p \in Nat /\ n * q \in Nat /\ n * (p + 1) = n * p + n /\ n * (p + 2) = n * p + n + n
  BY <1>2, <1>3
<1>5. p <= q
  BY <1>1, <1>2, <1>4, DivisionAbove DEF q
<1>6. ASSUME d >= n PROVE q >= p + 1
  <2>1. y >= n * (p + 1)
    BY <1>1, <1>2, <1>4, <1>6
  <2> QED
    BY <1>1, <1>2, <2>1, DivisionAbove DEF q
<1>7. ASSUME d <= n PROVE q <= p + 1
  <2> SUFFICES ASSUME q >= p + 2 PROVE FALSE
    BY <1>2, <1>3
  <2>1. n * (p + 2) <= n * q
    BY <1>2, <1>3
  <2>2. y < n * p + n + n
    BY <1>1, <1>2, <1>4, <1>7
  <2> QED
    BY <1>1, <1>3, <1>4, <2>1, <2>2
<1> QED
  BY <1>2, <1>3, <1>5, <1>6, <1>7 DEF p, q, x, y

\* Where the range is no longer than there are parts, every input in it is a cut.
LEMMA AllAreCuts ==
  ASSUME NEW n \in Nat, n >= 1, NEW d \in Nat, d <= n, NEW y \in 0..d
  PROVE  \E i \in 0..n : (d * i) \div n = y
<1>1. CASE d = 0
  <2>1. d * 0 = 0 /\ 0 \div n = 0 /\ y = 0
    BY <1>1
  <2> QED
    BY <2>1
<1>2. CASE d # 0
  <2> DEFINE x == n * y
             a == x + d - 1
             i == a \div d
  <2>1. x \in Nat /\ a \in Nat /\ a = x + d - 1
    BY <1>2
  <2> HIDE DEF x, a
  <2>2. i \in Nat /\ d * i <= a /\ a < d * i + d
    BY <1>2, <2>1, Division
  <2>3. i <= n
    <3>1. n * y <= n * d
      OBVIOUS
    <3>2. n * d = d * n /\ d * (n + 1) = d * n + d
      OBVIOUS
    <3>3. SUFFICES ASSUME i >= n + 1 PROVE FALSE
      BY <2>2
    <3>4. d * (n + 1) <= d * i
      <4> HIDE DEF i
      <4> QED
        BY <2>2, <3>3
    <3> HIDE DEF i
    <3> QED
      BY <2>1, <2>2, <3>1, <3>2, <3>4 DEF x
  <2> HIDE DEF i
  <2> DEFINE z == d * i
  <2>4. z \in Nat /\ x <= z /\ z < x + n
    <3>1. d * i \in Nat
      BY <2>2
    <3> QED
      BY <2>1, <2>2, <3>1
  <2> HIDE DEF z
  <2>5. z \div n >= y /\ z \div n \in Nat
    BY <2>4, Division, DivisionAbove DEF x
  <2>6. z \div n <= y
    <3>1. n * (z \div n) <= z /\ z \div n \in Nat
      BY <2>4, Division
    <3> DEFINE q == z \div n
    <3> HIDE DEF q
    <3>2. SUFFICES ASSUME q >= y + 1 PROVE FALSE
      BY <3>1 DEF q
    <3>3. n * (y + 1) <= n * q /\ n * (y + 1) = n * y + n
      BY <3>1, <3>2 DEF q
    <3>4. n * y \in Nat /\ n * q \in Nat
      BY <3>1 DEF q
    <3> QED
      BY <2>4, <3>1, <3>3, <3>4 DEF q, x
  <2>7. z \div n = y
    BY <2>5, <2>6
  <2>8. i \in 0..n
    BY <2>2, <2>3
  <2>9. (d * i) \div n = y
    BY <2>7 DEF z
  <2> QED
    BY <2>8, <2>9
<1> QED
  BY <1>1, <1>2

\* The cuts of a range that is not empty lie in it, the first and the last at its ends and
\* each between its neighbours.
LEMMA CutInRange ==
  ASSUME lower \in Nat, upper \in Nat, lower <= upper
  PROVE  /\ \A i \in Cuts : Cut(i) \in lower..upper
         /\ Cut(0) = lower /\ Cut(Intervals) = upper
<1>1. upper - lower \in Nat /\ Intervals \in Nat /\ Intervals >= 1
  BY SearchAssumption
<1> DEFINE d == upper - lower
<1>2. d \in Nat /\ lower + d = upper
  BY <1>1
<1> HIDE DEF d
<1>3. ASSUME NEW i \in Cuts PROVE lower + (d * i) \div Intervals \in lower..upper
  <2>1. (d * i) \div Intervals \in 0..d
    BY <1>1, <1>2, QuotientBound DEF Cuts
  <2> QED
    BY <1>2, <2>1
<1>4. (d * 0) \div Intervals = 0
  <2>1. d * 0 = 0
    BY <1>2
  <2> QED
    BY <1>1, <2>1
<1>5. (d * Intervals) \div Intervals = d
  <2> DEFINE x == d * Intervals
  <2>1. x \in Nat /\ x = Intervals * d
    BY <1>1, <1>2
  <2> HIDE DEF x
  <2>2. x \div Intervals <= d /\ x \div Intervals >= d /\ x \div Intervals \in Nat
    BY <1>1, <1>2, <2>1, Division, DivisionBelow, DivisionAbove
  <2> QED
    BY <1>2, <2>2 DEF x
<1> QED
  BY <1>2, <1>3, <1>4, <1>5 DEF Cut, d

\* From one cut to the next.
LEMMA CutStep ==
  ASSUME lower \in Nat, upper \in Nat, lower <= upper, NEW i \in 0..(Intervals - 1)
  PROVE  /\ Cut(i) <= Cut(i + 1)
         /\ upper - lower >= Intervals => Cut(i) + 1 <= Cut(i + 1)
         /\ upper - lower <= Intervals => Cut(i + 1) <= Cut(i) + 1
<1> DEFINE d == upper - lower
<1>1. d \in Nat /\ Intervals \in Nat /\ Intervals >= 1
  BY SearchAssumption
<1> HIDE DEF d
<1> DEFINE p == (d * i) \div Intervals
           q == (d * (i + 1)) \div Intervals
<1>2. /\ p \in Nat /\ q \in Nat /\ p <= q
      /\ d >= Intervals => q >= p + 1
      /\ d <= Intervals => q <= p + 1
  BY <1>1, Step
<1>3. Cut(i) = lower + p /\ Cut(i + 1) = lower + q
  BY DEF Cut, d
<1> HIDE DEF p, q
<1>4. Intervals \in Nat /\ d = upper - lower
  BY <1>1 DEF d
<1> QED
  BY <1>2, <1>3, <1>4

\* Every input of the range lies between two cuts.
LEMMA EveryInputCut ==
  ASSUME lower \in Nat, upper \in Nat, lower <= upper, upper - lower <= Intervals,
         NEW y \in lower..upper
  PROVE  \E i \in Cuts : Cut(i) = y
<1> DEFINE d == upper - lower
           z == y - lower
<1>1. d \in Nat /\ d <= Intervals /\ Intervals \in Nat /\ Intervals >= 1
      /\ z \in 0..d /\ lower + z = y
  BY SearchAssumption
<1> HIDE DEF d, z
<1>2. PICK i \in 0..Intervals : (d * i) \div Intervals = z
  BY <1>1, AllAreCuts
<1> QED
  BY <1>1, <1>2 DEF Cut, Cuts, d
--------------------------------------------------------------------------------
\* The best cut, and what concavity says of the revenue.

\* max_by finds a cut of the highest revenue, and the last one.
LEMMA HighestCut ==
  ASSUME IInv, ~Done
  PROVE  /\ Highest \in Cuts
         /\ \A i \in Cuts : /\ Cut(i) \in 0..market.balance /\ Revenue(i) \in Nat
                            /\ Revenue(i) < Revenue(Highest)
                                 \/ (Revenue(i) = Revenue(Highest) /\ i <= Highest)
<1>1. \A i \in Cuts : Cut(i) \in 0..market.balance
  <2>1. /\ lower \in Nat /\ upper \in Nat /\ lower <= upper
        /\ market.balance \in Nat /\ upper <= market.balance
    BY SearchAssumption DEF IInv, TypeOK, InRange, Done
  <2> QED
    BY <2>1, CutInRange
<1>2. \A i \in Cuts : Revenue(i) \in Nat
  BY <1>1, SearchAssumption DEF Revenue, IInv
<1> DEFINE f == [i \in Cuts |-> Revenue(i)]
<1>3. Intervals \in Nat /\ \A i \in 0..Intervals : f[i] \in Nat
  BY <1>2, SearchAssumption DEF Cuts
<1> HIDE DEF f
<1>4. \E i \in 0..Intervals : \A j \in 0..Intervals : f[j] < f[i] \/ (f[j] = f[i] /\ j <= i)
  BY <1>3, LastHighest
<1>5. \E i \in Cuts : \A j \in Cuts :
         Revenue(j) < Revenue(i) \/ (Revenue(j) = Revenue(i) /\ j <= i)
  BY <1>4 DEF f, Cuts
<1>6. /\ Highest \in Cuts
      /\ \A j \in Cuts : Revenue(j) < Revenue(Highest)
                           \/ (Revenue(j) = Revenue(Highest) /\ j <= Highest)
  BY <1>5 DEF Highest
<1> QED
  BY <1>1, <1>2, <1>6

\* The slope of a concave function falls.
LEMMA Slopes ==
  ASSUME NEW b \in Nat, NEW f \in [0..b -> Nat],
         \A x \in 1..(b - 1) : f[x + 1] - f[x] <= f[x] - f[x - 1]
  PROVE  \A x \in 1..b, y \in 1..b : x <= y => f[y] - f[y - 1] <= f[x] - f[x - 1]
<1> DEFINE T == {n \in Nat : \A x \in 1..b :
                   x + n <= b => f[x + n] - f[x + n - 1] <= f[x] - f[x - 1]}
<1>1. 0 \in T
  OBVIOUS
<1>2. ASSUME NEW n \in T PROVE n + 1 \in T
  <2> SUFFICES ASSUME NEW x \in 1..b, x + (n + 1) <= b
               PROVE  f[x + (n + 1)] - f[x + (n + 1) - 1] <= f[x] - f[x - 1]
    OBVIOUS
  <2>1. n \in Nat /\ f[x + n] - f[x + n - 1] <= f[x] - f[x - 1]
    OBVIOUS
  <2> DEFINE m == x + n
  <2>2. m \in 1..(b - 1) /\ x + (n + 1) = m + 1 /\ x + (n + 1) - 1 = m
    BY <2>1
  <2>3. f[m + 1] - f[m] <= f[m] - f[m - 1]
    BY <2>2
  <2>4. f[m + 1] \in Nat /\ f[m] \in Nat /\ f[m - 1] \in Nat /\ f[x] \in Nat /\ f[x - 1] \in Nat
    BY <2>2
  <2> HIDE DEF m
  <2>5. f[m + 1] - f[m] <= f[x] - f[x - 1]
    BY <2>1, <2>3, <2>4 DEF m
  <2> QED
    BY <2>2, <2>5
<1>3. T = Nat
  <2> HIDE DEF T
  <2> QED
    BY <1>1, <1>2, Induction DEF T
<1>4. ASSUME NEW x \in 1..b, NEW y \in 1..b, x <= y
      PROVE  f[y] - f[y - 1] <= f[x] - f[x - 1]
  <2>1. PICK n \in Nat : x + n = y
    <3>1. y - x \in Nat /\ x + (y - x) = y
      BY <1>4
    <3> QED
      BY <3>1
  <2>2. n \in T
    <3> HIDE DEF T
    <3> QED
      BY <1>3
  <2>3. f[x + n] - f[x + n - 1] <= f[x] - f[x - 1]
    BY <2>1, <2>2
  <2> QED
    BY <2>1, <2>3
<1> QED
  BY <1>4

\* A function that does not rise from one place to the next does not rise from u to v.
LEMMA Falling ==
  ASSUME NEW b \in Nat, NEW f \in [0..b -> Nat], NEW u \in 0..b, NEW v \in 0..b, u <= v,
         \A x \in (u + 1)..v : f[x] <= f[x - 1]
  PROVE  f[v] <= f[u]
<1> DEFINE T == {n \in Nat : u + n <= v => f[u + n] <= f[u]}
<1>1. 0 \in T
  OBVIOUS
<1>2. ASSUME NEW n \in T PROVE n + 1 \in T
  <2> SUFFICES ASSUME u + (n + 1) <= v PROVE f[u + (n + 1)] <= f[u]
    OBVIOUS
  <2>1. n \in Nat /\ f[u + n] <= f[u]
    OBVIOUS
  <2>2. u + (n + 1) \in (u + 1)..v /\ u + (n + 1) - 1 = u + n
    BY <2>1
  <2>3. f[u + (n + 1)] <= f[u + n]
    BY <2>2
  <2>4. f[u + (n + 1)] \in Nat /\ f[u + n] \in Nat /\ f[u] \in Nat
    BY <2>1, <2>2
  <2> QED
    BY <2>1, <2>3, <2>4
<1>3. T = Nat
  <2> HIDE DEF T
  <2> QED
    BY <1>1, <1>2, Induction DEF T
<1>4. PICK n \in Nat : u + n = v
  <2>1. v - u \in Nat /\ u + (v - u) = v
    OBVIOUS
  <2> QED
    BY <2>1
<1>5. n \in T
  <2> HIDE DEF T
  <2> QED
    BY <1>3
<1>6. f[u + n] <= f[u]
  BY <1>4, <1>5
<1> QED
  BY <1>4, <1>6

\* And one that does not fall does not fall.
LEMMA Rising ==
  ASSUME NEW b \in Nat, NEW f \in [0..b -> Nat], NEW u \in 0..b, NEW v \in 0..b, u <= v,
         \A x \in (u + 1)..v : f[x - 1] <= f[x]
  PROVE  f[u] <= f[v]
<1> DEFINE T == {n \in Nat : u + n <= v => f[u] <= f[u + n]}
<1>1. 0 \in T
  OBVIOUS
<1>2. ASSUME NEW n \in T PROVE n + 1 \in T
  <2> SUFFICES ASSUME u + (n + 1) <= v PROVE f[u] <= f[u + (n + 1)]
    OBVIOUS
  <2>1. n \in Nat /\ f[u] <= f[u + n]
    OBVIOUS
  <2>2. u + (n + 1) \in (u + 1)..v /\ u + (n + 1) - 1 = u + n
    BY <2>1
  <2>3. f[u + n] <= f[u + (n + 1)]
    BY <2>2
  <2>4. f[u + (n + 1)] \in Nat /\ f[u + n] \in Nat /\ f[u] \in Nat
    BY <2>1, <2>2
  <2> QED
    BY <2>1, <2>3, <2>4
<1>3. T = Nat
  <2> HIDE DEF T
  <2> QED
    BY <1>1, <1>2, Induction DEF T
<1>4. PICK n \in Nat : u + n = v
  <2>1. v - u \in Nat /\ u + (v - u) = v
    OBVIOUS
  <2> QED
    BY <2>1
<1>5. n \in T
  <2> HIDE DEF T
  <2> QED
    BY <1>3
<1>6. f[u + n] >= f[u]
  BY <1>4, <1>5
<1> QED
  BY <1>4, <1>6

\* Beyond a highest point a concave function falls; where it is level it is highest.
LEMMA BeyondPeak ==
  ASSUME NEW b \in Nat, NEW f \in [0..b -> Nat],
         \A x \in 1..(b - 1) : f[x + 1] - f[x] <= f[x] - f[x - 1],
         NEW x \in 0..b, \A y \in 0..b : f[y] <= f[x],
         NEW u \in 0..b, NEW v \in 0..b, x <= u, u < v
  PROVE  f[v] <= f[u] /\ (f[v] = f[u] => f[u] = f[x])
<1>1. \A y \in 0..b : f[y] \in Nat
  OBVIOUS
<1>2. \A y \in 1..b, z \in 1..b : y <= z => f[z] - f[z - 1] <= f[y] - f[y - 1]
  BY Slopes
<1>3. \A z \in (x + 1)..v : f[z] <= f[z - 1]
  <2> SUFFICES ASSUME NEW z \in (x + 1)..v PROVE f[z] <= f[z - 1]
    OBVIOUS
  <2>1. x + 1 \in 1..b /\ z \in 1..b /\ (x + 1) - 1 = x /\ z - 1 \in 0..b
    OBVIOUS
  <2>2. f[z] - f[z - 1] <= f[x + 1] - f[x] /\ f[x + 1] <= f[x]
    BY <1>2, <2>1
  <2> QED
    BY <1>1, <2>1, <2>2
<1>4. f[v] <= f[u]
  <2>1. \A z \in (u + 1)..v : f[z] <= f[z - 1]
    BY <1>3
  <2>2. u <= v
    OBVIOUS
  <2> QED
    BY <2>1, <2>2, Falling
<1>5. ASSUME f[v] = f[u] PROVE f[u] = f[x]
  <2>1. CASE u = x
    BY <2>1
  <2>2. CASE x < u /\ f[u - 1] <= f[u]
    <3>1. \A z \in (x + 1)..u : f[z - 1] <= f[z]
      <4> SUFFICES ASSUME NEW z \in (x + 1)..u PROVE f[z - 1] <= f[z]
        OBVIOUS
      <4>1. z \in 1..b /\ u \in 1..b /\ z <= u /\ z - 1 \in 0..b /\ u - 1 \in 0..b
        OBVIOUS
      <4>2. f[u] - f[u - 1] <= f[z] - f[z - 1]
        BY <1>2, <4>1
      <4> QED
        BY <1>1, <2>2, <4>1, <4>2
    <3>2. f[x] <= f[u]
      BY <3>1, Rising
    <3> QED
      BY <1>1, <3>2
  <2>3. CASE x < u /\ f[u] < f[u - 1]
    <3>1. u \in 1..b /\ u + 1 \in 1..b /\ (u + 1) - 1 = u /\ u - 1 \in 0..b
      BY <2>3
    <3>2. f[u + 1] - f[u] <= f[u] - f[u - 1]
      BY <1>2, <3>1
    <3>3. f[u + 1] < f[u]
      BY <1>1, <2>3, <3>1, <3>2
    <3>4. f[v] <= f[u + 1]
      <4>1. \A z \in ((u + 1) + 1)..v : f[z] <= f[z - 1]
        BY <1>3
      <4>2. u + 1 \in 0..b /\ u + 1 <= v
        OBVIOUS
      <4> QED
        BY <4>1, <4>2, Falling
    <3> QED
      BY <1>1, <1>5, <3>1, <3>3, <3>4
  <2>4. x = u \/ x < u
    OBVIOUS
  <2>5. u - 1 \in 0..b \/ u = x
    OBVIOUS
  <2> QED
    BY <1>1, <2>1, <2>2, <2>3, <2>4, <2>5
<1> QED
  BY <1>4, <1>5

\* Up to a highest point it rises; where it is level it is highest.
LEMMA BeforePeak ==
  ASSUME NEW b \in Nat, NEW f \in [0..b -> Nat],
         \A x \in 1..(b - 1) : f[x + 1] - f[x] <= f[x] - f[x - 1],
         NEW x \in 0..b, \A y \in 0..b : f[y] <= f[x],
         NEW u \in 0..b, NEW v \in 0..b, u < v, v <= x
  PROVE  f[u] <= f[v] /\ (f[v] = f[u] => f[v] = f[x])
<1>1. \A y \in 0..b : f[y] \in Nat
  OBVIOUS
<1>2. \A y \in 1..b, z \in 1..b : y <= z => f[z] - f[z - 1] <= f[y] - f[y - 1]
  BY Slopes
<1>3. \A z \in (u + 1)..x : f[z - 1] <= f[z]
  <2> SUFFICES ASSUME NEW z \in (u + 1)..x PROVE f[z - 1] <= f[z]
    OBVIOUS
  <2>1. x \in 1..b /\ z \in 1..b /\ z <= x /\ z - 1 \in 0..b /\ x - 1 \in 0..b
    OBVIOUS
  <2>2. f[x] - f[x - 1] <= f[z] - f[z - 1] /\ f[x - 1] <= f[x]
    BY <1>2, <2>1
  <2> QED
    BY <1>1, <2>1, <2>2
<1>4. f[u] <= f[v]
  <2>1. \A z \in (u + 1)..v : f[z - 1] <= f[z]
    BY <1>3
  <2>2. u <= v
    OBVIOUS
  <2> QED
    BY <2>1, <2>2, Rising
<1>5. ASSUME f[v] = f[u] PROVE f[v] = f[x]
  <2>1. CASE v = x
    BY <2>1
  <2>2. CASE v < x /\ f[v + 1] <= f[v]
    <3>1. \A z \in (v + 1)..x : f[z] <= f[z - 1]
      <4> SUFFICES ASSUME NEW z \in (v + 1)..x PROVE f[z] <= f[z - 1]
        OBVIOUS
      <4>1. z \in 1..b /\ v + 1 \in 1..b /\ v + 1 <= z /\ z - 1 \in 0..b /\ (v + 1) - 1 = v
        OBVIOUS
      <4>2. f[z] - f[z - 1] <= f[v + 1] - f[v]
        BY <1>2, <4>1
      <4> QED
        BY <1>1, <2>2, <4>1, <4>2
    <3>2. f[x] <= f[v]
      BY <2>2, <3>1, Falling
    <3> QED
      BY <1>1, <3>2
  <2>3. CASE v < x /\ f[v] < f[v + 1]
    <3>1. v \in 1..b /\ v + 1 \in 1..b /\ (v + 1) - 1 = v /\ v - 1 \in 0..b
      BY <2>3
    <3>2. f[v + 1] - f[v] <= f[v] - f[v - 1]
      BY <1>2, <3>1
    <3>3. f[v - 1] < f[v]
      BY <1>1, <2>3, <3>1, <3>2
    <3>4. f[u] <= f[v - 1]
      <4>1. \A z \in (u + 1)..(v - 1) : f[z - 1] <= f[z]
        BY <1>3
      <4>2. v - 1 \in 0..b /\ u <= v - 1
        OBVIOUS
      <4> QED
        BY <4>1, <4>2, Rising
    <3> QED
      BY <1>1, <1>5, <3>1, <3>3, <3>4
  <2>4. v = x \/ (v < x /\ v + 1 \in 0..b)
    OBVIOUS
  <2> QED
    BY <1>1, <2>1, <2>2, <2>3, <2>4
<1> QED
  BY <1>4, <1>5
--------------------------------------------------------------------------------
\* What a turn finds.

\* A search that goes on has a range that is not empty.
LEMMA NotDone ==
  ASSUME IInv, ~Done
  PROVE  /\ lower \in Nat /\ upper \in Nat /\ lower <= upper
         /\ market.balance \in Nat /\ upper <= market.balance
         /\ market.rev \in [0..market.balance -> Nat]
  BY SearchAssumption DEF IInv, TypeOK, InRange, Done

\* The best cut has more revenue than the next one, which therefore is another input; only
\* in a range with no more inputs than parts is it the same input as the one before.
LEMMA BestCut ==
  ASSUME IInv, ~Done, NEW i \in Cuts, i = Highest
  PROVE  /\ i < Intervals => Cut(i) < Cut(i + 1) /\ Revenue(i + 1) < Revenue(i)
         /\ i > 0 => /\ Cut(i - 1) <= Cut(i) /\ Revenue(i - 1) <= Revenue(i)
                     /\ Cut(i - 1) = Cut(i) => upper - lower < Intervals
         /\ i \in 1..(Intervals - 1) /\ Cut(i - 1) = Cut(i) => Cut(i + 1) <= Cut(i) + 1
<1>1. /\ lower \in Nat /\ upper \in Nat /\ lower <= upper
      /\ market.balance \in Nat /\ upper <= market.balance
  BY NotDone
<1>2. /\ Intervals \in Nat /\ Intervals >= 2 /\ i \in 0..Intervals
      /\ \A j \in 0..Intervals : j \in Cuts
  BY SearchAssumption DEF Cuts
<1>3. \A j \in Cuts : /\ Cut(j) \in 0..market.balance /\ Revenue(j) \in Nat
                      /\ Revenue(j) < Revenue(i) \/ (Revenue(j) = Revenue(i) /\ j <= i)
  BY HighestCut
<1>4. ASSUME i < Intervals PROVE Cut(i) < Cut(i + 1) /\ Revenue(i + 1) < Revenue(i)
  <2>1. i + 1 \in Cuts /\ i \in 0..(Intervals - 1)
    BY <1>2, <1>4
  <2>2. Revenue(i + 1) < Revenue(i)
    BY <1>2, <1>3, <2>1
  <2>3. Cut(i) # Cut(i + 1)
    BY <1>2, <1>3, <2>1, <2>2 DEF Revenue
  <2>4. Cut(i) <= Cut(i + 1)
    BY <1>1, <2>1, CutStep
  <2> QED
    BY <1>2, <1>3, <2>1, <2>2, <2>3, <2>4
<1>5. ASSUME i > 0
      PROVE  /\ Cut(i - 1) <= Cut(i) /\ Revenue(i - 1) <= Revenue(i)
             /\ Cut(i - 1) = Cut(i) => upper - lower < Intervals
  <2> DEFINE j == i - 1
  <2>1. j \in Cuts /\ j \in 0..(Intervals - 1) /\ j + 1 = i
    BY <1>2, <1>5
  <2> HIDE DEF j
  <2>2. /\ Cut(j) <= Cut(j + 1)
        /\ upper - lower >= Intervals => Cut(j) + 1 <= Cut(j + 1)
    BY <1>1, <2>1, CutStep
  <2>3. Revenue(j) <= Revenue(i) /\ Cut(j) \in Nat /\ Cut(i) \in Nat
    BY <1>1, <1>3, <2>1
  <2>4. Cut(j) = Cut(i) => upper - lower < Intervals
    BY <1>1, <1>2, <2>1, <2>2, <2>3
  <2>5. Cut(j) <= Cut(i)
    BY <2>1, <2>2
  <2> QED
    BY <2>3, <2>4, <2>5 DEF j
<1>6. ASSUME i \in 1..(Intervals - 1), Cut(i - 1) = Cut(i) PROVE Cut(i + 1) <= Cut(i) + 1
  <2>1. i \in 0..(Intervals - 1) /\ upper - lower <= Intervals
    BY <1>1, <1>2, <1>5, <1>6
  <2> QED
    BY <1>1, <2>1, CutStep
<1> QED
  BY <1>4, <1>5, <1>6

\* The lemmas about concave functions, for the revenue.
LEMMA Peak ==
  ASSUME IInv, Concave, NEW x \in Optimal,
         NEW u \in 0..market.balance, NEW v \in 0..market.balance, u < v
  PROVE  /\ x <= u => /\ market.rev[v] <= market.rev[u]
                      /\ market.rev[v] = market.rev[u] => market.rev[u] = market.rev[x]
         /\ v <= x => /\ market.rev[u] <= market.rev[v]
                      /\ market.rev[v] = market.rev[u] => market.rev[v] = market.rev[x]
<1> DEFINE b == market.balance
           f == market.rev
<1>1. b \in Nat /\ f \in [0..b -> Nat]
  BY SearchAssumption DEF IInv
<1>2. \A y \in 1..(b - 1) : f[y + 1] - f[y] <= f[y] - f[y - 1]
  BY DEF Concave
<1>3. x \in 0..b /\ \A y \in 0..b : f[y] <= f[x]
  BY DEF Optimal
<1>4. u \in 0..b /\ v \in 0..b
  OBVIOUS
<1> HIDE DEF b, f
<1>5. x <= u => f[v] <= f[u] /\ (f[v] = f[u] => f[u] = f[x])
  BY <1>1, <1>2, <1>3, <1>4, BeyondPeak
<1>6. v <= x => f[u] <= f[v] /\ (f[v] = f[u] => f[v] = f[x])
  BY <1>1, <1>2, <1>3, <1>4, BeforePeak
<1> QED
  BY <1>5, <1>6 DEF b, f

\* What earns as much as an optimal input is optimal.
LEMMA AsGood ==
  ASSUME IInv, NEW x \in Optimal, NEW y \in 0..market.balance,
         market.rev[x] <= market.rev[y]
  PROVE  y \in Optimal
<1>1. market.balance \in Nat /\ market.rev \in [0..market.balance -> Nat]
  BY SearchAssumption DEF IInv
<1>2. x \in 0..market.balance /\ \A z \in 0..market.balance : market.rev[z] <= market.rev[x]
  BY DEF Optimal
<1>3. \A z \in 0..market.balance : market.rev[z] <= market.rev[y]
  BY <1>1, <1>2
<1> QED
  BY <1>3 DEF Optimal

\* In a concave market an optimal input lies between the neighbours of the best cut, if the
\* best cut is not itself optimal.
LEMMA OptimumNearBest ==
  ASSUME IInv, state = "search", ~Done, Concave, ~Flat, NEW i \in Cuts, i = Highest
  PROVE  \/ Cut(i) \in Optimal
         \/ \E x \in Optimal : /\ x \in lower..upper
                               /\ i > 0 => Cut(i - 1) < x
                               /\ i < Intervals => x < Cut(i + 1)
<1>1. /\ lower \in Nat /\ upper \in Nat /\ lower <= upper
      /\ market.balance \in Nat /\ upper <= market.balance
      /\ market.rev \in [0..market.balance -> Nat]
  BY NotDone
<1>2. Intervals \in Nat /\ i \in 0..Intervals /\ \A j \in 0..Intervals : j \in Cuts
  BY SearchAssumption DEF Cuts
<1>3. PICK x \in Optimal : x \in lower..upper
  BY <1>1 DEF IInv, Kept
<1>4. \A j \in Cuts : Cut(j) \in 0..market.balance /\ Revenue(j) \in Nat /\ Revenue(j) <= Revenue(i)
  BY HighestCut
<1>5. CASE upper - lower < Intervals
  <2>1. PICK j \in Cuts : Cut(j) = x
    BY <1>1, <1>2, <1>3, <1>5, EveryInputCut
  <2>2. market.rev[x] <= market.rev[Cut(i)]
    BY <1>4, <2>1 DEF Revenue
  <2> QED
    BY <1>4, <2>2, AsGood
<1>6. CASE upper - lower >= Intervals
  <2>1. ASSUME i > 0, x <= Cut(i - 1) PROVE Cut(i) \in Optimal
    <3>1. i - 1 \in Cuts /\ Cut(i - 1) < Cut(i)
      <4>1. i - 1 \in Cuts
        BY <1>2, <2>1
      <4>2. Cut(i - 1) <= Cut(i) /\ Cut(i - 1) # Cut(i)
        BY <1>1, <1>2, <1>6, <2>1, BestCut
      <4>3. Cut(i - 1) \in Nat /\ Cut(i) \in Nat
        BY <1>1, <1>4, <4>1
      <4> QED
        BY <4>1, <4>2, <4>3
    <3>2. /\ market.rev[Cut(i)] <= market.rev[Cut(i - 1)]
          /\ market.rev[Cut(i)] = market.rev[Cut(i - 1)] =>
                market.rev[Cut(i - 1)] = market.rev[x]
      BY <1>4, <2>1, <3>1, Peak
    <3>3. market.rev[Cut(i - 1)] <= market.rev[Cut(i)]
      BY <1>4, <3>1 DEF Revenue
    <3>4. market.rev[Cut(i - 1)] \in Nat /\ market.rev[Cut(i)] \in Nat
      BY <1>1, <1>4, <3>1
    <3>5. market.rev[x] = market.rev[Cut(i)]
      BY <3>2, <3>3, <3>4
    <3>6. market.rev[x] <= market.rev[Cut(i)]
      BY <3>4, <3>5
    <3> QED
      BY <1>4, <3>6, AsGood
  <2>2. ASSUME i < Intervals, Cut(i + 1) <= x PROVE FALSE
    <3>1. i + 1 \in Cuts /\ Cut(i) < Cut(i + 1) /\ Revenue(i + 1) < Revenue(i)
      BY <1>2, <2>2, BestCut
    <3>2. market.rev[Cut(i)] <= market.rev[Cut(i + 1)]
      BY <1>4, <2>2, <3>1, Peak
    <3> QED
      BY <1>4, <3>1, <3>2 DEF Revenue
  <2>3. x \in Nat /\ (i > 0 => Cut(i - 1) \in Nat) /\ (i < Intervals => Cut(i + 1) \in Nat)
    <3>1. (i > 0 => i - 1 \in Cuts) /\ (i < Intervals => i + 1 \in Cuts)
      BY <1>2
    <3> QED
      BY <1>1, <1>3, <1>4, <3>1
  <2>4. (i > 0 /\ ~(Cut(i - 1) < x)) => Cut(i) \in Optimal
    BY <2>1, <2>3
  <2>5. i < Intervals => x < Cut(i + 1)
    BY <2>2, <2>3
  <2> QED
    BY <1>3, <2>4, <2>5
<1> QED
  BY <1>1, <1>2, <1>5, <1>6

\* A turn without revenue in a concave market means that there is no revenue at all.
LEMMA NothingFound ==
  ASSUME IInv, state = "search", ~Done, Concave, NEW i \in Cuts, i = Highest, Revenue(i) = 0
  PROVE  Flat
<1> SUFFICES ASSUME ~Flat PROVE FALSE
  OBVIOUS
<1>1. /\ lower \in Nat /\ upper \in Nat /\ lower <= upper
      /\ market.balance \in Nat /\ upper <= market.balance
      /\ market.rev \in [0..market.balance -> Nat]
  BY NotDone
<1>2. Intervals \in Nat /\ Intervals >= 2 /\ i \in 0..Intervals /\ 0 \in Cuts /\ 1 \in Cuts
      /\ 2 \in Cuts /\ Intervals \in Cuts
  BY SearchAssumption DEF Cuts
<1>3. \A j \in Cuts : Cut(j) \in 0..market.balance /\ Revenue(j) = 0
  <2>1. \A j \in Cuts : Cut(j) \in 0..market.balance /\ Revenue(j) \in Nat
                          /\ Revenue(j) <= Revenue(i)
    BY HighestCut
  <2> QED
    BY <2>1
<1>4. PICK x \in Optimal : x \in lower..upper
  BY <1>1 DEF IInv, Kept
<1>5. ASSUME market.rev[x] = 0 PROVE FALSE
  <2>1. \A y \in 0..market.balance : market.rev[y] <= 0 /\ market.rev[y] \in Nat
    BY <1>1, <1>5 DEF Optimal
  <2>2. \A y \in 0..market.balance : market.rev[y] = 0
    BY <2>1
  <2> QED
    BY <2>2 DEF Flat
<1>6. upper - lower >= Intervals
  <2> SUFFICES ASSUME upper - lower < Intervals PROVE FALSE
    BY <1>1, <1>2
  <2>1. PICK j \in Cuts : Cut(j) = x
    BY <1>1, <1>2, <1>4, EveryInputCut
  <2>2. market.rev[x] = 0
    BY <1>3, <2>1 DEF Revenue
  <2> QED
    BY <1>5, <2>2
<1>7. Cut(0) = lower /\ Cut(Intervals) = upper /\ Cut(1) \in lower..upper
      /\ Cut(2) \in lower..upper
  BY <1>1, <1>2, CutInRange
<1>8. Cut(0) + 1 <= Cut(1) /\ Cut(1) + 1 <= Cut(2)
  <2>1. 0 \in 0..(Intervals - 1) /\ 1 \in 0..(Intervals - 1) /\ 0 + 1 = 1 /\ 1 + 1 = 2
    BY <1>2
  <2>2. Cut(0) + 1 <= Cut(0 + 1)
    BY <1>1, <1>6, <2>1, CutStep
  <2>3. Cut(1) + 1 <= Cut(1 + 1)
    BY <1>1, <1>6, <2>1, CutStep
  <2> QED
    BY <2>1, <2>2, <2>3
<1> DEFINE m == Cut(1)
<1>9. /\ lower < m /\ m < upper /\ m \in Nat
      /\ lower \in 0..market.balance /\ m \in 0..market.balance /\ upper \in 0..market.balance
      /\ market.rev[lower] = 0 /\ market.rev[m] = 0 /\ market.rev[upper] = 0
  <2>1. Revenue(0) = 0 /\ Revenue(1) = 0 /\ Revenue(Intervals) = 0
    BY <1>2, <1>3
  <2>2. market.rev[lower] = 0 /\ market.rev[m] = 0 /\ market.rev[upper] = 0
    BY <1>7, <2>1 DEF Revenue
  <2>3. m \in Nat /\ Cut(2) \in Nat /\ m \in lower..upper /\ Cut(2) <= upper
    BY <1>1, <1>7
  <2>4. lower + 1 <= m /\ m + 1 <= Cut(2)
    BY <1>7, <1>8
  <2> HIDE DEF m
  <2> QED
    BY <1>1, <2>2, <2>3, <2>4
<1> HIDE DEF m
<1>10. CASE x <= m
  <2>1. market.rev[m] = market.rev[x]
    BY <1>9, <1>10, Peak
  <2> QED
    BY <1>5, <1>9, <2>1
<1>11. CASE m <= x
  <2>1. market.rev[m] = market.rev[x]
    BY <1>9, <1>11, Peak
  <2> QED
    BY <1>5, <1>9, <2>1
<1> QED
  BY <1>1, <1>4, <1>9, <1>10, <1>11
--------------------------------------------------------------------------------
\* The invariant.

\* The range starts as the whole balance, and some input is optimal.
LEMMA InitIInv == Init => IInv
<1> SUFFICES ASSUME Init PROVE IInv
  OBVIOUS
<1>1. /\ market \in Market /\ lower = 0 /\ upper = market.balance /\ counter = 0 /\ best = 0
      /\ state = "search"
  BY DEF Init
<1>2. market.balance \in Nat /\ market.rev \in [0..market.balance -> Nat]
  BY <1>1, SearchAssumption
<1>3. TypeOK /\ InRange /\ NoUnderflow /\ NearOptimal
  BY <1>1, <1>2 DEF TypeOK, InRange, NoUnderflow, NearOptimal
<1>4. Barren
  <2>1. counter < GiveUp /\ GiveUp - 1 - counter = GiveUp - 1
    BY <1>1, SearchAssumption
  <2> QED
    BY <1>1, <2>1 DEF Barren
<1>5. Kept
  <2>1. \E i \in 0..market.balance : \A j \in 0..market.balance :
           \/ market.rev[j] < market.rev[i]
           \/ market.rev[j] = market.rev[i] /\ j <= i
    <3> DEFINE f == market.rev
               n == market.balance
    <3>1. n \in Nat /\ \A i \in 0..n : f[i] \in Nat
      BY <1>2
    <3> HIDE DEF f, n
    <3>2. \E i \in 0..n : \A j \in 0..n : f[j] < f[i] \/ (f[j] = f[i] /\ j <= i)
      BY <3>1, LastHighest
    <3> QED
      BY <3>2 DEF f, n
  <2>2. PICK x \in 0..market.balance : \A j \in 0..market.balance :
           \/ market.rev[j] < market.rev[x]
           \/ market.rev[j] = market.rev[x] /\ j <= x
    BY <2>1
  <2>3. x \in Optimal
    BY <1>2, <2>2 DEF Optimal
  <2>4. x \in lower..upper
    BY <1>1
  <2>5. best \in lower..upper
    BY <1>1, <1>2
  <2> QED
    BY <2>3, <2>4, <2>5 DEF Kept
<1> QED
  BY <1>1, <1>3, <1>4, <1>5 DEF IInv

\* A turn of the loop, whichever way the range shrinks: the bounds stay natural numbers
\* within the balance, the best cut is one of the inputs, and the range gets shorter.
LEMMA TurnRange ==
  ASSUME IInv, NEW i \in Cuts, Turn(i),
         state' \in {"search", "none", "panic"},
         \/ lower' = lower
         \/ \E j \in Cuts : lower' = Cut(j) + 1,
         \/ upper' = upper
         \/ \E j \in Cuts : Cut(j) # 0 /\ upper' = Cut(j) - 1
  PROVE  /\ TypeOK' /\ market' \in Market /\ InRange'
         /\ lower' # lower \/ upper' # upper => upper' - lower' < upper - lower
<1>1. /\ lower \in Nat /\ upper \in Nat /\ lower <= upper
      /\ market.balance \in Nat /\ upper <= market.balance
  BY NotDone DEF Turn
<1>2. \A j \in Cuts : Cut(j) \in lower..upper
  BY <1>1, CutInRange
<1>3. counter' \in Nat /\ best' = Cut(i) /\ market' = market /\ market \in Market
  BY SearchAssumption DEF Turn, Count, IInv, TypeOK
<1>4. /\ lower' \in Nat /\ upper' \in Nat /\ upper' <= market.balance
      /\ lower' = lower \/ lower' > lower
      /\ upper' = upper \/ upper' < upper
  BY <1>1, <1>2
<1>5. best' \in Nat /\ best' <= market.balance
  BY <1>1, <1>2, <1>3
<1>6. ASSUME lower' # lower \/ upper' # upper PROVE upper' - lower' < upper - lower
  <2>1. lower' >= lower /\ upper' <= upper /\ (lower' > lower \/ upper' < upper)
    BY <1>1, <1>4, <1>6
  <2>2. lower \in Int /\ upper \in Int /\ lower' \in Int /\ upper' \in Int
    BY <1>1, <1>4
  <2>3. \A a, b, c, d \in Int :
           a >= b /\ c <= d /\ (a > b \/ c < d) => c - a < d - b
    OBVIOUS
  <2> QED
    BY <2>1, <2>2, <2>3
<1> QED
  BY <1>3, <1>4, <1>5, <1>6 DEF TypeOK, InRange

\* What remains to be shown of a turn.
LEMMA TurnIInv ==
  ASSUME IInv, NEW i \in Cuts, Turn(i), state' \in {"search", "none", "panic"},
         TypeOK', market' \in Market, InRange',
         Barren', Kept', state' = "panic" => market.balance < Need[GiveUp - 1]
  PROVE  IInv'
<1>1. market' = market /\ market.balance \in Nat /\ GiveUp - 1 \in 0..(GiveUp - 1)
  BY SearchAssumption DEF Turn, IInv
<1>2. Need[GiveUp - 1] \in Nat
  BY <1>1, NeedAssumption
<1>3. NoUnderflow'
  BY <1>1, <1>2 DEF NoUnderflow
<1>4. NearOptimal'
  BY DEF NearOptimal
<1> QED
  BY <1>3, <1>4 DEF IInv

\* The optimal inputs are those of the market, which does not change.
LEMMA SameMarket ==
  ASSUME market' = market
  PROVE  Concave' = Concave /\ Optimal' = Optimal /\ Flat' = Flat
  BY DEF Concave, Optimal, Flat

\* A turn with revenue that moves an end past the neighbour of the best cut keeps an
\* optimal input, or has found one.
LEMMA TurnKept ==
  ASSUME IInv, NEW i \in Cuts, Turn(i), InRange', TypeOK',
         IF i = 0 THEN lower' = lower ELSE lower' = Cut(i - 1) + 1,
         IF i = Intervals THEN upper' = upper ELSE upper' = Cut(i + 1) - 1
  PROVE  Kept'
<1>1. /\ state = "search" /\ ~Done /\ i = Highest /\ best' = Cut(i) /\ market' = market
  BY DEF Turn
<1>2. /\ lower \in Nat /\ upper \in Nat /\ lower <= upper
      /\ market.balance \in Nat /\ upper <= market.balance
  BY <1>1, NotDone
<1>3. Intervals \in Nat /\ i \in 0..Intervals /\ \A j \in 0..Intervals : j \in Cuts
  BY SearchAssumption DEF Cuts
<1>4. /\ \A j \in Cuts : Cut(j) \in lower..upper
      /\ Cut(0) = lower /\ Cut(Intervals) = upper
  BY <1>2, CutInRange
<1>5. SUFFICES ASSUME Concave, ~Flat
               PROVE  /\ \E x \in Optimal : x = best' \/ x \in lower'..upper'
                      /\ lower' <= upper' => best' \in lower'..upper'
  BY <1>1, SameMarket DEF Kept
<1>6. (i > 0 => Cut(i - 1) \in Nat) /\ (i < Intervals => Cut(i + 1) \in Nat) /\ Cut(i) \in Nat
  <2>1. (i > 0 => i - 1 \in Cuts) /\ (i < Intervals => i + 1 \in Cuts)
    BY <1>3
  <2> QED
    BY <1>2, <1>4, <2>1
<1>7. \E x \in Optimal : x = best' \/ x \in lower'..upper'
  <2>1. CASE Cut(i) \in Optimal
    BY <1>1, <2>1
  <2>2. CASE \E x \in Optimal : /\ x \in lower..upper
                                /\ i > 0 => Cut(i - 1) < x
                                /\ i < Intervals => x < Cut(i + 1)
    <3>1. PICK x \in Optimal : /\ x \in lower..upper
                               /\ i > 0 => Cut(i - 1) < x
                               /\ i < Intervals => x < Cut(i + 1)
      BY <2>2
    <3>2. lower' <= x
      BY <1>2, <1>3, <1>6, <3>1
    <3>3. x <= upper'
      BY <1>2, <1>3, <1>6, <3>1
    <3>4. lower' \in Nat /\ upper' \in Nat
      BY DEF TypeOK
    <3>5. x \in lower'..upper'
      BY <1>2, <3>1, <3>2, <3>3, <3>4
    <3> QED
      BY <3>5
  <2> QED
    BY <1>1, <1>5, <2>1, <2>2, OptimumNearBest
<1>8. ASSUME lower' <= upper' PROVE Cut(i) \in lower'..upper'
  <2>1. lower' \in Nat /\ upper' \in Nat
    BY DEF TypeOK
  <2>2. Cut(i) <= upper'
    <3>1. CASE i = Intervals
      BY <1>2, <1>4, <3>1
    <3>2. CASE i < Intervals
      <4>1. Cut(i) < Cut(i + 1)
        BY <1>1, <3>2, BestCut
      <4>2. upper' = Cut(i + 1) - 1
        BY <1>3, <3>2
      <4> QED
        BY <1>3, <1>6, <3>2, <4>1, <4>2
    <3> QED
      BY <1>3, <3>1, <3>2
  <2>3. lower' <= Cut(i)
    <3>1. CASE i = 0
      BY <1>2, <1>4, <3>1
    <3>2. CASE i > 0
      <4>1. lower' = Cut(i - 1) + 1 /\ Cut(i - 1) <= Cut(i)
        BY <1>1, <1>3, <3>2, BestCut
      <4>2. ASSUME Cut(i - 1) = Cut(i) PROVE FALSE
        <5>1. CASE i = Intervals
          BY <1>2, <1>4, <1>6, <1>8, <4>1, <4>2, <5>1
        <5>2. CASE i < Intervals
          <6>1. Cut(i + 1) <= Cut(i) + 1
            BY <1>1, <1>3, <3>2, <4>2, <5>2, BestCut
          <6>2. upper' = Cut(i + 1) - 1
            BY <1>3, <5>2
          <6> QED
            BY <1>6, <1>8, <4>1, <4>2, <5>2, <6>1, <6>2
        <5> QED
          BY <1>3, <5>1, <5>2
      <4> QED
        BY <1>6, <3>2, <4>1, <4>2
    <3> QED
      BY <1>3, <3>1, <3>2
  <2> QED
    BY <1>2, <1>6, <2>1, <2>2, <2>3
<1> QED
  BY <1>1, <1>7, <1>8

\* The loop ends with an answer within the tolerance, or none.
LEMMA FinishKeeps == ASSUME IInv, Finish PROVE IInv'
<1>1. /\ state = "search" /\ Done /\ state' \in {"found", "none"} /\ counter' = Count
      /\ market' = market /\ lower' = lower /\ upper' = upper /\ best' = best
  BY DEF Finish
<1>2. TypeOK' /\ market' \in Market /\ InRange'
  BY <1>1 DEF IInv, TypeOK, InRange, Count
<1>3. Barren' /\ Kept' /\ NoUnderflow'
  BY <1>1 DEF Barren, Kept, NoUnderflow
<1>4. NearOptimal'
  <2> SUFFICES ASSUME Concave
               PROVE  \E x \in Optimal : \/ x = best
                                         \/ x - best < tolerance /\ best - x < tolerance
    BY <1>1, SameMarket DEF NearOptimal, tolerance
  <2>1. /\ lower \in Nat /\ upper \in Nat /\ best \in Nat
        /\ market.balance \in Nat /\ best \in 0..market.balance
        /\ upper < lower \/ upper - lower < tolerance
    BY <1>1, SearchAssumption DEF IInv, TypeOK, InRange, Done
  <2>2. CASE Flat
    <3>1. best \in Optimal
      BY <2>1, <2>2 DEF Optimal, Flat
    <3> QED
      BY <3>1
  <2>3. CASE ~Flat
    <3>1. PICK x \in Optimal : x = best \/ x \in lower..upper
      BY <1>1, <2>3 DEF IInv, Kept
    <3>2. lower <= upper => best \in lower..upper
      BY <1>1, <2>3 DEF IInv, Kept
    <3>3. CASE x = best
      BY <3>1, <3>3
    <3>4. CASE x \in lower..upper
      <4>1. tolerance \in Int
        BY <2>1, SearchAssumption DEF tolerance
      <4>2. lower <= upper /\ x \in Int /\ best \in lower..upper /\ upper - lower < tolerance
        BY <2>1, <3>2, <3>4
      <4>3. x - best < tolerance /\ best - x < tolerance
        BY <2>1, <3>4, <4>1, <4>2
      <4> QED
        BY <3>1, <4>3
    <3> QED
      BY <3>1, <3>3, <3>4
  <2> QED
    BY <2>2, <2>3
<1> QED
  BY <1>2, <1>3, <1>4 DEF IInv

\* Nothing has been found, and the search gives up.
LEMMA AbandonKeeps == ASSUME IInv, Abandon PROVE IInv'
<1>1. PICK i \in Cuts : Turn(i)
  BY DEF Abandon
<1>2. state' = "none" /\ lower' = lower /\ upper' = upper
  BY DEF Abandon
<1>3. TypeOK' /\ market' \in Market /\ InRange'
  BY <1>1, <1>2, TurnRange
<1>4. Barren' /\ Kept'
  BY <1>2 DEF Barren, Kept
<1> QED
  BY <1>1, <1>2, <1>3, <1>4, TurnIInv

\* Nothing has been found: as long as there is nothing at zero either, the range is what
\* one turn less needs.
LEMMA ShrinkKeeps == ASSUME IInv, Shrink PROVE IInv'
<1>1. PICK i \in Cuts : Turn(i) /\ Revenue(i) = 0
  BY DEF Shrink
<1>2. /\ counter' # GiveUp /\ lower' = lower
      /\ \/ Cut(Third) = 0 /\ state' = "panic" /\ upper' = upper
         \/ Cut(Third) # 0 /\ state' = state /\ upper' = Cut(Third) - 1
  BY DEF Shrink
<1>3. /\ state = "search" /\ ~Done /\ i = Highest /\ counter' = Count /\ best' = Cut(i)
      /\ market' = market
  BY <1>1 DEF Turn
<1>4. /\ lower \in Nat /\ upper \in Nat /\ lower <= upper
      /\ market.balance \in Nat /\ upper <= market.balance
  BY <1>3, NotDone
<1>5. Third \in Cuts /\ Third \in Nat /\ Intervals \in Nat \ {0}
      /\ GiveUp \in Nat \ {0} /\ 0 \in Cuts
  BY SearchAssumption DEF Third, Cuts
<1>6. TypeOK' /\ market' \in Market /\ InRange'
  <2>1. state' \in {"search", "none", "panic"}
    BY <1>2, <1>3
  <2> QED
    BY <1>1, <1>2, <1>5, <2>1, TurnRange
<1>7. counter \in Nat /\ Count \in Nat /\ (counter < GiveUp => Count = counter + 1)
  BY <1>5 DEF IInv, TypeOK, Count
<1>8. /\ Cut(0) = lower /\ Cut(Third) \in lower..upper
      /\ Cut(0) \in 0..market.balance /\ Revenue(0) \in Nat /\ Revenue(0) <= Revenue(i)
  BY <1>3, <1>4, <1>5, CutInRange, HighestCut
<1>9. lower = 0 => market.rev[0] = 0
  BY <1>1, <1>8 DEF Revenue
<1>10. ASSUME lower = 0
       PROVE  /\ counter + 1 < GiveUp
              /\ market.balance >= Need[GiveUp - 1] =>
                    /\ Cut(Third) # 0
                    /\ Cut(Third) - 1 >= Need[GiveUp - 1 - (counter + 1)]
  <2>1. /\ counter < GiveUp
        /\ market.balance >= Need[GiveUp - 1] => upper >= Need[GiveUp - 1 - counter]
    BY <1>3, <1>9, <1>10 DEF IInv, Barren
  <2>2. counter + 1 < GiveUp
    BY <1>2, <1>3, <1>5, <1>7, <2>1
  <2>3. ASSUME market.balance >= Need[GiveUp - 1]
        PROVE  /\ Cut(Third) # 0
               /\ Cut(Third) - 1 >= Need[GiveUp - 1 - (counter + 1)]
    <3> DEFINE k == GiveUp - 1 - counter
               n == Need[k]
               m == Need[k - 1]
    <3>1. /\ k \in 1..(GiveUp - 1) /\ k - 1 = GiveUp - 1 - (counter + 1)
          /\ k \in 0..(GiveUp - 1) /\ k - 1 \in 0..(GiveUp - 1)
      BY <1>5, <1>7, <2>2
    <3>2. n \in Nat /\ m \in Nat /\ (m + 1) * Intervals <= n * Third
      <4> HIDE DEF k
      <4> QED
        BY <3>1, NeedAssumption
    <3>3. upper >= n
      BY <2>1, <2>3
    <3> HIDE DEF n, m, k
    <3> DEFINE x == upper * Third
    <3>4. x \in Nat /\ x >= Intervals * (m + 1)
      <4>1. n * Third <= upper * Third
        BY <1>4, <1>5, <3>2, <3>3
      <4>2. (m + 1) * Intervals = Intervals * (m + 1)
        BY <1>5, <3>2
      <4>3. n * Third \in Nat /\ upper * Third \in Nat /\ Intervals * (m + 1) \in Nat
        BY <1>4, <1>5, <3>2
      <4> QED
        BY <3>2, <4>1, <4>2, <4>3
    <3> HIDE DEF x
    <3>5. x \div Intervals >= m + 1 /\ x \div Intervals \in Nat
      BY <1>5, <3>2, <3>4, Division, DivisionAbove
    <3>6. Cut(Third) = x \div Intervals
      <4>1. upper - lower = upper
        BY <1>4, <1>10
      <4>2. x \div Intervals \in Nat /\ lower = 0
        BY <1>10, <3>5
      <4>3. Cut(Third) = lower + x \div Intervals
        BY <4>1 DEF Cut, x
      <4> QED
        BY <4>2, <4>3
    <3>7. Cut(Third) - 1 >= m /\ Cut(Third) # 0
      BY <3>2, <3>5, <3>6
    <3>8. m = Need[GiveUp - 1 - (counter + 1)]
      BY <3>1 DEF m
    <3> QED
      BY <3>7, <3>8
  <2> QED
    BY <2>2, <2>3
<1>11. Barren'
  <2> SUFFICES ASSUME state' = "search", lower = 0
               PROVE  /\ counter' < GiveUp
                      /\ market.balance >= Need[GiveUp - 1] =>
                            upper' >= Need[GiveUp - 1 - counter']
    BY <1>2, <1>3 DEF Barren
  <2>1. counter' = counter + 1
    BY <1>3, <1>5, <1>7, <1>10
  <2>2. upper' = Cut(Third) - 1
    BY <1>2
  <2> QED
    BY <1>10, <2>1, <2>2
<1>12. ASSUME state' = "panic" PROVE market.balance < Need[GiveUp - 1]
  <2>1. Cut(Third) = 0
    BY <1>2, <1>3, <1>12
  <2>2. lower = 0
    BY <1>4, <1>8, <2>1
  <2>3. ~(market.balance >= Need[GiveUp - 1])
    BY <1>10, <2>1, <2>2
  <2>4. GiveUp - 1 \in 0..(GiveUp - 1)
    BY <1>5
  <2>5. Need[GiveUp - 1] \in Nat
    BY <2>4, NeedAssumption
  <2> QED
    BY <1>4, <2>3, <2>5
<1>13. Kept'
  <2> SUFFICES ASSUME Concave PROVE Flat
    BY <1>3, SameMarket DEF Kept
  <2> QED
    BY <1>1, <1>3, NothingFound
<1>14. state' \in {"search", "none", "panic"}
  BY <1>2, <1>3
<1> QED
  BY <1>1, <1>6, <1>11, <1>12, <1>13, <1>14, TurnIInv

\* The best cut is the last one.
LEMMA RightmostKeeps == ASSUME IInv, Rightmost PROVE IInv'
<1>1. Turn(Intervals) /\ lower' = Cut(Intervals - 1) + 1 /\ upper' = upper /\ state' = state
  BY DEF Rightmost
<1>2. /\ Intervals \in Cuts /\ Intervals - 1 \in Cuts /\ Intervals # 0
  BY SearchAssumption DEF Cuts
<1>3. state' = "search"
  BY <1>1 DEF Turn
<1>4. TypeOK' /\ market' \in Market /\ InRange'
  BY <1>1, <1>2, <1>3, TurnRange
<1>5. Kept'
  BY <1>1, <1>2, <1>4, TurnKept
<1>6. lower' # 0
  <2>1. /\ lower \in Nat /\ upper \in Nat /\ lower <= upper
    BY <1>1, NotDone DEF Turn
  <2>2. Cut(Intervals - 1) \in lower..upper
    BY <1>2, <2>1, CutInRange
  <2> QED
    BY <1>1, <2>1, <2>2
<1> QED
  BY <1>1, <1>2, <1>3, <1>4, <1>5, <1>6, TurnIInv DEF Barren

\* The best cut is the first one: the next one is a larger input, hence not zero.
LEMMA LeftmostKeeps == ASSUME IInv, Leftmost PROVE IInv'
<1>1. /\ Turn(0) /\ Revenue(0) > 0 /\ lower' = lower
      /\ \/ Cut(1) = 0 /\ state' = "panic"
         \/ Cut(1) # 0 /\ state' = state /\ upper' = Cut(1) - 1
  BY DEF Leftmost
<1>2. 0 \in Cuts /\ 1 \in Cuts /\ 0 < Intervals /\ 0 # Intervals /\ Intervals \in Nat
  BY SearchAssumption DEF Cuts
<1>3. state = "search" /\ ~Done /\ 0 = Highest /\ market' = market
  BY <1>1 DEF Turn
<1>4. Cut(0) < Cut(0 + 1)
  BY <1>2, <1>3, BestCut
<1>5. Cut(0) = lower /\ lower \in Nat /\ Cut(1) # 0
  <2>1. lower \in Nat /\ upper \in Nat /\ lower <= upper
    BY <1>3, NotDone
  <2>2. Cut(0) = lower
    BY <2>1, CutInRange
  <2> QED
    BY <1>4, <2>1, <2>2
<1>6. state' = "search" /\ upper' = Cut(1) - 1
  BY <1>1, <1>3, <1>5
<1>7. TypeOK' /\ market' \in Market /\ InRange'
  BY <1>1, <1>2, <1>5, <1>6, TurnRange
<1>8. Kept'
  <2>1. upper' = Cut(0 + 1) - 1
    BY <1>6
  <2> QED
    BY <1>1, <1>2, <1>7, <2>1, TurnKept
<1>9. Barren'
  <2>1. lower = 0 => market.rev[0] # 0
    BY <1>1, <1>5 DEF Revenue
  <2> QED
    BY <1>1, <1>3, <2>1 DEF Barren
<1> QED
  BY <1>1, <1>2, <1>6, <1>7, <1>8, <1>9, TurnIInv

\* The best cut has a neighbour on each side.
LEMMA InsideKeeps == ASSUME IInv, Inside PROVE IInv'
<1>1. PICK i \in 1..(Intervals - 1) :
        /\ Turn(i)
        /\ lower' = Cut(i - 1) + 1
        /\ IF Cut(i + 1) = 0
           THEN state' = "panic" /\ UNCHANGED upper
           ELSE upper' = Cut(i + 1) - 1 /\ UNCHANGED state
  BY DEF Inside
<1>2. /\ i \in Cuts /\ i - 1 \in Cuts /\ i + 1 \in Cuts /\ i < Intervals
      /\ i # 0 /\ i # Intervals /\ Intervals \in Nat
  BY SearchAssumption DEF Cuts
<1>3. state = "search" /\ ~Done /\ i = Highest
  BY <1>1 DEF Turn
<1>4. Cut(i) < Cut(i + 1)
  BY <1>2, <1>3, BestCut
<1>5. /\ lower \in Nat /\ upper \in Nat /\ lower <= upper
  BY <1>3, NotDone
<1>6. Cut(i) \in Nat /\ Cut(i - 1) \in Nat
  <2>1. Cut(i) \in lower..upper /\ Cut(i - 1) \in lower..upper
    BY <1>2, <1>5, CutInRange
  <2> QED
    BY <1>5, <2>1
<1>7. Cut(i + 1) # 0
  BY <1>4, <1>6
<1>8. state' = "search" /\ upper' = Cut(i + 1) - 1
  BY <1>1, <1>3, <1>7
<1>9. TypeOK' /\ market' \in Market /\ InRange'
  BY <1>1, <1>2, <1>7, <1>8, TurnRange
<1>10. Kept'
  BY <1>1, <1>2, <1>8, <1>9, TurnKept
<1>11. lower' # 0
  BY <1>1, <1>6
<1> QED
  BY <1>1, <1>2, <1>8, <1>9, <1>10, <1>11, TurnIInv DEF Barren

\* All steps together.
LEMMA NextIInv == ASSUME IInv, Next PROVE IInv'
  BY FinishKeeps, AbandonKeeps, ShrinkKeeps, RightmostKeeps, LeftmostKeeps, InsideKeeps DEF Next
--------------------------------------------------------------------------------
\* The theorems.

\* The range stays within the balance, and keeps what it has to keep.
THEOREM Invariance == Spec => []IInv
<1>1. IInv /\ UNCHANGED vars => IInv'
  BY DEF IInv, TypeOK, InRange, Barren, Kept, Concave, Optimal, Flat, NoUnderflow, NearOptimal,
         tolerance, vars
<1>2. IInv /\ [Next]_vars => IInv'
  BY NextIInv, <1>1
<1> QED
  BY InitIInv, <1>2, PTL DEF Spec

\* The variables keep their types: no bound of the range becomes negative.
THEOREM TypeCorrect == Spec => []TypeOK
<1>1. IInv => TypeOK
  BY DEF IInv
<1> QED
  BY Invariance, <1>1, PTL

\* No input beyond the balance is simulated or returned.
THEOREM AffordableInput == Spec => []WithinBalance
<1>1. ASSUME IInv PROVE WithinBalance
  <2>1. best <= market.balance
    BY <1>1 DEF IInv, InRange
  <2>2. ASSUME ~Done, NEW i \in Cuts PROVE Cut(i) \in 0..market.balance
    BY <1>1, <2>2, HighestCut
  <2> QED
    BY <2>1, <2>2 DEF WithinBalance
<1> QED
  BY Invariance, <1>1, PTL

\* A search over more than next to nothing never subtracts below zero.
THEOREM NoPanic == Spec => []NoUnderflow
<1>1. IInv => NoUnderflow
  BY DEF IInv
<1> QED
  BY Invariance, <1>1, PTL

\* In a concave market the search finds an input within the tolerance of an optimal one.
THEOREM Optimality == Spec => []NearOptimal
<1>1. IInv => NearOptimal
  BY DEF IInv
<1> QED
  BY Invariance, <1>1, PTL

\* Every turn after which the search goes on has left it a shorter range.
Progress == state = "search" /\ state' = "search" => upper' - lower' < upper - lower

\* The loop cannot go on for ever: its range gets shorter with every turn, whatever the
\* simulations answer, and it is over when nothing is left.
THEOREM RangeShrinks == Spec => [][Progress]_vars
<1>1. ASSUME IInv, Next PROVE Progress
  <2> SUFFICES ASSUME state = "search", state' = "search"
               PROVE  upper' - lower' < upper - lower
    BY DEF Progress
  <2>1. CASE Finish \/ Abandon
    BY <2>1 DEF Finish, Abandon
  <2>2. CASE Shrink
    <3>1. PICK i \in Cuts : Turn(i)
      BY <2>2 DEF Shrink
    <3>2. lower' = lower /\ Cut(Third) # 0 /\ upper' = Cut(Third) - 1
      BY <2>2 DEF Shrink
    <3>3. Third \in Cuts
      BY SearchAssumption DEF Third, Cuts
    <3>4. Cut(Third) \in lower..upper /\ lower \in Nat /\ upper \in Nat
      BY <1>1, <3>1, <3>3, NotDone, CutInRange DEF Turn
    <3> QED
      BY <3>2, <3>4
  <2>3. CASE Rightmost
    <3>1. Turn(Intervals) /\ lower' = Cut(Intervals - 1) + 1 /\ upper' = upper
      BY <2>3 DEF Rightmost
    <3>2. Intervals - 1 \in Cuts
      BY SearchAssumption DEF Cuts
    <3>3. Cut(Intervals - 1) \in lower..upper /\ lower \in Nat /\ upper \in Nat
      BY <1>1, <3>1, <3>2, NotDone, CutInRange DEF Turn
    <3> QED
      BY <3>1, <3>3
  <2>4. CASE Leftmost
    <3>1. Turn(0) /\ lower' = lower /\ upper' = Cut(1) - 1
      BY <2>4 DEF Leftmost
    <3>2. 1 \in Cuts
      BY SearchAssumption DEF Cuts
    <3>3. Cut(1) \in lower..upper /\ lower \in Nat /\ upper \in Nat
      BY <1>1, <3>1, <3>2, NotDone, CutInRange DEF Turn
    <3> QED
      BY <3>1, <3>3
  <2>5. CASE Inside
    <3>1. PICK i \in 1..(Intervals - 1) :
            Turn(i) /\ lower' = Cut(i - 1) + 1 /\ upper' = Cut(i + 1) - 1
      BY <2>5 DEF Inside
    <3>2. i - 1 \in Cuts /\ i + 1 \in Cuts
      BY SearchAssumption DEF Cuts
    <3>3. /\ Cut(i - 1) \in lower..upper /\ Cut(i + 1) \in lower..upper
          /\ lower \in Nat /\ upper \in Nat
      BY <1>1, <3>1, <3>2, NotDone, CutInRange DEF Turn
    <3> QED
      BY <3>1, <3>3
  <2> QED
    BY <1>1, <2>1, <2>2, <2>3, <2>4, <2>5 DEF Next
<1>2. IInv /\ [Next]_vars => [Progress]_vars
  BY <1>1
<1> QED
  BY Invariance, <1>2, PTL DEF Spec
================================================================================
