----------------------------- MODULE NaturalLemmas -----------------------------
(* Facts about natural numbers that several of the proofs use: induction, stated *)
(* for a set so that no operator has to be instantiated, and division.           *)
EXTENDS Integers, WellFoundedInduction, TLAPS

\* A set of natural numbers has a least element.
LEMMA Least ==
  ASSUME NEW T \in SUBSET Nat, T # {}
  PROVE  \E n \in T : \A m \in T : n <= m
<1> DEFINE R == {r \in Nat \X Nat : r[1] < r[2]}
<1>1. IsWellFoundedOn(R, Nat)
  BY NatLessThanWellFounded DEF OpToRel
<1>2. PICK n \in T : \A m \in T : <<m, n>> \notin R
  BY <1>1, WFMin
<1>3. ASSUME NEW m \in T PROVE n <= m
  <2>1. <<m, n>> \notin R /\ m \in Nat /\ n \in Nat
    BY <1>2
  <2>2. ~(m < n)
    BY <2>1
  <2> QED
    BY <2>1, <2>2
<1> QED
  BY <1>3

\* A set of natural numbers with 0 and the successor of each of its elements has all.
LEMMA Induction ==
  ASSUME NEW T \in SUBSET Nat, 0 \in T, \A n \in T : n + 1 \in T
  PROVE  T = Nat
<1> SUFFICES ASSUME Nat \ T # {} PROVE FALSE
  OBVIOUS
<1>1. PICK n \in Nat \ T : \A m \in Nat \ T : n <= m
  BY Least
<1>2. n # 0 /\ n - 1 \in Nat /\ n - 1 \notin Nat \ T
  BY <1>1
<1> QED
  BY <1>2

\* Of the places where a function is highest, there is a last one.
LEMMA LastHighest ==
  ASSUME NEW n \in Nat, NEW f, \A i \in 0..n : f[i] \in Nat
  PROVE  \E i \in 0..n : \A j \in 0..n : f[j] < f[i] \/ (f[j] = f[i] /\ j <= i)
<1> DEFINE T == {k \in Nat : k <= n =>
              \E i \in 0..k : \A j \in 0..k : f[j] < f[i] \/ (f[j] = f[i] /\ j <= i)}
<1>1. 0 \in T
  OBVIOUS
<1>2. ASSUME NEW k \in T PROVE k + 1 \in T
  <2> SUFFICES ASSUME k + 1 <= n
               PROVE  \E i \in 0..(k + 1) : \A j \in 0..(k + 1) :
                         f[j] < f[i] \/ (f[j] = f[i] /\ j <= i)
    OBVIOUS
  <2>1. PICK i \in 0..k : \A j \in 0..k : f[j] < f[i] \/ (f[j] = f[i] /\ j <= i)
    OBVIOUS
  <2>2. f[i] \in Nat /\ f[k + 1] \in Nat /\ \A j \in 0..k : f[j] \in Nat
    OBVIOUS
  <2>3. CASE f[k + 1] < f[i]
    <3> WITNESS i \in 0..(k + 1)
    <3> QED
      BY <2>1, <2>2, <2>3
  <2>4. CASE f[k + 1] >= f[i]
    <3>1. \A j \in 0..(k + 1) : f[j] < f[k + 1] \/ (f[j] = f[k + 1] /\ j <= k + 1)
      BY <2>1, <2>2, <2>4
    <3> QED
      BY <3>1
  <2> QED
    BY <2>2, <2>3, <2>4
<1>3. T = Nat
  <2> HIDE DEF T
  <2> QED
    BY <1>1, <1>2, Induction DEF T
<1>4. n \in T
  BY <1>3
<1> QED
  BY <1>4

\* Division rounds down.
LEMMA Division ==
  ASSUME NEW a \in Nat, NEW b \in Nat \ {0}
  PROVE  a \div b \in Nat /\ b * (a \div b) <= a /\ a < b * (a \div b) + b
  OBVIOUS

\* What is no more than x times b, divided by b is no more than x.
LEMMA DivisionBelow ==
  ASSUME NEW a \in Nat, NEW b \in Nat \ {0}, NEW x \in Nat, a <= b * x
  PROVE  a \div b <= x
<1> DEFINE q == a \div b
<1>1. q \in Nat /\ b * q <= a
  BY Division
<1> HIDE DEF q
<1> SUFFICES ASSUME q >= x + 1 PROVE FALSE
  BY <1>1 DEF q
<1>2. b * q >= b * (x + 1)
  BY <1>1
<1>3. b * (x + 1) = b * x + b
  OBVIOUS
<1> QED
  BY <1>1, <1>2, <1>3

\* What is no less than x times b, divided by b is no less than x.
LEMMA DivisionAbove ==
  ASSUME NEW a \in Nat, NEW b \in Nat \ {0}, NEW x \in Nat, a >= b * x
  PROVE  a \div b >= x
<1> DEFINE q == a \div b
<1>1. q \in Nat /\ a < b * q + b
  BY Division
<1> HIDE DEF q
<1> SUFFICES ASSUME q + 1 <= x PROVE FALSE
  BY <1>1 DEF q
<1>2. b * (q + 1) <= b * x
  BY <1>1
<1>3. b * (q + 1) = b * q + b
  BY <1>1
<1> QED
  BY <1>1, <1>2, <1>3
================================================================================
