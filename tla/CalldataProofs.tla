------------------------------ MODULE CalldataProofs ------------------------------
(* Proofs about Calldata, for every number of swaps and every shift of their   *)
(* amounts: every payload is as long as the routine that reads it takes it to  *)
(* be, so a transaction makes all its swaps or reverts; the block number is    *)
(* where each routine that checks it looks for it; and every call is the one   *)
(* the bot means, byte for byte, because a routine finds the memory it relies  *)
(* on clear of what the routines before it have written.                       *)
EXTENDS Calldata, NaturalLemmas, SequenceTheorems, TLAPS

--------------------------------------------------------------------------------
\* Sequences put together.

\* f is the function in Concat: what the first k sequences come to.
UpTo(ps, f, n) == f = [k \in 0..n |-> IF k = 0 THEN <<>> ELSE f[k - 1] \o ps[k]]

\* Such a function by its values.
LEMMA UpToValues ==
    ASSUME NEW ps, NEW f, NEW n \in Nat
    PROVE  UpTo(ps, f, n) <=>
              /\ f = [k \in 0..n |-> f[k]] /\ f[0] = <<>>
              /\ \A k \in 1..n : f[k] = f[k - 1] \o ps[k]
<1>1. ASSUME UpTo(ps, f, n)
      PROVE  /\ f = [k \in 0..n |-> f[k]] /\ f[0] = <<>>
             /\ \A k \in 1..n : f[k] = f[k - 1] \o ps[k]
    <2>1. \A k \in 0..n : f[k] = IF k = 0 THEN <<>> ELSE f[k - 1] \o ps[k]
        BY <1>1 DEF UpTo
    <2>2. f = [k \in 0..n |-> f[k]]
        BY <1>1 DEF UpTo
    <2> QED BY <2>1, <2>2
<1>2. ASSUME f = [k \in 0..n |-> f[k]], f[0] = <<>>,
             \A k \in 1..n : f[k] = f[k - 1] \o ps[k]
      PROVE  UpTo(ps, f, n)
    <2>1. ASSUME NEW k \in 0..n PROVE f[k] = IF k = 0 THEN <<>> ELSE f[k - 1] \o ps[k]
        <3>1. CASE k = 0
            BY <1>2, <3>1
        <3>2. CASE k # 0
            <4>1. k \in 1..n
                BY <3>2
            <4> QED BY <1>2, <3>2, <4>1
        <3> QED BY <3>1, <3>2
    <2> QED BY <1>2, <2>1 DEF UpTo
<1> QED BY <1>1, <1>2

\* There is such a function for every number of sequences.
LEMMA UpToExists ==
    ASSUME NEW ps, NEW n \in Nat
    PROVE  \E f : UpTo(ps, f, n)
<1> DEFINE T == {m \in Nat : \E f : UpTo(ps, f, m)}
<1>1. 0 \in T
    <2>1. UpTo(ps, [k \in 0..0 |-> <<>>], 0)
        BY UpToValues
    <2> QED BY <2>1
<1>2. ASSUME NEW m \in T PROVE m + 1 \in T
    <2>1. m \in Nat
        OBVIOUS
    <2>2. PICK f : UpTo(ps, f, m)
        OBVIOUS
    <2>3. f[0] = <<>> /\ \A k \in 1..m : f[k] = f[k - 1] \o ps[k]
        BY <2>1, <2>2, UpToValues
    <2> DEFINE g == [k \in 0..(m + 1) |-> IF k <= m THEN f[k] ELSE f[m] \o ps[m + 1]]
    <2>4. \A k \in 0..m : g[k] = f[k]
        BY <2>1
    <2>5. g[m + 1] = f[m] \o ps[m + 1]
        BY <2>1
    <2>6. g = [k \in 0..(m + 1) |-> g[k]]
        OBVIOUS
    <2> HIDE DEF g
    <2>7. \A k \in 1..(m + 1) : g[k] = g[k - 1] \o ps[k]
        <3>1. SUFFICES ASSUME NEW k \in 1..(m + 1) PROVE g[k] = g[k - 1] \o ps[k]
            OBVIOUS
        <3>2. CASE k = m + 1
            <4>1. k - 1 = m /\ m \in 0..m
                BY <2>1, <3>2
            <4> QED BY <2>4, <2>5, <3>2, <4>1
        <3>3. CASE k # m + 1
            <4>1. k \in 1..m /\ k \in 0..m /\ k - 1 \in 0..m
                BY <2>1, <3>1, <3>3
            <4> QED BY <2>3, <2>4, <4>1
        <3> QED BY <3>2, <3>3
    <2>8. g[0] = <<>>
        BY <2>1, <2>3, <2>4
    <2>9. UpTo(ps, g, m + 1)
        <3>1. m + 1 \in Nat
            BY <2>1
        <3> QED BY <3>1, <2>6, <2>7, <2>8, UpToValues
    <2> QED BY <2>1, <2>9
<1>3. T = Nat
    <2> HIDE DEF T
    <2> QED BY <1>1, <1>2, Induction DEF T
<1> QED BY <1>3

\* Concat is the last value of that function.
LEMMA ConcatUpTo ==
    ASSUME NEW ps, Len(ps) \in Nat
    PROVE  \E f : UpTo(ps, f, Len(ps)) /\ Concat(ps) = f[Len(ps)]
<1> DEFINE h == CHOOSE f : UpTo(ps, f, Len(ps))
<1>1. UpTo(ps, h, Len(ps))
    BY UpToExists
<1>2. Concat(ps) = h[Len(ps)]
    BY DEF Concat, UpTo
<1> QED BY <1>1, <1>2

\* The n sequences are in d one after the other: st[k] is where the k-th ends.
Laid(ps, n, d, st) ==
    /\ \A k \in 0..n : st[k] \in Nat
    /\ st[n] = Len(d)
    /\ \A k \in 1..n : /\ st[k] = st[k - 1] + Len(ps[k]) /\ st[k] <= Len(d)
                       /\ \A i \in 1..Len(ps[k]) : d[st[k - 1] + i] = ps[k][i]

LaidFrom(ps, n, d, p) == \E st : Laid(ps, n, d, st) /\ st[0] = p

SeqsOf(ps, n, E) == Len(ps) = n /\ \A k \in 1..n : ps[k] \in Seq(E)

\* t is s and then p.
Joins(t, s, p) ==
    /\ Len(s) \in Nat /\ Len(p) \in Nat /\ Len(t) = Len(s) + Len(p)
    /\ \A i \in 1..Len(s) : t[i] = s[i]
    /\ \A i \in 1..Len(p) : t[Len(s) + i] = p[i]

\* Both parts are found in a concatenation.
LEMMA OneSequenceMore ==
    ASSUME NEW E, NEW s \in Seq(E), NEW p \in Seq(E)
    PROVE  s \o p \in Seq(E) /\ Joins(s \o p, s, p)
<1>1. PICK a \in Nat, b \in Nat : a = Len(s) /\ b = Len(p)
    OBVIOUS
<1>2. /\ s \o p \in Seq(E) /\ Len(s \o p) = a + b
      /\ \A i \in 1..(a + b) : (s \o p)[i] = IF i <= a THEN s[i] ELSE p[i - a]
    BY <1>1, ConcatProperties
<1>3. \A i \in 1..a : (s \o p)[i] = s[i]
    <2>1. \A i \in 1..a : i \in 1..(a + b) /\ i <= a
        OBVIOUS
    <2> QED BY <1>2, <2>1
<1>4. \A i \in 1..b : (s \o p)[a + i] = p[i]
    <2>1. \A i \in 1..b : a + i \in 1..(a + b) /\ ~(a + i <= a) /\ (a + i) - a = i
        OBVIOUS
    <2> QED BY <1>2, <2>1
<1> QED BY <1>1, <1>2, <1>3, <1>4 DEF Joins

\* All its values are sequences of the same elements.
LEMMA UpToSequences ==
    ASSUME NEW E, NEW ps, NEW f, NEW N \in Nat, SeqsOf(ps, N, E), UpTo(ps, f, N)
    PROVE  \A n \in 0..N : f[n] \in Seq(E)
<1> DEFINE T == {n \in Nat : n <= N => f[n] \in Seq(E)}
<1>1. f[0] = <<>> /\ \A k \in 1..N : f[k] = f[k - 1] \o ps[k]
    BY UpToValues
<1>2. \A k \in 1..N : ps[k] \in Seq(E)
    BY DEF SeqsOf
<1>3. 0 \in T
    BY <1>1, EmptySeq
<1>4. ASSUME NEW n \in Nat, n \in T PROVE n + 1 \in T
    <2>1. CASE n + 1 <= N
        <3>1. n + 1 \in 1..N /\ n + 1 - 1 = n /\ n <= N
            BY <1>4, <2>1
        <3>2. f[n] \in Seq(E)
            BY <1>4, <3>1
        <3> HIDE DEF T
        <3>3. f[n + 1] = f[n] \o ps[n + 1]
            <4>1. f[n + 1] = f[(n + 1) - 1] \o ps[n + 1]
                BY <1>1, <3>1, Zenon
            <4>2. (n + 1) - 1 = n
                BY <1>4
            <4> QED BY <4>1, <4>2, Zenon
        <3>4. ps[n + 1] \in Seq(E)
            BY <1>2, <3>1
        <3>5. f[n + 1] \in Seq(E)
            BY <3>2, <3>3, <3>4, OneSequenceMore
        <3> QED BY <3>5 DEF T
    <2>2. CASE ~(n + 1 <= N)
        BY <2>2
    <2> QED BY <2>1, <2>2
<1>5. T \in SUBSET Nat
    OBVIOUS
<1>6. T = Nat
    <2> HIDE DEF T
    <2> QED BY <1>3, <1>4, <1>5, Induction
<1>7. ASSUME NEW n \in 0..N PROVE f[n] \in Seq(E)
    <2>1. n \in T /\ n <= N
        BY <1>6
    <2> QED BY <2>1
<1> QED BY <1>7

\* From the first m sequences to the first m + 1.
LEMMA Steps ==
    ASSUME NEW E, NEW ps, NEW f, NEW N \in Nat, SeqsOf(ps, N, E), UpTo(ps, f, N),
           NEW m \in Nat, m + 1 <= N
    PROVE  Joins(f[m + 1], f[m], ps[m + 1])
<1>1. \A k \in 1..N : f[k] = f[k - 1] \o ps[k]
    BY UpToValues
<1>2. m + 1 \in 1..N /\ m \in 0..N
    OBVIOUS
<1>3. f[m + 1] = f[m] \o ps[m + 1]
    <2>1. f[m + 1] = f[(m + 1) - 1] \o ps[m + 1]
        BY <1>1, <1>2, Zenon
    <2>2. (m + 1) - 1 = m
        OBVIOUS
    <2> QED BY <2>1, <2>2, Zenon
<1>4. f[m] \in Seq(E)
    BY <1>2, UpToSequences
<1>5. ps[m + 1] \in Seq(E)
    BY <1>2 DEF SeqsOf
<1>6. Joins(f[m] \o ps[m + 1], f[m], ps[m + 1])
    BY <1>4, <1>5, OneSequenceMore, Zenon
<1> QED BY <1>3, <1>6, Zenon

\* The first n sequences are in what they come to, one after the other.
Found(ps, f, n) ==
    \A k \in 1..n : /\ Len(f[k]) = Len(f[k - 1]) + Len(ps[k]) /\ Len(f[k]) <= Len(f[n])
                    /\ \A i \in 1..Len(ps[k]) : f[n][Len(f[k - 1]) + i] = ps[k][i]

\* With one sequence more, the earlier ones are still where they were.
LEMMA FoundNext ==
    ASSUME NEW E, NEW ps, NEW f, NEW N \in Nat, SeqsOf(ps, N, E), UpTo(ps, f, N),
           NEW n \in Nat, n + 1 <= N, Found(ps, f, n)
    PROVE  Found(ps, f, n + 1)
<1>1. Joins(f[n + 1], f[n], ps[n + 1])
    BY Steps
<1>2. PICK c \in Nat, d \in Nat : c = Len(f[n]) /\ d = Len(ps[n + 1])
    BY <1>1 DEF Joins
<1>3. /\ Len(f[n + 1]) = c + d
      /\ \A i \in 1..c : f[n + 1][i] = f[n][i]
      /\ \A i \in 1..d : f[n + 1][c + i] = ps[n + 1][i]
    BY <1>1, <1>2 DEF Joins
<1>4. ASSUME NEW k \in 1..(n + 1)
      PROVE  /\ Len(f[k]) = Len(f[k - 1]) + Len(ps[k]) /\ Len(f[k]) <= Len(f[n + 1])
             /\ \A i \in 1..Len(ps[k]) : f[n + 1][Len(f[k - 1]) + i] = ps[k][i]
    <2>1. CASE k = n + 1
        <3>1. k - 1 = n /\ c + d <= c + d
            BY <2>1
        <3> QED BY <1>2, <1>3, <2>1, <3>1
    <2>2. CASE k # n + 1
        <3>1. k \in 1..n
            BY <1>4, <2>2
        <3>2. PICK m \in Nat : m + 1 = k /\ m + 1 <= N
            <4>1. k - 1 \in Nat /\ k - 1 + 1 = k /\ k - 1 + 1 <= N
                BY <3>1
            <4> QED BY <4>1
        <3>3. k - 1 = m
            BY <3>2
        <3>4. Joins(f[k], f[m], ps[k])
            <4>1. Joins(f[m + 1], f[m], ps[m + 1])
                BY <3>2, Steps
            <4> QED BY <3>2, <4>1
        <3>5. PICK a \in Nat, b \in Nat : a = Len(f[m]) /\ b = Len(ps[k])
            BY <3>4 DEF Joins
        <3>6. Len(f[k]) = a + b
            BY <3>5, <3>4 DEF Joins
        <3>7. a + b <= c /\ \A i \in 1..b : f[n][a + i] = ps[k][i]
            BY <1>2, <3>1, <3>3, <3>5, <3>6 DEF Found
        <3>8. \A i \in 1..b : a + i \in 1..c
            BY <3>7
        <3>9. \A i \in 1..b : f[n + 1][a + i] = ps[k][i]
            BY <1>3, <3>7, <3>8
        <3>10. a + b <= c + d
            BY <3>7
        <3> QED BY <1>3, <3>3, <3>5, <3>6, <3>9, <3>10
    <2> QED BY <2>1, <2>2
<1> QED BY <1>4 DEF Found

\* So all of them are found, for any number of sequences.
LEMMA AllFound ==
    ASSUME NEW E, NEW ps, NEW f, NEW N \in Nat, SeqsOf(ps, N, E), UpTo(ps, f, N)
    PROVE  Found(ps, f, N)
<1> DEFINE T == {n \in Nat : n <= N => Found(ps, f, n)}
<1>1. 0 \in T
    <2>1. 1..0 = {}
        OBVIOUS
    <2> QED BY <2>1 DEF Found
<1>2. ASSUME NEW n \in Nat, n \in T PROVE n + 1 \in T
    <2>1. CASE n + 1 <= N
        <3>1. Found(ps, f, n)
            BY <1>2, <2>1
        <3> HIDE DEF T
        <3>2. Found(ps, f, n + 1)
            BY <2>1, <3>1, FoundNext
        <3> QED BY <3>2 DEF T
    <2>2. CASE ~(n + 1 <= N)
        BY <2>2
    <2> QED BY <2>1, <2>2
<1>3. T \in SUBSET Nat
    OBVIOUS
<1>4. T = Nat
    <2> HIDE DEF T
    <2> QED BY <1>1, <1>2, <1>3, Induction
<1> QED BY <1>4

\* Every sequence is found in the concatenation, at its offset.
LEMMA ConcatLayout ==
    ASSUME NEW E, NEW ps, NEW N \in Nat, SeqsOf(ps, N, E)
    PROVE  Concat(ps) \in Seq(E) /\ LaidFrom(ps, N, Concat(ps), 0)
<1>1. PICK f : UpTo(ps, f, N) /\ Concat(ps) = f[N]
    BY ConcatUpTo DEF SeqsOf
<1>2. f[0] = <<>> /\ \A n \in 0..N : f[n] \in Seq(E) /\ Len(f[n]) \in Nat
    BY <1>1, UpToValues, UpToSequences, LenProperties
<1>3. Found(ps, f, N)
    BY <1>1, AllFound
<1> DEFINE off == [k \in 0..N |-> Len(f[k])]
<1>4. \A k \in 0..N : off[k] \in Nat /\ off[k] = Len(f[k])
    BY <1>2
<1> HIDE DEF off
<1>5. 0 \in 0..N /\ N \in 0..N /\ \A k \in 1..N : k \in 0..N /\ k - 1 \in 0..N
    OBVIOUS
<1>6. off[0] = 0 /\ \A k \in 1..N : off[k] = off[k - 1] + Len(ps[k])
    BY <1>2, <1>3, <1>4, <1>5, EmptySeq DEF Found
<1>7. Concat(ps) \in Seq(E) /\ off[N] = Len(Concat(ps))
    BY <1>1, <1>2, <1>4, <1>5
<1>8. \A k \in 1..N : /\ off[k] <= Len(Concat(ps))
                      /\ \A i \in 1..Len(ps[k]) : Concat(ps)[off[k - 1] + i] = ps[k][i]
    BY <1>1, <1>3, <1>4, <1>5 DEF Found
<1>9. Laid(ps, N, Concat(ps), off)
    BY <1>4, <1>6, <1>7, <1>8 DEF Laid
<1> QED BY <1>6, <1>7, <1>9 DEF LaidFrom
--------------------------------------------------------------------------------
\* The layout of the calldata.

\* What the bot packs: no number is above 101, the label of the check of the block number.
Fields == {"num", "pool", "token", "hash", "block", "in", "out"}
Byte == Fields \X Nat \X (0..101)

\* The fields of a payload are sequences of bytes, of the lengths the contract reads.
LEMMA Bytes1 == ASSUME NEW b \in Byte PROVE <<b>> \in Seq(Byte) /\ Len(<<b>>) = 1 /\ <<b>>[1] = b
OBVIOUS

LEMMA NumByte == ASSUME NEW n \in 0..101 PROVE Num(n) \in Byte
BY DEF Num, Byte, Fields

LEMMA FieldBytes ==
    ASSUME NEW what \in Fields, NEW k \in Nat, NEW n \in 0..101
    PROVE  Field(what, k, n) \in Seq(Byte) /\ Len(Field(what, k, n)) = n
<1>1. \A i \in 1..n : <<what, k, i>> \in Byte
    BY DEF Byte
<1>2. Field(what, k, n) \in [1..n -> Byte]
    BY <1>1 DEF Field
<1> HIDE DEF Byte
<1> QED BY <1>2

LEMMA FourBytesBytes ==
    ASSUME NEW what \in Fields, NEW k \in Nat, NEW shift \in Shift,
           NEW a \in BOOLEAN, NEW b \in BOOLEAN
    PROVE  FourBytes(what, k, shift, a, b) \in Seq(Byte) /\ Len(FourBytes(what, k, shift, a, b)) = 5
<1>1. shift \in 0..28
    BY CalldataAssumption
<1> DEFINE n == (IF a /\ ~b THEN 32 ELSE 64) - shift
<1>2. n \in 0..101
    BY <1>1
<1>3. FourBytes(what, k, shift, a, b) = <<Num(n)>> \o Field(what, k, 4)
    BY DEF FourBytes
<1> DEFINE place == <<Num(n)>>
           amount == Field(what, k, 4)
           f == FourBytes(what, k, shift, a, b)
<1>4. place \in Seq(Byte) /\ Len(place) = 1
    <2> HIDE DEF n
    <2> QED BY <1>2, NumByte, Bytes1
<1>5. amount \in Seq(Byte) /\ Len(amount) = 4
    BY FieldBytes
<1>6. f = place \o amount
    BY <1>3
<1> HIDE DEF n, place, amount, f
<1>7. f \in Seq(Byte) /\ Joins(f, place, amount)
    BY <1>4, <1>5, <1>6, OneSequenceMore
<1>8. f \in Seq(Byte) /\ Len(f) = 5
    BY <1>4, <1>5, <1>7 DEF Joins
<1> QED BY <1>8 DEF f

LEMMA BlockBytes == Block \in Seq(Byte) /\ Len(Block) = 4
BY FieldBytes DEF Block, Fields

\* A string of n bytes; and b, of n bytes, from place m of t on.
String(t, n) == t \in Seq(Byte) /\ Len(t) = n
Holds(t, m, b, n) == \A i \in 1..n : t[m + i] = b[i]

\* Strings put together, two or three of them.
LEMMA Two ==
    ASSUME NEW a, NEW b, NEW m \in Nat, NEW n \in Nat, String(a, m), String(b, n)
    PROVE  /\ String(a \o b, m + n)
           /\ Holds(a \o b, 0, a, m) /\ Holds(a \o b, m, b, n)
<1>1. a \in Seq(Byte) /\ b \in Seq(Byte) /\ Len(a) = m /\ Len(b) = n
    BY DEF String
<1>2. a \o b \in Seq(Byte) /\ Joins(a \o b, a, b)
    BY <1>1, OneSequenceMore
<1> QED BY <1>1, <1>2 DEF Joins, String, Holds

\* What is in the beginning of a string is in the string.
LEMMA Within ==
    ASSUME NEW t, NEW u, NEW n \in Nat, Holds(t, 0, u, n),
           NEW m \in Nat, NEW b, NEW l \in Nat, Holds(u, m, b, l), m + l <= n
    PROVE  Holds(t, m, b, l)
<1>1. ASSUME NEW i \in 1..l PROVE t[m + i] = b[i]
    <2>1. m + i \in 1..n /\ 0 + (m + i) = m + i
        OBVIOUS
    <2> QED BY <2>1 DEF Holds
<1> QED BY <1>1 DEF Holds

LEMMA Three ==
    ASSUME NEW a, NEW b, NEW c, NEW l \in Nat, NEW m \in Nat, NEW n \in Nat,
           String(a, l), String(b, m), String(c, n)
    PROVE  /\ String(a \o b \o c, l + m + n)
           /\ Holds(a \o b \o c, 0, a, l) /\ Holds(a \o b \o c, l, b, m)
           /\ Holds(a \o b \o c, l + m, c, n)
<1> DEFINE u == a \o b
           t == u \o c
<1>1. l + m \in Nat /\ 0 + l <= l + m /\ l + m <= l + m
    OBVIOUS
<1>2. String(u, l + m) /\ Holds(u, 0, a, l) /\ Holds(u, l, b, m)
    BY Two, Zenon
<1> HIDE DEF u
<1>3. String(t, l + m + n) /\ Holds(t, 0, u, l + m) /\ Holds(t, l + m, c, n)
    BY <1>1, <1>2, Two, Zenon
<1> HIDE DEF t
<1>4. Holds(t, 0, a, l) /\ Holds(t, l, b, m)
    <2>1. 0 \in Nat
        OBVIOUS
    <2> QED BY <1>1, <1>2, <1>3, <2>1, Within
<1> QED BY <1>3, <1>4 DEF t, u

\* A payload q: the label b of a routine, pool k, and what follows, p.
Headed(q, b, k, p) ==
    /\ q \in Seq(Byte) /\ Len(q) = 21 + Len(p) /\ q[1] = b
    /\ Holds(q, 1, Pool(k), 20) /\ Holds(q, 21, p, Len(p))

\* A payload begins with the byte that is jumped to and the pool.
LEMMA PayloadHead ==
    ASSUME NEW b \in Byte, NEW k \in Nat, NEW p \in Seq(Byte)
    PROVE  Headed(<<b>> \o Pool(k) \o p, b, k, p)
<1> DEFINE q == <<b>> \o Pool(k) \o p
           label == <<b>>
<1>1. String(label, 1) /\ label[1] = b
    BY Bytes1 DEF String
<1>2. String(Pool(k), 20)
    <2>1. "pool" \in Fields /\ 20 \in 0..101
        BY DEF Fields
    <2> QED BY <2>1, FieldBytes DEF Pool, String
<1>3. PICK n \in Nat : n = Len(p) /\ String(p, n)
    BY LenProperties DEF String
<1> HIDE DEF label
<1>4. /\ String(q, 1 + 20 + n) /\ Holds(q, 0, label, 1)
      /\ Holds(q, 1, Pool(k), 20) /\ Holds(q, 1 + 20, p, n)
    BY <1>1, <1>2, <1>3, Three DEF label
<1> HIDE DEF q
<1>5. q[1] = b
    <2>1. \A i \in 1..1 : q[0 + i] = label[i]
        BY <1>4 DEF Holds
    <2>2. 1 \in 1..1 /\ 0 + 1 = 1
        OBVIOUS
    <2>3. q[0 + 1] = label[1]
        BY <2>1, <2>2, Zenon
    <2> QED BY <1>1, <2>2, <2>3
<1>6. Headed(q, b, k, p)
    BY <1>3, <1>4, <1>5 DEF Headed, String
<1> QED BY <1>6 DEF q
--------------------------------------------------------------------------------
\* The bytes that are jumped to: the label the bot writes is the gate of the routine.

\* The gates of MAIN, by the byte that leads to each: six bytes, and five for each gate.
LEMMA Doors ==
    /\ Gate(Num(6)) = "v2_output0" /\ Gate(Num(11)) = "v2_input0"
    /\ Gate(Num(16)) = "v2_output1" /\ Gate(Num(21)) = "v2_input1"
    /\ Gate(Num(26)) = "v3_output1_big" /\ Gate(Num(31)) = "v3_output0_big"
    /\ Gate(Num(36)) = "v3_output1_small" /\ Gate(Num(41)) = "v3_output0_small"
    /\ Gate(Num(46)) = "v3_input0" /\ Gate(Num(51)) = "v3_input1"
    /\ Gate(Num(71)) = "multi_call_v2_input" /\ Gate(Num(76)) = "multi_call_v2_output"
    /\ Gate(Num(81)) = "multi_call_v3_input0" /\ Gate(Num(86)) = "multi_call_v3_input1"
    /\ Gate(Num(91)) = "multi_call_v3_output0" /\ Gate(Num(96)) = "multi_call_v3_output1"
    /\ Gate(Num(101)) = "check_block_number"
<1> DEFINE G(n) == IF n >= 6 /\ (n - 6) % 5 = 0 /\ (n - 6) \div 5 < 20
                   THEN Gates[(n - 6) \div 5 + 1] ELSE "revert"
<1>1. Len(Gates) = 20
    BY DEF Gates
<1>2. \A n : Gate(Num(n)) = G(n)
    BY <1>1 DEF Gate, Num
<1>3. /\ G(6) = Gates[1] /\ G(11) = Gates[2] /\ G(16) = Gates[3] /\ G(21) = Gates[4]
      /\ G(26) = Gates[5] /\ G(31) = Gates[6] /\ G(36) = Gates[7] /\ G(41) = Gates[8]
      /\ G(46) = Gates[9] /\ G(51) = Gates[10] /\ G(71) = Gates[14] /\ G(76) = Gates[15]
      /\ G(81) = Gates[16] /\ G(86) = Gates[17] /\ G(91) = Gates[18] /\ G(96) = Gates[19]
      /\ G(101) = Gates[20]
    OBVIOUS
<1> HIDE DEF G
<1> QED BY <1>2, <1>3 DEF Gates

SwapType(s, multi) == IF s.venue = "V2" THEN V2SwapType(s, multi) ELSE V3SwapType(s, multi)

\* The routine for a swap.
Routine(s, multi) ==
    CASE s.venue = "V2" /\ multi -> IF s.buys THEN "multi_call_v2_input" ELSE "multi_call_v2_output"
      [] s.venue = "V2" /\ ~multi ->
            IF s.buys THEN IF s.weth0 THEN "v2_input0" ELSE "v2_input1"
            ELSE IF s.weth0 THEN "v2_output0" ELSE "v2_output1"
      [] s.venue = "V3" /\ multi ->
            IF s.buys THEN IF s.weth0 THEN "multi_call_v3_input0" ELSE "multi_call_v3_input1"
            ELSE IF s.weth0 THEN "multi_call_v3_output0" ELSE "multi_call_v3_output1"
      [] s.venue = "V3" /\ ~multi ->
            IF s.buys THEN IF s.weth0 THEN "v3_input0" ELSE "v3_input1"
            ELSE IF s.weth0 THEN IF s.small THEN "v3_output0_small" ELSE "v3_output0_big"
            ELSE IF s.small THEN "v3_output1_small" ELSE "v3_output1_big"

\* The places of the labels in the lists of the constructors.
LEMMA V2Places ==
    /\ Index(V2Labels, "v2_output0") = 1 /\ Index(V2Labels, "v2_input0") = 2
    /\ Index(V2Labels, "v2_output1") = 3 /\ Index(V2Labels, "v2_input1") = 4
<1>1. DOMAIN V2Labels = 1..4
    BY DEF V2Labels
<1>2. /\ \A i \in 1..4 : V2Labels[i] = "v2_output0" <=> i = 1
      /\ \A i \in 1..4 : V2Labels[i] = "v2_input0" <=> i = 2
      /\ \A i \in 1..4 : V2Labels[i] = "v2_output1" <=> i = 3
      /\ \A i \in 1..4 : V2Labels[i] = "v2_input1" <=> i = 4
    BY DEF V2Labels
<1>3. 1 \in 1..4 /\ 2 \in 1..4 /\ 3 \in 1..4 /\ 4 \in 1..4
    OBVIOUS
<1> QED BY <1>1, <1>2, <1>3 DEF Index

LEMMA V3Places ==
    /\ Index(V3Labels, "v3_output1_big") = 1 /\ Index(V3Labels, "v3_output0_big") = 2
    /\ Index(V3Labels, "v3_output1_small") = 3 /\ Index(V3Labels, "v3_output0_small") = 4
    /\ Index(V3Labels, "v3_input0") = 5 /\ Index(V3Labels, "v3_input1") = 6
<1>1. DOMAIN V3Labels = 1..6
    BY DEF V3Labels
<1>2. /\ \A i \in 1..6 : V3Labels[i] = "v3_output1_big" <=> i = 1
      /\ \A i \in 1..6 : V3Labels[i] = "v3_output0_big" <=> i = 2
      /\ \A i \in 1..6 : V3Labels[i] = "v3_output1_small" <=> i = 3
      /\ \A i \in 1..6 : V3Labels[i] = "v3_output0_small" <=> i = 4
      /\ \A i \in 1..6 : V3Labels[i] = "v3_input0" <=> i = 5
      /\ \A i \in 1..6 : V3Labels[i] = "v3_input1" <=> i = 6
    BY DEF V3Labels
<1>3. 1 \in 1..6 /\ 2 \in 1..6 /\ 3 \in 1..6 /\ 4 \in 1..6 /\ 5 \in 1..6 /\ 6 \in 1..6
    OBVIOUS
<1> QED BY <1>1, <1>2, <1>3 DEF Index

\* Every label leads to a routine for the swap.
LEMMA LabelLeads ==
    ASSUME NEW s \in Swap, NEW multi \in BOOLEAN
    PROVE  SwapType(s, multi) \in Byte /\ Gate(SwapType(s, multi)) = Routine(s, multi)
<1>1. s.venue \in {"V2", "V3"} /\ s.buys \in BOOLEAN /\ s.weth0 \in BOOLEAN /\ s.small \in BOOLEAN
    BY DEF Swap
<1>2. /\ Num(6) \in Byte /\ Num(11) \in Byte /\ Num(16) \in Byte /\ Num(21) \in Byte
      /\ Num(26) \in Byte /\ Num(31) \in Byte /\ Num(36) \in Byte /\ Num(41) \in Byte
      /\ Num(46) \in Byte /\ Num(51) \in Byte /\ Num(71) \in Byte /\ Num(76) \in Byte
      /\ Num(81) \in Byte /\ Num(86) \in Byte /\ Num(91) \in Byte /\ Num(96) \in Byte
    BY NumByte
<1>3. CASE s.venue = "V2" /\ multi
    <2>1. /\ s.buys => SwapType(s, multi) = Num(71)
          /\ ~s.buys => SwapType(s, multi) = Num(76)
        BY <1>3 DEF SwapType, V2SwapType, MultiLabels
    <2>2. /\ s.buys => Routine(s, multi) = "multi_call_v2_input"
          /\ ~s.buys => Routine(s, multi) = "multi_call_v2_output"
        BY <1>3 DEF Routine
    <2> QED BY <1>1, <1>2, <2>1, <2>2, Doors
<1>4. CASE s.venue = "V2" /\ ~multi
    <2>1. /\ s.buys /\ s.weth0 => SwapType(s, multi) = Num(11)
          /\ s.buys /\ ~s.weth0 => SwapType(s, multi) = Num(21)
          /\ ~s.buys /\ s.weth0 => SwapType(s, multi) = Num(6)
          /\ ~s.buys /\ ~s.weth0 => SwapType(s, multi) = Num(16)
        BY <1>1, <1>4, V2Places DEF SwapType, V2SwapType
    <2> QED BY <1>1, <1>2, <1>4, <2>1, Doors DEF Routine
<1>5. CASE s.venue = "V3" /\ multi
    <2>1. /\ s.buys /\ s.weth0 => SwapType(s, multi) = Num(81)
          /\ s.buys /\ ~s.weth0 => SwapType(s, multi) = Num(86)
          /\ ~s.buys /\ s.weth0 => SwapType(s, multi) = Num(91)
          /\ ~s.buys /\ ~s.weth0 => SwapType(s, multi) = Num(96)
        BY <1>1, <1>5 DEF SwapType, V3SwapType, MultiLabels
    <2>2. /\ s.buys /\ s.weth0 => Routine(s, multi) = "multi_call_v3_input0"
          /\ s.buys /\ ~s.weth0 => Routine(s, multi) = "multi_call_v3_input1"
          /\ ~s.buys /\ s.weth0 => Routine(s, multi) = "multi_call_v3_output0"
          /\ ~s.buys /\ ~s.weth0 => Routine(s, multi) = "multi_call_v3_output1"
        BY <1>5 DEF Routine
    <2> QED BY <1>1, <1>2, <2>1, <2>2, Doors
<1>6. CASE s.venue = "V3" /\ ~multi
    <2>1. /\ s.buys /\ s.weth0 => SwapType(s, multi) = Num(46)
          /\ s.buys /\ ~s.weth0 => SwapType(s, multi) = Num(51)
          /\ ~s.buys /\ s.weth0 /\ s.small => SwapType(s, multi) = Num(41)
          /\ ~s.buys /\ s.weth0 /\ ~s.small => SwapType(s, multi) = Num(31)
          /\ ~s.buys /\ ~s.weth0 /\ s.small => SwapType(s, multi) = Num(36)
          /\ ~s.buys /\ ~s.weth0 /\ ~s.small => SwapType(s, multi) = Num(26)
        BY <1>1, <1>6, V3Places DEF SwapType, V3SwapType
    <2> QED BY <1>1, <1>2, <1>6, <2>1, Doors DEF Routine
<1> QED BY <1>1, <1>3, <1>4, <1>5, <1>6
--------------------------------------------------------------------------------
\* The length of a payload, and where one that names the block has it.
Size(s, multi) ==
    CASE s.venue = "V2" /\ multi -> IF s.buys THEN 31 ELSE 51
      [] s.venue = "V2" /\ ~multi -> IF s.buys THEN 30 ELSE 46
      [] s.venue = "V3" /\ multi -> IF s.buys THEN 58 ELSE 78
      [] s.venue = "V3" /\ ~multi -> IF s.buys THEN 57 ELSE IF s.small THEN 79 ELSE 82

BlockPlace(s) == IF s.venue = "V2" THEN 26 ELSE 53

\* What a payload holds besides its label and its pool.
Parts(q, s, k, multi) ==
    /\ s.venue = "V2" /\ s.buys /\ ~multi =>
          Holds(q, 21, FourBytes("out", k, s.out, TRUE, s.weth0), 5) /\ Holds(q, 26, Block, 4)
    /\ s.venue = "V2" /\ s.buys /\ multi =>
          /\ Holds(q, 21, FourBytes("in", k, s.in, TRUE, FALSE), 5)
          /\ Holds(q, 26, FourBytes("out", k, s.out, TRUE, s.weth0), 5)
    /\ s.venue = "V2" /\ ~s.buys /\ ~multi =>
          Holds(q, 21, Token(k), 20) /\ Holds(q, 41, FourBytes("in", k, s.in, FALSE, s.weth0), 5)
    /\ s.venue = "V2" /\ ~s.buys /\ multi =>
          /\ Holds(q, 21, Token(k), 20)
          /\ Holds(q, 41, FourBytes("in", k, s.in, FALSE, FALSE), 5)
          /\ Holds(q, 46, FourBytes("out", k, s.out, TRUE, ~s.weth0), 5)
    /\ s.venue = "V3" /\ s.buys /\ ~multi =>
          Holds(q, 21, Hash(k), 32) /\ Holds(q, 53, Block, 4)
    /\ s.venue = "V3" /\ s.buys /\ multi =>
          Holds(q, 21, Hash(k), 32) /\ Holds(q, 53, FourBytes("in", k, s.in, FALSE, FALSE), 5)
    /\ s.venue = "V3" /\ ~s.buys /\ ~multi =>
          LET n == IF s.small THEN 6 ELSE 9
          IN  /\ Holds(q, 21, Token(k), 20) /\ Holds(q, 41, Field("in", k, n), n)
              /\ Holds(q, 41 + n, Hash(k), 32)
    /\ s.venue = "V3" /\ ~s.buys /\ multi =>
          /\ Holds(q, 21, Hash(k), 32) /\ Holds(q, 53, FourBytes("in", k, s.in, FALSE, FALSE), 5)
          /\ Holds(q, 58, Token(k), 20)

\* A payload as the contract needs it.
PayloadOK(q, s, k, multi) ==
    /\ q \in Seq(Byte) /\ Len(q) = Size(s, multi) /\ q[1] = SwapType(s, multi)
    /\ Holds(q, 1, Pool(k), 20) /\ Parts(q, s, k, multi)

\* What follows the pool is found 21 bytes further on: l of its n bytes, at m, are at e.
Further(n, m, l, e) == n \in Nat /\ m \in Nat /\ l \in Nat /\ m + l <= n /\ e = 21 + m

LEMMA Behind ==
    ASSUME NEW q, NEW b, NEW k, NEW p, Headed(q, b, k, p), NEW n, String(p, n),
           NEW m, NEW l, NEW e, Further(n, m, l, e), NEW c, Holds(p, m, c, l)
    PROVE  Holds(q, e, c, l)
<1>1. Holds(q, 21, p, n)
    BY DEF Headed, String
<1>2. ASSUME NEW i \in 1..l PROVE q[e + i] = c[i]
    <2>1. m + i \in 1..n /\ 21 + (m + i) = e + i
        BY DEF Further
    <2>2. q[21 + (m + i)] = p[m + i] /\ p[m + i] = c[i]
        BY <1>1, <2>1 DEF Holds
    <2> QED BY <2>1, <2>2
<1> QED BY <1>2 DEF Holds

\* Every payload has the length the contract counts on, and its fields in their places.
LEMMA PayloadLayout ==
    ASSUME NEW s \in Swap, NEW multi \in BOOLEAN, NEW k \in Nat,
           NEW q, q = Payload(s, k, multi), NEW b, b = SwapType(s, multi)
    PROVE  PayloadOK(q, s, k, multi)
<1>1. /\ s.venue \in {"V2", "V3"} /\ s.buys \in BOOLEAN /\ s.weth0 \in BOOLEAN
      /\ s.small \in BOOLEAN /\ s.in \in Shift /\ s.out \in Shift
    BY DEF Swap
<1>2. /\ String(Token(k), 20) /\ String(Hash(k), 32)
      /\ String(Field("in", k, 6), 6) /\ String(Field("in", k, 9), 9)
    BY FieldBytes DEF Token, Hash, Fields, String
<1>3. \A x, y \in BOOLEAN : /\ String(FourBytes("in", k, s.in, x, y), 5)
                            /\ String(FourBytes("out", k, s.out, x, y), 5)
    <2> TAKE x \in BOOLEAN, y \in BOOLEAN
    <2>1. "in" \in Fields /\ "out" \in Fields
        BY DEF Fields
    <2>2. String(FourBytes("in", k, s.in, x, y), 5)
        BY <1>1, <2>1, FourBytesBytes, ZenonT(30) DEF String
    <2>3. String(FourBytes("out", k, s.out, x, y), 5)
        BY <1>1, <2>1, FourBytesBytes, ZenonT(30) DEF String
    <2> QED BY <2>2, <2>3
<1>4. String(Block, 4)
    BY BlockBytes DEF String
<1>5. b \in Byte
    BY LabelLeads
<1>6. CASE s.venue = "V2" /\ s.buys /\ ~multi
    <2> DEFINE f == FourBytes("out", k, s.out, TRUE, s.weth0)
               p == f \o Block
    <2>1. String(f, 5)
        BY <1>1, <1>2, <1>3
    <2>2. q = <<b>> \o Pool(k) \o p
        BY <1>6 DEF Payload, V2Payload, SwapType
    <2> HIDE DEF f
    <2>3. /\ String(p, 5 + 4)
          /\ Holds(p, 0, f, 5)
          /\ Holds(p, 5, Block, 4)
        BY <2>1, <1>2, <1>4, Two
    <2> HIDE DEF p
    <2>4. Headed(q, b, k, p)
        BY <2>3, <2>2, <1>5, PayloadHead DEF String
    <2>5. String(p, 9)
        BY <2>3
    <2>6. /\ Further(9, 0, 5, 21)
          /\ Further(9, 5, 4, 26)
        BY DEF Further
    <2>7. /\ Holds(q, 21, f, 5)
          /\ Holds(q, 26, Block, 4)
        BY <2>3, <2>4, <2>5, <2>6, Behind
    <2>8. Len(q) = Size(s, multi)
        <3>1. Len(q) = 21 + Len(p)
            BY <2>4 DEF Headed
        <3> QED BY <1>1, <1>6, <2>4, <2>5, <3>1 DEF String, Size
    <2> QED BY <1>6, <2>4, <2>7, <2>8 DEF PayloadOK, Headed, Parts, f
<1>7. CASE s.venue = "V2" /\ s.buys /\ multi
    <2> DEFINE f == FourBytes("in", k, s.in, TRUE, FALSE)
               g == FourBytes("out", k, s.out, TRUE, s.weth0)
               p == f \o g
    <2>1. String(f, 5) /\ String(g, 5)
        BY <1>1, <1>2, <1>3
    <2>2. q = <<b>> \o Pool(k) \o p
        BY <1>7 DEF Payload, V2Payload, SwapType
    <2> HIDE DEF f, g
    <2>3. /\ String(p, 5 + 5)
          /\ Holds(p, 0, f, 5)
          /\ Holds(p, 5, g, 5)
        BY <2>1, <1>2, <1>4, Two
    <2> HIDE DEF p
    <2>4. Headed(q, b, k, p)
        BY <2>3, <2>2, <1>5, PayloadHead DEF String
    <2>5. String(p, 10)
        BY <2>3
    <2>6. /\ Further(10, 0, 5, 21)
          /\ Further(10, 5, 5, 26)
        BY DEF Further
    <2>7. /\ Holds(q, 21, f, 5)
          /\ Holds(q, 26, g, 5)
        BY <2>3, <2>4, <2>5, <2>6, Behind
    <2>8. Len(q) = Size(s, multi)
        <3>1. Len(q) = 21 + Len(p)
            BY <2>4 DEF Headed
        <3>2. Size(s, multi) = 31
            BY <1>7 DEF Size
        <3> QED BY <2>5, <3>1, <3>2 DEF String
    <2> QED BY <1>7, <2>4, <2>7, <2>8 DEF PayloadOK, Headed, Parts, f, g
<1>8. CASE s.venue = "V2" /\ ~s.buys /\ ~multi
    <2> DEFINE f == FourBytes("in", k, s.in, FALSE, s.weth0)
               p == Token(k) \o f
    <2>1. String(f, 5)
        BY <1>1, <1>2, <1>3
    <2>2. q = <<b>> \o Pool(k) \o p
        BY <1>8 DEF Payload, V2Payload, SwapType
    <2> HIDE DEF f
    <2>3. /\ String(p, 20 + 5)
          /\ Holds(p, 0, Token(k), 20)
          /\ Holds(p, 20, f, 5)
        BY <2>1, <1>2, <1>4, Two
    <2> HIDE DEF p
    <2>4. Headed(q, b, k, p)
        BY <2>3, <2>2, <1>5, PayloadHead DEF String
    <2>5. String(p, 25)
        BY <2>3
    <2>6. /\ Further(25, 0, 20, 21)
          /\ Further(25, 20, 5, 41)
        BY DEF Further
    <2>7. /\ Holds(q, 21, Token(k), 20)
          /\ Holds(q, 41, f, 5)
        BY <2>3, <2>4, <2>5, <2>6, Behind
    <2>8. Len(q) = Size(s, multi)
        <3>1. Len(q) = 21 + Len(p)
            BY <2>4 DEF Headed
        <3> QED BY <1>1, <1>8, <2>4, <2>5, <3>1 DEF String, Size
    <2> QED BY <1>8, <2>4, <2>7, <2>8 DEF PayloadOK, Headed, Parts, f
<1>9. CASE s.venue = "V2" /\ ~s.buys /\ multi
    <2> DEFINE f == FourBytes("in", k, s.in, FALSE, FALSE)
               g == FourBytes("out", k, s.out, TRUE, ~s.weth0)
               p == Token(k) \o f \o g
    <2>1. String(f, 5) /\ String(g, 5)
        BY <1>1, <1>2, <1>3
    <2>2. q = <<b>> \o Pool(k) \o p
        BY <1>9 DEF Payload, V2Payload, SwapType
    <2> HIDE DEF f, g
    <2>3. /\ String(p, 20 + 5 + 5)
          /\ Holds(p, 0, Token(k), 20)
          /\ Holds(p, 20, f, 5)
          /\ Holds(p, 20 + 5, g, 5)
        BY <2>1, <1>2, <1>4, Three
    <2> HIDE DEF p
    <2>4. Headed(q, b, k, p)
        BY <2>3, <2>2, <1>5, PayloadHead DEF String
    <2>5. String(p, 30)
        BY <2>3
    <2>6. /\ Further(30, 0, 20, 21)
          /\ Further(30, 20, 5, 41)
          /\ Further(30, 20 + 5, 5, 46)
        BY DEF Further
    <2>7. /\ Holds(q, 21, Token(k), 20)
          /\ Holds(q, 41, f, 5)
          /\ Holds(q, 46, g, 5)
        BY <2>3, <2>4, <2>5, <2>6, Behind
    <2>8. Len(q) = Size(s, multi)
        <3>1. Len(q) = 21 + Len(p)
            BY <2>4 DEF Headed
        <3>2. Size(s, multi) = 51
            BY <1>9 DEF Size
        <3> QED BY <2>5, <3>1, <3>2 DEF String
    <2> QED BY <1>9, <2>4, <2>7, <2>8 DEF PayloadOK, Headed, Parts, f, g
<1>10. CASE s.venue = "V3" /\ s.buys /\ ~multi
    <2> DEFINE p == Hash(k) \o Block
    <2>1. q = <<b>> \o Pool(k) \o p
        BY <1>10 DEF Payload, V3Payload, SwapType
    <2>2. /\ String(p, 32 + 4)
          /\ Holds(p, 0, Hash(k), 32)
          /\ Holds(p, 32, Block, 4)
        BY <1>2, <1>4, Two
    <2> HIDE DEF p
    <2>3. Headed(q, b, k, p)
        BY <2>2, <2>1, <1>5, PayloadHead DEF String
    <2>4. String(p, 36)
        BY <2>2
    <2>5. /\ Further(36, 0, 32, 21)
          /\ Further(36, 32, 4, 53)
        BY DEF Further
    <2>6. /\ Holds(q, 21, Hash(k), 32)
          /\ Holds(q, 53, Block, 4)
        BY <2>2, <2>3, <2>4, <2>5, Behind
    <2>7. Len(q) = Size(s, multi)
        <3>1. Len(q) = 21 + Len(p)
            BY <2>3 DEF Headed
        <3> QED BY <1>1, <1>10, <2>3, <2>4, <3>1 DEF String, Size
    <2> QED BY <1>10, <2>3, <2>6, <2>7 DEF PayloadOK, Headed, Parts
<1>11. CASE s.venue = "V3" /\ s.buys /\ multi
    <2> DEFINE f == FourBytes("in", k, s.in, FALSE, FALSE)
               p == Hash(k) \o f
    <2>1. String(f, 5)
        BY <1>1, <1>2, <1>3
    <2>2. q = <<b>> \o Pool(k) \o p
        BY <1>11 DEF Payload, V3Payload, SwapType
    <2> HIDE DEF f
    <2>3. /\ String(p, 32 + 5)
          /\ Holds(p, 0, Hash(k), 32)
          /\ Holds(p, 32, f, 5)
        BY <2>1, <1>2, <1>4, Two
    <2> HIDE DEF p
    <2>4. Headed(q, b, k, p)
        BY <2>3, <2>2, <1>5, PayloadHead DEF String
    <2>5. String(p, 37)
        BY <2>3
    <2>6. /\ Further(37, 0, 32, 21)
          /\ Further(37, 32, 5, 53)
        BY DEF Further
    <2>7. /\ Holds(q, 21, Hash(k), 32)
          /\ Holds(q, 53, f, 5)
        BY <2>3, <2>4, <2>5, <2>6, Behind
    <2>8. Len(q) = Size(s, multi)
        <3>1. Len(q) = 21 + Len(p)
            BY <2>4 DEF Headed
        <3>2. Size(s, multi) = 58
            BY <1>11 DEF Size
        <3> QED BY <2>5, <3>1, <3>2 DEF String
    <2> QED BY <1>11, <2>4, <2>7, <2>8 DEF PayloadOK, Headed, Parts, f
<1>12. CASE s.venue = "V3" /\ ~s.buys /\ ~multi
    <2> DEFINE n == IF s.small THEN 6 ELSE 9
               f == Field("in", k, n)
               p == Token(k) \o f \o Hash(k)
    <2>1. n \in Nat /\ String(f, n)
        BY <1>1, <1>2, <1>3
    <2>2. q = <<b>> \o Pool(k) \o p
        BY <1>12 DEF Payload, V3Payload, SwapType
    <2> HIDE DEF f
    <2>3. /\ String(p, 20 + n + 32)
          /\ Holds(p, 0, Token(k), 20)
          /\ Holds(p, 20, f, n)
          /\ Holds(p, 20 + n, Hash(k), 32)
        <3> HIDE DEF n
        <3> QED BY <2>1, <1>2, <1>4, Three
    <2> HIDE DEF p
    <2>4. Headed(q, b, k, p)
        BY <2>3, <2>2, <1>5, PayloadHead DEF String
    <2>5. String(p, 52 + n)
        BY <2>1, <2>3
    <2>6. /\ Further(52 + n, 0, 20, 21)
          /\ Further(52 + n, 20, n, 41)
          /\ Further(52 + n, 20 + n, 32, 41 + n)
        BY <2>1 DEF Further
    <2>7. /\ Holds(q, 21, Token(k), 20)
          /\ Holds(q, 41, f, n)
          /\ Holds(q, 41 + n, Hash(k), 32)
        BY <2>3, <2>4, <2>5, <2>6, Behind
    <2>8. Len(q) = Size(s, multi)
        <3>1. Len(q) = 21 + Len(p)
            BY <2>4 DEF Headed
        <3> QED BY <1>1, <1>12, <2>1, <2>4, <2>5, <3>1 DEF String, Size
    <2> QED BY <1>12, <2>4, <2>7, <2>8 DEF PayloadOK, Headed, Parts, n, f
<1>13. CASE s.venue = "V3" /\ ~s.buys /\ multi
    <2> DEFINE f == FourBytes("in", k, s.in, FALSE, FALSE)
               p == Hash(k) \o f \o Token(k)
    <2>1. String(f, 5)
        BY <1>1, <1>2, <1>3
    <2>2. q = <<b>> \o Pool(k) \o p
        BY <1>13 DEF Payload, V3Payload, SwapType
    <2> HIDE DEF f
    <2>3. /\ String(p, 32 + 5 + 20)
          /\ Holds(p, 0, Hash(k), 32)
          /\ Holds(p, 32, f, 5)
          /\ Holds(p, 32 + 5, Token(k), 20)
        BY <2>1, <1>2, <1>4, Three
    <2> HIDE DEF p
    <2>4. Headed(q, b, k, p)
        BY <2>3, <2>2, <1>5, PayloadHead DEF String
    <2>5. String(p, 57)
        BY <2>3
    <2>6. /\ Further(57, 0, 32, 21)
          /\ Further(57, 32, 5, 53)
          /\ Further(57, 32 + 5, 20, 58)
        BY DEF Further
    <2>7. /\ Holds(q, 21, Hash(k), 32)
          /\ Holds(q, 53, f, 5)
          /\ Holds(q, 58, Token(k), 20)
        BY <2>3, <2>4, <2>5, <2>6, Behind
    <2>8. Len(q) = Size(s, multi)
        <3>1. Len(q) = 21 + Len(p)
            BY <2>4 DEF Headed
        <3>2. Size(s, multi) = 78
            BY <1>13 DEF Size
        <3> QED BY <2>5, <3>1, <3>2 DEF String
    <2> QED BY <1>13, <2>4, <2>7, <2>8 DEF PayloadOK, Headed, Parts, f
<1> QED BY <1>1, <1>6, <1>7, <1>8, <1>9, <1>10, <1>11, <1>12, <1>13
--------------------------------------------------------------------------------
\* The calldata of a transaction.

\* A function on 1..n is a sequence.
LEMMA FunctionIsSeq ==
    ASSUME NEW R, NEW n \in Nat, NEW w \in [1..n -> R]
    PROVE  w \in Seq(R) /\ Len(w) = n
OBVIOUS

\* What a transaction can be.
LEMMA TransactionFacts ==
    ASSUME NEW t \in Transactions
    PROVE  /\ t.multi \in BOOLEAN /\ t.checked \in BOOLEAN
           /\ Len(t.swaps) \in Nat /\ Len(t.swaps) >= 1
           /\ \A k \in 1..Len(t.swaps) : t.swaps[k] \in Swap
           /\ ~t.multi => Len(t.swaps) = 1 /\ ~t.checked
<1>1. CASE t \in [multi : {FALSE}, checked : {FALSE}, swaps : {<<s>> : s \in Recipes(FALSE)}]
    <2>1. PICK s \in Recipes(FALSE) : t.swaps = <<s>>
        BY <1>1
    <2>2. t.multi = FALSE /\ t.checked = FALSE
        BY <1>1
    <2>3. s \in Swap
        BY DEF Recipes
    <2>4. Len(t.swaps) = 1 /\ t.swaps[1] = s
        BY <2>1
    <2>5. \A k \in 1..Len(t.swaps) : t.swaps[k] \in Swap
        BY <2>3, <2>4
    <2>6. t.multi \in BOOLEAN /\ t.checked \in BOOLEAN /\ ~t.checked
        BY <2>2
    <2>7. Len(t.swaps) \in Nat /\ Len(t.swaps) >= 1
        BY <2>4
    <2> QED BY <2>4, <2>5, <2>6, <2>7
<1>2. CASE t \in [multi : {TRUE}, checked : BOOLEAN,
                  swaps : {w \in UNION {[1..n -> Recipes(TRUE)] : n \in 1..MaxSwaps} :
                              \A k \in DOMAIN w : w[k].buys = w[1].buys}]
    <2>1. t.multi = TRUE /\ t.checked \in BOOLEAN
        BY <1>2
    <2>2. PICK n \in 1..MaxSwaps : t.swaps \in [1..n -> Recipes(TRUE)]
        BY <1>2
    <2>3. n \in Nat /\ n >= 1
        BY CalldataAssumption
    <2>4. \A k \in 1..n : t.swaps[k] \in Swap
        BY <2>2 DEF Recipes
    <2>5. Len(t.swaps) = n
        BY <2>2, <2>3, FunctionIsSeq
    <2> QED BY <2>1, <2>3, <2>4, <2>5
<1> QED BY <1>1, <1>2 DEF Transactions

\* The payloads of a transaction in d: st[k] is where that of swap k ends.
Layout(t, d, st) ==
    /\ d \in Seq(Byte)
    /\ \A k \in 0..Len(t.swaps) : st[k] \in Nat
    /\ st[0] = (IF t.checked THEN 5 ELSE 0) /\ st[Len(t.swaps)] = Len(d)
    /\ \A k \in 1..Len(t.swaps) :
          /\ st[k] = st[k - 1] + Size(t.swaps[k], t.multi) /\ st[k] <= Len(d)
          /\ d[st[k - 1] + 1] = SwapType(t.swaps[k], t.multi)
          /\ Holds(d, st[k - 1], Payload(t.swaps[k], k, t.multi), Size(t.swaps[k], t.multi))
    /\ t.checked => d[1] = Num(101) /\ Holds(d, 1, Block, 4)
    /\ ~t.multi /\ t.swaps[1].buys => Holds(d, BlockPlace(t.swaps[1]), Block, 4)

\* The payloads behind a head of p bytes.
LEMMA BehindHead ==
    ASSUME NEW ps, NEW N \in Nat, SeqsOf(ps, N, Byte), NEW h, NEW p \in Nat, String(h, p),
           NEW d, d = h \o Concat(ps)
    PROVE  /\ d \in Seq(Byte) /\ Holds(d, 0, h, p)
           /\ LaidFrom(ps, N, d, p)
<1> DEFINE c == Concat(ps)
<1>1. Len(ps) = N /\ \A k \in 1..N : Len(ps[k]) \in Nat
    BY LenProperties DEF SeqsOf
<1>2. c \in Seq(Byte)
    BY ConcatLayout
<1>3. PICK off : Laid(ps, N, c, off) /\ off[0] = 0
    BY ConcatLayout DEF LaidFrom
<1> HIDE DEF c
<1>4. h \in Seq(Byte) /\ Len(h) = p
    BY DEF String
<1>5. d \in Seq(Byte) /\ Joins(d, h, c)
    BY <1>2, <1>4, OneSequenceMore DEF c
<1>6. PICK n \in Nat : n = Len(c)
    BY <1>5 DEF Joins
<1>7. Len(d) = p + n /\ (\A i \in 1..p : d[i] = h[i]) /\ (\A i \in 1..n : d[p + i] = c[i])
    BY <1>4, <1>5, <1>6 DEF Joins
<1>8. /\ \A k \in 0..N : off[k] \in Nat
      /\ off[0] = 0 /\ off[N] = n
      /\ \A k \in 1..N : off[k] = off[k - 1] + Len(ps[k]) /\ off[k] <= n
    BY <1>1, <1>3, <1>6 DEF Laid
<1> DEFINE st == [k \in 0..N |-> p + off[k]]
<1>9. \A k \in 0..N : st[k] = p + off[k] /\ st[k] \in Nat
    BY <1>8
<1> HIDE DEF st
<1>10. 0 \in 0..N /\ N \in 0..N
    OBVIOUS
<1>11. st[0] = p /\ st[N] = Len(d)
    BY <1>7, <1>8, <1>9, <1>10
<1>12. ASSUME NEW k \in 1..N
       PROVE  /\ st[k] = st[k - 1] + Len(ps[k]) /\ st[k] <= Len(d)
              /\ \A i \in 1..Len(ps[k]) : d[st[k - 1] + i] = ps[k][i]
    <2>1. k \in 0..N /\ k - 1 \in 0..N
        OBVIOUS
    <2>2. PICK a \in Nat, b \in Nat, e \in Nat : a = off[k - 1] /\ b = off[k] /\ e = Len(ps[k])
        BY <1>1, <1>8, <2>1
    <2>3. b = a + e /\ b <= n /\ st[k - 1] = p + a /\ st[k] = p + b
        BY <1>8, <1>9, <2>1, <2>2
    <2>4. ASSUME NEW i \in 1..e PROVE d[st[k - 1] + i] = ps[k][i]
        <3>1. a + i \in 1..n /\ st[k - 1] + i = p + (a + i)
            BY <2>3
        <3>2. d[p + (a + i)] = c[a + i]
            BY <1>7, <3>1
        <3>3. c[a + i] = ps[k][i]
            BY <1>3, <2>2 DEF Laid
        <3> QED BY <3>1, <3>2, <3>3
    <2>5. st[k] = st[k - 1] + e /\ st[k] <= Len(d)
        BY <1>7, <2>3
    <2> QED BY <2>2, <2>4, <2>5
<1>13. Laid(ps, N, d, st)
    BY <1>9, <1>11, <1>12 DEF Laid
<1>14. Holds(d, 0, h, p)
    BY <1>7 DEF Holds
<1> QED BY <1>5, <1>11, <1>13, <1>14 DEF LaidFrom

\* The payloads follow each other in the calldata, behind the check of the block if there is one.
LEMMA PackedLayout ==
    ASSUME NEW t \in Transactions
    PROVE  \E st : Layout(t, Packed(t), st)
<1> DEFINE N == Len(t.swaps)
           ps == [k \in 1..N |-> Payload(t.swaps[k], k, t.multi)]
           h == IF t.checked THEN <<Num(101)>> \o Block ELSE <<>>
           p == IF t.checked THEN 5 ELSE 0
           d == h \o Concat(ps)
<1>1. /\ N \in Nat /\ N >= 1 /\ t.multi \in BOOLEAN /\ t.checked \in BOOLEAN
      /\ \A k \in 1..N : t.swaps[k] \in Swap
      /\ ~t.multi => N = 1 /\ ~t.checked
    BY TransactionFacts
<1>2. d = Packed(t)
    BY DEF Packed
<1>3. \A k \in 1..N : ps[k] = Payload(t.swaps[k], k, t.multi)
    OBVIOUS
<1>4. Len(ps) = N
    BY <1>1
<1> HIDE DEF N, ps
<1>5. \A k \in 1..N : PayloadOK(ps[k], t.swaps[k], k, t.multi)
    <2> TAKE k \in 1..N
    <2>1. k \in Nat
        BY <1>1
    <2> QED BY <1>1, <1>3, <2>1, PayloadLayout
<1>6. SeqsOf(ps, N, Byte)
    BY <1>4, <1>5 DEF SeqsOf, PayloadOK
<1>7. String(h, p) /\ (t.checked => h[1] = Num(101) /\ Holds(h, 1, Block, 4))
    <2>1. CASE t.checked
        <3>1. Num(101) \in Byte
            BY NumByte
        <3>2. String(<<Num(101)>>, 1)
            BY <3>1, Bytes1 DEF String
        <3>3. String(Block, 4)
            BY BlockBytes DEF String
        <3>4. String(<<Num(101)>> \o Block, 1 + 4) /\ Holds(<<Num(101)>> \o Block, 1, Block, 4)
            BY <3>2, <3>3, Two
        <3>5. Joins(<<Num(101)>> \o Block, <<Num(101)>>, Block)
            BY <3>2, <3>3, OneSequenceMore DEF String
        <3>6. (<<Num(101)>> \o Block)[1] = <<Num(101)>>[1]
            BY <3>1, <3>5, Bytes1 DEF Joins
        <3> QED BY <2>1, <3>1, <3>4, <3>6, Bytes1
    <2>2. CASE ~t.checked
        BY <2>2 DEF String
    <2> QED BY <1>1, <2>1, <2>2
<1>8. p \in Nat
    OBVIOUS
<1> HIDE DEF h
<1>9. d = h \o Concat(ps)
    OBVIOUS
<1> HIDE DEF d, p
<1>10. d \in Seq(Byte) /\ Holds(d, 0, h, p)
    BY <1>1, <1>6, <1>7, <1>8, <1>9, BehindHead
<1>11. PICK st : Laid(ps, N, d, st) /\ st[0] = p
    <2>1. LaidFrom(ps, N, d, p)
        BY <1>1, <1>6, <1>7, <1>8, <1>9, BehindHead
    <2> QED BY <2>1 DEF LaidFrom
<1> USE DEF p
<1>12. ASSUME NEW k \in 1..N
       PROVE  /\ st[k] = st[k - 1] + Size(t.swaps[k], t.multi) /\ st[k] <= Len(d)
              /\ d[st[k - 1] + 1] = SwapType(t.swaps[k], t.multi)
              /\ Holds(d, st[k - 1], Payload(t.swaps[k], k, t.multi), Size(t.swaps[k], t.multi))
    <2>1. Len(ps[k]) = Size(t.swaps[k], t.multi) /\ ps[k][1] = SwapType(t.swaps[k], t.multi)
        BY <1>5 DEF PayloadOK
    <2>2. 1 \in 1..Size(t.swaps[k], t.multi)
        BY <1>1 DEF Size, Swap
    <2> QED BY <1>3, <1>11, <2>1, <2>2 DEF Laid, Holds
<1>13. t.checked => d[1] = Num(101) /\ Holds(d, 1, Block, 4)
    <2> SUFFICES ASSUME t.checked PROVE d[1] = Num(101) /\ Holds(d, 1, Block, 4)
        OBVIOUS
    <2>1. p = 5
        OBVIOUS
    <2>2. 1 \in 1..5 /\ \A i \in 1..4 : 1 + i \in 1..5
        OBVIOUS
    <2>3. \A i \in 1..5 : d[i] = h[i]
        BY <1>10, <2>1 DEF Holds
    <2> QED BY <1>7, <2>2, <2>3 DEF Holds
<1>14. ~t.multi /\ t.swaps[1].buys => Holds(d, BlockPlace(t.swaps[1]), Block, 4)
    <2> SUFFICES ASSUME ~t.multi, t.swaps[1].buys
                 PROVE  Holds(d, BlockPlace(t.swaps[1]), Block, 4)
        OBVIOUS
    <2>1. N = 1 /\ p = 0 /\ 1 \in 1..N /\ 1 - 1 = 0 /\ t.swaps[1] \in Swap
        BY <1>1
    <2>2. /\ \A i \in 1..Len(ps[1]) : d[i] = ps[1][i]
        BY <1>11, <2>1 DEF Laid
    <2>3. PICK b \in Nat : b = BlockPlace(t.swaps[1]) /\ b + 4 <= Len(ps[1])
        <3>1. Len(ps[1]) = Size(t.swaps[1], t.multi)
            BY <1>5, <2>1 DEF PayloadOK
        <3> QED BY <2>1, <3>1 DEF Size, BlockPlace, Swap
    <2>4. \A i \in 1..4 : ps[1][b + i] = Block[i]
        <3>1. Parts(ps[1], t.swaps[1], 1, t.multi) /\ t.swaps[1].venue \in {"V2", "V3"}
            BY <1>5, <2>1 DEF PayloadOK, Swap
        <3>2. Holds(ps[1], b, Block, 4)
            BY <2>3, <3>1 DEF Parts, BlockPlace
        <3> QED BY <3>2 DEF Holds
    <2>5. PICK n \in Nat : n = Len(ps[1]) /\ b + 4 <= n
        BY <1>6, <2>1, <2>3, LenProperties DEF SeqsOf
    <2>6. \A i \in 1..4 : b + i \in 1..n
        BY <2>5
    <2> QED BY <2>2, <2>3, <2>4, <2>5, <2>6 DEF Holds
<1>15. Layout(t, d, st)
    <2>1. N = Len(t.swaps)
        BY DEF N
    <2> QED BY <1>10, <1>11, <1>12, <1>13, <1>14, <2>1 DEF Layout, Laid
<1> QED BY <1>2, <1>15
--------------------------------------------------------------------------------
\* Memory keeps its length.  What its cells hold does not matter here.

Row(s, n) == \E S : s \in Seq(S) /\ Len(s) = n

\* Rows: of fields, zeros and words, of rows put together and of parts of a row.
LEMMA RowLen == ASSUME NEW s, NEW n, Row(s, n) PROVE Len(s) = n
BY DEF Row

LEMMA StringRow == ASSUME NEW s, NEW n, String(s, n) PROVE Row(s, n)
BY DEF Row, String

LEMMA RowFunction ==
    ASSUME NEW n \in Nat, NEW s, s = [i \in 1..n |-> s[i]]
    PROVE  Row(s, n)
<1> DEFINE S == {s[i] : i \in 1..n}
<1>1. s \in [1..n -> S]
    OBVIOUS
<1> HIDE DEF S
<1>2. s \in Seq(S) /\ Len(s) = n
    BY <1>1, FunctionIsSeq
<1> QED BY <1>2 DEF Row

LEMMA RowOne == ASSUME NEW x PROVE Row(<<x>>, 1)
<1>1. <<x>> \in Seq({x}) /\ Len(<<x>>) = 1
    OBVIOUS
<1> QED BY <1>1 DEF Row

LEMMA RowPair ==
    ASSUME NEW a, NEW b, NEW m \in Nat, NEW n \in Nat, Row(a, m), Row(b, n)
    PROVE  Row(a \o b, m + n) /\ Joins(a \o b, a, b)
<1>1. PICK A : a \in Seq(A) /\ Len(a) = m
    BY DEF Row
<1>2. PICK B : b \in Seq(B) /\ Len(b) = n
    BY DEF Row
<1>3. a \in Seq(A \cup B) /\ b \in Seq(A \cup B)
    <2>1. \A i \in 1..m : a[i] \in A
        BY <1>1
    <2>2. \A i \in 1..n : b[i] \in B
        BY <1>2
    <2>3. a \in [1..m -> A \cup B] /\ b \in [1..n -> A \cup B]
        BY <1>1, <1>2
    <2> QED BY <2>3, FunctionIsSeq
<1>4. a \o b \in Seq(A \cup B) /\ Joins(a \o b, a, b)
    BY <1>3, OneSequenceMore
<1>5. Len(a \o b) = m + n
    BY <1>1, <1>2, <1>4 DEF Joins
<1> QED BY <1>4, <1>5 DEF Row

\* t is what s has from place m on.
PartOf(t, s, m, l) == \A i \in 1..l : t[i] = s[m + i - 1]

LEMMA RowPart ==
    ASSUME NEW s, NEW m \in Nat, NEW n \in Nat, m <= n + 1, NEW l, l = n - m + 1
    PROVE  Row(SubSeq(s, m, n), l) /\ PartOf(SubSeq(s, m, n), s, m, l)
<1> DEFINE S == {s[i] : i \in m..n}
<1>1. \A i \in m..n : s[i] \in S
    OBVIOUS
<1> HIDE DEF S
<1>2. /\ SubSeq(s, m, n) \in Seq(S)
      /\ Len(SubSeq(s, m, n)) = IF m <= n THEN n - m + 1 ELSE 0
      /\ \A i \in 1 .. n - m + 1 : SubSeq(s, m, n)[i] = s[m + i - 1]
    BY <1>1, SubSeqProperties
<1>3. Len(SubSeq(s, m, n)) = l
    BY <1>2
<1> QED BY <1>2, <1>3 DEF Row, PartOf

LEMMA RowField == ASSUME NEW f, NEW k, NEW n \in Nat PROVE Row(Field(f, k, n), n)
BY RowFunction DEF Field

LEMMA RowZeros == ASSUME NEW n \in Nat PROVE Row(Zeros(n), n)
BY RowFunction DEF Zeros

LEMMA RowWord ==
    ASSUME NEW b, NEW n \in 0..32, Row(b, n)
    PROVE  Row(Word(b), 32)
<1>1. Len(b) = n /\ 32 - n \in Nat /\ n \in Nat /\ (32 - n) + n = 32
    BY RowLen
<1>2. Row(Zeros(32 - n), 32 - n)
    BY <1>1, RowZeros
<1>3. Row(Zeros(32 - n) \o b, (32 - n) + n)
    BY <1>1, <1>2, RowPair
<1> QED BY <1>1, <1>3 DEF Word

LEMMA RowSignature == ASSUME NEW f PROVE Row(Signature(f) \o Zeros(28), 32)
<1>1. Row(Signature(f), 4) /\ Row(Zeros(28), 28)
    BY RowField, RowZeros DEF Signature
<1>2. Row(Signature(f) \o Zeros(28), 4 + 28)
    BY <1>1, RowPair
<1> QED BY <1>2

LEMMA RowTimes == ASSUME NEW b, NEW n \in Nat, Row(b, n) PROVE Row(Times(b), n)
<1>1. Len(b) = n
    BY RowLen
<1>2. Times(b) = [i \in 1..n |-> Times(b)[i]]
    BY <1>1 DEF Times
<1> QED BY <1>2, RowFunction

\* The length of memory, of a word, and where a word can be written.
Mem(m) == Len(m) = 249
Full(w) == Row(w, 32)
Spot(a) == a \in 0..217

\* n is m with the word w at a.
Put(n, m, a, w) ==
    /\ Mem(n)
    /\ \A i \in 1..249 : /\ a < i /\ i <= a + 32 => n[i] = w[i - a]
                         /\ i <= a \/ a + 32 < i => n[i] = m[i]

\* A word that is stored where it fits changes its cells and no others, and leaves memory as
\* long as it was.
LEMMA StorePuts ==
    ASSUME NEW m, Mem(m), NEW a, Spot(a), NEW w, Full(w)
    PROVE  Put(Store(m, a, w), m, a, w)
<1> DEFINE u == SubSeq(m, 1, a)
           v == SubSeq(m, a + 33, 249)
           n == u \o w \o v
<1>1. Len(m) = 249 /\ Row(w, 32) /\ Store(m, a, w) = n
    BY DEF Mem, Full, Store
<1>2. a \in Nat /\ 217 - a \in Nat /\ a + 33 \in Nat /\ a + 33 <= 249 + 1 /\ 1 <= a + 1
    BY DEF Spot
<1>3. Row(u, a) /\ PartOf(u, m, 1, a)
    <2>1. a = a - 1 + 1 /\ 1 \in Nat
        BY <1>2
    <2> QED BY <1>2, <2>1, RowPart
<1>4. Row(v, 217 - a) /\ PartOf(v, m, a + 33, 217 - a)
    <2> DEFINE x == a + 33
               l == 217 - a
    <2>1. x \in Nat /\ x <= 249 + 1 /\ l = 249 - x + 1 /\ 249 \in Nat
        BY <1>2
    <2> HIDE DEF x, l
    <2>2. Row(SubSeq(m, x, 249), l) /\ PartOf(SubSeq(m, x, 249), m, x, l)
        BY <2>1, RowPart
    <2> QED BY <2>2 DEF x, l
<1> HIDE DEF u, v
<1> DEFINE t == u \o w
<1>5. Row(t, a + 32) /\ Joins(t, u, w)
    BY <1>1, <1>2, <1>3, RowPair
<1> HIDE DEF t
<1>6. Row(n, (a + 32) + (217 - a)) /\ Joins(n, t, v)
    <2>1. a + 32 \in Nat
        BY <1>2
    <2>2. n = t \o v
        BY DEF t
    <2> QED BY <1>2, <1>4, <1>5, <2>1, <2>2, RowPair
<1> HIDE DEF n
<1>7. /\ Len(u) = a /\ Len(w) = 32 /\ Len(t) = a + 32 /\ Len(v) = 217 - a
      /\ Len(n) = (a + 32) + (217 - a)
    BY <1>1, <1>3, <1>4, <1>5, <1>6 DEF Row
<1>8. Mem(n)
    BY <1>2, <1>7 DEF Mem
<1>9. ASSUME NEW i \in 1..249
      PROVE  /\ a < i /\ i <= a + 32 => n[i] = w[i - a]
             /\ i <= a \/ a + 32 < i => n[i] = m[i]
    <2>1. CASE i <= a
        <3>1. i \in 1..a /\ i \in 1..(a + 32) /\ 1 + i - 1 = i
            BY <1>2, <2>1
        <3>2. n[i] = t[i] /\ t[i] = u[i] /\ u[i] = m[1 + i - 1]
            BY <1>3, <1>5, <1>6, <1>7, <3>1 DEF Joins, PartOf
        <3> QED BY <1>2, <2>1, <3>1, <3>2
    <2>2. CASE a < i /\ i <= a + 32
        <3>1. i - a \in 1..32 /\ a + (i - a) = i /\ i \in 1..(a + 32)
            BY <1>2, <2>2
        <3>2. n[i] = t[i] /\ t[a + (i - a)] = w[i - a]
            BY <1>5, <1>6, <1>7, <3>1 DEF Joins
        <3> QED BY <1>2, <2>2, <3>1, <3>2
    <2>3. CASE a + 32 < i
        <3>1. PICK j \in 1..(217 - a) : i = a + 32 + j /\ a + 33 + j - 1 = i
            <4>1. i - (a + 32) \in 1..(217 - a) /\ i = a + 32 + (i - (a + 32))
                  /\ a + 33 + (i - (a + 32)) - 1 = i
                BY <1>2, <2>3
            <4> QED BY <4>1
        <3>2. n[a + 32 + j] = v[j] /\ v[j] = m[a + 33 + j - 1]
            BY <1>4, <1>6, <1>7, <3>1 DEF Joins, PartOf
        <3> QED BY <1>2, <2>3, <3>1, <3>2
    <2> QED BY <1>2, <2>1, <2>2, <2>3
<1> QED BY <1>1, <1>8, <1>9 DEF Put

LEMMA StoreKeeps ==
    ASSUME NEW m, Mem(m), NEW a, Spot(a), NEW w, Full(w)
    PROVE  Mem(Store(m, a, w))
BY StorePuts DEF Put

\* done is the function in StoreAll.
Stored(m, ws, done, n) ==
    done = [i \in 0..n |-> IF i = 0 THEN m ELSE Store(done[i - 1], ws[i][1], ws[i][2])]

\* The function in StoreAll by its values, and that there is one.
LEMMA StoredValues ==
    ASSUME NEW m, NEW ws, NEW f, NEW n \in Nat
    PROVE  Stored(m, ws, f, n) <=>
              /\ f = [k \in 0..n |-> f[k]] /\ f[0] = m
              /\ \A k \in 1..n : f[k] = Store(f[k - 1], ws[k][1], ws[k][2])
<1>1. ASSUME Stored(m, ws, f, n)
      PROVE  /\ f = [k \in 0..n |-> f[k]] /\ f[0] = m
             /\ \A k \in 1..n : f[k] = Store(f[k - 1], ws[k][1], ws[k][2])
    <2>1. \A k \in 0..n : f[k] = IF k = 0 THEN m ELSE Store(f[k - 1], ws[k][1], ws[k][2])
        BY <1>1 DEF Stored
    <2>2. f = [k \in 0..n |-> f[k]]
        BY <1>1 DEF Stored
    <2>3. f[0] = m
        BY <2>1
    <2>4. ASSUME NEW k \in 1..n PROVE f[k] = Store(f[k - 1], ws[k][1], ws[k][2])
        <3>1. k \in 0..n /\ k # 0
            OBVIOUS
        <3> QED BY <2>1, <3>1, Zenon
    <2> QED BY <2>2, <2>3, <2>4
<1>2. ASSUME f = [k \in 0..n |-> f[k]], f[0] = m,
             \A k \in 1..n : f[k] = Store(f[k - 1], ws[k][1], ws[k][2])
      PROVE  Stored(m, ws, f, n)
    <2>1. ASSUME NEW k \in 0..n
          PROVE  f[k] = IF k = 0 THEN m ELSE Store(f[k - 1], ws[k][1], ws[k][2])
        <3>1. CASE k = 0
            BY <1>2, <3>1
        <3>2. CASE k # 0
            <4>1. k \in 1..n
                BY <3>2
            <4> QED BY <1>2, <3>2, <4>1
        <3> QED BY <3>1, <3>2
    <2> QED BY <1>2, <2>1 DEF Stored
<1> QED BY <1>1, <1>2

LEMMA StoredExists ==
    ASSUME NEW m, NEW ws, NEW n \in Nat
    PROVE  \E f : Stored(m, ws, f, n)
<1> DEFINE T == {l \in Nat : \E f : Stored(m, ws, f, l)}
<1>1. 0 \in T
    <2> DEFINE g == [k \in 0..0 |-> m]
    <2>1. g = [k \in 0..0 |-> g[k]] /\ g[0] = m
        OBVIOUS
    <2> HIDE DEF g
    <2>2. \A k \in 1..0 : g[k] = Store(g[k - 1], ws[k][1], ws[k][2])
        <3>1. 1..0 = {}
            OBVIOUS
        <3> QED BY <3>1, Zenon
    <2>3. Stored(m, ws, g, 0)
        BY <2>1, <2>2, StoredValues
    <2> QED BY <2>3
<1>2. ASSUME NEW l \in T PROVE l + 1 \in T
    <2>1. l \in Nat
        OBVIOUS
    <2>2. PICK f : Stored(m, ws, f, l)
        OBVIOUS
    <2>3. f[0] = m /\ \A k \in 1..l : f[k] = Store(f[k - 1], ws[k][1], ws[k][2])
        BY <2>1, <2>2, StoredValues
    <2> DEFINE x == Store(f[l], ws[l + 1][1], ws[l + 1][2])
               g == [k \in 0..(l + 1) |-> IF k <= l THEN f[k] ELSE x]
    <2>4. \A k \in 0..l : g[k] = f[k]
        BY <2>1
    <2>5. g[l + 1] = x
        BY <2>1
    <2>6. g = [k \in 0..(l + 1) |-> g[k]]
        OBVIOUS
    <2> HIDE DEF g
    <2>7. \A k \in 1..(l + 1) : g[k] = Store(g[k - 1], ws[k][1], ws[k][2])
        <3>1. SUFFICES ASSUME NEW k \in 1..(l + 1)
                       PROVE  g[k] = Store(g[k - 1], ws[k][1], ws[k][2])
            OBVIOUS
        <3>2. CASE k = l + 1
            <4>1. k - 1 = l /\ l \in 0..l
                BY <2>1, <3>2
            <4> QED BY <2>4, <2>5, <3>2, <4>1
        <3>3. CASE k # l + 1
            <4>1. k \in 1..l /\ k \in 0..l /\ k - 1 \in 0..l
                BY <2>1, <3>1, <3>3
            <4> QED BY <2>3, <2>4, <4>1
        <3> QED BY <3>2, <3>3
    <2>8. g[0] = m
        BY <2>1, <2>3, <2>4
    <2>9. Stored(m, ws, g, l + 1)
        <3>1. l + 1 \in Nat
            BY <2>1
        <3> QED BY <3>1, <2>6, <2>7, <2>8, StoredValues
    <2> QED BY <2>1, <2>9
<1>3. T = Nat
    <2> HIDE DEF T
    <2> QED BY <1>1, <1>2, Induction DEF T
<1> QED BY <1>3

\* Words that are written to where they fit.
Fits(ws) == Len(ws) \in Nat /\ \A i \in 1..Len(ws) : Spot(ws[i][1]) /\ Full(ws[i][2])

\* f is memory after each of the writes ws to m, and r what is left.
Puts(f, m, ws, r) ==
    /\ f[0] = m /\ f[Len(ws)] = r /\ Mem(r)
    /\ \A k \in 1..Len(ws) : Put(f[k], f[k - 1], ws[k][1], ws[k][2])

\* Several words are put one after the other.
LEMMA StoreAllPuts ==
    ASSUME NEW m, Mem(m), NEW ws, Fits(ws)
    PROVE  \E f : Puts(f, m, ws, StoreAll(m, ws))
<1> DEFINE n == Len(ws)
           f == CHOOSE done : Stored(m, ws, done, n)
<1>1. n \in Nat /\ \A i \in 1..n : Spot(ws[i][1]) /\ Full(ws[i][2])
    BY DEF Fits
<1>2. Stored(m, ws, f, n)
    BY <1>1, StoredExists
<1>3. StoreAll(m, ws) = f[n]
    BY DEF StoreAll, Stored
<1> HIDE DEF n, f
<1>4. f[0] = m /\ \A k \in 1..n : f[k] = Store(f[k - 1], ws[k][1], ws[k][2])
    BY <1>1, <1>2, StoredValues
<1> DEFINE T == {k \in Nat : k <= n => Mem(f[k])}
<1>5. 0 \in T
    BY <1>4
<1>6. ASSUME NEW k \in 1..n, Mem(f[k - 1])
      PROVE  Put(f[k], f[k - 1], ws[k][1], ws[k][2])
    <2>1. Put(Store(f[k - 1], ws[k][1], ws[k][2]), f[k - 1], ws[k][1], ws[k][2])
        BY <1>1, <1>6, StorePuts, Zenon
    <2> QED BY <1>4, <2>1, Zenon
<1>7. ASSUME NEW k \in Nat, k \in T PROVE k + 1 \in T
    <2>1. CASE k + 1 <= n
        <3>1. k + 1 \in 1..n /\ (k + 1) - 1 = k /\ Mem(f[k])
            BY <1>1, <1>7, <2>1
        <3> HIDE DEF T
        <3>2. Mem(f[(k + 1) - 1])
            BY <3>1, Zenon
        <3>3. Mem(f[k + 1])
            BY <1>6, <3>1, <3>2, Zenon DEF Put
        <3> QED BY <3>3 DEF T
    <2>2. CASE ~(k + 1 <= n)
        BY <2>2
    <2> QED BY <2>1, <2>2
<1>8. T = Nat
    <2>1. T \in SUBSET Nat
        OBVIOUS
    <2> HIDE DEF T
    <2> QED BY <1>5, <1>7, <2>1, Induction
<1>9. \A k \in 0..n : Mem(f[k])
    <2>1. \A k \in 0..n : k \in T /\ k <= n
        BY <1>1, <1>8
    <2> QED BY <2>1
<1>10. \A k \in 1..n : Put(f[k], f[k - 1], ws[k][1], ws[k][2])
    <2> TAKE k \in 1..n
    <2>1. k - 1 \in 0..n
        BY <1>1
    <2> QED BY <1>6, <1>9, <2>1
<1>11. Mem(f[n]) /\ n = Len(ws)
    BY <1>1, <1>9 DEF n
<1> QED BY <1>3, <1>4, <1>10, <1>11 DEF Puts

LEMMA StoreAllKeeps ==
    ASSUME NEW m, Mem(m), NEW ws, Fits(ws)
    PROVE  Mem(StoreAll(m, ws))
BY StoreAllPuts DEF Puts
--------------------------------------------------------------------------------
\* What is read of the calldata.

Loaded(a, n) ==
    \A i \in 1..32 : /\ a + i <= n => Load(a)[i] = data[a + i]
                     /\ a + i > n /\ a + i <= n + 128 => Load(a)[i] = Num(0)

\* The zeros behind the calldata are bytes.
LEMMA ZerosBytes ==
    ASSUME NEW n \in Nat
    PROVE  Zeros(n) \in Seq(Byte) /\ Len(Zeros(n)) = n
<1>1. Num(0) \in Byte
    BY NumByte
<1>2. Zeros(n) \in [1..n -> Byte]
    BY <1>1 DEF Zeros
<1> DEFINE z == Zeros(n)
<1>3. z \in [1..n -> Byte]
    BY <1>2
<1> HIDE DEF z
<1>4. z \in Seq(Byte) /\ Len(z) = n
    BY <1>3, FunctionIsSeq
<1> QED BY <1>4 DEF z

\* A load gives a word, and the bytes of the calldata as far as there are any.
LEMMA LoadByte ==
    ASSUME data \in Seq(Byte), NEW n \in Nat, n = Len(data), NEW a \in Nat, a <= n + 100
    PROVE  /\ Row(Load(a), 32) /\ Load(a)[1] \in Byte
           /\ Loaded(a, n)
<1> DEFINE z == Zeros(128)
           d == data \o z
<1>1. z \in Seq(Byte) /\ Len(z) = 128
    BY ZerosBytes
<1> HIDE DEF z
<1>2. d \in Seq(Byte) /\ Joins(d, data, z)
    BY <1>1, OneSequenceMore
<1>3. Load(a) = SubSeq(d, a + 1, a + 32)
    BY DEF Load, z
<1> HIDE DEF d
<1>4. /\ Len(d) = n + 128 /\ \A i \in 1..n : d[i] = data[i]
      /\ \A i \in 1..128 : d[n + i] = z[i] /\ z[i] = Num(0)
    <2>1. \A i \in 1..128 : z[i] = Num(0)
        BY DEF z, Zeros
    <2> QED BY <1>1, <1>2, <2>1 DEF Joins
<1>5. a + 1 \in Nat /\ a + 32 \in Nat /\ a + 1 <= a + 32 + 1 /\ a + 32 - (a + 1) + 1 = 32
    OBVIOUS
<1>6. Row(Load(a), 32) /\ \A i \in 1..32 : Load(a)[i] = d[a + 1 + i - 1]
    <2> DEFINE x == a + 1
               y == a + 32
    <2>1. x \in Nat /\ y \in Nat /\ x <= y + 1 /\ y - x + 1 = 32
        BY <1>5
    <2>2. Load(a) = SubSeq(d, x, y)
        BY <1>3
    <2> HIDE DEF x, y
    <2>3. Row(SubSeq(d, x, y), 32) /\ PartOf(SubSeq(d, x, y), d, x, 32)
        BY <2>1, RowPart
    <2>4. Row(Load(a), 32) /\ \A i \in 1..32 : Load(a)[i] = d[x + i - 1]
        BY <2>2, <2>3 DEF PartOf
    <2> QED BY <2>4 DEF x
<1>7. \A i \in 1..32 : a + 1 + i - 1 = a + i
    OBVIOUS
<1>8. \A i \in 1..32 : Load(a)[i] = d[a + i]
    BY <1>6, <1>7
<1>9. Load(a)[1] \in Byte
    <2>1. a + 1 \in 1..Len(d) /\ 1 \in 1..32
        BY <1>4
    <2>2. d[a + 1] \in Byte
        BY <1>2, <2>1
    <2> QED BY <1>8, <2>1, <2>2
<1>10. ASSUME NEW i \in 1..32, a + i <= n PROVE Load(a)[i] = data[a + i]
    <2>1. a + i \in 1..n
        BY <1>10
    <2> QED BY <1>4, <1>8, <2>1
<1>11. ASSUME NEW i \in 1..32, a + i > n, a + i <= n + 128 PROVE Load(a)[i] = Num(0)
    <2>1. PICK j \in 1..128 : n + j = a + i
        <3>1. \A x, y \in Nat : x > y /\ x <= y + 128 => x - y \in 1..128 /\ y + (x - y) = x
            OBVIOUS
        <3>2. a + i \in Nat
            BY <1>11
        <3> QED BY <1>11, <3>1, <3>2
    <2>2. Load(a)[i] = d[a + i]
        BY <1>8
    <2>3. d[n + j] = z[j] /\ z[j] = Num(0)
        BY <1>4
    <2> QED BY <2>1, <2>2, <2>3
<1> QED BY <1>6, <1>9, <1>10, <1>11 DEF Loaded

\* A read gives as many bytes as it asks for.
LEMMA ReadRow == ASSUME NEW a, NEW n \in Nat PROVE Row(Read(a, n), n)
<1>1. 1 <= n + 1 /\ n - 1 + 1 = n /\ 1 \in Nat
    OBVIOUS
<1>2. Row(SubSeq(Load(at + a), 1, n), n)
    BY <1>1, RowPart
<1> QED BY <1>1, <1>2 DEF Read

\* It finds the block number where the calldata holds it.
LEMMA ReadBlock ==
    ASSUME data \in Seq(Byte), NEW n \in Nat, n = Len(data), NEW a \in Nat, at = 0,
           a + 4 <= n, Holds(data, a, Block, 4)
    PROVE  Read(a, 4) = Block
<1> DEFINE r == Read(a, 4)
<1>1. \A i \in 1..32 : a + i <= n => Load(a)[i] = data[a + i]
    <2>1. a <= n + 100
        OBVIOUS
    <2>2. Loaded(a, n)
        BY <2>1, LoadByte
    <2> QED BY <2>2 DEF Loaded
<1>2. r = SubSeq(Load(a), 1, 4)
    BY DEF Read
<1>3. Row(r, 4)
    BY ReadRow
<1>4. \A i \in 1..4 : r[i] = Load(a)[1 + i - 1]
    <2>1. 4 - 1 + 1 = 4 /\ 1 <= 4 + 1
        OBVIOUS
    <2>2. PartOf(SubSeq(Load(a), 1, 4), Load(a), 1, 4)
        BY <2>1, RowPart
    <2> QED BY <1>2, <2>2 DEF PartOf
<1> HIDE DEF r
<1>5. ASSUME NEW i \in 1..4 PROVE r[i] = Block[i]
    <2>1. 1 + i - 1 = i /\ i \in 1..32 /\ a + i <= n
        OBVIOUS
    <2>2. Load(a)[i] = data[a + i] /\ data[a + i] = Block[i]
        BY <1>1, <2>1 DEF Holds
    <2> QED BY <1>4, <2>1, <2>2
<1>6. PICK S : r \in Seq(S) /\ Len(r) = 4
    BY <1>3 DEF Row
<1>7. r = [i \in 1..4 |-> r[i]]
    BY <1>6
<1>8. Block = [i \in 1..4 |-> Block[i]]
    BY DEF Block, Field
<1> QED BY <1>5, <1>7, <1>8 DEF r
--------------------------------------------------------------------------------
\* What the routines write fits.

Sane == data \in Seq(Byte) /\ at \in 0..Len(data)
Amounts(a, base) == a \in 0..100 /\ base \in {0, 32, 64}

\* The memory offset of an amount is a byte of the calldata: wherever it points, the word fits.
LEMMA StoreAmountKeeps ==
    ASSUME Sane, NEW m, Mem(m), NEW a, NEW base, Amounts(a, base), NEW masked
    PROVE  Mem(StoreAmount(m, a, base, masked))
<1> DEFINE w == Load(at + a)
           e == IF masked THEN 5 ELSE 32
           amount == SubSeq(w, 2, e)
           word == amount \o Zeros(32 - Len(amount))
           place == w[1][3] + base
<1>1. PICK n \in Nat : n = Len(data) /\ data \in Seq(Byte) /\ at \in 0..n
    BY LenProperties DEF Sane
<1>2. at + a \in Nat /\ at + a <= n + 100
    BY <1>1 DEF Amounts
<1>3. w[1] \in Byte
    BY <1>1, <1>2, LoadByte
<1>4. Spot(place)
    <2>1. w[1][3] \in 0..101
        BY <1>3 DEF Byte
    <2> HIDE DEF w
    <2> DEFINE x == w[1][3]
    <2>2. x \in 0..101
        BY <2>1
    <2> HIDE DEF x
    <2>3. x + base \in 0..217
        BY <2>2 DEF Amounts
    <2> QED BY <2>3 DEF Spot, x
<1>5. StoreAmount(m, a, base, masked) = Store(m, place, word)
    BY DEF StoreAmount
<1> HIDE DEF w
<1>6. PICK l \in Nat : l = e - 1 /\ l <= 31 /\ e \in Nat /\ 2 <= e + 1 /\ e - 2 + 1 = l
    OBVIOUS
<1>7. Row(amount, l)
    <2> HIDE DEF e
    <2> QED BY <1>6, RowPart
<1> HIDE DEF amount, e
<1>8. Len(amount) = l /\ 32 - l \in Nat /\ l + (32 - l) = 32
    BY <1>6, <1>7, RowLen
<1>9. Full(word)
    <2>1. Row(Zeros(32 - l), 32 - l)
        BY <1>8, RowZeros
    <2>2. Row(amount \o Zeros(32 - l), l + (32 - l))
        BY <1>7, <1>8, <2>1, RowPair
    <2> QED BY <1>8, <2>2 DEF Full
<1> HIDE DEF place, word
<1>10. Mem(Store(m, place, word))
    BY <1>4, <1>9, StoreKeeps, Zenon
<1> QED BY <1>5, <1>10, Zenon

\* Words, places and lists of writes that fit.
LEMMA SignatureWord == ASSUME NEW f PROVE Full(Signature(f) \o Zeros(28))
BY RowSignature DEF Full

LEMMA ReadWord == ASSUME NEW a PROVE Full(Word(Read(a, 20))) /\ Full(Read(a, 32))
<1>1. Row(Read(a, 20), 20) /\ Row(Read(a, 32), 32) /\ 20 \in 0..32
    BY ReadRow
<1> QED BY <1>1, RowWord DEF Full

LEMMA NumWord == ASSUME NEW n PROVE Full(Word(<<Num(n)>>))
<1>1. Row(<<Num(n)>>, 1) /\ 1 \in 0..32
    BY RowOne
<1> QED BY <1>1, RowWord DEF Full

LEMMA OtherWords == Full(Word(This)) /\ Full(Value) /\ Full(Zeros(32))
<1>1. Row(This, 20) /\ 20 \in 0..32
    BY RowField DEF This
<1>2. Row(Value, 32) /\ Row(Zeros(32), 32)
    BY RowField, RowZeros DEF Value
<1> QED BY <1>1, <1>2, RowWord DEF Full

LEMMA Spots ==
    /\ Spot(0) /\ Spot(4) /\ Spot(36) /\ Spot(68) /\ Spot(100) /\ Spot(132) /\ Spot(164)
    /\ Spot(180) /\ Spot(196) /\ Spot(217)
    /\ Amounts(21, 0) /\ Amounts(21, 64) /\ Amounts(26, 0) /\ Amounts(41, 0)
    /\ Amounts(46, 0) /\ Amounts(53, 32)
BY DEF Spot, Amounts

LEMMA FitsTwo ==
    ASSUME NEW a, NEW b, NEW v, NEW w, Spot(a), Spot(b), Full(v), Full(w)
    PROVE  Fits(<<<<a, v>>, <<b, w>>>>)
BY DEF Fits

LEMMA FitsThree ==
    ASSUME NEW a, NEW b, NEW c, NEW v, NEW w, NEW x,
           Spot(a), Spot(b), Spot(c), Full(v), Full(w), Full(x)
    PROVE  Fits(<<<<a, v>>, <<b, w>>, <<c, x>>>>)
BY DEF Fits

LEMMA FitsFour ==
    ASSUME NEW a, NEW b, NEW c, NEW d, NEW v, NEW w, NEW x, NEW y,
           Spot(a), Spot(b), Spot(c), Spot(d), Full(v), Full(w), Full(x), Full(y)
    PROVE  Fits(<<<<a, v>>, <<b, w>>, <<c, x>>, <<d, y>>>>)
BY DEF Fits

LEMMA FitsFive ==
    ASSUME NEW a, NEW b, NEW c, NEW d, NEW e, NEW v, NEW w, NEW x, NEW y, NEW z,
           Spot(a), Spot(b), Spot(c), Spot(d), Spot(e),
           Full(v), Full(w), Full(x), Full(y), Full(z)
    PROVE  Fits(<<<<a, v>>, <<b, w>>, <<c, x>>, <<d, y>>, <<e, z>>>>)
BY DEF Fits

\* The payment of a V2 pair, whichever routine makes it.
LEMMA PaysKeeps ==
    ASSUME Sane, Mem(mem)
    PROVE  Mem(Pays.mem) /\ Len(Pays.to) = 20
<1> DEFINE s == Signature("transferFrom") \o Zeros(28)
           u == Signature("transfer") \o Zeros(28)
           this == Word(This)
           pool == Word(Read(1, 20))
<1>1. Full(s) /\ Full(u) /\ Full(this) /\ Full(pool) /\ Full(Value)
    BY SignatureWord, ReadWord, OtherWords, Zenon
<1>2. Len(Weth) = 20 /\ Len(Read(21, 20)) = 20
    <2>1. Row(Weth, 20) /\ Row(Read(21, 20), 20)
        BY RowField, ReadRow DEF Weth
    <2> DEFINE r == Read(21, 20)
    <2>2. Row(Weth, 20) /\ Row(r, 20)
        BY <2>1
    <2> HIDE DEF r
    <2>3. Len(Weth) = 20 /\ Len(r) = 20
        BY <2>2, RowLen
    <2> QED BY <2>3 DEF r
<1>3. CASE pc \in {"v2_input0", "v2_input1"}
    <2> DEFINE ws == <<<<0, s>>, <<4, this>>, <<36, pool>>, <<68, Value>>>>
    <2>1. Pays.to = Weth /\ Pays.mem = StoreAll(mem, ws)
        BY <1>3 DEF Pays
    <2> HIDE DEF s, this, pool
    <2>2. Fits(ws)
        BY <1>1, Spots, FitsFour, Zenon
    <2> HIDE DEF ws
    <2>3. Mem(StoreAll(mem, ws))
        BY <2>2, StoreAllKeeps, Zenon
    <2> QED BY <1>2, <2>1, <2>3
<1>4. CASE pc = "multi_call_v2_input"
    <2> DEFINE ws == <<<<0, s>>, <<4, this>>, <<36, pool>>>>
    <2>1. Pays.to = Weth /\ Pays.mem = StoreAmount(StoreAll(mem, ws), 21, 64, TRUE)
        BY <1>4 DEF Pays
    <2> HIDE DEF s, this, pool
    <2>2. Fits(ws)
        BY <1>1, Spots, FitsThree, Zenon
    <2> HIDE DEF ws
    <2>3. Mem(StoreAll(mem, ws))
        BY <2>2, StoreAllKeeps, Zenon
    <2>4. Mem(StoreAmount(StoreAll(mem, ws), 21, 64, TRUE))
        BY <2>3, Spots, StoreAmountKeeps, Zenon
    <2> QED BY <1>2, <2>1, <2>4
<1>5. CASE pc \notin {"v2_input0", "v2_input1", "multi_call_v2_input"}
    <2> DEFINE ws == <<<<0, u>>, <<4, pool>>>>
               b == pc \in V2Multis
    <2>1. Pays.to = Read(21, 20) /\ Pays.mem = StoreAmount(StoreAll(mem, ws), 41, 0, b)
        BY <1>5 DEF Pays
    <2> HIDE DEF u, pool
    <2>2. Fits(ws)
        BY <1>1, Spots, FitsTwo, Zenon
    <2> HIDE DEF ws, b
    <2>3. Mem(StoreAll(mem, ws))
        BY <2>2, StoreAllKeeps, Zenon
    <2>4. Mem(StoreAmount(StoreAll(mem, ws), 41, 0, b))
        BY <2>3, Spots, StoreAmountKeeps, Zenon
    <2> QED BY <1>2, <2>1, <2>4
<1> QED BY <1>3, <1>4, <1>5

\* The arguments of a V2 swap.
LEMMA SwapArgumentsKeep ==
    ASSUME Sane, Mem(mem), pc \in V2Swaps
    PROVE  Mem(SwapArguments)
<1> DEFINE sig == Signature("swap") \o Zeros(28)
           m == Store(mem, 0, sig)
           zero == Zeros(32)
           this == Word(This)
           len == Word(<<Num(128)>>)
           tail == <<<<68, this>>, <<100, len>>>>
           cleared == StoreAll(m, <<<<4, zero>>, <<36, zero>>>>)
           first == StoreAll(m, <<<<4, Value>>, <<36, zero>>>>)
           second == StoreAll(m, <<<<4, zero>>, <<36, Value>>>>)
           spilling == Store(StoreAmount(Store(m, 4, zero), 21, 0, FALSE), 36, zero)
<1>1. Full(sig) /\ Full(zero) /\ Full(this) /\ Full(len) /\ Full(Value)
    BY SignatureWord, NumWord, OtherWords, Zenon
<1>2. SwapArguments = StoreAll(
            CASE pc = "swap_output0" -> first
              [] pc = "swap_output1" -> second
              [] pc = "swap_input0" -> StoreAmount(cleared, 21, 0, FALSE)
              [] pc = "swap_input1" -> spilling
              [] pc = "swap_multi_input" -> StoreAmount(cleared, 26, 0, TRUE)
              [] pc = "swap_multi_output" -> StoreAmount(cleared, 46, 0, TRUE), tail)
    BY DEF SwapArguments
<1> HIDE DEF sig, zero, this, len
<1>3. Mem(m)
    BY <1>1, Spots, StoreKeeps, Zenon
<1> HIDE DEF m
<1>4. Fits(tail) /\ Fits(<<<<4, zero>>, <<36, zero>>>>)
      /\ Fits(<<<<4, Value>>, <<36, zero>>>>) /\ Fits(<<<<4, zero>>, <<36, Value>>>>)
    BY <1>1, Spots, FitsTwo, Zenon
<1> HIDE DEF tail
<1>5. Mem(cleared) /\ Mem(first) /\ Mem(second)
    BY <1>3, <1>4, StoreAllKeeps, Zenon
<1>6. Mem(spilling)
    <2>1. Mem(Store(m, 4, zero))
        BY <1>1, <1>3, Spots, StoreKeeps, Zenon
    <2>2. Mem(StoreAmount(Store(m, 4, zero), 21, 0, FALSE))
        BY <2>1, Spots, StoreAmountKeeps, Zenon
    <2> QED BY <1>1, <2>2, Spots, StoreKeeps, Zenon
<1> HIDE DEF cleared, first, second, spilling
<1>7. /\ Mem(StoreAmount(cleared, 21, 0, FALSE))
      /\ Mem(StoreAmount(cleared, 26, 0, TRUE))
      /\ Mem(StoreAmount(cleared, 46, 0, TRUE))
    BY <1>5, Spots, StoreAmountKeeps, Zenon
<1>8. PICK x : SwapArguments = StoreAll(x, tail) /\ Mem(x)
    BY <1>2, <1>5, <1>6, <1>7 DEF V2Swaps
<1> QED BY <1>4, <1>8, StoreAllKeeps, Zenon

\* The arguments of a V3 swap, with the data of its callback.
LEMMA V3ArgumentsKeep ==
    ASSUME Sane, Mem(mem)
    PROVE  Mem(V3Arguments)
<1> DEFINE sig == Signature("v3swap") \o Zeros(28)
           this == Word(This)
           one == Word(<<Num(1)>>)
           limit == Limit(ZeroForOne)
           offset == Word(<<Num(160)>>)
           len == Word(<<Num(53)>>)
           own == <<Num(IF ZeroForOne THEN 1 ELSE 0)>> \o InputToken \o Zeros(11)
           hash == Read(HashAt, 32)
           head == <<<<0, sig>>, <<4, this>>>>
           tail == <<<<100, limit>>, <<132, offset>>, <<164, len>>, <<196, own>>, <<217, hash>>>>
           m == StoreAll(mem, head)
           flagged == IF ZeroForOne THEN Store(m, 36, one) ELSE m
<1>1. /\ Full(sig) /\ Full(this) /\ Full(one) /\ Full(offset) /\ Full(len)
      /\ Full(hash) /\ Full(Value)
    BY SignatureWord, NumWord, ReadWord, OtherWords, Zenon
<1>2. Full(limit)
    BY RowField DEF Limit, Full
<1>3. Full(own)
    <2> DEFINE flag == <<Num(IF ZeroForOne THEN 1 ELSE 0)>>
    <2>1. Row(flag, 1)
        BY RowOne
    <2>2. Row(InputToken, 20)
        <3>1. Row(Read(58, 20), 20) /\ Row(Read(21, 20), 20) /\ Row(Weth, 20)
            BY ReadRow, RowField DEF Weth
        <3> QED BY <3>1 DEF InputToken
    <2>3. Row(Zeros(11), 11)
        BY RowZeros
    <2> HIDE DEF flag
    <2>4. Row(flag \o InputToken, 1 + 20)
        BY <2>1, <2>2, RowPair
    <2>5. Row(flag \o InputToken, 21)
        BY <2>4
    <2>6. Row(flag \o InputToken \o Zeros(11), 21 + 11)
        BY <2>3, <2>5, RowPair
    <2> QED BY <2>6 DEF flag, Full
<1>4. V3Arguments = StoreAll(V3Amount(flagged), tail)
    BY DEF V3Arguments
<1> HIDE DEF sig, this, one, limit, offset, len, own, hash
<1>5. Fits(head) /\ Fits(tail)
    <2>1. Fits(head)
        BY <1>1, Spots, FitsTwo, Zenon
    <2>2. Fits(tail)
        BY <1>1, <1>2, <1>3, Spots, FitsFive
    <2> QED BY <2>1, <2>2
<1> HIDE DEF head, tail
<1>6. Mem(m)
    BY <1>5, StoreAllKeeps, Zenon
<1> HIDE DEF m
<1>7. Mem(flagged)
    <2>1. Mem(Store(m, 36, one))
        BY <1>1, <1>6, Spots, StoreKeeps, Zenon
    <2> QED BY <1>6, <2>1
<1> HIDE DEF flagged
<1>8. Mem(V3Amount(flagged))
    <2> DEFINE small == Word(Read(41, 6))
               big == Word(Times(Read(41, 9)))
    <2>1. Full(small) /\ Full(big)
        <3>1. Row(Read(41, 6), 6) /\ Row(Read(41, 9), 9)
            BY ReadRow
        <3>2. Row(Times(Read(41, 9)), 9) /\ 6 \in 0..32 /\ 9 \in 0..32
            BY <3>1, RowTimes
        <3> QED BY <3>1, <3>2, RowWord DEF Full
    <2>2. \/ V3Amount(flagged) = StoreAmount(flagged, 53, 32, TRUE)
          \/ V3Amount(flagged) = Store(flagged, 68, Value)
          \/ V3Amount(flagged) = Store(flagged, 68, small)
          \/ V3Amount(flagged) = Store(flagged, 68, big)
        BY DEF V3Amount, V3Multis
    <2> HIDE DEF small, big
    <2>3. Mem(StoreAmount(flagged, 53, 32, TRUE))
        BY <1>7, Spots, StoreAmountKeeps, Zenon
    <2>4. Mem(Store(flagged, 68, Value)) /\ Mem(Store(flagged, 68, small))
          /\ Mem(Store(flagged, 68, big))
        BY <1>1, <1>7, <2>1, Spots, StoreKeeps, Zenon
    <2> QED BY <2>2, <2>3, <2>4, Zenon
<1>9. Mem(StoreAll(V3Amount(flagged), tail))
    BY <1>5, <1>8, StoreAllKeeps, Zenon
<1> QED BY <1>4, <1>9, Zenon

\* The cleaning between two swaps.
LEMMA CleanedKeeps ==
    ASSUME NEW m, Mem(m)
    PROVE  Mem(Cleaned(m))
<1> DEFINE places == CASE pc \in V2Swaps -> <<36, 68, 100>>
                       [] pc = "multi_call_v3_input1" -> <<4, 68, 100, 132, 164, 180, 196, 217>>
                       [] OTHER -> <<4, 36, 68, 100, 132, 164, 180, 196, 217>>
           n == Len(places)
           z == Zeros(32)
           ws == [i \in 1..n |-> <<places[i], z>>]
<1>1. Cleaned(m) = StoreAll(m, ws)
    BY DEF Cleaned
<1>2. n \in Nat /\ \A i \in 1..n : Spot(places[i])
    <2>1. CASE pc \in V2Swaps
        <3>1. places = <<36, 68, 100>>
            BY <2>1 DEF V2Swaps
        <3> QED BY <3>1, Spots
    <2>2. CASE pc \notin V2Swaps /\ pc = "multi_call_v3_input1"
        <3>1. places = <<4, 68, 100, 132, 164, 180, 196, 217>>
            BY <2>2
        <3> QED BY <3>1, Spots
    <2>3. CASE pc \notin V2Swaps /\ pc # "multi_call_v3_input1"
        <3>1. places = <<4, 36, 68, 100, 132, 164, 180, 196, 217>>
            BY <2>3
        <3> QED BY <3>1, Spots
    <2> QED BY <2>1, <2>2, <2>3
<1>3. Full(z)
    BY OtherWords
<1> HIDE DEF places, n, z
<1>4. Len(ws) = n
    <2>1. ws = [i \in 1..n |-> ws[i]]
        OBVIOUS
    <2> HIDE DEF ws
    <2> QED BY <1>2, <2>1, RowFunction, RowLen
<1>5. Fits(ws)
    <2>1. \A i \in 1..n : ws[i][1] = places[i] /\ ws[i][2] = z
        OBVIOUS
    <2> HIDE DEF ws
    <2> QED BY <1>2, <1>3, <1>4, <2>1 DEF Fits
<1> HIDE DEF ws
<1>6. Mem(StoreAll(m, ws))
    BY <1>5, StoreAllKeeps, Zenon
<1> QED BY <1>1, <1>6, Zenon
--------------------------------------------------------------------------------
\* The invariant.

\* The routine that swaps on a V2 pair after it has been paid.
Swapper(s, multi) ==
    CASE multi -> IF s.buys THEN "swap_multi_input" ELSE "swap_multi_output"
      [] ~multi /\ s.buys -> IF s.weth0 THEN "swap_input0" ELSE "swap_input1"
      [] ~multi /\ ~s.buys -> IF s.weth0 THEN "swap_output0" ELSE "swap_output1"

\* Where the payloads end in the calldata.
Ends == CHOOSE st : Layout(tx, data, st)

Inputs == tx \in Transactions /\ onTime \in BOOLEAN /\ data = Packed(tx)

\* Swap k is about to begin, or its pair has been paid.
Begun(k) == pc = Routine(tx.swaps[k], tx.multi) /\ Len(calls) = 2 * (k - 1)
Paid(k) ==
    /\ tx.swaps[k].venue = "V2" /\ pc = Swapper(tx.swaps[k], tx.multi)
    /\ Len(calls) = 2 * k - 1

\* A swap works on its own payload, and each swap before it has made its two calls.
Place ==
    \/ pc = "check_block_number" /\ tx.checked /\ at = 0 /\ calls = <<>>
    \/ \E k \in 1..Len(tx.swaps) : at = Ends[k - 1] /\ (Begun(k) \/ Paid(k))
    \/ pc = "stop" /\ Len(calls) = 2 * Len(tx.swaps)
    \/ pc = "revert"

\* Calls: n of them, each with its result, to somebody.
Calls(c, n) ==
    n \in Nat /\ Row(c, n) /\ \A i \in 1..n : c[i].ok \in BOOLEAN /\ Len(c[i].to) = 20

Outcome ==
    /\ pc # "revert" => \A i \in 1..Len(calls) : calls[i].ok \/ Payment(i)
    /\ pc = "revert" => \/ Len(calls) >= 1 /\ ~calls[Len(calls)].ok
                        \/ Guarded /\ ~onTime

\* In the wrong block nothing is called.
Early == Guarded /\ ~onTime => calls = <<>> /\ pc \in DOMAIN BlockAt \cup {"revert"}

IInv ==
    /\ Inputs /\ at \in 0..Len(data) /\ Mem(mem)
    /\ Calls(calls, Len(calls)) /\ Place /\ Outcome /\ Early
--------------------------------------------------------------------------------
\* What is known of routines and places.

\* The names of the single V3 routines.
LEMMA V3SinglesAre ==
    V3Singles = {"v3_output1_big", "v3_output0_big", "v3_output1_small", "v3_output0_small",
                 "v3_input0", "v3_input1"}
<1>1. Len(V3Labels) = 6
    BY DEF V3Labels
<1>2. \A i \in 1..6 : V3Labels[i] \in {"v3_output1_big", "v3_output0_big", "v3_output1_small",
                                       "v3_output0_small", "v3_input0", "v3_input1"}
    BY DEF V3Labels
<1>3. /\ V3Labels[1] = "v3_output1_big" /\ V3Labels[2] = "v3_output0_big"
      /\ V3Labels[3] = "v3_output1_small" /\ V3Labels[4] = "v3_output0_small"
      /\ V3Labels[5] = "v3_input0" /\ V3Labels[6] = "v3_input1"
    BY DEF V3Labels
<1>4. V3Singles = {V3Labels[i] : i \in 1..6}
    BY <1>1 DEF V3Singles
<1>5. 1 \in 1..6 /\ 2 \in 1..6 /\ 3 \in 1..6 /\ 4 \in 1..6 /\ 5 \in 1..6 /\ 6 \in 1..6
    OBVIOUS
<1> QED BY <1>2, <1>3, <1>4, <1>5

\* What the name of a routine says of the swap it is for.
Tells(p, s, multi) ==
    /\ p \notin V2Swaps \cup {"stop", "revert", "check_block_number"}
    /\ s.venue = "V2" => p \in V2Singles \cup V2Multis /\ p \notin V3Singles \cup V3Multis
    /\ s.venue = "V3" => p \in V3Singles \cup V3Multis /\ p \notin V2Singles \cup V2Multis
    /\ multi => p \in Multis /\ p \notin V2Singles \cup V3Singles
    /\ ~multi => p \notin Multis
    /\ p \in {"v2_input0", "v2_input1"} => s.venue = "V2" /\ ~multi /\ s.buys
    /\ p \in {"v3_input0", "v3_input1"} => s.venue = "V3" /\ ~multi /\ s.buys
    /\ ~multi /\ s.buys => p \in {"v2_input0", "v2_input1", "v3_input0", "v3_input1"}
    /\ p \in {"multi_call_v3_input0", "multi_call_v3_input1"} => s.buys
    /\ p \in {"multi_call_v3_output0", "multi_call_v3_output1"} => ~s.buys

\* The routine a label leads to is for this kind of swap.
LEMMA RoutineTells ==
    ASSUME NEW s \in Swap, NEW multi \in BOOLEAN, NEW p, p = Routine(s, multi)
    PROVE  Tells(p, s, multi)
<1>1. s.venue \in {"V2", "V3"} /\ s.buys \in BOOLEAN
    BY DEF Swap
<1> USE V3SinglesAre DEF Tells, V2Swaps, V2Singles, V2Multis, V3Multis, Multis
<1>2. CASE s.venue = "V2" /\ multi
    <2>1. p \in {"multi_call_v2_input", "multi_call_v2_output"}
        BY <1>1, <1>2 DEF Routine
    <2> QED BY <1>2, <2>1
<1>3. CASE s.venue = "V2" /\ ~multi
    <2>1. /\ s.buys => p \in {"v2_input0", "v2_input1"}
          /\ ~s.buys => p \in {"v2_output0", "v2_output1"}
        BY <1>3 DEF Routine
    <2> QED BY <1>1, <1>3, <2>1
<1>4. CASE s.venue = "V3" /\ multi
    <2>1. /\ s.buys => p \in {"multi_call_v3_input0", "multi_call_v3_input1"}
          /\ ~s.buys => p \in {"multi_call_v3_output0", "multi_call_v3_output1"}
        BY <1>4 DEF Routine
    <2> QED BY <1>1, <1>4, <2>1
<1>5. CASE s.venue = "V3" /\ ~multi
    <2>1. /\ s.buys => p \in {"v3_input0", "v3_input1"}
          /\ ~s.buys => p \in {"v3_output0_big", "v3_output1_big", "v3_output0_small",
                               "v3_output1_small"}
        BY <1>5 DEF Routine
    <2> QED BY <1>1, <1>5, <2>1
<1> QED BY <1>1, <1>2, <1>3, <1>4, <1>5

\* What the invariant says of the transaction and its calldata.
LEMMA TxFacts ==
    ASSUME Inputs
    PROVE  /\ tx.multi \in BOOLEAN /\ tx.checked \in BOOLEAN
           /\ Len(tx.swaps) \in Nat /\ Len(tx.swaps) >= 1
           /\ \A k \in 1..Len(tx.swaps) : tx.swaps[k] \in Swap
           /\ ~tx.multi => Len(tx.swaps) = 1 /\ ~tx.checked
           /\ Layout(tx, data, Ends)
<1>1. tx \in Transactions /\ data = Packed(tx)
    BY DEF Inputs
<1>2. \E st : Layout(tx, data, st)
    BY <1>1, PackedLayout
<1>3. Layout(tx, data, Ends)
    BY <1>2 DEF Ends
<1> QED BY <1>1, <1>3, TransactionFacts

LEMMA IsSane == ASSUME IInv PROVE Sane
BY TxFacts DEF IInv, Sane, Layout

\* The routines that check the block number, and where.
LEMMA BlockPlaces ==
    /\ DOMAIN BlockAt = {"v2_input0", "v2_input1", "v3_input0", "v3_input1", "check_block_number"}
    /\ BlockAt["v2_input0"] = 26 /\ BlockAt["v2_input1"] = 26
    /\ BlockAt["v3_input0"] = 53 /\ BlockAt["v3_input1"] = 53 /\ BlockAt["check_block_number"] = 1
BY DEF BlockAt

\* The swap that a routine is for.
LEMMA Current ==
    ASSUME IInv, pc \in V2Singles \cup V2Multis \cup V3Singles \cup V3Multis
    PROVE  \E k \in 1..Len(tx.swaps) :
              at = Ends[k - 1] /\ Begun(k) /\ Tells(pc, tx.swaps[k], tx.multi)
<1>1. pc \notin V2Swaps \cup {"stop", "revert", "check_block_number"}
    BY V3SinglesAre DEF V2Singles, V2Multis, V3Multis, V2Swaps
<1>2. PICK k \in 1..Len(tx.swaps) : at = Ends[k - 1] /\ (Begun(k) \/ Paid(k))
    BY <1>1 DEF IInv, Place
<1>3. Inputs
    BY DEF IInv
<1>4. tx.swaps[k] \in Swap /\ tx.multi \in BOOLEAN
    BY <1>3, TxFacts
<1>5. tx.swaps[k].buys \in BOOLEAN
    BY <1>4 DEF Swap
<1>6. Swapper(tx.swaps[k], tx.multi) \in V2Swaps
    BY <1>4, <1>5 DEF Swapper, V2Swaps
<1>7. Begun(k)
    BY <1>1, <1>2, <1>6 DEF Paid
<1>8. Tells(pc, tx.swaps[k], tx.multi)
    BY <1>4, <1>7, RoutineTells DEF Begun
<1> QED BY <1>2, <1>7, <1>8

\* A routine that checks the block number finds it.
LEMMA BlockFound ==
    ASSUME IInv, pc \in DOMAIN BlockAt
    PROVE  Guarded /\ Read(BlockAt[pc], 4) = Block
<1> DEFINE N == Len(tx.swaps)
<1>1. /\ tx.multi \in BOOLEAN /\ tx.checked \in BOOLEAN /\ N \in Nat /\ N >= 1
      /\ \A k \in 1..N : tx.swaps[k] \in Swap
      /\ ~tx.multi => N = 1 /\ ~tx.checked
      /\ Layout(tx, data, Ends)
    BY TxFacts DEF IInv
<1>2. PICK n \in Nat : n = Len(data) /\ data \in Seq(Byte)
    BY <1>1, LenProperties DEF Layout
<1>3. 1 \in 1..N /\ 1 - 1 = 0 /\ 0 \in 0..N
    BY <1>1
<1>4. /\ Ends[0] = (IF tx.checked THEN 5 ELSE 0) /\ Ends[1] <= n
      /\ Ends[1] = Ends[0] + Size(tx.swaps[1], tx.multi)
    BY <1>1, <1>2, <1>3 DEF Layout
<1>5. tx.swaps[1].venue \in {"V2", "V3"} /\ tx.swaps[1].buys \in BOOLEAN
    BY <1>1, <1>3 DEF Swap
<1>6. CASE pc = "check_block_number"
    <2>1. tx.checked /\ at = 0
        <3>1. \A k \in 1..N : ~Begun(k) /\ ~Paid(k)
            <4> TAKE k \in 1..N
            <4>1. tx.swaps[k] \in Swap
                BY <1>1
            <4>2. ~Begun(k)
                BY <1>1, <1>6, <4>1, RoutineTells DEF Begun, Tells
            <4>3. pc # Swapper(tx.swaps[k], tx.multi)
                BY <1>1, <1>6, <4>1 DEF Swapper, Swap
            <4> QED BY <4>2, <4>3 DEF Paid
        <3> QED BY <1>6, <3>1 DEF IInv, Place
    <2>2. Holds(data, 1, Block, 4)
        BY <1>1, <2>1 DEF Layout
    <2>3. 1 + 4 <= n
        BY <1>4, <1>5, <2>1 DEF Size
    <2>4. Read(1, 4) = Block
        BY <1>2, <2>1, <2>2, <2>3, ReadBlock
    <2>5. BlockAt[pc] = 1
        BY <1>6, BlockPlaces
    <2> QED BY <2>1, <2>4, <2>5 DEF Guarded
<1>7. CASE pc \in {"v2_input0", "v2_input1", "v3_input0", "v3_input1"}
    <2>1. pc \in V2Singles \cup V2Multis \cup V3Singles \cup V3Multis
        BY <1>7, V3SinglesAre DEF V2Singles
    <2>2. PICK k \in 1..N : at = Ends[k - 1] /\ Begun(k) /\ Tells(pc, tx.swaps[k], tx.multi)
        BY <2>1, Current
    <2>3. tx.swaps[k].buys /\ ~tx.multi
        BY <1>7, <2>2 DEF Tells
    <2>4. k = 1 /\ N = 1 /\ ~tx.checked
        BY <1>1, <2>3
    <2>5. at = 0 /\ tx.swaps[1].buys
        BY <1>3, <1>4, <2>2, <2>3, <2>4
    <2>6. PICK a \in Nat : a = BlockPlace(tx.swaps[1]) /\ a = BlockAt[pc] /\ a + 4 <= n
        <3>1. BlockPlace(tx.swaps[1]) = BlockAt[pc]
            BY <1>5, <1>7, <2>2, <2>4, BlockPlaces DEF BlockPlace, Tells
        <3>2. BlockPlace(tx.swaps[1]) + 4 <= n
            BY <1>4, <1>5, <2>3, <2>4, <2>5 DEF BlockPlace, Size
        <3>3. BlockPlace(tx.swaps[1]) \in Nat
            BY DEF BlockPlace
        <3> QED BY <3>1, <3>2, <3>3
    <2>7. Holds(data, a, Block, 4)
        BY <1>1, <2>3, <2>5, <2>6 DEF Layout
    <2>8. Read(a, 4) = Block
        BY <1>2, <2>5, <2>6, <2>7, ReadBlock
    <2> QED BY <2>3, <2>5, <2>6, <2>8 DEF Guarded
<1> QED BY <1>6, <1>7, BlockPlaces

\* What has gone past the check is on time.
LEMMA OnTime ==
    ASSUME IInv, ~WrongBlock, pc # "revert"
    PROVE  ~(Guarded /\ ~onTime)
BY DEF IInv, Early, WrongBlock
--------------------------------------------------------------------------------
\* Every step keeps the invariant.

\* d is c with one more call.
Extended(d, c, n, r) ==
    Calls(d, n + 1) /\ Len(d) = n + 1 /\ d[n + 1] = r /\ \A i \in 1..n : d[i] = c[i]

\* A call that is appended is a call, and changes no earlier one.
LEMMA CallAdded ==
    ASSUME NEW c, NEW n, Calls(c, n), NEW r, r.ok \in BOOLEAN, Len(r.to) = 20
    PROVE  Extended(Append(c, r), c, n, r)
<1>1. n \in Nat /\ \A i \in 1..n : c[i].ok \in BOOLEAN /\ Len(c[i].to) = 20
    BY DEF Calls
<1>2. PICK S : c \in Seq(S) /\ Len(c) = n
    BY DEF Calls, Row
<1>3. \A i \in 1..n : c[i] \in S \cup {r}
    BY <1>2
<1>4. c \in [1..n -> S \cup {r}]
    BY <1>2, <1>3
<1>5. c \in Seq(S \cup {r}) /\ r \in S \cup {r}
    BY <1>1, <1>4, FunctionIsSeq
<1>6. /\ Append(c, r) \in Seq(S \cup {r}) /\ Len(Append(c, r)) = n + 1
      /\ Append(c, r)[n + 1] = r /\ \A i \in 1..n : Append(c, r)[i] = c[i]
    BY <1>2, <1>5, AppendProperties
<1>7. \A i \in 1..n + 1 : i \in 1..n \/ i = n + 1
    BY <1>1
<1>8. Calls(Append(c, r), n + 1)
    BY <1>1, <1>6, <1>7 DEF Calls, Row
<1> QED BY <1>6, <1>8 DEF Extended

\* The same, where the calls are put together from one and another.
LEMMA CallsJoined ==
    ASSUME NEW c, NEW n, Calls(c, n), NEW r
    PROVE  c \o <<r>> = Append(c, r) /\ c \o <<>> = c
<1>1. PICK S : c \in Seq(S) /\ Len(c) = n
    BY DEF Calls, Row
<1>2. \A i \in 1..n : c[i] \in S \cup {r}
    BY <1>1
<1>3. c \in [1..n -> S \cup {r}] /\ n \in Nat
    BY <1>1, <1>2 DEF Calls
<1>4. c \in Seq(S \cup {r}) /\ r \in S \cup {r}
    BY <1>3, FunctionIsSeq
<1> QED BY <1>4, AppendIsConcat, ConcatEmptySeq

\* A step that leaves the inputs alone leaves all that depends on them.
LEMMA SameInputs ==
    ASSUME UNCHANGED input
    PROVE  /\ tx' = tx /\ data' = data /\ onTime' = onTime
           /\ Inputs => Inputs'
           /\ Ends' = Ends /\ (Guarded' <=> Guarded)
           /\ \A i : Payment(i)' <=> Payment(i)
BY DEF input, Inputs, Ends, Guarded, Payment

\* The next payload, or the end.
LEMMA GotoNext ==
    ASSUME IInv, UNCHANGED input, NEW k \in 0..Len(tx.swaps), NEW m, Mem(m),
           Goto(m, Ends[k]), Len(calls') = 2 * k
    PROVE  Place' /\ (at \in 0..Len(data))' /\ Mem(mem') /\ pc' # "revert"
<1> DEFINE N == Len(tx.swaps)
<1>1. /\ tx.multi \in BOOLEAN /\ N \in Nat /\ N >= 1 /\ k \in 0..N
      /\ \A j \in 1..N : tx.swaps[j] \in Swap
      /\ Layout(tx, data, Ends)
    BY TxFacts DEF IInv
<1>2. PICK n \in Nat : n = Len(data) /\ data \in Seq(Byte)
    BY <1>1, LenProperties DEF Layout
<1>3. Ends[N] = n
    BY <1>1, <1>2 DEF Layout
<1>4. k < N => Ends[k] + 21 <= n /\ data[Ends[k] + 1] = SwapType(tx.swaps[k + 1], tx.multi)
    <2> SUFFICES ASSUME k < N
                 PROVE  Ends[k] + 21 <= n /\ data[Ends[k] + 1] = SwapType(tx.swaps[k + 1], tx.multi)
        OBVIOUS
    <2>1. k + 1 \in 1..N /\ k + 1 - 1 = k
        BY <1>1
    <2>2. /\ Ends[k + 1] = Ends[k] + Size(tx.swaps[k + 1], tx.multi) /\ Ends[k + 1] <= n
          /\ data[Ends[k] + 1] = SwapType(tx.swaps[k + 1], tx.multi)
        BY <1>1, <1>2, <2>1 DEF Layout
    <2>3. tx.swaps[k + 1].venue \in {"V2", "V3"} /\ tx.swaps[k + 1].buys \in BOOLEAN
        BY <1>1, <2>1 DEF Swap
    <2>4. Size(tx.swaps[k + 1], tx.multi) \in Nat /\ Size(tx.swaps[k + 1], tx.multi) >= 21
        BY <1>1, <2>3 DEF Size
    <2>5. Ends[k] \in Nat
        BY <1>1 DEF Layout
    <2> QED BY <2>2, <2>4, <2>5
<1>5. PICK e \in Nat : e = Ends[k] /\ e <= n
    <2>1. Ends[k] \in Nat
        BY <1>1 DEF Layout
    <2> QED BY <1>1, <1>3, <1>4, <2>1
<1>6. /\ tx' = tx /\ data' = data /\ Ends' = Ends
    BY SameInputs
<1>7. at' = e
    BY <1>5 DEF Goto
<1>8. (at \in 0..Len(data))'
    BY <1>2, <1>5, <1>6, <1>7
<1>9. CASE e = n
    <2>1. k = N
        BY <1>1, <1>4, <1>5, <1>9
    <2>2. pc' = "stop" /\ mem' = m
        BY <1>2, <1>5, <1>9 DEF Goto
    <2>3. Place'
        BY <1>6, <2>1, <2>2 DEF Place
    <2> QED BY <1>8, <2>2, <2>3
<1>10. CASE e # n
    <2>1. k + 1 \in 1..N /\ k + 1 - 1 = k /\ k < N
        BY <1>1, <1>3, <1>5, <1>10
    <2>2. /\ pc' = Gate(Load(e)[1])
          /\ mem' = Store(m, 0, Word(<<Num(e \div 256), Num(e % 256)>>))
        BY <1>2, <1>5, <1>10 DEF Goto
    <2>3. Load(e)[1] = data[e + 1]
        <3>1. e + 1 <= n /\ e <= n + 100 /\ 1 \in 1..32
            BY <1>4, <1>5, <2>1
        <3>2. Loaded(e, n)
            BY <1>2, <3>1, LoadByte
        <3> QED BY <3>1, <3>2 DEF Loaded
    <2>4. pc' = Routine(tx.swaps[k + 1], tx.multi)
        BY <1>1, <1>4, <1>5, <2>1, <2>2, <2>3, LabelLeads
    <2>5. pc' # "revert"
        BY <1>1, <2>1, <2>4, RoutineTells DEF Tells
    <2>6. Mem(mem')
        <3> DEFINE b == <<Num(e \div 256), Num(e % 256)>>
        <3>1. b \in Seq({Num(e \div 256), Num(e % 256)}) /\ Len(b) = 2
            OBVIOUS
        <3>2. mem' = Store(m, 0, Word(b))
            BY <2>2
        <3> HIDE DEF b
        <3>3. Row(b, 2) /\ 2 \in 0..32
            BY <3>1 DEF Row
        <3>4. Full(Word(b))
            BY <3>3, RowWord DEF Full
        <3> QED BY <3>2, <3>4, Spots, StoreKeeps
    <2>7. Begun(k + 1)'
        BY <1>1, <1>6, <2>1, <2>4 DEF Begun
    <2>8. Place'
        <3>1. k + 1 \in 1..Len(tx'.swaps) /\ at' = Ends'[k + 1 - 1]
            BY <1>5, <1>6, <1>7, <2>1
        <3> QED BY <2>7, <3>1 DEF Place
    <2> QED BY <1>8, <2>5, <2>6, <2>8
<1> QED BY <1>9, <1>10

\* The transaction starts at the first payload, or at the check of the block.
LEMMA InitIInv == Init => IInv
<1> SUFFICES ASSUME Init PROVE IInv
    OBVIOUS
<1> DEFINE N == Len(tx.swaps)
<1>1. Inputs /\ at = 0 /\ mem = Blank /\ calls = <<>> /\ pc = Gate(data[1])
    BY DEF Init, Inputs
<1>2. /\ tx.multi \in BOOLEAN /\ tx.checked \in BOOLEAN /\ N \in Nat /\ N >= 1
      /\ \A k \in 1..N : tx.swaps[k] \in Swap
      /\ ~tx.multi => N = 1 /\ ~tx.checked
      /\ Layout(tx, data, Ends)
    BY <1>1, TxFacts
<1>3. PICK n \in Nat : n = Len(data)
    BY <1>2, LenProperties DEF Layout
<1>4. at \in 0..Len(data)
    BY <1>1, <1>3
<1>5. Mem(mem)
    <2>1. Row(Zeros(249), 249)
        BY RowZeros
    <2> QED BY <1>1, <2>1, RowLen DEF Mem, Blank
<1>6. Len(calls) = 0 /\ Calls(calls, Len(calls))
    <2>1. calls \in Seq({}) /\ Len(calls) = 0
        BY <1>1
    <2> QED BY <2>1 DEF Calls, Row
<1>7. 1 \in 1..N /\ 1 - 1 = 0
    BY <1>2
<1>8. CASE tx.checked
    <2>1. data[1] = Num(101)
        BY <1>2, <1>8 DEF Layout
    <2>2. pc = "check_block_number"
        BY <1>1, <2>1, Doors
    <2>3. Place
        BY <1>1, <1>8, <2>2 DEF Place
    <2>4. Outcome
        BY <1>6, <2>2 DEF Outcome
    <2>5. Early
        BY <1>1, <2>2, BlockPlaces DEF Early
    <2> QED BY <1>1, <1>4, <1>5, <1>6, <2>3, <2>4, <2>5 DEF IInv
<1>9. CASE ~tx.checked
    <2>1. Ends[0] = 0 /\ data[Ends[0] + 1] = SwapType(tx.swaps[1], tx.multi)
        BY <1>2, <1>7, <1>9 DEF Layout
    <2>2. pc = Routine(tx.swaps[1], tx.multi)
        BY <1>1, <1>2, <1>7, <2>1, LabelLeads
    <2>3. Tells(pc, tx.swaps[1], tx.multi)
        BY <1>2, <1>7, <2>2, RoutineTells
    <2>4. Begun(1)
        BY <1>6, <1>7, <2>2 DEF Begun
    <2>5. Place
        BY <1>1, <1>7, <2>1, <2>4 DEF Place
    <2>6. Outcome
        BY <1>6, <2>3 DEF Outcome, Tells
    <2>7. Early
        <3>1. Guarded => pc \in {"v2_input0", "v2_input1", "v3_input0", "v3_input1"}
            BY <1>9, <2>3 DEF Guarded, Tells
        <3> QED BY <1>1, <3>1, BlockPlaces DEF Early
    <2> QED BY <1>1, <1>4, <1>5, <1>6, <2>5, <2>6, <2>7 DEF IInv
<1> QED BY <1>2, <1>8, <1>9

\* Who gets out does so in the wrong block.
LEMMA GetOutIInv == ASSUME IInv, GetOut PROVE IInv'
<1>1. /\ WrongBlock /\ pc' = "revert" /\ UNCHANGED input
      /\ at' = at /\ mem' = mem /\ calls' = calls
    BY DEF GetOut
<1>2. Guarded /\ ~onTime
    BY <1>1, BlockFound DEF WrongBlock
<1>3. tx' = tx /\ data' = data /\ onTime' = onTime /\ Inputs' /\ Guarded'
    BY <1>1, <1>2, SameInputs DEF IInv
<1>4. Place'
    BY <1>1 DEF Place
<1>5. Outcome' /\ Early'
    BY <1>1, <1>2, <1>3 DEF Outcome, Early, IInv
<1>6. (at \in 0..Len(data))' /\ Mem(mem') /\ Calls(calls', Len(calls'))
    BY <1>1, <1>3 DEF IInv
<1> QED BY <1>3, <1>4, <1>5, <1>6 DEF IInv

\* Behind the check the first payload begins.
LEMMA CheckBlockIInv == ASSUME IInv, CheckBlock PROVE IInv'
<1>1. /\ pc = "check_block_number" /\ ~WrongBlock /\ Goto(mem, 5)
      /\ UNCHANGED input /\ calls' = calls
    BY DEF CheckBlock
<1>2. ~(Guarded /\ ~onTime)
    BY <1>1, OnTime
<1>3. /\ tx' = tx /\ data' = data /\ onTime' = onTime /\ Inputs' /\ (Guarded' <=> Guarded)
      /\ \A i : Payment(i)' <=> Payment(i)
    BY <1>1, SameInputs DEF IInv
<1>4. /\ tx.multi \in BOOLEAN /\ Len(tx.swaps) \in Nat
      /\ \A k \in 1..Len(tx.swaps) : tx.swaps[k] \in Swap
      /\ Layout(tx, data, Ends)
    BY TxFacts DEF IInv
<1>5. tx.checked /\ calls = <<>>
    <2>1. ASSUME NEW k \in 1..Len(tx.swaps) PROVE ~Begun(k) /\ ~Paid(k)
        <3>1. tx.swaps[k] \in Swap
            BY <1>4
        <3>2. pc # Routine(tx.swaps[k], tx.multi)
            BY <1>1, <1>4, <3>1, RoutineTells DEF Tells
        <3>3. pc # Swapper(tx.swaps[k], tx.multi)
            BY <1>1, <1>4, <3>1 DEF Swapper, Swap
        <3> QED BY <3>2, <3>3 DEF Begun, Paid
    <2> QED BY <1>1, <2>1 DEF IInv, Place
<1>6. Ends[0] = 5 /\ 0 \in 0..Len(tx.swaps) /\ Len(calls') = 2 * 0
    BY <1>1, <1>4, <1>5 DEF Layout
<1>7. Place' /\ (at \in 0..Len(data))' /\ Mem(mem') /\ pc' # "revert"
    <2>1. Mem(mem)
        BY DEF IInv
    <2> QED BY <1>1, <1>6, <2>1, GotoNext
<1>8. Calls(calls', Len(calls'))
    BY <1>1 DEF IInv
<1>9. Outcome'
    BY <1>1, <1>6, <1>7 DEF Outcome
<1>10. Early'
    BY <1>2, <1>3 DEF Early
<1> QED BY <1>3, <1>7, <1>8, <1>9, <1>10 DEF IInv

\* What has been called so far went through, and so does one more call.
LEMMA OutcomeKept ==
    ASSUME IInv, UNCHANGED input, pc # "revert",
           NEW n, n = Len(calls), NEW r, Extended(calls', calls, n, r),
           pc' # "revert" => r.ok \/ Payment(n + 1),
           pc' = "revert" => ~r.ok
    PROVE  Outcome'
<1>1. n \in Nat /\ Len(calls') = n + 1 /\ calls'[n + 1] = r /\ \A i \in 1..n : calls'[i] = calls[i]
    BY DEF IInv, Calls, Extended
<1>2. \A i \in 1..n : calls[i].ok \/ Payment(i)
    BY DEF IInv, Outcome
<1>3. \A i : Payment(i)' <=> Payment(i)
    BY SameInputs
<1>4. \A i \in 1..n + 1 : i \in 1..n \/ i = n + 1
    BY <1>1
<1>5. CASE pc' # "revert"
    BY <1>1, <1>2, <1>3, <1>4, <1>5 DEF Outcome
<1>6. CASE pc' = "revert"
    BY <1>1, <1>6 DEF Outcome
<1> QED BY <1>5, <1>6

\* The pair is paid, and its swap comes next.
LEMMA V2TransferIInv == ASSUME IInv, V2Transfer PROVE IInv'
<1>1. /\ pc \in V2Singles \cup V2Multis /\ ~WrongBlock
      /\ mem' = Pays.mem /\ UNCHANGED input /\ at' = at
      /\ \E ok \in BOOLEAN : Called(Pays.to, Bytes(mem', Pays.len), ok)
    BY DEF V2Transfer
<1>2. PICK ok \in BOOLEAN : Called(Pays.to, Bytes(mem', Pays.len), ok)
    BY <1>1
<1>3. PICK k \in 1..Len(tx.swaps) :
         at = Ends[k - 1] /\ Begun(k) /\ Tells(pc, tx.swaps[k], tx.multi)
    BY <1>1, Current
<1>4. tx.multi \in BOOLEAN /\ Len(tx.swaps) \in Nat /\ tx.swaps[k] \in Swap
    BY TxFacts DEF IInv
<1>5. pc # "revert" /\ ~(Guarded /\ ~onTime)
    BY <1>1, OnTime DEF V2Singles, V2Multis
<1>6. /\ tx' = tx /\ data' = data /\ onTime' = onTime /\ Inputs' /\ (Guarded' <=> Guarded)
      /\ Ends' = Ends
    BY <1>1, SameInputs DEF IInv
<1>7. Mem(mem') /\ Len(Pays.to) = 20
    <2>1. Sane /\ Mem(mem)
        BY IsSane DEF IInv
    <2> QED BY <1>1, <2>1, PaysKeeps
<1> DEFINE r == [to |-> Pays.to, data |-> Bytes(mem', Pays.len), ok |-> ok]
           n == Len(calls)
<1>8. calls' = Append(calls, r) /\ r.ok = ok /\ r.to = Pays.to
    BY <1>2 DEF Called
<1> HIDE DEF r
<1>9. Extended(calls', calls, n, r)
    BY <1>7, <1>8, CallAdded DEF IInv
<1>10. Calls(calls', Len(calls')) /\ Len(calls') = n + 1
    BY <1>9 DEF Extended
<1>11. k \in 1..Len(tx.swaps) /\ k \in Nat /\ n = 2 * (k - 1) /\ n + 1 = 2 * k - 1
    BY <1>3, <1>4 DEF Begun
<1>12. /\ tx.swaps[k].venue = "V2" /\ tx.swaps[k].venue \in {"V2", "V3"}
       /\ tx.swaps[k].buys \in BOOLEAN
    <2>1. pc \notin V3Singles \cup V3Multis
        BY <1>1, V3SinglesAre DEF V2Singles, V2Multis, V3Multis
    <2> QED BY <1>3, <1>4, <2>1 DEF Tells, Swap
<1>13. pc' = Swapper(tx.swaps[k], tx.multi) /\ pc' # "revert"
    <2>1. pc = Routine(tx.swaps[k], tx.multi)
        BY <1>3 DEF Begun
    <2>2. /\ pc = "v2_output0" => pc' = "swap_output0"
          /\ pc = "v2_output1" => pc' = "swap_output1"
          /\ pc = "v2_input0" => pc' = "swap_input0"
          /\ pc = "v2_input1" => pc' = "swap_input1"
          /\ pc = "multi_call_v2_input" => pc' = "swap_multi_input"
          /\ pc = "multi_call_v2_output" => pc' = "swap_multi_output"
        BY DEF V2Transfer
    <2>3. CASE tx.multi
        BY <1>12, <2>1, <2>2, <2>3 DEF Routine, Swapper
    <2>4. CASE ~tx.multi
        BY <1>12, <2>1, <2>2, <2>4 DEF Routine, Swapper
    <2> QED BY <1>4, <2>3, <2>4
<1>14. Place'
    <2>1. Paid(k)'
        BY <1>6, <1>10, <1>11, <1>12, <1>13 DEF Paid
    <2>2. at' = Ends'[k - 1]
        BY <1>1, <1>3, <1>6
    <2> QED BY <1>6, <2>1, <2>2 DEF Place
<1>15. Payment(n + 1)
    <2>1. (2 * k - 1) % 2 = 1 /\ (2 * k - 1 + 1) \div 2 = k
        BY <1>11
    <2> QED BY <1>11, <1>12, <2>1 DEF Payment
<1>16. Outcome'
    BY <1>1, <1>5, <1>9, <1>13, <1>15, OutcomeKept
<1>17. Early'
    BY <1>5, <1>6 DEF Early
<1>18. (at \in 0..Len(data))'
    BY <1>1, <1>6 DEF IInv
<1> QED BY <1>6, <1>7, <1>10, <1>14, <1>16, <1>17, <1>18 DEF IInv

\* The swap whose pair has been paid.
LEMMA CurrentPaid ==
    ASSUME IInv, pc \in V2Swaps
    PROVE  \E k \in 1..Len(tx.swaps) : at = Ends[k - 1] /\ Paid(k)
<1>1. pc \notin {"check_block_number", "stop", "revert"}
    BY DEF V2Swaps
<1>2. PICK k \in 1..Len(tx.swaps) : at = Ends[k - 1] /\ (Begun(k) \/ Paid(k))
    BY <1>1 DEF IInv, Place
<1>3. tx.swaps[k] \in Swap /\ tx.multi \in BOOLEAN
    BY TxFacts DEF IInv
<1>4. ~Begun(k)
    BY <1>3, RoutineTells DEF Begun, Tells
<1> QED BY <1>2, <1>4

\* A swap on a V2 pair reverts, ends the transaction or leads to the next payload.
LEMMA V2SwapIInv == ASSUME IInv, V2Swap PROVE IInv'
<1> DEFINE args == SwapArguments
           several == pc \in {"swap_multi_input", "swap_multi_output"}
           n == Len(calls)
           N == Len(tx.swaps)
<1>1. pc \in V2Swaps /\ UNCHANGED input
    BY DEF V2Swap
<1>2. PICK ok \in BOOLEAN :
         /\ Called(Read(1, 20), Bytes(args, 164), ok)
         /\ \/ ok /\ several /\ Goto(Cleaned(args), at + PayloadLength)
            \/ /\ ~ok \/ ~several
               /\ pc' = IF ok THEN "stop" ELSE "revert"
               /\ mem' = args /\ UNCHANGED at
    BY DEF V2Swap
<1>3. PICK k \in 1..N : at = Ends[k - 1] /\ Paid(k)
    BY <1>1, CurrentPaid
<1>4. /\ tx.multi \in BOOLEAN /\ N \in Nat /\ tx.swaps[k] \in Swap
      /\ ~tx.multi => N = 1
      /\ Layout(tx, data, Ends)
    BY TxFacts DEF IInv
<1>5. pc \notin DOMAIN BlockAt /\ pc # "revert"
    BY <1>1, BlockPlaces DEF V2Swaps
<1>6. ~(Guarded /\ ~onTime)
    BY <1>5 DEF IInv, Early
<1>7. /\ tx' = tx /\ data' = data /\ onTime' = onTime /\ Inputs' /\ (Guarded' <=> Guarded)
    BY <1>1, SameInputs DEF IInv
<1>8. Mem(args) /\ Mem(Cleaned(args))
    <2>1. Sane /\ Mem(mem)
        BY IsSane DEF IInv
    <2>2. Mem(SwapArguments)
        BY <1>1, <2>1, SwapArgumentsKeep
    <2> QED BY <2>2, CleanedKeeps
<1> HIDE DEF args
<1>9. Len(Read(1, 20)) = 20
    <2>1. Row(Read(1, 20), 20)
        BY ReadRow
    <2> DEFINE q == Read(1, 20)
    <2>2. Row(q, 20)
        BY <2>1
    <2> HIDE DEF q
    <2>3. Len(q) = 20
        BY <2>2, RowLen
    <2> QED BY <2>3 DEF q
<1> DEFINE r == [to |-> Read(1, 20), data |-> Bytes(args, 164), ok |-> ok]
<1>10. calls' = Append(calls, r) /\ r.ok = ok /\ r.to = Read(1, 20)
    BY <1>2 DEF Called
<1> HIDE DEF r
<1>11. Extended(calls', calls, n, r)
    BY <1>9, <1>10, CallAdded DEF IInv
<1>12. /\ k \in Nat /\ n = 2 * k - 1 /\ Len(calls') = 2 * k
    <2>1. k \in Nat /\ n = 2 * k - 1 /\ Len(calls') = n + 1
        BY <1>3, <1>4, <1>11 DEF Paid, Extended
    <2> QED BY <2>1
<1>13. Calls(calls', Len(calls'))
    BY <1>11 DEF Extended
<1>14. Early'
    BY <1>6, <1>7 DEF Early
<1>15. /\ several => PayloadLength = Size(tx.swaps[k], tx.multi)
       /\ ~several => ~tx.multi
    <2>1. pc = Swapper(tx.swaps[k], tx.multi) /\ tx.swaps[k].venue = "V2"
        BY <1>3 DEF Paid
    <2>2. tx.swaps[k].buys \in BOOLEAN
        BY <1>4 DEF Swap
    <2>3. /\ pc = "swap_multi_input" => tx.multi /\ tx.swaps[k].buys /\ PayloadLength = 31
          /\ pc = "swap_multi_output" => tx.multi /\ ~tx.swaps[k].buys /\ PayloadLength = 51
          /\ ~several => ~tx.multi
        <3>1. /\ pc = "swap_multi_input" => PayloadLength = 31
              /\ pc = "swap_multi_output" => PayloadLength = 51
            BY DEF PayloadLength
        <3> QED BY <1>4, <2>1, <2>2, <3>1 DEF Swapper
    <2> QED BY <2>1, <2>2, <2>3 DEF Size
<1>16. CASE ok /\ several /\ Goto(Cleaned(args), at + PayloadLength)
    <2>1. at + PayloadLength = Ends[k] /\ k \in 0..N
        <3>1. Ends[k] = Ends[k - 1] + Size(tx.swaps[k], tx.multi)
            BY <1>4 DEF Layout
        <3> QED BY <1>3, <1>4, <1>15, <1>16, <3>1
    <2>2. Goto(Cleaned(args), Ends[k])
        BY <1>16, <2>1
    <2> DEFINE m == Cleaned(args)
    <2>3. Mem(m) /\ Goto(m, Ends[k])
        BY <1>8, <2>2
    <2> HIDE DEF m
    <2>4. Place' /\ (at \in 0..Len(data))' /\ Mem(mem') /\ pc' # "revert"
        BY <1>1, <1>12, <2>1, <2>3, GotoNext
    <2>5. Outcome'
        BY <1>1, <1>5, <1>10, <1>11, <1>16, <2>4, OutcomeKept
    <2> QED BY <1>7, <1>13, <1>14, <2>4, <2>5 DEF IInv
<1>17. CASE /\ ~ok \/ ~several
            /\ pc' = IF ok THEN "stop" ELSE "revert"
            /\ mem' = args /\ UNCHANGED at
    <2>1. Mem(mem') /\ (at \in 0..Len(data))'
        BY <1>7, <1>8, <1>17 DEF IInv
    <2>2. Outcome'
        BY <1>1, <1>5, <1>10, <1>11, <1>17, OutcomeKept
    <2>3. Place'
        <3>1. ok => ~tx.multi /\ N = 1 /\ k = 1
            BY <1>4, <1>15, <1>17
        <3>2. ok => pc' = "stop" /\ Len(calls') = 2 * Len(tx'.swaps)
            BY <1>7, <1>12, <1>17, <3>1
        <3>3. ~ok => pc' = "revert"
            BY <1>17
        <3> QED BY <3>2, <3>3 DEF Place
    <2> QED BY <1>7, <1>13, <1>14, <2>1, <2>2, <2>3 DEF IInv
<1> QED BY <1>2, <1>16, <1>17

\* The callback pays to an address, or refuses.
LEMMA CallbackTo ==
    ASSUME NEW j, NEW bytes
    PROVE  Len(Callback(j, bytes).to) = 20 /\ Callback(j, bytes).valid \in BOOLEAN
<1> DEFINE given == SubSeq(bytes, 197, 249)
           to == SubSeq(given, 2, 21)
<1>1. Callback(j, bytes).to = to /\ Callback(j, bytes).valid \in BOOLEAN
    BY DEF Callback
<1>2. Row(to, 20)
    <2>1. 2 <= 21 + 1 /\ 20 = 21 - 2 + 1 /\ 2 \in Nat /\ 21 \in Nat
        OBVIOUS
    <2> HIDE DEF given
    <2> QED BY <2>1, RowPart
<1> HIDE DEF to
<1> QED BY <1>1, <1>2, RowLen

\* A swap on a V3 pool makes its two calls, or one that reverts the transaction.
LEMMA V3SwapIInv == ASSUME IInv, V3Swap PROVE IInv'
<1> DEFINE args == V3Arguments
           bytes == Bytes(args, 249)
           n == Len(calls)
           N == Len(tx.swaps)
           Swaps(j, ok) ==
               /\ Read(1, 20) = Pool(j)
               /\ LET back == Callback(j, bytes)
                      through == ok /\ back.valid
                  IN  /\ calls' = calls \o
                             <<[to |-> Pool(j), data |-> bytes, ok |-> through]>> \o
                             (IF through THEN <<[to |-> back.to, data |-> back.data, ok |-> TRUE]>>
                              ELSE <<>>)
                      /\ \/ through /\ pc \in V3Multis
                            /\ Goto(Cleaned(args), at + PayloadLength)
                         \/ /\ ~through \/ pc \in V3Singles
                            /\ pc' = IF through THEN "stop" ELSE "revert"
                            /\ mem' = args /\ UNCHANGED at
<1>1. pc \in V3Singles \cup V3Multis /\ ~WrongBlock /\ UNCHANGED input
    BY DEF V3Swap
<1>2. PICK j \in 1..N, ok \in BOOLEAN : Swaps(j, ok)
    BY DEF V3Swap
<1> DEFINE back == Callback(j, bytes)
           through == ok /\ back.valid
           first == [to |-> Pool(j), data |-> bytes, ok |-> through]
           second == [to |-> back.to, data |-> back.data, ok |-> TRUE]
<1>3. /\ first.ok = through /\ Len(first.to) = 20 /\ through \in BOOLEAN
      /\ second.ok = TRUE /\ second.ok \in BOOLEAN /\ Len(second.to) = 20
    <2>1. Row(Pool(j), 20)
        BY RowField DEF Pool
    <2> DEFINE p == Pool(j)
    <2>2. Row(p, 20)
        BY <2>1
    <2> HIDE DEF p
    <2>3. Len(p) = 20
        BY <2>2, RowLen
    <2>4. first.to = p
        BY DEF p
    <2> QED BY <2>3, <2>4, CallbackTo
<1>4. PICK k \in 1..N : at = Ends[k - 1] /\ Begun(k) /\ Tells(pc, tx.swaps[k], tx.multi)
    BY <1>1, Current
<1>5. /\ tx.multi \in BOOLEAN /\ N \in Nat /\ tx.swaps[k] \in Swap
      /\ ~tx.multi => N = 1
      /\ Layout(tx, data, Ends)
    BY TxFacts DEF IInv
<1>6. pc # "revert" /\ ~(Guarded /\ ~onTime)
    BY <1>1, <1>4, OnTime DEF Tells
<1>7. /\ tx' = tx /\ data' = data /\ onTime' = onTime /\ Inputs' /\ (Guarded' <=> Guarded)
      /\ \A i : Payment(i)' <=> Payment(i)
    BY <1>1, SameInputs DEF IInv
<1>8. Mem(args) /\ Mem(Cleaned(args))
    <2>1. Sane /\ Mem(mem)
        BY IsSane DEF IInv
    <2>2. Mem(V3Arguments)
        BY <2>1, V3ArgumentsKeep
    <2> QED BY <2>2, CleanedKeeps
<1>9. /\ calls' = calls \o <<first>> \o (IF through THEN <<second>> ELSE <<>>)
      /\ \/ through /\ pc \in V3Multis /\ Goto(Cleaned(args), at + PayloadLength)
         \/ /\ ~through \/ pc \in V3Singles
            /\ pc' = IF through THEN "stop" ELSE "revert"
            /\ mem' = args /\ UNCHANGED at
    BY <1>2
<1> HIDE DEF args, first, second, through
<1> DEFINE c == Append(calls, first)
<1>10. Extended(c, calls, n, first)
    BY <1>3, CallAdded DEF IInv
<1>11. c = calls \o <<first>> /\ Calls(c, n + 1)
    BY <1>10, CallsJoined DEF IInv, Extended
<1>12. n = 2 * (k - 1) /\ n + 1 + 1 = 2 * k /\ n \in Nat /\ k \in Nat
    BY <1>4, <1>5 DEF Begun
<1>13. Early'
    BY <1>6, <1>7 DEF Early
<1>14. CASE ~through
    <2>1. calls' = c
        BY <1>9, <1>11, <1>14, CallsJoined
    <2>2. pc' = "revert" /\ mem' = args /\ at' = at
        BY <1>9, <1>14
    <2>3. Extended(calls', calls, n, first)
        BY <1>10, <2>1
    <2>4. Outcome'
        BY <1>1, <1>3, <1>6, <1>14, <2>2, <2>3, OutcomeKept
    <2>5. Place'
        BY <2>2 DEF Place
    <2>6. Calls(calls', Len(calls')) /\ Mem(mem') /\ (at \in 0..Len(data))'
        BY <1>7, <1>8, <2>2, <2>3 DEF IInv, Extended
    <2> QED BY <1>7, <1>13, <2>4, <2>5, <2>6 DEF IInv
<1>15. CASE through
    <2>1. calls' = Append(c, second)
        BY <1>9, <1>11, <1>15, CallsJoined
    <2>2. Extended(calls', c, n + 1, second)
        BY <1>3, <1>11, <2>1, CallAdded
    <2>3. Calls(calls', Len(calls')) /\ Len(calls') = 2 * k
        BY <1>12, <2>2 DEF Extended
    <2>4. \A i \in 1..Len(calls') : calls'[i].ok \/ Payment(i)
        <3> SUFFICES ASSUME NEW i \in 1..Len(calls') PROVE calls'[i].ok \/ Payment(i)
            OBVIOUS
        <3>1. i \in 1..n \/ i = n + 1 \/ i = n + 1 + 1
            BY <1>12, <2>3
        <3>2. CASE i \in 1..n
            <4>1. i \in 1..n + 1
                BY <1>12, <3>2
            <4>2. calls'[i] = c[i] /\ c[i] = calls[i]
                BY <1>10, <2>2, <3>2, <4>1 DEF Extended
            <4> QED BY <1>6, <3>2, <4>2 DEF IInv, Outcome
        <3>3. CASE i = n + 1
            <4>1. n + 1 \in 1..n + 1
                BY <1>12
            <4>2. calls'[i] = first
                BY <1>10, <2>2, <3>3, <4>1 DEF Extended
            <4> QED BY <1>3, <1>15, <4>2
        <3>4. CASE i = n + 1 + 1
            BY <1>3, <2>2, <3>4 DEF Extended
        <3> QED BY <3>1, <3>2, <3>3, <3>4
    <2>5. pc' # "revert" => Outcome'
        BY <1>7, <2>4 DEF Outcome
    <2>6. CASE pc \in V3Multis /\ Goto(Cleaned(args), at + PayloadLength)
        <3>1. tx.multi /\ PayloadLength = Size(tx.swaps[k], tx.multi)
            <4>1. pc \notin V3Singles
                BY <2>6, V3SinglesAre DEF V3Multis
            <4>2. pc \notin V2Singles \cup V2Multis
                BY <2>6 DEF V3Multis, V2Singles, V2Multis
            <4>3. tx.multi
                BY <1>4, <1>5, <2>6, <4>1 DEF Tells, Multis
            <4>4. tx.swaps[k].venue = "V3" /\ tx.swaps[k].buys \in BOOLEAN
                BY <1>4, <1>5, <4>2 DEF Tells, Swap
            <4>5. /\ pc \in {"multi_call_v3_input0", "multi_call_v3_input1"} =>
                        tx.swaps[k].buys /\ PayloadLength = 58
                  /\ pc \in {"multi_call_v3_output0", "multi_call_v3_output1"} =>
                        ~tx.swaps[k].buys /\ PayloadLength = 78
                <5>1. /\ pc \in {"multi_call_v3_input0", "multi_call_v3_input1"} =>
                            PayloadLength = 58
                      /\ pc \in {"multi_call_v3_output0", "multi_call_v3_output1"} =>
                            PayloadLength = 78
                    BY DEF PayloadLength
                <5> QED BY <1>4, <5>1 DEF Tells
            <4> QED BY <2>6, <4>3, <4>4, <4>5 DEF Size, V3Multis
        <3>2. at + PayloadLength = Ends[k] /\ k \in 0..N
            <4>1. Ends[k] = Ends[k - 1] + Size(tx.swaps[k], tx.multi)
                BY <1>5 DEF Layout
            <4> QED BY <1>4, <1>5, <3>1, <4>1
        <3> DEFINE m == Cleaned(args)
        <3>3. Mem(m) /\ Goto(m, Ends[k])
            BY <1>8, <2>6, <3>2
        <3> HIDE DEF m
        <3>4. Place' /\ (at \in 0..Len(data))' /\ Mem(mem') /\ pc' # "revert"
            BY <1>1, <2>3, <3>2, <3>3, GotoNext
        <3> QED BY <1>7, <1>13, <2>3, <2>5, <3>4 DEF IInv
    <2>7. CASE pc \in V3Singles /\ pc' = "stop" /\ mem' = args /\ at' = at
        <3>1. N = 1 /\ k = 1
            BY <1>4, <1>5, <2>7 DEF Tells
        <3>2. Len(calls') = 2 * Len(tx'.swaps)
            BY <1>7, <2>3, <3>1
        <3>3. Place'
            BY <2>7, <3>2 DEF Place
        <3>4. Mem(mem') /\ (at \in 0..Len(data))' /\ pc' # "revert"
            BY <1>7, <1>8, <2>7 DEF IInv
        <3> QED BY <1>7, <1>13, <2>3, <2>5, <3>3, <3>4 DEF IInv
    <2> QED BY <1>9, <1>15, <2>6, <2>7
<1> QED BY <1>14, <1>15

\* All steps together.
LEMMA NextIInv == ASSUME IInv, [Next]_vars PROVE IInv'
<1>1. CASE Ended \/ UNCHANGED vars
    <2>1. UNCHANGED vars
        BY <1>1 DEF Ended
    <2>2. /\ UNCHANGED input
          /\ pc' = pc /\ at' = at /\ mem' = mem /\ calls' = calls
        BY <2>1 DEF vars, input
    <2>3. /\ tx' = tx /\ data' = data /\ onTime' = onTime /\ Ends' = Ends /\ Inputs'
          /\ (Guarded' <=> Guarded) /\ \A i : Payment(i)' <=> Payment(i)
        BY <2>2, SameInputs DEF IInv
    <2>4. Place'
        BY <2>2, <2>3 DEF IInv, Place, Begun, Paid
    <2>5. Outcome' /\ Early'
        BY <2>2, <2>3 DEF IInv, Outcome, Early
    <2> QED BY <2>2, <2>3, <2>4, <2>5 DEF IInv
<1> QED BY <1>1, GetOutIInv, CheckBlockIInv, V2TransferIInv, V2SwapIInv, V3SwapIInv DEF Next
--------------------------------------------------------------------------------
\* What follows.

\* A transaction is meant to make two calls for each swap, which follow each other.
LEMMA MeantCalls ==
    ASSUME Inputs
    PROVE  /\ Len(Meant) = 2 * Len(tx.swaps)
           /\ \A k \in 1..Len(tx.swaps) :
                 /\ Meant[2 * k - 1] = MeantBy(tx.swaps[k], k)[1]
                 /\ Meant[2 * k] = MeantBy(tx.swaps[k], k)[2]
<1> DEFINE N == Len(tx.swaps)
           ps == [k \in 1..N |-> MeantBy(tx.swaps[k], k)]
           E == {MeantBy(tx.swaps[k], k)[i] : k \in 1..N, i \in 1..2}
<1>1. N \in Nat
    BY TxFacts
<1>2. ASSUME NEW k \in 1..N
      PROVE  ps[k] \in Seq(E) /\ Len(ps[k]) = 2 /\ ps[k] = MeantBy(tx.swaps[k], k)
    <2> DEFINE w == MeantBy(tx.swaps[k], k)
    <2>1. \E a, b : w = <<a, b>>
        BY ZenonT(30) DEF MeantBy
    <2>2. ps[k] = w /\ \A i \in 1..2 : w[i] \in E
        OBVIOUS
    <2> HIDE DEF w, E
    <2>3. PICK a, b : w = <<a, b>>
        BY <2>1
    <2>4. w \in [1..2 -> E]
        BY <2>2, <2>3
    <2> QED BY <2>2, <2>4, FunctionIsSeq DEF w
<1>3. Len(ps) = N
    BY <1>1
<1>4. Meant = Concat(ps)
    BY DEF Meant
<1> HIDE DEF ps, E
<1>5. SeqsOf(ps, N, E)
    BY <1>2, <1>3 DEF SeqsOf
<1>6. PICK st : Laid(ps, N, Concat(ps), st) /\ st[0] = 0
    BY <1>1, <1>5, ConcatLayout DEF LaidFrom
<1>7. /\ st[N] = Len(Concat(ps)) /\ st[0] = 0
      /\ \A k \in 1..N : st[k] = st[k - 1] + 2
    BY <1>2, <1>6 DEF Laid
<1> DEFINE T == {k \in Nat : k <= N => st[k] = 2 * k}
<1>8. 0 \in T
    BY <1>7
<1>9. ASSUME NEW k \in T PROVE k + 1 \in T
    <2>1. ASSUME k + 1 <= N PROVE st[k + 1] = 2 * (k + 1)
        <3>1. k + 1 \in 1..N /\ k + 1 - 1 = k /\ k \in Nat /\ k <= N
            BY <1>1, <2>1
        <3> QED BY <1>7, <3>1
    <2> QED BY <2>1
<1>10. T = Nat
    <2>1. T \in SUBSET Nat
        OBVIOUS
    <2> HIDE DEF T
    <2> QED BY <1>8, <1>9, <2>1, Induction
<1>11. ASSUME NEW k \in 1..N
       PROVE  /\ Meant[2 * k - 1] = MeantBy(tx.swaps[k], k)[1]
              /\ Meant[2 * k] = MeantBy(tx.swaps[k], k)[2]
    <2>1. st[k - 1] = 2 * (k - 1)
        BY <1>1, <1>10
    <2>2. \A i \in 1..2 : Meant[st[k - 1] + i] = ps[k][i]
        BY <1>2, <1>4, <1>6 DEF Laid
    <2>3. Meant[2 * (k - 1) + 1] = ps[k][1] /\ Meant[2 * (k - 1) + 2] = ps[k][2]
        BY <2>1, <2>2
    <2>4. 2 * (k - 1) + 1 = 2 * k - 1 /\ 2 * (k - 1) + 2 = 2 * k
        OBVIOUS
    <2> QED BY <1>2, <2>3, <2>4
<1>12. st[N] = 2 * N
    BY <1>1, <1>10
<1> QED BY <1>4, <1>7, <1>11, <1>12

\* The machine keeps to the invariant.
THEOREM Invariance == Spec => []IInv
<1> QED BY InitIInv, NextIInv, PTL DEF Spec

\* Every byte that is jumped to is a routine's, the place stays in the calldata, memory keeps
\* its length, and every call is to an address of 20 bytes.
THEOREM TypeCorrect == Spec => []TypeOK
<1>1. IInv => TypeOK
    <2> SUFFICES ASSUME IInv PROVE TypeOK
        OBVIOUS
    <2>1. /\ tx \in Transactions /\ onTime \in BOOLEAN /\ at \in 0..Len(data) /\ Len(mem) = 249
        BY DEF IInv, Inputs, Mem
    <2>2. \A i \in DOMAIN calls : calls[i].ok \in BOOLEAN /\ Len(calls[i].to) = 20
        <3>1. PICK S : calls \in Seq(S)
            BY DEF IInv, Calls, Row
        <3>2. DOMAIN calls = 1..Len(calls)
            BY <3>1
        <3> QED BY <3>2 DEF IInv, Calls
    <2>3. pc \in {"stop", "revert", "check_block_number"} \cup
                 V2Singles \cup V2Multis \cup V2Swaps \cup V3Singles \cup V3Multis
        <3>1. ASSUME NEW k \in 1..Len(tx.swaps), Begun(k) \/ Paid(k)
              PROVE  pc \in V2Singles \cup V2Multis \cup V2Swaps \cup V3Singles \cup V3Multis
            <4>1. tx.swaps[k] \in Swap /\ tx.multi \in BOOLEAN
                BY TxFacts DEF IInv
            <4>2. tx.swaps[k].venue \in {"V2", "V3"} /\ tx.swaps[k].buys \in BOOLEAN
                BY <4>1 DEF Swap
            <4>3. Begun(k) => Tells(pc, tx.swaps[k], tx.multi)
                BY <4>1, RoutineTells DEF Begun
            <4>4. Paid(k) => pc \in V2Swaps
                BY <4>1, <4>2 DEF Paid, Swapper, V2Swaps
            <4> QED BY <3>1, <4>2, <4>3, <4>4 DEF Tells
        <3> QED BY <3>1 DEF IInv, Place
    <2> QED BY <2>1, <2>2, <2>3 DEF TypeOK
<1> QED BY <1>1, Invariance, PTL

\* A transaction reverts for a swap that fails or in a block it is not meant for, and in such
\* a block it calls nobody: every routine that checks the block number finds it where the
\* bot has put it.
THEOREM RevertReasons == Spec => []RevertsFor
<1>1. IInv => RevertsFor
    <2> SUFFICES ASSUME IInv PROVE RevertsFor
        OBVIOUS
    <2>1. pc = "revert" => \/ Len(calls) >= 1 /\ ~calls[Len(calls)].ok
                           \/ Guarded /\ ~onTime
        BY DEF IInv, Outcome
    <2>2. Len(calls) >= 1 => calls # <<>>
        OBVIOUS
    <2>3. calls # <<>> /\ Guarded => onTime
        BY DEF IInv, Early
    <2> QED BY <2>1, <2>2, <2>3 DEF RevertsFor
<1> QED BY <1>1, Invariance, PTL

\* A transaction that succeeds has made all its swaps, however many it strings together: each
\* payload ends where the contract looks for the next one, and no swap's failure is dropped.
THEOREM AllSwapsOrNone == Spec => []AllOrNothing
<1>1. IInv => AllOrNothing
    <2> SUFFICES ASSUME IInv, pc = "stop"
                 PROVE  /\ Len(calls) = Len(Meant)
                        /\ \A i \in DOMAIN calls : calls[i].ok \/ Payment(i)
        BY DEF AllOrNothing
    <2>1. ASSUME NEW k \in 1..Len(tx.swaps) PROVE ~Begun(k) /\ ~Paid(k)
        <3>1. tx.swaps[k] \in Swap /\ tx.multi \in BOOLEAN
            BY TxFacts DEF IInv
        <3>2. tx.swaps[k].buys \in BOOLEAN
            BY <3>1 DEF Swap
        <3>3. ~Begun(k)
            BY <3>1, RoutineTells DEF Begun, Tells
        <3>4. ~Paid(k)
            BY <3>1, <3>2 DEF Paid, Swapper
        <3> QED BY <3>3, <3>4
    <2>2. Len(calls) = 2 * Len(tx.swaps)
        BY <2>1 DEF IInv, Place
    <2>3. Len(Meant) = 2 * Len(tx.swaps)
        BY MeantCalls DEF IInv
    <2>4. PICK S : calls \in Seq(S)
        BY DEF IInv, Calls, Row
    <2>5. DOMAIN calls = 1..Len(calls)
        BY <2>4
    <2>6. \A i \in 1..Len(calls) : calls[i].ok \/ Payment(i)
        BY DEF IInv, Outcome
    <2> QED BY <2>2, <2>3, <2>5, <2>6
<1> QED BY <1>1, Invariance, PTL
--------------------------------------------------------------------------------
\* What the routines find in the calldata, and what they leave in memory.

\* A list of writes, unrolled.
LEMMA TwoPuts ==
    ASSUME NEW m, Mem(m), NEW a, NEW b, NEW v, NEW w, Fits(<<<<a, v>>, <<b, w>>>>)
    PROVE  \E x : Put(x, m, a, v) /\ Put(StoreAll(m, <<<<a, v>>, <<b, w>>>>), x, b, w)
<1> DEFINE ws == <<<<a, v>>, <<b, w>>>>
<1>1. PICK f : Puts(f, m, ws, StoreAll(m, ws))
    BY StoreAllPuts
<1>2. Len(ws) = 2 /\ ws[1][1] = a /\ ws[1][2] = v /\ ws[2][1] = b /\ ws[2][2] = w
    OBVIOUS
<1> HIDE DEF ws
<1>3. /\ Put(f[1], f[1 - 1], ws[1][1], ws[1][2]) /\ Put(f[2], f[2 - 1], ws[2][1], ws[2][2])
      /\ f[0] = m /\ f[2] = StoreAll(m, ws)
    <2>1. 1 \in 1..2 /\ 2 \in 1..2
        OBVIOUS
    <2> QED BY <1>1, <1>2, <2>1 DEF Puts
<1>4. Put(f[1], m, a, v) /\ Put(StoreAll(m, ws), f[1], b, w)
    BY <1>2, <1>3
<1> QED BY <1>4 DEF ws

LEMMA ThreePuts ==
    ASSUME NEW m, Mem(m), NEW a, NEW b, NEW c, NEW v, NEW w, NEW x,
           Fits(<<<<a, v>>, <<b, w>>, <<c, x>>>>)
    PROVE  \E g, h : /\ Put(g, m, a, v) /\ Put(h, g, b, w)
                     /\ Put(StoreAll(m, <<<<a, v>>, <<b, w>>, <<c, x>>>>), h, c, x)
<1> DEFINE ws == <<<<a, v>>, <<b, w>>, <<c, x>>>>
<1>1. PICK f : Puts(f, m, ws, StoreAll(m, ws))
    BY StoreAllPuts
<1>2. /\ Len(ws) = 3 /\ ws[1][1] = a /\ ws[1][2] = v /\ ws[2][1] = b /\ ws[2][2] = w
      /\ ws[3][1] = c /\ ws[3][2] = x
    OBVIOUS
<1> HIDE DEF ws
<1>3. /\ Put(f[1], f[1 - 1], ws[1][1], ws[1][2]) /\ Put(f[2], f[2 - 1], ws[2][1], ws[2][2])
      /\ Put(f[3], f[3 - 1], ws[3][1], ws[3][2]) /\ f[0] = m /\ f[3] = StoreAll(m, ws)
    <2>1. 1 \in 1..3 /\ 2 \in 1..3 /\ 3 \in 1..3
        OBVIOUS
    <2> QED BY <1>1, <1>2, <2>1 DEF Puts
<1>4. Put(f[1], m, a, v) /\ Put(f[2], f[1], b, w) /\ Put(StoreAll(m, ws), f[2], c, x)
    BY <1>2, <1>3
<1> QED BY <1>4 DEF ws

LEMMA FourPuts ==
    ASSUME NEW m, Mem(m), NEW a, NEW b, NEW c, NEW d, NEW v, NEW w, NEW x, NEW y,
           Fits(<<<<a, v>>, <<b, w>>, <<c, x>>, <<d, y>>>>)
    PROVE  \E g, h, j : /\ Put(g, m, a, v) /\ Put(h, g, b, w) /\ Put(j, h, c, x)
                        /\ Put(StoreAll(m, <<<<a, v>>, <<b, w>>, <<c, x>>, <<d, y>>>>), j, d, y)
<1> DEFINE ws == <<<<a, v>>, <<b, w>>, <<c, x>>, <<d, y>>>>
<1>1. PICK f : Puts(f, m, ws, StoreAll(m, ws))
    BY StoreAllPuts
<1>2. /\ Len(ws) = 4 /\ ws[1][1] = a /\ ws[1][2] = v /\ ws[2][1] = b /\ ws[2][2] = w
      /\ ws[3][1] = c /\ ws[3][2] = x /\ ws[4][1] = d /\ ws[4][2] = y
    OBVIOUS
<1> HIDE DEF ws
<1>3. /\ Put(f[1], f[1 - 1], ws[1][1], ws[1][2]) /\ Put(f[2], f[2 - 1], ws[2][1], ws[2][2])
      /\ Put(f[3], f[3 - 1], ws[3][1], ws[3][2]) /\ Put(f[4], f[4 - 1], ws[4][1], ws[4][2])
      /\ f[0] = m /\ f[4] = StoreAll(m, ws)
    <2>1. 1 \in 1..4 /\ 2 \in 1..4 /\ 3 \in 1..4 /\ 4 \in 1..4
        OBVIOUS
    <2> QED BY <1>1, <1>2, <2>1 DEF Puts
<1>4. /\ Put(f[1], m, a, v) /\ Put(f[2], f[1], b, w) /\ Put(f[3], f[2], c, x)
      /\ Put(StoreAll(m, ws), f[3], d, y)
    BY <1>2, <1>3
<1> QED BY <1>4 DEF ws

LEMMA FivePuts ==
    ASSUME NEW m, Mem(m), NEW a, NEW b, NEW c, NEW d, NEW e,
           NEW v, NEW w, NEW x, NEW y, NEW z,
           Fits(<<<<a, v>>, <<b, w>>, <<c, x>>, <<d, y>>, <<e, z>>>>)
    PROVE  \E g, h, j, l :
              /\ Put(g, m, a, v) /\ Put(h, g, b, w) /\ Put(j, h, c, x) /\ Put(l, j, d, y)
              /\ Put(StoreAll(m, <<<<a, v>>, <<b, w>>, <<c, x>>, <<d, y>>, <<e, z>>>>), l, e, z)
<1> DEFINE ws == <<<<a, v>>, <<b, w>>, <<c, x>>, <<d, y>>, <<e, z>>>>
<1>1. PICK f : Puts(f, m, ws, StoreAll(m, ws))
    BY StoreAllPuts
<1>2. /\ Len(ws) = 5 /\ ws[1][1] = a /\ ws[1][2] = v /\ ws[2][1] = b /\ ws[2][2] = w
      /\ ws[3][1] = c /\ ws[3][2] = x /\ ws[4][1] = d /\ ws[4][2] = y
      /\ ws[5][1] = e /\ ws[5][2] = z
    OBVIOUS
<1> HIDE DEF ws
<1>3. /\ Put(f[1], f[1 - 1], ws[1][1], ws[1][2]) /\ Put(f[2], f[2 - 1], ws[2][1], ws[2][2])
      /\ Put(f[3], f[3 - 1], ws[3][1], ws[3][2]) /\ Put(f[4], f[4 - 1], ws[4][1], ws[4][2])
      /\ Put(f[5], f[5 - 1], ws[5][1], ws[5][2])
      /\ f[0] = m /\ f[5] = StoreAll(m, ws)
    <2>1. 1 \in 1..5 /\ 2 \in 1..5 /\ 3 \in 1..5 /\ 4 \in 1..5 /\ 5 \in 1..5
        OBVIOUS
    <2> QED BY <1>1, <1>2, <2>1 DEF Puts
<1>4. /\ Put(f[1], m, a, v) /\ Put(f[2], f[1], b, w) /\ Put(f[3], f[2], c, x)
      /\ Put(f[4], f[3], d, y) /\ Put(StoreAll(m, ws), f[4], e, z)
    BY <1>2, <1>3
<1> QED BY <1>4 DEF ws

\* The payload q of n bytes is where the contract works.
Here(q, n) ==
    /\ data \in Seq(Byte) /\ at \in Nat /\ n \in Nat /\ at + n <= Len(data)
    /\ Holds(data, at, q, n)

\* l bytes of it, from a on, are f.
Told(q, n, a, f, l) ==
    /\ a \in 0..100 /\ l \in 1..32 /\ a + l <= n
    /\ Holds(q, a, f, l) /\ f = [i \in 1..l |-> f[i]]

\* They are what a read gives.
LEMMA ReadIs ==
    ASSUME NEW q, NEW n, Here(q, n), NEW a, NEW f, NEW l, Told(q, n, a, f, l)
    PROVE  Read(a, l) = f
<1> DEFINE r == Read(a, l)
<1>1. a \in Nat /\ l \in Nat /\ l <= 32 /\ a + l <= n /\ n \in Nat /\ at \in Nat
    <2>1. a \in 0..100 /\ l \in 1..32 /\ a + l <= n /\ n \in Nat /\ at \in Nat
        BY Zenon DEF Told, Here
    <2> QED BY <2>1
<1>2. PICK N \in Nat : N = Len(data) /\ data \in Seq(Byte) /\ at + n <= N
    BY LenProperties DEF Here
<1>3. PICK p \in Nat : p = at + a /\ p + l <= N
    BY <1>1, <1>2
<1>4. Loaded(p, N)
    <2>1. p <= N + 100
        BY <1>1, <1>3
    <2> QED BY <1>2, <2>1, LoadByte
<1>5. Row(r, l) /\ PartOf(r, Load(p), 1, l)
    <2>1. 1 <= l + 1 /\ l = l - 1 + 1 /\ 1 \in Nat
        BY <1>1
    <2>2. r = SubSeq(Load(p), 1, l)
        BY <1>3 DEF Read
    <2> QED BY <1>1, <2>1, <2>2, RowPart
<1> HIDE DEF r
<1>6. ASSUME NEW i \in 1..l PROVE r[i] = f[i]
    <2>1. i \in 1..32 /\ p + i <= N /\ 1 + i - 1 = i /\ a + i \in 1..n /\ at + (a + i) = p + i
        BY <1>1, <1>3
    <2>2. r[i] = Load(p)[i] /\ Load(p)[i] = data[p + i]
        BY <1>4, <1>5, <2>1 DEF PartOf, Loaded
    <2>3. data[at + (a + i)] = q[a + i] /\ q[a + i] = f[i]
        <3>1. Holds(data, at, q, n) /\ Holds(q, a, f, l)
            BY Zenon DEF Told, Here
        <3> QED BY <2>1, <3>1 DEF Holds
    <2> QED BY <2>1, <2>2, <2>3
<1>7. r = [i \in 1..l |-> r[i]]
    <2>1. PICK S : r \in Seq(S) /\ Len(r) = l
        BY <1>5 DEF Row
    <2> QED BY <2>1
<1>8. r = f
    <2>1. f = [i \in 1..l |-> f[i]]
        BY Zenon DEF Told
    <2> QED BY <1>6, <1>7, <2>1
<1> QED BY <1>8 DEF r

\* Four bytes of an amount behind the place where it is stored: x less the shift.
LEMMA FourBytesAre ==
    ASSUME NEW what \in Fields, NEW k \in Nat, NEW shift \in Shift,
           NEW y \in BOOLEAN, NEW z \in BOOLEAN, NEW x, x = IF y /\ ~z THEN 32 ELSE 64
    PROVE  /\ FourBytes(what, k, shift, y, z)[1] = Num(x - shift)
           /\ \A i \in 1..4 : FourBytes(what, k, shift, y, z)[1 + i] = <<what, k, i>>
<1> DEFINE place == <<Num(x - shift)>>
           amount == Field(what, k, 4)
           f == FourBytes(what, k, shift, y, z)
<1>1. f = place \o amount
    BY DEF FourBytes
<1>2. place[1] = Num(x - shift) /\ \A i \in 1..4 : amount[i] = <<what, k, i>>
    BY DEF Field
<1>3. Row(place, 1) /\ Row(amount, 4)
    BY RowOne, RowField
<1> HIDE DEF place, amount, f
<1>4. Joins(f, place, amount) /\ Len(place) = 1 /\ Len(amount) = 4
    BY <1>1, <1>3, RowPair DEF Row
<1>5. f[1] = place[1] /\ \A i \in 1..4 : f[1 + i] = amount[i]
    BY <1>4 DEF Joins
<1> QED BY <1>2, <1>5 DEF f

\* The four bytes of an amount and its place are loaded from a on.
AmountAt(a, what, k, shift, x) ==
    /\ Load(at + a)[1] = Num(x - shift)
    /\ \A i \in 1..4 : Load(at + a)[1 + i] = <<what, k, i>>

\* The calldata ends behind them.
LastAt(a) == \A i \in 6..32 : Load(at + a)[i] = Num(0)

\* Behind place a of the payload are four bytes of an amount, to be stored by x.
Offers(q, n, a, what, k, shift, y, z, x) ==
    /\ a \in 0..100 /\ a + 5 <= n /\ what \in Fields /\ k \in Nat /\ shift \in Shift
    /\ y \in BOOLEAN /\ z \in BOOLEAN /\ x = IF y /\ ~z THEN 32 ELSE 64
    /\ Holds(q, a, FourBytes(what, k, shift, y, z), 5)

\* They are where the routine loads an amount from.
LEMMA AmountIs ==
    ASSUME NEW q, NEW n, Here(q, n), NEW a, NEW what, NEW k, NEW shift, NEW y, NEW z, NEW x,
           Offers(q, n, a, what, k, shift, y, z, x)
    PROVE  /\ AmountAt(a, what, k, shift, x)
           /\ at + n = Len(data) /\ n = a + 5 => LastAt(a)
<1> DEFINE f == FourBytes(what, k, shift, y, z)
<1>1. f[1] = Num(x - shift) /\ \A i \in 1..4 : f[1 + i] = <<what, k, i>>
    <2>1. /\ what \in Fields /\ k \in Nat /\ shift \in Shift
          /\ y \in BOOLEAN /\ z \in BOOLEAN /\ x = IF y /\ ~z THEN 32 ELSE 64
        BY Zenon DEF Offers
    <2> HIDE DEF f
    <2>2. \A u \in BOOLEAN, v \in BOOLEAN :
             LET g == FourBytes(what, k, shift, u, v)
             IN  /\ g[1] = Num((IF u /\ ~v THEN 32 ELSE 64) - shift)
                 /\ \A i \in 1..4 : g[1 + i] = <<what, k, i>>
        BY <2>1, FourBytesAre
    <2> QED BY <2>1, <2>2, Zenon DEF f
<1> HIDE DEF f
<1>2. /\ a \in Nat /\ a \in 0..100 /\ n \in Nat /\ at \in Nat /\ a + 5 <= n
      /\ Holds(q, a, f, 5) /\ Holds(data, at, q, n)
    <2>1. a \in 0..100 /\ n \in Nat /\ at \in Nat /\ a + 5 <= n
        BY Zenon DEF Here, Offers
    <2>2. Holds(q, a, f, 5) /\ Holds(data, at, q, n)
        BY Zenon DEF Here, Offers, f
    <2> QED BY <2>1, <2>2
<1>3. PICK N \in Nat : N = Len(data) /\ data \in Seq(Byte) /\ at + n <= N
    BY LenProperties DEF Here
<1>4. PICK p \in Nat : p = at + a /\ p + 5 <= N
    BY <1>2, <1>3
<1>5. Loaded(p, N)
    <2>1. p <= N + 100
        BY <1>4
    <2> QED BY <1>3, <2>1, LoadByte
<1>6. ASSUME NEW i \in 1..5 PROVE Load(p)[i] = f[i]
    <2>1. i \in 1..32 /\ p + i <= N /\ a + i \in 1..n /\ at + (a + i) = p + i
        BY <1>2, <1>4
    <2>2. Load(p)[i] = data[p + i]
        BY <1>5, <2>1 DEF Loaded
    <2>3. data[at + (a + i)] = q[a + i] /\ q[a + i] = f[i]
        BY <1>2, <2>1 DEF Holds
    <2> QED BY <2>1, <2>2, <2>3
<1>7. AmountAt(a, what, k, shift, x)
    <2>1. 1 \in 1..5 /\ \A i \in 1..4 : 1 + i \in 1..5
        OBVIOUS
    <2> QED BY <1>1, <1>4, <1>6, <2>1 DEF AmountAt
<1>8. ASSUME at + n = Len(data), n = a + 5 PROVE LastAt(a)
    <2>1. p + 5 = N
        BY <1>2, <1>3, <1>4, <1>8
    <2>2. \A i \in 6..32 : i \in 1..32 /\ p + i > N /\ p + i <= N + 128
        BY <1>4, <2>1
    <2> QED BY <1>4, <1>5, <2>2 DEF LastAt, Loaded
<1> QED BY <1>7, <1>8

\* The cells of a word that holds an amount.
LEMMA AmountCells ==
    ASSUME NEW what, NEW k, NEW shift \in 0..28
    PROVE  /\ Row(Amount(what, k, shift), 32)
           /\ \A i \in 1..32 :
                 /\ i <= 28 - shift => Amount(what, k, shift)[i] = Num(0)
                 /\ 28 - shift < i /\ i <= 32 - shift =>
                       Amount(what, k, shift)[i] = <<what, k, i - (28 - shift)>>
                 /\ 32 - shift < i => Amount(what, k, shift)[i] = Num(0)
<1> DEFINE l == 28 - shift
           y == Zeros(l)
           f == Field(what, k, 4)
           z == Zeros(shift)
           t == y \o f
           w == t \o z
<1>1. l \in Nat /\ shift \in Nat /\ l + 4 \in Nat /\ l + 4 + shift = 32
    OBVIOUS
<1>2. w = Amount(what, k, shift)
    BY DEF Amount
<1>3. /\ \A i \in 1..l : y[i] = Num(0)
      /\ \A i \in 1..shift : z[i] = Num(0)
      /\ \A i \in 1..4 : f[i] = <<what, k, i>>
    BY DEF Zeros, Field
<1>4. Row(y, l) /\ Row(f, 4) /\ Row(z, shift)
    BY <1>1, RowZeros, RowField
<1> HIDE DEF y, f, z
<1>5. Row(t, l + 4) /\ Joins(t, y, f)
    BY <1>1, <1>4, RowPair
<1> HIDE DEF t
<1>6. Row(w, l + 4 + shift) /\ Joins(w, t, z)
    BY <1>1, <1>4, <1>5, RowPair
<1>7. Len(y) = l /\ Len(f) = 4 /\ Len(z) = shift /\ Len(t) = l + 4
    BY <1>4, <1>5 DEF Row
<1> HIDE DEF w
<1>8. ASSUME NEW i \in 1..32
      PROVE  /\ i <= l => w[i] = Num(0)
             /\ l < i /\ i <= l + 4 => w[i] = <<what, k, i - l>>
             /\ l + 4 < i => w[i] = Num(0)
    <2> HIDE DEF l
    <2>1. CASE i <= l
        <3>1. i \in 1..l /\ i \in 1..(l + 4)
            BY <1>1, <2>1
        <3>2. w[i] = t[i] /\ t[i] = y[i]
            BY <1>5, <1>6, <1>7, <3>1 DEF Joins
        <3> QED BY <1>1, <1>3, <2>1, <3>1, <3>2
    <2>2. CASE l < i /\ i <= l + 4
        <3>1. i - l \in 1..4 /\ l + (i - l) = i /\ i \in 1..(l + 4)
            BY <1>1, <2>2
        <3>2. w[i] = t[i] /\ t[l + (i - l)] = f[i - l]
            BY <1>5, <1>6, <1>7, <3>1 DEF Joins
        <3> QED BY <1>1, <1>3, <2>2, <3>1, <3>2
    <2>3. CASE l + 4 < i
        <3>1. i - (l + 4) \in 1..shift /\ l + 4 + (i - (l + 4)) = i
            BY <1>1, <2>3
        <3>2. w[l + 4 + (i - (l + 4))] = z[i - (l + 4)]
            BY <1>6, <1>7, <3>1 DEF Joins
        <3> QED BY <1>1, <1>3, <2>3, <3>1, <3>2
    <2> QED BY <1>1, <2>1, <2>2, <2>3
<1>9. l = 28 - shift /\ l + 4 = 32 - shift
    OBVIOUS
<1>10. Row(w, 32)
    BY <1>1, <1>6
<1> QED BY <1>2, <1>8, <1>9, <1>10

\* Cells of memory that are zero, and that are what they were.
Clear(m, a, b) == \A i \in 1..249 : a < i /\ i <= b => m[i] = Num(0)
Keeps(n, m, a, b) == \A i \in 1..249 : a < i /\ i <= b => n[i] = m[i]

\* A word that is put somewhere is there, and leaves what is before and behind it.
LEMMA PutHere ==
    ASSUME NEW n, NEW m, NEW a, Spot(a), NEW w, Put(n, m, a, w)
    PROVE  Holds(n, a, w, 32) /\ Keeps(n, m, 0, a) /\ Keeps(n, m, a + 32, 249)
<1>1. a \in 0..217
    BY DEF Spot
<1>2. ASSUME NEW i \in 1..32 PROVE n[a + i] = w[i]
    <2>1. a + i \in 1..249 /\ a < a + i /\ a + i <= a + 32 /\ (a + i) - a = i
        BY <1>1
    <2> QED BY <2>1 DEF Put
<1> QED BY <1>1, <1>2 DEF Put, Holds, Keeps

\* What is kept is still held, and still zero.
LEMMA KeptHolds ==
    ASSUME NEW n, NEW m, NEW a \in Nat, NEW b \in 0..249, Keeps(n, m, a, b),
           NEW c \in Nat, NEW w, NEW l \in Nat, Holds(m, c, w, l), a <= c, c + l <= b
    PROVE  Holds(n, c, w, l)
<1>1. ASSUME NEW i \in 1..l PROVE n[c + i] = w[i]
    <2>1. c + i \in 1..249 /\ a < c + i /\ c + i <= b
        OBVIOUS
    <2> QED BY <2>1 DEF Keeps, Holds
<1> QED BY <1>1 DEF Holds

\* What is clear stays clear where memory is kept.
LEMMA KeptClear ==
    ASSUME NEW n, NEW m, NEW a \in Nat, NEW b \in 0..249, Keeps(n, m, a, b),
           NEW c \in Nat, NEW d \in Nat, Clear(m, c, d), a <= c, d <= b
    PROVE  Clear(n, c, d)
<1>1. ASSUME NEW i \in 1..249, c < i, i <= d PROVE n[i] = Num(0)
    <2>1. a < i /\ i <= b
        BY <1>1
    <2>2. n[i] = m[i]
        BY <2>1 DEF Keeps
    <2>3. m[i] = Num(0)
        BY <1>1 DEF Clear
    <2> QED BY <2>2, <2>3
<1> QED BY <1>1 DEF Clear

\* So does its end.
LEMMA EndClear ==
    ASSUME NEW n, NEW m, NEW a \in 0..132, Keeps(n, m, a, 249), Clear(m, 132, 249)
    PROVE  Clear(n, 132, 249)
<1>1. a \in Nat /\ a <= 132 /\ 132 \in Nat /\ 249 \in 0..249
    OBVIOUS
<1> QED BY <1>1, KeptClear

\* What is kept up to a place is kept up to an earlier one.
LEMMA KeptLess ==
    ASSUME NEW n, NEW m, Keeps(n, m, 0, 36)
    PROVE  Keeps(n, m, 0, 4)
BY DEF Keeps

\* A row that begins with another one.
LEMMA BeginsWith ==
    ASSUME NEW t, NEW a \in Nat, NEW v, NEW w, NEW l \in Nat, NEW n \in Nat, Row(v, l), Row(w, n),
           Holds(t, a, v \o w, l + n)
    PROVE  Holds(t, a, v, l) /\ Holds(t, a + l, w, n)
<1> DEFINE q == v \o w
<1>1. Joins(q, v, w)
    BY RowPair
<1>2. Len(v) = l /\ Len(w) = n
    BY RowLen
<1> HIDE DEF q
<1>3. \A i \in 1..l : q[i] = v[i]
    BY <1>1, <1>2 DEF Joins
<1>4. \A i \in 1..n : q[l + i] = w[i]
    BY <1>1, <1>2 DEF Joins
<1>5. Holds(t, a, q, l + n)
    BY DEF q
<1>6. ASSUME NEW i \in 1..n PROVE t[(a + l) + i] = w[i]
    <2>1. l + i \in 1..(l + n) /\ a + (l + i) = (a + l) + i
        OBVIOUS
    <2>2. t[a + (l + i)] = q[l + i]
        BY <1>5, <2>1 DEF Holds
    <2> QED BY <1>4, <2>1, <2>2
<1>7. Holds(t, a, v, l)
    <2>1. \A i \in 1..l : i \in 1..(l + n)
        OBVIOUS
    <2> QED BY <1>3, <1>5, <2>1 DEF Holds
<1> QED BY <1>6, <1>7 DEF Holds

\* Both parts one after the other.
LEMMA HoldsBoth ==
    ASSUME NEW t, NEW a \in Nat, NEW v, NEW w, NEW l \in Nat, NEW n \in Nat, Row(v, l), Row(w, n),
           Holds(t, a, v, l), Holds(t, a + l, w, n)
    PROVE  Holds(t, a, v \o w, l + n)
<1> DEFINE q == v \o w
<1>1. Joins(q, v, w)
    BY RowPair
<1>2. Len(v) = l /\ Len(w) = n
    BY RowLen
<1> HIDE DEF q
<1>3. ASSUME NEW i \in 1..(l + n) PROVE t[a + i] = q[i]
    <2>1. CASE i <= l
        <3>1. i \in 1..l
            BY <2>1
        <3> QED BY <1>1, <1>2, <3>1 DEF Joins, Holds
    <2>2. CASE l < i
        <3>1. PICK j \in 1..n : i = l + j
            <4>1. i - l \in 1..n /\ i = l + (i - l)
                BY <2>2
            <4> QED BY <4>1
        <3>2. (a + l) + j = a + i
            BY <3>1
        <3>3. t[(a + l) + j] = w[j]
            BY DEF Holds
        <3>4. q[l + j] = w[j]
            BY <1>1, <1>2 DEF Joins
        <3> QED BY <3>1, <3>2, <3>3, <3>4
    <2> QED BY <2>1, <2>2
<1>4. Holds(t, a, q, l + n)
    BY <1>3 DEF Holds
<1> QED BY <1>4 DEF q

\* Zeros that are held are zero, and the other way round.
LEMMA ClearZeros ==
    ASSUME NEW m, NEW a \in 0..217
    PROVE  Holds(m, a, Zeros(32), 32) <=> Clear(m, a, a + 32)
<1>1. \A i \in 1..32 : Zeros(32)[i] = Num(0)
    BY DEF Zeros
<1>2. ASSUME Clear(m, a, a + 32) PROVE Holds(m, a, Zeros(32), 32)
    <2>1. ASSUME NEW i \in 1..32 PROVE m[a + i] = Num(0)
        <3>1. a + i \in 1..249 /\ a < a + i /\ a + i <= a + 32
            OBVIOUS
        <3> QED BY <1>2, <3>1 DEF Clear
    <2> QED BY <1>1, <2>1 DEF Holds
<1>3. ASSUME Holds(m, a, Zeros(32), 32) PROVE Clear(m, a, a + 32)
    <2>1. ASSUME NEW i \in 1..249, a < i, i <= a + 32 PROVE m[i] = Num(0)
        <3>1. PICK j \in 1..32 : i = a + j
            <4>1. i - a \in 1..32 /\ i = a + (i - a)
                BY <2>1
            <4> QED BY <4>1
        <3>2. m[a + j] = Zeros(32)[j]
            BY <1>3 DEF Holds
        <3> QED BY <1>1, <3>1, <3>2
    <2> QED BY <2>1 DEF Clear
<1> QED BY <1>2, <1>3

\* Memory m and the data d are the same for n bytes, but for those in x.
Agree(m, d, n, x) == Row(d, n) /\ \A i \in 1..n : m[i] = d[i] \/ i \in x

\* The same, of a part.
HoldsBut(m, a, w, l, x) == \A i \in 1..l : m[a + i] = w[i] \/ a + i \in x

\* One more string is agreed on: but for the cells in x, or altogether, or as the first one.
LEMMA AgreeMore ==
    ASSUME NEW m, NEW d, NEW n \in Nat, NEW x, Agree(m, d, n, x),
           NEW w, NEW l \in Nat, Row(w, l), HoldsBut(m, n, w, l, x)
    PROVE  Agree(m, d \o w, n + l, x)
<1> DEFINE q == d \o w
<1>1. Joins(q, d, w) /\ Row(q, n + l)
    BY RowPair DEF Agree
<1>2. Len(d) = n /\ Len(w) = l
    BY RowLen DEF Agree
<1> HIDE DEF q
<1>3. ASSUME NEW i \in 1..(n + l) PROVE m[i] = q[i] \/ i \in x
    <2>1. CASE i <= n
        <3>1. i \in 1..n
            BY <2>1
        <3> QED BY <1>1, <1>2, <3>1 DEF Joins, Agree
    <2>2. CASE n < i
        <3>1. PICK j \in 1..l : i = n + j
            <4>1. i - n \in 1..l /\ i = n + (i - n)
                BY <2>2
            <4> QED BY <4>1
        <3>2. m[n + j] = w[j] \/ n + j \in x
            BY DEF HoldsBut
        <3>3. q[n + j] = w[j]
            BY <1>1, <1>2 DEF Joins
        <3> QED BY <3>1, <3>2, <3>3
    <2> QED BY <2>1, <2>2
<1> QED BY <1>1, <1>3 DEF Agree, q

LEMMA AgreeMoreHeld ==
    ASSUME NEW m, NEW d, NEW n \in Nat, NEW x, Agree(m, d, n, x),
           NEW w, NEW l \in Nat, Row(w, l), Holds(m, n, w, l)
    PROVE  Agree(m, d \o w, n + l, x)
BY AgreeMore DEF Holds, HoldsBut

LEMMA AgreeFirst ==
    ASSUME NEW m, NEW d, NEW n \in Nat, Row(d, n), Holds(m, 0, d, n), NEW x
    PROVE  Agree(m, d, n, x)
<1>1. \A i \in 1..n : 0 + i = i
    OBVIOUS
<1> QED BY <1>1 DEF Agree, Holds

\* A word that begins with the four bytes of an amount, and that holds nothing else.
AmountFirst(v, what, k) == \A j \in 1..4 : v[j] = <<what, k, j>>
AmountOnly(v) == \A j \in 5..32 : v[j] = Num(0)

\* Where an amount is put, and what is put there.
LEMMA AmountPuts ==
    ASSUME Sane, NEW m, Mem(m), NEW a, NEW base, Amounts(a, base), NEW masked \in BOOLEAN,
           NEW what, NEW k, NEW shift \in 0..28, NEW x \in {32, 64}, AmountAt(a, what, k, shift, x),
           NEW e, e = x + base + 4
    PROVE  \E v : /\ Put(StoreAmount(m, a, base, masked), m, (e - 4) - shift, v)
                  /\ AmountFirst(v, what, k) /\ (masked \/ LastAt(a) => AmountOnly(v))
<1> DEFINE w == Load(at + a)
           last == IF masked THEN 5 ELSE 32
           amount == SubSeq(w, 2, last)
           word == amount \o Zeros(32 - Len(amount))
           place == w[1][3] + base
<1>1. PICK n \in Nat : n = Len(data) /\ data \in Seq(Byte) /\ at \in 0..n
    BY LenProperties DEF Sane
<1>2. at + a \in Nat /\ at + a <= n + 100
    BY <1>1 DEF Amounts
<1>3. /\ w[1][3] = x - shift /\ \A i \in 1..4 : w[1 + i] = <<what, k, i>>
      /\ LastAt(a) => \A i \in 6..32 : w[i] = Num(0)
    BY DEF AmountAt, LastAt, Num
<1>4. place = (x - shift) + base
    BY <1>3
<1>5. Spot((x - shift) + base)
    BY DEF Amounts, Spot
<1>6. StoreAmount(m, a, base, masked) = Store(m, place, word)
    BY DEF StoreAmount
<1> HIDE DEF w, place
<1>7. PICK l \in Nat : /\ l = last - 1 /\ l <= 31 /\ 4 <= l /\ last \in Nat /\ 2 <= last + 1
                       /\ last - 2 + 1 = l /\ (masked => l = 4) /\ (~masked => l = 31)
    OBVIOUS
<1>8. Row(amount, l) /\ PartOf(amount, w, 2, l)
    <2> HIDE DEF last
    <2> QED BY <1>7, RowPart
<1>9. \A i \in 1..l : amount[i] = w[1 + i]
    <2>1. \A i \in 1..l : 2 + i - 1 = 1 + i
        OBVIOUS
    <2> QED BY <1>8, <2>1 DEF PartOf
<1> HIDE DEF amount, last
<1>10. PICK r \in Nat : r = 32 - l /\ l + r = 32
    BY <1>7
<1> DEFINE z == Zeros(r)
<1>11. word = amount \o z
    <2>1. Len(amount) = l
        BY <1>8, RowLen
    <2> QED BY <1>10, <2>1
<1>12. Row(z, r) /\ \A i \in 1..r : z[i] = Num(0)
    BY RowZeros DEF Zeros
<1> HIDE DEF word, z
<1>13. Row(word, l + r) /\ Joins(word, amount, z) /\ Len(amount) = l /\ Len(z) = r
    BY <1>8, <1>11, <1>12, RowPair, RowLen
<1>14. Full(word)
    BY <1>10, <1>13 DEF Full
<1>15. /\ \A i \in 1..l : word[i] = w[1 + i]
       /\ \A i \in 1..r : word[l + i] = Num(0)
    <2>1. \A i \in 1..l : word[i] = amount[i]
        BY <1>13 DEF Joins
    <2>2. \A i \in 1..r : word[l + i] = z[i]
        BY <1>13 DEF Joins
    <2> QED BY <1>9, <1>12, <2>1, <2>2
<1>16. AmountFirst(word, what, k)
    BY <1>3, <1>7, <1>15 DEF AmountFirst
<1>17. ASSUME masked \/ LastAt(a), NEW j \in 5..32 PROVE word[j] = Num(0)
    <2>1. CASE j > l
        <3>1. PICK i \in 1..r : j = l + i
            <4>1. j - l \in 1..r /\ j = l + (j - l)
                BY <1>10, <2>1
            <4> QED BY <4>1
        <3> QED BY <1>15, <3>1
    <2>2. CASE j <= l
        <3>1. LastAt(a) /\ j \in 1..l /\ 1 + j \in 6..32
            BY <1>7, <1>17, <2>2
        <3> QED BY <1>3, <1>15, <3>1
    <2> QED BY <2>1, <2>2
<1>18. AmountOnly(word) \/ ~(masked \/ LastAt(a))
    BY <1>17 DEF AmountOnly
<1>19. Put(Store(m, place, word), m, place, word)
    BY <1>4, <1>5, <1>14, StorePuts
<1>20. (x - shift) + base = (e - 4) - shift
    BY DEF Amounts
<1>21. Put(StoreAmount(m, a, base, masked), m, (e - 4) - shift, word)
    BY <1>4, <1>6, <1>19, <1>20
<1> QED BY <1>16, <1>18, <1>21

\* Such a word, put four bytes and the shift before e: the amount ends a word, shifted.
Lands(n, m, v, what, k, shift, e) ==
    /\ shift \in 0..28 /\ e \in 36..217 /\ Put(n, m, (e - 4) - shift, v)
    /\ AmountFirst(v, what, k) /\ Clear(m, e - 32, e)
Landed(n, m, v, what, k, shift, e) ==
    /\ HoldsBut(n, e - 32, Amount(what, k, shift), 32, (e - shift + 1)..e)
    /\ AmountOnly(v) => Holds(n, e - 32, Amount(what, k, shift), 32)
    /\ Keeps(n, m, 0, e - 32) /\ Keeps(n, m, e + 28, 249)
    /\ AmountOnly(v) /\ Clear(m, e, e + 32) => Clear(n, e, e + 32)

\* The word the amount is put in is the one that is meant, but for what spills.
LEMMA AmountLands ==
    ASSUME NEW n, NEW m, NEW v, NEW what, NEW k, NEW shift, NEW e,
           Lands(n, m, v, what, k, shift, e)
    PROVE  Landed(n, m, v, what, k, shift, e)
<1> SUFFICES ASSUME shift \in 0..28, e \in 36..217, Put(n, m, (e - 4) - shift, v),
                    AmountFirst(v, what, k), Clear(m, e - 32, e)
             PROVE  Landed(n, m, v, what, k, shift, e)
    BY DEF Lands
<1> DEFINE p == (e - 4) - shift
           w == Amount(what, k, shift)
<1>1. /\ \A i \in 1..32 :
            /\ i <= 28 - shift => w[i] = Num(0)
            /\ 28 - shift < i /\ i <= 32 - shift => w[i] = <<what, k, i - (28 - shift)>>
            /\ 32 - shift < i => w[i] = Num(0)
    BY AmountCells, Zenon
<1> HIDE DEF w
<1>2. p \in 0..213 /\ p = (e - 32) + (28 - shift) /\ p + 4 = e - shift
    OBVIOUS
<1>3. /\ \A i \in 1..249 : i <= p => n[i] = m[i]
      /\ \A i \in 1..249 : p + 32 < i => n[i] = m[i]
      /\ \A j \in 1..32 : n[p + j] = v[j]
    <2>1. \A j \in 1..32 : p + j \in 1..249 /\ p < p + j /\ p + j <= p + 32 /\ (p + j) - p = j
        BY <1>2
    <2> QED BY <2>1, Zenon DEF Put
<1> HIDE DEF p
<1>4. ASSUME NEW i \in 1..32
      PROVE  /\ n[(e - 32) + i] = w[i] \/ (e - 32) + i \in (e - shift + 1)..e
             /\ AmountOnly(v) => n[(e - 32) + i] = w[i]
    <2>1. CASE i <= 28 - shift
        <3>1. PICK c \in 1..249 : c = (e - 32) + i /\ c <= p /\ e - 32 < c /\ c <= e
            BY <1>2, <2>1
        <3>2. n[c] = m[c] /\ m[c] = Num(0)
            BY <1>3, <3>1 DEF Clear
        <3> QED BY <1>1, <2>1, <3>1, <3>2
    <2>2. CASE 28 - shift < i /\ i <= 32 - shift
        <3>1. PICK j \in 1..4 : j = i - (28 - shift) /\ (e - 32) + i = p + j
            BY <1>2, <2>2
        <3>2. n[p + j] = <<what, k, j>>
            BY <1>3 DEF AmountFirst
        <3>3. w[i] = <<what, k, j>>
            BY <1>1, <2>2, <3>1
        <3> QED BY <3>1, <3>2, <3>3
    <2>3. CASE 32 - shift < i
        <3>1. PICK j \in 5..32 : (e - 32) + i = p + j
            <4>1. i - (28 - shift) \in 5..32 /\ (e - 32) + i = p + (i - (28 - shift))
                BY <1>2, <2>3
            <4> QED BY <4>1
        <3>2. n[p + j] = v[j]
            BY <1>3
        <3>3. AmountOnly(v) => n[p + j] = Num(0)
            BY <3>2 DEF AmountOnly
        <3>4. w[i] = Num(0)
            BY <1>1, <2>3
        <3>5. (e - 32) + i \in (e - shift + 1)..e
            BY <2>3
        <3> QED BY <3>1, <3>3, <3>4, <3>5
    <2> QED BY <2>1, <2>2, <2>3
<1>5. HoldsBut(n, e - 32, w, 32, (e - shift + 1)..e)
    BY <1>4 DEF HoldsBut
<1>6. AmountOnly(v) => Holds(n, e - 32, w, 32)
    BY <1>4 DEF Holds
<1>7. Keeps(n, m, 0, e - 32) /\ Keeps(n, m, e + 28, 249)
    BY <1>2, <1>3 DEF Keeps
<1>8. ASSUME AmountOnly(v), Clear(m, e, e + 32), NEW i \in 1..249, e < i, i <= e + 32
      PROVE  n[i] = Num(0)
    <2>1. CASE i <= p + 32
        <3>1. PICK j \in 5..32 : i = p + j
            <4>1. i - p \in 5..32 /\ i = p + (i - p)
                BY <1>2, <1>8, <2>1
            <4> QED BY <4>1
        <3>2. n[p + j] = v[j]
            BY <1>3
        <3> QED BY <1>8, <3>1, <3>2 DEF AmountOnly
    <2>2. CASE p + 32 < i
        BY <1>3, <1>8, <2>2 DEF Clear
    <2> QED BY <1>2, <2>1, <2>2
<1>9. AmountOnly(v) /\ Clear(m, e, e + 32) => Clear(n, e, e + 32)
    BY <1>8 DEF Clear
<1> QED BY <1>5, <1>6, <1>7, <1>9, Zenon DEF w, Landed

\* The contract works on the payload of swap k, which is q, of n bytes.
Works(k, q, n) ==
    /\ k \in 1..Len(tx.swaps) /\ k \in Nat /\ tx.swaps[k] \in Swap /\ tx.multi \in BOOLEAN
    /\ at = Ends[k - 1] /\ n = Size(tx.swaps[k], tx.multi)
    /\ Here(q, n) /\ PayloadOK(q, tx.swaps[k], k, tx.multi)
    /\ ~tx.multi => at + n = Len(data)

\* It does so whenever its place is where that payload begins.
LEMMA WorksOn ==
    ASSUME IInv, NEW k \in 1..Len(tx.swaps), at = Ends[k - 1]
    PROVE  \E q, n : Works(k, q, n)
<1> DEFINE s == tx.swaps[k]
           q == Payload(s, k, tx.multi)
           n == Size(s, tx.multi)
           N == Len(tx.swaps)
<1>1. /\ tx.multi \in BOOLEAN /\ N \in Nat /\ s \in Swap /\ Layout(tx, data, Ends)
      /\ ~tx.multi => N = 1
    BY TxFacts DEF IInv
<1>2. PayloadOK(q, s, k, tx.multi)
    BY <1>1, PayloadLayout
<1>3. n \in Nat
    BY <1>1 DEF Size, Swap
<1>4. /\ data \in Seq(Byte) /\ Ends[k - 1] \in Nat /\ Ends[N] = Len(data)
      /\ Ends[k] = Ends[k - 1] + n /\ Ends[k] <= Len(data)
      /\ Holds(data, Ends[k - 1], q, n)
    <2>1. k - 1 \in 0..N
        BY <1>1
    <2> QED BY <1>1, <2>1 DEF Layout
<1> HIDE DEF q, n
<1>5. Here(q, n)
    BY <1>3, <1>4 DEF Here
<1>6. ~tx.multi => at + n = Len(data)
    <2> SUFFICES ASSUME ~tx.multi PROVE at + n = Len(data)
        OBVIOUS
    <2>1. Len(tx.swaps) = 1
        BY <1>1
    <2>2. k = 1
        BY <2>1
    <2>3. Ends[k] = Len(data)
        BY <1>4, <2>1, <2>2
    <2> QED BY <1>4, <2>3
<1>7. Works(k, q, n)
    BY <1>1, <1>2, <1>5, <1>6 DEF Works, n
<1> QED BY <1>7

\* The payload is long enough for its fields.
LEMMA WorksLength ==
    ASSUME NEW k, NEW q, NEW n, Works(k, q, n), NEW s, s = tx.swaps[k]
    PROVE  /\ n \in Nat /\ 21 <= n /\ Here(q, n)
           /\ ~s.buys => 41 <= n /\ (s.venue = "V3" /\ tx.multi => 78 <= n)
           /\ ~s.buys /\ s.venue = "V3" /\ ~tx.multi => n = IF s.small THEN 79 ELSE 82
<1>1. tx.multi \in BOOLEAN /\ s \in Swap /\ n = Size(s, tx.multi) /\ Here(q, n)
    BY Zenon DEF Works
<1>2. s.venue \in {"V2", "V3"} /\ s.buys \in BOOLEAN /\ s.small \in BOOLEAN
    BY <1>1 DEF Swap
<1>3. /\ n \in Nat /\ 21 <= n
      /\ ~s.buys => 41 <= n /\ (s.venue = "V3" /\ tx.multi => 78 <= n)
      /\ ~s.buys /\ s.venue = "V3" /\ ~tx.multi => n = IF s.small THEN 79 ELSE 82
    <2> DEFINE v == s.venue
               y == s.buys
               l == s.small
    <2>1. n = CASE v = "V2" /\ tx.multi -> IF y THEN 31 ELSE 51
                [] v = "V2" /\ ~tx.multi -> IF y THEN 30 ELSE 46
                [] v = "V3" /\ tx.multi -> IF y THEN 58 ELSE 78
                [] v = "V3" /\ ~tx.multi -> IF y THEN 57 ELSE IF l THEN 79 ELSE 82
        BY <1>1, Zenon DEF Size
    <2>2. v \in {"V2", "V3"} /\ y \in BOOLEAN /\ l \in BOOLEAN /\ tx.multi \in BOOLEAN
        BY <1>1, <1>2
    <2> HIDE DEF v, y, l
    <2>3. /\ n \in Nat /\ 21 <= n
          /\ ~y => 41 <= n /\ (v = "V3" /\ tx.multi => 78 <= n)
          /\ ~y /\ v = "V3" /\ ~tx.multi => n = IF l THEN 79 ELSE 82
        BY <2>1, <2>2
    <2> QED BY <2>3 DEF v, y, l
<1> QED BY <1>1, <1>3

\* The fields that the routines read.
LEMMA ReadsPool ==
    ASSUME NEW k, NEW q, NEW n, Works(k, q, n)
    PROVE  Read(1, 20) = Pool(k)
<1>1. n \in Nat /\ 21 <= n /\ Here(q, n)
    BY WorksLength
<1>2. 1 + 20 <= n
    BY <1>1
<1>3. Holds(q, 1, Pool(k), 20)
    BY DEF Works, PayloadOK
<1>4. Pool(k) = [i \in 1..20 |-> Pool(k)[i]]
    BY Zenon DEF Pool, Field
<1>5. Told(q, n, 1, Pool(k), 20)
    <2>1. 1 \in 0..100 /\ 20 \in 1..32
        OBVIOUS
    <2> QED BY <1>2, <1>3, <1>4, <2>1, Zenon DEF Told
<1> QED BY <1>1, <1>5, ReadIs, Zenon

\* The token that is sold, and what a V3 routine reads besides.
LEMMA ReadsToken ==
    ASSUME NEW k, NEW q, NEW n, Works(k, q, n), ~tx.swaps[k].buys
    PROVE  /\ tx.swaps[k].venue = "V2" \/ ~tx.multi => Read(21, 20) = Token(k)
           /\ tx.swaps[k].venue = "V3" /\ tx.multi => Read(58, 20) = Token(k)
<1> DEFINE f == Token(k)
<1>1. tx.swaps[k].venue \in {"V2", "V3"} /\ tx.swaps[k].buys \in BOOLEAN /\ Here(q, n)
    <2>1. tx.swaps[k] \in Swap /\ Here(q, n)
        BY Zenon DEF Works
    <2> QED BY <2>1 DEF Swap
<1>2. f = [i \in 1..20 |-> f[i]]
    BY Zenon DEF Token, Field
<1>3. 21 \in 0..100 /\ 58 \in 0..100 /\ 20 \in 1..32
    OBVIOUS
<1>4. Parts(q, tx.swaps[k], k, tx.multi)
    BY DEF Works, PayloadOK
<1>5. ASSUME tx.swaps[k].venue = "V2" \/ ~tx.multi PROVE Read(21, 20) = f
    <2>1. n \in Nat /\ 21 + 20 <= n
        BY WorksLength
    <2>2. Holds(q, 21, f, 20)
        BY <1>1, <1>4, <1>5 DEF Parts
    <2> HIDE DEF f
    <2>3. Told(q, n, 21, f, 20)
        BY <1>2, <1>3, <2>1, <2>2, Zenon DEF Told
    <2> QED BY <1>1, <2>3, ReadIs, Zenon
<1>6. ASSUME tx.swaps[k].venue = "V3", tx.multi PROVE Read(58, 20) = f
    <2>1. n \in Nat /\ 58 + 20 <= n
        BY <1>6, WorksLength
    <2>2. Holds(q, 58, f, 20)
        BY <1>1, <1>4, <1>6 DEF Parts
    <2> HIDE DEF f
    <2>3. Told(q, n, 58, f, 20)
        BY <1>2, <1>3, <2>1, <2>2, Zenon DEF Told
    <2> QED BY <1>1, <2>3, ReadIs, Zenon
<1> QED BY <1>5, <1>6

LEMMA ReadsV3 ==
    ASSUME NEW k, NEW q, NEW n, Works(k, q, n), tx.swaps[k].venue = "V3",
           pc = Routine(tx.swaps[k], tx.multi)
    PROVE  /\ Read(HashAt, 32) = Hash(k)
           /\ ~tx.multi /\ ~tx.swaps[k].buys =>
                 IF tx.swaps[k].small THEN Read(41, 6) = Field("in", k, 6)
                 ELSE Read(41, 9) = Field("in", k, 9)
<1> DEFINE f == Hash(k)
           s == tx.swaps[k]
<1>1. /\ s.venue = "V3" /\ s.buys \in BOOLEAN /\ s.weth0 \in BOOLEAN /\ s.small \in BOOLEAN
      /\ tx.multi \in BOOLEAN /\ Here(q, n)
    BY DEF Works, Swap
<1>2. f = [i \in 1..32 |-> f[i]]
    BY Zenon DEF Hash, Field
<1>3. Parts(q, s, k, tx.multi)
    BY DEF Works, PayloadOK
<1>4. PICK h : /\ h = HashAt
               /\ (s.buys \/ tx.multi => h = 21)
               /\ (~s.buys /\ ~tx.multi /\ s.small => h = 47)
               /\ (~s.buys /\ ~tx.multi /\ ~s.small => h = 50)
    BY <1>1 DEF HashAt, Routine
<1>5. n \in Nat /\ h + 32 <= n /\ h \in 0..100 /\ 32 \in 1..32
    <2>1. n = Size(s, tx.multi)
        BY DEF Works
    <2>2. /\ (s.buys /\ tx.multi => n = 58) /\ (s.buys /\ ~tx.multi => n = 57)
          /\ (~s.buys /\ tx.multi => n = 78) /\ (~s.buys /\ ~tx.multi /\ s.small => n = 79)
          /\ (~s.buys /\ ~tx.multi /\ ~s.small => n = 82)
        BY <1>1, <2>1 DEF Size
    <2> HIDE DEF s
    <2> QED BY <1>1, <1>4, <2>2
<1>6. Holds(q, h, f, 32)
    <2>1. s.buys \/ tx.multi => Holds(q, 21, f, 32)
        BY <1>1, <1>3 DEF Parts
    <2>2. ~s.buys /\ ~tx.multi /\ s.small => Holds(q, 41 + 6, f, 32)
        BY <1>1, <1>3 DEF Parts
    <2>3. ~s.buys /\ ~tx.multi /\ ~s.small => Holds(q, 41 + 9, f, 32)
        BY <1>1, <1>3 DEF Parts
    <2>4. 41 + 6 = 47 /\ 41 + 9 = 50
        OBVIOUS
    <2> HIDE DEF s
    <2> QED BY <1>1, <1>4, <2>1, <2>2, <2>3, <2>4
<1> HIDE DEF f
<1>7. Told(q, n, h, f, 32)
    BY <1>2, <1>5, <1>6, Zenon DEF Told
<1>8. Read(h, 32) = f
    BY <1>1, <1>7, ReadIs
<1>9. ASSUME ~tx.multi, ~s.buys, NEW m, m = IF s.small THEN 6 ELSE 9
      PROVE  Read(41, m) = Field("in", k, m)
    <2> DEFINE g == Field("in", k, m)
    <2>1. g = [i \in 1..m |-> g[i]]
        BY Zenon DEF Field
    <2>2. n \in Nat /\ 41 + m <= n /\ 41 \in 0..100 /\ m \in 1..32
        <3>1. n \in Nat /\ n = IF s.small THEN 79 ELSE 82
            BY <1>1, <1>9, WorksLength
        <3>2. m \in {6, 9}
            BY <1>9
        <3> HIDE DEF s
        <3> QED BY <3>1, <3>2
    <2>3. Holds(q, 41, g, m)
        BY <1>1, <1>3, <1>9 DEF Parts
    <2> HIDE DEF g
    <2>4. Told(q, n, 41, g, m)
        BY <2>1, <2>2, <2>3, Zenon DEF Told
    <2>5. Read(41, m) = g
        BY <1>1, <2>4, ReadIs
    <2> QED BY <2>5 DEF g
<1> QED BY <1>4, <1>8, <1>9 DEF f

\* The amounts that the routines load, each with the place it is to be stored at.
LEMMA LoadsAmounts ==
    ASSUME NEW k, NEW q, NEW n, Works(k, q, n), NEW s, s = tx.swaps[k],
           NEW y, y = IF s.weth0 THEN 64 ELSE 32, NEW z, z = IF s.weth0 THEN 32 ELSE 64
    PROVE  /\ s.venue = "V2" /\ s.buys /\ ~tx.multi => AmountAt(21, "out", k, s.out, y)
           /\ s.venue = "V2" /\ s.buys /\ tx.multi =>
                 AmountAt(21, "in", k, s.in, 32) /\ AmountAt(26, "out", k, s.out, y)
           /\ s.venue = "V2" /\ ~s.buys => AmountAt(41, "in", k, s.in, 64)
           /\ s.venue = "V2" /\ ~s.buys /\ ~tx.multi => LastAt(41)
           /\ s.venue = "V2" /\ ~s.buys /\ tx.multi => AmountAt(46, "out", k, s.out, z)
           /\ s.venue = "V3" /\ tx.multi => AmountAt(53, "in", k, s.in, 64)
<1>1. /\ s.buys \in BOOLEAN /\ s.weth0 \in BOOLEAN
      /\ s.in \in Shift /\ s.out \in Shift /\ s.venue \in {"V2", "V3"}
      /\ tx.multi \in BOOLEAN /\ Here(q, n) /\ k \in Nat /\ n \in Nat
    BY DEF Works, Swap, Here
<1>2. Parts(q, s, k, tx.multi)
    BY DEF Works, PayloadOK
<1>3. n = Size(s, tx.multi) /\ (~tx.multi => at + n = Len(data))
    BY DEF Works
<1>4. "in" \in Fields /\ "out" \in Fields
    BY DEF Fields
<1>5. 21 \in 0..100 /\ 26 \in 0..100 /\ 41 \in 0..100 /\ 46 \in 0..100 /\ 53 \in 0..100
    OBVIOUS
<1>6. ASSUME s.venue = "V2", s.buys, ~tx.multi PROVE AmountAt(21, "out", k, s.out, y)
    <2>1. n = 30 /\ 21 + 5 <= n
        BY <1>1, <1>3, <1>6 DEF Size
    <2>2. Holds(q, 21, FourBytes("out", k, s.out, TRUE, s.weth0), 5)
        BY <1>2, <1>6 DEF Parts
    <2>3. y = IF TRUE /\ ~s.weth0 THEN 32 ELSE 64
        BY <1>1
    <2>4. Offers(q, n, 21, "out", k, s.out, TRUE, s.weth0, y)
        BY <1>1, <1>4, <1>5, <2>1, <2>2, <2>3 DEF Offers
    <2> QED BY <1>1, <2>4, AmountIs
<1>7. ASSUME s.venue = "V2", s.buys, tx.multi
      PROVE  AmountAt(21, "in", k, s.in, 32) /\ AmountAt(26, "out", k, s.out, y)
    <2>1. n = 31 /\ 21 + 5 <= n /\ 26 + 5 <= n
        BY <1>1, <1>3, <1>7 DEF Size
    <2>2. /\ Holds(q, 21, FourBytes("in", k, s.in, TRUE, FALSE), 5)
          /\ Holds(q, 26, FourBytes("out", k, s.out, TRUE, s.weth0), 5)
        BY <1>2, <1>7 DEF Parts
    <2>3. y = IF TRUE /\ ~s.weth0 THEN 32 ELSE 64
        BY <1>1
    <2>4. Offers(q, n, 26, "out", k, s.out, TRUE, s.weth0, y)
        BY <1>1, <1>4, <1>5, <2>1, <2>2, <2>3 DEF Offers
    <2>5. Offers(q, n, 21, "in", k, s.in, TRUE, FALSE, 32)
        BY <1>1, <1>4, <1>5, <2>1, <2>2 DEF Offers
    <2> QED BY <1>1, <2>4, <2>5, AmountIs
<1>8. ASSUME s.venue = "V2", ~s.buys
      PROVE  AmountAt(41, "in", k, s.in, 64) /\ (~tx.multi => LastAt(41))
    <2>1. PICK b \in BOOLEAN : Holds(q, 41, FourBytes("in", k, s.in, FALSE, b), 5)
        BY <1>1, <1>2, <1>8 DEF Parts
    <2>2. /\ (~tx.multi => n = 46) /\ (tx.multi => n = 51) /\ 41 + 5 <= n /\ 46 = 41 + 5
        BY <1>1, <1>3, <1>8 DEF Size
    <2>3. Offers(q, n, 41, "in", k, s.in, FALSE, b, 64)
        BY <1>1, <1>4, <1>5, <2>1, <2>2 DEF Offers
    <2>4. /\ AmountAt(41, "in", k, s.in, 64)
          /\ at + n = Len(data) /\ n = 41 + 5 => LastAt(41)
        BY <1>1, <2>3, AmountIs
    <2> QED BY <1>3, <2>2, <2>4
<1>9. ASSUME s.venue = "V2", ~s.buys, tx.multi PROVE AmountAt(46, "out", k, s.out, z)
    <2>1. n = 51 /\ 46 + 5 <= n
        BY <1>1, <1>3, <1>9 DEF Size
    <2>2. Holds(q, 46, FourBytes("out", k, s.out, TRUE, ~s.weth0), 5)
        BY <1>2, <1>9 DEF Parts
    <2>3. PICK b \in BOOLEAN : b = ~s.weth0
        BY <1>1, Zenon
    <2>4. z = IF TRUE /\ ~b THEN 32 ELSE 64
        BY <1>1, <2>3
    <2>5. Holds(q, 46, FourBytes("out", k, s.out, TRUE, b), 5)
        BY <2>2, <2>3
    <2>6. Offers(q, n, 46, "out", k, s.out, TRUE, b, z)
        BY <1>1, <1>4, <1>5, <2>1, <2>4, <2>5 DEF Offers
    <2> QED BY <1>1, <2>6, AmountIs
<1>10. ASSUME s.venue = "V3", tx.multi PROVE AmountAt(53, "in", k, s.in, 64)
    <2>1. 53 + 5 <= n
        BY <1>1, <1>3, <1>10 DEF Size
    <2>2. Holds(q, 53, FourBytes("in", k, s.in, FALSE, FALSE), 5)
        BY <1>1, <1>2, <1>10 DEF Parts
    <2>3. Offers(q, n, 53, "in", k, s.in, FALSE, FALSE, 64)
        BY <1>1, <1>4, <1>5, <2>1, <2>2 DEF Offers
    <2> QED BY <1>1, <2>3, AmountIs
<1> QED BY <1>6, <1>7, <1>8, <1>9, <1>10

\* What is agreed on stays so where memory is kept.
LEMMA AgreeKept ==
    ASSUME NEW n, NEW m, NEW d, NEW l \in 0..249, NEW x, Agree(m, d, l, x), Keeps(n, m, 0, l)
    PROVE  Agree(n, d, l, x)
<1>1. ASSUME NEW i \in 1..l PROVE n[i] = m[i]
    <2>1. i \in 1..249 /\ 0 < i /\ i <= l
        OBVIOUS
    <2> QED BY <2>1 DEF Keeps
<1> QED BY <1>1 DEF Agree

\* The next word of what is agreed on is put where it belongs.
LEMMA PutNext ==
    ASSUME NEW n, NEW m, NEW d, NEW a, Spot(a), NEW x, Agree(m, d, a, x),
           NEW w, Full(w), Put(n, m, a, w)
    PROVE  Agree(n, d \o w, a + 32, x) /\ Keeps(n, m, a + 32, 249)
<1>1. Holds(n, a, w, 32) /\ Keeps(n, m, 0, a) /\ Keeps(n, m, a + 32, 249)
    BY PutHere
<1>2. a \in 0..249 /\ a \in Nat
    BY DEF Spot
<1>3. Agree(n, d, a, x)
    BY <1>1, <1>2, AgreeKept
<1>4. Agree(n, d \o w, a + 32, x)
    BY <1>1, <1>2, <1>3, AgreeMoreHeld DEF Full
<1> QED BY <1>1, <1>4

\* The head of a call: four bytes, a word of which is put first, and the first word after it.
LEMMA PutHead ==
    ASSUME NEW g, NEW h, NEW m, NEW f, NEW w, Full(w), NEW x,
           Put(g, m, 0, Signature(f) \o Zeros(28)), Put(h, g, 4, w)
    PROVE  /\ Agree(g, Signature(f), 4, x) /\ Agree(h, Signature(f) \o w, 36, x)
           /\ Keeps(g, m, 32, 249) /\ Keeps(h, m, 36, 249)
<1> DEFINE s == Signature(f)
           z == Zeros(28)
<1>1. Row(s, 4) /\ Row(z, 28)
    BY RowField, RowZeros DEF Signature
<1> HIDE DEF s, z
<1>2. Put(g, m, 0, s \o z)
    BY DEF s, z
<1>3. Holds(g, 0, s \o z, 32) /\ Keeps(g, m, 0 + 32, 249)
    BY <1>2, PutHere, Spots
<1>4. Holds(g, 0, s, 4)
    <2>1. Holds(g, 0, s \o z, 4 + 28)
        BY <1>3
    <2> QED BY <1>1, <2>1, BeginsWith
<1>5. Agree(g, s, 4, x)
    BY <1>1, <1>4, AgreeFirst
<1>6. Agree(h, s \o w, 4 + 32, x) /\ Keeps(h, g, 4 + 32, 249)
    <2>1. Spot(4)
        BY Spots
    <2> QED BY <1>5, <2>1, PutNext, Zenon
<1>7. Keeps(g, m, 32, 249)
    BY <1>3
<1>8. ASSUME NEW i \in 1..249, 36 < i PROVE h[i] = m[i]
    <2>1. 0 + 32 < i /\ 4 + 32 < i /\ i <= 249
        BY <1>8
    <2>2. h[i] = g[i]
        BY <1>6, <2>1 DEF Keeps
    <2>3. g[i] = m[i]
        BY <1>3, <2>1 DEF Keeps
    <2> QED BY <2>2, <2>3
<1>9. Keeps(h, m, 36, 249)
    BY <1>8 DEF Keeps
<1> QED BY <1>5, <1>6, <1>7, <1>9 DEF s

\* Both parts, but for some bytes.
LEMMA HoldsButBoth ==
    ASSUME NEW t, NEW a \in Nat, NEW v, NEW w, NEW l \in Nat, NEW n \in Nat, Row(v, l), Row(w, n),
           NEW x, HoldsBut(t, a, v, l, x), HoldsBut(t, a + l, w, n, x)
    PROVE  HoldsBut(t, a, v \o w, l + n, x)
<1> DEFINE q == v \o w
<1>1. Joins(q, v, w)
    BY RowPair
<1>2. Len(v) = l /\ Len(w) = n
    BY RowLen
<1> HIDE DEF q
<1>3. ASSUME NEW i \in 1..(l + n) PROVE t[a + i] = q[i] \/ a + i \in x
    <2>1. CASE i <= l
        <3>1. i \in 1..l
            BY <2>1
        <3> QED BY <1>1, <1>2, <3>1 DEF Joins, HoldsBut
    <2>2. CASE l < i
        <3>1. PICK j \in 1..n : i = l + j
            <4>1. i - l \in 1..n /\ i = l + (i - l)
                BY <2>2
            <4> QED BY <4>1
        <3>2. (a + l) + j = a + i
            BY <3>1
        <3>3. t[(a + l) + j] = w[j] \/ (a + l) + j \in x
            BY DEF HoldsBut
        <3>4. q[l + j] = w[j]
            BY <1>1, <1>2 DEF Joins
        <3> QED BY <3>1, <3>2, <3>3, <3>4
    <2> QED BY <2>1, <2>2
<1>4. HoldsBut(t, a, q, l + n, x)
    BY <1>3 DEF HoldsBut
<1> QED BY <1>4 DEF q

\* What is held is held but for any cells.
LEMMA HeldBut ==
    ASSUME NEW t, NEW a, NEW w, NEW l, Holds(t, a, w, l), NEW x
    PROVE  HoldsBut(t, a, w, l, x)
BY DEF Holds, HoldsBut

\* What is passed on of a memory that agrees with it.
LEMMA BytesAgree ==
    ASSUME NEW m, NEW d, NEW n \in Nat, NEW x, Agree(m, d, n, x)
    PROVE  Row(Bytes(m, n), n) /\ \A i \in 1..n : Bytes(m, n)[i] = d[i] \/ i \in x
<1> DEFINE t == SubSeq(m, 1, n)
<1>1. 1 \in Nat /\ 1 <= n + 1 /\ n = n - 1 + 1
    OBVIOUS
<1>2. Row(t, n) /\ PartOf(t, m, 1, n)
    BY <1>1, RowPart
<1> HIDE DEF t
<1>3. \A i \in 1..n : t[i] = m[i]
    <2>1. \A i \in 1..n : 1 + i - 1 = i
        OBVIOUS
    <2> QED BY <1>2, <2>1 DEF PartOf
<1>4. \A i \in 1..n : m[i] = d[i] \/ i \in x
    BY Zenon DEF Agree
<1>5. ASSUME NEW i \in 1..n PROVE t[i] = d[i] \/ i \in x
    BY <1>3, <1>4
<1> QED BY <1>2, <1>5 DEF t, Bytes

\* Zeros that are put somewhere; and zeros after zeros.
LEMMA PutZeros ==
    ASSUME NEW n, NEW m, NEW a, Spot(a), Put(n, m, a, Zeros(32))
    PROVE  /\ Clear(n, a, a + 32)
           /\ \A c, d \in 0..249 : Clear(m, c, d) => Clear(n, c, d)
           /\ \A c, d \in 0..249 : Clear(m, c, d) /\ a <= d => Clear(n, c, a + 32)
<1>1. a \in 0..217
    BY DEF Spot
<1>2. ASSUME NEW i \in 1..249, a < i, i <= a + 32 PROVE n[i] = Num(0)
    <2>1. n[i] = Zeros(32)[i - a]
        BY <1>1, <1>2 DEF Put
    <2>2. i - a \in 1..32
        BY <1>1, <1>2
    <2>3. \A j \in 1..32 : Zeros(32)[j] = Num(0)
        BY DEF Zeros
    <2> QED BY <2>1, <2>2, <2>3
<1>3. \A i \in 1..249 : (i <= a \/ a + 32 < i) => n[i] = m[i]
    BY DEF Put
<1>4. Clear(n, a, a + 32)
    BY <1>2 DEF Clear
<1>5. ASSUME NEW i \in 1..249, m[i] = Num(0) PROVE n[i] = Num(0)
    <2>1. CASE a < i /\ i <= a + 32
        BY <1>2, <2>1
    <2>2. CASE i <= a \/ a + 32 < i
        BY <1>3, <1>5, <2>2
    <2> QED BY <1>1, <2>1, <2>2
<1>6. ASSUME NEW c \in 0..249, NEW d \in 0..249, Clear(m, c, d) PROVE Clear(n, c, d)
    <2>1. ASSUME NEW i \in 1..249, c < i, i <= d PROVE n[i] = Num(0)
        <3>1. m[i] = Num(0)
            BY <1>6, <2>1 DEF Clear
        <3> QED BY <1>5, <3>1
    <2> QED BY <2>1 DEF Clear
<1>7. ASSUME NEW c \in 0..249, NEW d \in 0..249, Clear(m, c, d), a <= d
      PROVE  Clear(n, c, a + 32)
    <2>1. ASSUME NEW i \in 1..249, c < i, i <= a + 32 PROVE n[i] = Num(0)
        <3>1. CASE i <= d
            <4>1. m[i] = Num(0)
                BY <1>7, <2>1, <3>1 DEF Clear
            <4> QED BY <1>5, <4>1
        <3>2. CASE d < i
            <4>1. a < i
                BY <1>1, <1>7, <3>2
            <4> QED BY <1>2, <2>1, <4>1
        <3> QED BY <3>1, <3>2
    <2> QED BY <2>1 DEF Clear
<1> QED BY <1>4, <1>6, <1>7, Zenon
--------------------------------------------------------------------------------
\* The calls, each against the one that is meant.

\* A call is the one that is meant, but for the bytes that spill.
As(c, m, i) ==
    /\ c.to = m.to
    /\ \E n \in Nat : /\ Row(c.data, n) /\ Row(m.data, n)
                      /\ \A b \in 1..n : c.data[b] = m.data[b] \/ Spilled(i, b)

\* A call is one if memory agrees on its data, but for cells that spill.
LEMMA AsIs ==
    ASSUME NEW m, NEW d, NEW n \in Nat, NEW x, Agree(m, d, n, x), NEW i,
           \A b \in x : Spilled(i, b), NEW to, NEW ok
    PROVE  As([to |-> to, data |-> Bytes(m, n), ok |-> ok], [to |-> to, data |-> d], i)
<1> DEFINE b == Bytes(m, n)
           c == [to |-> to, data |-> b, ok |-> ok]
           e == [to |-> to, data |-> d]
<1>1. Row(b, n) /\ \A j \in 1..n : b[j] = d[j] \/ j \in x
    BY BytesAgree
<1> HIDE DEF b
<1>2. c.to = e.to /\ c.data = b /\ e.data = d
    OBVIOUS
<1>3. Row(d, n)
    BY DEF Agree
<1> HIDE DEF c, e
<1>4. As(c, e, i)
    BY <1>1, <1>2, <1>3, Zenon DEF As
<1> QED BY <1>4 DEF b, c, e

\* The same, if memory agrees on all of it.
LEMMA AsExactly ==
    ASSUME NEW m, NEW d, NEW n \in Nat, Agree(m, d, n, {}), NEW i, NEW to, NEW ok
    PROVE  As([to |-> to, data |-> Bytes(m, n), ok |-> ok], [to |-> to, data |-> d], i)
<1>1. \A b \in {} : Spilled(i, b)
    OBVIOUS
<1> DEFINE none == {}
<1>2. Agree(m, d, n, none) /\ \A b \in none : Spilled(i, b)
    BY <1>1
<1> HIDE DEF none
<1> QED BY <1>2, AsIs

\* An amount is stored; and a word ends four bytes behind x from base on: it is between l and
\* e, and what is stored ends before r.
Storing(n, m, a, base, masked, what, k, shift, x) ==
    /\ Amounts(a, base) /\ masked \in BOOLEAN /\ shift \in 0..28
    /\ AmountAt(a, what, k, shift, x) /\ n = StoreAmount(m, a, base, masked)
Ending(x, base, l, e, r) ==
    /\ x \in {32, 64} /\ e \in {36, 68, 100} /\ l \in {4, 36, 68} /\ r \in {64, 96, 128}
    /\ e = x + base + 4 /\ e = l + 32 /\ r = e + 28

\* The words that amounts are stored in.
LEMMA Endings ==
    /\ Ending(32, 0, 4, 36, 64) /\ Ending(64, 0, 36, 68, 96)
    /\ Ending(32, 64, 68, 100, 128) /\ Ending(64, 32, 68, 100, 128)
BY DEF Ending

\* The bytes of the last word before e that are not the amount's, when it is not masked.
Spill(e, shift) == (e - shift + 1)..e

\* The word between l and e is clear, and an amount is stored in it: what is left in memory.
Into(n, m, a, base, masked, what, k, shift, x, l, e, r) ==
    /\ Mem(m) /\ Storing(n, m, a, base, masked, what, k, shift, x)
    /\ Ending(x, base, l, e, r) /\ Clear(m, l, e)
Left(n, m, a, masked, what, k, shift, l, e, r) ==
    /\ Mem(n) /\ HoldsBut(n, l, Amount(what, k, shift), 32, Spill(e, shift))
    /\ masked \/ LastAt(a) => Holds(n, l, Amount(what, k, shift), 32)
    /\ Keeps(n, m, 0, l) /\ Keeps(n, m, r, 249)
    /\ masked /\ Clear(m, e, e + 32) => Clear(n, e, e + 32)

\* What it leaves.
LEMMA AmountStored ==
    ASSUME Sane, NEW m, NEW n, NEW a, NEW base, NEW masked, NEW what, NEW k, NEW shift,
           NEW x, NEW l, NEW e, NEW r, Into(n, m, a, base, masked, what, k, shift, x, l, e, r)
    PROVE  Left(n, m, a, masked, what, k, shift, l, e, r)
<1> USE DEF Into
<1>1. /\ x \in {32, 64} /\ e \in {36, 68, 100} /\ e = x + base + 4 /\ e = l + 32 /\ r = e + 28
      /\ l \in Nat /\ l = e - 32 /\ e \in 36..217
    BY DEF Ending
<1>2. Mem(m)
    OBVIOUS
<1>3. /\ Amounts(a, base) /\ masked \in BOOLEAN /\ shift \in 0..28
      /\ AmountAt(a, what, k, shift, x) /\ n = StoreAmount(m, a, base, masked)
    BY Zenon DEF Storing
<1>4. Clear(m, e - 32, e)
    BY <1>1
<1>5. PICK v : /\ Put(n, m, (e - 4) - shift, v) /\ AmountFirst(v, what, k)
               /\ (masked \/ LastAt(a) => AmountOnly(v))
    BY <1>1, <1>3, <1>2, AmountPuts
<1>6. Lands(n, m, v, what, k, shift, e)
    BY <1>1, <1>3, <1>4, <1>5, Zenon DEF Lands
<1>7. Landed(n, m, v, what, k, shift, e)
    BY <1>6, AmountLands
<1> DEFINE w == Amount(what, k, shift)
<1>8. /\ HoldsBut(n, e - 32, w, 32, (e - shift + 1)..e)
      /\ AmountOnly(v) => Holds(n, e - 32, w, 32)
      /\ Keeps(n, m, 0, e - 32) /\ Keeps(n, m, e + 28, 249)
      /\ AmountOnly(v) /\ Clear(m, e, e + 32) => Clear(n, e, e + 32)
    BY <1>7, Zenon DEF Landed
<1> HIDE DEF w
<1>9. Mem(n)
    BY <1>5 DEF Put
<1>10. Keeps(n, m, 0, l) /\ Keeps(n, m, r, 249) /\ (AmountOnly(v) => Holds(n, l, w, 32))
    BY <1>1, <1>8
<1>11. HoldsBut(n, l, w, 32, Spill(e, shift))
    BY <1>1, <1>8 DEF Spill
<1>12. masked /\ Clear(m, e, e + 32) => Clear(n, e, e + 32)
    BY <1>5, <1>8
<1> QED BY <1>5, <1>9, <1>10, <1>11, <1>12, Zenon DEF w, Left

\* An amount is the next word of what is agreed on.
LEMMA AmountNext ==
    ASSUME Sane, NEW m, Mem(m), NEW n, NEW a, NEW base, NEW masked, NEW what, NEW k, NEW shift,
           NEW x, Storing(n, m, a, base, masked, what, k, shift, x), masked \/ LastAt(a),
           NEW l, NEW e, NEW r, Ending(x, base, l, e, r), Clear(m, l, e),
           NEW d, NEW y, Agree(m, d, l, y)
    PROVE  Agree(n, d \o Amount(what, k, shift), e, y) /\ Keeps(n, m, r, 249)
<1> DEFINE w == Amount(what, k, shift)
<1>1. Holds(n, l, w, 32) /\ Keeps(n, m, 0, l) /\ Keeps(n, m, r, 249)
    <2>1. Into(n, m, a, base, masked, what, k, shift, x, l, e, r)
        BY Zenon DEF Into
    <2>2. Left(n, m, a, masked, what, k, shift, l, e, r)
        BY <2>1, AmountStored
    <2> QED BY <2>2, Zenon DEF Left
<1>2. l \in 0..249 /\ l \in Nat /\ l + 32 = e
    BY DEF Ending
<1>3. Row(w, 32)
    <2>1. shift \in 0..28
        BY Zenon DEF Storing
    <2> QED BY <2>1, AmountCells
<1>4. Agree(n, d, l, y)
    BY <1>1, <1>2, AgreeKept
<1> HIDE DEF w
<1>5. Agree(n, d \o w, l + 32, y)
    BY <1>1, <1>2, <1>3, <1>4, AgreeMoreHeld
<1> QED BY <1>1, <1>2, <1>5 DEF w

\* The two amounts that are asked of the pair, in the order of its tokens.
Asked(s, k) == IF s.buys = s.weth0 THEN Zeros(32) \o Out(s, k) ELSE Out(s, k) \o Zeros(32)

\* What is meant for a V2 pair: a payment, and the request for a swap.
PaidToBuy(s, k) ==
    [to |-> Weth, data |-> ((Signature("transferFrom") \o Word(This)) \o Word(Pool(k)))
                           \o (IF tx.multi THEN Amount("in", k, s.in) ELSE Value)]
PaidToSell(s, k) ==
    [to |-> Token(k), data |-> (Signature("transfer") \o Word(Pool(k))) \o Amount("in", k, s.in)]
AskedFor(s, k) ==
    [to |-> Pool(k),
     data |-> (((Signature("swap") \o Asked(s, k)) \o Word(This)) \o Word(<<Num(128)>>))
              \o Zeros(32)]

\* It is these.
LEMMA MeantOfV2 ==
    ASSUME NEW s, s.venue = "V2", NEW k
    PROVE  /\ s.buys => MeantBy(s, k)[1] = PaidToBuy(s, k)
           /\ ~s.buys => MeantBy(s, k)[1] = PaidToSell(s, k)
           /\ MeantBy(s, k)[2] = AskedFor(s, k)
<1>1. /\ s.buys => Sold(s, k) = Weth /\ In(s, k) = IF tx.multi THEN Amount("in", k, s.in) ELSE Value
      /\ ~s.buys => Sold(s, k) = Token(k) /\ In(s, k) = Amount("in", k, s.in)
    <2>1. ASSUME s.buys PROVE Sold(s, k) = Weth
        BY <2>1 DEF Sold
    <2>2. ASSUME ~s.buys PROVE Sold(s, k) = Token(k)
        BY <2>2 DEF Sold
    <2>3. ASSUME s.buys PROVE In(s, k) = IF tx.multi THEN Amount("in", k, s.in) ELSE Value
        BY <2>3 DEF In
    <2>4. ASSUME ~s.buys PROVE In(s, k) = Amount("in", k, s.in)
        BY <2>4 DEF In
    <2> QED BY <2>1, <2>2, <2>3, <2>4
<1> DEFINE a == [to |-> Sold(s, k),
                 data |-> (IF s.buys THEN Signature("transferFrom") \o Word(This)
                           ELSE Signature("transfer")) \o Word(Pool(k)) \o In(s, k)]
           b == [to |-> Pool(k),
                 data |-> Signature("swap") \o
                          (IF s.buys = s.weth0 THEN Zeros(32) \o Out(s, k) ELSE Out(s, k) \o Zeros(32)) \o
                          Word(This) \o Word(<<Num(128)>>) \o Zeros(32)]
<1>2. MeantBy(s, k) = <<a, b>>
    BY Zenon DEF MeantBy
<1>3. b = AskedFor(s, k)
    BY DEF AskedFor, Asked
<1>4. s.buys => a = PaidToBuy(s, k)
    BY <1>1, Zenon DEF PaidToBuy
<1>5. ~s.buys => a = PaidToSell(s, k)
    BY <1>1, Zenon DEF PaidToSell
<1> HIDE DEF a, b
<1>6. MeantBy(s, k)[1] = a /\ MeantBy(s, k)[2] = b
    BY <1>2
<1> QED BY <1>3, <1>4, <1>5, <1>6, Zenon

\* A V2 pair is paid as it is meant to be.
LEMMA PaidAsMeant ==
    ASSUME Sane, Mem(mem), NEW k, NEW q, NEW n, Works(k, q, n), NEW s, s = tx.swaps[k],
           s.venue = "V2", pc = Routine(s, tx.multi), Clear(mem, 36, 249), NEW ok, NEW i
    PROVE  /\ As([to |-> Pays.to, data |-> Bytes(Pays.mem, Pays.len), ok |-> ok], MeantBy(s, k)[1], i)
           /\ Clear(Pays.mem, 132, 249)
<1> DEFINE this == Word(This)
           pool == Word(Pool(k))
           amount == Amount("in", k, s.in)
           M == Pays.mem
<1>1. /\ s.buys \in BOOLEAN /\ s.weth0 \in BOOLEAN /\ tx.multi \in BOOLEAN
      /\ s.in \in 0..28
    BY CalldataAssumption DEF Works, Swap
<1>2. Read(1, 20) = Pool(k)
    BY ReadsPool
<1>3. Full(this) /\ Full(pool) /\ Full(Value)
    BY <1>2, ReadWord, OtherWords
<1>4. ASSUME s.buys PROVE MeantBy(s, k)[1] = PaidToBuy(s, k)
    BY <1>4, MeantOfV2
<1>5. ASSUME ~s.buys PROVE MeantBy(s, k)[1] = PaidToSell(s, k)
    BY <1>5, MeantOfV2
<1>6. CASE s.buys
    <2> DEFINE f == "transferFrom"
               sig == Signature(f) \o Zeros(28)
               head == Signature(f) \o this
    <2>1. Full(sig) /\ pool = Word(Read(1, 20))
        BY <1>2, SignatureWord
    <2>2. CASE ~tx.multi
        <3> DEFINE ws == <<<<0, sig>>, <<4, this>>, <<36, pool>>, <<68, Value>>>>
                   d == (head \o pool) \o Value
        <3>1. pc \in {"v2_input0", "v2_input1"}
            BY <1>1, <1>6, <2>2 DEF Routine
        <3>2. Pays.to = Weth /\ Pays.len = 100 /\ M = StoreAll(mem, ws)
            BY <2>1, <3>1 DEF Pays
        <3>3. MeantBy(s, k)[1] = [to |-> Weth, data |-> d]
            BY <1>4, <1>6, <2>2 DEF PaidToBuy
        <3> HIDE DEF sig, M, pool, this
        <3>4. Fits(ws)
            BY <1>3, <2>1, Spots, FitsFour, ZenonT(30)
        <3>5. PICK g, h, j : Put(g, mem, 0, sig) /\ Put(h, g, 4, this) /\ Put(j, h, 36, pool)
                             /\ Put(M, j, 68, Value)
            <4>1. \E g, h, j : Put(g, mem, 0, sig) /\ Put(h, g, 4, this) /\ Put(j, h, 36, pool)
                              /\ Put(StoreAll(mem, ws), j, 68, Value)
                BY <3>4, FourPuts
            <4> QED BY <3>2, <4>1, Zenon
        <3>6. Agree(h, head, 36, {}) /\ Keeps(h, mem, 36, 249)
            BY <1>3, <3>5, PutHead, Zenon DEF sig
        <3> HIDE DEF head
        <3>7. Agree(j, head \o pool, 68, {}) /\ Keeps(j, h, 68, 249)
            <4>1. Agree(j, head \o pool, 36 + 32, {}) /\ Keeps(j, h, 36 + 32, 249)
                BY <1>3, <3>5, <3>6, Spots, PutNext, Zenon
            <4> QED BY <4>1
        <3>8. Agree(M, d, 100, {}) /\ Keeps(M, j, 100, 249)
            <4>1. Agree(M, d, 68 + 32, {}) /\ Keeps(M, j, 68 + 32, 249)
                BY <1>3, <3>5, <3>7, Spots, PutNext, Zenon
            <4> QED BY <4>1
        <3> HIDE DEF d
        <3>9. As([to |-> Pays.to, data |-> Bytes(M, Pays.len), ok |-> ok], MeantBy(s, k)[1], i)
            <4>1. 100 \in Nat
                OBVIOUS
            <4>2. As([to |-> Weth, data |-> Bytes(M, 100), ok |-> ok], [to |-> Weth, data |-> d], i)
                BY <3>8, <4>1, AsExactly
            <4> QED BY <3>2, <3>3, <4>2
        <3>10. Clear(M, 132, 249)
            BY <3>6, <3>7, <3>8 DEF Clear, Keeps
        <3> QED BY <3>9, <3>10 DEF M
    <2>3. CASE tx.multi
        <3> DEFINE ws == <<<<0, sig>>, <<4, this>>, <<36, pool>>>>
                   d == (head \o pool) \o amount
                   m == StoreAll(mem, ws)
        <3>1. pc = "multi_call_v2_input"
            BY <1>1, <1>6, <2>3 DEF Routine
        <3>2. Pays.to = Weth /\ Pays.len = 100 /\ M = StoreAmount(m, 21, 64, TRUE)
            BY <2>1, <3>1 DEF Pays
        <3>3. MeantBy(s, k)[1] = [to |-> Weth, data |-> d]
            BY <1>4, <1>6, <2>3 DEF PaidToBuy
        <3>4. AmountAt(21, "in", k, s.in, 32)
            BY <1>6, <2>3, LoadsAmounts
        <3> HIDE DEF sig, M, pool, this
        <3>5. Fits(ws)
            BY <1>3, <2>1, Spots, FitsThree, Zenon
        <3>6. PICK g, h : Put(g, mem, 0, sig) /\ Put(h, g, 4, this) /\ Put(m, h, 36, pool)
            BY <3>5, ThreePuts, Zenon
        <3> HIDE DEF m
        <3>7. Agree(h, head, 36, {}) /\ Keeps(h, mem, 36, 249)
            BY <1>3, <3>6, PutHead, Zenon DEF sig
        <3> HIDE DEF head
        <3>8. Agree(m, head \o pool, 68, {}) /\ Keeps(m, h, 68, 249) /\ Mem(m)
            <4>1. Agree(m, head \o pool, 36 + 32, {}) /\ Keeps(m, h, 36 + 32, 249)
                BY <1>3, <3>6, <3>7, Spots, PutNext, Zenon
            <4>2. Mem(m)
                BY <3>6 DEF Put
            <4> QED BY <4>1, <4>2
        <3>9. Clear(m, 68, 249)
            BY <3>7, <3>8 DEF Clear, Keeps
        <3>10. Agree(M, d, 100, {}) /\ Keeps(M, m, 128, 249)
            <4> DEFINE b == TRUE
            <4>1. Storing(M, m, 21, 64, b, "in", k, s.in, 32) /\ (b \/ LastAt(21))
                BY <1>1, <3>2, <3>4, Spots DEF Storing
            <4> HIDE DEF b
            <4>2. Clear(m, 68, 100)
                BY <3>9 DEF Clear
            <4> QED BY <3>8, <4>1, <4>2, Endings, AmountNext
        <3> HIDE DEF d
        <3>11. As([to |-> Pays.to, data |-> Bytes(M, Pays.len), ok |-> ok], MeantBy(s, k)[1], i)
            <4>1. 100 \in Nat
                OBVIOUS
            <4>2. As([to |-> Weth, data |-> Bytes(M, 100), ok |-> ok], [to |-> Weth, data |-> d], i)
                BY <3>10, <4>1, AsExactly
            <4> QED BY <3>2, <3>3, <4>2
        <3>12. Clear(M, 132, 249)
            BY <3>9, <3>10 DEF Clear, Keeps
        <3> QED BY <3>11, <3>12 DEF M
    <2> QED BY <1>1, <2>2, <2>3
<1>7. CASE ~s.buys
    <2> DEFINE f == "transfer"
               sig == Signature(f) \o Zeros(28)
               head == Signature(f) \o pool
               ws == <<<<0, sig>>, <<4, pool>>>>
               d == head \o amount
               m == StoreAll(mem, ws)
               b == pc \in V2Multis
    <2>1. Full(sig) /\ pool = Word(Read(1, 20))
        BY <1>2, SignatureWord
    <2>2. pc \in {"v2_output0", "v2_output1", "multi_call_v2_output"}
        BY <1>1, <1>7 DEF Routine
    <2>3. Pays.to = Read(21, 20) /\ Pays.len = 68 /\ M = StoreAmount(m, 41, 0, b)
        BY <2>1, <2>2 DEF Pays
    <2>4. Read(21, 20) = Token(k)
        BY <1>7, ReadsToken
    <2>5. MeantBy(s, k)[1] = [to |-> Token(k), data |-> d]
        BY <1>5, <1>7 DEF PaidToSell
    <2>6. AmountAt(41, "in", k, s.in, 64) /\ (b \/ LastAt(41))
        <3>1. ~tx.multi \/ b
            BY <1>1, <1>7 DEF Routine, V2Multis
        <3> QED BY <1>7, <3>1, LoadsAmounts
    <2>7. b \in BOOLEAN
        OBVIOUS
    <2> HIDE DEF sig, M, pool, this, b
    <2>8. Fits(ws)
        BY <1>3, <2>1, Spots, FitsTwo, Zenon
    <2>9. PICK h : Put(h, mem, 0, sig) /\ Put(m, h, 4, pool)
        BY <2>8, TwoPuts, Zenon
    <2> HIDE DEF m
    <2>10. Agree(m, head, 36, {}) /\ Keeps(m, mem, 36, 249) /\ Mem(m)
        <3>1. Agree(m, head, 36, {}) /\ Keeps(m, mem, 36, 249)
            BY <1>3, <2>9, PutHead, ZenonT(30) DEF sig
        <3>2. Mem(m)
            BY <2>9 DEF Put
        <3> QED BY <3>1, <3>2
    <2> HIDE DEF head
    <2>11. Clear(m, 36, 249)
        BY <2>10 DEF Clear, Keeps
    <2>12. Agree(M, d, 68, {}) /\ Keeps(M, m, 96, 249)
        <3>1. Storing(M, m, 41, 0, b, "in", k, s.in, 64)
            BY <1>1, <2>3, <2>6, <2>7, Spots DEF Storing
        <3>2. Clear(m, 36, 68)
            BY <2>11 DEF Clear
        <3> QED BY <2>6, <2>10, <3>1, <3>2, Endings, AmountNext
    <2> HIDE DEF d
    <2>13. As([to |-> Pays.to, data |-> Bytes(M, Pays.len), ok |-> ok], MeantBy(s, k)[1], i)
        <3>1. 68 \in Nat
            OBVIOUS
        <3>2. As([to |-> Token(k), data |-> Bytes(M, 68), ok |-> ok], [to |-> Token(k), data |-> d], i)
            BY <2>12, <3>1, AsExactly
        <3> QED BY <2>3, <2>4, <2>5, <3>2
    <2>14. Clear(M, 132, 249)
        BY <2>11, <2>12 DEF Clear, Keeps
    <2> QED BY <2>13, <2>14 DEF M
<1> QED BY <1>1, <1>6, <1>7

\* Memory p holds the selector of swap and its two amounts, but for the bytes in x, and nothing
\* behind them.
Ready(p, amounts, x) ==
    /\ Mem(p) /\ Row(amounts, 64) /\ Agree(p, Signature("swap"), 4, x)
    /\ HoldsBut(p, 4, amounts, 64, x) /\ Clear(p, 132, 249)

\* The rest of its arguments follow.
LEMMA SwapTail ==
    ASSUME NEW p, NEW amounts, NEW x, Ready(p, amounts, x),
           NEW m, m = StoreAll(p, <<<<68, Word(This)>>, <<100, Word(<<Num(128)>>)>>>>)
    PROVE  /\ Agree(m, (((Signature("swap") \o amounts) \o Word(This)) \o Word(<<Num(128)>>))
                       \o Zeros(32), 164, x)
           /\ Clear(m, 132, 249) /\ Mem(m)
<1> DEFINE s == Signature("swap")
           this == Word(This)
           len == Word(<<Num(128)>>)
           z == Zeros(32)
           ws == <<<<68, this>>, <<100, len>>>>
<1>1. Full(this) /\ Full(len) /\ Full(z)
    BY OtherWords, NumWord
<1>2. Mem(p) /\ Row(amounts, 64) /\ Agree(p, s, 4, x) /\ HoldsBut(p, 4, amounts, 64, x)
    BY DEF Ready
<1> HIDE DEF s, this, len
<1>3. Fits(ws)
    BY <1>1, Spots, FitsTwo, Zenon
<1>4. PICK h : Put(h, p, 68, this) /\ Put(m, h, 100, len)
    <2>1. m = StoreAll(p, ws)
        BY DEF this, len
    <2>2. \E h : Put(h, p, 68, this) /\ Put(StoreAll(p, ws), h, 100, len)
        BY <1>2, <1>3, TwoPuts, ZenonT(30)
    <2> HIDE DEF ws
    <2> QED BY <2>1, <2>2, Zenon
<1>5. Agree(p, s \o amounts, 68, x)
    <2>1. 4 \in Nat /\ 64 \in Nat /\ 4 + 64 = 68
        OBVIOUS
    <2>2. Agree(p, s \o amounts, 4 + 64, x)
        BY <1>2, <2>1, AgreeMore
    <2> QED BY <2>1, <2>2
<1>6. Agree(h, (s \o amounts) \o this, 100, x) /\ Keeps(h, p, 100, 249)
    <2>1. Agree(h, (s \o amounts) \o this, 68 + 32, x) /\ Keeps(h, p, 68 + 32, 249)
        BY <1>1, <1>4, <1>5, Spots, PutNext, Zenon
    <2> QED BY <2>1
<1>7. Agree(m, ((s \o amounts) \o this) \o len, 132, x) /\ Keeps(m, h, 132, 249)
    <2>1. /\ Agree(m, ((s \o amounts) \o this) \o len, 100 + 32, x)
          /\ Keeps(m, h, 100 + 32, 249)
        BY <1>1, <1>4, <1>6, Spots, PutNext, ZenonT(30)
    <2> QED BY <2>1
<1>8. Clear(m, 132, 249)
    BY <1>6, <1>7 DEF Ready, Clear, Keeps
<1>9. Holds(m, 132, z, 32)
    <2>1. Clear(m, 132, 132 + 32) /\ 132 \in 0..217
        BY <1>8 DEF Clear
    <2> QED BY <2>1, ClearZeros
<1>10. Agree(m, (((s \o amounts) \o this) \o len) \o z, 164, x)
    <2> DEFINE d == ((s \o amounts) \o this) \o len
    <2>1. Agree(m, d, 132, x) /\ Row(z, 32) /\ 132 \in Nat /\ 32 \in Nat
        BY <1>1, <1>7 DEF Full
    <2> HIDE DEF d, z
    <2>2. Agree(m, d \o z, 132 + 32, x)
        BY <1>9, <2>1, AgreeMoreHeld, Zenon
    <2> QED BY <2>2 DEF d
<1>11. Mem(m)
    BY <1>4 DEF Put
<1> QED BY <1>8, <1>10, <1>11 DEF s, this, len, z

\* Both amounts are there.
LEMMA ReadyOf ==
    ASSUME NEW p, Mem(p), NEW x, Agree(p, Signature("swap"), 4, x), Clear(p, 132, 249),
           NEW v, NEW w, Row(v, 32), Row(w, 32), HoldsBut(p, 4, v, 32, x), HoldsBut(p, 36, w, 32, x)
    PROVE  Ready(p, v \o w, x)
<1>1. 4 \in Nat /\ 32 \in Nat /\ 4 + 32 = 36 /\ 32 + 32 = 64
    OBVIOUS
<1>2. HoldsBut(p, 4 + 32, w, 32, x)
    BY <1>1
<1>3. Row(v \o w, 32 + 32)
    BY <1>1, RowPair
<1>4. HoldsBut(p, 4, v \o w, 32 + 32, x)
    BY <1>1, <1>2, HoldsButBoth
<1> QED BY <1>1, <1>3, <1>4 DEF Ready

\* The selector and two words.
LEMMA SwapWords ==
    ASSUME Mem(mem), Clear(mem, 132, 249), NEW v, NEW w, Full(v), Full(w), NEW x,
           NEW p, p = StoreAll(Store(mem, 0, Signature("swap") \o Zeros(28)), <<<<4, v>>, <<36, w>>>>)
    PROVE  Ready(p, v \o w, x) /\ Holds(p, 4, v, 32) /\ Holds(p, 36, w, 32)
<1> DEFINE f == "swap"
           s == Signature(f) \o Zeros(28)
           m == Store(mem, 0, s)
           ws == <<<<4, v>>, <<36, w>>>>
<1>1. Full(s)
    BY SignatureWord
<1> HIDE DEF s
<1>2. Put(m, mem, 0, s) /\ Mem(m)
    <2>1. Put(m, mem, 0, s)
        BY <1>1, Spots, StorePuts
    <2> QED BY <2>1 DEF Put
<1>3. p = StoreAll(m, ws) /\ Fits(ws)
    <2>1. Fits(ws)
        BY Spots, FitsTwo, Zenon
    <2> QED BY <2>1 DEF s
<1> HIDE DEF m
<1>4. PICK h : Put(h, m, 4, v) /\ Put(p, h, 36, w)
    BY <1>2, <1>3, TwoPuts, Zenon
<1>5. Agree(m, Signature(f), 4, x) /\ Keeps(m, mem, 32, 249) /\ Keeps(h, mem, 36, 249)
    BY <1>2, <1>4, PutHead, ZenonT(30) DEF s
<1>6. Holds(h, 4, v, 32) /\ Keeps(h, m, 0, 4)
    BY <1>4, PutHere, Spots, Zenon
<1>7. Holds(p, 36, w, 32) /\ Keeps(p, h, 0, 36) /\ Keeps(p, h, 36 + 32, 249)
    BY <1>4, PutHere, Spots, Zenon
<1>8. Holds(p, 4, v, 32)
    BY <1>6, <1>7, KeptHolds
<1>9. Agree(p, Signature(f), 4, x)
    <2>1. 4 \in 0..249
        OBVIOUS
    <2>2. Agree(h, Signature(f), 4, x)
        BY <1>5, <1>6, <2>1, AgreeKept, Zenon
    <2>3. Keeps(p, h, 0, 4)
        BY <1>7, KeptLess, Zenon
    <2> QED BY <2>1, <2>2, <2>3, AgreeKept, Zenon
<1>10. Clear(p, 132, 249)
    <2>1. 36 \in 0..132 /\ 36 + 32 \in 0..132
        OBVIOUS
    <2>2. Clear(h, 132, 249)
        BY <1>5, <2>1, EndClear, Zenon
    <2> QED BY <1>7, <2>1, <2>2, EndClear, ZenonT(30)
<1>11. HoldsBut(p, 4, v, 32, x) /\ HoldsBut(p, 36, w, 32, x)
    BY <1>7, <1>8, HeldBut
<1>12. Mem(p)
    BY <1>4 DEF Put
<1> QED BY <1>7, <1>8, <1>9, <1>10, <1>11, <1>12, ReadyOf DEF Full

\* The selector, and two words that are cleared.
Blanked(c, x) ==
    /\ Ready(c, Zeros(32) \o Zeros(32), x) /\ Holds(c, 4, Zeros(32), 32)
    /\ Holds(c, 36, Zeros(32), 32)

\* An amount in the second of them, masked or not.
LEMMA SwapHigh ==
    ASSUME Sane, NEW c, NEW x, Blanked(c, x), NEW p, NEW a, NEW masked, NEW what, NEW k, NEW shift,
           Storing(p, c, a, 0, masked, what, k, shift, 64), masked \/ x = Spill(68, shift)
    PROVE  Ready(p, Zeros(32) \o Amount(what, k, shift), x)
<1> DEFINE z == Zeros(32)
           w == Amount(what, k, shift)
<1>1. Row(z, 32) /\ Row(w, 32)
    <2>1. shift \in 0..28
        BY Zenon DEF Storing
    <2> QED BY <2>1, AmountCells, RowZeros
<1>2. Clear(c, 36, 68)
    <2>1. Clear(c, 36, 36 + 32) /\ 36 + 32 = 68
        BY ClearZeros DEF Blanked
    <2> QED BY <2>1
<1>3. Mem(c) /\ Agree(c, Signature("swap"), 4, x) /\ Clear(c, 132, 249) /\ Holds(c, 4, z, 32)
    BY DEF Blanked, Ready
<1> HIDE DEF z, w
<1>4. /\ Mem(p) /\ HoldsBut(p, 36, w, 32, Spill(68, shift))
      /\ masked \/ LastAt(a) => Holds(p, 36, w, 32)
      /\ Keeps(p, c, 0, 36) /\ Keeps(p, c, 96, 249)
    <2>1. Into(p, c, a, 0, masked, what, k, shift, 64, 36, 68, 96)
        BY <1>2, <1>3, Endings, Zenon DEF Into
    <2>2. Left(p, c, a, masked, what, k, shift, 36, 68, 96)
        BY <2>1, AmountStored
    <2> QED BY <2>2, Zenon DEF Left, w
<1>5. HoldsBut(p, 36, w, 32, x)
    BY <1>4, HeldBut
<1>6. Agree(p, Signature("swap"), 4, x)
    <2>1. 4 \in 0..249
        OBVIOUS
    <2>2. Keeps(p, c, 0, 4)
        BY <1>4 DEF Keeps
    <2> QED BY <1>3, <2>1, <2>2, AgreeKept, Zenon
<1>7. HoldsBut(p, 4, z, 32, x)
    <2>1. Holds(p, 4, z, 32)
        BY <1>3, <1>4, KeptHolds
    <2> QED BY <2>1, HeldBut
<1>8. Clear(p, 132, 249)
    BY <1>3, <1>4, EndClear
<1> QED BY <1>1, <1>4, <1>5, <1>6, <1>7, <1>8, ReadyOf DEF z, w

\* A masked amount in the first of them.
LEMMA SwapLow ==
    ASSUME Sane, NEW c, NEW x, Blanked(c, x), NEW p, NEW a, NEW masked, NEW what, NEW k, NEW shift,
           Storing(p, c, a, 0, masked, what, k, shift, 32), masked
    PROVE  Ready(p, Amount(what, k, shift) \o Zeros(32), x)
<1> DEFINE z == Zeros(32)
           w == Amount(what, k, shift)
<1>1. Row(z, 32) /\ Row(w, 32)
    <2>1. shift \in 0..28
        BY Zenon DEF Storing
    <2> QED BY <2>1, AmountCells, RowZeros
<1>2. Clear(c, 4, 36) /\ Clear(c, 36, 68)
    <2>1. Clear(c, 4, 4 + 32) /\ Clear(c, 36, 36 + 32) /\ 36 + 32 = 68 /\ 4 + 32 = 36
        BY ClearZeros DEF Blanked
    <2> QED BY <2>1
<1>3. Mem(c) /\ Agree(c, Signature("swap"), 4, x) /\ Clear(c, 132, 249)
    BY DEF Blanked, Ready
<1> HIDE DEF w
<1>4. /\ Mem(p) /\ Holds(p, 4, w, 32) /\ Keeps(p, c, 0, 4) /\ Keeps(p, c, 64, 249)
      /\ Clear(p, 36, 68)
    <2>1. Into(p, c, a, 0, masked, what, k, shift, 32, 4, 36, 64)
        BY <1>2, <1>3, Endings, Zenon DEF Into
    <2>2. Left(p, c, a, masked, what, k, shift, 4, 36, 64)
        BY <2>1, AmountStored
    <2>3. /\ Mem(p) /\ (masked \/ LastAt(a) => Holds(p, 4, w, 32))
          /\ Keeps(p, c, 0, 4) /\ Keeps(p, c, 64, 249)
          /\ masked /\ Clear(c, 36, 36 + 32) => Clear(p, 36, 36 + 32)
        BY <2>2, Zenon DEF Left, w
    <2>4. 36 + 32 = 68
        OBVIOUS
    <2> QED BY <1>2, <2>3, <2>4
<1>5. HoldsBut(p, 4, w, 32, x)
    BY <1>4, HeldBut
<1>6. Agree(p, Signature("swap"), 4, x)
    <2>1. 4 \in 0..249
        OBVIOUS
    <2> QED BY <1>3, <1>4, <2>1, AgreeKept, Zenon
<1>7. HoldsBut(p, 36, z, 32, x)
    <2>1. Clear(p, 36, 36 + 32) /\ 36 \in 0..217
        BY <1>4
    <2>2. Holds(p, 36, z, 32)
        BY <2>1, ClearZeros
    <2> HIDE DEF z
    <2> QED BY <2>2, HeldBut
<1> HIDE DEF z
<1>8. Clear(p, 132, 249)
    BY <1>3, <1>4, EndClear
<1> QED BY <1>1, <1>4, <1>5, <1>6, <1>7, <1>8, ReadyOf DEF z, w

\* An amount in the first of them before the second is cleared.
LEMMA SwapSpilling ==
    ASSUME Sane, Mem(mem), Clear(mem, 132, 249), NEW g, NEW p, NEW k, NEW what, NEW shift,
           g = Store(Store(mem, 0, Signature("swap") \o Zeros(28)), 4, Zeros(32)),
           NEW h, Storing(h, g, 21, 0, FALSE, what, k, shift, 32), p = Store(h, 36, Zeros(32))
    PROVE  Ready(p, Amount(what, k, shift) \o Zeros(32), Spill(36, shift))
<1> DEFINE f == "swap"
           s == Signature(f) \o Zeros(28)
           z == Zeros(32)
           w == Amount(what, k, shift)
           m == Store(mem, 0, s)
           x == Spill(36, shift)
<1>1. Full(s) /\ Full(z)
    BY SignatureWord, OtherWords
<1>2. Row(w, 32)
    <2>1. shift \in 0..28
        BY Zenon DEF Storing
    <2> QED BY <2>1, AmountCells
<1> HIDE DEF s, w, x
<1>3. Put(m, mem, 0, s) /\ Mem(m)
    <2>1. Put(m, mem, 0, s)
        BY <1>1, Spots, StorePuts
    <2> QED BY <2>1 DEF Put
<1>4. Put(g, m, 4, z) /\ Mem(g)
    <2>1. g = Store(m, 4, z)
        BY DEF s
    <2> HIDE DEF m, z
    <2>2. Put(g, m, 4, z)
        BY <1>1, <1>3, <2>1, Spots, StorePuts
    <2> QED BY <2>2 DEF Put
<1> HIDE DEF m
<1>5. Agree(m, Signature(f), 4, x) /\ Keeps(g, mem, 36, 249)
    BY <1>1, <1>3, <1>4, PutHead, Zenon DEF s
<1>6. Keeps(g, m, 0, 4) /\ Clear(g, 4, 36)
    <2>1. Clear(g, 4, 4 + 32)
        BY <1>4, PutZeros, Spots, Zenon
    <2>2. Keeps(g, m, 0, 4)
        BY <1>4, PutHere, Spots, Zenon
    <2> QED BY <2>1, <2>2
<1>7. Mem(h) /\ HoldsBut(h, 4, w, 32, x) /\ Keeps(h, g, 0, 4) /\ Keeps(h, g, 64, 249)
    <2>1. Into(h, g, 21, 0, FALSE, what, k, shift, 32, 4, 36, 64)
        BY <1>4, <1>6, Endings, Zenon DEF Into
    <2>2. Left(h, g, 21, FALSE, what, k, shift, 4, 36, 64)
        BY <2>1, AmountStored
    <2> QED BY <2>2, Zenon DEF Left, w, x
<1>8. Put(p, h, 36, z)
    BY <1>1, <1>7, Spots, StorePuts
<1>9. Holds(p, 36, z, 32) /\ Keeps(p, h, 0, 36) /\ Keeps(p, h, 36 + 32, 249)
    BY <1>8, PutHere, Spots, Zenon
<1>10. HoldsBut(p, 36, z, 32, x)
    BY <1>9, HeldBut
<1>11. HoldsBut(p, 4, w, 32, x)
    <2>1. \A i \in 1..32 : 4 + i \in 1..249 /\ 0 < 4 + i /\ 4 + i <= 36
        OBVIOUS
    <2> QED BY <1>7, <1>9, <2>1 DEF HoldsBut, Keeps
<1>12. Agree(p, Signature(f), 4, x)
    <2>1. 4 \in 0..249
        OBVIOUS
    <2>2. Agree(g, Signature(f), 4, x)
        BY <1>5, <1>6, <2>1, AgreeKept, Zenon
    <2>3. Agree(h, Signature(f), 4, x)
        BY <1>7, <2>1, <2>2, AgreeKept, Zenon
    <2>4. Keeps(p, h, 0, 4)
        BY <1>9, KeptLess, Zenon
    <2> QED BY <2>1, <2>3, <2>4, AgreeKept, Zenon
<1>13. Clear(p, 132, 249)
    <2>1. 36 \in 0..132 /\ 64 \in 0..132 /\ 36 + 32 \in 0..132
        OBVIOUS
    <2>2. Clear(g, 132, 249)
        BY <1>5, <2>1, EndClear, Zenon
    <2>3. Clear(h, 132, 249)
        BY <1>7, <2>1, <2>2, EndClear, Zenon
    <2> QED BY <1>9, <2>1, <2>3, EndClear, ZenonT(30)
<1>14. Mem(p) /\ Row(z, 32)
    BY <1>1, <1>8 DEF Put, Full
<1> HIDE DEF z
<1> QED BY <1>2, <1>10, <1>11, <1>12, <1>13, <1>14, ReadyOf DEF z, w, x

\* The words behind the amounts.
Rest == <<<<68, Word(This)>>, <<100, Word(<<Num(128)>>)>>>>

\* What the routines write before the rest of the arguments, to m.
Writes(p, m, c, z) ==
    /\ SwapArguments = StoreAll(p, Rest)
    /\ pc = "swap_output0" => p = StoreAll(m, <<<<4, Value>>, <<36, z>>>>)
    /\ pc = "swap_output1" => p = StoreAll(m, <<<<4, z>>, <<36, Value>>>>)
    /\ pc = "swap_input0" => p = StoreAmount(c, 21, 0, FALSE)
    /\ pc = "swap_input1" => p = Store(StoreAmount(Store(m, 4, z), 21, 0, FALSE), 36, z)
    /\ pc = "swap_multi_input" => p = StoreAmount(c, 26, 0, TRUE)
    /\ pc = "swap_multi_output" => p = StoreAmount(c, 46, 0, TRUE)

\* One of them is what is written.
LEMMA SwapFirst ==
    ASSUME NEW m, m = Store(mem, 0, Signature("swap") \o Zeros(28)), NEW z, z = Zeros(32),
           NEW c, c = StoreAll(m, <<<<4, z>>, <<36, z>>>>), pc \in V2Swaps
    PROVE  \E p : Writes(p, m, c, z)
<1> DEFINE o0 == StoreAll(m, <<<<4, Value>>, <<36, z>>>>)
           o1 == StoreAll(m, <<<<4, z>>, <<36, Value>>>>)
           i0 == StoreAmount(c, 21, 0, FALSE)
           i1 == Store(StoreAmount(Store(m, 4, z), 21, 0, FALSE), 36, z)
           mi == StoreAmount(c, 26, 0, TRUE)
           mo == StoreAmount(c, 46, 0, TRUE)
           p == CASE pc = "swap_output0" -> o0
                  [] pc = "swap_output1" -> o1
                  [] pc = "swap_input0" -> i0
                  [] pc = "swap_input1" -> i1
                  [] pc = "swap_multi_input" -> mi
                  [] pc = "swap_multi_output" -> mo
<1>1. SwapArguments = StoreAll(p, Rest)
    BY DEF SwapArguments, Rest
<1> HIDE DEF o0, o1, i0, i1, mi, mo
<1>2. /\ pc = "swap_output0" => p = o0
      /\ pc = "swap_output1" => p = o1
      /\ pc = "swap_input0" => p = i0
      /\ pc = "swap_input1" => p = i1
      /\ pc = "swap_multi_input" => p = mi
      /\ pc = "swap_multi_output" => p = mo
    OBVIOUS
<1> HIDE DEF p
<1> QED BY <1>1, <1>2, Zenon DEF o0, o1, i0, i1, mi, mo, Writes

\* Which routine swaps, and what it asks for.
Asks(s, k, w, z) ==
    /\ pc \in V2Swaps
    /\ pc = "swap_output0" => Asked(s, k) = Value \o z
    /\ pc = "swap_output1" => Asked(s, k) = z \o Value
    /\ pc = "swap_input0" => s.buys /\ ~tx.multi /\ s.weth0 /\ Asked(s, k) = z \o w
    /\ pc = "swap_input1" => s.buys /\ ~tx.multi /\ ~s.weth0 /\ Asked(s, k) = w \o z
    /\ pc = "swap_multi_input" => s.buys /\ tx.multi
    /\ pc = "swap_multi_output" => ~s.buys /\ tx.multi
    /\ tx.multi /\ s.buys = s.weth0 => Asked(s, k) = z \o w
    /\ tx.multi /\ s.buys # s.weth0 => Asked(s, k) = w \o z

\* The routine that swaps after the payment says which.
LEMMA SwapperOf ==
    ASSUME NEW s, s.buys \in BOOLEAN, s.weth0 \in BOOLEAN, tx.multi \in BOOLEAN, NEW k,
           pc = Swapper(s, tx.multi)
    PROVE  Asks(s, k, Amount("out", k, s.out), Zeros(32))
<1> DEFINE w == Amount("out", k, s.out)
           z == Zeros(32)
<1>1. /\ tx.multi \/ s.buys => Out(s, k) = w
      /\ ~tx.multi /\ ~s.buys => Out(s, k) = Value
    BY DEF Out
<1>2. /\ s.buys = s.weth0 => Asked(s, k) = z \o Out(s, k)
      /\ s.buys # s.weth0 => Asked(s, k) = Out(s, k) \o z
    BY DEF Asked
<1>3. /\ pc \in V2Swaps
      /\ pc = "swap_output0" => ~s.buys /\ ~tx.multi /\ s.weth0
      /\ pc = "swap_output1" => ~s.buys /\ ~tx.multi /\ ~s.weth0
      /\ pc = "swap_input0" => s.buys /\ ~tx.multi /\ s.weth0
      /\ pc = "swap_input1" => s.buys /\ ~tx.multi /\ ~s.weth0
      /\ pc = "swap_multi_input" => s.buys /\ tx.multi
      /\ pc = "swap_multi_output" => ~s.buys /\ tx.multi
    BY DEF Swapper, V2Swaps
<1> QED BY <1>1, <1>2, <1>3, Zenon DEF Asks

\* The amounts are those that are meant.
LEMMA AsksAsMeant ==
    ASSUME Sane, Mem(mem), NEW k, NEW q, NEW n, Works(k, q, n), NEW s, s = tx.swaps[k],
           s.venue = "V2", pc = Swapper(s, tx.multi), Clear(mem, 132, 249), ~tx.multi => k = 1
    PROVE  \E p, x : /\ SwapArguments = StoreAll(p, Rest) /\ Ready(p, Asked(s, k), x)
                     /\ \A b \in x : Spilled(2 * k, b)
<1> DEFINE z == Zeros(32)
           w == Amount("out", k, s.out)
           m == Store(mem, 0, Signature("swap") \o Zeros(28))
           c == StoreAll(m, <<<<4, z>>, <<36, z>>>>)
           y == IF s.weth0 THEN 64 ELSE 32
           v == IF s.weth0 THEN 32 ELSE 64
<1>1. /\ s.buys \in BOOLEAN /\ s.weth0 \in BOOLEAN /\ tx.multi \in BOOLEAN
      /\ s.out \in 0..28
    BY CalldataAssumption DEF Works, Swap
<1>2. Full(z) /\ Full(Value)
    BY OtherWords
<1>3. PICK p :
        /\ SwapArguments = StoreAll(p, Rest)
        /\ pc = "swap_output0" => p = StoreAll(m, <<<<4, Value>>, <<36, z>>>>)
        /\ pc = "swap_output1" => p = StoreAll(m, <<<<4, z>>, <<36, Value>>>>)
        /\ pc = "swap_input0" => p = StoreAmount(c, 21, 0, FALSE)
        /\ pc = "swap_input1" => p = Store(StoreAmount(Store(m, 4, z), 21, 0, FALSE), 36, z)
        /\ pc = "swap_multi_input" => p = StoreAmount(c, 26, 0, TRUE)
        /\ pc = "swap_multi_output" => p = StoreAmount(c, 46, 0, TRUE)
    <2>1. pc \in V2Swaps
        BY <1>1 DEF Swapper, V2Swaps
    <2>2. /\ m = Store(mem, 0, Signature("swap") \o Zeros(28)) /\ z = Zeros(32)
          /\ c = StoreAll(m, <<<<4, z>>, <<36, z>>>>)
        OBVIOUS
    <2> HIDE DEF m, c, z
    <2>3. \E p : Writes(p, m, c, z)
        BY <2>1, <2>2, SwapFirst
    <2> QED BY <2>3, Zenon DEF Writes
<1>4. /\ pc \in V2Swaps
      /\ pc = "swap_output0" => Asked(s, k) = Value \o z
      /\ pc = "swap_output1" => Asked(s, k) = z \o Value
      /\ pc = "swap_input0" => s.buys /\ ~tx.multi /\ s.weth0 /\ Asked(s, k) = z \o w
      /\ pc = "swap_input1" => s.buys /\ ~tx.multi /\ ~s.weth0 /\ Asked(s, k) = w \o z
      /\ pc = "swap_multi_input" => s.buys /\ tx.multi
      /\ pc = "swap_multi_output" => ~s.buys /\ tx.multi
      /\ tx.multi /\ s.buys = s.weth0 => Asked(s, k) = z \o w
      /\ tx.multi /\ s.buys # s.weth0 => Asked(s, k) = w \o z
    <2>1. Asks(s, k, w, z)
        BY <1>1, SwapperOf
    <2> HIDE DEF w, z
    <2> QED BY <2>1, Zenon DEF Asks
<1>5. /\ s.buys /\ ~tx.multi => AmountAt(21, "out", k, s.out, y)
      /\ s.buys /\ tx.multi => AmountAt(26, "out", k, s.out, y)
      /\ ~s.buys /\ tx.multi => AmountAt(46, "out", k, s.out, v)
    BY LoadsAmounts
<1>6. ASSUME NEW x PROVE Blanked(c, x)
    BY <1>2, SwapWords DEF Blanked
<1>7. ASSUME NEW x, Ready(p, Asked(s, k), x), \A b \in x : Spilled(2 * k, b)
      PROVE  \E r, u : /\ SwapArguments = StoreAll(r, Rest) /\ Ready(r, Asked(s, k), u)
                       /\ \A b \in u : Spilled(2 * k, b)
    BY <1>3, <1>7, Zenon
<1>8. \A b \in {} : Spilled(2 * k, b)
    OBVIOUS
<1>9. CASE pc = "swap_output0"
    <2>1. Ready(p, Value \o z, {})
        BY <1>2, <1>3, <1>9, SwapWords
    <2>2. Ready(p, Asked(s, k), {})
        BY <1>4, <1>9, <2>1
    <2> QED BY <1>7, <1>8, <2>2
<1>10. CASE pc = "swap_output1"
    <2>1. Ready(p, z \o Value, {})
        BY <1>2, <1>3, <1>10, SwapWords
    <2>2. Ready(p, Asked(s, k), {})
        BY <1>4, <1>10, <2>1
    <2> QED BY <1>7, <1>8, <2>2
<1>11. CASE pc = "swap_input0"
    <2> DEFINE x == Spill(68, s.out)
               b == FALSE
    <2>1. y = 64 /\ AmountAt(21, "out", k, s.out, 64)
        BY <1>4, <1>5, <1>11
    <2>2. Storing(p, c, 21, 0, b, "out", k, s.out, 64)
        BY <1>1, <1>3, <1>11, <2>1, Spots DEF Storing
    <2>3. Blanked(c, x)
        BY <1>6
    <2> HIDE DEF b, z, w, c
    <2>4. Ready(p, Zeros(32) \o Amount("out", k, s.out), x)
        BY <2>2, <2>3, SwapHigh, ZenonT(30)
    <2>5. ASSUME NEW i \in x PROVE Spilled(2 * k, i)
        <3>1. k = 1 /\ tx.swaps[1].weth0 /\ ~tx.multi /\ tx.swaps[1].buys /\ 2 * k = 2
            BY <1>4, <1>11
        <3>2. tx.swaps[1].venue = "V2" /\ tx.swaps[1].out = s.out /\ i \in (68 - s.out + 1)..68
            BY <2>5, <3>1 DEF Spill
        <3> QED BY <3>1, <3>2 DEF Spilled
    <2>6. Ready(p, Asked(s, k), x)
        BY <1>4, <1>11, <2>4 DEF z, w
    <2> QED BY <1>7, <2>5, <2>6
<1>12. CASE pc = "swap_input1"
    <2> DEFINE x == Spill(36, s.out)
               g == Store(m, 4, z)
               h == StoreAmount(g, 21, 0, FALSE)
    <2>1. y = 32 /\ AmountAt(21, "out", k, s.out, 32)
        BY <1>4, <1>5, <1>12
    <2>2. Storing(h, g, 21, 0, FALSE, "out", k, s.out, 32)
        BY <1>1, <2>1, Spots DEF Storing
    <2>3. p = Store(h, 36, Zeros(32))
        BY <1>3, <1>12
    <2>4. g = Store(Store(mem, 0, Signature("swap") \o Zeros(28)), 4, Zeros(32))
        OBVIOUS
    <2> HIDE DEF g, h, z, w, c, m
    <2>5. Ready(p, Amount("out", k, s.out) \o Zeros(32), x)
        BY <2>2, <2>3, <2>4, SwapSpilling, Zenon
    <2>6. ASSUME NEW i \in x PROVE Spilled(2 * k, i)
        <3>1. k = 1 /\ ~tx.swaps[1].weth0 /\ ~tx.multi /\ tx.swaps[1].buys /\ 2 * k = 2
            BY <1>4, <1>12
        <3>2. tx.swaps[1].venue = "V2" /\ tx.swaps[1].out = s.out /\ i \in (36 - s.out + 1)..36
            BY <2>6, <3>1 DEF Spill
        <3> QED BY <3>1, <3>2 DEF Spilled
    <2>7. Ready(p, Asked(s, k), x)
        BY <1>4, <1>12, <2>5 DEF z, w
    <2> QED BY <1>7, <2>6, <2>7
<1>13. CASE pc \in {"swap_multi_input", "swap_multi_output"}
    <2> DEFINE x == {}
               b == TRUE
    <2>1. PICK a : /\ p = StoreAmount(c, a, 0, b) /\ Amounts(a, 0)
                   /\ s.buys = s.weth0 => AmountAt(a, "out", k, s.out, 64)
                   /\ s.buys # s.weth0 => AmountAt(a, "out", k, s.out, 32)
        <3>1. CASE pc = "swap_multi_input"
            <4>1. s.buys /\ tx.multi /\ AmountAt(26, "out", k, s.out, y)
                BY <1>4, <1>5, <3>1
            <4>2. p = StoreAmount(c, 26, 0, b)
                BY <1>3, <3>1
            <4> HIDE DEF b, c
            <4> QED BY <1>1, <4>1, <4>2, Spots
        <3>2. CASE pc = "swap_multi_output"
            <4>1. ~s.buys /\ tx.multi /\ AmountAt(46, "out", k, s.out, v)
                BY <1>4, <1>5, <3>2
            <4>2. p = StoreAmount(c, 46, 0, b)
                BY <1>3, <3>2
            <4> HIDE DEF b, c
            <4> QED BY <1>1, <4>1, <4>2, Spots
        <3> QED BY <1>13, <3>1, <3>2
    <2>2. Blanked(c, x) /\ b /\ tx.multi
        BY <1>4, <1>6, <1>13
    <2> HIDE DEF c, w
    <2>3. ASSUME s.buys = s.weth0 PROVE Ready(p, Asked(s, k), x)
        <3>1. Storing(p, c, a, 0, b, "out", k, s.out, 64)
            BY <1>1, <2>1, <2>3 DEF Storing
        <3> HIDE DEF b, x, z
        <3>2. Ready(p, Zeros(32) \o Amount("out", k, s.out), x)
            BY <2>2, <3>1, SwapHigh, ZenonT(30)
        <3> QED BY <1>4, <2>2, <2>3, <3>2 DEF z, w
    <2>4. ASSUME s.buys # s.weth0 PROVE Ready(p, Asked(s, k), x)
        <3>1. Storing(p, c, a, 0, b, "out", k, s.out, 32)
            BY <1>1, <2>1, <2>4 DEF Storing
        <3> HIDE DEF b, x, z
        <3>2. Ready(p, Amount("out", k, s.out) \o Zeros(32), x)
            BY <2>2, <3>1, SwapLow, Zenon
        <3> QED BY <1>4, <2>2, <2>4, <3>2 DEF z, w
    <2> QED BY <1>7, <1>8, <2>3, <2>4
<1> QED BY <1>4, <1>9, <1>10, <1>11, <1>12, <1>13 DEF V2Swaps

\* A V2 pair is asked to swap as it is meant to be, but for the bytes that spill.
LEMMA SwappedAsMeant ==
    ASSUME Sane, Mem(mem), NEW k, NEW q, NEW n, Works(k, q, n), NEW s, s = tx.swaps[k],
           s.venue = "V2", pc = Swapper(s, tx.multi), Clear(mem, 132, 249), ~tx.multi => k = 1,
           NEW ok
    PROVE  /\ As([to |-> Read(1, 20), data |-> Bytes(SwapArguments, 164), ok |-> ok],
                 MeantBy(s, k)[2], 2 * k)
           /\ Clear(SwapArguments, 132, 249) /\ Mem(SwapArguments)
<1> DEFINE a == Asked(s, k)
           d == (((Signature("swap") \o a) \o Word(This)) \o Word(<<Num(128)>>)) \o Zeros(32)
           m == SwapArguments
<1>1. PICK p, x : /\ m = StoreAll(p, Rest) /\ Ready(p, a, x)
                  /\ \A b \in x : Spilled(2 * k, b)
    BY AsksAsMeant
<1>2. MeantBy(s, k)[2] = [to |-> Pool(k), data |-> d]
    <2>1. MeantBy(s, k)[2] = AskedFor(s, k)
        BY MeantOfV2
    <2> QED BY <2>1, Zenon DEF AskedFor
<1>3. Read(1, 20) = Pool(k)
    BY ReadsPool
<1>4. m = StoreAll(p, <<<<68, Word(This)>>, <<100, Word(<<Num(128)>>)>>>>)
    BY <1>1 DEF Rest
<1> HIDE DEF m, a
<1>5. Agree(m, d, 164, x) /\ Clear(m, 132, 249) /\ Mem(m)
    BY <1>1, <1>4, SwapTail
<1> HIDE DEF d
<1>6. As([to |-> Pool(k), data |-> Bytes(m, 164), ok |-> ok], [to |-> Pool(k), data |-> d], 2 * k)
    <2>1. 164 \in Nat
        OBVIOUS
    <2> QED BY <1>1, <1>5, <2>1, AsIs
<1> QED BY <1>2, <1>3, <1>5, <1>6 DEF m

\* Zeros are put at places, one after the other.
Zeroing(ps) == [i \in 1..Len(ps) |-> <<ps[i], Zeros(32)>>]
Zeroed(f, m, ps, n, r) ==
    f[0] = m /\ f[n] = r /\ \A i \in 1..n : Put(f[i], f[i - 1], ps[i], Zeros(32))

\* They are put one by one.
LEMMA ZeroingPuts ==
    ASSUME NEW m, Mem(m), NEW ps, NEW n \in Nat, Row(ps, n), \A i \in 1..n : Spot(ps[i])
    PROVE  \E f : Zeroed(f, m, ps, n, StoreAll(m, Zeroing(ps)))
<1> DEFINE z == Zeros(32)
           ws == [i \in 1..n |-> <<ps[i], z>>]
<1>1. Len(ps) = n
    BY RowLen
<1>2. Zeroing(ps) = ws
    BY <1>1 DEF Zeroing
<1>3. Full(z)
    BY OtherWords
<1> HIDE DEF z
<1>4. \A i \in 1..n : ws[i][1] = ps[i] /\ ws[i][2] = z
    OBVIOUS
<1>5. ws = [i \in 1..n |-> ws[i]]
    OBVIOUS
<1> HIDE DEF ws
<1>6. Len(ws) = n
    BY <1>5, RowFunction, RowLen
<1>7. Fits(ws)
    BY <1>3, <1>4, <1>6 DEF Fits
<1>8. PICK f : Puts(f, m, ws, StoreAll(m, ws))
    BY <1>7, StoreAllPuts, Zenon
<1>9. f[0] = m /\ f[n] = StoreAll(m, ws)
    BY <1>6, <1>8 DEF Puts
<1>10. \A i \in 1..n : Put(f[i], f[i - 1], ps[i], z)
    BY <1>4, <1>6, <1>8 DEF Puts
<1> QED BY <1>2, <1>9, <1>10, Zenon DEF Zeroed, z

\* The places that a routine clears.
Places ==
    CASE pc \in V2Swaps -> <<36, 68, 100>>
      [] pc = "multi_call_v3_input1" -> <<4, 68, 100, 132, 164, 180, 196, 217>>
      [] OTHER -> <<4, 36, 68, 100, 132, 164, 180, 196, 217>>

\* That is what cleaning is.
LEMMA CleanedZeroes == ASSUME NEW m PROVE Cleaned(m) = StoreAll(m, Zeroing(Places))
BY DEF Cleaned, Zeroing, Places

\* A word that is wiped where memory is clear so far makes it clear up to the word's end.
Wipes(n, m, a, d, e) ==
    Spot(a) /\ d \in 0..249 /\ e \in 0..249 /\ a <= d /\ e = a + 32 /\ Put(n, m, a, Zeros(32))

\* So it does; and what is clear behind it stays clear.
LEMMA Wiped ==
    ASSUME NEW n, NEW m, NEW a, NEW d, NEW e, Wipes(n, m, a, d, e), NEW c \in 0..249
    PROVE  Clear(m, c, d) => Clear(n, c, e)
BY PutZeros, ZenonT(30) DEF Wipes

LEMMA StaysClear ==
    ASSUME NEW n, NEW m, NEW a, NEW d, NEW e, Wipes(n, m, a, d, e), NEW c \in 0..249, e <= c
    PROVE  Clear(m, c, 249) => Clear(n, c, 249)
<1> DEFINE z == Zeros(32)
<1>1. /\ Spot(a) /\ Full(z) /\ Put(n, m, a, z)
    BY OtherWords DEF Wipes
<1>2. a \in Nat /\ a + 32 <= c
    BY DEF Wipes, Spot
<1> HIDE DEF z
<1>3. Keeps(n, m, a + 32, 249)
    BY <1>1, PutHere
<1>4. ASSUME Clear(m, c, 249) PROVE Clear(n, c, 249)
    <2>1. ASSUME NEW i \in 1..249, c < i, i <= 249 PROVE n[i] = Num(0)
        <3>1. a + 32 < i
            BY <1>2, <2>1
        <3>2. n[i] = m[i]
            BY <1>3, <2>1, <3>1 DEF Keeps
        <3>3. m[i] = Num(0)
            BY <1>4, <2>1 DEF Clear
        <3> QED BY <3>2, <3>3
    <2> QED BY <2>1 DEF Clear
<1> QED BY <1>4

\* Of the whole of memory, from its second word on.
Wiping(b, c, d, e, f, g, h, r) ==
    LET z == Zeros(32)
    IN  /\ Put(c, b, 68, z) /\ Put(d, c, 100, z) /\ Put(e, d, 132, z) /\ Put(f, e, 164, z)
        /\ Put(g, f, 180, z) /\ Put(h, g, 196, z) /\ Put(r, h, 217, z)

\* Each word begins before the end of the one before it.
LEMMA AllWiped ==
    ASSUME NEW b, NEW c, NEW d, NEW e, NEW f, NEW g, NEW h, NEW r, Wiping(b, c, d, e, f, g, h, r),
           Clear(b, 36, 68)
    PROVE  Clear(r, 36, 249)
<1>1. /\ Wipes(c, b, 68, 68, 100) /\ Wipes(d, c, 100, 100, 132) /\ Wipes(e, d, 132, 132, 164)
      /\ Wipes(f, e, 164, 164, 196) /\ Wipes(g, f, 180, 196, 212) /\ Wipes(h, g, 196, 212, 228)
      /\ Wipes(r, h, 217, 228, 249)
    BY Spots DEF Wipes, Wiping
<1>2. Clear(c, 36, 100)
    BY <1>1, Wiped
<1>3. Clear(d, 36, 132)
    BY <1>1, <1>2, Wiped
<1>4. Clear(e, 36, 164)
    BY <1>1, <1>3, Wiped
<1>5. Clear(f, 36, 196)
    BY <1>1, <1>4, Wiped
<1>6. Clear(g, 36, 212)
    BY <1>1, <1>5, Wiped
<1>7. Clear(h, 36, 228)
    BY <1>1, <1>6, Wiped
<1> QED BY <1>1, <1>7, Wiped

\* What has been swapped leaves memory clear behind the word that holds the next place.
LEMMA V2CleanedClears ==
    ASSUME NEW m, Mem(m), pc \in V2Swaps, Clear(m, 132, 249)
    PROVE  Clear(Cleaned(m), 36, 249)
<1> DEFINE r == Cleaned(m)
           z == Zeros(32)
           ps == <<36, 68, 100>>
<1>1. Places = ps
    BY DEF Places, V2Swaps
<1>2. ps \in Seq(Nat) /\ Len(ps) = 3 /\ ps[1] = 36 /\ ps[2] = 68 /\ ps[3] = 100
    OBVIOUS
<1> HIDE DEF ps, r
<1>3. Row(ps, 3)
    BY <1>2 DEF Row
<1>4. \A i \in 1..3 : Spot(ps[i])
    <2>1. Spot(ps[1]) /\ Spot(ps[2]) /\ Spot(ps[3])
        BY <1>2, Spots, Zenon
    <2>2. \A i \in 1..3 : i = 1 \/ i = 2 \/ i = 3
        OBVIOUS
    <2> QED BY <2>1, <2>2, Zenon
<1>5. r = StoreAll(m, Zeroing(ps))
    BY <1>1, CleanedZeroes DEF r
<1>6. PICK f : Zeroed(f, m, ps, 3, r)
    BY <1>3, <1>4, <1>5, ZeroingPuts
<1> HIDE DEF z
<1>7. Put(f[1], m, 36, z) /\ Put(f[2], f[1], 68, z) /\ Put(r, f[2], 100, z)
    BY <1>2, <1>6 DEF Zeroed, z
<1>8. /\ Wipes(f[1], m, 36, 36, 68) /\ Wipes(f[2], f[1], 68, 68, 100)
      /\ Wipes(r, f[2], 100, 100, 132)
    BY <1>7, Spots DEF Wipes, z
<1>9. Clear(m, 36, 36)
    BY DEF Clear
<1>10. Clear(f[1], 36, 68)
    BY <1>8, <1>9, Wiped
<1>11. Clear(f[2], 36, 100)
    BY <1>8, <1>10, Wiped
<1>12. Clear(r, 36, 132)
    BY <1>8, <1>11, Wiped
<1>13. Clear(r, 132, 249)
    BY <1>8, StaysClear
<1> QED BY <1>12, <1>13 DEF Clear, r

\* The same of a V3 swap: the word that multi_call_v3_input1 does not clear it has not written.
LEMMA V3CleanedClears ==
    ASSUME NEW m, Mem(m), pc \in V3Multis, pc = "multi_call_v3_input1" => Clear(m, 36, 68)
    PROVE  Clear(Cleaned(m), 36, 249)
<1> DEFINE r == Cleaned(m)
           z == Zeros(32)
<1>1. CASE pc = "multi_call_v3_input1"
    <2> DEFINE ps == <<4, 68, 100, 132, 164, 180, 196, 217>>
    <2>1. Places = ps
        BY <1>1 DEF Places, V2Swaps
    <2>2. /\ ps[1] = 4 /\ ps[2] = 68 /\ ps[3] = 100 /\ ps[4] = 132
          /\ ps[5] = 164 /\ ps[6] = 180 /\ ps[7] = 196 /\ ps[8] = 217
          /\ ps \in Seq(Nat) /\ Len(ps) = 8
        OBVIOUS
    <2> HIDE DEF ps, r
    <2>3. Row(ps, 8)
        BY <2>2 DEF Row
    <2>4. \A i \in 1..8 : Spot(ps[i])
        <3>1. /\ Spot(ps[1]) /\ Spot(ps[2]) /\ Spot(ps[3]) /\ Spot(ps[4]) /\ Spot(ps[5])
              /\ Spot(ps[6]) /\ Spot(ps[7]) /\ Spot(ps[8])
            BY <2>2, Spots, Zenon
        <3>2. \A i \in 1..8 : i = 1 \/ i = 2 \/ i = 3 \/ i = 4 \/ i = 5 \/ i = 6 \/ i = 7 \/ i = 8
            OBVIOUS
        <3> QED BY <3>1, <3>2, Zenon
    <2>5. r = StoreAll(m, Zeroing(ps))
        BY <2>1, CleanedZeroes DEF r
    <2>6. PICK f : Zeroed(f, m, ps, 8, r)
        BY <2>3, <2>4, <2>5, ZeroingPuts
    <2>7. Put(f[1], m, 4, z) /\ Wiping(f[1], f[2], f[3], f[4], f[5], f[6], f[7], r)
        BY <2>2, <2>6 DEF Zeroed, Wiping
    <2>8. Clear(f[1], 36, 68)
        BY <1>1, <2>7 DEF Put, Clear
    <2> QED BY <2>7, <2>8, AllWiped DEF r
<1>2. CASE pc # "multi_call_v3_input1"
    <2> DEFINE ps == <<4, 36, 68, 100, 132, 164, 180, 196, 217>>
    <2>1. Places = ps
        BY <1>2 DEF Places, V2Swaps, V3Multis
    <2>2. /\ ps[1] = 4 /\ ps[2] = 36 /\ ps[3] = 68 /\ ps[4] = 100 /\ ps[5] = 132
          /\ ps[6] = 164 /\ ps[7] = 180 /\ ps[8] = 196 /\ ps[9] = 217
          /\ ps \in Seq(Nat) /\ Len(ps) = 9
        OBVIOUS
    <2> HIDE DEF ps, r
    <2>3. Row(ps, 9)
        BY <2>2 DEF Row
    <2>4. \A i \in 1..9 : Spot(ps[i])
        <3>1. /\ Spot(ps[1]) /\ Spot(ps[2]) /\ Spot(ps[3]) /\ Spot(ps[4]) /\ Spot(ps[5])
              /\ Spot(ps[6]) /\ Spot(ps[7]) /\ Spot(ps[8]) /\ Spot(ps[9])
            BY <2>2, Spots, Zenon
        <3>2. \A i \in 1..9 : i = 1 \/ i = 2 \/ i = 3 \/ i = 4 \/ i = 5 \/ i = 6 \/ i = 7 \/ i = 8 \/ i = 9
            OBVIOUS
        <3> QED BY <3>1, <3>2, Zenon
    <2>5. r = StoreAll(m, Zeroing(ps))
        BY <2>1, CleanedZeroes DEF r
    <2>6. PICK f : Zeroed(f, m, ps, 9, r)
        BY <2>3, <2>4, <2>5, ZeroingPuts
    <2>7. Put(f[2], f[1], 36, z) /\ Wiping(f[2], f[3], f[4], f[5], f[6], f[7], f[8], r)
        BY <2>2, <2>6 DEF Zeroed, Wiping
    <2>8. Clear(f[2], 36, 68)
        <3>1. Wipes(f[2], f[1], 36, 36, 68)
            BY <2>7, Spots DEF Wipes
        <3>2. Clear(f[1], 36, 36)
            BY DEF Clear
        <3> QED BY <3>1, <3>2, Wiped
    <2> QED BY <2>7, <2>8, AllWiped DEF r
<1> QED BY <1>1, <1>2

\* A clear word holds the number zero.
LEMMA ZeroHeld ==
    ASSUME NEW m, Clear(m, 36, 68)
    PROVE  Holds(m, 36, Word(<<Num(0)>>), 32)
<1> DEFINE o == <<Num(0)>>
           z == Zeros(31)
           w == z \o o
<1>1. Row(z, 31) /\ Row(o, 1) /\ o[1] = Num(0) /\ Len(o) = 1
    BY RowZeros, RowOne
<1>2. \A i \in 1..31 : z[i] = Num(0)
    BY Zenon DEF Zeros
<1>3. Word(o) = w
    BY <1>1 DEF Word
<1> HIDE DEF z, o
<1>4. Joins(w, z, o)
    BY <1>1, RowPair
<1> HIDE DEF w
<1>5. Len(z) = 31
    BY <1>1, RowLen
<1>6. \A i \in 1..32 : w[i] = Num(0)
    BY <1>1, <1>2, <1>4, <1>5 DEF Joins
<1> QED BY <1>3, <1>6 DEF Holds, Clear, o

\* What is put behind it leaves a clear word clear.
LEMMA ClearBefore ==
    ASSUME NEW n, NEW m, NEW a, Spot(a), NEW w, Put(n, m, a, w), 68 <= a, Clear(m, 36, 68)
    PROVE  Clear(n, 36, 68)
BY DEF Put, Clear, Spot

\* The rest of the arguments of a V3 swap: a flag and an address share a word, and the hash is
\* put over what is left of it.
Own(f, t) == (<<f>> \o t) \o Zeros(11)
Tailed(d, limit, offset, len, f, t, hash) ==
    (((((d \o limit) \o offset) \o len) \o <<f>>) \o t) \o hash

\* The flag and the address, where the callback finds them.
Given(m, f, t) == Holds(m, 196, <<f>>, 1) /\ Holds(m, 197, t, 20)

\* Both are found in the word that they share.
LEMMA OwnHeld ==
    ASSUME NEW f, NEW t, Row(t, 20), NEW m, Holds(m, 196, Own(f, t), 32)
    PROVE  Holds(m, 196, <<f>>, 1) /\ Holds(m, 197, t, 20)
<1> DEFINE o == <<f>>
           z == Zeros(11)
           h == o \o t
<1>1. Row(o, 1) /\ Row(z, 11)
    BY RowOne, RowZeros
<1>2. Own(f, t) = h \o z
    BY DEF Own
<1> HIDE DEF o, z
<1>3. Row(h, 21)
    <2>1. Row(h, 1 + 20)
        BY <1>1, RowPair
    <2> QED BY <2>1
<1>4. Holds(m, 196, h, 21)
    <2> HIDE DEF h
    <2>1. Holds(m, 196, h \o z, 21 + 11)
        BY <1>2
    <2>2. 196 \in Nat /\ 21 \in Nat /\ 11 \in Nat
        OBVIOUS
    <2> QED BY <1>1, <1>3, <2>1, <2>2, BeginsWith
<1>5. Holds(m, 196, o, 1) /\ Holds(m, 196 + 1, t, 20)
    <2>1. Holds(m, 196, o \o t, 1 + 20)
        BY <1>4
    <2>2. 196 \in Nat /\ 1 \in Nat /\ 20 \in Nat
        OBVIOUS
    <2> QED BY <1>1, <2>1, <2>2, BeginsWith
<1> QED BY <1>5 DEF o

LEMMA OwnWord ==
    ASSUME NEW f, NEW t, Row(t, 20)
    PROVE  Full(Own(f, t))
<1> DEFINE o == <<f>>
           z == Zeros(11)
<1>1. Row(o, 1) /\ Row(z, 11)
    BY RowOne, RowZeros
<1> HIDE DEF o, z
<1>2. Row(o \o t, 1 + 20)
    BY <1>1, RowPair
<1>3. Row(o \o t, 21)
    BY <1>2
<1>4. Row((o \o t) \o z, 21 + 11)
    BY <1>1, <1>3, RowPair
<1> QED BY <1>4 DEF o, z, Own, Full

\* What is put behind the amount is the rest of the arguments.
LEMMA V3Tail ==
    ASSUME NEW m, Mem(m), NEW d, NEW x, Agree(m, d, 100, x),
           NEW limit, NEW offset, NEW len, NEW hash,
           Full(limit), Full(offset), Full(len), Full(hash),
           NEW f, NEW t, Row(t, 20), NEW r,
           r = StoreAll(m, <<<<100, limit>>, <<132, offset>>, <<164, len>>, <<196, Own(f, t)>>,
                             <<217, hash>>>>)
    PROVE  /\ Agree(r, Tailed(d, limit, offset, len, f, t, hash), 249, x)
           /\ Clear(m, 36, 68) => Clear(r, 36, 68)
           /\ Mem(r) /\ Given(r, f, t)
<1> DEFINE own == Own(f, t)
<1>1. Full(own)
    BY OwnWord
<1> HIDE DEF own
<1>2. PICK g, h, j, l :
          /\ Put(g, m, 100, limit) /\ Put(h, g, 132, offset) /\ Put(j, h, 164, len)
          /\ Put(l, j, 196, own) /\ Put(r, l, 217, hash)
    <2> DEFINE ws == <<<<100, limit>>, <<132, offset>>, <<164, len>>, <<196, own>>, <<217, hash>>>>
    <2>1. Fits(ws)
        BY <1>1, Spots, FitsFive
    <2>2. r = StoreAll(m, ws)
        BY DEF own
    <2>3. \E g, h, j, l :
             /\ Put(g, m, 100, limit) /\ Put(h, g, 132, offset) /\ Put(j, h, 164, len)
             /\ Put(l, j, 196, own) /\ Put(StoreAll(m, ws), l, 217, hash)
        BY <2>1, FivePuts
    <2> HIDE DEF ws
    <2> QED BY <2>2, <2>3, Zenon
<1>3. Mem(r)
    BY <1>2, Zenon DEF Put
<1>4. Clear(m, 36, 68) => Clear(r, 36, 68)
    <2>1. Clear(m, 36, 68) => Clear(g, 36, 68)
        BY <1>2, Spots, ClearBefore
    <2>2. Clear(g, 36, 68) => Clear(h, 36, 68)
        BY <1>2, Spots, ClearBefore
    <2>3. Clear(h, 36, 68) => Clear(j, 36, 68)
        BY <1>2, Spots, ClearBefore
    <2>4. Clear(j, 36, 68) => Clear(l, 36, 68)
        BY <1>2, Spots, ClearBefore
    <2>5. Clear(l, 36, 68) => Clear(r, 36, 68)
        BY <1>2, Spots, ClearBefore
    <2> QED BY <2>1, <2>2, <2>3, <2>4, <2>5
<1>5. Agree(g, d \o limit, 132, x)
    <2>1. Agree(g, d \o limit, 100 + 32, x)
        BY <1>2, Spots, PutNext, Zenon
    <2> QED BY <2>1
<1>6. Agree(h, (d \o limit) \o offset, 164, x)
    <2>1. Agree(h, (d \o limit) \o offset, 132 + 32, x)
        BY <1>2, <1>5, Spots, PutNext, Zenon
    <2> QED BY <2>1
<1> DEFINE e == ((d \o limit) \o offset) \o len
<1>7. Agree(j, e, 196, x)
    <2>1. Agree(j, e, 164 + 32, x)
        BY <1>2, <1>6, Spots, PutNext, ZenonT(30)
    <2> QED BY <2>1
<1> HIDE DEF e
<1>8. Agree(l, e, 196, x) /\ Holds(l, 196, <<f>>, 1) /\ Holds(l, 197, t, 20)
    <2>1. Holds(l, 196, own, 32) /\ Keeps(l, j, 0, 196)
        BY <1>2, Spots, PutHere
    <2>2. 196 \in 0..249
        OBVIOUS
    <2>3. Agree(l, e, 196, x)
        BY <1>7, <2>1, <2>2, AgreeKept
    <2> QED BY <2>1, <2>3, OwnHeld DEF own
<1> DEFINE o == <<f>>
<1>9. Holds(r, 196, o, 1) /\ Holds(r, 197, t, 20)
    <2>1. Keeps(r, l, 0, 217)
        BY <1>2, Spots, PutHere
    <2>2. Holds(l, 196, o, 1) /\ Holds(l, 197, t, 20)
        BY <1>8
    <2> HIDE DEF o
    <2> QED BY <2>1, <2>2 DEF Keeps, Holds
<1>10. Agree(l, e \o o, 197, x)
    <2>1. Row(o, 1) /\ 196 \in Nat /\ 1 \in Nat /\ Holds(l, 196, o, 1)
        BY <1>8, RowOne
    <2> HIDE DEF o
    <2>2. Agree(l, e \o o, 196 + 1, x)
        BY <1>8, <2>1, AgreeMoreHeld
    <2> QED BY <2>2
<1> HIDE DEF o
<1>11. Agree(l, (e \o o) \o t, 217, x)
    <2>1. 197 \in Nat /\ 20 \in Nat
        OBVIOUS
    <2>2. Agree(l, (e \o o) \o t, 197 + 20, x)
        BY <1>8, <1>10, <2>1, AgreeMoreHeld
    <2> QED BY <2>2
<1>12. Agree(r, ((e \o o) \o t) \o hash, 249, x)
    <2> DEFINE v == (e \o o) \o t
    <2> HIDE DEF v
    <2>1. Agree(l, v, 217, x)
        BY <1>11 DEF v
    <2>2. Agree(r, v \o hash, 217 + 32, x)
        BY <1>2, <2>1, Spots, PutNext
    <2>3. 217 + 32 = 249
        OBVIOUS
    <2> QED BY <2>2, <2>3 DEF v
<1> QED BY <1>3, <1>4, <1>12, <1>9, Zenon DEF Tailed, e, o, Given

\* What a V3 routine says of the swap it is for.
V3For(s, k) ==
    /\ ZeroForOne <=> s.buys = s.weth0
    /\ InputToken = Sold(s, k)
    /\ pc \in V3Multis <=> tx.multi
    /\ pc \in {"v3_input0", "v3_input1"} <=> ~tx.multi /\ s.buys
    /\ pc \in {"v3_output0_small", "v3_output1_small"} <=> ~tx.multi /\ ~s.buys /\ s.small
    /\ pc = "multi_call_v3_input1" => ~ZeroForOne

\* It says what that swap is.
LEMMA V3Facts ==
    ASSUME NEW k, NEW q, NEW n, Works(k, q, n), NEW s, s = tx.swaps[k], s.venue = "V3",
           pc = Routine(s, tx.multi)
    PROVE  V3For(s, k)
<1>1. s.buys \in BOOLEAN /\ s.weth0 \in BOOLEAN /\ s.small \in BOOLEAN /\ tx.multi \in BOOLEAN
    BY DEF Works, Swap
<1>2. /\ s.buys /\ s.weth0 => pc \in {"v3_input0", "multi_call_v3_input0"}
      /\ s.buys /\ ~s.weth0 => pc \in {"v3_input1", "multi_call_v3_input1"}
      /\ ~s.buys /\ s.weth0 => pc \in {"v3_output0_small", "v3_output0_big", "multi_call_v3_output0"}
      /\ ~s.buys /\ ~s.weth0 => pc \in {"v3_output1_small", "v3_output1_big", "multi_call_v3_output1"}
      /\ tx.multi <=> pc \in V3Multis
      /\ ~tx.multi /\ ~s.buys => (s.small <=> pc \in {"v3_output0_small", "v3_output1_small"})
    BY <1>1 DEF Routine, V3Multis
<1>3. ZeroForOne <=> s.buys = s.weth0
    BY <1>1, <1>2 DEF ZeroForOne
<1>4. InputToken = Sold(s, k)
    <2>1. CASE s.buys
        <3>1. InputToken = Weth
            BY <1>1, <1>2, <2>1, V3SinglesAre DEF InputToken
        <3> QED BY <2>1, <3>1 DEF Sold
    <2>2. CASE ~s.buys /\ tx.multi
        <3>1. Read(58, 20) = Token(k)
            BY <2>2, ReadsToken
        <3>2. pc \in {"multi_call_v3_output0", "multi_call_v3_output1"}
            BY <1>1, <1>2, <2>2 DEF V3Multis
        <3>3. InputToken = Read(58, 20)
            BY <3>2, V3SinglesAre DEF InputToken
        <3> QED BY <2>2, <3>1, <3>3 DEF Sold
    <2>3. CASE ~s.buys /\ ~tx.multi
        <3>1. Read(21, 20) = Token(k)
            BY <2>3, ReadsToken
        <3>2. pc \in {"v3_output0_small", "v3_output0_big", "v3_output1_small", "v3_output1_big"}
            BY <1>1, <1>2, <2>3 DEF V3Multis
        <3>3. InputToken = Read(21, 20)
            BY <3>2, V3SinglesAre DEF InputToken
        <3> QED BY <2>3, <3>1, <3>3 DEF Sold
    <2> QED BY <1>1, <2>1, <2>2, <2>3
<1>5. pc \in {"v3_input0", "v3_input1"} <=> ~tx.multi /\ s.buys
    BY <1>1, <1>2 DEF V3Multis
<1>6. pc \in {"v3_output0_small", "v3_output1_small"} <=> ~tx.multi /\ ~s.buys /\ s.small
    BY <1>1, <1>2 DEF V3Multis
<1>7. pc = "multi_call_v3_input1" => ~ZeroForOne
    BY DEF ZeroForOne
<1> QED BY <1>2, <1>3, <1>4, <1>5, <1>6, <1>7, Zenon DEF V3For

\* What is sold is the next word of the arguments.
LEMMA V3AmountMeant ==
    ASSUME Sane, NEW k, NEW q, NEW n, Works(k, q, n), NEW s, s = tx.swaps[k], s.venue = "V3",
           pc = Routine(s, tx.multi), NEW m, Mem(m), Clear(m, 68, 249), NEW d, NEW x, Agree(m, d, 68, x)
    PROVE  /\ Agree(V3Amount(m), d \o In(s, k), 100, x) /\ Mem(V3Amount(m))
           /\ Clear(m, 36, 68) => Clear(V3Amount(m), 36, 68)
<1>1. s.buys \in BOOLEAN /\ s.small \in BOOLEAN /\ tx.multi \in BOOLEAN /\ s.in \in 0..28
    BY CalldataAssumption DEF Works, Swap
<1>2. /\ pc \in V3Multis <=> tx.multi
      /\ pc \in {"v3_input0", "v3_input1"} <=> ~tx.multi /\ s.buys
      /\ pc \in {"v3_output0_small", "v3_output1_small"} <=> ~tx.multi /\ ~s.buys /\ s.small
    BY V3Facts DEF V3For
<1> DEFINE r == V3Amount(m)
<1>3. ASSUME ~tx.multi, NEW w, r = Store(m, 68, w), In(s, k) = w, Full(w)
      PROVE  Agree(r, d \o In(s, k), 100, x) /\ Mem(r) /\ (Clear(m, 36, 68) => Clear(r, 36, 68))
    <2> HIDE DEF r
    <2>1. Put(r, m, 68, w)
        BY <1>3, Spots, StorePuts
    <2>2. Agree(r, d \o w, 68 + 32, x)
        BY <1>3, <2>1, Spots, PutNext
    <2>3. 68 + 32 = 100 /\ 68 <= 68
        OBVIOUS
    <2>4. Clear(m, 36, 68) => Clear(r, 36, 68)
        BY <2>1, <2>3, Spots, ClearBefore
    <2>5. Mem(r)
        BY <2>1 DEF Put
    <2> QED BY <1>3, <2>2, <2>3, <2>4, <2>5
<1>4. CASE tx.multi
    <2> DEFINE b == TRUE
    <2>1. r = StoreAmount(m, 53, 32, b)
        BY <1>2, <1>4 DEF V3Amount
    <2>2. In(s, k) = Amount("in", k, s.in)
        BY <1>4 DEF In
    <2>3. AmountAt(53, "in", k, s.in, 64)
        BY <1>4, LoadsAmounts
    <2>4. Storing(r, m, 53, 32, b, "in", k, s.in, 64) /\ (b \/ LastAt(53)) /\ b \in BOOLEAN
        BY <1>1, <2>1, <2>3, Spots DEF Storing
    <2>5. Clear(m, 68, 100)
        BY DEF Clear
    <2> HIDE DEF b, r
    <2>6. Agree(r, d \o Amount("in", k, s.in), 100, x)
        BY <2>4, <2>5, Endings, AmountNext
    <2>7. Into(r, m, 53, 32, b, "in", k, s.in, 64, 68, 100, 128)
        BY <2>4, <2>5, Endings DEF Into
    <2>8. Left(r, m, 53, b, "in", k, s.in, 68, 100, 128)
        BY <2>7, AmountStored
    <2>9. Mem(r) /\ Keeps(r, m, 0, 68)
        BY <2>8, Zenon DEF Left
    <2>10. Clear(m, 36, 68) => Clear(r, 36, 68)
        BY <2>9 DEF Keeps, Clear
    <2> QED BY <2>2, <2>6, <2>9, <2>10 DEF r
<1>5. CASE ~tx.multi /\ s.buys
    <2>1. r = Store(m, 68, Value)
        BY <1>2, <1>5 DEF V3Amount
    <2>2. In(s, k) = Value
        BY <1>5 DEF In
    <2> QED BY <1>3, <1>5, <2>1, <2>2, OtherWords
<1>6. CASE ~tx.multi /\ ~s.buys /\ s.small
    <2> DEFINE w == Word(Field("in", k, 6))
    <2>1. Read(41, 6) = Field("in", k, 6)
        BY <1>6, ReadsV3
    <2>2. r = Store(m, 68, Word(Read(41, 6)))
        BY <1>2, <1>6 DEF V3Amount
    <2>3. In(s, k) = w
        BY <1>6 DEF In
    <2>4. Full(w)
        BY RowField, RowWord DEF Full
    <2> QED BY <1>3, <1>6, <2>1, <2>2, <2>3, <2>4
<1>7. CASE ~tx.multi /\ ~s.buys /\ ~s.small
    <2> DEFINE w == Word(Times(Field("in", k, 9)))
    <2>1. Read(41, 9) = Field("in", k, 9)
        BY <1>6, <1>7, ReadsV3
    <2>2. r = Store(m, 68, Word(Times(Read(41, 9))))
        BY <1>2, <1>7 DEF V3Amount
    <2>3. In(s, k) = w
        BY <1>7 DEF In
    <2>4. Full(w)
        <3>1. Row(Times(Field("in", k, 9)), 9) /\ 9 \in 0..32
            BY RowField, RowTimes
        <3> QED BY <3>1, RowWord DEF Full
    <2> QED BY <1>3, <1>7, <2>1, <2>2, <2>3, <2>4
<1> QED BY <1>1, <1>4, <1>5, <1>6, <1>7

\* What is meant for a V3 pool: what swap is given, and what the callback is to pay.
V3Data(s, k) ==
    Tailed(((Signature("v3swap") \o Word(This)) \o Word(<<Flag(s)>>)) \o In(s, k),
           Limit(s.buys = s.weth0), Word(<<Num(160)>>), Word(<<Num(53)>>), Flag(s), Sold(s, k),
           Hash(k))
V3Payment(s, k) ==
    (Signature("transfer") \o Word(Pool(k))) \o
    Field(IF s.buys = s.weth0 THEN "delta0" ELSE "delta1", k, 32)

\* They are what is meant.
LEMMA MeantOfV3 ==
    ASSUME NEW s, s.venue = "V3", NEW k
    PROVE  /\ MeantBy(s, k)[1] = [to |-> Pool(k), data |-> V3Data(s, k)]
           /\ MeantBy(s, k)[2] = [to |-> Sold(s, k), data |-> V3Payment(s, k)]
<1> DEFINE a == [to |-> Pool(k),
                 data |-> Signature("v3swap") \o Word(This) \o Word(<<Flag(s)>>) \o In(s, k) \o
                          Limit(s.buys = s.weth0) \o Word(<<Num(160)>>) \o Word(<<Num(53)>>) \o
                          <<Flag(s)>> \o Sold(s, k) \o Hash(k)]
           b == [to |-> Sold(s, k),
                 data |-> Signature("transfer") \o Word(Pool(k)) \o
                          Field(IF s.buys = s.weth0 THEN "delta0" ELSE "delta1", k, 32)]
<1>1. "V3" # "V2"
    OBVIOUS
<1>2. MeantBy(s, k) = <<a, b>>
    BY <1>1, Zenon DEF MeantBy
<1>3. a = [to |-> Pool(k), data |-> V3Data(s, k)]
    BY Zenon DEF V3Data, Tailed
<1>4. b = [to |-> Sold(s, k), data |-> V3Payment(s, k)]
    BY Zenon DEF V3Payment
<1> HIDE DEF a, b
<1>5. MeantBy(s, k)[1] = a /\ MeantBy(s, k)[2] = b
    BY <1>2
<1> QED BY <1>3, <1>4, <1>5

\* The arguments of a V3 swap are those that are meant.
LEMMA V3ArgumentsMeant ==
    ASSUME Sane, Mem(mem), NEW k, NEW q, NEW n, Works(k, q, n), NEW s, s = tx.swaps[k],
           s.venue = "V3", pc = Routine(s, tx.multi), Clear(mem, 36, 249)
    PROVE  /\ Agree(V3Arguments, V3Data(s, k), 249, {}) /\ Mem(V3Arguments)
           /\ pc = "multi_call_v3_input1" => Clear(V3Arguments, 36, 68)
           /\ Given(V3Arguments, Flag(s), Sold(s, k))
<1> DEFINE sig == Signature("v3swap") \o Zeros(28)
           this == Word(This)
           one == Word(<<Num(1)>>)
           limit == Limit(s.buys = s.weth0)
           offset == Word(<<Num(160)>>)
           len == Word(<<Num(53)>>)
           hash == Hash(k)
           ws == <<<<0, sig>>, <<4, this>>>>
           m == StoreAll(mem, ws)
           f == IF ZeroForOne THEN Store(m, 36, one) ELSE m
           p == V3Amount(f)
           r == V3Arguments
           flag == Flag(s)
           d == Signature("v3swap") \o this
           e == d \o Word(<<flag>>)
           none == {}
<1>1. /\ ZeroForOne <=> s.buys = s.weth0
      /\ InputToken = Sold(s, k)
      /\ pc = "multi_call_v3_input1" => ~ZeroForOne
    BY V3Facts DEF V3For
<1>2. flag = Num(IF ZeroForOne THEN 1 ELSE 0) /\ limit = Limit(ZeroForOne)
    <2>1. CASE ZeroForOne
        BY <1>1, <2>1 DEF Flag, Limit
    <2>2. CASE ~ZeroForOne
        BY <1>1, <2>2 DEF Flag, Limit
    <2> QED BY <2>1, <2>2
<1>3. Read(HashAt, 32) = hash
    BY ReadsV3
<1>4. /\ Full(sig) /\ Full(this) /\ Full(one) /\ Full(offset) /\ Full(len) /\ Full(Word(<<flag>>))
      /\ Full(limit) /\ Full(hash) /\ Row(Sold(s, k), 20)
    <2>1. Full(sig) /\ Full(this) /\ Full(one) /\ Full(offset) /\ Full(len)
        BY SignatureWord, NumWord, OtherWords
    <2>2. Full(Word(<<flag>>))
        BY <1>2, NumWord
    <2>3. Full(limit) /\ Full(hash)
        BY RowField DEF Limit, Hash, Full
    <2>4. Row(Weth, 20) /\ Row(Token(k), 20)
        BY RowField DEF Weth, Token
    <2>5. Row(Sold(s, k), 20)
        BY <2>4 DEF Sold
    <2> QED BY <2>1, <2>2, <2>3, <2>5
<1>5. r = StoreAll(p, <<<<100, limit>>, <<132, offset>>, <<164, len>>, <<196, Own(flag, Sold(s, k))>>,
                        <<217, hash>>>>)
    <2> DEFINE f1 == Num(IF ZeroForOne THEN 1 ELSE 0)
               l1 == Limit(ZeroForOne)
               t1 == InputToken
               h1 == Read(HashAt, 32)
    <2>1. r = StoreAll(p, <<<<100, l1>>, <<132, offset>>, <<164, len>>, <<196, (<<f1>> \o t1) \o Zeros(11)>>,
                            <<217, h1>>>>)
        BY Zenon DEF V3Arguments
    <2>2. f1 = flag /\ l1 = limit /\ t1 = Sold(s, k) /\ h1 = hash
        BY <1>1, <1>2, <1>3
    <2> HIDE DEF r, p, f1, l1, t1, h1, flag, limit, hash, offset, len
    <2> QED BY <2>1, <2>2 DEF Own
<1> HIDE DEF r, flag, limit, offset, len, hash, sig, one, this
<1>6. /\ Agree(m, d, 36, none) /\ Keeps(m, mem, 36, 249) /\ Mem(m)
    <2>1. Fits(ws)
        BY <1>4, Spots, FitsTwo, Zenon
    <2>2. PICK h : Put(h, mem, 0, sig) /\ Put(m, h, 4, this)
        BY <2>1, TwoPuts, Zenon
    <2>3. Agree(m, d, 36, none) /\ Keeps(m, mem, 36, 249)
        BY <1>4, <2>2, PutHead DEF sig
    <2>4. Mem(m)
        BY <2>2 DEF Put
    <2> QED BY <2>3, <2>4
<1>7. Clear(m, 36, 249)
    BY <1>6 DEF Keeps, Clear
<1> HIDE DEF m, d, none
<1>8. /\ Agree(f, e, 68, none) /\ Mem(f) /\ Clear(f, 68, 249)
      /\ ~ZeroForOne => Clear(f, 36, 68)
    <2>1. CASE ZeroForOne
        <3>1. f = Store(m, 36, one) /\ Word(<<flag>>) = one
            BY <1>2, <2>1 DEF one
        <3> HIDE DEF f
        <3>2. Put(f, m, 36, one)
            BY <1>4, <1>6, <3>1, Spots, StorePuts
        <3>3. Agree(f, d \o one, 36 + 32, none) /\ Keeps(f, m, 36 + 32, 249)
            BY <1>4, <1>6, <3>2, Spots, PutNext
        <3>4. 36 + 32 = 68
            OBVIOUS
        <3>5. Agree(f, d \o one, 68, none) /\ Keeps(f, m, 68, 249)
            BY <3>3, <3>4
        <3>6. Clear(f, 68, 249)
            BY <1>7, <3>5 DEF Keeps, Clear
        <3>7. Mem(f)
            BY <3>2 DEF Put
        <3> QED BY <2>1, <3>1, <3>5, <3>6, <3>7
    <2>2. CASE ~ZeroForOne
        <3> DEFINE o == Word(<<Num(0)>>)
        <3>1. f = m /\ Word(<<flag>>) = o
            BY <1>2, <2>2
        <3>2. Clear(m, 36, 68) /\ Clear(m, 68, 249)
            BY <1>7 DEF Clear
        <3>3. Holds(m, 36, o, 32)
            BY <3>2, ZeroHeld
        <3>4. Row(o, 32) /\ 36 \in Nat /\ 32 \in Nat
            BY NumWord DEF Full
        <3> HIDE DEF f, o
        <3>5. Agree(m, d \o o, 36 + 32, none)
            BY <1>6, <3>3, <3>4, AgreeMoreHeld
        <3>6. Agree(m, d \o o, 68, none)
            BY <3>5
        <3> QED BY <1>6, <3>1, <3>2, <3>6
    <2> QED BY <2>1, <2>2
<1> HIDE DEF f, e
<1>9. Agree(p, e \o In(s, k), 100, none) /\ Mem(p) /\ (Clear(f, 36, 68) => Clear(p, 36, 68))
    BY <1>8, V3AmountMeant
<1> HIDE DEF p
<1> DEFINE t == e \o In(s, k)
           sold == Sold(s, k)
<1>10. Agree(p, t, 100, none) /\ Row(sold, 20)
       /\ r = StoreAll(p, <<<<100, limit>>, <<132, offset>>, <<164, len>>, <<196, Own(flag, sold)>>,
                        <<217, hash>>>>)
    BY <1>4, <1>5, <1>9
<1> HIDE DEF t, sold
<1>11. /\ Agree(r, Tailed(t, limit, offset, len, flag, sold, hash), 249, none)
       /\ Clear(p, 36, 68) => Clear(r, 36, 68)
       /\ Mem(r) /\ Given(r, flag, sold)
    BY <1>4, <1>9, <1>10, V3Tail
<1>12. Tailed(t, limit, offset, len, flag, sold, hash) = V3Data(s, k)
    BY Zenon DEF V3Data, t, limit, offset, len, flag, sold, hash, e, d, this
<1>13. pc = "multi_call_v3_input1" => Clear(r, 36, 68)
    BY <1>1, <1>8, <1>9, <1>11
<1> QED BY <1>11, <1>12, <1>13 DEF r, none, flag, sold

\* Rows are the same if their cells are.
LEMMA SameRow ==
    ASSUME NEW a, NEW b, NEW n \in Nat, Row(a, n), Row(b, n), \A i \in 1..n : a[i] = b[i]
    PROVE  a = b
<1>1. PICK S, T : a \in Seq(S) /\ Len(a) = n /\ b \in Seq(T) /\ Len(b) = n
    BY DEF Row
<1>2. a = [i \in 1..n |-> a[i]] /\ b = [i \in 1..n |-> b[i]]
    BY <1>1
<1> QED BY <1>2

\* What is left of a call that holds nothing but what is meant.
LEMMA AsSame ==
    ASSUME NEW to, NEW d, NEW n \in Nat, Row(d, n), NEW ok, NEW i
    PROVE  As([to |-> to, data |-> d, ok |-> ok], [to |-> to, data |-> d], i)
BY Zenon DEF As

\* The pool's callback is told the token and the direction that are meant.
LEMMA CallbackMeant ==
    ASSUME NEW s, s.venue = "V3", NEW k, NEW r, Agree(r, V3Data(s, k), 249, {}),
           Given(r, Flag(s), Sold(s, k)), Row(Sold(s, k), 20),
           NEW bytes, bytes = Bytes(r, 249), NEW ok, NEW i
    PROVE  As([to |-> Callback(k, bytes).to, data |-> Callback(k, bytes).data, ok |-> ok],
              MeantBy(s, k)[2], i)
<1> DEFINE given == SubSeq(bytes, 197, 249)
           to == SubSeq(given, 2, 21)
           sold == Sold(s, k)
           o == <<Flag(s)>>
           back == Callback(k, bytes)
           delta == Field(IF given[1] = Num(1) THEN "delta0" ELSE "delta1", k, 32)
<1>1. Holds(r, 196, <<Flag(s)>>, 1) /\ Holds(r, 197, Sold(s, k), 20)
    BY DEF Given
<1>2. \A j \in 1..249 : bytes[j] = r[j]
    <2>1. Row(bytes, 249) /\ PartOf(bytes, r, 1, 249)
        <3>1. 1 \in Nat /\ 249 \in Nat /\ 249 = 249 - 1 + 1
            OBVIOUS
        <3> QED BY <3>1, RowPart DEF Bytes
    <2> QED BY <2>1 DEF PartOf
<1>3. Row(given, 53) /\ \A j \in 1..53 : given[j] = bytes[196 + j]
    <2>1. 197 \in Nat /\ 249 \in Nat /\ 53 = 249 - 197 + 1
        OBVIOUS
    <2>2. Row(given, 53) /\ PartOf(given, bytes, 197, 53)
        BY <2>1, RowPart
    <2> QED BY <2>2 DEF PartOf
<1>4. Row(to, 20) /\ \A j \in 1..20 : to[j] = given[j + 1]
    <2>1. 2 \in Nat /\ 21 \in Nat /\ 20 = 21 - 2 + 1
        OBVIOUS
    <2> HIDE DEF given
    <2>2. Row(to, 20) /\ PartOf(to, given, 2, 20)
        BY <2>1, RowPart
    <2> QED BY <2>2 DEF PartOf
<1>5. back.to = to /\ back.data = Signature("transfer") \o Word(Pool(k)) \o delta
    BY DEF Callback
<1> HIDE DEF given, to, sold, back
<1>6. to = sold
    <2>1. \A j \in 1..20 : to[j] = sold[j]
        BY <1>1, <1>2, <1>3, <1>4 DEF Holds, sold
    <2>2. 20 \in Nat /\ Row(sold, 20)
        BY DEF sold
    <2> QED BY <1>4, <2>1, <2>2, SameRow
<1>7. given[1] = Flag(s)
    <2>1. o[1] = Flag(s) /\ Holds(r, 196, o, 1)
        BY <1>1
    <2>2. r[197] = o[1]
        <3> HIDE DEF o
        <3> QED BY <2>1 DEF Holds
    <2> QED BY <1>2, <1>3, <2>1, <2>2
<1>8. delta = Field(IF s.buys = s.weth0 THEN "delta0" ELSE "delta1", k, 32)
    <2>1. CASE s.buys = s.weth0
        <3>1. Flag(s) = Num(1)
            BY <2>1 DEF Flag
        <3> QED BY <1>7, <2>1, <3>1
    <2>2. CASE s.buys # s.weth0
        <3>1. Flag(s) = Num(0) /\ Num(0) # Num(1)
            BY <2>2 DEF Flag, Num
        <3> QED BY <1>7, <2>2, <3>1
    <2> QED BY <2>1, <2>2
<1>9. Row(delta, 32)
    BY RowField
<1> HIDE DEF delta
<1>10. back.data = V3Payment(s, k)
    BY <1>5, <1>8 DEF V3Payment
<1>11. Row(V3Payment(s, k), 68)
    <2> DEFINE f == Signature("transfer")
               p == Word(Pool(k))
    <2>1. Row(f, 4) /\ Row(p, 32)
        <3>1. Row(f, 4) /\ Row(Pool(k), 20) /\ 20 \in 0..32
            BY RowField DEF Signature, Pool
        <3> QED BY <3>1, RowWord
    <2> HIDE DEF f, p
    <2>2. Row(f \o p, 4 + 32)
        BY <2>1, RowPair
    <2>3. Row(f \o p, 36) /\ 36 \in Nat
        BY <2>2
    <2>4. Row((f \o p) \o delta, 36 + 32)
        BY <1>9, <2>3, RowPair
    <2>5. V3Payment(s, k) = (f \o p) \o delta
        BY <1>8 DEF V3Payment, f, p
    <2> QED BY <2>4, <2>5
<1>12. MeantBy(s, k)[2] = [to |-> sold, data |-> V3Payment(s, k)]
    BY MeantOfV3 DEF sold
<1> DEFINE pay == V3Payment(s, k)
<1>13. As([to |-> sold, data |-> pay, ok |-> ok], [to |-> sold, data |-> pay], i)
    <2>1. 68 \in Nat
        OBVIOUS
    <2> QED BY <1>11, <2>1, AsSame
<1> QED BY <1>5, <1>6, <1>10, <1>12, <1>13 DEF back
--------------------------------------------------------------------------------
\* The invariant of the calls.

\* The i-th call that is meant.
Wanted(i) ==
    MeantBy(tx.swaps[(i + 1) \div 2], (i + 1) \div 2)[IF i % 2 = 1 THEN 1 ELSE 2]

\* Every call so far is the one that is meant.
Answered ==
    /\ Len(calls) <= 2 * Len(tx.swaps)
    /\ \A i \in 1..Len(calls) : As(calls[i], Wanted(i), i)

\* A routine finds memory clear behind the word that holds its place in the calldata; what the
\* payment of a V2 swap leaves there ends before what the swap reads without writing it.
Routines == V2Singles \cup V2Multis \cup V3Singles \cup V3Multis \cup {"check_block_number"}
Blanks ==
    /\ pc \in Routines => Clear(mem, 36, 249)
    /\ pc \in V2Swaps => Clear(mem, 132, 249)

\* What is meant depends on the inputs only.
LEMMA SameMeaning ==
    ASSUME UNCHANGED input
    PROVE  /\ \A i : Wanted(i)' = Wanted(i)
           /\ \A c, m, i : As(c, m, i)' <=> As(c, m, i)
<1>1. tx' = tx
    BY DEF input
<1>2. ASSUME NEW s, NEW k PROVE MeantBy(s, k)' = MeantBy(s, k)
    <2>1. In(s, k)' = In(s, k) /\ Out(s, k)' = Out(s, k)
        BY <1>1 DEF In, Out
    <2> QED BY <1>1, <2>1, ZenonT(30) DEF MeantBy
<1>3. ASSUME NEW i PROVE Wanted(i)' = Wanted(i)
    BY <1>1, <1>2 DEF Wanted
<1>4. ASSUME NEW c, NEW m, NEW i PROVE As(c, m, i)' <=> As(c, m, i)
    <2>1. \A b : Spilled(i, b)' <=> Spilled(i, b)
        BY <1>1 DEF Spilled
    <2> QED BY <2>1, Zenon DEF As
<1> QED BY <1>3, <1>4

\* The two of each swap.
LEMMA WantedIs ==
    ASSUME NEW k \in Nat, k >= 1
    PROVE  /\ Wanted(2 * k - 1) = MeantBy(tx.swaps[k], k)[1]
           /\ Wanted(2 * k) = MeantBy(tx.swaps[k], k)[2]
<1>1. (2 * k - 1) % 2 = 1 /\ (2 * k - 1 + 1) \div 2 = k
    OBVIOUS
<1>2. (2 * k) % 2 # 1 /\ (2 * k + 1) \div 2 = k
    OBVIOUS
<1> QED BY <1>1, <1>2 DEF Wanted

\* One more call, and it is meant.
LEMMA AnsweredMore ==
    ASSUME UNCHANGED input, Answered, NEW n, n = Len(calls), Calls(calls, n), NEW r,
           Extended(calls', calls, n, r), n + 1 <= 2 * Len(tx.swaps), As(r, Wanted(n + 1), n + 1)
    PROVE  Answered'
<1>1. tx' = tx
    BY DEF input
<1>2. n \in Nat /\ Len(calls') = n + 1 /\ calls'[n + 1] = r /\ \A i \in 1..n : calls'[i] = calls[i]
    BY DEF Calls, Extended
<1>3. ASSUME NEW i \in 1..n + 1 PROVE As(calls'[i], Wanted(i), i)
    <2>1. i \in 1..n \/ i = n + 1
        BY <1>2
    <2>2. CASE i \in 1..n
        BY <1>2, <2>2 DEF Answered
    <2>3. CASE i = n + 1
        BY <1>2, <2>3
    <2> QED BY <2>1, <2>2, <2>3
<1>4. ASSUME NEW i \in 1..n + 1 PROVE As(calls[i], Wanted(i), i)'
    <2> DEFINE c == calls'[i]
               m == Wanted(i)
    <2>1. As(c, m, i)
        BY <1>3
    <2>2. Wanted(i)' = m
        BY SameMeaning
    <2> QED BY <2>1, <2>2, SameMeaning
<1> QED BY <1>1, <1>2, <1>4 DEF Answered

\* The place of the next payload is kept in the first word: what is behind it stays clear.
LEMMA GotoClear ==
    ASSUME NEW m, Mem(m), NEW n, Goto(m, n), Clear(m, 36, 249)
    PROVE  Clear(mem', 36, 249) /\ Blanks'
<1>1. Clear(mem', 36, 249)
    <2>1. CASE n = Len(data)
        BY <2>1 DEF Goto
    <2>2. CASE n # Len(data)
        <3> DEFINE b == <<Num(n \div 256), Num(n % 256)>>
                   w == Word(b)
        <3>1. mem' = Store(m, 0, w)
            BY <2>2 DEF Goto
        <3>2. b \in Seq({Num(n \div 256), Num(n % 256)}) /\ Len(b) = 2
            OBVIOUS
        <3> HIDE DEF b
        <3>3. Row(b, 2) /\ 2 \in 0..32
            BY <3>2 DEF Row
        <3>4. Full(w)
            BY <3>3, RowWord DEF Full
        <3> HIDE DEF w
        <3>5. Put(mem', m, 0, w)
            BY <3>1, <3>4, Spots, StorePuts
        <3>6. Keeps(mem', m, 0 + 32, 249)
            BY <3>5, Spots, PutHere
        <3> QED BY <3>6 DEF Keeps, Clear
    <2> QED BY <2>1, <2>2
<1>2. Clear(mem', 132, 249)
    BY <1>1 DEF Clear
<1>3. Clear(mem, 36, 249)' /\ Clear(mem, 132, 249)'
    BY <1>1, <1>2 DEF Clear
<1> QED BY <1>1, <1>3 DEF Blanks

\* Memory is clear and nothing has been called at first.
LEMMA InitMeant == Init => Blanks /\ Answered
<1> SUFFICES ASSUME Init PROVE Blanks /\ Answered
    OBVIOUS
<1>1. mem = Blank /\ calls = <<>> /\ tx \in Transactions
    BY DEF Init
<1>2. Len(tx.swaps) \in Nat
    BY <1>1, TransactionFacts
<1>3. \A i \in 1..249 : mem[i] = Num(0)
    BY <1>1, Zenon DEF Blank, Zeros
<1>4. Clear(mem, 36, 249) /\ Clear(mem, 132, 249)
    BY <1>3 DEF Clear
<1>5. Len(calls) = 0
    BY <1>1
<1> QED BY <1>2, <1>4, <1>5 DEF Blanks, Answered

\* A step that calls nobody.
LEMMA SameCalls ==
    ASSUME UNCHANGED input, calls' = calls, Answered
    PROVE  Answered'
<1>1. tx' = tx
    BY DEF input
<1>2. ASSUME NEW i \in 1..Len(calls) PROVE As(calls[i], Wanted(i), i)'
    <2> DEFINE c == calls[i]
               m == Wanted(i)
    <2>1. As(c, m, i)
        BY <1>2 DEF Answered
    <2>2. Wanted(i)' = m
        BY SameMeaning
    <2> QED BY <2>1, <2>2, SameMeaning
<1> QED BY <1>1, <1>2 DEF Answered

\* The payment of a V2 pair is the first call that is meant for it.
LEMMA V2TransferMeant ==
    ASSUME IInv, Blanks, Answered, V2Transfer
    PROVE  Blanks' /\ Answered'
<1>1. /\ pc \in V2Singles \cup V2Multis /\ ~WrongBlock
      /\ mem' = Pays.mem /\ UNCHANGED input /\ at' = at
      /\ \E ok \in BOOLEAN : Called(Pays.to, Bytes(mem', Pays.len), ok)
      /\ pc' \in V2Swaps
    BY DEF V2Transfer, V2Swaps
<1>2. PICK ok \in BOOLEAN : Called(Pays.to, Bytes(mem', Pays.len), ok)
    BY <1>1
<1>3. PICK k \in 1..Len(tx.swaps) :
         at = Ends[k - 1] /\ Begun(k) /\ Tells(pc, tx.swaps[k], tx.multi)
    BY <1>1, Current
<1>4. tx.multi \in BOOLEAN /\ Len(tx.swaps) \in Nat /\ tx.swaps[k] \in Swap
    BY TxFacts DEF IInv
<1>5. PICK q, p : Works(k, q, p)
    BY <1>3, WorksOn
<1>6. Sane /\ Mem(mem) /\ Clear(mem, 36, 249)
    BY <1>1, IsSane DEF IInv, Blanks, Routines
<1>7. tx.swaps[k].venue = "V2"
    <2>1. pc \notin V3Singles \cup V3Multis
        BY <1>1, V3SinglesAre DEF V2Singles, V2Multis, V3Multis
    <2> QED BY <1>3, <1>4, <2>1 DEF Tells, Swap
<1> DEFINE s == tx.swaps[k]
           n == Len(calls)
           i == 2 * k - 1
           r == [to |-> Pays.to, data |-> Bytes(Pays.mem, Pays.len), ok |-> ok]
<1>8. pc = Routine(s, tx.multi) /\ k \in Nat /\ k >= 1 /\ n + 1 = i /\ n + 1 <= 2 * Len(tx.swaps)
    BY <1>3, <1>4 DEF Begun
<1>9. As(r, MeantBy(s, k)[1], i) /\ Clear(Pays.mem, 132, 249)
    BY <1>5, <1>6, <1>7, <1>8, PaidAsMeant
<1>10. As(r, Wanted(n + 1), n + 1)
    BY <1>8, <1>9, WantedIs
<1>11. Len(Pays.to) = 20
    BY <1>6, PaysKeeps
<1>12. calls' = Append(calls, r) /\ r.ok = ok /\ r.to = Pays.to
    BY <1>1, <1>2 DEF Called
<1> HIDE DEF r
<1>13. Extended(calls', calls, n, r) /\ Calls(calls, n)
    BY <1>11, <1>12, CallAdded DEF IInv
<1>14. Answered'
    BY <1>1, <1>8, <1>10, <1>13, AnsweredMore
<1>15. Clear(mem', 132, 249)
    BY <1>1, <1>9
<1>16. Clear(mem, 132, 249)'
    BY <1>15 DEF Clear
<1>17. pc' \notin Routines
    BY <1>1, V3SinglesAre DEF Routines, V2Swaps, V2Singles, V2Multis, V3Multis
<1> QED BY <1>14, <1>16, <1>17 DEF Blanks

\* Its swap is the second one.
LEMMA V2SwapMeant ==
    ASSUME IInv, Blanks, Answered, V2Swap
    PROVE  Blanks' /\ Answered'
<1> DEFINE args == SwapArguments
           several == pc \in {"swap_multi_input", "swap_multi_output"}
           n == Len(calls)
           N == Len(tx.swaps)
<1>1. pc \in V2Swaps /\ UNCHANGED input
    BY DEF V2Swap
<1>2. PICK ok \in BOOLEAN :
         /\ Called(Read(1, 20), Bytes(args, 164), ok)
         /\ \/ ok /\ several /\ Goto(Cleaned(args), at + PayloadLength)
            \/ /\ ~ok \/ ~several
               /\ pc' = IF ok THEN "stop" ELSE "revert"
               /\ mem' = args /\ UNCHANGED at
    BY DEF V2Swap
<1>3. PICK k \in 1..N : at = Ends[k - 1] /\ Paid(k)
    BY <1>1, CurrentPaid
<1>4. /\ tx.multi \in BOOLEAN /\ N \in Nat /\ tx.swaps[k] \in Swap
      /\ ~tx.multi => N = 1
    BY TxFacts DEF IInv
<1>5. PICK q, p : Works(k, q, p)
    BY <1>3, WorksOn
<1>6. Sane /\ Mem(mem) /\ Clear(mem, 132, 249)
    BY <1>1, IsSane DEF IInv, Blanks
<1> DEFINE s == tx.swaps[k]
           i == 2 * k
           r == [to |-> Read(1, 20), data |-> Bytes(args, 164), ok |-> ok]
<1>7. /\ s.venue = "V2" /\ pc = Swapper(s, tx.multi) /\ k \in Nat /\ k >= 1 /\ n + 1 = i
      /\ n + 1 <= 2 * N /\ (~tx.multi => k = 1)
    BY <1>3, <1>4 DEF Paid
<1>8. As(r, MeantBy(s, k)[2], i) /\ Clear(args, 132, 249) /\ Mem(args)
    BY <1>5, <1>6, <1>7, SwappedAsMeant
<1> HIDE DEF args
<1>9. As(r, Wanted(n + 1), n + 1)
    BY <1>7, <1>8, WantedIs
<1>10. Len(Read(1, 20)) = 20
    <2>1. 20 \in Nat
        OBVIOUS
    <2> QED BY <2>1, ReadRow, RowLen
<1>11. calls' = Append(calls, r) /\ r.ok = ok /\ r.to = Read(1, 20)
    BY <1>2 DEF Called
<1> HIDE DEF r
<1>12. Extended(calls', calls, n, r) /\ Calls(calls, n)
    BY <1>10, <1>11, CallAdded DEF IInv
<1>13. Answered'
    BY <1>1, <1>7, <1>9, <1>12, AnsweredMore
<1>14. CASE ok /\ several /\ Goto(Cleaned(args), at + PayloadLength)
    <2> DEFINE m == Cleaned(args)
               e == at + PayloadLength
    <2>1. Mem(m) /\ Clear(m, 36, 249)
        BY <1>1, <1>8, CleanedKeeps, V2CleanedClears
    <2>2. Goto(m, e)
        BY <1>14
    <2> HIDE DEF m, e
    <2>3. Blanks'
        BY <2>1, <2>2, GotoClear
    <2> QED BY <1>13, <2>3
<1>15. CASE pc' = IF ok THEN "stop" ELSE "revert"
    <2>1. pc' \in {"stop", "revert"}
        BY <1>15
    <2>2. pc' \notin Routines \cup V2Swaps
        BY <2>1, V3SinglesAre DEF Routines, V2Swaps, V2Singles, V2Multis, V3Multis
    <2> QED BY <1>13, <2>2 DEF Blanks
<1> QED BY <1>2, <1>14, <1>15

\* Pools are told apart by their addresses.
LEMMA PoolsDiffer == ASSUME NEW j, NEW k, Pool(j) = Pool(k) PROVE j = k
<1>1. Pool(j)[1] = <<"pool", j, 1>> /\ Pool(k)[1] = <<"pool", k, 1>>
    BY DEF Pool, Field
<1> QED BY <1>1

\* A V3 swap is the first call that is meant for its pool, and the callback the second one.
LEMMA V3SwapMeant ==
    ASSUME IInv, Blanks, Answered, V3Swap
    PROVE  Blanks' /\ Answered'
<1> DEFINE args == V3Arguments
           bytes == Bytes(args, 249)
           n == Len(calls)
           N == Len(tx.swaps)
           Swaps(j, ok) ==
               /\ Read(1, 20) = Pool(j)
               /\ LET back == Callback(j, bytes)
                      through == ok /\ back.valid
                  IN  /\ calls' = calls \o
                             <<[to |-> Pool(j), data |-> bytes, ok |-> through]>> \o
                             (IF through THEN <<[to |-> back.to, data |-> back.data, ok |-> TRUE]>>
                              ELSE <<>>)
                      /\ \/ through /\ pc \in V3Multis
                            /\ Goto(Cleaned(args), at + PayloadLength)
                         \/ /\ ~through \/ pc \in V3Singles
                            /\ pc' = IF through THEN "stop" ELSE "revert"
                            /\ mem' = args /\ UNCHANGED at
<1>1. pc \in V3Singles \cup V3Multis /\ UNCHANGED input
    BY DEF V3Swap
<1>2. PICK j \in 1..N, ok \in BOOLEAN : Swaps(j, ok)
    BY DEF V3Swap
<1>3. PICK k \in 1..N : at = Ends[k - 1] /\ Begun(k) /\ Tells(pc, tx.swaps[k], tx.multi)
    BY <1>1, Current
<1>4. tx.multi \in BOOLEAN /\ N \in Nat /\ tx.swaps[k] \in Swap
    BY TxFacts DEF IInv
<1>5. PICK q, p : Works(k, q, p)
    BY <1>3, WorksOn
<1>6. Sane /\ Mem(mem) /\ Clear(mem, 36, 249)
    BY <1>1, IsSane DEF IInv, Blanks, Routines
<1>7. tx.swaps[k].venue = "V3"
    <2>1. pc \notin V2Singles \cup V2Multis
        BY <1>1, V3SinglesAre DEF V2Singles, V2Multis, V3Multis
    <2> QED BY <1>3, <1>4, <2>1 DEF Tells, Swap
<1>8. j = k
    BY <1>2, <1>5, ReadsPool, PoolsDiffer
<1> DEFINE s == tx.swaps[k]
           back == Callback(k, bytes)
           through == ok /\ back.valid
           yes == TRUE
           first == [to |-> Pool(k), data |-> bytes, ok |-> through]
           second == [to |-> back.to, data |-> back.data, ok |-> yes]
<1>9. /\ pc = Routine(s, tx.multi) /\ k \in Nat /\ k >= 1 /\ n + 1 = 2 * k - 1
      /\ n + 1 + 1 = 2 * k /\ n \in Nat /\ n + 1 + 1 <= 2 * N
    BY <1>3, <1>4 DEF Begun
<1>10. /\ Agree(args, V3Data(s, k), 249, {}) /\ Mem(args)
       /\ pc = "multi_call_v3_input1" => Clear(args, 36, 68)
       /\ Given(args, Flag(s), Sold(s, k))
    BY <1>5, <1>6, <1>7, <1>9, V3ArgumentsMeant
<1> HIDE DEF args
<1>11. As(first, Wanted(n + 1), n + 1)
    <2> DEFINE d == V3Data(s, k)
               to == Pool(k)
               i == n + 1
               b == through
    <2>1. Agree(args, d, 249, {}) /\ 249 \in Nat
        BY <1>10
    <2>2. Wanted(i) = [to |-> to, data |-> d]
        BY <1>7, <1>9, WantedIs, MeantOfV3
    <2> HIDE DEF d, to, i, b
    <2>3. As([to |-> to, data |-> Bytes(args, 249), ok |-> b], [to |-> to, data |-> d], i)
        BY <2>1, AsExactly
    <2> QED BY <2>2, <2>3 DEF to, i, b
<1>12. As(second, Wanted(n + 1 + 1), n + 1 + 1)
    <2> HIDE DEF yes
    <2>1. Row(Sold(s, k), 20)
        <3>1. Row(Weth, 20) /\ Row(Token(k), 20)
            BY RowField DEF Weth, Token
        <3> QED BY <3>1 DEF Sold
    <2>2. As(second, MeantBy(s, k)[2], n + 1 + 1)
        BY <1>7, <1>10, <2>1, CallbackMeant
    <2> QED BY <1>9, <2>2, WantedIs
<1>13. /\ first.ok \in BOOLEAN /\ Len(first.to) = 20
       /\ second.ok \in BOOLEAN /\ Len(second.to) = 20
    <2>1. Row(Pool(k), 20)
        BY RowField DEF Pool
    <2> DEFINE to == Pool(k)
    <2>2. Row(to, 20)
        BY <2>1
    <2> HIDE DEF to
    <2>3. Len(to) = 20
        BY <2>2, RowLen
    <2>4. first.to = to
        BY DEF to
    <2> QED BY <2>3, <2>4, CallbackTo
<1>14. /\ calls' = calls \o <<first>> \o (IF through THEN <<second>> ELSE <<>>)
       /\ \/ through /\ pc \in V3Multis /\ Goto(Cleaned(args), at + PayloadLength)
          \/ pc' = IF through THEN "stop" ELSE "revert"
    BY <1>2, <1>8
<1> HIDE DEF first, second, through
<1> DEFINE c == Append(calls, first)
<1>15. Extended(c, calls, n, first) /\ Calls(calls, n)
    BY <1>13, CallAdded DEF IInv
<1>16. c = calls \o <<first>> /\ Calls(c, n + 1)
    BY <1>15, CallsJoined DEF Extended
<1>17. Answered'
    <2>1. CASE ~through
        <3>1. calls' = c
            BY <1>14, <1>16, <2>1, CallsJoined
        <3>2. Extended(calls', calls, n, first) /\ n + 1 <= 2 * N
            BY <1>9, <1>15, <3>1
        <3> QED BY <1>1, <1>11, <1>15, <3>2, AnsweredMore
    <2>2. CASE through
        <3>1. calls' = Append(c, second)
            BY <1>14, <1>16, <2>2, CallsJoined
        <3>2. Extended(calls', c, n + 1, second)
            BY <1>13, <1>16, <3>1, CallAdded
        <3>3. /\ Len(calls') = n + 1 + 1 /\ calls'[n + 1 + 1] = second /\ calls'[n + 1] = first
              /\ \A i \in 1..n : calls'[i] = calls[i]
            BY <1>9, <1>15, <3>2 DEF Extended
        <3>4. ASSUME NEW i \in 1..n + 1 + 1 PROVE As(calls'[i], Wanted(i), i)
            <4>1. i \in 1..n \/ i = n + 1 \/ i = n + 1 + 1
                BY <1>9
            <4>2. CASE i \in 1..n
                BY <3>3, <4>2 DEF Answered
            <4>3. CASE i = n + 1
                BY <1>11, <3>3, <4>3
            <4>4. CASE i = n + 1 + 1
                BY <1>12, <3>3, <4>4
            <4> QED BY <4>1, <4>2, <4>3, <4>4
        <3>5. tx' = tx
            BY <1>1 DEF input
        <3>6. ASSUME NEW i \in 1..n + 1 + 1 PROVE As(calls[i], Wanted(i), i)'
            <4> DEFINE e == calls'[i]
                       m == Wanted(i)
            <4>1. As(e, m, i)
                BY <3>4
            <4>2. Wanted(i)' = m
                BY <1>1, SameMeaning
            <4> QED BY <1>1, <4>1, <4>2, SameMeaning
        <3> QED BY <1>9, <3>3, <3>5, <3>6 DEF Answered
    <2> QED BY <2>1, <2>2
<1>18. CASE pc \in V3Multis /\ Goto(Cleaned(args), at + PayloadLength)
    <2> DEFINE m == Cleaned(args)
               e == at + PayloadLength
    <2>1. Mem(m) /\ Clear(m, 36, 249)
        BY <1>10, <1>18, CleanedKeeps, V3CleanedClears
    <2>2. Goto(m, e)
        BY <1>18
    <2> HIDE DEF m, e
    <2>3. Blanks'
        BY <2>1, <2>2, GotoClear
    <2> QED BY <1>17, <2>3
<1>19. CASE pc' = IF through THEN "stop" ELSE "revert"
    <2>1. pc' \in {"stop", "revert"}
        BY <1>19
    <2>2. pc' \notin Routines \cup V2Swaps
        BY <2>1, V3SinglesAre DEF Routines, V2Swaps, V2Singles, V2Multis, V3Multis
    <2> QED BY <1>17, <2>2 DEF Blanks
<1> QED BY <1>14, <1>18, <1>19

\* All steps together.
LEMMA NextMeant ==
    ASSUME IInv, Blanks, Answered, [Next]_vars
    PROVE  Blanks' /\ Answered'
<1>1. CASE Ended \/ UNCHANGED vars
    <2>1. UNCHANGED vars
        BY <1>1 DEF Ended
    <2>2. /\ UNCHANGED input
          /\ pc' = pc /\ mem' = mem /\ calls' = calls
        BY <2>1 DEF vars, input
    <2>3. Blanks'
        BY <2>2 DEF Blanks, Clear
    <2> QED BY <2>2, <2>3, SameCalls
<1>2. CASE GetOut
    <2>1. UNCHANGED input /\ calls' = calls /\ pc' = "revert"
        BY <1>2 DEF GetOut
    <2>2. pc' \notin Routines \cup V2Swaps
        BY <2>1, V3SinglesAre DEF Routines, V2Swaps, V2Singles, V2Multis, V3Multis
    <2> QED BY <2>1, <2>2, SameCalls DEF Blanks
<1>3. CASE CheckBlock
    <2>1. UNCHANGED input /\ calls' = calls /\ pc = "check_block_number" /\ Goto(mem, 5)
        BY <1>3 DEF CheckBlock
    <2>2. Mem(mem) /\ Clear(mem, 36, 249)
        BY <2>1 DEF IInv, Blanks, Routines
    <2>3. Blanks'
        BY <2>1, <2>2, GotoClear
    <2> QED BY <2>1, <2>3, SameCalls
<1> QED BY <1>1, <1>2, <1>3, V2TransferMeant, V2SwapMeant, V3SwapMeant DEF Next

\* The calls that are meant, in their order.
LEMMA MeantIs ==
    ASSUME Inputs
    PROVE  \A i \in 1..2 * Len(tx.swaps) : Meant[i] = Wanted(i)
<1> DEFINE N == Len(tx.swaps)
<1>1. N \in Nat
    BY TxFacts
<1>2. ASSUME NEW i \in 1..2 * N PROVE Meant[i] = Wanted(i)
    <2>1. PICK k \in 1..N : i = 2 * k - 1 \/ i = 2 * k
        <3>1. CASE i % 2 = 1
            <4>1. i = 2 * ((i + 1) \div 2) - 1 /\ (i + 1) \div 2 \in 1..N
                BY <1>1, <3>1
            <4> QED BY <4>1
        <3>2. CASE i % 2 # 1
            <4>1. i = 2 * (i \div 2) /\ i \div 2 \in 1..N
                BY <1>1, <3>2
            <4> QED BY <4>1
        <3> QED BY <3>1, <3>2
    <2>2. k \in Nat /\ k >= 1
        BY <1>1
    <2> QED BY <2>1, <2>2, MeantCalls, WantedIs
<1> QED BY <1>2

\* However many swaps are strung together, of whatever kinds and in whatever order, the contract
\* makes the calls the bot means, to the same addresses with the same bytes: no routine finds in
\* memory what another one has left there. The exception is what the amount of a single purchase
\* from a V2 pair takes with it of the block number (Spilled).
THEOREM CallsAsMeant == Spec => []AsMeant
<1>1. IInv /\ Answered => AsMeant
    <2> SUFFICES ASSUME IInv, Answered PROVE AsMeant
        OBVIOUS
    <2>1. Len(Meant) = 2 * Len(tx.swaps) /\ Inputs
        BY MeantCalls DEF IInv
    <2>2. PICK S : calls \in Seq(S)
        BY DEF IInv, Calls, Row
    <2>3. DOMAIN calls = 1..Len(calls) /\ Len(calls) \in Nat
        BY <2>2
    <2>4. Len(tx.swaps) \in Nat
        BY <2>1, TxFacts
    <2>5. ASSUME NEW i \in DOMAIN calls
          PROVE  /\ calls[i].to = Meant[i].to
                 /\ Len(calls[i].data) = Len(Meant[i].data)
                 /\ \A b \in DOMAIN calls[i].data :
                       calls[i].data[b] # Meant[i].data[b] => Spilled(i, b)
        <3> DEFINE c == calls[i]
                   m == Meant[i]
        <3>1. i \in 1..2 * Len(tx.swaps)
            BY <2>3, <2>4 DEF Answered
        <3>2. As(c, m, i)
            BY <2>1, <2>3, <3>1, MeantIs DEF Answered
        <3> HIDE DEF c, m
        <3>3. PICK n \in Nat : /\ Row(c.data, n) /\ Row(m.data, n)
                               /\ \A b \in 1..n : c.data[b] = m.data[b] \/ Spilled(i, b)
            BY <3>2, Zenon DEF As
        <3>4. Len(c.data) = n /\ Len(m.data) = n
            BY <3>3, RowLen
        <3>5. DOMAIN c.data = 1..n
            BY <3>3 DEF Row
        <3>6. c.to = m.to
            BY <3>2, Zenon DEF As
        <3> QED BY <3>3, <3>4, <3>5, <3>6 DEF c, m
    <2> QED BY <2>1, <2>5 DEF Answered, AsMeant
<1> QED BY <1>1, InitIInv, NextIInv, InitMeant, NextMeant, PTL DEF Spec
================================================================================
