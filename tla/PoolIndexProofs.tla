---------------------------- MODULE PoolIndexProofs ----------------------------
(* The index of pools is complete up to the lag of one interval, for any step, *)
(* interval, number of pools, blocks and restarts.                             *)
EXTENDS PoolIndex, TLAPS

USE DEF Never, State

\* The ranges of a sync leave no block out, for any factory.
LEMMA RangesCover ==
  ASSUME NEW first \in Nat, NEW last \in Nat, NEW b \in first..last, NEW f \in Factory
  PROVE  \E range \in Ranges(first, last) :
            range[1] = f /\ range[2] <= b /\ b <= range[2] + Step
<1> DEFINE k == (b - first) \div Step
<1>1. Step \in Nat /\ Step >= 1
  BY PoolIndexAssumption
<1>2. b - first \in Nat /\ b - first <= last - first
  OBVIOUS
<1>3. k \in Int /\ k * Step <= b - first /\ b - first < k * Step + Step
  BY <1>1, <1>2
<1>4. k \in Nat /\ k <= b - first
  BY <1>1, <1>2, <1>3
<1>5. k * Step \in Nat
  BY <1>1, <1>4
<1> HIDE DEF k
<1> DEFINE a == first + k * Step
<1>6. a \in first..last /\ a <= b /\ b <= a + Step
  BY <1>1, <1>2, <1>3, <1>5
<1>7. k \in 0..(last - first)
  BY <1>2, <1>4
<1>8. a \in {x \in first..last : \E j \in 0..(last - first) : x = first + j * Step}
  BY <1>6, <1>7
<1>9. <<f, a>> \in Ranges(first, last)
  BY <1>8 DEF Ranges
<1> HIDE DEF a
<1> QED
  BY <1>6, <1>9

\* Ranges are pairs of a factory and a block.
LEMMA RangesType ==
  ASSUME NEW first \in Nat, NEW last \in Nat
  PROVE  Ranges(first, last) \subseteq Factory \X Nat
  BY DEF Ranges

\* The stream after its first block has been taken.
LEMMA TailStream ==
  ASSUME NEW q \in Seq(Nat), q # <<>>
  PROVE  /\ Head(q) = q[1] /\ Head(q) \in Nat /\ Tail(q) \in Seq(Nat)
         /\ Len(q) \in Nat /\ Len(q) >= 1 /\ Len(Tail(q)) = Len(q) - 1
         /\ \A i \in 1..Len(Tail(q)) : Tail(q)[i] = q[i + 1]
  OBVIOUS

\* The stream after a block has come.
LEMMA AppendStream ==
  ASSUME NEW q \in Seq(Nat), NEW x \in Nat
  PROVE  /\ Append(q, x) \in Seq(Nat) /\ Len(q) \in Nat
         /\ Len(Append(q, x)) = Len(q) + 1
         /\ \A i \in 1..Len(q) : Append(q, x)[i] = q[i]
         /\ Append(q, x)[Len(q) + 1] = x
  OBVIOUS

\* main has everything still to fetch.
LEMMA InitIInv == Init => IInv
<1> SUFFICES ASSUME Init PROVE IInv
  OBVIOUS
<1> USE PoolIndexAssumption DEF Init
<1>1. head \in Nat /\ head <= MaxBlock /\ MaxBlock \in Nat
  OBVIOUS
<1>2. TypeOK
  BY <1>1, RangesType DEF TypeOK
<1>3. Chain
  BY <1>1 DEF Chain, Subscribed
<1>4. Lag /\ Covered
  BY <1>1 DEF Lag, Covered
<1>5. Found
  <2> SUFFICES ASSUME NEW p \in Pool, 0 <= created[p], created[p] <= head
               PROVE  \E range \in Ranges(0, head) : /\ range[1] = FactoryOf[p]
                                                     /\ range[2] <= created[p]
                                                     /\ created[p] <= range[2] + Step
    BY DEF Found
  <2>1. created[p] \in 0..head /\ FactoryOf[p] \in Factory
    BY <1>1, <1>2 DEF TypeOK
  <2> HIDE DEF Init
  <2> QED
    BY <1>1, <2>1, RangesCover
<1> QED
  BY <1>2, <1>3, <1>4, <1>5 DEF IInv

\* What a range yields is found.
LEMMA FetchIInv ==
  ASSUME IInv, NEW range \in todo, Fetch(range)
  PROVE  IInv'
<1> USE PoolIndexAssumption DEF IInv
<1>1. UNCHANGED <<head, created, initial, index, epoch, oracle, stream, since, counter,
                  from, latest>>
  BY DEF Fetch
<1>2. TypeOK'
  BY DEF Fetch, TypeOK
<1>3. Chain' /\ Lag' /\ Covered'
  BY <1>1 DEF Chain, Subscribed, Lag, Seen, Covered
<1>4. Found'
  <2> SUFFICES ASSUME oracle \in {"main", "sync"}, NEW p \in Pool,
                      from <= created[p], created[p] <= latest
               PROVE  \/ p \in fetched'
                      \/ \E r \in todo' : /\ r[1] = FactoryOf[p]
                                          /\ r[2] <= created[p]
                                          /\ created[p] <= r[2] + Step
    BY <1>1 DEF Found
  <2>1. CASE p \in fetched
    BY <2>1 DEF Fetch
  <2>2. ASSUME NEW r \in todo,
               r[1] = FactoryOf[p], r[2] <= created[p], created[p] <= r[2] + Step
        PROVE  p \in fetched' \/ r \in todo'
    <3>1. CASE r # range
      BY <3>1 DEF Fetch
    <3>2. CASE r = range
      <4>1. range[2] \in Nat /\ created[p] \in Nat /\ Step \in Nat
        BY DEF TypeOK
      <4>2. created[p] \in range[2]..(range[2] + Step)
        BY <2>2, <3>2, <4>1
      <4>3. created[p] # Never
        BY DEF TypeOK, Chain, Lag, Seen, Subscribed
      <4> QED
        BY <2>2, <3>2, <4>2, <4>3 DEF Fetch
    <3> QED
      BY <3>1, <3>2
  <2> QED
    BY <2>1, <2>2 DEF Found
<1> QED
  BY <1>2, <1>3, <1>4

\* The oracle dies.
LEMMA SyncFailsIInv ==
  ASSUME IInv, SyncFails
  PROVE  IInv'
  BY PoolIndexAssumption
  DEF IInv, SyncFails, TypeOK, Chain, Subscribed, Lag, Seen, Found, Covered

\* main is done.
LEMMA MainSyncedIInv ==
  ASSUME IInv, MainSynced
  PROVE  IInv'
  BY PoolIndexAssumption
  DEF IInv, MainSynced, TypeOK, Chain, Subscribed, Lag, Seen, Found, Covered

\* With nothing left to fetch, everything up to the last block of the sync is indexed.
LEMMA SyncedIInv ==
  ASSUME IInv, Synced
  PROVE  IInv'
<1> USE PoolIndexAssumption DEF IInv, Synced
<1>1. TypeOK'
  BY DEF TypeOK
<1>2. Chain' /\ Found'
  BY DEF Chain, Subscribed, Found
<1>3. Lag'
  BY DEF Lag, Seen, TypeOK
<1>4. Covered'
  BY DEF TypeOK, Found, Covered
<1> QED
  BY <1>1, <1>2, <1>3, <1>4

\* A subscription starts with nothing in the stream.
LEMMA SubscribeIInv ==
  ASSUME IInv, Subscribe
  PROVE  IInv'
<1> USE PoolIndexAssumption DEF IInv, Subscribe
<1>1. TypeOK'
  BY DEF TypeOK
<1>2. Len(stream') = 0
  OBVIOUS
<1>3. Chain'
  BY <1>2 DEF TypeOK, Chain, Subscribed
<1>4. Lag' /\ Found' /\ Covered'
  BY DEF Lag, Found, Covered
<1> QED
  BY <1>1, <1>3, <1>4

\* Blocks that came before the number was read only shorten the way to the first sync.
LEMMA ReadNumberIInv ==
  ASSUME IInv, ReadNumber
  PROVE  IInv'
<1> USE PoolIndexAssumption DEF IInv, ReadNumber
<1>1. TypeOK'
  BY DEF TypeOK
<1>2. Chain' /\ Found' /\ Covered'
  BY DEF TypeOK, Chain, Subscribed, Found, Covered
<1>3. Lag'
  <2>1. head \in Nat /\ Len(stream) \in Nat
    BY DEF TypeOK
  <2> QED
    BY <2>1 DEF Lag, Seen
<1> QED
  BY <1>1, <1>2, <1>3

\* The block taken from the stream is the one after the last, and a sync asks for
\* everything from where the last one ended up to it.
LEMMA NoticeIInv ==
  ASSUME IInv, Notice
  PROVE  IInv'
<1> USE PoolIndexAssumption DEF IInv
<1>1. /\ oracle = "await" /\ stream # <<>> /\ stream' = Tail(stream) /\ counter' = counter + 1
      /\ UNCHANGED <<head, created, initial, index, epoch, since, from, fetched>>
  BY DEF Notice
<1>2. stream \in Seq(Nat) /\ head \in Nat /\ from \in Nat /\ counter \in Nat
  BY DEF TypeOK
<1>3. /\ Head(stream) = stream[1] /\ Head(stream) \in Nat /\ Tail(stream) \in Seq(Nat)
      /\ Len(stream) \in Nat /\ Len(stream) >= 1 /\ Len(Tail(stream)) = Len(stream) - 1
      /\ \A i \in 1..Len(Tail(stream)) : Tail(stream)[i] = stream[i + 1]
  BY <1>1, <1>2, TailStream
<1>4. /\ Len(stream) <= head
      /\ \A i \in 1..Len(stream) : stream[i] = head - Len(stream) + i
  BY <1>1 DEF Chain, Subscribed
<1>5. Head(stream) = Seen'
  BY <1>1, <1>2, <1>3, <1>4 DEF Seen
<1>6. Chain'
  <2>1. \A i \in 1..Len(stream') : stream'[i] = head - Len(stream') + i
    <3> SUFFICES ASSUME NEW i \in 1..Len(Tail(stream))
                 PROVE  Tail(stream)[i] = head - Len(Tail(stream)) + i
      BY <1>1
    <3>1. i + 1 \in 1..Len(stream)
      BY <1>3
    <3> QED
      BY <1>2, <1>3, <1>4, <3>1
  <2> QED
    BY <1>1, <1>2, <1>3, <1>4, <2>1 DEF Chain
<1>7. CASE counter + 1 # Interval
  <2>1. UNCHANGED <<oracle, latest, todo>>
    BY <1>7 DEF Notice
  <2>2. TypeOK' /\ Found' /\ Covered'
    BY <1>1, <1>2, <1>3, <2>1 DEF TypeOK, Found, Covered
  <2>3. Lag'
    BY <1>1, <1>2, <1>3, <1>7, <2>1 DEF Lag, Seen
  <2> QED
    BY <1>6, <2>2, <2>3
<1>8. CASE counter + 1 = Interval
  <2>1. /\ oracle' = "sync" /\ latest' = Head(stream)
        /\ todo' = Ranges(from, Head(stream))
    BY <1>8 DEF Notice
  <2>2. TypeOK'
    BY <1>1, <1>2, <1>3, <2>1, RangesType DEF TypeOK
  <2>3. Lag' /\ Covered'
    BY <1>1, <1>5, <2>1 DEF Lag, Covered
  <2>4. Found'
    <3> SUFFICES ASSUME NEW p \in Pool, from <= created[p], created[p] <= Head(stream)
                 PROVE  \E range \in Ranges(from, Head(stream)) :
                           /\ range[1] = FactoryOf[p]
                           /\ range[2] <= created[p]
                           /\ created[p] <= range[2] + Step
      BY <1>1, <2>1 DEF Found
    <3> DEFINE last == Head(stream)
               b == created[p]
               f == FactoryOf[p]
    <3>1. b \in from..last /\ f \in Factory /\ from \in Nat /\ last \in Nat
      BY <1>2, <1>3 DEF TypeOK
    <3> HIDE DEF last, b, f
    <3>2. \E range \in Ranges(from, last) :
             range[1] = f /\ range[2] <= b /\ b <= range[2] + Step
      BY <3>1, RangesCover
    <3> QED
      BY <3>2 DEF last, b, f
  <2> QED
    BY <1>6, <2>2, <2>3, <2>4
<1> QED
  BY <1>7, <1>8

\* The subscription ends, or the bot does.
LEMMA LeaveIInv ==
  ASSUME IInv, StreamEnds \/ Restart
  PROVE  IInv'
<1> USE PoolIndexAssumption DEF IInv
<1>1. CASE StreamEnds
  <2> USE <1>1 DEF StreamEnds
  <2>1. TypeOK'
    BY DEF TypeOK
  <2>2. Chain'
    BY DEF Chain, Subscribed
  <2>3. Lag' /\ Found' /\ Covered'
    BY DEF Lag, Found, Covered
  <2> QED
    BY <2>1, <2>2, <2>3
<1>2. CASE Restart
  <2> USE <1>2 DEF Restart
  <2>1. TypeOK'
    BY DEF TypeOK
  <2>2. Chain'
    BY DEF Chain, Subscribed
  <2>3. Lag' /\ Found' /\ Covered'
    BY DEF Lag, Found, Covered
  <2> QED
    BY <2>1, <2>2, <2>3
<1> QED
  BY <1>1, <1>2

\* Pools come with a block that no sync under way asks for.
LEMMA NewBlockIInv ==
  ASSUME IInv, NewBlock
  PROVE  IInv'
<1> USE PoolIndexAssumption DEF IInv
<1>1. /\ head < MaxBlock /\ head' = head + 1
      /\ stream' = IF Subscribed THEN Append(stream, head + 1) ELSE stream
      /\ UNCHANGED <<initial, index, epoch, oracle, since, counter, from, latest, todo, fetched>>
  BY DEF NewBlock, Subscribed
<1>2. PICK new \in SUBSET {p \in Pool : created[p] = Never} :
         created' = [p \in Pool |-> IF p \in new THEN head + 1 ELSE created[p]]
  BY DEF NewBlock
<1>3. head \in Nat /\ MaxBlock \in Nat /\ stream \in Seq(Nat) /\ created \in [Pool -> Nat]
  BY DEF TypeOK
<1>4. \A p \in Pool : created'[p] = created[p] \/ (created[p] = Never /\ created'[p] = head + 1)
  BY <1>2
<1>5. /\ Append(stream, head + 1) \in Seq(Nat) /\ Len(stream) \in Nat
      /\ Len(Append(stream, head + 1)) = Len(stream) + 1
      /\ \A i \in 1..Len(stream) : Append(stream, head + 1)[i] = stream[i]
      /\ Append(stream, head + 1)[Len(stream) + 1] = head + 1
  BY <1>3, AppendStream
<1>6. TypeOK'
  BY <1>1, <1>2, <1>3, <1>5 DEF TypeOK
<1>7. Subscribed => Seen' = Seen
  BY <1>1, <1>3, <1>5 DEF Seen
<1>8. Subscribed' = Subscribed
  BY <1>1 DEF Subscribed
<1>9. Chain'
  <2>1. head' <= MaxBlock
    BY <1>1, <1>3
  <2>2. \A p \in Pool : created'[p] = Never \/ created'[p] <= head'
    BY <1>1, <1>3, <1>4 DEF Chain
  <2>3. ASSUME Subscribed, NEW i \in 1..Len(stream')
        PROVE  stream'[i] = head' - Len(stream') + i
    BY <1>1, <1>3, <1>5, <2>3 DEF Chain
  <2>4. Subscribed => Len(stream') <= head'
    BY <1>1, <1>3, <1>5 DEF Chain
  <2> QED
    BY <1>8, <2>1, <2>2, <2>3, <2>4 DEF Chain
<1>10. Lag'
  <2>1. latest \in Nat /\ from \in Nat
    BY DEF TypeOK
  <2>2. oracle \in {"await", "sync"} => from <= head'
    BY <1>1, <1>3, <2>1 DEF Lag
  <2>3. oracle \in {"await", "sync"} => Subscribed
    BY DEF Subscribed
  <2>4. oracle = "main" => latest <= head'
    BY <1>1, <1>3, <2>1 DEF Lag
  <2> HIDE DEF Seen
  <2> QED
    BY <1>1, <1>7, <2>2, <2>3, <2>4 DEF Lag
<1>11. oracle \in {"main", "sync"} => latest <= head
  BY <1>3, <1>5 DEF Lag, Seen
<1>12. Found'
  <2> SUFFICES ASSUME oracle \in {"main", "sync"}, NEW p \in Pool,
                      from <= created'[p], created'[p] <= latest
               PROVE  created'[p] = created[p]
    BY <1>1 DEF Found
  <2>1. latest \in Nat /\ latest <= head
    BY <1>11 DEF TypeOK
  <2> QED
    BY <1>3, <1>4, <2>1
<1>13. Covered'
  <2>1. oracle \in {"await", "sync"} => from <= head + 1
    BY <1>3 DEF TypeOK, Lag
  <2> QED
    BY <1>1, <1>3, <1>4, <2>1 DEF TypeOK, Covered
<1> QED
  BY <1>6, <1>9, <1>10, <1>12, <1>13

\* A step that changes nothing.
LEMMA StutterIInv == IInv /\ UNCHANGED vars => IInv'
  BY DEF IInv, vars, TypeOK, Chain, Subscribed, Lag, Seen, Found, Covered

\* Every step of main, of the oracle and of the chain.
LEMMA NextIInv ==
  ASSUME IInv, Next
  PROVE  IInv'
<1>1. CASE \E range \in todo : Fetch(range)
  BY <1>1, FetchIInv
<1>2. CASE SyncFails \/ MainSynced \/ Synced
  BY <1>2, SyncFailsIInv, MainSyncedIInv, SyncedIInv
<1>3. CASE OracleStep \/ Restart
  BY <1>3, SubscribeIInv, ReadNumberIInv, NoticeIInv, LeaveIInv DEF OracleStep
<1>4. CASE NewBlock
  BY <1>4, NewBlockIInv
<1>5. CASE Over
  BY <1>5, StutterIInv DEF Over
<1> QED
  BY <1>1, <1>2, <1>3, <1>4, <1>5 DEF Next

\* Where the next sync starts, what the stream holds and what the syncs found always add
\* up to the whole chain since the subscription.
THEOREM Invariance == Spec => []IInv
<1>1. IInv /\ [Next]_vars => IInv'
  BY NextIInv, StutterIInv
<1> QED
  BY InitIInv, <1>1, PTL DEF Spec

\* The variables keep their types.
THEOREM TypeCorrect == Spec => []TypeOK
<1>1. IInv => TypeOK
  BY DEF IInv
<1> QED
  BY Invariance, <1>1, PTL

\* No pool created under a subscription is missing for longer than an interval.
THEOREM Freshness == Spec => []Fresh
<1>1. ASSUME IInv PROVE Fresh
  <2> SUFFICES ASSUME oracle = "await", NEW p \in Pool, since <= created[p],
                      created[p] + Interval + Len(stream) <= head
               PROVE  p \in index
    BY DEF Fresh
  <2>1. /\ created[p] \in Nat /\ Interval \in Nat /\ Len(stream) \in Nat /\ head \in Nat
        /\ from \in Nat /\ counter \in Nat
    BY <1>1, PoolIndexAssumption DEF IInv, TypeOK
  <2>2. counter < Interval /\ head - Len(stream) <= from + counter
    BY <1>1 DEF IInv, Lag, Seen
  <2>3. created[p] < from
    BY <2>1, <2>2
  <2> QED
    BY <1>1, <2>3 DEF IInv, Covered
<1> QED
  BY Invariance, <1>1, PTL

\* What main hands to every bot is all the pools there were when it looked.
THEOREM StartsComplete == Spec => MainComplete
<1>1. ASSUME IInv, [Next]_vars, oracle = "main", oracle' # "main"
      PROVE  \A p \in Pool : created[p] <= latest => p \in initial'
  <2>1. MainSynced
    BY <1>1 DEF Next, vars, Fetch, SyncFails, Synced, OracleStep, Subscribe, ReadNumber,
                Notice, StreamEnds, Restart, NewBlock, Over
  <2>2. \A p \in Pool : created[p] \in Nat
    BY <1>1 DEF IInv, TypeOK
  <2>3. from = 0
    BY <1>1 DEF IInv, Lag
  <2>4. \A p \in Pool : created[p] <= latest => p \in fetched
    BY <1>1, <2>1, <2>2, <2>3 DEF IInv, Found, MainSynced
  <2> QED
    BY <2>1, <2>4 DEF MainSynced
<1>2. IInv /\ [Next]_vars =>
         [oracle = "main" /\ oracle' # "main" =>
             \A p \in Pool : created[p] <= latest => p \in initial']_vars
  BY <1>1
<1> QED
  BY Invariance, <1>2, PTL DEF Spec, MainComplete
================================================================================
