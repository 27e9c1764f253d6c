-------------------------- MODULE MegaSandwichProofs --------------------------
(* What the lock around the backlog buys, for any number of recipes, pools and *)
(* blocks.                                                                     *)
EXTENDS MegaSandwich, TLAPS

USE DEF Stored, Holds

\* Nothing is in the backlog of a program that has just started.
LEMMA InitIInv == Init => IInv
<1> SUFFICES ASSUME Init PROVE IInv
  OBVIOUS
<1> USE MegaAssumption DEF Init
<1>1. TypeOK
  BY DEF TypeOK
<1>2. Locked /\ Cleared /\ BatchIsBacklog
  BY DEF Locked, Cleared, BatchIsBacklog
<1> QED
  BY <1>1, <1>2 DEF IInv

\* A task that waits for the lock does not take it from the one that has it.
LEMMA AppendHolds ==
  ASSUME NEW S, NEW q \in Seq(S), NEW x \in S, NEW y, q # <<>>, Head(q) = y
  PROVE  Append(q, x) \in Seq(S) /\ Append(q, x) # <<>> /\ Head(Append(q, x)) = y
  OBVIOUS

\* A queue stays a queue.
LEMMA QueueType ==
  ASSUME NEW S, NEW q \in Seq(S), NEW x \in S
  PROVE  Append(q, x) \in Seq(S) /\ (q # <<>> => Tail(q) \in Seq(S))
  OBVIOUS

\* The steps that leave the backlog, the lock and the batch alone.
LEMMA QuietIInv ==
  ASSUME IInv,
         \/ \E r \in Recipe : Find(r)
         \/ \E p \in Pool : Prepare(p)
         \/ Subscribe \/ StreamEnds \/ Merge \/ NewBlock \/ Over
  PROVE  IInv'
<1> USE MegaAssumption DEF IInv
<1>1. ASSUME NEW r \in Recipe, Find(r) PROVE IInv'
  BY <1>1 DEF Find, TypeOK, Locked, Cleared, BatchIsBacklog
<1>2. ASSUME NEW p \in Pool, Prepare(p) PROVE IInv'
  <2>1. prepared' \in [Pool -> {"none", "running", "some", "nothing", "panic"}]
    BY <1>2 DEF Prepare, TypeOK
  <2>2. UNCHANGED <<head, stream, queue, backlog, recipe, oracle, batch, merged, served>>
    BY <1>2 DEF Prepare
  <2> QED
    BY <2>1, <2>2 DEF TypeOK, Locked, Cleared, BatchIsBacklog
<1>3. ASSUME Subscribe PROVE IInv'
  BY <1>3 DEF Subscribe, TypeOK, Locked, Cleared, BatchIsBacklog
<1>4. ASSUME StreamEnds PROVE IInv'
  BY <1>4 DEF StreamEnds, TypeOK, Locked, Cleared, BatchIsBacklog
<1>5. ASSUME Merge PROVE IInv'
  BY <1>5 DEF Merge, Some, TypeOK, Locked, Cleared, BatchIsBacklog
<1>6. ASSUME NewBlock PROVE IInv'
  BY <1>6 DEF NewBlock, TypeOK, Locked, Cleared, BatchIsBacklog
<1>7. ASSUME Over PROVE IInv'
  BY <1>7 DEF Over, vars, TypeOK, Locked, Cleared, BatchIsBacklog
<1> QED
  BY <1>1, <1>2, <1>3, <1>4, <1>5, <1>6, <1>7

\* To ask for the lock changes nothing for the one who has it.
LEMMA AskIInv ==
  ASSUME IInv, NEW r \in Recipe, Ask(r)
  PROVE  IInv'
<1> USE MegaAssumption DEF IInv, Ask
<1>1. TypeOK'
  BY DEF TypeOK
<1>2. Locked'
  BY AppendHolds DEF TypeOK, Locked
<1>3. Cleared' /\ BatchIsBacklog'
  BY DEF TypeOK, Cleared, BatchIsBacklog
<1> QED
  BY <1>1, <1>2, <1>3

\* A recipe is added while the oracle is not at work, and was in no batch before.
LEMMA AddIInv ==
  ASSUME IInv, NEW r \in Recipe, Add(r)
  PROVE  IInv'
<1> USE MegaAssumption DEF IInv
<1>1. oracle \notin {"join", "simulate"}
  BY DEF Add, Locked
<1>2. backlog' \in [Pool -> SUBSET Recipe] /\ Stored' = Stored \cup {r}
  <2>1. backlog \in [Pool -> SUBSET Recipe] /\ PoolOf[r] \in Pool
    BY DEF TypeOK
  <2>2. backlog' = [backlog EXCEPT ![PoolOf[r]] = @ \cup {r}]
    BY DEF Add
  <2>3. /\ backlog' \in [Pool -> SUBSET Recipe]
        /\ \A p \in Pool : backlog'[p] = IF p = PoolOf[r] THEN backlog[p] \cup {r}
                                                        ELSE backlog[p]
    BY <2>1, <2>2
  <2>4. \A s : s \in Stored' <=> s \in Stored \/ s = r
    BY <2>1, <2>3
  <2> QED
    BY <2>3, <2>4
<1>3. r \notin served
  BY DEF Add, Cleared
<1>4. TypeOK'
  BY <1>2 DEF Add, TypeOK
<1>5. Locked' /\ BatchIsBacklog'
  BY <1>1 DEF Add, Locked, BatchIsBacklog
<1>6. Cleared'
  <2> HIDE DEF Stored
  <2>1. recipe' = [recipe EXCEPT ![r] = "added"] /\ UNCHANGED <<oracle, batch, served>>
    BY DEF Add
  <2>2. \A s \in Recipe : s \in Stored' \/ s \in served => recipe'[s] = "added"
    BY <1>2, <2>1 DEF TypeOK, Cleared
  <2> QED
    BY <1>1, <1>2, <1>3, <2>1, <2>2 DEF Cleared
<1> QED
  BY <1>4, <1>5, <1>6

\* The oracle asks for the lock, to clear or to make a sandwich.
LEMMA OracleAskIInv ==
  ASSUME IInv, Notice \/ Wake
  PROVE  IInv'
<1> USE MegaAssumption DEF IInv, Notice, Wake
<1>1. TypeOK'
  <2> DEFINE User == Recipe \cup {Oracle}
  <2>1. queue' \in Seq(User)
    <3>1. queue \in Seq(User) /\ Oracle \in User /\ queue' = Append(queue, Oracle)
      BY DEF TypeOK
    <3> HIDE DEF User
    <3> QED
      BY <3>1, QueueType
  <2>2. stream' \in Seq(Nat)
    <3>1. stream \in Seq(Nat) /\ 0 \in Nat
      BY DEF TypeOK
    <3>2. stream # <<>> => Tail(stream) \in Seq(Nat)
      BY <3>1, QueueType
    <3>3. CASE Notice
      BY <3>2, <3>3
    <3>4. CASE Wake
      BY <3>1, <3>4
    <3> QED
      BY <3>3, <3>4
  <2> QED
    BY <2>1, <2>2 DEF TypeOK
<1>2. Locked' /\ Cleared' /\ BatchIsBacklog'
  BY DEF TypeOK, Locked, Cleared, BatchIsBacklog
<1> QED
  BY <1>1, <1>2

\* Once the backlog is cleared nothing in it has been used.
LEMMA ClearIInv ==
  ASSUME IInv, Clear
  PROVE  IInv'
<1> USE MegaAssumption DEF IInv, Clear
<1>1. TypeOK'
  BY DEF TypeOK
<1>2. Stored' = {}
  OBVIOUS
<1>3. Locked' /\ Cleared' /\ BatchIsBacklog'
  BY <1>2 DEF Locked, Cleared, BatchIsBacklog
<1> QED
  BY <1>1, <1>3

\* make_mega_sandwich copies the whole backlog.
LEMMA SpawnIInv ==
  ASSUME IInv, Spawn
  PROVE  IInv'
<1> USE MegaAssumption DEF IInv, Spawn
<1>1. Stored \subseteq Recipe
  BY DEF TypeOK
<1>2. TypeOK'
  BY <1>1 DEF TypeOK
<1>3. Locked' /\ Cleared' /\ BatchIsBacklog'
  BY DEF TypeOK, Locked, Cleared, BatchIsBacklog
<1> QED
  BY <1>2, <1>3

\* However a call ends, the lock is passed on and its recipes count as used.
LEMMA LeaveIInv ==
  ASSUME IInv, GiveUp \/ Simulate
  PROVE  IInv'
<1> USE MegaAssumption DEF IInv
<1>1. PICK to \in {"await", "dead"} : Leave(to)
  BY DEF GiveUp, Simulate
<1>2. oracle \in {"join", "simulate"} /\ merged' \subseteq Pool
  BY DEF GiveUp, Simulate, TypeOK
<1>3. /\ oracle' = to /\ queue' = Tail(queue)
      /\ served' = served \cup batch /\ batch' = {}
      /\ UNCHANGED <<head, stream, backlog, recipe, prepared>>
  BY <1>1 DEF Leave
<1>4. TypeOK'
  BY <1>2, <1>3 DEF TypeOK, Locked
<1>5. batch = Stored
  BY <1>2 DEF BatchIsBacklog
<1>6. Cleared'
  BY <1>3, <1>5 DEF Cleared
<1>7. Locked' /\ BatchIsBacklog'
  BY <1>3 DEF Locked, BatchIsBacklog
<1> QED
  BY <1>4, <1>6, <1>7

\* A step that changes nothing.
LEMMA StutterIInv == IInv /\ UNCHANGED vars => IInv'
  BY DEF IInv, vars, TypeOK, Locked, Cleared, BatchIsBacklog

\* Every step of the tasks, of the oracle and of the chain.
LEMMA NextIInv ==
  ASSUME IInv, Next
  PROVE  IInv'
  BY QuietIInv, AskIInv, AddIInv, OracleAskIInv, ClearIInv, SpawnIInv, LeaveIInv
  DEF Next, RecipeStep, OracleStep

\* The oracle has the lock while it works, and works on what no call has used.
THEOREM Invariance == Spec => []IInv
<1>1. IInv /\ [Next]_vars => IInv'
  BY NextIInv, StutterIInv
<1> QED
  BY InitIInv, <1>1, PTL DEF Spec

\* The variables keep their types.
THEOREM TypeCorrect == Spec => []TypeOK
<1>1. IInv => TypeOK
  BY DEF IInv
<1> QED
  BY Invariance, <1>1, PTL

\* No recipe goes into two big sandwiches.
THEOREM UsedOnce == Spec => []NeverTwice
<1>1. IInv => NeverTwice
  BY DEF IInv, NeverTwice, Cleared, BatchIsBacklog
<1> QED
  BY Invariance, <1>1, PTL

\* The backlog stands still while a call of make_mega_sandwich works on it.
THEOREM BacklogStands == Spec => []BatchIsBacklog
<1>1. IInv => BatchIsBacklog
  BY DEF IInv
<1> QED
  BY Invariance, <1>1, PTL
--------------------------------------------------------------------------------
\* While a call works on the backlog every pool that has recipes has its task, and once the
\* sandwiches are put together every task has ended without a panic.
Tried ==
  /\ oracle \in {"join", "simulate"} => \A p \in Pool : backlog[p] # {} => prepared[p] # "none"
  /\ oracle = "simulate" => /\ \A p \in Pool : prepared[p] \notin {"running", "panic"}
                            /\ Cardinality(Some) > 1

\* Steps that end the call, or come before it.
LEMMA IdleTried ==
  ASSUME oracle' \notin {"join", "simulate"}
  PROVE  Tried'
  BY DEF Tried

\* Steps that leave the oracle, the backlog and the tasks as they are.
LEMMA QuietTried ==
  ASSUME Tried, UNCHANGED <<oracle, backlog, prepared>>
  PROVE  Tried'
  BY DEF Tried, Some

\* Nobody but the oracle has the lock while it works, and a task that has ended stays so.
LEMMA TriedStep ==
  ASSUME IInv, Tried, [Next]_vars
  PROVE  Tried'
<1>1. ASSUME NEW r \in Recipe, Find(r) \/ Ask(r) PROVE Tried'
  BY <1>1, QuietTried DEF Find, Ask
<1>2. ASSUME NEW r \in Recipe, Add(r) PROVE Tried'
  <2>1. oracle \notin {"join", "simulate"}
    BY <1>2, MegaAssumption DEF Add, IInv, Locked
  <2> QED
    BY <1>2, <2>1, IdleTried DEF Add
<1>3. ASSUME NEW p \in Pool, Prepare(p) PROVE Tried'
  <2>1. oracle # "simulate"
    BY <1>3 DEF Tried, Prepare
  <2>2. UNCHANGED <<oracle, backlog>> /\ prepared \in [Pool -> {"none", "running", "some",
                                                             "nothing", "panic"}]
    BY <1>3 DEF Prepare, IInv, TypeOK
  <2>3. \A q \in Pool : prepared[q] # "none" => prepared'[q] # "none"
    BY <1>3, <2>2 DEF Prepare
  <2> QED
    BY <2>1, <2>2, <2>3 DEF Tried
<1>4. ASSUME Subscribe \/ Notice \/ StreamEnds PROVE Tried'
  BY <1>4, IdleTried DEF Subscribe, Notice, StreamEnds
<1>5. ASSUME Clear \/ Wake PROVE Tried'
  BY <1>5, IdleTried DEF Clear, Wake
<1>6. ASSUME Spawn PROVE Tried'
  <2>1. /\ oracle' = "join" /\ backlog' = backlog
        /\ \A p \in Pool : backlog[p] # {} => prepared'[p] = "running"
    BY <1>6 DEF Spawn
  <2> QED
    BY <2>1 DEF Tried
<1>7. ASSUME GiveUp \/ Simulate PROVE Tried'
  BY <1>7, IdleTried DEF GiveUp, Simulate, Leave
<1>8. ASSUME Merge PROVE Tried'
  <2>1. /\ oracle = "join" /\ UNCHANGED <<backlog, prepared>>
        /\ \A p \in Pool : prepared[p] \notin {"running", "panic"}
        /\ Cardinality(Some) > 1
    BY <1>8 DEF Merge
  <2>2. Some' = Some
    BY <2>1 DEF Some
  <2> QED
    BY <2>1, <2>2 DEF Tried
<1>9. ASSUME NewBlock PROVE Tried'
  BY <1>9, QuietTried DEF NewBlock
<1>10. ASSUME UNCHANGED vars PROVE Tried'
  BY <1>10, QuietTried DEF vars
<1> QED
  BY <1>1, <1>2, <1>3, <1>4, <1>5, <1>6, <1>7, <1>8, <1>9, <1>10
  DEF Next, RecipeStep, OracleStep, Over

\* No sandwich of a batch with a task that panicked is used, and none alone
\* (try_join_all, and the test of optimal_sandwiches.len()).
THEOREM NothingTorn == Spec => []AllOrNothing
<1>1. Init => Tried
  BY DEF Init, Tried
<1>2. IInv /\ Tried /\ [Next]_vars => Tried'
  BY TriedStep
<1>3. IInv /\ Tried => AllOrNothing
  BY DEF IInv, TypeOK, Tried, AllOrNothing
<1> QED
  BY Invariance, <1>1, <1>2, <1>3, PTL DEF Spec
================================================================================
