------------------------------ MODULE MegaSandwich ------------------------------
(* The backlog of recipes and the oracle that turns it into one big sandwich   *)
(* per block (src/bot/src/runner/oracles.rs: start_mega_sandwich_oracle,       *)
(* runner/bundle_sender.rs: BundleSender, the end of a task in runner/mod.rs). *)
(*                                                                             *)
(* The backlog is behind a lock of tokio, which serves those who ask for it in *)
(* the order they asked.  The tasks that found a recipe put it in; the oracle  *)
(* empties the backlog at each block, sleeps, takes the lock again and keeps   *)
(* it while it prepares a sandwich per pool in tasks of their own, joins them  *)
(* and simulates what they have in common.                                     *)
EXTENDS Naturals, Sequences, FiniteSets

CONSTANTS
    Recipe,         \* sandwiches the tasks find, each found once
    Pool,
    PoolOf,         \* recipe -> its target pool
    Oracle,         \* the oracle, among those that ask for the lock
    Panics,         \* whether unwrap may meet an error: no connection, no state
    MaxBlock        \* bound: blocks

ASSUME MegaAssumption ==
    /\ PoolOf \in [Recipe -> Pool]
    /\ Oracle \notin Recipe
    /\ Panics \in BOOLEAN
    /\ MaxBlock \in Nat

VARIABLES
    head,           \* blocks so far
    stream,         \* blocks the oracle's subscription holds
    queue,          \* who asked for the lock; the first one has it
    backlog,        \* pending_sandwiches: pool -> the recipes in its vector
    recipe,         \* recipe -> how far its task is
    oracle,         \* where the oracle is in its loop
    prepared,       \* pool -> the task that prepares its sandwich
    batch,          \* the recipes the call of make_mega_sandwich works on
    merged,         \* the pools whose sandwiches went into the big one
    served          \* the recipes of the calls that have ended

vars == <<head, stream, queue, backlog, recipe, oracle, prepared, batch, merged, served>>

Stored == UNION {backlog[p] : p \in Pool}
Holds(x) == queue # <<>> /\ Head(queue) = x

Init ==
    /\ head = 0 /\ stream = <<>> /\ queue = <<>>
    /\ backlog = [p \in Pool |-> {}]
    /\ recipe = [r \in Recipe |-> "unseen"]
    /\ oracle = "connect"
    /\ prepared = [p \in Pool |-> "none"]
    /\ batch = {} /\ merged = {} /\ served = {}
--------------------------------------------------------------------------------
\* The tasks that found a recipe.

\* The sandwich is worked out, and a task is spawned to add it.
Find(r) ==
    /\ recipe[r] = "unseen"
    /\ recipe' = [recipe EXCEPT ![r] = "found"]
    /\ UNCHANGED <<head, stream, queue, backlog, oracle, prepared, batch, merged, served>>

Ask(r) ==
    /\ recipe[r] = "found"
    /\ recipe' = [recipe EXCEPT ![r] = "waiting"]
    /\ queue' = Append(queue, r)
    /\ UNCHANGED <<head, stream, backlog, oracle, prepared, batch, merged, served>>

\* Mutant of Add: the pool instead of the recipe.
AddPool(r) ==
    /\ recipe[r] = "waiting" /\ Holds(r)
    /\ recipe' = [recipe EXCEPT ![r] = "added"]
    /\ backlog' = [backlog EXCEPT ![PoolOf[r]] = @ \cup {PoolOf[r]}]
    /\ queue' = Tail(queue)
    /\ UNCHANGED <<head, stream, oracle, prepared, batch, merged, served>>

\* add_recipe, and the lock goes to the next
Add(r) ==
    /\ recipe[r] = "waiting" /\ Holds(r)
    /\ recipe' = [recipe EXCEPT ![r] = "added"]
    /\ backlog' = [backlog EXCEPT ![PoolOf[r]] = @ \cup {r}]
    /\ queue' = Tail(queue)
    /\ UNCHANGED <<head, stream, oracle, prepared, batch, merged, served>>
--------------------------------------------------------------------------------
\* The oracle.

\* create_websocket_client().unwrap(), subscribe_blocks() or panic
Subscribe ==
    /\ oracle = "connect"
    /\ stream' = <<>>
    /\ \/ oracle' = "await"
       \/ Panics /\ oracle' = "dead"
    /\ UNCHANGED <<head, queue, backlog, recipe, prepared, batch, merged, served>>

Notice ==
    /\ oracle = "await" /\ stream # <<>>
    /\ stream' = Tail(stream)
    /\ oracle' = "clear"
    /\ queue' = Append(queue, Oracle)
    /\ UNCHANGED <<head, backlog, recipe, prepared, batch, merged, served>>

StreamEnds ==
    /\ oracle = "await" /\ stream = <<>>
    /\ oracle' = "connect"
    /\ UNCHANGED <<head, stream, queue, backlog, recipe, prepared, batch, merged, served>>

\* Mutant of Clear: the backlog is kept.
ClearNothing ==
    /\ oracle = "clear" /\ Holds(Oracle)
    /\ queue' = Tail(queue)
    /\ oracle' = "sleep"
    /\ UNCHANGED <<head, stream, backlog, recipe, prepared, batch, merged, served>>

Clear ==
    /\ oracle = "clear" /\ Holds(Oracle)
    /\ backlog' = [p \in Pool |-> {}]
    /\ queue' = Tail(queue)
    /\ oracle' = "sleep"
    /\ UNCHANGED <<head, stream, recipe, prepared, batch, merged, served>>

Wake ==
    /\ oracle = "sleep"
    /\ oracle' = "make"
    /\ queue' = Append(queue, Oracle)
    /\ UNCHANGED <<head, stream, backlog, recipe, prepared, batch, merged, served>>

\* make_mega_sandwich copies the recipes of every pool and spawns a task for it.
Spawn ==
    /\ oracle = "make" /\ Holds(Oracle)
    /\ batch' = Stored
    /\ prepared' = [p \in Pool |-> IF backlog[p] = {} THEN "none" ELSE "running"]
    /\ oracle' = "join"
    /\ UNCHANGED <<head, stream, queue, backlog, recipe, merged, served>>

\* prepare_and_send_sandwich: a sandwich, nothing, or a panic
Prepare(p) ==
    /\ prepared[p] = "running"
    /\ \/ prepared' = [prepared EXCEPT ![p] = "some"]
       \/ prepared' = [prepared EXCEPT ![p] = "nothing"]
       \/ Panics /\ prepared' = [prepared EXCEPT ![p] = "panic"]
    /\ UNCHANGED <<head, stream, queue, backlog, recipe, oracle, batch, merged, served>>

\* Mutant of Leave: a panic leaves the lock taken.
LeavePoisoned(to) ==
    /\ oracle' = to
    /\ queue' = IF to = "dead" THEN queue ELSE Tail(queue)
    /\ served' = served \cup batch
    /\ batch' = {}
    /\ UNCHANGED <<head, stream, backlog, recipe, prepared>>

\* make_mega_sandwich ends, and with it the hold of the lock.
Leave(to) ==
    /\ oracle' = to
    /\ queue' = Tail(queue)
    /\ served' = served \cup batch
    /\ batch' = {}
    /\ UNCHANGED <<head, stream, backlog, recipe, prepared>>

Some == {p \in Pool : prepared[p] = "some"}

\* Mutants of GiveUp and Merge: a task that panicked is waited for; it is ignored.
GiveUpWithoutPanic ==
    /\ oracle = "join"
    /\ \A p \in Pool : prepared[p] \notin {"running", "panic"}
    /\ Cardinality(Some) <= 1
    /\ Leave("await")
    /\ UNCHANGED merged

MergeAnyway ==
    /\ oracle = "join"
    /\ \A p \in Pool : prepared[p] # "running"
    /\ \E paying \in SUBSET Some : merged' = paying
    /\ oracle' = "simulate"
    /\ UNCHANGED <<head, stream, queue, backlog, recipe, prepared, batch, served>>

\* try_join_all does not wait for the rest when a task has panicked; one sandwich
\* alone, which has been sent before, is not worth the trouble.
GiveUp ==
    /\ oracle = "join"
    /\ \/ \E p \in Pool : prepared[p] = "panic"
       \/ /\ \A p \in Pool : prepared[p] # "running"
          /\ Cardinality(Some) <= 1
    /\ Leave("await")
    /\ UNCHANGED merged

\* Those whose revenue covers the fees are put together.
Merge ==
    /\ oracle = "join"
    /\ \A p \in Pool : prepared[p] \notin {"running", "panic"}
    /\ Cardinality(Some) > 1
    /\ \E paying \in SUBSET Some : merged' = paying
    /\ oracle' = "simulate"
    /\ UNCHANGED <<head, stream, queue, backlog, recipe, prepared, batch, served>>

\* sanity_check_mega, whose result is only printed; before it, two unwraps
Simulate ==
    /\ oracle = "simulate"
    /\ Leave("await") \/ (Panics /\ Leave("dead"))
    /\ merged' = {}
--------------------------------------------------------------------------------
\* The chain.
NewBlock ==
    /\ head < MaxBlock
    /\ head' = head + 1
    /\ stream' = IF oracle \in {"connect", "dead"} THEN stream ELSE Append(stream, head + 1)
    /\ UNCHANGED <<queue, backlog, recipe, oracle, prepared, batch, merged, served>>
--------------------------------------------------------------------------------
RecipeStep(r) == Ask(r) \/ Add(r)
OracleStep ==
    Subscribe \/ Notice \/ Clear \/ Wake \/ Spawn \/ GiveUp \/ Merge \/ Simulate

Over ==
    /\ head = MaxBlock /\ oracle = "dead"
    /\ \A r \in Recipe : recipe[r] = "added"
    /\ \A p \in Pool : prepared[p] # "running"
    /\ UNCHANGED vars

Next ==
    \/ \E r \in Recipe : Find(r) \/ RecipeStep(r)
    \/ \E p \in Pool : Prepare(p)
    \/ OracleStep \/ StreamEnds
    \/ NewBlock
    \/ Over

\* The runtime schedules every task that can run.
Fairness ==
    /\ \A r \in Recipe : WF_vars(RecipeStep(r))
    /\ \A p \in Pool : WF_vars(Prepare(p))
    /\ WF_vars(OracleStep)

Spec == Init /\ [][Next]_vars /\ Fairness
--------------------------------------------------------------------------------
TypeOK ==
    /\ head \in Nat /\ stream \in Seq(Nat)
    /\ queue \in Seq(Recipe \cup {Oracle})
    /\ backlog \in [Pool -> SUBSET Recipe]
    /\ recipe \in [Recipe -> {"unseen", "found", "waiting", "added"}]
    /\ oracle \in {"connect", "await", "clear", "sleep", "make", "join", "simulate", "dead"}
    /\ prepared \in [Pool -> {"none", "running", "some", "nothing", "panic"}]
    /\ batch \subseteq Recipe /\ merged \subseteq Pool /\ served \subseteq Recipe

\* No recipe goes into two big sandwiches: whatever is added late, or while the oracle
\* runs behind, what one call of make_mega_sandwich has used is cleared before the next.
NeverTwice == batch \cap served = {}

\* The backlog is not torn: what the tasks of make_mega_sandwich copied, pool by pool, is
\* what the backlog holds until the call ends.
BatchIsBacklog == oracle \in {"join", "simulate"} => batch = Stored

\* No sandwich of a batch with a task that panicked is used, and none alone.
AllOrNothing ==
    oracle = "simulate" =>
        /\ \A p \in Pool : backlog[p] # {} => prepared[p] \in {"some", "nothing"}
        /\ Cardinality(Some) > 1

\* Every recipe that was found gets into the backlog, although the oracle holds the lock
\* for as long as its simulations take, and dies with the lock in its hands.
EveryAddEnds == \A r \in Recipe : recipe[r] = "found" ~> recipe[r] = "added"

\* The oracle gets through the blocks it was given: it comes back to wait, or is dead.
OracleReturns == oracle = "clear" ~> oracle \in {"await", "dead"}
--------------------------------------------------------------------------------
\* The inductive invariant behind NeverTwice and BatchIsBacklog: the oracle keeps the lock
\* while it works, and what it clears is all that earlier calls have used.
Locked == oracle \in {"join", "simulate"} => Holds(Oracle)

Cleared ==
    /\ \A r \in Recipe : r \in Stored \/ r \in served => recipe[r] = "added"
    /\ oracle \in {"sleep", "make", "join", "simulate"} => Stored \cap served = {}
    /\ oracle \notin {"join", "simulate"} => batch = {}

IInv == TypeOK /\ Locked /\ Cleared /\ BatchIsBacklog
================================================================================
