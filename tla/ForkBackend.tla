------------------------------ MODULE ForkBackend ------------------------------
(* The forked database of one pending transaction (src/bot/src/forked_db).     *)
(*                                                                             *)
(* Several sandboxes (`ForkDB`, and the `ForkFactory` they are cloned from)    *)
(* each keep a local database and fall back on one `GlobalBackend`, a future   *)
(* that runs on a thread of its own.  A sandbox blocks until its request is    *)
(* answered; the backend answers from its cache, joins a fetch of the same key *)
(* that is under way, or opens a new one.  The node is asked for a block that  *)
(* need not exist yet (the runner forks at next_block.number), so it may fail, *)
(* and what it returns may depend on its head at the time.                     *)
(*                                                                             *)
(* The `poll` function of the backend is split at the points where the rest    *)
(* of the world can intervene.  Requests and futures are kept as sets: no      *)
(* property depends on the order in which they are taken.                      *)

CONSTANTS
    Client,     \* the factory and the forks made from it
    Factory,    \* the client that exists from the start
    Account, Slot, Number,      \* the three kinds of keys
    Owner,      \* slot -> its account
    Injected,   \* accounts that only the sandboxes know (searcher, contract code)
    Diffed,     \* keys present in `initial_db`, taken from the state diff
    Chain,      \* values the node may return
    FromDiff,   \* the value of a key in `initial_db`
    Mine,       \* a value written locally: injected, or committed by a transaction
    Empty,      \* the default account made by CacheDB::load_account
    None, Err

Key == Account \cup Slot \cup Number
Read == Chain \cup {FromDiff, Empty}        \* what the backend may hold
Value == Read \cup {Mine}
Special == {FromDiff, Mine, Empty, None, Err}

ASSUME KeysAssumption ==
    /\ Account \cap Slot = {} /\ Account \cap Number = {} /\ Slot \cap Number = {}
    /\ None \notin Key
    /\ Owner \in [Slot -> Account]
    /\ Injected \subseteq Account
    /\ Diffed \subseteq Account \cup Slot
    /\ Injected \cap Diffed = {}
    /\ Factory \in Client
\* `to_cache_db` inserts the account of every slot it inserts, and the accounts
\* that are only injected (code without storage) own no slot.
ASSUME OwnerAssumption ==
    \A s \in Slot : /\ Owner[s] \notin Injected
                    /\ s \in Diffed => Owner[s] \in Diffed
ASSUME ValuesAssumption ==
    /\ Chain \cap Special = {}
    /\ FromDiff # Mine /\ FromDiff # Empty /\ FromDiff # None /\ FromDiff # Err
    /\ Mine # Empty /\ Mine # None /\ Mine # Err
    /\ Empty # None /\ Empty # Err /\ None # Err

VARIABLES
    \* the sandboxes
    pc,         \* "unborn", "idle", "wait" (blocked on rx.recv) or "gone"
    mode,       \* "keep": Database (&mut self); "ref": DatabaseRef (&self)
    goal,       \* the key the sandbox reads
    want,       \* the key it has asked the backend for
    reply,      \* what its oneshot channel holds
    local,      \* its local database
    \* the backend
    phase,      \* where `poll` is: "drain", "recv", "poll", "parked" or "done"
    woken,      \* its waker has been called
    incoming,   \* clients whose request is in the channel
    queued,     \* clients whose request is in queued_requests
    listeners,  \* key -> clients that wait for its fetch
    fetch,      \* client that opened it -> a future of pending_requests
    toPoll,     \* openers of the futures this `poll` has still to visit
    cache       \* the backend's database

sandbox == <<pc, mode, goal, want, reply, local>>
backend == <<phase, woken, incoming, queued, listeners, fetch, toPoll, cache>>
vars == <<pc, mode, goal, want, reply, local,
          phase, woken, incoming, queued, listeners, fetch, toPoll, cache>>

NoFetch == [key |-> None, st |-> "none", val |-> None]
Fetch == [key : Key \cup {None}, st : {"none", "fresh", "flight", "ready", "failed"},
          val : Chain \cup {None}]
Pending == {c \in Client : fetch[c].st # "none"}
Live == {c \in Client : pc[c] \in {"idle", "wait"}}

InitialLocal ==
    [k \in Key |-> IF k \in Injected THEN Mine
                   ELSE IF k \in Diffed THEN FromDiff ELSE None]

Init ==
    /\ pc = [c \in Client |-> IF c = Factory THEN "idle" ELSE "unborn"]
    /\ mode = [c \in Client |-> "keep"]
    /\ goal = [c \in Client |-> None]
    /\ want = [c \in Client |-> None]
    /\ reply = [c \in Client |-> None]
    /\ local = [c \in Client |-> InitialLocal]
    /\ phase = "drain"
    /\ woken = FALSE
    /\ incoming = {}
    /\ queued = {}
    /\ listeners = [k \in Key |-> {}]
    /\ fetch = [c \in Client |-> NoFetch]
    /\ toPoll = {}
    /\ cache = [k \in Key |-> IF k \in Diffed THEN FromDiff ELSE None]
--------------------------------------------------------------------------------
\* The sandboxes.

\* try_send on a fresh clone of the sender: never full; wakes the receiver.
Send(c, k) ==
    /\ want' = [want EXCEPT ![c] = k]
    /\ incoming' = incoming \cup {c}
    /\ woken' = TRUE

\* ForkFactory::new_sandbox_fork, or the clone of a factory.
Fork(c, d) ==
    /\ pc[c] = "unborn"
    /\ pc[d] = "idle"
    /\ pc' = [pc EXCEPT ![c] = "idle"]
    /\ local' = [local EXCEPT ![c] = local[d]]
    /\ UNCHANGED <<mode, goal, want, reply, backend>>

\* Mutant of FirstAsk: a slot is asked for without its account.
AskSlotAtOnce(c, k, m) == k

\* The first key a read that misses locally asks the backend for: Database::storage
\* fetches the account again before every slot; behind DatabaseRef the interpreter
\* loads the account, from the local database if it is there, before a slot of it.
FirstAsk(c, k, m) ==
    IF k \in Slot /\ (m = "keep" \/ local[c][Owner[k]] = None) THEN Owner[k] ELSE k

\* A read of k; one that is found locally changes nothing.
ReadKey(c, k, m) ==
    /\ pc[c] = "idle"
    /\ local[c][k] = None \/ (m = "ref" /\ k \in Number)
    /\ pc' = [pc EXCEPT ![c] = "wait"]
    /\ mode' = [mode EXCEPT ![c] = m]
    /\ goal' = [goal EXCEPT ![c] = k]
    /\ Send(c, FirstAsk(c, k, m))
    /\ UNCHANGED <<reply, local, phase, queued, listeners, fetch, toPoll, cache>>

\* rx.recv returns.  An error ends the read; the account of a slot is recorded, over
\* whatever the local database held for it, and the slot itself is asked for next.
Receive(c) ==
    /\ pc[c] = "wait" /\ reply[c] # None
    /\ reply' = [reply EXCEPT ![c] = None]
    /\ local' = IF mode[c] = "keep" /\ reply[c] # Err
                THEN [local EXCEPT ![c][want[c]] = reply[c]] ELSE local
    /\ IF reply[c] # Err /\ want[c] # goal[c]
       THEN Send(c, goal[c]) /\ UNCHANGED <<pc, goal>>
       ELSE /\ pc' = [pc EXCEPT ![c] = "idle"]
            /\ want' = [want EXCEPT ![c] = None]
            /\ goal' = [goal EXCEPT ![c] = None]
            /\ UNCHANGED <<incoming, woken>>
    /\ UNCHANGED <<mode, phase, queued, listeners, fetch, toPoll, cache>>

\* DatabaseCommit::commit after a transaction, ForkFactory::insert_account_storage:
\* a value is written locally for something whose account is known locally.
Write(c, k) ==
    /\ pc[c] = "idle"
    /\ k \in Account \cup Slot
    /\ local[c][IF k \in Slot THEN Owner[k] ELSE k] # None
    /\ local' = [local EXCEPT ![c][k] = Mine]
    /\ UNCHANGED <<pc, mode, goal, want, reply, backend>>

\* Mutant of Drop: the last sender does not wake the backend.
DropQuietly(c) ==
    /\ pc[c] = "idle"
    /\ pc' = [pc EXCEPT ![c] = "gone"]
    /\ UNCHANGED <<mode, goal, want, reply, local, backend>>

\* The sandbox is dropped, and its sender with it: the last one closes the channel.
Drop(c) ==
    /\ pc[c] = "idle"
    /\ pc' = [pc EXCEPT ![c] = "gone"]
    /\ woken' = TRUE
    /\ UNCHANGED <<mode, goal, want, reply, local,
                   phase, incoming, queued, listeners, fetch, toPoll, cache>>
--------------------------------------------------------------------------------
\* The backend.

Wake ==
    /\ phase = "parked" /\ woken
    /\ phase' = "drain"
    /\ woken' = FALSE
    /\ UNCHANGED <<sandbox, incoming, queued, listeners, fetch, toPoll, cache>>

\* on_request: from the cache, or by the fetch under way, or by a new one.
FromCache(c) ==
    /\ cache[want[c]] # None
    /\ reply' = [reply EXCEPT ![c] = cache[want[c]]]
    /\ UNCHANGED <<listeners, fetch>>

\* Mutants of Join and Open: the Occupied arm drops the listener; the entry is not
\* looked at.
JoinForgets(c) ==
    /\ cache[want[c]] = None
    /\ listeners[want[c]] # {}
    /\ UNCHANGED <<reply, listeners, fetch>>

OpenAlways(c) ==
    /\ cache[want[c]] = None
    /\ listeners' = [listeners EXCEPT ![want[c]] = @ \cup {c}]
    /\ fetch' = [fetch EXCEPT ![c] = [key |-> want[c], st |-> "fresh", val |-> None]]
    /\ UNCHANGED reply

Join(c) ==
    /\ cache[want[c]] = None
    /\ listeners[want[c]] # {}
    /\ listeners' = [listeners EXCEPT ![want[c]] = @ \cup {c}]
    /\ UNCHANGED <<reply, fetch>>

Open(c) ==
    /\ cache[want[c]] = None
    /\ listeners[want[c]] = {}
    /\ listeners' = [listeners EXCEPT ![want[c]] = {c}]
    /\ fetch' = [fetch EXCEPT ![c] = [key |-> want[c], st |-> "fresh", val |-> None]]
    /\ UNCHANGED reply

OnRequest(c) ==
    /\ phase = "drain" /\ c \in queued
    /\ queued' = queued \ {c}
    /\ FromCache(c) \/ Join(c) \/ Open(c)
    /\ UNCHANGED <<pc, mode, goal, want, local, phase, woken, incoming, toPoll, cache>>

Drained ==
    /\ phase = "drain" /\ queued = {}
    /\ phase' = "recv"
    /\ UNCHANGED <<sandbox, woken, incoming, queued, listeners, fetch, toPoll, cache>>

Take(c) ==
    /\ phase = "recv" /\ c \in incoming
    /\ incoming' = incoming \ {c}
    /\ queued' = queued \cup {c}
    /\ UNCHANGED <<sandbox, phase, woken, listeners, fetch, toPoll, cache>>

\* Mutant of Close: Pending is taken for None.
CloseEarly ==
    /\ phase = "recv" /\ incoming = {}
    /\ phase' = "done"
    /\ UNCHANGED <<sandbox, woken, incoming, queued, listeners, fetch, toPoll, cache>>

\* poll_next returns None: every sender is gone and the channel is empty.
Close ==
    /\ phase = "recv" /\ incoming = {} /\ Live = {}
    /\ phase' = "done"
    /\ UNCHANGED <<sandbox, woken, incoming, queued, listeners, fetch, toPoll, cache>>

\* poll_next returns Pending.
NothingIncoming ==
    /\ phase = "recv" /\ incoming = {} /\ Live # {}
    /\ phase' = "poll"
    /\ toPoll' = Pending
    /\ UNCHANGED <<sandbox, woken, incoming, queued, listeners, fetch, cache>>

\* CacheDB::insert_account_storage makes a default account when there is none.
Inserted(k, v) ==
    [x \in Key |-> IF x = k THEN v
                   ELSE IF k \in Slot /\ x = Owner[k] /\ cache[x] = None THEN Empty
                   ELSE cache[x]]

Notify(k, v) ==
    /\ reply' = [c \in Client |-> IF c \in listeners[k] THEN v ELSE reply[c]]
    /\ listeners' = [listeners EXCEPT ![k] = {}]

\* A future does nothing before its first poll, which sends the request.
PollUnready(f) ==
    /\ fetch[f].st \in {"fresh", "flight"}
    /\ fetch' = [fetch EXCEPT ![f].st = "flight"]
    /\ UNCHANGED <<reply, listeners, cache>>

\* Mutants of PollReady and PollFailed: the answer is not cached; the error is.
ReadyUncached(f) ==
    /\ fetch[f].st = "ready"
    /\ Notify(fetch[f].key, fetch[f].val)
    /\ fetch' = [fetch EXCEPT ![f] = NoFetch]
    /\ UNCHANGED cache

FailureCached(f) ==
    /\ fetch[f].st = "failed"
    /\ cache' = Inserted(fetch[f].key, Err)
    /\ Notify(fetch[f].key, Err)
    /\ fetch' = [fetch EXCEPT ![f] = NoFetch]

PollReady(f) ==
    /\ fetch[f].st = "ready"
    /\ cache' = Inserted(fetch[f].key, fetch[f].val)
    /\ Notify(fetch[f].key, fetch[f].val)
    /\ fetch' = [fetch EXCEPT ![f] = NoFetch]

PollFailed(f) ==
    /\ fetch[f].st = "failed"
    /\ Notify(fetch[f].key, Err)
    /\ fetch' = [fetch EXCEPT ![f] = NoFetch]
    /\ UNCHANGED cache

PollOne(f) ==
    /\ phase = "poll" /\ f \in toPoll
    /\ toPoll' = toPoll \ {f}
    /\ PollUnready(f) \/ PollReady(f) \/ PollFailed(f)
    /\ UNCHANGED <<pc, mode, goal, want, local, phase, woken, incoming, queued>>

\* Mutant of PollEnd: Pending although requests were taken in.
ParkAlways ==
    /\ phase = "poll" /\ toPoll = {}
    /\ phase' = "parked"
    /\ UNCHANGED <<sandbox, woken, incoming, queued, listeners, fetch, toPoll, cache>>

\* Once round: again if requests were taken in, else Poll::Pending.
PollEnd ==
    /\ phase = "poll" /\ toPoll = {}
    /\ phase' = IF queued = {} THEN "parked" ELSE "drain"
    /\ UNCHANGED <<sandbox, woken, incoming, queued, listeners, fetch, toPoll, cache>>

\* The node answers, or the connection fails; the future's waker is called.
Respond(f) ==
    /\ fetch[f].st = "flight"
    /\ \/ \E v \in Chain : fetch' = [fetch EXCEPT ![f].st = "ready", ![f].val = v]
       \/ fetch' = [fetch EXCEPT ![f].st = "failed"]
    /\ woken' = TRUE
    /\ UNCHANGED <<sandbox, phase, incoming, queued, listeners, toPoll, cache>>
--------------------------------------------------------------------------------
SandboxStep(c) ==
    \/ \E d \in Client : Fork(c, d)
    \/ \E k \in Key, m \in {"keep", "ref"} : ReadKey(c, k, m)
    \/ Receive(c)
    \/ \E k \in Key : Write(c, k)
    \/ Drop(c)

BackendStep ==
    \/ Wake \/ Drained \/ Close \/ NothingIncoming \/ PollEnd
    \/ \E c \in Client : OnRequest(c) \/ Take(c) \/ PollOne(c)

Next ==
    \/ \E c \in Client : SandboxStep(c) \/ Respond(c)
    \/ BackendStep
    \/ phase = "done" /\ UNCHANGED vars

\* The backend's thread runs, blocked threads run again once answered, and the
\* node answers or the connection reports an error.
Fairness ==
    /\ WF_vars(BackendStep)
    /\ \A c \in Client : WF_vars(Receive(c)) /\ WF_vars(Respond(c))

Spec == Init /\ [][Next]_vars /\ Fairness
--------------------------------------------------------------------------------
TypeOK ==
    /\ pc \in [Client -> {"unborn", "idle", "wait", "gone"}]
    /\ mode \in [Client -> {"keep", "ref"}]
    /\ goal \in [Client -> Key \cup {None}]
    /\ want \in [Client -> Key \cup {None}]
    /\ reply \in [Client -> Read \cup {None, Err}]
    /\ local \in [Client -> [Key -> Value \cup {None}]]
    /\ phase \in {"drain", "recv", "poll", "parked", "done"}
    /\ woken \in BOOLEAN
    /\ incoming \subseteq Client
    /\ queued \subseteq Client
    /\ listeners \in [Key -> SUBSET Client]
    /\ fetch \in [Client -> Fetch]
    /\ toPoll \subseteq Client
    /\ cache \in [Key -> Read \cup {None}]

\* A blocked sandbox is never forgotten: its request is in exactly one place, the
\* channel, the queue, or the listeners of a key that is being fetched, or its
\* answer is there (global_backend.rs: on_request and the three arms of poll).
Waiting(c) ==
    /\ c \in incoming \/ c \in queued \/ reply[c] # None
       \/ \E f \in Pending : fetch[f].key = want[c] /\ c \in listeners[want[c]]
    /\ ~(c \in incoming /\ c \in queued)
    /\ c \in incoming \cup queued => reply[c] = None
    /\ \A k \in Key : c \in listeners[k] =>
          k = want[c] /\ c \notin incoming \cup queued /\ reply[c] = None
NoOrphan == \A c \in Client : pc[c] = "wait" => Waiting(c)

\* However many sandboxes ask for a key, at most one fetch of it is under way, and
\* somebody waits for it (the Occupied/Vacant arms of request_account,
\* request_account_storage and request_hash).
OneFetchPerKey ==
    \A f, g \in Pending :
        /\ fetch[f].key = fetch[g].key => f = g
        /\ listeners[fetch[f].key] # {}

\* The sandboxes of one transaction see one chain state: two that took a key from
\* the backend hold the same value, even when the node's head has moved between
\* their questions (global_backend.rs, "update the cache").
Seen(k) == {local[c][k] : c \in Client} \cup {reply[c] : c \in {d \in Client : want[d] = k}}
AgreedReads == \A k \in Key : \A u, v \in Seen(k) \cap Read : u = v

\* Nobody is told that an account is empty because one of its slots was fetched
\* first (insert_account_storage in global_backend.rs makes a default account, so
\* every caller has to fetch the account before its slots).
NoPhantomAccount == \A a \in Account : cache[a] # Empty

\* The backend's future completes only when no sandbox is blocked on it
\* (Poll::Ready(None) returns without draining queued_requests).
ClosedQuietly == phase = "done" => queued = {} /\ \A c \in Client : pc[c] # "wait"

\* Every read of a sandbox ends, with a value or with an error: no request is left
\* in the queue when poll returns Pending, and no future is left unpolled.
EveryReadEnds == \A c \in Client : pc[c] = "wait" ~> pc[c] = "idle"

\* When the last sandbox is dropped the backend's thread ends.
ThreadEnds == (Live = {}) ~> phase = "done"

\* What commit and insert_account_info wrote locally stays until it is written again
\* (fork_db.rs, `basic`: "found locally, return it").
LocalWritesStay ==
    [][\A c \in Client, k \in Key : local[c][k] = Mine /\ pc[c] # "unborn"
          => local'[c][k] = Mine]_vars

\* The backend as the sandboxes see it.
Contract == INSTANCE ReadThrough WITH
    Value <- Read, asked <- want, answer <- reply, settled <- cache
Implements == Contract!Spec
--------------------------------------------------------------------------------
\* The inductive invariant behind the safety properties.

\* Who is blocked, and on what: the key it reads, or first the account of that slot.
Asking ==
    \A c \in Client :
        /\ pc[c] = "wait" <=> want[c] # None
        /\ pc[c] = "wait" =>
              /\ goal[c] \in Key
              /\ want[c] = goal[c] \/ (goal[c] \in Slot /\ want[c] = Owner[goal[c]])

\* Where the request of a blocked client can be.
Placed ==
    \A c \in Client :
        /\ pc[c] = "wait" => \/ c \in incoming \cup queued \/ reply[c] # None
                             \/ c \in listeners[want[c]]
        /\ c \in incoming => pc[c] = "wait" /\ c \notin queued /\ reply[c] = None
        /\ c \in queued => pc[c] = "wait" /\ reply[c] = None
        /\ reply[c] # None => pc[c] = "wait"
        /\ \A k \in Key : c \in listeners[k] =>
              pc[c] = "wait" /\ k = want[c] /\ c \notin incoming \cup queued /\ reply[c] = None

\* Fetches and listeners: the opener of a fetch listens to it, a key that has
\* listeners is being fetched and not cached.
Fetching ==
    /\ \A f \in Pending :
          /\ fetch[f].key \in Key
          /\ f \in listeners[fetch[f].key]
          /\ cache[fetch[f].key] = None
          /\ fetch[f].st = "ready" => fetch[f].val \in Chain
    /\ \A k \in Key : listeners[k] # {} => \E f \in Pending : fetch[f].key = k
    /\ \A f, g \in Pending : fetch[f].key = fetch[g].key => f = g

\* Accounts are fetched before their slots.
AccountsFirst ==
    /\ \A s \in Slot : cache[s] # None => cache[Owner[s]] # None
    /\ \A c \in Client : want[c] \in Slot => cache[Owner[want[c]]] # None
    /\ \A c \in Client, a \in Account \ Injected :
          local[c][a] # None => cache[a] # None
    /\ NoPhantomAccount

\* What was read is what the cache holds.
FromOneCache ==
    \A c \in Client :
        /\ reply[c] \in {None, Err} \/ reply[c] = cache[want[c]]
        /\ \A k \in Key : local[c][k] \in Read => local[c][k] = cache[k]

Closing == phase = "done" => Live = {}

IInv == TypeOK /\ Asking /\ Placed /\ Fetching /\ AccountsFirst /\ FromOneCache /\ Closing
================================================================================
