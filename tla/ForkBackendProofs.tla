--------------------------- MODULE ForkBackendProofs ---------------------------
(* The safety of the fork backend, for any number of sandboxes and keys.       *)
EXTENDS ForkBackend, TLAPS

USE DEF Key, Read, Value, Special, Pending, Live, NoFetch, Fetch, sandbox, backend

\* Nothing is asked, fetched or cached before the sandboxes start.
LEMMA InitIInv == Init => IInv
<1> SUFFICES ASSUME Init PROVE IInv
  OBVIOUS
<1> USE DEF Init
<1>1. TypeOK
  BY KeysAssumption, ValuesAssumption DEF TypeOK, InitialLocal
<1>2. Asking /\ Placed /\ Closing
  BY KeysAssumption DEF Asking, Placed, Closing
<1>3. Fetching
  BY DEF Fetching
<1>4. AccountsFirst
  BY KeysAssumption, OwnerAssumption, ValuesAssumption
  DEF AccountsFirst, NoPhantomAccount, InitialLocal
<1>5. FromOneCache
  BY KeysAssumption, ValuesAssumption DEF FromOneCache, InitialLocal
<1> QED
  BY <1>1, <1>2, <1>3, <1>4, <1>5 DEF IInv

\* A fork copies a local database that agrees with the cache, and asks for nothing.
LEMMA ForkIInv ==
  ASSUME IInv, NEW c \in Client, NEW d \in Client, Fork(c, d)
  PROVE  IInv'
<1> USE KeysAssumption, OwnerAssumption, ValuesAssumption DEF IInv, Fork
<1>1. TypeOK'
  BY DEF TypeOK
<1>2. Asking'
  BY DEF TypeOK, Asking
<1>3. Placed'
  BY DEF TypeOK, Placed
<1>4. Fetching'
  BY DEF TypeOK, Fetching
<1>5. AccountsFirst'
  BY DEF TypeOK, AccountsFirst, NoPhantomAccount, Asking, FromOneCache
<1>6. FromOneCache'
  BY DEF TypeOK, FromOneCache
<1>7. Closing'
  BY DEF TypeOK, Closing
<1> QED
  BY <1>1, <1>2, <1>3, <1>4, <1>5, <1>6, <1>7

\* A sandbox that blocks has its request in the channel; a slot is asked for directly
\* only when its account is known, hence cached.
LEMMA ReadKeyIInv ==
  ASSUME IInv, NEW c \in Client, NEW k \in Key, NEW m \in {"keep", "ref"}, ReadKey(c, k, m)
  PROVE  IInv'
<1> USE KeysAssumption, OwnerAssumption, ValuesAssumption DEF IInv, ReadKey, FirstAsk, Send
<1>1. TypeOK'
  BY DEF TypeOK
<1>2. Asking'
  BY DEF TypeOK, Asking
<1>3. Placed'
  BY DEF TypeOK, Placed
<1>4. Fetching'
  BY DEF TypeOK, Fetching
<1>5. AccountsFirst'
  BY DEF TypeOK, AccountsFirst, NoPhantomAccount, Asking, FromOneCache
<1>6. FromOneCache'
  BY DEF TypeOK, Placed, FromOneCache
<1>7. Closing'
  BY DEF TypeOK, Closing
<1> QED
  BY <1>1, <1>2, <1>3, <1>4, <1>5, <1>6, <1>7

\* An answer agrees with the cache; the request for the slot follows that for its
\* account, which is cached by then.
LEMMA ReceiveIInv ==
  ASSUME IInv, NEW c \in Client, Receive(c)
  PROVE  IInv'
<1> USE KeysAssumption, OwnerAssumption, ValuesAssumption DEF IInv, Receive, Send
<1>1. /\ want[c] \in Key /\ goal[c] \in Key
      /\ want[c] # goal[c] => goal[c] \in Slot /\ want[c] = Owner[goal[c]]
      /\ reply[c] # Err => reply[c] \in Read /\ cache[want[c]] = reply[c]
  BY DEF TypeOK, Asking, FromOneCache
<1>2. \A d \in Client, x \in Key :
         local'[d][x] = local[d][x] \/ (x = want[c] /\ local'[d][x] = reply[c] /\ reply[c] # Err)
  BY <1>1 DEF TypeOK
<1>3. TypeOK'
  <2>1. local' \in [Client -> [Key -> Value \cup {None}]]
    <3>1. CASE mode[c] = "keep" /\ reply[c] # Err
      <4>1. reply[c] \in Value
        BY <1>1, <3>1
      <4>2. [local[c] EXCEPT ![want[c]] = reply[c]] \in [Key -> Value \cup {None}]
        BY <1>1, <4>1 DEF TypeOK
      <4>3. local' = [local EXCEPT ![c] = [local[c] EXCEPT ![want[c]] = reply[c]]]
        BY <3>1 DEF TypeOK
      <4>4. local \in [Client -> [Key -> Value \cup {None}]]
        BY DEF TypeOK
      <4> HIDE DEF Key, Value, Receive
      <4> QED
        BY <4>2, <4>3, <4>4
    <3>2. CASE ~(mode[c] = "keep" /\ reply[c] # Err)
      BY <3>2 DEF TypeOK
    <3> QED
      BY <3>1, <3>2
  <2>2. /\ pc' \in [Client -> {"unborn", "idle", "wait", "gone"}]
        /\ goal' \in [Client -> Key \cup {None}]
        /\ want' \in [Client -> Key \cup {None}]
        /\ reply' \in [Client -> Read \cup {None, Err}]
        /\ incoming' \subseteq Client
        /\ woken' \in BOOLEAN
    <3>1. reply' \in [Client -> Read \cup {None, Err}]
      BY DEF TypeOK
    <3>2. CASE reply[c] # Err /\ want[c] # goal[c]
      <4>1. /\ want' = [want EXCEPT ![c] = goal[c]]
            /\ incoming' = incoming \cup {c}
            /\ woken' = TRUE
            /\ UNCHANGED <<pc, goal>>
        BY <3>2
      <4> HIDE DEF Receive, Send
      <4> QED
        BY <1>1, <3>1, <4>1 DEF TypeOK
    <3>3. CASE ~(reply[c] # Err /\ want[c] # goal[c])
      <4>1. /\ pc' = [pc EXCEPT ![c] = "idle"]
            /\ want' = [want EXCEPT ![c] = None]
            /\ goal' = [goal EXCEPT ![c] = None]
            /\ UNCHANGED <<incoming, woken>>
        BY <3>3
      <4> HIDE DEF Receive, Send
      <4> QED
        BY <3>1, <4>1 DEF TypeOK
    <3> QED
      BY <3>2, <3>3
  <2>3. UNCHANGED <<mode, phase, queued, listeners, fetch, toPoll, cache>>
    OBVIOUS
  <2> HIDE DEF Receive, Send
  <2> QED
    BY <2>1, <2>2, <2>3 DEF TypeOK
<1>4. Asking'
  BY DEF TypeOK, Asking
<1>5. Placed'
  BY DEF TypeOK, Placed
<1>6. Fetching' /\ Closing'
  BY DEF TypeOK, Fetching, Closing
<1>7. AccountsFirst'
  <2>1. \A d \in Client : want'[d] \in Slot => cache[Owner[want'[d]]] # None
    BY <1>1 DEF TypeOK, AccountsFirst
  <2>2. \A d \in Client, a \in Account \ Injected :
           local'[d][a] # None => cache[a] # None
    BY <1>1, <1>2 DEF AccountsFirst
  <2> QED
    BY <2>1, <2>2 DEF AccountsFirst, NoPhantomAccount
<1>8. FromOneCache'
  <2>1. \A d \in Client : reply'[d] \in {None, Err} \/ reply'[d] = cache[want'[d]]
    BY DEF TypeOK, FromOneCache
  <2>2. \A d \in Client, x \in Key : local'[d][x] \in Read => local'[d][x] = cache[x]
    BY <1>1, <1>2 DEF FromOneCache
  <2> QED
    BY <2>1, <2>2 DEF FromOneCache
<1> QED
  BY <1>3, <1>4, <1>5, <1>6, <1>7, <1>8

\* A local write is Mine, which the cache never holds, for an account that is known.
LEMMA WriteIInv ==
  ASSUME IInv, NEW c \in Client, NEW k \in Key, Write(c, k)
  PROVE  IInv'
<1> USE KeysAssumption, OwnerAssumption, ValuesAssumption DEF IInv, Write
<1>1. TypeOK'
  BY DEF TypeOK
<1>2. Asking'
  BY DEF TypeOK, Asking
<1>3. Placed'
  BY DEF TypeOK, Placed
<1>4. Fetching'
  BY DEF TypeOK, Fetching
<1>5. AccountsFirst'
  BY DEF TypeOK, AccountsFirst, NoPhantomAccount, Asking, FromOneCache
<1>6. FromOneCache'
  BY DEF TypeOK, FromOneCache
<1>7. Closing'
  BY DEF TypeOK, Closing
<1> QED
  BY <1>1, <1>2, <1>3, <1>4, <1>5, <1>6, <1>7

\* A request taken from the queue is answered, joined to the one fetch of its key, or
\* opens it.
LEMMA OnRequestIInv ==
  ASSUME IInv, NEW c \in Client, OnRequest(c)
  PROVE  IInv'
<1> USE KeysAssumption, ValuesAssumption DEF IInv, OnRequest
<1> DEFINE k == want[c]
<1>1. /\ k \in Key
      /\ pc[c] = "wait"
      /\ reply[c] = None
      /\ c \notin incoming
      /\ \A x \in Key : c \notin listeners[x]
  BY DEF TypeOK, Asking, Placed
<1>2. c \notin Pending
  BY <1>1 DEF Fetching
<1>3. Asking' /\ Closing'
  BY DEF Asking, Closing
<1> HIDE DEF k
<1>4. CASE FromCache(c)
  <2> USE <1>4, <1>1 DEF FromCache, k
  <2>1. TypeOK'
    BY DEF TypeOK
  <2>2. Placed'
    BY DEF TypeOK, Placed
  <2>3. Fetching' /\ AccountsFirst'
    BY DEF Fetching, AccountsFirst, NoPhantomAccount
  <2>4. FromOneCache'
    BY DEF TypeOK, FromOneCache
  <2> QED
    BY <1>3, <2>1, <2>2, <2>3, <2>4
<1>5. CASE Join(c)
  <2> USE <1>5, <1>1 DEF Join, k
  <2>1. TypeOK'
    BY DEF TypeOK
  <2>2. Placed'
    BY DEF TypeOK, Placed
  <2>3. Fetching'
    BY DEF TypeOK, Fetching
  <2>4. AccountsFirst' /\ FromOneCache'
    BY DEF AccountsFirst, NoPhantomAccount, FromOneCache
  <2> QED
    BY <1>3, <2>1, <2>2, <2>3, <2>4
<1>6. CASE Open(c)
  <2> USE <1>6, <1>1 DEF Open, k
  <2>1. TypeOK'
    BY DEF TypeOK
  <2>2. Placed'
    BY DEF TypeOK, Placed
  <2>3. Pending' = Pending \cup {c} /\ fetch'[c].key = k
    BY DEF TypeOK
  <2>4. \A f \in Pending : fetch'[f] = fetch[f] /\ fetch[f].key # k
    BY <1>2 DEF TypeOK, Fetching
  <2>5. Fetching'
    <3>1. /\ fetch'[c].st = "fresh"
          /\ listeners'[k] = {c}
          /\ \A x \in Key : x # k => listeners'[x] = listeners[x]
      BY DEF TypeOK
    <3>2. \A g \in Pending' : /\ fetch'[g].key \in Key
                              /\ g \in listeners'[fetch'[g].key]
                              /\ cache'[fetch'[g].key] = None
                              /\ fetch'[g].st = "ready" => fetch'[g].val \in Chain
      BY <2>3, <2>4, <3>1 DEF Fetching
    <3>3. \A x \in Key : listeners'[x] # {} => \E g \in Pending' : fetch'[g].key = x
      BY <2>3, <2>4, <3>1 DEF Fetching
    <3>4. \A g, h \in Pending' : fetch'[g].key = fetch'[h].key => g = h
      BY <2>3, <2>4 DEF Fetching
    <3> QED
      BY <3>2, <3>3, <3>4 DEF Fetching
  <2>6. AccountsFirst' /\ FromOneCache'
    BY DEF AccountsFirst, NoPhantomAccount, FromOneCache
  <2> QED
    BY <1>3, <2>1, <2>2, <2>5, <2>6
<1> QED
  BY <1>4, <1>5, <1>6

\* A future that is ready fills the cache once and answers all who listen to it; the
\* account of a slot is cached before, so that no default account is made.
LEMMA PollOneIInv ==
  ASSUME IInv, NEW f \in Client, PollOne(f)
  PROVE  IInv'
<1> USE KeysAssumption, OwnerAssumption, ValuesAssumption DEF IInv, PollOne
<1> DEFINE k == fetch[f].key
<1>1. Asking' /\ Closing'
  BY DEF Asking, Closing
<1>2. fetch[f].st # "none" => k \in Key /\ cache[k] = None
  BY DEF Fetching
<1> HIDE DEF k
<1>3. CASE PollUnready(f)
  <2> USE <1>3 DEF PollUnready
  <2>1. TypeOK'
    <3>1. fetch[f] \in Fetch
      BY DEF TypeOK
    <3> HIDE DEF PollOne, PollUnready
    <3>2. [fetch[f] EXCEPT !.st = "flight"] \in Fetch
      BY <3>1
    <3> USE DEF PollOne, PollUnready
    <3>3. fetch' \in [Client -> Fetch]
      BY <3>2 DEF TypeOK
    <3> QED
      BY <3>3 DEF TypeOK
  <2>2. Placed' /\ AccountsFirst' /\ FromOneCache'
    BY DEF Placed, AccountsFirst, NoPhantomAccount, FromOneCache
  <2>3. Pending' = Pending
    BY DEF TypeOK
  <2>4. \A g \in Client : fetch'[g].key = fetch[g].key /\ fetch'[g].val = fetch[g].val
    BY DEF TypeOK
  <2>5. \A g \in Client : fetch'[g].st = "ready" => fetch[g].st = "ready"
    BY DEF TypeOK
  <2>6. Fetching'
    BY <2>3, <2>4, <2>5 DEF TypeOK, Fetching
  <2> QED
    BY <1>1, <2>1, <2>2, <2>6
<1>4. ASSUME NEW v \in Chain \cup {Err}, f \in Pending, Notify(k, v),
             fetch' = [fetch EXCEPT ![f] = NoFetch],
             v = Err => cache' = cache,
             v # Err => cache' = Inserted(k, v)
      PROVE  IInv'
  <2> USE <1>4 DEF Notify
  <2>1. k \in Key /\ cache[k] = None
    BY <1>2
  <2>2. k \in Slot => cache[Owner[k]] # None
    \* its opener waits for that slot
    <3>1. f \in listeners[k]
      BY DEF Fetching, k
    <3>2. want[f] = k
      BY <2>1, <3>1 DEF Placed
    <3> QED
      BY <3>2 DEF AccountsFirst
  <2>3. /\ cache' \in [Key -> Read \cup {None}]
        /\ \A x \in Key : x # k => cache'[x] = cache[x]
        /\ v # Err => cache'[k] = v
        /\ v = Err => cache'[k] = None
    <3>1. CASE v = Err
      BY <2>1, <3>1 DEF TypeOK
    <3>2. CASE v # Err
      BY <2>1, <2>2, <3>2 DEF TypeOK, Inserted
    <3> QED
      BY <3>1, <3>2
  <2>4. /\ \A c \in Client : c \in listeners[k] => reply'[c] = v /\ want[c] = k
        /\ \A c \in Client : c \notin listeners[k] => reply'[c] = reply[c]
    BY <2>1 DEF Placed
  <2>5. TypeOK'
    <3>1. reply' \in [Client -> Read \cup {None, Err}]
      BY DEF TypeOK
    <3>2. NoFetch \in Fetch
      OBVIOUS
    <3>3. fetch' \in [Client -> Fetch] /\ listeners' \in [Key -> SUBSET Client]
      BY <3>2 DEF TypeOK
    <3> QED
      BY <2>3, <3>1, <3>3 DEF TypeOK
  <2>6. Placed'
    <3>1. v # None
      OBVIOUS
    <3>2. listeners'[k] = {} /\ \A x \in Key : x # k => listeners'[x] = listeners[x]
      BY <2>1 DEF TypeOK
    <3>3. \A c \in Client, x \in Key : c \in listeners[x] => x = want[c]
      BY DEF Placed
    <3>4. \A c \in Client : want'[c] = want[c] /\ pc'[c] = pc[c]
      OBVIOUS
    <3>5. ASSUME NEW c \in Client, pc[c] = "wait"
          PROVE  c \in incoming \cup queued \/ reply'[c] # None \/ c \in listeners'[want[c]]
      BY <2>1, <2>4, <3>1, <3>2, <3>5 DEF TypeOK, Placed, Asking
    <3> QED
      BY <2>1, <2>4, <3>1, <3>2, <3>3, <3>4, <3>5 DEF Placed
  <2>7. Fetching'
    <3>1. Pending' = Pending \ {f} /\ \A g \in Pending \ {f} : fetch'[g] = fetch[g]
      BY DEF TypeOK
    <3>2. \A g \in Pending \ {f} : fetch[g].key # k
      BY DEF Fetching, k
    <3>3. listeners'[k] = {} /\ \A x \in Key : x # k => listeners'[x] = listeners[x]
      BY <2>1 DEF TypeOK
    <3>4. \A g \in Pending' : /\ fetch'[g].key \in Key
                              /\ g \in listeners'[fetch'[g].key]
                              /\ cache'[fetch'[g].key] = None
                              /\ fetch'[g].st = "ready" => fetch'[g].val \in Chain
      BY <2>3, <3>1, <3>2, <3>3 DEF Fetching
    <3>5. \A x \in Key : listeners'[x] # {} => \E g \in Pending' : fetch'[g].key = x
      BY <3>1, <3>3 DEF Fetching, k
    <3>6. \A g, h \in Pending' : fetch'[g].key = fetch'[h].key => g = h
      BY <3>1 DEF Fetching
    <3> QED
      BY <3>4, <3>5, <3>6 DEF Fetching
  <2>8. AccountsFirst'
    <3>1. \A x \in Key : cache[x] # None => cache'[x] = cache[x]
      BY <2>1, <2>3
    <3>2. \A s \in Slot : cache'[s] # None => cache'[Owner[s]] # None
      BY <2>2, <2>3, <3>1 DEF AccountsFirst
    <3>3. \A a \in Account : cache'[a] # Empty
      BY <2>3 DEF AccountsFirst, NoPhantomAccount
    <3> QED
      BY <3>1, <3>2, <3>3 DEF AccountsFirst, NoPhantomAccount
  <2>9. FromOneCache'
    <3>1. \A x \in Key : cache[x] # None => cache'[x] = cache[x]
      BY <2>1, <2>3
    <3>2. None \notin Read
      OBVIOUS
    <3>3. ASSUME NEW c \in Client
          PROVE  reply'[c] \in {None, Err} \/ reply'[c] = cache'[want'[c]]
      <4>1. CASE c \in listeners[k]
        BY <2>3, <2>4, <4>1
      <4>2. CASE c \notin listeners[k] /\ reply[c] \notin {None, Err}
        <5>1. reply[c] = cache[want[c]] /\ want[c] \in Key /\ reply[c] # None
          BY <4>2 DEF FromOneCache, TypeOK, Asking, Placed
        <5> QED
          BY <2>4, <4>2, <5>1, <3>1
      <4>3. CASE c \notin listeners[k] /\ reply[c] \in {None, Err}
        BY <2>4, <4>3
      <4> QED
        BY <4>1, <4>2, <4>3
    <3>4. \A c \in Client, x \in Key : local'[c][x] \in Read => local'[c][x] = cache'[x]
      BY <3>1, <3>2 DEF FromOneCache
    <3> QED
      BY <3>3, <3>4 DEF FromOneCache
  <2> QED
    BY <1>1, <2>5, <2>6, <2>7, <2>8, <2>9
<1>5. CASE PollReady(f)
  <2>1. fetch[f].val \in Chain /\ f \in Pending
    BY <1>5 DEF PollReady, Fetching
  <2> QED
    BY <1>4, <1>5, <2>1 DEF PollReady, k
<1>6. CASE PollFailed(f)
  BY <1>4, <1>6 DEF PollFailed, k
<1> QED
  BY <1>3, <1>5, <1>6

\* The node answers a future; nobody is told before poll.
LEMMA RespondIInv ==
  ASSUME IInv, NEW f \in Client, Respond(f)
  PROVE  IInv'
<1> USE DEF IInv, Respond
<1>1. /\ fetch' \in [Client -> Fetch]
      /\ Pending' = Pending
      /\ \A g \in Client : /\ fetch'[g].key = fetch[g].key
                           /\ fetch'[g].st = "ready" =>
                                 fetch'[g].val \in Chain \/ fetch'[g] = fetch[g]
  <2>1. CASE fetch' = [fetch EXCEPT ![f].st = "failed"]
    <3>1. [fetch[f] EXCEPT !.st = "failed"] \in Fetch
      BY DEF TypeOK
    <3> QED
      BY <2>1, <3>1 DEF TypeOK
  <2>2. ASSUME NEW v \in Chain, fetch' = [fetch EXCEPT ![f].st = "ready", ![f].val = v]
        PROVE  <1>1!:
    <3>1. [fetch[f] EXCEPT !.st = "ready", !.val = v] \in Fetch
      BY DEF TypeOK
    <3>2. fetch' = [fetch EXCEPT ![f] = [fetch[f] EXCEPT !.st = "ready", !.val = v]]
      BY <2>2 DEF TypeOK
    <3> QED
      BY <3>1, <3>2 DEF TypeOK
  <2> QED
    BY <2>1, <2>2
<1>2. TypeOK'
  BY <1>1 DEF TypeOK
<1>3. Asking' /\ Placed' /\ Closing'
  BY DEF Asking, Placed, Closing
<1>4. Fetching'
  BY <1>1 DEF Fetching
<1>5. AccountsFirst' /\ FromOneCache'
  BY DEF AccountsFirst, NoPhantomAccount, FromOneCache
<1> QED
  BY <1>2, <1>3, <1>4, <1>5

\* Every step keeps the invariant.
LEMMA NextIInv == IInv /\ [Next]_vars => IInv'
<1> SUFFICES ASSUME IInv, [Next]_vars PROVE IInv'
  OBVIOUS
<1>1. ASSUME NEW c \in Client, SandboxStep(c) PROVE IInv'
  <2>1. ASSUME NEW d \in Client, Fork(c, d) PROVE IInv'
    BY <2>1, ForkIInv
  <2>2. ASSUME NEW k \in Key, NEW m \in {"keep", "ref"}, ReadKey(c, k, m) PROVE IInv'
    BY <2>2, ReadKeyIInv
  <2>3. CASE Receive(c)
    BY <2>3, ReceiveIInv
  <2>4. ASSUME NEW k \in Key, Write(c, k) PROVE IInv'
    BY <2>4, WriteIInv
  <2>5. CASE Drop(c)
    <3> USE <2>5 DEF Drop, IInv
    <3>1. TypeOK' /\ Closing'
      BY DEF TypeOK, Closing
    <3>2. Asking' /\ Placed'
      BY DEF TypeOK, Asking, Placed
    <3>3. Fetching' /\ AccountsFirst' /\ FromOneCache'
      BY DEF Fetching, AccountsFirst, NoPhantomAccount, FromOneCache
    <3> QED
      BY <3>1, <3>2, <3>3
  <2> QED
    BY <1>1, <2>1, <2>2, <2>3, <2>4, <2>5 DEF SandboxStep
<1>2. ASSUME NEW f \in Client, Respond(f) PROVE IInv'
  BY <1>2, RespondIInv
<1>3. CASE BackendStep
  <2>1. ASSUME NEW c \in Client, OnRequest(c) PROVE IInv'
    BY <2>1, OnRequestIInv
  <2>2. ASSUME NEW c \in Client, Take(c) PROVE IInv'
    BY <2>2 DEF Take, IInv, TypeOK, Asking, Placed, Fetching, AccountsFirst,
                NoPhantomAccount, FromOneCache, Closing
  <2>3. ASSUME NEW f \in Client, PollOne(f) PROVE IInv'
    BY <2>3, PollOneIInv
  <2>4. CASE Wake \/ Drained \/ Close \/ NothingIncoming \/ PollEnd
    <3> USE <2>4 DEF Wake, Drained, Close, NothingIncoming, PollEnd, IInv
    <3>1. UNCHANGED <<pc, mode, goal, want, reply, local, incoming, queued, listeners,
                      fetch, cache>>
      OBVIOUS
    <3>2. TypeOK' /\ Closing'
      BY DEF TypeOK, Closing
    <3> HIDE DEF Wake, Drained, Close, NothingIncoming, PollEnd
    <3>3. Asking' /\ Placed' /\ Fetching'
      BY <3>1 DEF Asking, Placed, Fetching
    <3>4. AccountsFirst' /\ FromOneCache'
      BY <3>1 DEF AccountsFirst, NoPhantomAccount, FromOneCache
    <3> QED
      BY <3>2, <3>3, <3>4
  <2> QED
    BY <1>3, <2>1, <2>2, <2>3, <2>4 DEF BackendStep
<1>4. CASE UNCHANGED vars
  BY <1>4 DEF vars, IInv, TypeOK, Asking, Placed, Fetching, AccountsFirst,
              NoPhantomAccount, FromOneCache, Closing
<1> QED
  BY <1>1, <1>2, <1>3, <1>4 DEF Next

\* The invariant holds of every reachable state.
THEOREM Invariance == Spec => []IInv
  BY InitIInv, NextIInv, PTL DEF Spec

\* Type correctness of the sandboxes and the backend.
THEOREM TypeCorrect == Spec => []TypeOK
<1>1. IInv => TypeOK
  BY DEF IInv
<1> QED
  BY <1>1, Invariance, PTL

\* No blocked sandbox is forgotten by on_request and poll.
THEOREM NeverOrphaned == Spec => []NoOrphan
<1>1. IInv => NoOrphan
  <2> SUFFICES ASSUME IInv, NEW c \in Client, pc[c] = "wait" PROVE Waiting(c)
    BY DEF NoOrphan
  <2>1. want[c] \in Key
    BY DEF IInv, TypeOK, Asking
  <2>2. c \in listeners[want[c]] => \E f \in Pending : fetch[f].key = want[c]
    BY <2>1 DEF IInv, Fetching
  <2> QED
    BY <2>1, <2>2 DEF IInv, Placed, Waiting
<1> QED
  BY <1>1, Invariance, PTL

\* A key is fetched by one future at a time, and for somebody.
THEOREM SingleFetch == Spec => []OneFetchPerKey
<1>1. IInv => OneFetchPerKey
  BY DEF IInv, Fetching, OneFetchPerKey
<1> QED
  BY <1>1, Invariance, PTL

\* All sandboxes of a transaction see one value of a key.
THEOREM Agreement == Spec => []AgreedReads
<1>1. IInv => AgreedReads
  <2> SUFFICES ASSUME IInv, NEW k \in Key PROVE \A u \in Seen(k) \cap Read : u = cache[k]
    BY DEF AgreedReads
  <2> SUFFICES ASSUME NEW u \in Seen(k) \cap Read PROVE u = cache[k]
    OBVIOUS
  <2>1. CASE \E c \in Client : u = local[c][k]
    BY <2>1 DEF IInv, FromOneCache
  <2>2. CASE \E c \in Client : want[c] = k /\ u = reply[c]
    BY <2>2, ValuesAssumption DEF IInv, FromOneCache
  <2> QED
    BY <2>1, <2>2 DEF Seen
<1> QED
  BY <1>1, Invariance, PTL

\* No account is taken to be empty because one of its slots was fetched.
THEOREM NoPhantom == Spec => []NoPhantomAccount
<1>1. IInv => NoPhantomAccount
  BY DEF IInv, AccountsFirst
<1> QED
  BY <1>1, Invariance, PTL

\* The backend never ends under a sandbox that waits for it.
THEOREM QuietClose == Spec => []ClosedQuietly
<1>1. IInv => ClosedQuietly
  BY DEF IInv, TypeOK, Placed, Closing, ClosedQuietly
<1> QED
  BY <1>1, Invariance, PTL

\* The backend and its sandboxes implement the read-through contract: one value per
\* key, every answer that value or an error.
THEOREM Refinement == Spec => Implements
<1> USE DEF Contract!vars
<1>1. Init => Contract!Init
  BY InitIInv DEF Init, IInv, TypeOK, Contract!Init
<1>2. ASSUME IInv, [Next]_vars
      PROVE  Contract!Next \/ UNCHANGED Contract!vars
  <2> USE <1>2, KeysAssumption, ValuesAssumption
  <2>1. ASSUME NEW c \in Client, NEW k \in Key, NEW m \in {"keep", "ref"}, ReadKey(c, k, m)
        PROVE  \E x \in Key : Contract!Ask(c, x)
    <3>1. FirstAsk(c, k, m) \in Key
      BY DEF FirstAsk
    <3>2. want[c] = None
      BY <2>1 DEF ReadKey, IInv, Asking, TypeOK
    <3> QED
      BY <2>1, <3>1, <3>2 DEF ReadKey, Send, Contract!Ask
  <2>2. ASSUME NEW c \in Client, Receive(c)
        PROVE  \E x \in Key \cup {None} : Contract!Take(c, x)
    <3>1. goal[c] \in Key
      BY <2>2 DEF Receive, IInv, Asking
    <3>2. CASE reply[c] # Err /\ want[c] # goal[c]
      <4>1. Contract!Take(c, goal[c])
        BY <2>2, <3>2 DEF Receive, Send, Contract!Take
      <4> QED
        BY <3>1, <4>1
    <3>3. CASE ~(reply[c] # Err /\ want[c] # goal[c])
      <4>1. Contract!Take(c, None)
        BY <2>2, <3>3 DEF Receive, Contract!Take
      <4> QED
        BY <4>1
    <3> QED
      BY <3>2, <3>3
  <2>3. ASSUME NEW c \in Client, OnRequest(c)
        PROVE  Contract!Next \/ UNCHANGED Contract!vars
    <3>1. CASE FromCache(c)
      <4>1. want[c] \in Key /\ reply[c] = None /\ cache[want[c]] \in Read
        BY <2>3, <3>1 DEF OnRequest, FromCache, IInv, TypeOK, Asking, Placed
      <4>2. {c} \subseteq Contract!Unanswered(want[c])
        BY <4>1 DEF Contract!Unanswered
      <4>3. reply' = [d \in Client |-> IF d \in {c} THEN cache[want[c]] ELSE reply[d]]
        BY <3>1 DEF FromCache, IInv, TypeOK
      <4>4. cache' = [cache EXCEPT ![want[c]] = cache[want[c]]]
        BY <2>3, <4>1 DEF OnRequest, IInv, TypeOK
      <4>5. Contract!Resolve(want[c], cache[want[c]], {c})
        BY <2>3, <4>1, <4>2, <4>3, <4>4 DEF OnRequest, Contract!Resolve
      <4> QED
        BY <4>1, <4>5 DEF Contract!Next
    <3>2. CASE Join(c) \/ Open(c)
      BY <2>3, <3>2 DEF OnRequest, Join, Open
    <3> QED
      BY <2>3, <3>1, <3>2 DEF OnRequest
  <2>4. ASSUME NEW f \in Client, PollOne(f)
        PROVE  Contract!Next \/ UNCHANGED Contract!vars
    <3> DEFINE k == fetch[f].key
    <3>1. CASE PollUnready(f)
      BY <2>4, <3>1 DEF PollOne, PollUnready
    <3>2. ASSUME f \in Pending
          PROVE  /\ k \in Key /\ cache[k] = None
                 /\ listeners[k] \subseteq Contract!Unanswered(k)
                 /\ listeners[k] \in SUBSET Client
                 /\ k \in Slot => cache[Owner[k]] # None
      <4>1. k \in Key /\ cache[k] = None /\ f \in listeners[k]
        BY <3>2 DEF IInv, Fetching
      <4>2. \A c \in listeners[k] : c \in Client /\ want[c] = k /\ reply[c] = None
        BY <4>1 DEF IInv, TypeOK, Placed
      <4> QED
        BY <4>1, <4>2 DEF IInv, TypeOK, AccountsFirst, Contract!Unanswered
    <3>3. CASE PollReady(f)
      <4>1. f \in Pending /\ fetch[f].val \in Chain
        BY <3>3 DEF PollReady, IInv, Fetching
      <4>2. cache' = [cache EXCEPT ![k] = fetch[f].val]
        BY <3>2, <3>3, <4>1 DEF PollReady, Inserted, IInv, TypeOK
      <4>3. Contract!Resolve(k, fetch[f].val, listeners[k])
        BY <2>4, <3>2, <3>3, <4>1, <4>2 DEF PollOne, PollReady, Notify, Contract!Resolve
      <4> QED
        BY <3>2, <4>1, <4>3 DEF Contract!Next
    <3>4. CASE PollFailed(f)
      <4>1. f \in Pending
        BY <3>4 DEF PollFailed
      <4>2. Contract!Reject(k, listeners[k])
        BY <2>4, <3>2, <3>4, <4>1 DEF PollOne, PollFailed, Notify, Contract!Reject
      <4> QED
        BY <3>2, <4>1, <4>2 DEF Contract!Next
    <3> QED
      BY <2>4, <3>1, <3>3, <3>4 DEF PollOne
  <2>5. ASSUME NEW c \in Client, SandboxStep(c)
        PROVE  Contract!Next \/ UNCHANGED Contract!vars
    <3>1. CASE \E d \in Client : Fork(c, d)
      BY <3>1 DEF Fork
    <3>2. CASE \E k \in Key : Write(c, k)
      BY <3>2 DEF Write
    <3>3. CASE Drop(c)
      BY <3>3 DEF Drop
    <3> QED
      BY <2>1, <2>2, <2>5, <3>1, <3>2, <3>3 DEF SandboxStep, Contract!Next
  <2>6. ASSUME NEW c \in Client, Respond(c)
        PROVE  UNCHANGED Contract!vars
    BY <2>6 DEF Respond
  <2>7. ASSUME NEW c \in Client, Take(c)
        PROVE  UNCHANGED Contract!vars
    BY <2>7 DEF Take
  <2>8. CASE Wake \/ Drained \/ Close \/ NothingIncoming \/ PollEnd \/ UNCHANGED vars
    BY <2>8 DEF Wake, Drained, Close, NothingIncoming, PollEnd, vars
  <2> QED
    BY <2>3, <2>4, <2>5, <2>6, <2>7, <2>8 DEF Next, BackendStep
<1> QED
  BY <1>1, <1>2, Invariance, PTL DEF Spec, Implements, Contract!Spec
================================================================================
