------------------------- MODULE BundleLifecycleProofs -------------------------
(* The safety of the bot's books, for any number of opportunities, relays,     *)
(* blocks and restarts.                                                        *)
EXTENDS BundleLifecycle, TLAPS

USE DEF chain, books, Epoch, Task, NewTask, RelayState

\* Nothing is read, sent or landed before the first bot starts.
LEMMA InitIInv == Init => IInv
  BY BundleAssumption DEF Init, IInv, TypeOK, Provenance, NonceBooks, NonceNotAhead,
     WethBooks, TrackedBalanceBacked, Affordable, DustBooks, DustBacked, Backed

\* BotState::new copies the dust of the contract; no task of this bot exists yet.
LEMMA ReadDustIInv ==
  ASSUME IInv, ReadDust
  PROVE  IInv'
<1> USE BundleAssumption DEF IInv, ReadDust
<1>1. TypeOK'
  BY DEF TypeOK
<1>2. Provenance'
  BY DEF TypeOK, Provenance
<1>3. NonceBooks'
  BY DEF TypeOK, Provenance, NonceBooks, NonceNotAhead
<1>4. WethBooks'
  BY DEF TypeOK, Provenance, NonceBooks, NonceNotAhead, WethBooks, TrackedBalanceBacked, Affordable
<1>5. DustBooks'
  BY DEF TypeOK, Provenance, DustBooks, DustBacked, Backed
<1> QED
  BY <1>1, <1>2, <1>3, <1>4, <1>5

\* BotState::new copies the balance of the contract; no task of this bot exists yet.
LEMMA ReadWethIInv ==
  ASSUME IInv, ReadWeth
  PROVE  IInv'
<1> USE BundleAssumption DEF IInv, ReadWeth
<1>1. /\ boot = "weth" /\ boot' = "nonce"
      /\ UNCHANGED <<head, chainNonce, chainWeth, chainDust, landed>>
      /\ UNCHANGED <<epoch, oracle, nonce, dust, task, relay>>
  BY DEF chain
<1>2. weth' \in [Epoch -> Nat] /\ \A e \in Epoch : weth'[e] = IF e = epoch THEN chainWeth ELSE weth[e]
  BY DEF TypeOK
<1>3. TypeOK'
  BY <1>1, <1>2 DEF TypeOK
<1>4. Provenance'
  BY <1>1 DEF Provenance
<1>5. NonceBooks'
  BY <1>1 DEF NonceBooks, NonceNotAhead
<1>6. DustBooks'
  BY <1>1 DEF DustBooks, DustBacked, Backed
<1>7. ASSUME NEW b \in landed
      PROVE  task[b].epoch \in Epoch /\ weth'[task[b].epoch] = weth[task[b].epoch]
  <2>1. b \in Bundle /\ task[b].epoch \in Epoch /\ task[b].epoch # epoch
    BY <1>1, <1>7 DEF TypeOK, Provenance
  <2> QED
    BY <1>2, <2>1
<1>8. TrackedBalanceBacked'
  BY <1>1, <1>2 DEF TypeOK, WethBooks, TrackedBalanceBacked
<1>9. ASSUME NEW b \in landed,
             relay[b][Flashbots] \in {"idle", "sending", "watching", "credit"}
      PROVE  weth'[task[b].epoch] + task[b].profit <= chainWeth
  BY <1>7, <1>9 DEF WethBooks
<1>10. WethBooks'
  BY <1>1, <1>8, <1>9 DEF WethBooks, Affordable
<1> QED
  BY <1>3, <1>4, <1>5, <1>6, <1>10

\* SandwichMaker::new copies the nonce of the chain; nothing of this bot has landed.
LEMMA ReadNonceIInv ==
  ASSUME IInv, ReadNonce
  PROVE  IInv'
<1> USE BundleAssumption DEF IInv, ReadNonce
<1>1. /\ boot = "nonce" /\ boot' = "oracle"
      /\ UNCHANGED <<head, chainNonce, chainWeth, chainDust, landed>>
      /\ UNCHANGED <<epoch, oracle, weth, dust, task, relay>>
  BY DEF chain
<1>2. nonce' \in [Epoch -> Nat] /\ \A e \in Epoch : nonce'[e] = IF e = epoch THEN chainNonce ELSE nonce[e]
  BY DEF TypeOK
<1>3. TypeOK'
  BY <1>1, <1>2 DEF TypeOK
<1>4. Provenance'
  BY <1>1 DEF Provenance
<1>5. NonceBooks'
  <2>1. NonceNotAhead'
    BY <1>1, <1>2 DEF TypeOK, NonceBooks, NonceNotAhead
  <2>2. ASSUME NEW b \in Bundle, task[b].st = "sent"
        PROVE  nonce'[task[b].epoch] = nonce[task[b].epoch]
    <3>1. task[b].epoch \in Epoch /\ task[b].epoch # epoch
      BY <1>1, <2>2 DEF TypeOK, Provenance
    <3> QED
      BY <1>2, <3>1
  <2>3. \A b \in landed : b \in Bundle /\ task[b].st = "sent"
    BY DEF TypeOK, Provenance
  <2>4. \A b \in Bundle : task[b].st = "sent" => task[b].nonce <= nonce'[task[b].epoch]
    BY <2>2 DEF NonceBooks
  <2>5. ASSUME NEW b \in landed
        PROVE  /\ task[b].nonce + 2 <= chainNonce
               /\ relay[b][Flashbots] # "done" => nonce'[task[b].epoch] = task[b].nonce
    BY <2>2, <2>3, <2>5 DEF NonceBooks
  <2> QED
    BY <1>1, <2>1, <2>4, <2>5 DEF NonceBooks
<1>6. WethBooks'
  BY <1>1 DEF WethBooks, TrackedBalanceBacked, Affordable
<1>7. DustBooks'
  BY <1>1 DEF DustBooks, DustBacked, Backed
<1> QED
  BY <1>3, <1>4, <1>5, <1>6, <1>7

\* BlockOracle::new reads the head; the books stay.
LEMMA ReadBlockIInv ==
  ASSUME IInv, ReadBlock
  PROVE  IInv'
<1> USE BundleAssumption DEF IInv, ReadBlock
<1>1. TypeOK'
  BY DEF TypeOK
<1>2. Provenance'
  BY DEF TypeOK, Provenance
<1>3. NonceBooks'
  BY DEF TypeOK, Provenance, NonceBooks, NonceNotAhead
<1>4. WethBooks'
  BY DEF TypeOK, Provenance, NonceBooks, NonceNotAhead, WethBooks, TrackedBalanceBacked, Affordable
<1>5. DustBooks'
  BY DEF TypeOK, Provenance, DustBooks, DustBacked, Backed
<1> QED
  BY <1>1, <1>2, <1>3, <1>4, <1>5

\* A new epoch has no task and no books; those of the old epochs stay.
LEMMA RestartIInv ==
  ASSUME IInv, Restart
  PROVE  IInv'
<1> USE BundleAssumption DEF IInv, Restart
<1>1. TypeOK' /\ NonceBooks' /\ WethBooks' /\ DustBooks'
  BY DEF TypeOK, NonceBooks, NonceNotAhead, WethBooks, TrackedBalanceBacked, Affordable,
         DustBooks, DustBacked, Backed
<1>2. Provenance'
  <2>1. epoch \in Nat /\ \A b \in Bundle : task[b].epoch \in Nat
    BY DEF TypeOK
  <2>2. \A b \in Bundle : task[b].st # "unseen" => task[b].epoch < epoch + 1
    BY <2>1 DEF Provenance
  <2>3. \A b \in Bundle : task[b].epoch = epoch + 1 => task[b].st = "unseen"
    BY <2>2, <2>1
  <2> QED
    BY <2>2, <2>3 DEF Provenance
<1> QED
  BY <1>1, <1>2

\* The block oracle moves; no part of the invariant reads it.
LEMMA OracleUpdateIInv ==
  ASSUME IInv, OracleUpdate
  PROVE  IInv'
<1> USE BundleAssumption DEF IInv, OracleUpdate
<1>1. TypeOK'
  BY DEF TypeOK
<1>2. Provenance'
  BY DEF TypeOK, Provenance
<1>3. NonceBooks'
  BY DEF TypeOK, Provenance, NonceBooks, NonceNotAhead
<1>4. WethBooks'
  BY DEF TypeOK, Provenance, NonceBooks, NonceNotAhead, WethBooks, TrackedBalanceBacked, Affordable
<1>5. DustBooks'
  BY DEF TypeOK, Provenance, DustBooks, DustBacked, Backed
<1> QED
  BY <1>1, <1>2, <1>3, <1>4, <1>5

\* A block without a bundle only moves the head.
LEMMA EmptyBlockIInv ==
  ASSUME IInv, EmptyBlock
  PROVE  IInv'
<1> USE BundleAssumption DEF IInv, EmptyBlock
<1>1. TypeOK'
  BY DEF TypeOK
<1>2. Provenance'
  BY DEF TypeOK, Provenance
<1>3. NonceBooks'
  BY DEF TypeOK, Provenance, NonceBooks, NonceNotAhead
<1>4. WethBooks'
  BY DEF TypeOK, Provenance, NonceBooks, NonceNotAhead, WethBooks, TrackedBalanceBacked, Affordable
<1>5. DustBooks'
  BY DEF TypeOK, Provenance, DustBooks, DustBacked, Backed
<1> QED
  BY <1>1, <1>2, <1>3, <1>4, <1>5

\* The task of an opportunity copies a balance the contract still has.
LEMMA ArriveIInv ==
  ASSUME IInv, NEW b \in Bundle, Arrive(b)
  PROVE  IInv'
<1> USE BundleAssumption DEF IInv
<1> DEFINE t == [task[b] EXCEPT !.st = "sim", !.epoch = epoch,
                                !.target = oracle + 1, !.cap = weth[epoch]]
<1>1. task[b] \in Task /\ epoch \in Epoch /\ oracle + 1 \in Nat /\ weth[epoch] \in Nat
  BY DEF TypeOK
<1>2. /\ t \in Task
      /\ t.st = "sim" /\ t.epoch = epoch /\ t.cap = weth[epoch]
      /\ t.hasDust = task[b].hasDust /\ t.profit = task[b].profit
  BY <1>1
<1>3. task' = [task EXCEPT ![b] = t]
  BY DEF Arrive, TypeOK
<1>4. /\ boot = "run" /\ task[b].st = "unseen"
      /\ UNCHANGED <<chain, epoch, boot, oracle, books, relay>>
  BY DEF Arrive
<1> HIDE DEF t
<1>5. /\ task'[b] = t
      /\ \A c \in Bundle : c # b => task'[c] = task[c]
  BY <1>3 DEF TypeOK
<1>6. b \notin landed /\ \A r \in Relay : relay[b][r] = "idle"
  BY <1>4 DEF Provenance
<1>7. TypeOK'
  BY <1>2, <1>3, <1>4 DEF TypeOK
<1>8. Provenance'
  BY <1>2, <1>4, <1>5, <1>6 DEF Provenance
<1>9. NonceBooks'
  <2>1. NonceNotAhead'
    BY <1>4 DEF NonceBooks, NonceNotAhead
  <2>2. \A c \in Bundle : task'[c].st = "sent" => task'[c].nonce <= nonce[task'[c].epoch]
    BY <1>2, <1>4, <1>5 DEF NonceBooks
  <2>3. \A c \in landed : task'[c] = task[c]
    BY <1>5, <1>6 DEF TypeOK
  <2> QED
    BY <1>4, <2>1, <2>2, <2>3 DEF NonceBooks
<1>10. WethBooks'
  BY <1>1, <1>2, <1>4, <1>5, <1>6
  DEF WethBooks, TrackedBalanceBacked, Affordable, TypeOK
<1>11. DustBooks'
  BY <1>2, <1>4, <1>5, <1>6 DEF DustBooks, DustBacked, Backed, TypeOK
<1> QED
  BY <1>7, <1>8, <1>9, <1>10, <1>11

\* Dust that the books list is in the contract, so the flag of the recipe is right.
LEMMA SimulateIInv ==
  ASSUME IInv, NEW b \in Bundle, Simulate(b)
  PROVE  IInv'
<1> USE BundleAssumption DEF IInv
<1> DEFINE Changed(t) ==
             /\ t \in Task
             /\ t.st \in {"ready", "dropped"}
             /\ t.epoch = task[b].epoch /\ t.cap = task[b].cap /\ t.profit = task[b].profit
             /\ t.hasDust = task[b].hasDust
                \/ t.hasDust = (TokenOf[b] \in dust[task[b].epoch])
<1>1. task[b] \in Task
  BY DEF TypeOK
<1>2. \E t : task' = [task EXCEPT ![b] = t] /\ Changed(t)
  <2>1. CASE task' = [task EXCEPT ![b].st = "dropped"]
    <3> DEFINE t == [task[b] EXCEPT !.st = "dropped"]
    <3>1. task' = [task EXCEPT ![b] = t]
      BY <2>1 DEF TypeOK
    <3>2. Changed(t)
      BY <1>1
    <3> QED
      BY <3>1, <3>2
  <2>2. CASE task' = [task EXCEPT ![b].st = "ready",
                          ![b].hasDust = TokenOf[b] \in dust[task[b].epoch]]
    <3> DEFINE h == TokenOf[b] \in dust[task[b].epoch]
               t == [task[b] EXCEPT !.st = "ready", !.hasDust = h]
    <3>1. task' = [task EXCEPT ![b] = t]
      BY <2>2 DEF TypeOK
    <3>2. h \in BOOLEAN
      OBVIOUS
    <3> HIDE DEF h
    <3>3. /\ t \in Task /\ t.st = "ready" /\ t.hasDust = h
          /\ t.epoch = task[b].epoch /\ t.cap = task[b].cap /\ t.profit = task[b].profit
      BY <1>1, <3>2
    <3>4. Changed(t)
      BY <3>3 DEF h
    <3> QED
      BY <3>1, <3>4
  <2> QED
    BY <2>1, <2>2 DEF Simulate
<1>3. PICK t : task' = [task EXCEPT ![b] = t] /\ Changed(t)
  BY <1>2
<1>4. task[b].st = "sim" /\ UNCHANGED <<chain, epoch, boot, oracle, books, relay>>
  BY DEF Simulate
<1>5. /\ task'[b] = t
      /\ \A c \in Bundle : c # b => task'[c] = task[c]
  BY <1>3 DEF TypeOK
<1>6. b \notin landed /\ \A r \in Relay : relay[b][r] = "idle"
  BY <1>4 DEF Provenance
<1>7. TypeOK'
  BY <1>3, <1>4 DEF TypeOK
<1>8. Provenance'
  BY <1>3, <1>4, <1>5, <1>6 DEF Provenance
<1>9. NonceBooks'
  <2>1. NonceNotAhead'
    BY <1>4 DEF NonceBooks, NonceNotAhead
  <2>2. \A c \in Bundle : task'[c].st = "sent" => task'[c].nonce <= nonce[task'[c].epoch]
    BY <1>3, <1>4, <1>5 DEF NonceBooks
  <2>3. \A c \in landed : task'[c] = task[c]
    BY <1>5, <1>6 DEF TypeOK
  <2> QED
    BY <1>4, <2>1, <2>2, <2>3 DEF NonceBooks
<1>10. WethBooks'
  BY <1>3, <1>4, <1>5, <1>6 DEF WethBooks, TrackedBalanceBacked, Affordable, TypeOK
<1>11. DustBooks'
  <2>1. t.hasDust => Backed(TokenOf[b])
    BY <1>1, <1>3 DEF DustBooks, DustBacked
  <2>2. \A c \in Bundle : task'[c].hasDust => Backed(TokenOf[c])
    BY <2>1, <1>5 DEF DustBooks, DustBacked
  <2> QED
    BY <2>2, <1>4 DEF DustBooks, DustBacked, Backed
<1> QED
  BY <1>7, <1>8, <1>9, <1>10, <1>11

\* A bundle is signed with the nonce of its books, which is not ahead of the chain.
LEMMA SendBundleIInv ==
  ASSUME IInv, NEW b \in Bundle, SendBundle(b)
  PROVE  IInv'
<1> USE BundleAssumption DEF IInv
<1>1. task[b] \in Task /\ task[b].st = "ready"
  BY DEF TypeOK, SendBundle
<1>2. b \notin landed /\ \A r \in Relay : relay[b][r] = "idle"
  BY <1>1 DEF Provenance
<1>3. UNCHANGED <<chain, epoch, boot, oracle, books>>
  BY DEF SendBundle
<1>4. CASE task' = [task EXCEPT ![b].st = "dropped"] /\ UNCHANGED relay
  <2> DEFINE t == [task[b] EXCEPT !.st = "dropped"]
  <2>1. task' = [task EXCEPT ![b] = t]
    BY <1>4 DEF TypeOK
  <2>2. /\ t \in Task /\ t.st = "dropped" /\ t.epoch = task[b].epoch
        /\ t.profit = task[b].profit /\ t.hasDust = task[b].hasDust
    BY <1>1
  <2> HIDE DEF t
  <2>3. task'[b] = t /\ \A c \in Bundle : c # b => task'[c] = task[c]
    BY <2>1 DEF TypeOK
  <2>4. TypeOK'
    <3>1. task' \in [Bundle -> Task]
      BY <2>1, <2>2 DEF TypeOK
    <3> QED
      BY <1>3, <1>4, <3>1 DEF TypeOK
  <2>5. Provenance'
    BY <1>1, <1>2, <1>3, <1>4, <2>2, <2>3 DEF Provenance
  <2>6. NonceBooks'
    <3>1. NonceNotAhead'
      BY <1>3 DEF NonceBooks, NonceNotAhead
    <3>2. \A c \in Bundle : task'[c].st = "sent" => task'[c].nonce <= nonce[task'[c].epoch]
      BY <1>3, <2>2, <2>3 DEF NonceBooks
    <3>3. \A c \in landed : task'[c] = task[c] /\ relay'[c] = relay[c]
      BY <1>2, <1>4, <2>3 DEF TypeOK
    <3> QED
      BY <1>3, <3>1, <3>2, <3>3 DEF NonceBooks
  <2>7. WethBooks'
    BY <1>2, <1>3, <1>4, <2>2, <2>3
    DEF WethBooks, TrackedBalanceBacked, Affordable, TypeOK
  <2>8. DustBooks'
    <3>1. \A c \in Bundle : task'[c].hasDust = task[c].hasDust
      BY <2>2, <2>3
    <3> QED
      BY <1>3, <3>1 DEF DustBooks, DustBacked, Backed
  <2> QED
    BY <2>4, <2>5, <2>6, <2>7, <2>8
<1>5. ASSUME NEW p \in 0..Revenue,
             task' = [task EXCEPT ![b].st = "sent", ![b].profit = p,
                                  ![b].nonce = nonce[task[b].epoch]],
             relay' = [relay EXCEPT ![b] = [r \in Relay |-> "sending"]]
      PROVE  IInv'
  <2> DEFINE n == nonce[task[b].epoch]
             t == [task[b] EXCEPT !.st = "sent", !.profit = p, !.nonce = n]
  <2>1. task' = [task EXCEPT ![b] = t]
    BY <1>5 DEF TypeOK
  <2>2. n \in Nat
    BY <1>1 DEF TypeOK
  <2>3. p \in Nat /\ p <= Revenue
    OBVIOUS
  <2> HIDE DEF n
  <2>4. /\ t \in Task /\ t.st = "sent" /\ t.epoch = task[b].epoch /\ t.cap = task[b].cap
        /\ t.profit = p /\ t.hasDust = task[b].hasDust /\ t.nonce = n
    BY <1>1, <2>2, <2>3
  <2> HIDE DEF t
  <2>5. task'[b] = t /\ \A c \in Bundle : c # b => task'[c] = task[c]
    BY <2>1 DEF TypeOK
  <2>6. /\ \A r \in Relay : relay'[b][r] = "sending"
        /\ \A c \in Bundle : c # b => relay'[c] = relay[c]
        /\ relay' \in [Bundle -> [Relay -> RelayState]]
    BY <1>5 DEF TypeOK
  <2>7. TypeOK'
    BY <1>3, <2>1, <2>4, <2>6 DEF TypeOK
  <2>8. Provenance'
    <3>1. ASSUME NEW c \in Bundle, c # b
          PROVE  task'[c] = task[c] /\ relay'[c] = relay[c]
      BY <2>5, <2>6, <3>1
    <3>2. /\ task'[b].st = "sent" /\ task'[b].epoch = task[b].epoch
          /\ \A r \in Relay : relay'[b][r] = "sending"
      BY <2>4, <2>5, <2>6
    <3>3. UNCHANGED <<landed, epoch, boot>>
      BY <1>3
    <3> QED
      BY <1>1, <1>2, <3>1, <3>2, <3>3 DEF Provenance
  <2>9. NonceBooks'
    <3>1. NonceNotAhead'
      BY <1>3 DEF NonceBooks, NonceNotAhead
    <3>2. \A c \in Bundle : task'[c].st = "sent" => task'[c].nonce <= nonce[task'[c].epoch]
      BY <1>3, <2>2, <2>4, <2>5 DEF NonceBooks, n
    <3>3. \A c \in landed : task'[c] = task[c] /\ relay'[c] = relay[c]
      BY <1>2, <2>5, <2>6 DEF TypeOK
    <3> QED
      BY <1>3, <3>1, <3>2, <3>3 DEF NonceBooks
  <2>10. WethBooks'
    BY <1>1, <1>2, <1>3, <2>3, <2>4, <2>5, <2>6
    DEF WethBooks, TrackedBalanceBacked, Affordable, TypeOK
  <2>11. DustBooks'
    <3>1. \A c \in Bundle : task'[c].hasDust = task[c].hasDust
      BY <2>4, <2>5
    <3> QED
      BY <1>3, <3>1 DEF DustBooks, DustBacked, Backed
  <2> QED
    BY <2>7, <2>8, <2>9, <2>10, <2>11
<1> QED
  BY <1>4, <1>5 DEF SendBundle

\* A bundle lands: its nonce is the chain's, so its books, which are between the two,
\* stand at it, and no other landed bundle has it.
LEMMA IncludeIInv ==
  ASSUME IInv, NEW b \in Bundle, Include(b)
  PROVE  IInv'
<1> USE BundleAssumption DEF IInv
<1>1. /\ head' = head + 1
      /\ chainNonce' = chainNonce + 2
      /\ chainWeth' = chainWeth + Revenue
      /\ landed' = landed \cup {b}
      /\ UNCHANGED <<epoch, boot, oracle, books, task, relay>>
  BY DEF Include
<1>2. PICK left \in SUBSET V3Tokens[b] :
          chainDust' = ((chainDust \cup {TokenOf[b]}) \ V3Tokens[b]) \cup left
  BY DEF Include
<1>3. /\ task[b].st = "sent" /\ b \notin landed /\ task[b].nonce = chainNonce
      /\ relay[b][Flashbots] \notin {"credit", "adddust", "bump"}
  BY DEF Include, Includable, Provenance
<1>4. task[b].epoch \in Epoch /\ nonce[task[b].epoch] = chainNonce
  BY <1>3 DEF TypeOK, NonceBooks, NonceNotAhead
<1>5. TypeOK'
  <2>1. /\ head + 1 \in Nat /\ chainNonce + 2 \in Nat /\ chainWeth + Revenue \in Nat
        /\ chainDust' \subseteq Token
        /\ landed \cup {b} \subseteq Bundle
    BY <1>2 DEF TypeOK
  <2> HIDE DEF Epoch, Task, NewTask, RelayState, chain
  <2> QED
    BY <1>1, <2>1 DEF TypeOK
<1>6. Provenance'
  BY <1>1, <1>3 DEF TypeOK, Provenance
<1>7. chainNonce \in Nat /\ chainWeth \in Nat /\ Revenue \in Nat
  BY DEF TypeOK
<1>8. NonceBooks'
  <2>1. NonceNotAhead'
    BY <1>1 DEF TypeOK, NonceBooks, NonceNotAhead
  <2>2. \A c \in landed : task[c].nonce + 2 <= chainNonce /\ task[c].nonce \in Nat
    BY DEF TypeOK, NonceBooks
  <2>3. \A c \in landed' : task[c].nonce + 2 <= chainNonce + 2
    BY <1>1, <1>3, <1>7, <2>2
  <2>4. \A c \in landed' : relay[c][Flashbots] # "done" => nonce[task[c].epoch] = task[c].nonce
    BY <1>1, <1>3, <1>4 DEF NonceBooks
  <2>5. \A c \in landed : task[c].nonce # task[b].nonce
    BY <1>3, <1>7, <2>2
  <2>6. \A c, d \in landed' : task[c].nonce = task[d].nonce => c = d
    BY <1>1, <2>5 DEF NonceBooks
  <2> QED
    BY <1>1, <2>1, <2>3, <2>4, <2>6 DEF NonceBooks
<1>9. WethBooks'
  <2>1. weth[task[b].epoch] <= chainWeth /\ weth[task[b].epoch] \in Nat
    BY <1>4 DEF TypeOK, WethBooks, TrackedBalanceBacked
  <2>2. task[b].profit <= Revenue /\ task[b].profit \in Nat
    BY DEF TypeOK, WethBooks
  <2>3. weth[task[b].epoch] + task[b].profit <= chainWeth + Revenue
    BY <1>7, <2>1, <2>2
  <2>4. TrackedBalanceBacked'
    <3>1. \A e \in Epoch : weth[e] \in Nat /\ weth[e] <= chainWeth
      BY DEF TypeOK, WethBooks, TrackedBalanceBacked
    <3> QED
      BY <1>1, <1>7, <3>1 DEF TrackedBalanceBacked
  <2>5. Affordable'
    <3>1. \A c \in Bundle : task[c].cap \in Nat
      BY DEF TypeOK
    <3> QED
      BY <1>1, <1>7, <3>1 DEF WethBooks, Affordable
  <2>6. \A c \in landed :
           relay[c][Flashbots] \in {"idle", "sending", "watching", "credit"} =>
              weth[task[c].epoch] + task[c].profit <= chainWeth + Revenue
    <3> SUFFICES ASSUME NEW c \in landed,
                        relay[c][Flashbots] \in {"idle", "sending", "watching", "credit"}
                 PROVE  weth[task[c].epoch] + task[c].profit <= chainWeth + Revenue
      OBVIOUS
    <3>1. task[c] \in Task
      BY DEF TypeOK
    <3>2. weth[task[c].epoch] \in Nat /\ task[c].profit \in Nat
      BY <3>1 DEF TypeOK
    <3>3. weth[task[c].epoch] + task[c].profit <= chainWeth
      BY DEF WethBooks
    <3> QED
      BY <1>7, <3>2, <3>3
  <2> QED
    BY <1>1, <2>3, <2>4, <2>5, <2>6 DEF WethBooks
<1>10. DustBooks'
  <2>1. ASSUME NEW u, Backed(u) \/ u = TokenOf[b] PROVE Backed(u)'
    BY <1>1, <1>2, <2>1 DEF Backed
  <2>2. ASSUME NEW e \in Epoch, NEW u \in dust'[e] PROVE Backed(u)'
    BY <1>1, <2>1, <2>2 DEF DustBooks, DustBacked
  <2>3. ASSUME NEW c \in Bundle, task'[c].hasDust PROVE Backed(TokenOf[c])'
    <3>1. Backed(TokenOf[c])
      BY <1>1, <2>3 DEF DustBooks, DustBacked
    <3> QED
      BY <1>1, <1>2, <3>1 DEF Backed
  <2>4. ASSUME NEW c \in landed' PROVE Backed(TokenOf[c])'
    <3>1. Backed(TokenOf[c]) \/ TokenOf[c] = TokenOf[b]
      BY <1>1, <2>4 DEF DustBooks
    <3> QED
      BY <1>1, <1>2, <3>1 DEF Backed
  <2> QED
    BY <2>2, <2>3, <2>4 DEF DustBooks, DustBacked
<1> QED
  BY <1>5, <1>6, <1>8, <1>9, <1>10

\* The step of one relay's task changes its own state and no other's.
LEMMA RelayUpdate ==
  ASSUME TypeOK, NEW b \in Bundle, NEW r \in Relay, NEW x \in RelayState,
         relay' = [relay EXCEPT ![b][r] = x]
  PROVE  /\ relay' \in [Bundle -> [Relay -> RelayState]]
         /\ relay'[b][r] = x
         /\ \A c \in Bundle, q \in Relay :
               c # b \/ q # r => relay'[c][q] = relay[c][q]
<1> DEFINE f == [relay[b] EXCEPT ![r] = x]
<1> HIDE DEF RelayState
<1>1. relay \in [Bundle -> [Relay -> RelayState]]
  BY DEF TypeOK
<1>2. f \in [Relay -> RelayState]
  BY <1>1
<1>3. relay' = [relay EXCEPT ![b] = f]
  BY <1>1
<1>4. f[r] = x /\ \A q \in Relay : q # r => f[q] = relay[b][q]
  BY <1>1
<1> HIDE DEF f
<1>5. relay' \in [Bundle -> [Relay -> RelayState]] /\ relay'[b] = f
  BY <1>1, <1>2, <1>3
<1>6. \A c \in Bundle : c # b => relay'[c] = relay[c]
  BY <1>1, <1>3
<1> QED
  BY <1>4, <1>5, <1>6

\* A relay's task that had the bundle already, and does not start to keep books without
\* the right to, leaves the provenance of everything as it was.
LEMMA RelayProvenance ==
  ASSUME TypeOK, Provenance, NEW b \in Bundle, NEW r \in Relay,
         relay[b][r] # "idle",
         \A c \in Bundle, q \in Relay : c # b \/ q # r => relay'[c][q] = relay[c][q],
         relay'[b][r] \in {"credit", "adddust", "bump"} => r = Flashbots /\ b \in landed,
         landed' = landed, epoch' = epoch, boot' = boot, task' = task
  PROVE  Provenance'
<1>1. ASSUME NEW c \in Bundle
      PROVE  c \in landed \/ (\E q \in Relay : relay'[c][q] # "idle") => task[c].st = "sent"
  BY <1>1 DEF Provenance
<1>2. ASSUME NEW c \in Bundle, NEW q \in Relay, relay'[c][q] \in {"credit", "adddust", "bump"}
      PROVE  q = Flashbots /\ c \in landed
  <2>1. CASE c = b /\ q = r
    BY <1>2, <2>1
  <2>2. CASE c # b \/ q # r
    BY <1>2, <2>2 DEF Provenance
  <2> QED
    BY <2>1, <2>2
<1> QED
  BY <1>1, <1>2 DEF Provenance

\* A relay's task that is not done with the bundle, and leaves books and chain alone,
\* leaves the nonces as they were.
LEMMA RelayNonces ==
  ASSUME TypeOK, NonceBooks, NEW b \in Bundle, NEW r \in Relay,
         relay[b][r] # "done",
         \A c \in Bundle, q \in Relay : c # b \/ q # r => relay'[c][q] = relay[c][q],
         UNCHANGED <<nonce, chainNonce, landed, task>>
  PROVE  NonceBooks'
<1>1. NonceNotAhead'
  BY DEF NonceBooks, NonceNotAhead
<1>2. ASSUME NEW c \in landed, relay'[c][Flashbots] # "done"
      PROVE  relay[c][Flashbots] # "done"
  <2>1. c \in Bundle /\ Flashbots \in Relay
    BY BundleAssumption DEF TypeOK
  <2>2. CASE c = b /\ r = Flashbots
    BY <2>2
  <2>3. CASE c # b \/ r # Flashbots
    BY <1>2, <2>1, <2>3
  <2> QED
    BY <2>2, <2>3
<1>3. ASSUME NEW c \in landed
      PROVE  /\ task[c].nonce + 2 <= chainNonce
             /\ relay'[c][Flashbots] # "done" => nonce[task[c].epoch] = task[c].nonce
  BY <1>2, <1>3 DEF NonceBooks
<1> QED
  BY <1>1, <1>3 DEF NonceBooks

\* One that has not credited the bundle before it does so leaves the balances as they were.
LEMMA RelayWeth ==
  ASSUME TypeOK, WethBooks, NEW b \in Bundle, NEW r \in Relay,
         relay'[b][r] \in {"idle", "sending", "watching", "credit"} =>
             relay[b][r] \in {"idle", "sending", "watching", "credit"},
         \A c \in Bundle, q \in Relay : c # b \/ q # r => relay'[c][q] = relay[c][q],
         UNCHANGED <<weth, chainWeth, landed, task>>
  PROVE  WethBooks'
<1>1. TrackedBalanceBacked' /\ Affordable'
  BY DEF WethBooks, TrackedBalanceBacked, Affordable
<1>2. ASSUME NEW c \in landed,
             relay'[c][Flashbots] \in {"idle", "sending", "watching", "credit"}
      PROVE  relay[c][Flashbots] \in {"idle", "sending", "watching", "credit"}
  <2>1. c \in Bundle /\ Flashbots \in Relay
    BY BundleAssumption DEF TypeOK
  <2>2. CASE c = b /\ r = Flashbots
    BY <1>2, <2>2
  <2>3. CASE c # b \/ r # Flashbots
    BY <1>2, <2>1, <2>3
  <2> QED
    BY <2>2, <2>3
<1>3. ASSUME NEW c \in landed,
             relay'[c][Flashbots] \in {"idle", "sending", "watching", "credit"}
      PROVE  weth[task[c].epoch] + task[c].profit <= chainWeth
  BY <1>2, <1>3 DEF WethBooks
<1> QED
  BY <1>1, <1>3 DEF WethBooks

\* A relay accepts or refuses; the task of flashbots stays on this side of the books.
LEMMA RelaySendIInv ==
  ASSUME IInv, NEW b \in Bundle, NEW r \in Relay, RelaySend(b, r)
  PROVE  IInv'
<1> USE BundleAssumption DEF IInv
<1>1. PICK x \in {"watching", "done"} : relay' = [relay EXCEPT ![b][r] = x]
  BY DEF RelaySend
<1>2. relay[b][r] = "sending" /\ UNCHANGED <<chain, epoch, boot, oracle, books, task>>
  BY DEF RelaySend
<1>3. /\ relay' \in [Bundle -> [Relay -> RelayState]]
      /\ relay'[b][r] = x
      /\ \A c \in Bundle, q \in Relay : c # b \/ q # r => relay'[c][q] = relay[c][q]
  <2>1. x \in RelayState /\ TypeOK
    BY <1>1
  <2>2. relay' = [relay EXCEPT ![b][r] = x]
    BY <1>1
  <2> HIDE DEF RelayState, IInv, Epoch, Task, NewTask, chain, books
  <2> QED
    BY ONLY <2>1, <2>2, RelayUpdate, Zenon
<1>4. TypeOK'
  BY <1>2, <1>3 DEF TypeOK
<1>5. Provenance'
  BY <1>1, <1>2, <1>3, RelayProvenance DEF chain
<1>6. NonceBooks'
  BY <1>2, <1>3, RelayNonces DEF chain, books
<1>7. WethBooks'
  BY <1>1, <1>2, <1>3, RelayWeth DEF chain, books
<1>8. DustBooks'
  BY <1>2 DEF DustBooks, DustBacked, Backed, chain, books
<1> QED
  BY <1>4, <1>5, <1>6, <1>7, <1>8

\* Only the task of flashbots goes on to the books, and only for what landed.
LEMMA WatchIInv ==
  ASSUME IInv, NEW b \in Bundle, NEW r \in Relay, Watch(b, r)
  PROVE  IInv'
<1> USE BundleAssumption DEF IInv
<1>1. PICK x \in {"credit", "done"} :
         /\ relay' = [relay EXCEPT ![b][r] = x]
         /\ x = "credit" => r = Flashbots /\ b \in landed
  BY DEF Watch
<1>2. relay[b][r] = "watching" /\ UNCHANGED <<chain, epoch, boot, oracle, books, task>>
  BY DEF Watch
<1>3. /\ relay' \in [Bundle -> [Relay -> RelayState]]
      /\ relay'[b][r] = x
      /\ \A c \in Bundle, q \in Relay : c # b \/ q # r => relay'[c][q] = relay[c][q]
  <2>1. x \in RelayState /\ TypeOK
    BY <1>1
  <2>2. relay' = [relay EXCEPT ![b][r] = x]
    BY <1>1
  <2> HIDE DEF RelayState, IInv, Epoch, Task, NewTask, chain, books
  <2> QED
    BY ONLY <2>1, <2>2, RelayUpdate, Zenon
<1>4. TypeOK'
  BY <1>2, <1>3 DEF TypeOK
<1>5. Provenance'
  BY <1>1, <1>2, <1>3, RelayProvenance DEF chain
<1>6. NonceBooks'
  BY <1>2, <1>3, RelayNonces DEF chain, books
<1>7. WethBooks'
  BY <1>1, <1>2, <1>3, RelayWeth DEF chain, books
<1>8. DustBooks'
  BY <1>2 DEF DustBooks, DustBacked, Backed, chain, books
<1> QED
  BY <1>4, <1>5, <1>6, <1>7, <1>8

\* A watch that fails leaves the books alone.
LEMMA WatchFailsIInv ==
  ASSUME IInv, NEW b \in Bundle, NEW r \in Relay, WatchFails(b, r)
  PROVE  IInv'
<1> USE BundleAssumption DEF IInv
<1>1. PICK x \in {"lost"} : relay' = [relay EXCEPT ![b][r] = x]
  BY DEF WatchFails
<1>2. relay[b][r] = "watching" /\ UNCHANGED <<chain, epoch, boot, oracle, books, task>>
  BY DEF WatchFails
<1>3. /\ relay' \in [Bundle -> [Relay -> RelayState]]
      /\ relay'[b][r] = x
      /\ \A c \in Bundle, q \in Relay : c # b \/ q # r => relay'[c][q] = relay[c][q]
  <2>1. x \in RelayState /\ TypeOK
    BY <1>1
  <2>2. relay' = [relay EXCEPT ![b][r] = x]
    BY <1>1
  <2> HIDE DEF RelayState, IInv, Epoch, Task, NewTask, chain, books
  <2> QED
    BY ONLY <2>1, <2>2, RelayUpdate, Zenon
<1>4. TypeOK'
  BY <1>2, <1>3 DEF TypeOK
<1>5. Provenance'
  BY <1>1, <1>2, <1>3, RelayProvenance DEF chain
<1>6. NonceBooks'
  BY <1>2, <1>3, RelayNonces DEF chain, books
<1>7. WethBooks'
  BY <1>1, <1>2, <1>3, RelayWeth DEF chain, books
<1>8. DustBooks'
  BY <1>2 DEF DustBooks, DustBacked, Backed, chain, books
<1> QED
  BY <1>4, <1>5, <1>6, <1>7, <1>8

\* The profit that is added is not in the books yet, and the contract has it.
LEMMA CreditIInv ==
  ASSUME IInv, NEW b \in Bundle, NEW r \in Relay, Credit(b, r)
  PROVE  IInv'
<1> USE BundleAssumption DEF IInv
<1> DEFINE e == task[b].epoch
<1>1. PICK x \in {"bump", "adddust"} : relay' = [relay EXCEPT ![b][r] = x]
  BY DEF Credit
<1>2. /\ relay[b][r] = "credit"
      /\ weth' = [weth EXCEPT ![e] = @ + task[b].profit]
      /\ UNCHANGED <<chain, epoch, boot, oracle, nonce, dust, task>>
  BY DEF Credit
<1>3. /\ relay' \in [Bundle -> [Relay -> RelayState]]
      /\ relay'[b][r] = x
      /\ \A c \in Bundle, q \in Relay : c # b \/ q # r => relay'[c][q] = relay[c][q]
  BY <1>1, RelayUpdate
<1>4. r = Flashbots /\ b \in landed /\ task[b].st = "sent"
  BY <1>2 DEF Provenance
<1>5. task[b] \in Task
  BY DEF TypeOK
<1>6. e \in Epoch /\ task[b].profit \in Nat /\ weth \in [Epoch -> Nat]
  BY <1>5 DEF TypeOK
<1>7. weth[e] + task[b].profit <= chainWeth
  BY <1>2, <1>4 DEF WethBooks
<1> HIDE DEF e
<1>8. /\ weth' \in [Epoch -> Nat]
      /\ weth'[e] = weth[e] + task[b].profit
      /\ \A d \in Epoch : d # e => weth'[d] = weth[d]
  BY <1>2, <1>6
<1>9. TypeOK'
  BY <1>2, <1>3, <1>8 DEF TypeOK
<1>10. Provenance'
  BY <1>2, <1>3, <1>4, RelayProvenance
<1>11. NonceBooks'
  <2>1. \A c \in landed : relay'[c][Flashbots] # "done" => relay[c][Flashbots] # "done"
    <3> SUFFICES ASSUME NEW c \in landed, relay'[c][Flashbots] # "done"
                 PROVE  relay[c][Flashbots] # "done"
      OBVIOUS
    <3>1. CASE c = b
      BY <1>2, <1>4, <3>1
    <3>2. CASE c # b
      BY <1>3, <3>2 DEF TypeOK
    <3> QED
      BY <3>1, <3>2
  <2>2. NonceNotAhead'
    BY <1>2 DEF NonceBooks, NonceNotAhead
  <2> QED
    BY <1>2, <2>1, <2>2 DEF NonceBooks
<1>12. WethBooks'
  <2>1. TrackedBalanceBacked'
    BY <1>2, <1>7, <1>8 DEF WethBooks, TrackedBalanceBacked
  <2>2. Affordable'
    BY <1>2 DEF WethBooks, Affordable
  \* another landed bundle of the same bot that waits for its credit would share the nonce
  <2>3. ASSUME NEW c \in landed, c # b,
               relay[c][Flashbots] \in {"idle", "sending", "watching", "credit"}
        PROVE  task[c].epoch # e
    <3>1. nonce[task[c].epoch] = task[c].nonce /\ nonce[e] = task[b].nonce
      BY <1>2, <1>4, <2>3 DEF NonceBooks, e
    <3> QED
      BY <1>4, <2>3, <3>1 DEF NonceBooks
  <2>4. ASSUME NEW c \in landed,
               relay'[c][Flashbots] \in {"idle", "sending", "watching", "credit"}
        PROVE  weth'[task[c].epoch] + task[c].profit <= chainWeth
    <3>1. c # b
      BY <1>3, <1>4, <2>4
    <3>2. relay[c][Flashbots] = relay'[c][Flashbots] /\ c \in Bundle
      BY <1>3, <3>1 DEF TypeOK
    <3>3. task[c].epoch # e /\ task[c].epoch \in Epoch
      BY <2>3, <2>4, <3>1, <3>2 DEF TypeOK
    <3> QED
      BY <1>8, <2>4, <3>2, <3>3 DEF WethBooks
  <2> QED
    BY <1>2, <2>1, <2>2, <2>4 DEF WethBooks
<1>13. DustBooks'
  BY <1>2 DEF DustBooks, DustBacked, Backed
<1> QED
  BY <1>9, <1>10, <1>11, <1>12, <1>13

\* The token of a landed bundle is in the contract, or was sold to a V3 pool.
LEMMA AddDustIInv ==
  ASSUME IInv, NEW b \in Bundle, NEW r \in Relay, AddDust(b, r)
  PROVE  IInv'
<1> USE BundleAssumption DEF IInv
<1>1. PICK x \in {"bump"} : relay' = [relay EXCEPT ![b][r] = x]
  BY DEF AddDust
<1>2. /\ relay[b][r] = "adddust"
      /\ dust' = [dust EXCEPT ![task[b].epoch] = @ \cup {TokenOf[b]}]
      /\ UNCHANGED <<chain, epoch, boot, oracle, nonce, weth, task>>
  BY DEF AddDust
<1>3. /\ relay' \in [Bundle -> [Relay -> RelayState]]
      /\ relay'[b][r] = x
      /\ \A c \in Bundle, q \in Relay : c # b \/ q # r => relay'[c][q] = relay[c][q]
  <2>1. x \in RelayState /\ TypeOK
    BY <1>1
  <2>2. relay' = [relay EXCEPT ![b][r] = x]
    BY <1>1
  <2> HIDE DEF RelayState, IInv, Epoch, Task, NewTask, chain, books
  <2> QED
    BY ONLY <2>1, <2>2, RelayUpdate, Zenon
<1>4. TypeOK'
  <2>1. dust' \in [Epoch -> SUBSET Token]
    BY <1>2 DEF TypeOK
  <2> QED
    BY <1>2, <1>3, <2>1 DEF TypeOK
<1>5. Provenance'
  <2>1. r = Flashbots /\ b \in landed
    BY <1>2 DEF Provenance
  <2> QED
    BY <1>2, <1>3, <2>1, RelayProvenance DEF chain
<1>6. NonceBooks'
  BY <1>2, <1>3, RelayNonces DEF chain
<1>7. WethBooks'
  BY <1>1, <1>2, <1>3, RelayWeth DEF chain
<1>8. DustBooks'
  <2>1. UNCHANGED <<chainDust, landed, task>> /\ b \in landed
    BY <1>2 DEF Provenance, chain
  <2>2. Backed(TokenOf[b])
    BY <2>1 DEF DustBooks
  <2>3. \A e \in Epoch : \A u \in dust'[e] : u \in dust[e] \/ u = TokenOf[b]
    BY <1>2 DEF TypeOK
  <2>4. \A e \in Epoch : \A u \in dust'[e] : Backed(u)
    BY <2>2, <2>3 DEF DustBooks, DustBacked
  <2> QED
    BY <2>1, <2>4 DEF DustBooks, DustBacked, Backed
<1> QED
  BY <1>4, <1>5, <1>6, <1>7, <1>8

\* The nonce moves past the bundle that used it up, to no more than the chain's.
LEMMA BumpIInv ==
  ASSUME IInv, NEW b \in Bundle, NEW r \in Relay, Bump(b, r)
  PROVE  IInv'
<1> USE BundleAssumption DEF IInv
<1> DEFINE e == task[b].epoch
<1>1. /\ relay[b][r] = "bump"
      /\ relay' = [relay EXCEPT ![b][r] = "done"]
      /\ nonce' = [nonce EXCEPT ![e] = @ + 2]
      /\ UNCHANGED <<chain, epoch, boot, oracle, weth, dust, task>>
  BY DEF Bump
<1>2. /\ relay' \in [Bundle -> [Relay -> RelayState]]
      /\ relay'[b][r] = "done"
      /\ \A c \in Bundle, q \in Relay : c # b \/ q # r => relay'[c][q] = relay[c][q]
  BY <1>1, RelayUpdate
<1>3. r = Flashbots /\ b \in landed /\ task[b].st = "sent"
  BY <1>1 DEF Provenance
<1>4. e \in Epoch /\ nonce \in [Epoch -> Nat] /\ chainNonce \in Nat
      /\ task \in [Bundle -> Task] /\ landed \subseteq Bundle
  BY DEF TypeOK
<1>5. nonce[e] = task[b].nonce /\ task[b].nonce + 2 <= chainNonce
  BY <1>1, <1>3 DEF NonceBooks
<1> HIDE DEF e
<1>6. /\ nonce' \in [Epoch -> Nat]
      /\ nonce'[e] = nonce[e] + 2
      /\ \A d \in Epoch : d # e => nonce'[d] = nonce[d]
  BY <1>1, <1>4
<1>7. TypeOK'
  BY <1>1, <1>2, <1>6 DEF TypeOK
<1>8. Provenance'
  BY <1>1, <1>2, <1>3, RelayProvenance
<1>9. NonceBooks'
  <2>1. NonceNotAhead'
    BY <1>1, <1>5, <1>6 DEF NonceBooks, NonceNotAhead
  <2>2. \A c \in Bundle : task[c].st = "sent" => task[c].nonce <= nonce'[task[c].epoch]
    <3> SUFFICES ASSUME NEW c \in Bundle, task[c].st = "sent"
                 PROVE  task[c].nonce <= nonce'[task[c].epoch]
      OBVIOUS
    <3>1. /\ task[c].epoch \in Epoch /\ task[c].nonce \in Nat
          /\ task[c].nonce <= nonce[task[c].epoch] /\ nonce[task[c].epoch] \in Nat
      BY <1>4 DEF NonceBooks
    <3>2. nonce[task[c].epoch] <= nonce'[task[c].epoch]
      <4>1. CASE task[c].epoch = e
        <5>1. nonce'[task[c].epoch] = nonce[task[c].epoch] + 2
          <6> HIDE DEF IInv
          <6> QED
            BY ONLY <1>6, <4>1, Zenon
        <5> QED
          BY ONLY <3>1, <5>1
      <4>2. CASE task[c].epoch # e
        <5>1. nonce'[task[c].epoch] = nonce[task[c].epoch]
          BY <1>6, <3>1, <4>2
        <5> QED
          BY ONLY <3>1, <5>1
      <4> QED
        BY <4>1, <4>2
    <3>3. nonce'[task[c].epoch] \in Nat
      BY <1>6, <3>1
    <3> QED
      BY <3>1, <3>2, <3>3
  \* another bundle that its bot still has to account for would share the nonce
  <2>3. ASSUME NEW c \in landed, relay'[c][Flashbots] # "done"
        PROVE  nonce'[task[c].epoch] = task[c].nonce
    <3>1. c # b /\ c \in Bundle
      BY <1>2, <1>3, <1>4, <2>3
    <3>2. relay[c][Flashbots] # "done"
      BY <1>2, <2>3, <3>1
    <3>3. nonce[task[c].epoch] = task[c].nonce
      BY <3>2 DEF NonceBooks
    <3>4. task[c].nonce = task[b].nonce => c = b
      BY <1>3 DEF NonceBooks
    <3>5. task[c].epoch # e
      BY <1>5, <3>1, <3>3, <3>4
    <3> QED
      BY <1>4, <1>6, <3>1, <3>3, <3>5
  <2> QED
    BY <1>1, <2>1, <2>2, <2>3 DEF NonceBooks
<1>10. WethBooks'
  <2>1. ASSUME NEW c \in landed,
               relay'[c][Flashbots] \in {"idle", "sending", "watching", "credit"}
        PROVE  relay[c][Flashbots] = relay'[c][Flashbots]
    BY <1>2, <1>4, <2>1
  <2> QED
    BY <1>1, <2>1 DEF WethBooks, TrackedBalanceBacked, Affordable
<1>11. DustBooks'
  BY <1>1 DEF DustBooks, DustBacked, Backed
<1> QED
  BY <1>7, <1>8, <1>9, <1>10, <1>11

\* A stutter keeps the invariant.
LEMMA StutterIInv == IInv /\ UNCHANGED vars => IInv'
  BY DEF IInv, vars, TypeOK, Provenance, NonceBooks, NonceNotAhead, WethBooks,
     TrackedBalanceBacked, Affordable, DustBooks, DustBacked, Backed

\* Every step keeps the invariant: one case per action.
LEMMA NextIInv ==
  ASSUME IInv, Next
  PROVE  IInv'
<1>1. ASSUME BotStep \/ Restart PROVE IInv'
  BY <1>1, ReadDustIInv, ReadWethIInv, ReadNonceIInv, ReadBlockIInv, OracleUpdateIInv,
     RestartIInv DEF BotStep
<1>2. ASSUME NEW b \in Bundle, Arrive(b) \/ TaskStep(b) \/ Include(b) PROVE IInv'
  BY <1>2, ArriveIInv, SimulateIInv, SendBundleIInv, IncludeIInv DEF TaskStep
<1>3. ASSUME NEW b \in Bundle, NEW r \in Relay, RelayStep(b, r) \/ WatchFails(b, r)
      PROVE  IInv'
  BY <1>3, RelaySendIInv, WatchIInv, WatchFailsIInv, CreditIInv, AddDustIInv, BumpIInv
  DEF RelayStep
<1>4. ASSUME EmptyBlock PROVE IInv'
  BY <1>4, EmptyBlockIInv
<1>5. ASSUME UNCHANGED vars PROVE IInv'
  BY <1>5, StutterIInv
<1> QED
  BY <1>1, <1>2, <1>3, <1>4, <1>5 DEF Next, Over

\* Everything the bot believes about nonce, balance and dust stays explained by what
\* landed on the chain.
THEOREM Invariance == Spec => []IInv
<1>1. IInv /\ [Next]_vars => IInv'
  BY NextIInv, StutterIInv
<1> QED
  BY InitIInv, <1>1, PTL DEF Spec

\* The variables keep their types.
THEOREM TypeCorrect == Spec => []TypeOK
<1>1. IInv => TypeOK
  BY DEF IInv
<1> QED
  BY Invariance, <1>1, PTL

\* No bot signs with a nonce the chain has not reached.
THEOREM NonceBacked == Spec => []NonceNotAhead
<1>1. IInv => NonceNotAhead
  BY DEF IInv, NonceBooks
<1> QED
  BY Invariance, <1>1, PTL

\* No bot works with more WETH than the contract holds.
THEOREM BalanceBacked == Spec => []TrackedBalanceBacked
<1>1. IInv => TrackedBalanceBacked
  BY DEF IInv, WethBooks
<1> QED
  BY Invariance, <1>1, PTL

\* Every frontrun the bot sized is within the WETH the contract holds now.
THEOREM FrontrunAffordable == Spec => []Affordable
<1>1. IInv => Affordable
  BY DEF IInv, WethBooks
<1> QED
  BY Invariance, <1>1, PTL

\* Dust that the books list, and that a recipe counts on, is in the contract, unless a V3
\* sandwich of its token has landed (bundle_sender.rs, add_dust; v3.rs sells what its
\* encoding keeps).
THEOREM DustIsThere == Spec => []DustBacked
<1>1. IInv => DustBacked
  BY DEF IInv, DustBooks
<1> QED
  BY Invariance, <1>1, PTL

\* No bot has two landed bundles that are not in its books.
THEOREM OneUnaccounted == Spec => []OneAtATime
<1>1. ASSUME IInv PROVE OneAtATime
  <2> SUFFICES ASSUME NEW b \in Bundle, NEW c \in Bundle, Unaccounted(b), Unaccounted(c),
                      task[b].epoch = task[c].epoch
               PROVE  b = c
    BY DEF OneAtATime
  <2>1. b \in landed /\ c \in landed
    BY DEF Unaccounted
  <2>2. \A d \in landed : d \in Bundle /\ task[d].nonce <= nonce[task[d].epoch]
    BY <1>1 DEF IInv, TypeOK, Provenance, NonceBooks
  <2>3. \A d \in Bundle : task[d].nonce \in Nat /\ nonce[task[d].epoch] \in Nat
    BY <1>1 DEF IInv, TypeOK
  <2>4. task[b].nonce = task[c].nonce
    BY <2>1, <2>2, <2>3 DEF Unaccounted
  <2> QED
    BY <1>1, <2>1, <2>4 DEF IInv, NonceBooks
<1> QED
  BY Invariance, <1>1, PTL
================================================================================
