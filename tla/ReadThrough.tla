------------------------------ MODULE ReadThrough ------------------------------
(* What the shared fork backend promises to the sandboxes that read through it *)
(* (src/bot/src/forked_db): a key has one value for as long as the backend     *)
(* lives, whichever sandbox asks and however often; a question is answered     *)
(* with that value or with an error; an error settles nothing, so a later      *)
(* question may still learn the value.                                         *)

CONSTANTS
    Client,     \* sandboxes that ask
    Key,        \* accounts, storage slots and block hashes
    Value,      \* what a key may turn out to hold
    None,       \* no question, no answer, no settled value
    Err         \* the answer of a fetch that failed

VARIABLES
    asked,      \* client -> the key it waits for, or None
    answer,     \* client -> the answer it has not taken yet, or None
    settled     \* key -> the value every reader sees, or None

vars == <<asked, answer, settled>>

Unanswered(k) == {c \in Client : asked[c] = k /\ answer[c] = None}

TypeOK ==
    /\ asked \in [Client -> Key \cup {None}]
    /\ answer \in [Client -> Value \cup {None, Err}]
    /\ settled \in [Key -> Value \cup {None}]

Init ==
    /\ asked = [c \in Client |-> None]
    /\ answer = [c \in Client |-> None]
    /\ settled \in [Key -> Value \cup {None}]

Ask(c, k) ==
    /\ asked[c] = None
    /\ asked' = [asked EXCEPT ![c] = k]
    /\ UNCHANGED <<answer, settled>>

\* Some of those who wait for k get its value, which is settled by now.
Resolve(k, v, S) ==
    /\ settled[k] \in {None, v}
    /\ S \subseteq Unanswered(k)
    /\ settled' = [settled EXCEPT ![k] = v]
    /\ answer' = [c \in Client |-> IF c \in S THEN v ELSE answer[c]]
    /\ UNCHANGED asked

Reject(k, S) ==
    /\ settled[k] = None
    /\ S \subseteq Unanswered(k)
    /\ answer' = [c \in Client |-> IF c \in S THEN Err ELSE answer[c]]
    /\ UNCHANGED <<asked, settled>>

\* The asker takes its answer; it may have its next question ready.
Take(c, next) ==
    /\ answer[c] # None
    /\ answer[c] = Err => next = None
    /\ answer' = [answer EXCEPT ![c] = None]
    /\ asked' = [asked EXCEPT ![c] = next]
    /\ UNCHANGED settled

Next ==
    \/ \E c \in Client, k \in Key : Ask(c, k)
    \/ \E k \in Key, S \in SUBSET Client :
          \/ \E v \in Value : Resolve(k, v, S)
          \/ Reject(k, S)
    \/ \E c \in Client, k \in Key \cup {None} : Take(c, k)

Spec == Init /\ [][Next]_vars
================================================================================
