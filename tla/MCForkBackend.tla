----------------------------- MODULE MCForkBackend -----------------------------
(* Instances of ForkBackend for TLC.                                           *)
EXTENDS ForkBackend

CONSTANTS a1, s1

\* the slot s1 belongs to a1
SlotOwner == [s \in {s1} |-> a1]
================================================================================
