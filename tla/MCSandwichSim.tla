------------------------------ MODULE MCSandwichSim ------------------------------
(* Instances of SandwichSim for TLC.                                            *)
EXTENDS SandwichSim, TLC

CONSTANTS alice, bob

\* Two senders, two nonces; a transaction without type and price, one of the old kind, one
\* that tips nothing and one that tips more than the base fee, and more than the second
\* one pays at all.
TipAndCap == {<<None, None>>, <<None, 2>>, <<0, 2>>, <<3, 3>>}
Mempool ==
    {[from |-> a, nonce |-> n, tip |-> f[1], cap |-> f[2]] :
        a \in {alice, bob}, n \in 0..1, f \in TipAndCap}

Senders == Permutations({alice, bob})
================================================================================
