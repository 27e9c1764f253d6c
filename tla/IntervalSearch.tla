----------------------------- MODULE IntervalSearch -----------------------------
(* The search for the input of a frontrun that brings the most revenue          *)
(* (src/bot/src/simulate/make_sandwich.rs: create_optimal_sandwich and          *)
(* juiced_quadratic_search).                                                    *)
(*                                                                             *)
(* One step is one turn of the loop: the range is cut into Intervals parts, the *)
(* revenue at every cut is simulated, and the range shrinks to the two parts    *)
(* next to the best cut.  What the simulations answer is the market, any        *)
(* function of the input; a simulation that fails counts as no revenue.  U256   *)
(* subtraction panics when its result would be negative, and the panic ends the *)
(* task that searches.                                                          *)
EXTENDS Integers

CONSTANTS
    Market,         \* what there may be: the contract's balance, the revenue per input
    Intervals,      \* number_of_intervals (the code: 15)
    GiveUp,         \* turns after which no revenue means there is none (the code: 10)
    Base,           \* tolerance is this part of half the balance (the code: 1000000)
    Need            \* length of a range -> it can be cut that many times more (NoUnderflow)

\* intervals.len() / 3
Third == (Intervals + 1) \div 3

ASSUME SearchAssumption ==
    /\ \A m \in Market : m.balance \in Nat /\ m.rev \in [0..m.balance -> Nat]
    /\ Intervals \in Nat /\ Intervals >= 2
    /\ GiveUp \in Nat \ {0} /\ Base \in Nat \ {0}

\* Where a range is cut down to its first third, less one, what is left must do for one
\* turn less.
ASSUME NeedAssumption ==
    /\ Need \in [0..(GiveUp - 1) -> Nat]
    /\ \A k \in 1..(GiveUp - 1) : (Need[k - 1] + 1) * Intervals <= Need[k] * Third

VARIABLES
    market,
    lower, upper,   \* lower_bound and upper_bound
    counter,
    best,           \* highest_sando_input
    state           \* "search", "found", "none" or "panic"

vars == <<market, lower, upper, counter, best, state>>

tolerance == (market.balance \div 2) \div Base

\* Mutant of Cut: off by one part.
CutAhead(i) == lower + ((upper - lower) * (i + 1)) \div Intervals

Cut(i) == lower + ((upper - lower) * i) \div Intervals
Cuts == 0..Intervals
Revenue(i) == market.rev[Cut(i)]

\* max_by: of the cuts with the highest revenue, the last
Highest ==
    CHOOSE i \in Cuts :
        \A j \in Cuts : Revenue(j) < Revenue(i) \/ (Revenue(j) = Revenue(i) /\ j <= i)

Init ==
    /\ market \in Market
    /\ lower = 0 /\ upper = market.balance
    /\ counter = 0 /\ best = 0
    /\ state = "search"
--------------------------------------------------------------------------------
\* should_loop_terminate
Done == upper < lower \/ upper - lower < tolerance

\* Turns beyond GiveUp are alike, so they are not told apart.
Count == IF counter > GiveUp THEN counter ELSE counter + 1

\* The caller takes zero for no opportunity.
Finish ==
    /\ state = "search" /\ Done
    /\ state' = IF best = 0 THEN "none" ELSE "found"
    /\ counter' = Count
    /\ UNCHANGED <<market, lower, upper, best>>

\* A turn of the loop: the best cut is remembered before anything else.
Turn(i) ==
    /\ state = "search" /\ ~Done
    /\ i = Highest
    /\ counter' = Count
    /\ best' = Cut(i)
    /\ UNCHANGED market

Abandon ==
    /\ \E i \in Cuts : Turn(i) /\ Revenue(i) = 0
    /\ counter' = GiveUp
    /\ state' = "none"
    /\ UNCHANGED <<lower, upper>>

\* Mutant of Shrink: a subtraction that may become negative.
ShrinkUnchecked ==
    /\ \E i \in Cuts : Turn(i) /\ Revenue(i) = 0
    /\ counter' # GiveUp
    /\ upper' = Cut(Third) - 1
    /\ UNCHANGED <<lower, state>>

\* Mutant of Shrink: no end to the turns without revenue.
ShrinkForever ==
    /\ \E i \in Cuts : Turn(i) /\ Revenue(i) = 0
    /\ IF Cut(Third) = 0
       THEN state' = "panic" /\ UNCHANGED upper
       ELSE upper' = Cut(Third) - 1 /\ UNCHANGED state
    /\ UNCHANGED lower

\* No revenue anywhere: the optimum must be small.
Shrink ==
    /\ \E i \in Cuts : Turn(i) /\ Revenue(i) = 0
    /\ counter' # GiveUp
    /\ IF Cut(Third) = 0
       THEN state' = "panic" /\ UNCHANGED upper
       ELSE upper' = Cut(Third) - 1 /\ UNCHANGED state
    /\ UNCHANGED lower

\* Mutant of Rightmost: the range need not shrink.
RightmostClosed ==
    /\ Turn(Intervals) /\ Revenue(Intervals) > 0
    /\ lower' = Cut(Intervals - 1)
    /\ UNCHANGED <<upper, state>>

Rightmost ==
    /\ Turn(Intervals) /\ Revenue(Intervals) > 0
    /\ lower' = Cut(Intervals - 1) + 1
    /\ UNCHANGED <<upper, state>>

Leftmost ==
    /\ Turn(0) /\ Revenue(0) > 0
    /\ IF Cut(1) = 0
       THEN state' = "panic" /\ UNCHANGED upper
       ELSE upper' = Cut(1) - 1 /\ UNCHANGED state
    /\ UNCHANGED lower

\* Mutant of Inside: the part below the best cut is given up.
InsideAbove ==
    /\ \E i \in 1..(Intervals - 1) :
          /\ Turn(i) /\ Revenue(i) > 0
          /\ lower' = Cut(i) + 1
          /\ upper' = Cut(i + 1) - 1 /\ UNCHANGED state

Inside ==
    /\ \E i \in 1..(Intervals - 1) :
          /\ Turn(i) /\ Revenue(i) > 0
          /\ lower' = Cut(i - 1) + 1
          /\ IF Cut(i + 1) = 0
             THEN state' = "panic" /\ UNCHANGED upper
             ELSE upper' = Cut(i + 1) - 1 /\ UNCHANGED state

Next == Finish \/ Abandon \/ Shrink \/ Rightmost \/ Leftmost \/ Inside

Spec == Init /\ [][Next]_vars /\ WF_vars(Next)
--------------------------------------------------------------------------------
TypeOK ==
    /\ lower \in Nat /\ upper \in Nat /\ counter \in Nat /\ best \in Nat
    /\ state \in {"search", "found", "none", "panic"}

\* No input beyond what the contract holds is simulated or returned, although both ends
\* of the range move by sums and differences of rounded cuts.
WithinBalance ==
    /\ best <= market.balance
    /\ state = "search" /\ ~Done => \A i \in Cuts : Cut(i) \in 0..market.balance

\* The subtractions panic only when the contract holds next to nothing: with the balance
\* below, GiveUp - 1 turns without revenue leave a range that can still be cut, and a turn
\* with revenue never subtracts from zero.  (29523 wei with the constants of the code.)
NoUnderflow == market.balance >= Need[GiveUp - 1] => state # "panic"

\* Where the revenue is concave in the input, as it is for a single swap, the answer is
\* within the tolerance of an optimal input.
Concave == \A x \in 1..(market.balance - 1) :
    market.rev[x + 1] - market.rev[x] <= market.rev[x] - market.rev[x - 1]
Optimal == {x \in 0..market.balance : \A y \in 0..market.balance :
                                         market.rev[y] <= market.rev[x]}
NearOptimal ==
    state = "found" /\ Concave =>
        \E x \in Optimal : x = best \/ (x - best < tolerance /\ best - x < tolerance)

\* The search ends whatever the simulations answer.
SearchEnds == <>(state # "search")
--------------------------------------------------------------------------------
\* The inductive invariants: the range, what is left of it when no turn has found revenue,
\* and where the optimal inputs of a concave market are.
InRange == upper <= market.balance /\ best <= market.balance

Barren ==
    state = "search" /\ lower = 0 /\ market.rev[0] = 0 =>
        /\ counter < GiveUp
        /\ market.balance >= Need[GiveUp - 1] => upper >= Need[GiveUp - 1 - counter]

Flat == \A x \in 0..market.balance : market.rev[x] = 0
Kept ==
    state = "search" /\ Concave =>
        \/ Flat
        \/ /\ \E x \in Optimal : x = best \/ x \in lower..upper
           /\ lower <= upper => best \in lower..upper

IInv == TypeOK /\ market \in Market /\ InRange /\ Barren /\ Kept /\ NoUnderflow /\ NearOptimal
================================================================================
