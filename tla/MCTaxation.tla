----------------------------- MODULE MCTaxation -----------------------------
(* Every amount up to a bound, for several tax rates and caps. *)
EXTENDS Taxation

CONSTANTS
    MaxAmount,  \* bound: the largest amount tried
    Rates,
    Caps

ASSUME InputsAssumption == MaxAmount \in Nat /\ Rates \subseteq Nat /\ Caps \subseteq Nat

VARIABLES amount, rate, cap

Init == amount = 0 /\ rate \in Rates /\ cap \in Caps

Next == amount < MaxAmount /\ amount' = amount + 1 /\ UNCHANGED <<rate, cap>>

Spec == Init /\ [][Next]_<<amount, rate, cap>>

\* The tax that deduct_tax takes off covers the tax the chain charges, so a coin
\* never costs the contract more than what it set aside for it (taxation.rs).
SpendCovered == DebitWithin(amount, rate, cap)

\* Nor does deduct_tax keep more than one unit too much: the coin it leaves is the
\* largest one that fits, or one less.
CoinIsLargest == CoinWithinOne(amount, rate, cap)
=============================================================================
