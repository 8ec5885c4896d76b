-------------------------- MODULE MCTaxationProofs --------------------------
(***************************************************************************)
(* The invariants of MCTaxation, for amounts without a bound and any rates *)
(* and caps: every input it reaches is one the theorems of Taxation are    *)
(* about.                                                                  *)
(***************************************************************************)
EXTENDS MCTaxation, TaxationProofs

InputsOK == amount \in Nat /\ rate \in Nat /\ cap \in Nat

LEMMA InputsStayNatural == Spec => []InputsOK
<1>1. Init => InputsOK
  BY InputsAssumption DEF Init, InputsOK
<1>2. InputsOK /\ [Next]_<<amount, rate, cap>> => InputsOK'
  BY DEF Next, InputsOK
<1>. QED
  BY <1>1, <1>2, PTL DEF Spec

\* No coin costs the contract more than it set aside for it, whatever MaxAmount,
\* the rates and the caps.
THEOREM SpendAlwaysCovered == Spec => []SpendCovered
<1>1. InputsOK => SpendCovered
  BY DebitIsWithin DEF InputsOK, SpendCovered
<1>. QED
  BY <1>1, InputsStayNatural, PTL

\* The coin sent is the largest that fits, or one unit less.
THEOREM CoinAlwaysLargest == Spec => []CoinIsLargest
<1>1. InputsOK => CoinIsLargest
  BY CoinIsWithinOne DEF InputsOK, CoinIsLargest
<1>. QED
  BY <1>1, InputsStayNatural, PTL

=============================================================================
