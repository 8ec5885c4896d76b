------------------------------ MODULE Taxation ------------------------------
(***************************************************************************)
(* The Terra stability tax the contract takes off every coin it sends, so  *)
(* that the amount sent plus the tax the chain then charges stays within   *)
(* the amount it meant to spend.                                           *)
(*                                                                         *)
(* A rate is a number of DECIMAL_FRACTION-ths.                             *)
(***************************************************************************)
EXTENDS Integers

CONSTANT DECIMAL_FRACTION   \* 10^18 in the code

ASSUME DecimalFractionAssumption == DECIMAL_FRACTION \in Nat \ {0}

Min2(a, b) == IF a <= b THEN a ELSE b

\* Mutant of ComputeTax: the tax rounded down instead of up.
TaxRoundedDown(amount, rate, cap) ==
    Min2((amount * rate) \div (DECIMAL_FRACTION + rate), cap)

\* Mutant of ComputeTax: the larger of tax and cap.
LargerTax(amount, rate, cap) ==
    LET tax == amount - (amount * DECIMAL_FRACTION) \div (DECIMAL_FRACTION + rate)
    IN  tax + cap - Min2(tax, cap)

ComputeTax(amount, rate, cap) ==
    Min2(amount - (amount * DECIMAL_FRACTION) \div (DECIMAL_FRACTION + rate), cap)

DeductTax(amount, rate, cap) == amount - ComputeTax(amount, rate, cap)

\* What the chain charges the sender on top of a coin it sends (external).
ChainTax(sent, rate, cap) == Min2((sent * rate) \div DECIMAL_FRACTION, cap)

\* What leaves the contract's account when it spends amount on one coin.
Debit(amount, rate, cap) ==
    LET sent == DeductTax(amount, rate, cap)
    IN  sent + ChainTax(sent, rate, cap)

\* What the contract loses by spending amount on one coin is never more than
\* amount: the tax it deducts covers the tax it is charged (taxation.rs, deduct_tax).
DebitWithin(amount, rate, cap) == Debit(amount, rate, cap) \in 0..amount

\* The largest coin whose sending costs no more than amount.
LargestCoin(amount, rate, cap) ==
    CHOOSE coin \in 0..amount :
        /\ coin + ChainTax(coin, rate, cap) <= amount
        /\ \A more \in (coin + 1)..amount : more + ChainTax(more, rate, cap) > amount

\* Nor does deduct_tax keep more than one unit too much: the coin it leaves is the
\* largest one that fits, or one less (taxation.rs, deduct_tax).
CoinWithinOne(amount, rate, cap) ==
    LargestCoin(amount, rate, cap) - DeductTax(amount, rate, cap) \in 0..1

=============================================================================
