--------------------------- MODULE TaxationProofs ---------------------------
(***************************************************************************)
(* The tax the contract deducts covers the tax the chain charges, for      *)
(* every amount, rate and cap.                                             *)
(***************************************************************************)
EXTENDS Taxation, TLAPS

\* Division by a positive number is the floor of the quotient.
LEMMA Division ==
    ASSUME NEW a \in Nat, NEW b \in Nat \ {0}
    PROVE  /\ a \div b \in Nat
           /\ b * (a \div b) <= a
           /\ a < b * (a \div b) + b
BY Z3

\* A quotient is at most any bound its dividend respects.
LEMMA DivisionBound ==
    ASSUME NEW a \in Nat, NEW b \in Nat \ {0}, NEW c \in Nat, a <= b * c
    PROVE  a \div b <= c
<1>1. a \div b \in Nat /\ b * (a \div b) <= b * c
  BY Division
<1>2. SUFFICES ASSUME a \div b >= c + 1 PROVE FALSE
  BY <1>1
<1>3. b * (a \div b) >= b * (c + 1)
  BY <1>1, <1>2, SMT
<1>4. b * (c + 1) = b * c + b
  BY SMT
<1>. QED
  BY <1>1, <1>3, <1>4

\* The coin that is sent is never more than the amount it is taken from.
LEMMA DeductTaxBounds ==
    ASSUME NEW amount \in Nat, NEW rate \in Nat, NEW cap \in Nat
    PROVE  /\ ComputeTax(amount, rate, cap) \in 0..amount
           /\ DeductTax(amount, rate, cap) \in 0..amount
<1> DEFINE net == (amount * DECIMAL_FRACTION) \div (DECIMAL_FRACTION + rate)
<1>1. /\ amount * DECIMAL_FRACTION \in Nat
      /\ DECIMAL_FRACTION + rate \in Nat \ {0}
  BY DecimalFractionAssumption
<1>2. amount * DECIMAL_FRACTION <= (DECIMAL_FRACTION + rate) * amount
  <2>1. (DECIMAL_FRACTION + rate) * amount = amount * DECIMAL_FRACTION + rate * amount
    BY DecimalFractionAssumption
  <2>2. rate * amount \in Nat
    OBVIOUS
  <2>. QED
    BY <1>1, <2>1, <2>2
<1>3. net \in Nat /\ net <= amount
  BY <1>1, <1>2, Division, DivisionBound
<1>. QED
  BY <1>3 DEF ComputeTax, DeductTax, Min2

\* Whatever the rate and the cap, spending an amount costs the contract at most
\* that amount.
THEOREM DebitIsWithin ==
    ASSUME NEW amount \in Nat, NEW rate \in Nat, NEW cap \in Nat
    PROVE  DebitWithin(amount, rate, cap)
<1> DEFINE D == DECIMAL_FRACTION
           net == (amount * D) \div (D + rate)
           sent == DeductTax(amount, rate, cap)
           charged == (sent * rate) \div D
<1>1. D \in Nat \ {0} /\ amount * D \in Nat /\ D + rate \in Nat \ {0}
  BY DecimalFractionAssumption
<1>2. net \in Nat /\ (D + rate) * net <= amount * D
  BY <1>1, Division
<1>3. sent \in 0..amount
  BY DeductTaxBounds
<1>4. sent * rate \in Nat /\ charged \in Nat
  BY <1>1, <1>3, Division
<1>5. CASE amount - net <= cap
  <2>1. sent = net
    BY <1>2, <1>5 DEF DeductTax, ComputeTax, Min2
  <2>2. sent * rate <= D * (amount - sent)
    <3>1. (D + rate) * sent = D * sent + sent * rate
      BY <1>1, <1>3
    <3>2. D * (amount - sent) = amount * D - D * sent
      BY <1>1, <1>3
    <3>. QED
      BY <1>1, <1>2, <1>3, <1>4, <2>1, <3>1, <3>2
  <2>3. charged <= amount - sent
    BY <1>1, <1>3, <1>4, <2>2, DivisionBound
  <2>. QED
    BY <1>3, <1>4, <2>3 DEF DebitWithin, Debit, ChainTax, Min2
<1>6. CASE ~(amount - net <= cap)
  <2>1. sent = amount - cap
    BY <1>2, <1>6 DEF DeductTax, ComputeTax, Min2
  <2>. QED
    BY <1>3, <1>4, <2>1 DEF DebitWithin, Debit, ChainTax, Min2
<1>. QED
  BY <1>5, <1>6


-----------------------------------------------------------------------------
(* How much of an amount the deducted tax leaves. *)

\* What a coin costs is an amount.
LEMMA CostType ==
    ASSUME NEW coin \in Nat, NEW rate \in Nat, NEW cap \in Nat
    PROVE  /\ (coin * rate) \div DECIMAL_FRACTION \in Nat
           /\ ChainTax(coin, rate, cap) \in Nat
<1>1. coin * rate \in Nat
  OBVIOUS
<1>2. (coin * rate) \div DECIMAL_FRACTION \in Nat
  BY <1>1, DecimalFractionAssumption, Division
<1>. QED
  BY <1>2 DEF ChainTax, Min2

\* A coin two units larger than what deduct_tax leaves costs more than the amount.
LEMMA LargerCoinsCost ==
    ASSUME NEW amount \in Nat, NEW rate \in Nat, NEW cap \in Nat,
           NEW coin \in Nat, coin >= DeductTax(amount, rate, cap) + 2
    PROVE  coin + ChainTax(coin, rate, cap) > amount
<1> DEFINE D == DECIMAL_FRACTION
           net == (amount * D) \div (D + rate)
           sent == DeductTax(amount, rate, cap)
           charged == (coin * rate) \div D
<1>1. D \in Nat \ {0} /\ amount * D \in Nat /\ D + rate \in Nat \ {0}
  BY DecimalFractionAssumption
<1>2. net \in Nat /\ amount * D < (D + rate) * net + (D + rate)
  BY <1>1, Division
<1>3. sent \in 0..amount
  BY DeductTaxBounds
<1>4. sent >= net /\ sent >= amount - cap
  BY <1>1, <1>2, <1>3 DEF DeductTax, ComputeTax, Min2
<1>5. coin * rate \in Nat /\ charged \in Nat /\ coin * rate < D * charged + D
  BY <1>1, Division
<1>6. coin + charged > amount
  <2> SUFFICES ASSUME coin + charged <= amount PROVE FALSE
    BY <1>5
  <2> HIDE DEF net, sent, charged, D
  <2>1. coin >= net + 2
    BY <1>2, <1>3, <1>4 DEF sent
  <2>2. (D + rate) * coin >= (D + rate) * (net + 2)
    BY <1>1, <1>2, <2>1, SMT
  <2>3. (D + rate) * (net + 2) = (D + rate) * net + (D + rate) + D + rate
    BY <1>1, <1>2
  <2>4. (D + rate) * coin = D * coin + coin * rate
    BY <1>1
  <2>5. D * coin + coin * rate > amount * D + D
    BY <1>1, <1>2, <1>5, <2>2, <2>3, <2>4
  <2>6. D * coin + D * charged > amount * D
    BY <1>1, <1>5, <2>5
  <2>7. D * (coin + charged) = D * coin + D * charged
    BY <1>1, <1>5
  <2>8. D * (coin + charged) <= D * amount
    BY <1>1, <1>5, SMT
  <2>9. D * amount = amount * D
    BY <1>1
  <2>. QED
    BY <1>1, <1>5, <2>6, <2>7, <2>8, <2>9
<1>7. coin + cap > amount
  BY <1>3, <1>4
<1>. QED
  BY <1>5, <1>6, <1>7 DEF ChainTax, Min2

\* Whatever the rate and the cap, deduct_tax leaves the largest coin that fits in
\* the amount, or one unit less.
THEOREM CoinIsWithinOne ==
    ASSUME NEW amount \in Nat, NEW rate \in Nat, NEW cap \in Nat
    PROVE  CoinWithinOne(amount, rate, cap)
<1> DEFINE sent == DeductTax(amount, rate, cap)
           fits(coin) == coin + ChainTax(coin, rate, cap) <= amount
           largest(coin) == /\ fits(coin)
                            /\ \A more \in (coin + 1)..amount :
                                   more + ChainTax(more, rate, cap) > amount
<1>1. sent \in 0..amount /\ fits(sent)
  <2>1. sent + ChainTax(sent, rate, cap) \in 0..amount
    BY DebitIsWithin DEF DebitWithin, Debit
  <2>. QED
    BY <2>1, DeductTaxBounds
<1>2. \A coin \in Nat : coin >= sent + 2 => coin + ChainTax(coin, rate, cap) > amount
  BY LargerCoinsCost
<1>3. \A coin \in Nat : ChainTax(coin, rate, cap) \in Nat
  BY CostType
<1> HIDE DEF sent
<1>4. \E coin \in 0..amount : largest(coin)
  <2>1. CASE fits(sent + 1)
    <3>1. sent + 1 \in 0..amount
      <4>1. sent + 1 \in Nat /\ ChainTax(sent + 1, rate, cap) \in Nat
        BY <1>1, <1>3
      <4>. QED
        BY <2>1, <4>1
    <3>2. \A more \in (sent + 2)..amount : more + ChainTax(more, rate, cap) > amount
      BY <1>1, <1>2
    <3>3. (sent + 1) + 1 = sent + 2
      BY <1>1
    <3>. QED
      BY <2>1, <3>1, <3>2, <3>3
  <2>2. CASE ~fits(sent + 1)
    <3>1. ASSUME NEW more \in (sent + 1)..amount
          PROVE  more + ChainTax(more, rate, cap) > amount
      <4>1. more \in Nat /\ (more = sent + 1 \/ more >= sent + 2)
        BY <1>1
      <4>2. CASE more = sent + 1
        <5>1. ChainTax(more, rate, cap) \in Nat
          BY <1>3, <4>1
        <5>. QED
          BY <2>2, <4>1, <4>2, <5>1
      <4>. QED
        BY <1>2, <4>1, <4>2
    <3>. QED
      BY <1>1, <3>1
  <2>. QED
    BY <2>1, <2>2
<1>. PICK coin : coin = LargestCoin(amount, rate, cap)
  OBVIOUS
<1>5. coin \in 0..amount /\ largest(coin)
  BY <1>4 DEF LargestCoin
<1>6. coin <= sent + 1
  <2> SUFFICES ASSUME coin >= sent + 2 PROVE FALSE
    BY <1>1, <1>5
  <2>1. coin \in Nat /\ ChainTax(coin, rate, cap) \in Nat
    BY <1>1, <1>3, <1>5
  <2>2. coin + ChainTax(coin, rate, cap) > amount
    BY <1>2, <2>1
  <2>3. coin + ChainTax(coin, rate, cap) <= amount
    BY <1>5
  <2>. QED
    BY <2>1, <2>2, <2>3
<1>7. coin >= sent
  <2> SUFFICES ASSUME coin < sent PROVE FALSE
    BY <1>1, <1>5
  <2>1. sent \in (coin + 1)..amount
    BY <1>1, <1>5
  <2>2. sent + ChainTax(sent, rate, cap) > amount /\ sent + ChainTax(sent, rate, cap) <= amount
    BY <1>1, <1>5, <2>1
  <2>3. sent + ChainTax(sent, rate, cap) \in Nat
    BY <1>1, <1>3
  <2>. QED
    BY <2>2, <2>3
<1>. QED
  BY <1>1, <1>5, <1>6, <1>7 DEF CoinWithinOne, sent

=============================================================================
