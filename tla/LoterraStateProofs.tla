------------------------- MODULE LoterraStateProofs -------------------------
(***************************************************************************)
(* Lemmas about what the lottery and the DAO share: amounts, what sending  *)
(* them costs, and the accounts.                                           *)
(***************************************************************************)
EXTENDS LoterraState, TaxationProofs, FiniteSetTheorems

-----------------------------------------------------------------------------
(* Amounts. *)

\* A percentage of an amount is never more than the amount.
LEMMA PercentBounds ==
    ASSUME NEW amount \in Nat, NEW percentage \in 0..100
    PROVE  Percent(amount, percentage) \in 0..amount
<1>1. amount * percentage \in Nat /\ amount * percentage <= 100 * amount
  <2>1. amount * 100 = amount * percentage + amount * (100 - percentage)
    OBVIOUS
  <2>2. amount * (100 - percentage) \in Nat /\ amount * percentage \in Nat
    OBVIOUS
  <2>. QED
    BY <2>1, <2>2
<1>2. (amount * percentage) \div 100 \in Nat
  BY <1>1, Division
<1>3. (amount * percentage) \div 100 <= amount
  BY <1>1, DivisionBound
<1>. QED
  BY <1>2, <1>3 DEF Percent

LEMMA PercentType ==
    ASSUME NEW amount \in Nat, NEW percentage \in 0..100
    PROVE  Percent(amount, percentage) \in Nat
<1>1. Percent(amount, percentage) \in 0..amount
  BY PercentBounds
<1>. QED
  BY <1>1

\* At most fifty percent of an amount is at most half of it.
LEMMA HalfBounds ==
    ASSUME NEW amount \in Nat, NEW percentage \in 0..50
    PROVE  2 * Percent(amount, percentage) <= amount
<1>1. amount * 50 = amount * percentage + amount * (50 - percentage)
  OBVIOUS
<1>2. amount * percentage \in Nat
  OBVIOUS
<1>3. amount * (50 - percentage) \in Nat
  <2>1. 50 - percentage \in Nat
    OBVIOUS
  <2>. QED
    BY <2>1
<1>4. Percent(amount, percentage) \in Nat /\ 100 * Percent(amount, percentage) <= amount * percentage
  BY <1>2, Division DEF Percent
<1>. QED
  BY <1>1, <1>2, <1>3, <1>4

\* At most ten percent of an amount is at most a tenth of it.
LEMMA TenthBounds ==
    ASSUME NEW amount \in Nat, NEW percentage \in 0..10
    PROVE  10 * Percent(amount, percentage) <= amount
<1>1. amount * 10 = amount * percentage + amount * (10 - percentage)
  OBVIOUS
<1>2. amount * percentage \in Nat
  OBVIOUS
<1>3. amount * (10 - percentage) \in Nat
  <2>1. 10 - percentage \in Nat
    OBVIOUS
  <2>. QED
    BY <2>1
<1>4. Percent(amount, percentage) \in Nat /\ 100 * Percent(amount, percentage) <= amount * percentage
  BY <1>2, Division DEF Percent
<1>. QED
  BY <1>1, <1>2, <1>3, <1>4

\* Spending an amount takes at most that amount from the contract.
LEMMA SpendBounds ==
    ASSUME NEW amount \in Nat
    PROVE  Spend(amount) \in 0..amount
BY DebitIsWithin, ChainAssumption DEF Spend, DebitWithin

-----------------------------------------------------------------------------
(* Accounts and maps. *)

LEMMA AccountsFinite == IsFiniteSet(Accounts)
BY AccountsAssumption, FS_Singleton, FS_Union DEF Accounts

\* A saved value is the one loaded, and the others stay.
LEMMA SaveMap ==
    ASSUME NEW map, NEW key, NEW value
    PROVE  /\ DOMAIN Save(map, key, value) = DOMAIN map \cup {key}
           /\ Save(map, key, value)[key] = value
           /\ \A k \in DOMAIN map : k # key => Save(map, key, value)[k] = map[k]
BY DEF Save

=============================================================================
