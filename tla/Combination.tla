---------------------------- MODULE Combination ----------------------------
(***************************************************************************)
(* Lottery combinations: which strings are a ticket, how the winning       *)
(* combination is cut from the randomness, and the rank a ticket wins.     *)
(* Everything here is a pure operator.                                     *)
(***************************************************************************)
EXTENDS Integers, FiniteSets, Sequences

CONSTANTS
    Symbol,     \* the characters a string may hold
    HexDigit    \* those is_lower_hex accepts, 0-9 and a-f in the code

ASSUME HexDigitAssumption == HexDigit \subseteq Symbol

COMBINATION_LEN == 6
Position == 1..COMBINATION_LEN
Combinations == [Position -> HexDigit]

\* Mutant of IsLowerHex: the length is not checked.
IsAnyHex(combination) == \A i \in DOMAIN combination : combination[i] \in HexDigit

\* A string is a sequence of symbols; a well-formed one is a combination.
IsLowerHex(combination) ==
    /\ Len(combination) = COMBINATION_LEN
    /\ \A i \in DOMAIN combination : combination[i] \in HexDigit

\* The last COMBINATION_LEN symbols of the hex-encoded randomness.
WinningCombination(hash) ==
    [i \in Position |-> hash[Len(hash) - COMBINATION_LEN + i]]

\* Positions at which the ticket shows the winning symbol (order matters).
CountMatch(ticket, winning) ==
    Cardinality({i \in Position : ticket[i] = winning[i]})

Ranks == 1..4
NoRank == 0

\* Rank 1 for every symbol, one rank lower for each of up to three misses.
RankOf(ticket, winning) ==
    LET missed == COMBINATION_LEN - CountMatch(ticket, winning)
    IN  IF missed < 4 THEN missed + 1 ELSE NoRank

=============================================================================
