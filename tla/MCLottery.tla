----------------------------- MODULE MCLottery -----------------------------
(* Small instances of Lottery for TLC. *)
EXTENDS ClaimList

MCHexDigit == {"0", "1"}
MCSymbol == {"0", "1", "x"}

\* Against MCHashes: every rank from 1 to 4, no rank, and two malformed strings.
Zeros == <<"0", "0", "0", "0", "0", "0">>
OneOff == <<"0", "0", "0", "0", "0", "1">>
Ones == <<"1", "1", "1", "1", "1", "1">>
TooShort == <<"0", "0", "0", "0", "0">>
NotHex == <<"0", "0", "0", "0", "0", "x">>
MCStrings == {Zeros, OneOff, TooShort}

\* Against the first hash the tickets above rank 1 and 2, against the second
\* one 4 and 3, against the third one none.
MCHashes == {<<"1", "0">> \o Zeros,
             <<"0", "1", "0", "0", "0", "1", "1", "1">>,
             <<"0", "0">> \o Ones}
OneHash == {<<"1", "0">> \o Zeros}
OneString == {Zeros}

\* Behaviours in which the owner leaves the switch alone.
QuietNext == LotteryCall \/ Environment
QuietSpec == LotteryInit /\ [][QuietNext]_lotteryVars
=============================================================================
