----------------------------- MODULE MCLoterra -----------------------------
(* Small instances of Loterra for TLC. *)
EXTENDS Queries, TLC

CONSTANTS p1, p2, staking, other, contract

MCHexDigit == {"0", "1"}
MCSymbol == {"0", "1"}
Zeros == <<"0", "0", "0", "0", "0", "0">>
OneOff == <<"0", "0", "0", "0", "0", "1">>
OneString == {Zeros}
TwoStrings == {Zeros, OneOff}
OneHash == {<<"1", "0">> \o Zeros}

Terms(proposal, amount) ==
    [proposal |-> proposal, amount |-> amount, prize_per_rank |-> None, recipient |-> None]

SplitPoll == {[Terms("PrizePerRank", None) EXCEPT !.prize_per_rank = <<100, 0, 0, 0>>]}
PeriodPoll == {Terms("LotteryEveryBlockTime", 1)}
PotPoll == {Terms("JackpotRewardPercentage", 60)}
MigrationPoll == {[Terms("SecurityMigration", None) EXCEPT !.recipient = other]}
WorkerPoll == {Terms("DrandWorkerFeePercentage", 10)}
TermsPolls == SplitPoll \cup PotPoll \cup MigrationPoll \cup WorkerPoll
WindowPolls == PeriodPoll \cup SplitPoll
\* Of the period, the pot, the worker and the ticket: what keeps the plays going,
\* what stops them and what repairs them.
LivePolls ==
    {Terms("LotteryEveryBlockTime", seconds) : seconds \in {1, 999}}
    \cup {Terms("JackpotRewardPercentage", 0)}
    \cup {Terms("DrandWorkerFeePercentage", percent) : percent \in {0, 2}}
FreeWorkPoll == {Terms("DrandWorkerFeePercentage", 0)}

\* An address named twice with another between, and the lists of one address.
MCLists == {<<p1>>, <<p2>>, <<p1, p2, p1>>}

ListOrder ==
    CHOOSE order \in [Accounts -> 1..Cardinality(Accounts)] :
        \A a, b \in Accounts : a # b => order[a] # order[b]

\* The owner holds all that is bonded, so that its vote decides at once.
OwnerStakes == {[account \in Accounts |-> IF account = Owner THEN 1 ELSE 0]}

\* Behaviours in which the owner leaves the switch alone, polls come from the owner,
\* who may propose every kind, and nobody opposes them: what polls do to a lottery,
\* when they pass.
QuietMsg(sender) ==
    {m \in ExecuteMsg :
        /\ m.msg \notin {"SafeLock", "Renounce", "RejectPoll"}
        /\ m.msg = "Poll" => sender = Owner
        /\ m.msg = "Vote" => m.approve}
QuietNext ==
    \/ \E sender \in Accounts : \E msg \in QuietMsg(sender) : Execute(sender, msg)
    \/ Blocks
    \/ Worker
    \/ Donors
    \/ Stakers
QuietSpec == LoterraInit /\ [][QuietNext]_loterraVars

\* The same with the owner's switch: what polls and the owner do to the plays, and
\* how they repair it.
LiveMsg(sender) ==
    QuietMsg(sender) \cup {m \in ExecuteMsg : m.msg = "SafeLock" /\ sender = Owner}
LiveNext ==
    \/ \E sender \in Accounts : \E msg \in LiveMsg(sender) : Execute(sender, msg)
    \/ Blocks
    \/ Worker
LiveSpec == LoterraInit /\ [][LiveNext]_loterraVars /\ LoterraFairness
=============================================================================
