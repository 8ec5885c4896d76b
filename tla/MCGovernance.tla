---------------------------- MODULE MCGovernance ----------------------------
(* Small instances of Governance for TLC. *)
EXTENDS Governance, TLC

CONSTANTS p1, p2, p3, staking, other, contract

Terms(proposal, amount) ==
    [proposal |-> proposal, amount |-> amount, prize_per_rank |-> None, recipient |-> None]

To(terms, recipient) == [terms EXCEPT !.recipient = recipient]

\* Polls on every parameter, in range, out of it, and past the width of a u8 (128
\* values here).
ParameterPolls ==
    {Terms("HolderFeePercentage", 20), Terms("HolderFeePercentage", 140),
     Terms("DrandWorkerFeePercentage", 11),
     Terms("JackpotRewardPercentage", 60), Terms("JackpotRewardPercentage", 101),
     Terms("LotteryEveryBlockTime", 5), Terms("AmountToRegister", 0),
     [Terms("PrizePerRank", None) EXCEPT !.prize_per_rank = <<0, 90, 10, 0>>],
     [Terms("PrizePerRank", None) EXCEPT !.prize_per_rank = <<0, 90, 10>>],
     Terms("PollSurvey", None), Terms("NotExist", 1)}

\* Polls on money, tokens and the staking contract.
FundPolls ==
    {Terms("DaoFunding", 2), To(Terms("DaoFunding", 1), other),
     To(Terms("SecurityMigration", None), p3),
     To(Terms("StakingContractMigration", None), other)}

\* Each of them beside each other.
DaoPolls == ParameterPolls \cup FundPolls

OnePoll == {Terms("JackpotRewardPercentage", 60)}
LivePolls ==
    {Terms("DaoFunding", 2), To(Terms("SecurityMigration", None), p3),
     To(Terms("SecurityMigration", None), Malformed),
     To(Terms("StakingContractMigration", None), p3)}

ListOrder ==
    CHOOSE order \in [Accounts -> 1..Cardinality(Accounts)] :
        \A a, b \in Accounts : a # b => order[a] # order[b]
EvenStakes == {[account \in Accounts |-> 1]}

\* Behaviours in which the owner neither locks the lottery nor renounces.
QuietNext == DaoCall \/ Restaking \/ NextHeight
QuietSpec == GovernanceInit /\ [][QuietNext]_governanceVars

\* The same with an owner that may renounce between a poll and its decision, from
\* the staking contract that a poll may replace by the other.
RenounceNext ==
    \/ QuietNext
    \/ Ownership /\ state'.safe_lock = state.safe_lock
RenounceInit == GovernanceInit /\ state.loterra_staking_contract_address = staking
RenounceSpec == RenounceInit /\ [][RenounceNext]_governanceVars

FairQuietSpec == QuietSpec /\ GovernanceFairness
=============================================================================
