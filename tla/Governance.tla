----------------------------- MODULE Governance -----------------------------
(***************************************************************************)
(* The DAO: anyone proposes, stakers vote with what they have bonded in    *)
(* the staking contract at that moment, the creator may withdraw, and      *)
(* anyone presents a poll, which decides it and applies its effect.        *)
(*                                                                         *)
(* A handler is one action; an error is a step that does not exist. Polls  *)
(* are numbered from 1. The staking contract and the cw20 token answer     *)
(* queries and may change between any two calls.                           *)
(***************************************************************************)
EXTENDS LoterraState

CONSTANTS
    PollDefaultEndHeight,   \* poll_default_end_height
    None,                   \* Option::None
    Malformed,              \* a recipient that is no address of the chain
    U8,                     \* how many values a u8 has, 256 in the code
    PollMsgs,               \* terms of the polls that may be proposed
    HolderOrder,            \* the order in which the staking contract lists holders
    PageLimit,              \* holders it lists when no limit is given (external)
    Stakes,                 \* amounts an account may have bonded
    InitStakes,             \* stakes of the accounts when the contract starts
    InitTokens,             \* LOTA tokens the contract may start with
    MaxPolls,               \* bound: polls proposed
    MaxHeight               \* bound: the last block height; polls end by then

PercentagePolls ==
    {"HolderFeePercentage", "DrandWorkerFeePercentage", "JackpotRewardPercentage"}
PrivilegedPolls == {"SecurityMigration", "DaoFunding", "StakingContractMigration"}
Proposals ==
    PercentagePolls \cup PrivilegedPolls
    \cup {"LotteryEveryBlockTime", "AmountToRegister", "PrizePerRank", "PollSurvey", "NotExist"}

PollStatus == {"InProgress", "Passed", "Rejected", "RejectedByCreator"}

Recipients == StakingAddresses \cup {Malformed}

\* The fields of ExecuteMsg::Poll, its description excepted.
PollTerms ==
    [proposal : Proposals,
     amount : Nat \cup {None},
     prize_per_rank : Seq(Nat) \cup {None},
     recipient : Recipients \cup {None}]

ASSUME GovernanceAssumption ==
    /\ PollDefaultEndHeight \in Nat
    /\ None \notin Nat \cup Seq(Nat) \cup Recipients
    /\ Malformed \notin StakingAddresses
    /\ Contract \notin StakingAddresses
    /\ U8 \in Nat \ {0} /\ U8 > 100
    /\ PollMsgs \subseteq PollTerms
    /\ HolderOrder \in [Accounts -> Nat]
    /\ PageLimit \in Nat
    /\ Stakes \subseteq Nat
    /\ InitStakes \subseteq [Accounts -> Nat]
    /\ InitTokens \subseteq Nat
    /\ MaxPolls \in Nat
    /\ MaxHeight \in Nat

VARIABLES
    height,     \* env.block.height
    polls,      \* POLL: id -> poll
    votes,      \* PREFIXED_POLL_VOTE: <<id, account>> -> approve
    cast,       \* history: <<id, account>> -> weight the vote had when it was cast
    stake,      \* the staking contracts' stores: address -> account -> amount bonded
    tokens      \* the contract's balance in the cw20 token

ballots == <<polls, votes, cast>>
governanceVars == <<state, balance, height, ballots, stake, tokens>>

-----------------------------------------------------------------------------
(* Weights. *)

\* The sum of weights over some accounts, counted unit by unit.
WeightOf(weights, some) ==
    Cardinality(UNION {{account} \X (1..weights[account]) : account \in some})

StakingContract == state.loterra_staking_contract_address

\* Whether the query for holders is answered; if not, unwrap panics.
StakingAnswers == StakingContract \in StakingContracts

\* What the staking contract answers for one account.
UserTotalWeight(account) == stake[StakingContract][account]

Holders == {account \in Accounts : stake[StakingContract][account] > 0}

\* The first page of holders.
Page ==
    {account \in Holders :
        Cardinality({other \in Holders : HolderOrder[other] < HolderOrder[account]}) < PageLimit}

TotalWeight == WeightOf(stake[StakingContract], Page)

-----------------------------------------------------------------------------
(* Proposing. *)

WORKER_MAX_REWARD == 10

AsU8(amount) == amount % U8
AsU64(amount) == amount % U64

\* The largest percentage each kind of poll may propose.
MaxPercentage ==
    [HolderFeePercentage |-> HOLDERS_MAX_REWARD,
     DrandWorkerFeePercentage |-> WORKER_MAX_REWARD,
     JackpotRewardPercentage |-> 100]

\* Mutant of AcceptsPercentage: only the presence of the amount is checked.
AcceptsAnyPercentage(terms) ==
    terms.proposal \in PercentagePolls /\ terms.amount # None

AcceptsPercentage(terms) ==
    /\ terms.proposal \in PercentagePolls
    /\ terms.amount # None
    /\ AsU8(terms.amount) <= MaxPercentage[terms.proposal]

AcceptsAmount(terms) ==
    /\ terms.proposal \in {"LotteryEveryBlockTime", "AmountToRegister"}
    /\ terms.amount # None

\* Four numbers up to 100; a sum that does not fit a u8 panics.
AcceptsPrizes(terms) ==
    /\ terms.proposal = "PrizePerRank"
    /\ terms.prize_per_rank # None
    /\ terms.prize_per_rank \in PrizeSplits

\* Mutant of Privileged: the sender is not looked at.
AnyonePrivileged(sender) == TRUE

\* Money and the staking contract are the admin's to propose, until the admin
\* is the contract itself: then they are anyone's.
Privileged(sender) == state.admin \in {Contract, sender}

AcceptsMigration(sender, terms) ==
    /\ terms.proposal \in {"SecurityMigration", "StakingContractMigration"}
    /\ terms.recipient # None
    /\ Privileged(sender)

AcceptsFunding(sender, terms) ==
    /\ terms.proposal = "DaoFunding"
    /\ terms.amount # None
    /\ Privileged(sender)
    /\ terms.amount > 0
    /\ tokens > 0
    /\ terms.amount <= tokens

Accepts(sender, terms) ==
    \/ AcceptsPercentage(terms)
    \/ AcceptsAmount(terms)
    \/ AcceptsPrizes(terms)
    \/ AcceptsMigration(sender, terms)
    \/ AcceptsFunding(sender, terms)
    \/ terms.proposal = "PollSurvey"

\* A poll keeps of its terms what its kind needs.
NewPoll(sender, terms) ==
    [creator |-> sender,
     status |-> "InProgress",
     end_height |-> height + PollDefaultEndHeight,
     start_height |-> height,
     weight_yes_vote |-> 0,
     weight_no_vote |-> 0,
     yes_vote |-> 0,
     no_vote |-> 0,
     amount |->
        IF \/ AcceptsPercentage(terms)
           \/ AcceptsAmount(terms)
           \/ AcceptsFunding(sender, terms)
        THEN terms.amount ELSE 0,
     prize_rank |-> IF AcceptsPrizes(terms) THEN terms.prize_per_rank ELSE <<>>,
     proposal |-> terms.proposal,
     migration_address |->
        IF terms.proposal \in PrivilegedPolls THEN terms.recipient ELSE None]

HandleProposal(sender, terms) ==
    LET id == state.poll_count + 1
    IN  /\ id <= MaxPolls
        /\ height + PollDefaultEndHeight <= MaxHeight
        /\ Accepts(sender, terms)
        /\ polls' = Save(polls, id, NewPoll(sender, terms))
        /\ state' = [state EXCEPT !.poll_count = id]
        /\ UNCHANGED <<balance, height, votes, cast, stake, tokens>>

-----------------------------------------------------------------------------
(* Voting and withdrawing. *)

\* Mutant of HasVoted: a voter may change its mind.
NeverVoted(id, account) == FALSE

HasVoted(id, account) == <<id, account>> \in DOMAIN votes

\* Mutant of Tally: a no adds to the weight of yes.
TallyYes(poll, approve, weight) ==
    [poll EXCEPT !.yes_vote = @ + 1, !.weight_yes_vote = @ + weight]

Tally(poll, approve, weight) ==
    IF approve
    THEN [poll EXCEPT !.yes_vote = @ + 1, !.weight_yes_vote = @ + weight]
    ELSE [poll EXCEPT !.no_vote = @ + 1, !.weight_no_vote = @ + weight]

HandleVote(sender, id, approve) ==
    LET weight == UserTotalWeight(sender)
    IN  /\ id \in DOMAIN polls
        /\ height <= polls[id].end_height
        /\ polls[id].status = "InProgress"
        /\ ~HasVoted(id, sender)
        /\ StakingAnswers
        /\ weight > 0
        /\ votes' = Save(votes, <<id, sender>>, approve)
        /\ cast' = Save(cast, <<id, sender>>, weight)
        /\ polls' = [polls EXCEPT ![id] = Tally(@, approve, weight)]
        /\ UNCHANGED <<state, balance, height, stake, tokens>>

\* Mutant of HandleRejectProposal: a decided poll can be withdrawn.
RejectDecided(sender, id) ==
    /\ id \in DOMAIN polls
    /\ polls[id].end_height >= height
    /\ polls[id].creator = sender
    /\ polls' = [polls EXCEPT ![id].status = "RejectedByCreator",
                              ![id].end_height = height]
    /\ UNCHANGED <<state, balance, height, votes, cast, stake, tokens>>

HandleRejectProposal(sender, id) ==
    /\ id \in DOMAIN polls
    /\ polls[id].end_height >= height
    /\ polls[id].creator = sender
    /\ polls[id].status = "InProgress"
    /\ polls' = [polls EXCEPT ![id].status = "RejectedByCreator",
                              ![id].end_height = height]
    /\ UNCHANGED <<state, balance, height, votes, cast, stake, tokens>>

-----------------------------------------------------------------------------
(* Presenting. *)

PercentOf(part, whole) == (part * 100) \div whole

TotalVoteWeight(poll) == poll.weight_yes_vote + poll.weight_no_vote

YesWeightPercentage(poll) ==
    IF poll.weight_yes_vote = 0 THEN 0
    ELSE PercentOf(poll.weight_yes_vote, TotalVoteWeight(poll))

NoWeightPercentage(poll) ==
    IF poll.weight_no_vote = 0 THEN 0
    ELSE PercentOf(poll.weight_no_vote, TotalVoteWeight(poll))

\* Mutant of Quorate: half of the accounts is enough.
HalfTheHeads(poll) == 2 * (poll.yes_vote + poll.no_vote) >= Cardinality(Page)

\* Half of the bonded stake voted, so the poll need not run to its end.
Quorate(poll) == PercentOf(TotalVoteWeight(poll), TotalWeight) >= 50

\* Mutant of Ended: nobody may present a poll without quorum.
NeverEnded(poll) == FALSE

Ended(poll) == poll.end_height <= height

\* Mutant of Approved: heads are counted, not stakes.
ApprovedByHeads(poll) == poll.yes_vote > poll.no_vote

Approved(poll) ==
    YesWeightPercentage(poll) >= 50 /\ NoWeightPercentage(poll) <= 33

\* Mutant of Amended: the percentages of the worker and of the jackpot swapped.
AmendedSwapped(poll) ==
    CASE poll.proposal = "DrandWorkerFeePercentage" ->
            [state EXCEPT !.jackpot_percentage_reward = AsU8(poll.amount)]
      [] poll.proposal = "JackpotRewardPercentage" ->
            [state EXCEPT !.fee_for_drand_worker_in_percentage = AsU8(poll.amount)]
      [] OTHER -> state

\* Mutant of Amended: a new period moves the play that is due along.
AmendedRescheduled(poll) ==
    IF poll.proposal = "LotteryEveryBlockTime"
    THEN [state EXCEPT !.every_block_time_play = AsU64(poll.amount),
                       !.block_time_play = @ - state.every_block_time_play + AsU64(poll.amount)]
    ELSE state

\* The configuration a passed poll leaves.
Amended(poll) ==
    CASE poll.proposal = "LotteryEveryBlockTime" ->
            [state EXCEPT !.every_block_time_play = AsU64(poll.amount)]
      [] poll.proposal = "DrandWorkerFeePercentage" ->
            [state EXCEPT !.fee_for_drand_worker_in_percentage = AsU8(poll.amount)]
      [] poll.proposal = "JackpotRewardPercentage" ->
            [state EXCEPT !.jackpot_percentage_reward = AsU8(poll.amount)]
      [] poll.proposal = "AmountToRegister" ->
            [state EXCEPT !.price_per_ticket_to_register = poll.amount]
      [] poll.proposal = "PrizePerRank" ->
            [state EXCEPT !.prize_rank_winner_percentage = poll.prize_rank]
      [] poll.proposal = "HolderFeePercentage" ->
            [state EXCEPT !.token_holder_percentage_fee_reward = AsU8(poll.amount)]
      [] poll.proposal = "StakingContractMigration" ->
            [state EXCEPT !.loterra_staking_contract_address = poll.migration_address]
      [] OTHER -> state

\* Mutant of SendFunds: a security migration takes the tokens along.
SendEverything(poll) ==
    /\ balance' = IF poll.proposal = "SecurityMigration" THEN balance - Spend(balance) ELSE balance
    /\ tokens' = CASE poll.proposal = "DaoFunding" -> tokens - poll.amount
                   [] poll.proposal = "SecurityMigration" -> 0
                   [] OTHER -> tokens

\* The messages a passed poll sends: the whole balance to the migration address,
\* or tokens to the recipient.
SendFunds(poll) ==
    /\ balance' = IF poll.proposal = "SecurityMigration" THEN balance - Spend(balance) ELSE balance
    /\ tokens' = IF poll.proposal = "DaoFunding" THEN tokens - poll.amount ELSE tokens

\* What makes them fail, or the address unfit to be stored, and with them the call.
FundsSendable(poll) ==
    /\ poll.proposal \in PrivilegedPolls => poll.migration_address # Malformed
    /\ poll.proposal = "SecurityMigration" => Sendable(balance)

\* Mutant of Fundable: the tokens left are not looked at again.
AlwaysFundable(poll) == TRUE

\* Whether the tokens asked for are still there.
Fundable(poll) == poll.proposal = "DaoFunding" => poll.amount <= tokens

RejectProposal(id) ==
    /\ polls' = [polls EXCEPT ![id].status = "Rejected"]
    /\ UNCHANGED <<state, balance, tokens>>

HandlePresentProposal(id) ==
    /\ id \in DOMAIN polls
    /\ LET poll == polls[id]
       IN  /\ poll.status = "InProgress"
           /\ StakingAnswers
           /\ TotalWeight > 0
           /\ Quorate(poll) \/ Ended(poll)
           /\ \/ ~(Approved(poll) /\ Fundable(poll)) /\ RejectProposal(id)
              \/ /\ Approved(poll) /\ Fundable(poll)
                 /\ FundsSendable(poll)
                 /\ SendFunds(poll)
                 /\ state' = Amended(poll)
                 /\ polls' = [polls EXCEPT ![id].status = "Passed"]
    /\ UNCHANGED <<height, votes, cast, stake>>

-----------------------------------------------------------------------------
(* The chain, the staking contract and the specification. *)

NextHeight ==
    /\ height < MaxHeight
    /\ height' = height + 1
    /\ UNCHANGED <<state, balance, ballots, stake, tokens>>

\* An account bonds or unbonds at a staking contract.
Restake(address, account, amount) ==
    /\ stake' = [stake EXCEPT ![address][account] = amount]
    /\ UNCHANGED <<state, balance, height, ballots, tokens>>

\* A call of the contract that belongs to the DAO.
DaoCall ==
    \/ \E sender \in Accounts, terms \in PollMsgs : HandleProposal(sender, terms)
    \/ \E sender \in Accounts, id \in 1..MaxPolls, approve \in BOOLEAN :
           HandleVote(sender, id, approve)
    \/ \E sender \in Accounts, id \in 1..MaxPolls : HandleRejectProposal(sender, id)
    \/ \E id \in 1..MaxPolls : HandlePresentProposal(id)

GovernanceInit ==
    /\ StateInit
    /\ height = 0
    /\ polls = EmptyMap
    /\ votes = EmptyMap
    /\ cast = EmptyMap
    /\ \E weights \in InitStakes : stake = [address \in StakingContracts |-> weights]
    /\ tokens \in InitTokens

Ownership ==
    /\ \E sender \in Accounts : HandleSafeLock(sender) \/ HandleRenounce(sender)
    /\ UNCHANGED <<height, ballots, stake, tokens>>

Restaking ==
    \E address \in StakingContracts, account \in Accounts, amount \in Stakes :
        Restake(address, account, amount)

GovernanceNext == DaoCall \/ Ownership \/ Restaking \/ NextHeight

GovernanceSpec == GovernanceInit /\ [][GovernanceNext]_governanceVars

-----------------------------------------------------------------------------
(* Properties. *)

Poll ==
    [creator : Accounts,
     status : PollStatus,
     end_height : Nat,
     start_height : Nat,
     weight_yes_vote : Nat,
     weight_no_vote : Nat,
     yes_vote : Nat,
     no_vote : Nat,
     amount : Nat,
     prize_rank : PrizeSplits \cup {<<>>},
     proposal : Proposals \ {"NotExist"},
     migration_address : Recipients \cup {None}]

\* Every saved value has its type, polls are numbered without gaps, a vote
\* belongs to a poll, and the DAO never owes tokens it does not have.
GovernanceTypeOK ==
    /\ state \in State
    /\ balance \in Nat
    /\ height \in Nat
    /\ polls \in [1..state.poll_count -> Poll]
    /\ DOMAIN votes \subseteq (1..state.poll_count) \X Accounts
    /\ \A key \in DOMAIN votes : votes[key] \in BOOLEAN
    /\ cast \in [DOMAIN votes -> Nat \ {0}]
    /\ stake \in [StakingContracts -> [Accounts -> Nat]]
    /\ tokens \in Nat

\* The accounts that voted a poll yes, or no.
Voters(id, approve) ==
    {account \in Accounts : <<id, account>> \in DOMAIN votes /\ votes[<<id, account>>] = approve}

\* The stake they voted with, counted unit by unit.
CastUnits(id, some) == UNION {{account} \X (1..cast[<<id, account>>]) : account \in some}
CastWeight(id, approve) == Cardinality(CastUnits(id, Voters(id, approve)))

\* The running tallies of a poll are what a recount of its votes gives, each with
\* the stake its voter had when it was cast, whatever was bonded or unbonded since
\* (handle_vote).
TalliesMatchVotes ==
    \A id \in DOMAIN polls :
        /\ polls[id].yes_vote = Cardinality(Voters(id, TRUE))
        /\ polls[id].no_vote = Cardinality(Voters(id, FALSE))
        /\ polls[id].weight_yes_vote = CastWeight(id, TRUE)
        /\ polls[id].weight_no_vote = CastWeight(id, FALSE)

\* A poll that passed was carried by the stake of its voters and not by their
\* number: half of it said yes and at most a third no (handle_present_proposal,
\* "not reject votes based on the number of votes, but rather by the stake").
PassedByStake ==
    \A id \in DOMAIN polls :
        LET yes == CastWeight(id, TRUE)
            no == CastWeight(id, FALSE)
        IN  polls[id].status = "Passed" =>
                /\ yes > 0
                /\ yes >= no
                /\ 100 * no < 34 * (yes + no)

Passed(proposal) ==
    {id \in DOMAIN polls : polls[id].status = "Passed" /\ polls[id].proposal = proposal}

\* The amounts that passed polls of a kind put in force.
Voted(proposal) == {polls[id].amount : id \in Passed(proposal)}

\* No parameter of the lottery ever has a value but the one instantiate gave it
\* or one that a passed poll of its own kind proposed, cut to the field's width.
\* 20 is the holders' share that a play falls back to (handle_play).
ParametersWereVoted ==
    /\ state.every_block_time_play \in
           InitPlayEvery \cup {AsU64(a) : a \in Voted("LotteryEveryBlockTime")}
    /\ state.jackpot_percentage_reward \in
           {20} \cup {AsU8(a) : a \in Voted("JackpotRewardPercentage")}
    /\ state.fee_for_drand_worker_in_percentage \in
           {1} \cup {AsU8(a) : a \in Voted("DrandWorkerFeePercentage")}
    /\ state.token_holder_percentage_fee_reward \in
           {20, 50} \cup {AsU8(a) : a \in Voted("HolderFeePercentage")}
    /\ state.price_per_ticket_to_register \in
           {1000000} \cup Voted("AmountToRegister")
    /\ state.prize_rank_winner_percentage \in
           {<<87, 10, 2, 1>>} \cup {polls[id].prize_rank : id \in Passed("PrizePerRank")}
    /\ state.loterra_staking_contract_address \in
           StakingContracts
           \cup {polls[id].migration_address : id \in Passed("StakingContractMigration")}

\* However wide the amount of a poll, the percentage it leaves in the state is
\* within the bound of its kind: the fee a worker gets from a play never exceeds
\* the pot, and the holders' share never the prize (handle_proposal checks the
\* amount cut to a u8, handle_present_proposal cuts it again).
PercentagesBounded ==
    /\ state.fee_for_drand_worker_in_percentage <= WORKER_MAX_REWARD
    /\ state.jackpot_percentage_reward <= 100
    /\ state.token_holder_percentage_fee_reward \in 0..HOLDERS_MAX_REWARD \cup {50}

\* Until the owner renounced, only the owner's polls can move the contract's
\* money, its tokens or its staking contract, whoever passes them
\* (handle_proposal; handle_present_proposal does not look again).
OwnersPolls ==
    state.admin # Contract =>
        \A id \in DOMAIN polls : polls[id].proposal \in PrivilegedPolls =>
            polls[id].creator = Owner

\* A poll keeps its terms, a vote and its weight stay as they were cast, and a
\* decided poll is never decided again, counted again or voted on again.
PollsFinal ==
    [][\A id \in DOMAIN polls :
          /\ id \in DOMAIN polls'
          /\ \A field \in {"creator", "proposal", "amount", "prize_rank",
                           "migration_address", "start_height"} :
                 polls'[id][field] = polls[id][field]
          /\ polls[id].status # "InProgress" => polls'[id] = polls[id]
          /\ \A account \in Accounts :
                 LET key == <<id, account>>
                 IN  IF key \in DOMAIN votes
                     THEN votes'[key] = votes[key] /\ cast'[key] = cast[key]
                     ELSE polls[id].status # "InProgress" => key \notin DOMAIN votes'
      ]_governanceVars

\* The accounts that voted a poll.
AllVoters(id) == Voters(id, TRUE) \cup Voters(id, FALSE)

\* A poll is decided before its end only with the stake of its voters behind it:
\* what they have bonded at that moment is half of what the staking contract lists
\* or more, unless one of them has less bonded by then than it voted with. Votes
\* keep the weight they were cast with and the total is read anew, so nothing in one
\* call compares the two (handle_vote, handle_present_proposal).
EarlyDecisionsBacked ==
    [][\A id \in DOMAIN polls :
          /\ polls[id].status = "InProgress"
          /\ polls'[id].status \in {"Passed", "Rejected"}
          /\ height < polls[id].end_height
          => \/ 2 * WeightOf(stake[StakingContract], AllVoters(id)) >= TotalWeight
             \/ \E account \in AllVoters(id) :
                    stake[StakingContract][account] < cast[<<id, account>>]
      ]_governanceVars

\* The tokens the passed fundings gave away.
Funded == WeightOf([id \in DOMAIN polls |-> polls[id].amount], Passed("DaoFunding"))

\* The tokens of the contract and those of every funding that passed add up to what
\* it started with: a funding is paid in full and once, two fundings proposed on the
\* same tokens are not both paid out of them, and no other poll takes tokens along
\* (handle_proposal and handle_present_proposal read the token balance apart).
TokensAccounted == tokens + Funded \in InitTokens

-----------------------------------------------------------------------------
(* The polls implement the abstract referendum. *)

\* A poll's status, as the outcome of the referendum.
Outcome ==
    [id \in DOMAIN polls |->
        IF polls[id].status = "InProgress" THEN "open"
        ELSE IF polls[id].status = "Passed" THEN "passed" ELSE "failed"]

\* A vote and the weight it was cast with.
CastBallots == [key \in DOMAIN votes |-> [approve |-> votes[key], weight |-> cast[key]]]

Abstract ==
    INSTANCE Referendum WITH
        Electorate <- Accounts, Ids <- 1..MaxPolls, outcome <- Outcome, ballot <- CastBallots

\* The DAO's handlers implement the referendum: the tallies, the heights and the
\* early decision are only a way to settle each poll once and by its ballots.
ImplementsReferendum == Abstract!ReferendumSpec

-----------------------------------------------------------------------------
(* Liveness. *)

\* Blocks keep coming, and somebody presents a poll whenever that keeps being
\* possible.
GovernanceFairness ==
    /\ WF_governanceVars(NextHeight)
    /\ \A id \in 1..MaxPolls : SF_governanceVars(HandlePresentProposal(id))

FairGovernanceSpec == GovernanceSpec /\ GovernanceFairness

InProgress(id) == id \in DOMAIN polls /\ polls[id].status = "InProgress"

\* What refuses to settle a poll that ended: no staking contract answers, nobody has
\* anything bonded to divide by, or the chain refuses the message the poll won.
Stranded(id) ==
    \/ ~StakingAnswers
    \/ TotalWeight = 0
    \/ /\ InProgress(id)
       /\ Approved(polls[id]) /\ Fundable(polls[id]) /\ ~FundsSendable(polls[id])

\* Every poll is decided in the end, with or without votes, unless one of three
\* reasons holds for ever from some moment on: a poll before it moved the staking
\* contract to where nothing answers, nobody stakes any more, or it won and names a
\* recipient or a balance the chain refuses. A poll that lost is never stuck on its
\* message, nor any poll on how many voted, abstained or withdrew
\* (handle_present_proposal).
EndedPollsDecided ==
    \A id \in 1..MaxPolls :
        InProgress(id) ~> ~InProgress(id) \/ []Stranded(id)

=============================================================================
