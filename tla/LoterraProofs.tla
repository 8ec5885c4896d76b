---------------------------- MODULE LoterraProofs ----------------------------
(***************************************************************************)
(* Proofs about the whole contract: what is proved of the lottery alone    *)
(* and of the DAO alone, when the polls change the lottery's terms while   *)
(* it goes on. To the lottery a step is one of its own (QuietLottery,      *)
(* PlayStep), or a poll that leaves it all but its terms and money         *)
(* (PollStep). To the DAO it is one of its own, or a call of the lottery   *)
(* that leaves the polls and votes (DaoQuiet). Last, where the money goes. *)
(***************************************************************************)
EXTENDS Loterra, LotteryPrizeProofs, GovernanceProofs

-----------------------------------------------------------------------------
(* Steps of the contract. *)

LEMMA MessageParts ==
    ASSUME NEW msg \in ExecuteMsg
    PROVE  /\ msg.msg = "Register" =>
                  msg.address \in Accounts \cup {None} /\ msg.combination \in Batches
           /\ msg.msg = "Claim" => msg.addresses \in ClaimLists \cup {None}
           /\ msg.msg = "Collect" => msg.address \in Accounts \cup {None}
           /\ msg.msg = "Poll" => msg.terms \in PollMsgs
           /\ msg.msg = "Vote" => msg.poll_id \in 1..MaxPolls /\ msg.approve \in BOOLEAN
           /\ msg.msg \in {"PresentPoll", "RejectPoll"} => msg.poll_id \in 1..MaxPolls
BY DEF ExecuteMsg

\* A step of the lottery that does not settle one: nothing befalls its terms.
QuietLottery ==
    /\ [LotteryNext]_lotteryVars
    /\ LastLottery' = LastLottery
    /\ state'.every_block_time_play = state.every_block_time_play
    /\ state'.block_time_play = state.block_time_play
    /\ incidents' = incidents

\* A play, with the incident of a pot of more than half of the balance.
PlayStep ==
    /\ HandlePlay
    /\ incidents \subseteq incidents'
    /\ state.jackpot_percentage_reward > 50 => <<CurrentLottery, "pot">> \in incidents'

\* No poll touches the owner or the switch.
AccessKept == state'.admin = state.admin /\ state'.safe_lock = state.safe_lock

\* A poll that moves the contract's money passes.
Migrating ==
    \E id \in DOMAIN polls :
        /\ polls[id].proposal = "SecurityMigration"
        /\ polls[id].status = "InProgress" /\ polls'[id].status = "Passed"

\* A poll is proposed or presented: the lottery keeps all but its terms and money,
\* and what changes under the winners of the last lottery is recorded.
PollStep ==
    /\ UNCHANGED <<now, storage, winning, jackpot, winner, rank, paid, randomness>>
    /\ state' \in State /\ balance' \in Nat
    /\ state'.lottery_counter = state.lottery_counter
    /\ state'.block_time_play = state.block_time_play
    /\ AccessKept
    /\ reopened \subseteq reopened' /\ reopened' \subseteq 1..LastLottery
    /\ \/ reopened' = reopened
       \/ PaidWinners(LastLottery) # {} /\ reopened' = reopened \cup {LastLottery}
    /\ incidents \subseteq incidents'
    /\ \/ state'.prize_rank_winner_percentage = state.prize_rank_winner_percentage
       \/ PaidWinners(LastLottery) = {}
       \/ LastLottery \in reopened'
    /\ \/ state'.every_block_time_play = state.every_block_time_play
       \/ <<LastLottery, "period">> \in incidents'
    /\ \/ balance' = balance
       \/ <<LastLottery, "migration">> \in incidents' /\ Migrating

LEMMA QuietState ==
    ASSUME TypeOK, AdminCall \/ Environment \/ UNCHANGED lotteryVars
    PROVE  /\ state'.every_block_time_play = state.every_block_time_play
           /\ state'.block_time_play = state.block_time_play
<1>1. state \in State
  BY DEF TypeOK
<1>2. \/ state' = state
      \/ \E locked : state' = [state EXCEPT !.safe_lock = locked]
      \/ \E admin : state' = [state EXCEPT !.admin = admin]
  BY DEF AdminCall, HandleSafeLock, HandleRenounce, Environment, NextBlock,
         AddRandomness, Donate, lotteryVars
<1>. QED
  BY <1>1, <1>2 DEF State

LEMMA QuietCases ==
    ASSUME TypeOK, incidents' = incidents,
           \/ \E player \in Accounts, combination \in Batches : HandleRegister(player, combination)
           \/ \E addresses \in SUBSET Accounts : HandleClaim(addresses)
           \/ \E player \in Accounts : HandleCollect(player)
           \/ AdminCall \/ Environment \/ UNCHANGED lotteryVars
    PROVE  QuietLottery
<1>1. CASE AdminCall \/ Environment \/ UNCHANGED lotteryVars
  BY <1>1, OtherKeeps, QuietState DEF QuietLottery, LotteryNext
<1>2. CASE \/ \E player \in Accounts, combination \in Batches : HandleRegister(player, combination)
           \/ \E addresses \in SUBSET Accounts : HandleClaim(addresses)
           \/ \E player \in Accounts : HandleCollect(player)
  <2>1. state' = state
    BY <1>2 DEF HandleRegister, HandleClaim, HandleCollect, Collectable
  <2>. QED
    BY <1>2, <2>1 DEF QuietLottery, LotteryNext, LotteryCall, LastLottery
<1>. QED
  BY <1>1, <1>2

\* An optional address or list of addresses names accounts.
LEMMA OptionalAddresses ==
    ASSUME NEW sender \in Accounts
    PROVE  /\ \A address \in Accounts \cup {None} : AddressOr(sender, address) \in Accounts
           /\ \A addresses \in ClaimLists \cup {None} :
                  AddressesOr(sender, addresses) \in SUBSET Accounts
<1>1. ASSUME NEW address \in Accounts \cup {None} PROVE AddressOr(sender, address) \in Accounts
  BY <1>1 DEF AddressOr
<1>2. ASSUME NEW addresses \in ClaimLists \cup {None}
      PROVE  AddressesOr(sender, addresses) \in SUBSET Accounts
  <2>1. CASE addresses = None
    <3>1. AddressesOr(sender, addresses) = {sender}
      BY <2>1 DEF AddressesOr
    <3>. QED
      BY <3>1
  <2>2. CASE addresses # None
    <3>1. addresses \in Seq(Accounts)
      BY <1>2, <2>2, LoterraAssumption
    <3>2. AddressesOr(sender, addresses) = {addresses[i] : i \in DOMAIN addresses}
      BY <2>2 DEF AddressesOr
    <3>. QED
      BY <3>1, <3>2
  <2>. QED
    BY <2>1, <2>2
<1>. QED
  BY <1>1, <1>2


\* The lottery's own messages.
LEMMA LotteryMessage ==
    ASSUME TypeOK, NEW sender \in Accounts, NEW msg \in ExecuteMsg, ExecuteLottery(sender, msg)
    PROVE  QuietLottery
<1>1. incidents' = incidents
  BY DEF ExecuteLottery
<1>2. CASE msg.msg = "Register" /\ HandleRegister(AddressOr(sender, msg.address), msg.combination)
  BY <1>1, <1>2, MessageParts, OptionalAddresses, QuietCases
<1>3. CASE msg.msg = "Claim" /\ HandleClaim(AddressesOr(sender, msg.addresses))
  BY <1>1, <1>3, MessageParts, OptionalAddresses, QuietCases
<1>4. CASE msg.msg = "Collect" /\ HandleCollect(AddressOr(sender, msg.address))
  BY <1>1, <1>4, MessageParts, OptionalAddresses, QuietCases
<1>. QED
  BY <1>2, <1>3, <1>4 DEF ExecuteLottery

LEMMA AdminMessage ==
    ASSUME TypeOK, NEW sender \in Accounts, NEW msg \in ExecuteMsg, ExecuteAdmin(sender, msg)
    PROVE  QuietLottery
<1>1. AdminCall /\ incidents' = incidents
  BY DEF ExecuteAdmin, AdminCall
<1>. QED
  BY <1>1, QuietCases

\* Proposing leaves the terms and the money of the lottery.
LEMMA ProposalIsPollStep ==
    ASSUME TypeOK, DaoInv, NEW sender \in Accounts, NEW terms \in PollMsgs,
           HandleProposal(sender, terms),
           UNCHANGED <<now, storage, prizes, randomness, incidents>>
    PROVE  PollStep
<1>1. state' \in State /\ balance' \in Nat
  BY DaoProposal DEF DaoInv, GovernanceTypeOK
<1>2. ParametersKept /\ balance' = balance
  BY ProposalAdds
<1>3. /\ state'.lottery_counter = state.lottery_counter
      /\ state'.block_time_play = state.block_time_play
      /\ AccessKept
  <2>1. state \in State /\ \E n : state' = [state EXCEPT !.poll_count = n]
    BY DEF HandleProposal, TypeOK
  <2>. QED
    BY <2>1 DEF State, AccessKept
<1>4. reopened \subseteq 1..LastLottery
  BY DEF TypeOK
<1>. QED
  BY <1>1, <1>2, <1>3, <1>4 DEF PollStep, ParametersKept, prizes

\* Voting and rejecting concern the polls alone.
LEMMA BallotMessage ==
    ASSUME TypeOK, DaoInv, NEW sender \in Accounts, NEW msg \in ExecuteMsg, ExecuteDao(sender, msg)
    PROVE  QuietLottery \/ PollStep
<1>1. UNCHANGED <<now, storage, prizes, randomness, incidents>>
  BY DEF ExecuteDao
<1>2. CASE msg.msg = "Poll" /\ HandleProposal(sender, msg.terms)
  BY <1>1, <1>2, MessageParts, ProposalIsPollStep
<1>3. CASE UNCHANGED <<state, balance>>
  BY <1>1, <1>3, QuietCases DEF lotteryVars
<1>. QED
  BY <1>2, <1>3 DEF ExecuteDao, HandleVote, HandleRejectProposal

\* A presented poll is recorded by what it changes.
LEMMA PresentMessage ==
    ASSUME TypeOK, DaoInv, NEW sender \in Accounts, NEW msg \in ExecuteMsg,
           ExecutePresent(sender, msg)
    PROVE  PollStep
<1>1. HandlePresentProposal(msg.poll_id)
  BY DEF ExecutePresent
<1>2. DaoInv' /\ PollsLeaveAlone(state')
  BY <1>1, DaoPresent
<1>3. /\ state' \in State /\ balance' \in Nat
      /\ state'.lottery_counter = state.lottery_counter
      /\ state'.block_time_play = state.block_time_play
      /\ AccessKept
  BY <1>2 DEF DaoInv, GovernanceTypeOK, PollsLeaveAlone, AccessKept
<1>4. UNCHANGED <<now, storage, winning, jackpot, winner, rank, paid, randomness>>
  BY DEF ExecutePresent
<1> DEFINE changed == state'.prize_rank_winner_percentage # state.prize_rank_winner_percentage
<1>5. Reopen(changed)
  BY DEF ExecutePresent
<1>6. PaidWinners(LastLottery) # {} => LastLottery \in 1..LastLottery
  BY DEF TypeOK, PaidWinners, Winners
<1>7. reopened \subseteq 1..LastLottery
  BY DEF TypeOK
<1>8. /\ reopened \subseteq reopened' /\ reopened' \subseteq 1..LastLottery
      /\ \/ reopened' = reopened
         \/ PaidWinners(LastLottery) # {} /\ reopened' = reopened \cup {LastLottery}
      /\ ~changed \/ PaidWinners(LastLottery) = {} \/ LastLottery \in reopened'
  BY <1>5, <1>6, <1>7 DEF Reopen
<1>9. /\ incidents \subseteq incidents'
      /\ state'.every_block_time_play = state.every_block_time_play
            \/ <<LastLottery, "period">> \in incidents'
      /\ balance' = balance \/ <<LastLottery, "migration">> \in incidents'
  BY DEF ExecutePresent, Record, Incidents
<1>10. balance' = balance \/ Migrating
  BY <1>1, PresentMoves DEF Migrating
<1>. QED
  BY <1>3, <1>4, <1>8, <1>9, <1>10 DEF PollStep

LEMMA LoterraCases ==
    ASSUME TypeOK, DaoInv, [LoterraNext]_loterraVars
    PROVE  QuietLottery \/ PlayStep \/ PollStep
<1>1. ASSUME NEW sender \in Accounts, NEW msg \in ExecuteMsg, Execute(sender, msg)
      PROVE  QuietLottery \/ PlayStep \/ PollStep
  <2>1. ExecutePlay(sender, msg) => PlayStep
    BY DEF ExecutePlay, PlayStep
  <2>. QED
    BY <1>1, <2>1, LotteryMessage, AdminMessage, BallotMessage, PresentMessage DEF Execute
<1>2. CASE Blocks
  <2>1. PICK interval \in BlockIntervals : Block(interval)
    BY <1>2 DEF Blocks
  <2>2. NextBlock(interval) /\ incidents' = incidents
    BY <2>1 DEF Block, NextBlock
  <2>. QED
    BY <2>2, QuietCases DEF Environment
<1>3. CASE Worker \/ Donors
  BY <1>3, QuietCases DEF Worker, Donors, Environment
<1>4. CASE Stakers \/ UNCHANGED loterraVars
  <2>1. UNCHANGED lotteryVars /\ incidents' = incidents
    BY <1>4 DEF Stakers, Restaking, Restake, loterraVars, lotteryVars
  <2>. QED
    BY <2>1, QuietCases
<1>. QED
  BY <1>1, <1>2, <1>3, <1>4 DEF LoterraNext


-----------------------------------------------------------------------------
(* Type correctness. *)

LEMMA TypePoll == ASSUME TypeOK, PollStep PROVE TypeOK' /\ LastLottery' = LastLottery
<1>1. CurrentLottery' = CurrentLottery /\ LastLottery' = LastLottery
  BY DEF PollStep, CurrentLottery, LastLottery
<1>2. /\ state' \in State /\ balance' \in Nat /\ reopened' \subseteq 1..LastLottery'
      /\ UNCHANGED <<now, storage, winning, jackpot, winner, rank, paid, randomness>>
  BY <1>1 DEF PollStep
<1>3. Keys' = Keys /\ RankKeys' = RankKeys
  BY <1>1 DEF Keys, RankKeys
<1>. QED
  BY <1>1, <1>2, <1>3 DEF TypeOK, storage

\* A step of the lottery, as the DAO sees it: nothing it keeps but the holders'
\* share, which a play brings back to 20 percent.
DaoQuiet ==
    /\ UNCHANGED <<height, ballots, stake, tokens>>
    /\ state'.poll_count = state.poll_count
    /\ state'.admin = state.admin
    /\ state'.every_block_time_play = state.every_block_time_play
    /\ state'.jackpot_percentage_reward = state.jackpot_percentage_reward
    /\ state'.fee_for_drand_worker_in_percentage = state.fee_for_drand_worker_in_percentage
    /\ state'.token_holder_percentage_fee_reward \in
           {state.token_holder_percentage_fee_reward, 20}
    /\ state'.price_per_ticket_to_register = state.price_per_ticket_to_register
    /\ state'.prize_rank_winner_percentage = state.prize_rank_winner_percentage
    /\ state'.loterra_staking_contract_address = state.loterra_staking_contract_address

LEMMA DaoQuietPlay == ASSUME TypeOK, HandlePlay, UNCHANGED daoVars PROVE DaoQuiet
<1>1. PICK time, fee :
          /\ fee \in {state.token_holder_percentage_fee_reward, 20}
          /\ state' = [state EXCEPT !.block_time_play = time,
                                    !.token_holder_percentage_fee_reward = fee,
                                    !.lottery_counter = @ + 1]
  BY DEF HandlePlay, HoldersFeeAtPlay
<1>. QED
  BY <1>1 DEF DaoQuiet, daoVars, TypeOK, State

\* A step of the contract is one of the DAO alone, or leaves it alone.
LEMMA DaoParts ==
    ASSUME TypeOK, [LoterraNext]_loterraVars
    PROVE  [GovernanceNext]_governanceVars \/ DaoQuiet
<1>1. UNCHANGED daoVars /\ state' = state => DaoQuiet
  BY DEF DaoQuiet, daoVars
<1>2. ASSUME NEW sender \in Accounts, NEW msg \in ExecuteMsg, Execute(sender, msg)
      PROVE  GovernanceNext \/ DaoQuiet
  <2>1. CASE ExecuteLottery(sender, msg)
    BY <1>1, <2>1 DEF ExecuteLottery, HandleRegister, HandleClaim, HandleCollect, Collectable
  <2>2. CASE ExecutePlay(sender, msg)
    BY <2>2, DaoQuietPlay DEF ExecutePlay
  <2>3. CASE ExecuteAdmin(sender, msg)
    BY <2>3 DEF ExecuteAdmin, GovernanceNext, Ownership, daoVars
  <2>4. CASE ExecuteDao(sender, msg)
    BY <2>4, MessageParts DEF ExecuteDao, GovernanceNext, DaoCall
  <2>5. CASE ExecutePresent(sender, msg)
    BY <2>5, MessageParts DEF ExecutePresent, GovernanceNext, DaoCall
  <2>. QED
    BY <1>2, <2>1, <2>2, <2>3, <2>4, <2>5 DEF Execute
<1>3. CASE Blocks
  BY <1>3 DEF Blocks, Block, NextHeight, GovernanceNext
<1>4. CASE Worker \/ Donors
  BY <1>1, <1>4 DEF Worker, Donors, AddRandomness, Donate
<1>5. CASE Stakers
  BY <1>5 DEF Stakers, GovernanceNext
<1>6. CASE UNCHANGED loterraVars
  BY <1>1, <1>6 DEF loterraVars, lotteryVars
<1>. QED
  BY <1>2, <1>3, <1>4, <1>5, <1>6 DEF LoterraNext

\* The lottery's steps concern the DAO's configuration only where they are its own.
LEMMA DaoCallsKept ==
    ASSUME TypeOK, TypeOK', DaoInv, [LoterraNext]_loterraVars
    PROVE  DaoInv'
<1>1. CASE [GovernanceNext]_governanceVars
  BY <1>1, DaoStep
<1>2. CASE DaoQuiet
  <2>1. UNCHANGED <<height, polls, votes, cast, stake, tokens>>
    BY <1>2 DEF DaoQuiet, ballots
  <2>2. state' \in State /\ balance' \in Nat /\ state'.poll_count = state.poll_count
    BY <1>2 DEF TypeOK, DaoQuiet
  <2>. QED
    BY <2>1, <2>2 DEF DaoInv, GovernanceTypeOK, PollsSound
<1>. QED
  BY <1>1, <1>2, DaoParts

LEMMA PlayIsLotteryStep == PlayStep => [LotteryNext]_lotteryVars
BY DEF PlayStep, LotteryNext, LotteryCall

LEMMA LoterraTypeStep ==
    TypeOK /\ DaoInv /\ [LoterraNext]_loterraVars => TypeOK' /\ DaoInv'
<1>1. ASSUME TypeOK, DaoInv, [LoterraNext]_loterraVars PROVE TypeOK'
  BY <1>1, LoterraCases, PlayIsLotteryStep, TypeStep, TypePoll DEF QuietLottery
<1>. QED
  BY <1>1, DaoCallsKept

\* Every saved value of the lottery and of the DAO keeps its type when both run
\* on one State, for any accounts, terms, stakes and block times.
THEOREM LoterraTypeCorrect == LoterraSpec => [](TypeOK /\ DaoInv)
<1>1. LoterraInit => TypeOK /\ DaoInv
  BY TypeInit, DaoInit DEF LoterraInit
<1>. QED
  BY <1>1, LoterraTypeStep, PTL DEF LoterraSpec

-----------------------------------------------------------------------------
(* The lottery's invariant under the polls. *)

LEMMA RankPoll ==
    ASSUME TypeOK, RankCountsTickets, PollStep PROVE RankCountsTickets'
<1>1. LastLottery' = LastLottery
  BY TypePoll
<1>. QED
  BY <1>1, RankMeaning DEF PollStep, storage

\* A new split either leaves nothing to account for, or nobody was paid yet.
LEMMA AccountedPoll ==
    ASSUME TypeOK, TypeOK', PaidAccounted, PollStep PROVE PaidAccounted'
<1> DEFINE n == LastLottery
           before == state.prize_rank_winner_percentage
           after == state'.prize_rank_winner_percentage
<1>1. LastLottery' = n /\ n \in Nat
  BY TypePoll, StateFields DEF LastLottery
<1>2. SUFFICES ASSUME n > 0, n \notin reopened'
               PROVE  Accounted(tickets', winning', jackpot', winner', rank', after, n, paid')
  BY <1>1, AccountedMeaning
<1>3. n \notin reopened /\ n \in 1..n
  BY <1>1, <1>2 DEF PollStep
<1>4. /\ UNCHANGED <<tickets, winning, jackpot, winner, rank, paid>>
  BY DEF PollStep, storage
<1>5. Accounted(tickets, winning, jackpot, winner, rank, before, n, paid)
  BY <1>2, <1>3, AccountedMeaning
<1>6. CASE after = before
  BY <1>4, <1>5, <1>6
<1>7. CASE after # before
  <2>1. PaidAt(winner, n) = {}
    <3>1. PaidWinners(n) = {}
      BY <1>2, <1>7 DEF PollStep
    <3>. QED
      BY <3>1 DEF PaidAt, WinnersAt, PaidWinners, Winners
  <2>2. /\ jackpot[n] \in Nat /\ before \in PrizeSplits /\ after \in PrizeSplits
        /\ \A key \in DOMAIN rank : rank[key] \in Nat
    BY <1>3 DEF TypeOK, State
  <2> HIDE DEF before, after, n
  <2>3. /\ \A r \in Ranks : ShareAt(jackpot[n], MayLoad(rank, <<n, r>>, 0), before[r]) \in Nat
        /\ \A r \in Ranks : ShareAt(jackpot[n], MayLoad(rank, <<n, r>>, 0), after[r]) \in Nat
    BY <2>2, SharesTypeAt
  <2>4. paid[n] = 0
    BY <1>5, <2>1, <2>3, NoneFromAccounted
  <2>5. Accounted(tickets, winning, jackpot, winner, rank, after, n, paid)
    BY <2>1, <2>3, <2>4, AccountedFromNone
  <2>. QED
    BY <1>4, <2>5
<1>. QED
  BY <1>6, <1>7

LEMMA WithinPoll ==
    ASSUME TypeOK, PaidWithinJackpot, PollStep PROVE PaidWithinJackpot'
<1>1. LastLottery' = LastLottery
  BY TypePoll
<1>. QED
  BY <1>1 DEF PaidWithinJackpot, PollStep

-----------------------------------------------------------------------------
(* CoverUnderPolls. *)

\* A play leaves the jackpot it sets aside, and twice as much or is recorded.
LEMMA CoverPlay ==
    ASSUME TypeOK, TypeOK', PlayStep PROVE CoverUnderPolls'
<1>1. HandlePlay /\ LastLottery' = CurrentLottery
  BY PlayAdvances DEF PlayStep
<1>2. paid'[CurrentLottery] = 0 /\ jackpot'[CurrentLottery] = Pot - WorkerFee
  BY <1>1 DEF HandlePlay, Save
<1>3. balance' \in Nat
  BY DEF TypeOK
<1>4. balance' >= Pot - WorkerFee
  <2>1. balance \in Nat /\ Pot \in 0..balance /\ WorkerFee \in 0..Pot
    BY StateFields, PotBounds
  <2>2. Pot \in Nat /\ WorkerFee \in Nat
    BY <2>1
  <2>3. Spend(WorkerFee) \in 0..WorkerFee
    BY <2>2, SpendBounds
  <2>4. balance' = balance - Spend(WorkerFee)
    BY <1>1 DEF HandlePlay
  <2>. QED
    BY <2>1, <2>2, <2>3, <2>4
<1>5. ~(<<LastLottery', "pot">> \in incidents') => balance' >= 2 * (Pot - WorkerFee)
  <2> SUFFICES ASSUME ~(<<LastLottery', "pot">> \in incidents')
               PROVE  balance' >= 2 * (Pot - WorkerFee)
    OBVIOUS
  <2>1. JackpotAtMostHalf
    BY <1>1, StateFields DEF PlayStep, JackpotAtMostHalf
  <2>. QED
    BY <1>1, <2>1, PlayLeavesTwice
<1>. QED
  BY <1>1, <1>2, <1>3, <1>4, <1>5 DEF CoverUnderPolls, Befell

\* The other steps of the lottery take nothing that is not accounted as paid.
LEMMA CoverQuiet ==
    ASSUME TypeOK, TypeOK', CoverUnderPolls, QuietLottery PROVE CoverUnderPolls'
<1> DEFINE n == LastLottery
<1>1. LastLottery' = n /\ incidents' = incidents /\ n \in Nat
  BY StateFields DEF QuietLottery, LastLottery
<1> SUFFICES ASSUME n > 0, n \notin reopened', ~Befell({"migration"})
             PROVE  /\ balance' + paid'[n] >= jackpot'[n]
                    /\ ~Befell({"pot"}) => balance' + paid'[n] >= 2 * jackpot'[n]
  BY <1>1 DEF CoverUnderPolls, Befell
<1>2. ~HandlePlay
  <2>1. n # CurrentLottery
    BY StateFields DEF LastLottery, CurrentLottery
  <2>. QED
    BY <1>1, <2>1, PlayAdvances
<1>3. /\ UNCHANGED jackpot
      /\ balance' + paid'[n] >= balance + paid[n]
  BY <1>1, <1>2, FundsKept DEF QuietLottery
<1>4. n \in 1..n /\ n \notin reopened
  BY <1>1, StepOfLotteries DEF QuietLottery
<1>5. /\ balance \in Nat /\ paid[n] \in Nat /\ jackpot[n] \in Nat
      /\ balance' \in Nat /\ paid'[n] \in Nat
  BY <1>1, <1>4 DEF TypeOK
<1>6. /\ balance + paid[n] >= jackpot[n]
      /\ ~Befell({"pot"}) => balance + paid[n] >= 2 * jackpot[n]
  BY <1>4 DEF CoverUnderPolls
<1>. QED
  BY <1>3, <1>5, <1>6

\* A poll keeps the balance, or is recorded as a migration.
LEMMA CoverPoll ==
    ASSUME TypeOK, CoverUnderPolls, PollStep PROVE CoverUnderPolls'
<1>1. LastLottery' = LastLottery
  BY TypePoll
<1>. QED
  BY <1>1 DEF CoverUnderPolls, Befell, PollStep

LEMMA CoverStep ==
    TypeOK /\ TypeOK' /\ DaoInv /\ CoverUnderPolls /\ [LoterraNext]_loterraVars
        => CoverUnderPolls'
BY LoterraCases, CoverPlay, CoverQuiet, CoverPoll

-----------------------------------------------------------------------------
(* The whole inductive invariant. *)

LEMMA LoterraInvInit == LoterraInit => LoterraInv
<1> SUFFICES ASSUME LoterraInit PROVE LoterraInv
  OBVIOUS
<1>1. LotteryInit
  BY DEF LoterraInit
<1>2. LastLottery = 0
  BY <1>1 DEF LotteryInit, StateInit, Instantiated, LastLottery
<1>3. PaidWithinJackpot /\ CoverUnderPolls
  BY <1>2 DEF PaidWithinJackpot, CoverUnderPolls
<1>. QED
  BY <1>1, <1>3, TypeInit, RankInit, AccountedInit DEF LoterraInv

LEMMA LoterraInvStep ==
    LoterraInv /\ DaoInv /\ [LoterraNext]_loterraVars => LoterraInv'
<1> SUFFICES ASSUME LoterraInv, DaoInv, [LoterraNext]_loterraVars
             PROVE  LoterraInv'
  OBVIOUS
<1>1. /\ TypeOK /\ RankCountsTickets /\ PaidWithinJackpot /\ PaidAccounted
      /\ CoverUnderPolls
  BY DEF LoterraInv
<1>2. TypeOK'
  BY <1>1, LoterraTypeStep
<1>3. CoverUnderPolls'
  BY <1>1, <1>2, CoverStep
<1>4. CASE [LotteryNext]_lotteryVars
  <2>1. RankCountsTickets'
    BY <1>1, <1>4, RankStep
  <2>2. PaidAccounted'
    BY <1>1, <1>2, <1>4, AccountedStep
  <2>3. PaidWithinJackpot'
    BY <1>1, <1>2, <1>4, <2>1, <2>2, WithinStep
  <2>. QED
    BY <1>2, <1>3, <2>1, <2>2, <2>3 DEF LoterraInv
<1>5. CASE PollStep
  BY <1>1, <1>2, <1>3, <1>5, RankPoll, AccountedPoll, WithinPoll DEF LoterraInv
<1>. QED
  BY <1>1, <1>4, <1>5, LoterraCases, PlayIsLotteryStep DEF QuietLottery

\* Under any polls the DAO passes and in any order with the players' calls, the
\* ranks count the winning tickets, what is paid is one share for each winning
\* ticket collected and stays within the jackpot, and the contract keeps the
\* jackpot less what it paid, twice the jackpot where no play set aside more than
\* half of the balance, until a migration or a split changed after a payment.
THEOREM LoterraInvariant == LoterraSpec => []LoterraInv
<1>. QED
  BY LoterraInvInit, LoterraInvStep, LoterraTypeCorrect, PTL DEF LoterraSpec

-----------------------------------------------------------------------------
(* WinnersCovered. *)

\* What was paid and what a winner still unpaid is owed are within the jackpot:
\* the tickets of the paid winners and its own are among the tickets counted.
LEMMA UnpaidWithin ==
    ASSUME NEW entries, NEW results, NEW pots, NEW wins, NEW counts, NEW split, NEW last,
           NEW handed,
           Accounted(entries, results, pots, wins, counts, split, last, handed),
           RanksFit(entries, results, wins, counts, last),
           last \in 1..last, pots[last] \in Nat, split \in PrizeSplits,
           \A player \in WinnersAt(wins, last) : entries[<<last, player>>] \in Seq(Strings),
           \A key \in DOMAIN counts : counts[key] \in Nat,
           NEW player \in WinnersAt(wins, last), player \notin PaidAt(wins, last)
    PROVE  handed[last]
           + (wins[<<last, player>>].ranks[1]
                  * ShareAt(pots[last], MayLoad(counts, <<last, 1>>, 0), split[1])
              + wins[<<last, player>>].ranks[2]
                  * ShareAt(pots[last], MayLoad(counts, <<last, 2>>, 0), split[2])
              + wins[<<last, player>>].ranks[3]
                  * ShareAt(pots[last], MayLoad(counts, <<last, 3>>, 0), split[3])
              + wins[<<last, player>>].ranks[4]
                  * ShareAt(pots[last], MayLoad(counts, <<last, 4>>, 0), split[4]))
           <= pots[last]
<1> DEFINE slots(some, r) == Cardinality(SlotsAt(entries, results[last], last, some, r))
           before == PaidAt(wins, last)
           count == [r \in Ranks |-> slots(WinnersAt(wins, last), r)]
           some == [r \in Ranks |-> slots(before \cup {player}, r)]
           share(r) == ShareAt(pots[last], MayLoad(counts, <<last, r>>, 0), split[r])
           own(r) == wins[<<last, player>>].ranks[r]
           given(r) == GivenAt(entries, results, pots, wins, counts, split, last, r)
<1>1. /\ WinnersAt(wins, last) \in SUBSET Accounts
      /\ before \in SUBSET Accounts /\ {player} \in SUBSET Accounts
      /\ before \cup {player} \in SUBSET WinnersAt(wins, last)
      /\ before \cup {player} \in SUBSET Accounts
      /\ before \cap {player} = {}
      /\ <<last, player>> \in DOMAIN wins
  BY DEF WinnersAt, PaidAt
<1>2. \A r \in Ranks : share(r) \in Nat
  BY SharesTypeAt
<1>3. ASSUME NEW r \in Ranks
      PROVE  /\ slots(WinnersAt(wins, last), r) \in Nat
             /\ slots(before \cup {player}, r) \in Nat
             /\ slots(before, r) \in Nat
             /\ slots(before \cup {player}, r) <= slots(WinnersAt(wins, last), r)
  BY <1>1, SlotsAtFinite, SlotsAtSubset
<1>4. ASSUME NEW r \in Ranks
      PROVE  /\ own(r) \in Nat
             /\ slots(before \cup {player}, r) = slots(before, r) + own(r)
  <2>1. slots(before \cup {player}, r) = slots(before, r) + slots({player}, r)
    BY <1>1, SlotsAtUnion
  <2>2. slots({player}, r) = Cardinality(TicketsAt(entries, results[last], last, player, r))
    BY <1>1, SlotsAtOfOne
  <2>3. wins[<<last, player>>].ranks = RanksAt(entries, results[last], last, player)
    BY <1>1 DEF RanksFit
  <2>4. own(r) = slots({player}, r)
    BY <2>2, <2>3 DEF RanksAt
  <2>5. slots({player}, r) \in Nat
    BY <1>1, SlotsAtFinite
  <2>. QED
    BY <2>1, <2>4, <2>5
<1>5. ASSUME NEW r \in Ranks
      PROVE  /\ given(r) \in Nat /\ own(r) * share(r) \in Nat
             /\ MayLoad(counts, <<last, r>>, 0) = slots(WinnersAt(wins, last), r)
             /\ slots(before \cup {player}, r) * share(r) = given(r) + own(r) * share(r)
  <2>1. MayLoad(counts, <<last, r>>, 0) = slots(WinnersAt(wins, last), r)
    BY DEF RanksFit
  <2>2. given(r) = slots(before, r) * share(r)
    BY DEF GivenAt
  <2>3. share(r) \in Nat
    BY <1>2
  <2>4. \A a, b, c \in Nat : a * c \in Nat /\ b * c \in Nat /\ (a + b) * c = a * c + b * c
    OBVIOUS
  <2>5. /\ slots(before, r) \in Nat /\ own(r) \in Nat
        /\ slots(before \cup {player}, r) = slots(before, r) + own(r)
    BY <1>3, <1>4
  <2> HIDE DEF slots, share, own, given, before
  <2>. QED
    BY <2>1, <2>2, <2>3, <2>4, <2>5
<1>6. handed[last] = given(1) + given(2) + given(3) + given(4)
  BY DEF Accounted
<1>7. \A r \in Ranks : /\ count[r] = MayLoad(counts, <<last, r>>, 0)
                       /\ some[r] = slots(before \cup {player}, r)
  BY <1>5
<1>8. /\ count \in [Ranks -> Nat] /\ some \in [Ranks -> Nat]
      /\ \A r \in Ranks : some[r] <= count[r]
  <2> HIDE DEF slots, before
  <2>. QED
    BY <1>3
<1>9. 1 \in Ranks /\ 2 \in Ranks /\ 3 \in Ranks /\ 4 \in Ranks
  BY DEF Ranks
<1> HIDE DEF slots, count, some, before, given
<1>10. some[1] * ShareAt(pots[last], count[1], split[1])
       + some[2] * ShareAt(pots[last], count[2], split[2])
       + some[3] * ShareAt(pots[last], count[3], split[3])
       + some[4] * ShareAt(pots[last], count[4], split[4]) <= pots[last]
  BY <1>8, SharesWithin
<1>11. \A r \in Ranks : some[r] * ShareAt(pots[last], count[r], split[r])
                            = given(r) + own(r) * share(r)
  BY <1>5, <1>7
<1> DEFINE won(r) == own(r) * share(r)
<1>12. (given(1) + won(1)) + (given(2) + won(2)) + (given(3) + won(3)) + (given(4) + won(4))
           <= pots[last]
  BY <1>9, <1>10, <1>11
<1>13. \A r \in Ranks : given(r) \in Nat /\ won(r) \in Nat
  BY <1>5
<1>14. handed[last] + (won(1) + won(2) + won(3) + won(4)) <= pots[last]
  <2>1. /\ given(1) \in Nat /\ given(2) \in Nat /\ given(3) \in Nat /\ given(4) \in Nat
        /\ won(1) \in Nat /\ won(2) \in Nat /\ won(3) \in Nat /\ won(4) \in Nat
    BY <1>9, <1>13
  <2> HIDE DEF won, own, share
  <2>2. (given(1) + won(1)) + (given(2) + won(2)) + (given(3) + won(3)) + (given(4) + won(4))
            = (given(1) + given(2) + given(3) + given(4)) + (won(1) + won(2) + won(3) + won(4))
    BY <2>1, SMTT(60)
  <2>3. handed[last] + (won(1) + won(2) + won(3) + won(4))
            = (given(1) + won(1)) + (given(2) + won(2)) + (given(3) + won(3)) + (given(4) + won(4))
    BY <1>6, <2>2
  <2>. QED
    BY <1>12, <2>3
<1>. QED
  BY <1>14, Zenon

\* A winner that has not collected finds its prize in the contract, whatever polls
\* set the jackpot's percentage, the worker's fee, the holders' share or the split
\* to, until a migration moved the money or the split changed after a payment; and
\* the whole jackpot where the play set aside half of the balance or less.
THEOREM WinnersUnderPolls == LoterraSpec => []WinnersCovered
<1>1. LoterraInv => WinnersCovered
  <2> SUFFICES ASSUME LoterraInv, NEW player \in Winners(LastLottery) \ PaidWinners(LastLottery),
                      LastLottery \notin reopened, ~Befell({"migration"})
               PROVE  /\ PrizeOf(player) <= balance
                      /\ ~Befell({"pot"}) => balance >= jackpot[LastLottery]
    BY DEF WinnersCovered
  <2> DEFINE n == LastLottery
             split == state.prize_rank_winner_percentage
             total == PrizeOf(player)
  <2>1. TypeOK /\ RankCountsTickets /\ PaidWithinJackpot /\ PaidAccounted /\ CoverUnderPolls
    BY DEF LoterraInv
  <2>2. player \in WinnersAt(winner, n) /\ player \notin PaidAt(winner, n)
    BY DEF Winners, PaidWinners, WinnersAt, PaidAt
  <2>3. n \in 1..n /\ n > 0
    <3>1. <<n, player>> \in DOMAIN winner
      BY <2>2 DEF WinnersAt
    <3>2. n \in 1..n
      BY <2>1, <3>1 DEF TypeOK
    <3>. QED
      BY <3>2
  <2>4. /\ balance \in Nat /\ paid[n] \in Nat /\ jackpot[n] \in Nat
        /\ split \in PrizeSplits
        /\ winner[<<n, player>>].ranks \in [Ranks -> Nat]
        /\ \A key \in DOMAIN rank : rank[key] \in Nat
    BY <2>1, <2>2, <2>3 DEF TypeOK, State, Winning, WinnersAt
  <2>5. \A other \in WinnersAt(winner, n) : tickets[<<n, other>>] \in Seq(Strings)
    BY <2>1 DEF TypeOK, WinnersAt
  <2>6. Accounted(tickets, winning, jackpot, winner, rank, split, n, paid)
    BY <2>1, <2>3, AccountedMeaning
  <2>7. RanksFit(tickets, winning, winner, rank, n)
    BY <2>1, RankMeaning
  <2>8. /\ balance + paid[n] >= jackpot[n]
        /\ ~Befell({"pot"}) => balance + paid[n] >= 2 * jackpot[n]
    BY <2>1, <2>3 DEF CoverUnderPolls
  <2>9. paid[n] <= jackpot[n]
    BY <2>1, <2>3 DEF PaidWithinJackpot
  <2>10. paid[n] + total <= jackpot[n]
    <3> HIDE DEF n, split
    <3>1. paid[n]
          + (winner[<<n, player>>].ranks[1]
                 * ShareAt(jackpot[n], MayLoad(rank, <<n, 1>>, 0), split[1])
             + winner[<<n, player>>].ranks[2]
                 * ShareAt(jackpot[n], MayLoad(rank, <<n, 2>>, 0), split[2])
             + winner[<<n, player>>].ranks[3]
                 * ShareAt(jackpot[n], MayLoad(rank, <<n, 3>>, 0), split[3])
             + winner[<<n, player>>].ranks[4]
                 * ShareAt(jackpot[n], MayLoad(rank, <<n, 4>>, 0), split[4]))
          <= jackpot[n]
      BY <2>2, <2>3, <2>4, <2>5, <2>6, <2>7, UnpaidWithin
    <3>. QED
      BY <3>1 DEF n, split, PrizeOf, TotalPrize, PrizeShare, ShareAt
  <2>11. total \in Nat
    <3>1. \A r \in Ranks : ShareAt(jackpot[n], MayLoad(rank, <<n, r>>, 0), split[r]) \in Nat
      BY <2>4, SharesTypeAt
    <3>2. \A r \in Ranks : PrizeShare(n, r) \in Nat /\ winner[<<n, player>>].ranks[r] \in Nat
      BY <2>4, <3>1 DEF PrizeShare, ShareAt
    <3>. QED
      BY <3>2 DEF PrizeOf, TotalPrize, Ranks
  <2> HIDE DEF n, total
  <2>12. total <= balance /\ (~Befell({"pot"}) => balance >= jackpot[n])
    BY <2>4, <2>8, <2>9, <2>10, <2>11
  <2>. QED
    BY <2>12 DEF n, total
<1>. QED
  BY <1>1, LoterraInvariant, PTL

-----------------------------------------------------------------------------
(* Claims after a collection. *)

\* The inductive half of LateClaimsExplained: once somebody collected, the time
\* is past the deadline of claims, which only a poll on the period moves.
PaidAfterDeadline ==
    PaidWinners(LastLottery) # {} => now >= ClaimDeadline \/ Befell({"period"})

LEMMA DeadlineType == TypeOK => ClaimDeadline \in Int /\ now \in Nat
<1> SUFFICES ASSUME TypeOK PROVE ClaimDeadline \in Int /\ now \in Nat
  OBVIOUS
<1>1. state.block_time_play \in Nat /\ state.every_block_time_play \in Nat
  BY DEF TypeOK, State
<1>2. HalfPeriod \in Int
  BY <1>1 DEF HalfPeriod, DIV_BLOCK_TIME_BY_X
<1>. QED
  BY <1>1, <1>2, LotteryAssumption DEF ClaimDeadline, Seconds, TypeOK

\* A step that pays a winner of the last lottery is a collection.
LEMMA PaidByCollect ==
    ASSUME TypeOK, QuietLottery, PaidWinners(LastLottery)' # {},
           PaidWinners(LastLottery) = {}
    PROVE  \E player \in Accounts : HandleCollect(player)
<1> SUFFICES ASSUME ~\E player \in Accounts : HandleCollect(player) PROVE FALSE
  OBVIOUS
<1>1. LastLottery' = LastLottery
  BY DEF QuietLottery
<1>2. ASSUME NEW addresses \in SUBSET Accounts, HandleClaim(addresses)
      PROVE  \A key \in DOMAIN winner' :
                 ~winner'[key].claimed \/ (key \in DOMAIN winner /\ winner'[key] = winner[key])
  BY <1>2 DEF HandleClaim, SaveWinners, WinnersAfter, RanksAfter
<1>3. winner' = winner \/ \E addresses \in SUBSET Accounts : HandleClaim(addresses)
  BY OtherKeeps DEF QuietLottery, LotteryNext, LotteryCall, HandleRegister, HandlePlay, prizes
<1>4. \A key \in DOMAIN winner' :
          ~winner'[key].claimed \/ (key \in DOMAIN winner /\ winner'[key] = winner[key])
  BY <1>2, <1>3
<1>. QED
  BY <1>1, <1>4 DEF PaidWinners, Winners

LEMMA DeadlineQuiet ==
    ASSUME TypeOK, TypeOK', PaidAfterDeadline, QuietLottery PROVE PaidAfterDeadline'
<1>1. LastLottery' = LastLottery /\ incidents' = incidents /\ ClaimDeadline' = ClaimDeadline
  BY DEF QuietLottery, ClaimDeadline, HalfPeriod, Seconds
<1>2. now' >= now /\ now \in Nat /\ now' \in Nat /\ ClaimDeadline \in Int
  BY TimeGrows, DeadlineType DEF QuietLottery, TypeOK
<1>3. CASE PaidWinners(LastLottery) # {}
  BY <1>1, <1>2, <1>3 DEF PaidAfterDeadline, Befell
<1>4. CASE PaidWinners(LastLottery) = {}
  <2>1. PaidWinners(LastLottery)' # {} => now >= ClaimDeadline
    BY <1>4, PaidByCollect DEF HandleCollect, Collectable, CollectOpen
  <2>. QED
    BY <1>1, <1>2, <2>1 DEF PaidAfterDeadline
<1>. QED
  BY <1>3, <1>4

LEMMA DeadlinePlay == ASSUME TypeOK, PlayStep PROVE PaidAfterDeadline'
<1>1. LastLottery' = CurrentLottery /\ winner' = winner
  BY PlayAdvances DEF PlayStep, HandlePlay
<1>2. \A player : <<CurrentLottery, player>> \notin DOMAIN winner
  BY NewLotteryFresh
<1>. QED
  BY <1>1, <1>2 DEF PaidAfterDeadline, PaidWinners, Winners

LEMMA DeadlinePoll ==
    ASSUME TypeOK, PaidAfterDeadline, PollStep PROVE PaidAfterDeadline'
<1>1. LastLottery' = LastLottery /\ winner' = winner /\ now' = now
  BY TypePoll DEF PollStep
<1>2. PaidWinners(LastLottery)' = PaidWinners(LastLottery)
  BY <1>1 DEF PaidWinners, Winners
<1>3. ClaimDeadline' = ClaimDeadline \/ <<LastLottery, "period">> \in incidents'
  BY DEF PollStep, ClaimDeadline, HalfPeriod, Seconds
<1>4. incidents \subseteq incidents'
  BY DEF PollStep
<1>. QED
  BY <1>1, <1>2, <1>3, <1>4 DEF PaidAfterDeadline, Befell

\* A new winner is a claim, before the deadline.
LEMMA ClaimsBeforeDeadline ==
    ASSUME TypeOK, DaoInv, [LoterraNext]_loterraVars, DOMAIN winner' \ DOMAIN winner # {}
    PROVE  now <= ClaimDeadline
<1>1. QuietLottery
  BY LoterraCases DEF PlayStep, HandlePlay, PollStep
<1>2. CASE \E addresses \in SUBSET Accounts : HandleClaim(addresses)
  BY <1>2 DEF HandleClaim
<1>3. ASSUME NEW player \in Accounts, HandleCollect(player)
      PROVE  DOMAIN winner' = DOMAIN winner
  BY <1>3 DEF HandleCollect, Collectable, MarkClaimed
<1>4. DOMAIN winner' = DOMAIN winner \/ \E addresses \in SUBSET Accounts : HandleClaim(addresses)
  BY <1>1, <1>3, OtherKeeps
  DEF QuietLottery, LotteryNext, LotteryCall, HandleRegister, HandlePlay, prizes
<1>. QED
  BY <1>2, <1>4

\* Whatever the polls change, nobody joins the winners once one of them
\* collected, except at the very second both windows share or after a poll moved
\* the period of the lottery already played.
THEOREM LateClaims == LoterraSpec => LateClaimsExplained
<1>1. LoterraInit => PaidAfterDeadline
  BY DEF LoterraInit, LotteryInit, EmptyMap, PaidAfterDeadline, PaidWinners, Winners
<1>2. TypeOK /\ DaoInv /\ TypeOK' /\ PaidAfterDeadline /\ [LoterraNext]_loterraVars
          => PaidAfterDeadline'
  BY LoterraCases, DeadlineQuiet, DeadlinePlay, DeadlinePoll
<1>3. TypeOK /\ DaoInv /\ PaidAfterDeadline /\ [LoterraNext]_loterraVars
          => [\A key \in DOMAIN winner' \ DOMAIN winner :
                 PaidWinners(LastLottery) # {} =>
                     now = ClaimDeadline \/ Befell({"period"})]_loterraVars
  <2> SUFFICES ASSUME TypeOK, DaoInv, PaidAfterDeadline, [LoterraNext]_loterraVars,
                      NEW key \in DOMAIN winner' \ DOMAIN winner,
                      PaidWinners(LastLottery) # {}
               PROVE  now = ClaimDeadline \/ Befell({"period"})
    OBVIOUS
  <2>1. now <= ClaimDeadline
    BY ClaimsBeforeDeadline
  <2>. QED
    BY <2>1, DeadlineType DEF PaidAfterDeadline
<1>. QED
  BY <1>1, <1>2, <1>3, LoterraTypeCorrect, PTL DEF LoterraSpec, LateClaimsExplained


-----------------------------------------------------------------------------
(* What is proved of the lottery's steps, under the polls. *)

\* Under any polls, no ticket is sold once the randomness that decides it is
\* public: no poll moves block_time_play.
THEOREM TicketsBlindUnderPolls == LoterraSpec => TicketsSoldBlind
<1>1. TypeOK /\ DaoInv /\ [LoterraNext]_loterraVars
          => [tickets' # tickets => ~Published(NextRound(state.block_time_play))]_lotteryVars
  <2> SUFFICES ASSUME TypeOK, DaoInv, [LoterraNext]_loterraVars, tickets' # tickets
               PROVE  ~Published(NextRound(state.block_time_play))
    OBVIOUS
  <2>1. [LotteryNext]_lotteryVars
    BY LoterraCases, PlayIsLotteryStep DEF QuietLottery, PollStep, storage
  <2>. QED
    BY <2>1, BlindStep
<1>. QED
  BY <1>1, LoterraTypeCorrect, PTL DEF LoterraSpec, TicketsSoldBlind

\* A poll serves nobody: it leaves the raffle or voids the last lottery's terms.
LEMMA PollVoids ==
    ASSUME TypeOK, PollStep PROVE Prizes!Void \/ UNCHANGED Prizes!raffleVars
<1>1. LastLottery' = LastLottery /\ UNCHANGED <<winner, jackpot, paid>>
  BY TypePoll DEF PollStep
<1>2. \A lottery : PaidWinners(lottery)' = PaidWinners(lottery)
  BY <1>1 DEF PaidWinners, Winners
<1>3. Served' = Served
  BY <1>1, <1>2 DEF Served
<1>4. CASE reopened' = reopened
  BY <1>1, <1>3, <1>4 DEF Prizes!raffleVars
<1>5. CASE PaidWinners(LastLottery) # {} /\ reopened' = reopened \cup {LastLottery}
  <2>1. LastLottery \in 1..LastLottery
    BY <1>5 DEF TypeOK, PaidWinners, Winners
  <2>2. Served[LastLottery] = PaidWinners(LastLottery)
    BY <2>1 DEF Served
  <2>. QED
    BY <1>1, <1>3, <1>5, <2>1, <2>2 DEF Prizes!Void
<1>. QED
  BY <1>4, <1>5 DEF PollStep

LEMMA LoterraRaffleStep ==
    TypeOK /\ TypeOK' /\ DaoInv /\ PaidWithinJackpot' /\ [LoterraNext]_loterraVars
        => [Prizes!RaffleNext]_(Prizes!raffleVars)
<1> SUFFICES ASSUME TypeOK, TypeOK', DaoInv, PaidWithinJackpot', [LoterraNext]_loterraVars
             PROVE  [Prizes!RaffleNext]_(Prizes!raffleVars)
  OBVIOUS
<1>1. CASE [LotteryNext]_lotteryVars
  BY <1>1, RaffleStep
<1>2. CASE PollStep
  BY <1>2, PollVoids DEF Prizes!RaffleNext
<1>. QED
  BY <1>1, <1>2, LoterraCases, PlayIsLotteryStep DEF QuietLottery

\* The whole contract is a raffle: whatever the DAO decides meanwhile, each pot is
\* settled once and pays each player at most once, within the pot unless a poll or
\* a late claim changed the shares after a payment.
THEOREM LoterraIsRaffle == LoterraSpec => ImplementsRaffle
<1>1. LoterraInit => Prizes!RaffleInit
  BY RaffleStart DEF LoterraInit
<1>2. LoterraInv => PaidWithinJackpot
  BY DEF LoterraInv
<1>. QED
  BY <1>1, <1>2, LoterraRaffleStep, LoterraTypeCorrect, LoterraInvariant, PTL
  DEF LoterraSpec, ImplementsRaffle, Prizes!RaffleSpec

\* Under any polls, the counts of players and tickets are those of the tickets.
THEOREM CountersUnderPolls == LoterraSpec => []CountersAgree
<1>1. LoterraInit => CountersAgree
  BY CountersInit DEF LoterraInit
<1>2. TypeOK /\ DaoInv /\ CountersAgree /\ [LoterraNext]_loterraVars => CountersAgree'
  <2> SUFFICES ASSUME TypeOK, DaoInv, CountersAgree, [LoterraNext]_loterraVars
               PROVE  CountersAgree'
    OBVIOUS
  <2>1. CASE [LotteryNext]_lotteryVars
    BY <2>1, CountersStep
  <2>2. CASE PollStep
    BY <2>2, CountersMeaning DEF PollStep, storage, CurrentLottery
  <2>. QED
    BY <2>1, <2>2, LoterraCases, PlayIsLotteryStep DEF QuietLottery
<1>. QED
  BY <1>1, <1>2, LoterraTypeCorrect, PTL DEF LoterraSpec

-----------------------------------------------------------------------------
(* What is proved of the lottery alone, under the polls. *)

\* Once the contract owns itself nobody locks it, whatever the polls change.
THEOREM NeverLockedUnderPolls == LoterraSpec => []RenouncedNeverLocked
<1>1. LoterraInit => RenouncedNeverLocked
  BY DEF LoterraInit, LotteryInit, StateInit, Instantiated, RenouncedNeverLocked
<1>2. TypeOK /\ DaoInv /\ RenouncedNeverLocked /\ [LoterraNext]_loterraVars
          => RenouncedNeverLocked'
  <2>1. PollStep /\ RenouncedNeverLocked => RenouncedNeverLocked'
    BY DEF PollStep, AccessKept, RenouncedNeverLocked
  <2>. QED
    BY <2>1, RenouncedStep, LoterraCases, PlayIsLotteryStep DEF QuietLottery
<1>. QED
  BY <1>1, <1>2, LoterraTypeCorrect, PTL DEF LoterraSpec

\* No poll brings a ticket that is not a combination into the storage.
THEOREM StoredWellFormedUnderPolls == LoterraSpec => []TicketsWellFormed
<1>1. LoterraInit => TicketsWellFormed
  BY DEF LoterraInit, LotteryInit, EmptyMap, TicketsWellFormed
<1>2. TypeOK /\ DaoInv /\ TicketsWellFormed /\ [LoterraNext]_loterraVars => TicketsWellFormed'
  <2>1. PollStep /\ TicketsWellFormed => TicketsWellFormed'
    BY DEF PollStep, storage, TicketsWellFormed
  <2>. QED
    BY <2>1, WellFormedStep, LoterraCases, PlayIsLotteryStep DEF QuietLottery
<1>. QED
  BY <1>1, <1>2, LoterraTypeCorrect, PTL DEF LoterraSpec

\* A poll may change the period of lotteries, and each is still decided by a round
\* of its own that nobody knows when it opens.
THEOREM RoundsFreshUnderPolls == LoterraSpec => FreshRounds
<1>1. LoterraInit => DrawnRounds
  BY DEF LoterraInit, LotteryInit, EmptyMap, DrawnRounds
<1>2. TypeOK /\ TypeOK' /\ DaoInv /\ DrawnRounds /\ [LoterraNext]_loterraVars => DrawnRounds'
  <2>1. PollStep /\ DrawnRounds => DrawnRounds'
    BY DEF PollStep, DrawnRounds, Published
  <2>. QED
    BY <2>1, DrawnStep, LoterraCases, PlayIsLotteryStep DEF QuietLottery
<1>3. TypeOK /\ TypeOK' /\ DaoInv /\ DrawnRounds /\ [LoterraNext]_loterraVars
          => [LastLottery' # LastLottery =>
                 LET next == NextRound(state'.block_time_play)
                 IN  /\ next > NextRound(state.block_time_play)
                     /\ ~Published(next)]_lotteryVars
  BY LoterraCases, TypePoll, FreshStep DEF QuietLottery, PlayStep, FreshPlay
<1>. QED
  BY <1>1, <1>2, <1>3, LoterraTypeCorrect, PTL DEF LoterraSpec, FreshRounds

LEMMA ResultsPoll == ASSUME TypeOK, PollStep PROVE SettledFinal /\ OnePayment
<1>1. UNCHANGED <<tickets, winning, jackpot, winner, paid>>
  BY DEF PollStep, storage
<1>2. LastLottery \in Nat /\ \A key \in DOMAIN tickets : key[1] \in Nat
  BY StateFields DEF LastLottery, TypeOK, Keys
<1>. QED
  BY <1>1, <1>2 DEF SettledFinal, OnePayment

\* No poll and no call reopens what a play settled: the combination, the jackpot,
\* the tickets, the ranks of a winner and what it collected.
THEOREM ResultsFinalUnderPolls == LoterraSpec => ResultsFinal
<1>1. TypeOK /\ DaoInv /\ [LoterraNext]_loterraVars => [SettledFinal]_lotteryVars
  BY ResultsStep, ResultsPoll, LoterraCases, PlayIsLotteryStep DEF QuietLottery
<1>. QED
  BY <1>1, LoterraTypeCorrect, PTL DEF LoterraSpec, ResultsFinal, SettledFinal

\* No poll pays a winner or marks one: only collections do, one winner each.
THEOREM PaidOnceUnderPolls == LoterraSpec => OnePaymentPerWinner
<1>1. TypeOK /\ DaoInv /\ [LoterraNext]_loterraVars => [OnePayment]_lotteryVars
  BY PaymentStep, ResultsPoll, LoterraCases, PlayIsLotteryStep DEF QuietLottery
<1>. QED
  BY <1>1, LoterraTypeCorrect, PTL DEF LoterraSpec, OnePaymentPerWinner, OnePayment

\* Whatever split, fees and balance polls put in force between a claim and its
\* collection, a winner that is refused in the window is refused for one of the four
\* reasons of RefusalsExplained.
THEOREM RefusalsUnderPolls == LoterraSpec => []RefusalsExplained
<1>1. LoterraInv => RefusalsExplained
  BY RefusalsFromCounts DEF LoterraInv
<1>. QED
  BY <1>1, LoterraInvariant, PTL

-----------------------------------------------------------------------------
(* What is proved of the DAO, while lotteries are bought, played and paid. *)

DaoPromises ==
    /\ PercentagesBounded
    /\ OwnerOrContract /\ OwnersPolls
    /\ TalliesMatchVotes /\ StakeCarried
    /\ ParametersWereVoted
    /\ TokensAccounted

\* A play keeps the parameters voted: 20 is one that needs no poll.
LEMMA VotedQuiet == ASSUME ParametersWereVoted, DaoQuiet PROVE ParametersWereVoted'
<1>1. polls' = polls
  BY DEF DaoQuiet, ballots
<1>2. \A proposal : Passed(proposal)' = Passed(proposal) /\ Voted(proposal)' = Voted(proposal)
  BY <1>1 DEF Passed, Voted
<1>3. InForceNext(state)
  BY <1>1, <1>2 DEF ParametersWereVoted, InForceNext, AsU8, AsU64
<1>4. InForceNext(state')
  BY <1>3 DEF DaoQuiet, InForceNext
<1>. QED
  BY <1>4, InForceMeaning

LEMMA PromisesQuiet == ASSUME DaoInv, DaoPromises, DaoQuiet PROVE DaoPromises'
<1>1. polls' = polls /\ votes' = votes /\ cast' = cast /\ state'.admin = state.admin
  BY DEF DaoQuiet, ballots
<1>2. PercentagesBounded'
  BY DEF DaoPromises, PercentagesBounded, DaoQuiet, HOLDERS_MAX_REWARD
<1>3. OwnerOrContract' /\ OwnersPolls' /\ StakeCarried'
  BY <1>1 DEF DaoPromises, OwnerOrContract, OwnersPolls, StakeCarried
<1>4. TalliesMatchVotes'
  BY <1>1, TallyMeaning DEF DaoPromises
<1>5. TokensAccounted'
  BY <1>1, SameFundings DEF DaoPromises, DaoQuiet, FundingsIn
<1>. QED
  BY <1>2, <1>3, <1>4, <1>5, VotedQuiet DEF DaoPromises

LEMMA PromisesInit == LoterraInit => DaoPromises
<1> SUFFICES ASSUME LoterraInit PROVE DaoPromises
  OBVIOUS
<1>1. GovernanceInit
  BY DEF LoterraInit
<1>2. PercentagesBounded
  BY <1>1 DEF GovernanceInit, StateInit, Instantiated, PercentagesBounded, WORKER_MAX_REWARD,
              HOLDERS_MAX_REWARD
<1>3. OwnerOrContract /\ OwnersPolls /\ StakeCarried
  BY <1>1 DEF GovernanceInit, StateInit, Instantiated, OwnerOrContract, OwnersPolls, EmptyMap,
              StakeCarried
<1>4. ParametersWereVoted
  BY <1>1 DEF GovernanceInit, StateInit, Instantiated, ParametersWereVoted
<1>. QED
  BY <1>1, <1>2, <1>3, <1>4, TallyInit, TokensInit DEF DaoPromises

LEMMA PromisesStep ==
    TypeOK /\ DaoInv /\ DaoPromises /\ [LoterraNext]_loterraVars => DaoPromises'
<1> SUFFICES ASSUME TypeOK, DaoInv, DaoPromises, [LoterraNext]_loterraVars
             PROVE  DaoPromises'
  OBVIOUS
<1>1. CASE [GovernanceNext]_governanceVars
  BY <1>1, BoundsStep, OwnersStep, TallyStep, CarriedStep, VotedStep, TokensStep
  DEF DaoPromises
<1>2. CASE DaoQuiet
  BY <1>2, PromisesQuiet
<1>. QED
  BY <1>1, <1>2, DaoParts

\* The promises of the DAO hold together while the lottery shares its State.
LEMMA PromisesKept == LoterraSpec => []DaoPromises
BY PromisesInit, PromisesStep, LoterraTypeCorrect, PTL DEF LoterraSpec

\* Whatever plays do to the holders' share, no parameter of the lottery is in
\* force but the first ones, 20 percent for the holders, and what a passed poll of
\* its kind asked for.
THEOREM ParametersVotedWhilePlaying == LoterraSpec => []ParametersWereVoted
BY PromisesKept, PTL DEF DaoPromises

\* While lotteries go on, no poll and no play brings a percentage out of its bound.
THEOREM PercentagesBoundedWhilePlaying == LoterraSpec => []PercentagesBounded
BY PromisesKept, PTL DEF DaoPromises

\* No call of the lottery lets another than the owner propose what is the owner's.
THEOREM OwnersPollsWhilePlaying == LoterraSpec => []OwnersPolls
BY PromisesKept, PTL DEF DaoPromises

\* The tallies stay a recount of the votes while the same State serves the lottery.
THEOREM TalliesWhilePlaying == LoterraSpec => []TalliesMatchVotes
BY PromisesKept, PTL DEF DaoPromises

\* A poll that changed a lottery going on was carried by stake.
THEOREM PassedByStakeWhilePlaying == LoterraSpec => []PassedByStake
BY PromisesKept, CarriedMeaning, PTL DEF DaoPromises

\* While lotteries are bought, played and paid, no token leaves but by a funding that
\* passed, once.
THEOREM TokensAddUpWhilePlaying == LoterraSpec => []TokensAccounted
BY PromisesKept, PTL DEF DaoPromises

LEMMA FinalStepKept ==
    ASSUME TypeOK, DaoInv, [LoterraNext]_loterraVars PROVE FinalStep
<1>1. CASE [GovernanceNext]_governanceVars
  BY <1>1, PollsFinalStep
<1>2. CASE DaoQuiet
  BY <1>2 DEF DaoQuiet, ballots, FinalStep
<1>. QED
  BY <1>1, <1>2, DaoParts

\* No message of the contract, the lottery's included, touches a decided poll.
THEOREM PollsFinalWhilePlaying == LoterraSpec => PollsFinal
<1>1. TypeOK /\ DaoInv /\ [LoterraNext]_loterraVars => [FinalStep]_governanceVars
  BY FinalStepKept
<1>2. LoterraSpec => [][FinalStep]_governanceVars
  BY <1>1, LoterraTypeCorrect, PTL DEF LoterraSpec
<1>. QED
  BY <1>2 DEF PollsFinal, FinalStep

LEMMA EarlyStepKept ==
    ASSUME TypeOK, DaoInv, DaoPromises, [LoterraNext]_loterraVars, NEW id \in DOMAIN polls
    PROVE  EarlyPoll(id)
<1>1. CASE [GovernanceNext]_governanceVars
  BY <1>1, EarlyStep DEF DaoPromises
<1>2. CASE DaoQuiet
  BY <1>2 DEF DaoQuiet, ballots, EarlyPoll
<1>. QED
  BY <1>1, <1>2, DaoParts

\* No poll changes a lottery before its end but with half of the listed stake behind
\* its votes, or a voter that moved its stake since.
THEOREM EarlyDecisionsWhilePlaying == LoterraSpec => EarlyDecisionsBacked
<1>1. TypeOK /\ DaoInv /\ DaoPromises /\ [LoterraNext]_loterraVars =>
          [\A id \in DOMAIN polls : EarlyPoll(id)]_governanceVars
  BY EarlyStepKept
<1>2. LoterraSpec => [][\A id \in DOMAIN polls : EarlyPoll(id)]_governanceVars
  BY <1>1, LoterraTypeCorrect, PromisesKept, PTL DEF LoterraSpec
<1>. QED
  BY <1>2 DEF EarlyDecisionsBacked, EarlyPoll

LEMMA ReferendumKept ==
    TypeOK /\ DaoInv /\ DaoPromises /\ [LoterraNext]_loterraVars
        => [Abstract!ReferendumNext]_<<Outcome, CastBallots>>
<1> SUFFICES ASSUME TypeOK, DaoInv, DaoPromises, [LoterraNext]_loterraVars
             PROVE  [Abstract!ReferendumNext]_<<Outcome, CastBallots>>
  OBVIOUS
<1>1. CASE [GovernanceNext]_governanceVars
  BY <1>1, ReferendumStep DEF DaoPromises
<1>2. CASE DaoQuiet
  <2>1. Outcome' = Outcome
    BY <1>2 DEF DaoQuiet, ballots, Outcome
  <2>2. CastBallots' = CastBallots
    BY <1>2 DEF DaoQuiet, ballots, CastBallots
  <2>. QED
    BY <2>1, <2>2
<1>. QED
  BY <1>1, <1>2, DaoParts

\* The whole contract is a referendum as well as a raffle: whatever is bought,
\* played and paid meanwhile, each poll is settled once, by its ballots.
THEOREM LoterraIsReferendum == LoterraSpec => ImplementsReferendum
<1>1. LoterraInit => Abstract!ReferendumInit
  BY DEF LoterraInit, GovernanceInit, EmptyMap, Outcome, CastBallots, Abstract!ReferendumInit
<1>. QED
  BY <1>1, ReferendumKept, PromisesKept, LoterraTypeCorrect, PTL
  DEF LoterraSpec, ImplementsReferendum, Abstract!ReferendumSpec

-----------------------------------------------------------------------------
(* Money leaves as decided. *)

\* With the worker's percentage at most ten, taken twice, a hundredth of the pot.
LEMMA WorkerTakesHundredth ==
    ASSUME TypeOK, PercentagesBounded, HandlePlay
    PROVE  100 * (balance - balance') <= Pot
<1> DEFINE fee == state.fee_for_drand_worker_in_percentage
           part == Percent(Pot, fee)
<1>1. fee \in 0..10
  BY StateFields DEF PercentagesBounded, WORKER_MAX_REWARD
<1>2. Pot \in Nat /\ WorkerFee \in Nat /\ balance \in Nat
  BY PotBounds, StateFields
<1>3. fee \in 0..100
  BY <1>1
<1>4. part \in Nat /\ 10 * part <= Pot
  BY <1>1, <1>2, <1>3, PercentType, TenthBounds
<1>5. 10 * WorkerFee <= part
  BY <1>1, <1>4, TenthBounds DEF WorkerFee
<1>6. Spend(WorkerFee) \in 0..WorkerFee /\ balance' = balance - Spend(WorkerFee)
  BY <1>2, SpendBounds DEF HandlePlay
<1> HIDE DEF part, fee
<1>. QED
  BY <1>2, <1>4, <1>5, <1>6

\* A collection takes at most the prize, which fits in the jackpot.
LEMMA CollectTakesPrize ==
    ASSUME TypeOK, RankCountsTickets, NEW player \in Accounts, HandleCollect(player)
    PROVE  \E key \in DOMAIN winner :
               /\ key[1] = LastLottery
               /\ ~winner[key].claimed /\ winner'[key].claimed
               /\ balance - balance' <= paid'[LastLottery] - paid[LastLottery]
               /\ paid'[LastLottery] - paid[LastLottery] <= jackpot[LastLottery]
<1> DEFINE n == LastLottery
           key == <<n, player>>
           total == PrizeOf(player)
           spent == CollectCost(player)
<1>1. key \in DOMAIN winner /\ ~winner[key].claimed /\ winner'[key].claimed /\ n \in 1..n
  BY CollectMarks
<1>2. /\ total \in Nat /\ spent \in 0..total /\ balance' = balance - spent
      /\ paid' = [paid EXCEPT ![n] = @ + total]
  BY CollectSpends
<1>3. key[1] = n
  OBVIOUS
<1>4. total <= jackpot[n]
  BY <1>1, <1>3, PrizeWithinJackpot DEF PrizeOf
<1>5. balance \in Nat /\ paid[n] \in Nat /\ paid \in [1..n -> Nat] /\ jackpot[n] \in Nat
  BY <1>1 DEF TypeOK
<1> HIDE DEF total, spent
<1>6. paid'[n] = paid[n] + total
  BY <1>1, <1>2, <1>5
<1>7. balance - balance' <= total /\ total = paid'[n] - paid[n]
  <2>1. total \in Nat /\ spent \in 0..total /\ balance' = balance - spent
    BY <1>2
  <2>2. balance \in Nat /\ paid[n] \in Nat
    BY <1>5
  <2>. QED
    BY <1>6, <2>1, <2>2
<1> HIDE DEF key
<1>. QED
  BY <1>1, <1>3, <1>4, <1>7

\* What MoneyLeavesAsDecided asks of one step.
MoneyDecided ==
    balance' < balance =>
        \/ LastLottery' # LastLottery /\ 100 * (balance - balance') <= Pot
        \/ \E key \in DOMAIN winner :
              /\ key[1] = LastLottery
              /\ ~winner[key].claimed /\ winner'[key].claimed
              /\ balance - balance' <= paid'[LastLottery] - paid[LastLottery]
              /\ paid'[LastLottery] - paid[LastLottery] <= jackpot[LastLottery]
        \/ Migrating

LEMMA MoneyStep ==
    ASSUME LoterraInv, DaoInv, PercentagesBounded, [LoterraNext]_loterraVars
    PROVE  MoneyDecided
<1>1. TypeOK /\ RankCountsTickets /\ balance \in Nat
  BY DEF LoterraInv, TypeOK
<1>2. CASE PlayStep
  <2>1. HandlePlay /\ LastLottery' = CurrentLottery
    BY <1>1, <1>2, PlayAdvances DEF PlayStep
  <2>2. LastLottery # CurrentLottery
    BY <1>1, StateFields DEF LastLottery, CurrentLottery
  <2>. QED
    BY <1>1, <2>1, <2>2, WorkerTakesHundredth DEF MoneyDecided
<1>3. CASE PollStep
  BY <1>1, <1>3 DEF PollStep, MoneyDecided
<1>4. CASE QuietLottery
  <2>1. ASSUME NEW player \in Accounts, HandleCollect(player) PROVE MoneyDecided
    BY <1>1, <2>1, CollectTakesPrize DEF MoneyDecided
  <2>2. ASSUME NEW player \in Accounts, NEW combination \in Batches,
               HandleRegister(player, combination)
        PROVE  ~(balance' < balance)
    BY <1>1, <2>2, RegisterEarns
  <2>3. ASSUME NEW addresses \in SUBSET Accounts, HandleClaim(addresses)
        PROVE  ~(balance' < balance)
    BY <1>1, <2>3 DEF HandleClaim
  <2>4. CASE AdminCall \/ Environment \/ UNCHANGED lotteryVars
    <3>1. ~(balance' < balance)
      BY <1>1, <2>4, OthersEarn
    <3>. QED
      BY <3>1 DEF MoneyDecided
  <2>5. CASE HandlePlay
    <3>1. LastLottery' # LastLottery
      BY <1>1, <2>5, PlayAdvances, StateFields DEF LastLottery, CurrentLottery
    <3>. QED
      BY <1>4, <3>1 DEF QuietLottery
  <2>. QED
    BY <1>4, <2>1, <2>2, <2>3, <2>4, <2>5
    DEF QuietLottery, LotteryNext, LotteryCall, MoneyDecided
<1>. QED
  BY <1>1, <1>2, <1>3, <1>4, LoterraCases

\* Whatever the polls put in force and whoever calls: the contract loses money to
\* the worker of a play, at most a hundredth of the pot, to one winner that had
\* not collected, at most the prize accounted to it, or to a migration that passes.
THEOREM MoneyAsDecided == LoterraSpec => MoneyLeavesAsDecided
<1>1. LoterraInv /\ DaoInv /\ DaoPromises /\ [LoterraNext]_loterraVars
          => [MoneyDecided]_loterraVars
  BY MoneyStep DEF DaoPromises
<1>2. LoterraSpec => [][MoneyDecided]_loterraVars
  BY <1>1, LoterraInvariant, LoterraTypeCorrect, PromisesKept, PTL DEF LoterraSpec
<1>. QED
  BY <1>2 DEF MoneyLeavesAsDecided, MoneyDecided, Migrating

=============================================================================
