------------------------------ MODULE Lottery ------------------------------
(***************************************************************************)
(* The life of a lottery: players register tickets until block_time_play,  *)
(* anyone plays the lottery once Terrand holds the randomness of its drand *)
(* round, winners claim (their tickets are ranked and counted) during the  *)
(* first half of the next registration period and collect their prize      *)
(* during the second half, until the next play.                            *)
(*                                                                         *)
(* Each handler is one action: the chain runs transactions one at a time   *)
(* and reverts everything a failing one did, so an error is a step that    *)
(* does not exist. Keys of the storage maps are <<lottery, ...>> tuples.   *)
(***************************************************************************)
EXTENDS LoterraState, Combination

CONSTANTS
    DRAND_GENESIS_TIME,         \* 1595431050 in the code
    DRAND_PERIOD,               \* 30 in the code
    DRAND_NEXT_ROUND_SECURITY,  \* 10 in the code
    NANOS_PER_SECOND,           \* resolution of the block time
    HoldersBonusEnd,            \* holders_bonus_block_time_end, in seconds
    Strings,                    \* ticket strings players may send, well formed or not
    Hashes,                     \* randomness Terrand may hold, hex encoded
    Donations,                  \* amounts anyone may send to the contract
    BlockIntervals,             \* time from one block to the next
    MaxTime,                    \* bound: the last block time explored
    MaxTickets,                 \* bound: tickets sold per lottery
    MaxBatch,                   \* bound: tickets in one registration
    MaxBalance                  \* bound: donations stop at this balance

ASSUME LotteryAssumption ==
    /\ DRAND_GENESIS_TIME \in Nat
    /\ DRAND_PERIOD \in Nat \ {0}
    /\ DRAND_NEXT_ROUND_SECURITY \in Nat /\ DRAND_NEXT_ROUND_SECURITY >= 2
    /\ NANOS_PER_SECOND \in Nat \ {0}
    /\ HoldersBonusEnd \in Nat
    /\ Donations \subseteq Nat
    /\ BlockIntervals \subseteq Nat
    /\ MaxTime \in Nat
    /\ MaxTickets \in Nat
    /\ MaxBatch \in Nat
    /\ MaxBalance \in Nat
    /\ Strings \subseteq Seq(Symbol)
    /\ Hashes \subseteq {h \in Seq(HexDigit) : Len(h) >= COMBINATION_LEN}

\* Terra taxes a transfer by at most its amount (external).
ASSUME TaxAssumption == TaxRate <= DECIMAL_FRACTION

VARIABLES
    now,            \* env.block.time
    tickets,        \* PREFIXED_USER_COMBINATION: <<lottery, player>> -> strings
    players,        \* ALL_USER_COMBINATION: lottery -> players in order of entry
    count_players,  \* COUNT_PLAYERS: lottery -> number
    count_tickets,  \* COUNT_TICKETS: lottery -> number
    winning,        \* WINNING_COMBINATION: lottery -> combination
    jackpot,        \* JACKPOT: lottery -> amount the winners share
    winner,         \* PREFIXED_WINNER: <<lottery, player>> -> claimed flag, ranks won
    rank,           \* PREFIXED_RANK: <<lottery, rank>> -> number of winning tickets
    randomness,     \* Terrand's store: drand round -> hash
    paid,           \* history: lottery -> prizes handed out so far
    reopened        \* history: lotteries whose prize terms changed after a prize was paid

storage == <<tickets, players, count_players, count_tickets>>
prizes == <<winning, jackpot, winner, rank, paid, reopened>>
lotteryVars == <<state, balance, now, storage, prizes, randomness>>

-----------------------------------------------------------------------------
(* Time, randomness and money. *)

Seconds(s) == s * NANOS_PER_SECOND

\* Mutant of NextRound: the round going on at time play.
CurrentRound(play) == (play - DRAND_GENESIS_TIME) \div DRAND_PERIOD

\* Mutant of NextRound: counted from the time of the call.
RoundFromNow(play) ==
    (now \div NANOS_PER_SECOND - DRAND_GENESIS_TIME) \div DRAND_PERIOD + DRAND_NEXT_ROUND_SECURITY

\* The drand round a lottery due at time play draws from.
NextRound(play) ==
    (play - DRAND_GENESIS_TIME) \div DRAND_PERIOD + DRAND_NEXT_ROUND_SECURITY

\* When drand publishes a round; round 1 is published at its genesis (external).
PublishTime(round) == DRAND_GENESIS_TIME + (round - 1) * DRAND_PERIOD

Published(round) == Seconds(PublishTime(round)) <= now

CurrentLottery == state.lottery_counter
LastLottery == state.lottery_counter - 1

\* Claims end, and prizes become collectable, this long before block_time_play.
HalfPeriod == state.every_block_time_play \div DIV_BLOCK_TIME_BY_X
ClaimDeadline == Seconds(state.block_time_play - HalfPeriod)

-----------------------------------------------------------------------------
(* Registering. *)

\* Mutant of IsNewPlayer: every purchase enters the player again.
EveryPlayer(lottery, player) == TRUE

IsNewPlayer(lottery, player) == <<lottery, player>> \notin DOMAIN tickets

CombinationSave(lottery, player, combination) ==
    LET key == <<lottery, player>>
        isNew == IsNewPlayer(lottery, player)
    IN  /\ tickets' = Save(tickets, key, MayLoad(tickets, key, <<>>) \o combination)
        /\ players' = IF isNew
                      THEN Save(players, lottery, Append(MayLoad(players, lottery, <<>>), player))
                      ELSE players
        /\ count_players' = IF isNew
                            THEN Save(count_players, lottery, MayLoad(count_players, lottery, 0) + 1)
                            ELSE count_players
        /\ count_tickets' = Save(count_tickets, lottery,
                                 MayLoad(count_tickets, lottery, 0) + Len(combination))

\* Somebody buys tickets for player (themself or another) and pays exactly
\* their price.
HandleRegister(player, combination) ==
    LET sent == state.price_per_ticket_to_register * Len(combination)
    IN  /\ MayLoad(count_tickets, CurrentLottery, 0) + Len(combination) <= MaxTickets
        /\ ~state.safe_lock
        /\ now <= Seconds(state.block_time_play)
        /\ \A i \in DOMAIN combination : IsLowerHex(combination[i])
        /\ sent > 0
        /\ CombinationSave(CurrentLottery, player, combination)
        /\ balance' = balance + sent
        /\ UNCHANGED <<state, now, prizes, randomness>>

-----------------------------------------------------------------------------
(* Playing. *)

\* Mutant of Pot: the jackpot percentage is not applied.
WholeBalance == balance

\* The share of the balance a play sets aside, and the drand worker's part of it.
Pot == Percent(balance, state.jackpot_percentage_reward)

WorkerFee ==
    Percent(Percent(Pot, state.fee_for_drand_worker_in_percentage),
            state.fee_for_drand_worker_in_percentage)

\* Mutant of HoldersFeeAtPlay: the bonus is halved instead of ended.
HoldersFeeHalved ==
    IF now > Seconds(HoldersBonusEnd)
    THEN state.token_holder_percentage_fee_reward \div 2
    ELSE state.token_holder_percentage_fee_reward

\* Past the holders' bonus, their share of each prize is at most 20 percent.
HoldersFeeAtPlay ==
    IF /\ now > Seconds(HoldersBonusEnd)
       /\ state.token_holder_percentage_fee_reward > HOLDERS_MAX_REWARD
    THEN 20
    ELSE state.token_holder_percentage_fee_reward

\* Mutant of NextPlayTime: counted from the time the play was due.
DueAgain == state.block_time_play + state.every_block_time_play

\* The time the next lottery is due, counted from the time of the play.
NextPlayTime == (now + Seconds(state.every_block_time_play)) \div NANOS_PER_SECOND

HandlePlay ==
    LET round == NextRound(state.block_time_play)
    IN  /\ ~state.safe_lock
        /\ state.block_time_play >= DRAND_GENESIS_TIME
        /\ now > Seconds(state.block_time_play)
        /\ now + Seconds(state.every_block_time_play) < U64
        /\ round \in DOMAIN randomness
        /\ WorkerFee <= Pot
        /\ Sendable(WorkerFee)
        /\ winning' = Save(winning, CurrentLottery, WinningCombination(randomness[round]))
        /\ jackpot' = Save(jackpot, CurrentLottery, Pot - WorkerFee)
        /\ state' = [state EXCEPT
                        !.block_time_play = NextPlayTime,
                        !.token_holder_percentage_fee_reward = HoldersFeeAtPlay,
                        !.lottery_counter = @ + 1]
        /\ balance' = balance - Spend(WorkerFee)
        /\ paid' = Save(paid, CurrentLottery, 0)
        /\ UNCHANGED <<now, storage, winner, rank, randomness, reopened>>

-----------------------------------------------------------------------------
(* Claiming and collecting. *)

\* The tickets of player that won rank r, by position.
WinningTickets(lottery, player, r) ==
    {i \in DOMAIN tickets[<<lottery, player>>] :
        RankOf(tickets[<<lottery, player>>][i], winning[lottery]) = r}

\* The winning tickets of rank r of a set of players.
WinningSlots(lottery, some, r) ==
    UNION {{player} \X WinningTickets(lottery, player, r) : player \in some}

Winners(lottery) == {player \in Accounts : <<lottery, player>> \in DOMAIN winner}
PaidWinners(lottery) == {player \in Winners(lottery) : winner[<<lottery, player>>].claimed}

\* Mutant of RanksWon: tickets that win nothing are recorded too.
RanksOfAll(lottery, player) ==
    [r \in Ranks \cup {NoRank} |-> Cardinality(WinningTickets(lottery, player, r))]

\* A winner's ranks vector, as the number of times each rank occurs in it.
RanksWon(lottery, player) ==
    [r \in Ranks |-> Cardinality(WinningTickets(lottery, player, r))]

\* Mutant of Claimants: a player may claim again.
RepeatedClaimants(lottery, addresses) ==
    {player \in addresses :
        /\ <<lottery, player>> \in DOMAIN tickets
        /\ \E r \in Ranks : WinningTickets(lottery, player, r) # {}}

\* The players of addresses whose tickets win and who have not claimed yet;
\* an address named twice is skipped the second time.
Claimants(lottery, addresses) ==
    {player \in addresses :
        /\ <<lottery, player>> \in DOMAIN tickets
        /\ <<lottery, player>> \notin DOMAIN winner
        /\ \E r \in Ranks : WinningTickets(lottery, player, r) # {}}

\* PREFIXED_WINNER once every winning ticket of some players is saved.
WinnersAfter(lottery, some) ==
    LET claims == {<<lottery, player>> : player \in some}
    IN  [key \in DOMAIN winner \cup claims |->
            IF key \in claims
            THEN [claimed |-> FALSE, ranks |-> RanksWon(lottery, key[2])]
            ELSE winner[key]]

\* PREFIXED_RANK then.
RanksAfter(lottery, some) ==
    LET won(r) == Cardinality(WinningSlots(lottery, some, r))
        hit == {<<lottery, r>> : r \in {r \in Ranks : won(r) > 0}}
    IN  [key \in DOMAIN rank \cup hit |->
            MayLoad(rank, key, 0) + (IF key \in hit THEN won(key[2]) ELSE 0)]

\* save_winner, for every winning ticket of every claimant.
SaveWinners(lottery, some) ==
    /\ winner' = WinnersAfter(lottery, some)
    /\ rank' = RanksAfter(lottery, some)

\* Mutant of HandleClaim: claims are never closed.
ClaimAnyTime(addresses) ==
    LET claimants == Claimants(LastLottery, addresses)
    IN  /\ ~state.safe_lock
        /\ LastLottery \in DOMAIN winning
        /\ claimants # {}
        /\ SaveWinners(LastLottery, claimants)
        /\ reopened' = IF PaidWinners(LastLottery) = {}
                       THEN reopened
                       ELSE reopened \cup {LastLottery}
        /\ UNCHANGED <<state, balance, now, storage, winning, jackpot, paid, randomness>>

\* The sender claims for itself or for a list of addresses.
HandleClaim(addresses) ==
    LET claimants == Claimants(LastLottery, addresses)
    IN  /\ ~state.safe_lock
        /\ HalfPeriod <= state.block_time_play
        /\ now <= ClaimDeadline
        /\ LastLottery \in DOMAIN winning
        /\ claimants # {}
        /\ SaveWinners(LastLottery, claimants)
        /\ reopened' = IF PaidWinners(LastLottery) = {}
                       THEN reopened
                       ELSE reopened \cup {LastLottery}
        /\ UNCHANGED <<state, balance, now, storage, winning, jackpot, paid, randomness>>

\* Mutant of PrizeShare: every winning ticket gets the whole rank's prize.
UndividedShare(lottery, r) ==
    Percent(jackpot[lottery], state.prize_rank_winner_percentage[r])

\* What one winning ticket of rank r is worth.
PrizeShare(lottery, r) ==
    LET count == MayLoad(rank, <<lottery, r>>, 0)
    IN  IF count = 0
        THEN 0
        ELSE Percent(jackpot[lottery], state.prize_rank_winner_percentage[r]) \div count

TotalPrize(lottery, ranks) ==
    ranks[1] * PrizeShare(lottery, 1) + ranks[2] * PrizeShare(lottery, 2)
    + ranks[3] * PrizeShare(lottery, 3) + ranks[4] * PrizeShare(lottery, 4)

\* Mutant of MarkClaimed: the winner is not marked.
MarkNothing(key) == winner' = winner

MarkClaimed(key) == winner' = [winner EXCEPT ![key].claimed = TRUE]

\* A winner's prize, the holders' share of it and what is left for the player.
PrizeOf(player) == TotalPrize(LastLottery, winner[<<LastLottery, player>>].ranks)
HoldersPart(player) == Percent(PrizeOf(player), state.token_holder_percentage_fee_reward)
PlayerPart(player) == PrizeOf(player) - HoldersPart(player)

\* What the two coins of a collection cost.
CollectCost(player) == Spend(PlayerPart(player)) + Spend(HoldersPart(player))

CollectOpen ==
    /\ ~state.safe_lock
    /\ HalfPeriod <= state.block_time_play
    /\ now >= ClaimDeadline

\* Whether a call that collects player's prize goes through; the coins and the
\* staking contract's answer decide last.
Collectable(player) ==
    LET key == <<LastLottery, player>>
    IN  /\ CollectOpen
        /\ LastLottery \in DOMAIN jackpot
        /\ jackpot[LastLottery] > 0
        /\ balance > 0
        /\ key \in DOMAIN winner
        /\ ~winner[key].claimed
        /\ balance >= jackpot[LastLottery]
        /\ \A r \in Ranks : winner[key].ranks[r] > 0 => <<LastLottery, r>> \in DOMAIN rank
        /\ HoldersPart(player) <= PrizeOf(player)
        /\ Sendable(HoldersPart(player)) /\ Sendable(PlayerPart(player))
        /\ CollectCost(player) <= balance
        /\ state.loterra_staking_contract_address \in StakingContracts

\* Somebody collects player's prize; the holders' share goes to the staking
\* contract, the rest to player, in the same transaction.
HandleCollect(player) ==
    /\ Collectable(player)
    /\ MarkClaimed(<<LastLottery, player>>)
    /\ balance' = balance - CollectCost(player)
    /\ paid' = [paid EXCEPT ![LastLottery] = @ + PrizeOf(player)]
    /\ UNCHANGED <<state, now, storage, winning, jackpot, rank, randomness, reopened>>

-----------------------------------------------------------------------------
(* The chain and Terrand around the contract. *)

NextBlock(interval) ==
    /\ now + interval <= MaxTime
    /\ now' = now + interval
    /\ UNCHANGED <<state, balance, storage, prizes, randomness>>

\* A worker brings Terrand the round GetRound asks for, once drand published it.
AddRandomness(hash) ==
    LET round == NextRound(state.block_time_play)
    IN  /\ state.block_time_play >= DRAND_GENESIS_TIME
        /\ Published(round)
        /\ round \notin DOMAIN randomness
        /\ randomness' = Save(randomness, round, hash)
        /\ UNCHANGED <<state, balance, now, storage, prizes>>

\* Funds sent to the contract outside of a ticket purchase.
Donate(amount) ==
    /\ balance + amount <= MaxBalance
    /\ balance' = balance + amount
    /\ UNCHANGED <<state, now, storage, prizes, randomness>>

-----------------------------------------------------------------------------
Batches == UNION {[1..n -> Strings] : n \in 0..MaxBatch}

LotteryInit ==
    /\ StateInit
    /\ now = 0
    /\ tickets = EmptyMap
    /\ players = EmptyMap
    /\ count_players = EmptyMap
    /\ count_tickets = EmptyMap
    /\ winning = EmptyMap
    /\ jackpot = EmptyMap
    /\ winner = EmptyMap
    /\ rank = EmptyMap
    /\ randomness = EmptyMap
    /\ paid = EmptyMap
    /\ reopened = {}

\* A call of the contract that belongs to the lottery.
LotteryCall ==
    \/ \E player \in Accounts, combination \in Batches : HandleRegister(player, combination)
    \/ HandlePlay
    \/ \E addresses \in SUBSET Accounts : HandleClaim(addresses)
    \/ \E player \in Accounts : HandleCollect(player)

AdminCall ==
    /\ \E sender \in Accounts : HandleSafeLock(sender) \/ HandleRenounce(sender)
    /\ UNCHANGED <<now, storage, prizes, randomness>>

Environment ==
    \/ \E interval \in BlockIntervals : NextBlock(interval)
    \/ \E hash \in Hashes : AddRandomness(hash)
    \/ \E amount \in Donations : Donate(amount)

LotteryNext == LotteryCall \/ AdminCall \/ Environment

LotterySpec == LotteryInit /\ [][LotteryNext]_lotteryVars

-----------------------------------------------------------------------------
(* Properties. *)

Keys == {<<lottery, player>> : lottery \in 1..CurrentLottery, player \in Accounts}
RankKeys == {<<lottery, r>> : lottery \in 1..LastLottery, r \in Ranks}
Winning == [claimed : BOOLEAN, ranks : [Ranks -> Nat]]

\* Every saved value has its type, and every key belongs to a lottery that
\* exists: tickets and players up to the current lottery, results and winners
\* only for lotteries that were played.
TypeOK ==
    /\ state \in State
    /\ balance \in Nat
    /\ now \in Nat
    /\ DOMAIN tickets \subseteq Keys
    /\ \A key \in DOMAIN tickets : tickets[key] \in Seq(Strings)
    /\ DOMAIN players \subseteq 1..CurrentLottery
    /\ \A lottery \in DOMAIN players : players[lottery] \in Seq(Accounts)
    /\ DOMAIN count_players \subseteq 1..CurrentLottery
    /\ \A lottery \in DOMAIN count_players : count_players[lottery] \in Nat
    /\ DOMAIN count_tickets \subseteq 1..CurrentLottery
    /\ \A lottery \in DOMAIN count_tickets : count_tickets[lottery] \in Nat
    /\ winning \in [1..LastLottery -> Combinations]
    /\ jackpot \in [1..LastLottery -> Nat]
    /\ paid \in [1..LastLottery -> Nat]
    /\ DOMAIN winner \subseteq DOMAIN tickets
    /\ \A key \in DOMAIN winner : key[1] \in 1..LastLottery /\ winner[key] \in Winning
    /\ DOMAIN rank \subseteq RankKeys
    /\ \A key \in DOMAIN rank : rank[key] \in Nat \ {0}
    /\ DOMAIN randomness \subseteq Int
    /\ \A round \in DOMAIN randomness : randomness[round] \in Hashes
    /\ reopened \subseteq 1..LastLottery

\* Only well-formed tickets are stored, so that count_match never runs off the
\* end of one (helpers.rs, count_match unwraps the i-th character).
TicketsWellFormed ==
    \A key \in DOMAIN tickets : \A i \in DOMAIN tickets[key] :
        tickets[key][i] \in Combinations

\* However claims of several players, in one call or in many, follow each other,
\* the count a prize is divided by is the number of winning tickets of that rank
\* of the players that claimed, and each winner's ranks are those of its tickets
\* (handle_claim, save_winner).
RankCountsTickets ==
    /\ \A lottery \in 1..LastLottery, r \in Ranks :
           MayLoad(rank, <<lottery, r>>, 0) =
               Cardinality(WinningSlots(lottery, Winners(lottery), r))
    /\ \A key \in DOMAIN winner : winner[key].ranks = RanksWon(key[1], key[2])

\* The prizes handed out for a lottery never exceed its jackpot, unless a claim
\* changed the prize shares after a first prize had been paid (handle_collect).
PaidWithinJackpot ==
    \A lottery \in 1..LastLottery \ reopened : paid[lottery] <= jackpot[lottery]

\* As long as the shares did not change, a winner of the last lottery that has
\* not collected is never turned away for lack of funds: paying the others
\* always leaves the whole jackpot in the contract (handle_collect compares the
\* balance with the jackpot, not with the prize).
WinnersStayFunded ==
    \A key \in DOMAIN winner :
        /\ key[1] = LastLottery
        /\ ~winner[key].claimed
        /\ LastLottery \notin reopened
        => balance >= jackpot[LastLottery]

\* A winner that calls in the collection window is refused for four reasons only,
\* whatever polls did to the split, the fees and the balance since it claimed: an
\* empty jackpot, a balance below the jackpot, a coin of amount zero (a rank or a
\* holders' share set to nothing) and a staking contract that does not answer. Its
\* ranks are always counted, the holders' share fits in the prize, and both coins
\* with their taxes fit in the balance (handle_collect loads the ranks with an
\* error, and subtracts and sends unchecked amounts).
RefusalsExplained ==
    \A player \in Winners(LastLottery) \ PaidWinners(LastLottery) :
        /\ \A r \in Ranks :
               winner[<<LastLottery, player>>].ranks[r] > 0 =>
                   <<LastLottery, r>> \in DOMAIN rank
        /\ CollectOpen /\ ~Collectable(player) =>
               \/ jackpot[LastLottery] = 0
               \/ balance < jackpot[LastLottery]
               \/ ~Sendable(HoldersPart(player)) \/ ~Sendable(PlayerPart(player))
               \/ state.loterra_staking_contract_address \notin StakingContracts

\* With the terms instantiate sets, none of these reasons ever arises: as long as no
\* claim followed a payment, whoever bought, claimed and collected what, whatever
\* plays came before, no winner that calls in the window is refused. The price of
\* the tickets sold backs the jackpot, the jackpot every ticket's share, and the
\* smallest share still makes two coins (handle_register, handle_play and
\* handle_collect together).
WinnersCanCollect ==
    reopened = {} =>
        \A player \in Winners(LastLottery) \ PaidWinners(LastLottery) :
            CollectOpen => Collectable(player)

-----------------------------------------------------------------------------
(* The inductive invariant behind them. *)

\* The winning tickets of rank r whose prize has been collected.
PaidSlots(lottery, r) == WinningSlots(lottery, PaidWinners(lottery), r)

PaidCount(lottery, r) == Cardinality(PaidSlots(lottery, r))

\* While the shares of the last lottery have not changed, what was paid is one
\* share for every winning ticket collected.
PaidAccounted ==
    LastLottery > 0 /\ LastLottery \notin reopened =>
        paid[LastLottery] =
            PaidCount(LastLottery, 1) * PrizeShare(LastLottery, 1)
            + PaidCount(LastLottery, 2) * PrizeShare(LastLottery, 2)
            + PaidCount(LastLottery, 3) * PrizeShare(LastLottery, 3)
            + PaidCount(LastLottery, 4) * PrizeShare(LastLottery, 4)

\* The contract keeps twice the jackpot, less what it paid out of it.
FundsCover ==
    LastLottery > 0 /\ LastLottery \notin reopened =>
        balance + paid[LastLottery] >= 2 * jackpot[LastLottery]

\* The lottery alone leaves the jackpot at no more than half of the balance.
JackpotAtMostHalf == state.jackpot_percentage_reward <= 50

\* Nor does it change any other of the terms instantiate sets, but for the end of
\* the holders' bonus.
FirstTerms ==
    /\ state.jackpot_percentage_reward = 20
    /\ state.fee_for_drand_worker_in_percentage = 1
    /\ state.token_holder_percentage_fee_reward \in {20, 50}
    /\ state.prize_rank_winner_percentage = <<87, 10, 2, 1>>
    /\ state.price_per_ticket_to_register = 1000000
    /\ state.loterra_staking_contract_address \in StakingContracts

Sold(lottery) == MayLoad(count_tickets, lottery, 0)

\* The price of the tickets being sold is there beside what the last jackpot needs,
\* and each jackpot holds its part of the price of the tickets it was played for.
TicketsBacked ==
    reopened = {} =>
        /\ balance + MayLoad(paid, LastLottery, 0) >=
               2 * MayLoad(jackpot, LastLottery, 0) + 1000000 * Sold(CurrentLottery)
        /\ \A lottery \in 1..LastLottery : jackpot[lottery] >= 199980 * Sold(lottery)

\* Nobody is a winner without a ticket that won.
WinnersWon ==
    \A key \in DOMAIN winner : \E r \in Ranks : winner[key].ranks[r] > 0

LotteryInv ==
    /\ TypeOK
    /\ RankCountsTickets
    /\ PaidWithinJackpot
    /\ PaidAccounted
    /\ FundsCover
    /\ JackpotAtMostHalf
    /\ FirstTerms
    /\ TicketsBacked
    /\ WinnersWon

-----------------------------------------------------------------------------
(* Bookkeeping, access and ordering. *)

\* The three places that count entries agree: the list of players names each
\* buyer of a lottery once, COUNT_PLAYERS is its length and COUNT_TICKETS the
\* number of tickets saved (combination_save updates them one after the other).
CountersAgree ==
    \A lottery \in 1..CurrentLottery :
        LET buyers == {player \in Accounts : <<lottery, player>> \in DOMAIN tickets}
            entered == MayLoad(players, lottery, <<>>)
            slots == UNION {{player} \X DOMAIN tickets[<<lottery, player>>] : player \in buyers}
        IN  /\ {entered[i] : i \in DOMAIN entered} = buyers
            /\ Len(entered) = Cardinality(buyers)
            /\ MayLoad(count_players, lottery, 0) = Cardinality(buyers)
            /\ MayLoad(count_tickets, lottery, 0) = Cardinality(slots)

\* Once the contract is its own admin nobody can unlock the lottery again, so it
\* must not be locked at that moment or ever after (handle_renounce).
RenouncedNeverLocked == state.admin = Contract => ~state.safe_lock

\* Claims and collections of one lottery never run side by side: the doc of the
\* jackpot, "Max amount winners can claim", read for every lottery.
JackpotIsMaximum ==
    \A lottery \in 1..LastLottery : paid[lottery] <= jackpot[lottery]

\* A ticket is only ever sold while the drand round that will decide its lottery
\* is still unpublished: the guard of handle_register, the round computed by
\* handle_play and the block_time_play set by the previous play together.
TicketsSoldBlind ==
    [][tickets' # tickets => ~Published(NextRound(state.block_time_play))]_lotteryVars

\* No drand round decides two lotteries, and the round of a lottery is unpublished
\* when the lottery opens, however late the play before it came
\* (handle_play moves block_time_play, from which both calls compute the round).
FreshRounds ==
    [][LastLottery' # LastLottery =>
          LET next == NextRound(state'.block_time_play)
          IN  /\ next > NextRound(state.block_time_play)
              /\ ~Published(next)]_lotteryVars

\* Playing a lottery settles it: its combination, jackpot and tickets never
\* change again, a winner's ranks stay what they were when it claimed, a prize
\* collected stays collected, and the lotteries before the last one are closed.
ResultsFinal ==
    [][/\ \A lottery \in DOMAIN winning :
              winning'[lottery] = winning[lottery] /\ jackpot'[lottery] = jackpot[lottery]
       /\ \A key \in DOMAIN tickets' : key[1] \in DOMAIN winning =>
              key \in DOMAIN tickets /\ tickets'[key] = tickets[key]
       /\ \A key \in DOMAIN winner :
              /\ winner'[key].ranks = winner[key].ranks
              /\ winner[key].claimed => winner'[key].claimed
       /\ \A key \in DOMAIN winner' : key[1] < LastLottery =>
              key \in DOMAIN winner /\ winner'[key] = winner[key]]_lotteryVars

\* Every payment out of a jackpot belongs to the last lottery and marks exactly
\* one more winner as paid (handle_collect).
OnePaymentPerWinner ==
    [][\A lottery \in DOMAIN paid :
          paid'[lottery] # paid[lottery] =>
              /\ lottery = LastLottery
              /\ Cardinality(PaidWinners(lottery)') = Cardinality(PaidWinners(lottery)) + 1]_lotteryVars

-----------------------------------------------------------------------------
(* The lottery implements the abstract raffle. *)

Served == [lottery \in 1..LastLottery |-> PaidWinners(lottery)]

Prizes ==
    INSTANCE Raffle WITH
        Players <- Accounts, last <- LastLottery, pot <- jackpot, given <- paid,
        served <- Served, void <- reopened

\* Tickets, claims, windows and shares only decide who is served and how much:
\* each settled pot stays as it is and pays every player at most once, all
\* together no more than it holds.
ImplementsRaffle == Prizes!RaffleSpec

=============================================================================
