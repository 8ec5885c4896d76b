---------------------------- MODULE LotteryProofs ----------------------------
(***************************************************************************)
(* Theorems about Lottery, for every value of its constants.               *)
(***************************************************************************)
EXTENDS Lottery, LoterraStateProofs

-----------------------------------------------------------------------------
(* Finite sets of winning tickets. *)

\* WinningTickets and WinningSlots for any tickets and winning combination, so
\* that the lemmas about them speak of the next state as well.
TicketsAt(entries, combination, lottery, player, r) ==
    {i \in DOMAIN entries[<<lottery, player>>] :
        RankOf(entries[<<lottery, player>>][i], combination) = r}

SlotsAt(entries, combination, lottery, some, r) ==
    UNION {{player} \X TicketsAt(entries, combination, lottery, player, r) : player \in some}

\* The tickets of a player that win a rank are finitely many.
LEMMA TicketsAtFinite ==
    ASSUME NEW entries, NEW combination, NEW lottery, NEW player, NEW r,
           entries[<<lottery, player>>] \in Seq(Strings)
    PROVE  /\ IsFiniteSet(TicketsAt(entries, combination, lottery, player, r))
           /\ Cardinality(TicketsAt(entries, combination, lottery, player, r)) \in Nat
<1> DEFINE own == entries[<<lottery, player>>]
<1>1. DOMAIN own = 1..Len(own) /\ Len(own) \in Nat
  OBVIOUS
<1>2. IsFiniteSet(DOMAIN own)
  BY <1>1, FS_Interval
<1>3. TicketsAt(entries, combination, lottery, player, r) \in SUBSET DOMAIN own
  BY DEF TicketsAt
<1>. QED
  BY <1>2, <1>3, FS_Subset, FS_CardinalityType

\* So are the winning tickets of a set of accounts.
LEMMA SlotsAtFinite ==
    ASSUME NEW entries, NEW combination, NEW lottery, NEW some \in SUBSET Accounts, NEW r,
           \A player \in some : entries[<<lottery, player>>] \in Seq(Strings)
    PROVE  /\ IsFiniteSet(SlotsAt(entries, combination, lottery, some, r))
           /\ Cardinality(SlotsAt(entries, combination, lottery, some, r)) \in Nat
<1> DEFINE slots(player) == {player} \X TicketsAt(entries, combination, lottery, player, r)
           S == {slots(player) : player \in some}
           f == [player \in some |-> slots(player)]
<1>1. IsFiniteSet(some)
  BY AccountsFinite, FS_Subset
<1>2. f \in Surjection(some, S)
  BY DEF Surjection
<1>3. IsFiniteSet(S)
  BY <1>1, <1>2, FS_Surjection
<1>4. ASSUME NEW player \in some PROVE IsFiniteSet(slots(player))
  BY TicketsAtFinite, FS_Singleton, FS_Product
<1>5. IsFiniteSet(UNION S)
  BY <1>3, <1>4, FS_UNION
<1>. QED
  BY <1>5, FS_CardinalityType DEF SlotsAt

\* The winning tickets of separate groups of accounts add up.
LEMMA SlotsAtUnion ==
    ASSUME NEW entries, NEW combination, NEW lottery, NEW r,
           NEW some \in SUBSET Accounts, NEW more \in SUBSET Accounts,
           some \cap more = {},
           \A player \in some \cup more : entries[<<lottery, player>>] \in Seq(Strings)
    PROVE  Cardinality(SlotsAt(entries, combination, lottery, some \cup more, r)) =
               Cardinality(SlotsAt(entries, combination, lottery, some, r))
               + Cardinality(SlotsAt(entries, combination, lottery, more, r))
<1> DEFINE A == SlotsAt(entries, combination, lottery, some, r)
           B == SlotsAt(entries, combination, lottery, more, r)
<1>1. SlotsAt(entries, combination, lottery, some \cup more, r) = A \cup B
  BY DEF SlotsAt
<1>2. A \cap B = {}
  BY DEF SlotsAt
<1>3. /\ IsFiniteSet(A) /\ Cardinality(A) \in Nat
      /\ IsFiniteSet(B) /\ Cardinality(B) \in Nat
  BY SlotsAtFinite
<1> HIDE DEF A, B
<1>4. Cardinality(A \cup B) = Cardinality(A) + Cardinality(B)
  <2>1. Cardinality(A \cup B) = Cardinality(A) + Cardinality(B) - Cardinality(A \cap B)
    BY <1>3, FS_Union
  <2>2. Cardinality(A \cap B) = 0
    BY <1>2, FS_EmptySet
  <2>. QED
    BY <1>3, <2>1, <2>2
<1>. QED
  BY <1>1, <1>4 DEF A, B

\* Those of one account are its winning tickets.
LEMMA SlotsAtOfOne ==
    ASSUME NEW entries, NEW combination, NEW lottery, NEW player, NEW r,
           entries[<<lottery, player>>] \in Seq(Strings)
    PROVE  Cardinality(SlotsAt(entries, combination, lottery, {player}, r)) =
               Cardinality(TicketsAt(entries, combination, lottery, player, r))
<1> DEFINE T == TicketsAt(entries, combination, lottery, player, r)
<1>1. SlotsAt(entries, combination, lottery, {player}, r) = {player} \X T
  BY DEF SlotsAt
<1>2. IsFiniteSet(T) /\ Cardinality(T) \in Nat
  BY TicketsAtFinite
<1>3. IsFiniteSet({player}) /\ Cardinality({player}) = 1
  BY FS_Singleton
<1> HIDE DEF T
<1>4. Cardinality({player} \X T) = Cardinality({player}) * Cardinality(T)
  BY <1>2, <1>3, FS_Product
<1>5. Cardinality({player} \X T) = Cardinality(T)
  BY <1>2, <1>3, <1>4
<1>. QED
  BY <1>1, <1>5 DEF T

\* A part of a set of accounts has no more winning tickets than the whole.
LEMMA SlotsAtSubset ==
    ASSUME NEW entries, NEW combination, NEW lottery, NEW r,
           NEW more \in SUBSET Accounts, NEW some \in SUBSET more,
           \A player \in more : entries[<<lottery, player>>] \in Seq(Strings)
    PROVE  Cardinality(SlotsAt(entries, combination, lottery, some, r))
               <= Cardinality(SlotsAt(entries, combination, lottery, more, r))
<1>1. SlotsAt(entries, combination, lottery, some, r)
          \in SUBSET SlotsAt(entries, combination, lottery, more, r)
  BY DEF SlotsAt
<1>2. IsFiniteSet(SlotsAt(entries, combination, lottery, more, r))
  BY SlotsAtFinite
<1>. QED
  BY <1>1, <1>2, FS_Subset

\* The specification's own operators in these terms.
LEMMA WinningTicketsAt ==
    ASSUME NEW lottery, NEW player, NEW r
    PROVE  WinningTickets(lottery, player, r) =
               TicketsAt(tickets, winning[lottery], lottery, player, r)
BY DEF WinningTickets, TicketsAt

LEMMA WinningSlotsAt ==
    ASSUME NEW lottery, NEW some, NEW r
    PROVE  WinningSlots(lottery, some, r) =
               SlotsAt(tickets, winning[lottery], lottery, some, r)
BY DEF WinningSlots, WinningTickets, SlotsAt, TicketsAt

-----------------------------------------------------------------------------
(* Type correctness. *)

\* What TypeOK says of the fields of the state.
LEMMA StateFields ==
    ASSUME TypeOK
    PROVE  /\ balance \in Nat /\ now \in Nat
           /\ state.block_time_play \in Nat
           /\ state.every_block_time_play \in Nat
           /\ state.jackpot_percentage_reward \in 0..100
           /\ state.token_holder_percentage_fee_reward \in 0..100
           /\ state.fee_for_drand_worker_in_percentage \in 0..100
           /\ \A r \in Ranks : state.prize_rank_winner_percentage[r] \in 0..100
           /\ state.price_per_ticket_to_register \in Nat
           /\ state.lottery_counter \in Nat \ {0}
BY DEF TypeOK, State, PrizeSplits, Ranks

\* A play makes the current lottery the last one.
LEMMA PlayAdvances ==
    ASSUME TypeOK, HandlePlay
    PROVE  CurrentLottery' = CurrentLottery + 1 /\ LastLottery' = CurrentLottery
<1>1. state'.lottery_counter = state.lottery_counter + 1
  <2>1. state \in State
    BY DEF TypeOK
  <2>2. \E time, fee : state' = [state EXCEPT !.block_time_play = time,
                                  !.token_holder_percentage_fee_reward = fee,
                                  !.lottery_counter = @ + 1]
    BY DEF HandlePlay
  <2>. QED
    BY <2>1, <2>2 DEF State
<1>2. state.lottery_counter \in Nat
  BY StateFields
<1>. QED
  BY <1>1, <1>2 DEF CurrentLottery, LastLottery

\* What neither plays, registers, claims nor collects leaves the lotteries alone.
LEMMA OtherKeeps ==
    ASSUME TypeOK, AdminCall \/ Environment \/ UNCHANGED lotteryVars
    PROVE  /\ UNCHANGED <<storage, prizes>> /\ LastLottery' = LastLottery
           /\ state'.prize_rank_winner_percentage = state.prize_rank_winner_percentage
<1>1. UNCHANGED <<storage, prizes>>
  BY DEF AdminCall, Environment, NextBlock, AddRandomness, Donate, lotteryVars
<1>2. /\ state'.lottery_counter = state.lottery_counter
      /\ state'.prize_rank_winner_percentage = state.prize_rank_winner_percentage
  <2>1. state \in State
    BY DEF TypeOK
  <2>2. \/ state' = state
        \/ \E locked : state' = [state EXCEPT !.safe_lock = locked]
        \/ \E admin : state' = [state EXCEPT !.admin = admin]
    BY DEF AdminCall, HandleSafeLock, HandleRenounce, Environment, NextBlock,
           AddRandomness, Donate, lotteryVars
  <2>. QED
    BY <2>1, <2>2 DEF State
<1>. QED
  BY <1>1, <1>2 DEF LastLottery

LEMMA TypeInit == LotteryInit => TypeOK
<1> SUFFICES ASSUME LotteryInit PROVE TypeOK
  OBVIOUS
<1>1. state \in State /\ balance \in Nat
  BY AccountsAssumption
  DEF LotteryInit, StateInit, Instantiated, State, Admins, Accounts, PrizeSplits
<1>2. LastLottery = 0
  BY DEF LotteryInit, StateInit, Instantiated, LastLottery
<1>. QED
  BY <1>1, <1>2 DEF LotteryInit, TypeOK, EmptyMap

\* What the rest of the state needs to know of a well-formed winning hash.
LEMMA WinningCombinationType ==
    ASSUME NEW hash \in Hashes
    PROVE  WinningCombination(hash) \in Combinations
<1>1. hash \in Seq(HexDigit) /\ Len(hash) >= 6 /\ Len(hash) \in Nat
  BY LotteryAssumption DEF COMBINATION_LEN
<1>2. \A i \in Position : Len(hash) - 6 + i \in DOMAIN hash
  BY <1>1 DEF Position, COMBINATION_LEN
<1>. QED
  BY <1>1, <1>2 DEF WinningCombination, Combinations, COMBINATION_LEN

LEMMA TypeRegister ==
    ASSUME TypeOK, NEW player \in Accounts, NEW combination \in Batches,
           HandleRegister(player, combination)
    PROVE  TypeOK'
<1> DEFINE key == <<CurrentLottery, player>>
<1>1. combination \in Seq(Strings) /\ Len(combination) \in Nat
  BY LotteryAssumption DEF Batches
<1>2. CurrentLottery \in Nat \ {0} /\ state.price_per_ticket_to_register \in Nat
  BY DEF TypeOK, State, CurrentLottery
<1>3. UNCHANGED <<state, now, prizes, randomness>>
  BY DEF HandleRegister
<1>4. balance' \in Nat
  BY <1>1, <1>2 DEF HandleRegister, TypeOK
<1>5. CurrentLottery' = CurrentLottery /\ LastLottery' = LastLottery
  BY <1>3 DEF CurrentLottery, LastLottery
<1>6. key \in Keys /\ Keys' = Keys /\ RankKeys' = RankKeys
  BY <1>2, <1>5 DEF Keys, RankKeys
<1>7. /\ DOMAIN tickets' = DOMAIN tickets \cup {key}
      /\ \A k \in DOMAIN tickets' : tickets'[k] \in Seq(Strings)
  <2>1. tickets' = Save(tickets, key, MayLoad(tickets, key, <<>>) \o combination)
    BY DEF HandleRegister, CombinationSave
  <2>2. MayLoad(tickets, key, <<>>) \o combination \in Seq(Strings)
    BY <1>1 DEF MayLoad, TypeOK
  <2>. QED
    BY <2>1, <2>2 DEF Save, TypeOK
<1>8. /\ DOMAIN players' \subseteq 1..CurrentLottery
      /\ \A lottery \in DOMAIN players' : players'[lottery] \in Seq(Accounts)
  <2>1. Append(MayLoad(players, CurrentLottery, <<>>), player) \in Seq(Accounts)
    BY DEF MayLoad, TypeOK
  <2>. QED
    BY <1>2, <2>1 DEF HandleRegister, CombinationSave, Save, TypeOK
<1>9. /\ DOMAIN count_players' \subseteq 1..CurrentLottery
      /\ \A lottery \in DOMAIN count_players' : count_players'[lottery] \in Nat
  <2>1. MayLoad(count_players, CurrentLottery, 0) + 1 \in Nat
    BY DEF MayLoad, TypeOK
  <2>. QED
    BY <1>2, <2>1 DEF HandleRegister, CombinationSave, Save, TypeOK
<1>10. /\ DOMAIN count_tickets' \subseteq 1..CurrentLottery
       /\ \A lottery \in DOMAIN count_tickets' : count_tickets'[lottery] \in Nat
  <2>1. MayLoad(count_tickets, CurrentLottery, 0) + Len(combination) \in Nat
    BY <1>1 DEF MayLoad, TypeOK
  <2>. QED
    BY <1>2, <2>1 DEF HandleRegister, CombinationSave, Save, TypeOK
<1>. QED
  BY <1>3, <1>4, <1>5, <1>6, <1>7, <1>8, <1>9, <1>10 DEF TypeOK, prizes

\* A play sets aside part of the balance, and pays the worker out of that part.
LEMMA PotBounds ==
    ASSUME TypeOK
    PROVE  Pot \in 0..balance /\ WorkerFee \in 0..Pot
<1> DEFINE fee == state.fee_for_drand_worker_in_percentage
           part == Percent(Pot, fee)
<1>1. fee \in 0..100
  BY StateFields
<1>2. Pot \in 0..balance
  BY StateFields, PercentBounds DEF Pot
<1>3. Pot \in Nat
  BY <1>2, StateFields
<1>4. part \in 0..Pot
  BY <1>1, <1>3, PercentBounds
<1>5. part \in Nat
  BY <1>3, <1>4
<1>6. WorkerFee \in 0..part
  BY <1>1, <1>5, PercentBounds DEF WorkerFee
<1>. QED
  BY <1>2, <1>3, <1>4, <1>6

LEMMA TypePlay ==
    ASSUME TypeOK, HandlePlay
    PROVE  TypeOK'
<1> DEFINE n == CurrentLottery
           round == NextRound(state.block_time_play)
<1>1. n \in Nat \ {0} /\ LastLottery = n - 1
  BY DEF TypeOK, State, CurrentLottery, LastLottery
<1>2. Pot \in 0..balance /\ WorkerFee \in 0..Pot
  BY PotBounds
<1>3. balance' \in Nat
  <2>1. Spend(WorkerFee) \in 0..WorkerFee
    BY <1>2, SpendBounds
  <2>. QED
    BY <1>2, <2>1, StateFields DEF HandlePlay
<1>4. state' \in State
  <2>1. (now + Seconds(state.every_block_time_play)) \div NANOS_PER_SECOND \in Nat
    <3>1. NANOS_PER_SECOND \in Nat \ {0}
      BY LotteryAssumption
    <3>2. now \in Nat /\ state.every_block_time_play \in Nat
      BY StateFields
    <3>3. now + Seconds(state.every_block_time_play) \in Nat
      BY <3>1, <3>2 DEF Seconds
    <3>. QED
      BY <3>1, <3>3, Division
  <2>2. HoldersFeeAtPlay \in 0..100
    BY DEF HoldersFeeAtPlay, TypeOK, State
  <2>3. state.lottery_counter + 1 \in Nat \ {0}
    BY DEF TypeOK, State
  <2>. QED
    BY <2>1, <2>2, <2>3 DEF HandlePlay, NextPlayTime, TypeOK, State
<1>5. CurrentLottery' = n + 1 /\ LastLottery' = n
  BY PlayAdvances
<1>6. winning' \in [1..n -> Combinations]
  <2>1. WinningCombination(randomness[round]) \in Combinations
    BY WinningCombinationType DEF HandlePlay, TypeOK
  <2>. QED
    BY <1>1, <2>1 DEF HandlePlay, Save, TypeOK
<1>7. jackpot' \in [1..n -> Nat]
  <2>1. Pot - WorkerFee \in Nat
    BY <1>2 DEF TypeOK
  <2>. QED
    BY <1>1, <2>1 DEF HandlePlay, Save, TypeOK
<1>8. paid' \in [1..n -> Nat]
  BY <1>1 DEF HandlePlay, Save, TypeOK
<1>9. Keys \subseteq Keys' /\ RankKeys \subseteq RankKeys'
  BY <1>1, <1>5 DEF Keys, RankKeys
<1>10. UNCHANGED <<now, storage, winner, rank, randomness, reopened>>
  BY DEF HandlePlay
<1>. QED
  BY <1>1, <1>3, <1>4, <1>5, <1>6, <1>7, <1>8, <1>9, <1>10 DEF TypeOK, storage

\* How often a player's tickets win each rank.
LEMMA RanksWonType ==
    ASSUME TypeOK, NEW lottery, NEW player, <<lottery, player>> \in DOMAIN tickets
    PROVE  RanksWon(lottery, player) \in [Ranks -> Nat]
<1>1. tickets[<<lottery, player>>] \in Seq(Strings)
  BY DEF TypeOK
<1>2. \A r \in Ranks : Cardinality(WinningTickets(lottery, player, r)) \in Nat
  BY <1>1, TicketsAtFinite, WinningTicketsAt
<1>. QED
  BY <1>2 DEF RanksWon

LEMMA TypeClaim ==
    ASSUME TypeOK, NEW addresses \in SUBSET Accounts, HandleClaim(addresses)
    PROVE  TypeOK'
<1> DEFINE n == LastLottery
           some == Claimants(n, addresses)
           claims == {<<n, player>> : player \in some}
           won(r) == Cardinality(WinningSlots(n, some, r))
<1>1. n \in 1..LastLottery
  BY DEF HandleClaim, TypeOK
<1>2. some \in SUBSET Accounts /\ claims \subseteq DOMAIN tickets
  BY DEF Claimants
<1>3. /\ UNCHANGED <<state, balance, now, storage, winning, jackpot, paid, randomness>>
      /\ CurrentLottery' = CurrentLottery /\ LastLottery' = LastLottery
      /\ Keys' = Keys /\ RankKeys' = RankKeys
  BY DEF HandleClaim, CurrentLottery, LastLottery, Keys, RankKeys
<1>4. /\ DOMAIN winner' = DOMAIN winner \cup claims
      /\ \A key \in DOMAIN winner' : winner'[key] \in Winning
  <2>1. \A key \in claims : RanksWon(n, key[2]) \in [Ranks -> Nat]
    BY <1>2, RanksWonType
  <2>2. winner' = [key \in DOMAIN winner \cup claims |->
                     IF key \in claims
                     THEN [claimed |-> FALSE, ranks |-> RanksWon(n, key[2])]
                     ELSE winner[key]]
    BY DEF HandleClaim, SaveWinners, WinnersAfter, RanksAfter
  <2>3. ASSUME NEW key \in DOMAIN winner'
        PROVE  winner'[key] \in Winning
    BY <2>1, <2>2 DEF TypeOK, Winning
  <2>. QED
    BY <2>2, <2>3
<1>5. \A key \in DOMAIN winner' : key \in DOMAIN tickets /\ key[1] \in 1..LastLottery
  BY <1>1, <1>2, <1>4 DEF TypeOK
<1>6. /\ DOMAIN rank' \subseteq RankKeys
      /\ \A key \in DOMAIN rank' : rank'[key] \in Nat \ {0}
  <2> DEFINE hit == {<<n, r>> : r \in {r \in Ranks : won(r) > 0}}
  <2>1. rank' = [key \in DOMAIN rank \cup hit |->
                   MayLoad(rank, key, 0) + (IF key \in hit THEN won(key[2]) ELSE 0)]
    BY DEF HandleClaim, SaveWinners, WinnersAfter, RanksAfter
  <2>2. hit \subseteq RankKeys
    BY <1>1 DEF RankKeys
  <2>3. \A r \in Ranks : won(r) \in Nat
    BY <1>2, SlotsAtFinite, WinningSlotsAt DEF TypeOK
  <2>4. \A key \in hit : won(key[2]) \in Nat \ {0}
    BY <2>3
  <2>5. ASSUME NEW key \in DOMAIN rank'
        PROVE  rank'[key] \in Nat \ {0}
    <3>1. CASE key \in DOMAIN rank
      <4>1. rank[key] \in Nat \ {0}
        BY <3>1 DEF TypeOK
      <4>. QED
        BY <2>1, <2>4, <3>1, <4>1 DEF MayLoad
    <3>2. CASE key \notin DOMAIN rank
      BY <2>1, <2>4, <2>5, <3>2 DEF MayLoad
    <3>. QED
      BY <3>1, <3>2
  <2>6. DOMAIN rank' = DOMAIN rank \cup hit
    BY <2>1
  <2>. QED
    BY <2>2, <2>5, <2>6 DEF TypeOK
<1>7. reopened' \subseteq 1..LastLottery
  BY <1>1 DEF HandleClaim, TypeOK
<1>. QED
  BY <1>3, <1>4, <1>5, <1>6, <1>7 DEF TypeOK, storage

\* One winning ticket's prize, and a winner's, are amounts.
LEMMA PrizeType ==
    ASSUME TypeOK, LastLottery \in DOMAIN jackpot
    PROVE  /\ \A r \in Ranks : PrizeShare(LastLottery, r) \in Nat
           /\ \A ranks \in [Ranks -> Nat] : TotalPrize(LastLottery, ranks) \in Nat
<1>1. jackpot[LastLottery] \in Nat
  BY DEF TypeOK
<1>2. ASSUME NEW r \in Ranks PROVE PrizeShare(LastLottery, r) \in Nat
  <2> DEFINE count == MayLoad(rank, <<LastLottery, r>>, 0)
             part == Percent(jackpot[LastLottery], state.prize_rank_winner_percentage[r])
  <2>1. count \in Nat
    BY DEF MayLoad, TypeOK
  <2>2. state.prize_rank_winner_percentage[r] \in 0..100
    BY StateFields
  <2>3. part \in 0..jackpot[LastLottery]
    BY <1>1, <2>2, PercentBounds
  <2>4. part \in Nat
    BY <1>1, <2>3
  <2>5. count # 0 => part \div count \in Nat
    BY <2>1, <2>4, Division
  <2>. QED
    BY <2>5 DEF PrizeShare
<1>3. ASSUME NEW ranks \in [Ranks -> Nat] PROVE TotalPrize(LastLottery, ranks) \in Nat
  <2>1. \A r \in Ranks : ranks[r] \in Nat /\ PrizeShare(LastLottery, r) \in Nat
    BY <1>2
  <2>2. 1 \in Ranks /\ 2 \in Ranks /\ 3 \in Ranks /\ 4 \in Ranks
    BY DEF Ranks
  <2>. QED
    BY <2>1, <2>2 DEF TotalPrize
<1>. QED
  BY <1>2, <1>3

\* A prize covers its two coins and their taxes.
LEMMA PrizeInTwo ==
    ASSUME TypeOK, NEW total \in Nat
    PROVE  LET holders == Percent(total, state.token_holder_percentage_fee_reward)
           IN  /\ holders \in 0..total
               /\ Spend(total - holders) + Spend(holders) \in 0..total
<1> DEFINE holders == Percent(total, state.token_holder_percentage_fee_reward)
<1>1. holders \in 0..total
  BY StateFields, PercentBounds
<1>2. holders \in Nat /\ total - holders \in Nat
  BY <1>1
<1> HIDE DEF holders
<1>3. Spend(holders) \in 0..holders /\ Spend(total - holders) \in 0..(total - holders)
  BY <1>2, SpendBounds
<1>4. Spend(total - holders) + Spend(holders) \in 0..total
  BY <1>1, <1>3
<1>. QED
  BY <1>1, <1>4 DEF holders

\* A collection takes no more than the winner's total prize from the balance,
\* the holders' share and the two taxes included.
LEMMA CollectSpends ==
    ASSUME TypeOK, NEW player \in Accounts, HandleCollect(player)
    PROVE  /\ PrizeOf(player) \in Nat
           /\ CollectCost(player) \in 0..PrizeOf(player)
           /\ balance' = balance - CollectCost(player) /\ balance' \in Nat
           /\ paid' = [paid EXCEPT ![LastLottery] = @ + PrizeOf(player)]
<1> DEFINE total == PrizeOf(player)
           spent == CollectCost(player)
<1>1. total \in Nat
  BY PrizeType DEF HandleCollect, Collectable, PrizeOf, TypeOK, Winning
<1>2. spent \in 0..total
  <2>1. total = PrizeOf(player)
    OBVIOUS
  <2> HIDE DEF total
  <2>. QED
    BY <1>1, <2>1, PrizeInTwo DEF CollectCost, PlayerPart, HoldersPart
<1>3. balance' = balance - spent /\ spent <= balance
  BY DEF HandleCollect, Collectable
<1>4. balance \in Nat
  BY StateFields
<1>5. paid' = [paid EXCEPT ![LastLottery] = @ + total]
  BY DEF HandleCollect
<1> HIDE DEF total, spent
<1>6. balance' \in Nat
  BY <1>1, <1>2, <1>3, <1>4
<1>. QED
  BY <1>1, <1>2, <1>3, <1>5, <1>6 DEF total, spent

LEMMA TypeCollect ==
    ASSUME TypeOK, NEW player \in Accounts, HandleCollect(player)
    PROVE  TypeOK'
<1>1. /\ UNCHANGED <<state, now, storage, winning, jackpot, rank, randomness, reopened>>
      /\ CurrentLottery' = CurrentLottery /\ LastLottery' = LastLottery
      /\ Keys' = Keys /\ RankKeys' = RankKeys
  BY DEF HandleCollect, Collectable, CurrentLottery, LastLottery, Keys, RankKeys
<1>2. balance' \in Nat
  BY CollectSpends
<1>3. paid' \in [1..LastLottery -> Nat]
  <2> DEFINE total == PrizeOf(player)
  <2>1. total \in Nat /\ paid' = [paid EXCEPT ![LastLottery] = @ + total]
    BY CollectSpends
  <2>2. paid \in [1..LastLottery -> Nat] /\ LastLottery \in 1..LastLottery
    BY DEF TypeOK, HandleCollect, Collectable
  <2>3. paid[LastLottery] + total \in Nat
    BY <2>1, <2>2
  <2>. QED
    BY <2>1, <2>2, <2>3
<1>4. /\ DOMAIN winner' = DOMAIN winner
      /\ \A key \in DOMAIN winner' : winner'[key] \in Winning
  BY DEF HandleCollect, Collectable, MarkClaimed, TypeOK, Winning
<1>. QED
  BY <1>1, <1>2, <1>3, <1>4 DEF TypeOK, storage

LEMMA TypeAdmin ==
    ASSUME TypeOK, AdminCall
    PROVE  TypeOK'
<1>1. UNCHANGED <<balance, now, storage, prizes, randomness>>
  BY DEF AdminCall, HandleSafeLock, HandleRenounce
<1>2. \/ state' = [state EXCEPT !.safe_lock = ~@]
      \/ state' = [state EXCEPT !.admin = Contract]
  BY DEF AdminCall, HandleSafeLock, HandleRenounce
<1>3. state' \in State
  <2>1. state \in State /\ Contract \in Admins
    BY DEF TypeOK, Admins
  <2>2. CASE state' = [state EXCEPT !.safe_lock = ~@]
    <3>1. (~state.safe_lock) \in BOOLEAN
      OBVIOUS
    <3>. QED
      BY <2>1, <2>2, <3>1 DEF State
  <2>3. CASE state' = [state EXCEPT !.admin = Contract]
    BY <2>1, <2>3 DEF State
  <2>. QED
    BY <1>2, <2>2, <2>3
<1>4. CurrentLottery' = CurrentLottery /\ LastLottery' = LastLottery
  BY <1>2 DEF TypeOK, State, CurrentLottery, LastLottery
<1>5. Keys' = Keys /\ RankKeys' = RankKeys
  BY <1>4 DEF Keys, RankKeys
<1>. QED
  BY <1>1, <1>3, <1>4, <1>5 DEF TypeOK, storage, prizes

LEMMA TypeEnvironment ==
    ASSUME TypeOK, Environment
    PROVE  TypeOK'
<1>1. /\ UNCHANGED <<state, storage, prizes>>
      /\ CurrentLottery' = CurrentLottery /\ LastLottery' = LastLottery
  BY DEF Environment, NextBlock, AddRandomness, Donate, CurrentLottery, LastLottery
<1>2. Keys' = Keys /\ RankKeys' = RankKeys
  BY <1>1 DEF Keys, RankKeys
<1>3. now' \in Nat /\ balance' \in Nat
  <2>1. BlockIntervals \subseteq Nat /\ Donations \subseteq Nat
    BY LotteryAssumption
  <2>2. now \in Nat /\ balance \in Nat
    BY StateFields
  <2>. QED
    BY <2>1, <2>2 DEF Environment, NextBlock, AddRandomness, Donate
<1>4. /\ DOMAIN randomness' \subseteq Int
      /\ \A round \in DOMAIN randomness' : randomness'[round] \in Hashes
  <2>1. CASE randomness' = randomness
    BY <2>1 DEF TypeOK
  <2>2. ASSUME NEW hash \in Hashes, AddRandomness(hash)
        PROVE  /\ DOMAIN randomness' \subseteq Int
               /\ \A round \in DOMAIN randomness' : randomness'[round] \in Hashes
    <3>1. NextRound(state.block_time_play) \in Int
      BY StateFields, LotteryAssumption DEF NextRound
    <3>. QED
      BY <2>2, <3>1 DEF AddRandomness, Save, TypeOK
  <2>. QED
    BY <2>1, <2>2 DEF Environment, NextBlock, Donate
<1>. QED
  BY <1>1, <1>2, <1>3, <1>4 DEF TypeOK, storage, prizes

LEMMA TypeStutter ==
    ASSUME TypeOK, UNCHANGED lotteryVars
    PROVE  TypeOK'
<1>1. Keys' = Keys /\ RankKeys' = RankKeys /\ LastLottery' = LastLottery /\ CurrentLottery' = CurrentLottery
  BY DEF lotteryVars, Keys, RankKeys, CurrentLottery, LastLottery
<1>. QED
  BY <1>1 DEF TypeOK, lotteryVars, storage, prizes

LEMMA TypeStep == TypeOK /\ [LotteryNext]_lotteryVars => TypeOK'
BY TypeRegister, TypePlay, TypeClaim, TypeCollect, TypeAdmin, TypeEnvironment, TypeStutter
DEF LotteryNext, LotteryCall

\* The storage of the contract keeps its types and its keys in every execution,
\* whatever the number of accounts, the ticket strings and the schedule.
THEOREM LotteryTypeCorrect == LotterySpec => []TypeOK
BY TypeInit, TypeStep, PTL DEF LotterySpec

-----------------------------------------------------------------------------
(* Access and ordering. *)

\* Division rounds towards minus infinity, also below zero.
LEMMA FloorDivision ==
    ASSUME NEW a \in Int, NEW b \in Nat \ {0}
    PROVE  a \div b \in Int /\ a < b * (a \div b) + b
BY Z3

\* The round that decides a lottery is published after the time it is due.
LEMMA RoundAfterPlay ==
    ASSUME NEW play \in Nat
    PROVE  PublishTime(NextRound(play)) \in Int /\ PublishTime(NextRound(play)) > play
<1> DEFINE P == DRAND_PERIOD
           q == (play - DRAND_GENESIS_TIME) \div P
           s == DRAND_NEXT_ROUND_SECURITY
<1>1. /\ DRAND_GENESIS_TIME \in Nat /\ P \in Nat /\ P > 0
      /\ s \in Nat /\ s >= 2
  BY LotteryAssumption
<1>2. q \in Int /\ play - DRAND_GENESIS_TIME < P * q + P
  BY <1>1, FloorDivision
<1>3. PublishTime(NextRound(play)) = DRAND_GENESIS_TIME + (q + s - 1) * P
  BY <1>1, <1>2 DEF PublishTime, NextRound
<1> HIDE DEF q, s, P
<1>4. (q + s - 1) * P = P * q + P + (s - 2) * P
  BY <1>1, <1>2
<1>5. (s - 2) * P \in Nat
  BY <1>1
<1>. QED
  BY <1>1, <1>2, <1>3, <1>4, <1>5

LEMMA BlindStep == TypeOK /\ [LotteryNext]_lotteryVars =>
    (tickets' # tickets => ~Published(NextRound(state.block_time_play)))
<1> SUFFICES ASSUME TypeOK, [LotteryNext]_lotteryVars, tickets' # tickets
             PROVE  ~Published(NextRound(state.block_time_play))
  OBVIOUS
<1>1. now <= Seconds(state.block_time_play)
  BY DEF LotteryNext, LotteryCall, HandleRegister, HandlePlay, HandleClaim, HandleCollect, Collectable,
         AdminCall, Environment, NextBlock, AddRandomness, Donate, lotteryVars, storage
<1> DEFINE play == state.block_time_play
           publish == PublishTime(NextRound(play))
<1>2. play \in Nat /\ now \in Nat
  BY StateFields
<1>3. publish \in Int /\ publish > play
  BY <1>2, RoundAfterPlay
<1>4. NANOS_PER_SECOND \in Nat /\ NANOS_PER_SECOND > 0
  BY LotteryAssumption
<1> HIDE DEF play, publish
<1>5. publish * NANOS_PER_SECOND > play * NANOS_PER_SECOND
  <2>1. publish * NANOS_PER_SECOND =
            play * NANOS_PER_SECOND + (publish - play) * NANOS_PER_SECOND
    BY <1>2, <1>3, <1>4
  <2>2. (publish - play) * NANOS_PER_SECOND > 0
    BY <1>2, <1>3, <1>4
  <2>. QED
    BY <1>2, <1>3, <1>4, <2>1, <2>2
<1>6. play * NANOS_PER_SECOND \in Int /\ publish * NANOS_PER_SECOND \in Int
  BY <1>2, <1>3, <1>4
<1>. QED
  BY <1>1, <1>2, <1>5, <1>6 DEF Published, Seconds, play, publish

\* For every drand genesis and period, and a security offset of two rounds or
\* more: no ticket is sold once the randomness that decides it is public.
THEOREM TicketsAreBlind == LotterySpec => TicketsSoldBlind
BY BlindStep, LotteryTypeCorrect, PTL DEF LotterySpec, TicketsSoldBlind

\* Time does not go back.
LEMMA TimeGrows == ASSUME TypeOK, [LotteryNext]_lotteryVars PROVE now' >= now
<1>1. now \in Nat /\ BlockIntervals \subseteq Nat
  BY LotteryAssumption DEF TypeOK
<1>2. now' = now \/ \E interval \in BlockIntervals : now' = now + interval
  BY DEF LotteryNext, LotteryCall, HandleRegister, HandlePlay, HandleClaim, HandleCollect, Collectable,
         AdminCall, Environment, NextBlock, AddRandomness, Donate, lotteryVars
<1>. QED
  BY <1>1, <1>2

\* Terrand holds no round before drand publishes it: the other half of FreshRounds.
DrawnRounds == \A round \in DOMAIN randomness : Published(round)

LEMMA DrawnStep ==
    ASSUME TypeOK, TypeOK', DrawnRounds, [LotteryNext]_lotteryVars
    PROVE  DrawnRounds'
<1>1. now \in Nat /\ now' \in Nat /\ now' >= now
  BY TimeGrows DEF TypeOK
<1>2. \A round \in Int : Seconds(PublishTime(round)) \in Int
  BY LotteryAssumption DEF Seconds, PublishTime
<1>3. \A round \in Int : Published(round) => Published(round)'
  <2> SUFFICES ASSUME NEW round \in Int, Published(round) PROVE Published(round)'
    OBVIOUS
  <2> DEFINE at == Seconds(PublishTime(round))
  <2>1. at \in Int /\ at <= now
    BY <1>2 DEF Published
  <2>2. at <= now'
    <3> HIDE DEF at
    <3>. QED
      BY <1>1, <2>1
  <2>. QED
    BY <2>2 DEF Published, Seconds, PublishTime
<1>4. DOMAIN randomness \subseteq Int /\ DOMAIN randomness' \subseteq Int
  BY DEF TypeOK
<1>5. \/ randomness' = randomness
      \/ \E round, hash : Published(round) /\ randomness' = Save(randomness, round, hash)
  BY DEF LotteryNext, LotteryCall, HandleRegister, HandlePlay, HandleClaim, HandleCollect, Collectable,
         AdminCall, Environment, NextBlock, AddRandomness, Donate, lotteryVars
<1>6. \A round \in DOMAIN randomness' : Published(round)
  <2>1. CASE randomness' = randomness
    BY <2>1 DEF DrawnRounds
  <2>2. ASSUME NEW round, NEW hash, Published(round), randomness' = Save(randomness, round, hash)
        PROVE  \A k \in DOMAIN randomness' : Published(k)
    <3>1. DOMAIN randomness' = DOMAIN randomness \cup {round}
      BY <2>2, SaveMap
    <3>. QED
      BY <2>2, <3>1 DEF DrawnRounds
  <2>. QED
    BY <1>5, <2>1, <2>2
<1>. QED
  BY <1>3, <1>4, <1>6 DEF DrawnRounds

\* What lies within a quotient's multiples.
LEMMA QuotientAtLeast ==
    ASSUME NEW a \in Int, NEW b \in Int, NEW n \in Nat \ {0}, a * n <= b
    PROVE  a <= b \div n
<1> DEFINE q == b \div n
<1>1. q \in Int /\ b < n * q + n
  BY FloorDivision
<1> HIDE DEF q
<1>2. SUFFICES ASSUME a >= q + 1 PROVE FALSE
  BY <1>1 DEF q
<1>3. a * n = n * q + n + (a - q - 1) * n /\ (a - q - 1) * n >= 0
  BY <1>1, <1>2
<1>. QED
  BY <1>1, <1>3

\* The round of a lottery due at time play is later than any published by then.
LEMMA RoundLater ==
    ASSUME NEW play \in Nat, NEW early \in Int, PublishTime(early) <= play
    PROVE  NextRound(play) > early
<1> DEFINE n == NextRound(play)
<1>1. DRAND_GENESIS_TIME \in Nat /\ DRAND_PERIOD \in Nat /\ DRAND_PERIOD > 0
      /\ DRAND_NEXT_ROUND_SECURITY \in Nat
  BY LotteryAssumption
<1>2. n \in Int
  BY <1>1, FloorDivision DEF NextRound
<1>3. PublishTime(n) \in Int /\ PublishTime(n) > play
  BY RoundAfterPlay
<1> HIDE DEF n
<1>4. SUFFICES ASSUME n <= early PROVE FALSE
  BY <1>2 DEF n
<1>5. (early - 1) * DRAND_PERIOD = (n - 1) * DRAND_PERIOD + (early - n) * DRAND_PERIOD
      /\ (early - n) * DRAND_PERIOD >= 0
  BY <1>1, <1>2, <1>4
<1>. QED
  BY <1>1, <1>2, <1>3, <1>5 DEF PublishTime

\* FreshRounds, of one step.
FreshPlay ==
    LET next == NextRound(state'.block_time_play)
    IN  next > NextRound(state.block_time_play) /\ ~Published(next)

LEMMA FreshStep ==
    ASSUME TypeOK, TypeOK', DrawnRounds, HandlePlay
    PROVE  FreshPlay
<1> DEFINE N == NANOS_PER_SECOND
           later == now + Seconds(state.every_block_time_play)
           play == NextPlayTime
           before == NextRound(state.block_time_play)
           publish == PublishTime(NextRound(play))
<1>1. now \in Nat /\ later \in Nat /\ N \in Nat \ {0} /\ later >= now
  BY StateFields, LotteryAssumption DEF Seconds
<1>2. state'.block_time_play = play
  BY DEF HandlePlay, TypeOK, State
<1>3. play \in Nat
  BY <1>2 DEF TypeOK, State
<1>4. play = later \div N
  BY DEF NextPlayTime
<1>5. before \in Int /\ PublishTime(before) * N <= now
  BY DEF HandlePlay, DrawnRounds, Published, Seconds, TypeOK
<1>6. PublishTime(before) \in Int
  BY <1>5, LotteryAssumption DEF PublishTime
<1>7. publish \in Int /\ publish > play
  BY <1>3, RoundAfterPlay
<1> HIDE DEF N, later, before, play, publish
<1>8. PublishTime(before) <= play
  <2>1. PublishTime(before) * N <= later
    BY <1>1, <1>5, <1>6
  <2>. QED
    BY <1>1, <1>4, <1>6, <2>1, QuotientAtLeast
<1>9. NextRound(play) > before
  BY <1>3, <1>5, <1>8, RoundLater
<1>10. publish * N > now
  <2>1. later < N * play + N
    BY <1>1, <1>4, FloorDivision
  <2>2. publish * N = N * play + N + (publish - play - 1) * N
        /\ (publish - play - 1) * N >= 0
    BY <1>1, <1>3, <1>7
  <2>. QED
    BY <1>1, <1>3, <1>7, <2>1, <2>2
<1>11. ~Published(NextRound(play))
  <2>1. publish * N \in Int
    BY <1>1, <1>7
  <2>. QED
    BY <1>1, <1>10, <2>1 DEF Published, Seconds, publish, N
<1>. QED
  BY <1>2, <1>9, <1>11 DEF FreshPlay, before

\* Only a play changes which lottery is the last one.
LEMMA LastMovesByPlay ==
    ASSUME TypeOK, [LotteryNext]_lotteryVars, LastLottery' # LastLottery
    PROVE  HandlePlay
BY OtherKeeps DEF LotteryNext, LotteryCall, HandleRegister, HandleClaim, HandleCollect, Collectable,
                  LastLottery

\* Whatever the period of the lottery and of drand and however late a play comes:
\* each lottery is decided by a later round than the one before, which nobody
\* knows when it opens.
THEOREM RoundsAreFresh == LotterySpec => FreshRounds
<1>1. LotteryInit => DrawnRounds
  BY DEF LotteryInit, EmptyMap, DrawnRounds
<1>2. TypeOK /\ TypeOK' /\ DrawnRounds /\ [LotteryNext]_lotteryVars => DrawnRounds'
  BY DrawnStep
<1>3. TypeOK /\ TypeOK' /\ DrawnRounds /\ [LotteryNext]_lotteryVars
          => [LastLottery' # LastLottery =>
                 LET next == NextRound(state'.block_time_play)
                 IN  /\ next > NextRound(state.block_time_play)
                     /\ ~Published(next)]_lotteryVars
  BY FreshStep, LastMovesByPlay DEF FreshPlay
<1>. QED
  BY <1>1, <1>2, <1>3, LotteryTypeCorrect, PTL DEF LotterySpec, FreshRounds

LEMMA RenouncedStep ==
    TypeOK /\ RenouncedNeverLocked /\ [LotteryNext]_lotteryVars => RenouncedNeverLocked'
<1> SUFFICES ASSUME TypeOK, RenouncedNeverLocked, [LotteryNext]_lotteryVars
             PROVE  RenouncedNeverLocked'
  OBVIOUS
<1>1. ASSUME NEW sender \in Accounts, HandleSafeLock(sender)
      PROVE  RenouncedNeverLocked'
  <2>1. state'.admin # Contract
    BY <1>1, AccountsAssumption DEF HandleSafeLock, TypeOK, State
  <2>. QED
    BY <2>1 DEF RenouncedNeverLocked
<1>2. ASSUME NEW sender \in Accounts, HandleRenounce(sender)
      PROVE  RenouncedNeverLocked'
  <2>1. ~state'.safe_lock
    BY <1>2 DEF HandleRenounce, TypeOK, State
  <2>. QED
    BY <2>1 DEF RenouncedNeverLocked
<1>3. CASE HandlePlay
  <2>1. ~state'.safe_lock
    BY <1>3 DEF HandlePlay, TypeOK, State
  <2>. QED
    BY <2>1 DEF RenouncedNeverLocked
<1>4. CASE UNCHANGED state
  BY <1>4 DEF RenouncedNeverLocked
<1>. QED
  BY <1>1, <1>2, <1>3, <1>4
  DEF LotteryNext, LotteryCall, HandleRegister, HandleClaim, HandleCollect, Collectable, AdminCall,
      Environment, NextBlock, AddRandomness, Donate, lotteryVars

\* Nobody but the contract answers for a renounced contract, and the contract
\* does not call itself: it never ends up locked with no one to unlock it.
THEOREM NeverLockedForGood == LotterySpec => []RenouncedNeverLocked
<1>1. LotteryInit => RenouncedNeverLocked
  BY DEF LotteryInit, StateInit, Instantiated, RenouncedNeverLocked
<1>. QED
  BY <1>1, RenouncedStep, LotteryTypeCorrect, PTL DEF LotterySpec

-----------------------------------------------------------------------------
(* Tickets. *)

LEMMA WellFormedRegister ==
    ASSUME TypeOK, TicketsWellFormed,
           NEW player \in Accounts, NEW combination \in Batches,
           HandleRegister(player, combination)
    PROVE  TicketsWellFormed'
<1> DEFINE key == <<CurrentLottery, player>>
           old == MayLoad(tickets, key, <<>>)
<1>1. /\ tickets' = Save(tickets, key, old \o combination)
      /\ \A i \in DOMAIN combination : IsLowerHex(combination[i])
  BY DEF HandleRegister, CombinationSave
<1>2. combination \in Seq(Strings) /\ old \in Seq(Strings)
  BY DEF Batches, MayLoad, TypeOK
<1>3. \A i \in DOMAIN combination : combination[i] \in Combinations
  <2> SUFFICES ASSUME NEW i \in DOMAIN combination PROVE combination[i] \in Combinations
    OBVIOUS
  <2>1. combination[i] \in Seq(Symbol)
    BY <1>2, LotteryAssumption
  <2>2. Len(combination[i]) = 6 /\ \A j \in DOMAIN combination[i] : combination[i][j] \in HexDigit
    BY <1>1 DEF IsLowerHex, COMBINATION_LEN
  <2>. QED
    BY <2>1, <2>2 DEF Combinations, Position, COMBINATION_LEN
<1>4. \A i \in DOMAIN old : old[i] \in Combinations
  BY DEF TicketsWellFormed, MayLoad
<1>5. \A i \in DOMAIN (old \o combination) : (old \o combination)[i] \in Combinations
  <2> SUFFICES ASSUME NEW i \in DOMAIN (old \o combination)
               PROVE  (old \o combination)[i] \in Combinations
    OBVIOUS
  <2> HIDE DEF old
  <2>1. CASE i <= Len(old)
    BY <1>2, <1>4, <2>1
  <2>2. CASE i > Len(old)
    BY <1>2, <1>3, <2>2
  <2>. QED
    BY <1>2, <2>1, <2>2
<1>. QED
  BY <1>1, <1>5 DEF TicketsWellFormed, Save

LEMMA WellFormedStep ==
    TypeOK /\ TicketsWellFormed /\ [LotteryNext]_lotteryVars => TicketsWellFormed'
<1> SUFFICES ASSUME TypeOK, TicketsWellFormed, [LotteryNext]_lotteryVars
             PROVE  TicketsWellFormed'
  OBVIOUS
<1>1. CASE tickets' = tickets
  BY <1>1 DEF TicketsWellFormed
<1>2. CASE tickets' # tickets
  <2>1. PICK player \in Accounts, combination \in Batches : HandleRegister(player, combination)
    BY <1>2 DEF LotteryNext, LotteryCall, HandlePlay, HandleClaim, HandleCollect, Collectable, AdminCall,
                Environment, NextBlock, AddRandomness, Donate, lotteryVars, storage
  <2>. QED
    BY <2>1, WellFormedRegister
<1>. QED
  BY <1>1, <1>2

\* Only combinations are ever stored, so handle_claim never compares a ticket
\* that is shorter than the winning combination.
THEOREM StoredWellFormed == LotterySpec => []TicketsWellFormed
<1>1. LotteryInit => TicketsWellFormed
  BY DEF LotteryInit, EmptyMap, TicketsWellFormed
<1>. QED
  BY <1>1, WellFormedStep, LotteryTypeCorrect, PTL DEF LotterySpec

-----------------------------------------------------------------------------
(* CountersAgree. *)

BuyersAt(entries, lottery) == {player \in Accounts : <<lottery, player>> \in DOMAIN entries}

\* The tickets of a lottery, each as its buyer and its position.
HeldAt(entries, lottery) ==
    UNION {{player} \X DOMAIN entries[<<lottery, player>>] : player \in BuyersAt(entries, lottery)}

\* CountersAgree of one lottery, for any value of the variables.
Agree(entries, lists, people, sold, lottery) ==
    LET entered == MayLoad(lists, lottery, <<>>)
    IN  /\ {entered[i] : i \in DOMAIN entered} = BuyersAt(entries, lottery)
        /\ Len(entered) = Cardinality(BuyersAt(entries, lottery))
        /\ MayLoad(people, lottery, 0) = Cardinality(BuyersAt(entries, lottery))
        /\ MayLoad(sold, lottery, 0) = Cardinality(HeldAt(entries, lottery))

LEMMA CountersMeaning ==
    /\ CountersAgree <=>
          \A lottery \in 1..CurrentLottery :
              Agree(tickets, players, count_players, count_tickets, lottery)
    /\ CountersAgree' <=>
          \A lottery \in 1..CurrentLottery' :
              Agree(tickets', players', count_players', count_tickets', lottery)
BY DEF CountersAgree, Agree, BuyersAt, HeldAt

LEMMA BuyersFinite ==
    ASSUME NEW entries, NEW lottery
    PROVE  IsFiniteSet(BuyersAt(entries, lottery))
BY AccountsFinite, FS_Subset DEF BuyersAt

LEMMA HeldFinite ==
    ASSUME NEW entries, NEW lottery, \A key \in DOMAIN entries : entries[key] \in Seq(Strings)
    PROVE  IsFiniteSet(HeldAt(entries, lottery))
<1> DEFINE some == BuyersAt(entries, lottery)
           own(player) == {player} \X DOMAIN entries[<<lottery, player>>]
           S == {own(player) : player \in some}
           f == [player \in some |-> own(player)]
<1>1. IsFiniteSet(some)
  BY BuyersFinite
<1>2. f \in Surjection(some, S)
  BY DEF Surjection
<1>3. IsFiniteSet(S)
  BY <1>1, <1>2, FS_Surjection
<1>4. ASSUME NEW player \in some PROVE IsFiniteSet(own(player))
  <2>1. entries[<<lottery, player>>] \in Seq(Strings)
    BY DEF BuyersAt
  <2>2. IsFiniteSet(DOMAIN entries[<<lottery, player>>])
    BY <2>1, FS_Interval
  <2>. QED
    BY <2>2, FS_Singleton, FS_Product
<1>5. IsFiniteSet(UNION S)
  BY <1>3, <1>4, FS_UNION
<1>. QED
  BY <1>5 DEF HeldAt

\* A purchase adds as many tickets as it names, at new positions.
LEMMA HeldSale ==
    ASSUME NEW entries, NEW lottery, NEW player \in Accounts, NEW combination \in Seq(Strings),
           \A key \in DOMAIN entries : entries[key] \in Seq(Strings),
           NEW old, old = MayLoad(entries, <<lottery, player>>, <<>>),
           NEW more, more = Save(entries, <<lottery, player>>, old \o combination)
    PROVE  /\ BuyersAt(more, lottery) = BuyersAt(entries, lottery) \cup {player}
           /\ Cardinality(HeldAt(more, lottery)) =
                  Cardinality(HeldAt(entries, lottery)) + Len(combination)
<1> DEFINE key == <<lottery, player>>
           added == {player} \X (Len(old) + 1 .. Len(old) + Len(combination))
<1>1. old \in Seq(Strings) /\ Len(old) \in Nat /\ Len(combination) \in Nat
  BY DEF MayLoad
<1>2. DOMAIN (old \o combination) = DOMAIN old \cup (Len(old) + 1 .. Len(old) + Len(combination))
  BY <1>1
<1>3. BuyersAt(more, lottery) = BuyersAt(entries, lottery) \cup {player}
  BY DEF BuyersAt, Save
<1>4. HeldAt(more, lottery) = HeldAt(entries, lottery) \cup added
  <2> DEFINE others == BuyersAt(entries, lottery) \ {player}
             before == UNION {{other} \X DOMAIN entries[<<lottery, other>>] : other \in others}
             after == UNION {{other} \X DOMAIN more[<<lottery, other>>] : other \in others}
  <2>1. \A other \in others : more[<<lottery, other>>] = entries[<<lottery, other>>]
    BY DEF BuyersAt, Save
  <2>2. after = before
    BY <2>1
  <2>3. more[key] = old \o combination
    BY DEF Save
  <2>4. {player} \X DOMAIN more[key] = ({player} \X DOMAIN old) \cup added
    BY <1>2, <2>3
  <2>5. HeldAt(more, lottery) = after \cup ({player} \X DOMAIN more[key])
    <3>1. BuyersAt(more, lottery) = others \cup {player}
      BY <1>3
    <3> HIDE DEF others, key
    <3>. SUFFICES ASSUME NEW slot
                  PROVE  slot \in HeldAt(more, lottery)
                             <=> slot \in after \cup ({player} \X DOMAIN more[key])
      OBVIOUS
    <3>2. slot \in HeldAt(more, lottery)
              <=> \E other \in others \cup {player} :
                      slot \in {other} \X DOMAIN more[<<lottery, other>>]
      BY <3>1 DEF HeldAt
    <3>3. slot \in after
              <=> \E other \in others : slot \in {other} \X DOMAIN more[<<lottery, other>>]
      OBVIOUS
    <3> HIDE DEF after
    <3>. QED
      BY <3>2, <3>3 DEF key
  <2>6. HeldAt(entries, lottery) = before \cup ({player} \X DOMAIN old)
    <3>1. CASE player \in BuyersAt(entries, lottery)
      <4>1. BuyersAt(entries, lottery) = others \cup {player} /\ entries[key] = old
        BY <3>1 DEF BuyersAt, MayLoad
      <4> HIDE DEF others
      <4>. QED
        BY <4>1 DEF HeldAt
    <3>2. CASE player \notin BuyersAt(entries, lottery)
      <4>1. BuyersAt(entries, lottery) = others
        BY <3>2
      <4>2. old = <<>>
        BY <3>2 DEF BuyersAt, MayLoad
      <4>3. DOMAIN old = {}
        BY <4>2
      <4>4. {player} \X DOMAIN old = {}
        BY <4>3
      <4> HIDE DEF others
      <4>. QED
        BY <4>1, <4>4 DEF HeldAt
    <3>. QED
      BY <3>1, <3>2
  <2> HIDE DEF added, key, before, after
  <2>. QED
    BY <2>2, <2>4, <2>5, <2>6
<1>5. HeldAt(entries, lottery) \cap added = {}
  <2>1. player \in BuyersAt(entries, lottery) => entries[key] = old
    BY DEF BuyersAt, MayLoad
  <2>2. \A i \in Len(old) + 1 .. Len(old) + Len(combination) : i \notin DOMAIN old
    BY <1>1
  <2> SUFFICES ASSUME NEW i \in Len(old) + 1 .. Len(old) + Len(combination),
                      <<player, i>> \in HeldAt(entries, lottery)
               PROVE  FALSE
    OBVIOUS
  <2>3. PICK other \in BuyersAt(entries, lottery) :
            <<player, i>> \in {other} \X DOMAIN entries[<<lottery, other>>]
    BY DEF HeldAt
  <2>4. other = player /\ i \in DOMAIN entries[<<lottery, other>>]
    BY <2>3
  <2>. QED
    BY <2>1, <2>2, <2>4
<1>6. IsFiniteSet(added) /\ Cardinality(added) = Len(combination)
  <2>1. /\ IsFiniteSet(Len(old) + 1 .. Len(old) + Len(combination))
        /\ Cardinality(Len(old) + 1 .. Len(old) + Len(combination)) = Len(combination)
    <3>. PICK first \in Int : first = Len(old) + 1
      BY <1>1
    <3>. PICK last \in Int : last = Len(old) + Len(combination)
      BY <1>1
    <3>1. /\ IsFiniteSet(first..last)
          /\ Cardinality(first..last) = IF first > last THEN 0 ELSE last - first + 1
      BY FS_Interval
    <3>. QED
      BY <1>1, <3>1
  <2>2. IsFiniteSet({player}) /\ Cardinality({player}) = 1
    BY FS_Singleton
  <2>3. IsFiniteSet(added) /\ Cardinality(added) = 1 * Len(combination)
    BY <2>1, <2>2, FS_Product
  <2> HIDE DEF added
  <2>. QED
    BY <1>1, <2>3
<1>7. IsFiniteSet(HeldAt(entries, lottery)) /\ Cardinality(HeldAt(entries, lottery)) \in Nat
  BY HeldFinite, FS_CardinalityType
<1> HIDE DEF added
<1>8. Cardinality(HeldAt(more, lottery)) =
          Cardinality(HeldAt(entries, lottery)) + Cardinality(added)
  <2>1. Cardinality(HeldAt(more, lottery)) =
            Cardinality(HeldAt(entries, lottery)) + Cardinality(added) - Cardinality({})
    BY <1>4, <1>5, <1>6, <1>7, FS_Union
  <2>2. Cardinality({}) = 0
    BY FS_EmptySet
  <2>. QED
    BY <1>1, <1>6, <1>7, <2>1, <2>2
<1>. QED
  BY <1>3, <1>6, <1>8

LEMMA CountersRegister ==
    ASSUME TypeOK, CountersAgree, NEW player \in Accounts, NEW combination \in Batches,
           HandleRegister(player, combination)
    PROVE  CountersAgree'
<1>. PICK c : c = CurrentLottery
  OBVIOUS
<1>. PICK old : old = MayLoad(tickets, <<c, player>>, <<>>)
  OBVIOUS
<1>. PICK entered : entered = MayLoad(players, c, <<>>)
  OBVIOUS
<1>1. /\ tickets' = Save(tickets, <<c, player>>, old \o combination)
      /\ players' = IF IsNewPlayer(c, player)
                    THEN Save(players, c, Append(entered, player)) ELSE players
      /\ count_players' = IF IsNewPlayer(c, player)
                          THEN Save(count_players, c, MayLoad(count_players, c, 0) + 1)
                          ELSE count_players
      /\ count_tickets' = Save(count_tickets, c, MayLoad(count_tickets, c, 0) + Len(combination))
      /\ CurrentLottery' = c
  BY DEF HandleRegister, CombinationSave, CurrentLottery
<1>2. c \in 1..c /\ combination \in Seq(Strings) /\ Len(combination) \in Nat
  BY StateFields, LotteryAssumption DEF Batches, CurrentLottery
<1>3. \A key \in DOMAIN tickets : tickets[key] \in Seq(Strings)
  BY DEF TypeOK
<1>4. ASSUME NEW lottery \in 1..c, lottery # c
      PROVE  Agree(tickets', players', count_players', count_tickets', lottery)
  <2>1. Agree(tickets, players, count_players, count_tickets, lottery)
    BY CountersMeaning
  <2>2. /\ MayLoad(players', lottery, <<>>) = MayLoad(players, lottery, <<>>)
        /\ MayLoad(count_players', lottery, 0) = MayLoad(count_players, lottery, 0)
        /\ MayLoad(count_tickets', lottery, 0) = MayLoad(count_tickets, lottery, 0)
    BY <1>1, <1>4 DEF MayLoad, Save
  <2>3. /\ BuyersAt(tickets', lottery) = BuyersAt(tickets, lottery)
        /\ \A other \in BuyersAt(tickets, lottery) :
               tickets'[<<lottery, other>>] = tickets[<<lottery, other>>]
    BY <1>1, <1>4 DEF BuyersAt, Save
  <2>4. HeldAt(tickets', lottery) = HeldAt(tickets, lottery)
    BY <2>3 DEF HeldAt
  <2>. QED
    BY <2>1, <2>2, <2>3, <2>4 DEF Agree
<1>5. Agree(tickets', players', count_players', count_tickets', c)
  <2> DEFINE buyers == BuyersAt(tickets, c)
  <2>1. /\ {entered[i] : i \in DOMAIN entered} = buyers
        /\ Len(entered) = Cardinality(buyers)
        /\ MayLoad(count_players, c, 0) = Cardinality(buyers)
        /\ MayLoad(count_tickets, c, 0) = Cardinality(HeldAt(tickets, c))
    BY <1>2, CountersMeaning DEF Agree
  <2>2. /\ BuyersAt(tickets', c) = buyers \cup {player}
        /\ Cardinality(HeldAt(tickets', c)) =
               Cardinality(HeldAt(tickets, c)) + Len(combination)
    BY <1>1, <1>2, <1>3, HeldSale
  <2>3. MayLoad(count_tickets', c, 0) = Cardinality(HeldAt(tickets', c))
    BY <1>1, <2>1, <2>2 DEF MayLoad, Save
  <2>4. entered \in Seq(Accounts)
    BY DEF MayLoad, TypeOK
  <2>5. IsFiniteSet(buyers) /\ Cardinality(buyers) \in Nat
    BY BuyersFinite, FS_CardinalityType
  <2>6. IsNewPlayer(c, player) <=> player \notin buyers
    BY DEF IsNewPlayer, BuyersAt
  <2> HIDE DEF buyers
  <2>7. CASE player \in buyers
    <3>1. buyers \cup {player} = buyers
      BY <2>7
    <3>2. players' = players /\ count_players' = count_players
      BY <1>1, <2>6, <2>7
    <3>. QED
      BY <2>1, <2>2, <2>3, <3>1, <3>2 DEF Agree
  <2>8. CASE player \notin buyers
    <3>. PICK longer : longer = Append(entered, player)
      OBVIOUS
    <3>1. /\ MayLoad(players', c, <<>>) = longer
          /\ MayLoad(count_players', c, 0) = MayLoad(count_players, c, 0) + 1
      BY <1>1, <2>6, <2>8 DEF MayLoad, Save
    <3>2. Cardinality(buyers \cup {player}) = Cardinality(buyers) + 1
      BY <2>5, <2>8, FS_AddElement
    <3>3. Len(longer) = Len(entered) + 1
      BY <2>4, Len(Append(entered, player)) = Len(entered) + 1
    <3>4. {longer[i] : i \in DOMAIN longer} = buyers \cup {player}
      <4>1. DOMAIN longer = DOMAIN entered \cup {Len(entered) + 1}
        BY <2>4
      <4>2. longer[Len(entered) + 1] = player
        BY <2>4
      <4>3. \A i \in DOMAIN entered : longer[i] = entered[i]
        BY <2>4
      <4>. QED
        BY <2>1, <4>1, <4>2, <4>3
    <3>. QED
      BY <2>1, <2>2, <2>3, <3>1, <3>2, <3>3, <3>4 DEF Agree
  <2>. QED
    BY <2>7, <2>8
<1>. QED
  BY <1>1, <1>4, <1>5, CountersMeaning

\* Nothing is stored of a lottery that is not open yet.
LEMMA UnopenedAgrees ==
    ASSUME TypeOK, NEW lottery \in Nat, lottery > CurrentLottery
    PROVE  Agree(tickets, players, count_players, count_tickets, lottery)
<1>1. lottery \notin 1..CurrentLottery
  BY StateFields DEF CurrentLottery
<1>2. BuyersAt(tickets, lottery) = {}
  BY <1>1 DEF BuyersAt, TypeOK, Keys
<1>3. HeldAt(tickets, lottery) = {}
  BY <1>2 DEF HeldAt
<1>4. /\ MayLoad(players, lottery, <<>>) = <<>>
      /\ MayLoad(count_players, lottery, 0) = 0
      /\ MayLoad(count_tickets, lottery, 0) = 0
  BY <1>1 DEF MayLoad, TypeOK
<1>. QED
  BY <1>2, <1>3, <1>4, FS_EmptySet DEF Agree

LEMMA CountersStep == TypeOK /\ CountersAgree /\ [LotteryNext]_lotteryVars => CountersAgree'
<1> SUFFICES ASSUME TypeOK, CountersAgree, [LotteryNext]_lotteryVars PROVE CountersAgree'
  OBVIOUS
<1>1. ASSUME UNCHANGED storage, CurrentLottery' \in {CurrentLottery, CurrentLottery + 1}
      PROVE  CountersAgree'
  <2> SUFFICES ASSUME NEW lottery \in 1..CurrentLottery'
               PROVE  Agree(tickets, players, count_players, count_tickets, lottery)
    BY <1>1, CountersMeaning DEF storage
  <2>1. CurrentLottery \in Nat
    BY StateFields DEF CurrentLottery
  <2>. QED
    BY <1>1, <2>1, CountersMeaning, UnopenedAgrees
<1>2. ASSUME NEW player \in Accounts, NEW combination \in Batches,
             HandleRegister(player, combination)
      PROVE  CountersAgree'
  BY <1>2, CountersRegister
<1>3. CASE HandlePlay
  BY <1>1, <1>3, PlayAdvances DEF HandlePlay
<1>4. CASE \/ \E addresses \in SUBSET Accounts : HandleClaim(addresses)
           \/ \E player \in Accounts : HandleCollect(player)
  BY <1>1, <1>4 DEF HandleClaim, HandleCollect, Collectable, CurrentLottery
<1>5. CASE AdminCall \/ Environment \/ UNCHANGED lotteryVars
  <2>1. LastLottery' = LastLottery /\ UNCHANGED storage
    BY <1>5, OtherKeeps
  <2>2. CurrentLottery = LastLottery + 1 /\ CurrentLottery' = LastLottery' + 1
    <3>1. state.lottery_counter \in Nat /\ state'.lottery_counter \in Nat
      BY TypeStep DEF TypeOK, State
    <3>. QED
      BY <3>1 DEF CurrentLottery, LastLottery
  <2>. QED
    BY <1>1, <2>1, <2>2
<1>. QED
  BY <1>2, <1>3, <1>4, <1>5 DEF LotteryNext, LotteryCall

LEMMA CountersInit == LotteryInit => CountersAgree
<1> SUFFICES ASSUME LotteryInit, NEW lottery \in 1..CurrentLottery
             PROVE  Agree(tickets, players, count_players, count_tickets, lottery)
  BY CountersMeaning
<1>1. BuyersAt(tickets, lottery) = {}
  BY DEF LotteryInit, EmptyMap, BuyersAt
<1>2. HeldAt(tickets, lottery) = {}
  BY <1>1 DEF HeldAt
<1>3. /\ MayLoad(players, lottery, <<>>) = <<>>
      /\ MayLoad(count_players, lottery, 0) = 0
      /\ MayLoad(count_tickets, lottery, 0) = 0
  BY DEF LotteryInit, EmptyMap, MayLoad
<1>. QED
  BY <1>1, <1>2, <1>3, FS_EmptySet DEF Agree

\* For any number of players and purchases, in any order and for each other, the
\* list of players, their count and the count of tickets are those of the tickets
\* stored: what combination_save writes in four places stays one account.
THEOREM CountersAlwaysAgree == LotterySpec => []CountersAgree
BY CountersInit, CountersStep, LotteryTypeCorrect, PTL DEF LotterySpec

=============================================================================
