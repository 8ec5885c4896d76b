------------------------- MODULE LotteryPrizeProofs -------------------------
(***************************************************************************)
(* Theorems about the prizes of Lottery: what the ranks count, that what   *)
(* is handed out stays within the jackpot, what settling a lottery makes   *)
(* final, what one payment changes, and that the lottery implements the    *)
(* abstract Raffle.                                                        *)
(***************************************************************************)
EXTENDS LotteryProofs

-----------------------------------------------------------------------------
(* RankCountsTickets. *)

WinnersAt(wins, lottery) == {player \in Accounts : <<lottery, player>> \in DOMAIN wins}

RanksAt(entries, combination, lottery, player) ==
    [r \in Ranks |-> Cardinality(TicketsAt(entries, combination, lottery, player, r))]

\* RankCountsTickets, for any value of the variables.
RanksFit(entries, results, wins, counts, last) ==
    /\ \A lottery \in 1..last, r \in Ranks :
           MayLoad(counts, <<lottery, r>>, 0) =
               Cardinality(SlotsAt(entries, results[lottery], lottery,
                                   WinnersAt(wins, lottery), r))
    /\ \A key \in DOMAIN wins :
           wins[key].ranks = RanksAt(entries, results[key[1]], key[1], key[2])

LEMMA RankMeaning ==
    /\ RankCountsTickets <=> RanksFit(tickets, winning, winner, rank, LastLottery)
    /\ RankCountsTickets' <=> RanksFit(tickets', winning', winner', rank', LastLottery')
BY DEF RankCountsTickets, RanksFit, WinnersAt, RanksAt, Winners, WinningSlots,
       RanksWon, WinningTickets, SlotsAt, TicketsAt

\* RanksFit depends on the tickets only through those of winners.
LEMMA RanksFitKept ==
    ASSUME NEW entries, NEW later, NEW results, NEW wins, NEW counts, NEW last,
           RanksFit(entries, results, wins, counts, last),
           \A key \in DOMAIN wins : later[key] = entries[key] /\ key = <<key[1], key[2]>>
    PROVE  RanksFit(later, results, wins, counts, last)
<1>1. ASSUME NEW lottery, NEW player, NEW r, <<lottery, player>> \in DOMAIN wins
      PROVE  TicketsAt(later, results[lottery], lottery, player, r) =
                 TicketsAt(entries, results[lottery], lottery, player, r)
  BY <1>1 DEF TicketsAt
<1>2. ASSUME NEW lottery, NEW r
      PROVE  SlotsAt(later, results[lottery], lottery, WinnersAt(wins, lottery), r) =
                 SlotsAt(entries, results[lottery], lottery, WinnersAt(wins, lottery), r)
  <2>1. \A player \in WinnersAt(wins, lottery) :
            TicketsAt(later, results[lottery], lottery, player, r) =
                TicketsAt(entries, results[lottery], lottery, player, r)
    BY <1>1 DEF WinnersAt
  <2>. QED
    BY <2>1 DEF SlotsAt
<1>3. ASSUME NEW key \in DOMAIN wins
      PROVE  RanksAt(later, results[key[1]], key[1], key[2]) =
                 RanksAt(entries, results[key[1]], key[1], key[2])
  BY <1>1 DEF RanksAt
<1>. QED
  BY <1>2, <1>3 DEF RanksFit

LEMMA RankInit == LotteryInit => RankCountsTickets
<1> SUFFICES ASSUME LotteryInit PROVE RankCountsTickets
  OBVIOUS
<1>1. LastLottery = 0
  BY DEF LotteryInit, StateInit, Instantiated, LastLottery
<1>. QED
  BY <1>1 DEF LotteryInit, EmptyMap, RankCountsTickets

LEMMA RankRegister ==
    ASSUME TypeOK, RankCountsTickets,
           NEW player \in Accounts, NEW combination \in Batches,
           HandleRegister(player, combination)
    PROVE  RankCountsTickets'
<1>1. UNCHANGED <<winning, winner, rank>> /\ LastLottery' = LastLottery
  BY DEF HandleRegister, prizes, LastLottery
<1>2. ASSUME NEW key \in DOMAIN winner
      PROVE  tickets'[key] = tickets[key] /\ key = <<key[1], key[2]>>
  <2>1. key \in Keys /\ key \in DOMAIN tickets /\ key[1] \in 1..LastLottery
    BY DEF TypeOK
  <2>2. key = <<key[1], key[2]>>
    BY <2>1 DEF Keys
  <2>3. key # <<CurrentLottery, player>>
    BY <2>1, StateFields DEF CurrentLottery, LastLottery
  <2>. QED
    BY <2>1, <2>2, <2>3 DEF HandleRegister, CombinationSave, Save
<1>3. RanksFit(tickets', winning, winner, rank, LastLottery)
  BY <1>2, RankMeaning, RanksFitKept
<1>. QED
  BY <1>1, <1>3, RankMeaning

\* The lottery a play settles has no winner yet.
LEMMA NewLotteryFresh ==
    ASSUME TypeOK
    PROVE  /\ \A player : <<CurrentLottery, player>> \notin DOMAIN winner
           /\ \A r : <<CurrentLottery, r>> \notin DOMAIN rank
<1>1. CurrentLottery \notin 1..LastLottery
  BY StateFields DEF CurrentLottery, LastLottery
<1>2. ASSUME NEW r, <<CurrentLottery, r>> \in RankKeys PROVE FALSE
  BY <1>1, <1>2 DEF RankKeys
<1>. QED
  BY <1>1, <1>2 DEF TypeOK

LEMMA RankPlay ==
    ASSUME TypeOK, RankCountsTickets, HandlePlay
    PROVE  RankCountsTickets'
<1> DEFINE n == CurrentLottery
<1>1. /\ UNCHANGED <<tickets, winner, rank>>
      /\ winning' = Save(winning, n, winning'[n])
      /\ LastLottery' = n
  <2>1. LastLottery' = n
    BY PlayAdvances
  <2>. QED
    BY <2>1 DEF HandlePlay, storage, Save
<1>2. \A lottery \in 1..LastLottery : winning'[lottery] = winning[lottery]
  BY <1>1, StateFields DEF Save, TypeOK, CurrentLottery, LastLottery
<1>3. RanksFit(tickets, winning, winner, rank, LastLottery)
  BY RankMeaning
<1>4. ASSUME NEW lottery \in 1..n, NEW r \in Ranks
      PROVE  MayLoad(rank, <<lottery, r>>, 0) =
                 Cardinality(SlotsAt(tickets, winning'[lottery], lottery,
                                     WinnersAt(winner, lottery), r))
  <2>1. CASE lottery \in 1..LastLottery
    BY <1>2, <1>3, <2>1 DEF RanksFit
  <2>2. CASE lottery = n
    <3>1. WinnersAt(winner, n) = {} /\ <<n, r>> \notin DOMAIN rank
      BY NewLotteryFresh DEF WinnersAt
    <3>2. SlotsAt(tickets, winning'[n], n, {}, r) = {}
      BY DEF SlotsAt
    <3>. QED
      BY <2>2, <3>1, <3>2, FS_EmptySet DEF MayLoad
  <2>. QED
    BY <2>1, <2>2, StateFields DEF CurrentLottery, LastLottery
<1>5. ASSUME NEW key \in DOMAIN winner
      PROVE  winner[key].ranks = RanksAt(tickets, winning'[key[1]], key[1], key[2])
  BY <1>2, <1>3 DEF RanksFit, TypeOK
<1>. QED
  BY <1>1, <1>4, <1>5, RankMeaning DEF RanksFit

LEMMA RankClaim ==
    ASSUME TypeOK, RankCountsTickets,
           NEW addresses \in SUBSET Accounts, HandleClaim(addresses)
    PROVE  RankCountsTickets'
<1> DEFINE n == LastLottery
           some == Claimants(n, addresses)
           claims == {<<n, player>> : player \in some}
           before == WinnersAt(winner, n)
           slots(players_, r) == SlotsAt(tickets, winning[n], n, players_, r)
           won(r) == Cardinality(slots(some, r))
           hit == {<<n, r>> : r \in {r \in Ranks : won(r) > 0}}
<1>1. UNCHANGED <<tickets, winning>> /\ LastLottery' = LastLottery
  BY DEF HandleClaim, storage, LastLottery
<1>2. /\ winner' = [key \in DOMAIN winner \cup claims |->
                       IF key \in claims
                       THEN [claimed |-> FALSE, ranks |-> RanksWon(n, key[2])]
                       ELSE winner[key]]
      /\ rank' = [key \in DOMAIN rank \cup hit |->
                     MayLoad(rank, key, 0) + (IF key \in hit THEN won(key[2]) ELSE 0)]
  BY WinningSlotsAt DEF HandleClaim, SaveWinners, WinnersAfter, RanksAfter
<1>3. /\ some \in SUBSET Accounts /\ before \in SUBSET Accounts
      /\ some \cap before = {}
      /\ \A player \in some \cup before : tickets[<<n, player>>] \in Seq(Strings)
  BY DEF Claimants, WinnersAt, TypeOK
<1>4. RanksFit(tickets, winning, winner, rank, n)
  BY RankMeaning
<1>5. ASSUME NEW lottery \in 1..n, NEW r \in Ranks
      PROVE  MayLoad(rank', <<lottery, r>>, 0) =
                 Cardinality(SlotsAt(tickets, winning[lottery], lottery,
                                     WinnersAt(winner', lottery), r))
  <2>1. MayLoad(rank, <<lottery, r>>, 0) =
            Cardinality(SlotsAt(tickets, winning[lottery], lottery,
                                WinnersAt(winner, lottery), r))
    BY <1>4 DEF RanksFit
  <2>2. CASE lottery # n
    <3>1. WinnersAt(winner', lottery) = WinnersAt(winner, lottery)
      BY <1>2, <2>2 DEF WinnersAt
    <3>2. MayLoad(rank', <<lottery, r>>, 0) = MayLoad(rank, <<lottery, r>>, 0)
      <4>1. <<lottery, r>> \notin hit
        BY <2>2
      <4>2. \A key \in DOMAIN rank : rank[key] \in Nat
        BY DEF TypeOK
      <4>. QED
        BY <1>2, <4>1, <4>2 DEF MayLoad
    <3>. QED
      BY <2>1, <3>1, <3>2
  <2>3. CASE lottery = n
    <3>1. WinnersAt(winner', n) = before \cup some
      BY <1>2, <1>3 DEF WinnersAt
    <3>2. Cardinality(slots(before \cup some, r)) = Cardinality(slots(before, r)) + won(r)
      BY <1>3, SlotsAtUnion
    <3>3. won(r) \in Nat /\ Cardinality(slots(before, r)) \in Nat
      BY <1>3, SlotsAtFinite
    <3>4. MayLoad(rank', <<n, r>>, 0) = MayLoad(rank, <<n, r>>, 0) + won(r)
      <4> HIDE DEF won
      <4>1. MayLoad(rank, <<n, r>>, 0) \in Nat
        BY DEF MayLoad, TypeOK
      <4>2. <<n, r>> \in hit <=> won(r) > 0
        OBVIOUS
      <4>. QED
        BY <1>2, <3>3, <4>1, <4>2 DEF MayLoad
    <3>. QED
      BY <2>1, <2>3, <3>1, <3>2, <3>4
  <2>. QED
    BY <2>2, <2>3
<1>6. ASSUME NEW key \in DOMAIN winner'
      PROVE  winner'[key].ranks = RanksAt(tickets, winning[key[1]], key[1], key[2])
  <2>1. CASE key \in claims
    <3>1. winner'[key].ranks = RanksWon(n, key[2]) /\ key[1] = n
      BY <1>2, <2>1
    <3>. QED
      BY <3>1, WinningTicketsAt DEF RanksWon, RanksAt
  <2>2. CASE key \notin claims
    BY <1>2, <1>4, <2>2 DEF RanksFit
  <2>. QED
    BY <2>1, <2>2
<1>. QED
  BY <1>1, <1>5, <1>6, RankMeaning DEF RanksFit

LEMMA RankCollect ==
    ASSUME TypeOK, RankCountsTickets, NEW player \in Accounts, HandleCollect(player)
    PROVE  RankCountsTickets'
<1>1. UNCHANGED <<tickets, winning, rank>> /\ LastLottery' = LastLottery
  BY DEF HandleCollect, Collectable, storage, LastLottery
<1>2. /\ DOMAIN winner' = DOMAIN winner
      /\ \A key \in DOMAIN winner : winner'[key].ranks = winner[key].ranks
  BY DEF HandleCollect, Collectable, MarkClaimed, TypeOK, Winning
<1>3. \A lottery : WinnersAt(winner', lottery) = WinnersAt(winner, lottery)
  BY <1>2 DEF WinnersAt
<1>4. RanksFit(tickets, winning, winner, rank, LastLottery)
  BY RankMeaning
<1>5. RanksFit(tickets, winning, winner', rank, LastLottery)
  BY <1>2, <1>3, <1>4 DEF RanksFit
<1>. QED
  BY <1>1, <1>5, RankMeaning

LEMMA RankOther ==
    ASSUME TypeOK, RankCountsTickets, AdminCall \/ Environment \/ UNCHANGED lotteryVars
    PROVE  RankCountsTickets'
BY OtherKeeps, RankMeaning DEF storage, prizes

LEMMA RankStep == TypeOK /\ RankCountsTickets /\ [LotteryNext]_lotteryVars => RankCountsTickets'
BY RankRegister, RankPlay, RankClaim, RankCollect, RankOther DEF LotteryNext, LotteryCall

\* In every execution, with any number of players and any order of their claims,
\* the number a rank's prize is divided by is the number of winning tickets of
\* the players that claimed, and each winner's ranks are those of its tickets.
THEOREM RanksCounted == LotterySpec => []RankCountsTickets
<1>1. LotteryInit => RankCountsTickets
  BY RankInit
<1>2. TypeOK /\ RankCountsTickets /\ [LotteryNext]_lotteryVars => RankCountsTickets'
  BY RankStep
<1>. QED
  BY <1>1, <1>2, LotteryTypeCorrect, PTL DEF LotterySpec

-----------------------------------------------------------------------------
(* Shares of the jackpot. *)

\* PrizeShare, for any jackpot, count and percentage.
ShareAt(amount, count, percentage) ==
    IF count = 0 THEN 0 ELSE Percent(amount, percentage) \div count

\* The winning tickets of one rank get no more than the rank's percentage.
LEMMA ShareBounds ==
    ASSUME NEW amount \in Nat, NEW percentage \in 0..100,
           NEW count \in Nat, NEW some \in 0..count
    PROVE  /\ ShareAt(amount, count, percentage) \in Nat
           /\ some * ShareAt(amount, count, percentage) \in 0..Percent(amount, percentage)
<1> DEFINE part == Percent(amount, percentage)
           share == part \div count
<1>1. part \in Nat
  BY PercentType
<1>2. CASE count = 0
  BY <1>1, <1>2 DEF ShareAt
<1>3. CASE count # 0
  <2> HIDE DEF part
  <2>1. share \in Nat /\ count * share <= part
    BY <1>1, <1>3, Division
  <2> HIDE DEF share
  <2>2. count * share = some * share + (count - some) * share
    BY <2>1
  <2>3. some * share \in Nat /\ (count - some) * share \in Nat
    BY <2>1
  <2>4. some * share \in 0..part
    BY <1>1, <2>1, <2>2, <2>3
  <2>. QED
    BY <1>3, <2>1, <2>4 DEF ShareAt, part, share
<1>. QED
  BY <1>2, <1>3

LEMMA Distribution ==
    ASSUME NEW x \in Nat, NEW a \in Nat, NEW b \in Nat, NEW c \in Nat, NEW d \in Nat
    PROVE  x * a + x * b + x * c + x * d = x * (a + b + c + d)
OBVIOUS

\* The four percentages of a jackpot together are no more than the jackpot.
LEMMA SplitWithin ==
    ASSUME NEW amount \in Nat, NEW split \in PrizeSplits
    PROVE  Percent(amount, split[1]) + Percent(amount, split[2])
           + Percent(amount, split[3]) + Percent(amount, split[4]) <= amount
<1>1. /\ \A r \in 1..4 : split[r] \in 0..100
      /\ split[1] + split[2] + split[3] + split[4] = 100
  BY DEF PrizeSplits
<1>2. ASSUME NEW r \in 1..4
      PROVE  /\ Percent(amount, split[r]) \in Nat
             /\ 100 * Percent(amount, split[r]) <= amount * split[r]
             /\ amount * split[r] \in Nat
  <2>1. split[r] \in Nat
    BY <1>1
  <2>2. amount * split[r] \in Nat
    BY <2>1
  <2>. QED
    BY <2>2, Division DEF Percent
<1>3. amount * split[1] + amount * split[2] + amount * split[3] + amount * split[4]
          = amount * 100
  <2>1. /\ split[1] \in Nat /\ split[2] \in Nat
        /\ split[3] \in Nat /\ split[4] \in Nat
    BY <1>1
  <2>2. amount * split[1] + amount * split[2] + amount * split[3] + amount * split[4]
            = amount * (split[1] + split[2] + split[3] + split[4])
    BY <2>1, Distribution
  <2>. QED
    BY <1>1, <2>2
<1> DEFINE a == Percent(amount, split[1])
           b == Percent(amount, split[2])
           c == Percent(amount, split[3])
           d == Percent(amount, split[4])
<1>4. /\ a \in Nat /\ b \in Nat /\ c \in Nat /\ d \in Nat
      /\ 100 * a <= amount * split[1] /\ 100 * b <= amount * split[2]
      /\ 100 * c <= amount * split[3] /\ 100 * d <= amount * split[4]
      /\ amount * split[1] \in Nat /\ amount * split[2] \in Nat
      /\ amount * split[3] \in Nat /\ amount * split[4] \in Nat
  BY <1>2
<1> HIDE DEF a, b, c, d
<1>5. a + b + c + d <= amount
  BY <1>3, <1>4
<1>. QED
  BY <1>5 DEF a, b, c, d

\* A share for every winning ticket of some of the winners is at most the jackpot.
LEMMA SharesWithin ==
    ASSUME NEW amount \in Nat, NEW split \in PrizeSplits,
           NEW count \in [Ranks -> Nat], NEW some \in [Ranks -> Nat],
           \A r \in Ranks : some[r] <= count[r]
    PROVE  some[1] * ShareAt(amount, count[1], split[1])
           + some[2] * ShareAt(amount, count[2], split[2])
           + some[3] * ShareAt(amount, count[3], split[3])
           + some[4] * ShareAt(amount, count[4], split[4]) <= amount
<1> DEFINE part(r) == Percent(amount, split[r])
           given(r) == some[r] * ShareAt(amount, count[r], split[r])
<1>1. ASSUME NEW r \in Ranks
      PROVE  part(r) \in Nat /\ given(r) \in Nat /\ given(r) <= part(r)
  <2>1. split[r] \in 0..100 /\ count[r] \in Nat /\ some[r] \in 0..count[r]
    BY DEF PrizeSplits, Ranks
  <2>2. part(r) \in Nat
    BY <2>1, PercentType
  <2>3. given(r) \in 0..part(r)
    BY <2>1, ShareBounds
  <2>. QED
    BY <2>2, <2>3
<1>2. 1 \in Ranks /\ 2 \in Ranks /\ 3 \in Ranks /\ 4 \in Ranks
  BY DEF Ranks
<1>3. part(1) + part(2) + part(3) + part(4) <= amount
  BY SplitWithin
<1> HIDE DEF part, given
<1>4. given(1) + given(2) + given(3) + given(4) <= amount
  BY <1>1, <1>2, <1>3
<1>. QED
  BY <1>4 DEF given

-----------------------------------------------------------------------------
(* PaidAccounted. *)

PaidAt(wins, lottery) ==
    {player \in WinnersAt(wins, lottery) : wins[<<lottery, player>>].claimed}

\* One share of rank r for each winning ticket of that rank that was paid.
GivenAt(entries, results, pots, wins, counts, split, last, r) ==
    Cardinality(SlotsAt(entries, results[last], last, PaidAt(wins, last), r))
        * ShareAt(pots[last], MayLoad(counts, <<last, r>>, 0), split[r])

\* PaidAccounted, for any value of the variables.
Accounted(entries, results, pots, wins, counts, split, last, handed) ==
    handed[last] =
        GivenAt(entries, results, pots, wins, counts, split, last, 1)
        + GivenAt(entries, results, pots, wins, counts, split, last, 2)
        + GivenAt(entries, results, pots, wins, counts, split, last, 3)
        + GivenAt(entries, results, pots, wins, counts, split, last, 4)

LEMMA AccountedMeaning ==
    /\ PaidAccounted <=>
          (LastLottery > 0 /\ LastLottery \notin reopened =>
              Accounted(tickets, winning, jackpot, winner, rank,
                        state.prize_rank_winner_percentage, LastLottery, paid))
    /\ PaidAccounted' <=>
          (LastLottery' > 0 /\ LastLottery' \notin reopened' =>
              Accounted(tickets', winning', jackpot', winner', rank',
                        state'.prize_rank_winner_percentage, LastLottery', paid'))
BY DEF PaidAccounted, Accounted, GivenAt, PaidCount, PaidSlots, PaidWinners, Winners,
       PaidAt, WinnersAt, WinningSlots, WinningTickets, SlotsAt, TicketsAt,
       PrizeShare, ShareAt

\* Nothing was paid, no winner is marked: the account is even.
LEMMA AccountedFromNone ==
    ASSUME NEW entries, NEW results, NEW pots, NEW wins, NEW counts, NEW split,
           NEW last, NEW handed,
           PaidAt(wins, last) = {}, handed[last] = 0,
           \A r \in Ranks : ShareAt(pots[last], MayLoad(counts, <<last, r>>, 0), split[r]) \in Nat
    PROVE  Accounted(entries, results, pots, wins, counts, split, last, handed)
<1>1. \A r : Cardinality(SlotsAt(entries, results[last], last, {}, r)) = 0
  BY FS_EmptySet DEF SlotsAt
<1>2. \A r \in Ranks : GivenAt(entries, results, pots, wins, counts, split, last, r) = 0
  BY <1>1 DEF GivenAt
<1>. QED
  BY <1>2 DEF Accounted, Ranks

\* Conversely, with no winner marked, nothing was paid.
LEMMA NoneFromAccounted ==
    ASSUME NEW entries, NEW results, NEW pots, NEW wins, NEW counts, NEW split,
           NEW last, NEW handed,
           PaidAt(wins, last) = {},
           Accounted(entries, results, pots, wins, counts, split, last, handed),
           \A r \in Ranks : ShareAt(pots[last], MayLoad(counts, <<last, r>>, 0), split[r]) \in Nat
    PROVE  handed[last] = 0
<1>1. \A r : Cardinality(SlotsAt(entries, results[last], last, {}, r)) = 0
  BY FS_EmptySet DEF SlotsAt
<1>2. \A r \in Ranks : GivenAt(entries, results, pots, wins, counts, split, last, r) = 0
  BY <1>1 DEF GivenAt
<1>. QED
  BY <1>2 DEF Accounted, Ranks

\* The shares are amounts.
LEMMA SharesType ==
    ASSUME NEW amount \in Nat, NEW split \in PrizeSplits, NEW count \in [Ranks -> Nat]
    PROVE  \A r \in Ranks : ShareAt(amount, count[r], split[r]) \in Nat
<1>1. ASSUME NEW r \in Ranks PROVE ShareAt(amount, count[r], split[r]) \in Nat
  <2>1. split[r] \in 0..100 /\ count[r] \in Nat /\ 0 \in 0..count[r]
    BY DEF PrizeSplits, Ranks
  <2>. QED
    BY <2>1, ShareBounds
<1>. QED
  BY <1>1

\* The same, from the type invariant's words.
LEMMA SharesTypeAt ==
    ASSUME NEW amount \in Nat, NEW split \in PrizeSplits, NEW counts, NEW last,
           \A key \in DOMAIN counts : counts[key] \in Nat
    PROVE  \A r \in Ranks :
               /\ MayLoad(counts, <<last, r>>, 0) \in Nat
               /\ ShareAt(amount, MayLoad(counts, <<last, r>>, 0), split[r]) \in Nat
<1> DEFINE count == [r \in Ranks |-> MayLoad(counts, <<last, r>>, 0)]
<1>1. count \in [Ranks -> Nat]
  BY DEF MayLoad
<1>2. \A r \in Ranks : ShareAt(amount, count[r], split[r]) \in Nat
  BY <1>1, SharesType
<1>. QED
  BY <1>1, <1>2

LEMMA AccountedInit == LotteryInit => PaidAccounted
BY DEF LotteryInit, StateInit, Instantiated, LastLottery, PaidAccounted

LEMMA AccountedRegister ==
    ASSUME TypeOK, PaidAccounted,
           NEW player \in Accounts, NEW combination \in Batches,
           HandleRegister(player, combination)
    PROVE  PaidAccounted'
<1>1. UNCHANGED <<state, winning, jackpot, winner, rank, paid, reopened>>
      /\ LastLottery' = LastLottery
  BY DEF HandleRegister, prizes, LastLottery
<1>2. ASSUME NEW other, <<LastLottery, other>> \in DOMAIN winner
      PROVE  tickets'[<<LastLottery, other>>] = tickets[<<LastLottery, other>>]
  <2>1. <<LastLottery, other>> \in DOMAIN tickets
    BY <1>2 DEF TypeOK
  <2>2. <<LastLottery, other>> # <<CurrentLottery, player>>
    BY StateFields DEF CurrentLottery, LastLottery
  <2>. QED
    BY <2>1, <2>2 DEF HandleRegister, CombinationSave, Save
<1>3. ASSUME NEW r
      PROVE  SlotsAt(tickets', winning[LastLottery], LastLottery, PaidAt(winner, LastLottery), r) =
                 SlotsAt(tickets, winning[LastLottery], LastLottery, PaidAt(winner, LastLottery), r)
  <2>1. \A other \in PaidAt(winner, LastLottery) :
            TicketsAt(tickets', winning[LastLottery], LastLottery, other, r) =
                TicketsAt(tickets, winning[LastLottery], LastLottery, other, r)
    BY <1>2 DEF PaidAt, WinnersAt, TicketsAt
  <2>. QED
    BY <2>1 DEF SlotsAt
<1>. QED
  BY <1>1, <1>3, AccountedMeaning DEF Accounted, GivenAt

LEMMA AccountedPlay ==
    ASSUME TypeOK, TypeOK', PaidAccounted, HandlePlay
    PROVE  PaidAccounted'
<1> DEFINE n == CurrentLottery
           split == state'.prize_rank_winner_percentage
<1>1. LastLottery' = n /\ UNCHANGED <<winner, rank>>
  BY PlayAdvances DEF HandlePlay
<1>2. paid'[n] = 0
  BY DEF HandlePlay, Save
<1>3. PaidAt(winner', n) = {}
  BY <1>1, NewLotteryFresh DEF PaidAt, WinnersAt
<1>4. jackpot'[n] \in Nat /\ split \in PrizeSplits /\ \A key \in DOMAIN rank' : rank'[key] \in Nat
  <2>1. n \in 1..LastLottery'
    BY <1>1, StateFields DEF CurrentLottery
  <2>. QED
    BY <2>1 DEF TypeOK, State
<1>5. \A r \in Ranks : ShareAt(jackpot'[n], MayLoad(rank', <<n, r>>, 0), split[r]) \in Nat
  BY <1>4, SharesTypeAt
<1>6. Accounted(tickets', winning', jackpot', winner', rank', split, n, paid')
  BY <1>2, <1>3, <1>5, AccountedFromNone
<1>. QED
  BY <1>1, <1>6, AccountedMeaning

LEMMA AccountedClaim ==
    ASSUME TypeOK, TypeOK', PaidAccounted,
           NEW addresses \in SUBSET Accounts, HandleClaim(addresses)
    PROVE  PaidAccounted'
<1> DEFINE n == LastLottery
           split == state.prize_rank_winner_percentage
<1>1. /\ UNCHANGED <<state, tickets, winning, jackpot, paid>> /\ LastLottery' = n
      /\ n \in 1..LastLottery
  BY DEF HandleClaim, storage, LastLottery, TypeOK
<1>2. SUFFICES ASSUME n \notin reopened'
      PROVE  Accounted(tickets', winning', jackpot', winner', rank', split, n, paid')
  BY <1>1, AccountedMeaning
<1>3. n \notin reopened /\ PaidAt(winner, n) = {}
  BY <1>2 DEF HandleClaim, PaidWinners, Winners, PaidAt, WinnersAt
<1>4. PaidAt(winner', n) = {}
  BY <1>3 DEF HandleClaim, SaveWinners, WinnersAfter, RanksAfter, PaidAt, WinnersAt
<1>5. /\ jackpot[n] \in Nat /\ split \in PrizeSplits
      /\ \A key \in DOMAIN rank : rank[key] \in Nat
      /\ \A key \in DOMAIN rank' : rank'[key] \in Nat
  BY <1>1 DEF TypeOK, State
<1>6. /\ \A r \in Ranks : ShareAt(jackpot[n], MayLoad(rank, <<n, r>>, 0), split[r]) \in Nat
      /\ \A r \in Ranks : ShareAt(jackpot[n], MayLoad(rank', <<n, r>>, 0), split[r]) \in Nat
  BY <1>5, SharesTypeAt
<1>7. Accounted(tickets, winning, jackpot, winner, rank, split, n, paid)
  BY <1>1, <1>3, AccountedMeaning
<1>8. paid[n] = 0
  BY <1>3, <1>6, <1>7, NoneFromAccounted
<1>. QED
  BY <1>1, <1>4, <1>6, <1>8, AccountedFromNone

LEMMA AccountedCollect ==
    ASSUME TypeOK, RankCountsTickets, PaidAccounted,
           NEW player \in Accounts, HandleCollect(player)
    PROVE  PaidAccounted'
<1> DEFINE n == LastLottery
           key == <<n, player>>
           split == state.prize_rank_winner_percentage
           given(r) == GivenAt(tickets, winning, jackpot, winner, rank, split, n, r)
           givenThen(r) == GivenAt(tickets, winning, jackpot, winner', rank, split, n, r)
           share(r) == ShareAt(jackpot[n], MayLoad(rank, <<n, r>>, 0), split[r])
           slots(some, r) == SlotsAt(tickets, winning[n], n, some, r)
           before == PaidAt(winner, n)
           total == TotalPrize(n, winner[key].ranks)
<1>1. /\ UNCHANGED <<state, tickets, winning, jackpot, rank, reopened>>
      /\ LastLottery' = n /\ n \in 1..LastLottery
      /\ key \in DOMAIN winner /\ ~winner[key].claimed
      /\ winner' = [winner EXCEPT ![key].claimed = TRUE]
      /\ paid' = [paid EXCEPT ![n] = @ + total]
  BY DEF HandleCollect, Collectable, PrizeOf, MarkClaimed, storage, LastLottery, TypeOK
<1>2. SUFFICES ASSUME n \notin reopened
      PROVE  Accounted(tickets, winning, jackpot, winner', rank, split, n, paid')
  BY <1>1, AccountedMeaning
<1>3. Accounted(tickets, winning, jackpot, winner, rank, split, n, paid)
  BY <1>1, <1>2, AccountedMeaning
<1>4. /\ before \in SUBSET Accounts /\ before \cap {player} = {}
      /\ {player} \in SUBSET Accounts
      /\ \A other \in before \cup {player} : tickets[<<n, other>>] \in Seq(Strings)
  BY <1>1 DEF PaidAt, WinnersAt, TypeOK
<1>5. PaidAt(winner', n) = before \cup {player}
  BY <1>1 DEF PaidAt, WinnersAt, TypeOK, Winning
<1>6. /\ jackpot[n] \in Nat /\ paid[n] \in Nat /\ split \in PrizeSplits
      /\ \A k \in DOMAIN rank : rank[k] \in Nat
      /\ winner[key].ranks \in [Ranks -> Nat]
  BY <1>1 DEF TypeOK, State, Winning
<1>7. \A r \in Ranks : share(r) \in Nat
  BY <1>6, SharesTypeAt
<1>8. ASSUME NEW r \in Ranks
      PROVE  /\ given(r) \in Nat
             /\ givenThen(r) = given(r) + winner[key].ranks[r] * share(r)
  <2>1. Cardinality(slots(before \cup {player}, r)) =
            Cardinality(slots(before, r)) + Cardinality(slots({player}, r))
    BY <1>4, SlotsAtUnion
  <2>2. Cardinality(slots({player}, r)) = winner[key].ranks[r]
    <3>1. Cardinality(slots({player}, r)) =
              Cardinality(TicketsAt(tickets, winning[n], n, player, r))
      BY <1>4, SlotsAtOfOne
    <3>2. winner[key].ranks = RanksAt(tickets, winning[n], n, player)
      BY <1>1, RankMeaning DEF RanksFit
    <3>. QED
      BY <3>1, <3>2 DEF RanksAt
  <2>3. Cardinality(slots(before, r)) \in Nat
    BY <1>4, SlotsAtFinite
  <2>4. given(r) = Cardinality(slots(before, r)) * share(r)
    BY DEF GivenAt
  <2>5. givenThen(r) = Cardinality(slots(before \cup {player}, r)) * share(r)
    BY <1>5 DEF GivenAt
  <2>6. share(r) \in Nat /\ winner[key].ranks[r] \in Nat
    BY <1>6, <1>7
  <2> HIDE DEF given, givenThen, share, slots
  <2>. QED
    BY <2>1, <2>2, <2>3, <2>4, <2>5, <2>6
<1>9. total = winner[key].ranks[1] * share(1) + winner[key].ranks[2] * share(2)
              + winner[key].ranks[3] * share(3) + winner[key].ranks[4] * share(4)
  BY DEF TotalPrize, PrizeShare, ShareAt
<1>10. paid[n] = given(1) + given(2) + given(3) + given(4)
  BY <1>3 DEF Accounted
<1>11. paid'[n] = paid[n] + total
  BY <1>1 DEF TypeOK
<1> DEFINE won(r) == winner[key].ranks[r] * share(r)
<1>12. \A r \in Ranks : won(r) \in Nat
  BY <1>6, <1>7
<1>13. givenThen(1) + givenThen(2) + givenThen(3) + givenThen(4) = paid'[n]
  <2>1. 1 \in Ranks /\ 2 \in Ranks /\ 3 \in Ranks /\ 4 \in Ranks
    BY DEF Ranks
  <2>2. \A r \in Ranks : given(r) \in Nat /\ givenThen(r) = given(r) + won(r)
    BY <1>8
  <2>3. total = won(1) + won(2) + won(3) + won(4)
    BY <1>9
  <2> HIDE DEF given, givenThen, won, total
  <2>. QED
    BY <1>10, <1>11, <1>12, <2>1, <2>2, <2>3
<1>. QED
  BY <1>13 DEF Accounted

LEMMA AccountedOther ==
    ASSUME TypeOK, PaidAccounted, AdminCall \/ Environment \/ UNCHANGED lotteryVars
    PROVE  PaidAccounted'
BY OtherKeeps, AccountedMeaning DEF storage, prizes

LEMMA AccountedStep ==
    /\ TypeOK /\ TypeOK' /\ RankCountsTickets /\ PaidAccounted
    /\ [LotteryNext]_lotteryVars
    => PaidAccounted'
BY AccountedRegister, AccountedPlay, AccountedClaim, AccountedCollect, AccountedOther
DEF LotteryNext, LotteryCall

\* As long as no claim followed a payment, what was paid out of the last jackpot
\* is exactly one share for every winning ticket whose winner was paid.
THEOREM PrizesAccounted == LotterySpec => []PaidAccounted
<1>1. LotteryInit => PaidAccounted
  BY AccountedInit
<1>2. TypeOK /\ TypeOK' /\ RankCountsTickets /\ PaidAccounted /\ [LotteryNext]_lotteryVars
          => PaidAccounted'
  BY AccountedStep
<1>. QED
  BY <1>1, <1>2, LotteryTypeCorrect, RanksCounted, PTL DEF LotterySpec

-----------------------------------------------------------------------------
(* PaidWithinJackpot. *)

\* What Accounted counts is at most the jackpot.
LEMMA AccountedWithin ==
    ASSUME NEW entries, NEW results, NEW pots, NEW wins, NEW counts, NEW split, NEW last,
           NEW handed,
           Accounted(entries, results, pots, wins, counts, split, last, handed),
           RanksFit(entries, results, wins, counts, last),
           last \in 1..last, pots[last] \in Nat, split \in PrizeSplits,
           \A player \in WinnersAt(wins, last) : entries[<<last, player>>] \in Seq(Strings)
    PROVE  handed[last] <= pots[last]
<1> DEFINE slots(some, r) == Cardinality(SlotsAt(entries, results[last], last, some, r))
           count == [r \in Ranks |-> slots(WinnersAt(wins, last), r)]
           some == [r \in Ranks |-> slots(PaidAt(wins, last), r)]
<1>1. /\ WinnersAt(wins, last) \in SUBSET Accounts
      /\ PaidAt(wins, last) \in SUBSET WinnersAt(wins, last)
      /\ PaidAt(wins, last) \in SUBSET Accounts
  BY DEF WinnersAt, PaidAt
<1>2. ASSUME NEW r \in Ranks
      PROVE  /\ slots(WinnersAt(wins, last), r) \in Nat
             /\ slots(PaidAt(wins, last), r) \in Nat
             /\ slots(PaidAt(wins, last), r) <= slots(WinnersAt(wins, last), r)
  BY <1>1, SlotsAtFinite, SlotsAtSubset
<1>3. ASSUME NEW r \in Ranks
      PROVE  /\ MayLoad(counts, <<last, r>>, 0) = count[r]
             /\ GivenAt(entries, results, pots, wins, counts, split, last, r) =
                    some[r] * ShareAt(pots[last], count[r], split[r])
  BY DEF RanksFit, GivenAt
<1> HIDE DEF slots
<1>4. /\ count \in [Ranks -> Nat] /\ some \in [Ranks -> Nat]
      /\ \A r \in Ranks : some[r] <= count[r]
  BY <1>2
<1> HIDE DEF count, some
<1>5. some[1] * ShareAt(pots[last], count[1], split[1])
      + some[2] * ShareAt(pots[last], count[2], split[2])
      + some[3] * ShareAt(pots[last], count[3], split[3])
      + some[4] * ShareAt(pots[last], count[4], split[4]) <= pots[last]
  BY <1>4, SharesWithin
<1>. QED
  BY <1>3, <1>5 DEF Accounted, Ranks

\* The last lottery, after any step.
LEMMA LastPaidWithin ==
    ASSUME TypeOK', RankCountsTickets', PaidAccounted',
           LastLottery' > 0, LastLottery' \notin reopened'
    PROVE  paid'[LastLottery'] <= jackpot'[LastLottery']
<1> DEFINE n == LastLottery'
           split == state'.prize_rank_winner_percentage
<1>1. n \in 1..n
  BY DEF TypeOK, State, LastLottery
<1>2. jackpot'[n] \in Nat /\ split \in PrizeSplits
  BY <1>1 DEF TypeOK, State
<1>3. \A player \in WinnersAt(winner', n) : tickets'[<<n, player>>] \in Seq(Strings)
  BY DEF TypeOK, WinnersAt
<1>4. Accounted(tickets', winning', jackpot', winner', rank', split, n, paid')
  BY AccountedMeaning
<1>5. RanksFit(tickets', winning', winner', rank', n)
  BY RankMeaning
<1> HIDE DEF n, split
<1>. QED
  BY <1>1, <1>2, <1>3, <1>4, <1>5, AccountedWithin DEF n, split

\* A step opens at most one more lottery, and pays at most out of the last one.
LEMMA StepOfLotteries ==
    ASSUME TypeOK, [LotteryNext]_lotteryVars
    PROVE  /\ reopened \subseteq reopened'
           /\ LastLottery' \in {LastLottery, LastLottery + 1}
           /\ \A lottery \in 1..LastLottery :
                  /\ jackpot'[lottery] = jackpot[lottery]
                  /\ lottery # LastLottery' => paid'[lottery] = paid[lottery]
<1>1. ASSUME NEW player \in Accounts, NEW combination \in Batches,
             HandleRegister(player, combination)
      PROVE  UNCHANGED <<reopened, jackpot, paid>> /\ LastLottery' = LastLottery
  BY <1>1 DEF HandleRegister, prizes, LastLottery
<1>2. CASE HandlePlay
  <2>1. LastLottery' = CurrentLottery
    BY <1>2, PlayAdvances
  <2>2. /\ CurrentLottery = LastLottery + 1
        /\ \A lottery \in 1..LastLottery : lottery # CurrentLottery
    BY StateFields DEF LastLottery, CurrentLottery
  <2>. QED
    BY <1>2, <2>1, <2>2 DEF HandlePlay, Save, TypeOK
<1>3. ASSUME NEW addresses \in SUBSET Accounts, HandleClaim(addresses)
      PROVE  /\ UNCHANGED <<jackpot, paid>> /\ LastLottery' = LastLottery
             /\ reopened \subseteq reopened'
  BY <1>3 DEF HandleClaim, LastLottery
<1>4. ASSUME NEW player \in Accounts, HandleCollect(player)
      PROVE  /\ UNCHANGED <<jackpot, reopened>> /\ LastLottery' = LastLottery
             /\ \A lottery \in 1..LastLottery :
                    lottery # LastLottery' => paid'[lottery] = paid[lottery]
  BY <1>4 DEF HandleCollect, Collectable, LastLottery, TypeOK
<1>5. CASE AdminCall \/ Environment \/ UNCHANGED lotteryVars
  BY <1>5, OtherKeeps DEF prizes
<1>. QED
  BY <1>1, <1>2, <1>3, <1>4, <1>5 DEF LotteryNext, LotteryCall

LEMMA WithinStep ==
    /\ TypeOK /\ TypeOK' /\ RankCountsTickets' /\ PaidAccounted'
    /\ PaidWithinJackpot /\ [LotteryNext]_lotteryVars
    => PaidWithinJackpot'
<1> SUFFICES ASSUME TypeOK, TypeOK', RankCountsTickets', PaidAccounted',
                    PaidWithinJackpot, [LotteryNext]_lotteryVars,
                    NEW lottery \in 1..LastLottery', lottery \notin reopened'
             PROVE  paid'[lottery] <= jackpot'[lottery]
  BY DEF PaidWithinJackpot
<1>1. CASE lottery = LastLottery'
  BY <1>1, LastPaidWithin
<1>2. CASE lottery # LastLottery'
  <2>1. LastLottery \in Nat
    BY StateFields DEF LastLottery
  <2>2. lottery \in 1..LastLottery /\ lottery \notin reopened
    BY <1>2, <2>1, StepOfLotteries
  <2>. QED
    BY <1>2, <2>2, StepOfLotteries DEF PaidWithinJackpot
<1>. QED
  BY <1>1, <1>2

\* Whatever the number of players, their tickets and the split of the jackpot,
\* what is handed out for a lottery stays within its jackpot, unless a claim was
\* accepted after a first payment.
THEOREM PrizesWithinJackpot == LotterySpec => []PaidWithinJackpot
<1>1. LotteryInit => PaidWithinJackpot
  BY DEF LotteryInit, StateInit, Instantiated, LastLottery, PaidWithinJackpot
<1>2. /\ TypeOK /\ TypeOK' /\ RankCountsTickets' /\ PaidAccounted'
      /\ PaidWithinJackpot /\ [LotteryNext]_lotteryVars
      => PaidWithinJackpot'
  BY WithinStep
<1>. QED
  BY <1>1, <1>2, LotteryTypeCorrect, RanksCounted, PrizesAccounted, PTL DEF LotterySpec

-----------------------------------------------------------------------------
(* WinnersStayFunded. *)

\* The jackpot is at most half of the balance, and what the worker costs comes
\* out of it.
LEMMA PlayLeavesTwice ==
    ASSUME TypeOK, JackpotAtMostHalf, HandlePlay
    PROVE  balance' >= 2 * (Pot - WorkerFee)
<1> DEFINE p == state.jackpot_percentage_reward
<1>1. balance \in Nat /\ p \in 0..50
  BY StateFields DEF JackpotAtMostHalf
<1>2. Pot \in 0..balance /\ WorkerFee \in 0..Pot
  BY PotBounds
<1>3. 2 * Pot <= balance
  BY <1>1, HalfBounds DEF Pot
<1>4. Pot \in Nat /\ WorkerFee \in Nat
  BY <1>1, <1>2
<1>5. Spend(WorkerFee) \in 0..WorkerFee
  BY <1>4, SpendBounds
<1>6. balance' = balance - Spend(WorkerFee)
  BY DEF HandlePlay
<1>. QED
  BY <1>1, <1>2, <1>3, <1>4, <1>5, <1>6

\* Tickets and donations bring money in.
LEMMA RegisterEarns ==
    ASSUME TypeOK, NEW player \in Accounts, NEW combination \in Batches,
           HandleRegister(player, combination)
    PROVE  balance' >= balance /\ balance' \in Nat
<1>1. /\ balance' = balance + state.price_per_ticket_to_register * Len(combination)
      /\ state.price_per_ticket_to_register * Len(combination) > 0
  BY DEF HandleRegister
<1>2. Len(combination) \in Nat
  BY DEF Batches
<1>3. state.price_per_ticket_to_register * Len(combination) \in Nat
  BY <1>2, StateFields
<1>4. balance \in Nat
  BY StateFields
<1>. QED
  BY <1>1, <1>3, <1>4

LEMMA OthersEarn ==
    ASSUME TypeOK, AdminCall \/ Environment \/ UNCHANGED lotteryVars
    PROVE  balance' >= balance /\ balance' \in Nat
<1>1. Donations \subseteq Nat /\ balance \in Nat
  BY LotteryAssumption, StateFields
<1>. QED
  BY <1>1 DEF AdminCall, HandleSafeLock, HandleRenounce, Environment, NextBlock,
              AddRandomness, Donate, lotteryVars

\* No step but a play takes money that is not accounted as paid.
LEMMA FundsKept ==
    ASSUME TypeOK, TypeOK', [LotteryNext]_lotteryVars, ~HandlePlay, LastLottery' > 0
    PROVE  /\ LastLottery' = LastLottery /\ UNCHANGED jackpot
           /\ balance' + paid'[LastLottery] >= balance + paid[LastLottery]
<1> DEFINE n == LastLottery
<1>1. n = LastLottery' => n \in 1..n /\ paid[n] \in Nat /\ balance \in Nat
  BY DEF TypeOK, State, LastLottery
<1>2. ASSUME NEW player \in Accounts, NEW combination \in Batches,
             HandleRegister(player, combination)
      PROVE  /\ LastLottery' = n /\ UNCHANGED jackpot
             /\ balance' + paid'[n] >= balance + paid[n]
  <2>1. UNCHANGED <<jackpot, paid>> /\ LastLottery' = n
    BY <1>2 DEF HandleRegister, prizes, LastLottery
  <2>2. balance' >= balance /\ balance' \in Nat
    BY <1>2, RegisterEarns
  <2>. QED
    BY <1>1, <2>1, <2>2
<1>3. ASSUME NEW addresses \in SUBSET Accounts, HandleClaim(addresses)
      PROVE  /\ LastLottery' = n /\ UNCHANGED jackpot
             /\ balance' + paid'[n] >= balance + paid[n]
  <2>1. UNCHANGED <<state, jackpot, paid, balance>> /\ LastLottery' = n
    BY <1>3 DEF HandleClaim, LastLottery
  <2>. QED
    BY <1>1, <2>1
<1>4. ASSUME NEW player \in Accounts, HandleCollect(player)
      PROVE  /\ LastLottery' = n /\ UNCHANGED jackpot
             /\ balance' + paid'[n] >= balance + paid[n]
  <2> DEFINE total == PrizeOf(player)
             spent == CollectCost(player)
  <2>1. UNCHANGED <<state, jackpot>> /\ LastLottery' = n
    BY <1>4 DEF HandleCollect, Collectable, LastLottery
  <2>2. /\ total \in Nat /\ spent \in 0..total /\ balance' = balance - spent
        /\ paid' = [paid EXCEPT ![n] = @ + total]
    BY <1>4, CollectSpends
  <2> HIDE DEF total, spent
  <2>3. paid'[n] = paid[n] + total
    BY <1>1, <2>1, <2>2 DEF TypeOK
  <2>. QED
    BY <1>1, <2>1, <2>2, <2>3
<1>5. CASE AdminCall \/ Environment \/ UNCHANGED lotteryVars
  <2>1. UNCHANGED prizes
    BY <1>5, OtherKeeps
  <2>2. LastLottery' = n
    BY <1>5, OtherKeeps
  <2>3. balance' >= balance /\ balance' \in Nat
    BY <1>5, OthersEarn
  <2>. QED
    BY <1>1, <2>1, <2>2, <2>3 DEF prizes
<1>. QED
  BY <1>2, <1>3, <1>4, <1>5 DEF LotteryNext, LotteryCall

LEMMA FundsStep ==
    /\ TypeOK /\ TypeOK' /\ JackpotAtMostHalf /\ FundsCover /\ [LotteryNext]_lotteryVars
    => FundsCover'
<1> SUFFICES ASSUME TypeOK, TypeOK', JackpotAtMostHalf, FundsCover,
                    [LotteryNext]_lotteryVars,
                    LastLottery' > 0, LastLottery' \notin reopened'
             PROVE  balance' + paid'[LastLottery'] >= 2 * jackpot'[LastLottery']
  BY DEF FundsCover
<1>1. CASE HandlePlay
  <2>1. LastLottery' = CurrentLottery
    BY <1>1, PlayAdvances
  <2>2. paid'[CurrentLottery] = 0 /\ jackpot'[CurrentLottery] = Pot - WorkerFee
    BY <1>1 DEF HandlePlay, Save
  <2>3. balance' \in Nat
    BY DEF TypeOK
  <2>. QED
    BY <1>1, <2>1, <2>2, <2>3, PlayLeavesTwice
<1>2. CASE ~HandlePlay
  <2> DEFINE n == LastLottery
  <2>1. /\ LastLottery' = n /\ UNCHANGED jackpot
        /\ balance' + paid'[n] >= balance + paid[n]
    BY <1>2, FundsKept
  <2>2. n \in 1..n /\ n \notin reopened
    <3>1. n \in Nat
      BY StateFields DEF LastLottery
    <3>2. reopened \subseteq reopened'
      BY StepOfLotteries
    <3>. QED
      BY <2>1, <3>1, <3>2
  <2>3. /\ balance \in Nat /\ paid[n] \in Nat /\ jackpot[n] \in Nat
        /\ balance' \in Nat /\ paid'[n] \in Nat
    BY <2>1, <2>2 DEF TypeOK
  <2>4. balance + paid[n] >= 2 * jackpot[n]
    BY <2>2 DEF FundsCover
  <2>. QED
    BY <2>1, <2>3, <2>4
<1>. QED
  BY <1>1, <1>2

LEMMA HalfStep ==
    TypeOK /\ JackpotAtMostHalf /\ [LotteryNext]_lotteryVars => JackpotAtMostHalf'
BY DEF LotteryNext, LotteryCall, HandleRegister, HandlePlay, HandleClaim, HandleCollect, Collectable,
       AdminCall, HandleSafeLock, HandleRenounce, Environment, NextBlock, AddRandomness,
       Donate, lotteryVars, JackpotAtMostHalf, TypeOK, State

\* The part of the inductive invariant that speaks of the balance.
THEOREM FundsAreThere == LotterySpec => [](JackpotAtMostHalf /\ FundsCover)
<1>1. LotteryInit => JackpotAtMostHalf /\ FundsCover
  BY DEF LotteryInit, StateInit, Instantiated, LastLottery, JackpotAtMostHalf, FundsCover
<1>2. TypeOK /\ TypeOK' /\ JackpotAtMostHalf /\ FundsCover /\ [LotteryNext]_lotteryVars
          => JackpotAtMostHalf' /\ FundsCover'
  BY FundsStep, HalfStep
<1>. QED
  BY <1>1, <1>2, LotteryTypeCorrect, PTL DEF LotterySpec

\* Whatever the others collected first, a winner that has not collected finds the
\* whole jackpot in the contract, so handle_collect does not turn it away.
THEOREM WinnersFunded == LotterySpec => []WinnersStayFunded
<1>1. TypeOK /\ PaidWithinJackpot /\ FundsCover => WinnersStayFunded
  <2> SUFFICES ASSUME TypeOK, PaidWithinJackpot, FundsCover, NEW key \in DOMAIN winner,
                      key[1] = LastLottery, LastLottery \notin reopened
               PROVE  balance >= jackpot[LastLottery]
    BY DEF WinnersStayFunded
  <2>1. LastLottery \in 1..LastLottery
    BY DEF TypeOK
  <2>2. balance \in Nat /\ paid[LastLottery] \in Nat /\ jackpot[LastLottery] \in Nat
    BY <2>1 DEF TypeOK
  <2>3. paid[LastLottery] <= jackpot[LastLottery]
    BY <2>1 DEF PaidWithinJackpot
  <2>4. balance + paid[LastLottery] >= 2 * jackpot[LastLottery]
    BY <2>1 DEF FundsCover
  <2>. QED
    BY <2>2, <2>3, <2>4
<1>. QED
  BY <1>1, LotteryTypeCorrect, PrizesWithinJackpot, FundsAreThere, PTL

-----------------------------------------------------------------------------
(* RefusalsExplained. *)

\* A winner's tickets are among those its lottery's ranks count.
LEMMA RanksWithinCounts ==
    ASSUME TypeOK, RankCountsTickets, NEW key \in DOMAIN winner, NEW r \in Ranks
    PROVE  /\ winner[key].ranks[r] \in Nat
           /\ MayLoad(rank, <<key[1], r>>, 0) \in Nat
           /\ winner[key].ranks[r] <= MayLoad(rank, <<key[1], r>>, 0)
<1> DEFINE n == key[1]
           player == key[2]
           all == Winners(n)
<1>1. /\ key \in DOMAIN tickets /\ n \in 1..LastLottery
      /\ key = <<n, player>> /\ player \in Accounts
  BY DEF TypeOK, Keys
<1>2. all \in SUBSET Accounts /\ {player} \in SUBSET all
  BY <1>1 DEF Winners
<1>3. \A p \in all : tickets[<<n, p>>] \in Seq(Strings)
  BY DEF Winners, TypeOK
<1>4. tickets[<<n, player>>] \in Seq(Strings)
  BY <1>2, <1>3
<1>5. winner[key].ranks[r] = Cardinality(SlotsAt(tickets, winning[n], n, {player}, r))
  <2>1. winner[key].ranks = RanksWon(n, player)
    BY DEF RankCountsTickets
  <2>2. winner[key].ranks[r] = Cardinality(TicketsAt(tickets, winning[n], n, player, r))
    BY <2>1, WinningTicketsAt DEF RanksWon
  <2>. QED
    BY <1>4, <2>2, SlotsAtOfOne
<1>6. MayLoad(rank, <<n, r>>, 0) = Cardinality(SlotsAt(tickets, winning[n], n, all, r))
  BY <1>1, WinningSlotsAt DEF RankCountsTickets
<1> HIDE DEF n, player, all
<1>7. /\ Cardinality(SlotsAt(tickets, winning[n], n, {player}, r)) \in Nat
      /\ Cardinality(SlotsAt(tickets, winning[n], n, all, r)) \in Nat
      /\ Cardinality(SlotsAt(tickets, winning[n], n, {player}, r))
             <= Cardinality(SlotsAt(tickets, winning[n], n, all, r))
  <2>1. {player} \in SUBSET Accounts /\ \A p \in {player} : tickets[<<n, p>>] \in Seq(Strings)
    BY <1>2, <1>3
  <2>. QED
    BY <1>2, <1>3, <2>1, SlotsAtFinite, SlotsAtSubset
<1>. QED
  BY <1>5, <1>6, <1>7 DEF n

\* A winner's prize fits in the jackpot it is a part of.
LEMMA PrizeWithinJackpot ==
    ASSUME TypeOK, RankCountsTickets, NEW key \in DOMAIN winner
    PROVE  /\ TotalPrize(key[1], winner[key].ranks) \in Nat
           /\ TotalPrize(key[1], winner[key].ranks) <= jackpot[key[1]]
<1> DEFINE n == key[1]
           split == state.prize_rank_winner_percentage
           count == [r \in Ranks |-> MayLoad(rank, <<n, r>>, 0)]
           some == [r \in Ranks |-> winner[key].ranks[r]]
           share(r) == ShareAt(jackpot[n], count[r], split[r])
<1>1. jackpot[n] \in Nat /\ split \in PrizeSplits
  BY DEF TypeOK, State
<1>2. /\ count \in [Ranks -> Nat] /\ some \in [Ranks -> Nat]
      /\ \A r \in Ranks : some[r] <= count[r]
  BY RanksWithinCounts
<1>3. /\ 1 \in Ranks /\ 2 \in Ranks /\ 3 \in Ranks /\ 4 \in Ranks
  BY DEF Ranks
<1>4. TotalPrize(n, winner[key].ranks) =
          some[1] * share(1) + some[2] * share(2) + some[3] * share(3) + some[4] * share(4)
  BY <1>3 DEF TotalPrize, PrizeShare, ShareAt
<1>5. \A r \in Ranks : split[r] \in 0..100
  BY <1>1 DEF PrizeSplits, Ranks
<1> HIDE DEF n, split, count, some
<1>6. ASSUME NEW r \in Ranks
      PROVE  share(r) \in Nat
  <2>1. count[r] \in Nat /\ split[r] \in 0..100 /\ 0 \in 0..count[r]
    BY <1>2, <1>5
  <2>. QED
    BY <1>1, <2>1, ShareBounds
<1>7. some[1] * share(1) + some[2] * share(2) + some[3] * share(3) + some[4] * share(4)
          <= jackpot[n]
  BY <1>1, <1>2, SharesWithin
<1> HIDE DEF share
<1>8. some[1] * share(1) + some[2] * share(2) + some[3] * share(3) + some[4] * share(4) \in Nat
  BY <1>2, <1>3, <1>6
<1>. QED
  BY <1>4, <1>7, <1>8 DEF n

\* The types and the rank counts are all it takes, under any split and fee: a
\* winner whose balance test passes finds its ranks counted and its cost covered.
LEMMA CostWithinJackpot ==
    ASSUME TypeOK, RankCountsTickets, NEW player \in Winners(LastLottery)
    PROVE  /\ LastLottery \in DOMAIN jackpot /\ jackpot[LastLottery] \in Nat
           /\ \A r \in Ranks : winner[<<LastLottery, player>>].ranks[r] > 0 =>
                  <<LastLottery, r>> \in DOMAIN rank
           /\ PrizeOf(player) \in Nat
           /\ HoldersPart(player) \in 0..PrizeOf(player)
           /\ CollectCost(player) \in 0..jackpot[LastLottery]
<1> DEFINE n == LastLottery
           key == <<n, player>>
           total == PrizeOf(player)
<1>1. key \in DOMAIN winner /\ key[1] = n /\ n \in 1..n
  BY DEF Winners, TypeOK
<1>2. n \in DOMAIN jackpot /\ jackpot[n] \in Nat
  BY <1>1 DEF TypeOK
<1>3. ASSUME NEW r \in Ranks, winner[key].ranks[r] > 0
      PROVE  <<n, r>> \in DOMAIN rank
  BY <1>1, <1>3, RanksWithinCounts DEF MayLoad
<1>4. total \in Nat /\ total <= jackpot[n]
  BY <1>1, PrizeWithinJackpot DEF PrizeOf
<1>5. HoldersPart(player) \in 0..total /\ CollectCost(player) \in 0..total
  <2>1. total = PrizeOf(player)
    OBVIOUS
  <2> HIDE DEF total
  <2>. QED
    BY <1>4, <2>1, PrizeInTwo DEF CollectCost, PlayerPart, HoldersPart
<1> HIDE DEF total
<1>6. CollectCost(player) \in 0..jackpot[n]
  BY <1>2, <1>4, <1>5
<1>. QED
  BY <1>2, <1>3, <1>4, <1>5, <1>6 DEF total

LEMMA RefusalsFromCounts == TypeOK /\ RankCountsTickets => RefusalsExplained
<1> SUFFICES ASSUME TypeOK, RankCountsTickets,
                    NEW player \in Winners(LastLottery) \ PaidWinners(LastLottery)
             PROVE  /\ \A r \in Ranks : winner[<<LastLottery, player>>].ranks[r] > 0 =>
                           <<LastLottery, r>> \in DOMAIN rank
                    /\ (/\ CollectOpen
                        /\ jackpot[LastLottery] # 0
                        /\ ~(balance < jackpot[LastLottery])
                        /\ Sendable(HoldersPart(player)) /\ Sendable(PlayerPart(player))
                        /\ state.loterra_staking_contract_address \in StakingContracts)
                       => Collectable(player)
  BY DEF RefusalsExplained
<1>1. <<LastLottery, player>> \in DOMAIN winner /\ ~winner[<<LastLottery, player>>].claimed
  BY DEF Winners, PaidWinners
<1>2. /\ LastLottery \in DOMAIN jackpot /\ jackpot[LastLottery] \in Nat
      /\ \A r \in Ranks : winner[<<LastLottery, player>>].ranks[r] > 0 =>
             <<LastLottery, r>> \in DOMAIN rank
      /\ PrizeOf(player) \in Nat
      /\ HoldersPart(player) \in 0..PrizeOf(player)
      /\ CollectCost(player) \in 0..jackpot[LastLottery]
  BY CostWithinJackpot
<1>3. balance \in Nat
  BY StateFields
<1>. QED
  BY <1>1, <1>2, <1>3 DEF Collectable

-----------------------------------------------------------------------------
(* WinnersCanCollect. *)

LEMMA TermsInit == LotteryInit => FirstTerms /\ TicketsBacked /\ WinnersWon
<1> SUFFICES ASSUME LotteryInit PROVE FirstTerms /\ TicketsBacked /\ WinnersWon
  OBVIOUS
<1>1. FirstTerms /\ LastLottery = 0 /\ balance \in Nat
  BY AccountsAssumption DEF LotteryInit, StateInit, Instantiated, LastLottery, FirstTerms
<1>. QED
  BY <1>1 DEF LotteryInit, EmptyMap, MayLoad, Sold, TicketsBacked, WinnersWon

LEMMA TermsStep == TypeOK /\ FirstTerms /\ [LotteryNext]_lotteryVars => FirstTerms'
<1> SUFFICES ASSUME TypeOK, FirstTerms, [LotteryNext]_lotteryVars PROVE FirstTerms'
  OBVIOUS
<1>0. state \in State
  BY DEF TypeOK
<1>1. CASE HandlePlay
  <2>1. HoldersFeeAtPlay \in {20, 50}
    BY SMT DEF FirstTerms, HoldersFeeAtPlay
  <2>2. state' = [state EXCEPT
                    !.block_time_play = NextPlayTime,
                    !.token_holder_percentage_fee_reward = HoldersFeeAtPlay,
                    !.lottery_counter = @ + 1]
    BY <1>1 DEF HandlePlay
  <2>. QED
    BY <1>0, <2>1, <2>2, SMT DEF FirstTerms, State
<1>2. ASSUME NEW sender \in Accounts, HandleSafeLock(sender) \/ HandleRenounce(sender)
      PROVE  FirstTerms'
  BY <1>0, <1>2, SMT DEF FirstTerms, State, HandleSafeLock, HandleRenounce
<1>3. CASE state' = state
  BY <1>3, SMT DEF FirstTerms
<1>4. \/ HandlePlay
      \/ \E sender \in Accounts : HandleSafeLock(sender) \/ HandleRenounce(sender)
      \/ state' = state
  BY Zenon DEF LotteryNext, LotteryCall, HandleRegister, HandleClaim, HandleCollect,
               AdminCall, Environment, NextBlock, AddRandomness, Donate, lotteryVars
<1>. QED
  BY <1>1, <1>2, <1>3, <1>4

LEMMA WonStep == TypeOK /\ WinnersWon /\ [LotteryNext]_lotteryVars => WinnersWon'
<1> SUFFICES ASSUME TypeOK, WinnersWon, [LotteryNext]_lotteryVars PROVE WinnersWon'
  OBVIOUS
<1>1. ASSUME NEW addresses \in SUBSET Accounts, HandleClaim(addresses) PROVE WinnersWon'
  <2> DEFINE n == LastLottery
             some == Claimants(n, addresses)
  <2>1. winner' = WinnersAfter(n, some)
    BY <1>1 DEF HandleClaim, SaveWinners
  <2>2. ASSUME NEW player \in some
        PROVE  \E r \in Ranks : RanksWon(n, player)[r] > 0
    <3>1. PICK r \in Ranks : WinningTickets(n, player, r) # {}
      BY DEF Claimants
    <3>2. tickets[<<n, player>>] \in Seq(Strings)
      BY DEF Claimants, TypeOK
    <3>3. IsFiniteSet(WinningTickets(n, player, r))
      BY <3>2, TicketsAtFinite, WinningTicketsAt
    <3>4. Cardinality(WinningTickets(n, player, r)) \in Nat \ {0}
      BY <3>1, <3>3, FS_CardinalityType, FS_EmptySet
    <3>. QED
      BY <3>4 DEF RanksWon
  <2> HIDE DEF some
  <2>. QED
    BY <2>1, <2>2 DEF WinnersAfter, WinnersWon
<1>2. ASSUME NEW player \in Accounts, HandleCollect(player) PROVE WinnersWon'
  BY <1>2 DEF HandleCollect, MarkClaimed, WinnersWon, TypeOK, Winning
<1>3. CASE \/ \E player \in Accounts, combination \in Batches : HandleRegister(player, combination)
           \/ HandlePlay
           \/ AdminCall \/ Environment \/ UNCHANGED lotteryVars
  <2>1. winner' = winner
    BY <1>3, OtherKeeps DEF HandleRegister, HandlePlay, prizes
  <2>. QED
    BY <2>1 DEF WinnersWon
<1>. QED
  BY <1>1, <1>2, <1>3 DEF LotteryNext, LotteryCall

\* A balance that covers the price of sold tickets makes a jackpot of at least
\* 199980 for each of them.
LEMMA PlayWorth ==
    ASSUME TypeOK, FirstTerms, NEW sold \in Nat, balance >= 1000000 * sold
    PROVE  Pot - WorkerFee >= 199980 * sold
<1>. PICK pot : pot = Pot
  OBVIOUS
<1>. PICK part : part = Percent(pot, 1)
  OBVIOUS
<1>. PICK fee : fee = WorkerFee
  OBVIOUS
<1>1. pot = (balance * 20) \div 100 /\ balance \in Nat
  BY StateFields DEF Pot, Percent, FirstTerms
<1>2. pot >= 200000 * sold /\ pot \in Nat
  BY <1>1
<1>3. part = (pot * 1) \div 100 /\ fee = (part * 1) \div 100
  BY DEF WorkerFee, Percent, FirstTerms
<1>4. part \in Nat /\ 100 * part <= pot
  BY <1>2, <1>3
<1>5. fee \in Nat /\ 100 * fee <= part
  BY <1>3, <1>4
<1>. QED
  BY <1>2, <1>4, <1>5

\* Before the first play, and ever after, nothing was paid beyond the last jackpot.
LEMMA LastPaid ==
    ASSUME TypeOK, PaidWithinJackpot, reopened = {}
    PROVE  /\ MayLoad(paid, LastLottery, 0) \in Nat
           /\ MayLoad(jackpot, LastLottery, 0) \in Nat
           /\ MayLoad(paid, LastLottery, 0) <= MayLoad(jackpot, LastLottery, 0)
BY DEF TypeOK, PaidWithinJackpot, MayLoad

LEMMA BackedPlay ==
    ASSUME TypeOK, TypeOK', FirstTerms, TicketsBacked, PaidWithinJackpot, HandlePlay
    PROVE  TicketsBacked'
<1>. PICK n : n = CurrentLottery
  OBVIOUS
<1> SUFFICES ASSUME reopened = {}
             PROVE  /\ balance' + MayLoad(paid', n, 0) >=
                           2 * MayLoad(jackpot', n, 0) + 1000000 * MayLoad(count_tickets, n + 1, 0)
                    /\ \A lottery \in 1..n : jackpot'[lottery] >= 199980 * Sold(lottery)
  BY PlayAdvances DEF TicketsBacked, Sold, HandlePlay, storage
<1>1. n \in Nat \ {0} /\ LastLottery = n - 1 /\ balance \in Nat /\ balance' \in Nat
  BY StateFields DEF CurrentLottery, LastLottery, TypeOK
<1>2. /\ jackpot' = Save(jackpot, n, Pot - WorkerFee)
      /\ MayLoad(paid', n, 0) = 0 /\ MayLoad(jackpot', n, 0) = Pot - WorkerFee
  BY DEF HandlePlay, Save, MayLoad
<1>3. balance' >= 2 * (Pot - WorkerFee)
  BY PlayLeavesTwice DEF FirstTerms, JackpotAtMostHalf
<1>4. MayLoad(count_tickets, n + 1, 0) = 0
  <2>1. n + 1 \notin 1..n
    BY <1>1
  <2>. QED
    BY <2>1 DEF TypeOK, MayLoad
<1>5. Sold(n) \in Nat
  BY DEF Sold, MayLoad, TypeOK
<1>6. balance >= 1000000 * Sold(n)
  <2>1. balance + MayLoad(paid, LastLottery, 0) >=
            2 * MayLoad(jackpot, LastLottery, 0) + 1000000 * Sold(n)
    BY DEF TicketsBacked
  <2>. QED
    BY <1>1, <1>5, <2>1, LastPaid
<1>7. Pot - WorkerFee >= 199980 * Sold(n)
  BY <1>5, <1>6, PlayWorth
<1>8. ASSUME NEW lottery \in 1..n PROVE jackpot'[lottery] >= 199980 * Sold(lottery)
  <2>1. CASE lottery = n
    BY <1>2, <1>7, <2>1 DEF Save
  <2>2. CASE lottery # n
    <3>1. lottery \in 1..LastLottery
      BY <1>1, <2>2
    <3>. QED
      BY <1>2, <2>2, <3>1 DEF Save, TicketsBacked, TypeOK
  <2>. QED
    BY <2>1, <2>2
<1>9. Pot - WorkerFee \in Int
  <2>1. Pot \in 0..balance /\ WorkerFee \in 0..Pot
    BY PotBounds
  <2>. QED
    BY <1>1, <2>1
<1>. QED
  BY <1>1, <1>2, <1>3, <1>4, <1>8, <1>9

LEMMA BackedRegister ==
    ASSUME TypeOK, FirstTerms, TicketsBacked, PaidWithinJackpot,
           NEW player \in Accounts, NEW combination \in Batches,
           HandleRegister(player, combination)
    PROVE  TicketsBacked'
<1>. PICK n : n = CurrentLottery
  OBVIOUS
<1>1. /\ UNCHANGED <<state, jackpot, paid, reopened>>
      /\ LastLottery' = LastLottery /\ CurrentLottery' = n
  BY DEF HandleRegister, prizes, LastLottery, CurrentLottery
<1>2. /\ balance' = balance + 1000000 * Len(combination)
      /\ count_tickets' = Save(count_tickets, n, Sold(n) + Len(combination))
  BY DEF HandleRegister, CombinationSave, FirstTerms, Sold
<1>3. balance \in Nat /\ Sold(n) \in Nat /\ Len(combination) \in Nat
  BY StateFields DEF Batches, Sold, MayLoad, TypeOK
<1>4. Sold(n)' = Sold(n) + Len(combination)
  BY <1>2 DEF Sold, MayLoad, Save
<1>5. ASSUME NEW lottery \in 1..LastLottery PROVE Sold(lottery)' = Sold(lottery)
  <2>1. lottery # n
    BY StateFields DEF CurrentLottery, LastLottery
  <2>. QED
    BY <1>2, <2>1 DEF Sold, MayLoad, Save
<1>6. reopened = {} =>
          balance' + MayLoad(paid, LastLottery, 0) >=
              2 * MayLoad(jackpot, LastLottery, 0) + 1000000 * Sold(n)'
  BY <1>2, <1>3, <1>4, LastPaid DEF TicketsBacked
<1>. QED
  BY <1>1, <1>5, <1>6 DEF TicketsBacked

LEMMA BackedCollect ==
    ASSUME TypeOK, TicketsBacked, PaidWithinJackpot,
           NEW player \in Accounts, HandleCollect(player)
    PROVE  TicketsBacked'
<1>. PICK n : n = LastLottery
  OBVIOUS
<1>1. /\ UNCHANGED <<state, storage, jackpot, reopened>> /\ n \in DOMAIN paid
      /\ LastLottery' = n /\ CurrentLottery' = CurrentLottery
  BY DEF HandleCollect, Collectable, LastLottery, CurrentLottery, TypeOK
<1>2. /\ PrizeOf(player) \in Nat /\ CollectCost(player) \in 0..PrizeOf(player)
      /\ balance' = balance - CollectCost(player)
      /\ paid' = [paid EXCEPT ![n] = @ + PrizeOf(player)]
  BY CollectSpends
<1>3. MayLoad(paid', n, 0) = MayLoad(paid, n, 0) + PrizeOf(player)
  BY <1>1, <1>2 DEF MayLoad
<1>4. balance \in Nat /\ Sold(CurrentLottery) \in Nat
  BY StateFields DEF Sold, MayLoad, TypeOK
<1>5. reopened = {} =>
          balance' + MayLoad(paid', n, 0) >=
              2 * MayLoad(jackpot, n, 0) + 1000000 * Sold(CurrentLottery)
  <2> SUFFICES ASSUME reopened = {}
               PROVE  balance' + MayLoad(paid', n, 0) >=
                          2 * MayLoad(jackpot, n, 0) + 1000000 * Sold(CurrentLottery)
    OBVIOUS
  <2>1. balance + MayLoad(paid, n, 0) >=
            2 * MayLoad(jackpot, n, 0) + 1000000 * Sold(CurrentLottery)
    BY DEF TicketsBacked
  <2>. QED
    BY <1>2, <1>3, <1>4, <2>1, LastPaid
<1>. QED
  BY <1>1, <1>5 DEF TicketsBacked, Sold, storage

LEMMA BackedStep ==
    /\ TypeOK /\ TypeOK' /\ FirstTerms /\ TicketsBacked /\ PaidWithinJackpot
    /\ [LotteryNext]_lotteryVars
    => TicketsBacked'
<1> SUFFICES ASSUME TypeOK, TypeOK', FirstTerms, TicketsBacked, PaidWithinJackpot,
                    [LotteryNext]_lotteryVars
             PROVE  TicketsBacked'
  OBVIOUS
<1>1. ASSUME NEW addresses \in SUBSET Accounts, HandleClaim(addresses) PROVE TicketsBacked'
  <2>1. /\ UNCHANGED <<state, balance, storage, jackpot, paid>> /\ reopened \subseteq reopened'
        /\ LastLottery' = LastLottery /\ CurrentLottery' = CurrentLottery
    BY <1>1 DEF HandleClaim, LastLottery, CurrentLottery
  <2>. QED
    BY <2>1 DEF TicketsBacked, Sold, storage
<1>2. CASE AdminCall \/ Environment \/ UNCHANGED lotteryVars
  <2>1. /\ LastLottery' = LastLottery /\ UNCHANGED <<storage, prizes>>
        /\ balance' >= balance /\ balance' \in Nat /\ balance \in Nat
    BY <1>2, OtherKeeps, OthersEarn, StateFields
  <2>2. CurrentLottery' = CurrentLottery
    <3>1. state.lottery_counter \in Nat /\ state'.lottery_counter \in Nat
      BY DEF TypeOK, State
    <3>. QED
      BY <2>1, <3>1 DEF CurrentLottery, LastLottery
  <2>3. Sold(CurrentLottery) \in Nat
    BY DEF Sold, MayLoad, TypeOK
  <2>4. reopened = {} =>
            balance' + MayLoad(paid, LastLottery, 0) >=
                2 * MayLoad(jackpot, LastLottery, 0) + 1000000 * Sold(CurrentLottery)
    BY <2>1, <2>3, LastPaid DEF TicketsBacked
  <2>. QED
    BY <2>1, <2>2, <2>4 DEF TicketsBacked, Sold, storage, prizes
<1>. QED
  BY <1>1, <1>2, BackedPlay, BackedRegister, BackedCollect DEF LotteryNext, LotteryCall

\* The terms of the lottery alone, and what they keep in the contract.
THEOREM TicketsAreBacked == LotterySpec => [](FirstTerms /\ TicketsBacked /\ WinnersWon)
<1>1. /\ TypeOK /\ TypeOK' /\ PaidWithinJackpot
      /\ FirstTerms /\ TicketsBacked /\ WinnersWon
      /\ [LotteryNext]_lotteryVars
      => FirstTerms' /\ TicketsBacked' /\ WinnersWon'
  BY TermsStep, BackedStep, WonStep
<1>. QED
  BY <1>1, TermsInit, LotteryTypeCorrect, PrizesWithinJackpot, PTL DEF LotterySpec

\* Tax or no tax, two units leave a coin to send.
LEMMA SendableFromTwo == ASSUME NEW x \in Nat, x >= 2 PROVE Sendable(x)
<1> DEFINE kept == (x * DECIMAL_FRACTION) \div (DECIMAL_FRACTION + TaxRate)
<1>1. /\ DECIMAL_FRACTION \in Nat \ {0} /\ TaxRate \in Nat /\ TaxCap \in Nat
      /\ TaxRate <= DECIMAL_FRACTION
  BY DecimalFractionAssumption, ChainAssumption, TaxAssumption
<1>2. kept >= 1 /\ kept \in Nat
  <2>1. PICK d \in Nat \ {0} : d = DECIMAL_FRACTION + TaxRate
    BY <1>1
  <2>2. PICK m \in Nat : m = x * DECIMAL_FRACTION
    BY <1>1
  <2>3. m >= d
    <3>1. m = 2 * DECIMAL_FRACTION + (x - 2) * DECIMAL_FRACTION
      BY <1>1, <2>2
    <3>2. (x - 2) * DECIMAL_FRACTION \in Nat
      BY <1>1
    <3>. QED
      BY <1>1, <2>1, <3>1, <3>2
  <2>. QED
    BY <2>1, <2>2, <2>3
<1> HIDE DEF kept
<1>3. ComputeTax(x, TaxRate, TaxCap) = Min2(x - kept, TaxCap)
  BY DEF ComputeTax, kept
<1>. QED
  BY <1>1, <1>2, <1>3 DEF Sendable, DeductTax, Min2

\* No rank counts more tickets than its lottery sold.
LEMMA CountWithinSold ==
    ASSUME TypeOK, RankCountsTickets, CountersAgree,
           NEW lottery \in 1..LastLottery, NEW r \in Ranks
    PROVE  /\ MayLoad(rank, <<lottery, r>>, 0) \in Nat /\ Sold(lottery) \in Nat
           /\ MayLoad(rank, <<lottery, r>>, 0) <= Sold(lottery)
<1> DEFINE slots == SlotsAt(tickets, winning[lottery], lottery, Winners(lottery), r)
           held == HeldAt(tickets, lottery)
<1>1. MayLoad(rank, <<lottery, r>>, 0) = Cardinality(slots)
  BY WinningSlotsAt DEF RankCountsTickets
<1>2. Sold(lottery) = Cardinality(held)
  <2>1. lottery \in 1..CurrentLottery
    BY StateFields DEF LastLottery, CurrentLottery
  <2>. QED
    BY <2>1, CountersMeaning DEF Agree, Sold
<1>3. IsFiniteSet(held)
  BY HeldFinite DEF TypeOK
<1>4. slots \subseteq held
  <2>1. Winners(lottery) \subseteq BuyersAt(tickets, lottery)
    BY DEF Winners, BuyersAt, TypeOK
  <2>2. \A player : TicketsAt(tickets, winning[lottery], lottery, player, r)
                       \subseteq DOMAIN tickets[<<lottery, player>>]
    BY DEF TicketsAt
  <2>. QED
    BY <2>1, <2>2 DEF SlotsAt, HeldAt
<1>5. Cardinality(slots) \in Nat /\ Cardinality(held) \in Nat
         /\ Cardinality(slots) <= Cardinality(held)
  BY <1>3, <1>4, FS_Subset, FS_CardinalityType
<1>. QED
  BY <1>1, <1>2, <1>5

\* A ticket gets at least worth of any percentage of an amount that holds 100 times
\* worth for each of the tickets dividing it.
LEMMA ShareWorth ==
    ASSUME NEW amount \in Nat, NEW count \in Nat \ {0}, NEW percentage \in 1..100,
           NEW worth \in Nat, amount >= 100 * (worth * count)
    PROVE  ShareAt(amount, count, percentage) >= worth
<1>. PICK part : part = Percent(amount, percentage)
  OBVIOUS
<1>0. percentage \in 0..100
  OBVIOUS
<1>1. part \in Nat
  BY <1>0, PercentType
<1>2. worth * count \in Int /\ worth * count <= part
  <2>1. PICK m : m = amount * percentage
    OBVIOUS
  <2>2. m \in Int /\ m >= amount
    <3>1. m = amount + amount * (percentage - 1)
      BY <2>1
    <3>2. amount * (percentage - 1) \in Nat
      OBVIOUS
    <3>. QED
      BY <3>1, <3>2
  <2>3. PICK x \in Int : x = worth * count
    OBVIOUS
  <2>4. x * 100 <= m
    BY <2>2, <2>3
  <2>5. x <= m \div 100
    BY <2>2, <2>4, QuotientAtLeast
  <2>6. part = m \div 100
    BY <2>1 DEF Percent
  <2>. QED
    BY <2>3, <2>5, <2>6
<1>3. worth <= part \div count
  BY <1>1, <1>2, QuotientAtLeast
<1>4. part \div count \in Nat
  BY <1>1, Division
<1>. QED
  BY <1>3, <1>4 DEF ShareAt

\* A prize with one ticket in it is worth a share or more.
LEMMA PrizeWorth ==
    ASSUME TypeOK, FirstTerms, TicketsBacked, reopened = {},
           RankCountsTickets, CountersAgree, WinnersWon,
           NEW player \in Winners(LastLottery)
    PROVE  PrizeOf(player) >= 1999 /\ jackpot[LastLottery] > 0
<1>. PICK n : n = LastLottery
  OBVIOUS
<1>. PICK key : key = <<n, player>>
  OBVIOUS
<1>1. key \in DOMAIN winner /\ key[1] = n /\ n \in 1..LastLottery
  BY DEF Winners, TypeOK
<1>2. PICK own \in Ranks : winner[key].ranks[own] > 0
  BY <1>1 DEF WinnersWon
<1>. DEFINE count == [r \in Ranks |-> MayLoad(rank, <<n, r>>, 0)]
            some == winner[key].ranks
            share == [r \in Ranks |->
                         ShareAt(jackpot[n], count[r], state.prize_rank_winner_percentage[r])]
<1>3. jackpot[n] \in Nat /\ some \in [Ranks -> Nat]
  BY <1>1 DEF TypeOK, Winning
<1>4. \A r \in Ranks : /\ count[r] \in Nat /\ some[r] <= count[r]
                       /\ state.prize_rank_winner_percentage[r] \in 1..100
  BY <1>1, RanksWithinCounts, SMT DEF Ranks, FirstTerms
<1>5. jackpot[n] >= 199980 * count[own]
  <2>1. Sold(n) \in Nat /\ count[own] \in Nat /\ count[own] <= Sold(n)
    BY <1>1, CountWithinSold
  <2>2. jackpot[n] >= 199980 * Sold(n)
    BY <1>1, SMT DEF TicketsBacked
  <2>3. PICK c, sold : c = count[own] /\ sold = Sold(n)
    OBVIOUS
  <2>. QED
    BY <1>3, <2>1, <2>2, <2>3, SMT
<1>6. some[own] >= 1 /\ count[own] \in Nat \ {0}
  BY <1>2, <1>3, <1>4
<1>7. \A r \in Ranks : share[r] \in Nat
  <2>. SUFFICES ASSUME NEW r \in Ranks PROVE share[r] \in Nat
    OBVIOUS
  <2>1. count[r] \in Nat /\ state.prize_rank_winner_percentage[r] \in 0..100 /\ 0 \in 0..count[r]
    BY <1>4
  <2>. QED
    BY <1>3, <2>1, ShareBounds
<1>8. share[own] >= 1999
  <2>1. /\ count[own] \in Nat \ {0} /\ state.prize_rank_winner_percentage[own] \in 1..100
        /\ jackpot[n] \in Nat
    BY <1>3, <1>4, <1>6
  <2>. HIDE DEF count
  <2>2. PICK c \in Nat \ {0} : c = count[own]
    BY <2>1
  <2>3. jackpot[n] >= 100 * (1999 * c)
    BY <1>5, <2>1, <2>2, SMT
  <2>4. ShareAt(jackpot[n], c, state.prize_rank_winner_percentage[own]) >= 1999
    <3>1. 1999 \in Nat
      OBVIOUS
    <3>2. PICK a \in Nat : a = jackpot[n]
      BY <2>1
    <3>3. PICK p \in 1..100 : p = state.prize_rank_winner_percentage[own]
      BY <2>1
    <3>4. PICK w \in Nat : w = 1999
      BY <3>1
    <3>5. a >= 100 * (w * c)
      BY <2>3, <3>2, <3>4
    <3>6. ShareAt(a, c, p) >= w
      BY <3>5, ShareWorth
    <3>. QED
      BY <3>2, <3>3, <3>4, <3>6
  <2>5. ShareAt(jackpot[n], count[own], state.prize_rank_winner_percentage[own]) >= 1999
    BY <2>2, <2>4
  <2>. QED
    BY <2>5
<1>9. PrizeOf(player) =
          some[1] * share[1] + some[2] * share[2] + some[3] * share[3] + some[4] * share[4]
  BY DEF PrizeOf, TotalPrize, PrizeShare, ShareAt, Ranks
<1>. HIDE DEF count, some, share
<1>10. PrizeOf(player) >= 1999
  <2>1. /\ some[1] * share[1] \in Nat /\ some[2] * share[2] \in Nat
        /\ some[3] * share[3] \in Nat /\ some[4] * share[4] \in Nat
    BY <1>3, <1>7 DEF Ranks
  <2>2. some[own] * share[own] >= 1999
    <3>1. some[own] \in Nat /\ share[own] \in Nat
      BY <1>3, <1>7
    <3>2. some[own] * share[own] = share[own] + (some[own] - 1) * share[own]
      BY <3>1
    <3>3. (some[own] - 1) * share[own] \in Nat
      BY <1>6, <3>1
    <3>. QED
      BY <1>8, <3>1, <3>2, <3>3
  <2>3. own \in {1, 2, 3, 4}
    BY DEF Ranks
  <2>. QED
    BY <1>9, <2>1, <2>2, <2>3
<1>11. jackpot[n] > 0
  BY <1>3, <1>5, <1>6, SMT
<1>. QED
  BY <1>10, <1>11

\* Both parts of such a prize make a coin.
LEMMA PartsWorth ==
    ASSUME TypeOK, FirstTerms, NEW player \in Winners(LastLottery),
           PrizeOf(player) \in Nat, PrizeOf(player) >= 1999
    PROVE  Sendable(HoldersPart(player)) /\ Sendable(PlayerPart(player))
<1>. PICK total \in Nat : total = PrizeOf(player)
  OBVIOUS
<1>. PICK fee \in {20, 50} : fee = state.token_holder_percentage_fee_reward
  BY DEF FirstTerms
<1>. PICK part : part = HoldersPart(player)
  OBVIOUS
<1>1. part = (total * fee) \div 100
  BY DEF HoldersPart, Percent
<1>2. part \in Nat /\ part >= 2 /\ total - part \in Nat /\ total - part >= 2
  <2>1. CASE fee = 20
    BY <1>1, <2>1, SMT
  <2>2. CASE fee = 50
    BY <1>1, <2>2, SMT
  <2>. QED
    BY <2>1, <2>2
<1>. QED
  BY <1>2, SendableFromTwo DEF PlayerPart

-----------------------------------------------------------------------------
\* The whole inductive invariant.
THEOREM LotteryInvariant == LotterySpec => []LotteryInv
<1>1. TypeOK /\ RankCountsTickets /\ PaidWithinJackpot /\ PaidAccounted
          /\ JackpotAtMostHalf /\ FundsCover
          /\ FirstTerms /\ TicketsBacked /\ WinnersWon => LotteryInv
  BY DEF LotteryInv
<1>. QED
  BY <1>1, LotteryTypeCorrect, RanksCounted, PrizesWithinJackpot, PrizesAccounted,
     FundsAreThere, TicketsAreBacked, PTL

\* A refused collection always has one of the four reasons handle_collect names.
THEOREM RefusalsAlwaysExplained == LotterySpec => []RefusalsExplained
BY RefusalsFromCounts, LotteryTypeCorrect, RanksCounted, PTL

\* With the terms of instantiate, for any number of players, tickets and lotteries,
\* every tax the chain may set and every order of the calls, no winner that calls in
\* the window is refused, unless a claim followed a payment.
THEOREM NobodyRefused == LotterySpec => []WinnersCanCollect
<1>1. LotteryInv /\ CountersAgree /\ WinnersStayFunded => WinnersCanCollect
  <2>. SUFFICES ASSUME LotteryInv, CountersAgree, WinnersStayFunded, reopened = {},
                       NEW player \in Winners(LastLottery) \ PaidWinners(LastLottery),
                       CollectOpen
                PROVE  Collectable(player)
    BY DEF WinnersCanCollect
  <2>1. TypeOK /\ RankCountsTickets /\ FirstTerms /\ TicketsBacked /\ WinnersWon
    BY DEF LotteryInv
  <2>2. /\ <<LastLottery, player>> \in DOMAIN winner
        /\ ~winner[<<LastLottery, player>>].claimed
    BY DEF Winners, PaidWinners
  <2>3. balance >= jackpot[LastLottery]
    BY <2>2 DEF WinnersStayFunded
  <2>4. PrizeOf(player) \in Nat /\ jackpot[LastLottery] \in Nat
    BY <2>1, CostWithinJackpot
  <2>5. PrizeOf(player) >= 1999 /\ jackpot[LastLottery] > 0
    BY <2>1, PrizeWorth
  <2>6. Sendable(HoldersPart(player)) /\ Sendable(PlayerPart(player))
    BY <2>1, <2>4, <2>5, PartsWorth
  <2>7. state.loterra_staking_contract_address \in StakingContracts
    BY <2>1 DEF FirstTerms
  <2>8. /\ balance \in Nat
        /\ jackpot[LastLottery] # 0 /\ ~(balance < jackpot[LastLottery])
    <3>1. balance \in Nat
      BY <2>1, StateFields
    <3>. QED
      BY <2>3, <2>4, <2>5, <3>1
  <2>9. CollectOpen /\ ~Collectable(player) =>
               \/ jackpot[LastLottery] = 0
               \/ balance < jackpot[LastLottery]
               \/ ~Sendable(HoldersPart(player)) \/ ~Sendable(PlayerPart(player))
               \/ state.loterra_staking_contract_address \notin StakingContracts
    BY <2>1, RefusalsFromCounts, Zenon DEF RefusalsExplained
  <2>. QED
    BY <2>6, <2>7, <2>8, <2>9, Zenon
<1>. QED
  BY <1>1, LotteryInvariant, CountersAlwaysAgree, WinnersFunded, PTL

-----------------------------------------------------------------------------
(* What each handler does to the winners. *)

\* A claim adds unpaid winners of the last lottery and touches no other.
LEMMA ClaimAdds ==
    ASSUME TypeOK, NEW addresses \in SUBSET Accounts, HandleClaim(addresses)
    PROVE  /\ LastLottery \in 1..LastLottery
           /\ LastLottery' = LastLottery
           /\ \A key \in DOMAIN winner : key \in DOMAIN winner' /\ winner'[key] = winner[key]
           /\ \A key \in DOMAIN winner' \ DOMAIN winner :
                  key[1] = LastLottery /\ ~winner'[key].claimed
           /\ UNCHANGED <<storage, winning, jackpot, paid>>
<1> DEFINE some == Claimants(LastLottery, addresses)
<1>1. LastLottery \in 1..LastLottery /\ LastLottery' = LastLottery
  BY DEF HandleClaim, LastLottery, TypeOK
<1>2. SaveWinners(LastLottery, some) /\ UNCHANGED <<storage, winning, jackpot, paid>>
  BY DEF HandleClaim
<1>3. \A player \in some : <<LastLottery, player>> \notin DOMAIN winner
  BY DEF Claimants
<1> HIDE DEF some
<1>4. \A key \in DOMAIN winner : key \in DOMAIN winner' /\ winner'[key] = winner[key]
  BY <1>2, <1>3 DEF SaveWinners, WinnersAfter, RanksAfter
<1>5. \A key \in DOMAIN winner' \ DOMAIN winner :
          key[1] = LastLottery /\ ~winner'[key].claimed
  BY <1>2 DEF SaveWinners, WinnersAfter, RanksAfter
<1>. QED
  BY <1>1, <1>2, <1>4, <1>5

\* A collection marks one unpaid winner of the last lottery and touches no other.
LEMMA CollectMarks ==
    ASSUME TypeOK, NEW player \in Accounts, HandleCollect(player)
    PROVE  /\ LastLottery \in 1..LastLottery
           /\ LastLottery' = LastLottery
           /\ <<LastLottery, player>> \in DOMAIN winner
           /\ ~winner[<<LastLottery, player>>].claimed
           /\ winner'[<<LastLottery, player>>].claimed
           /\ DOMAIN winner' = DOMAIN winner
           /\ \A key \in DOMAIN winner :
                  /\ winner'[key].ranks = winner[key].ranks
                  /\ key # <<LastLottery, player>> => winner'[key] = winner[key]
           /\ UNCHANGED <<storage, winning, jackpot, reopened>>
<1> DEFINE key == <<LastLottery, player>>
<1>1. LastLottery \in 1..LastLottery /\ LastLottery' = LastLottery
  BY DEF HandleCollect, Collectable, LastLottery, TypeOK
<1>2. key \in DOMAIN winner /\ ~winner[key].claimed
  BY DEF HandleCollect, Collectable
<1>3. winner[key] \in Winning
  BY <1>2 DEF TypeOK
<1>4. winner' = [winner EXCEPT ![key].claimed = TRUE]
  BY DEF HandleCollect, Collectable, MarkClaimed
<1> HIDE DEF key
<1>5. DOMAIN winner' = DOMAIN winner /\ winner'[key] = [winner[key] EXCEPT !.claimed = TRUE]
  BY <1>2, <1>4
<1>6. winner'[key].claimed /\ winner'[key].ranks = winner[key].ranks
  BY <1>3, <1>5 DEF Winning
<1>7. \A other \in DOMAIN winner : other # key => winner'[other] = winner[other]
  BY <1>4
<1>8. UNCHANGED <<storage, winning, jackpot, reopened>>
  BY DEF HandleCollect, Collectable
<1>. QED
  BY <1>1, <1>2, <1>5, <1>6, <1>7, <1>8 DEF key

\* A step that is none of the lottery's own but a purchase leaves the results.
LEMMA OtherLeaves ==
    ASSUME TypeOK,
           \/ \E player \in Accounts, combination \in Batches : HandleRegister(player, combination)
           \/ AdminCall \/ Environment \/ UNCHANGED lotteryVars
    PROVE  LastLottery' = LastLottery /\ UNCHANGED prizes
<1>1. ASSUME NEW player \in Accounts, NEW combination \in Batches,
             HandleRegister(player, combination)
      PROVE  LastLottery' = LastLottery /\ UNCHANGED prizes
  BY <1>1 DEF HandleRegister, LastLottery
<1>. QED
  BY <1>1, OtherKeeps

\* A purchase concerns the lottery being sold, which was not played.
LEMMA RegisterIsOpen ==
    ASSUME TypeOK, NEW player \in Accounts, NEW combination \in Batches,
           HandleRegister(player, combination)
    PROVE  \A key \in DOMAIN tickets' : key[1] \in DOMAIN winning =>
               key \in DOMAIN tickets /\ tickets'[key] = tickets[key]
<1>1. CurrentLottery \notin DOMAIN winning
  BY StateFields DEF TypeOK, CurrentLottery, LastLottery
<1>2. \E value : tickets' = Save(tickets, <<CurrentLottery, player>>, value)
  BY DEF HandleRegister, CombinationSave
<1>. QED
  BY <1>1, <1>2 DEF Save

\* A play adds a result and leaves every other.
LEMMA PlayAdds ==
    ASSUME TypeOK, HandlePlay
    PROVE  /\ LastLottery' = LastLottery + 1 /\ LastLottery + 1 = CurrentLottery
           /\ LastLottery \in Nat
           /\ DOMAIN winning = 1..LastLottery
           /\ \A lottery \in 1..LastLottery :
                  /\ winning'[lottery] = winning[lottery]
                  /\ jackpot'[lottery] = jackpot[lottery]
                  /\ paid'[lottery] = paid[lottery]
           /\ paid'[LastLottery + 1] = 0
           /\ UNCHANGED <<storage, winner, reopened>>
<1>1. LastLottery \in Nat /\ LastLottery + 1 = CurrentLottery
  BY StateFields DEF LastLottery, CurrentLottery
<1>2. LastLottery' = CurrentLottery
  BY PlayAdvances
<1>3. \A lottery \in 1..LastLottery : lottery # CurrentLottery
  BY <1>1
<1>4. /\ DOMAIN winning = 1..LastLottery /\ DOMAIN jackpot = 1..LastLottery
      /\ DOMAIN paid = 1..LastLottery
  BY DEF TypeOK
<1>. QED
  BY <1>1, <1>2, <1>3, <1>4 DEF HandlePlay, Save

-----------------------------------------------------------------------------
(* ResultsFinal. *)

\* The action of ResultsFinal.
SettledFinal ==
    /\ \A lottery \in DOMAIN winning :
           winning'[lottery] = winning[lottery] /\ jackpot'[lottery] = jackpot[lottery]
    /\ \A key \in DOMAIN tickets' : key[1] \in DOMAIN winning =>
           key \in DOMAIN tickets /\ tickets'[key] = tickets[key]
    /\ \A key \in DOMAIN winner :
           /\ winner'[key].ranks = winner[key].ranks
           /\ winner[key].claimed => winner'[key].claimed
    /\ \A key \in DOMAIN winner' : key[1] < LastLottery =>
           key \in DOMAIN winner /\ winner'[key] = winner[key]

LEMMA ResultsStep == TypeOK /\ [LotteryNext]_lotteryVars => SettledFinal
<1> SUFFICES ASSUME TypeOK, [LotteryNext]_lotteryVars PROVE SettledFinal
  OBVIOUS
<1>1. LastLottery \in Nat /\ DOMAIN winning = 1..LastLottery
  BY StateFields DEF LastLottery, TypeOK
<1>2. ASSUME NEW player \in Accounts, NEW combination \in Batches,
             HandleRegister(player, combination)
      PROVE  SettledFinal
  BY <1>2, RegisterIsOpen, OtherLeaves DEF SettledFinal, prizes
<1>3. CASE HandlePlay
  BY <1>1, <1>3, PlayAdds DEF SettledFinal, storage
<1>4. ASSUME NEW addresses \in SUBSET Accounts, HandleClaim(addresses)
      PROVE  SettledFinal
  BY <1>1, <1>4, ClaimAdds DEF SettledFinal, storage
<1>5. ASSUME NEW player \in Accounts, HandleCollect(player)
      PROVE  SettledFinal
  <2>1. \A key \in DOMAIN winner : key[1] < LastLottery => key # <<LastLottery, player>>
    BY <1>1
  <2>. QED
    BY <1>1, <1>5, <2>1, CollectMarks DEF SettledFinal, storage
<1>6. CASE AdminCall \/ Environment \/ UNCHANGED lotteryVars
  BY <1>6, OtherKeeps DEF SettledFinal, prizes, storage
<1>. QED
  BY <1>2, <1>3, <1>4, <1>5, <1>6 DEF LotteryNext, LotteryCall

\* Whatever the players do once a lottery was played, its combination, jackpot
\* and tickets stay, and so does everything recorded of an earlier lottery.
THEOREM ResultsAreFinal == LotterySpec => ResultsFinal
BY ResultsStep, LotteryTypeCorrect, PTL DEF LotterySpec, ResultsFinal, SettledFinal

-----------------------------------------------------------------------------
(* OnePaymentPerWinner. *)

\* The action of OnePaymentPerWinner.
OnePayment ==
    \A lottery \in DOMAIN paid :
        paid'[lottery] # paid[lottery] =>
            /\ lottery = LastLottery
            /\ Cardinality(PaidWinners(lottery)') = Cardinality(PaidWinners(lottery)) + 1

\* A collection makes one more paid winner.
LEMMA CollectCounts ==
    ASSUME TypeOK, NEW player \in Accounts, HandleCollect(player), NEW n, n = LastLottery
    PROVE  /\ player \notin PaidWinners(n)
           /\ PaidWinners(n)' = PaidWinners(n) \cup {player}
           /\ Cardinality(PaidWinners(n)') = Cardinality(PaidWinners(n)) + 1
<1>1. player \notin PaidWinners(n)
  BY CollectMarks DEF PaidWinners, Winners
<1>2. PaidWinners(n)' = PaidWinners(n) \cup {player}
  <2>1. ASSUME NEW other \in Accounts, other # player
        PROVE  other \in PaidWinners(n)' <=> other \in PaidWinners(n)
    <3>1. <<n, other>> # <<LastLottery, player>>
      BY <2>1
    <3>. QED
      BY <3>1, CollectMarks DEF PaidWinners, Winners
  <2>2. player \in PaidWinners(n)'
    BY CollectMarks DEF PaidWinners, Winners
  <2>3. PaidWinners(n)' \subseteq Accounts /\ PaidWinners(n) \subseteq Accounts
    BY DEF PaidWinners, Winners
  <2>. QED
    BY <2>1, <2>2, <2>3
<1>3. IsFiniteSet(PaidWinners(n))
  BY AccountsFinite, FS_Subset DEF PaidWinners, Winners
<1>. QED
  BY <1>1, <1>2, <1>3, FS_AddElement

LEMMA PaymentStep == TypeOK /\ [LotteryNext]_lotteryVars => OnePayment
<1> SUFFICES ASSUME TypeOK, [LotteryNext]_lotteryVars,
                    NEW lottery \in DOMAIN paid, paid'[lottery] # paid[lottery]
             PROVE  /\ lottery = LastLottery
                    /\ Cardinality(PaidWinners(lottery)') = Cardinality(PaidWinners(lottery)) + 1
  BY DEF OnePayment
<1>1. lottery \in 1..LastLottery
  BY DEF TypeOK
<1>2. PICK player \in Accounts : HandleCollect(player)
  <2>1. ~HandlePlay
    BY <1>1, PlayAdds
  <2>. QED
    BY <2>1, OtherKeeps DEF LotteryNext, LotteryCall, HandleRegister, HandleClaim, prizes
<1>3. lottery = LastLottery
  BY <1>1, <1>2 DEF HandleCollect, Collectable
<1>. QED
  BY <1>2, <1>3, CollectCounts

\* Money of a settled lottery moves only by a collection, which marks exactly one
\* winner that was not marked: nobody is paid twice and nobody for another.
THEOREM PaidOnce == LotterySpec => OnePaymentPerWinner
BY PaymentStep, LotteryTypeCorrect, PTL DEF LotterySpec, OnePaymentPerWinner, OnePayment

-----------------------------------------------------------------------------
(* The lottery implements the raffle. *)

\* The last lottery's winners that were paid, before anything was played.
LEMMA RaffleStart == LotteryInit => Prizes!RaffleInit
<1> SUFFICES ASSUME LotteryInit PROVE Prizes!RaffleInit
  OBVIOUS
<1>1. LastLottery = 0
  BY DEF LotteryInit, StateInit, Instantiated, LastLottery
<1>2. Served = [lottery \in {} |-> {}]
  <2>1. 1..LastLottery = {}
    BY <1>1
  <2>. QED
    BY <2>1 DEF Served
<1>. QED
  BY <1>1, <1>2 DEF LotteryInit, EmptyMap, Prizes!RaffleInit

\* A step that changes neither winners nor amounts leaves the raffle alone.
LEMMA RaffleKept ==
    ASSUME LastLottery' = LastLottery, UNCHANGED prizes
    PROVE  UNCHANGED Prizes!raffleVars
<1>1. \A lottery : PaidWinners(lottery)' = PaidWinners(lottery)
  BY DEF PaidWinners, Winners, prizes
<1>2. Served' = Served
  BY <1>1 DEF Served
<1>. QED
  BY <1>2 DEF Prizes!raffleVars, prizes

\* A play settles the next lottery, with nobody served.
LEMMA PlaySettles ==
    ASSUME TypeOK, TypeOK', HandlePlay PROVE Prizes!Settle
<1> DEFINE n == LastLottery
<1>1. /\ LastLottery' = n + 1 /\ n \in Nat /\ n + 1 = CurrentLottery
      /\ \A lottery \in 1..n : jackpot'[lottery] = jackpot[lottery] /\ paid'[lottery] = paid[lottery]
      /\ paid'[n + 1] = 0 /\ UNCHANGED <<winner, reopened>>
  BY PlayAdds
<1>2. jackpot' \in [1..(n + 1) -> Nat] /\ paid' \in [1..(n + 1) -> Nat]
  BY <1>1 DEF TypeOK
<1>3. jackpot' = Prizes!With(jackpot, jackpot'[n + 1])
  BY <1>1, <1>2 DEF Prizes!With
<1>4. paid' = Prizes!With(paid, 0)
  BY <1>1, <1>2 DEF Prizes!With
<1>5. Served' = Prizes!With(Served, {})
  <2>1. \A lottery : PaidWinners(lottery)' = PaidWinners(lottery)
    BY <1>1 DEF PaidWinners, Winners
  <2>2. PaidWinners(n + 1) = {}
    BY <1>1, NewLotteryFresh DEF PaidWinners, Winners
  <2>3. Served' = [lottery \in 1..(n + 1) |-> PaidWinners(lottery)]
    BY <1>1, <2>1 DEF Served
  <2>4. \A lottery \in 1..(n + 1) : lottery # n + 1 => lottery \in 1..n
    BY <1>1
  <2>. QED
    BY <2>2, <2>3, <2>4 DEF Served, Prizes!With
<1>6. n + 1 \in 1..(n + 1)
  BY <1>1
<1>. QED
  BY <1>1, <1>2, <1>3, <1>4, <1>5, <1>6 DEF Prizes!Settle

\* A claim changes nobody's payment; after one it voids the terms.
LEMMA ClaimVoids ==
    ASSUME TypeOK, NEW addresses \in SUBSET Accounts, HandleClaim(addresses)
    PROVE  Prizes!Void \/ UNCHANGED Prizes!raffleVars
<1>1. LastLottery \in 1..LastLottery /\ LastLottery' = LastLottery /\ UNCHANGED <<jackpot, paid>>
  BY ClaimAdds
<1>2. \A lottery : PaidWinners(lottery)' = PaidWinners(lottery)
  BY ClaimAdds DEF PaidWinners, Winners
<1>3. Served' = Served
  BY <1>1, <1>2 DEF Served
<1>4. Served[LastLottery] = PaidWinners(LastLottery)
  BY <1>1 DEF Served
<1>5. reopened' = IF PaidWinners(LastLottery) = {} THEN reopened ELSE reopened \cup {LastLottery}
  BY DEF HandleClaim
<1>. QED
  BY <1>1, <1>3, <1>4, <1>5 DEF Prizes!Void, Prizes!raffleVars

\* A collection serves one player of the last lottery, within its pot.
LEMMA CollectServes ==
    ASSUME TypeOK, TypeOK', PaidWithinJackpot', NEW player \in Accounts, HandleCollect(player)
    PROVE  Prizes!Serve(player)
<1>. PICK n : n = LastLottery
  OBVIOUS
<1> DEFINE total == PrizeOf(player)
<1>1. n \in 1..n /\ LastLottery' = n /\ UNCHANGED <<jackpot, reopened>>
  BY CollectMarks
<1>2. /\ player \notin PaidWinners(n)
      /\ PaidWinners(n)' = PaidWinners(n) \cup {player}
  BY CollectCounts
<1>3. \A lottery : lottery # n => PaidWinners(lottery)' = PaidWinners(lottery)
  <2> SUFFICES ASSUME NEW lottery, lottery # n
               PROVE  PaidWinners(lottery)' = PaidWinners(lottery)
    OBVIOUS
  <2>1. \A other : <<lottery, other>> # <<n, player>>
    OBVIOUS
  <2>. QED
    BY <2>1, CollectMarks DEF PaidWinners, Winners
<1>4. Served' = [Served EXCEPT ![n] = @ \cup {player}]
  BY <1>1, <1>2, <1>3 DEF Served
<1>5. Served[n] = PaidWinners(n)
  BY <1>1 DEF Served
<1>6. total \in Nat /\ paid' = [paid EXCEPT ![n] = @ + total]
  BY CollectSpends
<1> HIDE DEF total
<1>7. /\ DOMAIN paid' = DOMAIN paid /\ paid'[n] >= paid[n]
      /\ paid' = [paid EXCEPT ![n] = paid'[n]]
  BY <1>1, <1>6 DEF TypeOK
<1>8. n \notin reopened => paid'[n] <= jackpot[n]
  BY <1>1 DEF PaidWithinJackpot
<1>. QED
  BY <1>1, <1>2, <1>4, <1>5, <1>7, <1>8 DEF Prizes!Serve

LEMMA RaffleStep ==
    TypeOK /\ TypeOK' /\ PaidWithinJackpot' /\ [LotteryNext]_lotteryVars
        => [Prizes!RaffleNext]_(Prizes!raffleVars)
<1> SUFFICES ASSUME TypeOK, TypeOK', PaidWithinJackpot', [LotteryNext]_lotteryVars
             PROVE  Prizes!RaffleNext \/ UNCHANGED Prizes!raffleVars
  OBVIOUS
<1>1. CASE HandlePlay
  BY <1>1, PlaySettles DEF Prizes!RaffleNext
<1>2. ASSUME NEW addresses \in SUBSET Accounts, HandleClaim(addresses)
      PROVE  Prizes!RaffleNext \/ UNCHANGED Prizes!raffleVars
  BY <1>2, ClaimVoids DEF Prizes!RaffleNext
<1>3. ASSUME NEW player \in Accounts, HandleCollect(player)
      PROVE  Prizes!RaffleNext
  BY <1>3, CollectServes DEF Prizes!RaffleNext
<1>4. CASE \/ \E player \in Accounts, combination \in Batches : HandleRegister(player, combination)
           \/ AdminCall \/ Environment \/ UNCHANGED lotteryVars
  BY <1>4, OtherLeaves, RaffleKept
<1>. QED
  BY <1>1, <1>2, <1>3, <1>4 DEF LotteryNext, LotteryCall

\* The lottery is a raffle: with any tickets, claims, windows and shares, each pot
\* is settled once and pays each player at most once, all within the pot.
THEOREM LotteryIsRaffle == LotterySpec => ImplementsRaffle
<1>. QED
  BY RaffleStart, RaffleStep, LotteryTypeCorrect, PrizesWithinJackpot, PTL
  DEF LotterySpec, ImplementsRaffle, Prizes!RaffleSpec

=============================================================================
