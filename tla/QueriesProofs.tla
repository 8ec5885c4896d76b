--------------------------- MODULE QueriesProofs ---------------------------
(***************************************************************************)
(* Theorems about the answers of the queries: that they fit together, and  *)
(* that the round announced stays and is the round drawn.                  *)
(***************************************************************************)
EXTENDS Queries, LoterraProofs

-----------------------------------------------------------------------------
(* The round announced. *)

LEMMA RoundAnnounced ==
    /\ AnnouncedRound = IF state.block_time_play < DRAND_GENESIS_TIME
                        THEN None ELSE NextRound(state.block_time_play)
    /\ AnnouncedRound' = IF state'.block_time_play < DRAND_GENESIS_TIME
                         THEN None ELSE NextRound(state'.block_time_play)
BY DEF AnnouncedRound, Query, QueryRound, NextRound

\* Until a lottery is played nothing moves the round that GetRound answers, no poll
\* of any kind, no call, no block; and it is the round the lottery is drawn from.
THEOREM PlayDrawsAnnounced == LoterraSpec => PlayDrawsAnnouncedRound
<1>1. TypeOK /\ DaoInv /\ [LoterraNext]_loterraVars
          => [IF LastLottery' = LastLottery
              THEN AnnouncedRound' = AnnouncedRound
              ELSE /\ AnnouncedRound \in DOMAIN randomness
                   /\ winning'[LastLottery'] = WinningCombination(randomness[AnnouncedRound])
             ]_loterraVars
  <2> SUFFICES ASSUME TypeOK, DaoInv, [LoterraNext]_loterraVars
               PROVE  IF LastLottery' = LastLottery
                      THEN AnnouncedRound' = AnnouncedRound
                      ELSE /\ AnnouncedRound \in DOMAIN randomness
                           /\ winning'[LastLottery'] = WinningCombination(randomness[AnnouncedRound])
    OBVIOUS
  <2>1. CASE QuietLottery
    <3>1. LastLottery' = LastLottery /\ state'.block_time_play = state.block_time_play
      BY <2>1 DEF QuietLottery
    <3>. QED
      BY <3>1, RoundAnnounced
  <2>2. CASE PollStep
    <3>1. LastLottery' = LastLottery
      BY <2>2, TypePoll
    <3>2. state'.block_time_play = state.block_time_play
      BY <2>2 DEF PollStep
    <3>. QED
      BY <3>1, <3>2, RoundAnnounced
  <2>3. CASE PlayStep
    <3>1. HandlePlay /\ LastLottery' = CurrentLottery
      BY <2>3, PlayAdvances DEF PlayStep
    <3>2. LastLottery' # LastLottery
      BY <3>1, StateFields DEF LastLottery, CurrentLottery
    <3>3. AnnouncedRound = NextRound(state.block_time_play)
      <4>1. /\ state.block_time_play >= DRAND_GENESIS_TIME
            /\ state.block_time_play \in Nat /\ DRAND_GENESIS_TIME \in Nat
        BY <3>1, StateFields, LotteryAssumption DEF HandlePlay
      <4>2. ~(state.block_time_play < DRAND_GENESIS_TIME)
        BY <4>1
      <4>. QED
        BY <4>2, RoundAnnounced
    <3>4. /\ NextRound(state.block_time_play) \in DOMAIN randomness
          /\ winning'[CurrentLottery] =
                 WinningCombination(randomness[NextRound(state.block_time_play)])
      BY <3>1 DEF HandlePlay, Save
    <3>. QED
      BY <3>1, <3>2, <3>3, <3>4
  <2>. QED
    BY <2>1, <2>2, <2>3, LoterraCases
<1>. QED
  BY <1>1, LoterraTypeCorrect, PTL DEF LoterraSpec, PlayDrawsAnnouncedRound

-----------------------------------------------------------------------------
(* Units of sets. *)

\* As many pairs of an account and an element of its set as of an account and a
\* number up to the size of its set: UnitsOfSets says which pair is which.
UnitsOfSets(sets, some) == UNION {{account} \X sets[account] : account \in some}

LEMMA UnitsCount ==
    ASSUME NEW some \in SUBSET Accounts, NEW sets, NEW weights,
           \A account \in some :
               IsFiniteSet(sets[account]) /\ weights[account] = Cardinality(sets[account])
    PROVE  Cardinality(Units(weights, some)) = Cardinality(UnitsOfSets(sets, some))
<1> DEFINE from == Units(weights, some)
           onto == UnitsOfSets(sets, some)
           order == [account \in some |->
                        CHOOSE f : f \in Bijection(1..weights[account], sets[account])]
           map == [unit \in from |-> <<unit[1], order[unit[1]][unit[2]]>>]
<1>1. ASSUME NEW account \in some
      PROVE  /\ weights[account] \in Nat
             /\ order[account] \in Bijection(1..weights[account], sets[account])
  <2>1. /\ weights[account] \in Nat
        /\ ExistsBijection(1..weights[account], sets[account])
    BY FS_CardinalityType
  <2>2. \E f : f \in Bijection(1..weights[account], sets[account])
    BY <2>1 DEF ExistsBijection
  <2>. QED
    BY <2>1, <2>2
<1> HIDE DEF order
<1>2. ASSUME NEW account \in some
      PROVE  /\ \A i \in 1..weights[account] : order[account][i] \in sets[account]
             /\ \A i, j \in 1..weights[account] : order[account][i] = order[account][j] => i = j
             /\ \A s \in sets[account] : \E i \in 1..weights[account] : order[account][i] = s
  BY <1>1 DEF Bijection, Injection, Surjection, IsInjective
<1>3. ASSUME NEW unit \in from
      PROVE  /\ unit[1] \in some /\ unit[2] \in 1..weights[unit[1]]
             /\ unit = <<unit[1], unit[2]>>
  <2>1. PICK account \in some : unit \in {account} \X (1..weights[account])
    BY DEF Units
  <2>. QED
    BY <2>1
<1>4. ASSUME NEW account \in some, NEW i \in 1..weights[account]
      PROVE  /\ <<account, i>> \in from
             /\ map[<<account, i>>] = <<account, order[account][i]>>
  BY DEF Units
<1>5. map \in [from -> onto]
  BY <1>2, <1>3 DEF UnitsOfSets
<1>6. ASSUME NEW a \in from, NEW b \in from, map[a] = map[b] PROVE a = b
  <2>1. a[1] = b[1] /\ order[a[1]][a[2]] = order[b[1]][b[2]]
    BY <1>6
  <2>. QED
    BY <1>2, <1>3, <2>1
<1>7. ASSUME NEW pair \in onto PROVE \E unit \in from : map[unit] = pair
  <2>1. PICK account \in some : pair \in {account} \X sets[account]
    BY DEF UnitsOfSets
  <2>2. pair[2] \in sets[account] /\ pair = <<account, pair[2]>>
    BY <2>1
  <2>3. PICK i \in 1..weights[account] : order[account][i] = pair[2]
    BY <1>2, <2>2
  <2>4. <<account, i>> \in from /\ map[<<account, i>>] = pair
    BY <1>4, <2>2, <2>3
  <2>. QED
    BY <2>4
<1>8. ExistsBijection(from, onto)
  <2> HIDE DEF map, from, onto
  <2>1. map \in Bijection(from, onto)
    BY <1>5, <1>6, <1>7 DEF Bijection, Injection, Surjection, IsInjective
  <2>. QED
    BY <2>1 DEF ExistsBijection
<1>9. IsFiniteSet(from)
  BY <1>1, UnitsFinite
<1>. QED
  BY <1>8, <1>9, FS_Bijection


-----------------------------------------------------------------------------
(* The answers about one lottery. *)

\* The answer of each query, by the operator that gives it.
LEMMA Answers ==
    ASSUME NEW lottery, NEW player, NEW r
    PROVE  /\ Ask("Players", lottery) = QueryAllPlayers(lottery)
           /\ Ask("Winner", lottery) = QueryAllWinner(lottery)
           /\ Ask("CountPlayer", lottery) = QueryCountPlayer(lottery)
           /\ Ask("CountTicket", lottery) = QueryCountTicket(lottery)
           /\ Ask("Jackpot", lottery) = QueryJackpot(lottery)
           /\ Ask("WinningCombination", lottery) = QueryWinningCombination(lottery)
           /\ Query([query |-> "Combination", lottery_id |-> lottery, address |-> player])
                  = QueryAllCombination(lottery, player)
           /\ Query([query |-> "CountWinner", lottery_id |-> lottery, rank |-> r])
                  = QueryWinnerRank(lottery, r)
           /\ Query([query |-> "GetPoll", poll_id |-> lottery]) = QueryPoll(lottery)
           /\ Query([query |-> "Config"]) = state
BY DEF Ask, Query, QueryConfig

\* The counters fit the tickets of a lottery that never was, too: it has none.
LEMMA CountersAnywhere ==
    ASSUME TypeOK, CountersAgree, NEW lottery \in Nat
    PROVE  LET buyers == {player \in Accounts : <<lottery, player>> \in DOMAIN tickets}
               entered == MayLoad(players, lottery, <<>>)
               slots == UNION {{player} \X DOMAIN tickets[<<lottery, player>>] :
                                   player \in buyers}
           IN  /\ {entered[i] : i \in DOMAIN entered} = buyers
               /\ Len(entered) = Cardinality(buyers)
               /\ MayLoad(count_players, lottery, 0) = Cardinality(buyers)
               /\ MayLoad(count_tickets, lottery, 0) = Cardinality(slots)
<1>1. CASE lottery \in 1..CurrentLottery
  BY <1>1 DEF CountersAgree
<1>2. CASE lottery \notin 1..CurrentLottery
  <2> DEFINE buyers == {player \in Accounts : <<lottery, player>> \in DOMAIN tickets}
             slots == UNION {{player} \X DOMAIN tickets[<<lottery, player>>] : player \in buyers}
  <2>1. buyers = {}
    BY <1>2 DEF TypeOK, Keys
  <2>2. /\ MayLoad(players, lottery, <<>>) = <<>>
        /\ MayLoad(count_players, lottery, 0) = 0
        /\ MayLoad(count_tickets, lottery, 0) = 0
    BY <1>2 DEF TypeOK, MayLoad
  <2>3. slots = {}
    BY <2>1
  <2>4. Cardinality({}) = 0 /\ Len(<<>>) = 0 /\ {<<>>[i] : i \in DOMAIN <<>>} = {}
    BY FS_EmptySet
  <2> HIDE DEF buyers, slots
  <2>5. /\ {MayLoad(players, lottery, <<>>)[i] : i \in DOMAIN MayLoad(players, lottery, <<>>)} = buyers
        /\ Len(MayLoad(players, lottery, <<>>)) = Cardinality(buyers)
        /\ MayLoad(count_players, lottery, 0) = Cardinality(buyers)
        /\ MayLoad(count_tickets, lottery, 0) = Cardinality(slots)
    BY <2>1, <2>2, <2>3, <2>4
  <2>. QED
    BY <2>5 DEF buyers, slots
<1>. QED
  BY <1>1, <1>2

\* So do the ranks: nobody won a lottery that was not played.
LEMMA RanksAnywhere ==
    ASSUME TypeOK, RankCountsTickets, NEW lottery \in Nat, NEW r \in Ranks
    PROVE  MayLoad(rank, <<lottery, r>>, 0) =
               Cardinality(WinningSlots(lottery, Winners(lottery), r))
<1>1. CASE lottery \in 1..LastLottery
  BY <1>1 DEF RankCountsTickets
<1>2. CASE lottery \notin 1..LastLottery
  <2>1. Winners(lottery) = {}
    BY <1>2 DEF Winners, TypeOK
  <2>2. MayLoad(rank, <<lottery, r>>, 0) = 0
    BY <1>2 DEF TypeOK, RankKeys, MayLoad
  <2>3. WinningSlots(lottery, Winners(lottery), r) = {}
    BY <2>1 DEF WinningSlots
  <2>. QED
    BY <2>2, <2>3, FS_EmptySet
<1>. QED
  BY <1>1, <1>2

\* Players, their number and their tickets.
LEMMA PlayersAgree ==
    ASSUME TypeOK, CountersAgree, NEW lottery \in Nat
    PROVE  LET entered == IF Ask("Players", lottery) = None THEN <<>> ELSE Ask("Players", lottery)
               listed == {entered[i] : i \in DOMAIN entered}
               held(p) == Query([query |-> "Combination", lottery_id |-> lottery, address |-> p])
           IN  /\ listed = {player \in Accounts : <<lottery, player>> \in DOMAIN tickets}
               /\ Ask("CountPlayer", lottery) = Len(entered)
               /\ Ask("CountTicket", lottery) =
                      Cardinality(UNION {{p} \X DOMAIN held(p) : p \in listed})
<1> DEFINE buyers == {player \in Accounts : <<lottery, player>> \in DOMAIN tickets}
           answer == Ask("Players", lottery)
           entered == IF answer = None THEN <<>> ELSE answer
           held(p) == Query([query |-> "Combination", lottery_id |-> lottery, address |-> p])
           entry == MayLoad(players, lottery, <<>>)
           slots == UNION {{p} \X DOMAIN tickets[<<lottery, p>>] : p \in buyers}
<1>1. entered = entry
  <2>1. answer = MayLoad(players, lottery, None)
    BY Answers DEF QueryAllPlayers
  <2>2. lottery \in DOMAIN players => players[lottery] # None
    BY AnswersAssumption DEF TypeOK
  <2>. QED
    BY <2>1, <2>2 DEF MayLoad
<1>2. \A p \in buyers : held(p) = tickets[<<lottery, p>>]
  BY Answers DEF QueryAllCombination, MayLoad
<1>3. UNION {{p} \X DOMAIN held(p) : p \in buyers} = slots
  BY <1>2
<1>4. /\ {entry[i] : i \in DOMAIN entry} = buyers
      /\ Len(entry) = Cardinality(buyers)
      /\ MayLoad(count_players, lottery, 0) = Cardinality(buyers)
      /\ MayLoad(count_tickets, lottery, 0) = Cardinality(slots)
  BY CountersAnywhere
<1>5. /\ Ask("CountPlayer", lottery) = MayLoad(count_players, lottery, 0)
      /\ Ask("CountTicket", lottery) = MayLoad(count_tickets, lottery, 0)
  BY Answers DEF QueryCountPlayer, QueryCountTicket
<1> HIDE DEF entered, held, entry, slots, buyers
<1>6. {entered[i] : i \in DOMAIN entered} = buyers
  BY <1>1, <1>4
<1>7. Ask("CountPlayer", lottery) = Len(entered)
  BY <1>1, <1>4, <1>5
<1>8. Ask("CountTicket", lottery) = Cardinality(UNION {{p} \X DOMAIN held(p) : p \in buyers})
  BY <1>3, <1>4, <1>5
<1>. QED
  BY <1>6, <1>7, <1>8 DEF entered, held, buyers

\* Winners, what they won and how many won a rank.
LEMMA WinnersAgree ==
    ASSUME TypeOK, RankCountsTickets, NEW lottery \in Nat
    PROVE  LET winners == Ask("Winner", lottery)
           IN  /\ {w.address : w \in winners}
                      \subseteq {player \in Accounts : <<lottery, player>> \in DOMAIN tickets}
               /\ \A r \in Ranks :
                      Query([query |-> "CountWinner", lottery_id |-> lottery, rank |-> r]) =
                          Cardinality(UNION {{w.address} \X (1..w.claims.ranks[r]) : w \in winners})
<1> DEFINE winners == Ask("Winner", lottery)
           some == Winners(lottery)
<1>1. /\ \A w \in winners : w.address \in some /\ w.claims = winner[<<lottery, w.address>>]
      /\ \A p \in some : \E w \in winners : w.address = p /\ w.claims = winner[<<lottery, p>>]
  <2>1. winners = {[address |-> key[2], claims |-> winner[key]] : key \in AllWinners(lottery)}
    BY Answers DEF QueryAllWinner
  <2>2. ASSUME NEW key \in AllWinners(lottery)
        PROVE  key[2] \in some /\ key = <<lottery, key[2]>>
    <3>1. key \in DOMAIN winner /\ key[1] = lottery
      BY DEF AllWinners
    <3>2. key \in Keys
      BY <3>1 DEF TypeOK
    <3>3. key = <<key[1], key[2]>> /\ key[2] \in Accounts
      BY <3>2 DEF Keys
    <3>. QED
      BY <3>1, <3>3 DEF Winners
  <2>3. ASSUME NEW p \in some
        PROVE  <<lottery, p>> \in AllWinners(lottery)
    BY DEF AllWinners, Winners
  <2> HIDE DEF winners, some
  <2>4. ASSUME NEW w \in winners
        PROVE  w.address \in some /\ w.claims = winner[<<lottery, w.address>>]
    <3>1. PICK key \in AllWinners(lottery) : w = [address |-> key[2], claims |-> winner[key]]
      BY <2>1
    <3>2. w.address = key[2] /\ w.claims = winner[key]
      BY <3>1
    <3>. QED
      BY <2>2, <3>2
  <2>5. ASSUME NEW p \in some
        PROVE  \E w \in winners : w.address = p /\ w.claims = winner[<<lottery, p>>]
    <3>1. [address |-> p, claims |-> winner[<<lottery, p>>]] \in winners
      BY <2>1, <2>3
    <3>. QED
      BY <3>1
  <2>. QED
    BY <2>4, <2>5
<1>2. some \in SUBSET Accounts
  BY DEF Winners
<1> HIDE DEF winners
<1>3. {w.address : w \in winners}
          \subseteq {player \in Accounts : <<lottery, player>> \in DOMAIN tickets}
  BY <1>1 DEF Winners, TypeOK
<1>4. ASSUME NEW r \in Ranks
      PROVE  Query([query |-> "CountWinner", lottery_id |-> lottery, rank |-> r]) =
                 Cardinality(UNION {{w.address} \X (1..w.claims.ranks[r]) : w \in winners})
  <2> DEFINE weights == [p \in some |-> winner[<<lottery, p>>].ranks[r]]
             sets == [p \in some |-> WinningTickets(lottery, p, r)]
  <2>1. UNION {{w.address} \X (1..w.claims.ranks[r]) : w \in winners} = Units(weights, some)
    <3> DEFINE won == UNION {{w.address} \X (1..w.claims.ranks[r]) : w \in winners}
    <3>1. ASSUME NEW unit \in won PROVE unit \in Units(weights, some)
      <4>1. PICK w \in winners : unit \in {w.address} \X (1..w.claims.ranks[r])
        OBVIOUS
      <4>2. w.address \in some /\ w.claims.ranks[r] = weights[w.address]
        BY <1>1
      <4>. QED
        BY <4>1, <4>2 DEF Units
    <3>2. ASSUME NEW unit \in Units(weights, some) PROVE unit \in won
      <4>1. PICK p \in some : unit \in {p} \X (1..weights[p])
        BY DEF Units
      <4>2. PICK w \in winners : w.address = p /\ w.claims = winner[<<lottery, p>>]
        BY <1>1
      <4>3. unit \in {w.address} \X (1..w.claims.ranks[r])
        BY <4>1, <4>2
      <4>. QED
        BY <4>3
    <3> HIDE DEF won
    <3>3. won = Units(weights, some)
      BY <3>1, <3>2
    <3>. QED
      BY <3>3 DEF won
  <2>2. ASSUME NEW p \in some
        PROVE  IsFiniteSet(sets[p]) /\ weights[p] = Cardinality(sets[p])
    <3>1. <<lottery, p>> \in DOMAIN winner /\ tickets[<<lottery, p>>] \in Seq(Strings)
      BY DEF Winners, TypeOK
    <3>2. IsFiniteSet(WinningTickets(lottery, p, r))
      BY <3>1, TicketsAtFinite, WinningTicketsAt
    <3>3. winner[<<lottery, p>>].ranks = RanksWon(lottery, p)
      BY <3>1 DEF RankCountsTickets
    <3>. QED
      BY <3>2, <3>3 DEF RanksWon
  <2>3. UnitsOfSets(sets, some) = WinningSlots(lottery, some, r)
    BY DEF UnitsOfSets, WinningSlots
  <2> HIDE DEF weights, sets
  <2>4. Cardinality(Units(weights, some)) = Cardinality(WinningSlots(lottery, some, r))
    BY <1>2, <2>2, <2>3, UnitsCount
  <2>5. Query([query |-> "CountWinner", lottery_id |-> lottery, rank |-> r])
            = MayLoad(rank, <<lottery, r>>, 0)
    BY Answers DEF QueryWinnerRank
  <2>. QED
    BY <2>1, <2>4, <2>5, RanksAnywhere
<1>. QED
  BY <1>3, <1>4 DEF winners

-----------------------------------------------------------------------------
(* All the answers. *)

\* What is invariant of the storage makes the answers fit together.
LEMMA AnswersFit ==
    ASSUME TypeOK, DaoInv, CountersAgree, RankCountsTickets PROVE AnswersAgree
<1>1. ASSUME NEW lottery \in 0..(CurrentLottery + 1)
      PROVE  Ask("Jackpot", lottery) > 0 => Ask("WinningCombination", lottery) # None
  <2>1. /\ Ask("Jackpot", lottery) = MayLoad(jackpot, lottery, 0)
        /\ Ask("WinningCombination", lottery) = MayLoad(winning, lottery, None)
    BY Answers DEF QueryJackpot, QueryWinningCombination
  <2>2. CASE lottery \in 1..LastLottery
    BY <2>1, <2>2, AnswersAssumption DEF TypeOK, MayLoad
  <2>3. CASE lottery \notin 1..LastLottery
    BY <2>1, <2>3 DEF TypeOK, MayLoad
  <2>. QED
    BY <2>2, <2>3
<1>2. ASSUME NEW id \in 0..(MaxPolls + 1)
      PROVE  Query([query |-> "GetPoll", poll_id |-> id]) # None
                 <=> id \in 1..Query([query |-> "Config"]).poll_count
  <2>1. /\ polls \in [1..state.poll_count -> Poll]
        /\ Query([query |-> "GetPoll", poll_id |-> id]) = QueryPoll(id)
        /\ Query([query |-> "Config"]) = state
    BY Answers DEF DaoInv, GovernanceTypeOK
  <2>2. id \in DOMAIN polls => polls[id] # None
    BY <2>1, AnswersAssumption
  <2>. QED
    BY <2>1, <2>2 DEF QueryPoll, MayLoad
<1>3. CurrentLottery \in Nat
  BY DEF TypeOK, State, CurrentLottery
<1>4. 0..(CurrentLottery + 1) \subseteq Nat
  BY <1>3
<1>. QED
  BY <1>1, <1>2, <1>4, PlayersAgree, WinnersAgree DEF AnswersAgree

\* At every moment of the whole contract, the answers a client gets fit together:
\* the players listed are as many as counted and hold the tickets counted, the
\* winners listed are players and won each rank as often as counted, a jackpot
\* comes with a combination, and polls are there up to the count and no further
\* (query.rs and the saves of handle_register, handle_claim, handle_play and
\* handle_poll, which keep the lists and the counts apart).
THEOREM AnswersFitTogether == LoterraSpec => []AnswersAgree
<1>1. LoterraInv => RankCountsTickets
  BY DEF LoterraInv
<1>. QED
  BY <1>1, AnswersFit, LoterraTypeCorrect, LoterraInvariant, CountersUnderPolls, PTL

=============================================================================
