------------------------------ MODULE Queries ------------------------------
(***************************************************************************)
(* What a client reads of the contract between two calls. A query is an    *)
(* operator on the storage; one that answers with an error is None.        *)
(***************************************************************************)
EXTENDS Loterra

\* Option::None is no value found: what answers of "nothing" rest on.
ASSUME AnswersAssumption == None \notin Seq(Accounts) \cup Combinations \cup Poll

\* QueryMsg; the last three only exist to be sent to other contracts.
QueryMsg ==
    [query : {"Config", "GetRound"}]
    \cup [query : {"Combination"}, lottery_id : Nat, address : Accounts]
    \cup [query : {"Winner", "CountPlayer", "CountTicket", "WinningCombination",
                   "Jackpot", "Players"}, lottery_id : Nat]
    \cup [query : {"CountWinner"}, lottery_id : Nat, rank : Ranks]
    \cup [query : {"GetPoll"}, poll_id : Nat]
    \cup [query : {"GetRandomness", "Holder", "Holders", "UpdateGlobalIndex"}]

QueryConfig == state

QueryWinnerRank(lottery_id, r) == MayLoad(rank, <<lottery_id, r>>, 0)

QueryAllPlayers(lottery_id) == MayLoad(players, lottery_id, None)

QueryJackpot(lottery_id) == MayLoad(jackpot, lottery_id, 0)

QueryCountTicket(lottery_id) == MayLoad(count_tickets, lottery_id, 0)

QueryCountPlayer(lottery_id) == MayLoad(count_players, lottery_id, 0)

QueryWinningCombination(lottery_id) == MayLoad(winning, lottery_id, None)

QueryAllCombination(lottery_id, address) == MayLoad(tickets, <<lottery_id, address>>, None)

\* The entries under the prefix of a lottery; their order is left out.
AllWinners(lottery_id) == {key \in DOMAIN winner : key[1] = lottery_id}

QueryAllWinner(lottery_id) ==
    {[address |-> key[2], claims |-> winner[key]] : key \in AllWinners(lottery_id)}

QueryPoll(poll_id) == MayLoad(polls, poll_id, None)

\* Mutant of QueryRound: the round going on at the time of the play.
RoundGoingOn == (state.block_time_play - DRAND_GENESIS_TIME) \div DRAND_PERIOD

\* The round the workers must bring to Terrand; below the genesis it panics, which
\* a client meets as an error.
QueryRound ==
    IF state.block_time_play < DRAND_GENESIS_TIME
    THEN None
    ELSE (state.block_time_play - DRAND_GENESIS_TIME) \div DRAND_PERIOD
         + DRAND_NEXT_ROUND_SECURITY

\* The dispatch of query.
Query(msg) ==
    CASE msg.query = "Config" -> QueryConfig
      [] msg.query = "Combination" -> QueryAllCombination(msg.lottery_id, msg.address)
      [] msg.query = "Winner" -> QueryAllWinner(msg.lottery_id)
      [] msg.query = "GetPoll" -> QueryPoll(msg.poll_id)
      [] msg.query = "GetRound" -> QueryRound
      [] msg.query = "CountPlayer" -> QueryCountPlayer(msg.lottery_id)
      [] msg.query = "CountTicket" -> QueryCountTicket(msg.lottery_id)
      [] msg.query = "WinningCombination" -> QueryWinningCombination(msg.lottery_id)
      [] msg.query = "CountWinner" -> QueryWinnerRank(msg.lottery_id, msg.rank)
      [] msg.query = "Jackpot" -> QueryJackpot(msg.lottery_id)
      [] msg.query = "Players" -> QueryAllPlayers(msg.lottery_id)
      [] OTHER -> <<>>

-----------------------------------------------------------------------------
(* Properties. *)

Ask(query, lottery) == Query([query |-> query, lottery_id |-> lottery])

\* The separate answers a client gets of one lottery fit together at any moment:
\* as many players as are listed, as many tickets as the listed players hold, as
\* many winners of a rank as the listed winners won, winners among the players,
\* a jackpot only with a combination, and every poll up to the count in the
\* configuration, no other.
AnswersAgree ==
    /\ \A lottery \in 0..(CurrentLottery + 1) :
           LET entered == IF Ask("Players", lottery) = None THEN <<>> ELSE Ask("Players", lottery)
               listed == {entered[i] : i \in DOMAIN entered}
               held(p) == Query([query |-> "Combination", lottery_id |-> lottery, address |-> p])
               winners == Ask("Winner", lottery)
           IN  /\ Ask("CountPlayer", lottery) = Len(entered)
               /\ Ask("CountTicket", lottery) =
                      Cardinality(UNION {{p} \X DOMAIN held(p) : p \in listed})
               /\ \A r \in Ranks :
                      Query([query |-> "CountWinner", lottery_id |-> lottery, rank |-> r]) =
                          Cardinality(UNION {{w.address} \X (1..w.claims.ranks[r]) : w \in winners})
               /\ {w.address : w \in winners} \subseteq listed
               /\ Ask("Jackpot", lottery) > 0 => Ask("WinningCombination", lottery) # None
    /\ \A id \in 0..(MaxPolls + 1) :
           Query([query |-> "GetPoll", poll_id |-> id]) # None
               <=> id \in 1..Query([query |-> "Config"]).poll_count

\* The answer to GetRound, before and after a step.
AnnouncedRound == Query([query |-> "GetRound"])

\* A worker may act on GetRound as soon as a lottery opens: whatever polls pass,
\* whoever buys, claims or collects and however late the play comes, the answer
\* does not move until the play, and the play draws from that round (handle_play
\* and query_round compute it apart, from a time of play only a play rewrites).
PlayDrawsAnnouncedRound ==
    [][IF LastLottery' = LastLottery
       THEN AnnouncedRound' = AnnouncedRound
       ELSE /\ AnnouncedRound \in DOMAIN randomness
            /\ winning'[LastLottery'] = WinningCombination(randomness[AnnouncedRound])
      ]_loterraVars

=============================================================================
