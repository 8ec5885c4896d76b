------------------------------ MODULE Loterra ------------------------------
(***************************************************************************)
(* The contract as its clients meet it: one entry point for the lottery's  *)
(* messages and the DAO's, over one State, one balance and one chain whose *)
(* blocks move the time of the lottery and the height of the polls         *)
(* together. A poll that passes changes the terms of a lottery going on.   *)
(***************************************************************************)
EXTENDS Lottery, Governance

CONSTANT
    ClaimLists      \* the lists of addresses a Claim may name

VARIABLE
    incidents   \* history: <<lottery, kind>>, what befell a lottery's terms

Incidents == {"period", "pot", "migration"}

daoVars == <<height, ballots, stake, tokens>>
loterraVars == <<lotteryVars, daoVars, incidents>>

ASSUME LoterraAssumption ==
    /\ None \notin Accounts
    /\ ClaimLists \subseteq Seq(Accounts)

-----------------------------------------------------------------------------
(* Messages. *)

\* ExecuteMsg, the description of a poll excepted.
ExecuteMsg ==
    [msg : {"Register"}, address : Accounts \cup {None}, combination : Batches]
    \cup [msg : {"Claim"}, addresses : ClaimLists \cup {None}]
    \cup [msg : {"Collect"}, address : Accounts \cup {None}]
    \cup [msg : {"Poll"}, terms : PollMsgs]
    \cup [msg : {"Vote"}, poll_id : 1..MaxPolls, approve : BOOLEAN]
    \cup [msg : {"PresentPoll", "RejectPoll"}, poll_id : 1..MaxPolls]
    \cup [msg : {"Play", "SafeLock", "Renounce"}]

\* An optional address stands for the sender when it is missing.
AddressOr(sender, address) == IF address = None THEN sender ELSE address

\* Those a list names: ClaimList shows that repetitions and order do not matter.
AddressesOr(sender, addresses) ==
    IF addresses = None THEN {sender} ELSE {addresses[i] : i \in DOMAIN addresses}

\* The terms of the last lottery's prizes change after one was paid.
Reopen(changed) ==
    reopened' = IF changed /\ PaidWinners(LastLottery) # {}
                THEN reopened \cup {LastLottery}
                ELSE reopened

Record(kinds) == incidents' = incidents \cup ({LastLottery} \X kinds)

ExecuteLottery(sender, msg) ==
    /\ \/ /\ msg.msg = "Register"
          /\ HandleRegister(AddressOr(sender, msg.address), msg.combination)
       \/ /\ msg.msg = "Claim"
          /\ HandleClaim(AddressesOr(sender, msg.addresses))
       \/ /\ msg.msg = "Collect"
          /\ HandleCollect(AddressOr(sender, msg.address))
    /\ UNCHANGED <<daoVars, incidents>>

\* A play that sets aside more than half of the balance is an incident of the
\* lottery it settles.
ExecutePlay(sender, msg) ==
    /\ msg.msg = "Play"
    /\ HandlePlay
    /\ incidents' = IF state.jackpot_percentage_reward > 50
                    THEN incidents \cup {<<CurrentLottery, "pot">>}
                    ELSE incidents
    /\ UNCHANGED daoVars

ExecuteAdmin(sender, msg) ==
    /\ \/ msg.msg = "SafeLock" /\ HandleSafeLock(sender)
       \/ msg.msg = "Renounce" /\ HandleRenounce(sender)
    /\ UNCHANGED <<now, storage, prizes, randomness, daoVars, incidents>>

ExecuteDao(sender, msg) ==
    /\ \/ msg.msg = "Poll" /\ HandleProposal(sender, msg.terms)
       \/ msg.msg = "Vote" /\ HandleVote(sender, msg.poll_id, msg.approve)
       \/ msg.msg = "RejectPoll" /\ HandleRejectProposal(sender, msg.poll_id)
    /\ UNCHANGED <<now, storage, prizes, randomness, incidents>>

\* A poll that passes may change the split, the period or the balance under the
\* winners of the last lottery.
ExecutePresent(sender, msg) ==
    /\ msg.msg = "PresentPoll"
    /\ HandlePresentProposal(msg.poll_id)
    /\ Reopen(state'.prize_rank_winner_percentage # state.prize_rank_winner_percentage)
    /\ Record({kind \in Incidents :
           \/ kind = "period" /\ state'.every_block_time_play # state.every_block_time_play
           \/ kind = "migration" /\ balance' # balance})
    /\ UNCHANGED <<now, storage, winning, jackpot, winner, rank, paid, randomness>>

\* The dispatch of execute: every message reaches its own handler.
Execute(sender, msg) ==
    \/ ExecuteLottery(sender, msg)
    \/ ExecutePlay(sender, msg)
    \/ ExecuteAdmin(sender, msg)
    \/ ExecuteDao(sender, msg)
    \/ ExecutePresent(sender, msg)

-----------------------------------------------------------------------------
(* The chain around the contract. *)

\* A block moves the time and the height.
Block(interval) ==
    /\ height < MaxHeight
    /\ now + interval <= MaxTime
    /\ height' = height + 1
    /\ now' = now + interval
    /\ UNCHANGED <<state, balance, storage, prizes, randomness, ballots, stake, tokens, incidents>>

Blocks == \E interval \in BlockIntervals : Block(interval)

Worker ==
    /\ \E hash \in Hashes : AddRandomness(hash)
    /\ UNCHANGED <<daoVars, incidents>>

Donors ==
    /\ \E amount \in Donations : Donate(amount)
    /\ UNCHANGED <<daoVars, incidents>>

Stakers ==
    /\ Restaking
    /\ UNCHANGED <<now, storage, prizes, randomness, incidents>>

LoterraInit ==
    /\ LotteryInit
    /\ GovernanceInit
    /\ incidents = {}

LoterraNext ==
    \/ \E sender \in Accounts, msg \in ExecuteMsg : Execute(sender, msg)
    \/ Blocks
    \/ Worker
    \/ Donors
    \/ Stakers

LoterraSpec == LoterraInit /\ [][LoterraNext]_loterraVars

-----------------------------------------------------------------------------
(* Properties. *)

Befell(kinds) == \E kind \in kinds : <<LastLottery, kind>> \in incidents

\* Whatever polls set the jackpot's percentage, the worker's and the holders' share
\* to, a winner of the last lottery that has not collected finds its prize in the
\* contract, until a migration took the money or the split changed after a payment.
\* It finds the whole jackpot, which handle_collect asks for, unless a poll let the
\* play set aside more than half of the balance (handle_play, handle_collect).
WinnersCovered ==
    \A player \in Winners(LastLottery) \ PaidWinners(LastLottery) :
        LastLottery \notin reopened /\ ~Befell({"migration"}) =>
            /\ PrizeOf(player) <= balance
            /\ ~Befell({"pot"}) => balance >= jackpot[LastLottery]

\* Nobody claims once somebody collected, except at the very second the two
\* windows share or after a poll on the period moved the windows of the lottery
\* already played (handle_claim and handle_collect both compute the deadline from
\* the period in force when they run).
LateClaimsExplained ==
    [][\A key \in DOMAIN winner' \ DOMAIN winner :
          PaidWinners(LastLottery) # {} =>
              now = ClaimDeadline \/ Befell({"period"})]_loterraVars

\* Money leaves the contract for three reasons only: a play pays its worker at most
\* a hundredth of the pot (handle_play takes a percentage of at most 10 twice), a
\* collection pays one winner that had not collected, at most the prize accounted
\* to it, and a SecurityMigration poll passes.
MoneyLeavesAsDecided ==
    [][balance' < balance =>
          \/ LastLottery' # LastLottery /\ 100 * (balance - balance') <= Pot
          \/ \E key \in DOMAIN winner :
                /\ key[1] = LastLottery
                /\ ~winner[key].claimed /\ winner'[key].claimed
                /\ balance - balance' <= paid'[LastLottery] - paid[LastLottery]
                /\ paid'[LastLottery] - paid[LastLottery] <= jackpot[LastLottery]
          \/ \E id \in DOMAIN polls :
                /\ polls[id].proposal = "SecurityMigration"
                /\ polls[id].status = "InProgress" /\ polls'[id].status = "Passed"
      ]_loterraVars

\* "Ensure the contract have sufficient balance to handle the transaction": a
\* winner whose prize is within the balance is not refused for lack of funds.
PayablePrizeCollectable ==
    \A key \in DOMAIN winner :
        /\ key[1] = LastLottery
        /\ ~winner[key].claimed
        /\ TotalPrize(LastLottery, winner[key].ranks) <= balance
        => balance >= jackpot[LastLottery]

-----------------------------------------------------------------------------
(* What the properties of the inductive invariant become under the DAO. *)

\* The contract keeps the jackpot, less what it paid out of it, when nothing befell
\* its money, and twice the jackpot when the pot was half of the balance or less.
CoverUnderPolls ==
    LastLottery > 0 /\ LastLottery \notin reopened /\ ~Befell({"migration"}) =>
        /\ balance + paid[LastLottery] >= jackpot[LastLottery]
        /\ ~Befell({"pot"}) => balance + paid[LastLottery] >= 2 * jackpot[LastLottery]

LoterraInv ==
    /\ TypeOK
    /\ RankCountsTickets
    /\ PaidWithinJackpot
    /\ PaidAccounted
    /\ CoverUnderPolls

-----------------------------------------------------------------------------
(* Liveness. *)

Played == \E sender \in Accounts : ExecutePlay(sender, [msg |-> "Play"])

\* Blocks keep coming, a worker brings the published randomness, and somebody
\* calls play whenever it keeps being possible.
LoterraFairness ==
    /\ WF_loterraVars(Blocks)
    /\ WF_loterraVars(Worker)
    /\ SF_loterraVars(Played)

FairLoterraSpec == LoterraSpec /\ LoterraFairness

\* The clock of the instance reaches the time the lottery is due and the time its
\* round is published.
DueInTime ==
    /\ state.block_time_play >= DRAND_GENESIS_TIME
    /\ Seconds(state.block_time_play) < MaxTime
    /\ Seconds(PublishTime(NextRound(state.block_time_play))) <= MaxTime

\* What refuses a play that is due: the switch, a worker's coin of amount zero, a
\* period that takes the next time past a Timestamp.
PlayHeld ==
    \/ state.safe_lock
    \/ ~Sendable(WorkerFee)
    \/ now + Seconds(state.every_block_time_play) >= U64

\* Every lottery, the first and those that follow, is played in the end, unless one
\* of three reasons holds for ever from some moment on: the owner's switch, a coin
\* of zero for the worker (an empty contract, or a poll), a period too long (a
\* poll). Nothing else ever stops the plays (handle_play).
EveryLotteryPlayed ==
    \A lottery \in 1..MaxTime :
        (CurrentLottery = lottery /\ DueInTime) ~> (CurrentLottery # lottery \/ []PlayHeld)

\* "Make the contract callable for everyone every x blocks": a lottery whose tickets
\* brought money in is played in the end, the owner's switch apart.
CallableForEveryone ==
    \A lottery \in 1..MaxTime :
        (CurrentLottery = lottery /\ DueInTime /\ lottery \in DOMAIN players)
            ~> (CurrentLottery # lottery \/ []state.safe_lock)

=============================================================================
