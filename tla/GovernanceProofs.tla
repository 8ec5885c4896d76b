--------------------------- MODULE GovernanceProofs ---------------------------
(***************************************************************************)
(* Proofs about the DAO for any accounts, polls, stakes and bounds.        *)
(*                                                                         *)
(* Type correctness is not inductive on its own: presenting a poll stores  *)
(* what the poll carries, so the terms a poll was accepted with have to be *)
(* remembered (PollsSound). Lemmas are stated for one handler, without the *)
(* specification, so that the composition of lottery and DAO can use them. *)
(***************************************************************************)
EXTENDS Governance, LoterraStateProofs

\* What the checks of handle_proposal leave behind in a stored poll.
SoundPoll(poll) ==
    /\ poll.proposal = "HolderFeePercentage" => AsU8(poll.amount) \in 0..20
    /\ poll.proposal = "DrandWorkerFeePercentage" => AsU8(poll.amount) \in 0..10
    /\ poll.proposal = "JackpotRewardPercentage" => AsU8(poll.amount) \in 0..100
    /\ poll.proposal = "PrizePerRank" => poll.prize_rank \in PrizeSplits
    /\ poll.proposal = "StakingContractMigration" => poll.migration_address \in Recipients

PollsSound == \A id \in DOMAIN polls : SoundPoll(polls[id])

DaoInv == GovernanceTypeOK /\ PollsSound

-----------------------------------------------------------------------------
(* Polls and states, field by field. *)

\* Changing a poll's status, end or tallies leaves a poll.
LEMMA PollFields ==
    ASSUME NEW poll \in Poll
    PROVE  /\ \A s \in PollStatus : [poll EXCEPT !.status = s] \in Poll
           /\ \A h \in Nat : [poll EXCEPT !.status = "RejectedByCreator", !.end_height = h] \in Poll
           /\ \A approve \in BOOLEAN, w \in Nat : Tally(poll, approve, w) \in Poll
<1>1. \A s \in PollStatus : [poll EXCEPT !.status = s] \in Poll
  BY DEF Poll
<1>2. \A h \in Nat : [poll EXCEPT !.status = "RejectedByCreator", !.end_height = h] \in Poll
  BY DEF Poll, PollStatus
<1>3. /\ poll.yes_vote \in Nat /\ poll.weight_yes_vote \in Nat
      /\ poll.no_vote \in Nat /\ poll.weight_no_vote \in Nat
  BY DEF Poll
<1>4. \A a, b \in Nat : [poll EXCEPT !.yes_vote = a, !.weight_yes_vote = b] \in Poll
  <2>1. SUFFICES ASSUME NEW a \in Nat, NEW b \in Nat
                 PROVE  [poll EXCEPT !.yes_vote = a, !.weight_yes_vote = b] \in Poll
    OBVIOUS
  <2>2. [poll EXCEPT !.yes_vote = a] \in Poll
    BY DEF Poll
  <2>3. [[poll EXCEPT !.yes_vote = a] EXCEPT !.weight_yes_vote = b] \in Poll
    BY <2>2 DEF Poll
  <2>. QED
    BY <2>3
<1>5. \A a, b \in Nat : [poll EXCEPT !.no_vote = a, !.weight_no_vote = b] \in Poll
  <2>1. SUFFICES ASSUME NEW a \in Nat, NEW b \in Nat
                 PROVE  [poll EXCEPT !.no_vote = a, !.weight_no_vote = b] \in Poll
    OBVIOUS
  <2>2. [poll EXCEPT !.no_vote = a] \in Poll
    BY DEF Poll
  <2>3. [[poll EXCEPT !.no_vote = a] EXCEPT !.weight_no_vote = b] \in Poll
    BY <2>2 DEF Poll
  <2>. QED
    BY <2>3
<1>6. \A w \in Nat : [poll EXCEPT !.yes_vote = @ + 1, !.weight_yes_vote = @ + w] \in Poll
  <2>1. SUFFICES ASSUME NEW w \in Nat
                 PROVE  [poll EXCEPT !.yes_vote = poll.yes_vote + 1,
                                     !.weight_yes_vote = poll.weight_yes_vote + w] \in Poll
    OBVIOUS
  <2>2. poll.yes_vote + 1 \in Nat /\ poll.weight_yes_vote + w \in Nat
    BY <1>3
  <2>. QED
    BY <1>4, <2>2
<1>7. \A w \in Nat : [poll EXCEPT !.no_vote = @ + 1, !.weight_no_vote = @ + w] \in Poll
  <2>1. SUFFICES ASSUME NEW w \in Nat
                 PROVE  [poll EXCEPT !.no_vote = poll.no_vote + 1,
                                     !.weight_no_vote = poll.weight_no_vote + w] \in Poll
    OBVIOUS
  <2>2. poll.no_vote + 1 \in Nat /\ poll.weight_no_vote + w \in Nat
    BY <1>3
  <2>. QED
    BY <1>5, <2>2
<1>. QED
  BY <1>1, <1>2, <1>6, <1>7 DEF Tally

\* What a handler that only counts or closes one poll keeps of all of them.
PollsKeepTerms ==
    /\ DOMAIN polls' = DOMAIN polls
    /\ \A id \in DOMAIN polls :
           /\ polls'[id].creator = polls[id].creator
           /\ polls'[id].proposal = polls[id].proposal
           /\ polls'[id].amount = polls[id].amount
           /\ polls'[id].prize_rank = polls[id].prize_rank
           /\ polls'[id].migration_address = polls[id].migration_address
           /\ polls'[id].start_height = polls[id].start_height

LEMMA TermsKept ==
    ASSUME GovernanceTypeOK,
           NEW id \in DOMAIN polls,
           \/ \E s \in PollStatus : polls' = [polls EXCEPT ![id].status = s]
           \/ polls' = [polls EXCEPT ![id].status = "RejectedByCreator", ![id].end_height = height]
           \/ \E approve \in BOOLEAN, w \in Nat :
                  polls' = [polls EXCEPT ![id] = Tally(@, approve, w)]
    PROVE  PollsKeepTerms /\ polls' \in [1..state.poll_count -> Poll]
<1>1. polls \in [1..state.poll_count -> Poll] /\ height \in Nat /\ polls[id] \in Poll
  BY DEF GovernanceTypeOK
<1>2. PICK poll \in Poll :
        /\ polls' = [polls EXCEPT ![id] = poll]
        /\ poll.creator = polls[id].creator
        /\ poll.proposal = polls[id].proposal
        /\ poll.amount = polls[id].amount
        /\ poll.prize_rank = polls[id].prize_rank
        /\ poll.migration_address = polls[id].migration_address
        /\ poll.start_height = polls[id].start_height
  <2>1. CASE \E s \in PollStatus : polls' = [polls EXCEPT ![id].status = s]
    <3>1. PICK s \in PollStatus : polls' = [polls EXCEPT ![id].status = s]
      BY <2>1
    <3>2. [polls[id] EXCEPT !.status = s] \in Poll
      BY <1>1, PollFields
    <3>3. polls' = [polls EXCEPT ![id] = [polls[id] EXCEPT !.status = s]]
      BY <3>1
    <3>4. /\ [polls[id] EXCEPT !.status = s].creator = polls[id].creator
          /\ [polls[id] EXCEPT !.status = s].proposal = polls[id].proposal
          /\ [polls[id] EXCEPT !.status = s].amount = polls[id].amount
          /\ [polls[id] EXCEPT !.status = s].prize_rank = polls[id].prize_rank
          /\ [polls[id] EXCEPT !.status = s].migration_address = polls[id].migration_address
          /\ [polls[id] EXCEPT !.status = s].start_height = polls[id].start_height
      BY <1>1 DEF Poll
    <3>. QED
      BY <3>2, <3>3, <3>4
  <2>2. CASE polls' = [polls EXCEPT ![id].status = "RejectedByCreator", ![id].end_height = height]
    <3> DEFINE q == [polls[id] EXCEPT !.status = "RejectedByCreator", !.end_height = height]
    <3>1. q \in Poll
      BY <1>1, PollFields
    <3>2. polls' = [polls EXCEPT ![id] = q]
      BY <2>2
    <3>3. /\ q.creator = polls[id].creator
          /\ q.proposal = polls[id].proposal
          /\ q.amount = polls[id].amount
          /\ q.prize_rank = polls[id].prize_rank
          /\ q.migration_address = polls[id].migration_address
          /\ q.start_height = polls[id].start_height
      BY <1>1 DEF Poll
    <3>. QED
      BY <3>1, <3>2, <3>3
  <2>3. CASE \E approve \in BOOLEAN, w \in Nat : polls' = [polls EXCEPT ![id] = Tally(@, approve, w)]
    <3>1. PICK approve \in BOOLEAN, w \in Nat : polls' = [polls EXCEPT ![id] = Tally(@, approve, w)]
      BY <2>3
    <3>2. Tally(polls[id], approve, w) \in Poll
      BY <1>1, PollFields
    <3>3. polls' = [polls EXCEPT ![id] = Tally(polls[id], approve, w)]
      BY <3>1
    <3>4. /\ Tally(polls[id], approve, w).creator = polls[id].creator
          /\ Tally(polls[id], approve, w).proposal = polls[id].proposal
          /\ Tally(polls[id], approve, w).amount = polls[id].amount
          /\ Tally(polls[id], approve, w).prize_rank = polls[id].prize_rank
          /\ Tally(polls[id], approve, w).migration_address = polls[id].migration_address
          /\ Tally(polls[id], approve, w).start_height = polls[id].start_height
      BY <1>1 DEF Poll, Tally
    <3>. QED
      BY <3>2, <3>3, <3>4
  <2>. QED
    BY <2>1, <2>2, <2>3
<1>3. \A k \in DOMAIN polls : k # id => polls'[k] = polls[k]
  BY <1>1, <1>2
<1>4. polls' \in [1..state.poll_count -> Poll] /\ polls'[id].creator = polls[id].creator
  BY <1>1, <1>2
<1>5. DOMAIN polls' = DOMAIN polls /\ polls'[id] = polls'[id]
  BY <1>1, <1>2
<1>. QED
  BY <1>1, <1>2, <1>3, <1>4, <1>5 DEF PollsKeepTerms

LEMMA SoundKept == PollsSound /\ PollsKeepTerms => PollsSound'
BY DEF PollsSound, SoundPoll, PollsKeepTerms, AsU8

-----------------------------------------------------------------------------
(* Type correctness. *)

LEMMA Modulo ==
    ASSUME NEW a \in Nat, NEW b \in Nat \ {0}
    PROVE  a % b \in Nat
BY Z3

\* The fields of the stored State that the DAO reads or writes.
LEMMA StateParts ==
    ASSUME state \in State
    PROVE  /\ state.poll_count \in Nat
           /\ state.admin \in Admins
           /\ state.lottery_counter \in Nat \ {0}
           /\ state.loterra_staking_contract_address \in StakingAddresses
           /\ \A n \in Nat : [state EXCEPT !.poll_count = n] \in State
BY DEF State

\* What no poll ever changes in the State.
PollsLeaveAlone(new) ==
    /\ new.admin = state.admin
    /\ new.block_time_play = state.block_time_play
    /\ new.poll_count = state.poll_count
    /\ new.safe_lock = state.safe_lock
    /\ new.lottery_counter = state.lottery_counter

\* A sound poll that passes leaves a State.
LEMMA AmendedType ==
    ASSUME state \in State, GovernanceTypeOK, PollsSound,
           NEW id \in DOMAIN polls, FundsSendable(polls[id])
    PROVE  Amended(polls[id]) \in State /\ PollsLeaveAlone(Amended(polls[id]))
<1> DEFINE poll == polls[id]
<1>1. poll \in Poll /\ poll.amount \in Nat
  BY DEF GovernanceTypeOK, Poll
<1>2. AsU64(poll.amount) \in Nat
  BY <1>1, Modulo, ChainAssumption DEF AsU64
<1>3. CASE poll.proposal = "LotteryEveryBlockTime"
  BY <1>2, <1>3 DEF Amended, State, PollsLeaveAlone
<1>4. CASE poll.proposal = "DrandWorkerFeePercentage"
  <2>1. AsU8(poll.amount) \in 0..100
    BY <1>4 DEF PollsSound, SoundPoll
  <2>. QED
    BY <1>4, <2>1 DEF Amended, State, PollsLeaveAlone
<1>5. CASE poll.proposal = "JackpotRewardPercentage"
  <2>1. AsU8(poll.amount) \in 0..100
    BY <1>5 DEF PollsSound, SoundPoll
  <2>. QED
    BY <1>5, <2>1 DEF Amended, State, PollsLeaveAlone
<1>6. CASE poll.proposal = "AmountToRegister"
  BY <1>1, <1>6 DEF Amended, State, PollsLeaveAlone
<1>7. CASE poll.proposal = "PrizePerRank"
  <2>1. poll.prize_rank \in PrizeSplits
    BY <1>7 DEF PollsSound, SoundPoll
  <2>. QED
    BY <1>7, <2>1 DEF Amended, State, PollsLeaveAlone
<1>8. CASE poll.proposal = "HolderFeePercentage"
  <2>1. AsU8(poll.amount) \in 0..100
    BY <1>8 DEF PollsSound, SoundPoll
  <2>. QED
    BY <1>8, <2>1 DEF Amended, State, PollsLeaveAlone
<1>9. CASE poll.proposal = "StakingContractMigration"
  <2>1. poll.migration_address \in StakingAddresses
    BY <1>9 DEF PollsSound, SoundPoll, FundsSendable, PrivilegedPolls, Recipients
  <2>. QED
    BY <1>9, <2>1 DEF Amended, State, PollsLeaveAlone
<1>10. CASE poll.proposal \notin {"LotteryEveryBlockTime", "DrandWorkerFeePercentage",
                                 "JackpotRewardPercentage", "AmountToRegister",
                                 "PrizePerRank", "HolderFeePercentage",
                                 "StakingContractMigration"}
  BY <1>10 DEF Amended, PollsLeaveAlone
<1>. QED
  BY <1>3, <1>4, <1>5, <1>6, <1>7, <1>8, <1>9, <1>10

LEMMA DaoInit == GovernanceInit => DaoInv
<1>1. ASSUME GovernanceInit PROVE GovernanceTypeOK
  <2>1. state \in State /\ state.poll_count = 0
    <3>1. PICK play \in InitPlayTimes, every \in InitPlayEvery, staking \in StakingContracts :
              state = Instantiated(play, every, staking)
      BY <1>1 DEF GovernanceInit, StateInit
    <3>2. <<87, 10, 2, 1>> \in PrizeSplits
      BY DEF PrizeSplits
    <3>3. play \in Nat /\ every \in Nat /\ staking \in StakingAddresses /\ Owner \in Admins
      BY AccountsAssumption DEF Admins, Accounts
    <3>. QED
      BY <3>1, <3>2, <3>3 DEF Instantiated, State
  <2>2. balance \in Nat /\ tokens \in Nat
    BY <1>1, AccountsAssumption, GovernanceAssumption DEF GovernanceInit, StateInit
  <2>3. stake \in [StakingContracts -> [Accounts -> Nat]]
    BY <1>1, GovernanceAssumption DEF GovernanceInit
  <2>4. polls = EmptyMap /\ votes = EmptyMap /\ cast = EmptyMap /\ height = 0
    BY <1>1 DEF GovernanceInit
  <2>5. EmptyMap \in [1..0 -> Poll] /\ DOMAIN EmptyMap = {}
    BY DEF EmptyMap
  <2>. QED
    BY <2>1, <2>2, <2>3, <2>4, <2>5 DEF GovernanceTypeOK
<1>2. ASSUME GovernanceInit PROVE PollsSound
  BY <1>2 DEF GovernanceInit, EmptyMap, PollsSound
<1>. QED
  BY <1>1, <1>2 DEF DaoInv

\* What a poll keeps of acceptable terms.
LEMMA NewPollSound ==
    ASSUME NEW sender \in Accounts, NEW terms \in PollMsgs, Accepts(sender, terms), height \in Nat
    PROVE  NewPoll(sender, terms) \in Poll /\ SoundPoll(NewPoll(sender, terms))
<1> DEFINE poll == NewPoll(sender, terms)
<1>1. /\ terms.proposal \in Proposals
      /\ terms.amount \in Nat \cup {None}
      /\ terms.recipient \in Recipients \cup {None}
  BY GovernanceAssumption DEF PollTerms
<1>2. terms.proposal # "NotExist"
  BY DEF Accepts, AcceptsPercentage, AcceptsAmount, AcceptsPrizes, AcceptsMigration,
         AcceptsFunding, PercentagePolls
<1>3. poll.amount \in Nat
  BY <1>1 DEF NewPoll, AcceptsPercentage, AcceptsAmount, AcceptsFunding
<1>4. poll.prize_rank \in PrizeSplits \cup {<<>>}
  BY DEF NewPoll, AcceptsPrizes
<1>5. poll.migration_address \in Recipients \cup {None}
  BY <1>1 DEF NewPoll
<1>6. height + PollDefaultEndHeight \in Nat
  BY GovernanceAssumption
<1>7. poll \in Poll
  <2>1. /\ DOMAIN poll = {"creator", "status", "end_height", "start_height", "weight_yes_vote",
                         "weight_no_vote", "yes_vote", "no_vote", "amount", "prize_rank",
                         "proposal", "migration_address"}
        /\ poll.creator \in Accounts
        /\ poll.status \in PollStatus
        /\ poll.end_height \in Nat
        /\ poll.start_height \in Nat
        /\ poll.weight_yes_vote \in Nat /\ poll.weight_no_vote \in Nat
        /\ poll.yes_vote \in Nat /\ poll.no_vote \in Nat
        /\ poll.proposal \in Proposals \ {"NotExist"}
    BY <1>1, <1>2, <1>6 DEF NewPoll, PollStatus
  <2>2. poll = [creator |-> poll.creator, status |-> poll.status, end_height |-> poll.end_height,
                start_height |-> poll.start_height, weight_yes_vote |-> poll.weight_yes_vote,
                weight_no_vote |-> poll.weight_no_vote, yes_vote |-> poll.yes_vote,
                no_vote |-> poll.no_vote, amount |-> poll.amount, prize_rank |-> poll.prize_rank,
                proposal |-> poll.proposal, migration_address |-> poll.migration_address]
    BY DEF NewPoll
  <2> HIDE DEF poll
  <2>. QED
    BY <1>3, <1>4, <1>5, <2>1, <2>2 DEF Poll
<1>8. poll.proposal = terms.proposal
  BY DEF NewPoll
<1>9. CASE terms.proposal \in PercentagePolls
  <2>1. AcceptsPercentage(terms)
    BY <1>9 DEF Accepts, AcceptsAmount, AcceptsPrizes, AcceptsMigration, AcceptsFunding,
                PercentagePolls
  <2>2. poll.amount = terms.amount /\ terms.amount \in Nat
    BY <1>1, <2>1 DEF NewPoll, AcceptsPercentage
  <2>3. AsU8(poll.amount) \in Nat
    BY <2>2, Modulo, GovernanceAssumption DEF AsU8
  <2>4. AsU8(poll.amount) <= MaxPercentage[terms.proposal]
    BY <2>1, <2>2 DEF AcceptsPercentage
  <2>5. /\ MaxPercentage["HolderFeePercentage"] = 20
        /\ MaxPercentage["DrandWorkerFeePercentage"] = 10
        /\ MaxPercentage["JackpotRewardPercentage"] = 100
    BY DEF MaxPercentage, HOLDERS_MAX_REWARD, WORKER_MAX_REWARD
  <2>6. CASE terms.proposal = "HolderFeePercentage"
    BY <1>7, <1>8, <2>3, <2>4, <2>5, <2>6 DEF SoundPoll
  <2>7. CASE terms.proposal = "DrandWorkerFeePercentage"
    BY <1>7, <1>8, <2>3, <2>4, <2>5, <2>7 DEF SoundPoll
  <2>8. CASE terms.proposal = "JackpotRewardPercentage"
    BY <1>7, <1>8, <2>3, <2>4, <2>5, <2>8 DEF SoundPoll
  <2>. QED
    BY <1>9, <2>6, <2>7, <2>8 DEF PercentagePolls
<1>10. CASE terms.proposal = "PrizePerRank"
  BY <1>7, <1>8, <1>10 DEF SoundPoll, Accepts, AcceptsPercentage, AcceptsAmount, AcceptsMigration,
                           AcceptsFunding, AcceptsPrizes, NewPoll, PercentagePolls
<1>11. CASE terms.proposal = "StakingContractMigration"
  BY <1>1, <1>7, <1>8, <1>11 DEF SoundPoll, Accepts, AcceptsPercentage, AcceptsAmount, AcceptsMigration,
                           AcceptsFunding, AcceptsPrizes, NewPoll, PercentagePolls, PrivilegedPolls
<1>. QED
  BY <1>7, <1>8, <1>9, <1>10, <1>11 DEF PercentagePolls, SoundPoll

LEMMA DaoProposal ==
    ASSUME DaoInv, NEW sender \in Accounts, NEW terms \in PollMsgs, HandleProposal(sender, terms)
    PROVE  DaoInv'
<1> DEFINE id == state.poll_count + 1
           poll == NewPoll(sender, terms)
<1>1. /\ state \in State /\ height \in Nat /\ polls \in [1..state.poll_count -> Poll]
      /\ polls' = Save(polls, id, poll)
      /\ state' = [state EXCEPT !.poll_count = id]
      /\ Accepts(sender, terms)
      /\ UNCHANGED <<balance, height, votes, cast, stake, tokens>>
  BY DEF DaoInv, GovernanceTypeOK, HandleProposal
<1>2. /\ state.poll_count \in Nat /\ id \in Nat
      /\ state' \in State /\ state'.poll_count = id
  <2>1. state.poll_count \in Nat
    BY <1>1, StateParts
  <2>2. id \in Nat
    BY <2>1
  <2>3. [state EXCEPT !.poll_count = id] \in State
    BY <1>1, <2>2, StateParts
  <2> HIDE DEF id
  <2>. QED
    BY <1>1, <2>1, <2>2, <2>3 DEF State
<1>3. poll \in Poll
  BY <1>1, NewPollSound
<1>4. /\ DOMAIN polls' = 1..id
      /\ polls'[id] = poll
      /\ \A k \in 1..state.poll_count : polls'[k] = polls[k]
  <2>1. (1..state.poll_count) \cup {id} = 1..id /\ id \notin 1..state.poll_count
    BY <1>2
  <2> HIDE DEF id, poll
  <2>2. DOMAIN polls = 1..state.poll_count
    BY <1>1
  <2>. QED
    BY <1>1, <2>1, <2>2 DEF Save
<1>5. polls' \in [1..id -> Poll]
  <2>1. polls' = [k \in DOMAIN polls' |-> polls'[k]]
    BY <1>1 DEF Save
  <2>2. \A k \in 1..id : polls'[k] \in Poll
    BY <1>1, <1>2, <1>3, <1>4
  <2>. QED
    BY <1>4, <2>1, <2>2
<1>6. GovernanceTypeOK'
  <2>1. 1..state.poll_count \subseteq 1..id
    BY <1>2
  <2>2. DOMAIN votes \subseteq (1..id) \X Accounts
    BY <2>1 DEF DaoInv, GovernanceTypeOK
  <2> HIDE DEF id, poll
  <2>. QED
    BY <1>1, <1>2, <1>5, <2>2 DEF DaoInv, GovernanceTypeOK
<1>7. PollsSound'
  <2>1. SUFFICES ASSUME NEW k \in DOMAIN polls' PROVE SoundPoll(polls'[k])
    BY DEF PollsSound, SoundPoll, AsU8
  <2>2. CASE k = id
    BY <1>1, <1>4, <2>2, NewPollSound
  <2>3. CASE k # id
    <3>1. k \in 1..state.poll_count /\ k \in DOMAIN polls /\ polls'[k] = polls[k]
      BY <1>1, <1>2, <1>4, <2>3
    <3>. QED
      BY <3>1 DEF DaoInv, PollsSound
  <2>. QED
    BY <2>2, <2>3
<1>. QED
  BY <1>6, <1>7 DEF DaoInv

LEMMA DaoVote ==
    ASSUME DaoInv, NEW sender \in Accounts, NEW id, NEW approve \in BOOLEAN,
           HandleVote(sender, id, approve)
    PROVE  DaoInv' /\ PollsKeepTerms
<1> DEFINE weight == UserTotalWeight(sender)
           key == <<id, sender>>
<1>1. /\ GovernanceTypeOK /\ PollsSound /\ id \in DOMAIN polls
      /\ StakingContract \in StakingContracts /\ weight > 0
      /\ votes' = Save(votes, key, approve)
      /\ cast' = Save(cast, key, weight)
      /\ polls' = [polls EXCEPT ![id] = Tally(@, approve, weight)]
      /\ UNCHANGED <<state, balance, height, stake, tokens>>
  BY DEF DaoInv, HandleVote, StakingAnswers
<1>2. weight \in Nat \ {0}
  BY <1>1 DEF GovernanceTypeOK, UserTotalWeight
<1> HIDE DEF weight
<1>3. PollsKeepTerms /\ polls' \in [1..state.poll_count -> Poll]
  BY <1>1, <1>2, TermsKept
<1>4. PollsSound'
  BY <1>1, <1>3, SoundKept
<1>5. key \in (1..state.poll_count) \X Accounts
  BY <1>1 DEF GovernanceTypeOK
<1>6. /\ DOMAIN votes' \subseteq (1..state.poll_count) \X Accounts
      /\ \A k \in DOMAIN votes' : votes'[k] \in BOOLEAN
      /\ cast' \in [DOMAIN votes' -> Nat \ {0}]
  <2>1. /\ DOMAIN votes' = DOMAIN votes \cup {key}
        /\ votes'[key] = approve
        /\ \A k \in DOMAIN votes : k # key => votes'[k] = votes[k]
    BY <1>1 DEF Save
  <2>2. /\ DOMAIN cast = DOMAIN votes /\ DOMAIN cast' = DOMAIN cast \cup {key}
        /\ cast'[key] = weight
        /\ \A k \in DOMAIN cast : k # key => cast'[k] = cast[k]
    BY <1>1 DEF GovernanceTypeOK, Save
  <2>3. cast' = [k \in DOMAIN cast' |-> cast'[k]]
    BY <1>1 DEF Save
  <2>4. \A k \in DOMAIN cast' : cast'[k] \in Nat \ {0}
    BY <1>1, <1>2, <2>2 DEF GovernanceTypeOK
  <2> HIDE DEF key
  <2>5. cast' \in [DOMAIN votes' -> Nat \ {0}]
    BY <2>1, <2>2, <2>3, <2>4
  <2>. QED
    BY <1>1, <1>5, <2>1, <2>5 DEF GovernanceTypeOK
<1>7. GovernanceTypeOK'
  BY <1>1, <1>3, <1>6 DEF GovernanceTypeOK
<1>. QED
  BY <1>3, <1>4, <1>7 DEF DaoInv

LEMMA DaoReject ==
    ASSUME DaoInv, NEW sender, NEW id, HandleRejectProposal(sender, id)
    PROVE  DaoInv' /\ PollsKeepTerms
<1>1. /\ GovernanceTypeOK /\ PollsSound /\ id \in DOMAIN polls
      /\ polls' = [polls EXCEPT ![id].status = "RejectedByCreator", ![id].end_height = height]
      /\ UNCHANGED <<state, balance, height, votes, cast, stake, tokens>>
  BY DEF DaoInv, HandleRejectProposal
<1>2. PollsKeepTerms /\ polls' \in [1..state.poll_count -> Poll]
  BY <1>1, TermsKept
<1>3. PollsSound'
  BY <1>1, <1>2, SoundKept
<1>. QED
  BY <1>1, <1>2, <1>3 DEF DaoInv, GovernanceTypeOK

\* What presenting a poll may do: refuse it, or put it in force.
PollRefused(id) ==
    /\ ~(Approved(polls[id]) /\ Fundable(polls[id]))
    /\ polls' = [polls EXCEPT ![id].status = "Rejected"]
    /\ UNCHANGED <<state, balance, tokens>>

PollPasses(id) ==
    /\ Approved(polls[id])
    /\ Fundable(polls[id])
    /\ FundsSendable(polls[id])
    /\ SendFunds(polls[id])
    /\ state' = Amended(polls[id])
    /\ polls' = [polls EXCEPT ![id].status = "Passed"]

LEMMA PresentCases ==
    ASSUME NEW id, HandlePresentProposal(id)
    PROVE  /\ id \in DOMAIN polls
           /\ polls[id].status = "InProgress"
           /\ StakingAnswers /\ TotalWeight > 0
           /\ Quorate(polls[id]) \/ Ended(polls[id])
           /\ PollRefused(id) \/ PollPasses(id)
           /\ UNCHANGED <<height, votes, cast, stake>>
BY DEF HandlePresentProposal, RejectProposal, PollRefused, PollPasses

LEMMA DaoPresent ==
    ASSUME DaoInv, NEW id, HandlePresentProposal(id)
    PROVE  DaoInv' /\ PollsKeepTerms /\ PollsLeaveAlone(state')
<1>1. /\ GovernanceTypeOK /\ PollsSound /\ id \in DOMAIN polls
      /\ UNCHANGED <<height, votes, cast, stake>>
  BY PresentCases DEF DaoInv
<1>2. CASE PollRefused(id)
  <2>1. PollsKeepTerms /\ polls' \in [1..state.poll_count -> Poll]
    BY <1>1, <1>2, TermsKept DEF PollRefused, PollStatus
  <2>2. PollsSound'
    BY <1>1, <2>1, SoundKept
  <2>. QED
    BY <1>1, <1>2, <2>1, <2>2 DEF DaoInv, GovernanceTypeOK, PollRefused, PollsLeaveAlone
<1>3. CASE PollPasses(id)
  <2>1. PollsKeepTerms /\ polls' \in [1..state.poll_count -> Poll]
    BY <1>1, <1>3, TermsKept DEF PollPasses, PollStatus
  <2>2. PollsSound'
    BY <1>1, <2>1, SoundKept
  <2>3. state' \in State /\ PollsLeaveAlone(state')
    BY <1>1, <1>3, AmendedType DEF PollPasses, GovernanceTypeOK
  <2>4. balance' \in Nat
    <3>1. Spend(balance) \in 0..balance /\ balance \in Nat
      BY <1>1, SpendBounds DEF GovernanceTypeOK
    <3>. QED
      BY <1>3, <3>1 DEF PollPasses, SendFunds
  <2>5. tokens' \in Nat
    <3>1. polls[id].amount \in Nat /\ tokens \in Nat
      BY <1>1 DEF GovernanceTypeOK, Poll
    <3>. QED
      BY <1>3, <3>1 DEF PollPasses, SendFunds, Fundable
  <2>. QED
    BY <1>1, <2>1, <2>2, <2>3, <2>4, <2>5 DEF DaoInv, GovernanceTypeOK, PollsLeaveAlone
<1>. QED
  BY <1>2, <1>3, PresentCases

LEMMA DaoRestaking == DaoInv /\ Restaking => DaoInv'
<1>1. SUFFICES ASSUME DaoInv, Restaking PROVE DaoInv'
  OBVIOUS
<1>2. PICK address \in StakingContracts, account \in Accounts, amount \in Stakes :
        Restake(address, account, amount)
  BY <1>1 DEF Restaking
<1>3. stake' \in [StakingContracts -> [Accounts -> Nat]]
  BY <1>1, <1>2, GovernanceAssumption DEF DaoInv, GovernanceTypeOK, Restake
<1>. QED
  BY <1>1, <1>2, <1>3 DEF DaoInv, GovernanceTypeOK, PollsSound, Restake, ballots

LEMMA DaoOwnership == DaoInv /\ Ownership => DaoInv'
<1>1. SUFFICES ASSUME DaoInv, Ownership PROVE DaoInv'
  OBVIOUS
<1>2. state \in State /\ Contract \in Admins
  BY <1>1 DEF DaoInv, GovernanceTypeOK, Admins
<1>3. state' \in State /\ state'.poll_count = state.poll_count
  <2>1. CASE state' = [state EXCEPT !.safe_lock = ~@]
    <3>1. (~state.safe_lock) \in BOOLEAN
      OBVIOUS
    <3>. QED
      BY <1>2, <2>1, <3>1 DEF State
  <2>2. CASE state' = [state EXCEPT !.admin = Contract]
    BY <1>2, <2>2 DEF State
  <2>. QED
    BY <1>1, <2>1, <2>2 DEF Ownership, HandleSafeLock, HandleRenounce
<1>4. UNCHANGED <<balance, height, polls, votes, cast, stake, tokens>>
  BY <1>1 DEF Ownership, HandleSafeLock, HandleRenounce, ballots
<1>. QED
  BY <1>1, <1>3, <1>4 DEF DaoInv, GovernanceTypeOK, PollsSound

LEMMA DaoBlock == DaoInv /\ NextHeight => DaoInv'
BY DEF DaoInv, GovernanceTypeOK, PollsSound, NextHeight, ballots

LEMMA DaoStep == DaoInv /\ [GovernanceNext]_governanceVars => DaoInv'
<1>1. SUFFICES ASSUME DaoInv, [GovernanceNext]_governanceVars PROVE DaoInv'
  OBVIOUS
<1>2. CASE DaoCall
  BY <1>1, <1>2, DaoProposal, DaoVote, DaoReject, DaoPresent DEF DaoCall
<1>3. CASE Ownership
  BY <1>1, <1>3, DaoOwnership
<1>4. CASE Restaking
  BY <1>1, <1>4, DaoRestaking
<1>5. CASE NextHeight
  BY <1>1, <1>5, DaoBlock
<1>6. CASE UNCHANGED governanceVars
  BY <1>1, <1>6 DEF governanceVars, ballots, DaoInv, GovernanceTypeOK, PollsSound
<1>. QED
  BY <1>1, <1>2, <1>3, <1>4, <1>5, <1>6 DEF GovernanceNext

\* Whatever the polls, the votes, the stakes and their order, everything the DAO
\* stores keeps its type and its numbering, and tokens are never owed.
THEOREM DaoTypeCorrect == GovernanceSpec => []GovernanceTypeOK
<1>1. GovernanceSpec => []DaoInv
  BY DaoInit, DaoStep, PTL DEF GovernanceSpec
<1>. QED
  BY <1>1, PTL DEF DaoInv

-----------------------------------------------------------------------------
(* The steps of the DAO, as the properties tell them apart. *)

\* The parameters of the lottery that polls are about.
ParametersKept ==
    /\ state'.every_block_time_play = state.every_block_time_play
    /\ state'.jackpot_percentage_reward = state.jackpot_percentage_reward
    /\ state'.fee_for_drand_worker_in_percentage = state.fee_for_drand_worker_in_percentage
    /\ state'.token_holder_percentage_fee_reward = state.token_holder_percentage_fee_reward
    /\ state'.price_per_ticket_to_register = state.price_per_ticket_to_register
    /\ state'.prize_rank_winner_percentage = state.prize_rank_winner_percentage
    /\ state'.loterra_staking_contract_address = state.loterra_staking_contract_address

\* A step that leaves the polls and the money alone.
QuietStep ==
    /\ UNCHANGED <<balance, polls, votes, cast, tokens>>
    /\ ParametersKept
    /\ state'.admin \in {state.admin, Contract}

LEMMA QuietOwnership == DaoInv /\ Ownership => QuietStep
<1>1. SUFFICES ASSUME DaoInv, Ownership PROVE QuietStep
  OBVIOUS
<1>2. UNCHANGED <<balance, polls, votes, cast, tokens>> /\ state \in State
  BY <1>1 DEF Ownership, HandleSafeLock, HandleRenounce, ballots, DaoInv, GovernanceTypeOK
<1>3. CASE state' = [state EXCEPT !.safe_lock = ~@]
  BY <1>2, <1>3 DEF QuietStep, ParametersKept, State
<1>4. CASE state' = [state EXCEPT !.admin = Contract]
  BY <1>2, <1>4 DEF QuietStep, ParametersKept, State
<1>. QED
  BY <1>1, <1>3, <1>4 DEF Ownership, HandleSafeLock, HandleRenounce

LEMMA DaoCases ==
    ASSUME DaoInv, [GovernanceNext]_governanceVars
    PROVE  \/ \E sender \in Accounts, terms \in PollMsgs : HandleProposal(sender, terms)
           \/ \E sender \in Accounts, id \in 1..MaxPolls, approve \in BOOLEAN :
                  HandleVote(sender, id, approve)
           \/ \E sender \in Accounts, id \in 1..MaxPolls : HandleRejectProposal(sender, id)
           \/ \E id \in 1..MaxPolls : HandlePresentProposal(id)
           \/ QuietStep
<1>1. CASE DaoCall
  BY <1>1 DEF DaoCall
<1>2. CASE Ownership
  BY <1>2, QuietOwnership
<1>3. CASE Restaking \/ NextHeight \/ UNCHANGED governanceVars
  BY <1>3 DEF Restaking, Restake, NextHeight, governanceVars, ballots, QuietStep, ParametersKept
<1>. QED
  BY <1>1, <1>2, <1>3 DEF GovernanceNext

\* Proposing adds one poll and leaves the others, the parameters and the money.
LEMMA ProposalAdds ==
    ASSUME DaoInv, NEW sender \in Accounts, NEW terms \in PollMsgs, HandleProposal(sender, terms)
    PROVE  LET id == state.poll_count + 1
           IN  /\ id \in Nat /\ id \notin DOMAIN polls
               /\ id \in 1..MaxPolls
               /\ DOMAIN polls' = DOMAIN polls \cup {id}
               /\ polls'[id] = NewPoll(sender, terms)
               /\ \A k \in DOMAIN polls : polls'[k] = polls[k]
               /\ ParametersKept /\ state'.admin = state.admin
               /\ UNCHANGED <<balance, height, votes, cast, stake, tokens>>
<1> DEFINE id == state.poll_count + 1
<1>1. /\ state \in State /\ DOMAIN polls = 1..state.poll_count
      /\ id <= MaxPolls
      /\ polls' = Save(polls, id, NewPoll(sender, terms))
      /\ state' = [state EXCEPT !.poll_count = id]
      /\ UNCHANGED <<balance, height, votes, cast, stake, tokens>>
  BY DEF DaoInv, GovernanceTypeOK, HandleProposal
<1>2. state.poll_count \in Nat
  BY <1>1, StateParts
<1>3. id \in Nat /\ id \notin DOMAIN polls /\ id \in 1..MaxPolls
  BY <1>1, <1>2, GovernanceAssumption
<1> HIDE DEF id
<1>4. /\ DOMAIN polls' = DOMAIN polls \cup {id}
      /\ polls'[id] = NewPoll(sender, terms)
      /\ \A k \in DOMAIN polls : polls'[k] = polls[k]
  BY <1>1, <1>3 DEF Save
<1>5. ParametersKept /\ state'.admin = state.admin
  BY <1>1 DEF ParametersKept, State
<1>. QED
  BY <1>1, <1>3, <1>4, <1>5 DEF id

\* Presenting a poll only gives it a status.
LEMMA PresentStatus ==
    ASSUME GovernanceTypeOK, NEW id \in DOMAIN polls, PollRefused(id) \/ PollPasses(id)
    PROVE  /\ DOMAIN polls' = DOMAIN polls
           /\ polls'[id] = [polls[id] EXCEPT !.status =
                               IF PollPasses(id) THEN "Passed" ELSE "Rejected"]
           /\ polls'[id].status = IF PollPasses(id) THEN "Passed" ELSE "Rejected"
           /\ \A k \in DOMAIN polls : k # id => polls'[k] = polls[k]
<1>1. polls[id] \in Poll /\ polls = [k \in DOMAIN polls |-> polls[k]]
  BY DEF GovernanceTypeOK
<1>2. CASE PollPasses(id)
  BY <1>1, <1>2 DEF PollPasses, Poll
<1>3. CASE ~PollPasses(id)
  BY <1>1, <1>3 DEF PollRefused, Poll
<1>. QED
  BY <1>2, <1>3

-----------------------------------------------------------------------------
(* The parameters stay within their bounds. *)

LEMMA BoundsStep ==
    DaoInv /\ PercentagesBounded /\ [GovernanceNext]_governanceVars => PercentagesBounded'
<1>1. SUFFICES ASSUME DaoInv, PercentagesBounded, [GovernanceNext]_governanceVars
               PROVE  PercentagesBounded'
  OBVIOUS
<1>2. CASE ParametersKept
  BY <1>1, <1>2 DEF PercentagesBounded, ParametersKept
<1>3. ASSUME NEW id \in 1..MaxPolls, HandlePresentProposal(id) PROVE PercentagesBounded'
  <2>1. /\ id \in DOMAIN polls /\ SoundPoll(polls[id]) /\ state \in State
        /\ PollRefused(id) \/ PollPasses(id)
    BY <1>1, <1>3, PresentCases DEF DaoInv, PollsSound, GovernanceTypeOK
  <2>2. CASE PollRefused(id)
    BY <1>2, <2>2 DEF PollRefused, ParametersKept
  <2>3. CASE PollPasses(id)
    <3>1. state' = Amended(polls[id])
      BY <2>3 DEF PollPasses
    <3>2. CASE polls[id].proposal = "HolderFeePercentage"
      BY <1>1, <2>1, <3>1, <3>2 DEF SoundPoll, Amended, PercentagesBounded, HOLDERS_MAX_REWARD, State
    <3>3. CASE polls[id].proposal = "DrandWorkerFeePercentage"
      BY <1>1, <2>1, <3>1, <3>3 DEF SoundPoll, Amended, PercentagesBounded, WORKER_MAX_REWARD, State
    <3>4. CASE polls[id].proposal = "JackpotRewardPercentage"
      BY <1>1, <2>1, <3>1, <3>4 DEF SoundPoll, Amended, PercentagesBounded, State
    <3>5. CASE polls[id].proposal \notin PercentagePolls
      BY <1>1, <2>1, <3>1, <3>5 DEF PercentagePolls, Amended, PercentagesBounded, State
    <3>. QED
      BY <3>2, <3>3, <3>4, <3>5 DEF PercentagePolls
  <2>. QED
    BY <2>1, <2>2, <2>3
<1>4. ASSUME NEW sender \in Accounts, NEW id \in 1..MaxPolls, NEW approve \in BOOLEAN,
             HandleVote(sender, id, approve) \/ HandleRejectProposal(sender, id)
      PROVE  ParametersKept
  BY <1>4 DEF HandleVote, HandleRejectProposal, ParametersKept
<1>5. ASSUME NEW sender \in Accounts, NEW terms \in PollMsgs, HandleProposal(sender, terms)
      PROVE  ParametersKept
  BY <1>1, <1>5, ProposalAdds
<1>. QED
  BY <1>1, <1>2, <1>3, <1>4, <1>5, DaoCases DEF QuietStep

\* Whatever amounts are proposed, however wide, the percentages in force stay
\* within the bounds of handle_proposal.
THEOREM PercentagesStayBounded == GovernanceSpec => []PercentagesBounded
<1>1. GovernanceInit => PercentagesBounded
  BY DEF GovernanceInit, StateInit, Instantiated, PercentagesBounded, WORKER_MAX_REWARD,
         HOLDERS_MAX_REWARD
<1>. QED
  BY <1>1, DaoInit, DaoStep, BoundsStep, PTL DEF GovernanceSpec

-----------------------------------------------------------------------------
(* Privileged polls are the owner's. *)

OwnerOrContract == state.admin \in {Owner, Contract}

LEMMA OwnersStep ==
    DaoInv /\ OwnerOrContract /\ OwnersPolls /\ [GovernanceNext]_governanceVars
        => OwnerOrContract' /\ OwnersPolls'
<1>1. SUFFICES ASSUME DaoInv, OwnerOrContract, OwnersPolls, [GovernanceNext]_governanceVars
               PROVE  OwnerOrContract' /\ OwnersPolls'
  OBVIOUS
<1>2. CASE PollsKeepTerms /\ state'.admin = state.admin
  BY <1>1, <1>2 DEF PollsKeepTerms, OwnersPolls, OwnerOrContract
<1>3. CASE QuietStep
  BY <1>1, <1>3 DEF QuietStep, OwnersPolls, OwnerOrContract
<1>4. ASSUME NEW sender \in Accounts, NEW terms \in PollMsgs, HandleProposal(sender, terms)
      PROVE  OwnerOrContract' /\ OwnersPolls'
  <2> DEFINE id == state.poll_count + 1
  <2>1. /\ id \notin DOMAIN polls
        /\ DOMAIN polls' = DOMAIN polls \cup {id}
        /\ polls'[id] = NewPoll(sender, terms)
        /\ \A k \in DOMAIN polls : polls'[k] = polls[k]
        /\ state'.admin = state.admin
    BY <1>1, <1>4, ProposalAdds
  <2>2. Accepts(sender, terms)
    BY <1>4 DEF HandleProposal
  <2>3. NewPoll(sender, terms).creator = sender /\ NewPoll(sender, terms).proposal = terms.proposal
    BY DEF NewPoll
  <2>4. terms.proposal \in PrivilegedPolls => Privileged(sender)
    BY <2>2 DEF Accepts, AcceptsPercentage, AcceptsAmount, AcceptsPrizes, AcceptsMigration,
                AcceptsFunding, PercentagePolls, PrivilegedPolls
  <2> HIDE DEF id
  <2>. QED
    BY <1>1, <2>1, <2>3, <2>4 DEF OwnersPolls, OwnerOrContract, Privileged
<1>5. ASSUME NEW sender \in Accounts, NEW id \in 1..MaxPolls, NEW approve \in BOOLEAN,
             HandleVote(sender, id, approve)
      PROVE  PollsKeepTerms /\ state'.admin = state.admin
  BY <1>1, <1>5, DaoVote DEF HandleVote
<1>6. ASSUME NEW sender \in Accounts, NEW id \in 1..MaxPolls, HandleRejectProposal(sender, id)
      PROVE  PollsKeepTerms /\ state'.admin = state.admin
  BY <1>1, <1>6, DaoReject DEF HandleRejectProposal
<1>7. ASSUME NEW id \in 1..MaxPolls, HandlePresentProposal(id)
      PROVE  PollsKeepTerms /\ state'.admin = state.admin
  BY <1>1, <1>7, DaoPresent DEF PollsLeaveAlone
<1>. QED
  BY <1>1, <1>2, <1>3, <1>4, <1>5, <1>6, <1>7, DaoCases

\* Until the owner renounces, every poll on money, tokens or the staking contract
\* was proposed by the owner.
THEOREM PrivilegedPollsAreOwners == GovernanceSpec => []OwnersPolls
<1>1. GovernanceInit => OwnerOrContract /\ OwnersPolls
  BY DEF GovernanceInit, StateInit, Instantiated, OwnerOrContract, OwnersPolls, EmptyMap
<1>. QED
  BY <1>1, DaoInit, DaoStep, OwnersStep, PTL DEF GovernanceSpec

-----------------------------------------------------------------------------
(* Money and tokens leave by a poll. *)

\* The contract's own money moves when a migration passes.
LEMMA PresentMoves ==
    ASSUME DaoInv, NEW id, HandlePresentProposal(id), balance' # balance
    PROVE  /\ id \in DOMAIN polls
           /\ polls[id].proposal = "SecurityMigration"
           /\ polls[id].status = "InProgress" /\ polls'[id].status = "Passed"
<1>1. id \in DOMAIN polls /\ polls[id].status = "InProgress" /\ PollPasses(id)
  BY PresentCases DEF PollRefused
<1>2. polls'[id].status = "Passed"
  BY <1>1, PresentStatus DEF DaoInv
<1>3. polls[id].proposal = "SecurityMigration"
  BY <1>1 DEF PollPasses, SendFunds
<1>. QED
  BY <1>1, <1>2, <1>3

-----------------------------------------------------------------------------
(* Polls keep their terms, and a decided poll is final. *)

\* What PollsFinal asks of one step.
FinalStep ==
    \A id \in DOMAIN polls :
        /\ id \in DOMAIN polls'
        /\ \A field \in {"creator", "proposal", "amount", "prize_rank",
                         "migration_address", "start_height"} :
               polls'[id][field] = polls[id][field]
        /\ polls[id].status # "InProgress" => polls'[id] = polls[id]
        /\ \A account \in Accounts :
               LET key == <<id, account>>
               IN  IF key \in DOMAIN votes
                   THEN votes'[key] = votes[key] /\ cast'[key] = cast[key]
                   ELSE polls[id].status # "InProgress" => key \notin DOMAIN votes'

\* Its two halves: the polls, and the votes.
FinalPolls ==
    \A id \in DOMAIN polls : polls[id].status # "InProgress" => polls'[id] = polls[id]

FinalVotes ==
    \A id \in DOMAIN polls, account \in Accounts :
        LET key == <<id, account>>
        IN  IF key \in DOMAIN votes
            THEN votes'[key] = votes[key] /\ cast'[key] = cast[key]
            ELSE polls[id].status # "InProgress" => key \notin DOMAIN votes'

LEMMA FinalHalves == PollsKeepTerms /\ FinalPolls /\ FinalVotes => FinalStep
BY DEF PollsKeepTerms, FinalPolls, FinalVotes, FinalStep

LEMMA PollsFinalStep == DaoInv /\ [GovernanceNext]_governanceVars => FinalStep
<1>1. SUFFICES ASSUME DaoInv, [GovernanceNext]_governanceVars PROVE FinalStep
  OBVIOUS
<1>2. GovernanceTypeOK /\ DOMAIN cast = DOMAIN votes
  BY <1>1 DEF DaoInv, GovernanceTypeOK
<1>3. UNCHANGED <<votes, cast>> => FinalVotes
  BY DEF FinalVotes
<1>4. CASE QuietStep
  BY <1>4 DEF QuietStep, FinalStep
<1>5. ASSUME NEW sender \in Accounts, NEW terms \in PollMsgs, HandleProposal(sender, terms)
      PROVE  FinalStep
  BY <1>1, <1>5, ProposalAdds DEF FinalStep
<1>6. ASSUME NEW sender \in Accounts, NEW id \in 1..MaxPolls, NEW approve \in BOOLEAN,
             HandleVote(sender, id, approve)
      PROVE  FinalStep
  <2> DEFINE key == <<id, sender>>
  <2>1. PollsKeepTerms
    BY <1>1, <1>6, DaoVote
  <2>2. /\ id \in DOMAIN polls /\ polls[id].status = "InProgress" /\ key \notin DOMAIN votes
        /\ polls' = [polls EXCEPT ![id] = Tally(@, approve, UserTotalWeight(sender))]
        /\ votes' = Save(votes, key, approve)
        /\ cast' = Save(cast, key, UserTotalWeight(sender))
    BY <1>6 DEF HandleVote, HasVoted
  <2>3. FinalPolls
    BY <2>2 DEF FinalPolls
  <2>4. FinalVotes
    <3>1. SUFFICES ASSUME NEW k \in DOMAIN polls, NEW account \in Accounts
                   PROVE  IF <<k, account>> \in DOMAIN votes
                          THEN /\ votes'[<<k, account>>] = votes[<<k, account>>]
                               /\ cast'[<<k, account>>] = cast[<<k, account>>]
                          ELSE polls[k].status # "InProgress" => <<k, account>> \notin DOMAIN votes'
      BY DEF FinalVotes
    <3>2. CASE <<k, account>> \in DOMAIN votes
      <4>1. <<k, account>> # key
        BY <2>2, <3>2
      <4>2. /\ votes'[<<k, account>>] = votes[<<k, account>>]
            /\ cast'[<<k, account>>] = cast[<<k, account>>]
        BY <1>2, <2>2, <3>2, <4>1 DEF Save
      <4>. QED
        BY <3>2, <4>2
    <3>3. CASE <<k, account>> \notin DOMAIN votes /\ polls[k].status # "InProgress"
      <4>1. k # id /\ DOMAIN votes' = DOMAIN votes \cup {key}
        BY <2>2, <3>3 DEF Save
      <4>. QED
        BY <3>3, <4>1
    <3>. QED
      BY <3>2, <3>3
  <2>. QED
    BY <2>1, <2>3, <2>4, FinalHalves
<1>7. ASSUME NEW sender \in Accounts, NEW id \in 1..MaxPolls, HandleRejectProposal(sender, id)
      PROVE  FinalStep
  <2>1. PollsKeepTerms /\ UNCHANGED <<votes, cast>>
    BY <1>1, <1>7, DaoReject DEF HandleRejectProposal
  <2>2. FinalPolls
    BY <1>7 DEF HandleRejectProposal, FinalPolls
  <2>. QED
    BY <1>3, <2>1, <2>2, FinalHalves
<1>8. ASSUME NEW id \in 1..MaxPolls, HandlePresentProposal(id)
      PROVE  FinalStep
  <2>1. PollsKeepTerms /\ UNCHANGED <<votes, cast>>
    BY <1>1, <1>8, DaoPresent, PresentCases
  <2>2. id \in DOMAIN polls /\ polls[id].status = "InProgress" /\ (PollRefused(id) \/ PollPasses(id))
    BY <1>8, PresentCases
  <2>3. FinalPolls
    BY <1>2, <2>2, PresentStatus DEF FinalPolls
  <2>. QED
    BY <1>3, <2>1, <2>3, FinalHalves
<1>. QED
  BY <1>1, <1>4, <1>5, <1>6, <1>7, <1>8, DaoCases

\* Whatever is called, in whatever order: the terms of a poll, a vote and its
\* weight never change, and a decided poll is never touched again.
THEOREM DecidedPollsFinal == GovernanceSpec => PollsFinal
<1>1. GovernanceSpec => []DaoInv
  BY DaoInit, DaoStep, PTL DEF GovernanceSpec
<1>2. DaoInv /\ [GovernanceNext]_governanceVars => [FinalStep]_governanceVars
  BY PollsFinalStep
<1>3. GovernanceSpec => [][FinalStep]_governanceVars
  BY <1>1, <1>2, PTL DEF GovernanceSpec
<1>. QED
  BY <1>3 DEF PollsFinal, FinalStep

-----------------------------------------------------------------------------
(* Weights, unit by unit. *)

\* The units of a weight function over some accounts.
Units(weights, some) == UNION {{account} \X (1..weights[account]) : account \in some}

LEMMA UnitsOfFinite ==
    ASSUME NEW some, IsFiniteSet(some), NEW weights,
           \A account \in some : weights[account] \in Nat
    PROVE  /\ IsFiniteSet(Units(weights, some))
           /\ Cardinality(Units(weights, some)) \in Nat
<1> DEFINE family == {{account} \X (1..weights[account]) : account \in some}
<1>1. IsFiniteSet(some)
  OBVIOUS
<1>2. IsFiniteSet(family)
  <2> DEFINE f == [account \in some |-> {account} \X (1..weights[account])]
  <2>1. f \in Surjection(some, family)
    BY DEF Surjection
  <2>. QED
    BY <1>1, <2>1, FS_Surjection
<1>3. \A part \in family : IsFiniteSet(part)
  <2>1. SUFFICES ASSUME NEW account \in some PROVE IsFiniteSet({account} \X (1..weights[account]))
    OBVIOUS
  <2>2. weights[account] \in Int /\ 1 \in Int
    OBVIOUS
  <2>3. IsFiniteSet(1..weights[account])
    BY <2>2, FS_Interval
  <2>. QED
    BY <2>3, FS_Singleton, FS_Product
<1>4. IsFiniteSet(UNION family)
  BY <1>2, <1>3, FS_UNION
<1>. QED
  BY <1>4, FS_CardinalityType DEF Units

LEMMA UnitsFinite ==
    ASSUME NEW some \in SUBSET Accounts, NEW weights,
           \A account \in some : weights[account] \in Nat
    PROVE  /\ IsFiniteSet(Units(weights, some))
           /\ Cardinality(Units(weights, some)) \in Nat
<1>1. IsFiniteSet(some)
  BY AccountsFinite, FS_Subset
<1>. QED
  BY <1>1, UnitsOfFinite

\* One more account adds its weight.
LEMMA UnitsOfOneMore ==
    ASSUME NEW some, IsFiniteSet(some), NEW account, account \notin some, NEW weights,
           \A a \in some \cup {account} : weights[a] \in Nat
    PROVE  Cardinality(Units(weights, some \cup {account})) =
               Cardinality(Units(weights, some)) + weights[account]
<1> DEFINE more == {account} \X (1..weights[account])
<1>1. Units(weights, some \cup {account}) = Units(weights, some) \cup more
  BY DEF Units
<1>2. Units(weights, some) \cap more = {}
  BY DEF Units
<1>3. IsFiniteSet(Units(weights, some)) /\ Cardinality(Units(weights, some)) \in Nat
  BY UnitsOfFinite
<1>4. IsFiniteSet(more) /\ Cardinality(more) = weights[account]
  <2>1. IsFiniteSet({account}) /\ Cardinality({account}) = 1
    BY FS_Singleton
  <2>2. IsFiniteSet(1..weights[account]) /\ Cardinality(1..weights[account]) = weights[account]
    <3>1. weights[account] \in Nat
      OBVIOUS
    <3>2. /\ IsFiniteSet(1..weights[account])
          /\ Cardinality(1..weights[account]) =
                IF 1 > weights[account] THEN 0 ELSE weights[account] - 1 + 1
      BY <3>1, FS_Interval
    <3>. QED
      BY <3>1, <3>2
  <2>3. IsFiniteSet(more) /\ Cardinality(more) = 1 * weights[account]
    BY <2>1, <2>2, FS_Product
  <2>4. weights[account] \in Nat
    OBVIOUS
  <2>. QED
    BY <2>3, <2>4
<1>5. Cardinality(Units(weights, some) \cap more) = 0
  BY <1>2, FS_EmptySet
<1>6. weights[account] \in Nat
  OBVIOUS
<1> DEFINE before == Units(weights, some)
<1>7. Cardinality(before \cup more) = Cardinality(before) + Cardinality(more) - Cardinality(before \cap more)
  BY <1>3, <1>4, FS_Union
<1>8. Cardinality(before \cup more) = Cardinality(before) + weights[account]
  <2> DEFINE b == Cardinality(before)
             m == Cardinality(more)
  <2>1. b \in Nat /\ m = weights[account] /\ Cardinality(before \cap more) = 0
    BY <1>3, <1>4, <1>5
  <2>2. Cardinality(before \cup more) = b + m - 0
    BY <1>7, <2>1
  <2> HIDE DEF b, m
  <2>. QED
    BY <1>6, <2>1, <2>2 DEF b, m
<1>. QED
  BY <1>1, <1>8

LEMMA UnitsAdd ==
    ASSUME NEW some \in SUBSET Accounts, NEW account \in Accounts \ some, NEW weights,
           \A a \in some \cup {account} : weights[a] \in Nat
    PROVE  Cardinality(Units(weights, some \cup {account})) =
               Cardinality(Units(weights, some)) + weights[account]
<1>1. IsFiniteSet(some)
  BY AccountsFinite, FS_Subset
<1>. QED
  BY <1>1, UnitsOfOneMore

-----------------------------------------------------------------------------
(* The tallies. *)

\* Voters and their weight, with the maps as parameters.
VotersIn(v, id, approve) ==
    {account \in Accounts : <<id, account>> \in DOMAIN v /\ v[<<id, account>>] = approve}

WeightsIn(c, id) == [account \in Accounts |-> c[<<id, account>>]]

WeightIn(v, c, id, approve) == Cardinality(Units(WeightsIn(c, id), VotersIn(v, id, approve)))

LEMMA WeightMeaning ==
    ASSUME NEW id, NEW approve
    PROVE  /\ Voters(id, approve) = VotersIn(votes, id, approve)
           /\ CastWeight(id, approve) = WeightIn(votes, cast, id, approve)
<1>1. Voters(id, approve) = VotersIn(votes, id, approve)
  BY DEF Voters, VotersIn
<1>2. ASSUME NEW some \in SUBSET Accounts PROVE CastUnits(id, some) = Units(WeightsIn(cast, id), some)
  <2>1. \A account \in some : WeightsIn(cast, id)[account] = cast[<<id, account>>]
    BY DEF WeightsIn
  <2>. QED
    BY <2>1 DEF CastUnits, Units
<1>3. VotersIn(votes, id, approve) \in SUBSET Accounts
  BY DEF VotersIn
<1>. QED
  BY <1>1, <1>2, <1>3 DEF CastWeight, WeightIn

LEMMA WeightMeaningNext ==
    ASSUME NEW id, NEW approve
    PROVE  /\ Voters(id, approve)' = VotersIn(votes', id, approve)
           /\ CastWeight(id, approve)' = WeightIn(votes', cast', id, approve)
<1>1. Voters(id, approve)' = VotersIn(votes', id, approve)
  BY DEF Voters, VotersIn
<1>2. ASSUME NEW some \in SUBSET Accounts PROVE CastUnits(id, some)' = Units(WeightsIn(cast', id), some)
  <2>1. \A account \in some : WeightsIn(cast', id)[account] = cast'[<<id, account>>]
    BY DEF WeightsIn
  <2>2. CastUnits(id, some)' = UNION {{account} \X (1..cast'[<<id, account>>]) : account \in some}
    BY DEF CastUnits
  <2>. QED
    BY <2>1, <2>2 DEF Units
<1>3. VotersIn(votes', id, approve) \in SUBSET Accounts
  BY DEF VotersIn
<1>4. CastWeight(id, approve)' = Cardinality(UNION {{account} \X (1..cast'[<<id, account>>]) :
                                                account \in VotersIn(votes', id, approve)})
  BY <1>1 DEF CastWeight, CastUnits
<1>5. UNION {{account} \X (1..cast'[<<id, account>>]) : account \in VotersIn(votes', id, approve)}
        = Units(WeightsIn(cast', id), VotersIn(votes', id, approve))
  <2>1. \A account \in VotersIn(votes', id, approve) :
            WeightsIn(cast', id)[account] = cast'[<<id, account>>]
    BY <1>3 DEF WeightsIn
  <2>. QED
    BY <2>1 DEF Units
<1>. QED
  BY <1>1, <1>4, <1>5 DEF WeightIn

\* The voters of a poll are finitely many, with a weight each.
LEMMA VotersFinite ==
    ASSUME NEW v, NEW c, c \in [DOMAIN v -> Nat \ {0}], NEW id, NEW approve
    PROVE  /\ IsFiniteSet(VotersIn(v, id, approve))
           /\ Cardinality(VotersIn(v, id, approve)) \in Nat
           /\ \A account \in VotersIn(v, id, approve) : WeightsIn(c, id)[account] \in Nat \ {0}
           /\ WeightIn(v, c, id, approve) \in Nat
<1>1. VotersIn(v, id, approve) \in SUBSET Accounts
  BY DEF VotersIn
<1>2. IsFiniteSet(VotersIn(v, id, approve))
  BY <1>1, AccountsFinite, FS_Subset
<1>3. \A account \in VotersIn(v, id, approve) : WeightsIn(c, id)[account] \in Nat \ {0}
  BY DEF VotersIn, WeightsIn
<1>4. WeightIn(v, c, id, approve) \in Nat
  BY <1>1, <1>3, UnitsFinite DEF WeightIn
<1>. QED
  BY <1>2, <1>3, <1>4, FS_CardinalityType

\* A vote counts for its own poll and its own answer, once.
LEMMA VoteAdds ==
    ASSUME NEW v, NEW c, c \in [DOMAIN v -> Nat \ {0}],
           NEW id, NEW sender \in Accounts, NEW approve, NEW w \in Nat \ {0},
           <<id, sender>> \notin DOMAIN v,
           NEW v2, v2 = Save(v, <<id, sender>>, approve),
           NEW c2, c2 = Save(c, <<id, sender>>, w)
    PROVE  /\ Cardinality(VotersIn(v2, id, approve)) = Cardinality(VotersIn(v, id, approve)) + 1
           /\ WeightIn(v2, c2, id, approve) = WeightIn(v, c, id, approve) + w
           /\ \A k, b : k # id \/ b # approve =>
                  /\ VotersIn(v2, k, b) = VotersIn(v, k, b)
                  /\ WeightIn(v2, c2, k, b) = WeightIn(v, c, k, b)
<1> DEFINE old == VotersIn(v, id, approve)
<1>1. VotersIn(v2, id, approve) = old \cup {sender} /\ sender \notin old
  BY DEF VotersIn, Save
<1>2. \A k, b : k # id \/ b # approve => VotersIn(v2, k, b) = VotersIn(v, k, b)
  BY DEF VotersIn, Save
<1>3. \A k, account : <<k, account>> \in DOMAIN v => c2[<<k, account>>] = c[<<k, account>>]
  BY DEF Save
<1>4. ASSUME NEW k, NEW some \in SUBSET Accounts, \A account \in some : <<k, account>> \in DOMAIN v
      PROVE  Units(WeightsIn(c2, k), some) = Units(WeightsIn(c, k), some)
  <2>1. \A account \in some : WeightsIn(c2, k)[account] = WeightsIn(c, k)[account]
    BY <1>3, <1>4 DEF WeightsIn
  <2>. QED
    BY <2>1 DEF Units
<1>5. ASSUME NEW k, NEW b
      PROVE  Units(WeightsIn(c2, k), VotersIn(v, k, b)) = Units(WeightsIn(c, k), VotersIn(v, k, b))
  <2>1. VotersIn(v, k, b) \in SUBSET Accounts
        /\ \A account \in VotersIn(v, k, b) : <<k, account>> \in DOMAIN v
    BY DEF VotersIn
  <2>. QED
    BY <1>4, <2>1
<1>6. \A k, b : k # id \/ b # approve => WeightIn(v2, c2, k, b) = WeightIn(v, c, k, b)
  BY <1>2, <1>5 DEF WeightIn
<1>7. IsFiniteSet(old) /\ Cardinality(old) \in Nat
      /\ \A account \in old : WeightsIn(c, id)[account] \in Nat \ {0}
  BY VotersFinite
<1>8. Cardinality(old \cup {sender}) = Cardinality(old) + 1
  BY <1>1, <1>7, FS_AddElement
<1>9. Cardinality(Units(WeightsIn(c2, id), old \cup {sender})) =
          Cardinality(Units(WeightsIn(c2, id), old)) + w
  <2>1. WeightsIn(c2, id)[sender] = w
    BY DEF WeightsIn, Save
  <2>2. \A account \in old : WeightsIn(c2, id)[account] = WeightsIn(c, id)[account]
    BY <1>3 DEF WeightsIn, VotersIn
  <2>3. \A account \in old \cup {sender} : WeightsIn(c2, id)[account] \in Nat
    BY <1>7, <2>1, <2>2
  <2>4. old \in SUBSET Accounts /\ sender \in Accounts \ old
    BY <1>1 DEF VotersIn
  <2> HIDE DEF old
  <2>. QED
    BY <2>1, <2>3, <2>4, UnitsAdd
<1>10. WeightIn(v2, c2, id, approve) = WeightIn(v, c, id, approve) + w
  BY <1>1, <1>5, <1>9 DEF WeightIn
<1>. QED
  BY <1>1, <1>2, <1>6, <1>8, <1>10

\* What TalliesMatchVotes asks of one poll.
TallyOf(poll, v, c, id) ==
    /\ poll.yes_vote = Cardinality(VotersIn(v, id, TRUE))
    /\ poll.no_vote = Cardinality(VotersIn(v, id, FALSE))
    /\ poll.weight_yes_vote = WeightIn(v, c, id, TRUE)
    /\ poll.weight_no_vote = WeightIn(v, c, id, FALSE)

LEMMA TallyMeaning ==
    /\ TalliesMatchVotes <=> \A id \in DOMAIN polls : TallyOf(polls[id], votes, cast, id)
    /\ TalliesMatchVotes' <=> \A id \in DOMAIN polls' : TallyOf(polls'[id], votes', cast', id)
BY WeightMeaning, WeightMeaningNext DEF TalliesMatchVotes, TallyOf

LEMMA TallyFields ==
    ASSUME NEW poll \in Poll, NEW w \in Nat
    PROVE  /\ Tally(poll, TRUE, w).yes_vote = poll.yes_vote + 1
           /\ Tally(poll, TRUE, w).weight_yes_vote = poll.weight_yes_vote + w
           /\ Tally(poll, TRUE, w).no_vote = poll.no_vote
           /\ Tally(poll, TRUE, w).weight_no_vote = poll.weight_no_vote
           /\ Tally(poll, FALSE, w).yes_vote = poll.yes_vote
           /\ Tally(poll, FALSE, w).weight_yes_vote = poll.weight_yes_vote
           /\ Tally(poll, FALSE, w).no_vote = poll.no_vote + 1
           /\ Tally(poll, FALSE, w).weight_no_vote = poll.weight_no_vote + w
<1> DEFINE yes == Tally(poll, TRUE, w)
           no == Tally(poll, FALSE, w)
<1>1. yes = [poll EXCEPT !.yes_vote = poll.yes_vote + 1,
                         !.weight_yes_vote = poll.weight_yes_vote + w]
  BY DEF Tally
<1>2. no = [poll EXCEPT !.no_vote = poll.no_vote + 1,
                        !.weight_no_vote = poll.weight_no_vote + w]
  BY DEF Tally
<1> HIDE DEF yes, no
<1>3. /\ yes.yes_vote = poll.yes_vote + 1
      /\ yes.weight_yes_vote = poll.weight_yes_vote + w
      /\ yes.no_vote = poll.no_vote
      /\ yes.weight_no_vote = poll.weight_no_vote
  BY <1>1 DEF Poll
<1>4. /\ no.yes_vote = poll.yes_vote
      /\ no.weight_yes_vote = poll.weight_yes_vote
      /\ no.no_vote = poll.no_vote + 1
      /\ no.weight_no_vote = poll.weight_no_vote + w
  BY <1>2 DEF Poll
<1>. QED
  BY <1>3, <1>4 DEF yes, no

LEMMA TallyVote ==
    ASSUME DaoInv, TalliesMatchVotes,
           NEW sender \in Accounts, NEW id \in 1..MaxPolls, NEW approve \in BOOLEAN,
           HandleVote(sender, id, approve)
    PROVE  \A k \in DOMAIN polls' : TallyOf(polls'[k], votes', cast', k)
<1> DEFINE w == UserTotalWeight(sender)
<1>1. /\ \A k \in DOMAIN polls : TallyOf(polls[k], votes, cast, k)
      /\ \A k \in DOMAIN polls : polls[k] \in Poll
      /\ cast \in [DOMAIN votes -> Nat \ {0}]
  BY TallyMeaning DEF DaoInv, GovernanceTypeOK
<1>2. /\ id \in DOMAIN polls /\ <<id, sender>> \notin DOMAIN votes
      /\ votes' = Save(votes, <<id, sender>>, approve)
      /\ cast' = Save(cast, <<id, sender>>, w)
      /\ polls' = [polls EXCEPT ![id] = Tally(polls[id], approve, w)]
  BY DEF HandleVote, HasVoted
<1>3. w \in Nat \ {0}
  BY DEF DaoInv, GovernanceTypeOK, UserTotalWeight, HandleVote, StakingAnswers
<1> HIDE DEF w
<1>4. /\ Cardinality(VotersIn(votes', id, approve)) = Cardinality(VotersIn(votes, id, approve)) + 1
      /\ WeightIn(votes', cast', id, approve) = WeightIn(votes, cast, id, approve) + w
      /\ \A k, b : k # id \/ b # approve =>
             /\ VotersIn(votes', k, b) = VotersIn(votes, k, b)
             /\ WeightIn(votes', cast', k, b) = WeightIn(votes, cast, k, b)
  BY <1>1, <1>2, <1>3, VoteAdds
<1>5. /\ DOMAIN polls' = DOMAIN polls
      /\ polls'[id] = Tally(polls[id], approve, w)
      /\ \A k \in DOMAIN polls : k # id => polls'[k] = polls[k]
  BY <1>2
<1>6. ASSUME NEW k \in DOMAIN polls, k # id PROVE TallyOf(polls'[k], votes', cast', k)
  <2>1. \A b : /\ VotersIn(votes', k, b) = VotersIn(votes, k, b)
               /\ WeightIn(votes', cast', k, b) = WeightIn(votes, cast, k, b)
    BY <1>4, <1>6
  <2>2. polls'[k] = polls[k] /\ TallyOf(polls[k], votes, cast, k)
    BY <1>1, <1>5, <1>6
  <2>. QED
    BY <2>1, <2>2 DEF TallyOf
<1>7. TallyOf(polls[id], votes, cast, id) /\ polls[id] \in Poll
  BY <1>1, <1>2
<1>8. ASSUME approve = TRUE PROVE TallyOf(polls'[id], votes', cast', id)
  <2>1. /\ Cardinality(VotersIn(votes', id, TRUE)) = Cardinality(VotersIn(votes, id, TRUE)) + 1
        /\ WeightIn(votes', cast', id, TRUE) = WeightIn(votes, cast, id, TRUE) + w
    BY <1>4, <1>8
  <2>2. /\ VotersIn(votes', id, FALSE) = VotersIn(votes, id, FALSE)
        /\ WeightIn(votes', cast', id, FALSE) = WeightIn(votes, cast, id, FALSE)
    BY <1>4, <1>8
  <2>3. polls'[id] = Tally(polls[id], TRUE, w)
    BY <1>5, <1>8
  <2>4. /\ polls'[id].yes_vote = polls[id].yes_vote + 1
        /\ polls'[id].weight_yes_vote = polls[id].weight_yes_vote + w
        /\ polls'[id].no_vote = polls[id].no_vote
        /\ polls'[id].weight_no_vote = polls[id].weight_no_vote
    <3>1. w \in Nat
      BY <1>3
    <3>2. /\ Tally(polls[id], TRUE, w).yes_vote = polls[id].yes_vote + 1
          /\ Tally(polls[id], TRUE, w).weight_yes_vote = polls[id].weight_yes_vote + w
          /\ Tally(polls[id], TRUE, w).no_vote = polls[id].no_vote
          /\ Tally(polls[id], TRUE, w).weight_no_vote = polls[id].weight_no_vote
      BY <1>7, <3>1, TallyFields
    <3>. QED
      BY <2>3, <3>2
  <2>. QED
    BY <1>7, <2>1, <2>2, <2>4 DEF TallyOf
<1>9. ASSUME approve = FALSE PROVE TallyOf(polls'[id], votes', cast', id)
  <2>1. /\ Cardinality(VotersIn(votes', id, FALSE)) = Cardinality(VotersIn(votes, id, FALSE)) + 1
        /\ WeightIn(votes', cast', id, FALSE) = WeightIn(votes, cast, id, FALSE) + w
    BY <1>4, <1>9
  <2>2. /\ VotersIn(votes', id, TRUE) = VotersIn(votes, id, TRUE)
        /\ WeightIn(votes', cast', id, TRUE) = WeightIn(votes, cast, id, TRUE)
    BY <1>4, <1>9
  <2>3. polls'[id] = Tally(polls[id], FALSE, w)
    BY <1>5, <1>9
  <2>4. /\ polls'[id].yes_vote = polls[id].yes_vote
        /\ polls'[id].weight_yes_vote = polls[id].weight_yes_vote
        /\ polls'[id].no_vote = polls[id].no_vote + 1
        /\ polls'[id].weight_no_vote = polls[id].weight_no_vote + w
    <3>1. w \in Nat
      BY <1>3
    <3>2. /\ Tally(polls[id], FALSE, w).yes_vote = polls[id].yes_vote
          /\ Tally(polls[id], FALSE, w).weight_yes_vote = polls[id].weight_yes_vote
          /\ Tally(polls[id], FALSE, w).no_vote = polls[id].no_vote + 1
          /\ Tally(polls[id], FALSE, w).weight_no_vote = polls[id].weight_no_vote + w
      BY <1>7, <3>1, TallyFields
    <3>. QED
      BY <2>3, <3>2
  <2>. QED
    BY <1>7, <2>1, <2>2, <2>4 DEF TallyOf
<1>. QED
  BY <1>5, <1>6, <1>8, <1>9

LEMMA TallyStep ==
    DaoInv /\ TalliesMatchVotes /\ [GovernanceNext]_governanceVars => TalliesMatchVotes'
<1>1. SUFFICES ASSUME DaoInv, TalliesMatchVotes, [GovernanceNext]_governanceVars
               PROVE  TalliesMatchVotes'
  OBVIOUS
<1>2. /\ \A id \in DOMAIN polls : TallyOf(polls[id], votes, cast, id)
      /\ \A id \in DOMAIN polls : polls[id] \in Poll
  BY <1>1, TallyMeaning DEF DaoInv, GovernanceTypeOK
<1>3. SUFFICES \A id \in DOMAIN polls' : TallyOf(polls'[id], votes', cast', id)
  BY TallyMeaning
<1>4. CASE QuietStep
  BY <1>2, <1>4 DEF QuietStep
<1>5. ASSUME NEW sender \in Accounts, NEW terms \in PollMsgs, HandleProposal(sender, terms)
      PROVE  \A id \in DOMAIN polls' : TallyOf(polls'[id], votes', cast', id)
  <2> DEFINE id == state.poll_count + 1
  <2>1. /\ id \notin DOMAIN polls
        /\ DOMAIN polls' = DOMAIN polls \cup {id}
        /\ polls'[id] = NewPoll(sender, terms)
        /\ \A k \in DOMAIN polls : polls'[k] = polls[k]
        /\ votes' = votes /\ cast' = cast
    BY <1>1, <1>5, ProposalAdds
  <2>2. \A account : <<id, account>> \notin DOMAIN votes
    BY <1>1, <2>1 DEF DaoInv, GovernanceTypeOK
  <2> HIDE DEF id
  <2>3. \A b : VotersIn(votes, id, b) = {}
    BY <2>2 DEF VotersIn
  <2>4. Cardinality({}) = 0 /\ \A weights : Units(weights, {}) = {}
    BY FS_EmptySet DEF Units
  <2>5. TallyOf(NewPoll(sender, terms), votes, cast, id)
    BY <2>3, <2>4 DEF TallyOf, NewPoll, WeightIn
  <2>. QED
    BY <1>2, <2>1, <2>5
<1>6. ASSUME NEW sender \in Accounts, NEW id \in 1..MaxPolls, NEW approve \in BOOLEAN,
             HandleVote(sender, id, approve)
      PROVE  \A k \in DOMAIN polls' : TallyOf(polls'[k], votes', cast', k)
  BY <1>1, <1>6, TallyVote
<1>7. ASSUME NEW sender \in Accounts, NEW id \in 1..MaxPolls, HandleRejectProposal(sender, id)
      PROVE  \A k \in DOMAIN polls' : TallyOf(polls'[k], votes', cast', k)
  <2>1. /\ id \in DOMAIN polls /\ polls[id] \in Poll
        /\ polls' = [polls EXCEPT ![id].status = "RejectedByCreator", ![id].end_height = height]
        /\ votes' = votes /\ cast' = cast
    BY <1>2, <1>7 DEF HandleRejectProposal
  <2>2. /\ polls'[id].yes_vote = polls[id].yes_vote
        /\ polls'[id].no_vote = polls[id].no_vote
        /\ polls'[id].weight_yes_vote = polls[id].weight_yes_vote
        /\ polls'[id].weight_no_vote = polls[id].weight_no_vote
        /\ \A k \in DOMAIN polls : k # id => polls'[k] = polls[k]
        /\ DOMAIN polls' = DOMAIN polls
    BY <2>1 DEF Poll
  <2>. QED
    BY <1>2, <2>1, <2>2 DEF TallyOf
<1>8. ASSUME NEW id \in 1..MaxPolls, HandlePresentProposal(id)
      PROVE  \A k \in DOMAIN polls' : TallyOf(polls'[k], votes', cast', k)
  <2>1. /\ id \in DOMAIN polls /\ (PollRefused(id) \/ PollPasses(id))
        /\ votes' = votes /\ cast' = cast /\ polls[id] \in Poll
    BY <1>2, <1>8, PresentCases
  <2> DEFINE s == IF PollPasses(id) THEN "Passed" ELSE "Rejected"
  <2>2. /\ DOMAIN polls' = DOMAIN polls
        /\ polls'[id] = [polls[id] EXCEPT !.status = s]
        /\ \A k \in DOMAIN polls : k # id => polls'[k] = polls[k]
    BY <1>1, <2>1, PresentStatus DEF DaoInv
  <2> HIDE DEF s
  <2>3. TallyOf(polls'[id], votes', cast', id)
    BY <1>2, <2>1, <2>2 DEF TallyOf, Poll
  <2>. QED
    BY <1>2, <2>1, <2>2, <2>3
<1>. QED
  BY <1>1, <1>4, <1>5, <1>6, <1>7, <1>8, DaoCases

LEMMA TallyInit == GovernanceInit => TalliesMatchVotes
BY DEF GovernanceInit, EmptyMap, TalliesMatchVotes

\* However votes, withdrawals and changes of stake follow each other, the tallies
\* are the recount of the votes, for any number of accounts and any stakes.
THEOREM TalliesAreRecounts == GovernanceSpec => []TalliesMatchVotes
BY DaoInit, DaoStep, TallyInit, TallyStep, PTL DEF GovernanceSpec


-----------------------------------------------------------------------------
(* Passed polls were carried by stake. *)

\* What PassedByStake asks of a passed poll, of its running weights.
CarriedPoll(poll) ==
    /\ poll.weight_yes_vote > 0
    /\ poll.weight_yes_vote >= poll.weight_no_vote
    /\ 100 * poll.weight_no_vote < 34 * (poll.weight_yes_vote + poll.weight_no_vote)

StakeCarried == \A id \in DOMAIN polls : polls[id].status = "Passed" => CarriedPoll(polls[id])

\* Rounding down takes nothing from the thresholds.
LEMMA ApprovedCarries == ASSUME NEW poll \in Poll, Approved(poll) PROVE CarriedPoll(poll)
<1> DEFINE yes == poll.weight_yes_vote
           no == poll.weight_no_vote
           all == yes + no
<1>1. yes \in Nat /\ no \in Nat /\ all \in Nat
  BY DEF Poll
<1>2. yes # 0 /\ (yes * 100) \div all >= 50
  BY DEF Approved, YesWeightPercentage, PercentOf, TotalVoteWeight
<1>3. no # 0 => (no * 100) \div all <= 33
  BY DEF Approved, NoWeightPercentage, PercentOf, TotalVoteWeight
<1> HIDE DEF yes, no
<1>4. all \in Nat \ {0} /\ yes * 100 \in Nat /\ no * 100 \in Nat
  BY <1>1, <1>2
<1>5. all * ((yes * 100) \div all) <= yes * 100
  BY <1>4, Division
<1>6. yes >= no
  <2> DEFINE q == (yes * 100) \div all
  <2>1. q \in Nat /\ q >= 50
    BY <1>2, <1>4, Division
  <2>2. all * 50 <= all * q
    <3> HIDE DEF q, all
    <3>1. q - 50 \in Nat /\ all \in Nat
      BY <1>4, <2>1
    <3>2. all * (q - 50) \in Nat /\ all * q = all * 50 + all * (q - 50)
      BY <2>1, <3>1
    <3>. QED
      BY <2>1, <3>1, <3>2
  <2> HIDE DEF q
  <2>3. all * q \in Nat /\ all * q <= yes * 100
    BY <1>4, <1>5, <2>1 DEF q
  <2>. QED
    BY <1>1, <2>2, <2>3
<1>7. 100 * no < 34 * (yes + no)
  <2>1. CASE no = 0
    BY <1>1, <1>2, <2>1
  <2>2. CASE no # 0
    <3> DEFINE q == (no * 100) \div all
    <3>1. q \in Nat /\ q <= 33 /\ no * 100 < all * q + all
      BY <1>3, <1>4, <2>2, Division
    <3>2. all * q <= all * 33 /\ all * q \in Nat
      <4> HIDE DEF q, all
      <4>1. 33 - q \in Nat /\ all \in Nat
        BY <1>4, <3>1
      <4>2. all * (33 - q) \in Nat /\ all * q \in Nat /\ all * 33 = all * q + all * (33 - q)
        BY <3>1, <4>1
      <4>. QED
        BY <4>1, <4>2
    <3> HIDE DEF q
    <3>. QED
      BY <1>1, <3>1, <3>2
  <2>. QED
    BY <2>1, <2>2
<1>. QED
  BY <1>1, <1>2, <1>6, <1>7 DEF CarriedPoll, yes, no

LEMMA CarriedStep ==
    DaoInv /\ StakeCarried /\ [GovernanceNext]_governanceVars => StakeCarried'
<1>1. SUFFICES ASSUME DaoInv, StakeCarried, [GovernanceNext]_governanceVars
               PROVE  StakeCarried'
  OBVIOUS
<1>2. \A id \in DOMAIN polls : polls[id] \in Poll
  BY <1>1 DEF DaoInv, GovernanceTypeOK
<1>3. CASE QuietStep
  BY <1>1, <1>3 DEF QuietStep, StakeCarried
<1>4. ASSUME NEW sender \in Accounts, NEW terms \in PollMsgs, HandleProposal(sender, terms)
      PROVE  StakeCarried'
  <2>1. NewPoll(sender, terms).status = "InProgress"
    BY DEF NewPoll
  <2>. QED
    BY <1>1, <1>4, <2>1, ProposalAdds DEF StakeCarried
<1>5. ASSUME NEW sender \in Accounts, NEW id \in 1..MaxPolls, NEW approve \in BOOLEAN,
             HandleVote(sender, id, approve)
      PROVE  StakeCarried'
  <2>1. /\ id \in DOMAIN polls /\ polls[id].status = "InProgress" /\ polls[id] \in Poll
        /\ polls' = [polls EXCEPT ![id] = Tally(polls[id], approve, UserTotalWeight(sender))]
    BY <1>2, <1>5 DEF HandleVote
  <2>2. Tally(polls[id], approve, UserTotalWeight(sender)).status = "InProgress"
    BY <2>1 DEF Tally, Poll
  <2>. QED
    BY <1>1, <2>1, <2>2 DEF StakeCarried
<1>6. ASSUME NEW sender \in Accounts, NEW id \in 1..MaxPolls, HandleRejectProposal(sender, id)
      PROVE  StakeCarried'
  <2>1. /\ id \in DOMAIN polls /\ polls[id] \in Poll
        /\ polls' = [polls EXCEPT ![id].status = "RejectedByCreator", ![id].end_height = height]
    BY <1>2, <1>6 DEF HandleRejectProposal
  <2>2. /\ polls'[id].status = "RejectedByCreator"
        /\ \A k \in DOMAIN polls : k # id => polls'[k] = polls[k]
        /\ DOMAIN polls' = DOMAIN polls
    BY <2>1 DEF Poll
  <2>. QED
    BY <1>1, <2>1, <2>2 DEF StakeCarried
<1>7. ASSUME NEW id \in 1..MaxPolls, HandlePresentProposal(id)
      PROVE  StakeCarried'
  <2>1. id \in DOMAIN polls /\ (PollRefused(id) \/ PollPasses(id)) /\ polls[id] \in Poll
    BY <1>2, <1>7, PresentCases
  <2>2. /\ DOMAIN polls' = DOMAIN polls
        /\ polls'[id].status = IF PollPasses(id) THEN "Passed" ELSE "Rejected"
        /\ \A k \in DOMAIN polls : k # id => polls'[k] = polls[k]
    BY <1>1, <2>1, PresentStatus DEF DaoInv
  <2>3. polls'[id].weight_yes_vote = polls[id].weight_yes_vote
        /\ polls'[id].weight_no_vote = polls[id].weight_no_vote
    <3>1. \A s : /\ [polls[id] EXCEPT !.status = s].weight_yes_vote = polls[id].weight_yes_vote
                /\ [polls[id] EXCEPT !.status = s].weight_no_vote = polls[id].weight_no_vote
      BY <2>1 DEF Poll
    <3>. QED
      BY <1>1, <2>1, <3>1, PresentStatus DEF DaoInv
  <2>4. PollPasses(id) => CarriedPoll(polls[id])
    BY <2>1, ApprovedCarries DEF PollPasses
  <2>5. polls'[id].status = "Passed" => CarriedPoll(polls'[id])
    BY <2>2, <2>3, <2>4 DEF CarriedPoll
  <2>. QED
    BY <1>1, <2>2, <2>5 DEF StakeCarried
<1>. QED
  BY <1>1, <1>3, <1>4, <1>5, <1>6, <1>7, DaoCases

LEMMA CarriedMeaning == TalliesMatchVotes /\ StakeCarried => PassedByStake
BY DEF TalliesMatchVotes, StakeCarried, PassedByStake, CarriedPoll

\* A poll passes by stake, never by heads: half of the stake that voted said yes
\* and at most a third no, for any stakes and whatever the rounding of percentages.
THEOREM PollsPassByStake == GovernanceSpec => []PassedByStake
<1>1. GovernanceInit => StakeCarried
  BY DEF GovernanceInit, EmptyMap, StakeCarried
<1>. QED
  BY <1>1, DaoInit, DaoStep, TallyInit, TallyStep, CarriedStep, CarriedMeaning, PTL
     DEF GovernanceSpec


-----------------------------------------------------------------------------
(* Early decisions. *)

\* Smaller weights on fewer accounts add up to less.
LEMMA UnitsWithin ==
    ASSUME NEW some \in SUBSET Accounts, NEW weights, NEW larger,
           \A account \in some : /\ weights[account] \in Nat /\ larger[account] \in Nat
                                 /\ weights[account] <= larger[account]
    PROVE  Cardinality(Units(weights, some)) <= Cardinality(Units(larger, some))
<1>1. Units(weights, some) \subseteq Units(larger, some)
  <2> SUFFICES ASSUME NEW account \in some, NEW unit \in 1..weights[account]
               PROVE  unit \in 1..larger[account]
    BY DEF Units
  <2>. QED
    OBVIOUS
<1>2. IsFiniteSet(Units(larger, some))
  BY UnitsFinite
<1>. QED
  BY <1>1, <1>2, FS_Subset, FS_CardinalityType

\* The units of two groups of accounts.
LEMMA UnitsOfBoth ==
    ASSUME NEW some \in SUBSET Accounts, NEW more \in SUBSET Accounts, some \cap more = {},
           NEW weights, \A account \in some \cup more : weights[account] \in Nat
    PROVE  Cardinality(Units(weights, some \cup more)) =
               Cardinality(Units(weights, some)) + Cardinality(Units(weights, more))
<1> DEFINE A == Units(weights, some)
           B == Units(weights, more)
<1>1. Units(weights, some \cup more) = A \cup B
  BY DEF Units
<1>2. A \cap B = {}
  BY DEF Units
<1>3. IsFiniteSet(A) /\ IsFiniteSet(B) /\ Cardinality(A) \in Nat /\ Cardinality(B) \in Nat
  BY UnitsFinite
<1> HIDE DEF A, B
<1>4. Cardinality(A \cup B) = Cardinality(A) + Cardinality(B) - Cardinality(A \cap B)
  BY <1>3, FS_Union
<1>5. Cardinality(A \cap B) = 0
  BY <1>2, FS_EmptySet
<1>6. Cardinality(A \cup B) = Cardinality(A) + Cardinality(B)
  BY <1>3, <1>4, <1>5
<1>. QED
  BY <1>1, <1>6 DEF A, B

\* The tally of a poll is backed by what its voters have bonded, unless one of them
\* has less than it voted with.
LEMMA TallyBacked ==
    ASSUME GovernanceTypeOK, TalliesMatchVotes, StakingAnswers, NEW id \in DOMAIN polls,
           \A account \in AllVoters(id) :
               ~(stake[StakingContract][account] < cast[<<id, account>>])
    PROVE  /\ TotalVoteWeight(polls[id]) \in Nat
           /\ WeightOf(stake[StakingContract], AllVoters(id)) \in Nat
           /\ TotalVoteWeight(polls[id]) <= WeightOf(stake[StakingContract], AllVoters(id))
<1> DEFINE yes == VotersIn(votes, id, TRUE)
           no == VotersIn(votes, id, FALSE)
           weights == WeightsIn(cast, id)
<1>. PICK bonded : bonded = stake[StakingContract]
  OBVIOUS
<1>1. /\ yes \in SUBSET Accounts /\ no \in SUBSET Accounts /\ yes \cap no = {}
      /\ AllVoters(id) = yes \cup no
  BY WeightMeaning DEF VotersIn, AllVoters
<1>2. \A account \in yes \cup no : /\ weights[account] \in Nat
                                  /\ weights[account] = cast[<<id, account>>]
  BY DEF VotersIn, WeightsIn, GovernanceTypeOK
<1>3. bonded \in [Accounts -> Nat]
  BY DEF GovernanceTypeOK, StakingAnswers
<1>4. TotalVoteWeight(polls[id]) =
          Cardinality(Units(weights, yes)) + Cardinality(Units(weights, no))
  BY WeightMeaning DEF TotalVoteWeight, TalliesMatchVotes, WeightIn
<1> HIDE DEF yes, no, weights
<1>5. TotalVoteWeight(polls[id]) = Cardinality(Units(weights, yes \cup no))
  BY <1>1, <1>2, <1>4, UnitsOfBoth
<1>6. \A account \in yes \cup no : /\ weights[account] \in Nat /\ bonded[account] \in Nat
                                  /\ weights[account] <= bonded[account]
  <2> SUFFICES ASSUME NEW account \in yes \cup no
               PROVE  /\ weights[account] \in Nat /\ bonded[account] \in Nat
                      /\ weights[account] <= bonded[account]
    OBVIOUS
  <2>1. weights[account] \in Nat /\ weights[account] = cast[<<id, account>>]
    BY <1>2
  <2>2. bonded[account] \in Nat
    BY <1>1, <1>3
  <2>3. ~(bonded[account] < cast[<<id, account>>])
    BY <1>1
  <2>. QED
    BY <2>1, <2>2, <2>3
<1>7. /\ Cardinality(Units(weights, yes \cup no)) <= Cardinality(Units(bonded, yes \cup no))
      /\ Cardinality(Units(weights, yes \cup no)) \in Nat
      /\ Cardinality(Units(bonded, yes \cup no)) \in Nat
  BY <1>1, <1>6, UnitsWithin, UnitsFinite
<1>8. WeightOf(bonded, AllVoters(id)) = Cardinality(Units(bonded, yes \cup no))
  BY <1>1 DEF WeightOf, Units
<1>. QED
  BY <1>5, <1>7, <1>8

\* What EarlyDecisionsBacked asks of one poll in one step.
EarlyPoll(id) ==
    /\ polls[id].status = "InProgress"
    /\ polls'[id].status \in {"Passed", "Rejected"}
    /\ height < polls[id].end_height
    => \/ 2 * WeightOf(stake[StakingContract], AllVoters(id)) >= TotalWeight
       \/ \E account \in AllVoters(id) :
              stake[StakingContract][account] < cast[<<id, account>>]

LEMMA PageFinite ==
    ASSUME GovernanceTypeOK, StakingAnswers
    PROVE  TotalWeight \in Nat
<1>1. stake[StakingContract] \in [Accounts -> Nat] /\ Page \in SUBSET Accounts
  BY DEF GovernanceTypeOK, StakingAnswers, Page, Holders
<1>2. TotalWeight = Cardinality(Units(stake[StakingContract], Page))
  BY DEF TotalWeight, WeightOf, Units
<1>. QED
  BY <1>1, <1>2, UnitsFinite

LEMMA EarlyStep ==
    ASSUME DaoInv, TalliesMatchVotes, [GovernanceNext]_governanceVars, NEW k \in DOMAIN polls
    PROVE  EarlyPoll(k)
<1>1. GovernanceTypeOK /\ polls[k] \in Poll /\ height \in Nat
  BY DEF DaoInv, GovernanceTypeOK
<1>2. CASE QuietStep
  BY <1>2 DEF QuietStep, EarlyPoll
<1>3. ASSUME NEW sender \in Accounts, NEW terms \in PollMsgs, HandleProposal(sender, terms)
      PROVE  EarlyPoll(k)
  BY <1>3, ProposalAdds DEF EarlyPoll
<1>4. ASSUME NEW sender \in Accounts, NEW id \in 1..MaxPolls, NEW approve \in BOOLEAN,
             HandleVote(sender, id, approve)
      PROVE  EarlyPoll(k)
  <2>1. /\ id \in DOMAIN polls
        /\ polls' = [polls EXCEPT ![id] = Tally(polls[id], approve, UserTotalWeight(sender))]
    BY <1>4 DEF HandleVote
  <2>2. Tally(polls[k], approve, UserTotalWeight(sender)).status = polls[k].status
    BY <1>1 DEF Tally, Poll
  <2>3. polls'[k].status = polls[k].status
    BY <2>1, <2>2
  <2>. QED
    BY <2>3 DEF EarlyPoll
<1>5. ASSUME NEW sender \in Accounts, NEW id \in 1..MaxPolls, HandleRejectProposal(sender, id)
      PROVE  EarlyPoll(k)
  <2>1. polls' = [polls EXCEPT ![id].status = "RejectedByCreator", ![id].end_height = height]
    BY <1>5 DEF HandleRejectProposal
  <2>2. polls'[k].status \in {polls[k].status, "RejectedByCreator"}
    BY <1>1, <2>1 DEF Poll
  <2>. QED
    BY <2>2 DEF EarlyPoll
<1>6. ASSUME NEW id \in 1..MaxPolls, HandlePresentProposal(id)
      PROVE  EarlyPoll(k)
  <2>1. /\ id \in DOMAIN polls /\ (PollRefused(id) \/ PollPasses(id))
        /\ StakingAnswers /\ TotalWeight > 0
        /\ Quorate(polls[id]) \/ Ended(polls[id])
    BY <1>6, PresentCases
  <2>2. k # id => polls'[k] = polls[k]
    BY <1>1, <2>1, PresentStatus
  <2>3. k # id => EarlyPoll(k)
    BY <2>2 DEF EarlyPoll
  <2>4. ASSUME k = id, height < polls[id].end_height,
               \A account \in AllVoters(id) :
                   ~(stake[StakingContract][account] < cast[<<id, account>>])
        PROVE  2 * WeightOf(stake[StakingContract], AllVoters(id)) >= TotalWeight
    <3> DEFINE voted == TotalVoteWeight(polls[id])
               backed == WeightOf(stake[StakingContract], AllVoters(id))
               q == (voted * 100) \div TotalWeight
    <3>1. voted \in Nat /\ backed \in Nat /\ voted <= backed
      BY <1>1, <2>1, <2>4, TallyBacked
    <3>2. TotalWeight \in Nat \ {0} /\ voted * 100 \in Nat
      BY <1>1, <2>1, <3>1, PageFinite
    <3>3. q >= 50
      BY <1>1, <2>1, <2>4 DEF Quorate, Ended, PercentOf, Poll
    <3>4. q \in Nat /\ TotalWeight * q <= voted * 100
      BY <3>2, Division
    <3> HIDE DEF q, voted, backed
    <3>5. q - 50 \in Nat
      BY <3>3, <3>4
    <3>6. TotalWeight * (q - 50) \in Nat /\ TotalWeight * q \in Nat
          /\ TotalWeight * q = TotalWeight * 50 + TotalWeight * (q - 50)
      BY <3>2, <3>4, <3>5
    <3>7. 2 * backed >= TotalWeight
      BY <3>1, <3>2, <3>4, <3>6
    <3>. QED
      BY <3>7 DEF backed
  <2>. QED
    BY <2>3, <2>4 DEF EarlyPoll
<1>. QED
  BY <1>2, <1>3, <1>4, <1>5, <1>6, DaoCases

\* However many holders there are, however they are listed, voted and moved their
\* stake, a poll decided before its end has half of the listed stake bonded by its
\* voters, or a voter who has less bonded than it voted with.
THEOREM EarlyDecisionsAreBacked == GovernanceSpec => EarlyDecisionsBacked
<1>1. GovernanceSpec => []DaoInv
  BY DaoInit, DaoStep, PTL DEF GovernanceSpec
<1>2. DaoInv /\ TalliesMatchVotes /\ [GovernanceNext]_governanceVars =>
          [\A id \in DOMAIN polls : EarlyPoll(id)]_governanceVars
  BY EarlyStep
<1>3. GovernanceSpec => [][\A id \in DOMAIN polls : EarlyPoll(id)]_governanceVars
  BY <1>1, <1>2, TalliesAreRecounts, PTL DEF GovernanceSpec
<1>. QED
  BY <1>3 DEF EarlyDecisionsBacked, EarlyPoll

-----------------------------------------------------------------------------
(* The tokens add up. *)

\* Funded, for any polls.
FundingsIn(some) == {id \in DOMAIN some : some[id].status = "Passed" /\ some[id].proposal = "DaoFunding"}
AmountsIn(some) == [id \in DOMAIN some |-> some[id].amount]
FundedIn(some) == Cardinality(Units(AmountsIn(some), FundingsIn(some)))

LEMMA FundedMeaning == Funded = FundedIn(polls) /\ Funded' = FundedIn(polls')
BY DEF Funded, FundedIn, WeightOf, Units, Passed, FundingsIn, AmountsIn

\* The tokens stay accounted for when they and the fundings that passed stay.
LEMMA SameFundings ==
    ASSUME TokensAccounted, tokens' = tokens, FundingsIn(polls') = FundingsIn(polls),
           \A id \in FundingsIn(polls) : polls'[id].amount = polls[id].amount
    PROVE  TokensAccounted'
<1>1. \A id \in FundingsIn(polls) : AmountsIn(polls')[id] = AmountsIn(polls)[id]
  BY DEF FundingsIn, AmountsIn
<1>2. Units(AmountsIn(polls'), FundingsIn(polls')) = Units(AmountsIn(polls), FundingsIn(polls))
  BY <1>1 DEF Units
<1>. QED
  BY <1>2, FundedMeaning DEF TokensAccounted, FundedIn

\* A funding that passes is paid out of the tokens.
LEMMA FundingPasses ==
    ASSUME DaoInv, TokensAccounted, NEW id \in DOMAIN polls,
           polls[id].status = "InProgress", polls[id].proposal = "DaoFunding",
           tokens' = tokens - polls[id].amount,
           FundingsIn(polls') = FundingsIn(polls) \cup {id},
           \A k \in FundingsIn(polls) \cup {id} :
               k \in DOMAIN polls' /\ polls'[k].amount = polls[k].amount
    PROVE  TokensAccounted'
<1> DEFINE some == FundingsIn(polls)
           weights == AmountsIn(polls)
<1>1. /\ polls \in [1..state.poll_count -> Poll] /\ state.poll_count \in Nat /\ tokens \in Nat
  BY StateParts DEF DaoInv, GovernanceTypeOK
<1>2. IsFiniteSet(some)
  <2>1. IsFiniteSet(1..state.poll_count)
    BY <1>1, FS_Interval
  <2>2. some \subseteq 1..state.poll_count
    BY <1>1 DEF FundingsIn
  <2>. QED
    BY <2>1, <2>2, FS_Subset
<1>3. id \notin some
  BY DEF FundingsIn
<1>4. \A k \in some \cup {id} : weights[k] \in Nat /\ weights[k] = polls[k].amount
  BY <1>1 DEF FundingsIn, AmountsIn, Poll
<1>5. \A k \in some \cup {id} : AmountsIn(polls')[k] = weights[k]
  BY <1>4 DEF AmountsIn
<1>6. Units(AmountsIn(polls'), FundingsIn(polls')) = Units(weights, some \cup {id})
  BY <1>5 DEF Units
<1> HIDE DEF some, weights
<1>7. Cardinality(Units(weights, some \cup {id})) =
          Cardinality(Units(weights, some)) + weights[id]
  BY <1>2, <1>3, <1>4, UnitsOfOneMore
<1>8. Cardinality(Units(weights, some)) \in Nat
  BY <1>2, <1>4, UnitsOfFinite
<1>9. Funded = Cardinality(Units(weights, some)) /\ Funded' = Funded + polls[id].amount
  BY <1>4, <1>6, <1>7, FundedMeaning DEF FundedIn, some, weights
<1>10. polls[id].amount \in Nat
  BY <1>1 DEF Poll
<1>11. tokens' + Funded' = tokens + Funded
  BY <1>1, <1>8, <1>9, <1>10
<1>. QED
  BY <1>11 DEF TokensAccounted

LEMMA TokensPresent ==
    ASSUME DaoInv, TokensAccounted, NEW id, HandlePresentProposal(id)
    PROVE  TokensAccounted'
<1>1. /\ id \in DOMAIN polls /\ polls[id].status = "InProgress"
      /\ PollRefused(id) \/ PollPasses(id)
  BY PresentCases
<1>2. /\ DOMAIN polls' = DOMAIN polls
      /\ polls'[id] = [polls[id] EXCEPT !.status =
                           IF PollPasses(id) THEN "Passed" ELSE "Rejected"]
      /\ \A k \in DOMAIN polls : k # id => polls'[k] = polls[k]
  BY <1>1, PresentStatus DEF DaoInv
<1>3. /\ polls'[id].status = IF PollPasses(id) THEN "Passed" ELSE "Rejected"
      /\ polls'[id].amount = polls[id].amount /\ polls'[id].proposal = polls[id].proposal
  BY <1>1, <1>2 DEF DaoInv, GovernanceTypeOK, Poll
<1>4. \A k \in DOMAIN polls : polls'[k].amount = polls[k].amount
  BY <1>2, <1>3
<1>5. CASE PollPasses(id) /\ polls[id].proposal = "DaoFunding"
  <2>1. FundingsIn(polls') = FundingsIn(polls) \cup {id}
    BY <1>1, <1>2, <1>3, <1>5 DEF FundingsIn
  <2>2. tokens' = tokens - polls[id].amount
    BY <1>5 DEF PollPasses, SendFunds
  <2>3. \A k \in FundingsIn(polls) \cup {id} :
            k \in DOMAIN polls' /\ polls'[k].amount = polls[k].amount
    BY <1>1, <1>2, <1>4 DEF FundingsIn
  <2>. QED
    BY <1>1, <1>5, <2>1, <2>2, <2>3, FundingPasses
<1>6. CASE ~(PollPasses(id) /\ polls[id].proposal = "DaoFunding")
  <2>1. FundingsIn(polls') = FundingsIn(polls)
    <3>1. id \notin FundingsIn(polls)
      BY <1>1 DEF FundingsIn
    <3>2. id \notin FundingsIn(polls')
      BY <1>3, <1>6 DEF FundingsIn
    <3>3. \A k : k # id => (k \in FundingsIn(polls') <=> k \in FundingsIn(polls))
      BY <1>2 DEF FundingsIn
    <3>. QED
      BY <3>1, <3>2, <3>3
  <2>2. tokens' = tokens
    BY <1>1, <1>6 DEF PollPasses, PollRefused, SendFunds
  <2>3. \A k \in FundingsIn(polls) : polls'[k].amount = polls[k].amount
    BY <1>4 DEF FundingsIn
  <2>. QED
    BY <2>1, <2>2, <2>3, SameFundings
<1>. QED
  BY <1>5, <1>6

LEMMA TokensStep ==
    DaoInv /\ TokensAccounted /\ [GovernanceNext]_governanceVars => TokensAccounted'
<1> SUFFICES ASSUME DaoInv, TokensAccounted, [GovernanceNext]_governanceVars
             PROVE  TokensAccounted'
  OBVIOUS
<1>1. polls \in [1..state.poll_count -> Poll]
  BY DEF DaoInv, GovernanceTypeOK
<1>2. ASSUME NEW sender \in Accounts, NEW terms \in PollMsgs, HandleProposal(sender, terms)
      PROVE  TokensAccounted'
  <2>1. PICK new : /\ new \notin DOMAIN polls
                   /\ DOMAIN polls' = DOMAIN polls \cup {new}
                   /\ polls'[new] = NewPoll(sender, terms)
                   /\ \A k \in DOMAIN polls : polls'[k] = polls[k]
                   /\ tokens' = tokens
    BY <1>2, ProposalAdds
  <2>2. polls'[new].status # "Passed"
    BY <2>1 DEF NewPoll
  <2>3. FundingsIn(polls') = FundingsIn(polls)
    BY <2>1, <2>2 DEF FundingsIn
  <2>. QED
    BY <2>1, <2>3, SameFundings DEF FundingsIn
<1>3. ASSUME NEW sender \in Accounts, NEW id \in 1..MaxPolls, NEW approve \in BOOLEAN,
             HandleVote(sender, id, approve)
      PROVE  TokensAccounted'
  <2>1. /\ id \in DOMAIN polls /\ tokens' = tokens
        /\ polls' = [polls EXCEPT ![id] = Tally(polls[id], approve, UserTotalWeight(sender))]
    BY <1>3 DEF HandleVote
  <2>2. \A k \in DOMAIN polls : /\ polls'[k].status = polls[k].status
                               /\ polls'[k].proposal = polls[k].proposal
                               /\ polls'[k].amount = polls[k].amount
    BY <1>1, <2>1 DEF Tally, Poll
  <2>3. FundingsIn(polls') = FundingsIn(polls)
    BY <1>1, <2>1, <2>2 DEF FundingsIn
  <2>. QED
    BY <2>1, <2>2, <2>3, SameFundings DEF FundingsIn
<1>4. ASSUME NEW sender \in Accounts, NEW id \in 1..MaxPolls, HandleRejectProposal(sender, id)
      PROVE  TokensAccounted'
  <2>1. /\ id \in DOMAIN polls /\ tokens' = tokens /\ polls[id].status = "InProgress"
        /\ polls' = [polls EXCEPT ![id].status = "RejectedByCreator", ![id].end_height = height]
    BY <1>4 DEF HandleRejectProposal
  <2>2. /\ DOMAIN polls' = DOMAIN polls /\ polls'[id].status = "RejectedByCreator"
        /\ \A k \in DOMAIN polls : k # id => polls'[k] = polls[k]
    BY <1>1, <2>1 DEF Poll
  <2>3. FundingsIn(polls') = FundingsIn(polls) /\ id \notin FundingsIn(polls)
    BY <2>1, <2>2 DEF FundingsIn
  <2>. QED
    BY <2>1, <2>2, <2>3, SameFundings DEF FundingsIn
<1>5. CASE QuietStep
  BY <1>5, SameFundings DEF QuietStep
<1>. QED
  BY <1>2, <1>3, <1>4, <1>5, TokensPresent, DaoCases

LEMMA TokensInit == GovernanceInit => TokensAccounted
<1> SUFFICES ASSUME GovernanceInit PROVE TokensAccounted
  OBVIOUS
<1>1. FundingsIn(polls) = {} /\ tokens \in InitTokens
  BY DEF GovernanceInit, EmptyMap, FundingsIn
<1>2. Units(AmountsIn(polls), FundingsIn(polls)) = {}
  BY <1>1 DEF Units
<1>3. Funded = 0
  BY <1>2, FundedMeaning, FS_EmptySet DEF FundedIn
<1>4. tokens \in Nat
  BY <1>1, GovernanceAssumption
<1>. QED
  BY <1>1, <1>3, <1>4 DEF TokensAccounted

\* Every token the contract started with is still there or was given by one funding
\* that passed, by the amount it asked for, however many were open at once.
THEOREM TokensAddUp == GovernanceSpec => []TokensAccounted
BY TokensInit, TokensStep, DaoInit, DaoStep, PTL DEF GovernanceSpec

-----------------------------------------------------------------------------
(* The parameters in force were voted. *)

\* What polls of a kind put in force grows: a passed poll stays as it passed.
LEMMA VotedGrow ==
    ASSUME DaoInv, [GovernanceNext]_governanceVars, NEW proposal
    PROVE  /\ Voted(proposal) \subseteq Voted(proposal)'
           /\ {polls[id].prize_rank : id \in Passed(proposal)}
                \subseteq {polls'[id].prize_rank : id \in Passed(proposal)'}
           /\ {polls[id].migration_address : id \in Passed(proposal)}
                \subseteq {polls'[id].migration_address : id \in Passed(proposal)'}
<1>1. \A id \in DOMAIN polls : polls[id].status = "Passed" =>
          id \in DOMAIN polls' /\ polls'[id] = polls[id]
  BY PollsFinalStep DEF FinalStep
<1>2. \A id \in Passed(proposal) : id \in Passed(proposal)' /\ polls'[id] = polls[id]
  BY <1>1 DEF Passed
<1>. QED
  BY <1>2 DEF Voted

\* What ParametersWereVoted asks of a State after a step.
InForceNext(new) ==
    /\ new.every_block_time_play \in
           InitPlayEvery \cup {AsU64(a) : a \in Voted("LotteryEveryBlockTime")'}
    /\ new.jackpot_percentage_reward \in
           {20} \cup {AsU8(a) : a \in Voted("JackpotRewardPercentage")'}
    /\ new.fee_for_drand_worker_in_percentage \in
           {1} \cup {AsU8(a) : a \in Voted("DrandWorkerFeePercentage")'}
    /\ new.token_holder_percentage_fee_reward \in
           {20, 50} \cup {AsU8(a) : a \in Voted("HolderFeePercentage")'}
    /\ new.price_per_ticket_to_register \in
           {1000000} \cup Voted("AmountToRegister")'
    /\ new.prize_rank_winner_percentage \in
           {<<87, 10, 2, 1>>} \cup {polls'[id].prize_rank : id \in Passed("PrizePerRank")'}
    /\ new.loterra_staking_contract_address \in
           StakingContracts
           \cup {polls'[id].migration_address : id \in Passed("StakingContractMigration")'}

LEMMA InForceMeaning == InForceNext(state') => ParametersWereVoted'
BY DEF InForceNext, ParametersWereVoted, AsU8, AsU64

\* What was in force before a step stays justified after it.
LEMMA InForceStays ==
    ASSUME DaoInv, ParametersWereVoted, [GovernanceNext]_governanceVars
    PROVE  InForceNext(state)
<1>1. /\ {AsU64(a) : a \in Voted("LotteryEveryBlockTime")}
            \subseteq {AsU64(a) : a \in Voted("LotteryEveryBlockTime")'}
      /\ {AsU8(a) : a \in Voted("JackpotRewardPercentage")}
            \subseteq {AsU8(a) : a \in Voted("JackpotRewardPercentage")'}
      /\ {AsU8(a) : a \in Voted("DrandWorkerFeePercentage")}
            \subseteq {AsU8(a) : a \in Voted("DrandWorkerFeePercentage")'}
      /\ {AsU8(a) : a \in Voted("HolderFeePercentage")}
            \subseteq {AsU8(a) : a \in Voted("HolderFeePercentage")'}
      /\ Voted("AmountToRegister") \subseteq Voted("AmountToRegister")'
  BY VotedGrow
<1>2. /\ {polls[id].prize_rank : id \in Passed("PrizePerRank")}
            \subseteq {polls'[id].prize_rank : id \in Passed("PrizePerRank")'}
      /\ {polls[id].migration_address : id \in Passed("StakingContractMigration")}
            \subseteq {polls'[id].migration_address : id \in Passed("StakingContractMigration")'}
  BY VotedGrow
<1>3. state.every_block_time_play \in
          InitPlayEvery \cup {AsU64(a) : a \in Voted("LotteryEveryBlockTime")'}
  BY <1>1 DEF ParametersWereVoted
<1>4. state.jackpot_percentage_reward \in
          {20} \cup {AsU8(a) : a \in Voted("JackpotRewardPercentage")'}
  BY <1>1 DEF ParametersWereVoted
<1>5. state.fee_for_drand_worker_in_percentage \in
          {1} \cup {AsU8(a) : a \in Voted("DrandWorkerFeePercentage")'}
  BY <1>1 DEF ParametersWereVoted
<1>6. state.token_holder_percentage_fee_reward \in
          {20, 50} \cup {AsU8(a) : a \in Voted("HolderFeePercentage")'}
  BY <1>1 DEF ParametersWereVoted
<1>7. state.price_per_ticket_to_register \in {1000000} \cup Voted("AmountToRegister")'
  BY <1>1 DEF ParametersWereVoted
<1>8. state.prize_rank_winner_percentage \in
          {<<87, 10, 2, 1>>} \cup {polls'[id].prize_rank : id \in Passed("PrizePerRank")'}
  <2>1. state.prize_rank_winner_percentage \in
            {<<87, 10, 2, 1>>} \cup {polls[id].prize_rank : id \in Passed("PrizePerRank")}
    BY DEF ParametersWereVoted
  <2>. QED
    BY <1>2, <2>1
<1>9. state.loterra_staking_contract_address \in
          StakingContracts
          \cup {polls'[id].migration_address : id \in Passed("StakingContractMigration")'}
  <2>1. state.loterra_staking_contract_address \in
            StakingContracts
            \cup {polls[id].migration_address : id \in Passed("StakingContractMigration")}
    BY DEF ParametersWereVoted
  <2>. QED
    BY <1>2, <2>1
<1>. QED
  BY <1>3, <1>4, <1>5, <1>6, <1>7, <1>8, <1>9 DEF InForceNext

\* A poll that passes changes one field of the State.
ChangesOnly(new, field) ==
    /\ field # "every_block_time_play" =>
           new.every_block_time_play = state.every_block_time_play
    /\ field # "jackpot_percentage_reward" =>
           new.jackpot_percentage_reward = state.jackpot_percentage_reward
    /\ field # "fee_for_drand_worker_in_percentage" =>
           new.fee_for_drand_worker_in_percentage = state.fee_for_drand_worker_in_percentage
    /\ field # "token_holder_percentage_fee_reward" =>
           new.token_holder_percentage_fee_reward = state.token_holder_percentage_fee_reward
    /\ field # "price_per_ticket_to_register" =>
           new.price_per_ticket_to_register = state.price_per_ticket_to_register
    /\ field # "prize_rank_winner_percentage" =>
           new.prize_rank_winner_percentage = state.prize_rank_winner_percentage
    /\ field # "loterra_staking_contract_address" =>
           new.loterra_staking_contract_address = state.loterra_staking_contract_address

LEMMA VotedPassing ==
    ASSUME DaoInv, ParametersWereVoted, [GovernanceNext]_governanceVars,
           NEW id \in DOMAIN polls, PollPasses(id)
    PROVE  ParametersWereVoted'
<1> DEFINE poll == polls[id]
<1>1. GovernanceTypeOK /\ poll \in Poll /\ state \in State
  BY DEF DaoInv, GovernanceTypeOK
<1>2. /\ state' = Amended(poll)
      /\ polls' = [polls EXCEPT ![id] = [poll EXCEPT !.status = "Passed"]]
  BY DEF PollPasses
<1>3. /\ id \in DOMAIN polls'
      /\ polls'[id].status = "Passed"
      /\ polls'[id].proposal = poll.proposal
      /\ polls'[id].amount = poll.amount
      /\ polls'[id].prize_rank = poll.prize_rank
      /\ polls'[id].migration_address = poll.migration_address
  BY <1>1, <1>2 DEF Poll
<1>4. ASSUME NEW kind, poll.proposal = kind
      PROVE  id \in Passed(kind)' /\ poll.amount \in Voted(kind)'
  BY <1>3, <1>4 DEF Passed, Voted
<1>13. InForceNext(state)
  BY InForceStays
<1> HIDE DEF poll
<1>5. CASE state' = state
  BY <1>5, <1>13, InForceMeaning
<1>6. CASE poll.proposal = "LotteryEveryBlockTime"
  <2>1. state' = [state EXCEPT !.every_block_time_play = AsU64(poll.amount)]
    BY <1>2, <1>6 DEF Amended
  <2>2. state'.every_block_time_play = AsU64(poll.amount) /\ ChangesOnly(state', "every_block_time_play")
    BY <1>1, <2>1 DEF State, ChangesOnly
  <2>3. AsU64(poll.amount) \in {AsU64(a) : a \in Voted("LotteryEveryBlockTime")'}
    BY <1>4, <1>6
  <2>4. InForceNext(state')
    BY <1>13, <2>2, <2>3 DEF InForceNext, ChangesOnly
  <2>. QED
    BY <2>4, InForceMeaning
<1>7. CASE poll.proposal = "DrandWorkerFeePercentage"
  <2>1. state' = [state EXCEPT !.fee_for_drand_worker_in_percentage = AsU8(poll.amount)]
    BY <1>2, <1>7 DEF Amended
  <2>2. state'.fee_for_drand_worker_in_percentage = AsU8(poll.amount) /\ ChangesOnly(state', "fee_for_drand_worker_in_percentage")
    BY <1>1, <2>1 DEF State, ChangesOnly
  <2>3. AsU8(poll.amount) \in {AsU8(a) : a \in Voted("DrandWorkerFeePercentage")'}
    BY <1>4, <1>7
  <2>4. InForceNext(state')
    BY <1>13, <2>2, <2>3 DEF InForceNext, ChangesOnly
  <2>. QED
    BY <2>4, InForceMeaning
<1>8. CASE poll.proposal = "JackpotRewardPercentage"
  <2>1. state' = [state EXCEPT !.jackpot_percentage_reward = AsU8(poll.amount)]
    BY <1>2, <1>8 DEF Amended
  <2>2. state'.jackpot_percentage_reward = AsU8(poll.amount) /\ ChangesOnly(state', "jackpot_percentage_reward")
    BY <1>1, <2>1 DEF State, ChangesOnly
  <2>3. AsU8(poll.amount) \in {AsU8(a) : a \in Voted("JackpotRewardPercentage")'}
    BY <1>4, <1>8
  <2>4. InForceNext(state')
    BY <1>13, <2>2, <2>3 DEF InForceNext, ChangesOnly
  <2>. QED
    BY <2>4, InForceMeaning
<1>9. CASE poll.proposal = "HolderFeePercentage"
  <2>1. state' = [state EXCEPT !.token_holder_percentage_fee_reward = AsU8(poll.amount)]
    BY <1>2, <1>9 DEF Amended
  <2>2. state'.token_holder_percentage_fee_reward = AsU8(poll.amount) /\ ChangesOnly(state', "token_holder_percentage_fee_reward")
    BY <1>1, <2>1 DEF State, ChangesOnly
  <2>3. AsU8(poll.amount) \in {AsU8(a) : a \in Voted("HolderFeePercentage")'}
    BY <1>4, <1>9
  <2>4. InForceNext(state')
    BY <1>13, <2>2, <2>3 DEF InForceNext, ChangesOnly
  <2>. QED
    BY <2>4, InForceMeaning
<1>10. CASE poll.proposal = "AmountToRegister"
  <2>1. state' = [state EXCEPT !.price_per_ticket_to_register = poll.amount]
    BY <1>2, <1>10 DEF Amended
  <2>2. state'.price_per_ticket_to_register = poll.amount /\ ChangesOnly(state', "price_per_ticket_to_register")
    BY <1>1, <2>1 DEF State, ChangesOnly
  <2>3. poll.amount \in Voted("AmountToRegister")'
    BY <1>4, <1>10
  <2>4. InForceNext(state')
    BY <1>13, <2>2, <2>3 DEF InForceNext, ChangesOnly
  <2>. QED
    BY <2>4, InForceMeaning
<1>11. CASE poll.proposal = "PrizePerRank"
  <2>1. state' = [state EXCEPT !.prize_rank_winner_percentage = poll.prize_rank]
    BY <1>2, <1>11 DEF Amended
  <2>2. state'.prize_rank_winner_percentage = poll.prize_rank /\ ChangesOnly(state', "prize_rank_winner_percentage")
    BY <1>1, <2>1 DEF State, ChangesOnly
  <2>3. poll.prize_rank \in {polls'[k].prize_rank : k \in Passed("PrizePerRank")'}
    BY <1>3, <1>4, <1>11
  <2>4. InForceNext(state')
    BY <1>13, <2>2, <2>3 DEF InForceNext, ChangesOnly
  <2>. QED
    BY <2>4, InForceMeaning
<1>12. CASE poll.proposal = "StakingContractMigration"
  <2>1. state' = [state EXCEPT !.loterra_staking_contract_address = poll.migration_address]
    BY <1>2, <1>12 DEF Amended
  <2>2. state'.loterra_staking_contract_address = poll.migration_address /\ ChangesOnly(state', "loterra_staking_contract_address")
    BY <1>1, <2>1 DEF State, ChangesOnly
  <2>3. poll.migration_address \in {polls'[k].migration_address : k \in Passed("StakingContractMigration")'}
    BY <1>3, <1>4, <1>12
  <2>4. InForceNext(state')
    BY <1>13, <2>2, <2>3 DEF InForceNext, ChangesOnly
  <2>. QED
    BY <2>4, InForceMeaning
<1>. QED
  BY <1>2, <1>5, <1>6, <1>7, <1>8, <1>9, <1>10, <1>11, <1>12 DEF Amended

LEMMA VotedStep ==
    DaoInv /\ ParametersWereVoted /\ [GovernanceNext]_governanceVars => ParametersWereVoted'
<1>1. SUFFICES ASSUME DaoInv, ParametersWereVoted, [GovernanceNext]_governanceVars
               PROVE  ParametersWereVoted'
  OBVIOUS
<1>2. ParametersKept => ParametersWereVoted'
  BY <1>1, InForceStays, InForceMeaning DEF ParametersKept, InForceNext
<1>3. ASSUME NEW id \in 1..MaxPolls, HandlePresentProposal(id) PROVE ParametersWereVoted'
  <2>1. id \in DOMAIN polls /\ (PollRefused(id) \/ PollPasses(id))
    BY <1>3, PresentCases
  <2>2. CASE PollRefused(id)
    BY <1>2, <2>2 DEF PollRefused, ParametersKept
  <2>3. CASE PollPasses(id)
    BY <1>1, <2>1, <2>3, VotedPassing
  <2>. QED
    BY <2>1, <2>2, <2>3
<1>4. ASSUME NEW sender \in Accounts, NEW id \in 1..MaxPolls, NEW approve \in BOOLEAN,
             HandleVote(sender, id, approve) \/ HandleRejectProposal(sender, id)
      PROVE  ParametersKept
  BY <1>4 DEF HandleVote, HandleRejectProposal, ParametersKept
<1>5. ASSUME NEW sender \in Accounts, NEW terms \in PollMsgs, HandleProposal(sender, terms)
      PROVE  ParametersKept
  BY <1>1, <1>5, ProposalAdds
<1>. QED
  BY <1>1, <1>2, <1>3, <1>4, <1>5, DaoCases DEF QuietStep

\* Every parameter in force was put there by instantiate or by a passed poll of its
\* own kind, whatever the polls and the order they pass in.
THEOREM ParametersComeFromPolls == GovernanceSpec => []ParametersWereVoted
<1>1. GovernanceInit => ParametersWereVoted
  BY DEF GovernanceInit, StateInit, Instantiated, ParametersWereVoted
<1>. QED
  BY <1>1, DaoInit, DaoStep, VotedStep, PTL DEF GovernanceSpec


-----------------------------------------------------------------------------
(* The handlers implement the referendum. *)

LEMMA OutcomeOf ==
    /\ DOMAIN Outcome = DOMAIN polls
    /\ \A id \in DOMAIN polls :
           /\ polls[id].status = "InProgress" => Outcome[id] = "open"
           /\ polls[id].status = "Passed" => Outcome[id] = "passed"
           /\ polls[id].status \in {"Rejected", "RejectedByCreator"} => Outcome[id] = "failed"
BY DEF Outcome

\* The referendum's cardinality is this module's.
LEMMA SameCardinality == ASSUME NEW S PROVE Abstract!Cardinality(S) = Cardinality(S)
BY Zenon DEF Abstract!Cardinality, Cardinality

\* Recounting the ballots is counting the votes with the weights they were cast with.
LEMMA RecountMeaning ==
    ASSUME NEW id, NEW approve
    PROVE  Abstract!Recount(id, approve) = CastWeight(id, approve)
<1>1. Abstract!BallotsFor(id, approve) = Voters(id, approve)
  BY DEF Abstract!BallotsFor, Voters, CastBallots
<1>2. \A account \in Voters(id, approve) :
          CastBallots[<<id, account>>].weight = cast[<<id, account>>]
  BY DEF Voters, CastBallots
<1>3. Abstract!BallotUnits(id, Voters(id, approve)) = CastUnits(id, Voters(id, approve))
  BY <1>2 DEF Abstract!BallotUnits, CastUnits
<1>. QED
  BY <1>1, <1>3, SameCardinality DEF Abstract!Recount, CastWeight

LEMMA ProposalPropose ==
    ASSUME DaoInv, NEW sender \in Accounts, NEW terms \in PollMsgs, HandleProposal(sender, terms)
    PROVE  Abstract!ReferendumNext
<1> DEFINE id == state.poll_count + 1
<1>1. /\ id \in 1..MaxPolls /\ id \notin DOMAIN polls
      /\ DOMAIN polls' = DOMAIN polls \cup {id}
      /\ polls'[id] = NewPoll(sender, terms)
      /\ \A k \in DOMAIN polls : polls'[k] = polls[k]
      /\ votes' = votes /\ cast' = cast
  BY ProposalAdds
<1> HIDE DEF id
<1>2. NewPoll(sender, terms).status = "InProgress"
  BY DEF NewPoll
<1>3. Outcome' = [i \in DOMAIN Outcome \cup {id} |-> IF i = id THEN "open" ELSE Outcome[i]]
  <2>1. Outcome' = [k \in DOMAIN polls \cup {id} |->
                       IF polls'[k].status = "InProgress" THEN "open"
                       ELSE IF polls'[k].status = "Passed" THEN "passed" ELSE "failed"]
    BY <1>1 DEF Outcome
  <2>2. Outcome'[id] = "open"
    BY <1>1, <1>2, <2>1
  <2>3. \A k \in DOMAIN polls : Outcome'[k] = Outcome[k]
    BY <1>1, <2>1 DEF Outcome
  <2>4. DOMAIN Outcome = DOMAIN polls /\ DOMAIN Outcome' = DOMAIN polls \cup {id}
        /\ Outcome' = [k \in DOMAIN Outcome' |-> Outcome'[k]]
    BY <2>1 DEF Outcome
  <2>. QED
    BY <1>1, <2>2, <2>3, <2>4
<1>4. CastBallots' = CastBallots
  BY <1>1 DEF CastBallots
<1>5. Abstract!Propose(id)
  BY <1>1, <1>3, <1>4, OutcomeOf DEF Abstract!Propose
<1>. QED
  BY <1>1, <1>5 DEF Abstract!ReferendumNext

LEMMA VoteCast ==
    ASSUME DaoInv, NEW sender \in Accounts, NEW id \in 1..MaxPolls, NEW approve \in BOOLEAN,
           HandleVote(sender, id, approve)
    PROVE  Abstract!ReferendumNext
<1> DEFINE w == UserTotalWeight(sender)
           key == <<id, sender>>
<1>1. /\ id \in DOMAIN polls /\ polls[id].status = "InProgress" /\ key \notin DOMAIN votes
      /\ votes' = Save(votes, key, approve)
      /\ cast' = Save(cast, key, w)
      /\ polls' = [polls EXCEPT ![id] = Tally(polls[id], approve, w)]
  BY DEF HandleVote, HasVoted
<1>2. w \in Nat \ {0} /\ \A k \in DOMAIN polls : polls[k] \in Poll
  BY DEF DaoInv, GovernanceTypeOK, UserTotalWeight, HandleVote, StakingAnswers
<1> HIDE DEF w, key
<1>3. DOMAIN polls' = DOMAIN polls /\ \A k \in DOMAIN polls : polls'[k].status = polls[k].status
  <2>1. Tally(polls[id], approve, w).status = polls[id].status
    BY <1>1, <1>2 DEF Tally, Poll
  <2>. QED
    BY <1>1, <2>1
<1>4. Outcome' = Outcome
  BY <1>3 DEF Outcome
<1>5. /\ DOMAIN CastBallots' = DOMAIN CastBallots \cup {key}
      /\ key \notin DOMAIN CastBallots
      /\ CastBallots'[key] = [approve |-> approve, weight |-> w]
      /\ \A k \in DOMAIN CastBallots : CastBallots'[k] = CastBallots[k]
  <2>1. DOMAIN votes' = DOMAIN votes \cup {key} /\ votes'[key] = approve /\ cast'[key] = w
    BY <1>1 DEF Save
  <2>2. /\ DOMAIN CastBallots = DOMAIN votes /\ DOMAIN CastBallots' = DOMAIN votes'
        /\ \A k \in DOMAIN votes : CastBallots[k] = [approve |-> votes[k], weight |-> cast[k]]
        /\ \A k \in DOMAIN votes' : CastBallots'[k] = [approve |-> votes'[k], weight |-> cast'[k]]
    BY DEF CastBallots
  <2>3. \A k \in DOMAIN votes : votes'[k] = votes[k] /\ cast'[k] = cast[k]
    <3>1. DOMAIN cast = DOMAIN votes
      BY DEF DaoInv, GovernanceTypeOK
    <3>. QED
      BY <1>1, <3>1 DEF Save
  <2>4. CastBallots'[key] = [approve |-> votes'[key], weight |-> cast'[key]]
    BY <2>1, <2>2
  <2>5. CastBallots'[key] = [approve |-> approve, weight |-> w]
    BY <2>1, <2>4, Zenon
  <2>6. \A k \in DOMAIN votes : CastBallots'[k] = CastBallots[k]
    BY <2>1, <2>2, <2>3
  <2>. QED
    BY <1>1, <2>1, <2>2, <2>5, <2>6
<1>6. CastBallots' = [k \in DOMAIN CastBallots' |->
                         IF k = key THEN CastBallots'[key] ELSE CastBallots[k]]
  <2>1. CastBallots' = [k \in DOMAIN CastBallots' |-> CastBallots'[k]]
    BY DEF CastBallots
  <2>. QED
    BY <1>5, <2>1
<1>7. CastBallots'[key] \in Abstract!Ballot
  BY <1>2, <1>5 DEF Abstract!Ballot
<1>8. Outcome[id] = "open" /\ id \in DOMAIN Outcome
  BY <1>1, OutcomeOf
<1>9. Abstract!Cast(id, sender)
  BY <1>4, <1>5, <1>6, <1>7, <1>8 DEF Abstract!Cast, key
<1>. QED
  BY <1>9 DEF Abstract!ReferendumNext

\* A step that closes one poll and casts nothing settles it.
LEMMA ClosingSettles ==
    ASSUME NEW id \in 1..MaxPolls, id \in DOMAIN polls, polls[id].status = "InProgress",
           DOMAIN polls' = DOMAIN polls,
           \A k \in DOMAIN polls : k # id => polls'[k] = polls[k],
           \/ polls'[id].status \in {"Rejected", "RejectedByCreator"}
           \/ polls'[id].status = "Passed" /\ Abstract!Carried(id),
           UNCHANGED <<votes, cast>>
    PROVE  Abstract!ReferendumNext
<1> DEFINE result == IF polls'[id].status = "Passed" THEN "passed" ELSE "failed"
<1>1. Outcome' = [Outcome EXCEPT ![id] = result]
  <2>1. Outcome'[id] = result /\ DOMAIN Outcome' = DOMAIN Outcome
    BY DEF Outcome
  <2>2. \A k \in DOMAIN polls : k # id => Outcome'[k] = Outcome[k]
    BY DEF Outcome
  <2>3. /\ Outcome = [k \in DOMAIN polls |-> Outcome[k]]
        /\ Outcome' = [k \in DOMAIN polls |-> Outcome'[k]]
    BY DEF Outcome
  <2> HIDE DEF result
  <2>. QED
    BY <2>1, <2>2, <2>3
<1>2. CastBallots' = CastBallots
  BY DEF CastBallots
<1>3. Outcome[id] = "open" /\ id \in DOMAIN Outcome
  BY OutcomeOf
<1>4. result = "passed" => Abstract!Carried(id)
  OBVIOUS
<1>5. result \in {"passed", "failed"}
  OBVIOUS
<1> HIDE DEF result
<1>6. Abstract!Settle(id, result)
  BY <1>1, <1>2, <1>3, <1>4 DEF Abstract!Settle
<1>. QED
  BY <1>5, <1>6 DEF Abstract!ReferendumNext

LEMMA ReferendumStep ==
    DaoInv /\ TalliesMatchVotes /\ [GovernanceNext]_governanceVars
        => [Abstract!ReferendumNext]_<<Outcome, CastBallots>>
<1>1. SUFFICES ASSUME DaoInv, TalliesMatchVotes, [GovernanceNext]_governanceVars
               PROVE  [Abstract!ReferendumNext]_<<Outcome, CastBallots>>
  OBVIOUS
<1>2. \A id \in DOMAIN polls : polls[id] \in Poll
  BY <1>1 DEF DaoInv, GovernanceTypeOK
<1>3. CASE QuietStep
  <2>1. Outcome' = Outcome
    BY <1>3 DEF QuietStep, Outcome
  <2>2. CastBallots' = CastBallots
    BY <1>3 DEF QuietStep, CastBallots
  <2>. QED
    BY <2>1, <2>2
<1>4. ASSUME NEW sender \in Accounts, NEW terms \in PollMsgs, HandleProposal(sender, terms)
      PROVE  Abstract!ReferendumNext
  BY <1>1, <1>4, ProposalPropose
<1>5. ASSUME NEW sender \in Accounts, NEW id \in 1..MaxPolls, NEW approve \in BOOLEAN,
             HandleVote(sender, id, approve)
      PROVE  Abstract!ReferendumNext
  BY <1>1, <1>5, VoteCast
<1>6. ASSUME NEW sender \in Accounts, NEW id \in 1..MaxPolls, HandleRejectProposal(sender, id)
      PROVE  Abstract!ReferendumNext
  <2>1. /\ id \in DOMAIN polls /\ polls[id] \in Poll /\ polls[id].status = "InProgress"
        /\ polls' = [polls EXCEPT ![id].status = "RejectedByCreator", ![id].end_height = height]
        /\ UNCHANGED <<votes, cast>>
    BY <1>2, <1>6 DEF HandleRejectProposal
  <2>2. /\ polls'[id].status = "RejectedByCreator"
        /\ \A k \in DOMAIN polls : k # id => polls'[k] = polls[k]
        /\ DOMAIN polls' = DOMAIN polls
    BY <2>1 DEF Poll
  <2>. QED
    BY <2>1, <2>2, ClosingSettles
<1>7. ASSUME NEW id \in 1..MaxPolls, HandlePresentProposal(id)
      PROVE  Abstract!ReferendumNext
  <2>1. /\ id \in DOMAIN polls /\ (PollRefused(id) \/ PollPasses(id)) /\ polls[id] \in Poll
        /\ polls[id].status = "InProgress" /\ UNCHANGED <<votes, cast>>
    BY <1>2, <1>7, PresentCases
  <2>2. /\ DOMAIN polls' = DOMAIN polls
        /\ polls'[id].status = IF PollPasses(id) THEN "Passed" ELSE "Rejected"
        /\ \A k \in DOMAIN polls : k # id => polls'[k] = polls[k]
    BY <1>1, <2>1, PresentStatus DEF DaoInv
  <2>3. PollPasses(id) => Abstract!Carried(id)
    <3>1. PollPasses(id) => CarriedPoll(polls[id])
      BY <2>1, ApprovedCarries DEF PollPasses
    <3>2. /\ polls[id].weight_yes_vote = Abstract!Recount(id, TRUE)
          /\ polls[id].weight_no_vote = Abstract!Recount(id, FALSE)
      BY <1>1, <2>1, RecountMeaning DEF TalliesMatchVotes
    <3>. QED
      BY <3>1, <3>2 DEF CarriedPoll, Abstract!Carried
  <2>. QED
    BY <2>1, <2>2, <2>3, ClosingSettles
<1>. QED
  BY <1>1, <1>3, <1>4, <1>5, <1>6, <1>7, DaoCases

\* The DAO implements the referendum: every handler proposes, casts or settles one
\* poll of it, or leaves it alone.
THEOREM DaoIsReferendum == GovernanceSpec => ImplementsReferendum
<1>1. GovernanceInit => Abstract!ReferendumInit
  BY DEF GovernanceInit, EmptyMap, Outcome, CastBallots, Abstract!ReferendumInit
<1>. QED
  BY <1>1, DaoInit, DaoStep, TallyInit, TallyStep, ReferendumStep, PTL
     DEF GovernanceSpec, ImplementsReferendum, Abstract!ReferendumSpec

=============================================================================
