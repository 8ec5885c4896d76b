# LoTerra: TLA+ models, checks and proofs

LoTerra is a lottery run by one CosmWasm contract on Terra and governed by a DAO of
its stakers. These modules model the contract (`src/src/*.rs`), TLC checks them on
small instances, and TLAPS proves the properties that matter most for every value of
the constants.

    tlc -config lottery_round.cfg MCLottery     # and the other .cfg files
    tlapm LoterraProofs.tla                     # and the other *Proofs.tla files

## 1. Inventory

The whole system is one contract. A transaction runs one handler to its end; a
handler that fails leaves nothing behind. What is concurrent is the *order* of
the transactions of many accounts, the block time and height they run at, and the
other contracts they depend on.

| Part | State | Operations | What makes it correct |
| --- | --- | --- | --- |
| Lottery (`contract.rs` 134-606, `state.rs` 84-216) | tickets, players, counters, winning combination, jackpot, winners and rank counts, each per lottery | register, play, claim, collect | tickets are sold before the randomness is known; rank counts are the winning tickets claimed; each winner is paid once; prizes stay within the jackpot and the jackpot within the balance; a settled lottery never changes; a lottery keeps being playable |
| Contract state and admin (`contract.rs` 33-132) | the `State` item: admin, switch, times, percentages, price, counters | instantiate, safe_lock, renounce | a renounced contract is not locked |
| Combinations (`helpers.rs` 9-30, `contract.rs` 273-281, 422-429) | none | is_lower_hex, count_match, cut of the winning combination, rank | only well-formed tickets reach count_match, which would panic on a short one |
| Taxation (`taxation.rs`) | none | compute_tax, deduct_tax | a coin and its tax fit in the amount set aside, and nothing more is withheld |
| DAO polls (`contract.rs` 608-1150, `helpers.rs` 32-109) | polls, votes, weights | proposal, vote, reject, present and its ten effects | one vote per account; tallies are the votes cast; a poll is decided once, by stake, and early only with half of the stake; its effect is the one proposed and within its bound; money leaves only by a poll |
| Entry points (`contract.rs` 33-95, 1152-1180, `msg.rs`) | none of their own | execute, query | every message reaches its handler, optional addresses stand for the sender |
| Queries (`contract.rs` 1181-1306) | none | read only | answers fit together; the announced round is the one the next play draws from |
| External: Terrand, drand, staking contract, cw20 token, Terra bank | randomness by round; stakes; token and coin balances | queried or called by the contract | assumptions, listed in section 5 |

Interactions. Play asks Terrand for the round that `query_round` told the worker
to bring, and pays that worker. Collect pays the winner and, in the same
transaction, sends the holders' share to the staking contract; if either message
fails everything is reverted. Votes and presentations ask the staking contract for
weights, funding polls ask the cw20 token for the contract's balance. All handlers
read the percentages, the price, the period and the staking address from one shared
state, which a passed poll changes at any moment of a lottery.

What is hard. The windows of a lottery are computed from `block_time_play`, which
play moves, and `every_block_time_play`, which a poll moves. Claims of different
players keep moving the rank counts that prizes are divided by, and a poll can change
the split between two payments. Collect compares the balance with the whole jackpot.
A vote weighs what is bonded when it is cast, a quorum is measured by what is bonded
when the poll is presented, and only the first page of holders is counted. Amounts
are cast to u8 and u64. The chain rounds taxes one way and the contract the other.
Nobody is obliged to call play or present. `PROJECT.json` lists every such hazard with
its line and the properties that cover it, or the reason none does.

## 2. Modules

| Module | Models | Kind |
| --- | --- | --- |
| `Combination` | strings, tickets, matches, ranks | pure operators |
| `Taxation` | deduct_tax and the chain's tax | pure operators |
| `LoterraState` | `State`, balance, accounts, storage maps, the admin handlers | shared state and actions |
| `Lottery` | register, play, claim, collect, with the chain and Terrand around them | state machine |
| `ClaimList` | the loop of a claim over its list of addresses, compared with the claims `Lottery` writes at once | reference check |
| `Governance` | proposal, vote, reject, present with every effect, with stakes, tokens and heights | state machine |
| `Loterra` | `Lottery` and `Governance` over one `State` behind `execute` | composition |
| `Queries` | `query` and its answers | pure operators on the state |
| `Raffle` | what the prizes promise: each pot is settled once and serves each player once | abstract specification |
| `Referendum` | what the polls promise: each is settled once, by its ballots | abstract specification |
| `MCLottery`, `MCGovernance`, `MCLoterra` | instances for TLC | model values and bounds |
| `MCTaxation` | every amount under several rates and caps | reference check |
| `TaxationProofs`, `MCTaxationProofs` | the tax is covered and the coin as large as it can be, for any rates, caps and amounts | proofs |
| `LoterraStateProofs` | percentages, finite accounts, spending, the shared state | proofs |
| `LotteryProofs` | types, sale before publication, fresh rounds, renouncing, tickets and their counters | proofs |
| `LotteryPrizeProofs` | rank counts, accounting of prizes, what a collection is refused for and that nothing refuses it under the first terms, jackpot and balance, finality of results, refinement of `Raffle` | proofs |
| `GovernanceProofs` | types, tallies, decisions, parameters, funds, refinement of `Referendum` | proofs |
| `LoterraProofs` | the lottery's theorems when polls change its terms, the DAO's while the lottery goes on, where money goes | proofs |
| `QueriesProofs` | the announced round, and answers that fit together | proofs |

`Loterra` EXTENDS `Lottery` and `Governance`, which both EXTEND `LoterraState`: the
composition shares the variables `state` and `balance` and calls the same handlers.

### How the state corresponds to the code

The variables of `Lottery` are the storage items of `state.rs`: `tickets` is
`PREFIXED_USER_COMBINATION`, `players` is `ALL_USER_COMBINATION`, `count_players`,
`count_tickets`, `winning`, `jackpot`, `winner` and `rank` are the maps of those
names. Those of `Governance` are `polls` (`POLL`) and `votes`
(`PREFIXED_POLL_VOTE`). A map is a function whose domain is the set of keys saved so
far, so `may_load` and `load` differ as they do in the code; keys are pairs of the
lottery or poll number and an account or a rank. `state` is the `State` record without
the fields no handler assigns, which are constants. `balance` is what the bank query
answers, `tokens` what the cw20 token does, `stake` what the staking contract of each
address does.

`now` is the block time (nanoseconds when `NANOS_PER_SECOND` says so), `height` the
block height and `randomness` is Terrand's store. Four variables are history, read by
no handler: `paid`, the prizes handed out per lottery; `reopened`, the lotteries whose
shares changed after a first prize was paid, by a claim or by a new split; `cast`, the
weight each vote had when it was cast; `incidents`, what befell a lottery's terms (a
poll on the period, a pot of more than half of the balance, a migration of the money).

A winner's `ranks` vector is kept as the number of times each rank occurs in it:
prizes depend on nothing else. The claim loop over addresses and tickets and
`save_winner`, called once per winning ticket, become one update of both maps in
`Lottery`; `ClaimList` has the loop itself, and `ListedOnceClaimed` says that it leaves
the same in storage for every list, with addresses named twice.

Each action is a handler from its first check to its last message. An error path is
the absence of the action: the chain reverts it. The message a handler returns is
part of its action, with what can make it fail as a guard: a coin of amount zero
(`Sendable`), a balance that does not cover it, a staking contract that does not
answer (`StakingContracts`), a recipient that is no address (`Malformed`). A presented
poll either becomes `Rejected` or passes with its effect; when its message cannot be
sent, there is no step and it stays in progress.

## 3. What TLC checks

| Run | Question |
| --- | --- |
| `lottery_round` | One lottery, two players, up to three tickets bought in batches of up to two, three hashes under which the tickets win ranks 1 and 2, 4 and 3, or nothing. Do all orders of purchases, claims (by anybody, for any list of accounts) and collections keep the counts, ranks and money right, and is a winner that calls in the window ever refused? |
| `lottery_rounds` | Several lotteries in a row, donations, blocks one or two seconds apart, the owner locking, unlocking and renouncing at any time. Can a ticket be sold late, a round decide twice, a settled lottery change, a winner be paid twice, the contract be locked for good? Is it a `Raffle`? |
| `taxation` | Amounts 0 to 60, eight rates up to 150%, five caps. Is the coin deduct_tax leaves covered, and the largest possible up to one unit? |
| `dao_votes` | One poll, three accounts whose stakes move between 0, 1 and 2, two of them on the page of holders. Are the tallies the votes, the decision the stake's, an early decision backed by what its voters still have bonded? Is it a `Referendum`? |
| `dao_effects` | Two polls side by side out of fifteen, on parameters (some out of range or past a u8), tokens, money and the staking contract, while the owner may renounce. Does a parameter hold only what a passed poll of its kind gave it? Are tokens paid out by the fundings that pass, in full and once? Are privileged polls the owner's, and is a decided poll left alone? |
| `dao_live` | Two polls, stakes that move to zero, a staking contract that a poll replaces by nothing, messages the chain refuses. Is every poll decided, or stuck for ever for one of three reasons? |
| `loterra_terms` | Polls on the split, the jackpot percentage, the worker's fee and a migration pass at any moment of a lottery. What remains of the lottery's invariant, why may a collection be refused, does money leave for another reason, and is the whole contract still a `Raffle`? |
| `loterra_windows` | Polls on the period and the split, donations and moving stakes. When can claims follow collections; are tickets still sold blind; do the answers to queries agree; does the announced round stay until the play and decide it, and is the next one later; do plays leave the parameters as voted? |
| `loterra_live` | Two polls among a period of one, one that overflows, a pot of nothing, a worker's fee of zero and one that repairs it, while the owner turns the switch. Is every lottery played, or stopped for ever for one of three reasons? |
| `lottery_overlap` | Do prizes stay within the jackpot without exception? No: section 6. |
| `loterra_refused` | Can a winner always collect a prize the balance could pay? No: section 6. |
| `loterra_stuck` | Is a lottery that sold a ticket always played, the switch apart? No: section 6. |

The properties are stated, each with the code it is about, at the end of `Lottery`,
`ClaimList`, `Governance`, `Loterra` and `Queries`. Those that take several steps of several actors
to break:

- `RankCountsTickets`, `PaidWithinJackpot`, `WinnersStayFunded`: prizes computed
  from counts that other players' claims move.
- `CountersAgree`, `AnswersAgree`: what separate writes leave in separate maps.
- `RefusalsExplained`: the only four reasons to refuse a collection, whoever claimed and
  whatever terms came into force between claim and collection: no jackpot, less than it
  in the balance, a coin of amount zero (a winner of a rank that a new split sets to
  nothing is refused), a staking contract that does not answer. `WinnersCanCollect`:
  with the terms of instantiate none of them arises.
- `ListedOnceClaimed`: each call of `save_winner` reads what the call before it wrote.
- `TicketsSoldBlind`, `FreshRounds`, `PlayDrawsAnnouncedRound`: times and rounds
  computed apart, from a time that every play moves.
- `MoneyLeavesAsDecided`: who may take how much, over all messages of the contract.
- `ResultsFinal`, `OnePaymentPerWinner`, `ImplementsRaffle`: what is settled stays.
- `WinnersCovered`, `LateClaimsExplained`: the same when polls change the terms; their
  exceptions name the incidents, and each of them is reached in the runs.
- `TalliesMatchVotes`, `PassedByStake`, `EarlyDecisionsBacked`, `PollsFinal`,
  `ImplementsReferendum`: votes, withdrawals, presentations and stakes in any order.
- `ParametersWereVoted`, `PercentagesBounded`, `TokensAccounted`, `OwnersPolls`: what
  polls do to the state, with the truncating casts.
- `EndedPollsDecided`, `EveryLotteryPlayed`: nothing waits for ever, but for the reasons
  they name, and those only if they hold for ever.

Every property has a mutant: a plausible slip in one operator (a player entered
twice, a second claim accepted, heads counted for stakes, ...) that makes it fail.
The mutants are the operators whose comment begins with "Mutant of"; nothing else
uses them.

### Bounds

`MaxTime` and `MaxHeight` end the clock; five seconds of a lottery with a period of
two contain a sale, a play, a claim window, the instant the windows share, a collect
window and the next play, and eight seconds three lotteries. `MaxTickets` and
`MaxBatch` limit the tickets sold: three are enough for two players to share a rank and
for one to hold two ranks. `MaxListed` is the length of a list of addresses in
`ClaimList`: three hold an address twice with another between. The composition takes its
lists from `ClaimLists`. `MaxBalance` ends the donations. Two accounts, one of them
the owner, are enough for claims by one for the other; a third is needed only where a
minority must face two voters (`dao_votes`). Of the six-character tickets over two hex
digits and one other symbol, two well-formed ones and a short one are offered for sale.
drand's genesis, period and security offset are 0, 1 and 2: the smallest offset for
which the sale is safe (10 in the code). The tax is one percent.

`MaxPolls` is the number of polls ever proposed: one is enough for a poll to meet a
lottery or to be decided, two for polls to meet each other (`dao_effects`, `dao_live`)
or for one to repair what the other did (`loterra_live`). `PageLimit` is the length of
a page of holders: in `dao_votes` it is two of three accounts, so that a voter may be
off the page. A u8 has 128 values instead of 256 so that 140 passes its check as 12;
`U64` is 1000. Polls end one block after they start in the runs of the DAO alone, and
at the last block in the composition, where the owner holds all that is bonded and its
vote decides at once. `QuietSpec` of each MC module leaves out the owner's switch and
renouncing (and in `MCLoterra` votes against and withdrawals) where the question is
another; `lottery_rounds` has both, `dao_effects` (`RenounceSpec`) renouncing,
`loterra_live` (`LiveSpec`) has the switch. In `MCLoterra` the owner proposes the
polls, since it may propose every kind, the migration included.
The clock stops in every instance, so deadlock is not checked.

### Fairness

`EveryLotteryPlayed` and `CallableForEveryone` (`LoterraFairness`) assume that blocks keep
coming and that a worker brings a published round (weak fairness), and that somebody
calls play again and again while it is possible and not only until the owner switches the
lottery off (strong fairness): the worker's fee is there to make this happen. Nothing is
assumed of the players, the voters or the owner. The conclusion of `EveryLotteryPlayed`
allows a lottery to wait only if from some moment on it is held for ever by the switch, by
a worker's coin of amount zero (an empty contract or a poll) or by a period past the end
of time (a poll): a lottery that was held and released must be played, which is why the
fairness of the play is strong. Its premise `DueInTime` says that the instance's clock
reaches the time of play and the publication of the round.

`EndedPollsDecided` (`GovernanceFairness`) assumes that blocks keep coming (weak) and
that somebody presents a poll if that keeps being possible (strong: stakes leaving the
staking contract, or a poll that moves it, disable it in between). It has no premise
beside the poll being open: a poll waits for ever only if it is `Stranded` for ever, by a
staking contract that does not answer, by nobody staking, or by a message of its own that
the chain refuses.

## 4. What is proved

All theorems hold for any accounts, ticket strings, hashes, tax, period, drand
parameters, stakes, poll terms and bounds that satisfy the named assumptions:
`AccountsAssumption`, `ChainAssumption`, `HexDigitAssumption`,
`DecimalFractionAssumption`, `LotteryAssumption`, `GovernanceAssumption`,
`TaxAssumption`, `LoterraAssumption`, `AnswersAssumption` and `InputsAssumption`
(finitely many accounts, the contract not among them; amounts, rates, caps and times
are naturals; the tax of a transfer is at most its amount; a security offset of at
least two rounds; hashes long enough to hold a combination; a u8 holds the
percentages; `None` and `Malformed` are no values of the types they stand beside: for
`None` that is what Rust's `Option` guarantees).

| Theorem | Says |
| --- | --- |
| `DebitIsWithin`, `CoinIsWithinOne` | a coin left by deduct_tax costs at most the amount it came from, and is the largest such coin or one less |
| `SpendAlwaysCovered`, `CoinAlwaysLargest` | the same as invariants of `MCTaxation`: `[]SpendCovered`, `[]CoinIsLargest` for any rates, caps and amounts |
| `LotteryTypeCorrect`, `StoredWellFormed`, `NeverLockedForGood` | `LotterySpec => []TypeOK`, `[]TicketsWellFormed`, `[]RenouncedNeverLocked` |
| `TicketsAreBlind`, `RoundsAreFresh`, `CountersAlwaysAgree` | `LotterySpec => TicketsSoldBlind`, `FreshRounds`, `[]CountersAgree` |
| `RanksCounted`, `PrizesAccounted`, `PrizesWithinJackpot` | `LotterySpec => []RankCountsTickets`, `[]PaidAccounted`, `[]PaidWithinJackpot` |
| `FundsAreThere`, `WinnersFunded`, `LotteryInvariant` | `LotterySpec => [](JackpotAtMostHalf /\ FundsCover)`, `[]WinnersStayFunded`, `[]LotteryInv` |
| `RefusalsAlwaysExplained`, `NobodyRefused` | `LotterySpec => []RefusalsExplained`, `[]WinnersCanCollect` |
| `ResultsAreFinal`, `PaidOnce`, `LotteryIsRaffle` | `LotterySpec => ResultsFinal`, `OnePaymentPerWinner`, `ImplementsRaffle` |
| `DaoTypeCorrect`, `PercentagesStayBounded`, `ParametersComeFromPolls` | `GovernanceSpec => []GovernanceTypeOK`, `[]PercentagesBounded`, `[]ParametersWereVoted` |
| `PrivilegedPollsAreOwners`, `TokensAddUp`, `DecidedPollsFinal` | `GovernanceSpec => []OwnersPolls`, `[]TokensAccounted`, `PollsFinal` |
| `TalliesAreRecounts`, `PollsPassByStake`, `EarlyDecisionsAreBacked` | `GovernanceSpec => []TalliesMatchVotes`, `[]PassedByStake`, `EarlyDecisionsBacked` |
| `DaoIsReferendum` | `GovernanceSpec => ImplementsReferendum` |
| `LoterraTypeCorrect`, `LoterraInvariant` | `LoterraSpec => [](TypeOK /\ DaoInv)`, `[]LoterraInv` |
| `WinnersUnderPolls`, `LateClaims`, `LoterraIsRaffle` | `LoterraSpec => []WinnersCovered`, `LateClaimsExplained`, `ImplementsRaffle` |
| `TicketsBlindUnderPolls`, `RoundsFreshUnderPolls` | `LoterraSpec => TicketsSoldBlind`, `FreshRounds` |
| `ResultsFinalUnderPolls`, `PaidOnceUnderPolls`, `RefusalsUnderPolls` | `LoterraSpec => ResultsFinal`, `OnePaymentPerWinner`, `[]RefusalsExplained` |
| `CountersUnderPolls`, `StoredWellFormedUnderPolls`, `NeverLockedUnderPolls` | `LoterraSpec => []CountersAgree`, `[]TicketsWellFormed`, `[]RenouncedNeverLocked` |
| `ParametersVotedWhilePlaying`, `PercentagesBoundedWhilePlaying`, `OwnersPollsWhilePlaying`, `TokensAddUpWhilePlaying` | `LoterraSpec => []ParametersWereVoted`, `[]PercentagesBounded`, `[]OwnersPolls`, `[]TokensAccounted` |
| `TalliesWhilePlaying`, `PassedByStakeWhilePlaying`, `PollsFinalWhilePlaying`, `EarlyDecisionsWhilePlaying` | `LoterraSpec => []TalliesMatchVotes`, `[]PassedByStake`, `PollsFinal`, `EarlyDecisionsBacked` |
| `LoterraIsReferendum` | `LoterraSpec => ImplementsReferendum` |
| `MoneyAsDecided` | `LoterraSpec => MoneyLeavesAsDecided` |
| `PlayDrawsAnnounced`, `AnswersFitTogether` | `LoterraSpec => PlayDrawsAnnouncedRound`, `[]AnswersAgree` |

The argument about money. `PaidWithinJackpot` is not inductive: one more collection
could exceed the jackpot if too much had been paid before. The strengthening
`PaidAccounted` says exactly what has been paid: one share for every winning ticket
whose owner collected. A collection adds one owner's tickets to that count
(`SlotsAtUnion`) and, by `RankCountsTickets`, as many shares to the sum; a claim
leaves the count at zero unless it reopens the lottery. Since a share is the rank's
part of the jackpot divided by at least as many tickets as were paid, and the four
percentages add up to 100, the sum stays within the jackpot (`SharesWithin`).
`FundsCover` adds that balance and payments together hold the jackpot twice, which
follows from the 20 percent that instantiate sets (`JackpotAtMostHalf`: 50 would
do), from the tax never costing more than the amount (`DebitIsWithin`), and gives
`WinnersStayFunded`.

Under polls. `LoterraCases` splits every step of the composition in three: a step of
the lottery that settles none (`QuietLottery`), a play (`PlayStep`), and a proposal or
presentation (`PollStep`), which leaves winners, counts and pots alone and records what
it changes beneath them. The lemmas about the lottery's steps then apply unchanged to
the first two, and the third needs only that the accounts are empty or reopened when
the split changes (`AccountedPoll`), and that a change of the balance is recorded
(`CoverPoll`). `CoverUnderPolls` takes the place of `FundsCover`; the percentage is no
longer bounded by 50, so a play beyond it is recorded as well. `LateClaims` rests on
`PaidAfterDeadline`: once somebody collected, the time is past the deadline that claims
respect, and only a poll on the period moves it backwards or forwards.

The DAO's own theorems carry over in the other direction: a step of the composition is
a step of `GovernanceNext`, or `DaoQuiet`, which leaves polls and ballots alone and the
State as a call of the lottery may leave it: the only parameter such a call touches is
the holders' share, which a play after the bonus brings down to the 20 percent that
`ParametersWereVoted` allows. `DaoPromises` collects the DAO's invariants, since
`PassedByStake` needs the tallies and all of them need `DaoInv` (`PromisesKept`).

Refusals. A share divides the jackpot by at least the winner's own tickets, because
its ranks are among the counts (`RankCountsTickets`), so a winner's prize is at most its
ranks' percentages of the jackpot, which add up to 100 under every split a poll can
pass (`RanksWithinCounts`, `SharesWithin`); the holders' percentage is at most 100, and
deduct_tax never costs more than the amount it is given (`CostWithinJackpot`). What is left
to refuse a collection is what `RefusalsExplained` names; it needs no exception for
lotteries that were reopened, being about one prize and not their sum.

`NobodyRefused` rules the four reasons out under the first terms. It is the longest
argument: `TicketsBacked`, an invariant over all the lotteries of a run, says that the
balance holds the last jackpot twice less what was paid of it, and beside it the price of
every ticket being sold, and that a jackpot is worth at least 199980 for each ticket it
was played for (a fifth of the price, less the worker's fee, rounded down twice). A rank's
count is at most the tickets sold (`CountWithinSold`, by `CountersAgree`), so the smallest
share, one percent of the jackpot divided by them, is some two thousand
(`ShareWorth`), both parts of the prize are two or more (`PartsWorth`), and such a coin
leaves something after a tax of at most its amount (`SendableFromTwo`, `TaxAssumption`).

Where money goes. `MoneyAsDecided` goes through the messages: register only adds, claim
and the votes move nothing, a play spends the fee, a tenth of a tenth of the pot
(`TenthBounds`), a collection spends at most what it enters in `paid`, and among the
effects of a poll only the migration touches the balance.

Tickets. `TicketsAreBlind` is arithmetic: the round is at least two periods past the
floor of `block_time_play`, hence published strictly after it (`RoundAfterPlay`), and
register stops at it. `RoundsAreFresh` adds that a play needs its round published
(`DrawnRounds`), so the next block_time_play, counted from the play, leads to a round
that is not, hence to a later one, also with a period of zero. `CountersAlwaysAgree` adds the positions a purchase occupies to
those held before (`HeldSale`).

The DAO. `DaoInv` (types, numbering of polls, tokens never owed) is inductive and
carries the rest. The tallies are recounts of `cast` (`TallyStep`: a vote adds its units
to one side and none to the other); with them the percentages that
`handle_present_proposal` rounds down become statements about votes
(`StakeCarried`): a yes of at least 50 and a no of at most 33 percent after rounding.
An early decision is taken on votes that carry the weight they were cast with, against
a total read from a page of the holders at the moment of the call. `TallyBacked` turns the
tallies into the stake of the voters: their weights when cast add up to what is compared
with the total, each account voting on one side only (`UnitsOfBoth`), and if nobody's
stake fell since, what they have now is no less. `TokensAccounted` is inductive with
`DaoInv`: a funding that passes takes its amount from the tokens and enters the sum once
(`FundingPasses`), every other step leaves both. The refinement maps a poll to
its outcome and a vote to a ballot with its weight; each handler is then one step of
`Referendum` or a stutter.

The refinement of `Raffle` maps a play to `Settle`, a collection to `Serve`, and to
`Void` a claim or a new split after a payment; the rest stutters. That a `Serve` stays
within its pot is `PaidWithinJackpot` again, so the theorem uses the whole invariant.

Answers. `PlayDrawsAnnounced` is about every step between two plays: no message, poll or
block moves `block_time_play`, hence neither the announced round, which is none before
drand's genesis; the play then draws from the round it finds announced. A query of a
lottery that never was finds nothing in any map, so what the
invariants say of the lotteries that exist extends to every number (`CountersAnywhere`,
`RanksAnywhere`). A client can only count winning tickets as the numbers in the winners'
records, while `RankCountsTickets` counts the tickets themselves: `UnitsCount` gives the
bijection between the two.

Only model-checked: `EveryLotteryPlayed` and `EndedPollsDecided`, because liveness
under fairness and ENABLED are out of the prover's reach; `ListedOnceClaimed`, whose loop
is a fold over a list of any length and would need induction over data; and the three
violations of section 6, which are traces. Every other invariant and every action property
of the runs is a theorem.

## 5. What is left out, and what is assumed

- Messages' encoding, attributes, wrong denominations and wrong amounts: a purchase
  carries its exact price, everything else is an error path. The description of a poll
  and the refusal of funds sent with a message of the DAO are left out.
- The contract's own address is neither a player nor a recipient of a poll.
- Uint128 overflow: amounts on chain stay far below 2^128, and the release profile
  checks overflows (`src/Cargo.toml` 27), so it would be an error path, not a wrap. The
  casts `as u8` and `as u64` do wrap and are modelled (`AsU8`, `AsU64`); the period
  added to the block time in a u64 is a guard of `HandlePlay`.
- The tax rate and cap are constant during a run. The bank refuses a coin of amount
  zero in the runs (`ZeroCoinsAccepted = FALSE`); the theorems hold either way.
- Terrand holds one hash per round and a round is brought once it is published;
  that the hash is the beacon's is Terrand's affair.
- The staking contract answers the stake of an account and the first page of holders
  (`PageLimit`); what it does with the rewards it is sent, and its unbonding periods,
  are not modelled. Stakes may change between any two calls.
- The order in which winners are listed, and the serialisation of answers.
- Not modelled: the JSON schemas and their generator (no behaviour) and the mock
  querier and unit tests (they play the environment of the model).

## 6. Findings

`lottery_overlap`: claims are refused when the block time is *greater* than
`block_time_play - every_block_time_play / 2` (`contract.rs` 362), collections when it
is *less* (474). At exactly that second both are open. TLC's trace: both players
hold a winning ticket, one claims and collects the whole rank, the other claims and
collects in the same block and gets half a rank more. Together they got more than
what the comment at `contract.rs` 295 calls the "Max amount winners can claim". The
history variable `reopened` marks exactly these lotteries (and those whose split a
poll changed after a payment), and the theorems hold for all others.

`loterra_refused`: the comment at `contract.rs` 522 promises "sufficient balance to
handle the transaction", the code compares the balance with the whole jackpot. After a
poll set more than half of the balance aside, the first collection leaves less than the
jackpot and the second winner is refused, although its prize is there.

`loterra_stuck`: the comment at `contract.rs` 249 says "Make the contract callable for
everyone every x blocks". A poll may set the worker's fee to zero percent (668 offers it),
which makes the worker's coin zero (318); a bank that refuses such a coin refuses the
play, while registration has been closed since the play is due (147). The trace ends in a
lottery with a ticket sold and its round published that nobody plays; only a further poll
would repair it. `EveryLotteryPlayed` shows that this, the switch and a period too long
are all that can stop the plays.

Remarks that are no contradiction of a doc or comment but worth knowing:

- A poll's amount is cast to u8 before it is checked (`contract.rs` 649, 655): 268
  passes as 12, and 12 is what comes into force, while `GetPoll` shows 268.
- At `end_height` a poll may still be voted on (894) and may already be presented as
  ended (1026): the order within that block decides.
- A period that does not fit the time is a legal poll (694) and stops the plays (256)
  until a further poll repairs it; a pot of zero percent does so too (312), with the
  worker's part of it.
- A split that sets a rank to nothing (704) refuses the winners of that rank who have not
  collected (the bank refuses their coin), and so does a holders' fee of zero: both are
  reasons of `RefusalsExplained`.
- A poll whose recipient is no address can never be presented with success (1065), nor
  one that lost its staking contract (51) or its stakers (1023): the three reasons of
  `EndedPollsDecided`.

## 7. Hazards without a property

Two hazards of `PROJECT.json` have a guard in the model but no property: a period of
about a century (366), and a ticket price of zero (740, nobody can register, the lottery
is still played). The notes there say why nothing in the code promises more.
