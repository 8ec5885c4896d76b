---------------------------- MODULE LoterraState ----------------------------
(***************************************************************************)
(* What the lottery and the DAO share: the STATE item, the contract's      *)
(* balance and what it costs to send from it, the accounts, and the        *)
(* storage maps of cw-storage-plus.                                        *)
(*                                                                         *)
(* The fields of State no handler ever assigns (denom_stable,              *)
(* combination_len, poll_default_end_height, the Terrand and cw20          *)
(* addresses, holders_bonus_block_time_end) are constants.                 *)
(***************************************************************************)
EXTENDS Integers, FiniteSets, Sequences, Taxation

CONSTANTS
    Users,              \* accounts that buy tickets and vote
    Owner,              \* info.sender of instantiate
    Contract,           \* env.contract.address
    StakingAddresses,   \* addresses the chain can canonicalize
    StakingContracts,   \* those at which a staking contract answers
    InitBalances,       \* funds instantiate may be sent
    InitPlayTimes,      \* block_time_play given to instantiate, in seconds
    InitPlayEvery,      \* every_block_time_play given to instantiate
    U64,                \* how many values a u64 has, 2^64 in the code
    TaxRate, TaxCap,    \* Terra's tax on denom_stable (external)
    ZeroCoinsAccepted   \* whether the chain sends a coin of amount 0 (external)

Accounts == Users \cup {Owner}
Admins == Accounts \cup {Contract}

ASSUME AccountsAssumption ==
    /\ IsFiniteSet(Users)
    /\ Contract \notin Accounts
    /\ StakingContracts \subseteq StakingAddresses
    /\ InitBalances \subseteq Nat
    /\ InitPlayTimes \subseteq Nat
    /\ InitPlayEvery \subseteq Nat

ASSUME ChainAssumption ==
    /\ U64 \in Nat \ {0}
    /\ TaxRate \in Nat
    /\ TaxCap \in Nat
    /\ ZeroCoinsAccepted \in BOOLEAN

VARIABLES
    state,      \* STATE, the configuration and counters
    balance     \* the contract's balance in denom_stable

HOLDERS_MAX_REWARD == 20
DIV_BLOCK_TIME_BY_X == 2

\* A split of the jackpot over the four ranks, in percent.
PrizeSplits == {s \in [1..4 -> 0..100] : s[1] + s[2] + s[3] + s[4] = 100}

State ==
    [admin : Admins,
     block_time_play : Nat,
     every_block_time_play : Nat,
     jackpot_percentage_reward : 0..100,
     token_holder_percentage_fee_reward : 0..100,
     fee_for_drand_worker_in_percentage : 0..100,
     prize_rank_winner_percentage : PrizeSplits,
     poll_count : Nat,
     price_per_ticket_to_register : Nat,
     loterra_staking_contract_address : StakingAddresses,
     safe_lock : BOOLEAN,
     lottery_counter : Nat \ {0}]

\* The State instantiate stores.
Instantiated(play, every, staking) ==
    [admin |-> Owner,
     block_time_play |-> play,
     every_block_time_play |-> every,
     jackpot_percentage_reward |-> 20,
     token_holder_percentage_fee_reward |-> 50,
     fee_for_drand_worker_in_percentage |-> 1,
     prize_rank_winner_percentage |-> <<87, 10, 2, 1>>,
     poll_count |-> 0,
     price_per_ticket_to_register |-> 1000000,
     loterra_staking_contract_address |-> staking,
     safe_lock |-> FALSE,
     lottery_counter |-> 1]

StateInit ==
    /\ \E play \in InitPlayTimes, every \in InitPlayEvery, staking \in StakingContracts :
           state = Instantiated(play, every, staking)
    /\ balance \in InitBalances

-----------------------------------------------------------------------------
(* Storage maps: a function whose domain is the set of saved keys. *)

Save(map, key, value) ==
    [k \in DOMAIN map \cup {key} |-> IF k = key THEN value ELSE map[k]]

MayLoad(map, key, default) == IF key \in DOMAIN map THEN map[key] ELSE default

EmptyMap == [k \in {} |-> 0]

\* Uint128 times Decimal::percent, rounded down.
Percent(amount, percentage) == (amount * percentage) \div 100

-----------------------------------------------------------------------------
(* Sending coins. *)

\* The bank takes the coin deduct_tax leaves of an amount.
Sendable(amount) ==
    ZeroCoinsAccepted \/ DeductTax(amount, TaxRate, TaxCap) > 0

Spend(amount) == Debit(amount, TaxRate, TaxCap)

-----------------------------------------------------------------------------
(* Admin handlers. *)

\* The owner switches the lottery on and off.
HandleSafeLock(sender) ==
    /\ sender = state.admin
    /\ state' = [state EXCEPT !.safe_lock = ~@]
    /\ UNCHANGED balance

\* Mutant of HandleRenounce: the lock is not looked at.
RenounceLocked(sender) ==
    /\ sender = state.admin
    /\ state' = [state EXCEPT !.admin = Contract]
    /\ UNCHANGED balance

\* The owner hands the admin rights to the contract itself, for good.
HandleRenounce(sender) ==
    /\ sender = state.admin
    /\ ~state.safe_lock
    /\ state' = [state EXCEPT !.admin = Contract]
    /\ UNCHANGED balance

=============================================================================
