SPECIFICATION QuietSpec
CONSTANTS
    p1 = p1
    p2 = p2
    p3 = p3
    staking = staking
    other = other
    contract = contract
    Contract = contract
    None = None
    Malformed = Malformed
    Users = {p1, p2}
    Owner = p3
    StakingAddresses = {staking, other, p3}
    StakingContracts = {staking}
    InitBalances = {100}
    InitPlayTimes = {2}
    InitPlayEvery = {2}
    U64 = 1000
    U8 = 128
    DECIMAL_FRACTION = 100
    TaxRate = 1
    TaxCap = 2000
    ZeroCoinsAccepted = FALSE
    PollDefaultEndHeight = 1
    PollMsgs <- OnePoll
    HolderOrder <- ListOrder
    PageLimit = 2
    Stakes = {0, 1, 2}
    InitStakes <- EvenStakes
    InitTokens = {2}
    MaxPolls = 1
    MaxHeight = 2
INVARIANTS
    TalliesMatchVotes
    PassedByStake
PROPERTIES
    EarlyDecisionsBacked
    ImplementsReferendum
\* The height and the number of polls of the instance are bounded.
CHECK_DEADLOCK FALSE
