SPECIFICATION RenounceSpec
CONSTANTS
    p1 = p1
    p2 = p2
    p3 = p3
    staking = staking
    other = other
    contract = contract
    Contract = contract
    None = None
    Malformed = Malformed
    Users = {p1}
    Owner = p2
    StakingAddresses = {staking, other, p3}
    StakingContracts = {staking, other}
    InitBalances = {100}
    InitPlayTimes = {2}
    InitPlayEvery = {2}
    U64 = 1000
    U8 = 128
    DECIMAL_FRACTION = 100
    TaxRate = 1
    TaxCap = 2000
    ZeroCoinsAccepted = FALSE
    PollDefaultEndHeight = 1
    PollMsgs <- DaoPolls
    HolderOrder <- ListOrder
    PageLimit = 3
    Stakes = {1}
    InitStakes <- EvenStakes
    InitTokens = {3}
    MaxPolls = 2
    MaxHeight = 1
INVARIANTS
    ParametersWereVoted
    PercentagesBounded
    GovernanceTypeOK
    OwnersPolls
    TokensAccounted
PROPERTIES
    PollsFinal
\* The height and the number of polls of the instance are bounded.
CHECK_DEADLOCK FALSE
