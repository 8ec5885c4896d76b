SPECIFICATION FairLoterraSpec
CONSTANTS
    p1 = p1
    p2 = p2
    staking = staking
    other = other
    contract = contract
    Contract = contract
    None = None
    Malformed = Malformed
    Users = {p1}
    Owner = p2
    StakingAddresses = {staking, other}
    StakingContracts = {staking}
    Symbol <- MCSymbol
    HexDigit <- MCHexDigit
    Strings <- OneString
    Hashes <- OneHash
    InitBalances = {0}
    InitPlayTimes = {1}
    InitPlayEvery = {2}
    U64 = 1000
    U8 = 128
    DECIMAL_FRACTION = 100
    TaxRate = 1
    TaxCap = 2000
    ZeroCoinsAccepted = FALSE
    DRAND_GENESIS_TIME = 0
    DRAND_PERIOD = 1
    DRAND_NEXT_ROUND_SECURITY = 2
    NANOS_PER_SECOND = 1
    HoldersBonusEnd = 4
    Donations = {}
    BlockIntervals = {1}
    MaxTime = 4
    MaxTickets = 1
    MaxBatch = 1
    MaxBalance = 0
    PollDefaultEndHeight = 3
    PollMsgs <- FreeWorkPoll
    HolderOrder <- ListOrder
    PageLimit = 2
    Stakes = {}
    InitStakes <- OwnerStakes
    InitTokens = {0}
    ClaimLists <- MCLists
    MaxPolls = 1
    MaxHeight = 4
PROPERTIES
    CallableForEveryone
\* The clock and the number of polls of the instance are bounded.
CHECK_DEADLOCK FALSE
