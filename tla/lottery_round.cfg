SPECIFICATION QuietSpec
CONSTANTS
    p1 = p1
    p2 = p2
    contract = contract
    staking = staking
    Contract = contract
    StakingAddresses = {staking}
    StakingContracts = {staking}
    Symbol <- MCSymbol
    HexDigit <- MCHexDigit
    Users = {p1}
    Owner = p2
    InitBalances = {0}
    InitPlayTimes = {2}
    InitPlayEvery = {2}
    Strings <- MCStrings
    Hashes <- MCHashes
    DECIMAL_FRACTION = 100
    U64 = 1000
    TaxRate = 1
    TaxCap = 2000
    DRAND_GENESIS_TIME = 0
    DRAND_PERIOD = 1
    DRAND_NEXT_ROUND_SECURITY = 2
    NANOS_PER_SECOND = 1
    HoldersBonusEnd = 4
    ZeroCoinsAccepted = FALSE
    Donations = {}
    BlockIntervals = {1}
    MaxTime = 5
    MaxTickets = 3
    MaxBatch = 2
    MaxBalance = 0
    MaxListed = 3
INVARIANTS
    TypeOK
    TicketsWellFormed
    RankCountsTickets
    PaidWithinJackpot
    WinnersStayFunded
    WinnersCanCollect
    CountersAgree
    LotteryInv
    ListedOnceClaimed
\* The clock of the instance stops at MaxTime.
CHECK_DEADLOCK FALSE
