SPECIFICATION LotterySpec
CONSTANTS
    p1 = p1
    p2 = p2
    contract = contract
    staking = staking
    Contract = contract
    StakingAddresses = {staking}
    StakingContracts = {staking}
    Symbol <- MCSymbol
    HexDigit <- MCHexDigit
    Users = {p1}
    Owner = p2
    InitBalances = {0}
    InitPlayTimes = {2}
    InitPlayEvery = {2}
    Strings <- OneString
    Hashes <- OneHash
    DECIMAL_FRACTION = 100
    U64 = 1000
    TaxRate = 1
    TaxCap = 2000
    DRAND_GENESIS_TIME = 0
    DRAND_PERIOD = 1
    DRAND_NEXT_ROUND_SECURITY = 2
    NANOS_PER_SECOND = 1
    HoldersBonusEnd = 4
    ZeroCoinsAccepted = FALSE
    Donations = {1000000}
    BlockIntervals = {1, 2}
    MaxTime = 8
    MaxTickets = 2
    MaxBatch = 1
    MaxBalance = 2000000
    MaxListed = 3
INVARIANTS
    RenouncedNeverLocked
PROPERTIES
    TicketsSoldBlind
    FreshRounds
    ResultsFinal
    OnePaymentPerWinner
    ImplementsRaffle
\* The clock of the instance stops at MaxTime.
CHECK_DEADLOCK FALSE
