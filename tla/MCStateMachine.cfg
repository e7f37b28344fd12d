SPECIFICATION FairSpec
CONSTANTS
    PROGRAMS_PER_BANK = 2
    MAX_BANKS = 3
    Message <- MCMessage
    Configs <- MCConfigs
    ClockModulus = 5
    TickGap = 2
    MaxIdle = 7
    p = p
    q = q
    a = a
    tap = tap
    tuner = tuner
    fn = fn
INVARIANTS
    TypeOK
    BanksInRange
    ShownIsCurrent
    LedTellsWhatSounds
    AltWhereItBelongs
    BrowseDeadline
    BrowseTiming
PROPERTIES
    NoEarlyTimeout
    BankChangeIsHeard
    BrowseEnds
