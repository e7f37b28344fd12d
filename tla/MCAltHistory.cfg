SPECIFICATION HistorySpec
CONSTANTS
    PROGRAMS_PER_BANK = 3
    MAX_BANKS = 2
    Message <- MCMessage
    Configs <- MCConfigs
    ClockModulus = 1
    TickGap = 0
    MaxIdle = 1
    MaxPresses = 6
    m = m
    a = a
INVARIANTS
    AltMatchesPresses
