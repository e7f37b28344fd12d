SPECIFICATION Spec
CONSTANTS
    PROGRAMS_PER_BANK = 2
    MAX_BANKS = 2
    Message <- MCMessage
    Configs <- MCConfigs
    ClockModulus = 3
    TickGap = 1
    Input = input
    Httpd = httpd
    TickTask = tick
    Presses <- MCPresses
    FramesFail = TRUE
    MaxInputs = 1
    MaxRequests = 1
    m = m
    n = n
INVARIANTS
    TypeOK
    ToldTheTruth
    ResyncRepairs
    ResyncEndsOverruns
