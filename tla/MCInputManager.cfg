SPECIFICATION Spec
CONSTANTS
    ButtonCount = 2
    Threshold <- MCThreshold
    DEBOUNCE_SAMPLES = 2
    ClockModulus = 5
    MaxBlock = 2
    MaxHeld = 4
INVARIANTS
    TypeOK
    PressesAreReportedOnce
    EveryPressCountsOnce
PROPERTIES
    LongMeansHeld
