SPECIFICATION Spec
CONSTANTS
    p1 = p1
    p2 = p2
    Pages = {p1, p2}
    ProgramsPerBank = 1
    PagePrograms = 2
    MaxBanks = 2
    MaxMessages = 1
    Texts = {"", "Demo", "Demo ALT", "Long name", "Cut name", "Mended name", "Cut mended name", "PC", "one_time"}
    NoText = ""
    Demo = "Demo"
    DemoAlt = "Demo ALT"
    Cut <- MCCut
    AsRead <- MCAsRead
    Numbers <- MCNumbers
    Uint32 <- MCUint32
    CastUint32 <- MCCastUint32
    Json <- MCJson
    TypedBanks <- MCTypedBanks
    Imports <- MCImports
    InitialConfigs <- MCInitialConfigs
    MaxEvents = 2
    MaxLoads = 2
    MaxPosts = 1
PROPERTIES
    SavedIsWhatWasSent
CHECK_DEADLOCK FALSE
