SPECIFICATION Spec
CONSTANTS
    factory = factory
    small = small
    large = large
    NotJson = NotJson
    NoShape = NoShape
    NoBanks = NoBanks
    Missing = Missing
    Off = Off
    Defaults = factory
    Configs <- MCConfigs
    Oversize <- MCOversize
    Partial <- MCPartial
INVARIANTS
    TypeOK
    SavedIsDurable
    AnnouncedIsStored
PROPERTIES
    RefinesDurableConfig
