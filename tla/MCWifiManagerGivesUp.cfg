SPECIFICATION FairSpec
CONSTANTS
    home = home
    far = far
    p = p
    q = q
    None = None
    ApName = ApName
    Ssid <- MCSsid
    Pass <- MCPass
    Accepted <- MCAccepted
    Unreadable <- MCUnreadable
    WIFI_MGR_MAX_STA_TRIES = 2
PROPERTIES
    GivingUpFallsBack
