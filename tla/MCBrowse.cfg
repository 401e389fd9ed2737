SPECIFICATION FairSpec
CONSTANTS
    Token <- MCToken
    Dot = "."
    Nul = Nul
    Underscored <- MCUnderscored
    Lower <- MCLower
    Octets <- MCOctets
    Local <- MCLocal
    FQDN_SIZE = 64
    NAME_SIZE = 26
    MAX_LABEL = 20
    NULL = NULL
    ServiceTypes <- MCServiceTypes
    Families <- MCFamilies
    Datagrams <- MCDatagrams
    TIMEOUT = 2
    Shifts <- MCShifts
    MAX_SETTINGS = 1
    MAX_ELAPSED = 3
    MAX_ARRIVALS = 2
INVARIANTS
    TypeOK
    ScreenAsReceived
    CountExact
    DeadlineKept
    BothServed
PROPERTIES
    Ends
