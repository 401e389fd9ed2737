SPECIFICATION FairSpec
CONSTANTS
    a1 = a1
    a2 = a2
    Token <- MCToken
    Dot = "."
    Nul = Nul
    Underscored <- MCUnderscored
    Lower <- MCLower
    Octets <- MCOctets
    Local <- MCLocal
    FQDN_SIZE = 64
    NAME_SIZE = 64
    MAX_LABEL = 10
    NULL = NULL
    Addr = {a1, a2}
    DEFAULT_TTL = 120
    INITIAL_CAPACITY = 1
    Files <- MCFiles
    PORT_RANGE = 65536
    MAX_TXT_RECORDS = 1
INVARIANTS
    TypeOK
    LoadedAsDeclared
    CountIsExact
PROPERTIES
    LoadEnds
