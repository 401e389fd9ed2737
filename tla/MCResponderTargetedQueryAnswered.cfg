SPECIFICATION Spec
CONSTANTS
    a1 = a1
    a2 = a2
    a3 = a3
    Token <- MCToken
    Dot = "."
    Nul = Nul
    Underscored <- MCUnderscored
    Lower <- MCLower
    Octets <- MCOctets
    Local <- MCLocal
    FQDN_SIZE = 64
    NAME_SIZE = 64
    MAX_LABEL = 10
    TxtOctets <- MCTxtOctets
    MAX_TXT = 4
    NULL = NULL
    Addr = {a1, a2}
    Params <- MCParams
    DEFAULT_TTL = 120
    INITIAL_CAPACITY = 1
    HostNames <- MCHostNames
    Datagrams <- MCDatagrams
    OUT_LEN = 190
    MAX_FOUND = 2
    RX_QUEUE = 1
    MAX_SIGNALS = 2
INVARIANT TargetedQueryAnswered
