SPECIFICATION FairSpec
CONSTANTS
    h1 = h1
    h2 = h2
    c1 = c1
    c2 = c2
    Token <- MCToken
    Dot = "."
    Nul = Nul
    Underscored <- MCUnderscored
    Lower <- MCLower
    Octets <- MCOctets
    Local <- MCLocal
    FQDN_SIZE = 64
    NAME_SIZE = 64
    MAX_LABEL = 10
    TxtOctets <- MCTxtOctets
    MAX_TXT = 4
    NULL = NULL
    OUT_LEN = 190
    MAX_FOUND = 2
    Hosts <- MCHosts
    Registry <- MCRegistry
    HostName <- MCHostName
    Browsers <- MCBrowsers
    Clients <- MCClients
    Config <- MCConfig
    LeftOver <- MCLeftOver
    Ports <- MCPorts
    BrowsedType <- Http
    Outside <- MCOutside
    MDNS_PORT = 5353
    MAX_OTHERS = 1
    MAX_REPEATS = 1
    MAX_STOPS = 1
INVARIANTS
    TypeOK
    AnswersAreWanted
    NobodyForgotten
PROPERTIES
    ComesToRest
CHECK_DEADLOCK FALSE
