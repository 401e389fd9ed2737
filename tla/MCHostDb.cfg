SPECIFICATION Spec
CONSTANTS
    a1 = a1
    a2 = a2
    a3 = a3
    Token <- MCToken
    Dot = "."
    Nul = Nul
    Underscored <- MCUnderscored
    Lower <- MCLower
    Octets <- MCOctets
    Local <- MCLocal
    FQDN_SIZE = 40
    NAME_SIZE = 40
    MAX_LABEL = 10
    Addr = {a1, a2, a3}
    Params <- MCParams
    QueryNames <- MCQueryNames
    NULL = NULL
    DEFAULT_TTL = 120
    INITIAL_CAPACITY = 2
SYMMETRY Symmetry
INVARIANTS
    TypeOK
    UniqueFqdn
    HeapExact
    CapacityCovers
    StoredServicesAreValid
PROPERTIES
    IdentityAndOrderKept
    ImplementsDirectory
