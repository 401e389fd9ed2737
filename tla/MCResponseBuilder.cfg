SPECIFICATION FairSpec
CONSTANTS
    Token <- MCToken
    Dot = "."
    Nul = Nul
    Underscored = {"_h", "_t"}
    Lower <- MCLower
    Octets <- MCOctets
    Local <- MCLocal
    FQDN_SIZE = 16
    NAME_SIZE = 16
    MAX_LABEL = 8
    TxtOctets <- MCTxtOctets
    MAX_TXT = 4
    NULL = NULL
    Questions <- MCQuestions
    Lists <- MCLists
    OutLens <- MCOutLens
INVARIANTS
    TypeOK
    WritesInBounds
    RecordsAsSpecified
    LengthMeansAnswers
PROPERTIES
    CommittedBytesStable
    Returns
