SPECIFICATION FairSpec
CONSTANTS
    Packets <- MCPackets
    Offsets = {0, 2}
    OutLens = {1, 3, 5}
    DOT = 46
INVARIANTS
    TypeOK
    StaysInBounds
    NameIsMeaning
    NextOffsetIsEnd
    EchoFaithful
PROPERTIES
    Returns
