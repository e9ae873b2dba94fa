SPECIFICATION Spec
CONSTANTS
    Audio = {a1, a2, a3}
    Socket = {w1}
    Nobody = Nobody
    MaxPos = 2
SYMMETRY Symmetry
INVARIANTS
    TypeOK
    OneStreamPerContext
    SignalNeverBlocks
    SocketKnowsStart
    StartPosHasStream
    NobodyDangles
\* Every request is served once.
CHECK_DEADLOCK FALSE
