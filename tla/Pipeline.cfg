SPECIFICATION FairSpec
CONSTANTS
    ReadLen = 2
    BufferSize = 3
    MaxFrame = 5
    MaxPacket = 2
    BufferCap = 1
    SourceCap = 1
    Frame = 2
    OutCap = 2
INVARIANTS
    TypeOK
    ResourcesReturned
    DecoderLosesNothing
    ChunkStartsAtPos
    ClientsHearTheTrack
    NothingLeftBehind
PROPERTIES
    StreamReturns
\* The track ends.
CHECK_DEADLOCK FALSE
