SPECIFICATION FairSpec
CONSTANTS
    Listener = {l1, l2}
    Leaver = {l1}
    Capacity = 3
    MaxChunk = 4
PROPERTY
    ChunkGetsOut
CHECK_DEADLOCK FALSE
