SPECIFICATION MCSpec
CONSTANTS
    Listener = {l1, l2, l3}
    Leaver = {l1, l2}
    Capacity = 3
    MaxChunk = 4
    CSN = CSN
    YouTube = YouTube
    MaxRows = 2
    Socket = {s1}
    Http = {h1}
    Nonce = {1}
    NoMessage = NoMessage
    MaxSent = 2
    Audio = {l1}
    Setter = {k1, k2}
    WebSocket = {s1}
    Text = {"a", "b"}
    NoText = ""
    MaxTime = 1
    MaxLine = 2
INVARIANTS
    ServerTypeOK
    ChannelsSuffice
    NoncesWork
    RemovesTheTrackMeant
    NewsReachesEverybody
    LyricsKeepTime
PROPERTIES
    NoChunkDropped
    ChunkGetsOutToStayers
\* The encoder stops after MaxChunk chunks, clients stop asking, and lyrics are
\* made once.
CHECK_DEADLOCK FALSE
