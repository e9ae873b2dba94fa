SPECIFICATION FairSpec
CONSTANTS
    Track = {t1}
    Pinger = {p1}
    Skipper = {}
    BufferCap = 2
    MaxSamples = 0
    Player = Player
    Monitor = Monitor
    Default = Default
    NoTrack = NoTrack
    NoOne = NoOne
PROPERTY
    KeepAliveAnswered
CHECK_DEADLOCK FALSE
