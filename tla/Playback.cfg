SPECIFICATION MCSpec
CONSTANTS
    Track = {t1, t2}
    AsleepTrack = {t1}
    Pinger = {p1}
    Skipper = {s1}
    BufferCap = 2
    MaxSamples = 1
    Player = Player
    Monitor = Monitor
    Default = Default
    NoTrack = NoTrack
    NoOne = NoOne
INVARIANTS
    TypeOK
    AnnouncedWhereItStarts
    BufferHoldsCurrent
    StandbyIsHeld
PROPERTIES
    SkipHitsTrackShown
    TakenTrackEnds
    KeepAliveAnsweredBusy
\* Clients may all fall silent.
CHECK_DEADLOCK FALSE
