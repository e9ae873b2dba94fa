SPECIFICATION FairSpec
CONSTANTS
    Track = {t1, t2}
    PlayIDs = {t1, t2}
    Remover = {r1, r2}
    Socket = {w1}
    PlayID <- OwnPlayID
    Player = Player
    NoOne = NoOne
    NoTrack = NoTrack
INVARIANTS
    TypeOK
    MirrorLength
    MirrorExact
    PopCallbackNeverStuck
    SocketsFollow
PROPERTIES
    ImplementsFifo
    MuxReleased
\* Clients may all fall silent.
CHECK_DEADLOCK FALSE
