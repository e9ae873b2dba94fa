SPECIFICATION Spec
CONSTANTS
    Track = {t1, t2}
    PlayIDs = {t1, t2}
    Remover = {r1}
    Socket = {}
    PlayID <- OwnPlayID
    Player = Player
    NoOne = NoOne
    NoTrack = NoTrack
INVARIANT
    QueueListsWhatWillPlay
CHECK_DEADLOCK FALSE
