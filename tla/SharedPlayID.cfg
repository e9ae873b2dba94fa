SPECIFICATION RequestsSpec
CONSTANTS
    CSN = CSN
    YouTube = YouTube
    MaxRows = 1
    Socket = {s1}
    Http = {}
    Nonce = {}
    NoMessage = NoMessage
    MaxSent = 3
INVARIANT
    RemovesNoOtherTrack
CHECK_DEADLOCK FALSE
