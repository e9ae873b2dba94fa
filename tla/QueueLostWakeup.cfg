SPECIFICATION FairSpec
CONSTANTS
    Pusher = {p1, p2}
    Consumer = {c1}
    Remover = {}
    Value = {v1, v2}
    NoValue = NoValue
    NoOne = NoOne
    MaxLen = 3
PROPERTY
    NonEmptyIsServed
CHECK_DEADLOCK FALSE
