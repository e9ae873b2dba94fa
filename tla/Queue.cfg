SPECIFICATION FairSpec
CONSTANTS
    Pusher = {p1, p2}
    Consumer = {c1, c2}
    Remover = {r1}
    Value = {v1, v2}
    NoValue = NoValue
    NoOne = NoOne
    MaxLen = 3
INVARIANTS
    TypeOK
    LockDiscipline
    NoEmptyTake
PROPERTIES
    ImplementsFifo
    SignalServesSomebody
\* Nobody has to push: all consumers may stay parked on an empty queue.
CHECK_DEADLOCK FALSE
