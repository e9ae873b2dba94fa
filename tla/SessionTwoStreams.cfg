SPECIFICATION Spec
CONSTANTS
    Audio = {a1, a2}
    Socket = {w1}
    Nobody = Nobody
    MaxPos = 1
INVARIANT OneStreamPerSession
CHECK_DEADLOCK FALSE
