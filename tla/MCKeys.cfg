SPECIFICATION KeysSpec
CONSTANTS
    Keys = {1, 2, 3}
    Tasks = {t1}
    None = None
    Load <- MCLoad
    p1 = p1
    p2 = p2
    p3 = p3
    b1 = b1
    b2 = b2
    Batches = {b1, b2}
    Pins <- MCPins
    Moves <- MCMoves
    MaxRequests = 1
    MaxValid = 1
    Clones = {o1}
    Owners = {w1, w2}
    Durations = {1}
INVARIANTS
    FencedIsFinite
    NoCircularWait
PROPERTIES
    BoundKeepsBudget
    KeysAsReviewed
CHECK_DEADLOCK FALSE
SYMMETRY MCOwners
