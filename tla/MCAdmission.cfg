CONSTANTS
    k1 = k1
    k2 = k2
    r1 = r1
    r2 = r2
    r3 = r3
    Request = {r1, r2, r3}
    Streaming = {r1}
    Tokens <- MCTokens
    RequestLimit = 2
    TokenLimit = 2
    ConcurrencyLimit = 1
    Window = 2
    TTL = 2
    Heartbeat = 1
    Grace = 1
    MaxTime = 3
    KeyOf <- MCKeyOf
    Load <- MCLoad
SPECIFICATION AdmissionSpec
INVARIANTS LimitsHold StreamKeepsSlot WaitersWithinCaps SlotIsDue
PROPERTY WaitEnds
CHECK_DEADLOCK FALSE
