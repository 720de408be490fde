CONSTANTS
    k1 = k1
    r1 = r1
    r2 = r2
    Key = {k1}
    Request = {r1, r2}
    Load <- MCLoad
    NoLimit = NoLimit
    NoRequest = NoRequest
    NoUsage = NoUsage
    KeyOf <- MCKeyOf
    Amount <- MCAmount
    Limits <- MCLimits
SPECIFICATION ResponsesSpec
INVARIANTS HostedEndsAccounted KeptIsCharged
CHECK_DEADLOCK FALSE
