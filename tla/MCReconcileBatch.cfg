CONSTANTS
    k1 = k1
    k2 = k2
    r1 = r1
    r2 = r2
    r3 = r3
    Key = {k1, k2}
    Request = {r1, r2, r3}
    NoLimit = NoLimit
    NoRequest = NoRequest
    KeyOf <- MCKeyOf
    Amount <- MCAmount
    Limits <- MCLimits
    BatchLimits = {1, 2}
    Groups <- MCGroups
SPECIFICATION BatchSpec
INVARIANTS LedgerKept
PROPERTIES SettledUnlessBlocked
CHECK_DEADLOCK FALSE
