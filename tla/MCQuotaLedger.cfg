CONSTANTS
    k1 = k1
    r1 = r1
    r2 = r2
    Key = {k1}
    Request = {r1, r2}
    NoLimit = NoLimit
    NoRequest = NoRequest
    KeyOf <- MCKeyOf
    Amount <- MCAmount
    Limits <- MCLimits
SPECIFICATION Spec
INVARIANTS CountersAgree NoOverspend FenceExclusive
PROPERTIES KeepsBudget
