SPECIFICATION MaintSpec
CONSTANTS
    k1 = k1 k2 = k2 a1 = a1 a2 = a2 a3 = a3 b1 = b1 t1 = t1 t2 = t2 m1 = m1 m2 = m2
    i1 = i1 i2 = i2 c1 = c1 f1 = f1 f2 = f2 x = x y = y z = z None = None
    Request = {a1, a2, a3, b1}
    KeyOf <- MCKeyOf
    Route = {t1, t2}
    Compatible <- MCCompatible
    Load <- MCLoad
    MaxVersions = 8
    Ttl = 1
    Maintainer = {x, y, z}
    ValidUntil <- MCValidUntil
INVARIANTS SentWhereProduced EveryItemBacked
PROPERTIES ExtendedAsReviewed
SYMMETRY Interchangeable
CHECK_DEADLOCK FALSE
