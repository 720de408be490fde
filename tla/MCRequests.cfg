SPECIFICATION RequestsSpec
CONSTANTS
    None = None
    Bad = Bad
    Limit <- MCLimit
    Setting <- MCSetting
    Client <- MCClient
    Load <- MCLoad
    k1 = k1 k2 = k2 r1 = r1 r2 = r2 r3 = r3 ra = ra rb = rb
    Request = {r1, r2, r3}
    Sender <- MCSender
    Route = {ra, rb}
    Provider = {1, 2}
    ProviderOf <- MCProviderOf
    OpenAI = 1
    Allowed <- MCAllowed
    Id = {"x"}
    Offered <- MCOffered
INVARIANTS
    RoundtripsAreClosed
    ForwardedIsCovered
    ReplayedIsVerified
    BudgetCoversRequest
    DeletedIsGone
    ReachesOwnLiveObject
    StoredIsReferenced
SYMMETRY MCSymmetry
CHECK_DEADLOCK FALSE
