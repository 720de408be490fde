SPECIFICATION CatalogSpec
CONSTANTS
    Rules = {r1, r2, r3}
    Rates = {f1, f2, f3}
    o1 = o1
    s1 = s1
    s2 = s2
    Scopes = {s1}
    Priced = {s1}
    Eur = Eur
    Usd = Usd
    Editors = {e1, e2}
    Reviewers = {v1}
    None = None
    MaxTime = 2
    Load <- MCLoad
    MaxReviewed = 2
    Runs = {b1}
    Requests = {q1}
    Proposals <- MCProposals
    NewRates = {1, 2}
    Providers = {p1, p2}
    Routes = {1, 2, 3}
    Slugs = {"a", "b"}
    Pattern <- MCPattern
    PriceScope <- MCPriceScope
    Operators = {o1, o2}
    CandidateBound = 3
INVARIANTS
    AccessViewsAgree
    PairIsCoherent
PROPERTIES
    CatalogAsReviewed
    OnlyFutureRepriced
    SwitchedOffStaysOff
CHECK_DEADLOCK FALSE
SYMMETRY Interchangeable
